-------------------------- MODULE Deployment_proofs --------------------------
(* Theorems about Deployment for any number of deployers, models and         *)
(* versions.  Types and DevicesAsAsked need no assumption on overlap; the    *)
(* rest of IInv is about a deployer that is alone.                           *)
EXTENDS Deployment, TLAPS

LEMMA InitInv == Init => IInv
  BY DeploymentAssumption DEF Init, IInv, TypeOK, BackendInv, DevicesAsAsked, OneModel,
     PreparedAsAsked, ServesWhatWasDeployed, LoneInv, Exists, WorkersOf, Steps, Outcomes, AtModel

-----------------------------------------------------------------------------
(* What the steps share. *)

ClientTypes ==
    /\ pc \in [Deployer -> Steps]
    /\ model \in [Deployer -> ModelId \cup {None}] /\ version \in [Deployer -> Version \cup {None}]
    /\ instance \in [Deployer -> Instance \cup {None}] /\ devices \in [Deployer -> Devices \cup {None}]
    /\ oldInstance \in [Deployer -> Instance \cup {None}]
    /\ polls \in [Deployer -> 0..MaxPolls] /\ outcome \in [Deployer -> Outcomes]

BackendTypes ==
    /\ config \in [ModelId -> Configuration \cup {None}]
    /\ compiled \in [ModelId -> Version \cup {None}] /\ compiling \in [ModelId -> Version \cup {None}]
    /\ inactive \subseteq ModelId /\ workers \subseteq Worker

\* What deployer d knows at its step.
LocalsKnown(d) ==
    /\ pc[d] # "idle" => version[d] # None /\ instance[d] # None /\ devices[d] # None
    /\ pc[d] \in AtModel => model[d] # None
    /\ pc[d] \in {"stop", "update"} => oldInstance[d] # None

\* The locals of d stay as they are.
Same(d) ==
    /\ pc'[d] = pc[d] /\ model'[d] = model[d] /\ version'[d] = version[d]
    /\ instance'[d] = instance[d] /\ devices'[d] = devices[d]
    /\ oldInstance'[d] = oldInstance[d] /\ outcome'[d] = outcome[d]

Others(d) == \A c \in Deployer \ {d} : Same(c)

LEMMA TypesSplit == TypeOK <=> ClientTypes /\ BackendTypes /\ \A d \in Deployer : LocalsKnown(d)
  BY DEF TypeOK, ClientTypes, BackendTypes, LocalsKnown

\* Goto moves one deployer and nothing else.
LEMMA GotoEffect ==
    ASSUME ClientTypes, NEW d \in Deployer, NEW s \in Steps, Goto(d, s)
    PROVE  /\ ClientTypes' /\ Others(d) /\ pc'[d] = s
           /\ UNCHANGED <<model, version, instance, devices, oldInstance, polls, outcome>>
  BY DEF ClientTypes, Goto, Others, Same

\* The end of a call keeps what was deployed to where.
LEMMA EndEffect ==
    ASSUME ClientTypes, NEW d \in Deployer, NEW how \in Outcomes, End(d, how)
    PROVE  /\ ClientTypes' /\ Others(d) /\ pc'[d] = "idle" /\ outcome'[d] = how
           /\ model' = model /\ version' = version
  BY DeploymentAssumption DEF ClientTypes, End, Others, Same, Steps

LEMMA RaiseEffect ==
    ASSUME ClientTypes, NEW d \in Deployer, Raise(d)
    PROVE  /\ ClientTypes' /\ Others(d) /\ pc'[d] = "idle" /\ outcome'[d] = "raised"
           /\ model' = model /\ version' = version
  BY EndEffect DEF Raise, Outcomes

\* What IInv says of deployer d.
Own(d) ==
    /\ pc[d] \in AtModel => Exists(model[d]) /\ config[model[d]].devices = devices[d]
    /\ Alone =>
        /\ LoneInv(d)
        /\ pc[d] \in {"upload", "alert", "poll"} => config[model[d]].instance = instance[d]
        /\ outcome[d] = "deployed" => \A w \in WorkersOf(model[d]) : Renewed(d, w)

Parts ==
    /\ ClientTypes /\ BackendTypes /\ BackendInv /\ OneModel
    /\ \A d \in Deployer : LocalsKnown(d) /\ Own(d)

LEMMA InvSplit == IInv <=> Parts
  <1>1. IInv => \A d \in Deployer : Own(d)
    BY DEF IInv, Own, DevicesAsAsked, PreparedAsAsked, ServesWhatWasDeployed
  <1>2. ASSUME \A d \in Deployer : Own(d)
        PROVE  /\ DevicesAsAsked /\ PreparedAsAsked /\ ServesWhatWasDeployed
               /\ Alone => \A d \in Deployer : LoneInv(d)
    BY <1>2 DEF Own, DevicesAsAsked, PreparedAsAsked, ServesWhatWasDeployed, LoneInv
  <1> QED BY <1>1, <1>2, TypesSplit DEF IInv, Parts

\* No step takes a model away or changes its number of devices.
KeepsDevices ==
    \A m \in ModelId : Exists(m) => Exists(m)' /\ config'[m].devices = config[m].devices

LEMMA LoneDeployer == ASSUME NEW c \in Deployer, NEW d \in Deployer, Alone PROVE c = d
  BY DEF Alone

\* A deployer's step keeps IInv if it keeps what IInv says of that deployer
\* and of the backend: the others are not alone.
LEMMA StepOfOne ==
    ASSUME IInv, NEW d \in Deployer, Others(d), KeepsDevices, ClientTypes', BackendTypes',
           BackendInv', OneModel', LocalsKnown(d)', Own(d)'
    PROVE  IInv'
  <1>1. ASSUME NEW c \in Deployer, c # d PROVE LocalsKnown(c)' /\ Own(c)'
    <2>1. LocalsKnown(c) /\ Own(c) BY InvSplit DEF Parts
    <2>2. Same(c) BY <1>1 DEF Others
    <2>3. LocalsKnown(c)' BY <2>1, <2>2 DEF LocalsKnown, Same
    <2>4. ~Alone /\ ~Alone' BY <1>1 DEF Alone
    <2>5. pc[c] \in AtModel => model[c] \in ModelId BY <2>1, InvSplit DEF Parts, LocalsKnown, ClientTypes
    <2>6. Own(c)' BY <2>1, <2>2, <2>4, <2>5 DEF Own, Same, KeepsDevices
    <2> QED BY <2>3, <2>6
  <1>2. \A c \in Deployer : LocalsKnown(c)' /\ Own(c)' BY <1>1
  <1>3. Parts' BY <1>2 DEF Parts
  <1> QED BY <1>3, InvSplit, PTL

\* A call that ends without having deployed leaves nothing to show of it.
LEMMA Leaving ==
    ASSUME IInv, NEW d \in Deployer, Others(d), KeepsDevices, ClientTypes', BackendTypes',
           BackendInv', OneModel', pc'[d] = "idle", outcome'[d] # "deployed"
    PROVE  IInv'
  <1>1. LocalsKnown(d)' BY DEF LocalsKnown, AtModel
  <1>2. Own(d)' BY DEF Own, LoneInv, AtModel
  <1> QED BY <1>1, <1>2, StepOfOne

LEMMA BackendUntouched ==
    ASSUME IInv, UNCHANGED backendVars
    PROVE  BackendTypes' /\ BackendInv' /\ OneModel' /\ KeepsDevices
  <1> USE DEF backendVars
  <1>1. BackendTypes' /\ BackendInv' BY InvSplit DEF Parts, BackendTypes, BackendInv, Exists
  <1>2. OneModel' /\ KeepsDevices
    BY InvSplit DEF Parts, OneModel, Alone, Exists, KeepsDevices
  <1> QED BY <1>1, <1>2

\* The call ends, and the backend is as it was.
LEMMA LeavingUntouched ==
    ASSUME IInv, NEW d \in Deployer, NEW how \in Outcomes \ {"deployed"}, End(d, how),
           UNCHANGED backendVars
    PROVE  IInv'
  BY BackendUntouched, EndEffect, Leaving, InvSplit DEF Parts

LEMMA RaisingUntouched ==
    ASSUME IInv, NEW d \in Deployer, Raise(d), UNCHANGED backendVars PROVE IInv'
  BY LeavingUntouched DEF Raise, Outcomes

-----------------------------------------------------------------------------
(* One lemma per operation. *)

LEMMA DeployStep ==
    ASSUME IInv, NEW d \in Deployer, NEW v \in Version, NEW i \in Instance, NEW n \in Devices,
           Deploy(d, v, i, n)
    PROVE  IInv'
  <1>1. ClientTypes /\ LocalsKnown(d) BY InvSplit DEF Parts
  <1>2. ClientTypes' /\ Others(d) BY <1>1 DEF Deploy, ClientTypes, Others, Same, Steps, Outcomes
  <1>3. BackendTypes' /\ BackendInv' /\ OneModel' /\ KeepsDevices
    BY BackendUntouched DEF Deploy
  <1>4. LocalsKnown(d)' BY <1>1, DeploymentAssumption DEF Deploy, ClientTypes, LocalsKnown, AtModel
  <1>5. pc'[d] = "find" /\ outcome'[d] = "none" BY <1>1 DEF Deploy, ClientTypes
  <1>6. Own(d)' BY <1>5 DEF Own, LoneInv, AtModel
  <1> QED BY <1>2, <1>3, <1>4, <1>6, StepOfOne

LEMMA FindStep == ASSUME IInv, NEW d \in Deployer, FindByName(d) PROVE IInv'
  <1>1. ClientTypes /\ BackendTypes /\ LocalsKnown(d) /\ Own(d) /\ pc[d] = "find"
    BY InvSplit DEF Parts, FindByName
  <1>2. BackendTypes' /\ BackendInv' /\ OneModel' /\ KeepsDevices
    BY BackendUntouched DEF FindByName
  <1>3. outcome[d] # "deployed" \/ ~Alone BY <1>1 DEF Own, LoneInv
  <1>4. CASE (\A m \in ModelId : ~Exists(m)) /\ Goto(d, "create")
    <2>1. ClientTypes' /\ Others(d) /\ pc'[d] = "create"
          /\ UNCHANGED <<model, version, instance, devices, oldInstance, outcome>>
      BY <1>1, <1>4, GotoEffect DEF Steps
    <2>2. LocalsKnown(d)' BY <1>1, <2>1 DEF LocalsKnown, AtModel
    <2>3. Own(d)'
      BY <1>1, <1>3, <1>4, <2>1 DEF Own, LoneInv, AtModel, FindByName, backendVars, Exists, Alone
    <2> QED BY <1>2, <2>1, <2>2, <2>3, StepOfOne
  <1>5. CASE \E m \in ModelId :
               /\ Exists(m)
               /\ IF config[m].devices = devices[d] THEN Redeploy(d, m) ELSE End(d, "refused")
    <2>1. PICK m \in ModelId :
            /\ Exists(m)
            /\ IF config[m].devices = devices[d] THEN Redeploy(d, m) ELSE End(d, "refused")
      BY <1>5
    <2>2. CASE config[m].devices # devices[d]
      BY <2>1, <2>2, LeavingUntouched DEF FindByName, Outcomes
    <2>3. CASE config[m].devices = devices[d]
      <3>1. Redeploy(d, m) BY <2>1, <2>3
      <3>2. ClientTypes' /\ Others(d)
        BY <1>1, <2>1, <3>1
           DEF Redeploy, ClientTypes, BackendTypes, Configuration, Exists, Others, Same, Steps
      <3>3. /\ pc'[d] = "stop" /\ model'[d] = m /\ oldInstance'[d] = config[m].instance
            /\ UNCHANGED <<version, instance, devices, outcome>>
        BY <1>1, <3>1 DEF Redeploy, ClientTypes
      <3>4. config[m] \in Configuration BY <1>1, <2>1 DEF BackendTypes, Exists
      <3>5. LocalsKnown(d)'
        BY <1>1, <3>3, <3>4, DeploymentAssumption DEF LocalsKnown, AtModel, Configuration
      <3>6. Own(d)'
        BY <1>3, <2>1, <2>3, <3>3 DEF Own, LoneInv, AtModel, FindByName, backendVars, Exists, Alone
      <3> QED BY <1>2, <3>2, <3>5, <3>6, StepOfOne
    <2> QED BY <2>2, <2>3
  <1>6. CASE Raise(d) BY <1>6, RaisingUntouched DEF FindByName
  <1> QED BY <1>4, <1>5, <1>6 DEF FindByName

LEMMA CreatedEffect ==
    ASSUME IInv, NEW d \in Deployer, NEW m \in ModelId, pc[d] = "create", Created(d, m)
    PROVE  /\ BackendTypes' /\ BackendInv' /\ KeepsDevices /\ OneModel'
           /\ Exists(m)' /\ config'[m] = [instance |-> instance[d], devices |-> devices[d]]
           /\ \A w \in workers : w.model # m
           /\ UNCHANGED <<compiled, compiling, workers>>
  <1>1. ClientTypes /\ BackendTypes /\ BackendInv /\ LocalsKnown(d) /\ Own(d)
    BY InvSplit DEF Parts
  <1>2. instance[d] \in Instance /\ devices[d] \in Devices BY <1>1 DEF ClientTypes, LocalsKnown
  <1>3. /\ config'[m] = [instance |-> instance[d], devices |-> devices[d]]
        /\ \A n \in ModelId \ {m} : config'[n] = config[n]
        /\ ~Exists(m) /\ UNCHANGED <<compiled, compiling, inactive, workers>>
    BY <1>1 DEF Created, BackendTypes
  <1>4. BackendTypes'
    <2>1. config' \in [ModelId -> Configuration \cup {None}]
      BY <1>1, <1>2 DEF Created, BackendTypes, Configuration
    <2> QED BY <1>1, <1>3, <2>1 DEF BackendTypes
  <1>5. config'[m] # None BY <1>2, <1>3, DeploymentAssumption
  <1>6. BackendInv' /\ KeepsDevices
    BY <1>1, <1>3, <1>5 DEF BackendInv, KeepsDevices, Exists, BackendTypes, Worker
  <1>7. OneModel'
    BY <1>1, <1>3 DEF OneModel, Own, LoneInv, Exists, Alone
  <1>8. \A w \in workers : w.model # m BY <1>1, <1>3 DEF BackendInv
  <1> QED BY <1>3, <1>4, <1>5, <1>6, <1>7, <1>8 DEF Exists

LEMMA CreateStep == ASSUME IInv, NEW d \in Deployer, Create(d) PROVE IInv'
  <1>1. ClientTypes /\ LocalsKnown(d) /\ Own(d) /\ pc[d] = "create" BY InvSplit DEF Parts, Create
  <1>2. CASE \E m \in ModelId :
               /\ Created(d, m) /\ pc' = [pc EXCEPT ![d] = "upload"]
               /\ model' = [model EXCEPT ![d] = m]
               /\ UNCHANGED <<version, instance, devices, oldInstance, polls, outcome>>
    <2>1. PICK m \in ModelId :
               /\ Created(d, m) /\ pc' = [pc EXCEPT ![d] = "upload"]
               /\ model' = [model EXCEPT ![d] = m]
               /\ UNCHANGED <<version, instance, devices, oldInstance, polls, outcome>>
      BY <1>2
    <2>2. ClientTypes' /\ Others(d) BY <1>1, <2>1 DEF ClientTypes, Others, Same, Steps
    <2>3. pc'[d] = "upload" /\ model'[d] = m BY <1>1, <2>1 DEF ClientTypes
    <2>4. LocalsKnown(d)' BY <1>1, <2>1, <2>3, DeploymentAssumption DEF LocalsKnown, AtModel
    <2>5. /\ config'[m] # None
          /\ config'[m] = [instance |-> instance[d], devices |-> devices[d]]
          /\ \A w \in workers' : w.model # m
      BY <1>1, <2>1, CreatedEffect DEF Exists
    <2>6. Own(d)'
      BY <1>1, <2>1, <2>3, <2>5 DEF Own, LoneInv, AtModel, WorkersOf, Exists, Alone
    <2> QED BY <1>1, <2>1, <2>2, <2>4, <2>6, CreatedEffect, StepOfOne
  <1>3. CASE (\E m \in ModelId : Created(d, m)) /\ Raise(d)
    <2>1. ClientTypes' /\ Others(d) /\ pc'[d] = "idle" /\ outcome'[d] = "raised"
      BY <1>1, <1>3, RaiseEffect
    <2> QED BY <1>1, <1>3, <2>1, CreatedEffect, Leaving
  <1>4. CASE Raise(d) /\ UNCHANGED backendVars BY <1>4, RaisingUntouched
  <1> QED BY <1>2, <1>3, <1>4 DEF Create

LEMMA StopStep == ASSUME IInv, NEW d \in Deployer, StopWorkers(d) PROVE IInv'
  <1>1. ClientTypes /\ BackendTypes /\ BackendInv /\ OneModel /\ LocalsKnown(d) /\ Own(d)
        /\ pc[d] = "stop"
    BY InvSplit DEF Parts, StopWorkers
  <1>2. UNCHANGED <<config, compiled, compiling, inactive>> /\ workers' \subseteq workers
    BY DEF StopWorkers
  <1>3. BackendTypes' /\ BackendInv' /\ OneModel' /\ KeepsDevices
    BY <1>1, <1>2 DEF BackendTypes, BackendInv, OneModel, Alone, KeepsDevices, Exists
  <1>4. CASE Raise(d)
    <2>1. ClientTypes' /\ Others(d) /\ pc'[d] = "idle" /\ outcome'[d] = "raised"
      BY <1>1, <1>4, RaiseEffect
    <2> QED BY <1>3, <2>1, Leaving
  <1>5. CASE workers' = workers \ WorkersOf(model[d]) /\ Goto(d, AfterStop(d))
    <2>1. AfterStop(d) \in {"update", "upload"} BY DEF AfterStop
    <2>2. /\ ClientTypes' /\ Others(d) /\ pc'[d] = AfterStop(d)
          /\ UNCHANGED <<model, version, instance, devices, oldInstance, outcome>>
      BY <1>1, <1>5, <2>1, GotoEffect DEF Steps
    <2>3. LocalsKnown(d)' BY <1>1, <2>1, <2>2 DEF LocalsKnown, AtModel
    <2>4. \A w \in workers' : w.model # model[d] BY <1>5 DEF WorkersOf
    <2>5. AfterStop(d) = "upload" => oldInstance[d] = instance[d] BY DEF AfterStop
    <2>6. Own(d)'
      BY <1>1, <1>2, <2>1, <2>2, <2>4, <2>5 DEF Own, LoneInv, AtModel, WorkersOf, Exists, Alone
    <2> QED BY <1>3, <2>2, <2>3, <2>6, StepOfOne
  <1> QED BY <1>4, <1>5 DEF StopWorkers

LEMMA UpdateStep == ASSUME IInv, NEW d \in Deployer, Update(d) PROVE IInv'
  <1>1. ClientTypes /\ BackendTypes /\ BackendInv /\ OneModel /\ LocalsKnown(d) /\ Own(d)
        /\ pc[d] = "update"
    BY InvSplit DEF Parts, Update
  <1>2. model[d] \in ModelId /\ instance[d] \in Instance /\ config[model[d]] \in Configuration
    BY <1>1 DEF ClientTypes, BackendTypes, LocalsKnown, Own, AtModel, Exists
  <1>3. CASE config' = config /\ Raise(d)
    BY <1>3, RaisingUntouched DEF Update, backendVars
  <1>4. CASE /\ config' = [config EXCEPT ![model[d]].instance = instance[d]]
             /\ Goto(d, "upload") \/ Raise(d)
    <2>1. /\ \A m \in ModelId \ {model[d]} : config'[m] = config[m]
          /\ config'[model[d]] = [config[model[d]] EXCEPT !.instance = instance[d]]
          /\ UNCHANGED <<compiled, compiling, inactive, workers>>
      BY <1>1, <1>2, <1>4 DEF BackendTypes, Update
    <2>2. /\ config'[model[d]].instance = instance[d]
          /\ config'[model[d]].devices = config[model[d]].devices
          /\ config'[model[d]] \in Configuration
      BY <1>2, <2>1 DEF Configuration
    <2>3. config'[model[d]] # None BY <2>2, DeploymentAssumption DEF Configuration
    <2>4. KeepsDevices /\ \A m \in ModelId : Exists(m)' <=> Exists(m)
      BY <1>1, <2>1, <2>2, <2>3 DEF KeepsDevices, Exists, Own, AtModel
    <2>5. BackendTypes'
      <3>1. config' \in [ModelId -> Configuration \cup {None}]
        BY <1>1, <1>2, <1>4, <2>2 DEF BackendTypes
      <3> QED BY <1>1, <2>1, <3>1 DEF BackendTypes
    <2>6. BackendInv' /\ OneModel'
      BY <1>1, <2>1, <2>4 DEF BackendInv, OneModel, Alone, BackendTypes, Worker
    <2>7. CASE Raise(d)
      <3>1. ClientTypes' /\ Others(d) /\ pc'[d] = "idle" /\ outcome'[d] = "raised"
        BY <1>1, <2>7, RaiseEffect
      <3> QED BY <2>4, <2>5, <2>6, <3>1, Leaving
    <2>8. CASE Goto(d, "upload")
      <3>1. /\ ClientTypes' /\ Others(d) /\ pc'[d] = "upload"
            /\ UNCHANGED <<model, version, instance, devices, oldInstance, outcome>>
        BY <1>1, <2>8, GotoEffect DEF Steps
      <3>2. LocalsKnown(d)' BY <1>1, <3>1 DEF LocalsKnown, AtModel
      <3>3. Own(d)'
        BY <1>1, <2>1, <2>2, <2>3, <3>1 DEF Own, LoneInv, AtModel, WorkersOf, Exists, Alone
      <3> QED BY <2>4, <2>5, <2>6, <3>1, <3>2, <3>3, StepOfOne
    <2> QED BY <1>4, <2>7, <2>8
  <1> QED BY <1>3, <1>4 DEF Update

LEMMA UploadStep == ASSUME IInv, NEW d \in Deployer, Upload(d) PROVE IInv'
  <1>1. ClientTypes /\ LocalsKnown(d) /\ Own(d) /\ pc[d] = "upload" /\ UNCHANGED backendVars
    BY InvSplit DEF Parts, Upload
  <1>2. CASE Raise(d) BY <1>1, <1>2, RaisingUntouched
  <1>3. CASE Goto(d, "alert")
    <2>1. /\ ClientTypes' /\ Others(d) /\ pc'[d] = "alert"
          /\ UNCHANGED <<model, version, instance, devices, oldInstance, outcome>>
      BY <1>1, <1>3, GotoEffect DEF Steps
    <2>2. LocalsKnown(d)' BY <1>1, <2>1 DEF LocalsKnown, AtModel
    <2>3. Own(d)'
      BY <1>1, <2>1 DEF Own, LoneInv, AtModel, WorkersOf, Exists, Alone, backendVars
    <2> QED BY <1>1, <2>1, <2>2, <2>3, BackendUntouched, StepOfOne
  <1> QED BY <1>2, <1>3 DEF Upload

LEMMA AlertStep == ASSUME IInv, NEW d \in Deployer, Alert(d) PROVE IInv'
  <1>1. ClientTypes /\ BackendTypes /\ BackendInv /\ OneModel /\ LocalsKnown(d) /\ Own(d)
        /\ pc[d] = "alert"
    BY InvSplit DEF Parts, Alert
  <1>2. model[d] \in ModelId /\ version[d] \in Version
    BY <1>1 DEF ClientTypes, LocalsKnown, AtModel
  <1>3. CASE Raise(d) /\ UNCHANGED backendVars BY <1>3, RaisingUntouched
  <1>4. CASE Alerted(d) /\ (Goto(d, "poll") \/ Raise(d))
    <2>1. /\ compiling' = [compiling EXCEPT ![model[d]] = version[d]]
          /\ compiled' = [compiled EXCEPT ![model[d]] = None]
          /\ inactive' \subseteq inactive /\ UNCHANGED <<config, workers>>
      BY <1>4 DEF Alerted
    <2>2. BackendTypes' /\ KeepsDevices /\ OneModel'
      BY <1>1, <1>2, <2>1 DEF BackendTypes, KeepsDevices, OneModel, Exists, Alone
    <2>3. BackendInv'
      BY <1>1, <1>2, <2>1 DEF BackendInv, BackendTypes, Exists, Own, AtModel
    <2>4. CASE Raise(d)
      <3>1. ClientTypes' /\ Others(d) /\ pc'[d] = "idle" /\ outcome'[d] = "raised"
        BY <1>1, <2>4, RaiseEffect
      <3> QED BY <2>2, <2>3, <3>1, Leaving
    <2>5. CASE Goto(d, "poll")
      <3>1. /\ ClientTypes' /\ Others(d) /\ pc'[d] = "poll"
            /\ UNCHANGED <<model, version, instance, devices, oldInstance, outcome>>
        BY <1>1, <2>5, GotoEffect DEF Steps
      <3>2. LocalsKnown(d)' BY <1>1, <3>1 DEF LocalsKnown, AtModel
      <3>3. compiling'[model[d]] = version[d] /\ compiled'[model[d]] = None
        BY <1>1, <1>2, <2>1 DEF BackendTypes
      <3>4. Own(d)'
        BY <1>1, <2>1, <3>1, <3>3 DEF Own, LoneInv, AtModel, WorkersOf, Exists, Alone
      <3> QED BY <2>2, <2>3, <3>1, <3>2, <3>4, StepOfOne
    <2> QED BY <1>4, <2>4, <2>5
  <1> QED BY <1>3, <1>4 DEF Alert

LEMMA PollStep == ASSUME IInv, NEW d \in Deployer, Poll(d) PROVE IInv'
  <1>1. ClientTypes /\ LocalsKnown(d) /\ Own(d) /\ pc[d] = "poll" /\ UNCHANGED backendVars
    BY InvSplit DEF Parts, Poll
  <1>2. CASE compiled[model[d]] # None /\ End(d, "deployed")
    <2>1. /\ ClientTypes' /\ Others(d) /\ pc'[d] = "idle" /\ outcome'[d] = "deployed"
          /\ model' = model /\ version' = version
      BY <1>1, <1>2, EndEffect DEF Outcomes
    <2>2. LocalsKnown(d)' BY <2>1 DEF LocalsKnown, AtModel
    <2>3. Own(d)'
      BY <1>1, <1>2, <2>1
         DEF Own, LoneInv, LocalsKnown, AtModel, WorkersOf, Renewed, Alone, backendVars
    <2> QED BY <1>1, <2>1, <2>2, <2>3, BackendUntouched, StepOfOne
  <1>3. CASE End(d, "failed") BY <1>1, <1>3, LeavingUntouched DEF Outcomes
  <1>4. CASE Again(d)
    <2>1. ClientTypes' /\ Others(d)
      BY <1>1, <1>4, DeploymentAssumption DEF Poll, Again, ClientTypes, Others, Same
    <2>2. LocalsKnown(d)' /\ Own(d)'
      BY <1>1, <1>4
         DEF Again, LocalsKnown, Own, LoneInv, AtModel, WorkersOf, Renewed, Exists, Alone, backendVars
    <2> QED BY <1>1, <2>1, <2>2, BackendUntouched, StepOfOne
  <1>5. CASE Raise(d) BY <1>1, <1>5, RaisingUntouched
  <1> QED BY <1>2, <1>3, <1>4, <1>5 DEF Poll

LEMMA TimeOutStep == ASSUME IInv, NEW d \in Deployer, TimeOut(d) PROVE IInv'
  BY LeavingUntouched DEF TimeOut, Outcomes

\* The backend's own steps leave every deployer where it is.
LEMMA BackendStep ==
    ASSUME IInv, UNCHANGED clientVars,
           (\E m \in ModelId : Backend(m)) \/ (\E w \in workers : WorkerStops(w))
    PROVE  IInv'
  <1>1. ClientTypes /\ BackendTypes /\ BackendInv /\ OneModel
        /\ \A d \in Deployer : LocalsKnown(d) /\ Own(d)
    BY InvSplit DEF Parts
  <1>2. ClientTypes' /\ \A d \in Deployer : LocalsKnown(d)'
    BY <1>1 DEF clientVars, ClientTypes, LocalsKnown
  <1>3. config' = config
    BY DEF Backend, Compiled, CompilationFailed, WorkerStarts, WorkerStops
  <1>4. OneModel' BY <1>1, <1>3 DEF OneModel, Exists, Alone
  <1>5. BackendTypes' /\ BackendInv' /\ \A d \in Deployer : Own(d)'
    <2>1. ASSUME NEW m \in ModelId, Compiled(m)
          PROVE  BackendTypes' /\ BackendInv' /\ \A d \in Deployer : Own(d)'
      <3>1. compiling[m] \in Version /\ UNCHANGED <<config, inactive, workers>>
        BY <1>1, <2>1 DEF Compiled, BackendTypes
      <3>2. /\ compiled'[m] = compiling[m] /\ compiling'[m] = None
            /\ \A n \in ModelId \ {m} : compiled'[n] = compiled[n] /\ compiling'[n] = compiling[n]
        BY <1>1, <2>1 DEF Compiled, BackendTypes
      <3>3. BackendTypes' BY <1>1, <2>1, <3>1 DEF Compiled, BackendTypes
      <3>4. BackendInv' BY <1>1, <2>1, <3>1, <3>2 DEF Compiled, BackendInv, Exists
      <3>5. ASSUME NEW d \in Deployer PROVE Own(d)'
        <4>1. model[d] \in ModelId \/ (pc[d] \notin AtModel /\ model[d] = None)
          BY <1>1 DEF ClientTypes, LocalsKnown
        <4>2. ASSUME model[d] = m, Alone PROVE outcome[d] # "deployed"
          BY <1>1, <2>1, <4>2 DEF Own, LoneInv, BackendInv, Compiled, LocalsKnown, ClientTypes
        <4> QED
          BY <1>1, <3>1, <3>2, <4>1, <4>2
             DEF clientVars, Own, LoneInv, AtModel, WorkersOf, Renewed, Exists, Alone
      <3> QED BY <3>3, <3>4, <3>5
    <2>2. ASSUME NEW m \in ModelId, CompilationFailed(m)
          PROVE  BackendTypes' /\ BackendInv' /\ \A d \in Deployer : Own(d)'
      <3>1. UNCHANGED <<config, compiled, workers>> /\ inactive' \subseteq ModelId
            /\ compiling' \in [ModelId -> Version \cup {None}] /\ compiling'[m] = None
            /\ \A n \in ModelId \ {m} : compiling'[n] = compiling[n]
        BY <1>1, <2>2 DEF CompilationFailed, BackendTypes
      <3>2. BackendTypes' BY <1>1, <3>1 DEF BackendTypes
      <3>3. BackendInv' BY <1>1, <3>1 DEF BackendInv, Exists
      <3>4. ASSUME NEW d \in Deployer PROVE Own(d)'
        <4>1. pc[d] \in AtModel => model[d] \in ModelId BY <1>1 DEF ClientTypes, LocalsKnown
        <4> QED
          BY <1>1, <3>1, <4>1
             DEF clientVars, Own, LoneInv, AtModel, WorkersOf, Renewed, Exists, Alone
      <3> QED BY <3>2, <3>3, <3>4
    <2>3. ASSUME NEW m \in ModelId, WorkerStarts(m)
          PROVE  BackendTypes' /\ BackendInv' /\ \A d \in Deployer : Own(d)'
      <3> DEFINE w == [model |-> m, version |-> compiled[m],
                       meanwhile |-> \E d \in Deployer : pc[d] # "idle"]
      <3>1. UNCHANGED <<config, compiled, compiling, inactive>> /\ workers' = workers \cup {w}
        BY <2>3 DEF WorkerStarts
      <3>2. w \in Worker BY <1>1, <2>3 DEF WorkerStarts, BackendTypes, Worker
      <3>3. BackendTypes' BY <1>1, <3>1, <3>2 DEF BackendTypes
      <3>4. BackendInv' BY <1>1, <2>3, <3>1 DEF BackendInv, WorkerStarts, Exists
      <3>5. ASSUME NEW d \in Deployer PROVE Own(d)'
        <4>1. pc[d] # "idle" => w.meanwhile OBVIOUS
        <4>2. w.model = m /\ w.version = compiled[m] OBVIOUS
        <4> HIDE DEF w
        <4>3. Alone /\ outcome[d] = "deployed" /\ model[d] = m => w.version = version[d]
          BY <1>1, <4>2 DEF Own, LoneInv
        <4> QED
          BY <1>1, <3>1, <4>1, <4>2, <4>3
             DEF clientVars, Own, LoneInv, AtModel, WorkersOf, Renewed, Exists, Alone
      <3> QED BY <3>3, <3>4, <3>5
    <2>4. ASSUME NEW w \in workers, WorkerStops(w)
          PROVE  BackendTypes' /\ BackendInv' /\ \A d \in Deployer : Own(d)'
      <3>1. UNCHANGED <<config, compiled, compiling, inactive>> /\ workers' \subseteq workers
        BY <2>4 DEF WorkerStops
      <3>2. BackendTypes' /\ BackendInv'
        BY <1>1, <3>1 DEF BackendTypes, BackendInv, Exists
      <3>3. \A d \in Deployer : Own(d)'
        BY <1>1, <3>1 DEF clientVars, Own, LoneInv, AtModel, WorkersOf, Renewed, Exists, Alone
      <3> QED BY <3>2, <3>3
    <2> QED BY <2>1, <2>2, <2>3, <2>4 DEF Backend
  <1>6. Parts' BY <1>2, <1>4, <1>5 DEF Parts
  <1> QED BY <1>6, InvSplit, PTL

-----------------------------------------------------------------------------
(* The theorems. *)

LEMMA NextInv == IInv /\ [Next]_vars => IInv'
  <1> SUFFICES ASSUME IInv, [Next]_vars PROVE IInv'
    OBVIOUS
  <1>1. ASSUME NEW d \in Deployer, NEW v \in Version, NEW i \in Instance, NEW n \in Devices,
               Deploy(d, v, i, n)
        PROVE  IInv'
    BY <1>1, DeployStep
  <1>2. ASSUME NEW d \in Deployer, DeployerStep(d) PROVE IInv'
    BY <1>2, FindStep, CreateStep, StopStep, UpdateStep, UploadStep, AlertStep, PollStep, TimeOutStep
       DEF DeployerStep
  <1>3. CASE (\E m \in ModelId : Backend(m)) \/ (\E w \in workers : WorkerStops(w))
    <2>1. UNCHANGED clientVars
      BY <1>3 DEF Backend, Compiled, CompilationFailed, WorkerStarts, WorkerStops, clientVars
    <2> QED BY <1>3, <2>1, BackendStep
  <1>4. CASE UNCHANGED vars
    <2>1. Parts' BY <1>4, InvSplit
      DEF vars, clientVars, backendVars, Parts, ClientTypes, BackendTypes, BackendInv, OneModel, Alone,
          LocalsKnown, Own, LoneInv, WorkersOf, Renewed, Exists
    <2> QED BY <2>1, InvSplit, PTL
  <1> QED BY <1>1, <1>2, <1>3, <1>4 DEF Next

\* IInv is inductive: every deploy, however it overlaps with others, keeps
\* the types and the number of devices; alone, it keeps all of IInv.
THEOREM Invariance == Spec => []IInv
  BY InitInv, NextInv, PTL DEF Spec

\* Every variable keeps its type, for any number of overlapping deploys.
THEOREM DeploymentTypes == Spec => []TypeOK
  <1>1. IInv => TypeOK BY DEF IInv
  <1> QED BY <1>1, Invariance, PTL

\* No deploy stops, updates or replaces a model made for another number of
\* devices (the check of _prepare_model), for any number of deploys at once.
THEOREM DevicesNeverMixed == Spec => []DevicesAsAsked
  <1>1. IInv => DevicesAsAsked BY DEF IInv
  <1> QED BY <1>1, Invariance, PTL

\* Deploys of a name that follow each other make one model, whichever of
\* their requests failed with or without its effect.
THEOREM NoDuplicate == Spec => []OneModel
  <1>1. IInv => OneModel BY DEF IInv
  <1> QED BY <1>1, Invariance, PTL

\* What is uploaded meets the instance type asked for, also after deploys that
\* failed between the update and the upload.
THEOREM PreparedInstance == Spec => []PreparedAsAsked
  <1>1. IInv => PreparedAsAsked BY DEF IInv
  <1> QED BY <1>1, Invariance, PTL

\* A deploy that has returned left its artifact compiled and no worker of
\* before, for any number of versions, earlier deploys and workers.
THEOREM DeployedIsServed == Spec => []ServesWhatWasDeployed
  <1>1. IInv => ServesWhatWasDeployed BY DEF IInv
  <1> QED BY <1>1, Invariance, PTL
=============================================================================

----------------------------- MODULE Deployment -----------------------------
(* Deploying pipelines under one model name (studio deployment.py over       *)
(* resources/models.py and the upload of transport/backend.py): look the     *)
(* model up or create it, stop its workers, update it, upload the artifact,  *)
(* alert the backend and poll until the pipeline is compiled.                *)
(*                                                                           *)
(* The backend is external: it keeps the models of that name, compiles what  *)
(* it was alerted of last, and runs workers with what is compiled.  Users of *)
(* the model start and stop workers at any time, also during a deploy.  A    *)
(* request may fail with or without its effect, and a process may die.       *)
EXTENDS Naturals, FiniteSets

CONSTANTS
    Deployer, ModelId, Version,  \* Version: the artifacts that are deployed
    Instance, Devices,           \* values of instance_type and num_devices
    None,                        \* no model, no version
    MaxPolls                     \* timeout / poll_interval of _wait_for_compilation

ASSUME DeploymentAssumption ==
    /\ None \notin ModelId /\ None \notin Version /\ None \notin Instance /\ None \notin Devices
    /\ None \notin [instance : Instance, devices : Devices]
    /\ MaxPolls \in Nat

VARIABLES
    pc,          \* idle, find, create, stop, update, upload, alert, poll
    model,       \* model_id
    version,     \* the artifact being deployed, or deployed last
    instance, devices,  \* what the caller asks for
    oldInstance, \* existing_model.instance_type, as found
    polls,       \* get_by_id requests so far
    outcome,     \* of the last deploy: deployed, failed, timed_out, refused, raised
    config,      \* at the backend: [instance, devices] of each model created, else None
    compiled,    \* at the backend: the compiled version of each model
    compiling,   \* at the backend: the version whose compilation is due
    inactive,    \* at the backend: models whose last compilation failed
    workers      \* at the backend: the running workers, with the version they
                 \* loaded and whether they were started during a deploy

clientVars == <<pc, model, version, instance, devices, oldInstance, polls, outcome>>
backendVars == <<config, compiled, compiling, inactive, workers>>
vars == <<clientVars, backendVars>>

Exists(m) == config[m] # None
WorkersOf(m) == {w \in workers : w.model = m}

-----------------------------------------------------------------------------
Init ==
    /\ pc = [d \in Deployer |-> "idle"] /\ model = [d \in Deployer |-> None]
    /\ version = [d \in Deployer |-> None] /\ instance = [d \in Deployer |-> None]
    /\ devices = [d \in Deployer |-> None] /\ oldInstance = [d \in Deployer |-> None]
    /\ polls = [d \in Deployer |-> 0] /\ outcome = [d \in Deployer |-> "none"]
    /\ config = [m \in ModelId |-> None] /\ compiled = [m \in ModelId |-> None]
    /\ compiling = [m \in ModelId |-> None] /\ inactive = {} /\ workers = {}

Goto(d, step) ==
    pc' = [pc EXCEPT ![d] = step] /\ UNCHANGED <<model, version, instance, devices, oldInstance, polls, outcome>>

\* The call ends; of its locals only what it deployed, and to where, matters.
End(d, how) ==
    /\ pc' = [pc EXCEPT ![d] = "idle"] /\ outcome' = [outcome EXCEPT ![d] = how]
    /\ instance' = [instance EXCEPT ![d] = None] /\ devices' = [devices EXCEPT ![d] = None]
    /\ oldInstance' = [oldInstance EXCEPT ![d] = None] /\ polls' = [polls EXCEPT ![d] = 0]
    /\ UNCHANGED <<model, version>>

Raise(d) == End(d, "raised")

Deploy(d, v, i, n) ==
    /\ pc[d] = "idle" /\ pc' = [pc EXCEPT ![d] = "find"]
    /\ model' = [model EXCEPT ![d] = None] /\ version' = [version EXCEPT ![d] = v]
    /\ instance' = [instance EXCEPT ![d] = i] /\ devices' = [devices EXCEPT ![d] = n]
    /\ outcome' = [outcome EXCEPT ![d] = "none"]
    /\ UNCHANGED <<oldInstance, polls, backendVars>>

\* An existing model of the name is redeployed into.
Redeploy(d, m) ==
    /\ pc' = [pc EXCEPT ![d] = "stop"] /\ model' = [model EXCEPT ![d] = m]
    /\ oldInstance' = [oldInstance EXCEPT ![d] = config[m].instance]
    /\ UNCHANGED <<version, instance, devices, polls, outcome>>

\* (Slip: only a model that is compiled counts as existing.)
FindCompiled(d) ==
    /\ pc[d] = "find"
    /\ \/ (\A m \in ModelId : compiled[m] = None) /\ Goto(d, "create")
       \/ \E m \in ModelId :
            /\ compiled[m] # None
            /\ IF config[m].devices = devices[d] THEN Redeploy(d, m) ELSE End(d, "refused")
       \/ Raise(d)
    /\ UNCHANGED backendVars

\* (Slip: the number of devices is not compared.)
FindAnyDevices(d) ==
    /\ pc[d] = "find"
    /\ \/ (\A m \in ModelId : ~Exists(m)) /\ Goto(d, "create")
       \/ \E m \in ModelId : Exists(m) /\ Redeploy(d, m)
       \/ Raise(d)
    /\ UNCHANGED backendVars

\* find_by_name: the first of the listed models with the name.  Another
\* number of devices is refused before anything is touched.
FindByName(d) ==
    /\ pc[d] = "find"
    /\ \/ (\A m \in ModelId : ~Exists(m)) /\ Goto(d, "create")
       \/ \E m \in ModelId :
            /\ Exists(m)
            /\ IF config[m].devices = devices[d] THEN Redeploy(d, m) ELSE End(d, "refused")
       \/ Raise(d)
    /\ UNCHANGED backendVars

Created(d, m) ==
    /\ ~Exists(m)
    /\ config' = [config EXCEPT ![m] = [instance |-> instance[d], devices |-> devices[d]]]
    /\ UNCHANGED <<compiled, compiling, inactive, workers>>

Create(d) ==
    /\ pc[d] = "create"
    /\ \/ \E m \in ModelId :
            /\ Created(d, m) /\ pc' = [pc EXCEPT ![d] = "upload"] /\ model' = [model EXCEPT ![d] = m]
            /\ UNCHANGED <<version, instance, devices, oldInstance, polls, outcome>>
       \/ (\E m \in ModelId : Created(d, m)) /\ Raise(d)
       \/ Raise(d) /\ UNCHANGED backendVars

\* After the stop comes the update, if the instance type is another one.
AfterStop(d) == IF oldInstance[d] # instance[d] THEN "update" ELSE "upload"

\* (Slip: no worker is stopped when the instance type stays.)
StopIfUpdated(d) ==
    /\ pc[d] = "stop" /\ (Goto(d, AfterStop(d)) \/ Raise(d))
    /\ workers' = IF oldInstance[d] # instance[d] THEN workers \ WorkersOf(model[d]) ELSE workers
    /\ UNCHANGED <<config, compiled, compiling, inactive>>

StopWorkers(d) ==
    /\ pc[d] = "stop"
    /\ \/ workers' = workers \ WorkersOf(model[d]) /\ (Goto(d, AfterStop(d)) \/ Raise(d))
       \/ workers' = workers /\ Raise(d)
    /\ UNCHANGED <<config, compiled, compiling, inactive>>

\* (Slip: an update that failed is as good as one that worked.)
UpdateUnchecked(d) ==
    /\ pc[d] = "update"
    /\ \/ config' = [config EXCEPT ![model[d]].instance = instance[d]] /\ Goto(d, "upload")
       \/ config' = config /\ Goto(d, "upload")
    /\ UNCHANGED <<compiled, compiling, inactive, workers>>

\* Of a model that exists only the instance type is updated.
Update(d) ==
    /\ pc[d] = "update"
    /\ \/ /\ config' = [config EXCEPT ![model[d]].instance = instance[d]]
          /\ (Goto(d, "upload") \/ Raise(d))
       \/ config' = config /\ Raise(d)
    /\ UNCHANGED <<compiled, compiling, inactive, workers>>

\* _upload_file: the artifact is stored under a key of its own.
Upload(d) ==
    /\ pc[d] = "upload" /\ (Goto(d, "alert") \/ Raise(d)) /\ UNCHANGED backendVars

\* At upload_complete the compilation of the new version is due, and the model
\* no longer reports how the last one ended.
Alerted(d) ==
    LET m == model[d]
    IN  /\ compiling' = [compiling EXCEPT ![m] = version[d]]
        /\ compiled' = [compiled EXCEPT ![m] = None] /\ inactive' = inactive \ {m}
        /\ UNCHANGED <<config, workers>>

Alert(d) ==
    /\ pc[d] = "alert"
    /\ \/ Alerted(d) /\ (Goto(d, "poll") \/ Raise(d))
       \/ Raise(d) /\ UNCHANGED backendVars

Again(d) ==
    /\ polls' = [polls EXCEPT ![d] = @ + 1]
    /\ UNCHANGED <<pc, model, version, instance, devices, oldInstance, outcome>>

\* One round of _wait_for_compilation.
Poll(d) ==
    /\ pc[d] = "poll" /\ polls[d] < MaxPolls
    /\ \/ compiled[model[d]] # None /\ End(d, "deployed")
       \/ compiled[model[d]] = None /\ model[d] \in inactive /\ End(d, "failed")
       \/ compiled[model[d]] = None /\ model[d] \notin inactive /\ Again(d)
       \/ Raise(d)
    /\ UNCHANGED backendVars

\* (Slip: the time is not looked at while the compilation is due.)
TimeOutIfNotDue(d) ==
    /\ pc[d] = "poll" /\ compiling[model[d]] = None /\ End(d, "timed_out")
    /\ UNCHANGED backendVars

\* The time is up: at the latest after MaxPolls rounds, earlier if they are slow.
TimeOut(d) == pc[d] = "poll" /\ End(d, "timed_out") /\ UNCHANGED backendVars

-----------------------------------------------------------------------------
(* The backend and the users of the model. *)
Compiled(m) ==
    /\ compiling[m] # None
    /\ compiled' = [compiled EXCEPT ![m] = compiling[m]] /\ compiling' = [compiling EXCEPT ![m] = None]
    /\ UNCHANGED <<clientVars, config, inactive, workers>>

CompilationFailed(m) ==
    /\ compiling[m] # None
    /\ inactive' = inactive \cup {m} /\ compiling' = [compiling EXCEPT ![m] = None]
    /\ UNCHANGED <<clientVars, config, compiled, workers>>

WorkerStarts(m) ==
    /\ compiled[m] # None
    /\ workers' = workers \cup
         {[model |-> m, version |-> compiled[m], meanwhile |-> \E d \in Deployer : pc[d] # "idle"]}
    /\ UNCHANGED <<clientVars, config, compiled, compiling, inactive>>

WorkerStops(w) ==
    /\ w \in workers /\ workers' = workers \ {w}
    /\ UNCHANGED <<clientVars, config, compiled, compiling, inactive>>

DeployerStep(d) ==
    \/ FindByName(d) \/ Create(d) \/ StopWorkers(d) \/ Update(d) \/ Upload(d) \/ Alert(d)
    \/ Poll(d) \/ TimeOut(d)

Backend(m) == Compiled(m) \/ CompilationFailed(m) \/ WorkerStarts(m)

Next ==
    \/ \E d \in Deployer :
        \/ \E v \in Version, i \in Instance, n \in Devices : Deploy(d, v, i, n)
        \/ DeployerStep(d)
    \/ \E m \in ModelId : Backend(m)
    \/ \E w \in workers : WorkerStops(w)

Spec == Init /\ [][Next]_vars

\* A process that runs takes its next step: nothing in deploy waits for
\* anything but answers, which come or fail.
FairSpec == Spec /\ \A d \in Deployer : WF_vars(DeployerStep(d))

-----------------------------------------------------------------------------
(* Properties. *)

Steps == {"idle", "find", "create", "stop", "update", "upload", "alert", "poll"}
Outcomes == {"none", "deployed", "failed", "timed_out", "refused", "raised"}
Configuration == [instance : Instance, devices : Devices]
Worker == [model : ModelId, version : Version, meanwhile : BOOLEAN]
AtModel == {"stop", "update", "upload", "alert", "poll"}

TypeOK ==
    /\ pc \in [Deployer -> Steps]
    /\ model \in [Deployer -> ModelId \cup {None}] /\ version \in [Deployer -> Version \cup {None}]
    /\ instance \in [Deployer -> Instance \cup {None}] /\ devices \in [Deployer -> Devices \cup {None}]
    /\ oldInstance \in [Deployer -> Instance \cup {None}]
    /\ polls \in [Deployer -> 0..MaxPolls] /\ outcome \in [Deployer -> Outcomes]
    /\ config \in [ModelId -> Configuration \cup {None}]
    /\ compiled \in [ModelId -> Version \cup {None}] /\ compiling \in [ModelId -> Version \cup {None}]
    /\ inactive \subseteq ModelId /\ workers \subseteq Worker
    /\ \A d \in Deployer :
        /\ pc[d] # "idle" => version[d] # None /\ instance[d] # None /\ devices[d] # None
        /\ pc[d] \in AtModel => model[d] # None
        /\ pc[d] \in {"stop", "update"} => oldInstance[d] # None

\* However many deploys of a name interleave, fail and are repeated: none works
\* on a model made for another number of devices, so none stops its workers or
\* replaces its artifact (README "fixed when a model is created").
DevicesAsAsked ==
    \A d \in Deployer : pc[d] \in AtModel =>
        Exists(model[d]) /\ config[model[d]].devices = devices[d]

\* Deploys of a name that do not overlap.
Alone == \A c, d \in Deployer : c = d

\* Deploying again under a name, also after a deploy that failed anywhere,
\* does not create a second model (deploy_pipeline's docstring).
OneModel == Alone => \A m, n \in ModelId : Exists(m) /\ Exists(n) => m = n

\* What is uploaded is compiled for the instance type asked for, whatever
\* earlier deploys asked for and however far they got.
PreparedAsAsked ==
    Alone => \A d \in Deployer :
        pc[d] \in {"upload", "alert", "poll"} => config[model[d]].instance = instance[d]

\* A worker that is not left over from before the deploy.
Renewed(d, w) == w.meanwhile \/ w.version = version[d]

\* Once deploy has returned, the model is compiled from the artifact that was
\* deployed, and no worker that was running before still serves an older one.
ServesWhatWasDeployed ==
    Alone => \A d \in Deployer : outcome[d] = "deployed" =>
        /\ compiled[model[d]] = version[d]
        /\ \A w \in WorkersOf(model[d]) : Renewed(d, w)

\* Every deploy returns or raises, whether or not the compilation ever ends.
DeploysEnd == \A d \in Deployer : pc[d] # "idle" ~> pc[d] = "idle"

(* The inductive invariant behind them. *)

\* Only models that exist are compiled and have workers, and a model that is
\* compiled has no other compilation due.
BackendInv ==
    /\ \A m \in ModelId :
        /\ ~Exists(m) => compiled[m] = None /\ compiling[m] = None
        /\ compiling[m] # None => compiled[m] = None
    /\ \A w \in workers : Exists(w.model)

\* A deployer that runs alone finds and leaves the model as it expects.
LoneInv(d) ==
    /\ pc[d] = "create" => \A m \in ModelId : ~Exists(m)
    /\ pc[d] \in {"stop", "update"} => config[model[d]].instance = oldInstance[d]
    /\ pc[d] \in {"update", "upload", "alert", "poll"} =>
        \A w \in WorkersOf(model[d]) : w.meanwhile
    /\ pc[d] = "poll" => /\ compiled[model[d]] \in {None, version[d]}
                         /\ compiling[model[d]] \in {None, version[d]}
    /\ outcome[d] = "deployed" =>
        pc[d] = "idle" /\ model[d] # None /\ version[d] # None /\ compiled[model[d]] = version[d]

IInv ==
    /\ TypeOK /\ BackendInv /\ DevicesAsAsked /\ OneModel /\ PreparedAsAsked /\ ServesWhatWasDeployed
    /\ Alone => \A d \in Deployer : LoneInv(d)
=============================================================================

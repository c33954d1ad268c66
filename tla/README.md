# TLA+ models of the Lattica client packages

The repository holds three Python packages: `lattica_build` traces an FHE
pipeline and its parameters into an artifact, `lattica_studio` deploys and
administers models at the Lattica backend, and `lattica_query` generates keys
and runs encrypted queries.  The backend, the workers and the FHE core are not
part of it; they appear in the models as the client code uses them.

## Inventory

| component | state it keeps | operations | what makes it correct |
|---|---|---|---|
| key storage (query `storage/key_store.py`, `_files.py`) | revisions, `current`, metadata, lock file | lock, save, mark, load, prune | the key in use is always complete; replacement is atomic; old revisions go only after the commit |
| keys API (query `client/keys.py`) | none but the store and the backend's registration | `ensure`, `generate`, `load`, `fetch_initialization` | an upload mark means a completed registration; interrupted work is resumed; a key never serves a foreign token |
| worker transport (query `transport/worker.py`) | execution id, timings of the last call | `invoke`: one request, then polling | each call ends by its deadline and returns the answer of its own execution |
| backend transport (query `transport/backend.py`, `http.py`) | session token, upload progress | `call`, `upload_binary`, `upload_file_and_alert`, `is_worker_up` | an alert is sent only for a stored file |
| query execution, encrypted data (query `client/executor.py`, `encrypted_data.py`) | none | encrypt, query, decrypt; encrypt, upload | separate steps equal the one-shot query |
| token store (query `storage/token_store.py`) | files per name and id | save, load newest | a load returns the newest saved token |
| output (query `logging.py`) | stack of operations and contexts, the drawing thread | start, stop, info, status, draw | what is reported with output enabled is shown; nothing is drawn after the end |
| tensor serialization (query `serialization/`) | in-process tensor groups | add, merge, resolve | a reference resolves to the tensor added for it |
| workers (studio `resources/workers.py`) | none but the session at the backend | `start`, `get_or_start`, `stop`, `active`, `running` | no session is left running by mistake; a started worker is ready or stopped |
| deployment (studio `deployment.py`) | none but the model at the backend | find or create, stop workers, update, upload, wait | a redeploy ends with the new pipeline compiled and no worker on the old one |
| models, tokens, account, finance (studio `resources/`) | none | CRUD calls | mostly one request each |
| modulus chain and level tracing (build `params/`) | active rows and columns, scale | drop, mod switch, adjust, bootstrap | levels only go down between bootstraps, scales match |
| tracer (build `base_classes/hom_op.py`, `hom_op_tracer.py`, `hom_pipeline.py`) | value ids, bound names, tensor registry, use counts | trace, `serialize` | ids are unique, tensors are told apart, last uses are right |
| clear execution (build `serialization/clear_execution.py`) | values per scope | run a section, nested | the graph computes what the operators do; a value is released after its last use |
| graph printer (build `base_classes/print_graph_structure.py`) | scopes of known values and producers | `print_graph` | an input line shows the value that flows |
| shape tracing, operators (build `params/shape_tracing.py`, `operators/`) | tensor shapes and packed axis | one tracing function per operator | shapes agree with the clear execution; the packed axis is tracked |
| polynomial approximation (build `operators/polynomials/remez_utils.py`) | iterates, references, best fit | `Remez.fit`, `cosine_minimax`, `sign_minimax` | the systems are solvable, the best fit is kept, the shallowest composite is found |

How they interact: the keys API calls the store under its lock, the backend
transport to upload, and the worker transport to fetch the initialization and to
preprocess.  Query execution uses keys and the worker transport.  Deployment
stops workers before it uploads, and `running()` starts and stops them.  Every
call of studio and query reports to the operation it is made in.  A pipeline is
traced (ids, shapes, levels), may be run on clear data and printed, and is what
deployment uploads.

Hard behaviours: several processes and threads on one key path; a crash or
exception between any two file operations; requests that take effect although
the caller saw an error; workers that start or stop between a check and the
step that relies on it; polling against a deadline; two clients starting and
stopping the same model's workers; a thread that draws while its operation ends;
positions in the modulus chain computed from lists that are not sorted; ids, names
and use counts of values through nested operators; axes counted from either end
of a shape that changes; an exchange algorithm that must not degenerate.

## Modules

| module | models | state and steps |
|---|---|---|
| `KeyStore` | the files of the key storage: `key_lock`, `save_key_bundle`, `load_key_bundle`, `mark_key_uploaded`, pruning | one directory entry, owner, artifacts and upload mark per revision, `current` and the lock per path; one step per file operation another process, a crash or an exception can see |
| `Keys` | the keys API over it, the upload and its alert, `is_worker_up`, preprocessing | `pc` per client from `lock` to `return` or `raise`; at the backend the stored and registered keys, the key of each token, alerts under way; the worker's status and the keys it computes with |
| `KeyRegistry` | what both promise together: a key per path, replaced atomically, confirmed only after its registration | abstract: `key`, `confirmed`, `acknowledged` |
| `WorkerTransport` | one client's calls to its worker: post, poll, deadline, timings | `phase`, the call, its execution id, the time since the deadline was set, the header and the timing; at the worker the executions |
| `Workers` | `get_or_start`, `start`, `running`, `stop`, `active` of several clients of one model | `pc` per client, the list it works off, the session it holds; at the backend the sessions |
| `Deployment` | `deploy`: find or create the model, stop workers, update, upload, alert, poll | `pc` per deployer with what it asks for; at the backend models, compilations, workers |
| `LevelTracing` | the levels of traced values, the drops, custom inputs, the consumption order | levels as rows in the order they are kept in and columns per row; `HomParams` fields that survive `serialize` |
| `PipelineGraph` | tracing, clear execution and printing of a pipeline | frames of nested operators being traced, the registry of tensors, the graph, frames of its execution, scopes of the printer |
| `ShapeTracing` | shape inference of the operators, next to what they compute | the traced shape and packed axis of a value, and the slot of each entry of the tensor |
| `Remez` | one fit: solve, trim, exchange, in both paths and engines | the instance, the round, the references, the current, the best and the reference set of an error curve |
| `CosineMinimax`, `SignSearch` | the degree continuation; the search for the sign composite | the schedule of degrees and the last converged fit; depth, candidates, the stages fit so far |
| `Sums` | `sum()` of Python, for `Remez` and `SignSearch` | |
| `Approximations` | the composition of the three | a program that asks for one or the other |
| `Operations` | the stack of operations and output contexts, the drawing thread | `blocks`, what each has said, what is on the screen, where the thread is |
| `TokenStore` | tokens created, saved and loaded, over `Operations` | files with times, the call in progress, other processes |
| `MC*` | constants of the TLC runs | |
| `*_proofs` | the theorems of a module; `Tracing_proofs` those of `LevelTracing` and `ShapeTracing` | |

Operators marked "Slip" are wrong variants of the definition beside them: what
the properties are meant to catch.

The modules follow the code step for step where another actor can look in
between, and join what nobody can tell apart.  A request to the backend is one
step with these outcomes: it fails without effect, it takes effect and the answer
is lost (the client raises all the same), or it succeeds.  A process may die in
every step; locals are gone then, files and the backend's state stay.

### Keys

`key`, the evaluation key and the metadata are the three artifacts of a
revision: the three files of a key are written, read and validated alike.  A
revision name is used once.  `LateFailure` says whether a call may raise after a
rename took effect (an error of the directory's fsync, Ctrl-C), `LateAlerts`
whether an alert given up on may still reach the backend.  External: the
backend keeps the evaluation key whose upload was reported last; a worker reads
it when it comes up and when it is told to preprocess.

### WorkerTransport

Time is counted from the moment the deadline is set, and advances with what a
sleep or a request takes: up to its timeout, plus `Lag`.  A poll's timeouts are
cut to the remaining time.  External: the worker may complete an execution,
resume it under another id, forget it; its answers may be lost, late, malformed.

### Workers

A client makes the calls in `Op[c]`.  Some sessions are `Nameless`: the backend's
answers carry no id for them, which the code passes over.  External: sessions
come up and die.  Assumed: the backend's list reflects the requests completed
before it, and a stop that succeeded has ended the session.

### Deployment

Assumed of the backend: its answer to `upload_complete` comes after the model's
status was reset; a later upload replaces a compilation under way; stopping by
model id stops every worker of the model.  Users of the model start and stop
workers at any time; `meanwhile` marks workers started since a deploy began to
stop them.

### LevelTracing

The chain is the pipeline's rows, then the rows of StC and the base row; the
rows of CtS, EvalMod and the special primes are never active in a traced value.
A scale is abstracted to the primes it was divided by (`last.drop.by`), to be
compared with the primes taken from the value.  Operators that drop several
levels do so one by one in the code and are as many operations of the model;
operators that drop through `infer_optional_modswitch` alone are all
`HomConstMul`; those that leave levels alone are left out.  A nested operator renames
what it gets and keeps a custom input's reference (`_bind_inputs_to_names`), so an
operation in its body is like one outside; what it returns loses the reference
(`_allocate_value`).  So a custom input that a nested operator returns unchanged goes on
as an ordinary value at the level it came with (`HandedOn`).  The docstring of
`infer_adjust_levels_and_scale` speaks of scales that must match in an addition;
the tracing code does not compare them, and neither does the model.

### PipelineGraph

An application is a set of leaf operators with their weights, composite
operators with parameters, `SequentialHomOp` for the client sections, and the
section's operator.  TLC traces every pipeline the bounds admit: which operator is
called next, on which values, is chosen step by step, and a composite's body ends
with any value in sight.  A value is what it was computed by (a term), so two
computations agree exactly if their terms do.  The traced graph is then run by
`run_clear_section` with its flags and counts, or printed; `direct` terms computed
while tracing say what the operators themselves do.  `Wide` names tensors that
are given to operators as two objects over the same memory.

### ShapeTracing

An entry of the clear tensor is only the slot it lies in: a tensor maps the indices
of its shape to slots.  Entries that are added
or multiplied must share it; where they do not, the result is `Mixed`, and
`TraceIsTrue` fails.  A packed axis of size 1 is repeated in all slots, so that
broadcasting spreads it.  A matrix product along the packed axis repacks the result
along the axis it chose, by definition.

### Remez, CosineMinimax, SignSearch

A solve yields any curve of a small set: samples of the error on a grid, from
which extrema, peaks and references are computed as in the code.  The level of a
solve is at most the peak of its error and equals it when the extrema are even.
Positions are integers, `Scale` apart, so that halved gaps stay exact.  The general
path selects from the extrema that are not below the floor of the arithmetic
(`Noise`; none in a float64 fit of one subdomain).  Its mpmath polish is the same exchange
from the float64 references.  The sign path's takes every extremum, the ends of the
subdomains too, to a zero of the derivative (`Moved`): an end comes to any extremum found or
to a point outside the subdomains (`Strays`), and keeps its turn in the list, so what is
selected from may repeat points and be out of order.  A system on references that coincide
has some curve for its error like any other; the code may raise.  Subdomains are apart,
as `sign_minimax` (intervals while the inner bound is positive), `mod_reduction_intervals`
(for `eps` below 1/2) and `arcsin_minimax` (one interval) make them; of two that
touch, `_general_extrema` lists the common end twice.  `MaxRefinements`
and `MaxTotalDepth` are those of `sign_minimax`, and what a stage measures is one
of `Bits` and `Accuracies`.

### Operations, TokenStore

A block is an operation or an output context; `blocks` is the order in which they
were entered.  The thread looks at its stop event (`Check`) and then writes
(`Draw`); ending the operation sets the event, waits for the thread and then
shows the end.  A message is a tuple of what it is about.  Files have any time up to
`MaxTime`, so that clocks set back and equal times occur; other processes save and
remove while a call runs.

## Runs

| run | instance | what it shows |
|---|---|---|
| `keys` | 2 clients of one token, 1 path, 2 revisions, fairness | the key in use is usable, what is returned is ready; the backend and a worker have the key in use; refinement of `KeyRegistry`; a pending key is registered in the end |
| `keys_two_tokens` | 2 clients with 2 tokens on one path, 2 revisions, late failures and alerts | no key is registered for a foreign token; upload marks are honest even so |
| `transport_calls` | 3 calls, 3 executions, a deadline of about three polls, fairness | deadline, honest timeouts, own answers, one submission; every call ends |
| `workers_shared` | 2 clients, 3 sessions, one nameless | one session each, no session left running after a timeout or a context left |
| `workers_alone` | 1 client, 3 sessions, 2 polls, fairness | a worker in use came up; a client that keeps asking is served |
| `deploy` | 1 deployer, 2 models, 3 artifacts, 2 instance types, 1 or 2 devices, 2 polls, fairness | no second model, the right instance and devices, the deployed artifact is served; deploys end |
| `levels` | 2 pipeline rows (one of two columns), 1 StC row, 1 custom input, 3 operations | exact drops, bootstrap rows last, levels only fall, one level per reference to a custom input, consumption order |
| `graph` | 3 leaves, a nested operator, all sections or only the homomorphic one, 3 operations, depth 2 | tensors told apart; the run computes what the operators do and holds exactly the values still needed; the printer shows what flows |
| `approximations` | curves of 6 samples on 1 to 4 subdomains, 2 to 9 references, up to 6 rounds, both paths and engines, a floor each, 2 stray points; degrees 1 to 5; depth up to 7 | solvable systems, alternating references with the tallest extremum kept, with the exceptions of the sign path's polish; the best references of one or two too many; a polynomial never worse than one seen; the continuation takes over where it converged and ends as asked; the smallest composite |
| `tokens` | 2 tokens, 2 times, operations and contexts nested 3 deep | all that was reported with output enabled is shown, nothing is drawn after the end, the newest token is loaded |
| `shapes` | values of at most 3 axes and 12 entries, chains of any length | the traced shape is the computed one and the packed axis is where the entries lie |
| `shapes_kept_axis` | the same with axes counted from the end (violation) | a kept axis ends up in another place than in the computed tensor |

### Bounds

*Keys.*  Two revisions: the one in use and the one that replaces and prunes it; the
two-token run needs a key of each token.  A third client adds only another
waiter on the lock.  *Transport.*  Three executions let an
abandoned one, the call's own and the one it is resumed under coexist; the
constants make the last poll start within one request timeout of the deadline,
where the timeouts are cut.  *Workers.*  Two sessions of a client and one
of another fit in three; identities of ended sessions are reused, so calls are not
bounded.  `MaxPolls` of 1 and 2 let a worker come up before, between and after
polls.  *Deployment.*  Three artifacts: the one served, the one compiled, the one
being deployed.  Two models suffice to create a name twice.  *Levels.*  Three
operations let a value be dropped, refreshed and meet an older one; two rows in
the pipeline, one with two columns, give every kind of drop and orders that
differ from the chain's.  *Graph.*  Three operations let a value be used before,
inside and after a nested operator, twice by one operator, and never; two scopes
deep is one operator within another in a section.  The nested operator takes one
value; that several are bound in order is seen at the homomorphic section's
operator, which takes the primary input and a custom one.  *Approximations.*  Six samples
give up to six extrema: as many as the references, one, two and more too many, and
too few; six rounds of the sign path reach the early stop of a stall.  The floor of float64
lies above some curves' peaks, so that all, some or none of the extrema are left to
select from; the polish of the sign path has two rounds, so that references that coincide or
are out of order are solved on, and a stray point on either side of the subdomains.  The
depth of 7 admits composites of one and two stages with up to two refinements.
*Tokens.*  Three blocks let a disabled context lie between two operations; two
times make equal, older and newer files.  *Shapes.*  Three axes put the packed one
first, last and between; the number of operations is not bounded, the values are.
What the bounds cut off is the subject of the theorems, as far as they go.

Symmetry is used for revisions in `keys_two_tokens`, which checks no liveness.
Deadlock is checked in all runs but `graph`, where a pipeline that was run and
printed is done.

### Fairness

Each client's, deployer's or caller's own step is weakly fair: the code calls
blocking functions with timeouts, so a thread inside a call goes on.  Nothing is
assumed of the backend, the worker, compilations or sessions: `CallEnds` and
`DeploysEnd` hold though these never answer usefully.  `Keys` adds strong
fairness of taking the lock: `flock` hands a lock that is released again and again
to each waiter in the end.  `PendingIsRegistered` and `Served` are about a client
that keeps calling, once failures cease; both conditions are part of the property,
not of the specification.

## Disagreements with the documentation

* `shapes_kept_axis`: `infer_reduce_axis_output_shape` inserts the kept axis into the
  already reduced shape at the same negative `dim` (`shape_tracing.py:162`): summing
  (2, 3) along -1 with `keep_dim` traces (1, 2), and computes (2, 1).  `HomMul` with
  `axis_sum` and `keep_axis` is affected as well.

Further ones, met while modelling and not kept as runs:

* `save_key_bundle` removes the new bundle whenever an exception leaves its `try`
  block, also when `current` already names it (`key_store.py:149`): `CurrentUsable`
  fails with `LateFailure`, against the query README's "Key storage and recovery".
* `last_server_timing`, documented as the timing of the last worker call, is not reset
  when a call fails (`worker.py:101`).
* `get_or_start` promises to stop non-ready workers; it decides by a status read
  before its other requests (`workers.py:192`), and so may stop one that came up since.
* The tracer stores two objects over the same memory once (`hom_op_tracer.py`,
  docstring at 120-122), but not when the second is made by a later operator:
  `NoSharedMemory` fails with `Wide = {"w"}`.
* `_select_references` "maximum-absolute-sum": removal is greedy, so with three or more
  extrema too many the sum need not be the largest; `LargestSum` claims it for one or
  two too many, one step at a time.
* `cosine_minimax` says it ends at the degree asked for; a start degree that is not a
  whole number of steps below goes past it (K = 13, degree 36: 23, then up to 37).
  `OutcomeAsAsked` says by how much at most.
* "Newton-polish to full precision" (`remez_utils.py:569`) moves the ends of the
  subdomains as well, which are no zeros of the derivative: `_fit_mpmath` may select references
  that coincide, are out of order, or lie outside the subdomains, and lose the peak at an
  end.  `ExchangeSound` claims of that polish that its systems stay square, that signs
  alternate and that the tallest of the moved extrema is selected; `Refs` are the
  float64 engine's when it ends.  With a noise floor above all extrema
  (`remez_utils.py:311`) there is none to select and the references stay what they were.
* A converged spread of 0 also results from fewer references than unknowns; the sign
  path keeps the result of mpmath whatever its error; the mpmath engine reports the level
  as the error.  The branch at `remez_utils.py:362` and the fresh seed at 719-728 are
  never reached.
* "Reuse the state established by the custom input's first occurrence"
  (`hom_op_tracer.py:71-72`) reaches only the occurrences that still have the reference: a
  custom input that a nested operator returns unchanged keeps the level it came with, so
  one ciphertext is traced at two levels.  `OneStatePerReference` claims nothing of it.
* "Setting enabled to false suppresses status and operation output entirely"
  (`logging.py:44-45`), but what `log_info` reports under a disabled `OutputConfig` inside
  an enabled operation goes to that operation's list and is shown with it (`log_info` looks
  at the settings outside operations only).  `AllIsShown` demands what was reported while
  output was enabled and leaves open what was not (`hushed`).
* `HomConv.infer_output_shape` takes any `n_axis` and makes it -1 (`h_conv.py:150-155`), though
  the operator "expects an unbatched packed tensor with shape (channels, packed spatial
  slots)" (193-195): of (2, 3) packed along 0, a 1x1 convolution traces (channels, 3) packed
  along 1 while every entry adds two slots.  Nothing is raised.  `TraceIsTrue` fails with
  `ConvAxes = {0, 1}`; the run and `TraceTrue` have the axis of the pixels only.
* `HomConv` traces the input's pixels whatever the padding, while the clear result
  shrinks for paddings other than (k - 1) / 2; `HomExpand` counts a negative axis from the
  input when tracing and from the output when computing.

Hazards seen beyond those `PROJECT.json` lists: the upload flag is kept per path, so a
second path or machine registers another key for the token (`keys.py:52`); a status of
the previous compilation would end the wait at once (`deployment.py:233`);
`HomParams` reused after a ring switch keeps `num_init_rows = 0` (`hom_pipeline.py:294`);
a token created and not saved is lost (`tokens.py:61`); `load` strips names and `save`
does not (`token_store.py:49`); a rendering that raises leaves its operation on the stack
(`logging.py:256`); encrypted data are uploaded without a look at the worker
(`encrypted_data.py:58`); only the number of `cols_to_drop` is used (`h_mod_switch.py:42`).

## Proofs

All theorems hold for every value of the constants that satisfies the
assumptions named in the modules.  The runs check the properties that follow from the
inductive invariants on small instances.

*Keys.*  `IInv` says who holds the lock of a path (`LockInv`), whose revision a
client has in hand (`HeldInv`), how far it is written (`SavingInv`), that from
the commit on it is the one in use (`CommittedInv`), and what files and backend
agree on (`RevisionInv`).  Exclusion by the lock is what makes the rest
inductive: a revision in a client's hand is touched by that client alone, so
`CommittedInv` survives the steps of all others.  From it follow
`TypeCorrect`, `UploadedKeysAreRegistered`, `ReturnedKeysAreReady` and
`NoForeignKeys`.  `KeysInUseAreComplete` and the refinement `KeysImplementRegistry`
need `LateFailure = FALSE`.  `BackendKeyIsCurrent` and `WorkerKeyIsCurrent` need one path
and `LateAlerts = FALSE`; they rest on `BackendInv`: from the alert to the mark the
backend has the key in hand, and at the mark so has a worker that is up, whether it
was told to preprocess or came up after the look at its status.

*WorkerTransport.*  `IInv` adds to the properties that the execution polled for
belongs to the call in progress and that a call not yet posted was submitted
never.  `DeadlineOvershoot` is arithmetic on the cut timeouts (`PollDuration`).
`TimingsMatchAnswers` is proved only.

*Workers.*  `OneWorkerPerClient` rests on `ListInv`: when a client is about to
choose or start, every session it has running is still on the list it works
off, so with the list empty there is none.  The proof is in two layers: what is
known of the sessions in hand (`KnownInv`), then the list.  `UsedOnceUp` follows from
`UpInv`: whatever a client was told is up came up, and no session that is known to a client
goes back to starting.

*Deployment.*  `DevicesNeverMixed` holds for any number of deployers, because the
number is part of what a model is found by.  The other properties are for a
deployer alone: `LoneInv` follows its model from `find` to `poll`.

*LevelTracing.*  `IInv` says that the rows of every level in use are in the order of
the chain, except for the base row before StC in a fresh ciphertext of a slim
bootstrap.  For an ordered level the i-th row is the i-th factor
(`FactorsMatch`: the rows below the i-th are those before it), which gives
`ExactDrops`; and the first row of a budget is one of the pipeline's if any is left
(`BootstrapRowsLast`).  `ConsumptionByLastDrop` is about the order that serialization
computes by walking the drops backwards: `Listed` appends a row the first time it is
met, so that a row stands where its last drop does (`AllListedGrown`, `WholeList`), and
the base row, never among the drops, comes last.

*ShapeTracing.*  `ShapeInv` says of the value and of the other input that the trace is
`Faithful` to the tensor: the shape is the tensor's, and if an axis is packed it is one
of the shape's and every entry lies in the slot its coordinate there names.  One lemma per
operator shows that it takes faithful traces to a faithful trace, from what its indices do:
  - an inserted or removed axis moves the coordinates behind it by one (`IndexInserted`,
    `IndexRemoved`), of a sum all entries share the slot (`CombinedOne`);
  - broadcasting keeps axes counted from the end (`BroadcastSpreads`, `MovedTrace`), which is
    why two inputs that agree there combine slot by slot (`OfBothFaithful`);
  - the coordinates of an entry are the digits of its position (`CoordinateOfPosition`); an
    axis of the same size, with the same product of sizes behind it, keeps its
    digit through a reshape (`ReshapeFaithful`);
  - an expanded indexer has its entry where torch counts it (`ActiveIsIndexed`), and the
    axis chosen for a product is never the one summed away (`ChosenSurvives`).
`TraceTrue` needs that axes reduced with `keep_dim` are counted from the front
(`KeptAxes \subseteq Nat`): without it the trace is wrong, as `shapes_kept_axis` shows; and
that what is convolved is packed along its pixels (`ConvAxes \subseteq {1}`): without it
the trace is wrong after a convolution, as TLC finds with `ConvAxes = {0, 1}`.

*PipelineGraph.*  `OneEntryPerMemory` needs of the registry only that it lists tensors
of leaves and none twice, and of the application `TensorsApart`: that it does not give
one float64 or complex128 tensor to two leaves.  Without it the property does not hold: such
tensors are not copied, and the registry compares objects, not the memory they hold.

The other three theorems rest on `GraphInv`, that a set G of recorded
operators, each with its place, exists of which `TraceInv(G)` and `RunInv(G)` hold.  G
is needed because recorded operators are nested to any depth: an invariant about them would be
recursive, and `Closed(G, stored)` says instead that each is recorded well *if the operators
directly in it are in G*.  Recorded well (`Good`) means that ids of a scope are
distinct, that every input is a value of the scope from before the operation, that
refs find the leaf's own tensors, and that flags are those of `LastUses`.  While tracing,
a frame is the beginning of such an operator (`Stacked`); returning from it adds it to G.
While running, a scope holds for each of its values exactly the value's term
(`RunGood`), the scope above was called for the caller's next operation, and so the
value returned is the one the tracer recorded: `RunComputesDirectly`.  The counts of
`RunInv` are the uses still to come, from which `HeldWhileUsed` follows, against
the flags too.  `PrintInv` adds that the scopes being printed show for every value id
the term and the producer that the tracer recorded, and that a section finds in the scope
shared with the ones before it the producer of the value handed over, under an id its own
values do not have (`Fed`, `KeysApart`): `PrintedAsRecorded`.

*Approximations.*  `FitNeverWorse`: the best of a fit is compared in every round, and a
polish replaces it by something smaller only.  `ContinuationAsAsked` follows the degree
from start to the first at or above the one asked for, and what may be handed over when a
fit does not converge.  `ExchangeIsSound` and `TakesOverFromConverged` are about what the
operators of the fit compute, and most of the module is lemmas about these:
  - `Picked`: choosing points by places keeps their order (`AscendingIs`, `PickedIs`), and
    between two neighbours chosen there is no place chosen (`PickedNeighbours`);
  - the first nodes: rounded indices rise (`RoundedRises`), so thinning out keeps points
    apart (`ThinnedIs`); halving the widest gap leaves room for all the halvings to come
    (`HalvedIs`, `FilledIs`) as positions are at least as fine as there are points
    (`FineAssumption`), and drops none (which is `TakesOverFromConverged`);
  - the selection: a run of one side keeps its first tallest (`RunIsKept`) and neighbours
    left are of different sides (`CollapsedAlternates`); the peak is met by a point above
    every threshold (`OutwardPeak`); a pair between two points left is of two sides, so these
    still alternate (`GapOfGone`, `WithoutAPairIs`), and there is always a pair to remove
    that spares the peak (`SparedIs`).  What is selected from (`SolveIs`) is in order and led by
    the peak, or below the floor (`LoudIs`); of what the sign path's polish has moved only the
    tallest is known (`MovedIs`).
`NodesInv` carries the references through rounds and engines, in order and apart but for
the later rounds of the sign path's polish, `SeedInv` from one degree to the
next, and `SelectInv` the selection through its removals.  `OutwardPeak` needs that no error is
the same all over a subdomain and negative (`CurvesAssumption`): `_general_extrema` takes
both its ends for peaks, whatever their sign, and the thresholds would drop them.

`ChoicesBest` has two halves.  *What selection costs* (`LargestSum`): `TrimInvariant` says that the
references trimmed from a skeleton one or two too long have lost no more than any other
alternating choice of as many has.  Two steps make it hold: with one extremum too many an alternating choice leaves out one
end, with two too many two neighbours or both ends, as two of one side would meet
otherwise (`OneBetween`, `LeftOut`); and the code removes the end that costs less
(`LowerEndGoes`), or the pair of the smallest sum, at once or as an end and then the
other one or its neighbour (`LeastPairGoes`, `PairGone`).  *The sign search* (`SmallestDepth`): `CandidatesAre` shows that
the two enumerations of the code, degree lists by parts and tails by orders, list
exactly the lists of supported degrees and the tails that do not decrease, of the depth
charged (`DegreeListsAre`, `CombosAre`, `SpaceIsCharged`).  `SearchInv` then says that all that is
less deep was rejected, and that what is as deep was rejected, waits or passed; when the
search ends nothing waits.  The search begins below depth 3 (`NothingShallow`).

*TokenStore.*  `FramesOnlyBefore`: the thread is past its check only while the operation
waits for it.  `NewestIsLoaded`: what was looked at so far is no newer than the newest
found, and a file that was there all the time is still to be looked at or was.
`CompletionIsWhole`: the outermost operation's list of messages is the `Digest` of all that
was reported since it was entered (each message once, in the order of their first
report), whichever nested block reported it (`GatherInv`); that is more than `AllIsShown`
claims (`DigestIsWhole`).

*What a fold computes.*  Several of these theorems are about what a loop over a list
leaves (`Listed`, `Kept`, infos).  The induction theorems of the library are about
operators, which the provers cannot instantiate, so each such proof makes its own
induction over a set of numbers: `LeastNat` from the well-foundedness of < on Nat, then
`NatSetInduction`.  A recursive function is a CHOOSE as well, and that there is one to
choose is shown the same way, for whatever looks back at smaller arguments only
(`RecursionExists`): sums, factors, `FlattenSeq` and the two enumerations rest on it.  With it `FoldSteps` (`FoldAdd`) shows once for each fold that it goes through
the list one element at a time, and the lemmas after it follow the values on the way.

Only model-checked: the liveness properties `PendingIsRegistered`, `CallEnds`, `Served` and
`DeploysEnd`, as fairness and ENABLED are beyond the prover.  Every other property of the
passing runs is a theorem.

## Limits

`BackendHasKeyInUse` and `WorkerServesKeyInUse` are claimed for one path and prompt
alerts: with two paths for one token, or an alert that arrives late, the
older registration may win, and nothing in the protocol numbers them.
`Served` is claimed for a client alone with its model: two clients may stop each
other's workers, for ever if both repeat the call.
`DropsAreExact` leaves out the base and StC rows of a slim bootstrap: there a
fresh ciphertext keeps the base first and a drop takes the factors of
another row.  A loss of power is not modelled: the key storage fsyncs files and
some, not all, directories.  The instance of `deploy` has one deployer; that devices
are never mixed up by two is proved.

`PipelineGraph` assumes that parameter names are not those of ids (a parameter named
`v0` would collide, `NamesAssumption`); attributes, shapes, the serialized parameters,
verification tensors, levels and a leaf as the homomorphic section are left out, and so
are the labels of custom inputs in prints, which are looked up by name in the
operator's scope.  `ShapeTracing` leaves out `HomExpand`, `HomSumSlots`, the mux layout,
negative steps, other paddings and the check of `n_slots` in `resolve_n_axis`.
`Approximations` leaves out `build_composite`, plots and what the polynomials
evaluate to.  `Operations` leaves out an operation entered a second time.

Not modelled: the FHE core, the backend's internals, the choice of primes and
bootstrapping parameters, wire encodings, layout of the output, examples; query
execution, encrypted data and tensor serialization are straight lines or conversions
without a protocol of their own.  `PROJECT.json` gives the reason for each part.

## Plan

All modules of the plan are written.  What would come next: compositions of `Workers`
with `Deployment` (running workers during a redeploy) and of `Keys` with `Deployment`
(a context that a redeploy makes stale); a ghost that marks overlapping deploys, so that
`Deployment` has one run for both cases; bootstrapping parameters.

---------------------------- MODULE PipelineGraph ----------------------------
(* The graph of a pipeline (build base_classes/hom_op_tracer.py,              *)
(* hom_pipeline.py): the tracer records what the application's operators do   *)
(* on symbolic values, section by section, a nested operator in a scope of    *)
(* its own; serialization/clear_execution.py runs the recorded graph on       *)
(* clear tensors, base_classes/print_graph_structure.py prints it.            *)
(*                                                                            *)
(* What forward() does is any sequence of calls on the values it holds.  A    *)
(* value carries a term, what the operators compute when they are called on   *)
(* clear tensors directly, and the place of the operation that made it.       *)
(* Levels are LevelTracing's, shapes are left out, and so are colours and     *)
(* layout of the print and its lines for custom inputs.                       *)
EXTENDS Naturals, FiniteSets, Sequences, SequencesExt

CONSTANTS
    Leaf,           \* the leaf operators of the application
    Arity,          \* inputs a leaf takes
    Data,           \* the tensors given to set_data of a leaf
    Wide,           \* those that are float64 or complex128 already
    ClientLeaf,     \* the leaves that are ClientOps
    Block,          \* the operators with a forward() of their own
    Params,         \* the parameter names of its forward()
    Chain,          \* SequentialHomOp
    Nested,         \* the operators the application calls in others
    Hom,            \* the operator of the homomorphic section
    Pipelines,      \* the sections a pipeline has
    Local,          \* the id v0, v1, ... of the n-th output of a scope
    None,
    MaxOps, MaxDepth    \* bounds: operations of a pipeline, nested scopes

Section == {"client_pre", "hom", "client_post"}
Names(b) == {Params[b][i] : i \in DOMAIN Params[b]}
Input == Names(Hom)

ASSUME GraphAssumption ==
    /\ Arity \in [Leaf -> Nat \ {0}]
    /\ DOMAIN Data = Leaf /\ \A l \in Leaf : Data[l] \in Seq(ToSet(Data[l]))
    /\ ClientLeaf \subseteq Leaf /\ {Chain, Hom} \cup Nested \subseteq Block
    /\ MaxOps \in Nat /\ MaxDepth \in Nat
    /\ DOMAIN Params = Block /\ DOMAIN Local = 0..MaxOps
    /\ \A b \in Block : Params[b] \in Seq(Names(b)) /\ Len(Params[b]) > 0
    /\ Len(Params[Chain]) = 1
    /\ \A s \in Pipelines : "hom" \in s /\ s \subseteq Section
    /\ None \notin Leaf

\* Python keeps a function's parameter names apart; that none of them is an id
\* of the tracer, nor an input of the pipeline SequentialHomOp's, is up to the
\* application.
ASSUME NamesAssumption ==
    /\ \A b \in Block : \A i, j \in DOMAIN Params[b] : Params[b][i] = Params[b][j] => i = j
    /\ \A b \in Block, n \in DOMAIN Local : \A i \in DOMAIN Params[b] : Params[b][i] # Local[n]
    /\ \A m, n \in DOMAIN Local : Local[m] = Local[n] => m = n
    /\ Names(Chain) \cap Input = {}

VARIABLES
    stage,      \* trace, built, then run or print, then done; or refused
    has,        \* the sections the pipeline has
    section,    \* the section being traced, run or printed
    frames,     \* the Tracers entered, innermost last
    stored,     \* the tensor registry: the tensor of each ref
    graph,      \* the serialized sections
    calls,      \* operators called so far
    traced,     \* the HomValue the section traced last returned
    runs,       \* the calls of run_clear_section, innermost last
    output,     \* the tensor the section run last returned
    prints,     \* the scopes of the operators being printed, innermost last
    scope,      \* the scope the printed sections share
    lines       \* the values the last lines printed show

vars == <<stage, has, section, frames, stored, graph, calls, traced, runs, output, prints, scope, lines>>

-----------------------------------------------------------------------------
(* Values and recorded operations *)

\* A HomValue.  Of its shape and levels only the term they were inferred from
\* is kept; maker is the place of the operation that returned it.
Value(id, term, maker) == [id |-> id, term |-> term, maker |-> maker]
Renamed(v, id) == [v EXCEPT !.id = id]

\* serialize_hom_val
Info(v) == [id |-> v.id, term |-> v.term]

Ids(vs) == [i \in DOMAIN vs |-> vs[i].id]
Terms(vs) == [i \in DOMAIN vs |-> vs[i].term]

\* The operator of a section puts no value out in a scope.
Nothing == <<>>

\* A recorded operation.  A leaf has refs of its data, a nested operator the
\* names, output and operations of its body; given is what it was called with,
\* serialized (as input_values) for the operator of a section only.
Operation(op, data, given, out) ==
    [op |-> op, data |-> data, given |-> given, inputs |-> Ids(given), output |-> out,
     names |-> <<>>, body |-> None, ops |-> <<>>, last |-> <<>>]

\* finalize: an input is the last use of its value when neither a later
\* operation nor a later input of the same one has it.
LastUses(ops) ==
    [i \in DOMAIN ops |-> [p \in DOMAIN ops[i].inputs |->
        /\ \A j \in (i + 1)..Len(ops) : ~Contains(ops[j].inputs, ops[i].inputs[p])
        /\ \A q \in (p + 1)..Len(ops[i].inputs) : ops[i].inputs[q] # ops[i].inputs[p]]]

\* The operation of a frame whose forward() returned v.
Composite(f, v, out) ==
    [Operation(None, <<>>, f.given, out) EXCEPT
        !.names = Params[f.block], !.body = Info(v),
        !.ops = [i \in DOMAIN f.ops |-> [f.ops[i] EXCEPT !.last = LastUses(f.ops)[i]]]]

-----------------------------------------------------------------------------
(* Tracing *)

Root == [s \in Section |-> IF s = "hom" THEN Hom ELSE Chain]
Top == frames[Len(frames)]
Below == frames[Len(frames) - 1]
Beneath(n) == SubSeq(frames, 1, Len(frames) - n)

\* The place of the next operation of a scope, as the printer numbers it.
Place(f) == Append(f.path, Len(f.ops))

\* _bind_inputs_to_names
Frame(b, path, given) ==
    [block |-> b, path |-> path, given |-> given, ops |-> <<>>,
     vals |-> [i \in DOMAIN given |-> Renamed(given[i], Params[b][i])]]

\* _allocate_value: an output's id counts the operations of its own scope.
Allocated(f, term) == Value(Local[Len(f.ops)], term, Place(f))

Called(f, op, out) == [f EXCEPT !.ops = Append(@, op), !.vals = Append(@, out)]

\* What the application may call an operator on; SequentialHomOp has only the
\* value its last operator returned.
Arguments(f, n) ==
    IF f.block = Chain THEN IF n = 1 THEN {<<f.vals[Len(f.vals)]>>} ELSE {}
    ELSE [1..n -> {f.vals[i] : i \in DOMAIN f.vals}]

\* _set_data_here: a tensor of the leaf's own, in the memory of the one given
\* when it needs no conversion.
Converted(leaf) ==
    [i \in DOMAIN Data[leaf] |->
        [op |-> leaf, item |-> i,
         memory |-> IF Data[leaf][i] \in Wide THEN <<Data[leaf][i]>> ELSE <<leaf, i>>]]

\* (Slip: every application of an operator stores its tensors.)
RegisteredAgain(ts) == stored \o ts

\* _register_tensor
Kept(reg, t) == IF Contains(reg, t) THEN reg ELSE Append(reg, t)
Registered(ts) == FoldLeft(Kept, stored, ts)

\* (Slip: a tensor's ref counts the tensors stored so far.)
RefLast(reg, t) == Len(reg)
Ref(reg, t) == SelectInSeq(reg, LAMBDA x : x = t)

\* The HomValues of the pipeline's inputs, and what a section is called with:
\* client_pre takes the primary input and its output takes that one's place.
Given == [i \in DOMAIN Params[Hom] |-> Value(Params[Hom][i], <<Params[Hom][i]>>, None)]
SectionInputs(s, v) ==
    CASE s = "client_pre" -> <<Given[1]>>
      [] s = "hom" -> IF "client_pre" \in has THEN [Given EXCEPT ![1] = v] ELSE Given
      [] s = "client_post" -> <<v>>

\* The sections in their order.
First(sections) == IF "client_pre" \in sections THEN "client_pre" ELSE "hom"
After(s) == IF s = "client_pre" THEN {"hom"} ELSE IF s = "hom" THEN has \cap {"client_post"} ELSE {}

EmptyScope == [values |-> <<>>, producers |-> <<>>]

Init ==
    /\ stage = "trace" /\ traced = None
    /\ has \in Pipelines
    /\ section = First(has)
    /\ frames = <<Frame(Root[section], <<0>>, SectionInputs(section, None))>>
    /\ calls = 0
    /\ stored = <<>> /\ graph = [s \in Section |-> None]
    /\ runs = <<>> /\ output = None
    /\ prints = <<>> /\ scope = EmptyScope /\ lines = <<>>

Tracing == stage = "trace" /\ UNCHANGED <<has, runs, output, prints, scope, lines>>

\* Client-only operators are for clear data.
Allowed(leaf) == section # "hom" \/ leaf \notin ClientLeaf

\* HomOp.__call__ on a leaf.
CallLeaf ==
    /\ Tracing /\ calls < MaxOps /\ calls' = calls + 1
    /\ \E leaf \in Leaf : \E given \in Arguments(Top, Arity[leaf]) :
          IF Allowed(leaf)
          THEN LET data == Converted(leaf)
                   reg == Registered(data)
                   refs == [i \in DOMAIN data |-> Ref(reg, data[i])]
                   out == Allocated(Top, <<leaf, Data[leaf], Terms(given)>>)
               IN  /\ stored' = reg
                   /\ frames' = Append(Beneath(1), Called(Top, Operation(leaf, refs, given, Info(out)), out))
                   /\ UNCHANGED <<stage, section, graph, traced>>
          ELSE /\ stage' = "refused"
               /\ UNCHANGED <<section, frames, stored, graph, traced>>

\* HomOp.__call__ on an operator with a forward(): a Tracer of its own.
CallBlock ==
    /\ Tracing /\ calls < MaxOps /\ calls' = calls + 1 /\ Len(frames) < MaxDepth
    /\ \E b \in Nested : \E given \in Arguments(Top, Len(Params[b])) :
          frames' = Append(frames, Frame(b, Place(Top), given))
    /\ UNCHANGED <<stage, section, stored, graph, traced>>

\* What forward() may return.
Returns(f) == {f.vals[i] : i \in IF f.block = Chain THEN {Len(f.vals)} ELSE DOMAIN f.vals}

\* forward() returns to the scope that called it.
ReturnBlock ==
    /\ Tracing /\ Len(frames) > 1
    /\ \E v \in Returns(Top) :
          LET out == Allocated(Below, v.term)
          IN  frames' = Append(Beneath(2), Called(Below, Composite(Top, v, Info(out)), out))
    /\ UNCHANGED <<stage, section, stored, graph, calls, traced>>

\* The operator of a section returns: the next section is traced on its value.
ReturnSection ==
    /\ Tracing /\ Len(frames) = 1
    /\ \E v \in Returns(Top) :
          /\ graph' = [graph EXCEPT ![section] = Composite(Top, v, Nothing)]
          /\ traced' = [v EXCEPT !.maker = <<0>>]
    /\ IF After(section) = {}
       THEN stage' = "built" /\ frames' = <<>> /\ UNCHANGED section
       ELSE /\ section' \in After(section)
            /\ frames' = <<Frame(Root[section'], <<0>>, SectionInputs(section', traced'))>>
            /\ UNCHANGED stage
    /\ UNCHANGED <<stored, calls>>

-----------------------------------------------------------------------------
(* Running: run_clear_section on the sections, one after the other *)

Uses(op) ==
    LET uses == UNION {{i} \X DOMAIN op.ops[i].inputs : i \in DOMAIN op.ops}
        name(u) == op.ops[u[1]].inputs[u[2]]
    IN  [n \in {name(u) : u \in uses} \cup {op.body.id} |->
            Cardinality({u \in uses : name(u) = n}) + IF n = op.body.id THEN 1 ELSE 0]

RunFrame(op, values) ==
    [op |-> op, k |-> 0, uses |-> Uses(op),
     env |-> [n \in ToSet(op.names) |-> values[SelectInSeq(op.names, LAMBDA x : x = n)]]]

Running == runs[Len(runs)]
Caller == runs[Len(runs) - 1]
Child(f) == f.op.ops[f.k + 1]
Readable(f) == ToSet(Child(f).inputs) \subseteq DOMAIN f.env
Values(f) == [p \in DOMAIN Child(f).inputs |-> f.env[Child(f).inputs[p]]]

\* (Slip: the section's own output is not counted as a use.)
LeftAfterUncounted(f) ==
    [n \in DOMAIN f.uses |->
        f.uses[n] - Cardinality({p \in DOMAIN Child(f).inputs : Child(f).inputs[p] = n})
                  - IF f.k = 0 /\ n = f.op.body.id THEN 1 ELSE 0]

LeftAfter(f) ==
    [n \in DOMAIN f.uses |->
        f.uses[n] - Cardinality({p \in DOMAIN Child(f).inputs : Child(f).inputs[p] = n})]

\* The child's value is kept under its id, and what it was the last to use goes.
Yielded(f, value) ==
    LET left == LeftAfter(f)
        gone == {n \in ToSet(Child(f).inputs) : left[n] = 0}
    IN  [f EXCEPT !.k = @ + 1, !.uses = left,
                  !.env = [n \in (DOMAIN f.env \cup {Child(f).output.id}) \ gone |->
                              IF n = Child(f).output.id THEN value ELSE f.env[n]]]

\* A leaf is built again from its attributes, on the data its refs resolve to.
LeafValue(op, values) ==
    <<op.op, [i \in DOMAIN op.data |-> Data[stored[op.data[i]].op][stored[op.data[i]].item]], values>>

RunInputs(s, v) ==
    CASE s = "client_pre" -> Terms(<<Given[1]>>)
      [] s = "hom" -> IF "client_pre" \in has THEN [Terms(Given) EXCEPT ![1] = v] ELSE Terms(Given)
      [] s = "client_post" -> <<v>>

Run ==
    /\ stage = "built" /\ stage' = "run"
    /\ section' = First(has)
    /\ runs' = <<RunFrame(graph[section'], RunInputs(section', None))>>
    /\ UNCHANGED <<has, frames, stored, graph, calls, traced, output, prints, scope, lines>>

InRun == stage = "run" /\ UNCHANGED <<has, frames, stored, graph, calls, traced, prints, scope, lines>>
Pending == Running.k < Len(Running.op.ops)

RunLeaf ==
    /\ InRun /\ Pending /\ Readable(Running) /\ Child(Running).op # None
    /\ runs' = [runs EXCEPT ![Len(runs)] = Yielded(@, LeafValue(Child(@), Values(@)))]
    /\ UNCHANGED <<stage, section, output>>

RunBlock ==
    /\ InRun /\ Pending /\ Readable(Running) /\ Child(Running).op = None
    /\ runs' = Append(runs, RunFrame(Child(Running), Values(Running)))
    /\ UNCHANGED <<stage, section, output>>

\* env[output_id], for the caller or as the section's output.
RunReturn ==
    /\ InRun /\ ~Pending /\ Running.op.body.id \in DOMAIN Running.env
    /\ LET value == Running.env[Running.op.body.id]
       IN  IF Len(runs) > 1
           THEN /\ runs' = Append(SubSeq(runs, 1, Len(runs) - 2), Yielded(Caller, value))
                /\ UNCHANGED <<stage, section, output>>
           ELSE /\ output' = value
                /\ IF After(section) = {}
                   THEN stage' = "done" /\ runs' = <<>> /\ UNCHANGED section
                   ELSE /\ section' \in After(section)
                        /\ runs' = <<RunFrame(graph[section'], RunInputs(section', value))>>
                        /\ UNCHANGED stage

-----------------------------------------------------------------------------
(* Printing: print_graph walks the sections with scopes of its own *)

Put(fn, key, value) == [k \in DOMAIN fn \cup {key} |-> IF k = key THEN value ELSE fn[k]]
Get(fn, key) == IF key \in DOMAIN fn THEN fn[key] ELSE None

\* _seed_section_inputs: each input under its id and under its name; of those
\* under one key the last stays.
Seeded(sc, op) ==
    LET under(k) == {i \in DOMAIN op.given : k \in {op.given[i].id, op.names[i]}}
    IN  [sc EXCEPT !.values =
            [k \in DOMAIN @ \cup ToSet(Ids(op.given)) \cup ToSet(op.names) |->
                IF under(k) = {} THEN @[k] ELSE [id |-> k, term |-> op.given[Max(under(k))].term]]]

\* A line: the value shown (none: the bare id) and the producer, and those of
\* the value the operation was really called with.
Line(sc, id, v) ==
    [shown |-> IF id \in DOMAIN sc.values THEN sc.values[id].term ELSE None,
     producer |-> Get(sc.producers, id), true |-> v.term, maker |-> v.maker]

InputLines(sc, names, given) == [i \in DOMAIN names |-> Line(sc, names[i], given[i])]

\* _make_local_composite_scope: the caller's values and producers under the
\* names of the body, those it has.
LocalScope(op, parent) ==
    LET caller(n) == op.inputs[SelectInSeq(op.names, LAMBDA x : x = n)]
    IN  [values |-> [n \in {m \in ToSet(op.names) : caller(m) \in DOMAIN parent.values} |->
                        [parent.values[caller(n)] EXCEPT !.id = n]],
         producers |-> [n \in {m \in ToSet(op.names) : caller(m) \in DOMAIN parent.values
                                                     /\ caller(m) \in DOMAIN parent.producers} |->
                        parent.producers[caller(n)]]]

\* (Slip: a nested operator's output is shown under its body's id.)
ShownByBody(op) == IF op.body # None THEN op.body ELSE op.output

\* The output shown for an operation: the caller's, or the body's own.
Shown(op) == IF op.output # Nothing THEN op.output ELSE op.body

Produced(sc, op, place) ==
    [values |-> Put(sc.values, Shown(op).id, Shown(op)),
     producers |-> Put(sc.producers, Shown(op).id, place)]

\* An operator that is printed goes on after one of its operations.
Past(f, op, place) == [f EXCEPT !.k = f.k + 1, !.scope = Produced(f.scope, op, place)]

PrintFrame(op, place, sc) == [op |-> op, place |-> place, k |-> 0, scope |-> LocalScope(op, sc)]

\* A section's header: its inputs are seeded and its operator entered.
Entered(s, sc) ==
    LET seeded == Seeded(sc, graph[s])
        frame == PrintFrame(graph[s], <<0>>, seeded)
    IN  /\ scope' = seeded
        /\ prints' = <<frame>>
        /\ lines' = InputLines(frame.scope, graph[s].names, graph[s].given)

\* The scope of the inputs, with hom's seeded for the pipeline's header.
PrintHeader ==
    /\ stage = "built" /\ stage' = "header"
    /\ scope' = Seeded(EmptyScope, graph["hom"])
    /\ lines' = InputLines(scope', graph["hom"].names, graph["hom"].given)
    /\ UNCHANGED <<has, section, frames, stored, graph, calls, traced, runs, output, prints>>

PrintSections ==
    /\ stage = "header" /\ stage' = "print"
    /\ section' = First(has)
    /\ Entered(section', scope)
    /\ UNCHANGED <<has, frames, stored, graph, calls, traced, runs, output>>

InPrint == stage = "print" /\ UNCHANGED <<has, frames, stored, graph, calls, traced, runs, output>>
Printed == prints[Len(prints)]
NextOp == Printed.op.ops[Printed.k + 1]
NextPlace == Append(Printed.place, Printed.k)
ToPrint == Printed.k < Len(Printed.op.ops)

\* _print_regular_op_body
PrintLeaf ==
    /\ InPrint /\ ToPrint /\ NextOp.op # None
    /\ lines' = InputLines(Printed.scope, NextOp.inputs, NextOp.given)
    /\ prints' = Append(SubSeq(prints, 1, Len(prints) - 1), Past(Printed, NextOp, NextPlace))
    /\ UNCHANGED <<stage, section, scope>>

\* _print_composite_body, up to its operations and after them.
PrintBlock ==
    /\ InPrint /\ ToPrint /\ NextOp.op = None
    /\ LET frame == PrintFrame(NextOp, NextPlace, Printed.scope)
       IN  /\ prints' = Append(prints, frame)
           /\ lines' = InputLines(frame.scope, NextOp.names, NextOp.given)
    /\ UNCHANGED <<stage, section, scope>>

PrintBlockEnd ==
    /\ InPrint /\ ~ToPrint /\ Len(prints) > 1
    /\ LET caller == prints[Len(prints) - 1]
       IN  prints' = Append(SubSeq(prints, 1, Len(prints) - 2), Past(caller, Printed.op, Printed.place))
    /\ lines' = <<>>
    /\ UNCHANGED <<stage, section, scope>>

PrintSectionEnd ==
    /\ InPrint /\ ~ToPrint /\ Len(prints) = 1
    /\ IF After(section) = {}
       THEN /\ stage' = "done" /\ prints' = <<>> /\ lines' = <<>>
            /\ scope' = Produced(scope, Printed.op, Printed.place)
            /\ UNCHANGED section
       ELSE /\ section' \in After(section)
            /\ Entered(section', Produced(scope, Printed.op, Printed.place))
            /\ UNCHANGED stage

Next ==
    \/ CallLeaf \/ CallBlock \/ ReturnBlock \/ ReturnSection
    \/ Run \/ RunLeaf \/ RunBlock \/ RunReturn
    \/ PrintHeader \/ PrintSections \/ PrintLeaf \/ PrintBlock \/ PrintBlockEnd \/ PrintSectionEnd

Spec == Init /\ [][Next]_vars

-----------------------------------------------------------------------------
(* Properties *)

\* No two entries of the registry share memory, which safetensors would refuse
\* to save, however often the operators of a tensor are applied and in however
\* many sections (hom_op_tracer.py: _register_tensor).
NoSharedMemory ==
    \A i, j \in DOMAIN stored : i # j => stored[i].memory # stored[j].memory

\* The recorded graph, run with released intermediates and with its tensors
\* looked up by ref, computes what the operators compute when the application
\* calls them on clear tensors itself (clear_execution.py against
\* hom_pipeline.py: forward_clear).
RunIsDirect == stage = "done" /\ output # None => output = traced.term

\* A scope that is running holds exactly the values it was given or has
\* computed and that a later operation reads, the scope returns, or nothing
\* ever reads: a read never misses and no intermediate outlives its last use
\* (clear_execution.py: run_clear_section).
NothingElseHeld ==
    \A f \in ToSet(runs) :
        LET read(a, b) == UNION {ToSet(f.op.ops[i].inputs) : i \in a..b}
            made == ToSet(f.op.names) \cup {f.op.ops[i].output.id : i \in 1..f.k}
        IN  DOMAIN f.env = made \ (read(1, f.k) \ (read(f.k + 1, Len(f.op.ops)) \cup {f.op.body.id}))

\* The interpreter releases a value after exactly those operations whose input
\* the tracer flagged as its last use, once per operation; only a scope's own
\* output it keeps
\* (hom_op_tracer.py: finalize against the counts of run_clear_section).
FlagsAgree ==
    \A f \in ToSet(runs) : f.k < Len(f.op.ops) =>
        LET c == f.op.ops[f.k + 1]
            flagged == {c.inputs[p] : p \in {q \in DOMAIN c.inputs : c.last[q]}}
        IN  /\ {n \in ToSet(c.inputs) : LeftAfter(f)[n] = 0} = flagged \ {f.op.body.id}
            /\ \A p, q \in DOMAIN c.inputs : c.last[p] /\ c.last[q] /\ p # q => c.inputs[p] # c.inputs[q]

\* A running scope holds a value as long as the recorded graph has a use of it,
\* by the interpreter's counts and by the tracer's flags alike.
HeldExactly == NothingElseHeld /\ FlagsAgree

\* Every input line shows the value the operation was called with, and as its
\* producer the operation that returned it, also through nested scopes and
\* from one section to the next, whose ids and scopes overlap
\* (print_graph_structure.py: _print_input).
PrintsWhatFlows ==
    \A i \in DOMAIN lines :
        lines[i].shown = lines[i].true /\ (stage = "print" => lines[i].producer = lines[i].maker)

=============================================================================

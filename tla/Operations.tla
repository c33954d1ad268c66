----------------------------- MODULE Operations ------------------------------
(* The output of a session (query logging.py): operations nested by with      *)
(* statements, what the work inside them reports, and the thread that draws   *)
(* the outermost one until it completes.                                      *)
(*                                                                            *)
(* A context has one stack of operations; the output settings in force when   *)
(* an operation starts stay its own.  Text, colours, the terminal detection,  *)
(* the progress a frame shows and writes that fail are left out.              *)
EXTENDS Integers, FiniteSets, Sequences, SequencesExt

CONSTANTS
    Duration,       \* how the time they took may read
    MaxDepth,       \* bound: with blocks nested
    None

ASSUME OperationAssumption ==
    /\ Duration # {} /\ MaxDepth \in Nat

VARIABLES
    blocks,     \* the with blocks entered, innermost last: operations with their
                \* own messages, and output contexts
    thread,     \* the drawing thread: off, check (before reading its stop
                \* event) or draw (after)
    stopping,   \* its stop event
    said,       \* history: what was reported since the outermost one started
    hushed,     \* history: the places in it of what was reported with output disabled
    shown       \* history: the completion just written, what was said and hushed by then

logVars == <<blocks, thread, stopping, said, hushed, shown>>

\* OutputConfig: disabled, written without drawing, or drawn (the default, on a
\* terminal).
Config == {"off", "still", "drawn"}
Default == "drawn"

IsOperation(b) == b.kind = "operation"
\* The stack of operations, as their places among the blocks.
Operations == {i \in DOMAIN blocks : IsOperation(blocks[i])}
Outermost == Operations = {Len(blocks)}

\* _current_output_config
InForce ==
    LET contexts == DOMAIN blocks \ Operations
    IN  IF contexts = {} THEN Default
        ELSE blocks[CHOOSE i \in contexts : \A j \in contexts : j <= i].config

Block(kind, op, config) ==
    [kind |-> kind, op |-> op, config |-> config, infos |-> <<>>,
     ending |-> FALSE, error |-> FALSE]

InitLog ==
    /\ blocks = <<>> /\ thread = "off" /\ stopping = FALSE
    /\ said = <<>> /\ hushed = {} /\ shown = None

\* (Slip: the innermost operation keeps what is reported.)
CollectorInnermost(bs) ==
    CHOOSE i \in DOMAIN bs : IsOperation(bs[i]) /\ \A j \in (i + 1)..Len(bs) : ~IsOperation(bs[j])
\* _root: the outermost operation collects what is reported.
Collector(bs) ==
    CHOOSE i \in DOMAIN bs : IsOperation(bs[i]) /\ \A j \in 1..(i - 1) : ~IsOperation(bs[j])

\* add_info, once for each message.
WithInfos(bs, messages) ==
    LET add(list, m) == IF Contains(list, m) THEN list ELSE Append(list, m)
    IN  [bs EXCEPT ![Collector(bs)].infos = FoldLeft(add, @, messages)]

\* output_context
EnterContext ==
    /\ Len(blocks) < MaxDepth
    /\ \E c \in Config : blocks' = Append(blocks, Block("context", None, c))
    /\ shown' = None
    /\ UNCHANGED <<thread, stopping, said, hushed>>

ExitContext ==
    /\ blocks # <<>> /\ Last(blocks).kind = "context"
    /\ blocks' = Front(blocks) /\ shown' = None
    /\ UNCHANGED <<thread, stopping, said, hushed>>

\* start: the outermost operation has the thread.
Start(op) ==
    /\ Len(blocks) < MaxDepth
    /\ blocks' = Append(blocks, Block("operation", op, InForce))
    /\ shown' = None
    /\ UNCHANGED <<said, hushed>>
    /\ IF Operations = {}
       THEN /\ stopping' = FALSE
            /\ thread' = IF InForce = "drawn" THEN "check" ELSE "off"
       ELSE UNCHANGED <<stopping, thread>>

\* stop, up to the join: with or without an error.
Stop(error) ==
    /\ blocks # <<>> /\ IsOperation(Last(blocks)) /\ ~Last(blocks).ending
    /\ blocks' = [blocks EXCEPT ![Len(blocks)].ending = TRUE, ![Len(blocks)].error = error]
    /\ stopping' = (Outermost \/ stopping)
    /\ shown' = None
    /\ UNCHANGED <<thread, said, hushed>>

\* What an operation inside another reports when it ends.
Report(b, duration) ==
    IF b.config = "off" THEN <<>>
    ELSE << <<b.op, duration>> >> \o IF b.error THEN << <<b.op, "error">> >> ELSE <<>>

\* (Slip: the thread is told to stop and not waited for.)
JoinedAtOnce == TRUE
\* The outermost operation waits for the thread to end.
Joined == Outermost => thread = "off"

\* stop, from the join on: an operation inside another reports to it, the
\* outermost one is written with all that was reported.
Stopped ==
    /\ blocks # <<>> /\ IsOperation(Last(blocks)) /\ Last(blocks).ending
    /\ Joined
    /\ LET b == Last(blocks)
       IN  IF ~Outermost
           THEN \E d \in Duration :
                   /\ said' = said \o Report(b, d)
                   /\ blocks' = WithInfos(Front(blocks), Report(b, d))
                   /\ shown' = None
                   /\ UNCHANGED hushed
           ELSE /\ blocks' = Front(blocks)
                /\ shown' = IF b.config = "off" THEN None
                            ELSE [messages |-> b.infos, said |-> said, hushed |-> hushed]
                /\ said' = <<>> /\ hushed' = {}
    /\ UNCHANGED <<thread, stopping>>

\* log_info outside an operation is printed at once; inside one the output settings in
\* force are not looked at.
LogInfo(messages) ==
    /\ IF Operations # {}
       THEN /\ blocks' = WithInfos(blocks, messages) /\ said' = said \o messages
            /\ hushed' = IF InForce # "off" THEN hushed
                         ELSE hushed \cup (DOMAIN said' \ DOMAIN said)
       ELSE UNCHANGED <<blocks, said, hushed>>
    /\ shown' = None
    /\ UNCHANGED <<thread, stopping>>

\* _run
Check ==
    /\ thread = "check" /\ thread' = IF stopping THEN "off" ELSE "draw"
    /\ UNCHANGED <<blocks, stopping, said, hushed, shown>>

Draw ==
    /\ thread = "draw" /\ thread' = "check"
    /\ UNCHANGED <<blocks, stopping, said, hushed, shown>>

-----------------------------------------------------------------------------
(* Properties *)

Root == CHOOSE i \in Operations : \A j \in Operations : i <= j

\* No frame is drawn over a completion: a frame is written only while the
\* operation it shows is running, whenever the thread looks at its stop event
\* (logging.py: OperationLog.stop, _run).
NoFrameAfter ==
    [][thread = "draw" /\ thread' = "check" =>
        Operations # {} /\ blocks[Root].config = "drawn"]_logVars

\* A list has the messages of all that were not hushed, each once, and only messages of
\* all; those never hushed are in the order of their first reports.
Whole(list, all, silent) ==
    LET hidden == {all[k] : k \in silent}
    IN  /\ \A k \in DOMAIN all \ silent : Contains(list, all[k])
        /\ ToSet(list) \subseteq ToSet(all)
        /\ \A i, j \in DOMAIN list : i < j =>
              /\ list[i] # list[j]
              /\ list[i] \notin hidden /\ list[j] \notin hidden =>
                    SelectInSeq(all, LAMBDA m : m = list[i])
                        < SelectInSeq(all, LAMBDA m : m = list[j])

\* What an operation shows when it completes is all that was reported while it ran
\* and output was enabled, at any depth, each message once and in order, and nothing
\* that was not reported, whatever output settings the operations inside it had and
\* however they ended (logging.py: add_info, stop).  Whether a message reported with
\* output disabled is shown, and where, is left open.
AllIsShown == shown # None => Whole(shown.messages, shown.said, shown.hushed)

\* A list has each message of all once, in the order of their first reports.
Digest(list, all) ==
    /\ \A m \in ToSet(all) : Contains(list, m)
    /\ ToSet(list) \subseteq ToSet(all)
    /\ \A i, j \in DOMAIN list : i < j =>
          SelectInSeq(all, LAMBDA m : m = list[i]) < SelectInSeq(all, LAMBDA m : m = list[j])

\* The inductive invariant: the outermost operation has it all the time, what is
\* reported with output disabled included.
CollectInv ==
    /\ IF Operations = {} THEN said = <<>> ELSE Digest(blocks[Root].infos, said)
    /\ AllIsShown

=============================================================================

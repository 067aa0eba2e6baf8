------------------------------ MODULE CallTree ------------------------------
(***************************************************************************)
(* The call tree of one traced thread (qtrace-analysis/src/call_tree.rs),  *)
(* against the thread it is rebuilt from.                                  *)
(*                                                                         *)
(* The thread runs an unknown program: at every step it executes some      *)
(* instruction at `pc`, and `frames` is its real call stack.  What it does *)
(* becomes a row of the trace.  Tree(rows) is what build_selected makes of *)
(* the rows; the properties compare it with what happened, which `rows`    *)
(* keeps in the fields the analyzer does not read (`open`, `callee`) and   *)
(* `fates` for every call.  Instructions are one apart, 0 is None, and the *)
(* children of a node are those that name it as their parent.              *)
(***************************************************************************)
EXTENDS Integers, SequencesExt

CONSTANTS
    Entries,        \* addresses of the traced functions
    Size,           \* instructions of a function
    Untraced,       \* whether calls may go to code that is not traced
    InferTailCalls, \* CallTreeOptions.infer_tail_calls
    MaxRows         \* bound: rows of a trace

CallTreeAssumption ==
    /\ Entries \subseteq Nat \ {0} /\ Size \in Nat \ {0} /\ MaxRows \in Nat
    /\ Untraced \in BOOLEAN /\ InferTailCalls \in BOOLEAN

VARIABLES
    rows,      \* the events of the thread, and those of no thread that concern it
    pc,        \* the instruction that is executed next
    frames,    \* the calls that have not returned: [call, ret, jumped]
    handler,   \* depth of `frames` when the signal handler began; 0 is none
    fates,     \* how each call ended: [how, row], how is "open" until then
    misled,    \* the rows have not shown which frame something belongs to
    ended      \* the thread has terminated

vars == <<rows, pc, frames, handler, fates, misled, ended>>

Init == /\ rows = <<>> /\ pc \in Entries /\ frames = <<>> /\ handler = 0
        /\ fates = <<>> /\ misled = FALSE /\ ended = FALSE
-----------------------------------------------------------------------------
Boundary == {"gap", "termination", "signal"}

Row(kind) == [kind |-> kind, phase |-> "none", pc |-> 0, flags |-> {}, imm |-> 0,
              register |-> 0, open |-> [i \in 1..Len(frames) |-> frames[i].call],
              callee |-> 0]

Instruction(flags, imm, register) ==
    [Row("instruction") EXCEPT !.pc = pc, !.flags = flags, !.imm = imm,
                               !.register = register]

Emit(row) == /\ Len(rows) < MaxRows /\ ~ended
             /\ rows' = Append(rows, row)
             /\ fates' = Append(fates, [how |-> "open", row |-> 0])

(* The same for a row that ends calls: `ending` says how.                  *)
EmitEnding(row, ending) ==
    /\ Len(rows) < MaxRows /\ ~ended
    /\ rows' = Append(rows, row)
    /\ fates' = [i \in 1..Len(rows) + 1 |->
           IF i \in DOMAIN ending THEN [how |-> ending[i], row |-> Len(rows) + 1]
           ELSE IF i \in DOMAIN fates THEN fates[i] ELSE [how |-> "open", row |-> 0]]

(* Rows after which the analyzer starts with an empty stack.               *)
Closes(row) == row.kind \in {"gap", "termination"} \/ row.phase = "begin"

(* The call at row i is still in the analyzer's stack before row j.        *)
Unbroken(i, j) == \A k \in i + 1..j - 1 : ~Closes(rows[k])
Known(frame) == Unbroken(frame.call, Len(rows) + 1)

Function(address) == CHOOSE e \in Entries : address \in e..e + Size - 1
InFunction(address) == \E e \in Entries : address \in e..e + Size - 1

Step == /\ InFunction(pc + 1) /\ pc' = pc + 1
        /\ Emit(Instruction({}, 0, 0))
        /\ UNCHANGED <<frames, handler, misled, ended>>

(* A call, by a displacement or through a register.                        *)
Call(entry, direct) ==
    /\ InFunction(pc + 1)
    /\ pc' = entry
    /\ Emit([Instruction({"call", "branch"}, IF direct THEN entry ELSE 0,
                         IF direct THEN 0 ELSE entry) EXCEPT !.callee = entry])
    /\ frames' = Append(frames, [call |-> Len(rows) + 1, ret |-> pc + 1, jumped |-> FALSE])
    /\ UNCHANGED <<handler, misled, ended>>

(* The callee is not traced: the next row is after the call.               *)
External == 99
CallUntraced(direct) ==
    /\ Untraced /\ InFunction(pc + 1)
    /\ pc' = pc + 1 /\ misled' = TRUE
    /\ EmitEnding([Instruction({"call", "branch"}, IF direct THEN External ELSE 0,
                               IF direct THEN 0 ELSE External) EXCEPT !.callee = External],
                  [i \in {Len(rows) + 1} |-> "untraced"])
    /\ UNCHANGED <<frames, handler, ended>>

(* A return to the caller of the frame at `depth`; the frames above it are *)
(* abandoned.  Its address shows which frame it is, unless another frame   *)
(* that the analyzer expects to return there comes first, or the analyzer  *)
(* no longer has the frame while it has some above it.                     *)
Return(depth) ==
    LET known == {i \in 1..Len(frames) : Known(frames[i])}
        expecting == {i \in known : frames[i].ret = frames[depth].ret /\ ~frames[i].jumped}
    IN  /\ depth > handler
        /\ pc' = frames[depth].ret
        /\ EmitEnding(Instruction({"return", "branch"}, 0, 0),
                      [i \in {frames[j].call : j \in depth..Len(frames)} |->
                          IF i = frames[depth].call THEN "returned" ELSE "unwound"])
        /\ frames' = SubSeq(frames, 1, depth - 1)
        /\ misled' = \/ misled
                     \/ expecting \ (1..depth) # {}
                     \/ depth \notin expecting /\ expecting # {}
                     \/ depth \notin expecting /\ known \ (1..depth) # {}
        /\ UNCHANGED <<handler, ended>>

(* A return from where the trace, or the signal handler, began.            *)
ReturnFromFirst(address) ==
    /\ Len(frames) = handler
    /\ pc' = address
    /\ Emit(Instruction({"return", "branch"}, 0, 0))
    /\ UNCHANGED <<frames, handler, misled, ended>>

(* A branch, in the function or as a tail call into another.               *)
Branch(address) ==
    /\ pc' = address
    /\ Emit(Instruction({"branch"}, address, 0))
    /\ frames' = IF frames = <<>> \/ address = pc + 1 \/ ~InferTailCalls THEN frames
                 ELSE [frames EXCEPT ![Len(frames)].jumped = TRUE]
    /\ UNCHANGED <<handler, misled, ended>>
-----------------------------------------------------------------------------
(* A signal is delivered to a thread with open calls, and handled.         *)
SignalBegin(entry) ==
    /\ handler = 0 /\ frames # <<>>
    /\ handler' = Len(frames)
    /\ Emit([Row("signal") EXCEPT !.phase = "begin"])
    /\ pc' = entry
    /\ UNCHANGED <<frames, misled, ended>>

(* The handler returns when its own calls have.                            *)
SignalReturn ==
    /\ handler # 0 /\ Len(frames) = handler
    /\ handler' = 0
    /\ Emit([Row("signal") EXCEPT !.phase = "return"])
    /\ pc' \in Entries
    /\ UNCHANGED <<frames, misled, ended>>

(* What the thread does is lost for a while; the loss is reported.         *)
Gap == /\ Emit(Row("gap"))
       /\ \E depth \in 0..Len(frames) : frames' = SubSeq(frames, 1, depth)
       /\ pc' \in Entries /\ handler' = 0
       /\ UNCHANGED <<misled, ended>>

Termination == /\ Emit(Row("termination")) /\ ended' = TRUE
               /\ UNCHANGED <<pc, frames, handler, misled>>

(* A semantic event or any other event of the thread.                      *)
Event(kind) == Emit(Row(kind)) /\ UNCHANGED <<pc, frames, handler, misled, ended>>

Executes ==
    \/ Step
    \/ \E entry \in Entries, direct \in BOOLEAN : Call(entry, direct)
    \/ \E direct \in BOOLEAN : CallUntraced(direct)
    \/ \E depth \in 1..Len(frames) : Return(depth)
    \/ \E address \in Entries : ReturnFromFirst(address)
    \/ \E address \in Entries \union {Function(pc) + 1} : Branch(address)

Next == \/ Executes
        \/ \E entry \in Entries : SignalBegin(entry)
        \/ SignalReturn \/ Gap \/ Termination
        \/ \E kind \in {"semantic", "other"} : Event(kind)

Spec == Init /\ [][Next]_vars
-----------------------------------------------------------------------------
(* next_instruction_pcs: where the thread goes on after row i.             *)
NextPc(events, i) ==
    LET later == {j \in i + 1..Len(events) :
                     events[j].kind \in Boundary \union {"instruction"}}
        next == CHOOSE j \in later : \A k \in later : j <= k
    IN  IF later = {} THEN 0 ELSE events[next].pc

(* resolve_target.                                                         *)
ResolveTarget(row, next) ==
    IF row.imm # 0 THEN row.imm ELSE IF next # 0 THEN next ELSE row.register

(* The tree under construction.  A frame of the stack is [node, expected]; *)
(* `last_call` is the node of the preceding row, if that was a call.       *)
Empty == [nodes |-> <<>>, stack |-> <<>>, intervals |-> <<>>, signal |-> 0,
          initial |-> 0, prefix |-> TRUE, last_call |-> 0, standalone |-> <<>>]

(* append_node; `of` is the row of the call that the node stands for.      *)
AppendNode(tree, parent, target, i, of, provenance, expected) ==
    [tree EXCEPT
        !.nodes = Append(@, [parent |-> parent, target |-> target, row |-> i, of |-> of,
                             exit |-> 0, state |-> "source_end",
                             provenance |-> provenance, semantics |-> <<>>]),
        !.stack = Append(@, [node |-> Len(tree.nodes) + 1, expected |-> expected])]

(* finish_node.                                                            *)
FinishNode(node, i, state, provenance) ==
    [node EXCEPT !.exit = i, !.state = state, !.provenance = provenance]

(* append_interval and finish_interval.                                    *)
AppendInterval(tree, kind, i, state) ==
    [tree EXCEPT !.intervals =
        Append(@, [kind |-> kind, row |-> i, exit |-> 0, state |-> state])]

FinishInterval(tree, interval, i, state) ==
    IF interval = 0 THEN tree
    ELSE [tree EXCEPT !.intervals[interval].exit = i, !.intervals[interval].state = state]

(* close_stack.                                                            *)
CloseStack(tree, i, reason) ==
    [tree EXCEPT
        !.stack = <<>>,
        !.nodes = [n \in 1..Len(tree.nodes) |->
            IF \E f \in 1..Len(tree.stack) : tree.stack[f].node = n
            THEN FinishNode(tree.nodes[n], i, reason,
                            IF reason = "discontinuity" THEN "damaged"
                            ELSE tree.nodes[n].provenance)
            ELSE tree.nodes[n]]]

(* An instruction with the call flag.                                      *)
OnCall(tree, row, i, next) ==
    LET begun == FinishInterval(tree, tree.initial, i, "source_begin")
        parent == IF tree.stack = <<>> THEN 0 ELSE Last(tree.stack).node
    IN  [AppendNode(begun, parent, ResolveTarget(row, next), i, i, "captured", row.pc + 1)
            EXCEPT !.prefix = FALSE, !.initial = 0,
                   !.last_call = Len(tree.nodes) + 1]

(* The frames above `position` are unwound, one interval for each.         *)
Unwind(tree, position, i) ==
    LET unwound == {tree.stack[f].node : f \in position + 1..Len(tree.stack)}
    IN  [tree EXCEPT
            !.stack = SubSeq(@, 1, position),
            !.nodes = [n \in 1..Len(tree.nodes) |->
                IF n \in unwound
                THEN FinishNode(tree.nodes[n], i, "unwind", "heuristic")
                ELSE tree.nodes[n]],
            !.intervals = @ \o [f \in 1..Len(tree.stack) - position |->
                [kind |-> "unwind", row |-> i, exit |-> 0, state |-> "unwind"]]]

(* An instruction with the return flag: to the innermost frame that        *)
(* expects it, or else from the last one.  Mutation: to the outermost.     *)
OnReturnOutermost(tree, row, i, next) ==
    LET found == {f \in 1..Len(tree.stack) : next # 0 /\ tree.stack[f].expected = next}
        position == IF found = {} THEN Len(tree.stack)
                    ELSE CHOOSE f \in found : \A g \in found : g >= f
        unwound == Unwind(tree, position, i)
        node == Last(unwound.stack).node
        open == [tree EXCEPT !.prefix = FALSE, !.last_call = 0]
    IN  IF tree.stack = <<>>
        THEN AppendInterval(open, "unmatched_return", i, "unmatched_return")
        ELSE [unwound EXCEPT !.prefix = FALSE, !.last_call = 0,
                 !.stack = Front(@),
                 !.nodes[node] = FinishNode(@, i, "complete", @.provenance)]

OnReturn(tree, row, i, next) ==
    LET found == {f \in 1..Len(tree.stack) : next # 0 /\ tree.stack[f].expected = next}
        position == IF found = {} THEN Len(tree.stack)
                    ELSE CHOOSE f \in found : \A g \in found : g <= f
        unwound == Unwind(tree, position, i)
        node == Last(unwound.stack).node
        open == [tree EXCEPT !.prefix = FALSE, !.last_call = 0]
    IN  IF tree.stack = <<>>
        THEN AppendInterval(open, "unmatched_return", i, "unmatched_return")
        ELSE [unwound EXCEPT !.prefix = FALSE, !.last_call = 0,
                 !.stack = Front(@),
                 !.nodes[node] = FinishNode(@, i, "complete", @.provenance)]

(* A branch that goes where it says, and not to the next instruction, is   *)
(* taken for a tail call when a frame is open.                             *)
OnBranch(tree, row, i, next) ==
    LET node == Last(tree.stack).node
        closed == [tree EXCEPT
                      !.last_call = 0, !.prefix = FALSE, !.stack = Front(@),
                      !.nodes[node] = FinishNode(@, i, "tail_call", "heuristic")]
    IN  IF row.imm # 0 /\ row.imm = next /\ row.imm # row.pc + 1
        THEN AppendNode(closed, tree.nodes[node].parent, row.imm, i, tree.nodes[node].of,
                        "heuristic", 0)
        ELSE [tree EXCEPT !.last_call = 0]

(* Any other instruction: the first ones may belong to a frame that was    *)
(* entered before the trace began.                                         *)
OnOther(tree, i) ==
    IF tree.prefix /\ tree.stack = <<>> /\ tree.initial = 0
    THEN [AppendInterval(tree, "trace_boundary", i, "source_begin")
             EXCEPT !.initial = Len(tree.intervals) + 1, !.last_call = 0]
    ELSE [tree EXCEPT !.last_call = 0]

OnSemantic(tree, i) ==
    IF tree.last_call = 0 THEN [tree EXCEPT !.standalone = Append(@, i)]
    ELSE [tree EXCEPT !.nodes[tree.last_call].semantics = Append(@, i), !.last_call = 0]

OnSignal(tree, row, i) ==
    LET began == [tree EXCEPT !.prefix = FALSE, !.last_call = 0, !.signal = 0]
        closed == FinishInterval(CloseStack(began, i, "signal_transition"), tree.signal, i,
                                 "signal_transition")
    IN  IF row.phase = "begin"
        THEN [AppendInterval(closed, "signal_handler", i, "signal_transition")
                 EXCEPT !.signal = Len(tree.intervals) + 1]
        ELSE IF tree.signal # 0 THEN FinishInterval(began, tree.signal, i, "complete")
        ELSE AppendInterval(began, "signal_handler", i, "signal_transition")

(* A discontinuity or a coverage gap.                                      *)
OnGap(tree, i) ==
    FinishInterval([CloseStack(tree, i, "discontinuity") EXCEPT
                       !.prefix = FALSE, !.last_call = 0, !.initial = 0, !.signal = 0],
                   tree.signal, i, "discontinuity")

OnTermination(tree, i) ==
    [CloseStack(tree, i, "termination") EXCEPT
        !.prefix = FALSE, !.last_call = 0, !.initial = 0]

OnEvent(tree, row, i, next) ==
    CASE row.kind = "instruction" /\ "call" \in row.flags -> OnCall(tree, row, i, next)
      [] row.kind = "instruction" /\ "return" \in row.flags -> OnReturn(tree, row, i, next)
      [] /\ row.kind = "instruction" /\ InferTailCalls /\ row.flags = {"branch"}
         /\ tree.stack # <<>> -> OnBranch(tree, row, i, next)
      [] row.kind = "semantic" -> OnSemantic(tree, i)
      [] row.kind = "signal" -> OnSignal(tree, row, i)
      [] row.kind = "gap" -> OnGap(tree, i)
      [] row.kind = "termination" -> OnTermination(tree, i)
      [] row.kind = "other" -> [tree EXCEPT !.last_call = 0]
      [] OTHER -> OnOther(tree, i)

(* build_selected: every event, and then what is still open.               *)
Tree(events) ==
    LET built == FoldLeft(LAMBDA tree, i : OnEvent(tree, events[i], i, NextPc(events, i)),
                          Empty, [i \in 1..Len(events) |-> i])
        n == Len(events)
    IN  FinishInterval(
            FinishInterval(CloseStack(built, n, "source_end"), built.signal, n, "source_end"),
            built.initial, n, "source_begin")
-----------------------------------------------------------------------------
(* No frame, and no parent of a frame, reaches over a gap, the end of the  *)
(* thread or the beginning of a signal handler; and a parent is open when  *)
(* its child is called (close_stack, build_selected).                      *)
NoBoundaryIsCrossed ==
    LET nodes == Tree(rows).nodes
    IN  \A n \in 1..Len(nodes) :
            /\ Unbroken(nodes[n].row, nodes[n].exit)
            /\ nodes[n].parent # 0 =>
                   LET parent == nodes[nodes[n].parent]
                   IN  Unbroken(parent.row, nodes[n].row) /\ nodes[n].row <= parent.exit

(* The calls of the analyzer's stack that are really open before row i.    *)
OpenBefore(i) == SelectSeq(rows[i].open, LAMBDA call : Unbroken(call, i))

TrueParent(node, nodes) ==
    LET open == OpenBefore(node.row)
        above == IF node.of = node.row THEN open
                 ELSE SelectSeq(open, LAMBDA call : call < node.of)
    IN  IF above = <<>> THEN node.parent = 0
        ELSE node.parent # 0 /\ nodes[node.parent].of = Last(above)

(* A frame was called by its parent and went where it says; a complete     *)
(* frame ended where its call returned, and an unwound one where it was    *)
(* abandoned.                                                              *)
IsTrue(node, nodes) ==
    LET fate == fates[node.of]
    IN  /\ TrueParent(node, nodes)
        /\ node.of = node.row => node.target \in {0, rows[node.row].callee}
        /\ node.state = "complete" => fate = [how |-> "returned", row |-> node.exit]
        /\ node.state = "unwind" => fate = [how |-> "unwound", row |-> node.exit]
        /\ fate.how = "returned" /\ Unbroken(node.row, fate.row)
               => node.state \in {"complete", "tail_call"}

(* Where frames were abandoned, the next row shows where the thread went.  *)
UnwindsAreSeen == \A i \in 1..Len(rows) :
                      fates[i].how = "unwound" => NextPc(rows, fates[i].row) # 0

(* Unless the rows could be read in two ways, every frame of the tree is   *)
(* as the thread ran it: parent, target, end and why it ended.             *)
FramesAreTrue ==
    ~misled /\ UnwindsAreSeen =>
        LET nodes == Tree(rows).nodes
        IN  \A n \in 1..Len(nodes) : IsTrue(nodes[n], nodes)
=============================================================================

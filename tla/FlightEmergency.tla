-------------------------- MODULE FlightEmergency ---------------------------
(***************************************************************************)
(* The emergency slot of a captured thread: two cells of the mapped Flight *)
(* artifact (flight/flight_artifact.cpp), written by the callbacks of the  *)
(* thread and by the signal broker's deliveries that interrupt it          *)
(* (core/signal_broker.cpp), and read after the process died               *)
(* (recovery/emergency.rs of qtrace-provider).                             *)
(*                                                                         *)
(* `stack` holds the thread's unfinished activations, a callback or a      *)
(* delivery each; only the innermost runs.  Each has a script of           *)
(* publications to make.  A store into a cell is a step, so that every     *)
(* state is also one that a crash leaves in the file.  The fields of a     *)
(* record and its checksum are stored together: no reader uses them        *)
(* between the stores of the odd and the even version.                     *)
(***************************************************************************)
EXTENDS Integers, Sequences

CONSTANTS
    Signals,          \* signal numbers
    NoSignal,         \* a zero in their place
    MaxVersion,       \* the last version that next_version may give out
    MaxCount,         \* where the count of a coverage gap saturates
    MaxActivations    \* bound: callbacks and deliveries that publish

ASSUME EmergencyAssumption ==
    /\ NoSignal \notin Signals
    /\ MaxVersion \in Nat /\ MaxVersion % 2 = 0 /\ MaxCount \in Nat
    /\ MaxActivations \in Nat

VARIABLES
    cells,         \* the two cells of the slot
    claim,         \* metadata.claim
    next_version,  \* metadata.next_version
    pinned,        \* metadata.pinned_cell; 0 is none
    incomplete,    \* EmergencyFailure in the flags of the superblock
    sequence,      \* the artifact's sequence allocator
    direct,        \* signal of the guest snapshot's direct_delivery, if any
    stack,         \* activations, the innermost one last
    activations,   \* how many there have been
    newest,        \* history: the last version committed
    cancelled      \* history: versions of the intents that were replaced

slot == <<cells, claim, next_version, pinned>>
history == <<newest, cancelled>>
vars == <<slot, incomplete, sequence, direct, stack, activations, history>>

Cell == {1, 2}
Blank == [type |-> "none", signal |-> NoSignal, directed |-> FALSE, depth |-> 0,
          sequence |-> 0, count |-> 0, of |-> 0]

Init ==
    /\ cells = [i \in Cell |-> [version |-> 0, committed |-> FALSE,
                                record |-> Blank, checksum |-> Blank]]
    /\ claim = FALSE /\ next_version = 2 /\ pinned = 0
    /\ incomplete = FALSE /\ sequence = 0 /\ direct = NoSignal
    /\ stack = <<>> /\ activations = 0
    /\ newest = 0 /\ cancelled = {}
-----------------------------------------------------------------------------
(* emergency_checksum leaves out the count of a coverage gap.              *)
Checksum(record) ==
    IF record.type = "CoverageGap" THEN [record EXCEPT !.count = 0] ELSE record

(* scan_flight_emergency_cell.                                             *)
Valid(i) == /\ cells[i].committed
            /\ cells[i].version # 0 /\ cells[i].version % 2 = 0
            /\ cells[i].checksum = Checksum(cells[i].record)

Newer(i, j) == Valid(i) /\ (~Valid(j) \/ cells[i].version > cells[j].version)

(* latest_emergency_cell; 0 is nullptr.                                    *)
Latest == IF ~Valid(1) /\ ~Valid(2) THEN 0 ELSE IF Newer(2, 1) THEN 2 ELSE 1

ShowsGap == Latest # 0 /\ cells[Latest].record.type = "CoverageGap"

(* The cell a publication overwrites.  Mutation: the pin is ignored.       *)
TargetUnpinned == IF Newer(1, 2) THEN 2 ELSE 1

Target == IF pinned # 0 THEN 3 - pinned ELSE IF Newer(1, 2) THEN 2 ELSE 1
-----------------------------------------------------------------------------
(* What the readers take from a slot (select_emergency): both cells when   *)
(* their versions follow one another or they are an intent and what came   *)
(* of it (pinned_termination_pair), else the newer one.                    *)
Pair(older, newer) ==
    /\ older.type = "TerminationIntent" /\ newer.type = "Signal"
    /\ older.signal = newer.signal /\ newer.depth = 1

Recovered ==
    IF ~Valid(1) \/ ~Valid(2)
    THEN {cells[i].record : i \in {j \in Cell : Valid(j)}}
    ELSE IF cells[1].version = cells[2].version THEN {}
    ELSE LET new == IF Newer(2, 1) THEN cells[2] ELSE cells[1]
             old == IF Newer(2, 1) THEN cells[1] ELSE cells[2]
         IN  {new.record} \union
             {r \in {old.record} :
                 /\ new.record.sequence > r.sequence
                 /\ new.version = old.version + 2 \/ Pair(r, new.record)}
-----------------------------------------------------------------------------
Top == stack[Len(stack)]
At(place) == stack # <<>> /\ Top.at = place
Op == Head(Top.script)
Becomes(activation) == stack' = [stack EXCEPT ![Len(stack)] = activation]
Goes(place) == Becomes([Top EXCEPT !.at = place])

(* The publication is over: on to the next of the script, or back to what  *)
(* the activation interrupted.                                             *)
Ends == IF Len(Top.script) = 1 THEN stack' = SubSeq(stack, 1, Len(stack) - 1)
        ELSE Becomes([Top EXCEPT !.at = "start", !.script = Tail(@)])

Enters(depth, signal, directed, script) ==
    /\ activations < MaxActivations
    /\ activations' = activations + 1
    /\ stack' = Append(stack, [depth |-> depth, signal |-> signal,
                               directed |-> directed, script |-> script,
                               at |-> "start", record |-> Blank,
                               version |-> 0, cell |-> 0, replaces |-> 0])
    /\ UNCHANGED <<slot, incomplete, sequence, history>>

(* An instruction callback stores the guest state first: `direct` is the   *)
(* signal when the instruction is a tkill or tgkill of the thread itself.  *)
(* The store fails when a delivery stored the state meanwhile; that is a   *)
(* gap.  A callback starts when no other activation is under way.          *)
Callback(signal, directed, stored, script) ==
    /\ stack = <<>>
    /\ direct' = IF ~stored THEN direct ELSE IF directed THEN signal ELSE NoSignal
    /\ Enters(0, signal, directed, IF stored THEN script ELSE <<"gap">> \o script)

(* before_svc: an exit has no signal; the outcome of a queued *)
(* signal (rt_sigqueueinfo) cannot be followed, which is a gap.            *)
Intent(signal, directed, stored) ==
    /\ directed => signal # NoSignal
    /\ Callback(signal, directed, stored, <<"intent">>)

QueuedSignal(signal, stored) ==
    Callback(signal, FALSE, stored, <<"intent", "gap">>)

RtSigaction(stored) == Callback(NoSignal, FALSE, stored, <<"syscall">>)

(* Any other instruction publishes at most the gap.                        *)
SnapshotFails == Callback(NoSignal, FALSE, FALSE, <<>>)

Instruction == /\ stack = <<>> /\ direct # NoSignal
               /\ direct' = NoSignal
               /\ UNCHANGED <<slot, incomplete, sequence, stack, activations, history>>
-----------------------------------------------------------------------------
(* dispatch: a signal is delivered.  The directed kill has been carried    *)
(* out ("Completed") only if no callback was interrupted; whether it was   *)
(* may be unknown ("Unavailable").  A "cancel" replaces the pinned intent. *)
Depth == IF stack = <<>> THEN 1 ELSE Top.depth + 1

Proofs(signal) ==
    {"NotCompleted"}
    \union {p \in {"Unavailable"} : Depth = 1 /\ direct = signal}
    \union {p \in {"Completed"} : stack = <<>> /\ direct = signal}

SignalScript(proof, disposition, queued) ==
    LET outcome == IF proof = "Completed" THEN <<"cancel">> ELSE <<"signal">>
        first == IF proof = "Unavailable" THEN <<"gap">> ELSE <<>>
    IN  CASE disposition = "ignore" -> first \o outcome
          [] disposition = "default" -> first \o <<"signal">>
          [] disposition = "handler" ->
                 first \o <<"signal", "signal">>
                       \o (IF queued THEN <<>> ELSE <<"gap">>) \o outcome

Delivery(signal, proof, disposition, queued) ==
    /\ proof \in Proofs(signal)
    /\ direct' = IF proof = "Completed" /\ disposition = "handler"
                 THEN NoSignal ELSE direct
    /\ Enters(Depth, signal, TRUE, SignalScript(proof, disposition, queued))
-----------------------------------------------------------------------------
(* SignalBrokerThreadState::publish and publish_coverage_gap: the record.  *)
RecordType == CASE Op = "intent" -> "TerminationIntent"
                [] Op = "gap" -> "CoverageGap"
                [] Op = "syscall" -> "Syscall"
                [] OTHER -> "Signal"

Start ==
    /\ At("start")
    /\ sequence' = sequence + 1
    /\ incomplete' = (incomplete \/ Op = "gap")
    /\ Becomes([Top EXCEPT
           !.at = "claim",
           !.record = [type |-> RecordType, depth |-> Top.depth,
                       signal |-> IF Op = "gap" THEN NoSignal ELSE Top.signal,
                       directed |-> Op # "gap" /\ Top.directed,
                       sequence |-> sequence + 1, count |-> 0, of |-> 0]])
    /\ UNCHANGED <<slot, direct, activations, history>>

(* The claim.  write_emergency and replace_pinned_termination give up when *)
(* it is taken.  write_coverage_gap_sticky then counts a gap it finds, and *)
(* otherwise tries 4096 times: what it interrupted cannot go on meanwhile. *)
Claim ==
    /\ At("claim")
    /\ \/ /\ ~claim /\ claim' = TRUE
          /\ Goes("inspect") /\ UNCHANGED incomplete
       \/ /\ claim /\ Op # "gap"
          /\ incomplete' = TRUE /\ Goes("dropped") /\ UNCHANGED claim
       \/ /\ claim /\ Op = "gap" /\ ShowsGap
          /\ Goes("dropped") /\ UNCHANGED <<claim, incomplete>>
       \/ /\ claim /\ Op = "gap" /\ ~ShowsGap
          /\ incomplete' = TRUE /\ Ends /\ UNCHANGED claim
    /\ UNCHANGED <<cells, next_version, pinned, sequence, direct, activations, history>>

(* publish_emergency_claimed before its stores: a version and a cell, or   *)
(* the versions are used up.  `forced` is the cell of a replaced intent.   *)
Allocated(forced, cell) ==
    \/ /\ next_version <= MaxVersion
       /\ next_version' = next_version + 2
       /\ Becomes([Top EXCEPT
              !.at = "odd", !.version = next_version, !.record.of = next_version,
              !.cell = cell,
              !.replaces = IF forced # 0 THEN cells[forced].version ELSE 0])
       /\ UNCHANGED <<claim, incomplete>>
    \/ /\ next_version > MaxVersion
       /\ claim' = FALSE /\ incomplete' = TRUE
       /\ IF Op = "gap" THEN Ends ELSE Goes("dropped")
       /\ UNCHANGED next_version

Allocate(forced) == Allocated(forced, IF forced # 0 THEN forced ELSE Target)

(* replace_pinned_termination: the pinned intent is of this signal.        *)
Matches == /\ pinned # 0 /\ Valid(pinned)
           /\ cells[pinned].record.type = "TerminationIntent"
           /\ cells[pinned].record.directed
           /\ cells[pinned].record.signal = Top.signal

(* Mutation: write_emergency does not look for a coverage gap.             *)
InspectOverGap ==
    /\ At("inspect") /\ Op # "cancel"
    /\ Allocate(0)
    /\ UNCHANGED <<cells, pinned, sequence, direct, activations, history>>

Inspect ==
    /\ At("inspect")
    /\ \/ /\ Op = "cancel" /\ Matches
          /\ pinned' = 0 /\ Allocate(pinned)
       \/ /\ Op = "cancel" /\ ~Matches                 \* then write_emergency
          /\ claim' = FALSE
          /\ Becomes([Top EXCEPT !.at = "claim", !.script[1] = "signal"])
          /\ UNCHANGED <<next_version, pinned, incomplete>>
       \/ /\ Op # "cancel" /\ ShowsGap
          /\ claim' = FALSE /\ Goes("dropped")
          /\ UNCHANGED <<next_version, pinned, incomplete>>
       \/ /\ Op # "cancel" /\ ~ShowsGap
          /\ Allocate(0) /\ UNCHANGED pinned
    /\ UNCHANGED <<cells, sequence, direct, activations, history>>
-----------------------------------------------------------------------------
(* The stores of publish_emergency_claimed, in their order.                *)
Store(place, next, cell) ==
    /\ At(place)
    /\ cells' = [cells EXCEPT ![Top.cell] = cell]
    /\ Goes(next)
    /\ UNCHANGED <<claim, next_version, pinned, incomplete, sequence, direct,
                   activations>>

Written == cells[Top.cell]

(* Mutation: the cell is not marked as being written.                      *)
StoreOddSkipped == Store("odd", "fields", Written) /\ UNCHANGED history

StoreOdd == /\ Store("odd", "clear", [Written EXCEPT !.version = Top.version + 1])
            /\ cancelled' = cancelled \union ({Top.replaces} \ {0})
            /\ UNCHANGED newest

StoreClear == Store("clear", "fields", [Written EXCEPT !.committed = FALSE])
              /\ UNCHANGED history

StoreFields == Store("fields", "even", [Written EXCEPT
                         !.record = Top.record, !.checksum = Checksum(Top.record)])
               /\ UNCHANGED history

StoreEven == Store("even", "commit", [Written EXCEPT !.version = Top.version])
             /\ UNCHANGED history

StoreCommit == Store("commit", IF Op = "intent" THEN "pin" ELSE "release",
                     [Written EXCEPT !.committed = TRUE])
               /\ newest' = Top.version /\ UNCHANGED cancelled

Pin == /\ At("pin")
       /\ pinned' = Top.cell
       /\ Goes("release")
       /\ UNCHANGED <<cells, claim, next_version, incomplete, sequence, direct,
                      activations, history>>

Release == /\ At("release")
           /\ claim' = FALSE /\ Ends
           /\ UNCHANGED <<cells, next_version, pinned, incomplete, sequence, direct,
                          activations, history>>
-----------------------------------------------------------------------------
(* increment_dropped_coverage_gap works without the claim: it finds the    *)
(* cell of the gap first and raises its count later.                       *)
Dropped ==
    /\ At("dropped")
    /\ \/ /\ ShowsGap
          /\ Becomes([Top EXCEPT !.at = "count", !.cell = Latest])
          /\ UNCHANGED incomplete
       \/ ~ShowsGap /\ incomplete' = TRUE /\ Ends
    /\ UNCHANGED <<slot, sequence, direct, activations, history>>

Count ==
    /\ At("count")
    /\ cells' = [cells EXCEPT ![Top.cell].record.count =
                                  IF @ = MaxCount THEN @ ELSE @ + 1]
    /\ Ends
    /\ UNCHANGED <<claim, next_version, pinned, incomplete, sequence, direct,
                   activations, history>>
-----------------------------------------------------------------------------
Callbacks ==
    \/ \E stored \in BOOLEAN :
           \/ \E signal \in Signals \union {NoSignal}, directed \in BOOLEAN :
                  Intent(signal, directed, stored)
           \/ \E signal \in Signals : QueuedSignal(signal, stored)
           \/ RtSigaction(stored)
    \/ SnapshotFails \/ Instruction

Deliveries ==
    \E signal \in Signals, proof \in {"NotCompleted", "Unavailable", "Completed"},
       disposition \in {"ignore", "default", "handler"}, queued \in BOOLEAN :
        Delivery(signal, proof, disposition, queued)

Stores == \/ StoreOdd \/ StoreClear \/ StoreFields \/ StoreEven \/ StoreCommit
          \/ Pin \/ Release

Next == \/ Callbacks \/ Deliveries \/ Start \/ Claim \/ Inspect \/ Stores
        \/ Dropped \/ Count

Spec == Init /\ [][Next]_vars
-----------------------------------------------------------------------------
Storing == {"odd", "clear", "fields", "even", "commit"}

(* An intent that turned out false is being replaced in its own cell.      *)
Cancelling == \E i \in 1..Len(stack) :
                  Head(stack[i].script) = "cancel" /\ stack[i].at \in Storing

(* Wherever the process dies, the readers find the last record that was    *)
(* committed, or the pinned intent while the other cell is being written;  *)
(* and each cell they accept holds the record of its own version.  Only    *)
(* the replacement of an intent leaves the slot without evidence.          *)
EvidenceSurvives ==
    /\ \A i \in Cell : Valid(i) => cells[i].record.of = cells[i].version
    /\ newest # 0 /\ ~Cancelling =>
           \E r \in Recovered :
               r.of = newest \/ (pinned # 0 /\ r = cells[pinned].record)

(* A pinned intent is readable, and when the last record is the first      *)
(* delivery of the intended signal the readers report the two together,    *)
(* however many records were published in between (publish_emergency_      *)
(* claimed against pinned_termination_pair).                               *)
PairIsRecovered ==
    pinned # 0 =>
        LET intent == cells[pinned].record
            other == 3 - pinned
        IN  /\ Valid(pinned) /\ intent.type = "TerminationIntent"
            /\ Valid(other) /\ other = Latest /\ Pair(intent, cells[other].record)
                   => intent \in Recovered

(* A thread that survived the kill it announced is not reported as killed: *)
(* from the first store of replace_pinned_termination's publication on, no *)
(* state shows the intent it replaces, nor do the records that follow.     *)
CancelledIsGone == \A r \in Recovered : r.of \notin cancelled

(* What the readers report of a termination: a pinned intent with the      *)
(* first delivery of its signal, and never an intent that was cancelled.   *)
IntentsAreTruthful == PairIsRecovered /\ CancelledIsGone

(* A coverage gap is replaced by nothing but the outcome of a pinned       *)
(* intent: while it is the latest record, every other publication is       *)
(* dropped and counted in it (write_coverage_gap_sticky).                  *)
GapIsKept ==
    [][ShowsGap /\ ~Cancelling =>
           ShowsGap' /\ cells'[Latest'].record.of = cells[Latest].record.of]_vars
=============================================================================

--------------------------- MODULE RegisterReplay ---------------------------
(***************************************************************************)
(* The register pane (qtrace-analysis/src/registers.rs): the registers of  *)
(* a thread before and after an event, replayed from the events of its     *)
(* scope, with checkpoints that shorten the replay and with losses that    *)
(* end what was known.                                                     *)
(*                                                                         *)
(* `machine` are the real registers of the threads, pairs of the high and  *)
(* the low half.  A step of a thread changes them and appends a row, which *)
(* also keeps what was true before and after it.  The loop of build looks  *)
(* at no later row, so its body is part of the step: `scopes` is what it   *)
(* has built from the rows.  Nothing of one timeline is ever read for      *)
(* another, so there is one.                                               *)
(***************************************************************************)
EXTENDS Integers, FiniteSets, SequencesExt

CONSTANTS
    Threads, Slots,
    None,              \* no thread: the scope of the whole timeline
    CHECKPOINT_EVENTS,
    MaxRows            \* bound: rows of a trace

ReplayAssumption == /\ None \notin Threads /\ IsFiniteSet(Slots)
                    /\ CHECKPOINT_EVENTS \in Nat \ {0} /\ MaxRows \in Nat

VARIABLES
    format,      \* "qtrb": registers of instructions; "flight": of the whole thread
    machine,
    rows,
    scopes

vars == <<format, machine, rows, scopes>>
-----------------------------------------------------------------------------
unknown_cell == [value |-> <<0, 0>>, known |-> {}, width |-> 0,
                 provenance |-> "unknown", evidence |-> 0]
unknown_snapshot == [slot \in Slots |-> unknown_cell]

(* is_canonical_w_write: the definition of the instruction names the       *)
(* register as W.                                                          *)
IsCanonicalWWrite(observation) ==
    observation.access = "write" /\ observation.width = 4 /\ observation.name = "w"

(* apply_observation: a width of 4 is the low half; the high half is known *)
(* to be zero only after a write that is canonically one of a W register.  *)
(* Mutation: after every narrow write.                                     *)
ApplyObservationWidened(state, observation, row) ==
    [state EXCEPT ![observation.slot] =
        [value |-> IF observation.width = 8 THEN observation.value
                   ELSE <<0, observation.value[2]>>,
         known |-> IF observation.width = 8 \/ observation.access = "write"
                   THEN {1, 2} ELSE {2},
         width |-> observation.width, provenance |-> observation.provenance,
         evidence |-> row]]

ApplyObservation(state, observation, row) ==
    [state EXCEPT ![observation.slot] =
        [value |-> IF observation.width = 8 THEN observation.value
                   ELSE <<0, observation.value[2]>>,
         known |-> IF observation.width = 8 \/ IsCanonicalWWrite(observation)
                   THEN {1, 2} ELSE {2},
         width |-> observation.width, provenance |-> observation.provenance,
         evidence |-> row]]

(* apply_non_writes and apply_writes: an event observes a register once in *)
(* each way.                                                               *)
Applied(state, observations, accesses, row) ==
    FoldSet(LAMBDA o, s : ApplyObservation(s, o, row), state,
            {o \in observations : o.access \in accesses /\ o.provenance # "damaged"})
ApplyNonWrites(state, observations, row) ==
    Applied(state, observations, {"read", "checkpoint", "delta"}, row)
ApplyWrites(state, observations, row) == Applied(state, observations, {"write"}, row)

MarkDerived(state) ==
    [slot \in Slots |->
        IF state[slot].known # {} /\ state[slot].provenance = "captured"
        THEN [state[slot] EXCEPT !.provenance = "derived"] ELSE state[slot]]

Invalidate(row) ==
    [slot \in Slots |-> [unknown_cell EXCEPT !.provenance = "damaged", !.evidence = row]]

(* A discontinuity of anything but memory addresses, or a delta that does  *)
(* not build on what came before it.                                       *)
Invalidates(event) ==
    \/ event.kind = "discontinuity" /\ event.domain # "memory"
    \/ \E o \in event.obs : o.access = "delta" /\ o.provenance = "damaged"

ApplyBefore(state, events, row) ==
    ApplyNonWrites(
        MarkDerived(IF Invalidates(events[row]) THEN Invalidate(row) ELSE state),
        events[row].obs, row)

ApplyTransition(state, events, row) ==
    ApplyWrites(ApplyBefore(state, events, row), events[row].obs, row)

IsReliableFullCheckpoint(observations) ==
    /\ \A o \in observations : o.access = "checkpoint" /\ o.provenance # "damaged"
    /\ {o.slot : o \in observations} = Slots
-----------------------------------------------------------------------------
(* ScopeReplay::new.                                                       *)
NewScope == [events |-> <<>>, invalidations |-> <<>>, checkpoints |-> <<>>,
             state |-> unknown_snapshot, since |-> 0, global |-> 0]

(* append_build_event.                                                     *)
AppendBuildEvent(scope, events, row) ==
    LET state == ApplyTransition(scope.state, events, row)
        since == scope.since + 1
        checkpoint == \/ IsReliableFullCheckpoint(events[row].obs)
                      \/ since = CHECKPOINT_EVENTS
        index == Len(scope.events) + 1
    IN  [scope EXCEPT
            !.events = Append(@, row),
            !.invalidations = IF Invalidates(events[row]) THEN Append(@, index) ELSE @,
            !.state = state,
            !.since = IF checkpoint THEN 0 ELSE since,
            !.checkpoints = IF checkpoint
                            THEN Append(@, [index |-> index, row |-> row, state |-> state])
                            ELSE @]

(* The last loss of the whole timeline, applied before the next event of a *)
(* thread.                                                                 *)
WithGlobal(scope, global, events) ==
    IF global = 0 \/ scope.global = global THEN scope
    ELSE [scope EXCEPT !.state = ApplyTransition(@, events, global), !.global = global]

Registering == {"instruction", "checkpoint", "delta", "discontinuity"}

(* The body of the loop of build, for the last of the events.              *)
Built(all, events) ==
    LET row == Len(events)
        tid == events[row].tid
        global == IF tid = None \/ all[None].invalidations = <<>> THEN 0
                  ELSE all[None].events[Last(all[None].invalidations)]
    IN  IF events[row].kind \notin Registering THEN all
        ELSE [all EXCEPT ![tid] =
                 AppendBuildEvent(WithGlobal(@, global, events), events, row)]
-----------------------------------------------------------------------------
(* guarded_upper_bound: how many of the first n come before.               *)
UpperBound(n, Before(_)) == Cardinality({i \in 1..n : Before(i)})

(* ScopeReplay::last_invalidation, as an index of its events; 0 is none.   *)
LastInvalidation(scope, target) ==
    LET end == UpperBound(Len(scope.invalidations),
                          LAMBDA i : scope.events[scope.invalidations[i]] <= target)
    IN  IF end = 0 THEN 0 ELSE scope.invalidations[end]

(* The steps of state_at: the last checkpoint before the target ...        *)
FromCheckpoint(scope, checkpoint) ==
    IF checkpoint = 0 THEN [state |-> unknown_snapshot, start |-> 1, row |-> 0]
    ELSE [state |-> scope.checkpoints[checkpoint].state,
          start |-> scope.checkpoints[checkpoint].index + 1,
          row |-> scope.checkpoints[checkpoint].row]

(* ... or a later loss of the thread ...                                   *)
FromOwnLoss(seed, scope, own) ==
    IF own = 0 \/ own < seed.start THEN seed
    ELSE [state |-> unknown_snapshot, start |-> own, row |-> scope.events[own]]

(* ... or a later one of the whole timeline ...                            *)
FromGlobalLoss(seed, scope, global) ==
    IF global <= seed.row THEN seed
    ELSE [state |-> ApplyTransition(unknown_snapshot, rows, global),
          start |-> 1 + UpperBound(Len(scope.events),
                                   LAMBDA i : scope.events[i] <= global),
          row |-> global]

(* ... then the events of the thread from there, and the target itself.    *)
At(before, row) == [before |-> before, after |-> ApplyWrites(before, rows[row].obs, row)]

ReplayTo(target, state, replayed) ==
    LET reach(events) == FoldLeft(LAMBDA s, row : ApplyTransition(s, rows, row),
                                  state, events)
    IN  IF replayed # <<>> /\ Last(replayed) = target
        THEN At(ApplyBefore(reach(Front(replayed)), rows, target), target)
        ELSE [moment \in {"before", "after"} |-> reach(replayed)]

Replayed(target, seed, scope) ==
    ReplayTo(target, seed.state,
             SubSeq(scope.events, seed.start,
                    UpperBound(Len(scope.events), LAMBDA i : scope.events[i] <= target)))

(* The row of the last loss of the whole timeline.                         *)
GlobalLoss(target, loss) ==
    IF rows[target].tid = None \/ loss = 0 THEN 0 ELSE scopes[None].events[loss]

(* state_at.                                                               *)
StateAt(target) ==
    LET scope == scopes[rows[target].tid]
        checkpoint == UpperBound(Len(scope.checkpoints),
                                 LAMBDA i : scope.checkpoints[i].row < target)
    IN  Replayed(target,
                 FromGlobalLoss(
                     FromOwnLoss(FromCheckpoint(scope, checkpoint), scope,
                                 LastInvalidation(scope, target)),
                     scope, GlobalLoss(target, LastInvalidation(scopes[None], target))),
                 scope)
-----------------------------------------------------------------------------
Init == /\ format \in {"qtrb", "flight"}
        /\ machine = [t \in Threads |-> [slot \in Slots |-> <<0, 0>>]]
        /\ rows = <<>>
        /\ scopes = [t \in Threads \union {None} |-> NewScope]

Fresh == Len(rows) + 1
Observation(slot, access, width, value, name, provenance) ==
    [slot |-> slot, access |-> access, width |-> width, value |-> value,
     name |-> name, provenance |-> provenance]

(* A row of thread t, whose registers become `after`: an instruction does  *)
(* that, the other rows find it done.                                      *)
Records(t, kind, domain, obs, after) ==
    /\ Len(rows) < MaxRows
    /\ rows' = Append(rows, [kind |-> kind, tid |-> t, domain |-> domain, obs |-> obs,
                             before |-> IF kind = "instruction" THEN machine ELSE after,
                             after |-> after])
    /\ machine' = after
    /\ scopes' = Built(scopes, rows')
    /\ UNCHANGED format

(* An instruction reads a register as X or as W ...                        *)
Reads(t, slot, width) ==
    /\ format = "qtrb"
    /\ Records(t, "instruction", "none",
               {Observation(slot, "read", width, machine[t][slot], "x", "captured")},
               machine)

(* ... or writes it: the whole of it, having read it, or a W register, or  *)
(* with a capture of its low half only.                                    *)
Writes(t, slot, form) ==
    LET value == <<IF form = "w" THEN 0 ELSE Fresh, Fresh>>
    IN  /\ format = "qtrb"
        /\ Records(t, "instruction", "none",
                   {Observation(slot, "write", IF form = "x" THEN 8 ELSE 4, value,
                                IF form = "w" THEN "w" ELSE "x", "captured")}
                   \union {o \in {Observation(slot, "read", 8, machine[t][slot], "x",
                                              "captured")} : form = "x"},
                   [machine EXCEPT ![t][slot] = value])

Whole(t, after, slots, access, provenance) ==
    {Observation(slot, access, 8, after[t][slot], "x", provenance) : slot \in slots}

(* The recorder stores all registers, or those that have changed.          *)
Checkpoint(t) ==
    /\ format = "flight"
    /\ Records(t, "checkpoint", "none", Whole(t, machine, Slots, "checkpoint", "captured"),
               machine)

Changed(t, slots) ==
    [machine EXCEPT ![t] = [slot \in Slots |->
        IF slot \in slots THEN <<Fresh, Fresh>> ELSE @[slot]]]

Delta(t, slots) ==
    /\ format = "flight"
    /\ Records(t, "delta", "none",
               Whole(t, Changed(t, slots), slots, "delta", "captured"), Changed(t, slots))

(* A delta whose predecessor was overwritten: anything may have changed.   *)
UnreliableDelta(t, slots) ==
    /\ format = "flight"
    /\ Records(t, "delta", "none",
               Whole(t, Changed(t, Slots), slots, "delta", "damaged"), Changed(t, Slots))

(* A loss of one thread, or of all of them.                                *)
Lost(t) == Records(t, "discontinuity", "sequence", {}, Changed(t, Slots))

LostAll == Records(None, "discontinuity", "sequence", {},
                   [t \in Threads |-> [slot \in Slots |-> <<Fresh, Fresh>>]])

LostMemory(t) == Records(t, "discontinuity", "memory", {}, machine)

Other(t) == Records(t, "memory", "none", {}, machine)

Next == \E t \in Threads :
            \/ \E slot \in Slots, width \in {4, 8} : Reads(t, slot, width)
            \/ \E slot \in Slots, form \in {"x", "w", "low"} : Writes(t, slot, form)
            \/ Checkpoint(t)
            \/ \E slots \in SUBSET Slots \ {{}} : Delta(t, slots) \/ UnreliableDelta(t, slots)
            \/ Lost(t) \/ LostAll \/ LostMemory(t) \/ Other(t)

Spec == Init /\ [][Next]_vars
-----------------------------------------------------------------------------
(* What a replay of everything gives: the events of the thread and the     *)
(* losses of the whole timeline, one after the other, from nothing.        *)
Concerns(row, tid) == /\ rows[row].kind \in Registering
                      /\ \/ rows[row].tid = tid
                         \/ rows[row].tid = None /\ Invalidates(rows[row])

PlainBefore(target) ==
    FoldLeft(LAMBDA s, row : IF Concerns(row, rows[target].tid)
                             THEN ApplyTransition(s, rows, row) ELSE s,
             unknown_snapshot, [i \in 1..target - 1 |-> i])

Plain(target, before) ==
    IF rows[target].kind \in Registering THEN At(ApplyBefore(before, rows, target), target)
    ELSE [moment \in {"before", "after"} |-> before]

(* Every half that is shown as known is that of the real register.         *)
TrueOf(state, registers) ==
    \A slot \in Slots : \A half \in state[slot].known :
        state[slot].value[half] = registers[slot][half]

Right(at, target) ==
    /\ at = Plain(target, PlainBefore(target))
    /\ LET tid == rows[target].tid
       IN  tid # None => \A moment \in {"before", "after"} :
               TrueOf(at[moment], rows[target][moment][tid])

(* The checkpoints and the skipped events change nothing: state_at gives   *)
(* what a replay of all rows gives, with the same provenance and evidence. *)
(* And every half that is shown as known is that of the real register,     *)
(* before and after the event, if a change of registers is recorded or its *)
(* loss reported.                                                          *)
KnownIsTrue == \A target \in 1..Len(rows) : Right(StateAt(target), target)
=============================================================================

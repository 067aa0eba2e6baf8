----------------------- MODULE TraceGenerationRuntime -----------------------
(***************************************************************************)
(* One TraceGenerationRuntime object (core/trace_generation_runtime.cpp):  *)
(* the admission gate of a hook generation, its deadline worker and the    *)
(* selection of the terminal phase.                                        *)
(*                                                                         *)
(* Grain of atomicity.  active_mutex_ is modelled by `mutex`; a critical   *)
(* section is one step for every store that only lock holders read, and is *)
(* split where a thread that does not hold the lock can act in between:    *)
(* deadline_pending_ is stored outside the lock, and phase_ is read        *)
(* outside the lock by the status worker.  stop_token_ is requested        *)
(* immediately before the phase store; readers outside the lock read the   *)
(* phase first, so one step for both hides no observation.                 *)
(***************************************************************************)
EXTENDS Integers, FiniteSets

CONSTANTS
    Scenes,            \* scene indices
    Tids,              \* kernel thread ids that call the hooked functions
    ActiveCapacity,    \* active_capacity_ = max_scenes + flight_max_threads
    MaxSerial,         \* bound: admissions handed out in one behaviour
    Timed              \* session_.timed()

ASSUME RuntimeAssumption ==
    /\ ActiveCapacity \in Nat \ {0}
    /\ MaxSerial \in Nat
    /\ Timed \in BOOLEAN

VARIABLES
    arm_state,         \* arm_state_
    phase,             \* phase_
    token,             \* stop_token_.requested(); the only reason is DurationElapsed
    deadline_pending,  \* deadline_pending_
    stop_incomplete,   \* stop_incomplete_
    active,            \* active_calls_[0 .. active_size_)
    sealed_targets,    \* sealed_targets_[0 .. sealed_target_size_)
    next_serial,       \* next_admission_serial_
    transition,        \* transition_sequence_
    mutex,             \* what the holder of active_mutex_ still has to do
    completing,        \* the {[call, sealed]} inside complete_call_locked
    worker,            \* the deadline worker
    destroying,        \* the destructor has told the worker to stop
    outcome,           \* history: how the owner of each admission ended it
    open_at_stop       \* history: the calls whose capture was open at the stop

vars == <<arm_state, phase, token, deadline_pending, stop_incomplete, active,
          sealed_targets, next_serial, transition, mutex, completing, worker,
          destroying, outcome, open_at_stop>>

Call == [scene : Scenes, tid : Tids, serial : 1..MaxSerial]

ArmStates == {"Unarmed", "Arming", "Armed", "Failed"}
Phases == {"Waiting", "Running", "StopRequested", "Stopping", "Sealed",
           "StopIncomplete"}
Terminal == {"Sealed", "StopIncomplete"}
IsStopping(p) == p \in {"StopRequested", "Stopping"}

(* "publish" and "decide" lie inside complete_call_locked (and "publish"   *)
(* inside arm); "settle" is the complete_stop_if_idle_locked that ends     *)
(* most critical sections.                                                 *)
MutexStates == {"free", "publish", "decide", "settle"}
WorkerStates == {"none", "waiting", "pending", "done"}

TypeOK ==
    /\ arm_state \in ArmStates
    /\ phase \in Phases
    /\ token \in BOOLEAN /\ deadline_pending \in BOOLEAN
    /\ stop_incomplete \in BOOLEAN /\ destroying \in BOOLEAN
    /\ active \subseteq Call /\ sealed_targets \subseteq Call
    /\ next_serial \in 1..(MaxSerial + 1)
    /\ transition \in Nat
    /\ mutex \in MutexStates
    /\ completing \subseteq [call : Call, sealed : BOOLEAN]
    /\ completing # {} => mutex \in {"publish", "decide"}
    /\ worker \in WorkerStates
    /\ outcome \in [Call -> {"none", "open", "sealed", "unsealed"}]
    /\ open_at_stop \subseteq Call

Init ==
    /\ arm_state = "Unarmed" /\ phase = "Waiting"
    /\ token = FALSE /\ deadline_pending = FALSE /\ stop_incomplete = FALSE
    /\ active = {} /\ sealed_targets = {} /\ next_serial = 1
    /\ transition = 1
    /\ mutex = "free" /\ completing = {}
    /\ worker = "none" /\ destroying = FALSE
    /\ outcome = [c \in Call |-> "none"]
    /\ open_at_stop = {}

-----------------------------------------------------------------------------
OpenCalls == active \union {x.call : x \in completing}

(* publish_deadline_stop_locked, in a section that also notes `notes`      *)
(* transitions of its own.                                                 *)
StopDueIgnoringPhase == deadline_pending   \* mutation: phase check dropped

StopDue == deadline_pending /\ phase = "Running"

RequestToken(notes) ==
    /\ token' = TRUE
    /\ phase' = "StopRequested"
    /\ transition' = transition + notes + 1
    /\ open_at_stop' = OpenCalls

PublishDeadlineStopLocked(notes) ==
    \/ /\ StopDue
       /\ RequestToken(notes)
    \/ /\ ~StopDue
       /\ transition' = transition + notes
       /\ UNCHANGED <<token, phase, open_at_stop>>

(* complete_stop_if_idle_locked, then the unlock.                          *)
Settle ==
    /\ mutex = "settle"
    /\ mutex' = "free"
    /\ IF active = {} /\ IsStopping(phase)
       THEN /\ phase' = IF stop_incomplete THEN "StopIncomplete" ELSE "Sealed"
            /\ transition' = transition + 1
       ELSE UNCHANGED <<phase, transition>>
    /\ UNCHANGED <<arm_state, token, deadline_pending, stop_incomplete, active,
                   sealed_targets, next_serial, completing, worker, destroying,
                   outcome, open_at_stop>>
-----------------------------------------------------------------------------
(* arm(): the winner of the exchange on arm_state_ goes on, every other    *)
(* caller returns.                                                         *)
ArmBegin ==
    /\ ~destroying
    /\ arm_state = "Unarmed"
    /\ arm_state' = "Arming"
    /\ UNCHANGED <<phase, token, deadline_pending, stop_incomplete, active,
                   sealed_targets, next_serial, transition, mutex, completing,
                   worker, destroying, outcome, open_at_stop>>

(* The clock read, the allocations or pthread_create failed.               *)
ArmFail ==
    /\ arm_state = "Arming" /\ Timed /\ worker = "none"
    /\ mutex = "free"
    /\ arm_state' = "Failed"
    /\ phase' = "StopIncomplete"
    /\ transition' = transition + 1
    /\ UNCHANGED <<token, deadline_pending, stop_incomplete, active,
                   sealed_targets, next_serial, mutex, completing, worker,
                   destroying, outcome, open_at_stop>>

(* pthread_create succeeded: the worker runs before phase_ is Running.     *)
ArmStartDeadline ==
    /\ arm_state = "Arming" /\ Timed /\ worker = "none"
    /\ worker' = "waiting"
    /\ UNCHANGED <<arm_state, phase, token, deadline_pending, stop_incomplete,
                   active, sealed_targets, next_serial, transition, mutex,
                   completing, destroying, outcome, open_at_stop>>

(* The locked section: Waiting -> Running; "publish" then looks for a      *)
(* deadline that passed while arming.                                      *)
ArmRun ==
    /\ arm_state = "Arming" /\ phase = "Waiting" /\ mutex = "free"
    /\ Timed => worker # "none"
    /\ phase' = "Running"
    /\ transition' = transition + 1
    /\ mutex' = "publish"
    /\ UNCHANGED <<arm_state, token, deadline_pending, stop_incomplete, active,
                   sealed_targets, next_serial, completing, worker, destroying,
                   outcome, open_at_stop>>

(* After the unlock.                                                       *)
ArmDone ==
    /\ arm_state = "Arming" /\ phase # "Waiting"
    /\ mutex \notin {"publish", "settle"}
    /\ arm_state' = "Armed"
    /\ UNCHANGED <<phase, token, deadline_pending, stop_incomplete, active,
                   sealed_targets, next_serial, transition, mutex, completing,
                   worker, destroying, outcome, open_at_stop>>
-----------------------------------------------------------------------------
(* deadline_entry returns from its wait with no stop request: the first    *)
(* statement of request_deadline_stop, outside the lock.                   *)
DeadlineExpires ==
    /\ worker = "waiting"
    /\ worker' = "pending"
    /\ deadline_pending' = TRUE
    /\ UNCHANGED <<arm_state, phase, token, stop_incomplete, active,
                   sealed_targets, next_serial, transition, mutex, completing,
                   destroying, outcome, open_at_stop>>

(* Mutation: the worker acts without taking active_mutex_.                 *)
RequestDeadlineStopUnlocked ==
    /\ worker = "pending"
    /\ worker' = "done"
    /\ mutex' = "settle"
    /\ PublishDeadlineStopLocked(0)
    /\ UNCHANGED <<arm_state, deadline_pending, stop_incomplete, active,
                   sealed_targets, next_serial, completing, destroying, outcome>>

(* Mutation: the worker does not complete an idle stop.                    *)
RequestDeadlineStopUnsettled ==
    /\ worker = "pending" /\ mutex = "free"
    /\ worker' = "done"
    /\ PublishDeadlineStopLocked(0)
    /\ UNCHANGED <<arm_state, deadline_pending, stop_incomplete, active,
                   sealed_targets, next_serial, completing, destroying, outcome,
                   mutex>>

(* The locked section of request_deadline_stop.                            *)
RequestDeadlineStop ==
    /\ worker = "pending" /\ mutex = "free"
    /\ worker' = "done"
    /\ mutex' = "settle"
    /\ PublishDeadlineStopLocked(0)
    /\ UNCHANGED <<arm_state, deadline_pending, stop_incomplete, active,
                   sealed_targets, next_serial, completing, destroying, outcome>>

(* request_stop(DurationElapsed); any other call returns without a change. *)
RequestStop ==
    /\ mutex = "free" /\ ~destroying
    /\ ~token /\ phase = "Running"
    /\ RequestToken(0)
    /\ mutex' = "settle"
    /\ UNCHANGED <<arm_state, deadline_pending, stop_incomplete, active,
                   sealed_targets, next_serial, completing, worker, destroying,
                   outcome>>
-----------------------------------------------------------------------------
InUse(s, t) == \E c \in active \union sealed_targets : c.scene = s /\ c.tid = t

AtCapacity ==
    Cardinality(active) + Cardinality(sealed_targets) >= ActiveCapacity

(* try_begin_call.  A call that finds the deadline pending publishes the   *)
(* stop and is refused; Duplicate, ActiveSessionLimit, WrongGeneration and *)
(* a refusal with nothing to publish leave the object as it is.            *)
RefuseCall ==
    /\ StopDue
    /\ mutex' = "settle"
    /\ PublishDeadlineStopLocked(0)
    /\ UNCHANGED <<active, next_serial, outcome>>

(* Mutation: the pending deadline is not published before admission.       *)
AdmitCallUnchecked(s, t) ==
    /\ phase = "Running"
    /\ ~InUse(s, t) /\ ~AtCapacity
    /\ next_serial <= MaxSerial
    /\ LET c == [scene |-> s, tid |-> t, serial |-> next_serial]
       IN  /\ active' = active \union {c}
           /\ outcome' = [outcome EXCEPT ![c] = "open"]
    /\ next_serial' = next_serial + 1
    /\ transition' = transition + 1
    /\ UNCHANGED <<mutex, token, phase, open_at_stop>>

AdmitCall(s, t) ==
    /\ ~StopDue /\ phase = "Running"
    /\ ~InUse(s, t) /\ ~AtCapacity
    /\ next_serial <= MaxSerial
    /\ LET c == [scene |-> s, tid |-> t, serial |-> next_serial]
       IN  /\ active' = active \union {c}
           /\ outcome' = [outcome EXCEPT ![c] = "open"]
    /\ next_serial' = next_serial + 1
    /\ PublishDeadlineStopLocked(1)
    /\ UNCHANGED mutex

TryBeginCall(s, t) ==
    /\ mutex = "free" /\ ~destroying
    /\ RefuseCall \/ AdmitCall(s, t)
    /\ UNCHANGED <<arm_state, deadline_pending, stop_incomplete,
                   sealed_targets, completing, worker, destroying>>
-----------------------------------------------------------------------------
Issued(c) == outcome[c] # "none"

(* Mutation: the admission serial is not compared.                         *)
MatchingAnySerial(c, calls) == {a \in calls : /\ a.scene = c.scene
                                              /\ a.tid = c.tid}

Matching(c, calls) == {a \in calls : /\ a.scene = c.scene
                                     /\ a.tid = c.tid
                                     /\ a.serial = c.serial}

(* complete_call_locked up to the removal.  The admission may be one that  *)
(* was completed before: QbdiNormalStopLifecycle::finish completes again   *)
(* what acknowledge completed.  A completion that matches nothing publishes*)
(* a pending deadline and returns, without complete_stop_if_idle_locked.   *)
CompleteCallLocked(c, sealed, target_open) ==
    /\ mutex = "free" /\ ~destroying
    /\ Issued(c)
    /\ LET found == Matching(c, active)
       IN  /\ active' = active \ found
           /\ sealed_targets' = IF target_open /\ sealed
                                THEN sealed_targets \union found
                                ELSE sealed_targets
           /\ completing' = {[call |-> a, sealed |-> sealed] : a \in found}
           /\ mutex' = IF found = {} THEN "free" ELSE "publish"
           /\ PublishDeadlineStopLocked(IF found = {} THEN 0 ELSE 1)
    /\ outcome' = [outcome EXCEPT ![c] = IF @ # "open" THEN @
                                         ELSE IF sealed THEN "sealed"
                                                        ELSE "unsealed"]
    /\ UNCHANGED <<arm_state, deadline_pending, stop_incomplete, next_serial,
                   worker, destroying>>

FinishCall(c, sealed) == CompleteCallLocked(c, sealed, FALSE)

AcknowledgeSealed(c) == CompleteCallLocked(c, TRUE, TRUE)

(* The deadline may have become pending while the lock was held.           *)
Republish ==
    /\ mutex = "publish"
    /\ PublishDeadlineStopLocked(0)
    /\ mutex' = IF completing = {} THEN "settle" ELSE "decide"
    /\ UNCHANGED <<arm_state, deadline_pending, stop_incomplete, active,
                   sealed_targets, next_serial, completing, worker, destroying,
                   outcome>>

(* The rest of complete_call_locked.                                       *)
Decide ==
    /\ mutex = "decide"
    /\ completing' = {}
    /\ \/ /\ IsStopping(phase)
          /\ stop_incomplete' = (stop_incomplete
                                  \/ \E x \in completing : ~x.sealed)
          /\ phase' = "Stopping"
          /\ transition' = IF phase = "Stopping" THEN transition
                                                 ELSE transition + 1
          /\ mutex' = "settle"
       \/ /\ ~IsStopping(phase)
          /\ mutex' = "free"
          /\ UNCHANGED <<stop_incomplete, phase, transition>>
    /\ UNCHANGED <<arm_state, token, deadline_pending, active, sealed_targets,
                   next_serial, worker, destroying, outcome, open_at_stop>>

(* finish_target_call: the target itself returned.                         *)
FinishTargetCall(c) ==
    /\ mutex = "free" /\ ~destroying
    /\ Issued(c)
    /\ Matching(c, sealed_targets) # {}
    /\ sealed_targets' = sealed_targets \ Matching(c, sealed_targets)
    /\ transition' = transition + 1
    /\ UNCHANGED <<arm_state, phase, token, deadline_pending, stop_incomplete,
                   active, next_serial, mutex, completing, worker, destroying,
                   outcome, open_at_stop>>
-----------------------------------------------------------------------------
(* ~TraceGenerationRuntime: every caller has dropped its reference, so no  *)
(* capture is open.  join_deadline tells the worker to stop and joins it.  *)
Destroy ==
    /\ ~destroying /\ mutex = "free" /\ active = {} /\ arm_state # "Arming"
    /\ destroying' = TRUE
    /\ UNCHANGED <<arm_state, phase, token, deadline_pending, stop_incomplete,
                   active, sealed_targets, next_serial, transition, mutex,
                   completing, worker, outcome, open_at_stop>>

(* deadline_entry sees the stop flag and returns.                          *)
DeadlineCancelled ==
    /\ destroying /\ worker = "waiting"
    /\ worker' = "done"
    /\ UNCHANGED <<arm_state, phase, token, deadline_pending, stop_incomplete,
                   active, sealed_targets, next_serial, transition, mutex,
                   completing, destroying, outcome, open_at_stop>>
-----------------------------------------------------------------------------
ArmProceeds == ArmFail \/ ArmStartDeadline \/ ArmRun \/ ArmDone

DeadlineWorker == DeadlineExpires \/ RequestDeadlineStop \/ DeadlineCancelled

LockHolder == Republish \/ Decide \/ Settle

CallStep(c) == \/ \E sealed \in BOOLEAN : FinishCall(c, sealed)
               \/ AcknowledgeSealed(c)
               \/ FinishTargetCall(c)

Next == \/ ArmBegin \/ ArmProceeds \/ DeadlineWorker \/ LockHolder
        \/ RequestStop \/ Destroy
        \/ \E s \in Scenes, t \in Tids : TryBeginCall(s, t)
        \/ \E c \in Call : CallStep(c)

Spec == Init /\ [][Next]_vars
-----------------------------------------------------------------------------
(* Properties.                                                             *)

(* The calls registered in active_calls_ are exactly the admissions their  *)
(* owners have not completed: a completion that comes late or twice (finish*)
(* after acknowledge, finish_thread after acknowledge) never removes the   *)
(* next admission of the same scene and thread.                            *)
ActiveIsOpen == active = {c \in Call : outcome[c] = "open"}

(* try_begin_call's Duplicate and ActiveSessionLimit answers: a (scene,    *)
(* thread) pair has at most one capture or unfinished target, and the fixed*)
(* arrays never hold more than active_capacity_ entries, although a call   *)
(* moves from one array to the other while the target still runs.          *)
TargetsUniqueAndBounded ==
    /\ active \intersect sealed_targets = {}
    /\ \A c, d \in active \union sealed_targets :
          c.scene = d.scene /\ c.tid = d.tid => c = d
    /\ Cardinality(active) + Cardinality(sealed_targets) <= ActiveCapacity

(* The terminal phase of complete_stop_if_idle_locked is the truth about   *)
(* the captures that were open when the stop was requested: Sealed exactly *)
(* when each of them was completed as sealed, whatever the deadline worker *)
(* and the completing owners interleave.                                   *)
TerminalOutcome ==
    phase \in Terminal /\ token =>
        /\ active = {}
        /\ phase = "Sealed" <=> \A c \in open_at_stop : outcome[c] = "sealed"

(* A stop that found its last call gone is always somebody's to complete:  *)
(* either a lock holder is about to call complete_stop_if_idle_locked or   *)
(* the deadline worker has not had its turn with the lock.  (A completion  *)
(* that matches no call publishes the stop and leaves without completing.) *)
StoppingHasOwner ==
    IsStopping(phase) /\ active = {} => mutex # "free" \/ worker = "pending"

PhaseRank == [p \in Phases |->
                CASE p = "Waiting" -> 0 [] p = "Running" -> 1
                  [] p = "StopRequested" -> 2 [] p = "Stopping" -> 3
                  [] OTHER -> 4]

(* The phase only moves forward and a terminal phase is final, which the   *)
(* host's status checks rely on (qtrace/session.py parse_status).          *)
PhaseMonotone ==
    [][phase' # phase => PhaseRank[phase'] > PhaseRank[phase]]_vars

(* No call is admitted once the deadline is pending, even before any thread*)
(* has published the stop, and none once the stop token is requested.      *)
NoAdmissionAfterDeadline ==
    [][~(active' \subseteq active) => ~deadline_pending /\ ~token]_vars

(* Every change the status snapshot shows advances transition_sequence_:   *)
(* the status worker polls that counter and nothing else.                  *)
ChangesAreNoted ==
    [][<<phase, active, sealed_targets>>' # <<phase, active, sealed_targets>>
         => transition' > transition]_vars

(* A timed generation that runs is stopped, unless it is destroyed first:  *)
(* the deadline is published by the worker or by whichever call comes.     *)
DeadlineStops == (Timed /\ phase = "Running") ~> (token \/ destroying)

(* The runtime implements the abstract lifecycle of a generation.  A call  *)
(* is open until its completion has been decided under the lock.           *)
StageOf == [p \in Phases |->
              CASE p = "Waiting" -> "waiting" [] p = "Running" -> "running"
                [] p = "Sealed" -> "sealed" [] p = "StopIncomplete" -> "incomplete"
                [] OTHER -> "stopping"]

Lifecycle == INSTANCE GenerationLifecycle
             WITH stage <- StageOf[phase], open <- OpenCalls,
                  spoiled <- stop_incomplete

(* Every behaviour of the runtime is a behaviour of GenerationLifecycle.   *)
ImplementsLifecycle == Lifecycle!Spec
=============================================================================

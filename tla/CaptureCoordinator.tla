-------------------------- MODULE CaptureCoordinator --------------------------
(***************************************************************************)
(* The Flight capture of one generation: CaptureCoordinator                *)
(* (core/capture_coordinator.cpp) and the QbdiThreadSession of each of its *)
(* slots (core/qbdi_thread_session.cpp), composed with the runtime that    *)
(* admits them.  A thread enters by a hooked scene (tracer_entry.cpp) or is*)
(* followed from its start (hooks/thread_create_gateway.cpp).              *)
(*                                                                         *)
(* Grain of atomicity.  mutex_ of the coordinator is held across its calls *)
(* of the runtime: `at = "creating"` and `reporting` mark the sections in  *)
(* which it makes more than one.  A section that makes one call is one     *)
(* step and the runtime's own steps follow it, so that other threads may   *)
(* take mutex_ a little earlier than they could.                           *)
(***************************************************************************)
EXTENDS TraceGenerationRuntime

CONSTANTS
    MaxThreads,        \* config.flight.max_threads
    OwnerReports       \* request_stop and report_stop_incomplete have a caller

CoordinatorAssumption == MaxThreads \in Nat /\ OwnerReports \in BOOLEAN

VARIABLES
    life,              \* of the coordinator
    stop_requested,    \* stop_requested_
    reported,          \* stop_incomplete_reported_
    reporting,         \* the loop of report_stop_incomplete is running
    incomplete,        \* incomplete_
    artifact_recorded, \* artifact_recorded_
    slot,              \* slots_, by thread
    session            \* the session of each slot and what its thread does

cvars == <<life, stop_requested, reported, reporting, incomplete,
           artifact_recorded, slot, session>>
allvars == <<vars, cvars>>

(* What the thread of a slot does: "creating" its session under mutex_,    *)
(* "setup" of the VM, "publishing" the artifact, collecting in the "vm",   *)
(* having "observed" the stop, "acknowledging" it, "control" only, having  *)
(* "returned" from the session, "idle" outside it, or "gone" with the VM   *)
(* active.                                                                 *)
At == {"none", "creating", "setup", "publishing", "vm", "observed",
       "acknowledging", "control", "returned", "idle", "gone"}

NoSlot == [calls |-> {}, stop_finished |-> FALSE]
NoSession == [at |-> "none", how |-> "scene", followed |-> FALSE, setup |-> "no",
              committed |-> FALSE, sealed |-> FALSE, stop_handled |-> FALSE,
              stop_sealed |-> FALSE]

CoordinatorOnlyInit ==
    /\ life = "created"
    /\ stop_requested = FALSE /\ reported = FALSE /\ reporting = FALSE
    /\ incomplete = FALSE /\ artifact_recorded = FALSE
    /\ slot = [t \in Tids |-> NoSlot]
    /\ session = [t \in Tids |-> NoSession]

CoordinatorInit == Init /\ CoordinatorOnlyInit

Used == {t \in Tids : session[t].at # "none"}
Unfinished == {t \in Used : ~slot[t].stop_finished}
LockFree == ~reporting /\ \A t \in Tids : session[t].at # "creating"
Started == life = "started" /\ LockFree

(* Thread t goes on to `where`.                                            *)
Moves(t, where) == session' = [session EXCEPT ![t].at = where]

(* publish_committed_artifact_locked for the slots of `threads`.           *)
Recorded(threads) == artifact_recorded \/ \E t \in threads : session[t].committed
Record(threads) == artifact_recorded' = Recorded(threads)

(* mark_coverage_gap.                                                      *)
Gap == incomplete' = TRUE
-----------------------------------------------------------------------------
Start ==
    /\ life = "created"
    /\ \/ life' = "started" /\ UNCHANGED incomplete
       \/ life' = "failed" /\ Gap
    /\ UNCHANGED <<vars, stop_requested, reported, reporting, artifact_recorded,
                   slot, session>>

(* enter and enter_thread find the stop: stop_requested_locked.            *)
EnterStopped(t) ==
    /\ Started /\ session[t].at \in {"none", "idle"}
    /\ token /\ ~stop_requested
    /\ stop_requested' = TRUE
    /\ Record(Used)
    /\ UNCHANGED <<vars, life, reported, reporting, incomplete, slot, session>>

MayEnter == Started /\ ~stop_requested /\ ~token

(* The thread's slot exists: try_enter, which fails beside a session of    *)
(* another coordinator.                                                    *)
Again(t) == CASE session[t].setup = "ok" -> "vm"
              [] session[t].setup = "no" -> "setup"
              [] OTHER -> "returned"

EnterAgain(t) ==
    /\ MayEnter /\ session[t].at = "idle"
    /\ \/ /\ session' = [session EXCEPT ![t].at = Again(t), ![t].how = "scene"]
          /\ UNCHANGED incomplete
       \/ Gap /\ UNCHANGED session
    /\ UNCHANGED <<vars, life, stop_requested, reported, reporting,
                   artifact_recorded, slot>>

(* No slot is left, or the slot's thread died with its VM active.          *)
EnterGap(t) ==
    /\ MayEnter
    /\ \/ session[t].at = "none" /\ Cardinality(Used) >= MaxThreads
       \/ session[t].at = "gone"
    /\ Gap
    /\ UNCHANGED <<vars, life, stop_requested, reported, reporting,
                   artifact_recorded, slot, session>>

(* A new slot: try_begin_call, then the session under the same lock.       *)
EnterNew(t, s, how) ==
    /\ MayEnter /\ session[t].at = "none" /\ Cardinality(Used) < MaxThreads
    /\ TryBeginCall(s, t)
    /\ LET admitted == active' \ active
       IN  /\ slot' = [slot EXCEPT ![t].calls = admitted]
           /\ session' = [session EXCEPT
                  ![t].at = IF admitted = {} THEN "none" ELSE "creating",
                  ![t].how = how]
    /\ UNCHANGED <<life, stop_requested, reported, reporting, incomplete,
                   artifact_recorded>>

CreateSession(t) ==
    /\ session[t].at = "creating"
    /\ session' = [session EXCEPT ![t].at = "setup",
                                  ![t].followed = session[t].how # "scene"]
    /\ UNCHANGED <<vars, life, stop_requested, reported, reporting, incomplete,
                   artifact_recorded, slot>>

CreateFails(t) ==
    /\ session[t].at = "creating"
    /\ \E c \in slot[t].calls : FinishCall(c, FALSE)
    /\ slot' = [slot EXCEPT ![t] = NoSlot]
    /\ session' = [session EXCEPT ![t] = NoSession]
    /\ Gap
    /\ UNCHANGED <<life, stop_requested, reported, reporting, artifact_recorded>>
-----------------------------------------------------------------------------
(* The session's call: initialize_execution, once per session.  It may fail*)
(* before, while or after the first records are committed; only a sink that*)
(* is initialized is published.                                            *)
Setup(t) ==
    /\ session[t].at = "setup" /\ session[t].how # "native"
    /\ \E initialized, committed, ok \in BOOLEAN :
         /\ ok => initialized
         /\ initialized => committed
         /\ session' = [session EXCEPT
                ![t].at = IF initialized THEN "publishing" ELSE "returned",
                ![t].setup = IF ok THEN "ok" ELSE "failed",
                ![t].committed = committed]
    /\ UNCHANGED <<vars, life, stop_requested, reported, reporting, incomplete,
                   artifact_recorded, slot>>

(* publish_native_thread_begin of a followed thread that is not to run in  *)
(* the VM.                                                                 *)
NativeBegin(t) ==
    /\ session[t].at = "setup" /\ session[t].how = "native"
    /\ \E ok \in BOOLEAN :
         /\ session' = [session EXCEPT ![t].at = "returned", ![t].committed = ok]
         /\ incomplete' = (incomplete \/ ~ok)
    /\ UNCHANGED <<vars, life, stop_requested, reported, reporting,
                   artifact_recorded, slot>>

(* publish_flight_slot_committed.                                          *)
PublishCommitted(t) ==
    /\ session[t].at = "publishing" /\ LockFree
    /\ Record({t})
    /\ Moves(t, IF session[t].setup = "ok" THEN "vm" ELSE "returned")
    /\ UNCHANGED <<vars, life, stop_requested, reported, reporting, incomplete,
                   slot>>

(* A PRE callback finds the token and stops the VM.                        *)
Observe(t) ==
    /\ session[t].at = "vm" /\ token
    /\ Moves(t, "observed")
    /\ UNCHANGED <<vars, life, stop_requested, reported, reporting, incomplete,
                   artifact_recorded, slot>>

(* The target returns, or exits its thread, without meeting the stop.      *)
Return(t) ==
    /\ session[t].at \in {"vm", "control"}
    /\ Moves(t, "returned")
    /\ UNCHANGED <<vars, life, stop_requested, reported, reporting, incomplete,
                   artifact_recorded, slot>>

(* seal_observed_stop: the owner seals, outside mutex_, ...                *)
Seal(t) ==
    /\ session[t].at = "observed"
    /\ \E ok \in BOOLEAN :
         session' = [session EXCEPT ![t].at = "acknowledging", ![t].sealed = ok,
                                    ![t].stop_handled = TRUE, ![t].stop_sealed = ok]
    /\ UNCHANGED <<vars, life, stop_requested, reported, reporting, incomplete,
                   artifact_recorded, slot>>

(* Mutation: the acknowledgement ignores whether the writer was sealed.    *)
AcknowledgeAnyway(t) ==
    /\ session[t].at = "acknowledging" /\ LockFree
    /\ IF slot[t].stop_finished
       THEN UNCHANGED <<vars, incomplete, artifact_recorded, slot>>
       ELSE /\ Record({t})
            /\ slot' = [slot EXCEPT ![t].stop_finished = TRUE]
            /\ \E c \in slot[t].calls : AcknowledgeSealed(c)
            /\ UNCHANGED incomplete
    /\ Moves(t, "control")
    /\ UNCHANGED <<life, stop_requested, reported, reporting>>

(* Mutation: a failed seal is not acknowledged.                            *)
AcknowledgeOnlySealed(t) ==
    /\ session[t].at = "acknowledging" /\ LockFree
    /\ IF slot[t].stop_finished \/ ~session[t].stop_sealed
       THEN UNCHANGED <<vars, slot>>
       ELSE /\ slot' = [slot EXCEPT ![t].stop_finished = TRUE]
            /\ \E c \in slot[t].calls : AcknowledgeSealed(c)
    /\ Record({t})
    /\ Moves(t, "control")
    /\ UNCHANGED <<life, stop_requested, reported, reporting, incomplete>>

(* ... and acknowledges: acknowledge_flight_slot_locked.                   *)
Acknowledge(t) ==
    /\ session[t].at = "acknowledging" /\ LockFree
    /\ IF slot[t].stop_finished
       THEN UNCHANGED <<vars, incomplete, artifact_recorded, slot>>
       ELSE /\ Record({t})
            /\ slot' = [slot EXCEPT ![t].stop_finished = TRUE]
            /\ \E c \in slot[t].calls :
                 \/ /\ session[t].stop_sealed /\ session[t].sealed
                    /\ AcknowledgeSealed(c)
                    /\ UNCHANGED incomplete
                 \/ /\ ~(session[t].stop_sealed /\ session[t].sealed)
                    /\ FinishCall(c, FALSE)
                    /\ Gap
    /\ Moves(t, "control")
    /\ UNCHANGED <<life, stop_requested, reported, reporting>>

(* finish_target_call, for a target that was acknowledged.                 *)
FinishTarget(t) ==
    IF slot[t].calls \intersect sealed_targets # {}
    THEN \E c \in slot[t].calls : FinishTargetCall(c)
    ELSE UNCHANGED vars

Leave(t) ==
    /\ session[t].at = "returned" /\ session[t].how # "thread" /\ LockFree
    /\ FinishTarget(t)
    /\ Moves(t, "idle")
    /\ UNCHANGED <<life, stop_requested, reported, reporting, incomplete,
                   artifact_recorded, slot>>
-----------------------------------------------------------------------------
(* finish_thread at the end of a followed thread.  end_thread seals unless *)
(* a stop was handled, and `ended` is its result.                          *)
EndThread(t, ended) ==
    session[t].stop_handled => ended = session[t].stop_sealed

CompleteThread(t, ended) ==
    /\ Record({t})
    /\ IF slot[t].stop_finished
       THEN FinishTarget(t)
       ELSE \E c \in slot[t].calls : FinishCall(c, ended)
    /\ incomplete' = (incomplete \/ ~ended)

FinishThread(t, ended) ==
    /\ session[t].followed /\ LockFree
    /\ \/ session[t].at = "idle"
       \/ session[t].at = "returned" /\ session[t].how = "thread"
    /\ EndThread(t, ended)
    /\ CompleteThread(t, ended)
    /\ slot' = [slot EXCEPT ![t] = NoSlot]
    /\ session' = [session EXCEPT ![t] = NoSession]
    /\ UNCHANGED <<life, stop_requested, reported, reporting>>

(* The thread unwinds with its VM active: the slot is retained for good.   *)
ThreadUnwinds(t, ended) ==
    /\ session[t].followed /\ session[t].at \in {"vm", "control"} /\ LockFree
    /\ EndThread(t, ended)
    /\ Record({t})
    /\ IF slot[t].stop_finished
       THEN FinishTarget(t)
       ELSE \E c \in slot[t].calls : FinishCall(c, ended)
    /\ Gap
    /\ slot' = [slot EXCEPT ![t].stop_finished = TRUE]
    /\ session' = [session EXCEPT ![t].at = "gone", ![t].sealed = @ \/ ended]
    /\ UNCHANGED <<life, stop_requested, reported, reporting>>
-----------------------------------------------------------------------------
(* request_stop of the coordinator; the token may be requested already.    *)
CoordinatorStop ==
    /\ OwnerReports /\ Started /\ ~stop_requested
    /\ RequestStop \/ (token /\ mutex = "free" /\ UNCHANGED vars)
    /\ stop_requested' = TRUE
    /\ Record(Used)
    /\ UNCHANGED <<life, reported, reporting, incomplete, slot, session>>

(* report_stop_incomplete: the loop over the slots, under mutex_.          *)
ReportBegin ==
    /\ OwnerReports /\ Started /\ stop_requested /\ ~reported
    /\ Unfinished # {}
    /\ reporting' = TRUE
    /\ UNCHANGED <<vars, life, stop_requested, reported, incomplete,
                   artifact_recorded, slot, session>>

ReportSlot(t) ==
    /\ reporting /\ t \in Unfinished
    /\ Record({t})
    /\ \E c \in slot[t].calls : FinishCall(c, FALSE)
    /\ slot' = [slot EXCEPT ![t].stop_finished = TRUE]
    /\ UNCHANGED <<life, stop_requested, reported, reporting, incomplete, session>>

ReportEnd ==
    /\ reporting /\ Unfinished = {} /\ mutex = "free"
    /\ reporting' = FALSE /\ reported' = TRUE /\ Gap
    /\ UNCHANGED <<vars, life, stop_requested, artifact_recorded, slot, session>>

(* ~CaptureCoordinator: no thread holds a reference.                       *)
DestroyCoordinator ==
    /\ Started
    /\ \A t \in Used : session[t].at = "idle" /\ ~session[t].followed
    /\ life' = "destroying"
    /\ UNCHANGED <<vars, stop_requested, reported, reporting, incomplete,
                   artifact_recorded, slot, session>>

DestroySlot(t) ==
    /\ life = "destroying" /\ t \in Used
    /\ IF t \in Unfinished THEN \E c \in slot[t].calls : FinishCall(c, FALSE)
                           ELSE UNCHANGED vars
    /\ slot' = [slot EXCEPT ![t] = NoSlot]
    /\ session' = [session EXCEPT ![t] = NoSession]
    /\ UNCHANGED <<life, stop_requested, reported, reporting, incomplete,
                   artifact_recorded>>
-----------------------------------------------------------------------------
RuntimeAlone == (ArmBegin \/ ArmProceeds \/ DeadlineWorker \/ LockHolder)
                /\ UNCHANGED cvars

Enters(t) == \/ EnterStopped(t) \/ EnterAgain(t) \/ EnterGap(t)
             \/ \E s \in Scenes, how \in {"scene", "thread", "native"} :
                  EnterNew(t, s, how)

Works(t) == \/ CreateSession(t) \/ CreateFails(t) \/ Setup(t)
            \/ NativeBegin(t) \/ PublishCommitted(t) \/ Observe(t) \/ Return(t) \/ Seal(t)
            \/ Acknowledge(t) \/ Leave(t)

Ends(t) == \E ended \in BOOLEAN : FinishThread(t, ended) \/ ThreadUnwinds(t, ended)

Reports == CoordinatorStop \/ ReportBegin \/ ReportEnd
           \/ \E t \in Tids : ReportSlot(t)

CoordinatorNext ==
    \/ Start \/ RuntimeAlone \/ Reports \/ DestroyCoordinator
    \/ \E t \in Tids : Enters(t) \/ Works(t) \/ Ends(t) \/ DestroySlot(t)

CoordinatorSpec == CoordinatorInit /\ [][CoordinatorNext]_allvars

(* The process runs: a thread in a session reaches its next callback or    *)
(* returns, a followed thread that returned ends, and a thread outside a   *)
(* session calls its scene again.  Nobody has to report the missing        *)
(* acknowledgements or end a thread that runs on.                          *)
CoordinatorFairness ==
    /\ WF_allvars(RuntimeAlone)
    /\ \A t \in Tids :
          /\ WF_allvars(Works(t))
          /\ WF_allvars(Enters(t))
          /\ WF_allvars(session[t].at = "returned" /\ Ends(t))

FairCoordinatorSpec == CoordinatorSpec /\ CoordinatorFairness
-----------------------------------------------------------------------------
(* Properties.                                                             *)

(* Every admission of the runtime is owned by exactly the slots that have  *)
(* not finished it: an admission nobody owns would keep the generation from*)
(* its terminal phase, one completed early would end it under a live       *)
(* capture.                                                                *)
AdmissionsAreOwned ==
    active = UNION {slot[t].calls : t \in Unfinished}

(* When the runtime says Sealed, the writer of every capture that was open *)
(* at the stop was sealed by its own thread, and no thread collects.       *)
SealedIsSealed ==
    phase = "Sealed" =>
        \A t \in Used : slot[t].calls \subseteq open_at_stop =>
            /\ session[t].sealed
            /\ session[t].at \notin {"setup", "publishing", "vm", "observed"}

(* A terminal status lists the artifact if any capture that was open at the*)
(* stop committed a record to it, unless its owner was reported missing.   *)
CommittedIsListed ==
    phase \in Terminal /\ ~reported /\ ~reporting =>
        \A t \in Used : /\ slot[t].calls \subseteq open_at_stop
                        /\ session[t].committed /\ session[t].at # "publishing"
                        => artifact_recorded

(* report_stop_incomplete ends the generation as StopIncomplete, and the   *)
(* late seals of the owners it reported never change that.                 *)
ReportedIsIncomplete == reported => phase = "StopIncomplete"

FlightStopHolds == /\ AdmissionsAreOwned /\ SealedIsSealed
                   /\ CommittedIsListed /\ ReportedIsIncomplete

(* What the stop of a generation with Flight captures promises, from the   *)
(* start of the coordinator on (before it, calls are none of its concern): *)
(* every admission is owned by exactly the slots that have not finished it;*)
(* when the runtime says Sealed, the writer of every capture open at the   *)
(* stop was sealed by its own thread; a terminal status lists the artifact *)
(* if one of them committed a record to it, unless its owner was reported  *)
(* missing; and a report makes the generation StopIncomplete for good.     *)
FlightStopIsTruthful == life # "created" => FlightStopHolds

(* In the end only an idle owner keeps a stopped generation from its       *)
(* terminal phase: one that left its scene with the admission in its slot  *)
(* and is turned away when it comes back.  Every owner that observed the   *)
(* stop acknowledges it, and every other one returns.                      *)
OnlyIdleOwnersDelay ==
    <>[](token => \/ phase \in Terminal \/ life # "started"
                  \/ \E t \in Unfinished : /\ session[t].at = "idle"
                                           /\ ~session[t].stop_handled)

(* capture_coordinator.h:70 promises a caller that retires the admissions  *)
(* of owners that do not acknowledge: a stop ends whatever they do.        *)
StopsEnd == (token /\ life = "started")
                ~> (phase \in Terminal \/ life # "started")
=============================================================================

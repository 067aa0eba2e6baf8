----------------------------- MODULE MCCaptures -----------------------------
(* How a capture ends, for TLC: the file of a trace and its writers        *)
(* ("file"), the stop of a generation with Flight captures, without a      *)
(* caller that reports missing acknowledgements ("flight"), and that of a  *)
(* generation with normal captures ("normal").  `part` says which of them  *)
(* a behaviour is about; the variables of the others keep their initial    *)
(* values.                                                                 *)
EXTENDS NormalCapture, BinaryTraceWriter

CONSTANTS s1, t1, t2, MaxThreads, OwnerReports

MCMaxBytes == [header |-> 1, begin |-> 1, module |-> 1, definition |-> 2,
               instruction |-> 1, event |-> 2, terminal |-> 2]

VARIABLES
    part,
    g_arm_state, g_phase, g_token, g_deadline_pending, g_stop_incomplete,
    g_active, g_sealed_targets, g_next_serial, g_transition, g_mutex,
    g_completing, g_worker, g_destroying, g_outcome, g_open_at_stop,
    c_life, c_stop_requested, c_reported, c_reporting, c_incomplete,
    c_artifact_recorded, c_slot, c_session

flight_vars ==
    <<g_arm_state, g_phase, g_token, g_deadline_pending, g_stop_incomplete,
      g_active, g_sealed_targets, g_next_serial, g_transition, g_mutex,
      g_completing, g_worker, g_destroying, g_outcome, g_open_at_stop, c_life,
      c_stop_requested, c_reported, c_reporting, c_incomplete,
      c_artifact_recorded, c_slot, c_session>>

Flight == INSTANCE CaptureCoordinator WITH
    arm_state <- g_arm_state, phase <- g_phase, token <- g_token,
    deadline_pending <- g_deadline_pending,
    stop_incomplete <- g_stop_incomplete, active <- g_active,
    sealed_targets <- g_sealed_targets, next_serial <- g_next_serial,
    transition <- g_transition, mutex <- g_mutex,
    completing <- g_completing, worker <- g_worker,
    destroying <- g_destroying, outcome <- g_outcome,
    open_at_stop <- g_open_at_stop, life <- c_life,
    stop_requested <- c_stop_requested, reported <- c_reported,
    reporting <- c_reporting, incomplete <- c_incomplete,
    artifact_recorded <- c_artifact_recorded, slot <- c_slot,
    session <- c_session

ASSUME Flight!CoordinatorAssumption

MCInit == /\ part \in {"file", "flight", "normal"}
          /\ FacadeInit /\ Flight!CoordinatorInit /\ NormalInit
          /\ part # "file" => compressed

MCNext ==
    \/ part = "file" /\ FacadeNext /\ UNCHANGED <<part, allvars, flight_vars>>
    \/ part = "normal" /\ NormalNext /\ UNCHANGED <<part, fvars, flight_vars>>
    \/ /\ part = "flight" /\ Flight!CoordinatorNext
       /\ UNCHANGED <<part, fvars, allvars>>

MCSpec == MCInit /\ [][MCNext]_<<part, fvars, allvars, flight_vars>>
-----------------------------------------------------------------------------
(* Every call of a writer returns: the producer is never left waiting for  *)
(* the consumer.                                                           *)
WriterCallsReturn == part = "file" /\ FacadeFairness => CallsReturn

(* A timed generation of normal captures is stopped, and reaches its       *)
(* terminal phase if the targets return, on every error path.              *)
NormalStopsEnd ==
    part = "normal" /\ NormalFairness => DeadlineStops /\ StopsEndOnReturn

(* Every owner of a Flight slot that observed the stop acknowledges it: in *)
(* the end only an idle owner keeps a stopped generation from its terminal *)
(* phase.                                                                  *)
OwnersAcknowledge ==
    part = "flight" /\ Flight!CoordinatorFairness => Flight!OnlyIdleOwnersDelay
=============================================================================

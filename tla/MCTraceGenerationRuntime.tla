---------------------- MODULE MCTraceGenerationRuntime ----------------------
(* The generation runtime for TLC, under arbitrary callers ("any") and as  *)
(* the Flight coordinator calls it ("flight").  `callers` says which of    *)
(* them a behaviour is about; in the former no coordinator is started.     *)
(*                                                                         *)
(* Two threads and two scenes are enough for a duplicate, a full table and *)
(* a reused (scene, thread) pair; three admissions let a late completion   *)
(* meet a newer admission.  The coordinator has one scene, a slot for each *)
(* thread and two admissions.                                              *)
EXTENDS CaptureCoordinator, TLC

CONSTANTS FlightScenes, FlightSerial

VARIABLE callers

Flight == INSTANCE CaptureCoordinator WITH
              Scenes <- FlightScenes, MaxSerial <- FlightSerial

ASSUME CoordinatorAssumption /\ FlightScenes \subseteq Scenes

(* The code only compares thread ids for equality.                         *)
Symmetry == Permutations(Tids)

MCInit == \/ callers = "any" /\ CoordinatorInit
          \/ callers = "flight" /\ Flight!CoordinatorInit

MCNext == \/ callers = "any" /\ Next /\ UNCHANGED <<callers, cvars>>
          \/ callers = "flight" /\ Flight!CoordinatorNext /\ UNCHANGED callers

MCSpec == MCInit /\ [][MCNext]_<<callers, allvars>>
=============================================================================

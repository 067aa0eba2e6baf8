---------------------------- MODULE MCStatusFile ----------------------------
(* The status file of a generation, for TLC: the threads that publish it   *)
(* while a call is captured ("calls") or metadata is recorded              *)
(* ("metadata"), and the transaction of system calls that replaces the     *)
(* file ("file").  `part` says which of them a behaviour is about; the     *)
(* variables of the others keep their initial values.                      *)
EXTENDS GenerationStatus

CONSTANTS MaxPublish, MaxFaults, MaxCrashes, Absent, Partial, Marker

VARIABLES part, p_live, p_images, p_pc, p_caller, p_had_previous, p_opened,
          p_attempt, p_stable, p_acked, p_clean, p_faults, p_crashes

publisher_vars ==
    <<p_live, p_images, p_pc, p_caller, p_had_previous, p_opened, p_attempt,
      p_stable, p_acked, p_clean, p_faults, p_crashes>>

Publisher == INSTANCE SessionStatusPublisher WITH
    live <- p_live, images <- p_images, pc <- p_pc, caller <- p_caller,
    had_previous <- p_had_previous, opened <- p_opened, attempt <- p_attempt,
    stable <- p_stable, acked <- p_acked, clean <- p_clean, faults <- p_faults,
    crashes <- p_crashes

(* An untimed generation, in which no call is captured and no publication  *)
(* fails; one artifact is listed.                                          *)
Metadata == INSTANCE GenerationStatus WITH
    MaxSerial <- 0, Timed <- FALSE, MaxFailures <- 0,
    Kinds <- {"artifact"}, Texts <- {"", "a", "b"}

ASSUME Publisher!PublisherAssumption

MCInit ==
    /\ Publisher!Init
    /\ \/ part = "file" /\ StatusInit
       \/ /\ p_live = Publisher!Directory(Absent, Absent, Absent)
          /\ \/ part = "calls" /\ StatusInit
             \/ part = "metadata" /\ Metadata!StatusInit

MCNext ==
    \/ part = "calls" /\ StatusNext /\ UNCHANGED <<part, publisher_vars>>
    \/ part = "metadata" /\ Metadata!StatusNext /\ UNCHANGED <<part, publisher_vars>>
    \/ part = "file" /\ Publisher!Next /\ UNCHANGED <<part, allVars>>

MCSpec == MCInit /\ [][MCNext]_<<part, allVars, publisher_vars>>
-----------------------------------------------------------------------------
(* The terminal phase reaches the file, by the worker or at retirement,    *)
(* unless the worker could not be started or every publication failed.     *)
TerminalReachesTheFile == part = "calls" /\ StatusFairness => TerminalIsPublished

(* The reader of the status file finds a whole status at every instant,    *)
(* also after a power loss, and one for which publish returned true is     *)
(* never lost to an older one.                                             *)
AcknowledgedSurvives == Publisher!MainIsOldOrNew /\ Publisher!AcknowledgedSurvives

(* open and publish fail only when one of their own system calls failed,   *)
(* whatever a crash left behind, and an operation that succeeds leaves the *)
(* directory settled.                                                      *)
FailureNeedsFault == Publisher!FailureNeedsFault /\ Publisher!SettledWhenDone
=============================================================================

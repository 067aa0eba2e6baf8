------------------------------ MODULE MCStores ------------------------------
(* What the analyzers keep on disk, for TLC: the trace caches they share   *)
(* ("cache") and the annotations of a session ("annotations").  `part`     *)
(* says which of them a behaviour is about; the variables of the other     *)
(* keep their initial values.                                              *)
EXTENDS TraceCache, TLC

CONSTANTS Stores, Process, MAX_QUARANTINES, MaxOps, AnnotationFaults, s1, s2, x, y

(* Two commands of one analyzer, or of two.                                *)
OneOrTwo == {s1 :> x @@ s2 :> x, s1 :> x @@ s2 :> y}

VARIABLES part, a_names, a_quarantine, a_disk, a_files, a_flocks, a_owners,
          a_store, a_process, a_truth, a_ops, a_faults

annotation_vars == <<a_names, a_quarantine, a_disk, a_files, a_flocks, a_owners,
                     a_store, a_process, a_truth, a_ops, a_faults>>

Annotations == INSTANCE AnnotationStore WITH
    MaxFaults <- AnnotationFaults,
    names <- a_names, quarantine <- a_quarantine, disk <- a_disk, files <- a_files,
    flocks <- a_flocks, owners <- a_owners, store <- a_store, process <- a_process,
    truth <- a_truth, ops <- a_ops, faults <- a_faults

ASSUME CacheAssumption /\ Annotations!AnnotationAssumption

MCInit ==
    /\ Init /\ Annotations!Init
    /\ part \in {"cache", "annotations"}
    /\ part = "annotations" => bound = 0
    /\ part = "cache" => a_files = <<>> /\ a_process = CHOOSE p \in Process : TRUE

MCNext ==
    \/ part = "cache" /\ Next /\ UNCHANGED <<part, annotation_vars>>
    \/ part = "annotations" /\ Annotations!Next /\ UNCHANGED <<part, vars>>

MCSpec == MCInit /\ [][MCNext]_<<part, vars, annotation_vars>>
-----------------------------------------------------------------------------
(* What has the name of a cache, now or after a power loss, was written to *)
(* its end; a publication that failed with NoVisibleFinal has left no      *)
(* cache, not even one that comes back; and the temporary names are of     *)
(* publications that are going on, that crashed or that said that they do  *)
(* not know.                                                               *)
CachesAreWhole == FinalIsWhole /\ FailureIsHidden /\ TemporariesAreOwned

(* Every open of a cache comes to an end, whoever crashes or is cancelled  *)
(* while it holds the lock.                                                *)
CacheOpensEnd == part = "cache" /\ Fairness => OpensEnd

(* Whoever opens the annotations finds the last committed comment; and     *)
(* opening and closing them again and again never fills the quarantine.    *)
AnnotationsAreKept ==
    Annotations!CommittedIsFound /\ Annotations!QuarantineIsBounded
=============================================================================

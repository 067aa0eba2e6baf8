----------------------------- MODULE MCAnalyzer -----------------------------
(* The index of a trace ("index"), the timeline of its events              *)
(* ("timeline") and the service that builds and asks them on many threads  *)
(* ("service"), for TLC.  `part` says which of them a behaviour is about;  *)
(* the variables of the others keep their initial values.                  *)
EXTENDS MCTraceIndex, QtraceService

CONSTANTS Workers, MaxPending, MaxWord, MaxTerms, MaxPairs, MaxScanBytes, Limits

VARIABLES part, v_work, v_projection, v_cancelled, v_queue, v_worker, v_got, v_next

timeline_vars == <<v_work, v_projection, v_cancelled, v_queue, v_worker, v_got, v_next>>

TimelineWorks == INSTANCE MCTimelineWorks WITH None <- Nobody

Timeline == INSTANCE TimelineProjection WITH
    None <- Nobody, Works <- TimelineWorks!MCWorks,
    work <- v_work, projection <- v_projection, cancelled <- v_cancelled,
    queue <- v_queue, worker <- v_worker, got <- v_got, next <- v_next

ASSUME Timeline!ProjectionAssumption

MCInit == /\ Init /\ ServiceInit /\ Timeline!Init
          /\ part \in {"index", "timeline", "service"}
          /\ part # "index" => workload = CHOOSE w \in Workloads : TRUE
          /\ part # "timeline" => v_work = CHOOSE w \in TimelineWorks!MCWorks : TRUE

MCNext ==
    \/ part = "index" /\ Next /\ UNCHANGED <<part, service_vars, timeline_vars>>
    \/ part = "timeline" /\ Timeline!Next /\ UNCHANGED <<part, vars, service_vars>>
    \/ part = "service" /\ ServiceNext /\ UNCHANGED <<part, vars, timeline_vars>>

MCSpec == MCInit /\ [][MCNext]_<<part, vars, service_vars, timeline_vars>>
-----------------------------------------------------------------------------
(* The pages of a timeline, taken at any moments of its scan, are exactly  *)
(* the events that its filter selects, in their order; cursors and         *)
(* locations lead where they say.                                          *)
TimelineIsExact == part = "timeline" => Timeline!PagesAreExact /\ Timeline!CursorsAreTrue

(* A command whose flag is set ends, also one that waits for the slot of a *)
(* replay or a call tree that another command builds; and every timeline   *)
(* that was created is completed.                                          *)
AnalysesEnd ==
    /\ part = "service" /\ Fairness => CancelledEnds
    /\ part = "timeline" /\ Timeline!Fairness => Timeline!ProjectionsEnd
=============================================================================

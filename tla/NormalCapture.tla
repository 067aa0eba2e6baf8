---------------------------- MODULE NormalCapture ----------------------------
(***************************************************************************)
(* The capture of one scene call into its own trace file: the proxy of a   *)
(* hooked function (tracer_entry.cpp), run_with_qbdi (core/qbdi_runner.cpp)*)
(* and QbdiNormalStopLifecycle (core/qbdi_runner_lifecycle.cpp), composed  *)
(* with the runtime that admits the call.  Everything here runs on the     *)
(* calling thread; between any two steps the deadline and the other calls  *)
(* may act.  The writer is what BinaryTraceWriter promises: stop or end and*)
(* then close, each of which may fail.                                     *)
(***************************************************************************)
EXTENDS TraceGenerationRuntime

VARIABLES
    at,                \* where each thread is in its proxied call
    admission,         \* the admission of that call: none or one
    stop,              \* the QbdiNormalStopLifecycle of that call
    finalized,         \* finalization.completion_success, then /\ the marker
    file               \* the trace file of each admission

nvars == <<at, admission, stop, finalized, file>>
allvars == <<vars, nvars>>

Places == {"out", "setup", "vm", "observed", "acknowledging", "control",
           "returned", "marker", "finish", "target", "refused"}
NoStop == [seal_called |-> FALSE, sealed |-> FALSE, acknowledged_sealed |-> FALSE]

NormalInit ==
    /\ Init
    /\ at = [t \in Tids |-> "out"]
    /\ admission = [t \in Tids |-> {}]
    /\ stop = [t \in Tids |-> NoStop]
    /\ finalized = [t \in Tids |-> FALSE]
    /\ file = [c \in Call |-> "none"]

Moves(t, from, to) == at[t] = from /\ at' = [at EXCEPT ![t] = to]
FileOf(t, is) == file' = [c \in Call |-> IF c \in admission[t] THEN is ELSE file[c]]
-----------------------------------------------------------------------------
(* The proxy's try_begin_call; a call that is refused bypasses QBDI.       *)
Proxy(t, s) ==
    /\ at[t] = "out"
    /\ TryBeginCall(s, t)
    /\ admission' = [admission EXCEPT ![t] = active' \ active]
    /\ at' = [at EXCEPT ![t] = IF active' = active THEN "out" ELSE "setup"]
    /\ stop' = [stop EXCEPT ![t] = NoStop]
    /\ finalized' = [finalized EXCEPT ![t] = FALSE]
    /\ UNCHANGED file

(* prepare, the crash marker, open_prepared, begin and create_normal.  A   *)
(* failure skips the VM, and the file, if there is one, ends without       *)
(* success; without a RunnerState there is nothing to finalize.            *)
SetupRun(t) ==
    /\ \/ Moves(t, "setup", "vm") /\ FileOf(t, "open")
       \/ Moves(t, "setup", "returned") /\ FileOf(t, "failed")
       \/ Moves(t, "setup", "refused") /\ FileOf(t, "failed")
    /\ UNCHANGED <<vars, admission, stop, finalized>>

(* decide_qbdi_target_pre latches the stop, and the VM returns.            *)
Observe(t) ==
    /\ token
    /\ Moves(t, "vm", "observed")
    /\ UNCHANGED <<vars, admission, stop, finalized, file>>

(* The target returns or exits its thread.                                 *)
Return(t) ==
    /\ Moves(t, "vm", "returned") \/ Moves(t, "control", "returned")
    /\ UNCHANGED <<vars, admission, stop, finalized, file>>

(* seal: writer_->stop, then writer_->close.                               *)
Seal(t) ==
    /\ Moves(t, "observed", "acknowledging")
    /\ \E ok \in BOOLEAN :
         /\ FileOf(t, IF ok THEN "stopped" ELSE "failed")
         /\ stop' = [stop EXCEPT ![t].seal_called = TRUE, ![t].sealed = ok]
    /\ UNCHANGED <<vars, admission, finalized>>

(* Mutation: the result of the seal is not looked at.                      *)
AcknowledgeUnchecked(t) ==
    /\ Moves(t, "acknowledging", "control")
    /\ stop' = [stop EXCEPT ![t].acknowledged_sealed = TRUE]
    /\ \E c \in admission[t] : AcknowledgeSealed(c)
    /\ UNCHANGED <<admission, finalized, file>>

(* acknowledge: only a sealed file completes the admission this early.     *)
Acknowledge(t) ==
    /\ Moves(t, "acknowledging", "control")
    /\ stop' = [stop EXCEPT ![t].acknowledged_sealed = stop[t].sealed]
    /\ IF stop[t].sealed THEN \E c \in admission[t] : AcknowledgeSealed(c)
                         ELSE UNCHANGED vars
    /\ UNCHANGED <<admission, finalized, file>>
-----------------------------------------------------------------------------
(* After the target: a stopped file is closed again, which repeats the     *)
(* first result; a thread exit writes a stop record, a return an end       *)
(* record, and without a target that ran neither can succeed.              *)
Finalize(t) ==
    /\ Moves(t, "returned", "marker")
    /\ \/ /\ stop[t].seal_called
          /\ finalized' = [finalized EXCEPT ![t] = stop[t].sealed]
          /\ UNCHANGED file
       \/ /\ ~stop[t].seal_called
          /\ \E done \in {"stopped", "completed", "failed"} :
               /\ done # "failed" => \A c \in admission[t] : file[c] = "open"
               /\ finalized' = [finalized EXCEPT ![t] = done # "failed"]
               /\ FileOf(t, done)
    /\ UNCHANGED <<vars, admission, stop>>

(* crash_marker.finish.                                                    *)
FinishMarker(t) ==
    /\ Moves(t, "marker", "finish")
    /\ \E ok \in BOOLEAN : finalized' = [finalized EXCEPT ![t] = @ /\ ok]
    /\ UNCHANGED <<vars, admission, stop, file>>

(* Mutation: an admission whose seal failed is not completed.              *)
FinishSealedOnly(t) ==
    /\ Moves(t, "finish", "target")
    /\ IF stop[t].seal_called /\ ~stop[t].sealed THEN UNCHANGED vars
       ELSE \E c \in admission[t] : FinishCall(c, FALSE)
    /\ UNCHANGED <<admission, stop, finalized, file>>

(* finish: the second completion of an acknowledged admission.             *)
Finish(t) ==
    /\ Moves(t, "finish", "target")
    /\ \E c \in admission[t] :
         IF stop[t].acknowledged_sealed /\ finalized[t] THEN AcknowledgeSealed(c)
                                                        ELSE FinishCall(c, FALSE)
    /\ UNCHANGED <<admission, stop, finalized, file>>

Forget(t) == admission' = [admission EXCEPT ![t] = {}]

(* finish_target_call, and the proxy returns.                              *)
FinishTarget(t) ==
    /\ Moves(t, "target", "out")
    /\ mutex = "free"
    /\ IF admission[t] \intersect sealed_targets # {}
       THEN \E c \in admission[t] : FinishTargetCall(c)
       ELSE UNCHANGED vars
    /\ Forget(t)
    /\ UNCHANGED <<stop, finalized, file>>

(* The proxy completes what run_with_qbdi did not.                         *)
ProxyFinishes(t) ==
    /\ Moves(t, "refused", "out")
    /\ \E c \in admission[t] : FinishCall(c, FALSE)
    /\ Forget(t)
    /\ UNCHANGED <<stop, finalized, file>>
-----------------------------------------------------------------------------
RuntimeAlone == (ArmBegin \/ ArmProceeds \/ DeadlineWorker \/ LockHolder)
                /\ UNCHANGED nvars

Runs(t) == \/ SetupRun(t) \/ Observe(t) \/ Return(t) \/ Seal(t) \/ Acknowledge(t)
           \/ Finalize(t) \/ FinishMarker(t) \/ Finish(t) \/ FinishTarget(t)
           \/ ProxyFinishes(t)

NormalNext == \/ RuntimeAlone
              \/ \E t \in Tids : Runs(t) \/ \E s \in Scenes : Proxy(t, s)

NormalSpec == NormalInit /\ [][NormalNext]_allvars

(* Every target returns or meets a callback, and the runtime's threads run.*)
NormalFairness == WF_allvars(RuntimeAlone) /\ \A t \in Tids : WF_allvars(Runs(t))

FairNormalSpec == NormalSpec /\ NormalFairness
-----------------------------------------------------------------------------
(* Properties.                                                             *)

(* Sealed: every file that was open when the stop was requested has its    *)
(* stop record and is closed, though the acknowledgement precedes the crash*)
(* marker and the admission is completed twice.                            *)
SealedFilesAreSealed ==
    phase = "Sealed" => \A c \in open_at_stop : file[c] = "stopped"

(* activeScenes lists a call exactly while its thread is in the proxy: no  *)
(* path through run_with_qbdi leaves an admission or a sealed target.      *)
ListedCallsAreRunning ==
    active \union sealed_targets \subseteq UNION {admission[t] : t \in Tids}

(* What the stop of a generation of normal captures promises: Sealed means *)
(* every file open at the stop has its stop record and is closed, and the  *)
(* calls it lists are those whose thread is in the proxy.                  *)
NormalStopIsTruthful == SealedFilesAreSealed /\ ListedCallsAreRunning

(* A stopped generation reaches its terminal phase if the targets return,  *)
(* on every error path of the run.                                         *)
StopsEndOnReturn == token ~> (phase \in Terminal)
=============================================================================

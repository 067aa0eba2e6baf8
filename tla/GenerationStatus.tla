-------------------------- MODULE GenerationStatus --------------------------
(***************************************************************************)
(* The status file of a generation: TraceGenerationRuntime composed with   *)
(* the threads that publish it (core/trace_generation_runtime.cpp).  The   *)
(* installing thread publishes "installed", the status worker polls        *)
(* transition_sequence_ and publishes snapshots, and the destructor joins  *)
(* the worker and publishes a last one.  status_snapshot() is not atomic:  *)
(* phase_ and stop_token_ are read without active_mutex_, then the call    *)
(* lists under it, then the metadata under its own mutex.                  *)
(*                                                                         *)
(* SessionStatusPublisher::publish is what SessionStatusPublisher.tla shows*)
(* of it: the snapshot becomes the file, or publish reports a failure,     *)
(* before the file changed or after the new file was visible for a while,  *)
(* and the file is the old or the new one.                                 *)
(***************************************************************************)
EXTENDS TraceGenerationRuntime

CONSTANTS
    Kinds,             \* metadata lists: "artifact", "warning", "error"
    Texts,             \* what the captures record in them; "" is invalid
    MetadataCapacity,  \* kMaxStatusArtifacts, kMaxStatusIssues
    MaxFailures,       \* bound: publications and thread starts that fail
    NoStatus           \* no status file yet

(* SessionStatusSnapshot: what a status says.                              *)
Statuses ==
    [state : {"installed", "running", "stop_requested", "stopping", "sealed",
              "stop_incomplete"},
     reason : {"", "duration_elapsed"}, ack : BOOLEAN, open : SUBSET Call,
     sealed : SUBSET Call, metadata : SUBSET (Kinds \X Texts),
     diagnostics : SUBSET (Kinds \X {"invalid", "duplicate", "capacity"}),
     error : BOOLEAN]

ASSUME StatusAssumption == /\ MetadataCapacity \in Nat
                           /\ MaxFailures \in Nat
                           /\ NoStatus \notin Statuses

VARIABLES
    metadata,          \* status_artifacts_, status_warnings_, status_errors_
    diagnostics,       \* status_metadata_diagnostics_
    status_error,      \* status_error_ # 0
    publication_started,  \* status_publication_started_
    status_worker,     \* the status worker's place in publish_status_loop
    publisher,         \* the thread inside status_snapshot + publish
    snap_pc,           \* the next read of status_snapshot
    snap,              \* the snapshot being built
    read_sequence,     \* `transition` of publish_status_loop
    published_sequence,\* published_sequence of publish_status_loop
    file,              \* the status file the host reads
    backup,            \* the file a failing publication may restore
    retire,            \* the destructor's place in join_status
    failures           \* bound: failures so far

statusVars == <<metadata, diagnostics, status_error, publication_started,
                status_worker, publisher, snap_pc, snap, read_sequence,
                published_sequence, file, backup, retire, failures>>
snapshotVars == <<publisher, snap_pc, snap, backup>>
allVars == <<vars, statusVars>>

StateName == [p \in Phases |->
    CASE p = "Waiting" -> "installed" [] p = "Running" -> "running"
      [] p = "StopRequested" -> "stop_requested" [] p = "Stopping" -> "stopping"
      [] p = "Sealed" -> "sealed" [] OTHER -> "stop_incomplete"]

Reason(requested) == IF requested THEN "duration_elapsed" ELSE ""

EmptySnapshot == [state |-> "installed", reason |-> "", ack |-> FALSE,
                  open |-> {}, sealed |-> {}, metadata |-> {},
                  diagnostics |-> {}, error |-> FALSE]

(* What a snapshot taken in one instant would say.                         *)
Current == [state |-> StateName[phase], reason |-> Reason(token),
            ack |-> phase = "Sealed", open |-> active,
            sealed |-> sealed_targets, metadata |-> metadata,
            diagnostics |-> diagnostics, error |-> status_error]

StatusInit ==
    /\ Init
    /\ metadata = {} /\ diagnostics = {} /\ status_error = FALSE
    /\ publication_started = FALSE
    /\ status_worker = "unstarted"
    /\ publisher = "none" /\ snap_pc = "none" /\ snap = EmptySnapshot
    /\ read_sequence = 0 /\ published_sequence = 0
    /\ file = NoStatus /\ backup = NoStatus /\ retire = "live" /\ failures = 0
-----------------------------------------------------------------------------
(* status_snapshot: one step per read that another thread can interleave.  *)
BeginSnapshot(who) ==
    /\ backup' = NoStatus
    /\ publisher' = who
    /\ snap_pc' = "phase"
    /\ snap' = EmptySnapshot

EndSnapshot ==
    /\ publisher' = "none"
    /\ backup' = NoStatus
    /\ snap_pc' = "none"
    /\ snap' = EmptySnapshot

Read(pc, read, next) ==
    /\ snap_pc = pc
    /\ snap' = read
    /\ snap_pc' = next
    /\ UNCHANGED <<vars, metadata, diagnostics, status_error,
                   publication_started, status_worker, publisher, read_sequence,
                   published_sequence, file, backup, retire, failures>>

WithPhase == [snap EXCEPT !.state = StateName[phase], !.ack = phase = "Sealed"]
WithReason == [snap EXCEPT !.reason = Reason(token)]
WithCalls == [snap EXCEPT !.open = active, !.sealed = sealed_targets]

ReadPhase == Read("phase", WithPhase, "token")
ReadToken == Read("token", WithReason, "calls")
ReadCalls == mutex = "free" /\ Read("calls", WithCalls, "metadata")

(* Metadata, then status_error_.  Only the publishing thread itself or the *)
(* arming thread before the worker exists stores status_error_.            *)
ReadMetadata ==
    Read("metadata",
         [snap EXCEPT !.metadata = metadata, !.diagnostics = diagnostics,
                      !.error = status_error],
         "publish")

(* Mutation: the call lists are copied before the phase is loaded.         *)
SnapshotCallsFirst ==
    \/ mutex = "free" /\ Read("phase", WithCalls, "token")
    \/ ReadToken
    \/ Read("calls", WithPhase, "metadata")
    \/ ReadMetadata

Snapshot == ReadPhase \/ ReadToken \/ ReadCalls \/ ReadMetadata

NoteTransition ==
    /\ transition' = transition + 1
    /\ UNCHANGED <<arm_state, phase, token, deadline_pending, stop_incomplete,
                   active, sealed_targets, next_serial, mutex, completing,
                   worker, destroying, outcome, open_at_stop>>

(* publish(snapshot) by the current publisher, and its error path: latch   *)
(* status_error_ and schedule a successor.                                 *)
PublishOk ==
    /\ snap_pc = "publish"
    /\ file' = snap
    /\ UNCHANGED <<vars, status_error, failures>>

(* The transaction renamed the new file into place and then failed.        *)
PublishShows ==
    /\ snap_pc = "publish"
    /\ failures < MaxFailures
    /\ failures' = failures + 1
    /\ file' = snap /\ backup' = file
    /\ snap_pc' = "withdraw"
    /\ UNCHANGED <<vars, metadata, diagnostics, status_error,
                   publication_started, status_worker, publisher, snap,
                   read_sequence, published_sequence, retire>>

Withdraw ==
    \/ /\ snap_pc = "publish"
       /\ failures < MaxFailures
       /\ failures' = failures + 1
       /\ UNCHANGED file
    \/ /\ snap_pc = "withdraw"
       /\ file' \in {file, backup}
       /\ UNCHANGED failures

(* Mutation: a failed publication schedules no successor.                  *)
PublishFailsUnnoted == Withdraw /\ status_error' = TRUE /\ UNCHANGED vars

PublishFails == Withdraw /\ status_error' = TRUE /\ NoteTransition

Publish == PublishOk \/ PublishFails
-----------------------------------------------------------------------------
(* publish_installed_status, called by the installing thread before arm.   *)
PublishInstalledBegin ==
    /\ ~destroying /\ arm_state = "Unarmed" /\ phase = "Waiting"
    /\ publisher = "none"
    /\ publication_started' = TRUE
    /\ BeginSnapshot("installer")
    /\ UNCHANGED <<vars, metadata, diagnostics, status_error, status_worker,
                   read_sequence, published_sequence, file, retire, failures>>

PublishInstalledEnd ==
    /\ publisher = "installer"
    /\ Publish
    /\ EndSnapshot
    /\ UNCHANGED <<metadata, diagnostics, publication_started, status_worker,
                   read_sequence, published_sequence, retire>>

(* start_status, the last statement of arm: the worker exists, or its      *)
(* allocation or pthread_create failed.                                    *)
StartStatus ==
    /\ arm_state \in {"Armed", "Failed"}
    /\ status_worker = "unstarted"
    /\ publication_started' = TRUE
    /\ \/ /\ status_worker' = "poll"
          /\ UNCHANGED <<vars, status_error, failures>>
       \/ /\ failures < MaxFailures
          /\ failures' = failures + 1
          /\ status_worker' = "failed"
          /\ status_error' = TRUE
          /\ NoteTransition
    /\ UNCHANGED <<metadata, diagnostics, snapshotVars, read_sequence,
                   published_sequence, file, retire>>
-----------------------------------------------------------------------------
(* publish_status_loop: the transition is read before the snapshot.        *)
StopStatus == retire # "live"

WorkerPoll ==
    /\ status_worker = "poll"
    /\ \/ /\ StopStatus
          /\ status_worker' = "exited"
          /\ UNCHANGED <<read_sequence, snapshotVars>>
       \/ /\ ~StopStatus
          /\ read_sequence' = transition
          /\ IF transition # published_sequence
             THEN status_worker' = "publish" /\ BeginSnapshot("worker")
             ELSE status_worker' = "wait" /\ UNCHANGED snapshotVars
    /\ UNCHANGED <<vars, metadata, diagnostics, status_error,
                   publication_started, published_sequence, file, retire,
                   failures>>

WorkerPublish ==
    /\ publisher = "worker"
    /\ Publish
    /\ published_sequence' = read_sequence
    /\ status_worker' = "wait"
    /\ EndSnapshot
    /\ UNCHANGED <<metadata, diagnostics, publication_started, read_sequence,
                   retire>>

(* The poll wait ends; the stop flag is looked at again.                   *)
WorkerWait ==
    /\ status_worker = "wait"
    /\ status_worker' = IF StopStatus THEN "exited" ELSE "poll"
    /\ UNCHANGED <<vars, metadata, diagnostics, status_error,
                   publication_started, snapshotVars, read_sequence,
                   published_sequence, file, retire, failures>>
-----------------------------------------------------------------------------
(* join_status, after join_deadline returned: stop the worker, join it,    *)
(* publish a final snapshot and retry that once.                           *)
JoinStatus ==
    /\ retire = "live"
    /\ destroying /\ worker \in {"none", "done"} /\ mutex = "free"
    /\ retire' = "join"
    /\ UNCHANGED <<vars, metadata, diagnostics, status_error,
                   publication_started, status_worker, snapshotVars,
                   read_sequence, published_sequence, file, failures>>

FinalBegin ==
    /\ retire = "join"
    /\ status_worker \in {"unstarted", "failed", "exited"}
    /\ IF publication_started
       THEN retire' = "final" /\ BeginSnapshot("final")
       ELSE retire' = "gone" /\ UNCHANGED snapshotVars
    /\ UNCHANGED <<vars, metadata, diagnostics, status_error,
                   publication_started, status_worker, read_sequence,
                   published_sequence, file, failures>>

FinalPublish ==
    /\ publisher = "final"
    /\ \/ PublishOk /\ retire' = "gone" /\ EndSnapshot
       \/ PublishFails /\ retire' = "retry" /\ BeginSnapshot("retry")
    /\ UNCHANGED <<metadata, diagnostics, publication_started, status_worker,
                   read_sequence, published_sequence>>

(* The retry's result is ignored.                                          *)
FinalRetry ==
    /\ publisher = "retry"
    /\ \/ PublishOk /\ retire' = "gone"
       \/ Withdraw /\ retire' = "lost" /\ UNCHANGED <<vars, status_error>>
    /\ EndSnapshot
    /\ UNCHANGED <<metadata, diagnostics, publication_started, status_worker,
                   read_sequence, published_sequence>>
-----------------------------------------------------------------------------
(* record_artifact, record_status_warning, record_status_error(_once):     *)
(* what is refused leaves one diagnostic, noted once; only the _once form  *)
(* keeps silent about a repeat.                                            *)
Diagnose(kind, problem) ==
    /\ <<kind, problem>> \notin diagnostics
    /\ diagnostics' = diagnostics \union {<<kind, problem>>}
    /\ UNCHANGED metadata

List(kind) == {m \in metadata : m[1] = kind}

RecordListed(kind, text) ==
    \/ /\ text = ""
       /\ Diagnose(kind, "invalid")
    \/ /\ text # "" /\ <<kind, text>> \in metadata
       /\ Diagnose(kind, "duplicate")
    \/ /\ text # "" /\ <<kind, text>> \notin metadata
       /\ Cardinality(List(kind)) >= MetadataCapacity
       /\ Diagnose(kind, "capacity")
    \/ /\ text # "" /\ <<kind, text>> \notin metadata
       /\ Cardinality(List(kind)) < MetadataCapacity
       /\ metadata' = metadata \union {<<kind, text>>}
       /\ UNCHANGED diagnostics

Record(kind, text) ==
    /\ ~destroying
    /\ RecordListed(kind, text)
    /\ NoteTransition
    /\ UNCHANGED <<status_error, publication_started, status_worker,
                   snapshotVars, read_sequence, published_sequence, file,
                   retire, failures>>
-----------------------------------------------------------------------------
(* The runtime's own steps.  The installing thread arms after its          *)
(* publication, and holds its reference until start_status has returned.   *)
RuntimeStep ==
    /\ Next
    /\ arm_state = "Unarmed" /\ arm_state' # "Unarmed" => publisher = "none"
    /\ ~destroying /\ destroying' =>
          /\ publisher # "installer"
          /\ arm_state # "Unarmed" => status_worker # "unstarted"
    /\ UNCHANGED statusVars

StatusWorker == WorkerPoll \/ WorkerPublish \/ WorkerWait
Retirement == JoinStatus \/ FinalBegin \/ FinalPublish \/ FinalRetry

StatusNext ==
    \/ RuntimeStep
    \/ PublishInstalledBegin \/ PublishInstalledEnd \/ StartStatus
    \/ Snapshot \/ PublishShows \/ StatusWorker \/ Retirement
    \/ \E kind \in Kinds, text \in Texts : Record(kind, text)

StatusSpec == StatusInit /\ [][StatusNext]_allVars

(* The publishing threads are scheduled; the poll wait is a 25 ms sleep.   *)
StatusFairness ==
    /\ WF_allVars(Snapshot)
    /\ WF_allVars(PublishInstalledEnd)
    /\ WF_allVars(StartStatus)
    /\ WF_allVars(StatusWorker)
    /\ WF_allVars(Retirement)
    /\ WF_allVars(LockHolder /\ UNCHANGED statusVars)
    /\ WF_allVars(DeadlineWorker /\ UNCHANGED statusVars)

FairStatusSpec == StatusSpec /\ StatusFairness
-----------------------------------------------------------------------------
(* Properties.                                                             *)

StatusRank(status) ==
    IF status = NoStatus THEN -1
    ELSE CASE status.state = "installed" -> 0 [] status.state = "running" -> 1
           [] status.state = "stop_requested" -> 2
           [] status.state = "stopping" -> 3 [] OTHER -> 4

(* SessionStatusPublisher has no lock of its own: the installing thread,   *)
(* the worker and the destructor never build and publish a snapshot at the *)
(* same time, whatever order arm, stop and destruction come in.            *)
OnePublisher ==
    /\ status_worker = "publish" <=> publisher = "worker"
    /\ retire = "final" <=> publisher = "final"
    /\ publisher = "installer" => status_worker = "unstarted"

(* When the worker has nothing left to publish, the file is what a snapshot*)
(* taken now would say: reading transition_sequence_ before the snapshot,  *)
(* and counting a failed publication as a transition, loses no change.     *)
QuiescentStatusIsCurrent ==
    status_worker \in {"poll", "wait"} /\ published_sequence = transition
        => file = Current

(* Retirement cannot discard the last transition: once join_status is done *)
(* with a publication that succeeded, the file is current.                 *)
RetiredStatusIsCurrent ==
    retire = "gone" /\ publication_started => file = Current

(* A status that says the generation sealed lists no open capture, although*)
(* the phase and the call lists are read at different times.               *)
SealedStatusHasNoOpenCapture ==
    file # NoStatus /\ file.ack => file.state = "sealed" /\ file.open = {}

(* The reason is never missing from a status that reports a requested stop:*)
(* the token is requested before the phase and read after it.              *)
StoppedStatusHasReason ==
    file # NoStatus /\ file.state \in {"stop_requested", "stopping", "sealed"}
        => file.reason = "duration_elapsed"

(* When the worker has nothing left to publish, and when the generation is *)
(* retired, the file is what a snapshot taken now would say; and no two    *)
(* threads ever publish at once, as the publisher has no lock.             *)
StatusIsCurrent == QuiescentStatusIsCurrent /\ RetiredStatusIsCurrent /\ OnePublisher

(* What the file says of a stop is consistent although the snapshot is not *)
(* atomic: a sealed status lists no open capture, a stopped one has its    *)
(* reason.                                                                 *)
StopIsConsistent == SealedStatusHasNoOpenCapture /\ StoppedStatusHasReason

(* Unless a publication fails, what the host reads never goes back, and a  *)
(* terminal status never changes state (qtrace/session.py parse_status     *)
(* ends the session on a regression).                                      *)
PublishedStatusMonotone ==
    [][failures' = 0 =>
         /\ StatusRank(file') >= StatusRank(file)
         /\ StatusRank(file) = 4 => file'.state = file.state]_allVars

(* The terminal phase reaches the file, by the worker or at retirement,    *)
(* unless the worker could not be started or every publication failed.     *)
TerminalIsPublished ==
    (phase \in Terminal /\ status_worker = "poll") ~>
        (retire = "lost" \/ (file # NoStatus /\ file.state = StateName[phase]))

(* The host's consistency rule of qtrace/status.py validate_status_shape   *)
(* and docs/qtrace-session-status.schema.json: state decides reason and    *)
(* acknowledgement.                                                        *)
HostAccepts(status) ==
    CASE status.state \in {"installed", "running"} ->
             status.reason = "" /\ ~status.ack
      [] status.state \in {"stop_requested", "stopping", "stop_incomplete"} ->
             status.reason = "duration_elapsed" /\ ~status.ack
      [] OTHER -> status.reason = "duration_elapsed" /\ status.ack

(* A status published by a generation that could be armed satisfies the    *)
(* host's rule.                                                            *)
RunningStatusAccepted ==
    file # NoStatus /\ arm_state # "Failed" => HostAccepts(file)
=============================================================================

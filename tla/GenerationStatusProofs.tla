----------------------- MODULE GenerationStatusProofs -----------------------
(***************************************************************************)
(* Proofs about GenerationStatus for every set of scenes and threads, every*)
(* metadata and every number of failing publications.  SInv is the         *)
(* inductive invariant: who publishes, what of the snapshot under way is   *)
(* still true, and what the file and its backup say.                       *)
(***************************************************************************)
EXTENDS GenerationStatus, TraceGenerationRuntimeProofs

StatusTypeOK ==
    /\ metadata \subseteq Kinds \X Texts
    /\ diagnostics \subseteq Kinds \X {"invalid", "duplicate", "capacity"}
    /\ status_error \in BOOLEAN /\ publication_started \in BOOLEAN
    /\ status_worker \in {"unstarted", "failed", "poll", "publish", "wait",
                          "exited"}
    /\ publisher \in {"none", "installer", "worker", "final", "retry"}
    /\ snap_pc \in {"none", "phase", "token", "calls", "metadata", "publish",
                    "withdraw"}
    /\ snap \in Statuses
    /\ read_sequence \in Nat /\ published_sequence \in Nat
    /\ file \in Statuses \union {NoStatus} /\ backup \in Statuses \union {NoStatus}
    /\ retire \in {"live", "join", "final", "retry", "gone", "lost"}
    /\ failures \in Nat

(* Who publishes, and what the place of each thread says of the others: the*)
(* installer before arm, the worker after it, the destructor when the      *)
(* worker and the runtime have stopped.                                    *)
Places ==
    /\ OnePublisher
    /\ retire = "retry" <=> publisher = "retry"
    /\ publisher = "none" <=> snap_pc = "none"
    /\ publisher = "installer" => arm_state = "Unarmed" /\ ~destroying
    /\ status_worker # "unstarted" =>
           arm_state \in {"Armed", "Failed"} /\ publication_started
    /\ destroying =>
           /\ arm_state # "Arming"
           /\ arm_state # "Unarmed" => status_worker # "unstarted"
    /\ retire # "live" =>
           destroying /\ mutex = "free" /\ worker \in {"none", "done"}
    /\ retire \notin {"live", "join"} =>
           status_worker \in {"unstarted", "failed", "exited"}

(* What the snapshot under way has read is what it would read now.         *)
SnapMatches ==
    /\ snap_pc \notin {"none", "phase"} =>
           snap.state = StateName[phase] /\ snap.ack = (phase = "Sealed")
    /\ snap_pc \notin {"none", "phase", "token"} => snap.reason = Reason(token)
    /\ snap_pc \notin {"none", "phase", "token", "calls"} =>
           snap.open = active /\ snap.sealed = sealed_targets
    /\ snap_pc \notin {"none", "phase", "token", "calls", "metadata"} =>
           /\ snap.metadata = metadata /\ snap.diagnostics = diagnostics
           /\ snap.error = status_error

(* The worker's snapshot is out of date only when transition_sequence_ has *)
(* moved on; the destructor's never is.                                    *)
SnapIsFresh ==
    /\ transition >= 1 /\ published_sequence <= transition
    /\ status_worker = "unstarted" => published_sequence = 0
    /\ publisher = "worker" =>
           /\ read_sequence <= transition
           /\ read_sequence = transition => SnapMatches
    /\ publisher \in {"final", "retry"} => SnapMatches

(* What a snapshot says of a stop, as far as it has been read, and what a  *)
(* whole status says.                                                      *)
StopStates == {"stop_requested", "stopping", "sealed"}

SnapIsConsistent ==
    /\ snap_pc \in {"phase", "token", "calls"} => snap.open = {}
    /\ snap.ack => snap.state = "sealed" /\ phase = "Sealed" /\ snap.open = {}
    /\ snap.state \in StopStates => token
    /\ snap.state \in StopStates /\ snap_pc \notin {"phase", "token"} =>
           snap.reason = "duration_elapsed"

Consistent(status) ==
    status # NoStatus =>
        /\ status.ack => status.state = "sealed" /\ status.open = {}
        /\ status.state \in StopStates => status.reason = "duration_elapsed"

FilesAreConsistent == Consistent(file) /\ Consistent(backup)

(* The order of the states; the last two are final.                        *)
StateRank(state) ==
    CASE state = "installed" -> 0 [] state = "running" -> 1
      [] state = "stop_requested" -> 2 [] state = "stopping" -> 3 [] OTHER -> 4

Before(a, b) == a = b \/ StateRank(a) < StateRank(b)

(* While nothing has failed, the file is behind the snapshot and that      *)
(* behind the phase.                                                       *)
FileIsBehind ==
    failures = 0 =>
        /\ file # NoStatus => Before(file.state, StateName[phase])
        /\ snap_pc # "withdraw"
        /\ snap_pc \notin {"none", "phase"} =>
               /\ Before(snap.state, StateName[phase])
               /\ file # NoStatus => Before(file.state, snap.state)

SInv == /\ IInv /\ StatusTypeOK /\ Places /\ SnapIsFresh
        /\ QuiescentStatusIsCurrent /\ RetiredStatusIsCurrent
        /\ SnapIsConsistent /\ FilesAreConsistent /\ FileIsBehind
-----------------------------------------------------------------------------
(* Operators.                                                              *)
LEMMA BeforeTransitive ==
    ASSUME NEW a, NEW b, NEW c, Before(a, b), Before(b, c) PROVE Before(a, c)
BY DEF Before, StateRank

(* What a phase is called, and what holds in it.                           *)
LEMMA PhaseFacts ==
    ASSUME IInv
    PROVE  /\ StateName[phase] = "sealed" <=> phase = "Sealed"
           /\ StateName[phase] \in StopStates => token
           /\ phase = "Sealed" => active = {}
BY DEF IInv, TypeOK, TokenPhase, Terminal, StateName, Phases, StopStates

(* A status taken now is a status.                                         *)
LEMMA CurrentIsStatus ==
    ASSUME SInv
    PROVE  /\ StateName[phase] \in {"installed", "running", "stop_requested",
                                    "stopping", "sealed", "stop_incomplete"}
           /\ Reason(token) \in {"", "duration_elapsed"}
           /\ active \subseteq Call /\ sealed_targets \subseteq Call
           /\ EmptySnapshot \in Statuses
<1>1. IInv
  BY DEF SInv
<1>2. StateName[phase] \in {"installed", "running", "stop_requested",
                            "stopping", "sealed", "stop_incomplete"}
  BY <1>1 DEF IInv, TypeOK, StateName, Phases
<1>3. EmptySnapshot \in Statuses
  BY DEF EmptySnapshot, Statuses
<1>. QED  BY <1>1, <1>2, <1>3 DEF IInv, TypeOK, Reason

(* When the snapshot is read to its end and true, it is a status taken now.*)
LEMMA WholeSnapshot ==
    ASSUME SInv, SnapMatches, snap_pc = "publish" PROVE snap = Current
<1>1. snap \in Statuses
  BY DEF SInv, StatusTypeOK
<1>. QED  BY <1>1 DEF SnapMatches, Current, Statuses

(* The steps that only count a transition keep the runtime's invariant.    *)
LEMMA NoteIInv == ASSUME IInv, NoteTransition PROVE IInv'
<1>1. TypeOK'
  BY DEF IInv, TypeOK, NoteTransition
<1>2. SerialsFresh' /\ ActiveIsOpen' /\ CompletionPending' /\ TargetsAreSealed'
  BY DEF IInv, NoteTransition, SerialsFresh, Issued, ActiveIsOpen,
         CompletionPending, TargetsAreSealed
<1>3. ArmOrder' /\ TokenPhase' /\ PendingNoticed' /\ StoppingHasOwner'
  BY DEF IInv, NoteTransition, ArmOrder, TokenPhase, PendingNoticed,
         StoppingHasOwner
<1>4. StopTruth'
  BY DEF IInv, NoteTransition, StopTruth, OpenCalls
<1>. QED  BY <1>1, <1>2, <1>3, <1>4 DEF IInv

(* How the runtime moves under the publishing threads.                     *)
Moves == \/ [Next]_vars \/ NoteTransition

LEMMA RuntimeMoves ==
    ASSUME IInv, Moves
    PROVE  /\ IInv' /\ transition \in Nat
           /\ \/ transition' \in Nat /\ transition' > transition
              \/ UNCHANGED <<phase, token, active, sealed_targets, transition>>
           /\ Before(StateName[phase], StateName[phase'])
           /\ token => token'
           /\ phase = "Sealed" => phase' = "Sealed"
<1>1. CASE NoteTransition
  BY <1>1, NoteIInv DEF NoteTransition, Before, IInv, TypeOK
<1>2. CASE [Next]_vars
  <2>1. IInv' /\ transition \in Nat
    BY <1>2, NextIInv DEF IInv, TypeOK
  <2>2. \/ transition' \in Nat /\ transition' > transition
        \/ UNCHANGED <<phase, token, active, sealed_targets, transition>>
    BY <1>2, ChangeIsNoted
  <2>3. Before(StateName[phase], StateName[phase'])
    BY <1>2, PhaseSteps
    DEF Before, StateRank, StateName, Phases, IsStopping, Terminal
  <2>4. phase = "Sealed" => phase' = "Sealed"
    BY <1>2, PhaseSteps DEF IsStopping
  <2>5. token => token'
    BY <1>2, StopStays
  <2>. QED  BY <2>1, <2>2, <2>3, <2>4, <2>5
<1>. QED  BY <1>1, <1>2 DEF Moves

(* Once the destructor has joined the worker, the runtime does not move.   *)
LEMMA RuntimeStands == ASSUME SInv, retire # "live" PROVE ~Next
<1>1. /\ destroying /\ mutex = "free" /\ worker \in {"none", "done"}
      /\ arm_state # "Arming"
  BY DEF SInv, Places
<1>. QED
  BY Zenon, <1>1
  DEF Next, ArmBegin, ArmProceeds, ArmFail, ArmStartDeadline, ArmRun, ArmDone,
      DeadlineWorker, DeadlineExpires, RequestDeadlineStop, DeadlineCancelled,
      LockHolder, Republish, Decide, Settle, RequestStop, Destroy, TryBeginCall,
      CallStep, FinishCall, AcknowledgeSealed, CompleteCallLocked,
      FinishTargetCall
-----------------------------------------------------------------------------
(* A generation that was just constructed satisfies the invariant.         *)
LEMMA StatusInitSInv == StatusInit => SInv
<1>. SUFFICES ASSUME StatusInit PROVE SInv
  OBVIOUS
<1>1. IInv
  BY InitIInv DEF StatusInit
<1>2. StatusTypeOK
  BY DEF StatusInit, StatusTypeOK, EmptySnapshot, Statuses
<1>3. Places
  BY DEF StatusInit, Init, Places, OnePublisher
<1>4. SnapIsFresh /\ QuiescentStatusIsCurrent /\ RetiredStatusIsCurrent
  BY DEF StatusInit, Init, SnapIsFresh, QuiescentStatusIsCurrent,
         RetiredStatusIsCurrent
<1>5. SnapIsConsistent /\ FilesAreConsistent /\ FileIsBehind
  BY DEF StatusInit, Init, SnapIsConsistent, FilesAreConsistent, Consistent,
         FileIsBehind, EmptySnapshot, StopStates
<1>. QED  BY <1>1, <1>2, <1>3, <1>4, <1>5 DEF SInv

(* A step that leaves the snapshot and the files alone.                    *)
View == <<phase, token, active, sealed_targets, metadata, diagnostics,
          status_error>>

LEMMA KeepSInv ==
    ASSUME SInv, Moves, StatusTypeOK', Places',
           UNCHANGED <<publisher, snap_pc, snap, file, backup, published_sequence>>,
           UNCHANGED View \/ transition' > transition,
           retire # "live" => UNCHANGED View,
           publisher = "worker" => UNCHANGED read_sequence,
           status_worker' = "unstarted" => status_worker = "unstarted",
           status_worker' \in {"poll", "wait"} =>
               status_worker \in {"poll", "wait", "unstarted"},
           retire' = "gone" /\ publication_started' =>
               retire = "gone" /\ publication_started,
           failures' = 0 => failures = 0
    PROVE  SInv'
<1>1. /\ IInv' /\ transition \in Nat /\ transition' \in Nat
      /\ transition' >= transition
      /\ UNCHANGED View \/ transition' > transition
  BY RuntimeMoves DEF SInv
<1>2. UNCHANGED View => (SnapMatches => SnapMatches') /\ Current' = Current
  BY DEF View, SnapMatches, Current
<1>3. SnapIsFresh'
  <2>1. /\ transition' >= 1 /\ published_sequence' <= transition'
        /\ status_worker' = "unstarted" => published_sequence' = 0
    BY <1>1 DEF SInv, SnapIsFresh, StatusTypeOK
  <2>2. ASSUME publisher' = "worker"
        PROVE  /\ read_sequence' <= transition'
               /\ read_sequence' = transition' => SnapMatches'
    BY <1>1, <1>2, <2>2 DEF SInv, SnapIsFresh, StatusTypeOK
  <2>3. ASSUME publisher' \in {"final", "retry"} PROVE SnapMatches'
    BY <1>2, <2>3 DEF SInv, SnapIsFresh, Places, OnePublisher
  <2>. QED  BY <2>1, <2>2, <2>3 DEF SnapIsFresh
<1>4. QuiescentStatusIsCurrent'
  BY <1>1, <1>2 DEF SInv, SnapIsFresh, QuiescentStatusIsCurrent, StatusTypeOK
<1>5. RetiredStatusIsCurrent'
  BY <1>2 DEF SInv, RetiredStatusIsCurrent
<1>6. SnapIsConsistent' /\ FilesAreConsistent'
  BY Zenon, RuntimeMoves DEF SInv, SnapIsConsistent, FilesAreConsistent, Consistent
<1>7. FileIsBehind'
  <2>. SUFFICES ASSUME failures' = 0 PROVE FileIsBehind'
    BY DEF FileIsBehind
  <2>1. Before(StateName[phase], StateName[phase'])
    BY RuntimeMoves DEF SInv
  <2>. QED  BY <2>1, BeforeTransitive DEF SInv, FileIsBehind
<1>. QED  BY <1>1, <1>3, <1>4, <1>5, <1>6, <1>7 DEF SInv

(* The steps of the runtime.                                               *)
LEMMA RuntimeStepSInv == ASSUME SInv, RuntimeStep PROVE SInv'
<1>1. Next /\ UNCHANGED statusVars /\ Moves
  BY DEF RuntimeStep, Moves
<1>2. StatusTypeOK'
  BY <1>1 DEF SInv, StatusTypeOK, statusVars
<1>3. retire = "live"
  BY <1>1, RuntimeStands
<1>4. Places'
  <2>1. publisher = "installer" => arm_state' = "Unarmed" /\ ~destroying'
    BY Zenon DEF RuntimeStep, SInv, Places, IInv, TypeOK, ArmStates
  <2>2. status_worker # "unstarted" => arm_state' \in {"Armed", "Failed"}
    BY Zenon, <1>1
    DEF SInv, Places, Next, ArmBegin, ArmProceeds, ArmFail, ArmStartDeadline,
        ArmRun, ArmDone, DeadlineWorker, DeadlineExpires, RequestDeadlineStop,
        DeadlineCancelled, LockHolder, Republish, Decide, Settle, RequestStop,
        Destroy, TryBeginCall, CallStep, FinishCall, AcknowledgeSealed,
        CompleteCallLocked, FinishTargetCall
  <2>3. destroying' => /\ arm_state' # "Arming"
                       /\ arm_state' # "Unarmed" => status_worker # "unstarted"
    <3>1. ~destroying /\ destroying' => arm_state' = arm_state /\ arm_state # "Arming"
      BY Zenon, <1>1
      DEF Next, ArmBegin, ArmProceeds, ArmFail, ArmStartDeadline,
          ArmRun, ArmDone, DeadlineWorker, DeadlineExpires, RequestDeadlineStop,
          DeadlineCancelled, LockHolder, Republish, Decide, Settle, RequestStop,
          Destroy, TryBeginCall, CallStep, FinishCall, AcknowledgeSealed,
          CompleteCallLocked, FinishTargetCall
    <3>2. destroying => arm_state' = arm_state
      BY Zenon, <1>1
      DEF SInv, Places, Next, ArmBegin, ArmProceeds, ArmFail, ArmStartDeadline,
          ArmRun, ArmDone, DeadlineWorker, DeadlineExpires, RequestDeadlineStop,
          DeadlineCancelled, LockHolder, Republish, Decide, Settle, RequestStop,
          Destroy, TryBeginCall, CallStep, FinishCall, AcknowledgeSealed,
          CompleteCallLocked, FinishTargetCall
    <3>. QED  BY Zenon, <3>1, <3>2 DEF RuntimeStep, SInv, Places
  <2>. QED
    BY <1>1, <1>3, <2>1, <2>2, <2>3 DEF SInv, Places, OnePublisher, statusVars
<1>5. UNCHANGED View \/ transition' > transition
  BY <1>1, RuntimeMoves DEF SInv, View, statusVars
<1>. QED  BY <1>1, <1>2, <1>3, <1>4, <1>5, KeepSInv DEF statusVars

(* A capture records an artifact, a warning or an error.                   *)
LEMMA RecordSInv ==
    ASSUME NEW kind \in Kinds, NEW text \in Texts, SInv, Record(kind, text)
    PROVE  SInv'
<1>1. /\ ~destroying /\ NoteTransition /\ Moves
      /\ UNCHANGED <<status_error, publication_started, status_worker,
                     snapshotVars, read_sequence, published_sequence, file,
                     retire, failures>>
  BY DEF Record, Moves
<1>2. /\ metadata' \subseteq Kinds \X Texts
      /\ diagnostics' \subseteq Kinds \X {"invalid", "duplicate", "capacity"}
  <2>1. \/ metadata' = metadata \union {<<kind, text>>} /\ UNCHANGED diagnostics
        \/ /\ UNCHANGED metadata
           /\ \E problem \in {"invalid", "duplicate", "capacity"} :
                 diagnostics' = diagnostics \union {<<kind, problem>>}
    BY DEF Record, RecordListed, Diagnose
  <2>. QED  BY <2>1 DEF SInv, StatusTypeOK
<1>3. StatusTypeOK'
  BY <1>1, <1>2 DEF SInv, StatusTypeOK, snapshotVars
<1>4. retire = "live"
  BY <1>1 DEF SInv, Places
<1>5. Places'
  BY <1>1, <1>4 DEF SInv, Places, OnePublisher, snapshotVars, NoteTransition
<1>6. transition' > transition
  BY <1>1 DEF NoteTransition, SInv, IInv, TypeOK
<1>. QED  BY <1>1, <1>3, <1>4, <1>5, <1>6, KeepSInv DEF snapshotVars

(* arm starts the worker, or fails to.                                     *)
LEMMA StartStatusSInv == ASSUME SInv, StartStatus PROVE SInv'
<1>1. /\ arm_state \in {"Armed", "Failed"} /\ status_worker = "unstarted"
      /\ publication_started' = TRUE
      /\ UNCHANGED <<metadata, diagnostics, snapshotVars, read_sequence,
                     published_sequence, file, retire>>
  BY DEF StartStatus
<1>2. retire = "live" /\ publisher \notin {"installer", "worker"}
  BY <1>1 DEF SInv, Places, OnePublisher
<1>3. \/ /\ status_worker' = "poll"
         /\ UNCHANGED <<vars, status_error, failures>>
      \/ /\ failures' = failures + 1 /\ status_worker' = "failed"
         /\ status_error' = TRUE /\ NoteTransition
  BY DEF StartStatus
<1>4. StatusTypeOK'
  <2>1. failures' \in Nat /\ status_worker' \in {"poll", "failed"}
    BY <1>3 DEF SInv, StatusTypeOK
  <2>2. status_error' \in BOOLEAN
    BY Zenon, <1>3 DEF SInv, StatusTypeOK
  <2>. QED  BY <1>1, <2>1, <2>2 DEF SInv, StatusTypeOK, snapshotVars
<1>5. /\ Moves
      /\ UNCHANGED <<arm_state, destroying, mutex, worker>>
      /\ UNCHANGED View \/ transition' > transition
  BY <1>1, <1>3 DEF Moves, NoteTransition, vars, View, SInv, IInv, TypeOK
<1>6. Places'
  BY <1>1, <1>2, <1>3, <1>5 DEF SInv, Places, OnePublisher, snapshotVars
<1>7. failures' = 0 => failures = 0
  BY <1>3 DEF SInv, StatusTypeOK
<1>. QED
  BY <1>1, <1>2, <1>3, <1>4, <1>5, <1>6, <1>7, KeepSInv DEF snapshotVars

(* The worker sees nothing new or is told to stop, its wait ends, and the  *)
(* destructor stops it; nothing to do is the end of retirement.            *)
LEMMA WorkerQuietSInv ==
    ASSUME SInv, WorkerPoll \/ WorkerWait, UNCHANGED snapshotVars PROVE SInv'
<1>1. /\ status_worker \in {"poll", "wait"}
      /\ status_worker' \in {"exited", "poll", "wait"}
      /\ UNCHANGED <<vars, metadata, diagnostics, status_error, snapshotVars,
                     publication_started, published_sequence, file, retire,
                     failures>>
      /\ read_sequence' \in {read_sequence, transition}
  <2>1. BeginSnapshot("worker") => publisher' = "worker"
    BY DEF BeginSnapshot
  <2>2. status_worker = "poll" => publisher # "worker"
    BY DEF SInv, Places, OnePublisher
  <2>. QED
    BY <2>1, <2>2 DEF WorkerPoll, WorkerWait, snapshotVars, StopStatus
<1>2. StatusTypeOK'
  BY <1>1 DEF SInv, StatusTypeOK, snapshotVars, IInv, TypeOK
<1>3. Places' /\ publisher # "worker"
  BY Zenon, <1>1 DEF SInv, Places, OnePublisher, snapshotVars, vars
<1>4. Moves /\ UNCHANGED View
  BY <1>1 DEF Moves, View, vars
<1>. QED  BY <1>1, <1>2, <1>3, <1>4, KeepSInv DEF snapshotVars

LEMMA RetireQuietSInv ==
    ASSUME SInv, JoinStatus \/ FinalBegin, UNCHANGED snapshotVars PROVE SInv'
<1>1. /\ UNCHANGED <<vars, metadata, diagnostics, status_error, snapshotVars,
                     publication_started, status_worker, read_sequence,
                     published_sequence, file, failures>>
      /\ \/ /\ retire = "live" /\ retire' = "join" /\ destroying
            /\ worker \in {"none", "done"} /\ mutex = "free"
         \/ /\ retire = "join" /\ retire' = "gone" /\ ~publication_started
            /\ status_worker \in {"unstarted", "failed", "exited"}
  <2>1. BeginSnapshot("final") => publisher' = "final"
    BY DEF BeginSnapshot
  <2>2. retire = "join" => publisher # "final"
    BY DEF SInv, Places, OnePublisher
  <2>. QED  BY <2>1, <2>2 DEF JoinStatus, FinalBegin, snapshotVars
<1>2. StatusTypeOK'
  BY <1>1 DEF SInv, StatusTypeOK, snapshotVars
<1>3. Places'
  BY Zenon, <1>1 DEF SInv, Places, OnePublisher, snapshotVars, vars
<1>4. Moves /\ UNCHANGED View
  BY <1>1 DEF Moves, View, vars
<1>. QED  BY Zenon, <1>1, <1>2, <1>3, <1>4, KeepSInv DEF snapshotVars

(* A snapshot begins.                                                      *)
LEMMA BeginSInv ==
    ASSUME SInv, StatusTypeOK', Places',
           UNCHANGED <<vars, metadata, diagnostics, status_error, file,
                       published_sequence, failures>>,
           snap' = EmptySnapshot, snap_pc' = "phase", backup' = NoStatus,
           publisher' = "worker" => read_sequence' = transition,
           status_worker' = "unstarted" => status_worker = "unstarted",
           status_worker' \in {"poll", "wait"} => status_worker \in {"poll", "wait"},
           retire' # "gone"
    PROVE  SInv'
<1>1. IInv' /\ transition \in Nat /\ transition' = transition
  BY Zenon, RuntimeMoves DEF SInv, Moves, vars
<1>2. SnapIsFresh'
  BY SMTT(30), <1>1 DEF SInv, SnapIsFresh, SnapMatches
<1>3. QuiescentStatusIsCurrent' /\ RetiredStatusIsCurrent'
  BY Zenon DEF SInv, QuiescentStatusIsCurrent, RetiredStatusIsCurrent, Current, vars
<1>4. SnapIsConsistent' /\ FilesAreConsistent'
  BY Zenon DEF SInv, SnapIsConsistent, FilesAreConsistent, Consistent, EmptySnapshot,
         StopStates
<1>5. FileIsBehind'
  BY Zenon DEF SInv, FileIsBehind, vars
<1>. QED  BY Zenon, <1>1, <1>2, <1>3, <1>4, <1>5 DEF SInv

LEMMA InstallerBeginSInv == ASSUME SInv, PublishInstalledBegin PROVE SInv'
<1>1. /\ ~destroying /\ arm_state = "Unarmed" /\ publisher = "none"
      /\ publication_started' = TRUE
      /\ backup' = NoStatus /\ publisher' = "installer"
      /\ snap_pc' = "phase" /\ snap' = EmptySnapshot
      /\ UNCHANGED <<vars, metadata, diagnostics, status_error, status_worker,
                     read_sequence, published_sequence, file, retire, failures>>
  BY DEF PublishInstalledBegin, BeginSnapshot
<1>2. retire = "live" /\ status_worker = "unstarted"
  BY Zenon, <1>1 DEF SInv, Places
<1>3. StatusTypeOK'
  BY <1>1, CurrentIsStatus DEF SInv, StatusTypeOK
<1>4. Places'
  BY Zenon, <1>1, <1>2 DEF SInv, Places, OnePublisher, vars
<1>. QED  BY <1>1, <1>2, <1>3, <1>4, BeginSInv

LEMMA WorkerBeginSInv ==
    ASSUME SInv, WorkerPoll, ~UNCHANGED snapshotVars PROVE SInv'
<1>1. /\ status_worker = "poll" /\ status_worker' = "publish"
      /\ read_sequence' = transition
      /\ backup' = NoStatus /\ publisher' = "worker"
      /\ snap_pc' = "phase" /\ snap' = EmptySnapshot
      /\ UNCHANGED <<vars, metadata, diagnostics, status_error,
                     publication_started, published_sequence, file, retire,
                     failures>>
  BY Zenon DEF WorkerPoll, BeginSnapshot
<1>2. StatusTypeOK'
  BY Zenon, <1>1, CurrentIsStatus DEF SInv, StatusTypeOK, IInv, TypeOK
<1>3. retire \in {"live", "join"} /\ publisher # "installer"
  BY Zenon, <1>1 DEF SInv, Places, OnePublisher, StatusTypeOK
<1>4. Places'
  BY Zenon, <1>1, <1>3 DEF SInv, Places, OnePublisher, vars
<1>. QED  BY <1>1, <1>2, <1>3, <1>4, BeginSInv

LEMMA FinalBeginSInv ==
    ASSUME SInv, FinalBegin, ~UNCHANGED snapshotVars PROVE SInv'
<1>1. /\ retire = "join" /\ retire' = "final"
      /\ status_worker \in {"unstarted", "failed", "exited"}
      /\ backup' = NoStatus /\ publisher' = "final"
      /\ snap_pc' = "phase" /\ snap' = EmptySnapshot
      /\ UNCHANGED <<vars, metadata, diagnostics, status_error,
                     publication_started, status_worker, read_sequence,
                     published_sequence, file, failures>>
  BY DEF FinalBegin, BeginSnapshot
<1>2. StatusTypeOK'
  BY Zenon, <1>1, CurrentIsStatus DEF SInv, StatusTypeOK
<1>3. Places'
  BY Zenon, <1>1 DEF SInv, Places, OnePublisher, vars
<1>. QED  BY <1>1, <1>2, <1>3, BeginSInv

(* A read of the snapshot.                                                 *)
LEMMA ReadSInv == ASSUME SInv, Snapshot PROVE SInv'
<1>1. UNCHANGED <<vars, metadata, diagnostics, status_error,
                  publication_started, status_worker, publisher, read_sequence,
                  published_sequence, file, backup, retire, failures>>
  BY DEF Snapshot, ReadPhase, ReadToken, ReadCalls, ReadMetadata, Read
<1>2. IInv'
  BY <1>1, RuntimeMoves DEF SInv, Moves
<1>3. snap \in Statuses
  BY Zenon DEF SInv, StatusTypeOK
<1>4. /\ snap' \in Statuses
      /\ \/ /\ snap_pc = "phase" /\ snap_pc' = "token"
            /\ snap'.state = StateName[phase] /\ snap'.ack = (phase = "Sealed")
            /\ snap'.reason = snap.reason /\ snap'.open = snap.open
         \/ /\ snap_pc = "token" /\ snap_pc' = "calls"
            /\ snap'.reason = Reason(token)
            /\ snap'.state = snap.state /\ snap'.ack = snap.ack
            /\ snap'.open = snap.open
         \/ /\ snap_pc = "calls" /\ snap_pc' = "metadata"
            /\ snap'.open = active /\ snap'.sealed = sealed_targets
            /\ snap'.state = snap.state /\ snap'.ack = snap.ack
            /\ snap'.reason = snap.reason
         \/ /\ snap_pc = "metadata" /\ snap_pc' = "publish"
            /\ snap'.metadata = metadata /\ snap'.diagnostics = diagnostics
            /\ snap'.error = status_error
            /\ snap'.state = snap.state /\ snap'.ack = snap.ack
            /\ snap'.reason = snap.reason /\ snap'.open = snap.open
            /\ snap'.sealed = snap.sealed
  <2>1. CASE ReadPhase
    BY <1>3, <2>1, CurrentIsStatus DEF ReadPhase, Read, WithPhase, Statuses
  <2>2. CASE ReadToken
    BY <1>3, <2>2, CurrentIsStatus DEF ReadToken, Read, WithReason, Statuses
  <2>3. CASE ReadCalls
    BY <1>3, <2>3, CurrentIsStatus DEF ReadCalls, Read, WithCalls, Statuses
  <2>4. CASE ReadMetadata
    BY Zenon, <1>3, <2>4 DEF ReadMetadata, Read, Statuses, SInv, StatusTypeOK
  <2>. QED  BY Zenon, <2>1, <2>2, <2>3, <2>4 DEF Snapshot
<1>5. StatusTypeOK'
  BY SMTT(30), <1>1, <1>4 DEF SInv, StatusTypeOK
<1>6. Places'
  BY Zenon, <1>1, <1>4 DEF SInv, Places, OnePublisher, vars
<1>7. SnapMatches => SnapMatches'
  BY Zenon, <1>1, <1>4 DEF SnapMatches, vars
<1>8. SnapIsFresh' /\ QuiescentStatusIsCurrent' /\ RetiredStatusIsCurrent'
  BY Zenon, <1>1, <1>7 DEF SInv, SnapIsFresh, QuiescentStatusIsCurrent,
                    RetiredStatusIsCurrent, Current, vars
<1>9. SnapIsConsistent'
  BY Zenon, <1>1, <1>4, PhaseFacts DEF SInv, SnapIsConsistent, StopStates, vars, Reason
<1>10. FilesAreConsistent'
  BY Zenon, <1>1 DEF SInv, FilesAreConsistent, Consistent
<1>11. FileIsBehind'
  BY Zenon, <1>1, <1>4 DEF SInv, FileIsBehind, Before, vars
<1>. QED  BY <1>2, <1>5, <1>6, <1>8, <1>9, <1>10, <1>11 DEF SInv
-----------------------------------------------------------------------------
(* Whoever publishes keeps the worker from polling and the destructor from *)
(* ending.                                                                 *)
LEMMA PublisherPlace ==
    ASSUME SInv, publisher # "none"
    PROVE  status_worker \notin {"poll", "wait"} /\ retire # "gone"
BY DEF SInv, Places, OnePublisher, StatusTypeOK

(* The new file is visible, and the publication fails.                     *)
LEMMA PublishShowsSInv == ASSUME SInv, PublishShows PROVE SInv'
<1>1. /\ snap_pc = "publish" /\ snap_pc' = "withdraw"
      /\ failures' = failures + 1 /\ file' = snap /\ backup' = file
      /\ UNCHANGED <<vars, metadata, diagnostics, status_error,
                     publication_started, status_worker, publisher, snap,
                     read_sequence, published_sequence, retire>>
  BY DEF PublishShows
<1>2. IInv'
  BY Zenon, <1>1, RuntimeMoves DEF SInv, Moves
<1>3. StatusTypeOK' /\ failures' # 0
  BY <1>1 DEF SInv, StatusTypeOK
<1>4. Places' /\ publisher # "none"
  BY Zenon, <1>1 DEF SInv, Places, OnePublisher, vars
<1>5. SnapMatches => SnapMatches'
  BY Zenon, <1>1 DEF SnapMatches, vars
<1>6. SnapIsFresh'
  BY Zenon, <1>1, <1>5 DEF SInv, SnapIsFresh, vars
<1>7. QuiescentStatusIsCurrent' /\ RetiredStatusIsCurrent'
  BY Zenon, <1>1, <1>4, PublisherPlace DEF QuiescentStatusIsCurrent, RetiredStatusIsCurrent
<1>8. SnapIsConsistent'
  BY Zenon, <1>1 DEF SInv, SnapIsConsistent, vars
<1>9. FilesAreConsistent'
  BY Zenon, <1>1 DEF SInv, SnapIsConsistent, FilesAreConsistent, Consistent
<1>10. FileIsBehind'
  BY <1>3 DEF FileIsBehind
<1>. QED
  BY Zenon, <1>2, <1>3, <1>4, <1>6, <1>7, <1>8, <1>9, <1>10 DEF SInv

(* The publication is over: the snapshot is the file, or something failed  *)
(* and the file is the old or the withdrawn one.                           *)
Published == /\ snap_pc = "publish" /\ file' = snap
             /\ UNCHANGED <<vars, status_error, failures>>

NotPublished == /\ file' \in {file, backup} /\ failures' \in Nat \ {0}
                /\ \/ status_error' = TRUE /\ NoteTransition
                   \/ UNCHANGED <<vars, status_error>>

LEMMA PublishResult ==
    ASSUME SInv
    PROVE  /\ PublishOk => Published
           /\ PublishFails \/ (Withdraw /\ UNCHANGED <<vars, status_error>>)
                  => NotPublished
<1>1. PublishOk => Published
  BY DEF PublishOk, Published
<1>2. Withdraw => file' \in {file, backup} /\ failures' \in Nat \ {0}
  <2>1. CASE snap_pc = "publish" /\ failures' = failures + 1 /\ UNCHANGED file
    BY <2>1 DEF SInv, StatusTypeOK
  <2>2. CASE snap_pc = "withdraw" /\ file' \in {file, backup} /\ UNCHANGED failures
    BY Zenon, <2>2 DEF SInv, StatusTypeOK, FileIsBehind
  <2>. QED  BY <2>1, <2>2 DEF Withdraw
<1>. QED  BY <1>1, <1>2 DEF PublishFails, NotPublished

LEMMA EndSInv ==
    ASSUME SInv, Published \/ NotPublished, StatusTypeOK', Places',
           UNCHANGED <<metadata, diagnostics>>,
           snap' = EmptySnapshot, snap_pc' \in {"none", "phase"},
           backup' = NoStatus, publisher' # "worker",
           published_sequence' <= transition',
           status_worker' = "unstarted" => published_sequence' = 0,
           QuiescentStatusIsCurrent', RetiredStatusIsCurrent'
    PROVE  SInv'
<1>1. Moves
  BY DEF Published, NotPublished, Moves
<1>2. IInv' /\ transition \in Nat /\ transition' >= transition
  BY SMTT(30), <1>1, RuntimeMoves DEF SInv
<1>3. SnapIsFresh'
  <2>1. transition' >= 1
    BY SMTT(30), <1>2, RuntimeMoves, <1>1 DEF SInv, SnapIsFresh
  <2>. QED  BY Zenon, <2>1 DEF SnapIsFresh, SnapMatches
<1>4. SnapIsConsistent'
  BY Zenon DEF SnapIsConsistent, EmptySnapshot, StopStates
<1>5. FilesAreConsistent'
  <2>1. CASE Published
    BY Zenon, <2>1 DEF SInv, Published, SnapIsConsistent, FilesAreConsistent, Consistent
  <2>2. CASE NotPublished
    BY Zenon, <2>2 DEF SInv, NotPublished, FilesAreConsistent, Consistent
  <2>. QED  BY Zenon, <2>1, <2>2
<1>6. FileIsBehind'
  <2>1. CASE Published
    BY Zenon, <2>1 DEF SInv, Published, FileIsBehind, vars
  <2>2. CASE NotPublished
    BY Zenon, <2>2 DEF NotPublished, FileIsBehind
  <2>. QED  BY <2>1, <2>2
<1>. QED  BY Zenon, <1>2, <1>3, <1>4, <1>5, <1>6 DEF SInv

(* What the end of a publication keeps.                                    *)
LEMMA EndFacts ==
    ASSUME SInv, Published \/ NotPublished
    PROVE  /\ file' \in Statuses \union {NoStatus} /\ failures' \in Nat
           /\ status_error' \in BOOLEAN
           /\ UNCHANGED <<arm_state, destroying, mutex, worker>>
           /\ transition \in Nat /\ transition' \in {transition, transition + 1}
<1>1. file' \in Statuses \union {NoStatus} /\ failures' \in Nat
  BY DEF SInv, StatusTypeOK, Published, NotPublished
<1>2. status_error' \in BOOLEAN
  BY Zenon DEF SInv, StatusTypeOK, Published, NotPublished
<1>3. /\ UNCHANGED <<arm_state, destroying, mutex, worker>>
      /\ transition \in Nat /\ transition' \in {transition, transition + 1}
  BY Zenon DEF SInv, IInv, TypeOK, Published, NotPublished, NoteTransition, vars
<1>. QED  BY Zenon, <1>1, <1>2, <1>3

LEMMA InstallerEndSInv == ASSUME SInv, PublishInstalledEnd PROVE SInv'
<1>1. /\ publisher = "installer" /\ (Published \/ NotPublished)
      /\ publisher' = "none" /\ backup' = NoStatus /\ snap_pc' = "none"
      /\ snap' = EmptySnapshot
      /\ UNCHANGED <<metadata, diagnostics, publication_started, status_worker,
                     read_sequence, published_sequence, retire>>
  BY PublishResult DEF PublishInstalledEnd, Publish, EndSnapshot
<1>2. status_worker = "unstarted" /\ retire = "live"
  BY Zenon, <1>1 DEF SInv, Places, OnePublisher
<1>3. StatusTypeOK'
  BY Zenon, <1>1, EndFacts, CurrentIsStatus DEF SInv, StatusTypeOK
<1>4. Places'
  BY Zenon, <1>1, <1>2, EndFacts DEF SInv, Places, OnePublisher
<1>5. QuiescentStatusIsCurrent' /\ RetiredStatusIsCurrent'
  BY Zenon, <1>1, <1>2 DEF QuiescentStatusIsCurrent, RetiredStatusIsCurrent
<1>6. published_sequence' <= transition' /\ published_sequence' = 0
  BY <1>1, <1>2, EndFacts DEF SInv, SnapIsFresh, StatusTypeOK
<1>. QED  BY Zenon, <1>1, <1>3, <1>4, <1>5, <1>6, EndSInv

LEMMA WorkerPublishSInv == ASSUME SInv, WorkerPublish PROVE SInv'
<1>1. /\ publisher = "worker" /\ publisher' = "none" /\ backup' = NoStatus
      /\ snap_pc' = "none" /\ snap' = EmptySnapshot
      /\ published_sequence' = read_sequence /\ status_worker' = "wait"
      /\ UNCHANGED <<metadata, diagnostics, publication_started, read_sequence,
                     retire>>
  BY DEF WorkerPublish, EndSnapshot
<1>2. Published \/ (PublishFails /\ NotPublished)
  BY Zenon, PublishResult DEF WorkerPublish, Publish
<1>3. /\ status_worker = "publish" /\ retire \in {"live", "join"}
      /\ read_sequence <= transition
      /\ read_sequence = transition => SnapMatches
  BY Zenon, <1>1 DEF SInv, Places, OnePublisher, StatusTypeOK, SnapIsFresh
<1>4. StatusTypeOK'
  BY Zenon, <1>1, <1>2, EndFacts, CurrentIsStatus DEF SInv, StatusTypeOK
<1>5. Places'
  BY <1>1, <1>2, <1>3, EndFacts DEF SInv, Places, OnePublisher
<1>6. QuiescentStatusIsCurrent'
  <2>1. CASE Published
    <3>1. Current' = Current /\ transition' = transition
      BY Zenon, <1>1, <2>1 DEF Published, Current, vars
    <3>. QED
      BY Zenon, <1>1, <1>3, <2>1, <3>1, WholeSnapshot
      DEF Published, QuiescentStatusIsCurrent
  <2>2. CASE PublishFails
    BY <1>1, <1>3, <2>2
    DEF PublishFails, NoteTransition, QuiescentStatusIsCurrent, SInv,
        StatusTypeOK, IInv, TypeOK
  <2>. QED  BY <1>2, <2>1, <2>2
<1>7. RetiredStatusIsCurrent'
  BY Zenon, <1>1, <1>3 DEF RetiredStatusIsCurrent
<1>8. published_sequence' <= transition'
  BY SMTT(30), <1>1, <1>2, <1>3, EndFacts DEF SInv, StatusTypeOK
<1>. QED  BY Zenon, <1>1, <1>2, <1>4, <1>5, <1>6, <1>7, <1>8, EndSInv

(* The destructor's publication and its retry.                             *)
LEMMA FinalSInv == ASSUME SInv, FinalPublish \/ FinalRetry PROVE SInv'
<1>1. /\ publisher \in {"final", "retry"} /\ backup' = NoStatus
      /\ snap' = EmptySnapshot
      /\ UNCHANGED <<metadata, diagnostics, publication_started, status_worker,
                     read_sequence, published_sequence>>
  BY DEF FinalPublish, FinalRetry, BeginSnapshot, EndSnapshot
<1>2. \/ /\ Published /\ retire' = "gone"
         /\ publisher' = "none" /\ snap_pc' = "none"
      \/ /\ NotPublished /\ retire' = "retry"
         /\ publisher' = "retry" /\ snap_pc' = "phase"
      \/ /\ NotPublished /\ retire' = "lost"
         /\ publisher' = "none" /\ snap_pc' = "none"
  BY Zenon, PublishResult DEF FinalPublish, FinalRetry, BeginSnapshot, EndSnapshot
<1>3. /\ retire \notin {"live", "join"} /\ SnapMatches
      /\ status_worker \in {"unstarted", "failed", "exited"}
  BY Zenon, <1>1 DEF SInv, Places, OnePublisher, SnapIsFresh
<1>4. StatusTypeOK'
  BY Zenon, <1>1, <1>2, EndFacts, CurrentIsStatus DEF SInv, StatusTypeOK
<1>5. Places'
  BY <1>1, <1>2, <1>3, EndFacts DEF SInv, Places, OnePublisher
<1>6. QuiescentStatusIsCurrent'
  BY <1>1, <1>3 DEF QuiescentStatusIsCurrent
<1>7. RetiredStatusIsCurrent'
  <2>1. CASE Published
    <3>1. Current' = Current
      BY Zenon, <1>1, <2>1 DEF Published, Current, vars
    <3>. QED
      BY Zenon, <1>3, <2>1, <3>1, WholeSnapshot DEF Published, RetiredStatusIsCurrent
  <2>. QED  BY <1>2, <2>1 DEF RetiredStatusIsCurrent
<1>8. /\ published_sequence' <= transition'
      /\ status_worker' = "unstarted" => published_sequence' = 0
  BY <1>1, <1>2, EndFacts DEF SInv, SnapIsFresh, StatusTypeOK
<1>. QED  BY Zenon, <1>1, <1>2, <1>4, <1>5, <1>6, <1>7, <1>8, EndSInv
-----------------------------------------------------------------------------
(* Every step of the publishing threads preserves the invariant.           *)
LEMMA StatusNextSInv == SInv /\ [StatusNext]_allVars => SInv'
<1>. SUFFICES ASSUME SInv, [StatusNext]_allVars PROVE SInv'
  OBVIOUS
<1>1. CASE RuntimeStep
  BY <1>1, RuntimeStepSInv
<1>2. CASE PublishInstalledBegin \/ PublishInstalledEnd \/ StartStatus
  BY <1>2, InstallerBeginSInv, InstallerEndSInv, StartStatusSInv
<1>3. CASE Snapshot \/ PublishShows
  BY <1>3, ReadSInv, PublishShowsSInv
<1>4. CASE StatusWorker
  <2>1. WorkerWait => UNCHANGED snapshotVars
    BY DEF WorkerWait
  <2>. QED
    BY <1>4, <2>1, WorkerQuietSInv, WorkerBeginSInv, WorkerPublishSInv
    DEF StatusWorker
<1>5. CASE Retirement
  <2>1. JoinStatus => UNCHANGED snapshotVars
    BY DEF JoinStatus
  <2>. QED
    BY <1>5, <2>1, RetireQuietSInv, FinalBeginSInv, FinalSInv DEF Retirement
<1>6. CASE \E kind \in Kinds, text \in Texts : Record(kind, text)
  BY Zenon, <1>6, RecordSInv
<1>7. CASE UNCHANGED allVars
  <2>1. UNCHANGED vars /\ UNCHANGED statusVars
    BY Zenon, <1>7 DEF allVars
  <2>2. StatusTypeOK' /\ Places'
    BY <2>1 DEF SInv, StatusTypeOK, Places, OnePublisher, vars, statusVars
  <2>3. Moves /\ UNCHANGED View
    BY Zenon, <2>1 DEF Moves, View, vars, statusVars
  <2>. QED  BY Zenon, <2>1, <2>2, <2>3, KeepSInv DEF statusVars
<1>. QED
  BY <1>1, <1>2, <1>3, <1>4, <1>5, <1>6, <1>7 DEF StatusNext

(* The invariant holds in every reachable state.                           *)
THEOREM StatusInvariant == StatusSpec => []SInv
BY StatusInitSInv, StatusNextSInv, PTL DEF StatusSpec

(* When the worker has nothing left to publish, and when the generation is *)
(* retired, the file says what is the case; no two threads publish at once.*)
THEOREM StatusStaysCurrent == StatusSpec => []StatusIsCurrent
<1>1. SInv => StatusIsCurrent
  BY Zenon DEF SInv, Places, StatusIsCurrent
<1>. QED  BY <1>1, StatusInvariant, PTL

(* What the file says of a stop is consistent although the snapshot is not *)
(* taken in one instant.                                                   *)
THEOREM StopStaysConsistent == StatusSpec => []StopIsConsistent
<1>1. SInv => StopIsConsistent
  BY Zenon DEF SInv, FilesAreConsistent, Consistent, StopStates, StopIsConsistent,
         SealedStatusHasNoOpenCapture, StoppedStatusHasReason
<1>. QED  BY <1>1, StatusInvariant, PTL

(* Unless a publication fails, the file never goes back.                   *)
THEOREM StatusNeverReturns == StatusSpec => PublishedStatusMonotone
<1>1. ASSUME SInv, [StatusNext]_allVars, failures' = 0
      PROVE  /\ StatusRank(file') >= StatusRank(file)
             /\ StatusRank(file) = 4 => file'.state = file.state
  <2>1. UNCHANGED file \/ Published
    <3>1. PublishFails \/ (Withdraw /\ UNCHANGED <<vars, status_error>>) => FALSE
      BY <1>1, PublishResult DEF NotPublished
    <3>2. PublishOk => Published
      BY <1>1, PublishResult
    <3>3. CASE PublishInstalledEnd \/ WorkerPublish \/ FinalPublish \/ FinalRetry
      BY Zenon, <3>1, <3>2, <3>3
      DEF PublishInstalledEnd, WorkerPublish, FinalPublish, FinalRetry, Publish
    <3>4. ~PublishShows
      BY <1>1 DEF PublishShows, SInv, StatusTypeOK
    <3>. QED
      BY Zenon, <1>1, <3>3, <3>4
      DEF StatusNext, RuntimeStep, PublishInstalledBegin, StartStatus, Snapshot,
          ReadPhase, ReadToken, ReadCalls, ReadMetadata, Read, StatusWorker,
          WorkerPoll, WorkerWait, Retirement, JoinStatus, FinalBegin, Record,
          statusVars, allVars
  <2>2. CASE UNCHANGED file
    BY <2>2 DEF StatusRank
  <2>3. CASE Published /\ file # NoStatus
    <3>1. Before(file.state, file'.state) /\ file' \in Statuses
      BY Zenon, <1>1, <2>3 DEF Published, SInv, FileIsBehind, StatusTypeOK
    <3>. QED
      BY SMTT(30), <2>3, <3>1, StatusAssumption DEF StatusRank, Before, StateRank
  <2>4. CASE Published /\ file = NoStatus
    BY <2>4 DEF StatusRank
  <2>. QED  BY Zenon, <2>1, <2>2, <2>3, <2>4
<1>. QED  BY <1>1, StatusInvariant, PTL DEF StatusSpec, PublishedStatusMonotone
=============================================================================

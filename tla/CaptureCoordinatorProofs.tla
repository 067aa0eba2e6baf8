---------------------- MODULE CaptureCoordinatorProofs ----------------------
(***************************************************************************)
(* Proofs about CaptureCoordinator for every set of threads and scenes,    *)
(* every number of slots, and with or without a caller that reports        *)
(* missing acknowledgements.  Each step is a step of the runtime or leaves *)
(* it alone, so the runtime's invariant holds here too; CInv adds what the *)
(* slots know of their admissions.                                         *)
(***************************************************************************)
EXTENDS CaptureCoordinator, TraceGenerationRuntimeProofs

Slots == [calls : SUBSET Call, stop_finished : BOOLEAN]
Sessions == [at : At, how : {"scene", "thread", "native"}, followed : BOOLEAN,
             setup : {"no", "ok", "failed"}, committed : BOOLEAN,
             sealed : BOOLEAN, stop_handled : BOOLEAN, stop_sealed : BOOLEAN]

CoordinatorTypeOK ==
    /\ life \in {"created", "started", "failed", "destroying"}
    /\ stop_requested \in BOOLEAN /\ reported \in BOOLEAN
    /\ reporting \in BOOLEAN /\ incomplete \in BOOLEAN
    /\ artifact_recorded \in BOOLEAN
    /\ slot \in [Tids -> Slots]
    /\ session \in [Tids -> Sessions]

(* The slot of a thread holds one admission of that thread, which is open  *)
(* until the slot is finished.                                             *)
SlotsOwn ==
    \A t \in Tids :
        /\ session[t].at = "none" <=> slot[t].calls = {}
        /\ session[t].at = "none" => ~slot[t].stop_finished
        /\ \A c, d \in slot[t].calls : c = d
        /\ \A c \in slot[t].calls :
              /\ c.tid = t /\ outcome[c] # "none"
              /\ outcome[c] = "open" <=> ~slot[t].stop_finished

(* Every open admission is in the slot of its thread.                      *)
OpenIsOwned == \A c \in Call : outcome[c] = "open" => c \in slot[c.tid].calls

(* Where a thread is that can no longer collect.                           *)
Past(t) == \/ session[t].at = "gone"
           \/ token /\ session[t].at \in {"control", "returned", "idle"}

(* An admission that ended as sealed was sealed by its own thread, which   *)
(* does not collect any more.                                              *)
SealedByOwner ==
    \A t \in Tids : \A c \in slot[t].calls :
        outcome[c] = "sealed" => session[t].sealed /\ Past(t)

(* Whoever has seen the stop has seen the token.                           *)
StopSeen ==
    /\ stop_requested => token
    /\ \A t \in Tids :
          session[t].at \in {"observed", "acknowledging", "control"} => token

(* Without a report, a finished slot belongs to a thread that collects no  *)
(* more, and its records are listed.                                       *)
FinishedIsListed ==
    ~reported /\ ~reporting =>
        \A t \in Tids : slot[t].stop_finished =>
            Past(t) /\ (session[t].committed => artifact_recorded)

(* A report that has begun finds an owner, and leaves its admission ended  *)
(* without a seal.                                                         *)
ReportFinds ==
    reporting =>
        /\ stop_requested /\ life = "started"
        /\ \A t \in Tids : session[t].at # "creating"
        /\ \/ active # {}
           \/ \E c \in open_at_stop : outcome[c] = "unsealed"

(* A stop that was requested while calls were open is completed before the *)
(* lock is free with no call left.                                         *)
Drained ==
    IsStopping(phase) /\ active = {} /\ mutex = "free" => open_at_stop = {}

CInv == /\ IInv /\ Drained /\ CoordinatorTypeOK /\ SlotsOwn /\ OpenIsOwned
        /\ SealedByOwner /\ StopSeen /\ FinishedIsListed /\ ReportFinds
        /\ ReportedIsIncomplete
-----------------------------------------------------------------------------
(* No slot is used.                                                        *)
LEMMA CoordinatorInitCInv == CoordinatorInit => CInv
<1>. SUFFICES ASSUME CoordinatorInit PROVE CInv
  OBVIOUS
<1>. USE DEF CoordinatorInit, CoordinatorOnlyInit
<1>1. IInv /\ phase = "Waiting" /\ \A c \in Call : outcome[c] = "none"
  BY InitIInv DEF Init
<1>2. CoordinatorTypeOK
  <2>1. NoSlot \in Slots /\ NoSession \in Sessions
    BY DEF NoSlot, NoSession, Slots, Sessions, At
  <2>. QED  BY Zenon, <2>1 DEF CoordinatorTypeOK
<1>3. SlotsOwn /\ OpenIsOwned /\ SealedByOwner
  BY <1>1 DEF SlotsOwn, OpenIsOwned, SealedByOwner, NoSlot, NoSession
<1>4. StopSeen /\ FinishedIsListed /\ ReportFinds /\ ReportedIsIncomplete
  BY DEF StopSeen, FinishedIsListed, ReportFinds, ReportedIsIncomplete,
         NoSlot, NoSession
<1>. QED  BY <1>1, <1>2, <1>3, <1>4 DEF CInv, Drained, IsStopping

(* Every step of the coordinator is a step of the runtime or leaves it     *)
(* alone.                                                                  *)
LEMMA CoordinatorStepIsRuntimeStep ==
    ASSUME CoordinatorTypeOK, [CoordinatorNext]_allvars PROVE [Next]_vars
<1>1. CASE Start \/ DestroyCoordinator
  BY <1>1 DEF Start, DestroyCoordinator
<1>2. CASE RuntimeAlone
  BY <1>2 DEF RuntimeAlone, Next
<1>3. \A t \in Tids : slot[t].calls \subseteq Call
  BY DEF CoordinatorTypeOK, Slots
<1>4. CASE Reports
  BY Zenon, <1>3, <1>4
  DEF Reports, CoordinatorStop, ReportBegin, ReportEnd, ReportSlot, Next, CallStep
<1>5. ASSUME NEW t \in Tids, Enters(t) PROVE [Next]_vars
  BY <1>5 DEF Enters, EnterStopped, EnterAgain, EnterGap, EnterNew, Next
<1>6. ASSUME NEW t \in Tids, Works(t) PROVE [Next]_vars
  <2>1. CASE CreateSession(t) \/ Setup(t) \/ NativeBegin(t) \/ PublishCommitted(t)
             \/ Observe(t) \/ Return(t) \/ Seal(t)
    BY Zenon, <2>1 DEF CreateSession, Setup, NativeBegin, PublishCommitted, Observe,
                Return, Seal
  <2>2. CASE CreateFails(t) \/ Acknowledge(t) \/ Leave(t)
    BY Zenon, <1>3, <2>2 DEF CreateFails, Acknowledge, Leave, FinishTarget, Next, CallStep
  <2>. QED  BY <1>6, <2>1, <2>2 DEF Works
<1>7. ASSUME NEW t \in Tids, Ends(t) \/ DestroySlot(t) PROVE [Next]_vars
  BY Zenon, <1>3, <1>7
  DEF Ends, FinishThread, CompleteThread, ThreadUnwinds, FinishTarget,
      DestroySlot, Next, CallStep
<1>8. CASE UNCHANGED allvars
  BY <1>8 DEF allvars
<1>. QED  BY <1>1, <1>2, <1>4, <1>5, <1>6, <1>7, <1>8 DEF CoordinatorNext

(* A completion that takes the last call of a stop keeps the lock until the*)
(* stop is completed.                                                      *)
LEMMA DrainedStays ==
    ASSUME IInv, Drained, [Next]_vars PROVE Drained'
<1>1. CASE \E c \in Call, sealed, target_open \in BOOLEAN :
             CompleteCallLocked(c, sealed, target_open)
  <2>1. PICK c \in Call, sealed, target_open \in BOOLEAN :
            CompleteCallLocked(c, sealed, target_open)
    BY <1>1
  <2>2. CASE c \in active
    <3>1. mutex' = "publish"
      BY <2>1, <2>2, MatchingIsMembership DEF CompleteCallLocked, IInv, TypeOK
    <3>. QED  BY <3>1 DEF Drained
  <2>3. CASE c \notin active
    <3>1. active' = active /\ mutex = "free"
      BY <2>1, <2>3, CompletionEffect
    <3>2. OpenCalls = active
      BY <3>1 DEF OpenCalls, IInv, TypeOK
    <3>3. \/ open_at_stop' = active
          \/ UNCHANGED <<phase, open_at_stop>>
      BY Zenon, <2>1, <3>2
      DEF CompleteCallLocked, PublishDeadlineStopLocked, RequestToken
    <3>. QED  BY <3>1, <3>3 DEF Drained
  <2>. QED  BY <2>2, <2>3
<1>2. CASE ArmBegin \/ ArmProceeds \/ DeadlineWorker \/ LockHolder
  BY Zenon, <1>2
  DEF ArmBegin, ArmProceeds, ArmFail, ArmStartDeadline, ArmRun, ArmDone,
      DeadlineWorker, DeadlineExpires, RequestDeadlineStop, DeadlineCancelled,
      LockHolder, Republish, Decide, Settle, Drained, IsStopping
<1>3. CASE RequestStop \/ Destroy \/ (\E c \in Call : FinishTargetCall(c))
  BY <1>3 DEF RequestStop, Destroy, FinishTargetCall, Drained
<1>4. CASE \E s \in Scenes, t \in Tids : TryBeginCall(s, t)
  BY <1>4 DEF TryBeginCall, RefuseCall, AdmitCall, PublishDeadlineStopLocked,
              StopDue, Drained, IsStopping
<1>5. CASE UNCHANGED vars
  BY <1>5 DEF vars, Drained
<1>. QED
  BY Zenon, <1>1, <1>2, <1>3, <1>4, <1>5
  DEF Next, CallStep, FinishCall, AcknowledgeSealed
-----------------------------------------------------------------------------
(* What a step of the runtime keeps by itself.                             *)
LEMMA RuntimeKeeps ==
    ASSUME CInv, [Next]_vars
    PROVE  /\ IInv' /\ Drained'
           /\ token => token' /\ UNCHANGED open_at_stop
           /\ \A t \in Tids : session'[t] = session[t] /\ Past(t) => Past(t)'
           /\ (reported' => reported) => ReportedIsIncomplete'
<1>1. IInv' /\ Drained'
  BY NextIInv, DrainedStays DEF CInv
<1>2. token => token' /\ UNCHANGED open_at_stop
  BY StopStays DEF CInv
<1>3. (reported' => reported) => ReportedIsIncomplete'
  <2>1. phase = "StopIncomplete" => phase' = "StopIncomplete"
    BY PhaseSteps DEF CInv, IsStopping
  <2>. QED  BY <2>1 DEF CInv, ReportedIsIncomplete
<1>. QED  BY <1>1, <1>2, <1>3 DEF Past

(* A step that opens and ends no call: threads move, but none that was past*)
(* collecting collects again.                                              *)
Moved(t) ==
    \/ session'[t] = session[t]
    \/ /\ session[t].at # "none" /\ session'[t].at \notin {"none", "creating"}
       /\ session'[t].at \in {"observed", "acknowledging", "control"} => token
       /\ Past(t) => /\ Past(t)'
                     /\ session'[t].committed = session[t].committed
                     /\ session'[t].sealed = session[t].sealed

LEMMA QuietCInv ==
    ASSUME CInv, [Next]_vars, UNCHANGED <<outcome, reported, reporting, slot>>,
           CoordinatorTypeOK', reporting => UNCHANGED life,
           stop_requested => stop_requested', stop_requested' => token',
           artifact_recorded => artifact_recorded',
           \A t \in Tids : Moved(t)
    PROVE  CInv'
<1>1. /\ IInv' /\ Drained' /\ ReportedIsIncomplete'
      /\ token => token' /\ UNCHANGED open_at_stop
  BY RuntimeKeeps
<1>2. active' = active
  BY <1>1 DEF CInv, IInv, ActiveIsOpen
<1>3. \A t \in Tids : session'[t].at = "none" <=> session[t].at = "none"
  BY DEF Moved
<1>4. \A t \in Tids : Past(t) => /\ Past(t)'
                                /\ session'[t].committed = session[t].committed
                                /\ session'[t].sealed = session[t].sealed
  BY RuntimeKeeps DEF Moved
<1>5. SlotsOwn' /\ OpenIsOwned'
  BY <1>3 DEF CInv, SlotsOwn, OpenIsOwned
<1>6. SealedByOwner'
  BY <1>4 DEF CInv, SealedByOwner
<1>7. StopSeen'
  BY <1>1 DEF CInv, StopSeen, Moved
<1>8. FinishedIsListed'
  BY <1>4 DEF CInv, FinishedIsListed
<1>9. ReportFinds'
  <2>. SUFFICES ASSUME reporting PROVE ReportFinds'
    BY DEF ReportFinds
  <2>1. token /\ UNCHANGED open_at_stop
    BY <1>1 DEF CInv, ReportFinds, StopSeen
  <2>2. \A t \in Tids : session'[t].at # "creating"
    BY DEF CInv, ReportFinds, Moved
  <2>. QED  BY <1>2, <2>1, <2>2 DEF CInv, ReportFinds
<1>. QED  BY <1>1, <1>5, <1>6, <1>7, <1>8, <1>9 DEF CInv

(* The slot of thread t is given back, its admission being ended.          *)
LEMMA DropCInv ==
    ASSUME NEW t \in Tids, CInv, [Next]_vars, ~reporting,
           UNCHANGED <<life, stop_requested, reported, reporting>>,
           CoordinatorTypeOK', artifact_recorded => artifact_recorded',
           slot' = [slot EXCEPT ![t] = NoSlot],
           session' = [session EXCEPT ![t] = NoSession],
           \A c \in Call : c \notin slot[t].calls => outcome'[c] = outcome[c],
           \A c \in slot[t].calls : outcome'[c] # "open"
    PROVE  CInv'
<1>1. /\ IInv' /\ Drained' /\ ReportedIsIncomplete'
      /\ token => token' /\ UNCHANGED open_at_stop
      /\ \A u \in Tids : session'[u] = session[u] /\ Past(u) => Past(u)'
  BY RuntimeKeeps
<1>2. /\ slot'[t] = NoSlot /\ session'[t] = NoSession
      /\ \A u \in Tids : u # t => slot'[u] = slot[u] /\ session'[u] = session[u]
  BY Zenon DEF CInv, CoordinatorTypeOK
<1>3. \A u \in Tids : u # t => \A c \in slot[u].calls :
                              c \in Call /\ c.tid = u /\ outcome'[c] = outcome[c]
  BY DEF CInv, CoordinatorTypeOK, Slots, SlotsOwn
<1>4. SlotsOwn'
  BY <1>2, <1>3 DEF CInv, SlotsOwn, NoSlot, NoSession
<1>5. OpenIsOwned'
  BY <1>2 DEF CInv, OpenIsOwned, SlotsOwn, Call
<1>6. SealedByOwner'
  BY SMTT(20), <1>1, <1>2, <1>3 DEF CInv, SealedByOwner, NoSlot
<1>7. StopSeen' /\ ReportFinds'
  BY SMTT(20), <1>1, <1>2 DEF CInv, StopSeen, ReportFinds, NoSession
<1>8. FinishedIsListed'
  BY <1>1, <1>2 DEF CInv, FinishedIsListed, NoSlot
<1>. QED  BY Zenon, <1>1, <1>4, <1>5, <1>6, <1>7, <1>8 DEF CInv

(* The slot of thread t is finished, its admission c being ended.          *)
LEMMA FinishSlotCInv ==
    ASSUME NEW t \in Tids, NEW c \in Call, CInv, [Next]_vars,
           UNCHANGED <<life, stop_requested, reported, reporting>>,
           CoordinatorTypeOK', artifact_recorded => artifact_recorded',
           c \in slot[t].calls,
           slot'[t].calls = slot[t].calls, slot'[t].stop_finished,
           \A u \in Tids : u # t => slot'[u] = slot[u] /\ session'[u] = session[u],
           session'[t].at \notin {"none", "creating"},
           session'[t].at \in {"observed", "acknowledging", "control"} => token,
           \A d \in Call : d # c => outcome'[d] = outcome[d],
           outcome'[c] \in {"sealed", "unsealed"},
           outcome'[c] = "sealed" => session'[t].sealed /\ Past(t)',
           ~reported /\ ~reporting =>
               Past(t)' /\ (session'[t].committed => artifact_recorded'),
           reporting => outcome'[c] = "unsealed" /\ c \in active
    PROVE  CInv'
<1>1. /\ IInv' /\ Drained' /\ ReportedIsIncomplete'
      /\ token => token' /\ UNCHANGED open_at_stop
      /\ \A u \in Tids : session'[u] = session[u] /\ Past(u) => Past(u)'
  BY Zenon, RuntimeKeeps
<1>2. \A d \in slot[t].calls : d = c
  BY DEF CInv, SlotsOwn
<1>3. \A u \in Tids : u # t => \A d \in slot[u].calls :
                              d \in Call /\ d.tid = u /\ outcome'[d] = outcome[d]
  BY DEF CInv, CoordinatorTypeOK, Slots, SlotsOwn
<1>4. session[t].at # "none"
  BY Zenon DEF CInv, SlotsOwn
<1>5. SlotsOwn'
  BY <1>2, <1>3, <1>4 DEF CInv, SlotsOwn
<1>6. OpenIsOwned'
  BY Zenon, <1>2 DEF CInv, OpenIsOwned, Call
<1>7. SealedByOwner'
  BY <1>1, <1>2, <1>3 DEF CInv, SealedByOwner
<1>8. StopSeen'
  BY Zenon, <1>1 DEF CInv, StopSeen
<1>9. FinishedIsListed'
  BY Zenon, <1>1 DEF CInv, FinishedIsListed
<1>10. ReportFinds'
  <2>. SUFFICES ASSUME reporting PROVE ReportFinds'
    BY Zenon DEF ReportFinds
  <2>1. token /\ open_at_stop' = open_at_stop
    BY Zenon, <1>1 DEF CInv, ReportFinds, StopSeen
  <2>2. c \in open_at_stop
    BY Zenon, <2>1 DEF CInv, IInv, StopTruth, OpenCalls
  <2>3. \A u \in Tids : session'[u].at # "creating"
    BY Zenon DEF CInv, ReportFinds
  <2>. QED  BY Zenon, <2>1, <2>2, <2>3 DEF CInv, ReportFinds
<1>. QED  BY Zenon, <1>1, <1>5, <1>6, <1>7, <1>8, <1>9, <1>10 DEF CInv

(* The thread's one admission.                                             *)
LEMMA OwnCall ==
    ASSUME NEW t \in Tids, CInv, session[t].at # "none"
    PROVE  \E c \in Call : slot[t].calls = {c} /\ c.tid = t
BY DEF CInv, CoordinatorTypeOK, Slots, SlotsOwn
-----------------------------------------------------------------------------
(* The steps of the coordinator's owner and of the runtime.                *)
LEMMA OwnerCInv ==
    ASSUME CInv, [Next]_vars,
           Start \/ RuntimeAlone \/ CoordinatorStop \/ DestroyCoordinator
           \/ UNCHANGED allvars
    PROVE  CInv'
<1>1. UNCHANGED <<outcome, reported, reporting, slot, session>>
  BY Zenon, AloneEffect
  DEF Start, RuntimeAlone, CoordinatorStop, DestroyCoordinator, RequestStop,
      vars, cvars, allvars
<1>2. CoordinatorTypeOK' /\ (artifact_recorded => artifact_recorded')
  BY Zenon, <1>1
  DEF CInv, CoordinatorTypeOK, Sessions, Start, RuntimeAlone, CoordinatorStop,
      DestroyCoordinator, Gap, Record, Recorded, allvars, cvars
<1>3. /\ reporting => UNCHANGED life
      /\ stop_requested => stop_requested'
  BY Zenon DEF CInv, ReportFinds, Start, RuntimeAlone, CoordinatorStop,
         DestroyCoordinator, Started, LockFree, cvars, allvars
<1>4. stop_requested' => token'
  <2>1. CASE CoordinatorStop
    BY Zenon, <2>1, RuntimeKeeps DEF CoordinatorStop, RequestStop, RequestToken
  <2>2. CASE ~CoordinatorStop
    <3>1. UNCHANGED stop_requested
      BY Zenon, <2>2 DEF Start, RuntimeAlone, DestroyCoordinator, cvars, allvars
    <3>. QED  BY Zenon, <3>1, RuntimeKeeps DEF CInv, StopSeen
  <2>. QED  BY <2>1, <2>2
<1>. QED  BY Zenon, <1>1, <1>2, <1>3, <1>4, QuietCInv DEF Moved

(* A thread that enters without a new slot, or is turned away.             *)
LEMMA EnterCInv ==
    ASSUME NEW t \in Tids, CInv, [Next]_vars,
           EnterStopped(t) \/ EnterAgain(t) \/ EnterGap(t)
    PROVE  CInv'
<1>1. UNCHANGED <<vars, reported, reporting, slot, life>>
  BY DEF EnterStopped, EnterAgain, EnterGap
<1>2. /\ session' \in [Tids -> Sessions]
      /\ \A u \in Tids : u # t => session'[u] = session[u]
      /\ \/ session' = session
         \/ /\ session[t].at = "idle" /\ ~token
            /\ session'[t].at \in {"vm", "setup", "returned"}
  BY DEF EnterStopped, EnterAgain, EnterGap, MayEnter, Again, CInv,
         CoordinatorTypeOK, Sessions, At
<1>3. CoordinatorTypeOK' /\ (artifact_recorded => artifact_recorded')
  BY Zenon, <1>1, <1>2
  DEF CInv, CoordinatorTypeOK, EnterStopped, EnterAgain, EnterGap, Gap, Record,
      Recorded, Sessions
<1>4. (stop_requested => stop_requested') /\ (stop_requested' => token')
  BY SMTT(20), <1>1 DEF EnterStopped, EnterAgain, EnterGap, CInv, StopSeen, vars
<1>5. \A u \in Tids : Moved(u)
  BY Zenon, <1>2 DEF Moved, Past
<1>. QED  BY <1>1, <1>3, <1>4, <1>5, QuietCInv DEF vars

(* A session stays one when a field of it is set.                          *)
LEMMA SessionUpdates ==
    ASSUME NEW r \in Sessions
    PROVE  /\ \A v \in At : [r EXCEPT !.at = v] \in Sessions
           /\ \A v \in {"no", "ok", "failed"} : [r EXCEPT !.setup = v] \in Sessions
           /\ \A v \in {"scene", "thread", "native"} : [r EXCEPT !.how = v] \in Sessions
           /\ \A v \in BOOLEAN : [r EXCEPT !.followed = v] \in Sessions
           /\ \A v \in BOOLEAN : [r EXCEPT !.committed = v] \in Sessions
           /\ \A v \in BOOLEAN : [r EXCEPT !.sealed = v] \in Sessions
           /\ \A v \in BOOLEAN : [r EXCEPT !.stop_handled = v] \in Sessions
           /\ \A v \in BOOLEAN : [r EXCEPT !.stop_sealed = v] \in Sessions
BY DEF Sessions

(* The work of a thread in its session, outside the runtime.               *)
LEMMA WorkCInv ==
    ASSUME NEW t \in Tids, CInv, [Next]_vars,
           CreateSession(t) \/ Setup(t) \/ NativeBegin(t) \/ PublishCommitted(t)
           \/ Observe(t) \/ Return(t) \/ Seal(t)
    PROVE  CInv'
<1>1. UNCHANGED <<vars, reported, reporting, slot, life, stop_requested>>
  BY Zenon DEF CreateSession, Setup, NativeBegin, PublishCommitted, Observe, Return, Seal
<1>2. /\ session' \in [Tids -> Sessions]
      /\ \A u \in Tids : u # t => session'[u] = session[u]
      /\ Moved(t)
  <2>. USE DEF CInv, CoordinatorTypeOK
  <2>1. CASE CreateSession(t)
    <3>1. PICK followed \in BOOLEAN :
              session' = [session EXCEPT ![t].at = "setup", ![t].followed = followed]
      BY Zenon, <2>1 DEF CreateSession
    <3>2. session[t].at = "creating"
      BY Zenon, <2>1 DEF CreateSession
    <3>3. session' \in [Tids -> Sessions]
      BY Zenon, <3>1, SessionUpdates DEF At
    <3>4. session'[t].at = "setup" /\ \A u \in Tids : u # t => session'[u] = session[u]
      BY <3>1 DEF Sessions
    <3>. QED  BY Zenon, <3>2, <3>3, <3>4 DEF Moved, Past
  <2>2. CASE Setup(t)
    <3>1. PICK where \in {"publishing", "returned"}, how \in {"ok", "failed"},
               committed \in BOOLEAN :
              session' = [session EXCEPT ![t].at = where, ![t].setup = how,
                                         ![t].committed = committed]
      BY Zenon, <2>2 DEF Setup
    <3>2. session[t].at = "setup"
      BY Zenon, <2>2 DEF Setup
    <3>3. session' \in [Tids -> Sessions]
      BY Zenon, <3>1, SessionUpdates DEF At
    <3>4. session'[t].at = where /\ \A u \in Tids : u # t => session'[u] = session[u]
      BY <3>1 DEF Sessions
    <3>. QED  BY Zenon, <3>2, <3>3, <3>4 DEF Moved, Past
  <2>3. CASE NativeBegin(t)
    <3>1. PICK ok \in BOOLEAN :
              session' = [session EXCEPT ![t].at = "returned", ![t].committed = ok]
      BY Zenon, <2>3 DEF NativeBegin
    <3>2. session[t].at = "setup"
      BY Zenon, <2>3 DEF NativeBegin
    <3>3. session' \in [Tids -> Sessions]
      BY Zenon, <3>1, SessionUpdates DEF At
    <3>4. session'[t].at = "returned" /\ \A u \in Tids : u # t => session'[u] = session[u]
      BY <3>1 DEF Sessions
    <3>. QED  BY Zenon, <3>2, <3>3, <3>4 DEF Moved, Past
  <2>4. CASE PublishCommitted(t)
    BY <2>4 DEF PublishCommitted, Moves, Sessions, At, Moved, Past
  <2>5. CASE Observe(t)
    BY <2>5 DEF Observe, Moves, Sessions, At, Moved, Past
  <2>6. CASE Return(t)
    <3>1. /\ session' \in [Tids -> Sessions]
          /\ \A u \in Tids : u # t => session'[u] = session[u]
          /\ session[t].at \in {"vm", "control"} /\ session'[t].at = "returned"
          /\ session'[t].committed = session[t].committed
          /\ session'[t].sealed = session[t].sealed
      BY <2>6 DEF Return, Moves, Sessions, At
    <3>2. UNCHANGED token
      BY Zenon, <1>1 DEF vars
    <3>. QED  BY <3>1, <3>2 DEF Moved, Past
  <2>7. CASE Seal(t)
    <3>1. PICK ok \in BOOLEAN :
              session' = [session EXCEPT
                  ![t].at = "acknowledging", ![t].sealed = ok,
                  ![t].stop_handled = TRUE, ![t].stop_sealed = ok]
      BY Zenon, <2>7 DEF Seal
    <3>2. session[t].at = "observed" /\ token
      BY Zenon, <2>7 DEF Seal, StopSeen
    <3>3. session' \in [Tids -> Sessions]
      BY Zenon, <3>1, SessionUpdates DEF At
    <3>4. /\ session'[t].at = "acknowledging"
          /\ \A u \in Tids : u # t => session'[u] = session[u]
      BY <3>1 DEF Sessions
    <3>. QED  BY Zenon, <3>2, <3>3, <3>4 DEF Moved, Past
  <2>. QED  BY Zenon, <2>1, <2>2, <2>3, <2>4, <2>5, <2>6, <2>7
<1>3. CoordinatorTypeOK' /\ (artifact_recorded => artifact_recorded')
  BY Zenon, <1>1, <1>2
  DEF CInv, CoordinatorTypeOK, CreateSession, Setup, NativeBegin,
      PublishCommitted, Observe, Return, Seal, Record, Recorded, Sessions
<1>4. \A u \in Tids : Moved(u)
  BY Zenon, <1>2 DEF Moved
<1>5. UNCHANGED <<outcome, token>>
  BY <1>1 DEF vars
<1>. QED  BY Zenon, <1>1, <1>3, <1>4, <1>5, QuietCInv DEF CInv, StopSeen

(* A new slot takes the admission the runtime gave out.                    *)
LEMMA EnterNewCInv ==
    ASSUME NEW t \in Tids, NEW s \in Scenes, NEW how \in {"scene", "thread", "native"},
           CInv, [Next]_vars, EnterNew(t, s, how)
    PROVE  CInv'
<1>1. /\ session[t].at = "none" /\ ~reporting /\ ~token
      /\ slot[t].calls = {} /\ ~slot[t].stop_finished
      /\ UNCHANGED <<life, stop_requested, reported, reporting, incomplete,
                     artifact_recorded>>
  BY DEF EnterNew, MayEnter, Started, LockFree, CInv, SlotsOwn
<1>2. /\ IInv' /\ Drained' /\ ReportedIsIncomplete'
      /\ \A u \in Tids : session'[u] = session[u] /\ Past(u) => Past(u)'
      /\ token => token'
  BY <1>1, RuntimeKeeps
<1>3. PICK where \in {"none", "creating"} :
        /\ slot' = [slot EXCEPT ![t].calls = active' \ active]
        /\ session' = [session EXCEPT ![t].at = where, ![t].how = how]
        /\ where = "none" <=> active' \ active = {}
  BY Zenon DEF EnterNew
<1>4. /\ session' \in [Tids -> Sessions] /\ session'[t].at = where
      /\ \A u \in Tids : u # t => session'[u] = session[u]
  <2>1. session' \in [Tids -> Sessions]
    BY Zenon, <1>3, SessionUpdates DEF At, CInv, CoordinatorTypeOK
  <2>2. session'[t].at = where /\ \A u \in Tids : u # t => session'[u] = session[u]
    BY <1>3 DEF CInv, CoordinatorTypeOK, Sessions
  <2>. QED  BY <2>1, <2>2
<1>5. /\ where = "none" <=> active' \ active = {}
      /\ slot'[t].calls = active' \ active /\ ~slot'[t].stop_finished
      /\ \A u \in Tids : u # t => slot'[u] = slot[u]
  BY Zenon, <1>1, <1>3 DEF CInv, CoordinatorTypeOK, Slots
<1>6. CoordinatorTypeOK'
  <2>1. active' \subseteq Call
    BY Zenon, <1>2 DEF IInv, TypeOK
  <2>2. slot' \in [Tids -> Slots]
    BY Zenon, <1>3, <2>1 DEF CInv, CoordinatorTypeOK, Slots
  <2>. QED  BY Zenon, <1>1, <1>4, <2>2 DEF CInv, CoordinatorTypeOK
<1>7. StopSeen' /\ ReportFinds'
  BY Zenon, <1>1, <1>2, <1>4 DEF CInv, StopSeen, ReportFinds
<1>8. FinishedIsListed'
  BY Zenon, <1>1, <1>2, <1>4, <1>5 DEF CInv, FinishedIsListed
<1>9. CASE UNCHANGED <<active, outcome>>
  <2>1. SlotsOwn' /\ OpenIsOwned'
    BY <1>1, <1>4, <1>5, <1>9 DEF CInv, SlotsOwn, OpenIsOwned, Call
  <2>2. SealedByOwner'
    BY Zenon, <1>2, <1>4, <1>5, <1>9 DEF CInv, SealedByOwner
  <2>. QED  BY Zenon, <1>2, <1>6, <1>7, <1>8, <2>1, <2>2 DEF CInv
<1>10. ASSUME NEW c \in Call, c.tid = t, outcome[c] = "none",
              active' \ active = {c}, outcome' = [outcome EXCEPT ![c] = "open"]
       PROVE  CInv'
  <2>1. outcome'[c] = "open" /\ \A d \in Call : d # c => outcome'[d] = outcome[d]
    BY Zenon, <1>10 DEF CInv, IInv, TypeOK
  <2>2. \A u \in Tids : \A d \in slot[u].calls : d \in Call /\ d.tid = u
    BY Zenon DEF CInv, CoordinatorTypeOK, Slots, SlotsOwn
  <2>3. SlotsOwn'
    BY <1>4, <1>5, <1>10, <2>1, <2>2 DEF CInv, SlotsOwn
  <2>4. OpenIsOwned'
    BY Zenon, <1>1, <1>5, <1>10, <2>1 DEF CInv, OpenIsOwned, Call
  <2>5. SealedByOwner'
    BY SMTT(20), <1>2, <1>4, <1>5, <1>10, <2>1, <2>2 DEF CInv, SealedByOwner
  <2>. QED  BY Zenon, <1>2, <1>6, <1>7, <1>8, <2>3, <2>4, <2>5 DEF CInv
<1>. QED  BY <1>9, <1>10, AdmissionEffect DEF EnterNew, CInv

(* A target that returned is forgotten by the runtime; no call ends.       *)
LEMMA FinishTargetEffect ==
    ASSUME NEW t \in Tids, FinishTarget(t) PROVE UNCHANGED outcome
BY Zenon DEF FinishTarget, FinishTargetCall, vars

(* The end of a call as its owner sees it.                                 *)
LEMMA CompletionOutcome ==
    ASSUME NEW c \in Call, NEW sealed \in BOOLEAN, NEW target_open \in BOOLEAN,
           CInv, CompleteCallLocked(c, sealed, target_open)
    PROVE  /\ \A d \in Call : d # c => outcome'[d] = outcome[d]
           /\ outcome'[c] # "open"
           /\ outcome[c] = "open" =>
                 outcome'[c] = IF sealed THEN "sealed" ELSE "unsealed"
<1>1. outcome' = [outcome EXCEPT ![c] =
                    IF outcome[c] # "open" THEN outcome[c]
                    ELSE IF sealed THEN "sealed" ELSE "unsealed"]
  BY CompletionEffect DEF CInv
<1>. QED  BY Zenon, <1>1 DEF CInv, IInv, TypeOK
-----------------------------------------------------------------------------
(* The steps that give a slot back.                                        *)
LEMMA GiveBackCInv ==
    ASSUME NEW t \in Tids, CInv, [Next]_vars,
           CreateFails(t) \/ DestroySlot(t)
           \/ \E ended \in BOOLEAN : FinishThread(t, ended)
    PROVE  CInv'
<1>1. /\ ~reporting /\ session[t].at # "none"
      /\ UNCHANGED <<life, stop_requested, reported, reporting>>
      /\ slot' = [slot EXCEPT ![t] = NoSlot]
      /\ session' = [session EXCEPT ![t] = NoSession]
  BY Zenon DEF CreateFails, DestroySlot, FinishThread, LockFree, Used, CInv, ReportFinds
<1>2. CoordinatorTypeOK' /\ (artifact_recorded => artifact_recorded')
  <2>1. NoSlot \in Slots /\ NoSession \in Sessions
    BY Zenon DEF NoSlot, NoSession, Slots, Sessions, At
  <2>2. /\ incomplete' \in BOOLEAN /\ artifact_recorded' \in BOOLEAN
        /\ artifact_recorded => artifact_recorded'
    BY Zenon DEF CreateFails, DestroySlot, FinishThread, CompleteThread, Gap, Record,
           Recorded, CInv, CoordinatorTypeOK, Sessions
  <2>. QED  BY <1>1, <2>1, <2>2 DEF CInv, CoordinatorTypeOK
<1>3. PICK c \in Call : slot[t].calls = {c}
  BY Zenon, <1>1, OwnCall
<1>4. \/ slot[t].stop_finished /\ UNCHANGED outcome
      \/ \E sealed \in BOOLEAN : CompleteCallLocked(c, sealed, FALSE)
  <2>1. CASE CreateFails(t)
    BY Zenon, <1>3, <2>1 DEF CreateFails, FinishCall
  <2>2. CASE DestroySlot(t)
    BY Zenon, <1>3, <2>2 DEF DestroySlot, Unfinished, FinishCall, vars
  <2>3. CASE \E ended \in BOOLEAN : FinishThread(t, ended)
    BY Zenon, <1>3, <2>3, FinishTargetEffect DEF FinishThread, CompleteThread, FinishCall
  <2>. QED  BY Zenon, <2>1, <2>2, <2>3
<1>5. /\ \A d \in Call : d \notin slot[t].calls => outcome'[d] = outcome[d]
      /\ outcome'[c] # "open"
  <2>1. CASE slot[t].stop_finished /\ UNCHANGED outcome
    BY Zenon, <1>3, <2>1 DEF CInv, SlotsOwn
  <2>2. CASE \E sealed \in BOOLEAN : CompleteCallLocked(c, sealed, FALSE)
    BY Zenon, <1>3, <2>2, CompletionOutcome
  <2>. QED  BY Zenon, <1>4, <2>1, <2>2
<1>. QED  BY Zenon, <1>1, <1>2, <1>3, <1>5, DropCInv

(* The steps that finish a slot and keep it: the owner's acknowledgement   *)
(* of the stop it observed, ...                                            *)
LEMMA AcknowledgeCInv ==
    ASSUME NEW t \in Tids, CInv, [Next]_vars, Acknowledge(t) PROVE CInv'
<1>1. /\ session[t].at = "acknowledging" /\ ~reporting /\ token
      /\ UNCHANGED <<life, stop_requested, reported, reporting>>
  BY DEF Acknowledge, LockFree, CInv, StopSeen
<1>2. session' = [session EXCEPT ![t].at = "control"]
  BY DEF Acknowledge, Moves
<1>3. /\ session' \in [Tids -> Sessions] /\ session'[t].at = "control"
      /\ session'[t].sealed = session[t].sealed
      /\ session'[t].committed = session[t].committed
      /\ \A u \in Tids : u # t => session'[u] = session[u]
  <2>1. session' \in [Tids -> Sessions]
    BY Zenon, <1>2, SessionUpdates DEF At, CInv, CoordinatorTypeOK
  <2>. QED  BY <1>2, <2>1 DEF CInv, CoordinatorTypeOK, Sessions
<1>4. token'
  BY <1>1, RuntimeKeeps
<1>5. PICK c \in Call : slot[t].calls = {c}
  BY <1>1, OwnCall
<1>6. CASE slot[t].stop_finished
  <2>1. UNCHANGED <<outcome, incomplete, artifact_recorded, slot>>
    BY <1>6 DEF Acknowledge, vars
  <2>2. CoordinatorTypeOK'
    BY Zenon, <1>1, <1>3, <2>1 DEF CInv, CoordinatorTypeOK
  <2>3. \A u \in Tids : Moved(u)
    BY Zenon, <1>1, <1>3 DEF Moved, Past
  <2>. QED  BY Zenon, <1>1, <1>4, <2>1, <2>2, <2>3, QuietCInv
<1>7. CASE ~slot[t].stop_finished
  <2>1. /\ artifact_recorded' = Recorded({t})
        /\ slot' = [slot EXCEPT ![t].stop_finished = TRUE]
    BY <1>7 DEF Acknowledge, Record
  <2>2. PICK sealed, target_open \in BOOLEAN :
            /\ CompleteCallLocked(c, sealed, target_open)
            /\ sealed => session[t].sealed
    BY Zenon, <1>5, <1>7 DEF Acknowledge, AcknowledgeSealed, FinishCall
  <2>3. outcome[c] = "open"
    BY <1>5, <1>7 DEF CInv, SlotsOwn
  <2>4. /\ \A d \in Call : d # c => outcome'[d] = outcome[d]
        /\ outcome'[c] = IF sealed THEN "sealed" ELSE "unsealed"
    BY Zenon, <2>2, <2>3, CompletionOutcome
  <2>5. /\ slot' \in [Tids -> Slots] /\ slot'[t].calls = slot[t].calls
        /\ slot'[t].stop_finished /\ \A u \in Tids : u # t => slot'[u] = slot[u]
    BY Zenon, <2>1 DEF CInv, CoordinatorTypeOK, Slots
  <2>6. /\ artifact_recorded' \in BOOLEAN
        /\ artifact_recorded => artifact_recorded'
        /\ session[t].committed => artifact_recorded'
    BY Zenon, <2>1 DEF Recorded, CInv, CoordinatorTypeOK
  <2>7. CoordinatorTypeOK'
    BY Zenon, <1>1, <1>3, <2>5, <2>6 DEF CInv, CoordinatorTypeOK, Acknowledge, Gap
  <2>8. Past(t)'
    BY Zenon, <1>3, <1>4 DEF Past
  <2>9. /\ outcome'[c] \in {"sealed", "unsealed"}
        /\ outcome'[c] = "sealed" => session'[t].sealed
        /\ session'[t].committed => artifact_recorded'
    BY Zenon, <1>3, <2>2, <2>4, <2>6
  <2>. QED
    BY Zenon, <1>1, <1>3, <1>5, <2>4, <2>5, <2>6, <2>7, <2>8, <2>9, FinishSlotCInv
<1>. QED  BY <1>6, <1>7

(* ... the end of a thread whose VM is active, ...                         *)
LEMMA UnwindCInv ==
    ASSUME NEW t \in Tids, NEW ended \in BOOLEAN, CInv, [Next]_vars,
           ThreadUnwinds(t, ended)
    PROVE  CInv'
<1>1. /\ session[t].at \in {"vm", "control"} /\ ~reporting
      /\ UNCHANGED <<life, stop_requested, reported, reporting>>
      /\ artifact_recorded' = Recorded({t}) /\ incomplete' = TRUE
      /\ slot' = [slot EXCEPT ![t].stop_finished = TRUE]
  BY DEF ThreadUnwinds, LockFree, Record, Gap
<1>2. PICK sealed \in BOOLEAN :
          /\ session' = [session EXCEPT ![t].at = "gone", ![t].sealed = sealed]
          /\ sealed <=> session[t].sealed \/ ended
  BY Zenon DEF ThreadUnwinds
<1>3. /\ session' \in [Tids -> Sessions] /\ session'[t].at = "gone"
      /\ session'[t].sealed = sealed
      /\ session'[t].committed = session[t].committed
      /\ \A u \in Tids : u # t => session'[u] = session[u]
  <2>1. session' \in [Tids -> Sessions]
    BY Zenon, <1>2, SessionUpdates DEF At, CInv, CoordinatorTypeOK
  <2>. QED  BY <1>2, <2>1 DEF CInv, CoordinatorTypeOK, Sessions
<1>4. PICK c \in Call : slot[t].calls = {c}
  BY <1>1, OwnCall
<1>5. /\ slot' \in [Tids -> Slots] /\ slot'[t].calls = slot[t].calls
      /\ slot'[t].stop_finished /\ \A u \in Tids : u # t => slot'[u] = slot[u]
  BY Zenon, <1>1 DEF CInv, CoordinatorTypeOK, Slots
<1>6. /\ artifact_recorded' \in BOOLEAN
      /\ artifact_recorded => artifact_recorded'
      /\ session[t].committed => artifact_recorded'
  BY Zenon, <1>1 DEF Recorded, CInv, CoordinatorTypeOK
<1>7. CoordinatorTypeOK'
  BY Zenon, <1>1, <1>3, <1>5, <1>6 DEF CInv, CoordinatorTypeOK
<1>8. /\ \A d \in Call : d # c => outcome'[d] = outcome[d]
      /\ outcome'[c] \in {"sealed", "unsealed"}
      /\ outcome'[c] = "sealed" => sealed
  <2>1. CASE slot[t].stop_finished
    <3>1. UNCHANGED outcome
      BY Zenon, <2>1, FinishTargetEffect DEF ThreadUnwinds
    <3>2. outcome[c] \in {"sealed", "unsealed"}
      <4>1. outcome[c] # "open" /\ outcome[c] # "none"
        BY Zenon, <1>4, <2>1 DEF CInv, SlotsOwn
      <4>. QED  BY Zenon, <4>1 DEF CInv, IInv, TypeOK
    <3>. QED  BY <1>2, <1>4, <3>1, <3>2 DEF CInv, SealedByOwner
  <2>2. CASE ~slot[t].stop_finished
    <3>1. CompleteCallLocked(c, ended, FALSE)
      BY Zenon, <1>4, <2>2 DEF ThreadUnwinds, FinishCall
    <3>2. outcome[c] = "open"
      BY <1>4, <2>2 DEF CInv, SlotsOwn
    <3>. QED  BY Zenon, <1>2, <3>1, <3>2, CompletionOutcome
  <2>. QED  BY Zenon, <2>1, <2>2
<1>9. /\ Past(t)' /\ (outcome'[c] = "sealed" => session'[t].sealed)
      /\ session'[t].committed => artifact_recorded'
  BY Zenon, <1>3, <1>6, <1>8 DEF Past
<1>10. /\ UNCHANGED <<life, stop_requested, reported, reporting>> /\ ~reporting
       /\ c \in slot[t].calls /\ session'[t].at \notin {"none", "creating"}
       /\ session'[t].at \notin {"observed", "acknowledging", "control"}
       /\ \A u \in Tids : u # t => slot'[u] = slot[u] /\ session'[u] = session[u]
  BY <1>1, <1>3, <1>4, <1>5
<1>. QED
  BY Zenon, <1>5, <1>6, <1>7, <1>8, <1>9, <1>10, FinishSlotCInv

(* ... and the report of an owner that did not acknowledge.                *)
LEMMA ReportSlotCInv ==
    ASSUME NEW t \in Tids, CInv, [Next]_vars, ReportSlot(t) PROVE CInv'
<1>1. /\ reporting /\ session[t].at # "none" /\ ~slot[t].stop_finished
      /\ UNCHANGED <<life, stop_requested, reported, reporting, incomplete, session>>
      /\ slot' = [slot EXCEPT ![t].stop_finished = TRUE]
      /\ artifact_recorded' = Recorded({t})
  BY DEF ReportSlot, Unfinished, Used, Record
<1>2. PICK c \in Call : slot[t].calls = {c}
  BY <1>1, OwnCall
<1>3. outcome[c] = "open" /\ c \in active
  BY Zenon, <1>1, <1>2 DEF CInv, SlotsOwn, IInv, ActiveIsOpen
<1>4. /\ \A d \in Call : d # c => outcome'[d] = outcome[d]
      /\ outcome'[c] = "unsealed"
  <2>1. CompleteCallLocked(c, FALSE, FALSE)
    BY Zenon, <1>2 DEF ReportSlot, FinishCall
  <2>. QED  BY Zenon, <1>3, <2>1, CompletionOutcome
<1>5. /\ slot' \in [Tids -> Slots] /\ slot'[t].calls = slot[t].calls
      /\ slot'[t].stop_finished /\ \A u \in Tids : u # t => slot'[u] = slot[u]
  BY Zenon, <1>1 DEF CInv, CoordinatorTypeOK, Slots
<1>6. CoordinatorTypeOK' /\ (artifact_recorded => artifact_recorded')
  BY <1>1, <1>5 DEF CInv, CoordinatorTypeOK, Recorded
<1>7. /\ session'[t].at \notin {"none", "creating"}
      /\ session'[t].at \in {"observed", "acknowledging", "control"} => token
  BY <1>1 DEF CInv, ReportFinds, StopSeen
<1>. QED
  BY Zenon, <1>1, <1>2, <1>3, <1>4, <1>5, <1>6, <1>7, FinishSlotCInv

(* A thread leaves its session: its target may have been acknowledged.     *)
LEMMA LeaveCInv ==
    ASSUME NEW t \in Tids, CInv, [Next]_vars, Leave(t) PROVE CInv'
<1>1. /\ session[t].at = "returned"
      /\ UNCHANGED <<life, stop_requested, reported, reporting, incomplete,
                     artifact_recorded, slot>>
      /\ session' = [session EXCEPT ![t].at = "idle"]
  BY DEF Leave, Moves
<1>2. UNCHANGED outcome
  BY Zenon, FinishTargetEffect DEF Leave
<1>3. /\ session' \in [Tids -> Sessions] /\ session'[t].at = "idle"
      /\ session'[t].sealed = session[t].sealed
      /\ session'[t].committed = session[t].committed
      /\ \A u \in Tids : u # t => session'[u] = session[u]
  <2>1. session' \in [Tids -> Sessions]
    BY Zenon, <1>1, SessionUpdates DEF At, CInv, CoordinatorTypeOK
  <2>2. session \in [Tids -> Sessions]
    BY DEF CInv, CoordinatorTypeOK
  <2>. QED  BY <1>1, <2>1, <2>2 DEF Sessions
<1>4. CoordinatorTypeOK'
  BY <1>1, <1>3 DEF CInv, CoordinatorTypeOK
<1>5. token => token'
  BY Zenon, RuntimeKeeps
<1>6. \A u \in Tids : Moved(u)
  BY <1>1, <1>3, <1>5 DEF Moved, Past
<1>7. stop_requested' => token'
  BY <1>1, <1>5 DEF CInv, StopSeen
<1>. QED  BY <1>1, <1>2, <1>4, <1>6, <1>7, QuietCInv

(* A report begins with an owner to report, ...                            *)
LEMMA ReportBeginCInv == ASSUME CInv, [Next]_vars, ReportBegin PROVE CInv'
<1>1. /\ stop_requested /\ life = "started" /\ ~reporting /\ reporting' = TRUE
      /\ \A t \in Tids : session[t].at # "creating"
      /\ UNCHANGED <<vars, life, stop_requested, reported, incomplete,
                     artifact_recorded, slot, session>>
  BY Zenon DEF ReportBegin, Started, LockFree
<1>2. PICK t \in Tids : session[t].at # "none" /\ ~slot[t].stop_finished
  BY DEF ReportBegin, Unfinished, Used
<1>3. PICK c \in Call : slot[t].calls = {c}
  BY <1>2, OwnCall
<1>4. c \in active
  BY Zenon, <1>2, <1>3 DEF CInv, SlotsOwn, IInv, ActiveIsOpen
<1>5. IInv' /\ Drained' /\ ReportedIsIncomplete'
  BY Zenon, <1>1, RuntimeKeeps
<1>6. ReportFinds' /\ FinishedIsListed'
  BY Zenon, <1>1, <1>4 DEF ReportFinds, FinishedIsListed, vars
<1>7. CoordinatorTypeOK'
  BY Zenon, <1>1 DEF CInv, CoordinatorTypeOK
<1>8. SlotsOwn' /\ OpenIsOwned'
  <2>1. SlotsOwn'
    BY SMTT(20), <1>1 DEF CInv, SlotsOwn, vars
  <2>2. OpenIsOwned'
    BY Zenon, <1>1 DEF CInv, OpenIsOwned, vars
  <2>. QED  BY Zenon, <2>1, <2>2
<1>9. SealedByOwner' /\ StopSeen'
  BY Zenon, <1>1 DEF CInv, SealedByOwner, StopSeen, Past, vars
<1>. QED  BY Zenon, <1>5, <1>6, <1>7, <1>8, <1>9 DEF CInv

(* ... and ends when the runtime has completed the stop: some capture that *)
(* was open then was ended without a seal.                                 *)
LEMMA ReportEndCInv == ASSUME CInv, [Next]_vars, ReportEnd PROVE CInv'
<1>1. /\ reporting /\ mutex = "free" /\ reporting' = FALSE /\ reported' = TRUE
      /\ UNCHANGED <<vars, life, stop_requested, artifact_recorded, slot, session>>
      /\ incomplete' = TRUE
      /\ \A t \in Tids : session[t].at # "none" => slot[t].stop_finished
  BY Zenon DEF ReportEnd, Gap, Unfinished, Used
<1>2. active = {}
  <2>. SUFFICES ASSUME NEW c \in active PROVE FALSE
    OBVIOUS
  <2>1. c \in Call /\ outcome[c] = "open" /\ c.tid \in Tids
    BY Zenon DEF CInv, IInv, TypeOK, ActiveIsOpen, Call
  <2>2. c \in slot[c.tid].calls
    BY <2>1 DEF CInv, OpenIsOwned
  <2>. QED  BY Zenon, <1>1, <2>1, <2>2 DEF CInv, SlotsOwn
<1>3. PICK c \in open_at_stop : outcome[c] = "unsealed"
  BY Zenon, <1>1, <1>2 DEF CInv, ReportFinds
<1>4. token
  BY Zenon, <1>1 DEF CInv, ReportFinds, StopSeen
<1>5. phase = "StopIncomplete"
  <2>1. ~IsStopping(phase)
    BY Zenon, <1>1, <1>2, <1>3 DEF CInv, Drained
  <2>2. phase # "Sealed"
    BY Zenon, <1>3, <1>4, TerminalTruth DEF CInv, TerminalOutcome, Terminal
  <2>. QED  BY Zenon, <1>4, <2>1, <2>2 DEF CInv, IInv, TokenPhase, IsStopping
<1>6. IInv' /\ Drained' /\ ReportedIsIncomplete'
  BY Zenon, <1>1, <1>5, RuntimeKeeps DEF ReportedIsIncomplete, vars
<1>7. ReportFinds' /\ FinishedIsListed'
  BY Zenon, <1>1 DEF ReportFinds, FinishedIsListed
<1>8. CoordinatorTypeOK'
  BY Zenon, <1>1 DEF CInv, CoordinatorTypeOK
<1>9. SlotsOwn' /\ OpenIsOwned'
  <2>1. SlotsOwn'
    BY SMTT(20), <1>1 DEF CInv, SlotsOwn, vars
  <2>2. OpenIsOwned'
    BY Zenon, <1>1 DEF CInv, OpenIsOwned, vars
  <2>. QED  BY Zenon, <2>1, <2>2
<1>10. SealedByOwner' /\ StopSeen'
  BY Zenon, <1>1 DEF CInv, SealedByOwner, StopSeen, Past, vars
<1>. QED  BY Zenon, <1>6, <1>7, <1>8, <1>9, <1>10 DEF CInv

(* Every step of the coordinator preserves the invariant.                  *)
LEMMA NextCInv == CInv /\ [CoordinatorNext]_allvars => CInv'
<1>. SUFFICES ASSUME CInv, [CoordinatorNext]_allvars PROVE CInv'
  OBVIOUS
<1>1. [Next]_vars
  BY CoordinatorStepIsRuntimeStep DEF CInv
<1>2. CASE Start \/ RuntimeAlone \/ CoordinatorStop \/ DestroyCoordinator
           \/ UNCHANGED allvars
  BY <1>1, <1>2, OwnerCInv
<1>3. CASE Reports /\ ~CoordinatorStop
  BY <1>1, <1>3, ReportBeginCInv, ReportEndCInv, ReportSlotCInv DEF Reports
<1>4. ASSUME NEW t \in Tids, Enters(t) PROVE CInv'
  BY <1>1, <1>4, EnterCInv, EnterNewCInv DEF Enters
<1>5. ASSUME NEW t \in Tids, Works(t) PROVE CInv'
  BY Zenon, <1>1, <1>5, WorkCInv, GiveBackCInv, AcknowledgeCInv, LeaveCInv DEF Works
<1>6. ASSUME NEW t \in Tids, Ends(t) \/ DestroySlot(t) PROVE CInv'
  BY <1>1, <1>6, GiveBackCInv, UnwindCInv DEF Ends
<1>. QED  BY <1>2, <1>3, <1>4, <1>5, <1>6 DEF CoordinatorNext, Reports
-----------------------------------------------------------------------------
(* The inductive invariant of the Flight captures.                         *)
THEOREM CoordinatorInvariant == CoordinatorSpec => []CInv
BY CoordinatorInitCInv, NextCInv, PTL DEF CoordinatorSpec

(* The stop of a generation with Flight captures tells the truth: about    *)
(* who owns its admissions, what was sealed and by whom, what is listed,   *)
(* and whom a report gave up.  It does so from the initial state on.       *)
THEOREM FlightStopTruth ==
    CoordinatorSpec => [](FlightStopHolds /\ FlightStopIsTruthful)
<1>1. CInv => FlightStopHolds
  <2>. SUFFICES ASSUME CInv PROVE FlightStopHolds
    OBVIOUS
  <2>1. AdmissionsAreOwned
    <3>1. ASSUME NEW c \in active PROVE c \in UNION {slot[t].calls : t \in Unfinished}
      <4>1. c \in Call /\ outcome[c] = "open" /\ c.tid \in Tids
        BY Zenon DEF CInv, IInv, TypeOK, ActiveIsOpen, Call
      <4>2. c \in slot[c.tid].calls
        BY Zenon, <4>1 DEF CInv, OpenIsOwned
      <4>3. c.tid \in Unfinished
        BY Zenon, <4>1, <4>2 DEF CInv, SlotsOwn, Unfinished, Used
      <4>. QED  BY Zenon, <4>2, <4>3
    <3>2. ASSUME NEW t \in Unfinished, NEW c \in slot[t].calls PROVE c \in active
      BY DEF CInv, CoordinatorTypeOK, Slots, SlotsOwn, Unfinished, Used, IInv,
             ActiveIsOpen
    <3>. QED  BY <3>1, <3>2 DEF AdmissionsAreOwned
  <2>2. SealedIsSealed
    <3>. SUFFICES ASSUME phase = "Sealed", NEW t \in Used,
                         slot[t].calls \subseteq open_at_stop
                  PROVE  /\ session[t].sealed
                         /\ session[t].at \notin
                               {"setup", "publishing", "vm", "observed"}
      BY DEF SealedIsSealed
    <3>1. PICK c \in Call : slot[t].calls = {c}
      BY OwnCall DEF Used
    <3>2. outcome[c] = "sealed"
      BY Zenon, <3>1, TerminalTruth
      DEF CInv, IInv, TokenPhase, TerminalOutcome, Terminal
    <3>. QED  BY Zenon, <3>1, <3>2 DEF CInv, SealedByOwner, Past, Used
  <2>3. CommittedIsListed
    <3>1. phase \in Terminal => active = {}
      BY DEF CInv, IInv, TokenPhase
    <3>2. phase \in Terminal => \A t \in Used : slot[t].stop_finished
      <4>. SUFFICES ASSUME phase \in Terminal, NEW t \in Used,
                           ~slot[t].stop_finished
                    PROVE  FALSE
        BY DEF CInv, CoordinatorTypeOK, Slots, Used
      <4>1. PICK c \in Call : slot[t].calls = {c}
        BY OwnCall DEF Used
      <4>2. c \in active
        BY Zenon, <4>1 DEF CInv, SlotsOwn, IInv, ActiveIsOpen, Used
      <4>. QED  BY <3>1, <4>2
    <3>. QED  BY Zenon, <3>2 DEF CInv, FinishedIsListed, CommittedIsListed, Used
  <2>. QED  BY <2>1, <2>2, <2>3 DEF FlightStopHolds, CInv
<1>2. CInv => FlightStopHolds /\ FlightStopIsTruthful
  BY <1>1 DEF FlightStopIsTruthful
<1>. QED  BY <1>2, CoordinatorInvariant, PTL

(* The coordinator uses the runtime as its specification allows, so that   *)
(* whatever is proved of the runtime holds under it.                       *)
THEOREM CoordinatorImplementsRuntime == CoordinatorSpec => Spec
<1>1. CoordinatorInit => Init
  BY DEF CoordinatorInit
<1>2. CInv /\ [CoordinatorNext]_allvars => [Next]_vars
  BY CoordinatorStepIsRuntimeStep DEF CInv
<1>. QED  BY <1>1, <1>2, CoordinatorInvariant, PTL DEF CoordinatorSpec, Spec
=============================================================================

------------------------- MODULE NormalCaptureProofs -------------------------
(***************************************************************************)
(* Proofs about NormalCapture for every set of scenes and threads.  Each   *)
(* step of a proxied call is a step of the runtime or leaves it alone, so  *)
(* the runtime's invariant holds here too; NInv adds what the proxies know *)
(* of their own admissions.                                                *)
(***************************************************************************)
EXTENDS NormalCapture, TraceGenerationRuntimeProofs

StopStates == [seal_called : BOOLEAN, sealed : BOOLEAN,
               acknowledged_sealed : BOOLEAN]
FileStates == {"none", "open", "failed", "stopped", "completed"}

NormalTypeOK ==
    /\ at \in [Tids -> Places]
    /\ admission \in [Tids -> SUBSET Call]
    /\ stop \in [Tids -> StopStates]
    /\ finalized \in [Tids -> BOOLEAN]
    /\ file \in [Call -> FileStates]

(* A thread in the proxy holds one admission, which is its own.            *)
OneAdmission ==
    \A t \in Tids :
        /\ at[t] = "out" <=> admission[t] = {}
        /\ \A c, d \in admission[t] : c = d
        /\ \A c \in admission[t] : c.tid = t

(* The stop lifecycle seals before it acknowledges, and not before it has  *)
(* observed the stop.                                                      *)
StopOrder ==
    \A t \in Tids :
        /\ stop[t].acknowledged_sealed => stop[t].sealed
        /\ stop[t].sealed => stop[t].seal_called
        /\ at[t] \in {"setup", "vm", "observed", "refused"}
              => ~stop[t].seal_called
        /\ at[t] = "acknowledging" => ~stop[t].acknowledged_sealed

(* What the runtime knows of an admission: it is open until the proxy ends *)
(* it, and sealed exactly when the proxy acknowledged a sealed file.       *)
OutcomeFollows ==
    \A t \in Tids : \A c \in admission[t] :
        outcome[c] = IF stop[t].acknowledged_sealed THEN "sealed"
                     ELSE IF at[t] = "target" THEN "unsealed" ELSE "open"

(* The files that were reported as sealed, and those whose seal succeeded. *)
SealedFiles ==
    /\ \A t \in Tids : stop[t].sealed =>
          \A c \in admission[t] : file[c] = "stopped"
    /\ \A c \in Call : outcome[c] = "sealed" => file[c] = "stopped"

NInv == /\ IInv /\ NormalTypeOK /\ OneAdmission /\ StopOrder
        /\ OutcomeFollows /\ SealedFiles /\ ListedCallsAreRunning
-----------------------------------------------------------------------------
(* No capture has begun.                                                   *)
LEMMA NormalInitNInv == NormalInit => NInv
<1>. SUFFICES ASSUME NormalInit PROVE NInv
  OBVIOUS
<1>1. IInv
  BY InitIInv DEF NormalInit
<1>2. NormalTypeOK
  BY DEF NormalInit, NormalTypeOK, Places, NoStop, StopStates, FileStates
<1>3. OneAdmission /\ StopOrder /\ OutcomeFollows
  BY DEF NormalInit, OneAdmission, StopOrder, OutcomeFollows, NoStop
<1>4. SealedFiles /\ ListedCallsAreRunning
  BY DEF NormalInit, Init, SealedFiles, ListedCallsAreRunning, NoStop
<1>. QED  BY <1>1, <1>2, <1>3, <1>4 DEF NInv

(* Every step of the proxies and of the runtime is a step of the runtime   *)
(* or leaves it alone: the proxies call it as its contract allows.         *)
LEMMA NormalStepIsRuntimeStep ==
    ASSUME NormalTypeOK, [NormalNext]_allvars PROVE [Next]_vars
<1>1. CASE RuntimeAlone
  BY <1>1 DEF RuntimeAlone, Next
<1>2. ASSUME NEW t \in Tids, Runs(t) PROVE [Next]_vars
  <2>1. admission[t] \subseteq Call
    BY <1>2 DEF NormalTypeOK
  <2>2. CASE SetupRun(t) \/ Observe(t) \/ Return(t) \/ Seal(t) \/ Finalize(t)
             \/ FinishMarker(t)
    BY <2>2 DEF SetupRun, Observe, Return, Seal, Finalize, FinishMarker
  <2>3. CASE Acknowledge(t)
    BY <2>1, <2>3 DEF Acknowledge, Next, CallStep
  <2>4. CASE Finish(t)
    BY Zenon, <2>1, <2>4 DEF Finish, Next, CallStep
  <2>5. CASE FinishTarget(t)
    BY <2>1, <2>5 DEF FinishTarget, Next, CallStep
  <2>6. CASE ProxyFinishes(t)
    BY Zenon, <2>1, <2>6 DEF ProxyFinishes, Next, CallStep
  <2>. QED  BY <1>2, <2>2, <2>3, <2>4, <2>5, <2>6 DEF Runs
<1>3. ASSUME NEW t \in Tids, NEW s \in Scenes, Proxy(t, s) PROVE [Next]_vars
  BY <1>3 DEF Proxy, Next
<1>4. CASE UNCHANGED allvars
  BY <1>4 DEF allvars
<1>. QED  BY <1>1, <1>2, <1>3, <1>4 DEF NormalNext

(* The proxy of a call that is admitted takes the new admission.           *)
LEMMA ProxyNInv ==
    ASSUME NEW t \in Tids, NEW s \in Scenes, NInv, IInv', Proxy(t, s)
    PROVE  NInv'
<1>1. /\ at[t] = "out" /\ admission[t] = {}
      /\ UNCHANGED <<file, sealed_targets>>
      /\ stop' = [stop EXCEPT ![t] = NoStop]
      /\ finalized' = [finalized EXCEPT ![t] = FALSE]
  BY DEF Proxy, NInv, OneAdmission, TryBeginCall
<1>2. CASE UNCHANGED <<active, outcome>>
  <2>1. admission' = [admission EXCEPT ![t] = {}] /\ at' = [at EXCEPT ![t] = "out"]
    BY Zenon, <1>2 DEF Proxy
  <2>2. UNCHANGED <<admission, at>>
    BY <1>1, <2>1 DEF NInv, NormalTypeOK
  <2>3. NormalTypeOK' /\ OneAdmission' /\ StopOrder'
    BY <1>1, <2>2 DEF NInv, NormalTypeOK, OneAdmission, StopOrder, NoStop, StopStates
  <2>4. OutcomeFollows' /\ SealedFiles' /\ ListedCallsAreRunning'
    BY <1>1, <1>2, <2>2
    DEF NInv, NormalTypeOK, OutcomeFollows, SealedFiles, ListedCallsAreRunning, NoStop
  <2>. QED  BY <2>3, <2>4 DEF NInv
<1>3. ASSUME NEW c \in Call, c.tid = t, outcome[c] = "none",
             active' \ active = {c}, active' = active \union {c},
             outcome' = [outcome EXCEPT ![c] = "open"]
      PROVE  NInv'
  <2>1. /\ admission' = [admission EXCEPT ![t] = {c}]
        /\ at' = [at EXCEPT ![t] = "setup"]
    BY Zenon, <1>3 DEF Proxy
  <2>2. \A d \in Call : d # c => outcome'[d] = outcome[d]
    BY <1>3 DEF NInv, IInv, TypeOK
  <2>3. outcome'[c] = "open"
    BY <1>3 DEF NInv, IInv, TypeOK
  <2>4. NormalTypeOK'
    BY <1>1, <2>1 DEF NInv, NormalTypeOK, NoStop, StopStates, Places
  <2>5. OneAdmission' /\ StopOrder'
    BY <1>1, <1>3, <2>1 DEF NInv, NormalTypeOK, OneAdmission, StopOrder, NoStop
  <2>6. OutcomeFollows'
    BY <1>1, <1>3, <2>1, <2>2, <2>3
    DEF NInv, NormalTypeOK, OneAdmission, OutcomeFollows, NoStop
  <2>7. SealedFiles'
    BY Zenon, <1>1, <2>1, <2>2, <2>3
    DEF NInv, NormalTypeOK, SealedFiles, NoStop
  <2>8. ListedCallsAreRunning'
    <3>1. \A u \in Tids : admission[u] \subseteq admission'[u]
      BY <1>1, <2>1 DEF NInv, NormalTypeOK
    <3>2. c \in admission'[t]
      BY <2>1 DEF NInv, NormalTypeOK
    <3>. QED  BY <1>1, <1>3, <3>1, <3>2 DEF NInv, ListedCallsAreRunning
  <2>. QED  BY <2>4, <2>5, <2>6, <2>7, <2>8 DEF NInv
<1>. QED  BY <1>2, <1>3, AdmissionEffect DEF Proxy, NInv
-----------------------------------------------------------------------------
(* The steps of a run that do not call the runtime.                        *)
LEMMA QuietNInv ==
    ASSUME NEW t \in Tids, NInv, IInv',
           SetupRun(t) \/ Observe(t) \/ Return(t) \/ Seal(t) \/ Finalize(t)
           \/ FinishMarker(t)
    PROVE  NInv'
<1>1. UNCHANGED <<admission, active, sealed_targets, outcome>>
  BY Zenon DEF SetupRun, Observe, Return, Seal, Finalize, FinishMarker, vars
<1>2. ListedCallsAreRunning'
  BY <1>1 DEF NInv, ListedCallsAreRunning
<1>3. CASE SetupRun(t)
  <2>. USE <1>3 DEF SetupRun, Moves, FileOf
  <2>1. NormalTypeOK'
    BY DEF NInv, NormalTypeOK, Places, FileStates
  <2>2. OneAdmission' /\ StopOrder' /\ OutcomeFollows'
    BY <1>1 DEF NInv, NormalTypeOK, OneAdmission, StopOrder, OutcomeFollows
  <2>3. \A c \in admission[t] : outcome[c] = "open"
    BY DEF NInv, StopOrder, OutcomeFollows, NormalTypeOK, StopStates
  <2>4. SealedFiles'
    BY <1>1, <2>3 DEF NInv, NormalTypeOK, OneAdmission, SealedFiles, StopOrder
  <2>. QED  BY Zenon, <1>2, <2>1, <2>2, <2>4 DEF NInv
<1>4. CASE Observe(t) \/ Return(t)
  <2>. USE <1>4 DEF Observe, Return, Moves
  <2>1. NormalTypeOK'
    BY DEF NInv, NormalTypeOK, Places
  <2>2. OneAdmission' /\ StopOrder' /\ OutcomeFollows' /\ SealedFiles'
    BY <1>1
    DEF NInv, NormalTypeOK, OneAdmission, StopOrder, OutcomeFollows, SealedFiles
  <2>. QED  BY <1>2, <2>1, <2>2 DEF NInv
<1>5. CASE Seal(t)
  <2>1. PICK ok \in BOOLEAN :
            /\ FileOf(t, IF ok THEN "stopped" ELSE "failed")
            /\ stop' = [stop EXCEPT ![t].seal_called = TRUE, ![t].sealed = ok]
    BY Zenon, <1>5 DEF Seal
  <2>2. /\ stop' \in [Tids -> StopStates]
        /\ stop'[t].seal_called /\ stop'[t].sealed = ok
        /\ stop'[t].acknowledged_sealed = stop[t].acknowledged_sealed
        /\ \A u \in Tids : u # t => stop'[u] = stop[u]
    BY Zenon, <2>1 DEF NInv, NormalTypeOK, StopStates
  <2>3. /\ at[t] = "observed" /\ at' = [at EXCEPT ![t] = "acknowledging"]
        /\ UNCHANGED finalized
        /\ file' = [c \in Call |-> IF c \in admission[t]
                                   THEN IF ok THEN "stopped" ELSE "failed"
                                   ELSE file[c]]
    BY <1>5, <2>1 DEF Seal, Moves, FileOf
  <2>4. NormalTypeOK'
    BY <1>1, <2>2, <2>3 DEF NInv, NormalTypeOK, Places, FileStates
  <2>5. ~stop[t].acknowledged_sealed
    BY <2>3 DEF NInv, StopOrder
  <2>6. OneAdmission' /\ StopOrder' /\ OutcomeFollows'
    BY <1>1, <2>2, <2>3, <2>5
    DEF NInv, NormalTypeOK, OneAdmission, StopOrder, OutcomeFollows
  <2>7. \A c \in admission[t] : outcome[c] = "open"
    BY Zenon, <2>3, <2>5 DEF NInv, OutcomeFollows
  <2>8. SealedFiles'
    BY <1>1, <2>2, <2>3, <2>7 DEF NInv, NormalTypeOK, OneAdmission, SealedFiles
  <2>. QED  BY <1>2, <2>4, <2>6, <2>8 DEF NInv
<1>6. CASE Finalize(t)
  <2>. USE <1>6 DEF Finalize, Moves, FileOf
  <2>1. NormalTypeOK'
    BY Zenon DEF NInv, NormalTypeOK, Places, FileStates, StopStates
  <2>2. OneAdmission' /\ StopOrder' /\ OutcomeFollows'
    BY <1>1 DEF NInv, NormalTypeOK, OneAdmission, StopOrder, OutcomeFollows
  <2>3. ~stop[t].seal_called => \A c \in admission[t] : outcome[c] = "open"
    BY Zenon DEF NInv, StopOrder, OutcomeFollows, NormalTypeOK, StopStates
  <2>4. SealedFiles'
    BY <1>1, <2>3 DEF NInv, NormalTypeOK, OneAdmission, SealedFiles, StopOrder
  <2>. QED  BY Zenon, <1>2, <2>1, <2>2, <2>4 DEF NInv
<1>7. CASE FinishMarker(t)
  <2>. USE <1>7 DEF FinishMarker, Moves
  <2>1. NormalTypeOK'
    BY DEF NInv, NormalTypeOK, Places
  <2>2. OneAdmission' /\ StopOrder' /\ OutcomeFollows' /\ SealedFiles'
    BY <1>1
    DEF NInv, NormalTypeOK, OneAdmission, StopOrder, OutcomeFollows, SealedFiles
  <2>. QED  BY <1>2, <2>1, <2>2 DEF NInv
<1>. QED  BY <1>3, <1>4, <1>5, <1>6, <1>7

(* The early completion: only a sealed file is acknowledged.               *)
LEMMA AcknowledgeNInv ==
    ASSUME NEW t \in Tids, NInv, IInv', Acknowledge(t) PROVE NInv'
<1>1. /\ stop' \in [Tids -> StopStates]
      /\ stop'[t].seal_called = stop[t].seal_called
      /\ stop'[t].sealed = stop[t].sealed
      /\ stop'[t].acknowledged_sealed = stop[t].sealed
      /\ \A u \in Tids : u # t => stop'[u] = stop[u]
  BY DEF Acknowledge, NInv, NormalTypeOK, StopStates
<1>2. /\ at[t] = "acknowledging" /\ at' = [at EXCEPT ![t] = "control"]
      /\ UNCHANGED <<admission, finalized, file>>
  BY DEF Acknowledge, Moves
<1>3. NormalTypeOK' /\ OneAdmission' /\ StopOrder'
  BY <1>1, <1>2
  DEF NInv, NormalTypeOK, OneAdmission, StopOrder, Places, StopStates
<1>4. \A c \in admission[t] : c \in Call /\ outcome[c] = "open"
  BY <1>2 DEF NInv, NormalTypeOK, StopOrder, OutcomeFollows
<1>5. CASE ~stop[t].sealed
  <2>1. UNCHANGED <<outcome, active, sealed_targets>>
    BY <1>5 DEF Acknowledge, vars
  <2>. QED
    BY <1>1, <1>2, <1>3, <1>4, <1>5, <2>1
    DEF NInv, NormalTypeOK, OutcomeFollows, SealedFiles, ListedCallsAreRunning
<1>6. CASE stop[t].sealed
  <2>1. PICK c \in admission[t] : CompleteCallLocked(c, TRUE, TRUE)
    BY Zenon, <1>6 DEF Acknowledge, AcknowledgeSealed
  <2>2. /\ active' \subseteq active
        /\ sealed_targets' \subseteq sealed_targets \union {c}
        /\ outcome' = [outcome EXCEPT ![c] = "sealed"]
    BY Zenon, <1>4, <2>1, CompletionEffect DEF NInv
  <2>3. outcome'[c] = "sealed" /\ \A d \in Call : d # c => outcome'[d] = outcome[d]
    BY Zenon, <1>4, <2>2 DEF NInv, IInv, TypeOK
  <2>4. file[c] = "stopped"
    BY <1>6 DEF NInv, SealedFiles
  <2>5. OutcomeFollows'
    <3>1. stop'[t].acknowledged_sealed /\ \A d \in admission[t] : d = c
      BY <1>1, <1>6 DEF NInv, OneAdmission
    <3>. QED
      BY <1>1, <1>2, <1>4, <2>3, <3>1
      DEF NInv, NormalTypeOK, OneAdmission, OutcomeFollows
  <2>6. SealedFiles'
    BY Zenon, <1>1, <1>2, <2>3, <2>4 DEF NInv, NormalTypeOK, SealedFiles
  <2>7. ListedCallsAreRunning'
    BY <1>2, <2>2 DEF NInv, ListedCallsAreRunning
  <2>. QED  BY <1>3, <2>5, <2>6, <2>7 DEF NInv
<1>. QED  BY <1>5, <1>6

(* The completion after the target: it repeats the acknowledgement or ends *)
(* what was never acknowledged, and never unseals.                         *)
LEMMA FinishNInv ==
    ASSUME NEW t \in Tids, NInv, IInv', Finish(t) PROVE NInv'
<1>1. /\ at[t] = "finish" /\ at' = [at EXCEPT ![t] = "target"]
      /\ UNCHANGED <<admission, stop, finalized, file>>
  BY DEF Finish, Moves
<1>2. PICK c \in admission[t], sealed, target_open \in BOOLEAN :
          /\ CompleteCallLocked(c, sealed, target_open)
          /\ sealed => stop[t].acknowledged_sealed
  BY Zenon DEF Finish, AcknowledgeSealed, FinishCall
<1>3. c \in Call
  BY DEF NInv, NormalTypeOK
<1>4. /\ outcome[c] = IF stop[t].acknowledged_sealed THEN "sealed" ELSE "open"
      /\ \A d \in admission[t] : d = c
  BY <1>1 DEF NInv, OutcomeFollows, OneAdmission
<1>5. /\ active' \subseteq active
      /\ sealed_targets' \subseteq sealed_targets \union {c}
      /\ outcome' = [outcome EXCEPT ![c] =
                        IF outcome[c] # "open" THEN outcome[c]
                        ELSE IF sealed THEN "sealed" ELSE "unsealed"]
  BY <1>2, <1>3, CompletionEffect DEF NInv
<1>6. /\ outcome'[c] = IF stop[t].acknowledged_sealed THEN "sealed" ELSE "unsealed"
      /\ \A d \in Call : d # c => outcome'[d] = outcome[d]
  BY Zenon, <1>2, <1>3, <1>4, <1>5 DEF NInv, IInv, TypeOK
<1>7. NormalTypeOK' /\ OneAdmission' /\ StopOrder'
  BY <1>1 DEF NInv, NormalTypeOK, OneAdmission, StopOrder, Places
<1>8. OutcomeFollows'
  BY <1>1, <1>4, <1>6 DEF NInv, NormalTypeOK, OneAdmission, OutcomeFollows
<1>9. SealedFiles'
  BY <1>1, <1>3, <1>4, <1>6 DEF NInv, NormalTypeOK, SealedFiles
<1>10. ListedCallsAreRunning'
  BY <1>1, <1>5 DEF NInv, ListedCallsAreRunning
<1>. QED  BY <1>7, <1>8, <1>9, <1>10 DEF NInv

(* The ways out of the proxy: whatever the run did, the call is then       *)
(* neither active nor a target that has not returned.                      *)
LEMMA LeaveNInv ==
    ASSUME NEW t \in Tids, NInv, IInv', FinishTarget(t) \/ ProxyFinishes(t)
    PROVE  NInv'
<1>1. /\ at[t] \in {"target", "refused"} /\ at' = [at EXCEPT ![t] = "out"]
      /\ admission' = [admission EXCEPT ![t] = {}]
      /\ UNCHANGED <<stop, finalized, file>>
  BY Zenon DEF FinishTarget, ProxyFinishes, Moves, Forget
<1>2. PICK c \in Call : admission[t] = {c} /\ c.tid = t
  BY <1>1 DEF NInv, NormalTypeOK, OneAdmission
<1>3. /\ \A d \in Call : d # c => outcome'[d] = outcome[d]
      /\ outcome'[c] = "sealed" => outcome[c] = "sealed"
      /\ (active \union sealed_targets)' \subseteq (active \union sealed_targets) \ {c}
  <2>1. CASE FinishTarget(t)
    <3>1. c \notin active /\ UNCHANGED <<active, outcome>>
      <4>1. outcome[c] # "open"
        BY <1>2, <2>1 DEF NInv, OutcomeFollows, FinishTarget, Moves
      <4>. QED  BY Zenon, <2>1, <4>1 DEF FinishTarget, FinishTargetCall, vars, NInv,
                                  IInv, ActiveIsOpen
    <3>2. sealed_targets' = sealed_targets \ {c}
      <4>1. CASE c \in sealed_targets
        <5>1. FinishTargetCall(c)
          BY Zenon, <1>2, <2>1, <4>1 DEF FinishTarget
        <5>2. Matching(c, sealed_targets) = {c}
          BY Zenon, <4>1, MatchingIsMembership DEF NInv, IInv, TypeOK
        <5>. QED  BY <5>1, <5>2 DEF FinishTargetCall
      <4>2. CASE c \notin sealed_targets
        BY Zenon, <1>2, <2>1, <4>2 DEF FinishTarget, vars
      <4>. QED  BY <4>1, <4>2
    <3>. QED  BY <3>1, <3>2
  <2>2. CASE ProxyFinishes(t)
    <3>1. CompleteCallLocked(c, FALSE, FALSE)
      BY Zenon, <1>2, <2>2 DEF ProxyFinishes, FinishCall
    <3>2. UNCHANGED sealed_targets
      BY <3>1 DEF CompleteCallLocked
    <3>3. outcome[c] = "open"
      BY Zenon, <1>2, <2>2 DEF NInv, OutcomeFollows, StopOrder, ProxyFinishes, Moves
    <3>4. c \notin sealed_targets
      BY <3>3 DEF NInv, IInv, TargetsAreSealed
    <3>5. /\ active' = active \ {c}
          /\ outcome' = [outcome EXCEPT ![c] = "unsealed"]
      BY Zenon, <3>1, <3>3, CompletionEffect DEF NInv
    <3>. QED  BY Zenon, <3>2, <3>4, <3>5 DEF NInv, IInv, TypeOK
  <2>. QED  BY <2>1, <2>2
<1>4. NormalTypeOK' /\ OneAdmission' /\ StopOrder'
  BY <1>1 DEF NInv, NormalTypeOK, OneAdmission, StopOrder, Places
<1>5. OutcomeFollows'
  BY <1>1, <1>2, <1>3 DEF NInv, NormalTypeOK, OneAdmission, OutcomeFollows
<1>6. SealedFiles'
  BY <1>1, <1>2, <1>3 DEF NInv, NormalTypeOK, SealedFiles
<1>7. ListedCallsAreRunning'
  <2>1. \A u \in Tids : u # t => admission'[u] = admission[u]
    BY <1>1 DEF NInv, NormalTypeOK
  <2>. QED  BY <1>2, <1>3, <2>1 DEF NInv, ListedCallsAreRunning
<1>. QED  BY <1>4, <1>5, <1>6, <1>7 DEF NInv

(* Every step of the proxies preserves the invariant.                      *)
LEMMA NextNInv == NInv /\ [NormalNext]_allvars => NInv'
<1>. SUFFICES ASSUME NInv, [NormalNext]_allvars PROVE NInv'
  OBVIOUS
<1>1. IInv'
  BY NormalStepIsRuntimeStep, NextIInv DEF NInv
<1>2. CASE RuntimeAlone
  <2>1. UNCHANGED <<active, sealed_targets, outcome>>
    BY <1>2, AloneEffect DEF RuntimeAlone, NInv
  <2>2. UNCHANGED <<at, admission, stop, finalized, file>>
    BY <1>2 DEF RuntimeAlone, nvars
  <2>. QED
    BY <1>1, <2>1, <2>2
    DEF NInv, NormalTypeOK, OneAdmission, StopOrder, OutcomeFollows,
        SealedFiles, ListedCallsAreRunning
<1>3. ASSUME NEW t \in Tids, Runs(t) PROVE NInv'
  BY <1>1, <1>3, QuietNInv, AcknowledgeNInv, FinishNInv, LeaveNInv DEF Runs
<1>4. ASSUME NEW t \in Tids, NEW s \in Scenes, Proxy(t, s) PROVE NInv'
  BY <1>1, <1>4, ProxyNInv
<1>5. CASE UNCHANGED allvars
  BY <1>1, <1>5
  DEF allvars, vars, nvars, NInv, NormalTypeOK, OneAdmission, StopOrder,
      OutcomeFollows, SealedFiles, ListedCallsAreRunning
<1>. QED  BY <1>2, <1>3, <1>4, <1>5 DEF NormalNext
-----------------------------------------------------------------------------
(* The inductive invariant of the normal captures.                         *)
THEOREM NormalInvariant == NormalSpec => []NInv
BY NormalInitNInv, NextNInv, PTL DEF NormalSpec

(* Sealed is never said of a generation one of whose files lacks its stop  *)
(* record, and no path through run_with_qbdi leaves an admission behind.   *)
THEOREM NormalStopTruth == NormalSpec => []NormalStopIsTruthful
<1>1. NInv => NormalStopIsTruthful
  <2>. SUFFICES ASSUME NInv, phase = "Sealed", NEW c \in open_at_stop
                PROVE  file[c] = "stopped"
    BY DEF NormalStopIsTruthful, SealedFilesAreSealed, NInv
  <2>1. token /\ c \in Call
    BY DEF NInv, IInv, TypeOK, TokenPhase
  <2>2. outcome[c] = "sealed"
    BY <2>1, TerminalTruth DEF TerminalOutcome, Terminal, NInv
  <2>. QED  BY <2>1, <2>2 DEF NInv, SealedFiles
<1>. QED  BY <1>1, NormalInvariant, PTL

(* The proxies use the runtime as its specification allows, so whatever is *)
(* proved of the runtime holds of a generation of normal captures.         *)
THEOREM NormalImplementsRuntime == NormalSpec => Spec
<1>1. NormalInit => Init
  BY DEF NormalInit
<1>2. NInv /\ [NormalNext]_allvars => [Next]_vars
  BY NormalStepIsRuntimeStep DEF NInv
<1>. QED  BY <1>1, <1>2, NormalInvariant, PTL DEF NormalSpec, Spec
=============================================================================

-------------------- MODULE TraceGenerationRuntimeProofs --------------------
(***************************************************************************)
(* Proofs about TraceGenerationRuntime for every set of scenes and threads,*)
(* every capacity and every number of admissions.  IInv is the inductive   *)
(* invariant; each of its parts says what one mechanism of the runtime     *)
(* keeps true.                                                             *)
(***************************************************************************)
EXTENDS TraceGenerationRuntime, FiniteSetTheorems, TLAPS

(* A serial that was handed out is below next_admission_serial_.           *)
SerialsFresh == \A c \in Call : Issued(c) => c.serial < next_serial

(* complete_call_locked works on one call, whose owner has ended it.       *)
CompletionPending ==
    /\ \A x, y \in completing : x = y
    /\ \A x \in completing :
          outcome[x.call] = IF x.sealed THEN "sealed" ELSE "unsealed"
    /\ mutex = "decide" => completing # {}

(* Only sealed captures wait in sealed_targets_ for their target's return. *)
TargetsAreSealed == \A c \in sealed_targets : outcome[c] = "sealed"

(* What the place of arm() says about the phase.                           *)
ArmOrder ==
    /\ phase = "Waiting" => active = {} /\ completing = {} /\ mutex # "publish"
    /\ phase # "Waiting" =>
          /\ arm_state # "Unarmed"
          /\ arm_state = "Arming" /\ Timed => worker # "none"
    /\ arm_state = "Failed" => phase = "StopIncomplete"

(* The token and the phase agree.                                          *)
TokenPhase ==
    /\ token <=> \/ phase \in {"StopRequested", "Stopping", "Sealed"}
                 \/ phase = "StopIncomplete" /\ arm_state # "Failed"
    /\ phase \in Terminal => active = {} /\ completing = {}
    /\ ~token => ~stop_incomplete
    /\ phase \in Terminal /\ token => (phase = "Sealed" <=> ~stop_incomplete)

(* A deadline that passed while the generation runs has somebody to see it.*)
PendingNoticed ==
    /\ worker \in {"none", "waiting"} => ~deadline_pending
    /\ deadline_pending /\ phase = "Running" =>
          worker = "pending" \/ mutex = "publish"

(* stop_incomplete_ records the unsealed captures among those open at the  *)
(* stop, except the one whose completion is not yet decided.               *)
StopTruth ==
    token =>
        /\ OpenCalls \subseteq open_at_stop
        /\ \A c \in open_at_stop : outcome[c] # "none"
        /\ stop_incomplete <=>
              \E c \in open_at_stop : /\ outcome[c] = "unsealed"
                                      /\ \A x \in completing : x.call # c

IInv == /\ TypeOK /\ SerialsFresh /\ ActiveIsOpen
        /\ CompletionPending /\ TargetsAreSealed /\ ArmOrder
        /\ TokenPhase /\ PendingNoticed /\ StopTruth /\ StoppingHasOwner
-----------------------------------------------------------------------------
(* An admission is found in a set of calls exactly when it is one of them: *)
(* scene, thread and serial determine it.                                  *)
LEMMA MatchingIsMembership ==
    ASSUME NEW c \in Call, NEW calls \in SUBSET Call
    PROVE  Matching(c, calls) = IF c \in calls THEN {c} ELSE {}
BY DEF Matching, Call

(* A runtime that was just constructed satisfies the invariant.            *)
LEMMA InitIInv == Init => IInv
<1>. SUFFICES ASSUME Init PROVE IInv
  OBVIOUS
<1>. USE DEF Init
<1>1. TypeOK
  <2>1. next_serial \in 1..(MaxSerial + 1)
    BY RuntimeAssumption
  <2>2. outcome \in [Call -> {"none", "open", "sealed", "unsealed"}]
    OBVIOUS
  <2>. QED
    BY Zenon, <2>1, <2>2 DEF TypeOK, ArmStates, Phases, MutexStates, WorkerStates
<1>2. SerialsFresh /\ ActiveIsOpen
  BY DEF SerialsFresh, ActiveIsOpen, Issued
<1>3. CompletionPending /\ TargetsAreSealed /\ ArmOrder
  BY DEF CompletionPending, TargetsAreSealed, ArmOrder
<1>4. TokenPhase /\ PendingNoticed /\ StopTruth /\ StoppingHasOwner
  BY DEF TokenPhase, PendingNoticed, StopTruth, StoppingHasOwner, Terminal,
         IsStopping
<1>. QED  BY <1>1, <1>2, <1>3, <1>4 DEF IInv

(* The deadline worker's critical section.                                 *)
LEMMA RequestDeadlineStopIInv == IInv /\ RequestDeadlineStop => IInv'
<1>. SUFFICES ASSUME IInv, RequestDeadlineStop PROVE IInv'
  OBVIOUS
<1>. USE DEF RequestDeadlineStop
<1>1. CASE StopDue
  <2>. USE <1>1 DEF PublishDeadlineStopLocked, StopDue, RequestToken
  <2>1. TypeOK'
    BY DEF IInv, TypeOK, Phases, WorkerStates, MutexStates, OpenCalls
  <2>2. (SerialsFresh /\ ActiveIsOpen /\ CompletionPending
          /\ TargetsAreSealed)'
    BY DEF IInv, SerialsFresh, ActiveIsOpen, CompletionPending,
           TargetsAreSealed, Issued
  <2>3. (ArmOrder /\ TokenPhase)'
    BY DEF IInv, TypeOK, ArmOrder, TokenPhase, Terminal
  <2>4. StopTruth'
    BY DEF IInv, TypeOK, TokenPhase, StopTruth, OpenCalls, ActiveIsOpen,
           CompletionPending, Call
  <2>5. (PendingNoticed /\ StoppingHasOwner)'
    BY DEF IInv, TypeOK, PendingNoticed, StoppingHasOwner
  <2>. QED  BY <2>1, <2>2, <2>3, <2>4, <2>5 DEF IInv
<1>2. CASE ~StopDue
  <2>. USE <1>2 DEF PublishDeadlineStopLocked, StopDue
  <2>1. TypeOK'
    BY DEF IInv, TypeOK, WorkerStates, MutexStates
  <2>2. (SerialsFresh /\ ActiveIsOpen /\ CompletionPending
          /\ TargetsAreSealed)'
    BY DEF IInv, SerialsFresh, ActiveIsOpen, CompletionPending,
           TargetsAreSealed, Issued
  <2>3. (ArmOrder /\ TokenPhase /\ StopTruth)'
    BY DEF IInv, TypeOK, ArmOrder, TokenPhase, Terminal, StopTruth, OpenCalls
  <2>4. (PendingNoticed /\ StoppingHasOwner)'
    BY DEF IInv, TypeOK, PendingNoticed, StoppingHasOwner
  <2>. QED  BY <2>1, <2>2, <2>3, <2>4 DEF IInv
<1>. QED  BY <1>1, <1>2

(* The second look at the deadline, in arm and in complete_call_locked.    *)
LEMMA RepublishIInv == IInv /\ Republish => IInv'
<1>. SUFFICES ASSUME IInv, Republish PROVE IInv'
  OBVIOUS
<1>. USE DEF Republish
<1>1. (SerialsFresh /\ ActiveIsOpen /\ CompletionPending
        /\ TargetsAreSealed)'
  BY DEF IInv, SerialsFresh, ActiveIsOpen, CompletionPending,
         TargetsAreSealed, Issued
<1>2. CASE StopDue
  <2>. USE <1>2 DEF PublishDeadlineStopLocked, StopDue, RequestToken
  <2>1. TypeOK'
    BY DEF IInv, TypeOK, Phases, MutexStates, OpenCalls
  <2>2. (ArmOrder /\ TokenPhase)'
    BY DEF IInv, TypeOK, ArmOrder, TokenPhase, Terminal
  <2>3. StopTruth'
    BY DEF IInv, TypeOK, TokenPhase, StopTruth, OpenCalls, ActiveIsOpen,
           CompletionPending, Call
  <2>4. (PendingNoticed /\ StoppingHasOwner)'
    BY DEF IInv, TypeOK, PendingNoticed, StoppingHasOwner
  <2>. QED  BY <1>1, <2>1, <2>2, <2>3, <2>4 DEF IInv
<1>3. CASE ~StopDue
  <2>. USE <1>3 DEF PublishDeadlineStopLocked, StopDue
  <2>1. TypeOK'
    BY DEF IInv, TypeOK, MutexStates
  <2>2. (ArmOrder /\ TokenPhase /\ StopTruth)'
    BY DEF IInv, TypeOK, ArmOrder, TokenPhase, Terminal, StopTruth, OpenCalls
  <2>3. (PendingNoticed /\ StoppingHasOwner)'
    BY DEF IInv, TypeOK, PendingNoticed, StoppingHasOwner
  <2>. QED  BY <1>1, <2>1, <2>2, <2>3 DEF IInv
<1>. QED  BY <1>2, <1>3

(* A call that finds the deadline pending only requests the stop; one that *)
(* is admitted gets a serial no other admission has.                       *)
LEMMA TryBeginCallIInv ==
    ASSUME NEW s \in Scenes, NEW t \in Tids, IInv, TryBeginCall(s, t)
    PROVE  IInv'
<1>. USE DEF TryBeginCall
<1>1. CASE RefuseCall
  <2>. USE <1>1 DEF RefuseCall, PublishDeadlineStopLocked, StopDue, RequestToken
  <2>1. TypeOK'
    BY DEF IInv, TypeOK, Phases, MutexStates, OpenCalls
  <2>2. (SerialsFresh /\ ActiveIsOpen /\ CompletionPending
          /\ TargetsAreSealed)'
    BY DEF IInv, SerialsFresh, ActiveIsOpen, CompletionPending,
           TargetsAreSealed, Issued
  <2>3. (ArmOrder /\ TokenPhase)'
    BY DEF IInv, TypeOK, ArmOrder, TokenPhase, Terminal
  <2>4. StopTruth'
    BY DEF IInv, TypeOK, TokenPhase, StopTruth, OpenCalls, ActiveIsOpen,
           CompletionPending, Call
  <2>5. (PendingNoticed /\ StoppingHasOwner)'
    BY DEF IInv, TypeOK, PendingNoticed, StoppingHasOwner
  <2>. QED  BY <2>1, <2>2, <2>3, <2>4, <2>5 DEF IInv
<1>2. CASE AdmitCall(s, t)
  <2>. DEFINE c == [scene |-> s, tid |-> t, serial |-> next_serial]
  <2>1. c \in Call /\ c.serial = next_serial
    BY <1>2, RuntimeAssumption DEF AdmitCall, Call, IInv, TypeOK
  <2>2. /\ active' = active \union {c}
        /\ outcome' = [outcome EXCEPT ![c] = "open"]
        /\ next_serial' = next_serial + 1
        /\ next_serial <= MaxSerial
        /\ phase = "Running" /\ ~deadline_pending
        /\ transition' = transition + 1
        /\ UNCHANGED <<token, phase, open_at_stop, mutex>>
    BY <1>2 DEF AdmitCall, PublishDeadlineStopLocked, StopDue
  <2>3. outcome[c] = "none"
    BY <2>1 DEF IInv, TypeOK, SerialsFresh, Issued
  <2>. HIDE DEF c
  <2>4. TypeOK'
    <3>1. next_serial' \in 1..(MaxSerial + 1)
      BY <2>2, RuntimeAssumption DEF IInv, TypeOK
    <3>. QED  BY <2>1, <2>2, <3>1 DEF IInv, TypeOK
  <2>5. SerialsFresh'
    BY <2>1, <2>2, RuntimeAssumption DEF IInv, TypeOK, SerialsFresh, Issued, Call
  <2>6. ActiveIsOpen'
    BY Zenon, <2>1, <2>2, <2>3 DEF IInv, TypeOK, ActiveIsOpen
  <2>7. (CompletionPending /\ TargetsAreSealed)'
    BY <2>1, <2>2, <2>3
    DEF IInv, TypeOK, CompletionPending, TargetsAreSealed
  <2>8. (ArmOrder /\ TokenPhase /\ StopTruth)'
    BY Zenon, <2>1, <2>2
    DEF IInv, TypeOK, ArmOrder, TokenPhase, Terminal, StopTruth
  <2>9. (PendingNoticed /\ StoppingHasOwner)'
    BY <2>1, <2>2
    DEF IInv, TypeOK, PendingNoticed, StoppingHasOwner, IsStopping
  <2>. QED  BY <2>4, <2>5, <2>6, <2>7, <2>8, <2>9 DEF IInv
<1>. QED  BY <1>1, <1>2

(* A completion that matches its admission moves it from active_calls_ to  *)
(* the completing thread; one that matches nothing is late or repeated.    *)
LEMMA CompleteCallIInv ==
    ASSUME NEW c \in Call, NEW sealed \in BOOLEAN, NEW target_open \in BOOLEAN,
           IInv, CompleteCallLocked(c, sealed, target_open)
    PROVE  IInv'
<1>. DEFINE x0 == [call |-> c, sealed |-> sealed]
            ended == IF sealed THEN "sealed" ELSE "unsealed"
<1>1. completing = {} /\ mutex = "free" /\ OpenCalls = active
  BY DEF CompleteCallLocked, IInv, TypeOK, OpenCalls
<1>2. /\ c \in active => outcome[c] = "open"
      /\ c \notin active => outcome[c] # "open"
  BY DEF IInv, ActiveIsOpen
<1>3. UNCHANGED <<arm_state, deadline_pending, stop_incomplete, next_serial,
                  worker, destroying>>
  BY DEF CompleteCallLocked
<1>4. CASE c \in active
  <2>1. Matching(c, active) = {c}
    BY <1>4, MatchingIsMembership DEF IInv, TypeOK
  <2>2. /\ active' = active \ {c}
        /\ sealed_targets' = IF target_open /\ sealed
                             THEN sealed_targets \union {c}
                             ELSE sealed_targets
        /\ completing' = {x0}
        /\ mutex' = "publish"
        /\ PublishDeadlineStopLocked(1)
        /\ outcome' = [outcome EXCEPT ![c] = ended]
    BY Zenon, <1>2, <1>4, <2>1 DEF CompleteCallLocked
  <2>3. /\ x0 \in [call : Call, sealed : BOOLEAN]
        /\ x0.call = c /\ x0.sealed = sealed
    OBVIOUS
  <2>4. outcome[c] = "open" /\ outcome'[c] = ended
    BY <1>2, <1>4, <2>2 DEF IInv, TypeOK
  <2>. HIDE DEF x0
  <2>5. \/ /\ deadline_pending /\ phase = "Running"
           /\ token' = TRUE /\ phase' = "StopRequested"
           /\ open_at_stop' = active /\ transition' = transition + 2
        \/ /\ ~(deadline_pending /\ phase = "Running")
           /\ transition' = transition + 1
           /\ UNCHANGED <<token, phase, open_at_stop>>
    BY <2>2, <1>1
    DEF PublishDeadlineStopLocked, StopDue, RequestToken, IInv, TypeOK
  <2>6. TypeOK'
    <3>1. outcome' \in [Call -> {"none", "open", "sealed", "unsealed"}]
      BY <2>2 DEF IInv, TypeOK
    <3>2. /\ active' \subseteq Call /\ sealed_targets' \subseteq Call
          /\ completing' \subseteq [call : Call, sealed : BOOLEAN]
      BY <2>2, <2>3 DEF IInv, TypeOK
    <3>3. /\ token' \in BOOLEAN /\ phase' \in Phases
          /\ open_at_stop' \subseteq Call
      BY Zenon, <2>5 DEF IInv, TypeOK, Phases
    <3>4. transition' \in Nat
      BY <2>5 DEF IInv, TypeOK
    <3>. QED
      BY <1>3, <2>2, <3>1, <3>2, <3>3, <3>4 DEF IInv, TypeOK, MutexStates
  <2>7. SerialsFresh' /\ ActiveIsOpen'
    BY <1>3, <2>2, <2>4
    DEF IInv, TypeOK, SerialsFresh, ActiveIsOpen, Issued
  <2>8. CompletionPending' /\ TargetsAreSealed'
    BY <2>2, <2>3, <2>4 DEF IInv, TypeOK, CompletionPending, TargetsAreSealed
  <2>9. ArmOrder' /\ TokenPhase'
    BY <1>3, <1>4, <2>2, <2>5
    DEF IInv, TypeOK, ArmOrder, TokenPhase, Terminal
  <2>10. StopTruth'
    <3>1. OpenCalls' = active
      BY <1>4, <2>2, <2>3 DEF OpenCalls
    <3>2. CASE token' /\ ~token
      BY Zenon, <1>3, <1>4, <2>2, <2>3, <2>4, <2>5, <3>1, <3>2
      DEF IInv, TypeOK, StopTruth, ActiveIsOpen, TokenPhase
    <3>3. CASE token' /\ token
      <4>1. phase # "Running" /\ UNCHANGED open_at_stop
        BY <3>3, <2>5 DEF IInv, TypeOK, TokenPhase
      <4>2. \A d \in Call : d # c => outcome'[d] = outcome[d]
        BY <2>2 DEF IInv, TypeOK
      <4>. QED
        BY <1>1, <1>3, <1>4, <2>2, <2>3, <2>4, <3>1, <3>3, <4>1, <4>2
        DEF IInv, TypeOK, StopTruth
    <3>. QED  BY <3>2, <3>3 DEF StopTruth
  <2>11. PendingNoticed' /\ StoppingHasOwner'
    BY <1>3, <2>2 DEF IInv, TypeOK, PendingNoticed, StoppingHasOwner
  <2>. QED  BY <2>6, <2>7, <2>8, <2>9, <2>10, <2>11 DEF IInv
<1>5. CASE c \notin active
  <2>1. Matching(c, active) = {}
    BY <1>5, MatchingIsMembership DEF IInv, TypeOK
  <2>2. /\ UNCHANGED <<active, sealed_targets, completing, mutex, outcome>>
        /\ PublishDeadlineStopLocked(0)
    BY <1>1, <1>2, <1>5, <2>1 DEF CompleteCallLocked, IInv, TypeOK
  <2>3. \/ /\ deadline_pending /\ phase = "Running"
           /\ token' = TRUE /\ phase' = "StopRequested"
           /\ open_at_stop' = active /\ transition' = transition + 1
        \/ /\ ~(deadline_pending /\ phase = "Running")
           /\ transition' = transition
           /\ UNCHANGED <<token, phase, open_at_stop>>
    BY <1>1, <2>2
    DEF PublishDeadlineStopLocked, StopDue, RequestToken, IInv, TypeOK
  <2>4. TypeOK'
    <3>1. /\ token' \in BOOLEAN /\ phase' \in Phases
          /\ open_at_stop' \subseteq Call
      BY Zenon, <2>3 DEF IInv, TypeOK, Phases
    <3>2. transition' \in Nat
      BY <2>3 DEF IInv, TypeOK
    <3>. QED  BY <1>3, <2>2, <3>1, <3>2 DEF IInv, TypeOK
  <2>5. SerialsFresh' /\ ActiveIsOpen' /\ CompletionPending' /\ TargetsAreSealed'
    BY <1>3, <2>2
    DEF IInv, SerialsFresh, ActiveIsOpen, Issued, CompletionPending,
        TargetsAreSealed
  <2>6. ArmOrder' /\ TokenPhase'
    BY <1>3, <2>2, <2>3 DEF IInv, TypeOK, ArmOrder, TokenPhase, Terminal
  <2>7. StopTruth'
    BY Zenon, <1>1, <1>3, <2>2, <2>3
    DEF IInv, TypeOK, StopTruth, TokenPhase, ActiveIsOpen, OpenCalls
  <2>8. PendingNoticed' /\ StoppingHasOwner'
    BY <1>1, <1>3, <2>2, <2>3
    DEF IInv, TypeOK, PendingNoticed, StoppingHasOwner, IsStopping
  <2>. QED  BY <2>4, <2>5, <2>6, <2>7, <2>8 DEF IInv
<1>. QED  BY <1>4, <1>5

(* Every critical section and every unlocked store of the runtime          *)
(* preserves the invariant: one step per action.                           *)
LEMMA NextIInv == IInv /\ [Next]_vars => IInv'
<1>. SUFFICES ASSUME IInv, [Next]_vars PROVE IInv'
  OBVIOUS
<1>. USE DEF IInv, TypeOK, SerialsFresh, ActiveIsOpen, CompletionPending,
             TargetsAreSealed, ArmOrder, TokenPhase, PendingNoticed, StopTruth,
             StoppingHasOwner, ArmStates, Phases, MutexStates, WorkerStates,
             Issued, Terminal, IsStopping, OpenCalls
<1>1. CASE ArmBegin
  BY Zenon, <1>1 DEF ArmBegin
<1>2. CASE ArmFail
  BY <1>2 DEF ArmFail
<1>3. CASE ArmStartDeadline
  BY Zenon, <1>3 DEF ArmStartDeadline
<1>4. CASE ArmRun
  BY <1>4 DEF ArmRun
<1>5. CASE ArmDone
  BY <1>5 DEF ArmDone
<1>6. CASE DeadlineExpires
  BY <1>6 DEF DeadlineExpires
<1>7. CASE RequestDeadlineStop
  BY Zenon, <1>7, RequestDeadlineStopIInv
<1>8. CASE DeadlineCancelled
  BY <1>8 DEF DeadlineCancelled
<1>9. CASE Republish
  BY Zenon, <1>9, RepublishIInv
<1>10. CASE Decide
  BY <1>10 DEF Decide
<1>11. CASE Settle
  BY <1>11 DEF Settle
<1>12. CASE RequestStop
  BY <1>12 DEF RequestStop, RequestToken
<1>13. CASE Destroy
  BY <1>13 DEF Destroy
<1>14. CASE \E s \in Scenes, t \in Tids : TryBeginCall(s, t)
  BY Zenon, <1>14, TryBeginCallIInv
<1>15. CASE \E c \in Call, sealed \in BOOLEAN : FinishCall(c, sealed)
  <2>1. PICK c \in Call, sealed \in BOOLEAN : FinishCall(c, sealed)
    BY Zenon, <1>15
  <2>. QED  BY Zenon, <2>1, CompleteCallIInv DEF FinishCall
<1>16. CASE \E c \in Call : AcknowledgeSealed(c)
  BY Zenon, <1>16, CompleteCallIInv DEF AcknowledgeSealed
<1>17. CASE \E c \in Call : FinishTargetCall(c)
  BY <1>17 DEF FinishTargetCall
<1>18. CASE UNCHANGED vars
  BY <1>18 DEF vars
<1>. QED
  BY Zenon, <1>1, <1>2, <1>3, <1>4, <1>5, <1>6, <1>7, <1>8, <1>9, <1>10, <1>11,
     <1>12, <1>13, <1>14, <1>15, <1>16, <1>17, <1>18
  DEF Next, ArmProceeds, DeadlineWorker, LockHolder, CallStep

(* What the callers of the runtime need to know of its operations.         *)

(* try_begin_call admits one call, which was never admitted before, or it  *)
(* leaves the calls as they are.                                           *)
LEMMA AdmissionEffect ==
    ASSUME NEW s \in Scenes, NEW t \in Tids, IInv, TryBeginCall(s, t)
    PROVE  /\ UNCHANGED sealed_targets
           /\ \/ UNCHANGED <<active, outcome>>
              \/ \E c \in Call : /\ c.tid = t /\ outcome[c] = "none"
                                 /\ active' \ active = {c}
                                 /\ active' = active \union {c}
                                 /\ outcome' = [outcome EXCEPT ![c] = "open"]
                                 /\ ~token /\ UNCHANGED token
<1>1. UNCHANGED sealed_targets
  BY DEF TryBeginCall
<1>2. CASE RefuseCall
  BY <1>1, <1>2 DEF RefuseCall
<1>3. CASE AdmitCall(s, t)
  <2>. DEFINE c == [scene |-> s, tid |-> t, serial |-> next_serial]
  <2>1. c \in Call /\ c.serial = next_serial /\ c.tid = t
    BY <1>3, RuntimeAssumption DEF AdmitCall, Call, IInv, TypeOK
  <2>2. /\ active' = active \union {c}
        /\ outcome' = [outcome EXCEPT ![c] = "open"]
        /\ phase = "Running" /\ UNCHANGED token
    BY <1>3 DEF AdmitCall, PublishDeadlineStopLocked, StopDue
  <2>. HIDE DEF c
  <2>3. outcome[c] = "none"
    BY <2>1 DEF IInv, TypeOK, SerialsFresh, Issued
  <2>4. c \notin active
    BY <2>3 DEF IInv, ActiveIsOpen
  <2>5. ~token
    BY Zenon, <2>2 DEF IInv, TypeOK, TokenPhase
  <2>. QED  BY Zenon, <1>1, <2>1, <2>2, <2>3, <2>4, <2>5
<1>. QED  BY <1>2, <1>3 DEF TryBeginCall

(* A completion ends the admission it names, if it is still open, and no   *)
(* other; only a sealed one can wait for its target.                       *)
LEMMA CompletionEffect ==
    ASSUME NEW c \in Call, NEW sealed \in BOOLEAN, NEW target_open \in BOOLEAN,
           IInv, CompleteCallLocked(c, sealed, target_open)
    PROVE  /\ mutex = "free"
           /\ active' = active \ {c}
           /\ sealed_targets' \subseteq sealed_targets \union {c}
           /\ outcome' = [outcome EXCEPT ![c] =
                             IF outcome[c] # "open" THEN outcome[c]
                             ELSE IF sealed THEN "sealed" ELSE "unsealed"]
<1>1. Matching(c, active) = IF c \in active THEN {c} ELSE {}
  BY MatchingIsMembership DEF IInv, TypeOK
<1>2. outcome' = [outcome EXCEPT ![c] =
                    IF outcome[c] # "open" THEN outcome[c]
                    ELSE IF sealed THEN "sealed" ELSE "unsealed"]
  BY Zenon DEF CompleteCallLocked
<1>3. /\ mutex = "free"
      /\ active' = active \ Matching(c, active)
      /\ sealed_targets' = IF target_open /\ sealed
                           THEN sealed_targets \union Matching(c, active)
                           ELSE sealed_targets
  BY DEF CompleteCallLocked
<1>. QED  BY <1>1, <1>2, <1>3

(* The steps the runtime takes by itself, in arm, in its deadline worker   *)
(* and under its lock, open and end no call.                               *)
LEMMA AloneEffect ==
    ASSUME ArmBegin \/ ArmProceeds \/ DeadlineWorker \/ LockHolder
    PROVE  UNCHANGED <<active, sealed_targets, outcome>>
BY Zenon DEF ArmBegin, ArmProceeds, ArmFail, ArmStartDeadline, ArmRun, ArmDone,
       DeadlineWorker, DeadlineExpires, RequestDeadlineStop, DeadlineCancelled,
       LockHolder, Republish, Decide, Settle

(* The steps the phase can take.                                           *)
LEMMA PhaseSteps ==
    ASSUME IInv, [Next]_vars, phase' # phase
    PROVE  \/ phase = "Waiting" /\ phase' \in {"Running", "StopIncomplete"}
           \/ phase = "Running" /\ phase' = "StopRequested"
           \/ phase = "StopRequested" /\ phase' = "Stopping"
           \/ IsStopping(phase) /\ phase' \in Terminal
BY ZenonT(30)
   DEF Next, vars, ArmBegin, ArmProceeds, ArmFail, ArmStartDeadline, ArmRun, ArmDone,
       DeadlineWorker, DeadlineExpires, RequestDeadlineStop,
       DeadlineCancelled, LockHolder, Republish, Decide, Settle, RequestStop,
       Destroy, TryBeginCall, RefuseCall, AdmitCall, CallStep, FinishCall,
       AcknowledgeSealed, CompleteCallLocked, FinishTargetCall,
       PublishDeadlineStopLocked, StopDue, RequestToken, Terminal, IsStopping,
       IInv, ArmOrder

(* The stop token is never taken back, and what was open when it was       *)
(* requested is settled then.                                              *)
LEMMA StopStays ==
    ASSUME IInv, [Next]_vars, token PROVE token' /\ UNCHANGED open_at_stop
<1>1. phase # "Running"
  BY DEF IInv, TokenPhase
<1>. QED
  BY Zenon, <1>1
  DEF Next, vars, ArmBegin, ArmProceeds, ArmFail, ArmStartDeadline, ArmRun,
      ArmDone, DeadlineWorker, DeadlineExpires, RequestDeadlineStop,
      DeadlineCancelled, LockHolder, Republish, Decide, Settle, RequestStop,
      Destroy, TryBeginCall, RefuseCall, AdmitCall, CallStep, FinishCall,
      AcknowledgeSealed, CompleteCallLocked, FinishTargetCall,
      PublishDeadlineStopLocked, StopDue, RequestToken
(* transition_sequence_ counts up, with every change of the phase, the     *)
(* token and the calls.                                                    *)
LEMMA ChangeIsNoted ==
    ASSUME IInv, [Next]_vars
    PROVE  \/ transition' \in Nat /\ transition' > transition
           \/ UNCHANGED <<phase, token, active, sealed_targets, transition>>
<1>1. transition \in Nat /\ active \subseteq Call
  BY DEF IInv, TypeOK
<1>2. CASE \E c \in Call, sealed, target_open \in BOOLEAN :
             CompleteCallLocked(c, sealed, target_open)
  BY <1>1, <1>2
  DEF CompleteCallLocked, PublishDeadlineStopLocked, RequestToken
<1>3. CASE ArmBegin \/ ArmProceeds \/ DeadlineExpires \/ DeadlineCancelled
           \/ Destroy \/ UNCHANGED vars
  BY <1>1, <1>3
  DEF ArmBegin, ArmProceeds, ArmFail, ArmStartDeadline, ArmRun, ArmDone,
      DeadlineExpires, DeadlineCancelled, Destroy, vars
<1>4. CASE RequestDeadlineStop \/ RequestStop \/ Republish
  BY <1>1, <1>4
  DEF RequestDeadlineStop, RequestStop, Republish, PublishDeadlineStopLocked,
      RequestToken
<1>5. CASE Decide \/ Settle
  BY <1>1, <1>5 DEF Decide, Settle
<1>6. CASE \E s \in Scenes, t \in Tids : TryBeginCall(s, t)
  BY <1>1, <1>6
  DEF TryBeginCall, RefuseCall, AdmitCall, PublishDeadlineStopLocked,
      RequestToken
<1>7. CASE \E c \in Call : FinishTargetCall(c)
  BY <1>1, <1>7 DEF FinishTargetCall
<1>. QED
  BY Zenon, <1>2, <1>3, <1>4, <1>5, <1>6, <1>7
  DEF Next, DeadlineWorker, LockHolder, CallStep, FinishCall,
      AcknowledgeSealed
-----------------------------------------------------------------------------
(* The inductive invariant holds in every reachable state of the runtime.  *)
THEOREM RuntimeInvariant == Spec => []IInv
BY InitIInv, NextIInv, PTL DEF Spec

(* Every reachable state is well typed, whatever the constants are.        *)
THEOREM TypeCorrect == Spec => []TypeOK
BY RuntimeInvariant, PTL DEF IInv

(* active_calls_ holds exactly the admissions whose owner has not completed*)
(* them: a late or repeated completion removes no other admission.         *)
THEOREM ActiveCallsAreOpen == Spec => []ActiveIsOpen
BY RuntimeInvariant, PTL DEF IInv

(* A stop whose last call is gone always has a thread that will complete   *)
(* it, so complete_stop_if_idle_locked is never skipped for good.          *)
THEOREM StopIsOwned == Spec => []StoppingHasOwner
BY RuntimeInvariant, PTL DEF IInv

(* A terminal phase of a state the invariant allows is the truth.          *)
LEMMA TerminalTruth == IInv => TerminalOutcome
<1>. SUFFICES ASSUME IInv, phase \in Terminal, token PROVE TerminalOutcome
  BY DEF TerminalOutcome
<1>1. active = {} /\ completing = {}
  BY DEF IInv, TokenPhase
<1>2. \A c \in open_at_stop : outcome[c] \in {"sealed", "unsealed"}
  BY Zenon, <1>1 DEF IInv, TypeOK, StopTruth, ActiveIsOpen
<1>3. stop_incomplete <=> \E c \in open_at_stop : outcome[c] = "unsealed"
  BY Zenon, <1>1 DEF IInv, StopTruth
<1>4. phase = "Sealed" <=> ~stop_incomplete
  BY DEF IInv, TokenPhase
<1>. QED  BY <1>1, <1>2, <1>3, <1>4 DEF TerminalOutcome

(* The terminal phase tells the truth about the captures open at the stop. *)
THEOREM TerminalIsTruthful == Spec => []TerminalOutcome
BY TerminalTruth, RuntimeInvariant, PTL

(* The phase only moves forward.                                           *)
THEOREM PhaseNeverReturns == Spec => PhaseMonotone
<1>1. ASSUME IInv, [Next]_vars
      PROVE  [phase' # phase => PhaseRank[phase'] > PhaseRank[phase]]_vars
  BY <1>1, PhaseSteps DEF PhaseRank, Phases, IsStopping, Terminal
<1>. QED  BY <1>1, RuntimeInvariant, PTL DEF Spec, PhaseMonotone

(* No call is admitted after the deadline became pending or the stop was   *)
(* requested, although neither is published under the same lock.           *)
THEOREM DeadlineClosesAdmission == Spec => NoAdmissionAfterDeadline
<1>1. ASSUME IInv, [Next]_vars
      PROVE  [~(active' \subseteq active) => ~deadline_pending /\ ~token]_vars
  <2>. SUFFICES ASSUME Next, ~(active' \subseteq active)
                PROVE  ~deadline_pending /\ ~token
    BY <1>1
  <2>1. PICK s \in Scenes, t \in Tids : AdmitCall(s, t)
    BY Zenon DEF Next, ArmBegin, ArmProceeds, ArmFail, ArmStartDeadline, ArmRun,
           ArmDone, DeadlineWorker, DeadlineExpires, RequestDeadlineStop,
           DeadlineCancelled, LockHolder, Republish, Decide, Settle,
           RequestStop, Destroy, TryBeginCall, RefuseCall, CallStep, FinishCall,
           AcknowledgeSealed, CompleteCallLocked, FinishTargetCall
  <2>2. phase = "Running" /\ ~deadline_pending
    BY Zenon, <2>1 DEF AdmitCall, StopDue
  <2>. QED  BY <1>1, <2>2 DEF IInv, TypeOK, TokenPhase
<1>. QED  BY <1>1, RuntimeInvariant, PTL DEF Spec, NoAdmissionAfterDeadline

(* Every change of phase, active_calls_ or sealed_targets_ advances        *)
(* transition_sequence_, the only thing the status worker watches.         *)
THEOREM EveryChangeIsNoted == Spec => ChangesAreNoted
<1>1. ASSUME IInv, [Next]_vars
      PROVE  [<<phase, active, sealed_targets>>'
                  # <<phase, active, sealed_targets>>
                => transition' > transition]_vars
  BY <1>1, ChangeIsNoted
<1>. QED  BY <1>1, RuntimeInvariant, PTL DEF Spec, ChangesAreNoted
-----------------------------------------------------------------------------
(* The arrays never overflow.                                              *)
Bounded == /\ IsFiniteSet(active) /\ IsFiniteSet(sealed_targets)
           /\ TargetsUniqueAndBounded

(* try_begin_call looks at both tables before it adds an entry, so that a  *)
(* new call keeps them unique and within the capacity.                     *)
LEMMA AdmitBounded ==
    ASSUME NEW s \in Scenes, NEW t \in Tids, IInv, Bounded, AdmitCall(s, t),
           UNCHANGED sealed_targets
    PROVE  Bounded'
<1>. DEFINE c == [scene |-> s, tid |-> t, serial |-> next_serial]
<1>1. /\ active' = active \union {c}
      /\ c.scene = s /\ c.tid = t
      /\ \A d \in active \union sealed_targets : ~(d.scene = s /\ d.tid = t)
      /\ ~(Cardinality(active) + Cardinality(sealed_targets) >= ActiveCapacity)
  BY Zenon DEF AdmitCall, InUse, AtCapacity
<1>. HIDE DEF c
<1>2. c \notin active /\ c \notin sealed_targets
  BY <1>1
<1>3. /\ IsFiniteSet(active')
      /\ Cardinality(active') = Cardinality(active) + 1
  BY <1>1, <1>2, FS_AddElement DEF Bounded
<1>4. Cardinality(active) \in Nat /\ Cardinality(sealed_targets) \in Nat
  BY FS_CardinalityType DEF Bounded
<1>5. Cardinality(active') + Cardinality(sealed_targets') <= ActiveCapacity
  BY <1>1, <1>3, <1>4, RuntimeAssumption
<1>6. active' \intersect sealed_targets' = {}
  BY <1>1, <1>2 DEF Bounded, TargetsUniqueAndBounded
<1>7. \A d, f \in active' \union sealed_targets' :
         d.scene = f.scene /\ d.tid = f.tid => d = f
  BY <1>1 DEF Bounded, TargetsUniqueAndBounded
<1>. QED  BY <1>3, <1>5, <1>6, <1>7 DEF Bounded, TargetsUniqueAndBounded

(* complete_call_locked removes a call, and moves it to the sealed targets *)
(* at most: the two tables together do not grow.                           *)
LEMMA CompleteBounded ==
    ASSUME NEW c \in Call, NEW sealed \in BOOLEAN, NEW target_open \in BOOLEAN,
           IInv, Bounded, CompleteCallLocked(c, sealed, target_open)
    PROVE  Bounded'
<1>1. CASE c \notin active
  <2>1. Matching(c, active) = {}
    BY Zenon, <1>1, MatchingIsMembership DEF IInv, TypeOK
  <2>2. UNCHANGED <<active, sealed_targets>>
    BY Zenon, <2>1 DEF CompleteCallLocked
  <2>. QED  BY <2>2 DEF Bounded, TargetsUniqueAndBounded
<1>2. CASE c \in active
  <2>1. Matching(c, active) = {c}
    BY <1>2, MatchingIsMembership DEF IInv, TypeOK
  <2>2. /\ active' = active \ {c}
        /\ \/ sealed_targets' = sealed_targets
           \/ sealed_targets' = sealed_targets \union {c}
    BY Zenon, <2>1 DEF CompleteCallLocked
  <2>3. c \notin sealed_targets
    BY <1>2 DEF Bounded, TargetsUniqueAndBounded
  <2>4. /\ IsFiniteSet(active')
        /\ Cardinality(active') = Cardinality(active) - 1
    BY <1>2, <2>2, FS_RemoveElement DEF Bounded
  <2>5. /\ IsFiniteSet(sealed_targets \union {c})
        /\ Cardinality(sealed_targets \union {c})
             = Cardinality(sealed_targets) + 1
    BY Zenon, <2>3, FS_AddElement DEF Bounded
  <2>6. Cardinality(active) \in Nat /\ Cardinality(sealed_targets) \in Nat
    BY FS_CardinalityType DEF Bounded
  <2>7. Cardinality(active') + Cardinality(sealed_targets') <= ActiveCapacity
    <3>1. Cardinality(active) + Cardinality(sealed_targets) <= ActiveCapacity
      BY DEF Bounded, TargetsUniqueAndBounded
    <3>2. \/ Cardinality(sealed_targets') = Cardinality(sealed_targets)
          \/ Cardinality(sealed_targets') = Cardinality(sealed_targets) + 1
      BY <2>2, <2>5
    <3>. QED  BY <2>4, <2>6, <3>1, <3>2, RuntimeAssumption
  <2>8. /\ active' \intersect sealed_targets' = {}
        /\ active' \union sealed_targets' \subseteq active \union sealed_targets
    BY Zenon, <1>2, <2>2, <2>3 DEF Bounded, TargetsUniqueAndBounded
  <2>. QED
    BY Zenon, <2>2, <2>4, <2>5, <2>7, <2>8 DEF Bounded, TargetsUniqueAndBounded
<1>. QED  BY <1>1, <1>2

(* No step of the runtime exceeds the capacity of the fixed tables.        *)
LEMMA NextBounded == IInv /\ Bounded /\ [Next]_vars => Bounded'
<1>. SUFFICES ASSUME IInv, Bounded, [Next]_vars PROVE Bounded'
  OBVIOUS
<1>1. CASE UNCHANGED <<active, sealed_targets>>
  BY <1>1 DEF Bounded, TargetsUniqueAndBounded
<1>2. CASE \E s \in Scenes, t \in Tids : TryBeginCall(s, t)
  BY <1>1, <1>2, AdmitBounded DEF TryBeginCall, RefuseCall
<1>3. CASE \E c \in Call, sealed, target_open \in BOOLEAN :
             CompleteCallLocked(c, sealed, target_open)
  BY <1>3, CompleteBounded
<1>4. CASE \E c \in Call : FinishTargetCall(c)
  <2>1. PICK c \in Call : FinishTargetCall(c)
    BY <1>4
  <2>2. c \in sealed_targets /\ sealed_targets' = sealed_targets \ {c}
    BY Zenon, <2>1, MatchingIsMembership DEF FinishTargetCall, IInv, TypeOK
  <2>3. /\ IsFiniteSet(sealed_targets')
        /\ Cardinality(sealed_targets') = Cardinality(sealed_targets) - 1
    BY <2>2, FS_RemoveElement DEF Bounded
  <2>4. active' = active
    BY <2>1 DEF FinishTargetCall
  <2>5. Cardinality(active) \in Nat /\ Cardinality(sealed_targets) \in Nat
    BY FS_CardinalityType DEF Bounded
  <2>6. Cardinality(active) + Cardinality(sealed_targets) <= ActiveCapacity
    BY DEF Bounded, TargetsUniqueAndBounded
  <2>7. Cardinality(active') + Cardinality(sealed_targets') <= ActiveCapacity
    BY <2>3, <2>4, <2>5, <2>6, RuntimeAssumption
  <2>. QED
    BY Zenon, <2>2, <2>3, <2>4, <2>7 DEF Bounded, TargetsUniqueAndBounded
<1>5. CASE ArmBegin \/ ArmProceeds \/ DeadlineWorker \/ LockHolder
           \/ RequestStop \/ Destroy \/ UNCHANGED vars
  BY Zenon, <1>1, <1>5
  DEF ArmBegin, ArmProceeds, ArmFail, ArmStartDeadline, ArmRun, ArmDone,
      DeadlineWorker, DeadlineExpires, RequestDeadlineStop, DeadlineCancelled,
      LockHolder, Republish, Decide, Settle, RequestStop, Destroy, vars
<1>. QED
  BY Zenon, <1>2, <1>3, <1>4, <1>5
  DEF Next, CallStep, FinishCall, AcknowledgeSealed

(* The fixed arrays of the runtime never hold more than active_capacity_   *)
(* calls, and never two of the same scene and thread.                      *)
THEOREM TargetsStayBounded == Spec => []TargetsUniqueAndBounded
<1>1. Init => Bounded
  BY FS_EmptySet, RuntimeAssumption DEF Init, Bounded, TargetsUniqueAndBounded
<1>2. Bounded => TargetsUniqueAndBounded
  BY DEF Bounded
<1>. QED  BY <1>1, <1>2, NextBounded, RuntimeInvariant, PTL DEF Spec

-----------------------------------------------------------------------------
(* The refinement: which abstract step each step of the runtime is.        *)
LEMMA StageValues ==
    /\ StageOf["Waiting"] = "waiting" /\ StageOf["Running"] = "running"
    /\ StageOf["StopRequested"] = "stopping" /\ StageOf["Stopping"] = "stopping"
    /\ StageOf["Sealed"] = "sealed" /\ StageOf["StopIncomplete"] = "incomplete"
BY DEF StageOf, Phases

(* A stop that leaves the calls and the outcome alone is the Stop of the   *)
(* abstract lifecycle.                                                     *)
LEMMA StopRefines ==
    ASSUME phase = "Running", phase' = "StopRequested",
           OpenCalls' = OpenCalls, UNCHANGED stop_incomplete
    PROVE  Lifecycle!Next
BY StageValues DEF Lifecycle!Next, Lifecycle!Stop

(* A step that changes neither the phase nor the open calls nor the        *)
(* outcome is invisible to the abstract lifecycle.                         *)
LEMMA StutterRefines ==
    ASSUME UNCHANGED phase, OpenCalls' = OpenCalls, UNCHANGED stop_incomplete
    PROVE  UNCHANGED Lifecycle!vars
BY DEF Lifecycle!vars

(* publish_deadline_stop_locked requests the stop or does nothing.         *)
LEMMA PublishRefines ==
    ASSUME NEW notes, PublishDeadlineStopLocked(notes),
           OpenCalls' = OpenCalls, UNCHANGED stop_incomplete
    PROVE  [Lifecycle!Next]_Lifecycle!vars
BY StopRefines, StutterRefines
DEF PublishDeadlineStopLocked, StopDue, RequestToken

(* The last part of complete_call_locked ends the call in the abstract     *)
(* lifecycle, and with it the stop when it was the last.                   *)
LEMMA DecideRefines ==
    ASSUME IInv, Decide
    PROVE  [Lifecycle!Next]_Lifecycle!vars
<1>1. PICK x \in completing : completing = {x}
  BY Zenon DEF Decide, IInv, CompletionPending
<1>2. x.call \in Call /\ x.sealed \in BOOLEAN
  BY <1>1 DEF IInv, TypeOK
<1>3. x.call \notin active
  BY <1>1, <1>2 DEF IInv, CompletionPending, ActiveIsOpen
<1>4. OpenCalls = active \union {x.call} /\ OpenCalls' = active
  BY Zenon, <1>1 DEF OpenCalls, Decide
<1>5. StageOf[phase'] = StageOf[phase]
  BY StageValues DEF Decide, IsStopping
<1>6. IsStopping(phase) <=> StageOf[phase] = "stopping"
  BY Zenon, StageValues DEF IInv, TypeOK, Phases, IsStopping
<1>7. stop_incomplete' = (stop_incomplete
                            \/ (StageOf[phase] = "stopping" /\ ~x.sealed))
  BY Zenon, <1>1, <1>2, <1>6 DEF Decide, IInv, TypeOK
<1>8. Lifecycle!End(x.call, x.sealed)
  BY <1>3, <1>4, <1>5, <1>7 DEF Lifecycle!End
<1>. QED  BY <1>2, <1>8 DEF Lifecycle!Next

(* The first part of complete_call_locked takes the call out of the table; *)
(* the abstract lifecycle sees it as open until the decision.              *)
LEMMA CompleteRefines ==
    ASSUME NEW c \in Call, NEW sealed \in BOOLEAN, NEW target_open \in BOOLEAN,
           IInv, CompleteCallLocked(c, sealed, target_open)
    PROVE  [Lifecycle!Next]_Lifecycle!vars
<1>1. completing = {} /\ OpenCalls = active
  BY Zenon DEF CompleteCallLocked, IInv, TypeOK, OpenCalls
<1>2. /\ active' = active \ Matching(c, active)
      /\ completing' = {[call |-> a, sealed |-> sealed] :
                             a \in Matching(c, active)}
  BY Zenon DEF CompleteCallLocked
<1>3. Matching(c, active) \subseteq active
  BY DEF Matching
<1>4. OpenCalls' = active
  <2>. DEFINE found == Matching(c, active)
  <2>1. \A a \in found : [call |-> a, sealed |-> sealed].call = a
    OBVIOUS
  <2>2. completing' = {[call |-> a, sealed |-> sealed] : a \in found}
    BY Zenon, <1>2
  <2>. HIDE DEF found
  <2>3. {x.call : x \in completing'} = found
    BY Zenon, <2>1, <2>2
  <2>. QED  BY Zenon, <1>2, <1>3, <2>3 DEF OpenCalls, found
<1>5. UNCHANGED stop_incomplete
      /\ \E notes : PublishDeadlineStopLocked(notes)
  BY Zenon DEF CompleteCallLocked
<1>. QED  BY <1>1, <1>4, <1>5, PublishRefines

(* try_begin_call admits, refuses, or notices the deadline.                *)
LEMMA AdmitRefines ==
    ASSUME NEW s \in Scenes, NEW t \in Tids, IInv, TryBeginCall(s, t)
    PROVE  [Lifecycle!Next]_Lifecycle!vars
<1>1. CASE RefuseCall
  BY Zenon, <1>1, PublishRefines DEF TryBeginCall, RefuseCall, OpenCalls
<1>2. CASE AdmitCall(s, t)
  <2>. DEFINE c == [scene |-> s, tid |-> t, serial |-> next_serial]
  <2>1. c \in Call /\ c.serial = next_serial
    BY <1>2, RuntimeAssumption DEF AdmitCall, Call, IInv, TypeOK
  <2>2. /\ active' = active \union {c} /\ completing = {}
        /\ phase = "Running" /\ phase' = phase
        /\ UNCHANGED <<completing, stop_incomplete>>
    BY Zenon, <1>2
    DEF TryBeginCall, AdmitCall, PublishDeadlineStopLocked, StopDue, IInv, TypeOK
  <2>3. c \notin active
    BY <2>1 DEF IInv, TypeOK, SerialsFresh, Issued, ActiveIsOpen
  <2>. HIDE DEF c
  <2>4. OpenCalls = active /\ OpenCalls' = active \union {c}
    BY <2>2 DEF OpenCalls
  <2>5. Lifecycle!Admit(c)
    BY <2>2, <2>3, <2>4, StageValues DEF Lifecycle!Admit
  <2>. QED  BY <2>1, <2>5 DEF Lifecycle!Next
<1>. QED  BY <1>1, <1>2 DEF TryBeginCall

(* Every step of the runtime is a step of the abstract lifecycle or        *)
(* invisible to it.                                                        *)
LEMMA NextRefines == IInv /\ [Next]_vars => [Lifecycle!Next]_Lifecycle!vars
<1>. SUFFICES ASSUME IInv, [Next]_vars PROVE [Lifecycle!Next]_Lifecycle!vars
  OBVIOUS
<1>1. CASE ArmBegin \/ ArmStartDeadline \/ ArmDone \/ DeadlineExpires
           \/ DeadlineCancelled \/ Destroy \/ UNCHANGED vars
  BY Zenon, <1>1, StutterRefines
  DEF ArmBegin, ArmStartDeadline, ArmDone, DeadlineExpires, DeadlineCancelled,
      Destroy, OpenCalls, vars
<1>2. CASE ArmFail
  <2>1. phase = "Waiting" /\ phase' = "StopIncomplete"
        /\ OpenCalls' = OpenCalls /\ UNCHANGED stop_incomplete
    BY Zenon, <1>2 DEF ArmFail, IInv, ArmOrder, OpenCalls
  <2>. QED  BY <2>1, StageValues DEF Lifecycle!Next, Lifecycle!FailToStart
<1>3. CASE ArmRun
  <2>1. phase = "Waiting" /\ phase' = "Running"
        /\ OpenCalls' = OpenCalls /\ UNCHANGED stop_incomplete
    BY <1>3 DEF ArmRun, OpenCalls
  <2>. QED  BY <2>1, StageValues DEF Lifecycle!Next, Lifecycle!Start
<1>4. CASE RequestDeadlineStop
  BY Zenon, <1>4, PublishRefines DEF RequestDeadlineStop, OpenCalls
<1>5. CASE Republish
  BY <1>5, PublishRefines DEF Republish, OpenCalls
<1>6. CASE RequestStop
  BY Zenon, <1>6, StopRefines DEF RequestStop, RequestToken, OpenCalls
<1>7. CASE Decide
  BY <1>7, DecideRefines
<1>8. CASE Settle
  <2>1. OpenCalls' = OpenCalls /\ OpenCalls = active
        /\ UNCHANGED stop_incomplete /\ stop_incomplete \in BOOLEAN
    BY Zenon, <1>8 DEF Settle, IInv, TypeOK, OpenCalls
  <2>2. CASE active = {} /\ IsStopping(phase)
    <3>1. phase' = IF stop_incomplete THEN "StopIncomplete" ELSE "Sealed"
      BY <1>8, <2>2 DEF Settle
    <3>2. StageOf[phase] = "stopping"
      BY <2>2, StageValues DEF IsStopping
    <3>3. StageOf[phase'] = IF stop_incomplete THEN "incomplete" ELSE "sealed"
      BY <3>1, StageValues
    <3>. QED
      BY <2>1, <2>2, <3>2, <3>3 DEF Lifecycle!Next, Lifecycle!Finish
  <2>3. CASE ~(active = {} /\ IsStopping(phase))
    BY <1>8, <2>1, <2>3, StutterRefines DEF Settle
  <2>. QED  BY <2>2, <2>3
<1>9. CASE \E s \in Scenes, t \in Tids : TryBeginCall(s, t)
  BY <1>9, AdmitRefines
<1>10. CASE \E c \in Call, sealed, target_open \in BOOLEAN :
             CompleteCallLocked(c, sealed, target_open)
  BY <1>10, CompleteRefines
<1>11. CASE \E c \in Call : FinishTargetCall(c)
  BY Zenon, <1>11, StutterRefines DEF FinishTargetCall, OpenCalls
<1>. QED
  BY Zenon, <1>1, <1>2, <1>3, <1>4, <1>5, <1>6, <1>7, <1>8, <1>9, <1>10, <1>11
  DEF Next, ArmProceeds, DeadlineWorker, LockHolder, CallStep, FinishCall,
      AcknowledgeSealed

(* The runtime, with its lock, its worker and its split critical sections, *)
(* implements the lifecycle that GenerationLifecycle promises.             *)
THEOREM RuntimeImplementsLifecycle == Spec => ImplementsLifecycle
<1>1. Init => Lifecycle!Init
  BY StageValues DEF Init, OpenCalls, Lifecycle!Init
<1>. QED
  BY <1>1, NextRefines, RuntimeInvariant, PTL
  DEF Spec, ImplementsLifecycle, Lifecycle!Spec

=============================================================================

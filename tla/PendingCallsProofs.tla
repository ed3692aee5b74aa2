------------------------- MODULE PendingCallsProofs -------------------------
(***************************************************************************)
(* Theorems about PendingCalls, for every set of calls: the bookkeeping    *)
(* invariants of sendMessage and the pendingCalls map, and the refinement  *)
(* of CallFuture (its safety part; that a call is settled in the end is    *)
(* model-checked).                                                         *)
(***************************************************************************)
EXTENDS PendingCalls, TLAPS

(* Every state and every step keeps the types, one case per action. *)
LEMMA TypeInit == Init => TypeOK
BY DEF Init, TypeOK

LEMMA TypeStep == ASSUME TypeOK, [Next]_vars PROVE TypeOK'
<1> USE DEF TypeOK, Settle, Outcomes, Answers
<1>1. ASSUME NEW c \in Calls, SendRefused(c) PROVE TypeOK'
  BY <1>1 DEF SendRefused
<1>2. ASSUME NEW c \in Calls, SendMessage(c) \/ SendTriggerMessage(c)
      PROVE TypeOK'
  BY <1>2 DEF SendMessage, SendTriggerMessage, SendOn
<1>3. ASSUME NEW c \in Calls, SendThrows(c) PROVE TypeOK'
  BY <1>3 DEF SendThrows
<1>4. ASSUME NEW c \in Calls, Timeout(c) PROVE TypeOK'
  BY <1>4 DEF Timeout
<1>5. ASSUME NEW c \in Calls, NEW kind \in {"result", "error"},
             AnswerArrives(c, kind)
      PROVE TypeOK'
  BY <1>5 DEF AnswerArrives
<1>6. ASSUME NEW c \in Calls, NEW kind \in {"result", "error"},
             StationAnswers(c, kind) \/ AnswerLost(c, kind)
      PROVE TypeOK'
  BY <1>6 DEF StationAnswers, AnswerLost
<1>7. CASE LinkChanges
  BY <1>7 DEF LinkChanges
<1>8. CASE UNCHANGED vars
  BY <1>8 DEF vars
<1> QED
  BY <1>1, <1>2, <1>3, <1>4, <1>5, <1>6, <1>7, <1>8 DEF Next

(* The outcomes, timers, map entries and answers keep their types: only    *)
(* the five outcomes the code produces ever settle a promise.              *)
THEOREM CallsTypeCorrect == Spec => []TypeOK
<1>1. Init => TypeOK
  BY TypeInit
<1>2. TypeOK /\ [Next]_vars => TypeOK'
  BY TypeStep
<1> QED
  BY <1>1, <1>2, PTL DEF Spec

-----------------------------------------------------------------------------
(* The strengthening: a call that was not begun has left no trace, and     *)
(* only a call that was begun can be answered.                             *)
NoTraceBeforeBegin ==
    /\ \A c \in Calls \ begun : /\ outcome[c] = NoOutcome
                                /\ timer[c] = "none"
    /\ pending \subseteq begun
    /\ sent \subseteq begun

(* A call whose timer is armed is still in the map: the answer takes both  *)
(* away, and the timer leaves only the map entry.                          *)
ArmedIsPending == \A c \in Calls : timer[c] = "armed" => c \in pending

CallsInv ==
    /\ TypeOK
    /\ NoTraceBeforeBegin
    /\ ArmedIsPending
    /\ WaitingCallIsReachable
    /\ NoTimerAfterOutcome
    /\ LeakIsTimeoutOrThrow

LEMMA CallsInvInit == Init => CallsInv
BY TypeInit
   DEF Init, CallsInv, NoTraceBeforeBegin, ArmedIsPending,
       WaitingCallIsReachable, NoTimerAfterOutcome, LeakIsTimeoutOrThrow

LEMMA CallsInvStep == ASSUME CallsInv, [Next]_vars PROVE CallsInv'
<1> USE NoOutcomeAssumption
<1> USE DEF Settle, Outcomes, NoTraceBeforeBegin, ArmedIsPending,
            WaitingCallIsReachable, NoTimerAfterOutcome, LeakIsTimeoutOrThrow
<1>0. TypeOK /\ TypeOK'
  BY TypeStep DEF CallsInv
<1>1. ASSUME NEW c \in Calls, SendRefused(c) PROVE CallsInv'
  BY <1>0, <1>1 DEF SendRefused, CallsInv, TypeOK
<1>2. ASSUME NEW c \in Calls, SendMessage(c) \/ SendTriggerMessage(c)
      PROVE CallsInv'
  BY <1>0, <1>2 DEF SendMessage, SendTriggerMessage, SendOn, CallsInv, TypeOK
<1>3. ASSUME NEW c \in Calls, SendThrows(c) PROVE CallsInv'
  BY <1>0, <1>3 DEF SendThrows, CallsInv, TypeOK
<1>4. ASSUME NEW c \in Calls, Timeout(c) PROVE CallsInv'
  BY <1>0, <1>4 DEF Timeout, CallsInv, TypeOK
<1>5. ASSUME NEW c \in Calls, NEW kind \in {"result", "error"},
             AnswerArrives(c, kind)
      PROVE CallsInv'
  BY <1>0, <1>5 DEF AnswerArrives, CallsInv, TypeOK
<1>6. ASSUME NEW c \in Calls, NEW kind \in {"result", "error"},
             StationAnswers(c, kind) \/ AnswerLost(c, kind)
      PROVE CallsInv'
  BY <1>0, <1>6 DEF StationAnswers, AnswerLost, CallsInv
<1>7. CASE LinkChanges
  BY <1>0, <1>7 DEF LinkChanges, CallsInv
<1>8. CASE UNCHANGED vars
  BY <1>0, <1>8 DEF vars, CallsInv
<1> QED
  BY <1>1, <1>2, <1>3, <1>4, <1>5, <1>6, <1>7, <1>8 DEF Next

(* A caller that waits has a running timer and a map entry (758-782).      *)
THEOREM WaitingCallStaysReachable == Spec => []WaitingCallIsReachable
<1>1. Init => CallsInv
  BY CallsInvInit
<1>2. CallsInv /\ [Next]_vars => CallsInv'
  BY CallsInvStep
<1>3. CallsInv => WaitingCallIsReachable
  BY DEF CallsInv
<1> QED
  BY <1>1, <1>2, <1>3, PTL DEF Spec

(* No timer outlives the outcome of its promise (ocpp_handlers 110-126).   *)
THEOREM TimerEndsWithOutcome == Spec => []NoTimerAfterOutcome
<1>1. Init => CallsInv
  BY CallsInvInit
<1>2. CallsInv /\ [Next]_vars => CallsInv'
  BY CallsInvStep
<1>3. CallsInv => NoTimerAfterOutcome
  BY DEF CallsInv
<1> QED
  BY <1>1, <1>2, <1>3, PTL DEF Spec

(* Only timed-out calls and calls whose send threw stay in the map.        *)
THEOREM MapLeaksOnlyFailures == Spec => []LeakIsTimeoutOrThrow
<1>1. Init => CallsInv
  BY CallsInvInit
<1>2. CallsInv /\ [Next]_vars => CallsInv'
  BY CallsInvStep
<1>3. CallsInv => LeakIsTimeoutOrThrow
  BY DEF CallsInv
<1> QED
  BY <1>1, <1>2, <1>3, PTL DEF Spec

-----------------------------------------------------------------------------
(* The refinement of CallFuture. *)

LEMMA FutureInit == Init => Future!Init
BY DEF Init, Future!Init

LEMMA FutureStep ==
    ASSUME CallsInv, [Next]_vars
    PROVE  [Future!Next]_(Future!futureVars)
<1> USE NoOutcomeAssumption
<1> USE DEF Settle, CallsInv, TypeOK
<1>1. ASSUME NEW c \in Calls, c \notin begun, begun' = begun \cup {c},
             NEW o \in Outcomes \cup {NoOutcome},
             outcome' = [outcome EXCEPT ![c] = o]
      PROVE  Future!Next
  BY <1>1 DEF Future!Next, Future!Begin
<1>2. ASSUME NEW c \in Calls, c \in begun, UNCHANGED begun,
             NEW o \in Outcomes,
             outcome' = [outcome EXCEPT ![c] = IF @ = NoOutcome THEN o ELSE @]
      PROVE  [Future!Next]_(Future!futureVars)
  <2>1. CASE outcome[c] = NoOutcome
    BY <1>2, <2>1 DEF Future!Next, Future!Settle
  <2>2. CASE outcome[c] # NoOutcome
    BY <1>2, <2>2 DEF Future!futureVars
  <2> QED
    BY <2>1, <2>2
<1>3. ASSUME NEW c \in Calls, SendRefused(c) PROVE Future!Next
  BY <1>1, <1>3 DEF SendRefused, NoTraceBeforeBegin, Outcomes
<1>4. ASSUME NEW c \in Calls, SendThrows(c) PROVE Future!Next
  BY <1>1, <1>4 DEF SendThrows, NoTraceBeforeBegin, Outcomes
<1>5. ASSUME NEW c \in Calls, SendMessage(c) \/ SendTriggerMessage(c)
      PROVE Future!Next
  <2>1. outcome' = [outcome EXCEPT ![c] = NoOutcome]
    BY <1>5 DEF SendMessage, SendTriggerMessage, SendOn, NoTraceBeforeBegin
  <2> QED
    BY <1>1, <1>5, <2>1 DEF SendMessage, SendTriggerMessage, SendOn
<1>6. ASSUME NEW c \in Calls, Timeout(c)
      PROVE  [Future!Next]_(Future!futureVars)
  <2>1. c \in begun
    BY <1>6 DEF Timeout, NoTraceBeforeBegin
  <2> QED
    BY <1>2, <1>6, <2>1 DEF Timeout, Outcomes
<1>7. ASSUME NEW c \in Calls, NEW kind \in {"result", "error"},
             AnswerArrives(c, kind)
      PROVE  [Future!Next]_(Future!futureVars)
  <2>1. CASE c \in pending
    BY <1>2, <1>7, <2>1 DEF AnswerArrives, NoTraceBeforeBegin, Outcomes
  <2>2. CASE c \notin pending
    BY <1>7, <2>2 DEF AnswerArrives, Future!futureVars
  <2> QED
    BY <2>1, <2>2
<1>8. ASSUME NEW c \in Calls, NEW kind \in {"result", "error"},
             StationAnswers(c, kind) \/ AnswerLost(c, kind)
      PROVE  UNCHANGED Future!futureVars
  BY <1>8 DEF StationAnswers, AnswerLost, Future!futureVars
<1>9. CASE LinkChanges
  BY <1>9 DEF LinkChanges, Future!futureVars
<1>10. CASE UNCHANGED vars
  BY <1>10 DEF vars, Future!futureVars
<1> QED
  BY <1>3, <1>4, <1>5, <1>6, <1>7, <1>8, <1>9, <1>10 DEF Next

(* The promise a caller holds is a future: it is settled at most once, and *)
(* late, repeated and contradicting answers leave its outcome alone.       *)
THEOREM CallIsFuture == Spec => FutureSafety
<1>1. Init => CallsInv
  BY CallsInvInit
<1>2. CallsInv /\ [Next]_vars => CallsInv'
  BY CallsInvStep
<1>3. Init => Future!Init
  BY FutureInit
<1>4. CallsInv /\ [Next]_vars => [Future!Next]_(Future!futureVars)
  BY FutureStep
<1> QED
  BY <1>1, <1>2, <1>3, <1>4, PTL DEF Spec, FutureSafety, Future!Spec
=============================================================================

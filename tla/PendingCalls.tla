---------------------------- MODULE PendingCalls ----------------------------
(***************************************************************************)
(* Calls from the central system to one charge point: OCPPServer's         *)
(* sendMessage and sendTriggerMessage, and the pendingCalls map of         *)
(* OCPPMessageHandler (src/src/handlers/ocpp_handlers.ts) that matches a   *)
(* CALLRESULT or CALLERROR with the promise of its call by uniqueId.       *)
(*                                                                         *)
(* A promise is settled by whichever comes first: the answer, the 30 s     *)
(* timer, an exception of send.  What comes later is ignored by the        *)
(* promise, but not by the map and the timer.                              *)
(***************************************************************************)
EXTENDS Integers, FiniteSets

CONSTANTS
    Calls,      \* the uniqueIds drawn, each for one call
    NoOutcome   \* the outcome of a promise that is not settled

Outcomes == {"result", "error", "timeout", "throw", "refused"}

ASSUME NoOutcomeAssumption == NoOutcome \notin Outcomes

VARIABLES
    begun,    \* the calls made so far
    outcome,  \* call -> how its promise was settled
    timer,    \* call -> "none", "armed", "cleared" or "fired"
    pending,  \* the keys of the pendingCalls map
    sent,     \* the calls whose frame reached the station
    answers,  \* answers on their way: <<call, "result" or "error">>
    link      \* "absent": no registry entry; "open"; "stale": the entry's
              \* socket is closing or closed, and drops what is sent on it

vars == <<begun, outcome, timer, pending, sent, answers, link>>

Answers == Calls \X {"result", "error"}

Init ==
    /\ begun = {}
    /\ outcome = [c \in Calls |-> NoOutcome]
    /\ timer = [c \in Calls |-> "none"]
    /\ pending = {}
    /\ sent = {}
    /\ answers = {}
    /\ link = "absent"

(* The resolve and reject functions of a promise: the first one counts. *)
Settle(c, o) ==
    outcome' = [outcome EXCEPT ![c] = IF @ = NoOutcome THEN o ELSE @]

-----------------------------------------------------------------------------
(* sendMessage without a registry entry: rejected, no timer, no map entry. *)
SendRefused(c) ==
    /\ c \notin begun
    /\ link = "absent"
    /\ begun' = begun \cup {c}
    /\ Settle(c, "refused")
    /\ UNCHANGED <<timer, pending, sent, answers, link>>

(* The timer is armed, the call is put in the map, the frame is handed to  *)
(* the socket.  A stale socket drops it without an error.                  *)
SendOn(c) ==
    /\ c \notin begun
    /\ begun' = begun \cup {c}
    /\ timer' = [timer EXCEPT ![c] = "armed"]
    /\ pending' = pending \cup {c}
    /\ sent' = IF link = "open" THEN sent \cup {c} ELSE sent
    /\ UNCHANGED <<outcome, answers, link>>

SendMessage(c) == link # "absent" /\ SendOn(c)

(* sendTriggerMessage uses the connection object its caller holds and does *)
(* not look at the registry.                                               *)
SendTriggerMessage(c) == SendOn(c)

(* Mutation of SendThrows: the promise is not rejected. *)
SendThrowsUnsettled(c) ==
    /\ c \notin begun
    /\ begun' = begun \cup {c}
    /\ timer' = [timer EXCEPT ![c] = "cleared"]
    /\ pending' = pending \cup {c}
    /\ UNCHANGED <<outcome, sent, answers, link>>

(* send (or the serialisation before it) throws: the timer is cleared and  *)
(* the promise rejected; the entry stays in the map.                       *)
SendThrows(c) ==
    /\ c \notin begun
    /\ begun' = begun \cup {c}
    /\ timer' = [timer EXCEPT ![c] = "cleared"]
    /\ pending' = pending \cup {c}
    /\ Settle(c, "throw")
    /\ UNCHANGED <<sent, answers, link>>

(* Mutation of Timeout: the rejection has no reason the caller knows. *)
TimeoutUnnamed(c) ==
    /\ timer[c] = "armed"
    /\ timer' = [timer EXCEPT ![c] = "fired"]
    /\ Settle(c, "expired")
    /\ UNCHANGED <<begun, pending, sent, answers, link>>

(* The 30 s timer rejects the promise; the entry stays in the map. *)
Timeout(c) ==
    /\ timer[c] = "armed"
    /\ timer' = [timer EXCEPT ![c] = "fired"]
    /\ Settle(c, "timeout")
    /\ UNCHANGED <<begun, pending, sent, answers, link>>

-----------------------------------------------------------------------------
(* Mutation of AnswerArrives: the map entry is not deleted. *)
AnswerKeepsEntry(c, kind) ==
    /\ <<c, kind>> \in answers
    /\ link # "absent"
    /\ answers' = answers \ {<<c, kind>>}
    /\ Settle(c, kind)
    /\ timer' = [timer EXCEPT ![c] = IF @ = "armed" THEN "cleared" ELSE @]
    /\ UNCHANGED <<begun, pending, sent, link>>

(* A CALLRESULT or CALLERROR is delivered by handleMessage, which needs a  *)
(* registry entry, to resolvePendingCall or rejectPendingCall.  An answer  *)
(* whose uniqueId is not in the map changes nothing.                       *)
AnswerArrives(c, kind) ==
    /\ <<c, kind>> \in answers
    /\ link # "absent"
    /\ answers' = answers \ {<<c, kind>>}
    /\ IF c \in pending
       THEN /\ timer' = [timer EXCEPT ![c] = IF @ = "armed" THEN "cleared"
                                             ELSE @]
            /\ Settle(c, kind)
            /\ pending' = pending \ {c}
       ELSE UNCHANGED <<timer, outcome, pending>>
    /\ UNCHANGED <<begun, sent, link>>

-----------------------------------------------------------------------------
(* The station and the network: an answer may come late, more than once,   *)
(* of either kind, or never.                                               *)
StationAnswers(c, kind) ==
    /\ c \in sent
    /\ <<c, kind>> \notin answers
    /\ answers' = answers \cup {<<c, kind>>}
    /\ UNCHANGED <<begun, outcome, timer, pending, sent, link>>

AnswerLost(c, kind) ==
    /\ <<c, kind>> \in answers
    /\ answers' = answers \ {<<c, kind>>}
    /\ UNCHANGED <<begun, outcome, timer, pending, sent, link>>

(* The registry (ConnectionRegistry) adds, replaces or drops the entry.  A *)
(* station that reconnects may answer on its new socket.                   *)
LinkChanges ==
    /\ link' \in {"absent", "open", "stale"} \ {link}
    /\ UNCHANGED <<begun, outcome, timer, pending, sent, answers>>

Next ==
    \/ \E c \in Calls :
         \/ SendRefused(c)
         \/ SendMessage(c)
         \/ SendTriggerMessage(c)
         \/ SendThrows(c)
         \/ Timeout(c)
         \/ \E kind \in {"result", "error"} :
              \/ AnswerArrives(c, kind)
              \/ StationAnswers(c, kind)
              \/ AnswerLost(c, kind)
    \/ LinkChanges

Spec == Init /\ [][Next]_vars

(* The only step nobody but the event loop has to take. *)
FairSpec == Spec /\ \A c \in Calls : WF_vars(Timeout(c))

-----------------------------------------------------------------------------
TypeOK ==
    /\ begun \subseteq Calls
    /\ outcome \in [Calls -> Outcomes \cup {NoOutcome}]
    /\ timer \in [Calls -> {"none", "armed", "cleared", "fired"}]
    /\ pending \subseteq Calls
    /\ sent \subseteq Calls
    /\ answers \subseteq Answers
    /\ link \in {"absent", "open", "stale"}

(* A caller that still waits has a timer running and can still be reached  *)
(* by an answer: no path of sendMessage, of the timer or of an answer      *)
(* (758-782, 93-126) loses one of the two while the promise is open.       *)
WaitingCallIsReachable ==
    \A c \in begun : outcome[c] = NoOutcome
                        => timer[c] = "armed" /\ c \in pending

(* A timer is armed only while its promise is open: an answer or an        *)
(* exception of send never leaves a timer behind that fires later.         *)
NoTimerAfterOutcome ==
    \A c \in Calls : timer[c] = "armed" => outcome[c] = NoOutcome

(* What stays in the map for good are calls that timed out or whose send   *)
(* threw; an answered or refused call leaves nothing behind.               *)
LeakIsTimeoutOrThrow ==
    \A c \in pending : outcome[c] \in {NoOutcome, "timeout", "throw"}

(* The promise a caller holds is the abstract future: it is settled, once, *)
(* whatever answers come late, twice or never.                             *)
Future == INSTANCE CallFuture
FutureSpec == Future!FairSpec
FutureSafety == Future!Spec

=============================================================================

----------------------------- MODULE CallFuture -----------------------------
(***************************************************************************)
(* What a caller of OCPPServer.sendMessage is promised: a call that was    *)
(* begun is settled, exactly once, and its outcome never changes again.    *)
(* PendingCalls implements this specification.                             *)
(***************************************************************************)
CONSTANTS Calls, Outcomes, NoOutcome

VARIABLES
    begun,    \* the calls made so far
    outcome   \* call -> its outcome, or NoOutcome

futureVars == <<begun, outcome>>

Init ==
    /\ begun = {}
    /\ outcome = [c \in Calls |-> NoOutcome]

(* A call is made; it may be settled at once. *)
Begin(c) ==
    /\ c \notin begun
    /\ begun' = begun \cup {c}
    /\ \E o \in Outcomes \cup {NoOutcome} :
         outcome' = [outcome EXCEPT ![c] = o]

Settle(c) ==
    /\ c \in begun
    /\ outcome[c] = NoOutcome
    /\ \E o \in Outcomes : outcome' = [outcome EXCEPT ![c] = o]
    /\ UNCHANGED begun

Next == \E c \in Calls : Begin(c) \/ Settle(c)

Spec == Init /\ [][Next]_futureVars

FairSpec == Spec /\ \A c \in Calls : WF_futureVars(Settle(c))
=============================================================================

--------------------------- MODULE StationListing ---------------------------
(***************************************************************************)
(* What the connection registry promises, without handlers, sockets or     *)
(* timers: a station has at most one listed socket, a socket is listed for *)
(* its own station only, and a socket that has been unlisted, replaced or  *)
(* dropped is never listed again.                                          *)
(*                                                                         *)
(* ConnectionRegistry implements this specification.                       *)
(***************************************************************************)
CONSTANTS ChargePoints, Sockets, StationOf, None

VARIABLES
    listed,  \* charge point -> its listed socket, or None
    used     \* sockets that are or have been listed

listingVars == <<listed, used>>

Init ==
    /\ listed = [c \in ChargePoints |-> None]
    /\ used = {}

(* A socket is listed, in the place of whichever socket was. *)
Enter(s) ==
    /\ s \notin used
    /\ listed' = [listed EXCEPT ![StationOf[s]] = s]
    /\ used' = used \cup {s}

(* Some stations lose their listed socket. *)
Leave(C) ==
    /\ listed' = [c \in ChargePoints |-> IF c \in C THEN None ELSE listed[c]]
    /\ UNCHANGED used

Next ==
    \/ \E s \in Sockets : Enter(s)
    \/ \E C \in SUBSET ChargePoints : Leave(C)

Spec == Init /\ [][Next]_listingVars
=============================================================================

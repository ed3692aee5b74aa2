------------------------- MODULE MCStationPresence -------------------------
(* Instances of StationPresence for TLC: the sockets of one station. *)
EXTENDS StationPresence, TLC

CONSTANTS cp1, s1, s2

OneStation == [s \in Sockets |-> cp1]

SocketSymmetry == Permutations(Sockets)
=============================================================================

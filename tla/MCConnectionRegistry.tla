------------------------ MODULE MCConnectionRegistry ------------------------
(* Instances of ConnectionRegistry for TLC. *)
EXTENDS ConnectionRegistry, TLC

CONSTANTS cp1, cp2, s1, s2, s3, s4

(* s4 belongs to cp2, every other socket to cp1. *)
StationOfSocket == [s \in Sockets |-> IF s = s4 THEN cp2 ELSE cp1]

(* The sockets of cp1 are interchangeable. *)
SocketSymmetry == Permutations(Sockets \ {s4})
=============================================================================

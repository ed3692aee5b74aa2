------------------------- MODULE MCChargingSession -------------------------
(* Instances of ChargingSession for TLC. *)
EXTENDS ChargingSession, TLC

CONSTANTS h1, h2, t1, t2

(* Handler slots are interchangeable, and so are transaction numbers. *)
Symmetry == Permutations(Handlers) \cup Permutations(TxIds)
=============================================================================

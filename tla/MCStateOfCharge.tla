-------------------------- MODULE MCStateOfCharge --------------------------
(* Instances of StateOfCharge for TLC. *)
EXTENDS StateOfCharge, TLC

CONSTANTS h1, h2, t1

(* 0 counts as unset in the row, 205 tenths is a fraction, the others can *)
(* be stored.                                                             *)
FourReadings == {0, 205, 210, 220}
OneOrTwoSamples ==
    {<<r>> : r \in FourReadings} \cup {<<0, 210>>, <<210, 220>>}

HandlerSymmetry == Permutations(Handlers)
=============================================================================

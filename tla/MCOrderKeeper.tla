---------------------------- MODULE MCOrderKeeper ----------------------------
(***************************************************************************)
(* Instances of OrderKeeper for TLC.                                       *)
(***************************************************************************)
EXTENDS OrderKeeper, TLC

CONSTANTS o1, t1, t2

\* Ticks are alike.
TickSymmetry == Permutations(Ticks)
=============================================================================

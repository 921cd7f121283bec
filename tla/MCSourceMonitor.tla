--------------------------- MODULE MCSourceMonitor ---------------------------
(***************************************************************************)
(* Instances of SourceMonitor for TLC.                                     *)
(***************************************************************************)
EXTENDS SourceMonitor, TLC

CONSTANTS s1, s2, i1, i2

\* The instances are alike.
InstanceSymmetry == Permutations(Instances)
=============================================================================

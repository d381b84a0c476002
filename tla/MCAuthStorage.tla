---------------------------- MODULE MCAuthStorage ----------------------------
(***************************************************************************)
(* Instances of AuthStorage for TLC.                                       *)
(***************************************************************************)
EXTENDS AuthStorage, TLC

CONSTANTS p1, p2, a, b

TwoProcesses == {p1, p2}
TwoProviders == {a, b}
AnyStart == {"absent", "good"}
Symmetry == Permutations(TwoProcesses)
=============================================================================

------------------------- MODULE MCSettingsManager -------------------------
(***************************************************************************)
(* Instances of SettingsManager for TLC.                                   *)
(***************************************************************************)
EXTENDS SettingsManager, TLC

CONSTANTS p1, p2, f, g

TwoProcesses == {p1, p2}
BothScopes == {"global", "project"}
TwoFields == {f, g}
Symmetry == Permutations(TwoProcesses) \union Permutations(TwoFields)
GlobalOnly == [s \in BothScopes |-> IF s = "global" THEN "good" ELSE "absent"]
=============================================================================

--------------------------- MODULE MCSessionTree ---------------------------
(***************************************************************************)
(* An instance of SessionTree for TLC: one call at a time.                 *)
(***************************************************************************)
EXTENDS SessionTree

CONSTANT w1
OneWriter == {w1}
=============================================================================

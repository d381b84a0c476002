--------------------------- MODULE MCEventStream ---------------------------
(***************************************************************************)
(* Instances of EventStream for TLC.                                       *)
(***************************************************************************)
EXTENDS EventStream

CONSTANTS c1, c2, c3
ThreeConsumers == {c1, c2, c3}
=============================================================================

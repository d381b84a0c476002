--------------------------- MODULE MCCompaction ---------------------------
(***************************************************************************)
(* Instances of Compaction for TLC.                                        *)
(***************************************************************************)
EXTENDS Compaction

UserCustomSetting == {"user", "custom_message", "setting"}
DoneTwoCallsFailed == {<<0, FALSE>>, <<2, FALSE>>, <<1, TRUE>>}
=============================================================================

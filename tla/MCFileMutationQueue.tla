------------------------ MODULE MCFileMutationQueue ------------------------
(***************************************************************************)
(* Instances of FileMutationQueue for TLC.  "link" leads to the file       *)
(* "file" through a symbolic link, "other" is another file.                *)
(***************************************************************************)
EXTENDS FileMutationQueue

CONSTANTS o1, o2, o3, link, file, other
ThreeOps == {o1, o2, o3}
AllPaths == {link, file, other}
AllReal == [p \in {link, file, other} |-> IF p = link THEN file ELSE p]
=============================================================================

---------------------------- MODULE MCFileTable -----------------------------
(* The instance of FileTable that TLC checks. *)
EXTENDS FileTable, TLC

Symmetry == Permutations(Proc)
=============================================================================

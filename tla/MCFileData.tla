----------------------------- MODULE MCFileData -----------------------------
(* The instance of FileData that TLC checks. *)
EXTENDS FileData, TLC

CONSTANTS f1, f2

MCIpOf == (f1 :> 2 @@ f2 :> 3)
Symmetry == Permutations(Proc)
=============================================================================

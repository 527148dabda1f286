------------------------------ MODULE MCVirtio ------------------------------
(* Virtio for TLC: processes are interchangeable. *)
EXTENDS Virtio, TLC

Symmetry == Permutations(Proc)
=============================================================================

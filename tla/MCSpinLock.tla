----------------------------- MODULE MCSpinLock -----------------------------
(***************************************************************************)
(* Two CPUs and two nested locks for TLC: enough for a race on a lock, a   *)
(* nested acquisition, an out-of-order release and a handler on each CPU.  *)
(***************************************************************************)
EXTENDS SpinLock, TLC

Symmetry == Permutations(CPU)
=============================================================================

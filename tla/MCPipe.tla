------------------------------- MODULE MCPipe -------------------------------
(* Pipe for TLC: the processes are interchangeable. *)
EXTENDS Pipe, TLC

Symmetry == Permutations(Proc) \cup Permutations(Byte)
=============================================================================

------------------------------ MODULE MCBcache ------------------------------
(* Bcache for TLC: processes, and values, are interchangeable; block numbers *)
(* are ordered and buffers start out in an order, so they are not.           *)
EXTENDS Bcache, TLC

Symmetry == Permutations(Proc) \cup Permutations(Val)
=============================================================================

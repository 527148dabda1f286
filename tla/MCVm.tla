-------------------------------- MODULE MCVm --------------------------------
(* Vm for TLC: pages of 32 bytes, page-table pages of three entries.  There is *)
(* less memory than user address space, as in the machine, and fewer pages than  *)
(* PGSIZE.                                                                       *)
EXTENDS Vm, TLC

Seg(v, m, f, flags) == [vaddr |-> v, memsz |-> m, filesz |-> f, flags |-> flags]

\* Text and data; segments in the wrong order; an empty segment; one whose end
\* wraps around after a good one.
MCImages ==
  { <<Seg(0, 32, 32, 5), Seg(32, 12, 4, 6)>>,
    <<Seg(32, 16, 16, 6), Seg(0, 32, 32, 5)>>,
    <<Seg(0, 0, 0, 5)>>,
    <<Seg(0, 32, 32, 5), Seg(992, 40, 0, 5)>> }

MCAmounts == {48, -48, -900}
=============================================================================

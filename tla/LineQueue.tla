----------------------------- MODULE LineQueue ------------------------------
(***************************************************************************)
(* What the console promises its readers: typed bytes collect in a line    *)
(* that can be edited until a newline, an end-of-file mark or lack of room *)
(* commits it; committed bytes are taken in the order they were typed,     *)
(* each once.                                                              *)
(***************************************************************************)
EXTENDS Sequences, Naturals

CONSTANTS Plain, Ending, Size

VARIABLES line, queue

Init == line = <<>> /\ queue = <<>>

Room == Len(line) + Len(queue) < Size

Type(ch) ==
  LET more == Append(line, ch)
  IN /\ Room
     /\ IF ch \in Ending \/ Len(more) + Len(queue) = Size
          THEN queue' = queue \o more /\ line' = <<>>
          ELSE queue' = queue /\ line' = more

Erase == line # <<>> /\ line' = SubSeq(line, 1, Len(line) - 1) /\ UNCHANGED queue
KillLine == line' = <<>> /\ UNCHANGED queue
Take == (\E k \in 0..Len(queue) : queue' = SubSeq(queue, k + 1, Len(queue))) /\ UNCHANGED line

Next == (\E ch \in Plain \cup Ending : Type(ch)) \/ Erase \/ KillLine \/ Take

Spec == Init /\ [][Next]_<<line, queue>>
=============================================================================

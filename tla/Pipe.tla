-------------------------------- MODULE Pipe --------------------------------
(***************************************************************************)
(* Pipes: kernel/pipe.c, with the last close of an end by fileclose()      *)
(* (kernel/file.c) and the effect of kill() on a sleeper.                  *)
(*                                                                         *)
(* pi->lock is held by a process; each round of the loops of pipewrite()   *)
(* and piperead() is a step or two, so a kill() may arrive between the     *)
(* test of killed() and the sleep.  sleep() releases the lock and puts the *)
(* process to sleep in one step, and wakeup() wakes all sleepers of a      *)
(* channel (module Proc).  nread and nwrite are unsigned and wrap at WORD. *)
(***************************************************************************)
EXTENDS Naturals, Sequences, FiniteSets

CONSTANTS
  Proc, Byte,
  PIPESIZE,
  WORD,      \* 2^32 in the code
  MaxN,      \* bound: the n of a read or write
  Kills,     \* bound: how many processes are killed
  NoProc

ASSUME PipeAssumption ==
  /\ PIPESIZE \in Nat \ {0} /\ WORD \in Nat /\ WORD > PIPESIZE /\ WORD % PIPESIZE = 0
  /\ MaxN \in Nat /\ Kills \in Nat /\ NoProc \notin Proc

VARIABLES
  data, nread, nwrite, readopen, writeopen,
  freed,     \* the page of the pipe has been given back to kalloc()
  lock,      \* the process that holds pi->lock
  ends,      \* the ends ("r", "w") a process has open
  killed,    \* p->killed
  pc,        \* where a process is
  n, i       \* the argument and the loop variable of its call

pipeVars == <<data, nread, nwrite, readopen, writeopen, freed>>
vars == <<data, nread, nwrite, readopen, writeopen, freed, lock, ends, killed, pc, n, i>>

\* pipealloc() by one process; the data is what kalloc() left there.
Init ==
  /\ \E b \in Byte : data = [j \in 0..(PIPESIZE - 1) |-> b]
  /\ nread = 0 /\ nwrite = 0
  /\ readopen = TRUE /\ writeopen = TRUE /\ freed = FALSE
  /\ lock = NoProc
  /\ \E p \in Proc : ends = [q \in Proc |-> IF q = p THEN {"r", "w"} ELSE {}]
  /\ killed = [p \in Proc |-> FALSE]
  /\ pc = [p \in Proc |-> "user"]
  /\ n = [p \in Proc |-> 0]
  /\ i = [p \in Proc |-> 0]

Goto(p, label) == pc' = [pc EXCEPT ![p] = label]

\* acquire(&pi->lock)
Lock(p, from, to) ==
  /\ pc[p] = from
  /\ lock = NoProc /\ lock' = p
  /\ Goto(p, to)
  /\ UNCHANGED <<pipeVars, ends, killed, n, i>>

\* The processes for which sleep() on a channel ends, each at its acquire().
Woken(asleep, retry) == [p \in Proc |-> IF pc[p] = asleep THEN retry ELSE pc[p]]

\* wakeup(&pi->nread), wakeup(&pi->nwrite)
WakeReaders == Woken("rsleep", "rlock")
WakeWriters == Woken("wsleep", "wlock")

\* A system call returns: wakeup(), release(&pi->lock).
Finish(p, wokenpc) ==
  /\ pc' = [wokenpc EXCEPT ![p] = "user"]
  /\ lock' = NoProc
  /\ n' = [n EXCEPT ![p] = 0]
  /\ i' = [i EXCEPT ![p] = 0]

\* return -1, without a wakeup.
GiveUp(p) == Finish(p, pc)

-----------------------------------------------------------------------------
(* pipewrite() *)

Write(p, k) ==
  /\ pc[p] = "user" /\ ~killed[p] /\ "w" \in ends[p]
  /\ n' = [n EXCEPT ![p] = k]
  /\ Goto(p, "wlock")
  /\ UNCHANGED <<pipeVars, lock, ends, killed, i>>

More(p) == i[p] < n[p]

\* while(i < n), and the test for a closed read end or a kill.
WriteTest(p) ==
  /\ pc[p] = "wtest"
  /\ \/ ~More(p) /\ Finish(p, WakeReaders)
     \/ More(p) /\ (~readopen \/ killed[p]) /\ GiveUp(p)
     \/ More(p) /\ readopen /\ ~killed[p] /\ Goto(p, "wbody") /\ UNCHANGED <<lock, n, i>>
  /\ UNCHANGED <<pipeVars, ends, killed>>

\* Mutant of Full: one byte too many.
FullTooLate == nwrite = (nread + PIPESIZE + 1) % WORD

Full == nwrite = (nread + PIPESIZE) % WORD

WriteFull(p) ==
  /\ pc[p] = "wbody" /\ Full
  /\ pc' = [WakeReaders EXCEPT ![p] = "wsleep"]
  /\ lock' = NoProc
  /\ UNCHANGED <<pipeVars, ends, killed, n, i>>

WriteByte(p, b) ==
  /\ pc[p] = "wbody" /\ ~Full
  /\ data' = [data EXCEPT ![nwrite % PIPESIZE] = b]
  /\ nwrite' = (nwrite + 1) % WORD
  /\ i' = [i EXCEPT ![p] = @ + 1]
  /\ Goto(p, "wtest")
  /\ UNCHANGED <<nread, readopen, writeopen, freed, lock, ends, killed, n>>

\* copyin() fails: break.
WriteFault(p) ==
  /\ pc[p] = "wbody" /\ ~Full
  /\ Finish(p, WakeReaders)
  /\ UNCHANGED <<pipeVars, ends, killed>>

-----------------------------------------------------------------------------
(* piperead() *)

Read(p, k) ==
  /\ pc[p] = "user" /\ ~killed[p] /\ "r" \in ends[p]
  /\ n' = [n EXCEPT ![p] = k]
  /\ Goto(p, "rlock")
  /\ UNCHANGED <<pipeVars, lock, ends, killed, i>>

Empty == nread = nwrite

\* while(pi->nread == pi->nwrite && pi->writeopen), and the test for a kill.
ReadTest(p) ==
  /\ pc[p] = "rtest"
  /\ \/ ~(Empty /\ writeopen) /\ Goto(p, "rcopy") /\ UNCHANGED <<lock, n, i>>
     \/ Empty /\ writeopen /\ killed[p] /\ GiveUp(p)
     \/ Empty /\ writeopen /\ ~killed[p] /\ Goto(p, "rempty") /\ UNCHANGED <<lock, n, i>>
  /\ UNCHANGED <<pipeVars, ends, killed>>

ReadSleep(p) ==
  /\ pc[p] = "rempty"
  /\ lock' = NoProc
  /\ Goto(p, "rsleep")
  /\ UNCHANGED <<pipeVars, ends, killed, n, i>>

\* A byte is taken, and copied out.
ReadByte(p) ==
  /\ pc[p] = "rcopy" /\ More(p) /\ ~Empty
  /\ nread' = (nread + 1) % WORD
  /\ i' = [i EXCEPT ![p] = @ + 1]
  /\ UNCHANGED <<data, nwrite, readopen, writeopen, freed, lock, ends, killed, pc, n>>

\* The byte is taken, but copyout() fails: break.
ReadFault(p) ==
  /\ pc[p] = "rcopy" /\ More(p) /\ ~Empty
  /\ nread' = (nread + 1) % WORD
  /\ Finish(p, WakeWriters)
  /\ UNCHANGED <<data, nwrite, readopen, writeopen, freed, ends, killed>>

ReadEnd(p) ==
  /\ pc[p] = "rcopy" /\ (~More(p) \/ Empty)
  /\ Finish(p, WakeWriters)
  /\ UNCHANGED <<pipeVars, ends, killed>>

-----------------------------------------------------------------------------
(* fork(), close(), pipeclose(), kill() *)

\* A child inherits the descriptors of its parent.
Fork(p, q) ==
  /\ pc[p] = "user" /\ ~killed[p]
  /\ pc[q] = "user" /\ ~killed[q] /\ ends[q] = {} /\ ends[p] # {}
  /\ ends' = [ends EXCEPT ![q] = ends[p]]
  /\ UNCHANGED <<pipeVars, lock, killed, pc, n, i>>

\* Mutant of LastClose: every close() shuts the end.
LastCloseAny(p, e) == TRUE

\* fileclose(): --f->ref is 0.
LastClose(p, e) == \A q \in Proc \ {p} : e \notin ends[q]

Close(p, e) ==
  /\ pc[p] = "user" /\ e \in ends[p]
  /\ ends' = [ends EXCEPT ![p] = @ \ {e}]
  /\ Goto(p, IF ~LastClose(p, e) THEN "user" ELSE IF e = "w" THEN "wclose" ELSE "rclose")
  /\ UNCHANGED <<pipeVars, lock, killed, n, i>>

\* Mutant of CloseWakes: the other side sleeps on.
CloseWakesNone(p) == [pc EXCEPT ![p] = "user"]

CloseWakes(p) ==
  [(IF pc[p] = "wclose" THEN WakeReaders ELSE WakeWriters) EXCEPT ![p] = "user"]

PipeClose(p) ==
  /\ pc[p] \in {"wclose", "rclose"}
  /\ lock = NoProc
  /\ writeopen' = (writeopen /\ pc[p] # "wclose")
  /\ readopen' = (readopen /\ pc[p] # "rclose")
  /\ freed' = (freed \/ ~(readopen' \/ writeopen'))
  /\ pc' = CloseWakes(p)
  /\ UNCHANGED <<data, nread, nwrite, lock, ends, killed, n, i>>

Kill(p) ==
  /\ ~killed[p] /\ Cardinality({q \in Proc : killed[q]}) < Kills
  /\ killed' = [killed EXCEPT ![p] = TRUE]
  /\ Goto(p, CASE pc[p] = "rsleep" -> "rlock" [] pc[p] = "wsleep" -> "wlock" [] OTHER -> pc[p])
  /\ UNCHANGED <<pipeVars, lock, ends, n, i>>

-----------------------------------------------------------------------------
LockForWrite(p) == Lock(p, "wlock", "wtest")
LockForRead(p) == Lock(p, "rlock", "rtest")

\* The steps of a process that has the lock.
Holder(p) ==
  \/ WriteTest(p) \/ WriteFull(p) \/ (\E b \in Byte : WriteByte(p, b)) \/ WriteFault(p)
  \/ ReadTest(p) \/ ReadSleep(p) \/ ReadByte(p) \/ ReadFault(p) \/ ReadEnd(p)

Next ==
  \E p \in Proc :
    \/ \E k \in 0..MaxN : Write(p, k) \/ Read(p, k)
    \/ LockForWrite(p) \/ LockForRead(p)
    \/ Holder(p)
    \/ \E q \in Proc : Fork(p, q)
    \/ \E e \in {"r", "w"} : Close(p, e)
    \/ PipeClose(p)
    \/ Kill(p)

Spec == Init /\ [][Next]_vars

-----------------------------------------------------------------------------
(* Properties *)

Count == (nwrite + WORD - nread) % WORD

\* The bytes in the pipe, oldest first.
Contents == [j \in 1..Count |-> data[((nread + j - 1) % WORD) % PIPESIZE]]

Abstract == INSTANCE ByteQueue WITH
  Size <- PIPESIZE, queue <- Contents, ropen <- readopen, wopen <- writeopen

\* A pipe is the bounded queue, also while its two counters wrap around and with
\* several readers and writers taking turns.
Implements == Abstract!Spec

\* Nobody is in a pipe operation once the page of the pipe is free: the last
\* pipeclose() comes after every read and write.
NoUseAfterFree == freed => \A p \in Proc : pc[p] = "user" /\ ends[p] = {}

\* Whenever the lock is free a sleeping writer finds the pipe full and its read
\* end open, and a sleeping reader finds it empty and its write end open: no
\* wakeup is missing, also when an end is closed or a copy fails half-way.  For
\* the readers this is so while nobody has been killed: a writer that finds
\* itself killed after some bytes returns without waking them.
SleepersWait ==
  lock = NoProc => \A p \in Proc :
    /\ pc[p] = "wsleep" => Full /\ readopen
    /\ pc[p] = "rsleep" /\ (\A q \in Proc : ~killed[q]) => Empty /\ writeopen
=============================================================================

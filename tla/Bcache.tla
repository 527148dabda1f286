------------------------------- MODULE Bcache -------------------------------
(***************************************************************************)
(* The buffer cache, kernel/bio.c, and the sleep locks that protect its    *)
(* buffers, kernel/sleeplock.c.                                            *)
(*                                                                         *)
(* What is done under bcache.lock, or under the spin lock inside a sleep   *)
(* lock, is one step; in between, buffers are referenced and not locked,   *)
(* or unlocked and still referenced.  The disk transfer of a locked buffer *)
(* is one step as well (module Virtio).                                    *)
(*                                                                         *)
(* Blocks are numbered in the order in which one process locks several     *)
(* (log before home block, indirect block before bitmap).  A process that  *)
(* changed a buffer writes it, or has it pinned by log_write(), before it  *)
(* lets go of it; but writei() releases a buffer as it is, changed, when   *)
(* its either_copyin() fails half-way.                                     *)
(***************************************************************************)
EXTENDS Integers, FiniteSets

CONSTANTS
  Proc, Val,
  Block,     \* block numbers
  NBUF,      \* param.h: "size of disk block cache"
  MaxHold,   \* bound: buffers a process has at a time
  MaxPins,   \* bound: buffers pinned by the log
  NoBlock, NoBuf, NoProc

ASSUME BcacheAssumption ==
  /\ Block \subseteq Nat /\ NoBlock \notin Block
  /\ NBUF \in Nat \ {0} /\ MaxHold \in Nat /\ MaxPins \in Nat
  /\ NoBuf \notin 1..NBUF /\ NoProc \notin Proc /\ IsFiniteSet(Proc)

Buf == 1..NBUF

VARIABLES
  disk,
  blockno, valid, refcnt, data,  \* fields of a buffer
  order,     \* the list from bcache.head, most recently used first
  locked,    \* b->lock.locked
  pid,       \* b->lock.pid
  pinned,    \* the blocks in the log's header, each pinned once
  dirty,     \* history: buffers changed since they were last written
  pc, b,     \* where a process is, and its local b
  holds,     \* the buffers bread() has returned to a process
  panicked

bufVars == <<blockno, valid, data>>
vars == <<disk, blockno, valid, refcnt, data, order, locked, pid, pinned, dirty, pc, b, holds, panicked>>

\* binit(): the last buffer is inserted last, at the head.
Init ==
  /\ disk \in [Block -> Val]
  /\ blockno = [x \in Buf |-> NoBlock]
  /\ valid = [x \in Buf |-> FALSE]
  /\ refcnt = [x \in Buf |-> 0]
  /\ \E v \in Val : data = [x \in Buf |-> v]
  /\ order = [j \in 1..NBUF |-> NBUF + 1 - j]
  /\ locked = [x \in Buf |-> FALSE]
  /\ pid = [x \in Buf |-> NoProc]
  /\ pinned = {}
  /\ dirty = {}
  /\ pc = [p \in Proc |-> "idle"]
  /\ b = [p \in Proc |-> NoBuf]
  /\ holds = [p \in Proc |-> {}]
  /\ panicked = "no"

At(p, label) == panicked = "no" /\ pc[p] = label
Goto(p, label) == pc' = [pc EXCEPT ![p] = label]

-----------------------------------------------------------------------------
(* Sleep locks *)

\* acquiresleep(): sleep while the lock is taken, else take it.
AcquireSleep(p) ==
  /\ At(p, "acquiresleep")
  /\ \/ /\ locked[b[p]]
        /\ Goto(p, "asleep")
        /\ UNCHANGED <<locked, pid>>
     \/ /\ ~locked[b[p]]
        /\ locked' = [locked EXCEPT ![b[p]] = TRUE]
        /\ pid' = [pid EXCEPT ![b[p]] = p]
        /\ Goto(p, "bread")
  /\ UNCHANGED <<disk, bufVars, refcnt, order, pinned, dirty, b, holds, panicked>>

\* wakeup(lk)
WakesSleeper(q, x) == pc[q] = "asleep" /\ b[q] = x

\* Mutant of ReleaseSleep: who is woken does not test the lock again.
ReleaseSleepNoRetest(p, x) ==
  /\ locked' = [locked EXCEPT ![x] = FALSE]
  /\ pid' = [pid EXCEPT ![x] = NoProc]
  /\ pc' = [q \in Proc |-> IF q = p THEN "brelse"
                           ELSE IF WakesSleeper(q, x) THEN "bread" ELSE pc[q]]

\* releasesleep()
ReleaseSleep(p, x) ==
  /\ locked' = [locked EXCEPT ![x] = FALSE]
  /\ pid' = [pid EXCEPT ![x] = NoProc]
  /\ pc' = [q \in Proc |-> IF q = p THEN "brelse"
                           ELSE IF WakesSleeper(q, x) THEN "acquiresleep" ELSE pc[q]]

HoldingSleep(p, x) == locked[x] /\ pid[x] = p

-----------------------------------------------------------------------------
(* bget(), bread(), bwrite(), brelse() *)

\* A process asks for blocks in the order described above.
MayRead(p, k) ==
  /\ At(p, "idle")
  /\ Cardinality(holds[p]) < MaxHold
  /\ \A x \in holds[p] : blockno[x] < k

\* Mutant of Cached: a buffer still to be read does not count.
CachedValid(k) == \E x \in Buf : blockno[x] = k /\ valid[x]

\* "Is the block already cached?"
Cached(k) == \E x \in Buf : blockno[x] = k

BgetCached(p, k) ==
  /\ MayRead(p, k) /\ Cached(k)
  /\ \E x \in Buf :
       /\ blockno[x] = k
       /\ refcnt' = [refcnt EXCEPT ![x] = @ + 1]
       /\ b' = [b EXCEPT ![p] = x]
  /\ Goto(p, "acquiresleep")
  /\ UNCHANGED <<disk, bufVars, order, locked, pid, pinned, dirty, holds, panicked>>

\* Mutant of Unused: a buffer that is not locked.
UnusedUnlocked(x) == ~locked[x]

Unused(x) == refcnt[x] = 0

\* "Recycle the least recently used (LRU) unused buffer", the last of the list.
BgetRecycle(p, k) ==
  /\ MayRead(p, k) /\ ~Cached(k)
  /\ \E j \in 1..NBUF :
       LET x == order[j] IN
       /\ Unused(x) /\ \A l \in (j + 1)..NBUF : ~Unused(order[l])
       /\ blockno' = [blockno EXCEPT ![x] = k]
       /\ valid' = [valid EXCEPT ![x] = FALSE]
       /\ refcnt' = [refcnt EXCEPT ![x] = 1]
       /\ b' = [b EXCEPT ![p] = x]
       /\ dirty' = dirty \ {x}
  /\ Goto(p, "acquiresleep")
  /\ UNCHANGED <<disk, data, order, locked, pid, pinned, holds, panicked>>

BgetPanic(p, k) ==
  /\ MayRead(p, k) /\ ~Cached(k)
  /\ \A x \in Buf : ~Unused(x)
  /\ panicked' = "no_buffers"
  /\ UNCHANGED <<disk, bufVars, refcnt, order, locked, pid, pinned, dirty, pc, b, holds>>

\* bread() after bget().
Bread(p) ==
  /\ At(p, "bread")
  /\ data' = IF valid[b[p]] THEN data ELSE [data EXCEPT ![b[p]] = disk[blockno[b[p]]]]
  /\ valid' = [valid EXCEPT ![b[p]] = TRUE]
  /\ holds' = [holds EXCEPT ![p] = @ \cup {b[p]}]
  /\ b' = [b EXCEPT ![p] = NoBuf]
  /\ Goto(p, "idle")
  /\ UNCHANGED <<disk, blockno, refcnt, order, locked, pid, pinned, dirty, panicked>>

\* The caller changes b->data.
Modify(p, x, v) ==
  /\ At(p, "idle") /\ x \in holds[p]
  /\ data' = [data EXCEPT ![x] = v]
  /\ dirty' = dirty \cup {x}
  /\ UNCHANGED <<disk, blockno, valid, refcnt, order, locked, pid, pinned, pc, b, holds, panicked>>

Bwrite(p, x) ==
  /\ At(p, "idle") /\ x \in holds[p]
  /\ \/ /\ HoldingSleep(p, x)
        /\ disk' = [disk EXCEPT ![blockno[x]] = data[x]]
        /\ dirty' = dirty \ {x}
        /\ UNCHANGED panicked
     \/ /\ ~HoldingSleep(p, x)
        /\ panicked' = "bwrite"
        /\ UNCHANGED <<disk, dirty>>
  /\ UNCHANGED <<bufVars, refcnt, order, locked, pid, pinned, pc, b, holds>>

\* Mutant of Bpin: log_write() pins a block each time it is logged.
BpinAgain(p, x) ==
  /\ At(p, "idle") /\ x \in holds[p]
  /\ Cardinality(pinned \cup {blockno[x]}) <= MaxPins
  /\ pinned' = pinned \cup {blockno[x]}
  /\ refcnt' = [refcnt EXCEPT ![x] = IF @ < 4 THEN @ + 1 ELSE @]
  /\ UNCHANGED <<disk, bufVars, order, locked, pid, dirty, pc, b, holds, panicked>>

\* log_write(): bpin() of a block that is not in the log's header yet.
Bpin(p, x) ==
  /\ At(p, "idle") /\ x \in holds[p]
  /\ blockno[x] \notin pinned /\ Cardinality(pinned) < MaxPins
  /\ pinned' = pinned \cup {blockno[x]}
  /\ refcnt' = [refcnt EXCEPT ![x] = @ + 1]
  /\ UNCHANGED <<disk, bufVars, order, locked, pid, dirty, pc, b, holds, panicked>>

\* install_trans(): bunpin() of a block just written home.
Bunpin(p, x) ==
  /\ At(p, "idle") /\ x \in holds[p]
  /\ blockno[x] \in pinned /\ x \notin dirty
  /\ pinned' = pinned \ {blockno[x]}
  /\ refcnt' = [refcnt EXCEPT ![x] = @ - 1]
  /\ UNCHANGED <<disk, bufVars, order, locked, pid, dirty, pc, b, holds, panicked>>

\* brelse() up to releasesleep().
BrelseUnlock(p, x) ==
  /\ At(p, "idle") /\ x \in holds[p]
  /\ panicked' = IF HoldingSleep(p, x) THEN panicked ELSE "brelse"
  /\ ReleaseSleep(p, x)
  /\ holds' = [holds EXCEPT ![p] = @ \ {x}]
  /\ b' = [b EXCEPT ![p] = x]
  /\ UNCHANGED <<disk, bufVars, refcnt, order, pinned, dirty>>

\* x is taken out of the list and put in at its head.
MoveToFront(x) ==
  LET i == CHOOSE i \in 1..NBUF : order[i] = x IN
  [j \in 1..NBUF |-> IF j = 1 THEN x ELSE IF j <= i THEN order[j - 1] ELSE order[j]]

\* The rest, under bcache.lock: an unused buffer goes to the head of the list.
Brelse(p) ==
  /\ At(p, "brelse")
  /\ refcnt' = [refcnt EXCEPT ![b[p]] = @ - 1]
  /\ order' = IF refcnt[b[p]] = 1 THEN MoveToFront(b[p]) ELSE order
  /\ b' = [b EXCEPT ![p] = NoBuf]
  /\ Goto(p, "idle")
  /\ UNCHANGED <<disk, bufVars, locked, pid, pinned, dirty, holds, panicked>>

-----------------------------------------------------------------------------
Next ==
  \E p \in Proc :
    \/ AcquireSleep(p) \/ Bread(p) \/ Brelse(p)
    \/ \E k \in Block : BgetCached(p, k) \/ BgetRecycle(p, k) \/ BgetPanic(p, k)
    \/ \E x \in Buf : Bwrite(p, x) \/ Bpin(p, x) \/ Bunpin(p, x) \/ BrelseUnlock(p, x)
    \/ \E x \in Buf, v \in Val : Modify(p, x, v)

Spec == Init /\ [][Next]_vars

-----------------------------------------------------------------------------
(* Properties *)

\* A block is never in two buffers.
OneBufferPerBlock ==
  \A x, y \in Buf : blockno[x] = blockno[y] /\ blockno[x] # NoBlock => x = y

\* A reference is counted for every process between bget() and brelse() and for
\* every pin, and for nothing else.
RefcntExact ==
  \A x \in Buf :
    refcnt[x] = Cardinality({p \in Proc : b[p] = x \/ x \in holds[p]})
                + Cardinality({k \in pinned : blockno[x] = k})

\* The sleep locks: a buffer belongs to the one process whose pid is in its
\* lock, and who sleeps for the lock sleeps while it is taken.
SleepLocks ==
  \A p \in Proc :
    /\ \A x \in Buf :
         x \in holds[p] \/ (pc[p] = "bread" /\ b[p] = x) => locked[x] /\ pid[x] = p
    /\ pc[p] = "asleep" => locked[b[p]]

\* What bread() of block k would return.
Seen(k) ==
  IF \E x \in Buf : blockno[x] = k /\ valid[x]
    THEN data[CHOOSE x \in Buf : blockno[x] = k /\ valid[x]] ELSE disk[k]

\* The contents of a block change only by a process that has its buffer, never
\* by a buffer being recycled or read again; but what writei() left changed and
\* unlogged in a buffer is gone when the buffer is recycled.
OnlyHolderChanges ==
  [][\A k \in Block : Seen(k)' # Seen(k) =>
       \/ \E p \in Proc : \E x \in holds[p] : x \in holds'[p] /\ blockno[x] = k /\ valid[x]
       \/ \E x \in dirty \ dirty' : blockno[x] = k /\ k \notin pinned]_vars
=============================================================================

-------------------------------- MODULE Log --------------------------------
(***************************************************************************)
(* The write-ahead log of the file system, kernel/log.c, over the buffer   *)
(* cache (kernel/bio.c) and a disk whose block writes survive a crash.     *)
(*                                                                         *)
(* System calls of several processes run concurrently between begin_op()   *)
(* and end_op(); the last one to finish commits for all.  Every disk write *)
(* of the commit is a step, and the machine may crash before, during or    *)
(* after each of them, also while recovering from an earlier crash.  A     *)
(* crash during the write of a data block leaves that block with any       *)
(* contents; the header fits one sector and is written whole.              *)
(*                                                                         *)
(* bread, modification, log_write and brelse of a block are one step: the  *)
(* buffer's sleep lock keeps everybody else away from it in between.       *)
(* sleep(&log, &log.lock) and wakeup(&log) are atomic: both are done under *)
(* log.lock.                                                               *)
(***************************************************************************)
EXTENDS Naturals, Sequences, FiniteSets, Functions

CONSTANTS
  Proc, Block, Val,
  LOGSIZE,      \* param.h: "max data blocks in on-disk log"
  MAXOPBLOCKS,  \* param.h: "max # of blocks any FS op writes"
  NLOG,         \* sb.nlog, the log's blocks on disk, header included; log.size
  OpBlocks,     \* the blocks a file system call really writes at most
  NotCached     \* no buffer holds the block

ASSUME SizeAssumption ==
  /\ LOGSIZE \in Nat \ {0} /\ MAXOPBLOCKS \in Nat \ {0} /\ OpBlocks \in Nat
  /\ NLOG \in Nat /\ NLOG >= 2 /\ NLOG <= LOGSIZE + 1
ASSUME ValAssumption == NotCached \notin Val
ASSUME ProcAssumption == IsFiniteSet(Proc)

VARIABLES
  disk,        \* the home blocks on disk
  logdisk,     \* the log's data blocks on disk
  head,        \* the block numbers in the on-disk log header
  cache,       \* buffer cache: the contents of a block, or NotCached
  pins,        \* references that bpin() holds on a block's buffer
  lh,          \* log.lh: the block numbers of the running transaction
  outstanding, \* log.outstanding
  committing,  \* log.committing
  pc,          \* where a process is in begin_op(), its call, end_op()
  tail,        \* the loop variable of write_log() and install_trans()
  touched,     \* the blocks a call in progress has written
  boot,        \* initlog(): "read_head", "install", "clear", or "up" after it
  panicked

diskVars == <<disk, logdisk, head>>
vars == <<disk, logdisk, head, cache, pins, lh, outstanding, committing, pc,
          tail, touched, boot, panicked>>

LogSlots == 1..(NLOG - 1)

\* A file system just made: no transaction in the log, whose blocks are zeroed.
Init ==
  /\ disk \in [Block -> Val]
  /\ \E zero \in Val : logdisk = [i \in LogSlots |-> zero]
  /\ head = <<>>
  /\ cache = [b \in Block |-> NotCached]
  /\ pins = [b \in Block |-> 0]
  /\ lh = <<>>
  /\ outstanding = 0
  /\ committing = FALSE
  /\ pc = [p \in Proc |-> "idle"]
  /\ tail = 1
  /\ touched = [p \in Proc |-> {}]
  /\ boot = "read_head"
  /\ panicked = "no"

Running == boot = "up" /\ panicked = "no"

At(p, label) == Running /\ pc[p] = label

\* The contents a bread() of b returns.
Contents(b) == IF cache[b] = NotCached THEN disk[b] ELSE cache[b]

-----------------------------------------------------------------------------
(* begin_op(), log_write(), end_op() *)

\* Mutant of NoSpace: the call that asks is not counted.
NoSpaceForOthers == Len(lh) + outstanding * MAXOPBLOCKS > LOGSIZE

\* begin_op(): "this op might exhaust log space; wait for commit".
NoSpace == Len(lh) + (outstanding + 1) * MAXOPBLOCKS > LOGSIZE

BeginOp(p) ==
  /\ Running
  /\ pc[p] \in {"idle", "begin"}
  /\ \/ /\ committing \/ NoSpace
        /\ pc' = [pc EXCEPT ![p] = "asleep"]
        /\ UNCHANGED outstanding
     \/ /\ ~committing /\ ~NoSpace
        /\ pc' = [pc EXCEPT ![p] = "op"]
        /\ outstanding' = outstanding + 1
  /\ UNCHANGED <<diskVars, cache, pins, lh, committing, tail, touched, boot, panicked>>

\* Mutant of Pin: log_write() forgets bpin().
NoPin(b) == UNCHANGED pins

Pin(b) == pins' = [pins EXCEPT ![b] = @ + 1]

\* log_write(): "too big a transaction".
TooBig == Len(lh) >= LOGSIZE \/ Len(lh) >= NLOG - 1

\* A call reads block b, changes it to v, and log_write()s it.
LogWrite(p, b, v) ==
  /\ At(p, "op")
  /\ Cardinality(touched[p] \cup {b}) <= OpBlocks
  /\ touched' = [touched EXCEPT ![p] = @ \cup {b}]
  /\ cache' = [cache EXCEPT ![b] = v]
  /\ panicked' = IF TooBig THEN "too big a transaction"
                 ELSE IF outstanding < 1 THEN "log_write outside of trans"
                 ELSE panicked
  /\ IF TooBig \/ b \in Range(lh)             \* log absorption
       THEN UNCHANGED <<lh, pins>>
       ELSE lh' = Append(lh, b) /\ Pin(b)
  /\ UNCHANGED <<diskVars, outstanding, committing, pc, tail, boot>>

\* Mutant of Wakeup: end_op() wakes nobody.
NoWakeup(q) == pc[q]

\* wakeup(&log): whoever sleeps in begin_op() tries again.
Wakeup(q) == IF pc[q] = "asleep" THEN "begin" ELSE pc[q]

\* commit() does nothing for an empty transaction.
CommitStart == IF lh = <<>> THEN "done" ELSE "write_log"

\* The part of end_op() under log.lock.
EndOp(p) ==
  /\ At(p, "op")
  /\ touched' = [touched EXCEPT ![p] = {}]
  /\ outstanding' = outstanding - 1
  /\ panicked' = IF committing THEN "log.committing" ELSE panicked
  /\ \/ /\ outstanding = 1
        /\ committing' = TRUE
        /\ tail' = 1
        /\ pc' = [pc EXCEPT ![p] = CommitStart]
     \/ /\ outstanding # 1
        /\ pc' = [q \in Proc |-> IF q = p THEN "idle" ELSE Wakeup(q)]
        /\ UNCHANGED <<committing, tail>>
  /\ UNCHANGED <<diskVars, cache, pins, lh, boot>>

\* The end of end_op() after commit().
EndCommit(p) ==
  /\ At(p, "done")
  /\ committing' = FALSE
  /\ pc' = [q \in Proc |-> IF q = p THEN "idle" ELSE Wakeup(q)]
  /\ UNCHANGED <<diskVars, cache, pins, lh, outstanding, tail, touched, boot, panicked>>

-----------------------------------------------------------------------------
(* commit() *)

\* One round of write_log(): copy a cached block to the log.
WriteLog(p) ==
  /\ At(p, "write_log")
  /\ logdisk' = [logdisk EXCEPT ![tail] = Contents(lh[tail])]
  /\ cache' = [cache EXCEPT ![lh[tail]] = Contents(lh[tail])]
  /\ tail' = IF tail = Len(lh) THEN 1 ELSE tail + 1
  /\ pc' = [pc EXCEPT ![p] = IF tail = Len(lh) THEN "write_head" ELSE "write_log"]
  /\ UNCHANGED <<disk, head, pins, lh, outstanding, committing, touched, boot, panicked>>

SetHead == head' = lh

\* write_head(): "the true point at which the current transaction commits".
WriteHead(p) ==
  /\ At(p, "write_head")
  /\ SetHead
  /\ pc' = [pc EXCEPT ![p] = "install"]
  /\ UNCHANGED <<disk, logdisk, cache, pins, lh, outstanding, committing, tail,
                 touched, boot, panicked>>

\* Mutant of WriteHome: the block is only copied to its buffer.
WriteHomeMissing == UNCHANGED disk

\* bwrite(dbuf)
WriteHome == disk' = [disk EXCEPT ![lh[tail]] = logdisk[tail]]

\* One round of install_trans(): copy a log block home.
InstallOne ==
  /\ WriteHome
  /\ cache' = [cache EXCEPT ![lh[tail]] = logdisk[tail]]
  /\ tail' = IF tail = Len(lh) THEN 1 ELSE tail + 1

\* install_trans(0), which also unpins.
InstallTrans(p) ==
  /\ At(p, "install")
  /\ InstallOne
  /\ pins' = [pins EXCEPT ![lh[tail]] = @ - 1]
  /\ pc' = [pc EXCEPT ![p] = IF tail = Len(lh) THEN "clear" ELSE "install"]
  /\ UNCHANGED <<logdisk, head, lh, outstanding, committing, touched, boot, panicked>>

\* log.lh.n = 0; write_head().
ClearHead(p) ==
  /\ At(p, "clear")
  /\ lh' = <<>>
  /\ head' = <<>>
  /\ pc' = [pc EXCEPT ![p] = "done"]
  /\ UNCHANGED <<disk, logdisk, cache, pins, outstanding, committing, tail,
                 touched, boot, panicked>>

-----------------------------------------------------------------------------
(* The buffer cache: bread() by anybody, and bget() recycling a buffer whose *)
(* reference count is 0.                                                     *)

Bread(b) ==
  /\ Running
  /\ cache[b] = NotCached
  /\ cache' = [cache EXCEPT ![b] = disk[b]]
  /\ UNCHANGED <<diskVars, pins, lh, outstanding, committing, pc, tail, touched, boot, panicked>>

Recycle(b) ==
  /\ Running
  /\ cache[b] # NotCached
  /\ pins[b] = 0
  /\ cache' = [cache EXCEPT ![b] = NotCached]
  /\ UNCHANGED <<diskVars, pins, lh, outstanding, committing, pc, tail, touched, boot, panicked>>

-----------------------------------------------------------------------------
(* Crash, and recover_from_log() at the next boot *)

\* The memory is lost.  The block that was being written holds anything.
Crash ==
  /\ disk' \in IF boot = "install" \/ \E p \in Proc : pc[p] = "install"
                THEN {[disk EXCEPT ![lh[tail]] = v] : v \in Val} ELSE {disk}
  /\ logdisk' \in IF \E p \in Proc : pc[p] = "write_log"
                   THEN {[logdisk EXCEPT ![tail] = v] : v \in Val} ELSE {logdisk}
  /\ head' = head
  /\ cache' = [b \in Block |-> NotCached]
  /\ pins' = [b \in Block |-> 0]
  /\ lh' = <<>>
  /\ outstanding' = 0
  /\ committing' = FALSE
  /\ pc' = [p \in Proc |-> "idle"]
  /\ tail' = 1
  /\ touched' = [p \in Proc |-> {}]
  /\ boot' = "read_head"
  /\ panicked' = "no"

\* read_head()
ReadHead ==
  /\ boot = "read_head"
  /\ lh' = head
  /\ boot' = IF head = <<>> THEN "clear" ELSE "install"
  /\ UNCHANGED <<diskVars, cache, pins, outstanding, committing, pc, tail, touched, panicked>>

\* A round of install_trans(1)
RecoverTrans ==
  /\ boot = "install"
  /\ InstallOne
  /\ boot' = IF tail = Len(lh) THEN "clear" ELSE "install"
  /\ UNCHANGED <<logdisk, head, pins, lh, outstanding, committing, pc, touched, panicked>>

\* "clear the log"
RecoverClear ==
  /\ boot = "clear"
  /\ lh' = <<>>
  /\ head' = <<>>
  /\ boot' = "up"
  /\ UNCHANGED <<disk, logdisk, cache, pins, outstanding, committing, pc, tail, touched, panicked>>

-----------------------------------------------------------------------------
Commit(p) == WriteLog(p) \/ WriteHead(p) \/ InstallTrans(p) \/ ClearHead(p) \/ EndCommit(p)

Recover == ReadHead \/ RecoverTrans \/ RecoverClear

Next ==
  \/ \E p \in Proc : BeginOp(p) \/ EndOp(p) \/ Commit(p)
  \/ \E p \in Proc, b \in Block, v \in Val : LogWrite(p, b, v)
  \/ \E b \in Block : Bread(b) \/ Recycle(b)
  \/ Crash
  \/ Recover

Spec == Init /\ [][Next]_vars

\* A process that is scheduled again and again (see Proc) finishes its system
\* call and its commit; nothing makes it start a call or write a block.
Fairness == WF_vars(Recover) /\ \A p \in Proc : WF_vars(EndOp(p)) /\ WF_vars(Commit(p))

FairSpec == Spec /\ Fairness

-----------------------------------------------------------------------------
(* Properties *)

\* What recovery would make of the disk as it is now.
Recovered == [b \in Block |-> IF b \in Range(head)
                              THEN logdisk[CHOOSE i \in DOMAIN head : head[i] = b]
                              ELSE disk[b]]

\* What the running system sees; nothing before recovery is over.
Seen == IF boot = "up" THEN [b \in Block |-> Contents(b)] ELSE Recovered

Abstract == INSTANCE AtomicDisk WITH
  mem <- Seen, durable <- Recovered, active <- {p \in Proc : pc[p] = "op"}

\* begin_op(), log_write(), end_op() and recovery implement the atomic disk:
\* after a crash at any point the file system is in a state in which every call
\* has happened completely or not at all, and no running call ever reads
\* anything but the latest contents.
Implements == Abstract!Spec

\* What begin_op()'s reservation takes for granted: calls write fewer blocks
\* than MAXOPBLOCKS, by enough to make up for the header, which is one of the
\* NLOG blocks of the log, and one call fits.
CallsFit ==
  /\ OpBlocks < MAXOPBLOCKS /\ OpBlocks < LOGSIZE /\ OpBlocks < NLOG - 1
  /\ LOGSIZE < NLOG - 1 + 2 * (MAXOPBLOCKS - OpBlocks)

\* The assertions of log_write() and end_op() never fire, so the log never
\* overflows ("too big a transaction") for calls that write OpBlocks blocks.
NoPanic == panicked = "no"

\* When no call is in progress and no commit is running, every completed call
\* has reached the disk: end_op() of the last call returns only after commit.
CompletedCallsDurable ==
  boot = "up" /\ outstanding = 0 /\ ~committing => Seen = Recovered

\* A process asleep in begin_op() is woken (or the machine crashes).
SleeperWakes == \A p \in Proc : pc[p] = "asleep" ~> pc[p] # "asleep"
=============================================================================

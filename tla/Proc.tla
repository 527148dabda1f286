-------------------------------- MODULE Proc --------------------------------
(***************************************************************************)
(* Processes: kernel/proc.c (scheduler, sched, yield, sleep, wakeup,       *)
(* allocproc, fork, exit, reparent, wait, kill, killed) and the checks of  *)
(* kernel/trap.c that act on p->killed.                                    *)
(*                                                                         *)
(* Each process has a kernel thread that runs on a CPU only while that CPU *)
(* is on the thread's kernel stack (cur[c] = p).  A spin lock is held by a *)
(* CPU, not by a process, which is what lets p->lock be taken by one       *)
(* thread and released by another across swtch().  acquire() of a free     *)
(* lock is atomic (module SpinLock).  The code between acquiring and       *)
(* releasing a single lock is one step; where several locks are involved,  *)
(* a loop takes locks one after the other, or a thread is about to leave   *)
(* the CPU, each part is a step.                                           *)
(*                                                                         *)
(* The memory and the files of a process are elsewhere: uvmcopy() is       *)
(* represented by the set of its possible results.                         *)
(***************************************************************************)
EXTENDS Naturals, FiniteSets

CONSTANTS
  CPU,
  NPROC,         \* size of the process table
  UvmcopyOk,     \* may uvmcopy() return 0?
  KillPids,      \* the arguments user programs pass to kill()
  MaxPid,        \* bound: pids handed out
  NoCpu, NoProc

ASSUME ProcAssumption ==
  /\ NPROC \in Nat \ {0} /\ MaxPid \in Nat /\ UvmcopyOk \in BOOLEAN
  /\ NoProc \notin 1..NPROC /\ NoCpu \notin CPU

Slot == 1..NPROC
Initproc == 1

VARIABLES
  state,     \* p->state
  parent,    \* p->parent, protected by wait_lock
  chan,      \* p->chan; wait() sleeps on the process itself
  killed,    \* p->killed
  pid,       \* p->pid
  nextpid,
  plock,     \* the CPU that holds p->lock
  waitlock,  \* the CPU that holds wait_lock
  cur,       \* the process on whose kernel stack a CPU is, or NoProc: its scheduler
  swtch,     \* of a thread: "no", "out" (about to swtch), "off", "in" (just resumed)
  pc,        \* where the thread is, or will be once it runs again
  i,         \* loop variable of the scan in progress
  k,         \* loop variable of wakeup()
  arg,       \* fork: np; kill: the pid; wait: havekids
  panicked

vars == <<state, parent, chan, killed, pid, nextpid, plock, waitlock, cur, swtch,
          pc, i, k, arg, panicked>>

\* userinit(): the first process, ready to run.
Init ==
  /\ state = [p \in Slot |-> IF p = Initproc THEN "RUNNABLE" ELSE "UNUSED"]
  /\ parent = [p \in Slot |-> NoProc]
  /\ chan = [p \in Slot |-> NoProc]
  /\ killed = [p \in Slot |-> FALSE]
  /\ pid = [p \in Slot |-> IF p = Initproc THEN 1 ELSE 0]
  /\ nextpid = 2
  /\ plock = [p \in Slot |-> NoCpu]
  /\ waitlock = NoCpu
  /\ cur = [c \in CPU |-> NoProc]
  /\ swtch = [p \in Slot |-> "off"]
  /\ pc = [p \in Slot |-> "user"]
  /\ i = [p \in Slot |-> 1]
  /\ k = [p \in Slot |-> 1]
  /\ arg = [p \in Slot |-> 0]
  /\ panicked = "no"

\* The thread of p is executing on CPU c, at the given point of its code.
Runs(c, p, label) ==
  /\ panicked = "no"
  /\ cur[c] = p /\ swtch[p] = "no" /\ pc[p] = label

Goto(p, label) == pc' = [pc EXCEPT ![p] = label]

Free(p) == plock[p] = NoCpu

HoldsNothing(c) == waitlock # c /\ \A q \in Slot : plock[q] # c

-----------------------------------------------------------------------------
(* scheduler(), sched(), yield() *)

\* scheduler(): take p->lock, find p RUNNABLE, switch to it.  The order in which
\* the table is scanned is left open.
Schedule(c, p) ==
  /\ panicked = "no"
  /\ cur[c] = NoProc
  /\ Free(p) /\ state[p] = "RUNNABLE"
  /\ plock' = [plock EXCEPT ![p] = c]
  /\ state' = [state EXCEPT ![p] = "RUNNING"]
  /\ cur' = [cur EXCEPT ![c] = p]
  /\ swtch' = [swtch EXCEPT ![p] = "in"]
  /\ UNCHANGED <<parent, chan, killed, pid, nextpid, waitlock, pc, i, k, arg, panicked>>

\* swtch() in sched(), then the scheduler's c->proc = 0 and release(&p->lock).
SwtchOut(c, p) ==
  /\ panicked = "no"
  /\ cur[c] = p /\ swtch[p] = "out"
  /\ cur' = [cur EXCEPT ![c] = NoProc]
  /\ plock' = [plock EXCEPT ![p] = NoCpu]
  /\ swtch' = [swtch EXCEPT ![p] = "off"]
  /\ UNCHANGED <<state, parent, chan, killed, pid, nextpid, waitlock, pc, i, k, arg, panicked>>

\* The resumed thread leaves sched() in yield() or sleep() ("tidy up"), or starts
\* in forkret(): it releases the p->lock that the scheduler acquired.
SwtchIn(c, p) ==
  /\ panicked = "no"
  /\ cur[c] = p /\ swtch[p] = "in"
  /\ chan' = [chan EXCEPT ![p] = NoProc]
  /\ plock' = [plock EXCEPT ![p] = NoCpu]
  /\ swtch' = [swtch EXCEPT ![p] = "no"]
  /\ panicked' = IF pc[p] = "dead" THEN "zombie exit" ELSE panicked
  /\ UNCHANGED <<state, parent, killed, pid, nextpid, waitlock, cur, pc, i, k, arg>>

\* Mutant of DropWaitLock: sched() is entered with wait_lock held.
DropWaitLockMissing == UNCHANGED waitlock

\* release(&wait_lock) by a thread that has its p->lock and is about to sched().
DropWaitLock == waitlock' = NoCpu

\* Mutant of LockSelf: the thread gives itself up without p->lock.
LockSelfMissing(c, p) == UNCHANGED plock

\* acquire(&p->lock) by the thread of p, before it gives up the CPU.
LockSelf(c, p) == plock' = [plock EXCEPT ![p] = c]

\* yield() on a timer interrupt: anywhere the CPU holds no lock, for then
\* interrupts are on.
Yield(c, p) ==
  /\ panicked = "no"
  /\ cur[c] = p /\ swtch[p] = "no"
  /\ HoldsNothing(c)
  /\ Free(p)
  /\ LockSelf(c, p)
  /\ state' = [state EXCEPT ![p] = "RUNNABLE"]
  /\ swtch' = [swtch EXCEPT ![p] = "out"]
  /\ UNCHANGED <<parent, chan, killed, pid, nextpid, waitlock, cur, pc, i, k, arg, panicked>>

-----------------------------------------------------------------------------
(* usertrap(): what user programs may do *)

\* usertrap() finds the process killed, at a system call or any other trap, or
\* the program calls exit(): exit() begins.
Exit(c, p) ==
  /\ Runs(c, p, "user")
  /\ Free(p)
  /\ panicked' = IF p = Initproc THEN "init exiting" ELSE panicked
  /\ Goto(p, "exit")
  /\ UNCHANGED <<state, parent, chan, killed, pid, nextpid, plock, waitlock, cur, swtch, i, k, arg>>

\* An unexpected exception in user mode: setkilled(p), and by the check at the end
\* of usertrap() exit(-1).
Fault(c, p) ==
  /\ Runs(c, p, "user")
  /\ Free(p)
  /\ killed' = [killed EXCEPT ![p] = TRUE]
  /\ panicked' = IF p = Initproc THEN "init exiting" ELSE panicked
  /\ Goto(p, "exit")
  /\ UNCHANGED <<state, parent, chan, pid, nextpid, plock, waitlock, cur, swtch, i, k, arg>>

\* A system call of a process that usertrap() finds not killed.
Syscall(c, p, label, a) ==
  /\ Runs(c, p, "user")
  /\ Free(p) /\ ~killed[p]
  /\ Goto(p, label)
  /\ i' = [i EXCEPT ![p] = 1]
  /\ arg' = [arg EXCEPT ![p] = a]
  /\ UNCHANGED <<state, parent, chan, killed, pid, nextpid, plock, waitlock, cur, swtch, k, panicked>>

\* The system call returns to user space; locals are gone.
Return(p) ==
  /\ Goto(p, "user")
  /\ i' = [i EXCEPT ![p] = 1]
  /\ arg' = [arg EXCEPT ![p] = 0]

-----------------------------------------------------------------------------
(* fork() *)

AllocPid == nextpid' = nextpid + 1

\* A round of allocproc()'s scan.
AllocScan(c, p) ==
  /\ Runs(c, p, "fork")
  /\ i[p] \in Slot
  /\ Free(i[p])
  /\ \/ /\ state[i[p]] = "UNUSED"
        /\ plock' = [plock EXCEPT ![i[p]] = c]
        /\ state' = [state EXCEPT ![i[p]] = "USED"]
        /\ pid' = [pid EXCEPT ![i[p]] = nextpid]
        /\ AllocPid
        /\ arg' = [arg EXCEPT ![p] = i[p]]
        /\ Goto(p, "copy")
        /\ UNCHANGED i
     \/ /\ state[i[p]] # "UNUSED"
        /\ i' = [i EXCEPT ![p] = @ + 1]
        /\ UNCHANGED <<plock, state, pid, nextpid, arg, pc>>
  /\ UNCHANGED <<parent, chan, killed, waitlock, cur, swtch, k, panicked>>

AllocNone(c, p) ==
  /\ Runs(c, p, "fork")
  /\ i[p] \notin Slot
  /\ Return(p)
  /\ UNCHANGED <<state, parent, chan, killed, pid, nextpid, plock, waitlock, cur, swtch, k, panicked>>

ClearKilled(q) == killed' = [killed EXCEPT ![q] = FALSE]

\* freeproc(q), and the release of q->lock that follows every call of it.
Freeproc(q) ==
  /\ state' = [state EXCEPT ![q] = "UNUSED"]
  /\ pid' = [pid EXCEPT ![q] = 0]
  /\ parent' = [parent EXCEPT ![q] = NoProc]
  /\ chan' = [chan EXCEPT ![q] = NoProc]
  /\ ClearKilled(q)
  /\ plock' = [plock EXCEPT ![q] = NoCpu]

\* kalloc(), proc_pagetable() or uvmcopy() fails.
ForkFail(c, p) ==
  /\ Runs(c, p, "copy")
  /\ Freeproc(arg[p])
  /\ Return(p)
  /\ UNCHANGED <<nextpid, waitlock, cur, swtch, k, panicked>>

\* The child is complete except for its parent; it will start in forkret().
ForkCopy(c, p) ==
  /\ Runs(c, p, "copy")
  /\ UvmcopyOk
  /\ plock' = [plock EXCEPT ![arg[p]] = NoCpu]
  /\ pc' = [pc EXCEPT ![p] = "setparent", ![arg[p]] = "user"]
  /\ UNCHANGED <<state, parent, chan, killed, pid, nextpid, waitlock, cur, swtch, i, k, arg, panicked>>

ForkParent(c, p) ==
  /\ Runs(c, p, "setparent")
  /\ waitlock = NoCpu
  /\ parent' = [parent EXCEPT ![arg[p]] = p]
  /\ Goto(p, "setrunnable")
  /\ UNCHANGED <<state, chan, killed, pid, nextpid, plock, waitlock, cur, swtch, i, k, arg, panicked>>

ForkRunnable(c, p) ==
  /\ Runs(c, p, "setrunnable")
  /\ Free(arg[p])
  /\ state' = [state EXCEPT ![arg[p]] = "RUNNABLE"]
  /\ Return(p)
  /\ UNCHANGED <<parent, chan, killed, pid, nextpid, plock, waitlock, cur, swtch, k, panicked>>

Fork(c, p) ==
  AllocScan(c, p) \/ AllocNone(c, p) \/ ForkFail(c, p) \/ ForkCopy(c, p)
  \/ ForkParent(c, p) \/ ForkRunnable(c, p)

-----------------------------------------------------------------------------
(* wakeup(), exit(), reparent() *)

LastSlot(n) == n = NPROC

\* A round of wakeup(ch): the caller p looks at process k[p], if not itself.
WakeOne(p, ch) ==
  /\ k[p] = p \/ Free(k[p])
  /\ state' = IF k[p] # p /\ state[k[p]] = "SLEEPING" /\ chan[k[p]] = ch
               THEN [state EXCEPT ![k[p]] = "RUNNABLE"] ELSE state
  /\ k' = [k EXCEPT ![p] = IF LastSlot(@) THEN 1 ELSE @ + 1]

\* acquire(&wait_lock), after the files are closed.
ExitLock(c, p) ==
  /\ Runs(c, p, "exit")
  /\ waitlock = NoCpu
  /\ waitlock' = c
  /\ i' = [i EXCEPT ![p] = 1]
  /\ Goto(p, "reparent")
  /\ UNCHANGED <<state, parent, chan, killed, pid, nextpid, plock, cur, swtch, k, arg, panicked>>

\* wakeup(initproc) follows for every child passed on.
AfterReparent(p) == IF parent[i[p]] = p THEN "wakeinit" ELSE "reparent"

\* Mutant of GiveToInit: the children keep their parent.
GiveToInitMissing(q) == UNCHANGED parent

GiveToInit(q) == parent' = [parent EXCEPT ![q] = Initproc]

\* A round of reparent().
Reparent(c, p) ==
  /\ Runs(c, p, "reparent")
  /\ i[p] \in Slot
  /\ IF parent[i[p]] = p THEN GiveToInit(i[p]) ELSE UNCHANGED parent
  /\ Goto(p, AfterReparent(p))
  /\ i' = [i EXCEPT ![p] = @ + 1]
  /\ UNCHANGED <<state, chan, killed, pid, nextpid, plock, waitlock, cur, swtch, k, arg, panicked>>

WakeInit(c, p) ==
  /\ Runs(c, p, "wakeinit")
  /\ WakeOne(p, Initproc)
  /\ Goto(p, IF LastSlot(k[p]) THEN "reparent" ELSE "wakeinit")
  /\ UNCHANGED <<parent, chan, killed, pid, nextpid, plock, waitlock, cur, swtch, i, arg, panicked>>

\* Mutant of ExitChan: exit() wakes the sleepers on itself.
ExitChanSelf(p) == p

\* exit() wakes up p->parent.
ExitChan(p) == parent[p]

\* The first round of wakeup(p->parent) comes after the last of reparent().
WakeParent(c, p) ==
  /\ Runs(c, p, "wakeparent") \/ (Runs(c, p, "reparent") /\ i[p] \notin Slot)
  /\ WakeOne(p, ExitChan(p))
  /\ Goto(p, IF LastSlot(k[p]) THEN "zombie" ELSE "wakeparent")
  /\ i' = [i EXCEPT ![p] = 1]
  /\ UNCHANGED <<parent, chan, killed, pid, nextpid, plock, waitlock, cur, swtch, arg, panicked>>

\* acquire(&p->lock), ZOMBIE, release(&wait_lock), and into sched().
ExitZombie(c, p) ==
  /\ Runs(c, p, "zombie")
  /\ Free(p)
  /\ LockSelf(c, p)
  /\ state' = [state EXCEPT ![p] = "ZOMBIE"]
  /\ DropWaitLock
  /\ swtch' = [swtch EXCEPT ![p] = "out"]
  /\ Goto(p, "dead")
  /\ UNCHANGED <<parent, chan, killed, pid, nextpid, cur, i, k, arg, panicked>>

DoExit(c, p) ==
  ExitLock(c, p) \/ Reparent(c, p) \/ WakeInit(c, p) \/ WakeParent(c, p) \/ ExitZombie(c, p)

-----------------------------------------------------------------------------
(* wait() *)

\* acquire(&wait_lock), on entry and at the end of sleep(p, &wait_lock);
\* either way the scan starts with havekids = 0.
WaitLock(c, p) ==
  /\ Runs(c, p, "wait")
  /\ waitlock = NoCpu
  /\ waitlock' = c
  /\ i' = [i EXCEPT ![p] = 1]
  /\ arg' = [arg EXCEPT ![p] = 0]
  /\ Goto(p, "scan")
  /\ UNCHANGED <<state, parent, chan, killed, pid, nextpid, plock, cur, swtch, k, panicked>>

\* A round of the scan that finds no exited child.
WaitScan(c, p) ==
  /\ Runs(c, p, "scan")
  /\ i[p] \in Slot
  /\ \/ parent[i[p]] # p /\ UNCHANGED arg
     \/ /\ parent[i[p]] = p
        /\ Free(i[p]) /\ state[i[p]] # "ZOMBIE"
        /\ arg' = [arg EXCEPT ![p] = 1]
  /\ i' = [i EXCEPT ![p] = @ + 1]
  /\ UNCHANGED <<state, parent, chan, killed, pid, nextpid, plock, waitlock, cur, swtch, pc, k, panicked>>

\* acquire(&pp->lock): "make sure the child isn't still in exit() or swtch()".
ChildAtRest(q) == Free(q)

WaitReap(c, p) ==
  /\ Runs(c, p, "scan")
  /\ i[p] \in Slot /\ parent[i[p]] = p
  /\ ChildAtRest(i[p]) /\ state[i[p]] = "ZOMBIE"
  /\ Freeproc(i[p])
  /\ waitlock' = NoCpu
  /\ Return(p)
  /\ UNCHANGED <<nextpid, cur, swtch, k, panicked>>

\* copyout() of the exit status fails: the child stays.
WaitCopyoutFails(c, p) ==
  /\ Runs(c, p, "scan")
  /\ i[p] \in Slot /\ parent[i[p]] = p
  /\ ChildAtRest(i[p]) /\ state[i[p]] = "ZOMBIE"
  /\ waitlock' = NoCpu
  /\ Return(p)
  /\ UNCHANGED <<state, parent, chan, killed, pid, nextpid, plock, cur, swtch, k, panicked>>

\* No children, or killed(p).
WaitGiveUp(c, p) ==
  /\ Runs(c, p, "scan")
  /\ i[p] \notin Slot
  /\ arg[p] = 0 \/ (Free(p) /\ killed[p])
  /\ waitlock' = NoCpu
  /\ Return(p)
  /\ UNCHANGED <<state, parent, chan, killed, pid, nextpid, plock, cur, swtch, k, panicked>>

\* The check before the sleep: children, and not killed.
WaitDecide(c, p) ==
  /\ Runs(c, p, "scan")
  /\ i[p] \notin Slot
  /\ arg[p] = 1 /\ Free(p) /\ ~killed[p]
  /\ Goto(p, "sleep")
  /\ UNCHANGED <<state, parent, chan, killed, pid, nextpid, plock, waitlock, cur, swtch, i, k, arg, panicked>>

\* sleep(p, &wait_lock): acquire(&p->lock), release(&wait_lock), SLEEPING, sched().
Sleep(c, p) ==
  /\ Runs(c, p, "sleep")
  /\ Free(p)
  /\ LockSelf(c, p)
  /\ DropWaitLock
  /\ chan' = [chan EXCEPT ![p] = p]
  /\ state' = [state EXCEPT ![p] = "SLEEPING"]
  /\ swtch' = [swtch EXCEPT ![p] = "out"]
  /\ Goto(p, "wait")
  /\ UNCHANGED <<parent, killed, pid, nextpid, cur, i, k, arg, panicked>>

Wait(c, p) ==
  WaitLock(c, p) \/ WaitScan(c, p) \/ WaitReap(c, p) \/ WaitCopyoutFails(c, p)
  \/ WaitGiveUp(c, p) \/ WaitDecide(c, p) \/ Sleep(c, p)

-----------------------------------------------------------------------------
(* kill(pid) *)

KillScan(c, p) ==
  /\ Runs(c, p, "kill")
  /\ i[p] \in Slot /\ pid[i[p]] # arg[p]
  /\ Free(i[p])
  /\ i' = [i EXCEPT ![p] = @ + 1]
  /\ UNCHANGED <<state, parent, chan, killed, pid, nextpid, plock, waitlock, cur, swtch, pc, k, arg, panicked>>

KillFound(c, p) ==
  /\ Runs(c, p, "kill")
  /\ i[p] \in Slot /\ pid[i[p]] = arg[p]
  /\ Free(i[p])
  /\ killed' = [killed EXCEPT ![i[p]] = TRUE]
  /\ state' = IF state[i[p]] = "SLEEPING" THEN [state EXCEPT ![i[p]] = "RUNNABLE"] ELSE state
  /\ Return(p)
  /\ UNCHANGED <<parent, chan, pid, nextpid, plock, waitlock, cur, swtch, k, panicked>>

KillNone(c, p) ==
  /\ Runs(c, p, "kill")
  /\ i[p] \notin Slot
  /\ Return(p)
  /\ UNCHANGED <<state, parent, chan, killed, pid, nextpid, plock, waitlock, cur, swtch, k, panicked>>

Kill(c, p) == KillScan(c, p) \/ KillFound(c, p) \/ KillNone(c, p)

-----------------------------------------------------------------------------
\* panic() never returns.
Halted == panicked # "no" /\ UNCHANGED vars

Work(c, p) == Fork(c, p) \/ DoExit(c, p) \/ Wait(c, p) \/ Kill(c, p)

User(c, p) ==
  \/ Exit(c, p)
  \/ Fault(c, p)
  \/ nextpid <= MaxPid /\ Syscall(c, p, "fork", 0)
  \/ Syscall(c, p, "wait", 0)
  \/ \E n \in KillPids : Syscall(c, p, "kill", n)

Next ==
  \/ \E c \in CPU, p \in Slot :
       \/ Schedule(c, p) \/ SwtchIn(c, p) \/ SwtchOut(c, p) \/ Yield(c, p)
       \/ Work(c, p) \/ User(c, p)
  \/ Halted

Spec == Init /\ [][Next]_vars

-----------------------------------------------------------------------------
(* Properties *)

\* A kernel stack is one CPU's at a time: p->lock is held from before a process
\* is marked RUNNABLE, SLEEPING or ZOMBIE until its thread has left it; and a
\* free or half-made entry is nobody's: wait() does not free a child that is
\* still on its way out through sched().
OneCpu ==
  /\ \A c, d \in CPU : cur[c] = cur[d] /\ cur[c] # NoProc => c = d
  /\ \A p \in Slot : state[p] \in {"UNUSED", "USED", "SLEEPING"} /\ Free(p) =>
       \A c \in CPU : cur[c] # p

\* The assertions of sched(), and of exit() after it, hold: a thread enters
\* sched() with its own p->lock and no other lock, not RUNNING, and a ZOMBIE
\* never comes back.
SchedAssertions ==
  /\ panicked # "zombie exit"
  /\ \A c \in CPU, p \in Slot : cur[c] = p /\ swtch[p] = "out" =>
       /\ plock[p] = c
       /\ waitlock # c /\ \A q \in Slot \ {p} : plock[q] # c
       /\ state[p] # "RUNNING"

\* While nobody is changing the family tree, every process that can still exit
\* or has exited has a parent that is there to wait for it.
NoOrphans ==
  waitlock = NoCpu =>
    \A p \in Slot \ {Initproc} : state[p] \notin {"UNUSED", "USED"} =>
      parent[p] # NoProc /\ state[parent[p]] \notin {"UNUSED", "USED", "ZOMBIE"}

\* No wakeup of exit() or reparent() is lost: a process asleep in wait() has no
\* exited child, except while an exit in progress is about to wake it.
NoLostExit ==
  waitlock = NoCpu =>
    \A p, q \in Slot : state[p] = "SLEEPING" /\ parent[q] = p => state[q] # "ZOMBIE"
=============================================================================

----------------------------- MODULE ProcFamily -----------------------------
(***************************************************************************)
(* The family tree of processes, and the wakeups of exit() and reparent()  *)
(* that wait() relies on: for any number of CPUs and processes nobody is   *)
(* an orphan and no exited child is forgotten by a parent that sleeps.     *)
(***************************************************************************)
EXTENDS ProcFork

Gone == {"UNUSED", "USED", "ZOMBIE"}
Alive(p) == p \in Slot /\ state[p] \notin Gone
HasZombie(p) == \E q \in Slot : parent[q] = p /\ state[q] = "ZOMBIE"

\* The first process does not exit, for exit() panics.
InitprocInv ==
  /\ state[Initproc] \notin Gone /\ parent[Initproc] = NoProc
  /\ panicked = "no" => pc[Initproc] \notin ExitPCs

\* Everybody else has a living parent.
LivingInv ==
  \A q \in Slot : q # Initproc /\ state[q] \notin {"UNUSED", "USED"} => Alive(parent[q])

\* Where p is: fork() has set the parent of the child; reparent() has left no child
\* behind; the scan of wait() no exited one; and wakeup() of the parent, once past
\* it, has left it awake.
LocalInv(p) ==
  /\ pc[p] = "setrunnable" => parent[arg[p]] = p
  /\ pc[p] \in {"reparent", "wakeinit"} => \A q \in Slot : q < i[p] => parent[q] # p
  /\ pc[p] \in {"wakeparent", "zombie"} => \A q \in Slot : parent[q] # p
  /\ pc[p] = "wakeparent" /\ state[parent[p]] = "SLEEPING" => k[p] <= parent[p]
  /\ pc[p] = "zombie" => state[parent[p]] # "SLEEPING"
  /\ pc[p] \notin {"wakeinit", "wakeparent"} => k[p] = 1
  /\ pc[p] = "scan" => \A q \in Slot : q < i[p] /\ parent[q] = p => state[q] # "ZOMBIE"
  /\ pc[p] = "sleep" => ~HasZombie(p)

\* A sleeper sleeps on itself and has no exited child, unless it is the first
\* process and the holder of wait_lock has yet to come to it.
SleepInv ==
  \A p \in Slot : state[p] = "SLEEPING" =>
    /\ chan[p] = p
    /\ HasZombie(p) => p = Initproc /\ \E r \in Slot : pc[r] = "wakeinit" /\ k[r] <= Initproc

FamilyInv == InitprocInv /\ LivingInv /\ (\A p \in Slot : LocalInv(p)) /\ SleepInv

-----------------------------------------------------------------------------
(* What each part needs of a step *)

LEMMA InitFamily ==
  ASSUME Init
  PROVE  FamilyInv
<1>0. Initproc \in Slot /\ \A p \in Slot : p # NoProc
  BY ProcAssumption DEF Slot, Initproc
<1>1. InitprocInv /\ LivingInv
  BY <1>0 DEF Init, InitprocInv, LivingInv, Gone, ExitPCs
<1>2. \A p \in Slot : LocalInv(p)
  BY DEF Init, LocalInv
<1>3. SleepInv
  BY DEF Init, SleepInv
<1> QED
  BY <1>1, <1>2, <1>3 DEF FamilyInv

LEMMA InitprocKept ==
  ASSUME InitprocInv, state'[Initproc] \notin Gone, parent'[Initproc] = parent[Initproc],
         panicked' = "no" => pc'[Initproc] \notin ExitPCs
  PROVE  InitprocInv'
BY DEF InitprocInv

LEMMA LivingKept ==
  ASSUME InitprocInv, LivingInv,
         \A q \in Slot : q # Initproc /\ state'[q] \notin {"UNUSED", "USED"} =>
           /\ state[q] \notin {"UNUSED", "USED"} /\ parent'[q] \in {parent[q], Initproc}
           /\ parent'[q] \in Slot /\ state[parent'[q]] \notin Gone => state'[parent'[q]] \notin Gone
  PROVE  LivingInv'
<1>1. Initproc \in Slot
  BY ProcAssumption DEF Slot, Initproc
<1>2. ASSUME NEW q \in Slot, q # Initproc, state'[q] \notin {"UNUSED", "USED"}
      PROVE  parent'[q] \in Slot /\ state'[parent'[q]] \notin Gone
  <2>1. state[q] \notin {"UNUSED", "USED"} /\ parent'[q] \in {parent[q], Initproc}
    BY <1>2
  <2>2. parent'[q] \in Slot /\ state[parent'[q]] \notin Gone
    BY <1>1, <1>2, <2>1 DEF InitprocInv, LivingInv, Alive
  <2> QED
    BY <1>2, <2>2
<1> QED
  BY <1>2 DEF LivingInv, Alive

\* A thread that the step does not move.
Same(r) == pc'[r] = pc[r] /\ i'[r] = i[r] /\ k'[r] = k[r] /\ arg'[r] = arg[r]

LEMMA LocalKept ==
  ASSUME NEW r \in Slot, LocalInv(r), Same(r),
         \A x \in Slot : parent'[x] = r => parent[x] = r /\ (state'[x] = "ZOMBIE" => state[x] = "ZOMBIE"),
         pc[r] = "setrunnable" => parent'[arg[r]] = parent[arg[r]],
         pc[r] \in {"wakeparent", "zombie"} =>
           parent'[r] = parent[r] /\ (state'[parent[r]] = "SLEEPING" => state[parent[r]] = "SLEEPING")
  PROVE  LocalInv(r)'
<1>1. pc'[r] = pc[r] /\ i'[r] = i[r] /\ k'[r] = k[r] /\ arg'[r] = arg[r]
  BY DEF Same
<1>2. pc[r] = "setrunnable" => parent'[arg'[r]] = r
  BY <1>1 DEF LocalInv
<1>3. /\ pc[r] \in {"reparent", "wakeinit"} => \A q \in Slot : q < i'[r] => parent'[q] # r
      /\ pc[r] \in {"wakeparent", "zombie"} => \A q \in Slot : parent'[q] # r
  BY <1>1 DEF LocalInv
<1>4. /\ pc[r] = "wakeparent" /\ state'[parent'[r]] = "SLEEPING" => k'[r] <= parent'[r]
      /\ pc[r] = "zombie" => state'[parent'[r]] # "SLEEPING"
      /\ pc[r] \notin {"wakeinit", "wakeparent"} => k'[r] = 1
  BY <1>1 DEF LocalInv
<1>5. /\ pc[r] = "scan" => \A q \in Slot : q < i'[r] /\ parent'[q] = r => state'[q] # "ZOMBIE"
      /\ pc[r] = "sleep" => ~HasZombie(r)'
  BY <1>1 DEF LocalInv, HasZombie
<1> QED
  BY <1>1, <1>2, <1>3, <1>4, <1>5 DEF LocalInv

\* A thread that is elsewhere.
LEMMA LocalAway ==
  ASSUME NEW r \in Slot, pc'[r] \notin WaitLockPCs, pc'[r] # "setrunnable", k'[r] = 1
  PROVE  LocalInv(r)'
BY DEF LocalInv, WaitLockPCs

LEMMA SleepKept ==
  ASSUME SleepInv,
         \A x \in Slot : state'[x] = "SLEEPING" => state[x] = "SLEEPING" /\ chan'[x] = chan[x],
         \A x, y \in Slot : state'[x] = "SLEEPING" /\ parent'[y] = x /\ state'[y] = "ZOMBIE" =>
           parent[y] = x /\ state[y] = "ZOMBIE",
         \A r \in Slot : state'[Initproc] = "SLEEPING" /\ pc[r] = "wakeinit" /\ k[r] <= Initproc =>
           pc'[r] = "wakeinit" /\ k'[r] <= Initproc
  PROVE  SleepInv'
<1>1. ASSUME NEW p \in Slot, state'[p] = "SLEEPING"
      PROVE  /\ chan'[p] = p
             /\ HasZombie(p)' => p = Initproc /\ \E r \in Slot : pc'[r] = "wakeinit" /\ k'[r] <= Initproc
  <2>1. state[p] = "SLEEPING" /\ chan'[p] = chan[p] /\ chan[p] = p
    BY <1>1 DEF SleepInv
  <2>2. ASSUME HasZombie(p)'
        PROVE  p = Initproc /\ \E r \in Slot : pc'[r] = "wakeinit" /\ k'[r] <= Initproc
    <3>1. HasZombie(p)
      BY <1>1, <2>2 DEF HasZombie
    <3>2. p = Initproc /\ \E r \in Slot : pc[r] = "wakeinit" /\ k[r] <= Initproc
      BY <2>1, <3>1 DEF SleepInv
    <3> QED
      BY <1>1, <3>2
  <2> QED
    BY <2>1, <2>2
<1> QED
  BY <1>1 DEF SleepInv

\* Who is in exit() is not the first process, and has a parent to wake up.
LEMMA Exiting ==
  ASSUME SchedInv, FamilyInv, panicked = "no", NEW p \in Slot, pc[p] \in ExitPCs
  PROVE  p # Initproc /\ (pc[p] # "dead" => Alive(parent[p]) /\ state[p] \notin Gone)
<1>1. p # Initproc
  BY DEF FamilyInv, InitprocInv
<1>2. pc[p] # "dead" => state[p] \notin Gone
  BY DEF SchedInv, LabelInv, ExitPCs, Gone
<1> QED
  BY <1>1, <1>2 DEF FamilyInv, LivingInv, Gone

\* A step that frees, ends and moves nobody in the family tree, and puts nobody to
\* sleep.
LEMMA Steady ==
  ASSUME SchedInv, FamilyInv, panicked = "no",
         \A q \in Slot : parent'[q] = parent[q],
         \A q \in Slot : /\ state'[q] \in Gone <=> state[q] \in Gone
                         /\ state'[q] = "ZOMBIE" <=> state[q] = "ZOMBIE"
                         /\ state'[q] = "SLEEPING" => state[q] = "SLEEPING" /\ chan'[q] = chan[q],
         \A q \in Slot : Same(q) \/ LocalInv(q)',
         \A r \in Slot : state'[Initproc] = "SLEEPING" /\ pc[r] = "wakeinit" /\ k[r] <= Initproc =>
           pc'[r] = "wakeinit" /\ k'[r] <= Initproc,
         panicked' = "no" => pc'[Initproc] \notin ExitPCs
  PROVE  FamilyInv'
<1>0. Initproc \in Slot /\ InitprocInv /\ LivingInv /\ SleepInv
  BY ProcAssumption DEF Slot, Initproc, FamilyInv
<1>1. InitprocInv'
  <2>1. state'[Initproc] \notin Gone
    BY <1>0 DEF InitprocInv
  <2> QED
    BY <1>0, <2>1, InitprocKept
<1>2. LivingInv'
  <2>1. \A q \in Slot : state'[q] \notin {"UNUSED", "USED"} => state[q] \notin {"UNUSED", "USED"}
    BY DEF Gone
  <2> QED
    BY <1>0, <2>1, LivingKept
<1>3. ASSUME NEW r \in Slot, Same(r)
      PROVE  LocalInv(r)'
  <2>1. LocalInv(r)
    BY DEF FamilyInv
  <2>2. pc[r] \in {"wakeparent", "zombie"} => parent[r] \in Slot
    BY Exiting DEF ExitPCs, Alive
  <2>3. pc[r] = "setrunnable" => arg[r] \in Slot
    BY DEF SchedInv, ForkInv, ForkPCs
  <2> QED
    BY <1>3, <2>1, <2>2, <2>3, LocalKept
<1>4. SleepInv'
  BY <1>0, SleepKept
<1> QED
  BY <1>1, <1>2, <1>3, <1>4 DEF FamilyInv

-----------------------------------------------------------------------------
(* Steps that leave the family tree alone *)

LEMMA SwtchFamily ==
  ASSUME SchedInv, FamilyInv, NEW c \in CPU, NEW p \in Slot,
         Schedule(c, p) \/ SwtchOut(c, p) \/ SwtchIn(c, p) \/ Yield(c, p)
  PROVE  FamilyInv'
<1>0. panicked = "no" /\ UNCHANGED <<parent, pc, i, k, arg>> /\ TypeOK
  BY DEF Schedule, SwtchOut, SwtchIn, Yield, SchedInv
<1>1. ASSUME NEW q \in Slot
      PROVE  \/ state'[q] = state[q]
             \/ state[q] \in {"RUNNABLE", "RUNNING"} /\ state'[q] \in {"RUNNABLE", "RUNNING"}
  <2>1. CASE Schedule(c, p)
    BY <1>0, <2>1 DEF Schedule, TypeOK
  <2>2. CASE SwtchOut(c, p) \/ SwtchIn(c, p)
    BY <2>2 DEF SwtchOut, SwtchIn
  <2>3. CASE Yield(c, p)
    <3>1. state[p] = "RUNNING" /\ state' = [state EXCEPT ![p] = "RUNNABLE"]
      BY <2>3, Running DEF Yield
    <3> QED
      BY <1>0, <3>1 DEF TypeOK
  <2> QED
    BY <2>1, <2>2, <2>3
<1>2. ASSUME NEW q \in Slot, state[q] = "SLEEPING"
      PROVE  chan'[q] = chan[q]
  <2>1. CASE SwtchIn(c, p)
    <3>1. q # p
      BY <1>2, <2>1 DEF SwtchIn, SchedInv, CpuInv
    <3> QED
      BY <1>0, <2>1, <3>1 DEF SwtchIn, TypeOK
  <2>2. CASE ~SwtchIn(c, p)
    BY <2>2 DEF Schedule, SwtchOut, Yield
  <2> QED
    BY <2>1, <2>2
<1>3. \A q \in Slot : Same(q)
  BY <1>0 DEF Same
<1>4. pc'[Initproc] \notin ExitPCs
  BY <1>0 DEF FamilyInv, InitprocInv
<1>5. \A q \in Slot : /\ state'[q] \in Gone <=> state[q] \in Gone
                      /\ state'[q] = "ZOMBIE" <=> state[q] = "ZOMBIE"
                      /\ state'[q] = "SLEEPING" => state[q] = "SLEEPING" /\ chan'[q] = chan[q]
  BY <1>1, <1>2 DEF Gone
<1> QED
  BY <1>0, <1>3, <1>4, <1>5, Steady

\* The thread of p goes on outside the part of exit() and wait() that wait_lock
\* protects, or leaves it without having changed anything.
LEMMA GoesAway ==
  ASSUME SchedInv, FamilyInv, panicked = "no", NEW p \in Slot,
         pc[p] \notin {"wakeinit", "wakeparent"}, pc'[p] \notin WaitLockPCs, pc'[p] # "setrunnable",
         pc'[p] \in ExitPCs => p # Initproc \/ panicked' # "no",
         UNCHANGED <<parent, chan, k>>,
         \A q \in Slot : q # p =>
           \/ pc'[q] = pc[q] /\ i'[q] = i[q] /\ arg'[q] = arg[q]
           \/ pc'[q] = "user" /\ pc[q] \in {"user", "dead"},
         \A q \in Slot :
           \/ state'[q] = state[q]
           \/ state[q] = "UNUSED" /\ state'[q] = "USED"
           \/ state[q] = "SLEEPING" /\ state'[q] = "RUNNABLE"
  PROVE  FamilyInv'
<1>0. Initproc \in Slot
  BY ProcAssumption DEF Slot, Initproc
<1>1. \A q \in Slot : pc[q] \in {"user", "dead"} => k[q] = 1
  BY DEF FamilyInv, LocalInv
<1>2. k[p] = 1
  BY DEF FamilyInv, LocalInv
<1>3. ASSUME NEW q \in Slot PROVE Same(q) \/ LocalInv(q)'
  <2>1. CASE q = p
    BY <1>2, <2>1, LocalAway
  <2>2. CASE q # p /\ pc'[q] = "user" /\ pc[q] \in {"user", "dead"}
    <3>1. pc'[q] \notin WaitLockPCs /\ k'[q] = 1
      BY <1>1, <2>2 DEF WaitLockPCs
    <3> QED
      BY <2>2, <3>1, LocalAway
  <2>3. CASE pc'[q] = pc[q] /\ i'[q] = i[q] /\ arg'[q] = arg[q]
    BY <2>3 DEF Same
  <2> QED
    BY <2>1, <2>2, <2>3
<1>4. panicked' = "no" => pc'[Initproc] \notin ExitPCs
  BY <1>0 DEF FamilyInv, InitprocInv, ExitPCs
<1>5. \A q \in Slot : /\ state'[q] \in Gone <=> state[q] \in Gone
                      /\ state'[q] = "ZOMBIE" <=> state[q] = "ZOMBIE"
                      /\ state'[q] = "SLEEPING" => state[q] = "SLEEPING" /\ chan'[q] = chan[q]
  BY DEF Gone
<1>6. \A r \in Slot : pc[r] = "wakeinit" => pc'[r] = "wakeinit" /\ k'[r] = k[r]
  OBVIOUS
<1> QED
  BY <1>3, <1>4, <1>5, <1>6, Steady

LEMMA UserFamily ==
  ASSUME SchedInv, FamilyInv, NEW c \in CPU, NEW p \in Slot, User(c, p)
  PROVE  FamilyInv'
<1>1. PICK to \in {"exit", "fork", "wait", "kill"} :
        /\ pc[p] = "user" /\ panicked = "no" /\ pc' = [pc EXCEPT ![p] = to]
        /\ UNCHANGED <<state, parent, chan, k>>
        /\ i' = i \/ i' = [i EXCEPT ![p] = 1]
        /\ arg' = arg \/ \E a : arg' = [arg EXCEPT ![p] = a]
        /\ to = "exit" => p # Initproc \/ panicked' # "no"
  BY DEF User, Exit, Fault, Syscall, Runs, Goto
<1>2. pc'[p] = to /\ \A q \in Slot : q # p => pc'[q] = pc[q] /\ i'[q] = i[q] /\ arg'[q] = arg[q]
  BY <1>1 DEF SchedInv, TypeOK
<1>3. /\ pc'[p] \notin WaitLockPCs /\ pc'[p] # "setrunnable"
      /\ pc'[p] \in ExitPCs => p # Initproc \/ panicked' # "no"
  BY <1>1, <1>2 DEF WaitLockPCs, ExitPCs
<1> QED
  BY <1>1, <1>2, <1>3, GoesAway

LEMMA KillFamily ==
  ASSUME SchedInv, FamilyInv, NEW c \in CPU, NEW p \in Slot, Kill(c, p)
  PROVE  FamilyInv'
<1>0. /\ pc[p] = "kill" /\ panicked = "no" /\ UNCHANGED <<parent, chan, k>> /\ TypeOK
  BY DEF Kill, KillScan, KillFound, KillNone, Runs, SchedInv
<1>1. /\ pc'[p] \in {"kill", "user"}
      /\ \A q \in Slot : q # p => pc'[q] = pc[q] /\ i'[q] = i[q] /\ arg'[q] = arg[q]
  BY <1>0 DEF Kill, KillScan, KillFound, KillNone, Return, Goto, TypeOK
<1>2. \A q \in Slot : state'[q] = state[q] \/ (state[q] = "SLEEPING" /\ state'[q] = "RUNNABLE")
  BY <1>0 DEF Kill, KillScan, KillFound, KillNone, TypeOK
<1>3. pc'[p] \notin WaitLockPCs /\ pc'[p] \notin ExitPCs /\ pc'[p] # "setrunnable"
  BY <1>1 DEF WaitLockPCs, ExitPCs
<1> QED
  BY <1>0, <1>1, <1>2, <1>3, GoesAway

LEMMA AllocFamily ==
  ASSUME SchedInv, FamilyInv, NEW c \in CPU, NEW p \in Slot,
         AllocScan(c, p) \/ AllocNone(c, p) \/ WaitCopyoutFails(c, p) \/ WaitGiveUp(c, p)
  PROVE  FamilyInv'
<1>0. /\ pc[p] \in {"fork", "scan"} /\ (pc[p] = "scan" => Return(p)) /\ panicked = "no"
      /\ UNCHANGED <<parent, chan, k>> /\ TypeOK
  BY DEF AllocScan, AllocNone, WaitCopyoutFails, WaitGiveUp, Runs, SchedInv
<1>1. /\ pc'[p] \in {"fork", "copy", "user"}
      /\ \A q \in Slot : q # p => pc'[q] = pc[q] /\ i'[q] = i[q] /\ arg'[q] = arg[q]
  BY <1>0 DEF AllocScan, AllocNone, WaitCopyoutFails, WaitGiveUp, Return, Goto, TypeOK
<1>2. \A q \in Slot : state'[q] = state[q] \/ (state[q] = "UNUSED" /\ state'[q] = "USED")
  BY <1>0 DEF AllocScan, AllocNone, WaitCopyoutFails, WaitGiveUp, TypeOK
<1>3. pc'[p] \notin WaitLockPCs /\ pc'[p] \notin ExitPCs /\ pc'[p] # "setrunnable"
  BY <1>1 DEF WaitLockPCs, ExitPCs
<1> QED
  BY <1>0, <1>1, <1>2, <1>3, GoesAway

LEMMA ForkCopyFamily ==
  ASSUME SchedInv, FamilyInv, NEW c \in CPU, NEW p \in Slot, ForkCopy(c, p)
  PROVE  FamilyInv'
<1>0. /\ pc[p] = "copy" /\ panicked = "no" /\ UNCHANGED <<state, parent, chan, i, k, arg>> /\ TypeOK
      /\ pc' = [pc EXCEPT ![p] = "setparent", ![arg[p]] = "user"]
      /\ cur[c] = p /\ swtch[p] = "no"
  BY DEF ForkCopy, Runs, SchedInv
<1>1. arg[p] \in Slot /\ arg[p] # p /\ pc[arg[p]] \in {"user", "dead"}
  <2>1. arg[p] \in Slot /\ state[arg[p]] = "USED" /\ state[p] = "RUNNING"
    BY <1>0, Running DEF SchedInv, ForkInv, ForkPCs
  <2> QED
    BY <2>1 DEF SchedInv, LabelInv
<1>2. /\ pc'[p] = "setparent"
      /\ \A q \in Slot : q # p => pc'[q] = pc[q] \/ (pc'[q] = "user" /\ pc[q] \in {"user", "dead"})
  BY <1>0, <1>1 DEF TypeOK
<1>3. pc'[p] \notin WaitLockPCs /\ pc'[p] \notin ExitPCs /\ pc'[p] # "setrunnable"
  BY <1>2 DEF WaitLockPCs, ExitPCs
<1> QED
  BY <1>0, <1>2, <1>3, GoesAway

-----------------------------------------------------------------------------
(* wait_lock: exit() and wait() between their changes of the family tree *)

\* The holder of wait_lock is alone in the part that it protects.
LEMMA Holder ==
  ASSUME SchedInv, NEW p \in Slot, pc[p] \in WaitLockPCs
  PROVE  \A r \in Slot : r # p => pc[r] \notin WaitLockPCs
BY DEF SchedInv, WaitlockInv

LEMMA LockFamily ==
  ASSUME SchedInv, FamilyInv, NEW c \in CPU, NEW p \in Slot, ExitLock(c, p) \/ WaitLock(c, p)
  PROVE  FamilyInv'
<1>0. /\ pc[p] \in {"exit", "wait"} /\ panicked = "no" /\ panicked' = "no" /\ TypeOK
      /\ UNCHANGED <<state, parent, chan, k>> /\ Initproc \in Slot
  BY ProcAssumption DEF ExitLock, WaitLock, Runs, SchedInv, Slot, Initproc
<1>1. /\ pc'[p] = (IF pc[p] = "exit" THEN "reparent" ELSE "scan") /\ i'[p] = 1
      /\ \A q \in Slot : q # p => pc'[q] = pc[q] /\ i'[q] = i[q] /\ arg'[q] = arg[q]
  BY <1>0 DEF ExitLock, WaitLock, Runs, Goto, TypeOK
<1>2. k'[p] = 1 /\ \A q \in Slot : ~(q < i'[p])
  BY <1>0, <1>1 DEF FamilyInv, LocalInv, Slot
<1>3. LocalInv(p)'
  BY <1>1, <1>2 DEF LocalInv
<1>4. \A q \in Slot : q # p => Same(q)
  BY <1>0, <1>1 DEF Same
<1>5. pc'[Initproc] \notin ExitPCs
  BY <1>0, <1>1 DEF FamilyInv, InitprocInv, ExitPCs
<1> QED
  BY <1>0, <1>1, <1>3, <1>4, <1>5, Steady

LEMMA ScanFamily ==
  ASSUME SchedInv, FamilyInv, NEW c \in CPU, NEW p \in Slot, WaitScan(c, p) \/ WaitDecide(c, p)
  PROVE  FamilyInv'
<1>0. /\ pc[p] = "scan" /\ panicked = "no" /\ panicked' = "no" /\ TypeOK
      /\ UNCHANGED <<state, parent, chan, k>>
  BY DEF WaitScan, WaitDecide, Runs, SchedInv
<1>1. /\ WaitDecide(c, p) => pc'[p] = "sleep"
      /\ ~WaitDecide(c, p) => pc'[p] = "scan" /\ i'[p] = i[p] + 1
      /\ \A q \in Slot : q # p => pc'[q] = pc[q] /\ i'[q] = i[q] /\ arg'[q] = arg[q]
  BY <1>0 DEF WaitScan, WaitDecide, Goto, TypeOK
<1>2. k'[p] = 1 /\ i[p] \in Nat \ {0} /\ Slot \subseteq Nat
  BY <1>0 DEF FamilyInv, LocalInv, TypeOK, Slot
<1>3. \A q \in Slot : q < i[p] /\ parent[q] = p => state[q] # "ZOMBIE"
  BY <1>0 DEF FamilyInv, LocalInv
<1>4. LocalInv(p)'
  <2>1. CASE WaitDecide(c, p)
    <3>1. \A q \in Slot : q < i[p]
      BY <1>2, <2>1, ProcAssumption DEF WaitDecide, Slot
    <3>2. ~HasZombie(p)'
      BY <1>0, <1>3, <3>1 DEF HasZombie
    <3> QED
      BY <1>1, <1>2, <2>1, <3>2 DEF LocalInv
  <2>2. CASE ~WaitDecide(c, p)
    <3>1. parent[i[p]] = p => state[i[p]] # "ZOMBIE"
      BY <2>2 DEF WaitScan
    <3>2. \A q \in Slot : q < i'[p] => q < i[p] \/ q = i[p]
      BY <1>1, <1>2, <2>2
    <3>3. \A q \in Slot : q < i'[p] /\ parent'[q] = p => state'[q] # "ZOMBIE"
      BY <1>0, <1>3, <3>1, <3>2
    <3> QED
      BY <1>1, <1>2, <2>2, <3>3 DEF LocalInv
  <2> QED
    BY <2>1, <2>2
<1>5. \A q \in Slot : q # p => Same(q)
  BY <1>0, <1>1 DEF Same
<1>6. pc'[Initproc] \notin ExitPCs
  BY <1>0, <1>1, ProcAssumption DEF FamilyInv, InitprocInv, ExitPCs, Slot, Initproc
<1> QED
  BY <1>0, <1>1, <1>4, <1>5, <1>6, Steady

\* A round of wakeup(): the loop variable moves on or is back at the start, and a
\* sleeper on the channel is awake, if it is not the caller itself.
LEMMA WakeRound ==
  ASSUME TypeOK, NEW p \in Slot, NEW ch, WakeOne(p, ch)
  PROVE  /\ k[p] \in Slot /\ \A q \in Slot : q # p => k'[q] = k[q]
         /\ k'[p] = (IF k[p] = NPROC THEN 1 ELSE k[p] + 1)
         /\ \A q \in Slot : state'[q] = state[q] \/ (state[q] = "SLEEPING" /\ state'[q] = "RUNNABLE")
         /\ k[p] # p /\ state[k[p]] = "SLEEPING" /\ chan[k[p]] = ch => state'[k[p]] = "RUNNABLE"
<1>1. k[p] \in Slot
  BY DEF TypeOK
<1>2. k'[p] = (IF k[p] = NPROC THEN 1 ELSE k[p] + 1) /\ \A q \in Slot : q # p => k'[q] = k[q]
  BY DEF TypeOK, WakeOne, LastSlot
<1> QED
  BY <1>1, <1>2 DEF TypeOK, WakeOne

\* wakeup(initproc) in reparent().
LEMMA WakeInitFamily ==
  ASSUME SchedInv, FamilyInv, NEW c \in CPU, NEW p \in Slot, WakeInit(c, p)
  PROVE  FamilyInv'
<1>0. /\ pc[p] = "wakeinit" /\ panicked = "no" /\ panicked' = "no" /\ TypeOK
      /\ UNCHANGED <<parent, chan, i, arg>> /\ WakeOne(p, Initproc) /\ Initproc \in Slot
  BY ProcAssumption DEF WakeInit, Runs, SchedInv, Slot, Initproc
<1>1. /\ pc'[p] = (IF k[p] = NPROC THEN "reparent" ELSE "wakeinit")
      /\ \A q \in Slot : q # p => pc'[q] = pc[q]
  BY <1>0 DEF WakeInit, Goto, LastSlot, TypeOK
<1>2. /\ k[p] \in Slot /\ \A q \in Slot : q # p => k'[q] = k[q]
      /\ k'[p] = (IF k[p] = NPROC THEN 1 ELSE k[p] + 1)
      /\ \A q \in Slot : state'[q] = state[q] \/ (state[q] = "SLEEPING" /\ state'[q] = "RUNNABLE")
      /\ k[p] # p /\ state[k[p]] = "SLEEPING" /\ chan[k[p]] = Initproc => state'[k[p]] = "RUNNABLE"
  BY <1>0, WakeRound
<1>3. p # Initproc
  BY <1>0, Exiting DEF ExitPCs
<1>4. \A r \in Slot : r # p => pc[r] # "wakeinit" /\ Same(r)
  BY <1>0, <1>1, <1>2, Holder DEF WaitLockPCs, Same
<1>5. LocalInv(p)'
  <2>1. \A q \in Slot : q < i'[p] => parent'[q] # p
    BY <1>0 DEF FamilyInv, LocalInv
  <2> QED
    BY <1>1, <1>2, <2>1 DEF LocalInv
<1>6. k[p] <= Initproc => state'[Initproc] # "SLEEPING"
  <2> SUFFICES ASSUME k[p] <= Initproc PROVE state'[Initproc] # "SLEEPING"
    OBVIOUS
  <2>1. k[p] = Initproc
    BY <1>2 DEF Slot, Initproc
  <2>2. state[Initproc] = "SLEEPING" => chan[Initproc] = Initproc
    BY <1>0 DEF FamilyInv, SleepInv
  <2> QED
    BY <1>0, <1>2, <1>3, <2>1, <2>2
<1>7. pc'[Initproc] \notin ExitPCs
  BY <1>0, <1>1, <1>3 DEF FamilyInv, InitprocInv
<1>8. \A q \in Slot : /\ state'[q] \in Gone <=> state[q] \in Gone
                      /\ state'[q] = "ZOMBIE" <=> state[q] = "ZOMBIE"
                      /\ state'[q] = "SLEEPING" => state[q] = "SLEEPING" /\ chan'[q] = chan[q]
  BY <1>0, <1>2 DEF Gone
<1> QED
  BY <1>0, <1>4, <1>5, <1>6, <1>7, <1>8, Steady

\* wakeup(p->parent) in exit().
LEMMA WakeParentFamily ==
  ASSUME SchedInv, FamilyInv, NEW c \in CPU, NEW p \in Slot, WakeParent(c, p)
  PROVE  FamilyInv'
<1>0. /\ pc[p] = "wakeparent" \/ (pc[p] = "reparent" /\ i[p] \notin Slot)
      /\ panicked = "no" /\ panicked' = "no" /\ TypeOK
      /\ UNCHANGED <<parent, chan, arg>> /\ WakeOne(p, parent[p])
  BY DEF WakeParent, Runs, ExitChan, SchedInv
<1>1. /\ pc'[p] = (IF k[p] = NPROC THEN "zombie" ELSE "wakeparent")
      /\ \A q \in Slot : q # p => pc'[q] = pc[q] /\ i'[q] = i[q]
  BY <1>0 DEF WakeParent, Goto, LastSlot, TypeOK
<1>2. /\ k[p] \in Slot /\ \A q \in Slot : q # p => k'[q] = k[q]
      /\ k'[p] = (IF k[p] = NPROC THEN 1 ELSE k[p] + 1)
      /\ \A q \in Slot : state'[q] = state[q] \/ (state[q] = "SLEEPING" /\ state'[q] = "RUNNABLE")
      /\ k[p] # p /\ state[k[p]] = "SLEEPING" /\ chan[k[p]] = parent[p] => state'[k[p]] = "RUNNABLE"
  BY <1>0, WakeRound
<1>3. p # Initproc /\ parent[p] \in Slot
  BY <1>0, Exiting DEF ExitPCs, Alive
<1>4. \A r \in Slot : r # p => Same(r)
  BY <1>0, <1>1, <1>2 DEF Same
<1>5. \A q \in Slot : parent[q] # p
  <2>1. CASE pc[p] = "wakeparent"
    BY <2>1 DEF FamilyInv, LocalInv
  <2>2. CASE pc[p] # "wakeparent"
    <3>1. \A q \in Slot : q < i[p]
      BY <1>0, <2>2, ProcAssumption DEF TypeOK, Slot
    <3> QED
      BY <1>0, <2>2, <3>1 DEF FamilyInv, LocalInv
  <2> QED
    BY <2>1, <2>2
<1>6. state'[parent[p]] = "SLEEPING" => k[p] < parent[p]
  <2> SUFFICES ASSUME state'[parent[p]] = "SLEEPING" PROVE k[p] < parent[p]
    OBVIOUS
  <2>1. state[parent[p]] = "SLEEPING" /\ chan[parent[p]] = parent[p]
    BY <1>2, <1>3 DEF FamilyInv, SleepInv
  <2>2. k[p] <= parent[p]
    <3>1. pc[p] = "reparent" => k[p] = 1
      BY DEF FamilyInv, LocalInv
    <3>2. pc[p] = "wakeparent" => k[p] <= parent[p]
      BY <2>1 DEF FamilyInv, LocalInv
    <3> QED
      BY <1>0, <1>3, <3>1, <3>2 DEF Slot
  <2>3. k[p] # parent[p]
    BY <1>2, <1>3, <1>5, <2>1
  <2> QED
    BY <1>2, <1>3, <2>2, <2>3 DEF Slot
<1>7. LocalInv(p)'
  <2>1. k[p] = NPROC => state'[parent'[p]] # "SLEEPING"
    BY <1>0, <1>3, <1>6, ProcAssumption DEF Slot
  <2>2. k[p] # NPROC /\ state'[parent'[p]] = "SLEEPING" => k'[p] <= parent'[p]
    BY <1>0, <1>2, <1>3, <1>6 DEF Slot
  <2> QED
    BY <1>0, <1>1, <1>2, <1>5, <2>1, <2>2 DEF LocalInv
<1>8. pc'[Initproc] \notin ExitPCs
  BY <1>0, <1>1, <1>3, ProcAssumption DEF FamilyInv, InitprocInv, Slot, Initproc
<1>9. \A q \in Slot : /\ state'[q] \in Gone <=> state[q] \in Gone
                      /\ state'[q] = "ZOMBIE" <=> state[q] = "ZOMBIE"
                      /\ state'[q] = "SLEEPING" => state[q] = "SLEEPING" /\ chan'[q] = chan[q]
  BY <1>0, <1>2 DEF Gone
<1>10. \A r \in Slot : pc[r] = "wakeinit" => r # p
  BY <1>0
<1> QED
  BY <1>0, <1>4, <1>7, <1>8, <1>9, <1>10, Steady DEF Same

-----------------------------------------------------------------------------
(* Steps that change the family tree *)

\* A thread outside the part that wait_lock protects, which the step does not move.
LEMMA LocalOutside ==
  ASSUME NEW r \in Slot, LocalInv(r), Same(r), pc[r] \notin WaitLockPCs,
         pc[r] = "setrunnable" => parent'[arg[r]] = parent[arg[r]]
  PROVE  LocalInv(r)'
BY DEF LocalInv, Same, WaitLockPCs

\* A child in the making is of its parent only.
LEMMA Making ==
  ASSUME SchedInv, FamilyInv, NEW r \in Slot, pc[r] = "setrunnable"
  PROVE  arg[r] \in Slot /\ state[arg[r]] = "USED" /\ parent[arg[r]] = r
BY DEF SchedInv, FamilyInv, LocalInv, ForkInv, ForkPCs

\* sleep() in wait().
LEMMA SleepFamily ==
  ASSUME SchedInv, FamilyInv, NEW c \in CPU, NEW p \in Slot, Sleep(c, p)
  PROVE  FamilyInv'
<1>0. /\ pc[p] = "sleep" /\ panicked = "no" /\ panicked' = "no" /\ TypeOK
      /\ cur[c] = p /\ swtch[p] = "no" /\ UNCHANGED <<parent, i, k, arg>> /\ Initproc \in Slot
  BY ProcAssumption DEF Sleep, Runs, SchedInv, Slot, Initproc
<1>a. /\ chan' = [chan EXCEPT ![p] = p] /\ state' = [state EXCEPT ![p] = "SLEEPING"]
      /\ pc' = [pc EXCEPT ![p] = "wait"]
  BY DEF Sleep, Goto
<1>1. /\ pc'[p] = "wait" /\ \A q \in Slot : q # p => pc'[q] = pc[q]
      /\ chan'[p] = p /\ \A q \in Slot : q # p => chan'[q] = chan[q]
      /\ state'[p] = "SLEEPING" /\ \A q \in Slot : q # p => state'[q] = state[q]
  BY <1>0, <1>a DEF TypeOK
<1>2. state[p] = "RUNNING" /\ k[p] = 1 /\ ~HasZombie(p)
  BY <1>0, Running DEF FamilyInv, LocalInv
<1>3. InitprocInv'
  <2>1. state'[Initproc] \notin Gone /\ pc'[Initproc] \notin ExitPCs
    BY <1>0, <1>1 DEF FamilyInv, InitprocInv, Gone, ExitPCs
  <2> QED
    BY <1>0, <2>1, InitprocKept DEF FamilyInv
<1>4. LivingInv'
  <2>1. \A q \in Slot : state'[q] \in Gone <=> state[q] \in Gone
    BY <1>1, <1>2 DEF Gone
  <2>2. \A q \in Slot : state'[q] \notin {"UNUSED", "USED"} => state[q] \notin {"UNUSED", "USED"}
    BY <1>1, <1>2
  <2> QED
    BY <1>0, <2>1, <2>2, LivingKept DEF FamilyInv
<1>5. ASSUME NEW r \in Slot PROVE LocalInv(r)'
  <2>1. CASE r = p
    BY <1>0, <1>1, <1>2, <2>1, LocalAway DEF WaitLockPCs
  <2>2. CASE r # p
    <3>1. Same(r) /\ LocalInv(r)
      BY <1>0, <1>1, <2>2 DEF Same, FamilyInv
    <3>2. pc[r] \notin WaitLockPCs
      BY <1>0, <2>2, Holder DEF WaitLockPCs
    <3> QED
      BY <1>0, <3>1, <3>2, LocalOutside
  <2> QED
    BY <2>1, <2>2
<1>6. SleepInv'
  <2>1. ASSUME NEW x \in Slot PROVE HasZombie(x)' => HasZombie(x)
    BY <1>0, <1>1 DEF HasZombie
  <2>2. ASSUME NEW x \in Slot, state'[x] = "SLEEPING"
        PROVE  /\ chan'[x] = x
               /\ HasZombie(x)' => x = Initproc /\ \E r \in Slot : pc'[r] = "wakeinit" /\ k'[r] <= Initproc
    <3>1. CASE x = p
      BY <1>1, <1>2, <2>1, <3>1
    <3>2. CASE x # p
      <4>1. /\ chan[x] = x /\ chan'[x] = chan[x]
            /\ HasZombie(x) => x = Initproc /\ \E r \in Slot : pc[r] = "wakeinit" /\ k[r] <= Initproc
        BY <1>1, <2>2, <3>2 DEF FamilyInv, SleepInv
      <4>2. \A r \in Slot : pc[r] = "wakeinit" => pc'[r] = "wakeinit" /\ k'[r] = k[r]
        BY <1>0, <1>1
      <4> QED
        BY <2>1, <4>1, <4>2
    <3> QED
      BY <3>1, <3>2
  <2> QED
    BY <2>2 DEF SleepInv
<1> QED
  BY <1>3, <1>4, <1>5, <1>6 DEF FamilyInv

\* The end of exit(): the parent is awake, and there are no children left.
LEMMA ZombieFamily ==
  ASSUME SchedInv, FamilyInv, NEW c \in CPU, NEW p \in Slot, ExitZombie(c, p)
  PROVE  FamilyInv'
<1>0. /\ pc[p] = "zombie" /\ panicked = "no" /\ panicked' = "no" /\ TypeOK
      /\ UNCHANGED <<parent, chan, i, k, arg>> /\ Initproc \in Slot
  BY ProcAssumption DEF ExitZombie, Runs, SchedInv, Slot, Initproc
<1>a. state' = [state EXCEPT ![p] = "ZOMBIE"] /\ pc' = [pc EXCEPT ![p] = "dead"]
  BY DEF ExitZombie, Goto
<1>1. /\ pc'[p] = "dead" /\ \A q \in Slot : q # p => pc'[q] = pc[q]
      /\ state'[p] = "ZOMBIE" /\ \A q \in Slot : q # p => state'[q] = state[q]
  BY <1>0, <1>a DEF TypeOK
<1>2. p # Initproc /\ state[p] \notin Gone
  BY <1>0, Exiting DEF ExitPCs
<1>3. k[p] = 1 /\ state[parent[p]] # "SLEEPING" /\ \A q \in Slot : parent[q] # p
  BY <1>0 DEF FamilyInv, LocalInv
<1>4. InitprocInv'
  <2>1. state'[Initproc] \notin Gone /\ pc'[Initproc] \notin ExitPCs
    BY <1>0, <1>1, <1>2 DEF FamilyInv, InitprocInv
  <2> QED
    BY <1>0, <2>1, InitprocKept DEF FamilyInv
<1>5. LivingInv'
  <2>1. \A q \in Slot : state'[q] \notin {"UNUSED", "USED"} => state[q] \notin {"UNUSED", "USED"}
    BY <1>1, <1>2 DEF Gone
  <2> QED
    BY <1>0, <1>1, <1>3, <2>1, LivingKept DEF FamilyInv
<1>6. ASSUME NEW r \in Slot PROVE LocalInv(r)'
  <2>1. CASE r = p
    BY <1>0, <1>1, <1>3, <2>1, LocalAway DEF WaitLockPCs
  <2>2. CASE r # p
    <3>1. Same(r) /\ LocalInv(r)
      BY <1>0, <1>1, <2>2 DEF Same, FamilyInv
    <3>2. pc[r] \notin WaitLockPCs
      BY <1>0, <2>2, Holder DEF WaitLockPCs
    <3> QED
      BY <1>0, <3>1, <3>2, LocalOutside
  <2> QED
    BY <2>1, <2>2
<1>7. SleepInv'
  <2>1. \A x, y \in Slot : state'[x] = "SLEEPING" /\ parent'[y] = x /\ state'[y] = "ZOMBIE" =>
          parent[y] = x /\ state[y] = "ZOMBIE"
    BY <1>0, <1>1, <1>3
  <2> QED
    BY <1>0, <1>1, <2>1, SleepKept DEF FamilyInv
<1> QED
  BY <1>4, <1>5, <1>6, <1>7 DEF FamilyInv

\* A child is passed on to the first process, which will be woken up.
LEMMA ReparentFamily ==
  ASSUME SchedInv, FamilyInv, NEW c \in CPU, NEW p \in Slot, Reparent(c, p)
  PROVE  FamilyInv'
<1> DEFINE q == i[p]
<1>0. /\ pc[p] = "reparent" /\ panicked = "no" /\ panicked' = "no" /\ TypeOK /\ q \in Slot
      /\ UNCHANGED <<state, chan, k, arg>>
  BY DEF Reparent, Runs, SchedInv
<1>a. /\ parent' = IF parent[q] = p THEN [parent EXCEPT ![q] = Initproc] ELSE parent
      /\ pc' = [pc EXCEPT ![p] = IF parent[q] = p THEN "wakeinit" ELSE "reparent"]
      /\ i' = [i EXCEPT ![p] = q + 1]
  BY <1>0 DEF Reparent, GiveToInit, AfterReparent, Goto, TypeOK
<1> HIDE DEF q
<1>1. /\ parent'[q] = IF parent[q] = p THEN Initproc ELSE parent[q]
      /\ \A x \in Slot : x # q => parent'[x] = parent[x]
      /\ pc'[p] = (IF parent[q] = p THEN "wakeinit" ELSE "reparent")
      /\ i'[p] = q + 1 /\ \A x \in Slot : x # p => pc'[x] = pc[x] /\ i'[x] = i[x]
  BY <1>0, <1>a DEF TypeOK
<1>2. Initproc \in Slot /\ Slot \subseteq Nat /\ \A x \in Slot : x # NoProc
  BY ProcAssumption DEF Slot, Initproc
<1>3. p # Initproc /\ k[p] = 1 /\ \A x \in Slot : x < q => parent[x] # p
  <2>1. p # Initproc
    BY <1>0, Exiting DEF ExitPCs
  <2> QED
    BY <1>0, <2>1 DEF q, FamilyInv, LocalInv
<1>4. InitprocInv'
  <2>1. parent'[Initproc] = parent[Initproc]
    BY <1>1, <1>2 DEF FamilyInv, InitprocInv
  <2>2. state'[Initproc] \notin Gone /\ pc'[Initproc] \notin ExitPCs
    BY <1>0, <1>1, <1>2, <1>3 DEF FamilyInv, InitprocInv
  <2> QED
    BY <2>1, <2>2, InitprocKept DEF FamilyInv
<1>5. LivingInv'
  <2>1. \A x \in Slot : parent'[x] \in {parent[x], Initproc}
    BY <1>1
  <2> QED
    BY <1>0, <2>1, LivingKept DEF FamilyInv
<1>6. ASSUME NEW r \in Slot PROVE LocalInv(r)'
  <2>1. CASE r = p
    <3>1. \A x \in Slot : x < q + 1 => parent'[x] # p
      <4>1. \A x \in Slot : x < q + 1 => x < q \/ x = q
        BY <1>0, <1>2
      <4> QED
        BY <1>1, <1>3, <4>1
    <3>2. k'[p] = 1
      BY <1>0, <1>3
    <3> QED
      BY <1>1, <2>1, <3>1, <3>2 DEF LocalInv
  <2>2. CASE r # p
    <3>1. Same(r) /\ LocalInv(r)
      BY <1>0, <1>1, <2>2 DEF Same, FamilyInv
    <3>2. pc[r] \notin WaitLockPCs
      BY <1>0, <2>2, Holder DEF WaitLockPCs
    <3>3. pc[r] = "setrunnable" => parent'[arg[r]] = parent[arg[r]]
      <4>1. pc[r] = "setrunnable" => arg[r] \in Slot /\ parent[arg[r]] = r
        BY Making
      <4> QED
        BY <1>0, <1>1, <2>2, <4>1
    <3> QED
      BY <3>1, <3>2, <3>3, LocalOutside
  <2> QED
    BY <2>1, <2>2
<1>7. SleepInv'
  <2>0. SleepInv /\ \A r \in Slot : pc[r] # "wakeinit"
    BY <1>0, Holder DEF FamilyInv, WaitLockPCs
  <2>1. ASSUME NEW x \in Slot, state'[x] = "SLEEPING"
        PROVE  /\ chan'[x] = x
               /\ HasZombie(x)' => x = Initproc /\ \E r \in Slot : pc'[r] = "wakeinit" /\ k'[r] <= Initproc
    <3>1. chan[x] = x /\ ~HasZombie(x)
      BY <1>0, <2>0, <2>1 DEF SleepInv
    <3>2. ASSUME HasZombie(x)' PROVE x = Initproc /\ parent[q] = p
      <4>1. PICK y \in Slot : parent'[y] = x /\ state'[y] = "ZOMBIE"
        BY <3>2 DEF HasZombie
      <4>2. parent[y] # x
        BY <1>0, <3>1, <4>1 DEF HasZombie
      <4> QED
        BY <1>0, <1>1, <4>1, <4>2
    <3>3. k'[p] <= Initproc
      BY <1>0, <1>3 DEF Initproc
    <3> QED
      BY <1>0, <1>1, <3>1, <3>2, <3>3
  <2> QED
    BY <2>1 DEF SleepInv
<1> QED
  BY <1>4, <1>5, <1>6, <1>7 DEF FamilyInv

\* freeproc() of a child that failed to be made, or has exited.
LEMMA FreeFamily ==
  ASSUME SchedInv, FamilyInv, NEW p \in Slot, NEW q \in Slot, panicked = "no", panicked' = "no",
         pc[p] \in {"copy", "scan"}, state[q] \in {"USED", "ZOMBIE"}, Freeproc(q), Return(p), k' = k,
         \A r \in Slot : pc[r] = "setrunnable" => arg[r] # q
  PROVE  FamilyInv'
<1>0. TypeOK /\ Initproc \in Slot /\ NoProc \notin Slot
  BY ProcAssumption DEF SchedInv, Slot, Initproc
<1>a. /\ state' = [state EXCEPT ![q] = "UNUSED"] /\ parent' = [parent EXCEPT ![q] = NoProc]
      /\ chan' = [chan EXCEPT ![q] = NoProc] /\ pc' = [pc EXCEPT ![p] = "user"]
      /\ i' = [i EXCEPT ![p] = 1] /\ arg' = [arg EXCEPT ![p] = 0]
  BY DEF Freeproc, Return, Goto
<1>1. /\ state'[q] = "UNUSED" /\ parent'[q] = NoProc
      /\ \A x \in Slot : x # q => state'[x] = state[x] /\ parent'[x] = parent[x] /\ chan'[x] = chan[x]
  BY <1>0, <1>a DEF TypeOK
<1>2. pc'[p] = "user" /\ \A x \in Slot : x # p => pc'[x] = pc[x] /\ i'[x] = i[x] /\ arg'[x] = arg[x]
  BY <1>0, <1>a DEF TypeOK
<1>3. q # Initproc /\ state[q] \in Gone
  BY DEF FamilyInv, InitprocInv, Gone
<1>4. InitprocInv'
  <2>1. /\ parent'[Initproc] = parent[Initproc]
        /\ state'[Initproc] \notin Gone /\ pc'[Initproc] \notin ExitPCs
    BY <1>0, <1>1, <1>2, <1>3 DEF FamilyInv, InitprocInv, ExitPCs
  <2> QED
    BY <2>1, InitprocKept DEF FamilyInv
<1>5. LivingInv'
  BY <1>1, <1>3, LivingKept DEF FamilyInv
<1>6. ASSUME NEW r \in Slot PROVE LocalInv(r)'
  <2>1. CASE r = p
    <3>1. k[p] = 1 /\ pc'[p] \notin WaitLockPCs
      BY <1>2 DEF FamilyInv, LocalInv, WaitLockPCs
    <3> QED
      BY <1>2, <2>1, <3>1, LocalAway
  <2>2. CASE r # p
    <3>1. Same(r) /\ LocalInv(r)
      BY <1>2, <2>2 DEF Same, FamilyInv
    <3>2. \A x \in Slot : parent'[x] = r => parent[x] = r /\ (state'[x] = "ZOMBIE" => state[x] = "ZOMBIE")
      BY <1>0, <1>1
    <3>3. pc[r] = "setrunnable" => parent'[arg[r]] = parent[arg[r]]
      BY <1>1, Making
    <3>4. pc[r] \in {"wakeparent", "zombie"} =>
            parent'[r] = parent[r] /\ (state'[parent[r]] = "SLEEPING" => state[parent[r]] = "SLEEPING")
      <4>1. pc[r] \in {"wakeparent", "zombie"} => Alive(parent[r]) /\ state[r] \notin Gone
        BY Exiting DEF ExitPCs
      <4> QED
        BY <1>1, <1>3, <4>1 DEF Alive
    <3> QED
      BY <3>1, <3>2, <3>3, <3>4, LocalKept
  <2> QED
    BY <2>1, <2>2
<1>7. SleepInv'
  <2>1. \A x, y \in Slot : state'[x] = "SLEEPING" /\ parent'[y] = x /\ state'[y] = "ZOMBIE" =>
          parent[y] = x /\ state[y] = "ZOMBIE"
    BY <1>1
  <2>2. \A r \in Slot : pc[r] = "wakeinit" => pc'[r] = "wakeinit" /\ k'[r] = k[r]
    BY <1>2
  <2> QED
    BY <1>1, <2>1, <2>2, SleepKept DEF FamilyInv
<1> QED
  BY <1>4, <1>5, <1>6, <1>7 DEF FamilyInv

LEMMA FreesFamily ==
  ASSUME SchedInv, FamilyInv, NEW c \in CPU, NEW p \in Slot, ForkFail(c, p) \/ WaitReap(c, p)
  PROVE  FamilyInv'
<1>1. CASE ForkFail(c, p)
  <2>1. /\ pc[p] = "copy" /\ panicked = "no" /\ panicked' = "no" /\ k' = k
        /\ Freeproc(arg[p]) /\ Return(p)
    BY <1>1 DEF ForkFail, Runs
  <2>2. /\ arg[p] \in Slot /\ state[arg[p]] = "USED"
        /\ \A r \in Slot : pc[r] = "setrunnable" => arg[r] # arg[p]
    BY <2>1 DEF SchedInv, ForkInv, ForkPCs
  <2> QED
    BY <2>1, <2>2, FreeFamily
<1>2. CASE WaitReap(c, p)
  <2>1. /\ pc[p] = "scan" /\ panicked = "no" /\ panicked' = "no" /\ k' = k
        /\ i[p] \in Slot /\ state[i[p]] = "ZOMBIE" /\ Freeproc(i[p]) /\ Return(p)
    BY <1>2 DEF WaitReap, Runs
  <2>2. \A r \in Slot : pc[r] = "setrunnable" => arg[r] # i[p]
    BY <2>1, Making
  <2> QED
    BY <2>1, <2>2, FreeFamily
<1> QED
  BY <1>1, <1>2

\* fork() sets the parent of the child, under wait_lock.
LEMMA ForkParentFamily ==
  ASSUME SchedInv, FamilyInv, NEW c \in CPU, NEW p \in Slot, ForkParent(c, p)
  PROVE  FamilyInv'
<1>0. /\ pc[p] = "setparent" /\ panicked = "no" /\ panicked' = "no" /\ TypeOK /\ waitlock = NoCpu
      /\ UNCHANGED <<state, chan, i, k, arg>> /\ Initproc \in Slot
  BY ProcAssumption DEF ForkParent, Runs, SchedInv, Slot, Initproc
<1>1. /\ arg[p] \in Slot /\ state[arg[p]] = "USED"
      /\ \A r \in Slot : pc[r] \in ForkPCs /\ arg[r] = arg[p] => r = p
  BY <1>0 DEF SchedInv, ForkInv, ForkPCs
<1>2. /\ parent'[arg[p]] = p /\ \A x \in Slot : x # arg[p] => parent'[x] = parent[x]
      /\ pc'[p] = "setrunnable" /\ \A x \in Slot : x # p => pc'[x] = pc[x]
  BY <1>0, <1>1 DEF ForkParent, Goto, TypeOK
<1>3. \A x \in Slot : state[x] # "USED" => parent'[x] = parent[x]
  BY <1>1, <1>2
<1>4. InitprocInv'
  <2>1. /\ state'[Initproc] \notin Gone /\ pc'[Initproc] \notin ExitPCs
        /\ parent'[Initproc] = parent[Initproc]
    BY <1>0, <1>2, <1>3 DEF FamilyInv, InitprocInv, Gone, ExitPCs
  <2> QED
    BY <2>1, InitprocKept DEF FamilyInv
<1>5. LivingInv'
  BY <1>0, <1>3, LivingKept DEF FamilyInv
<1>6. ASSUME NEW r \in Slot PROVE LocalInv(r)'
  <2>1. CASE r = p
    <3>1. k'[p] = 1 /\ arg'[p] = arg[p]
      BY <1>0 DEF FamilyInv, LocalInv
    <3> QED
      BY <1>2, <2>1, <3>1 DEF LocalInv
  <2>2. CASE r # p
    <3>1. Same(r) /\ LocalInv(r)
      BY <1>0, <1>2, <2>2 DEF Same, FamilyInv
    <3>2. pc[r] \notin WaitLockPCs
      BY <1>0 DEF SchedInv, WaitlockInv
    <3>3. pc[r] = "setrunnable" => parent'[arg[r]] = parent[arg[r]]
      <4>1. pc[r] = "setrunnable" => arg[r] \in Slot /\ arg[r] # arg[p]
        BY <1>1, <2>2, Making DEF ForkPCs
      <4> QED
        BY <1>2, <4>1
    <3> QED
      BY <3>1, <3>2, <3>3, LocalOutside
  <2> QED
    BY <2>1, <2>2
<1>7. SleepInv'
  <2>1. \A r \in Slot : pc[r] = "wakeinit" => pc'[r] = "wakeinit" /\ k'[r] = k[r]
    BY <1>0, <1>2
  <2> QED
    BY <1>0, <1>3, <2>1, SleepKept DEF FamilyInv
<1> QED
  BY <1>4, <1>5, <1>6, <1>7 DEF FamilyInv

\* fork() sets the child free, of a parent that is running.
LEMMA ForkRunnableFamily ==
  ASSUME SchedInv, FamilyInv, NEW c \in CPU, NEW p \in Slot, ForkRunnable(c, p)
  PROVE  FamilyInv'
<1>0. /\ pc[p] = "setrunnable" /\ panicked = "no" /\ panicked' = "no" /\ TypeOK
      /\ cur[c] = p /\ swtch[p] = "no" /\ UNCHANGED <<parent, chan, k>> /\ Initproc \in Slot
  BY ProcAssumption DEF ForkRunnable, Runs, SchedInv, Slot, Initproc
<1>1. arg[p] \in Slot /\ state[arg[p]] = "USED" /\ parent[arg[p]] = p /\ state[p] = "RUNNING"
  BY <1>0, Making, Running
<1>2. /\ state'[arg[p]] = "RUNNABLE" /\ \A x \in Slot : x # arg[p] => state'[x] = state[x]
      /\ pc'[p] = "user" /\ \A x \in Slot : x # p => pc'[x] = pc[x] /\ i'[x] = i[x] /\ arg'[x] = arg[x]
  BY <1>0, <1>1 DEF ForkRunnable, Return, Goto, TypeOK
<1>3. \A x \in Slot : /\ state[x] \notin Gone => state'[x] \notin Gone
                      /\ state'[x] \in {"ZOMBIE", "SLEEPING"} => state'[x] = state[x]
  BY <1>2 DEF Gone
<1>4. InitprocInv'
  <2>1. state'[Initproc] \notin Gone /\ pc'[Initproc] \notin ExitPCs
    BY <1>0, <1>2, <1>3 DEF FamilyInv, InitprocInv, ExitPCs
  <2> QED
    BY <1>0, <2>1, InitprocKept DEF FamilyInv
<1>5. LivingInv'
  <2>1. ASSUME NEW x \in Slot, x # Initproc, state'[x] \notin {"UNUSED", "USED"}
        PROVE  parent[x] \in Slot /\ state'[parent[x]] \notin Gone
    <3>1. CASE x = arg[p]
      BY <1>1, <1>3, <3>1 DEF Gone
    <3>2. CASE x # arg[p]
      <4>1. Alive(parent[x])
        BY <1>2, <2>1, <3>2 DEF FamilyInv, LivingInv
      <4> QED
        BY <1>3, <4>1 DEF Alive
    <3> QED
      BY <3>1, <3>2
  <2> QED
    BY <1>0, <2>1 DEF LivingInv, Alive
<1>6. ASSUME NEW r \in Slot PROVE LocalInv(r)'
  <2>1. CASE r = p
    <3>1. k'[p] = 1 /\ pc'[p] \notin WaitLockPCs
      BY <1>0, <1>2 DEF FamilyInv, LocalInv, WaitLockPCs
    <3> QED
      BY <1>2, <2>1, <3>1, LocalAway
  <2>2. CASE r # p
    <3>1. Same(r) /\ LocalInv(r)
      BY <1>0, <1>2, <2>2 DEF Same, FamilyInv
    <3>2. \A x \in Slot : parent'[x] = r => parent[x] = r /\ (state'[x] = "ZOMBIE" => state[x] = "ZOMBIE")
      BY <1>0, <1>3
    <3>3. pc[r] \in {"wakeparent", "zombie"} => parent[r] \in Slot
      BY <1>0, Exiting DEF ExitPCs, Alive
    <3>4. pc[r] \in {"wakeparent", "zombie"} =>
            parent'[r] = parent[r] /\ (state'[parent[r]] = "SLEEPING" => state[parent[r]] = "SLEEPING")
      BY <1>0, <1>3, <3>3
    <3> QED
      BY <1>0, <3>1, <3>2, <3>4, LocalKept
  <2> QED
    BY <2>1, <2>2
<1>7. SleepInv'
  <2>1. \A r \in Slot : pc[r] = "wakeinit" => pc'[r] = "wakeinit" /\ k'[r] = k[r]
    BY <1>0, <1>2
  <2> QED
    BY <1>0, <1>3, <2>1, SleepKept DEF FamilyInv
<1> QED
  BY <1>4, <1>5, <1>6, <1>7 DEF FamilyInv

-----------------------------------------------------------------------------
(* The invariant, and what it gives *)

LEMMA FamilyStutter ==
  ASSUME FamilyInv, UNCHANGED vars
  PROVE  FamilyInv'
<1>1. InitprocInv' /\ LivingInv'
  BY DEF FamilyInv, InitprocInv, LivingInv, Alive, vars
<1>2. ASSUME NEW p \in Slot PROVE LocalInv(p)'
  BY DEF FamilyInv, LocalInv, HasZombie, vars
<1>3. SleepInv'
  BY DEF FamilyInv, SleepInv, HasZombie, vars
<1> QED
  BY <1>1, <1>2, <1>3 DEF FamilyInv

LEMMA FamilyNext ==
  ASSUME SchedInv, FamilyInv, Next
  PROVE  FamilyInv'
<1>1. ASSUME NEW c \in CPU, NEW p \in Slot, Work(c, p)
      PROVE  FamilyInv'
  <2>1. CASE Fork(c, p)
    BY <2>1, AllocFamily, FreesFamily, ForkCopyFamily, ForkParentFamily, ForkRunnableFamily DEF Fork
  <2>2. CASE DoExit(c, p)
    BY <2>2, LockFamily, ReparentFamily, WakeInitFamily, WakeParentFamily, ZombieFamily DEF DoExit
  <2>3. CASE Wait(c, p)
    BY <2>3, LockFamily, ScanFamily, FreesFamily, AllocFamily, SleepFamily DEF Wait
  <2>4. CASE Kill(c, p)
    BY <2>4, KillFamily
  <2> QED
    BY <1>1, <2>1, <2>2, <2>3, <2>4 DEF Work
<1>2. CASE Halted
  BY <1>2, FamilyStutter DEF Halted
<1>3. CASE ~Halted
  BY <1>1, <1>3, SwtchFamily, UserFamily DEF Next
<1> QED
  BY <1>2, <1>3

\* The invariant of the family tree holds in every state.
THEOREM ProcFamilyInv == Spec => [](SchedInv /\ FamilyInv)
<1>1. Init => FamilyInv
  BY InitFamily
<1>2. SchedInv /\ FamilyInv /\ [Next]_vars => FamilyInv'
  BY FamilyStutter, FamilyNext
<1>3. Spec => []SchedInv
  BY ProcSchedInv, PTL
<1> QED
  BY <1>1, <1>2, <1>3, PTL DEF Spec

\* fork(), exit() and reparent() keep the family tree whole, for any number of CPUs
\* and processes: whoever can still exit, or has exited, has a living parent.
THEOREM ProcNoOrphans == Spec => []NoOrphans
<1>1. FamilyInv => NoOrphans
  <2> SUFFICES ASSUME FamilyInv, NEW p \in Slot \ {Initproc}, state[p] \notin {"UNUSED", "USED"}
               PROVE  parent[p] # NoProc /\ state[parent[p]] \notin {"UNUSED", "USED", "ZOMBIE"}
    BY DEF NoOrphans
  <2>1. Alive(parent[p])
    BY DEF FamilyInv, LivingInv
  <2> QED
    BY <2>1, ProcAssumption DEF Alive, Gone, Slot
<1> QED
  BY <1>1, ProcFamilyInv, PTL

\* No wakeup of exit() or reparent() is lost, for any number of CPUs and processes:
\* nobody sleeps in wait() with an exited child to collect.
THEOREM ProcNoLostExit == Spec => []NoLostExit
<1>1. SchedInv /\ FamilyInv => NoLostExit
  <2> SUFFICES ASSUME SchedInv, FamilyInv, waitlock = NoCpu, NEW p \in Slot, NEW q \in Slot,
                      state[p] = "SLEEPING", parent[q] = p, state[q] = "ZOMBIE"
               PROVE  FALSE
    BY DEF NoLostExit
  <2>1. PICK r \in Slot : pc[r] = "wakeinit"
    BY DEF FamilyInv, SleepInv, HasZombie
  <2> QED
    BY <2>1 DEF SchedInv, WaitlockInv, WaitLockPCs
<1> QED
  BY <1>1, ProcFamilyInv, PTL
=============================================================================

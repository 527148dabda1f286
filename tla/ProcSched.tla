----------------------------- MODULE ProcSched ------------------------------
(***************************************************************************)
(* The inductive invariant behind the scheduling of processes, and the     *)
(* steps of the scheduler, exit(), wait() and kill().                      *)
(***************************************************************************)
EXTENDS Proc, TLAPS

States == {"UNUSED", "USED", "SLEEPING", "RUNNABLE", "RUNNING", "ZOMBIE"}
ForkPCs == {"copy", "setparent", "setrunnable"}
WaitLockPCs == {"reparent", "wakeinit", "wakeparent", "zombie", "scan", "sleep"}
ExitPCs == {"exit", "reparent", "wakeinit", "wakeparent", "zombie", "dead"}
PCs == {"user", "fork", "wait", "scan", "sleep", "kill"} \cup ForkPCs \cup ExitPCs

TypeOK ==
  /\ state \in [Slot -> States]
  /\ parent \in [Slot -> Slot \cup {NoProc}]
  /\ chan \in [Slot -> Slot \cup {NoProc}]
  /\ plock \in [Slot -> CPU \cup {NoCpu}]
  /\ waitlock \in CPU \cup {NoCpu}
  /\ cur \in [CPU -> Slot \cup {NoProc}]
  /\ swtch \in [Slot -> {"no", "out", "off", "in"}]
  /\ pc \in [Slot -> PCs]
  /\ i \in [Slot -> Nat \ {0}]
  /\ k \in [Slot -> Slot]
  /\ arg = [p \in Slot |-> arg[p]]

\* A thread is on one CPU, or off all of them; on its way in or out its CPU
\* holds p->lock; and p->state says RUNNING while it is on, except on the way out.
CpuInv ==
  /\ \A c, d \in CPU : cur[c] = cur[d] /\ cur[c] # NoProc => c = d
  /\ \A c \in CPU, p \in Slot : cur[c] = p =>
       /\ swtch[p] # "off"
       /\ swtch[p] \in {"in", "out"} => plock[p] = c
  /\ \A p \in Slot :
       /\ swtch[p] # "off" => \E c \in CPU : cur[c] = p
       /\ swtch[p] \in {"no", "in"} <=> state[p] = "RUNNING"
       /\ swtch[p] = "out" => state[p] \in {"RUNNABLE", "SLEEPING", "ZOMBIE"}

\* Where the thread of a process of a given state is.
LabelInv ==
  \A p \in Slot :
    /\ state[p] \in {"UNUSED", "USED"} => pc[p] \in {"user", "dead"}
    /\ state[p] = "ZOMBIE" => pc[p] = "dead"
    /\ pc[p] = "dead" => state[p] \in {"UNUSED", "USED", "ZOMBIE"}

\* p->lock is held by a CPU on whose scheduler's way to or from p it is, or by
\* the CPU of the parent that is making p.
PlockInv ==
  /\ \A q \in Slot : plock[q] # NoCpu =>
       \/ cur[plock[q]] = q /\ swtch[q] \in {"in", "out"}
       \/ \E p \in Slot : cur[plock[q]] = p /\ pc[p] = "copy" /\ arg[p] = q
  /\ \A p \in Slot : pc[p] = "copy" =>
       swtch[p] = "no" /\ arg[p] \in Slot /\ plock[arg[p]] # NoCpu /\ cur[plock[arg[p]]] = p

\* wait_lock is held by the CPU of the one process that is in the part of exit()
\* or wait() that it protects, and that process does not leave the CPU there.
WaitlockInv ==
  /\ \A p \in Slot : pc[p] \in WaitLockPCs =>
       swtch[p] = "no" /\ waitlock # NoCpu /\ cur[waitlock] = p
  /\ waitlock # NoCpu => \E p \in Slot : cur[waitlock] = p /\ pc[p] \in WaitLockPCs

\* A child in the making is USED, and one parent's.
ForkInv ==
  \A p \in Slot : pc[p] \in ForkPCs =>
    /\ arg[p] \in Slot /\ state[arg[p]] = "USED"
    /\ pc[p] # "copy" => pc[arg[p]] = "user"
    /\ \A q \in Slot : pc[q] \in ForkPCs /\ arg[q] = arg[p] => q = p

SchedInv == TypeOK /\ CpuInv /\ LabelInv /\ PlockInv /\ WaitlockInv /\ ForkInv


-----------------------------------------------------------------------------
(* What follows from it for a thread that is running *)

LEMMA InitSched ==
  ASSUME Init
  PROVE  SchedInv
<1> USE DEF Init
<1>0. Slot \subseteq Nat \ {0} /\ 1 \in Slot
  BY ProcAssumption DEF Slot
<1>1. /\ state \in [Slot -> States] /\ plock \in [Slot -> CPU \cup {NoCpu}]
      /\ swtch \in [Slot -> {"no", "out", "off", "in"}] /\ pc \in [Slot -> PCs]
  BY DEF States, PCs
<1>2. /\ parent \in [Slot -> Slot \cup {NoProc}] /\ chan \in [Slot -> Slot \cup {NoProc}]
      /\ cur \in [CPU -> Slot \cup {NoProc}] /\ waitlock \in CPU \cup {NoCpu}
  OBVIOUS
<1>3. i \in [Slot -> Nat \ {0}] /\ k \in [Slot -> Slot] /\ arg = [p \in Slot |-> arg[p]]
  BY <1>0
<1>4. TypeOK
  BY <1>1, <1>2, <1>3 DEF TypeOK
<1>5. CpuInv
  BY ProcAssumption DEF CpuInv, Slot
<1>6. LabelInv /\ PlockInv /\ WaitlockInv /\ ForkInv
  BY DEF LabelInv, PlockInv, WaitlockInv, ForkInv, WaitLockPCs, ForkPCs
<1> QED
  BY <1>4, <1>5, <1>6 DEF SchedInv

\* A running thread is on no other CPU, nobody else's child in the making, and
\* holds wait_lock exactly where its code says so.
LEMMA Running ==
  ASSUME SchedInv, NEW c \in CPU, NEW p \in Slot, cur[c] = p, swtch[p] = "no"
  PROVE  /\ c # NoCpu /\ p # NoProc /\ state[p] = "RUNNING" /\ pc[p] # "dead"
         /\ \A d \in CPU : cur[d] = p => d = c
         /\ pc[p] \in WaitLockPCs <=> waitlock = c
         /\ \A q \in Slot : pc[q] \in ForkPCs => arg[q] # p
         /\ \A q \in Slot : q # p /\ pc[q] = "copy" => plock[arg[q]] # c
         /\ pc[p] # "copy" => \A q \in Slot : plock[q] # c
         /\ plock[p] = NoCpu
<1>1. c # NoCpu /\ p # NoProc
  BY ProcAssumption DEF Slot
<1>2. state[p] = "RUNNING" /\ \A d \in CPU : cur[d] = p => d = c
  BY <1>1 DEF SchedInv, CpuInv
<1>3. pc[p] # "dead" /\ \A q \in Slot : pc[q] \in ForkPCs => arg[q] # p
  BY <1>2 DEF SchedInv, LabelInv, ForkInv
<1>4. pc[p] \in WaitLockPCs <=> waitlock = c
  BY <1>1, <1>2 DEF SchedInv, TypeOK, WaitlockInv
<1>5. \A q \in Slot : q # p /\ pc[q] = "copy" => plock[arg[q]] # c
  BY DEF SchedInv, PlockInv
<1>6. pc[p] # "copy" => \A q \in Slot : plock[q] # c
  BY <1>1 DEF SchedInv, PlockInv
<1>7. plock[p] = NoCpu
  <2> SUFFICES ASSUME plock[p] # NoCpu PROVE FALSE
    OBVIOUS
  <2>1. PICK q \in Slot : cur[plock[p]] = q /\ pc[q] = "copy" /\ arg[q] = p
    BY DEF SchedInv, PlockInv
  <2> QED
    BY <1>3, <2>1 DEF ForkPCs
<1> QED
  BY <1>1, <1>2, <1>3, <1>4, <1>5, <1>6, <1>7

-----------------------------------------------------------------------------
(* Steps of a thread that stays on its CPU *)

\* The thread moves on, outside fork() and sched().  It may take or drop
\* wait_lock, and wake sleepers.
LEMMA Moves ==
  ASSUME SchedInv, TypeOK', NEW c \in CPU, NEW p \in Slot, cur[c] = p, swtch[p] = "no",
         pc[p] \notin ForkPCs,
         pc'[p] \notin ForkPCs, pc'[p] # "dead", \A q \in Slot : q # p => pc'[q] = pc[q],
         UNCHANGED <<plock, cur, swtch>>,
         \A q \in Slot : q # p => arg'[q] = arg[q],
         \A q \in Slot : state'[q] = state[q] \/ (state[q] = "SLEEPING" /\ state'[q] = "RUNNABLE"),
         pc'[p] \in WaitLockPCs <=> waitlock' = c,
         \/ waitlock' = waitlock
         \/ waitlock' = c /\ waitlock = NoCpu
         \/ waitlock' = NoCpu /\ waitlock = c
  PROVE  SchedInv'
<1>0. /\ c # NoCpu /\ state[p] = "RUNNING" /\ pc[p] # "dead"
      /\ \A q \in Slot : pc[q] \in ForkPCs => arg[q] # p
  BY Running
<1>2. CpuInv'
  BY DEF SchedInv, CpuInv
<1>3. LabelInv'
  BY <1>0 DEF SchedInv, LabelInv
<1>4. PlockInv'
  BY DEF SchedInv, PlockInv, ForkPCs
<1>5. WaitlockInv'
  BY <1>0, Running DEF SchedInv, WaitlockInv
<1>6. ForkInv'
  BY <1>0 DEF SchedInv, ForkInv
<1> QED
  BY <1>2, <1>3, <1>4, <1>5, <1>6 DEF SchedInv

\* The thread gets ready for sched(): it has taken its p->lock and given up
\* wait_lock, and is not RUNNING any more.
LEMMA GetsReady ==
  ASSUME SchedInv, TypeOK', NEW c \in CPU, NEW p \in Slot, cur[c] = p, swtch[p] = "no",
         pc[p] \notin ForkPCs \/ (pc' = pc /\ \A q \in Slot : plock[q] # c),
         plock[p] = NoCpu,
         pc'[p] \notin WaitLockPCs, \A q \in Slot : q # p => pc'[q] = pc[q],
         pc'[p] \in ForkPCs => pc' = pc,
         state'[p] \in {"RUNNABLE", "SLEEPING", "ZOMBIE"},
         \A q \in Slot : q # p => state'[q] = state[q],
         state'[p] = "ZOMBIE" <=> pc'[p] = "dead",
         plock' = [plock EXCEPT ![p] = c], swtch' = [swtch EXCEPT ![p] = "out"],
         UNCHANGED <<cur, arg>>,
         waitlock' # c, waitlock' = waitlock \/ (waitlock = c /\ waitlock' = NoCpu)
  PROVE  SchedInv'
<1>0. /\ c # NoCpu /\ p # NoProc /\ state[p] = "RUNNING" /\ pc[p] # "dead"
      /\ \A d \in CPU : cur[d] = p => d = c
      /\ \A q \in Slot : pc[q] \in ForkPCs => arg[q] # p
  BY Running
<1>1. /\ plock'[p] = c /\ \A q \in Slot : q # p => plock'[q] = plock[q]
      /\ swtch'[p] = "out" /\ \A q \in Slot : q # p => swtch'[q] = swtch[q]
  BY DEF SchedInv, TypeOK
<1>2. CpuInv'
  BY <1>0, <1>1 DEF SchedInv, CpuInv
<1>3. LabelInv'
  BY <1>0, <1>1 DEF SchedInv, LabelInv
<1>4. pc[p] # "copy" /\ pc'[p] # "copy"
  <2>1. pc[p] = "copy" => arg[p] \in Slot /\ plock[arg[p]] = c
    BY <1>0 DEF SchedInv, TypeOK, PlockInv
  <2> QED
    BY <1>1, <2>1 DEF ForkPCs
<1>5. PlockInv'
  BY <1>0, <1>1, <1>4 DEF SchedInv, PlockInv, ForkPCs
<1>6. WaitlockInv'
  BY <1>0, <1>1, Running DEF SchedInv, WaitlockInv
<1>7. ForkInv'
  BY <1>0, <1>1 DEF SchedInv, ForkInv
<1> QED
  BY <1>2, <1>3, <1>5, <1>6, <1>7 DEF SchedInv

-----------------------------------------------------------------------------
(* scheduler() and sched() *)

LEMMA ScheduleStep ==
  ASSUME SchedInv, NEW c \in CPU, NEW p \in Slot, Schedule(c, p)
  PROVE  SchedInv'
<1>0. /\ cur[c] = NoProc /\ plock[p] = NoCpu /\ state[p] = "RUNNABLE"
      /\ UNCHANGED <<parent, chan, waitlock, pc, i, k, arg>>
      /\ NoCpu \notin CPU /\ NoProc \notin Slot /\ TypeOK
  BY ProcAssumption DEF Schedule, Free, SchedInv, Slot
<1>1. /\ state' = [state EXCEPT ![p] = "RUNNING"] /\ plock' = [plock EXCEPT ![p] = c]
      /\ cur' = [cur EXCEPT ![c] = p] /\ swtch' = [swtch EXCEPT ![p] = "in"]
  BY DEF Schedule
<1>2. TypeOK'
  BY <1>0, <1>1 DEF TypeOK, States
<1>3. /\ state'[p] = "RUNNING" /\ \A q \in Slot : q # p => state'[q] = state[q]
      /\ plock'[p] = c /\ \A q \in Slot : q # p => plock'[q] = plock[q]
      /\ swtch'[p] = "in" /\ \A q \in Slot : q # p => swtch'[q] = swtch[q]
      /\ cur'[c] = p /\ \A d \in CPU : d # c => cur'[d] = cur[d]
  BY <1>0, <1>1 DEF TypeOK
<1>4. swtch[p] = "off" /\ \A d \in CPU : cur[d] # p
  BY <1>0 DEF SchedInv, TypeOK, CpuInv
<1>5. CpuInv'
  BY <1>0, <1>3, <1>4 DEF SchedInv, CpuInv
<1>6. LabelInv'
  BY <1>0, <1>3 DEF SchedInv, LabelInv
<1>7. pc[p] # "copy" /\ pc[p] \notin WaitLockPCs
  BY <1>4 DEF SchedInv, PlockInv, WaitlockInv
<1>8. PlockInv'
  BY <1>0, <1>3, <1>7 DEF SchedInv, TypeOK, PlockInv
<1>9. WaitlockInv'
  BY <1>0, <1>3, <1>7 DEF SchedInv, TypeOK, WaitlockInv
<1>10. ForkInv'
  BY <1>0, <1>3 DEF SchedInv, ForkInv
<1> QED
  BY <1>2, <1>5, <1>6, <1>8, <1>9, <1>10 DEF SchedInv

LEMMA SwtchOutStep ==
  ASSUME SchedInv, NEW c \in CPU, NEW p \in Slot, SwtchOut(c, p)
  PROVE  SchedInv'
<1>0. /\ cur[c] = p /\ swtch[p] = "out"
      /\ UNCHANGED <<state, parent, chan, waitlock, pc, i, k, arg>>
      /\ NoCpu \notin CPU /\ NoProc \notin Slot /\ TypeOK
  BY ProcAssumption DEF SwtchOut, SchedInv, Slot
<1>1. /\ plock' = [plock EXCEPT ![p] = NoCpu]
      /\ cur' = [cur EXCEPT ![c] = NoProc] /\ swtch' = [swtch EXCEPT ![p] = "off"]
  BY DEF SwtchOut
<1>2. TypeOK'
  BY <1>0, <1>1 DEF TypeOK
<1>3. /\ plock'[p] = NoCpu /\ \A q \in Slot : q # p => plock'[q] = plock[q]
      /\ swtch'[p] = "off" /\ \A q \in Slot : q # p => swtch'[q] = swtch[q]
      /\ cur'[c] = NoProc /\ \A d \in CPU : d # c => cur'[d] = cur[d]
  BY <1>0, <1>1 DEF TypeOK
<1>4. /\ \A d \in CPU : cur[d] = p => d = c
      /\ pc[p] # "copy" /\ pc[p] \notin WaitLockPCs
  BY <1>0 DEF SchedInv, CpuInv, PlockInv, WaitlockInv
<1>5. CpuInv'
  BY <1>0, <1>3, <1>4 DEF SchedInv, CpuInv
<1>6. LabelInv' /\ ForkInv'
  BY <1>0 DEF SchedInv, LabelInv, ForkInv
<1>7. \A q \in Slot : pc[q] = "copy" => arg[q] # p
  BY <1>0 DEF SchedInv, CpuInv, ForkInv, ForkPCs
<1>8. PlockInv'
  BY <1>0, <1>3, <1>4, <1>7 DEF SchedInv, TypeOK, PlockInv
<1>9. WaitlockInv'
  BY <1>0, <1>3, <1>4 DEF SchedInv, TypeOK, WaitlockInv
<1> QED
  BY <1>2, <1>5, <1>6, <1>8, <1>9 DEF SchedInv

LEMMA SwtchInStep ==
  ASSUME SchedInv, NEW c \in CPU, NEW p \in Slot, SwtchIn(c, p)
  PROVE  SchedInv' /\ panicked' # "zombie exit"
<1>0. /\ cur[c] = p /\ swtch[p] = "in" /\ panicked = "no"
      /\ UNCHANGED <<state, parent, waitlock, cur, pc, i, k, arg>>
      /\ NoCpu \notin CPU /\ NoProc \notin Slot /\ TypeOK
  BY ProcAssumption DEF SwtchIn, SchedInv, Slot
<1>1. /\ plock' = [plock EXCEPT ![p] = NoCpu] /\ chan' = [chan EXCEPT ![p] = NoProc]
      /\ swtch' = [swtch EXCEPT ![p] = "no"]
  BY DEF SwtchIn
<1>2. TypeOK'
  BY <1>0, <1>1 DEF TypeOK
<1>3. /\ plock'[p] = NoCpu /\ \A q \in Slot : q # p => plock'[q] = plock[q]
      /\ swtch'[p] = "no" /\ \A q \in Slot : q # p => swtch'[q] = swtch[q]
  BY <1>0, <1>1 DEF TypeOK
<1>4. /\ \A d \in CPU : cur[d] = p => d = c
      /\ pc[p] # "copy" /\ pc[p] \notin WaitLockPCs /\ state[p] = "RUNNING"
  BY <1>0 DEF SchedInv, CpuInv, PlockInv, WaitlockInv
<1>5. CpuInv'
  BY <1>0, <1>3, <1>4 DEF SchedInv, CpuInv
<1>6. LabelInv' /\ ForkInv'
  BY <1>0 DEF SchedInv, LabelInv, ForkInv
<1>7. \A q \in Slot : pc[q] = "copy" => arg[q] # p
  BY <1>4 DEF SchedInv, ForkInv, ForkPCs
<1>8. PlockInv'
  BY <1>0, <1>3, <1>4, <1>7 DEF SchedInv, TypeOK, PlockInv
<1>9. WaitlockInv'
  BY <1>0, <1>3, <1>4 DEF SchedInv, TypeOK, WaitlockInv
<1>10. panicked' = "no"
  BY <1>0, <1>4 DEF SwtchIn, SchedInv, LabelInv
<1> QED
  BY <1>2, <1>5, <1>6, <1>8, <1>9, <1>10 DEF SchedInv

\* yield(), sleep() and the end of exit().
LEMMA LeaveStep ==
  ASSUME SchedInv, NEW c \in CPU, NEW p \in Slot, Yield(c, p) \/ Sleep(c, p) \/ ExitZombie(c, p)
  PROVE  SchedInv'
<1>0. /\ cur[c] = p /\ swtch[p] = "no" /\ plock[p] = NoCpu /\ UNCHANGED <<cur, arg>>
      /\ plock' = [plock EXCEPT ![p] = c] /\ swtch' = [swtch EXCEPT ![p] = "out"] /\ TypeOK
      /\ UNCHANGED <<parent, i, k>>
  BY DEF Yield, Sleep, ExitZombie, Runs, Free, LockSelf, SchedInv
<1>1. c # NoCpu /\ (pc[p] \in WaitLockPCs <=> waitlock = c)
  BY <1>0, Running
<1>2. CASE Yield(c, p)
  <2>1. /\ state' = [state EXCEPT ![p] = "RUNNABLE"] /\ pc' = pc /\ UNCHANGED <<waitlock, chan>>
        /\ waitlock # c /\ \A q \in Slot : plock[q] # c
    BY <1>2 DEF Yield, HoldsNothing
  <2>2. /\ pc[p] # "dead" /\ state'[p] = "RUNNABLE"
        /\ \A q \in Slot : q # p => state'[q] = state[q]
    BY <1>0, <2>1, Running DEF TypeOK
  <2>3. TypeOK'
    BY <1>0, <2>1 DEF TypeOK, States
  <2>4. waitlock' # c /\ pc[p] \notin WaitLockPCs
    BY <1>1, <2>1
  <2> QED
    BY <1>0, <2>1, <2>2, <2>3, <2>4, GetsReady, Zenon
<1>3. CASE Sleep(c, p)
  <2>1. /\ state' = [state EXCEPT ![p] = "SLEEPING"] /\ pc[p] = "sleep" /\ waitlock' = NoCpu
        /\ pc' = [pc EXCEPT ![p] = "wait"] /\ chan' = [chan EXCEPT ![p] = p]
    BY <1>3 DEF Sleep, Runs, Goto, DropWaitLock
  <2>2. TypeOK'
    BY <1>0, <2>1 DEF TypeOK, States, PCs
  <2>4. /\ state'[p] = "SLEEPING" /\ \A q \in Slot : q # p => state'[q] = state[q]
        /\ pc'[p] = "wait" /\ \A q \in Slot : q # p => pc'[q] = pc[q]
    BY <1>0, <2>1 DEF TypeOK
  <2>3. /\ pc[p] \notin ForkPCs /\ pc'[p] \notin ForkPCs /\ pc'[p] \notin WaitLockPCs
        /\ pc'[p] # "dead" /\ waitlock = c /\ waitlock' # c
    BY <1>1, <2>1, <2>4 DEF WaitLockPCs, ForkPCs
  <2> QED
    BY <1>0, <2>1, <2>2, <2>3, <2>4, GetsReady, Zenon
<1>4. CASE ExitZombie(c, p)
  <2>1. /\ state' = [state EXCEPT ![p] = "ZOMBIE"] /\ pc[p] = "zombie" /\ waitlock' = NoCpu
        /\ pc' = [pc EXCEPT ![p] = "dead"] /\ UNCHANGED chan
    BY <1>4 DEF ExitZombie, Runs, Goto, DropWaitLock
  <2>2. TypeOK'
    BY <1>0, <2>1 DEF TypeOK, States, PCs, ExitPCs
  <2>3. /\ state'[p] = "ZOMBIE" /\ \A q \in Slot : q # p => state'[q] = state[q]
        /\ pc'[p] = "dead" /\ \A q \in Slot : q # p => pc'[q] = pc[q]
    BY <1>0, <2>1 DEF TypeOK
  <2>4. /\ pc[p] \notin ForkPCs /\ pc'[p] \notin ForkPCs /\ pc'[p] \notin WaitLockPCs
        /\ waitlock = c /\ waitlock' # c
    BY <1>1, <2>1, <2>3 DEF WaitLockPCs, ForkPCs
  <2> QED
    BY <1>0, <2>1, <2>2, <2>3, <2>4, GetsReady, Zenon
<1> QED
  BY <1>2, <1>3, <1>4

-----------------------------------------------------------------------------
(* Steps outside fork() of a thread that keeps its CPU and its locks *)

\* The thread keeps what it has of wait_lock, and moves on within the part of its
\* code that needs it, or within the part that does not.
LEMMA StaysStep ==
  ASSUME SchedInv, NEW c \in CPU, NEW p \in Slot, cur[c] = p, swtch[p] = "no",
         NEW to \in PCs, pc' = [pc EXCEPT ![p] = to],
         pc[p] \notin ForkPCs, to \notin ForkPCs, to # "dead",
         pc[p] \in WaitLockPCs <=> to \in WaitLockPCs,
         UNCHANGED <<chan, plock, cur, swtch, waitlock>>,
         parent' \in [Slot -> Slot \cup {NoProc}],
         state' \in [Slot -> States],
         \A q \in Slot : state'[q] = state[q] \/ (state[q] = "SLEEPING" /\ state'[q] = "RUNNABLE"),
         i' \in [Slot -> Nat \ {0}], k' \in [Slot -> Slot],
         arg' = arg \/ \E a : arg' = [arg EXCEPT ![p] = a]
  PROVE  SchedInv'
<1>1. TypeOK
  BY DEF SchedInv
<1>2. arg' = [q \in Slot |-> arg'[q]] /\ \A q \in Slot : q # p => arg'[q] = arg[q]
  BY <1>1 DEF TypeOK
<1>3. TypeOK'
  BY <1>1, <1>2 DEF TypeOK
<1>4. pc'[p] = to /\ \A q \in Slot : q # p => pc'[q] = pc[q]
  BY <1>1 DEF TypeOK
<1>5. pc[p] \in WaitLockPCs <=> waitlock = c
  BY Running
<1> QED
  BY <1>2, <1>3, <1>4, <1>5, Moves

LEMMA UserStep ==
  ASSUME SchedInv, NEW c \in CPU, NEW p \in Slot, User(c, p)
  PROVE  SchedInv'
<1>1. PICK to \in {"exit", "fork", "wait", "kill"} :
        /\ cur[c] = p /\ swtch[p] = "no" /\ pc[p] = "user" /\ pc' = [pc EXCEPT ![p] = to]
        /\ UNCHANGED <<state, parent, chan, plock, waitlock, cur, swtch, k>>
        /\ i' = i \/ i' = [i EXCEPT ![p] = 1]
        /\ arg' = arg \/ \E a : arg' = [arg EXCEPT ![p] = a]
  BY DEF User, Exit, Fault, Syscall, Runs, Goto
<1>2. /\ parent' \in [Slot -> Slot \cup {NoProc}] /\ state' \in [Slot -> States]
      /\ i' \in [Slot -> Nat \ {0}] /\ k' \in [Slot -> Slot]
  BY <1>1 DEF SchedInv, TypeOK
<1>3. /\ to \in PCs /\ to \notin ForkPCs /\ to \notin WaitLockPCs /\ to # "dead"
      /\ pc[p] \notin ForkPCs /\ pc[p] \notin WaitLockPCs
  BY <1>1 DEF PCs, ForkPCs, WaitLockPCs, ExitPCs
<1>4. /\ cur[c] = p /\ swtch[p] = "no" /\ pc' = [pc EXCEPT ![p] = to]
      /\ UNCHANGED <<chan, plock, cur, swtch, waitlock>>
      /\ \A q \in Slot : state'[q] = state[q]
      /\ arg' = arg \/ \E a : arg' = [arg EXCEPT ![p] = a]
  BY <1>1
<1> QED
  BY <1>2, <1>3, <1>4, StaysStep, Zenon

LEMMA KillStep ==
  ASSUME SchedInv, NEW c \in CPU, NEW p \in Slot, Kill(c, p)
  PROVE  SchedInv'
<1>0. TypeOK
  BY DEF SchedInv
<1>1. /\ cur[c] = p /\ swtch[p] = "no" /\ pc[p] = "kill"
      /\ UNCHANGED <<parent, chan, plock, waitlock, cur, swtch, k>>
  BY DEF Kill, KillScan, KillFound, KillNone, Runs
<1>2. PICK to \in {"user", "kill"} : pc' = [pc EXCEPT ![p] = to]
  BY <1>0, <1>1 DEF Kill, KillScan, KillFound, KillNone, Return, Goto, TypeOK
<1>3. arg' = arg \/ \E a : arg' = [arg EXCEPT ![p] = a]
  BY DEF Kill, KillScan, KillFound, KillNone, Return
<1>4. i' \in [Slot -> Nat \ {0}]
  BY <1>0 DEF Kill, KillScan, KillFound, KillNone, Return, TypeOK
<1>5. /\ state' \in [Slot -> States]
      /\ \A q \in Slot : state'[q] = state[q] \/ (state[q] = "SLEEPING" /\ state'[q] = "RUNNABLE")
  BY <1>0 DEF Kill, KillScan, KillFound, KillNone, TypeOK, States
<1>6. /\ to \in PCs /\ to \notin ForkPCs /\ to \notin WaitLockPCs /\ to # "dead"
      /\ pc[p] \notin ForkPCs /\ pc[p] \notin WaitLockPCs
  BY <1>1 DEF PCs, ForkPCs, WaitLockPCs
<1>7. parent' \in [Slot -> Slot \cup {NoProc}] /\ k' \in [Slot -> Slot]
  BY <1>0, <1>1 DEF TypeOK
<1> QED
  BY <1>1, <1>2, <1>3, <1>4, <1>5, <1>6, <1>7, StaysStep, Zenon

\* A round of wakeup() changes one p->state at most, from SLEEPING to RUNNABLE.
LEMMA WakeOneStep ==
  ASSUME TypeOK, NEW p \in Slot, NEW ch, WakeOne(p, ch)
  PROVE  /\ state' \in [Slot -> States]
         /\ \A q \in Slot : state'[q] = state[q] \/ (state[q] = "SLEEPING" /\ state'[q] = "RUNNABLE")
         /\ k' \in [Slot -> Slot]
<1>1. k[p] \in Slot /\ (k[p] # NPROC => k[p] + 1 \in Slot) /\ 1 \in Slot
  BY ProcAssumption DEF TypeOK, Slot
<1>2. k' \in [Slot -> Slot]
  BY <1>1 DEF WakeOne, LastSlot, TypeOK
<1>3. /\ state' \in [Slot -> States]
      /\ \A q \in Slot : state'[q] = state[q] \/ (state[q] = "SLEEPING" /\ state'[q] = "RUNNABLE")
  BY <1>1 DEF WakeOne, TypeOK, States
<1> QED
  BY <1>2, <1>3

LEMMA ReparentStep ==
  ASSUME SchedInv, NEW c \in CPU, NEW p \in Slot,
         Reparent(c, p) \/ WakeInit(c, p) \/ WakeParent(c, p)
  PROVE  SchedInv'
<1>0. TypeOK
  BY DEF SchedInv
<1>1. /\ cur[c] = p /\ swtch[p] = "no" /\ pc[p] \in {"reparent", "wakeinit", "wakeparent"}
      /\ UNCHANGED <<chan, plock, waitlock, cur, swtch, arg>>
  BY DEF Reparent, WakeInit, WakeParent, Runs
<1>2. PICK to \in {"reparent", "wakeinit", "wakeparent", "zombie"} : pc' = [pc EXCEPT ![p] = to]
  BY DEF Reparent, WakeInit, WakeParent, Goto, AfterReparent
<1>3. parent' \in [Slot -> Slot \cup {NoProc}]
  <2>0. Initproc \in Slot
    BY ProcAssumption DEF Initproc, Slot
  <2>1. CASE Reparent(c, p)
    <3>1. i[p] \in Slot /\ (parent' = parent \/ parent' = [parent EXCEPT ![i[p]] = Initproc])
      BY <2>1 DEF Reparent, GiveToInit
    <3> QED
      BY <1>0, <2>0, <3>1 DEF TypeOK
  <2>2. CASE WakeInit(c, p) \/ WakeParent(c, p)
    BY <1>0, <2>2 DEF WakeInit, WakeParent, TypeOK
  <2> QED
    BY <2>1, <2>2
<1>4. i' \in [Slot -> Nat \ {0}]
  BY <1>0 DEF Reparent, WakeInit, WakeParent, TypeOK
<1>5. /\ state' \in [Slot -> States]
      /\ \A q \in Slot : state'[q] = state[q] \/ (state[q] = "SLEEPING" /\ state'[q] = "RUNNABLE")
      /\ k' \in [Slot -> Slot]
  <2>1. CASE Reparent(c, p)
    BY <1>0, <2>1 DEF Reparent, TypeOK
  <2>2. CASE WakeInit(c, p)
    BY <1>0, <2>2, WakeOneStep DEF WakeInit
  <2>3. CASE WakeParent(c, p)
    BY <1>0, <2>3, WakeOneStep DEF WakeParent
  <2> QED
    BY <2>1, <2>2, <2>3
<1>6. /\ to \in PCs /\ to \notin ForkPCs /\ to \in WaitLockPCs /\ to # "dead"
      /\ pc[p] \notin ForkPCs /\ pc[p] \in WaitLockPCs
  BY <1>1 DEF PCs, ForkPCs, WaitLockPCs, ExitPCs
<1> QED
  BY <1>1, <1>2, <1>3, <1>4, <1>5, <1>6, StaysStep, Zenon

LEMMA ScanStep ==
  ASSUME SchedInv, NEW c \in CPU, NEW p \in Slot, WaitScan(c, p) \/ WaitDecide(c, p)
  PROVE  SchedInv'
<1>0. TypeOK
  BY DEF SchedInv
<1>1. /\ cur[c] = p /\ swtch[p] = "no" /\ pc[p] = "scan"
      /\ UNCHANGED <<state, parent, chan, plock, waitlock, cur, swtch, k>>
  BY DEF WaitScan, WaitDecide, Runs
<1>2. PICK to \in {"scan", "sleep"} : pc' = [pc EXCEPT ![p] = to]
  BY <1>0, <1>1 DEF WaitScan, WaitDecide, Goto, TypeOK
<1>3. arg' = arg \/ \E a : arg' = [arg EXCEPT ![p] = a]
  BY DEF WaitScan, WaitDecide
<1>4. /\ i' \in [Slot -> Nat \ {0}] /\ parent' \in [Slot -> Slot \cup {NoProc}]
      /\ state' \in [Slot -> States] /\ k' \in [Slot -> Slot]
      /\ \A q \in Slot : state'[q] = state[q]
  BY <1>0, <1>1 DEF WaitScan, WaitDecide, TypeOK
<1>5. /\ to \in PCs /\ to \notin ForkPCs /\ to \in WaitLockPCs /\ to # "dead"
      /\ pc[p] \notin ForkPCs /\ pc[p] \in WaitLockPCs
  BY <1>1 DEF PCs, ForkPCs, WaitLockPCs
<1> QED
  BY <1>1, <1>2, <1>3, <1>4, <1>5, StaysStep, Zenon

\* The thread takes wait_lock, or gives it up.
LEMMA LockStep ==
  ASSUME SchedInv, NEW c \in CPU, NEW p \in Slot,
         ExitLock(c, p) \/ WaitLock(c, p) \/ WaitCopyoutFails(c, p) \/ WaitGiveUp(c, p)
  PROVE  SchedInv'
<1>0. TypeOK
  BY DEF SchedInv
<1>1. /\ cur[c] = p /\ swtch[p] = "no"
      /\ UNCHANGED <<state, parent, chan, plock, cur, swtch, k>>
  BY DEF ExitLock, WaitLock, WaitCopyoutFails, WaitGiveUp, Runs
<1>2. c # NoCpu /\ (pc[p] \in WaitLockPCs <=> waitlock = c)
  BY <1>1, Running
<1>3. PICK to \in {"reparent", "scan", "user"} :
        /\ pc' = [pc EXCEPT ![p] = to]
        /\ \/ pc[p] \in {"exit", "wait"} /\ to # "user" /\ waitlock = NoCpu /\ waitlock' = c
           \/ pc[p] = "scan" /\ to = "user" /\ waitlock' = NoCpu
  BY DEF ExitLock, WaitLock, WaitCopyoutFails, WaitGiveUp, Runs, Goto, Return
<1>4. i' = [i EXCEPT ![p] = 1] /\ (arg' = arg \/ arg' = [arg EXCEPT ![p] = 0])
  BY DEF ExitLock, WaitLock, WaitCopyoutFails, WaitGiveUp, Return
<1>5. to \in PCs /\ to \notin ForkPCs /\ to # "dead" /\ pc[p] \notin ForkPCs
  BY <1>3 DEF PCs, ForkPCs, ExitPCs
<1>6. waitlock' \in CPU \cup {NoCpu}
  BY <1>3
<1>7. TypeOK' /\ \A q \in Slot : q # p => arg'[q] = arg[q]
  BY <1>0, <1>1, <1>3, <1>4, <1>5, <1>6 DEF TypeOK
<1>8. pc'[p] = to /\ \A q \in Slot : q # p => pc'[q] = pc[q]
  BY <1>0, <1>3 DEF TypeOK
<1>9. /\ pc'[p] \in WaitLockPCs <=> waitlock' = c
      /\ \/ waitlock' = c /\ waitlock = NoCpu
         \/ waitlock' = NoCpu /\ waitlock = c
  BY <1>2, <1>3, <1>8 DEF WaitLockPCs
<1> QED
  BY <1>1, <1>5, <1>7, <1>8, <1>9, Moves
=============================================================================

------------------------------ MODULE ProcFork ------------------------------
(***************************************************************************)
(* The steps of fork(), and of wait() that frees a child; with them, for   *)
(* any number of CPUs and processes, a kernel stack is one CPU's at a time *)
(* and the assertions of sched() hold.                                     *)
(***************************************************************************)
EXTENDS ProcSched

(* fork(), and wait() that frees a child: a thread changes the entry of a process *)
(* that is on no CPU *)

LEMMA OffCpu ==
  ASSUME SchedInv, NEW c \in CPU, NEW p \in Slot, cur[c] = p, swtch[p] = "no",
         NEW q \in Slot, swtch[q] = "off", UNCHANGED <<cur, swtch>>,
         state'[q] \in {"UNUSED", "USED", "RUNNABLE"}, \A r \in Slot : r # q => state'[r] = state[r],
         \A r \in Slot : r # q => plock'[r] = plock[r],
         \A r \in Slot : r # p /\ r # q => pc'[r] = pc[r],
         pc'[p] # "dead", pc'[q] \in {"user", "dead"}, state'[q] = "RUNNABLE" => pc'[q] = "user",
         pc'[p] \in WaitLockPCs <=> waitlock' = c,
         waitlock' = waitlock \/ (waitlock = c /\ waitlock' = NoCpu)
  PROVE  CpuInv' /\ LabelInv' /\ WaitlockInv'
<1>0. /\ c # NoCpu /\ state[p] = "RUNNING" /\ p # q /\ \A d \in CPU : cur[d] # q
      /\ \A d \in CPU : cur[d] = p => d = c
      /\ pc[p] \in WaitLockPCs <=> waitlock = c
  BY Running DEF SchedInv, CpuInv
<1>1. CpuInv'
  <2>1. CpuInv
    BY DEF SchedInv
  <2>2. ASSUME NEW d \in CPU, NEW r \in Slot, cur[d] = r, swtch[r] \in {"in", "out"}
        PROVE  plock'[r] = d
    BY <1>0, <2>1, <2>2 DEF CpuInv
  <2>3. ASSUME NEW r \in Slot
        PROVE  /\ swtch[r] \in {"no", "in"} <=> state'[r] = "RUNNING"
               /\ swtch[r] = "out" => state'[r] \in {"RUNNABLE", "SLEEPING", "ZOMBIE"}
    <3>1. CASE r = q
      BY <3>1
    <3>2. CASE r # q
      BY <2>1, <3>2 DEF CpuInv
    <3> QED
      BY <3>1, <3>2
  <2> QED
    BY <2>1, <2>2, <2>3 DEF CpuInv
<1>2. LabelInv'
  <2>1. LabelInv
    BY DEF SchedInv
  <2>2. ASSUME NEW r \in Slot
        PROVE  /\ state'[r] \in {"UNUSED", "USED"} => pc'[r] \in {"user", "dead"}
               /\ state'[r] = "ZOMBIE" => pc'[r] = "dead"
               /\ pc'[r] = "dead" => state'[r] \in {"UNUSED", "USED", "ZOMBIE"}
    <3>1. CASE r = q
      BY <3>1
    <3>2. CASE r = p
      BY <1>0, <3>2
    <3>3. CASE r # p /\ r # q
      BY <2>1, <3>3 DEF LabelInv
    <3> QED
      BY <3>1, <3>2, <3>3
  <2> QED
    BY <2>2 DEF LabelInv
<1>3. WaitlockInv'
  <2>1. WaitlockInv
    BY DEF SchedInv
  <2>2. pc'[q] \notin WaitLockPCs /\ pc[q] \notin WaitLockPCs
    BY <2>1 DEF WaitlockInv, WaitLockPCs
  <2>3. ASSUME NEW r \in Slot, pc'[r] \in WaitLockPCs
        PROVE  swtch[r] = "no" /\ waitlock' # NoCpu /\ cur[waitlock'] = r
    <3>1. CASE r = p
      BY <1>0, <2>3, <3>1
    <3>2. CASE r # p
      BY <1>0, <2>1, <2>2, <2>3, <3>2 DEF WaitlockInv
    <3> QED
      BY <3>1, <3>2
  <2>4. waitlock' # NoCpu => \E r \in Slot : cur[waitlock'] = r /\ pc'[r] \in WaitLockPCs
    BY <1>0, <2>1, <2>2 DEF WaitlockInv
  <2> QED
    BY <2>3, <2>4 DEF WaitlockInv
<1> QED
  BY <1>1, <1>2, <1>3

\* No p->lock changes hands, and no fork() begins or ends.
LEMMA PlockSame ==
  ASSUME SchedInv, UNCHANGED <<cur, swtch>>, \A r \in Slot : plock'[r] = plock[r],
         \A r \in Slot : pc'[r] = "copy" <=> pc[r] = "copy",
         \A r \in Slot : pc[r] = "copy" => arg'[r] = arg[r]
  PROVE  PlockInv'
BY DEF SchedInv, PlockInv

\* The fork() of p is done with the p->lock of the child.
LEMMA PlockDrop ==
  ASSUME SchedInv, NEW p \in Slot, NEW q \in Slot, pc[p] = "copy", arg[p] = q,
         UNCHANGED <<cur, swtch>>,
         plock'[q] = NoCpu, \A r \in Slot : r # q => plock'[r] = plock[r],
         \A r \in Slot : pc'[r] = "copy" <=> (pc[r] = "copy" /\ r # p),
         \A r \in Slot : r # p => arg'[r] = arg[r]
  PROVE  PlockInv'
<1>1. PlockInv /\ \A r \in Slot : pc[r] = "copy" /\ r # p => arg[r] # q
  BY DEF SchedInv, ForkInv, ForkPCs
<1>2. ASSUME NEW r \in Slot, plock'[r] # NoCpu
      PROVE  \/ cur[plock'[r]] = r /\ swtch[r] \in {"in", "out"}
             \/ \E x \in Slot : cur[plock'[r]] = x /\ pc'[x] = "copy" /\ arg'[x] = r
  <2>1. r # q /\ plock'[r] = plock[r]
    BY <1>2
  <2> QED
    BY <1>1, <1>2, <2>1 DEF PlockInv
<1>3. ASSUME NEW r \in Slot, pc'[r] = "copy"
      PROVE  /\ swtch[r] = "no" /\ arg'[r] \in Slot /\ plock'[arg'[r]] # NoCpu
             /\ cur[plock'[arg'[r]]] = r
  <2>1. pc[r] = "copy" /\ r # p /\ arg'[r] = arg[r] /\ arg[r] # q
    BY <1>1, <1>3
  <2> QED
    BY <1>1, <2>1 DEF PlockInv
<1> QED
  BY <1>2, <1>3 DEF PlockInv

\* The other forks go on: p's is over, and q was p's child or nobody's.
LEMMA ForkOthers ==
  ASSUME SchedInv, NEW p \in Slot, NEW q \in Slot,
         \A r \in Slot : pc'[r] \in ForkPCs => pc[r] \in ForkPCs /\ r # p /\ pc'[r] = pc[r] /\ arg'[r] = arg[r],
         \A r \in Slot : pc[r] \in ForkPCs /\ r # p => arg[r] # p /\ arg[r] # q,
         \A r \in Slot : r # q => state'[r] = state[r],
         \A r \in Slot : r # p /\ r # q => pc'[r] = pc[r]
  PROVE  ForkInv'
<1>1. ForkInv
  BY DEF SchedInv
<1>2. ASSUME NEW r \in Slot, pc'[r] \in ForkPCs
      PROVE  /\ arg'[r] \in Slot /\ state'[arg'[r]] = "USED"
             /\ pc'[r] # "copy" => pc'[arg'[r]] = "user"
             /\ \A x \in Slot : pc'[x] \in ForkPCs /\ arg'[x] = arg'[r] => x = r
  <2>1. pc[r] \in ForkPCs /\ r # p /\ pc'[r] = pc[r] /\ arg'[r] = arg[r] /\ arg[r] # p /\ arg[r] # q
    BY <1>2
  <2>2. arg[r] \in Slot /\ state[arg[r]] = "USED" /\ (pc[r] # "copy" => pc[arg[r]] = "user")
    BY <1>1, <2>1 DEF ForkInv
  <2>3. \A x \in Slot : pc'[x] \in ForkPCs /\ arg'[x] = arg'[r] => x = r
    BY <1>1, <2>1 DEF ForkInv
  <2> QED
    BY <2>1, <2>2, <2>3
<1> QED
  BY <1>2 DEF ForkInv

LEMMA AllocStep ==
  ASSUME SchedInv, NEW c \in CPU, NEW p \in Slot, AllocScan(c, p) \/ AllocNone(c, p)
  PROVE  SchedInv'
<1>0. /\ cur[c] = p /\ swtch[p] = "no" /\ pc[p] = "fork" /\ TypeOK
      /\ UNCHANGED <<parent, chan, waitlock, cur, swtch, k>>
  BY DEF SchedInv, AllocScan, AllocNone, Runs
<1>1. CASE state' = state /\ plock' = plock
  <2>1. PICK to \in {"fork", "user"} : pc' = [pc EXCEPT ![p] = to]
    BY <1>0, <1>1 DEF AllocScan, AllocNone, Return, Goto, TypeOK, States
  <2>2. arg' = arg \/ \E a : arg' = [arg EXCEPT ![p] = a]
    BY DEF AllocScan, AllocNone, Return
  <2>3. /\ i' \in [Slot -> Nat \ {0}] /\ parent' \in [Slot -> Slot \cup {NoProc}]
        /\ state' \in [Slot -> States] /\ k' \in [Slot -> Slot]
        /\ \A q \in Slot : state'[q] = state[q]
    BY <1>0, <1>1 DEF AllocScan, AllocNone, Return, TypeOK
  <2>4. /\ to \in PCs /\ to \notin ForkPCs /\ to \notin WaitLockPCs /\ to # "dead"
        /\ pc[p] \notin ForkPCs /\ pc[p] \notin WaitLockPCs
    BY <1>0 DEF PCs, ForkPCs, WaitLockPCs
  <2> QED
    BY <1>0, <1>1, <2>1, <2>2, <2>3, <2>4, StaysStep, Zenon
<1>2. CASE ~(state' = state /\ plock' = plock)
  <2> DEFINE q == i[p]
  <2>1. q \in Slot /\ plock[q] = NoCpu /\ state[q] = "UNUSED" /\ i' = i
    BY <1>2 DEF AllocScan, AllocNone, Free
  <2>a. /\ plock' = [plock EXCEPT ![q] = c] /\ state' = [state EXCEPT ![q] = "USED"]
        /\ arg' = [arg EXCEPT ![p] = q] /\ pc' = [pc EXCEPT ![p] = "copy"]
    BY <1>2 DEF AllocScan, AllocNone, Goto
  <2> HIDE DEF q
  <2>2. TypeOK'
    <3>1. /\ plock' \in [Slot -> CPU \cup {NoCpu}] /\ state' \in [Slot -> States]
          /\ pc' \in [Slot -> PCs]
      BY <1>0, <2>1, <2>a DEF TypeOK, States, PCs, ForkPCs
    <3>2. arg' = [r \in Slot |-> arg'[r]]
      BY <1>0, <2>a DEF TypeOK
    <3> QED
      BY <1>0, <2>1, <3>1, <3>2 DEF TypeOK
  <2>3. /\ c # NoCpu /\ p # NoProc /\ state[p] = "RUNNING"
        /\ \A d \in CPU : cur[d] = p => d = c
        /\ pc[p] \in WaitLockPCs <=> waitlock = c
        /\ \A r \in Slot : pc[r] \in ForkPCs => arg[r] # p
    <3>1. cur[c] = p /\ swtch[p] = "no"
      BY <1>0
    <3> QED
      BY <3>1, Running
  <2>4. /\ plock'[q] = c /\ \A r \in Slot : r # q => plock'[r] = plock[r]
        /\ state'[q] = "USED" /\ \A r \in Slot : r # q => state'[r] = state[r]
        /\ arg'[p] = q /\ \A r \in Slot : r # p => arg'[r] = arg[r]
        /\ pc'[p] = "copy" /\ \A r \in Slot : r # p => pc'[r] = pc[r]
    BY <1>0, <2>1, <2>a DEF TypeOK
  <2>5. p # q /\ swtch[q] = "off" /\ \A r \in Slot : pc[r] \in ForkPCs => arg[r] # q
    BY <1>0, <2>1, <2>3 DEF SchedInv, CpuInv, ForkInv, TypeOK
  <2>6. pc[q] \in {"user", "dead"} /\ pc'[q] = pc[q]
    BY <2>1, <2>4, <2>5 DEF SchedInv, LabelInv
  <2>7. /\ "copy" \notin WaitLockPCs /\ pc[p] \notin WaitLockPCs
        /\ pc[p] \notin ForkPCs /\ "copy" \in ForkPCs
    BY <1>0 DEF WaitLockPCs, ForkPCs
  <2>8. CpuInv' /\ LabelInv' /\ WaitlockInv'
    BY <1>0, <2>1, <2>3, <2>4, <2>5, <2>6, <2>7, OffCpu
  <2>9. PlockInv'
    <3>0. PlockInv /\ UNCHANGED <<cur, swtch>>
      BY <1>0 DEF SchedInv
    <3>1. ASSUME NEW r \in Slot, plock'[r] # NoCpu
          PROVE  \/ cur[plock'[r]] = r /\ swtch[r] \in {"in", "out"}
                 \/ \E x \in Slot : cur[plock'[r]] = x /\ pc'[x] = "copy" /\ arg'[x] = r
      <4>1. CASE r = q
        BY <1>0, <2>4, <4>1
      <4>2. CASE r # q
        <5>1. \A x \in Slot : pc[x] = "copy" => pc'[x] = "copy" /\ arg'[x] = arg[x]
          BY <1>0, <2>4
        <5> QED
          BY <2>4, <3>0, <3>1, <4>2, <5>1 DEF PlockInv
      <4> QED
        BY <4>1, <4>2
    <3>2. ASSUME NEW r \in Slot, pc'[r] = "copy"
          PROVE  /\ swtch[r] = "no" /\ arg'[r] \in Slot /\ plock'[arg'[r]] # NoCpu
                 /\ cur[plock'[arg'[r]]] = r
      <4>1. CASE r = p
        BY <1>0, <2>1, <2>3, <2>4, <4>1
      <4>2. CASE r # p
        <5>1. pc[r] = "copy" /\ arg'[r] = arg[r] /\ arg[r] # q
          BY <2>4, <2>5, <3>2, <4>2 DEF ForkPCs
        <5>2. swtch[r] = "no" /\ arg[r] \in Slot /\ plock[arg[r]] # NoCpu /\ cur[plock[arg[r]]] = r
          BY <3>0, <5>1 DEF PlockInv
        <5> QED
          BY <2>4, <5>1, <5>2
      <4> QED
        BY <4>1, <4>2
    <3> QED
      BY <3>0, <3>1, <3>2 DEF PlockInv
  <2>10. ForkInv'
    <3>1. ForkInv
      BY DEF SchedInv
    <3>2. ASSUME NEW r \in Slot, pc'[r] \in ForkPCs
          PROVE  /\ arg'[r] \in Slot /\ state'[arg'[r]] = "USED"
                 /\ pc'[r] # "copy" => pc'[arg'[r]] = "user"
                 /\ \A x \in Slot : pc'[x] \in ForkPCs /\ arg'[x] = arg'[r] => x = r
      <4>1. CASE r = p
        BY <2>1, <2>4, <2>5, <4>1
      <4>2. CASE r # p
        <5>1. /\ pc[r] \in ForkPCs /\ pc'[r] = pc[r] /\ arg'[r] = arg[r]
              /\ arg[r] # p /\ arg[r] # q
          BY <2>3, <2>4, <2>5, <3>2, <4>2
        <5>2. /\ arg[r] \in Slot /\ state[arg[r]] = "USED"
              /\ pc[r] # "copy" => pc[arg[r]] = "user"
              /\ \A x \in Slot : pc[x] \in ForkPCs /\ arg[x] = arg[r] => x = r
          BY <3>1, <5>1 DEF ForkInv
        <5>3. \A x \in Slot : pc'[x] \in ForkPCs /\ arg'[x] = arg'[r] => x = r
          BY <2>4, <5>1, <5>2
        <5> QED
          BY <2>4, <5>1, <5>2, <5>3
      <4> QED
        BY <4>1, <4>2
    <3> QED
      BY <3>2 DEF ForkInv
  <2> QED
    BY <2>2, <2>8, <2>9, <2>10 DEF SchedInv
<1> QED
  BY <1>1, <1>2

LEMMA FreeType ==
  ASSUME TypeOK, NEW p \in Slot, NEW q \in Slot, Freeproc(q), Return(p),
         waitlock' \in CPU \cup {NoCpu}, UNCHANGED <<cur, swtch, k>>
  PROVE  TypeOK'
<1>1. state' \in [Slot -> States] /\ plock' \in [Slot -> CPU \cup {NoCpu}]
  BY DEF TypeOK, Freeproc, States
<1>2. parent' \in [Slot -> Slot \cup {NoProc}] /\ chan' \in [Slot -> Slot \cup {NoProc}]
  BY DEF TypeOK, Freeproc
<1>3. pc' \in [Slot -> PCs] /\ i' \in [Slot -> Nat \ {0}]
  BY DEF TypeOK, Return, Goto, PCs
<1>4. arg' = [r \in Slot |-> arg'[r]]
  BY DEF TypeOK, Return
<1> QED
  BY <1>1, <1>2, <1>3, <1>4 DEF TypeOK

LEMMA ForkFailStep ==
  ASSUME SchedInv, NEW c \in CPU, NEW p \in Slot, ForkFail(c, p)
  PROVE  SchedInv'
<1> DEFINE q == arg[p]
<1>0. /\ cur[c] = p /\ swtch[p] = "no" /\ pc[p] = "copy" /\ TypeOK
      /\ UNCHANGED <<waitlock, cur, swtch, k>>
  BY DEF SchedInv, ForkFail, Runs
<1>a. /\ state' = [state EXCEPT ![q] = "UNUSED"] /\ plock' = [plock EXCEPT ![q] = NoCpu]
      /\ pc' = [pc EXCEPT ![p] = "user"] /\ arg' = [arg EXCEPT ![p] = 0]
  BY DEF ForkFail, Freeproc, Return, Goto
<1>1. q \in Slot /\ state[q] = "USED" /\ \A r \in Slot : pc[r] \in ForkPCs /\ arg[r] = q => r = p
  BY <1>0 DEF SchedInv, ForkInv, ForkPCs
<1>2. TypeOK' /\ arg[p] = q
  <2>1. waitlock' \in CPU \cup {NoCpu}
    BY <1>0 DEF TypeOK
  <2> QED
    BY <1>0, <1>1, <2>1, FreeType DEF ForkFail
<1> HIDE DEF q
<1>3. /\ c # NoCpu /\ state[p] = "RUNNING"
      /\ pc[p] \in WaitLockPCs <=> waitlock = c
      /\ \A r \in Slot : pc[r] \in ForkPCs => arg[r] # p
  BY <1>0, Running
<1>4. /\ plock'[q] = NoCpu /\ \A r \in Slot : r # q => plock'[r] = plock[r]
      /\ state'[q] = "UNUSED" /\ \A r \in Slot : r # q => state'[r] = state[r]
      /\ \A r \in Slot : r # p => arg'[r] = arg[r]
      /\ pc'[p] = "user" /\ \A r \in Slot : r # p => pc'[r] = pc[r]
  BY <1>0, <1>1, <1>a DEF TypeOK
<1>5. p # q /\ swtch[q] = "off" /\ pc[q] \in {"user", "dead"}
  BY <1>0, <1>1, <1>3 DEF SchedInv, CpuInv, TypeOK, LabelInv
<1>6. CpuInv' /\ LabelInv' /\ WaitlockInv'
  <2>1. pc'[p] \notin WaitLockPCs /\ pc[p] \notin WaitLockPCs
    BY <1>0, <1>4 DEF WaitLockPCs
  <2> QED
    BY <1>0, <1>1, <1>3, <1>4, <1>5, <2>1, OffCpu
<1>7. PlockInv'
  BY <1>0, <1>1, <1>2, <1>4, PlockDrop
<1>8. ForkInv'
  BY <1>1, <1>3, <1>4, ForkOthers DEF ForkPCs
<1> QED
  BY <1>2, <1>6, <1>7, <1>8 DEF SchedInv

LEMMA ForkCopyStep ==
  ASSUME SchedInv, NEW c \in CPU, NEW p \in Slot, ForkCopy(c, p)
  PROVE  SchedInv'
<1> DEFINE q == arg[p]
<1>0. /\ cur[c] = p /\ swtch[p] = "no" /\ pc[p] = "copy" /\ TypeOK
      /\ UNCHANGED <<state, parent, chan, waitlock, cur, swtch, i, k, arg>>
  BY DEF SchedInv, ForkCopy, Runs
<1>a. /\ plock' = [plock EXCEPT ![q] = NoCpu]
      /\ pc' = [pc EXCEPT ![p] = "setparent", ![q] = "user"]
  BY DEF ForkCopy
<1>1. q \in Slot /\ state[q] = "USED" /\ \A r \in Slot : pc[r] \in ForkPCs /\ arg[r] = q => r = p
  BY <1>0 DEF SchedInv, ForkInv, ForkPCs
<1>2. arg[p] = q
  OBVIOUS
<1> HIDE DEF q
<1>3. TypeOK'
  BY <1>0, <1>1, <1>a DEF TypeOK, PCs, ForkPCs
<1>4. /\ c # NoCpu /\ state[p] = "RUNNING"
      /\ pc[p] \in WaitLockPCs <=> waitlock = c
      /\ \A r \in Slot : pc[r] \in ForkPCs => arg[r] # p
  BY <1>0, Running
<1>5. p # q /\ pc[q] \notin ForkPCs /\ swtch[q] = "off"
  BY <1>0, <1>1, <1>4 DEF SchedInv, CpuInv, TypeOK, LabelInv, ForkPCs
<1>6. /\ plock'[q] = NoCpu /\ \A r \in Slot : r # q => plock'[r] = plock[r]
      /\ pc'[p] = "setparent" /\ pc'[q] = "user"
      /\ \A r \in Slot : r # p /\ r # q => pc'[r] = pc[r]
  BY <1>0, <1>1, <1>5, <1>a DEF TypeOK
<1>7. state' = state /\ arg' = arg /\ UNCHANGED <<cur, swtch>>
  BY <1>0
<1>8. CpuInv' /\ LabelInv' /\ WaitlockInv'
  <2>1. pc'[p] \notin WaitLockPCs /\ pc[p] \notin WaitLockPCs
    BY <1>0, <1>6 DEF WaitLockPCs
  <2> QED
    BY <1>0, <1>1, <1>4, <1>5, <1>6, <1>7, <2>1, OffCpu
<1>9. PlockInv'
  <2>1. \A r \in Slot : pc'[r] = "copy" <=> (pc[r] = "copy" /\ r # p)
    BY <1>0, <1>5, <1>6 DEF ForkPCs
  <2> QED
    BY <1>0, <1>1, <1>2, <1>6, <1>7, <2>1, PlockDrop
<1>10. ForkInv'
  <2>1. \A r \in Slot : /\ pc'[r] \in ForkPCs <=> pc[r] \in ForkPCs
                        /\ r # p => (pc'[r] = "copy" <=> pc[r] = "copy")
    BY <1>0, <1>5, <1>6 DEF ForkPCs
  <2>2. \A r \in Slot : pc[r] \in ForkPCs /\ r # p => arg[r] # q /\ arg[r] # p
    BY <1>1, <1>4
  <2>3. ForkInv
    BY DEF SchedInv
  <2>4. ASSUME NEW r \in Slot, pc'[r] \in ForkPCs
        PROVE  /\ arg[r] \in Slot /\ state[arg[r]] = "USED"
               /\ pc'[r] # "copy" => pc'[arg[r]] = "user"
               /\ \A x \in Slot : pc'[x] \in ForkPCs /\ arg[x] = arg[r] => x = r
    <3>1. /\ arg[r] \in Slot /\ state[arg[r]] = "USED"
          /\ pc[r] # "copy" => pc[arg[r]] = "user"
          /\ \A x \in Slot : pc'[x] \in ForkPCs /\ arg[x] = arg[r] => x = r
      BY <2>1, <2>3, <2>4 DEF ForkInv
    <3>2. CASE r = p
      BY <1>2, <1>6, <3>1, <3>2
    <3>3. CASE r # p
      BY <1>6, <2>1, <2>2, <2>4, <3>1, <3>3
    <3> QED
      BY <3>2, <3>3
  <2> QED
    BY <1>7, <2>4 DEF ForkInv
<1> QED
  BY <1>3, <1>8, <1>9, <1>10 DEF SchedInv

LEMMA ForkParentStep ==
  ASSUME SchedInv, NEW c \in CPU, NEW p \in Slot, ForkParent(c, p)
  PROVE  SchedInv'
<1>0. /\ cur[c] = p /\ swtch[p] = "no" /\ pc[p] = "setparent" /\ TypeOK
      /\ UNCHANGED <<state, chan, plock, waitlock, cur, swtch, i, k, arg>>
  BY DEF SchedInv, ForkParent, Runs
<1>a. parent' = [parent EXCEPT ![arg[p]] = p] /\ pc' = [pc EXCEPT ![p] = "setrunnable"]
  BY DEF ForkParent, Goto
<1>1. arg[p] \in Slot
  BY <1>0 DEF SchedInv, ForkInv, ForkPCs
<1>2. TypeOK'
  BY <1>0, <1>1, <1>a DEF TypeOK, PCs, ForkPCs
<1>3. /\ pc'[p] = "setrunnable" /\ \A r \in Slot : r # p => pc'[r] = pc[r]
      /\ state[p] = "RUNNING" /\ \A r \in Slot : pc[r] \in ForkPCs => arg[r] # p
  BY <1>0, <1>a, Running DEF TypeOK
<1>4. /\ \A r \in Slot : pc'[r] \in ForkPCs <=> pc[r] \in ForkPCs
      /\ \A r \in Slot : pc'[r] = "copy" <=> pc[r] = "copy"
      /\ \A r \in Slot : pc'[r] \in WaitLockPCs <=> pc[r] \in WaitLockPCs
  BY <1>0, <1>3 DEF ForkPCs, WaitLockPCs
<1>5. CpuInv' /\ LabelInv'
  BY <1>0, <1>3 DEF SchedInv, CpuInv, LabelInv
<1>6. PlockInv'
  BY <1>0, <1>4, PlockSame
<1>8. WaitlockInv'
  BY <1>0, <1>4 DEF SchedInv, WaitlockInv
<1>7. ForkInv'
  BY <1>0, <1>3, <1>4 DEF SchedInv, ForkInv
<1> QED
  BY <1>2, <1>5, <1>6, <1>7, <1>8 DEF SchedInv

LEMMA ForkRunnableStep ==
  ASSUME SchedInv, NEW c \in CPU, NEW p \in Slot, ForkRunnable(c, p)
  PROVE  SchedInv'
<1> DEFINE q == arg[p]
<1>0. /\ cur[c] = p /\ swtch[p] = "no" /\ pc[p] = "setrunnable" /\ TypeOK
      /\ UNCHANGED <<parent, chan, plock, waitlock, cur, swtch, k>>
  BY DEF SchedInv, ForkRunnable, Runs
<1>a. /\ state' = [state EXCEPT ![q] = "RUNNABLE"]
      /\ pc' = [pc EXCEPT ![p] = "user"] /\ i' = [i EXCEPT ![p] = 1] /\ arg' = [arg EXCEPT ![p] = 0]
  BY DEF ForkRunnable, Return, Goto
<1>1. /\ q \in Slot /\ state[q] = "USED" /\ pc[q] = "user"
      /\ \A r \in Slot : pc[r] \in ForkPCs /\ arg[r] = q => r = p
  BY <1>0 DEF SchedInv, ForkInv, ForkPCs
<1> HIDE DEF q
<1>2. TypeOK'
  BY <1>0, <1>1, <1>a DEF TypeOK, States, PCs
<1>3. /\ pc'[p] = "user" /\ \A r \in Slot : r # p => pc'[r] = pc[r]
      /\ state'[q] = "RUNNABLE" /\ \A r \in Slot : r # q => state'[r] = state[r]
      /\ \A r \in Slot : r # p => arg'[r] = arg[r]
      /\ state[p] = "RUNNING" /\ \A r \in Slot : pc[r] \in ForkPCs => arg[r] # p
  BY <1>0, <1>1, <1>a, Running DEF TypeOK
<1>4. /\ \A r \in Slot : pc'[r] \in ForkPCs => pc[r] \in ForkPCs /\ r # p
      /\ \A r \in Slot : pc'[r] = "copy" <=> pc[r] = "copy"
      /\ pc'[p] \notin WaitLockPCs /\ pc[p] \notin WaitLockPCs
  BY <1>0, <1>3 DEF ForkPCs, WaitLockPCs
<1>5. swtch[q] = "off" /\ p # q
  BY <1>0, <1>1, <1>3 DEF SchedInv, TypeOK, CpuInv
<1>6. CpuInv' /\ LabelInv' /\ WaitlockInv'
  <2>1. pc[p] \in WaitLockPCs <=> waitlock = c
    BY <1>0, Running
  <2>2. /\ pc'[q] = "user" /\ waitlock' = waitlock /\ UNCHANGED <<cur, swtch>>
        /\ \A r \in Slot : plock'[r] = plock[r]
    BY <1>0, <1>1, <1>3, <1>5
  <2> QED
    BY <1>0, <1>1, <1>3, <1>4, <1>5, <2>1, <2>2, OffCpu
<1>7. PlockInv'
  <2>1. \A r \in Slot : pc[r] = "copy" => arg'[r] = arg[r]
    BY <1>0, <1>3
  <2> QED
    BY <1>0, <1>4, <2>1, PlockSame
<1>8. ForkInv'
  BY <1>1, <1>3, <1>4, ForkOthers
<1> QED
  BY <1>2, <1>6, <1>7, <1>8 DEF SchedInv

LEMMA WaitReapStep ==
  ASSUME SchedInv, NEW c \in CPU, NEW p \in Slot, WaitReap(c, p)
  PROVE  SchedInv'
<1> DEFINE q == i[p]
<1>0. /\ cur[c] = p /\ swtch[p] = "no" /\ pc[p] = "scan" /\ TypeOK
      /\ q \in Slot /\ plock[q] = NoCpu /\ state[q] = "ZOMBIE"
      /\ UNCHANGED <<cur, swtch, k>> /\ waitlock' = NoCpu
  BY DEF SchedInv, WaitReap, Runs, ChildAtRest, Free
<1>a. /\ state' = [state EXCEPT ![q] = "UNUSED"] /\ plock' = [plock EXCEPT ![q] = NoCpu]
      /\ pc' = [pc EXCEPT ![p] = "user"] /\ arg' = [arg EXCEPT ![p] = 0]
  BY DEF WaitReap, Freeproc, Return, Goto
<1>1. TypeOK'
  BY <1>0, FreeType DEF WaitReap
<1> HIDE DEF q
<1>2. /\ c # NoCpu /\ NoCpu \notin CPU /\ state[p] = "RUNNING" /\ waitlock = c
      /\ \A r \in Slot : pc[r] \in ForkPCs => arg[r] # p
  BY <1>0, Running, ProcAssumption DEF WaitLockPCs
<1>3. /\ pc'[p] = "user" /\ \A r \in Slot : r # p => pc'[r] = pc[r]
      /\ state'[q] = "UNUSED" /\ \A r \in Slot : r # q => state'[r] = state[r]
      /\ \A r \in Slot : r # p => arg'[r] = arg[r]
      /\ \A r \in Slot : plock'[r] = plock[r]
  BY <1>0, <1>a DEF TypeOK
<1>4. p # q /\ swtch[q] = "off" /\ \A r \in Slot : pc[r] \in ForkPCs => arg[r] # q
  BY <1>0, <1>2 DEF SchedInv, TypeOK, CpuInv, ForkInv
<1>5. /\ \A r \in Slot : pc'[r] \in ForkPCs => pc[r] \in ForkPCs /\ r # p
      /\ \A r \in Slot : pc'[r] = "copy" <=> pc[r] = "copy"
      /\ \A r \in Slot : pc[r] = "copy" => arg'[r] = arg[r]
      /\ pc'[p] \notin WaitLockPCs
  BY <1>0, <1>3 DEF ForkPCs, WaitLockPCs
<1>6. pc[q] = "dead" /\ pc'[q] = "dead"
  BY <1>0, <1>3, <1>4 DEF SchedInv, LabelInv
<1>7. CpuInv' /\ LabelInv' /\ WaitlockInv'
  BY <1>0, <1>2, <1>3, <1>4, <1>5, <1>6, OffCpu
<1>8. PlockInv'
  BY <1>0, <1>3, <1>5, PlockSame
<1>9. ForkInv'
  BY <1>0, <1>2, <1>3, <1>4, <1>5, ForkOthers
<1> QED
  BY <1>1, <1>7, <1>8, <1>9 DEF SchedInv

-----------------------------------------------------------------------------
(* The invariant, and what it gives *)

LEMMA SchedStutter ==
  ASSUME SchedInv, UNCHANGED vars
  PROVE  SchedInv'
<1>1. TypeOK'
  BY DEF SchedInv, TypeOK, vars
<1>2. CpuInv' /\ LabelInv'
  BY DEF SchedInv, CpuInv, LabelInv, vars
<1>3. PlockInv' /\ WaitlockInv'
  BY DEF SchedInv, PlockInv, WaitlockInv, vars
<1>4. ForkInv'
  BY DEF SchedInv, ForkInv, vars
<1> QED
  BY <1>1, <1>2, <1>3, <1>4 DEF SchedInv

LEMMA SchedNext ==
  ASSUME SchedInv, Next
  PROVE  SchedInv' /\ (panicked' = "zombie exit" => panicked = "zombie exit")
<1>1. ASSUME NEW c \in CPU, NEW p \in Slot,
             Schedule(c, p) \/ SwtchOut(c, p) \/ Yield(c, p) \/ Work(c, p) \/ User(c, p)
      PROVE  panicked' = "zombie exit" => panicked = "zombie exit"
  BY <1>1 DEF Schedule, SwtchOut, Yield, Work, User, Fork, DoExit, Wait, Kill, AllocScan,
       AllocNone, ForkFail, ForkCopy, ForkParent, ForkRunnable, ExitLock, Reparent, WakeInit,
       WakeParent, ExitZombie, WaitLock, WaitScan, WaitReap, WaitCopyoutFails, WaitGiveUp,
       WaitDecide, Sleep, KillScan, KillFound, KillNone, Exit, Fault, Syscall
<1>2. ASSUME NEW c \in CPU, NEW p \in Slot, Work(c, p)
      PROVE  SchedInv'
  <2>1. CASE Fork(c, p)
    BY <2>1, AllocStep, ForkFailStep, ForkCopyStep, ForkParentStep, ForkRunnableStep DEF Fork
  <2>2. CASE DoExit(c, p)
    BY <2>2, LockStep, ReparentStep, LeaveStep DEF DoExit
  <2>3. CASE Wait(c, p)
    BY <2>3, LockStep, ScanStep, WaitReapStep, LeaveStep DEF Wait
  <2>4. CASE Kill(c, p)
    BY <2>4, KillStep
  <2> QED
    BY <1>2, <2>1, <2>2, <2>3, <2>4 DEF Work
<1>3. CASE Halted
  BY <1>3, SchedStutter DEF Halted, vars
<1>4. CASE ~Halted
  BY <1>1, <1>2, <1>4, ScheduleStep, SwtchOutStep, SwtchInStep, LeaveStep, UserStep DEF Next
<1> QED
  BY <1>3, <1>4 DEF Halted, vars

\* The invariant of the scheduler holds in every state, and exit() never gets
\* back from sched().
THEOREM ProcSchedInv == Spec => [](SchedInv /\ panicked # "zombie exit")
<1>1. Init => SchedInv /\ panicked # "zombie exit"
  BY InitSched DEF Init
<1>2. SchedInv /\ panicked # "zombie exit" /\ [Next]_vars =>
        (SchedInv /\ panicked # "zombie exit")'
  <2>1. CASE UNCHANGED vars
    BY <2>1, SchedStutter DEF vars
  <2>2. CASE Next
    BY <2>2, SchedNext
  <2> QED
    BY <2>1, <2>2
<1> QED
  BY <1>1, <1>2, PTL DEF Spec

\* p->lock, handed over in scheduler() and sched(), keeps every kernel stack on
\* one CPU, for any number of CPUs and processes.
THEOREM ProcOneCpu == Spec => []OneCpu
<1>1. SchedInv => OneCpu
  <2> SUFFICES ASSUME SchedInv PROVE OneCpu
    OBVIOUS
  <2>1. ASSUME NEW p \in Slot, state[p] \in {"UNUSED", "USED", "SLEEPING"}, Free(p), NEW c \in CPU,
               cur[c] = p
        PROVE  FALSE
    <3>1. swtch[p] = "out"
      BY <2>1 DEF SchedInv, TypeOK, CpuInv
    <3> QED
      BY <2>1, <3>1, ProcAssumption DEF SchedInv, CpuInv, Free
  <2> QED
    BY <2>1 DEF SchedInv, CpuInv, OneCpu
<1> QED
  BY <1>1, ProcSchedInv, PTL

LEMMA Leaving ==
  ASSUME SchedInv, NEW c \in CPU, NEW p \in Slot, cur[c] = p, swtch[p] = "out"
  PROVE  /\ plock[p] = c
         /\ waitlock # c /\ \A q \in Slot \ {p} : plock[q] # c
         /\ state[p] # "RUNNING"
<1>1. c # NoCpu /\ CpuInv /\ PlockInv /\ WaitlockInv
  BY ProcAssumption DEF SchedInv
<1>2. plock[p] = c
  BY <1>1 DEF CpuInv
<1>3. state[p] # "RUNNING"
  BY <1>1 DEF CpuInv
<1>4. waitlock # c
  BY <1>1 DEF WaitlockInv
<1>5. ASSUME NEW q \in Slot \ {p}, plock[q] = c
      PROVE  FALSE
  <2>1. PICK x \in Slot : cur[c] = x /\ pc[x] = "copy"
    BY <1>1, <1>5 DEF PlockInv
  <2> QED
    BY <1>1, <2>1 DEF PlockInv
<1> QED
  BY <1>2, <1>3, <1>4, <1>5

\* The panics of sched() and the one after it in exit() are unreachable: who gives
\* up a CPU holds its own p->lock and no other spin lock, and is not RUNNING.
THEOREM ProcSchedAssertions == Spec => []SchedAssertions
<1>1. SchedInv /\ panicked # "zombie exit" => SchedAssertions
  BY Leaving DEF SchedAssertions
<1> QED
  BY <1>1, ProcSchedInv, PTL
=============================================================================

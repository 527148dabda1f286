----------------------------- MODULE LogProofs ------------------------------
(***************************************************************************)
(* The log implements the atomic disk, completed calls are durable, and    *)
(* calls that write no more than they reserved never run out of log, for   *)
(* any processes, blocks and contents and any size of the log, under       *)
(* crashes at every step.                                                  *)
(***************************************************************************)
EXTENDS LogInv

(* The buffer cache *)

\* A step of the cache changes what is cached, and nobody sees it.
LEMMA CacheStep ==
  ASSUME IInv, Running, NEW b \in Block, NEW v \in Val \cup {NotCached},
         cache' = [cache EXCEPT ![b] = v], Contents(b)' = Contents(b),
         UNCHANGED <<diskVars, pins, lh, outstanding, committing, pc, tail, boot, panicked>>
  PROVE  IInv' /\ [Abstract!Next]_(Abstract!vars)
<1> USE DEF diskVars
<1>1. \A c \in Block : Contents(c)' = Contents(c)
  BY DEF Contents, IInv, TypeOK
<1>2. Active' = Active /\ TypeOK'
  BY DEF IInv, TypeOK, Active
<1>3. CommitInv' /\ QuietInv' /\ PanicInv' /\ HeadInv' /\ PinInv'
  BY <1>2 DEF IInv, CommitInv, QuietInv, PanicInv, HeadInv, PinInv
<1>4. CacheInv' /\ BootInv'
  BY <1>1 DEF IInv, CacheInv, BootInv, Running
<1>5. \A i \in 1..Len(lh) : Contents(lh[i])' = Contents(lh[i])
  <2>1. \A i \in 1..Len(lh) : lh[i] \in Block
    BY DEF IInv, TypeOK, IsHeader
  <2> QED
    BY <1>1, <2>1 DEF Contents
<1>6. \A p \in Proc : PhaseInv(p)'
  BY <1>5 DEF IInv, PhaseInv, Logged, Installed, Pending
<1>7. Seen' = Seen
  BY <1>1, SameSeen DEF Running
<1>8. Recovered' = Recovered
  BY DEF Recovered
<1> QED
  BY <1>2, <1>3, <1>4, <1>6, <1>7, <1>8, Stutter DEF IInv

LEMMA BreadStep ==
  ASSUME IInv, NEW b \in Block, Bread(b)
  PROVE  IInv' /\ [Abstract!Next]_(Abstract!vars)
<1>1. disk[b] \in Val
  BY DEF IInv, TypeOK
<1>2. Contents(b)' = Contents(b)
  BY <1>1, ValAssumption DEF Bread, Contents, IInv, TypeOK, diskVars
<1> QED
  BY <1>1, <1>2, CacheStep DEF Bread

LEMMA RecycleStep ==
  ASSUME IInv, NEW b \in Block, Recycle(b)
  PROVE  IInv' /\ [Abstract!Next]_(Abstract!vars)
<1>1. Contents(b) = disk[b]
  BY DEF Recycle, Running, IInv, CacheInv
<1>2. Contents(b)' = disk[b]
  BY DEF Recycle, Contents, IInv, TypeOK, diskVars
<1> QED
  BY <1>1, <1>2, CacheStep DEF Recycle

-----------------------------------------------------------------------------
(* Crash and recovery *)

\* The block that a crash tears is one that recovery writes again or does not
\* read.
LEMMA CrashStep ==
  ASSUME IInv, Crash
  PROVE  IInv' /\ [Abstract!Next]_(Abstract!vars)
<1>t. TypeOK
  BY DEF IInv
<1>0. /\ head' = head /\ lh' = <<>> /\ tail' = 1 /\ boot' = "read_head" /\ panicked' = "no"
      /\ outstanding' = 0 /\ committing' = FALSE
      /\ pc' = [p \in Proc |-> "idle"]
      /\ cache' = [b \in Block |-> NotCached] /\ pins' = [b \in Block |-> 0]
  BY DEF Crash
<1>1. /\ disk' \in [Block -> Val]
      /\ \A b \in Block : b \notin Range(head) => disk'[b] = disk[b]
  <2>1. CASE disk' = disk
    BY <1>t, <2>1 DEF TypeOK
  <2>2. CASE /\ boot = "install" \/ \E p \in Proc : pc[p] = "install"
             /\ \E v \in Val : disk' = [disk EXCEPT ![lh[tail]] = v]
    <3>1. head = lh /\ tail \in 1..Len(lh)
      BY <2>2 DEF IInv, BootInv, PhaseInv
    <3>2. lh[tail] \in Block /\ lh[tail] \in Range(head)
      BY <1>t, <3>1 DEF TypeOK, IsHeader, Range
    <3> QED
      BY <1>t, <2>2, <3>2 DEF TypeOK
  <2> QED
    BY <2>1, <2>2 DEF Crash
<1>2. /\ logdisk' \in [LogSlots -> Val]
      /\ \A i \in 1..Len(head) : logdisk'[i] = logdisk[i]
  <2>1. CASE logdisk' = logdisk
    BY <1>t, <2>1 DEF TypeOK
  <2>2. CASE /\ \E p \in Proc : pc[p] = "write_log"
             /\ \E v \in Val : logdisk' = [logdisk EXCEPT ![tail] = v]
    <3>1. PICK p \in Proc : pc[p] = "write_log"
      BY <2>2
    <3>2. boot = "up" /\ \A q \in Proc : pc[q] \notin {"install", "clear"}
      BY <3>1 DEF IInv, CommitInv, Committing
    <3>3. head = <<>>
      BY <3>2 DEF IInv, HeadInv
    <3>4. \A i \in 1..Len(head) : FALSE
      BY <3>3, EmptyHeader
    <3>5. logdisk' \in [LogSlots -> Val]
      BY <1>t, <2>2 DEF TypeOK
    <3> QED
      BY <3>4, <3>5
  <2> QED
    BY <2>1, <2>2 DEF Crash
<1>3. Active' = {}
  BY <1>0 DEF Active
<1>4. TypeOK'
  <2>1. IsHeader(lh') /\ IsHeader(head')
    BY <1>t, <1>0, EmptyHeader DEF TypeOK
  <2>2. cache' \in [Block -> Val \cup {NotCached}] /\ pins' \in [Block -> Nat] /\ pc' \in [Proc -> PCs]
    BY <1>0 DEF PCs
  <2>3. outstanding' = Cardinality(Active)'
    BY <1>0, <1>3, FS_EmptySet
  <2>4. committing' \in BOOLEAN
    BY <1>0, Zenon
  <2>5. tail' \in Nat \ {0}
    BY <1>0
  <2>6. boot' \in {"read_head", "install", "clear", "up"}
    BY <1>0
  <2> QED
    BY <1>1, <1>2, <2>1, <2>2, <2>3, <2>4, <2>5, <2>6 DEF TypeOK
<1>5. CommitInv' /\ QuietInv' /\ PanicInv' /\ HeadInv' /\ PinInv' /\ BootInv'
  BY <1>0 DEF CommitInv, QuietInv, PanicInv, HeadInv, PinInv, BootInv, Committing
<1>6. CacheInv' /\ \A p \in Proc : PhaseInv(p)'
  BY <1>0 DEF CacheInv, Contents, PhaseInv
<1>7. Recovered' = Recovered
  <2>1. RecoveredFrom(head, logdisk', disk') = Recovered
    BY <1>t, <1>1, <1>2, RecoveredIs, SameRecovered DEF TypeOK
  <2> QED
    BY <1>0, <2>1, RecoveredIsNext
<1>8. Abstract!Crash
  BY <1>0, <1>3, <1>7 DEF Abstract!Crash, Seen, Active
<1> QED
  BY <1>4, <1>5, <1>6, <1>8 DEF IInv, Abstract!Next

\* Recovery moves no process.
LEMMA RecoveryInv ==
  ASSUME IInv, boot # "up", UNCHANGED <<pc, outstanding, committing, pins, panicked, logdisk>>,
         disk' \in [Block -> Val], IsHeader(head'), IsHeader(lh'),
         cache' \in [Block -> Val \cup {NotCached}], tail' \in Nat \ {0},
         boot' \in {"install", "clear", "up"},
         boot' # "up" => BootInv', boot' = "up" => lh' = <<>> /\ head' = <<>>,
         \A b \in Block : Contents(b)' = disk'[b], Recovered' = Recovered,
         boot' = "up" => disk' = Recovered
  PROVE  IInv' /\ [Abstract!Next]_(Abstract!vars)
<1>1. /\ outstanding = 0 /\ ~committing /\ panicked = "no" /\ pc = [p \in Proc |-> "idle"]
      /\ \A b \in Block : pins[b] = 0
  BY DEF IInv, BootInv
<1>2. Active' = Active
  BY DEF Active
<1>3. TypeOK'
  BY <1>2 DEF IInv, TypeOK
<1>4. CommitInv' /\ PanicInv' /\ QuietInv' /\ HeadInv' /\ BootInv'
  BY <1>1 DEF CommitInv, PanicInv, QuietInv, HeadInv, BootInv, Committing
<1>5. PinInv'
  <2>1. \A i \in 1..Len(<<>>) : FALSE
    OBVIOUS
  <2> QED
    BY <1>1, <2>1 DEF PinInv
<1>6. CacheInv'
  BY DEF CacheInv
<1>7. \A p \in Proc : PhaseInv(p)'
  BY <1>1 DEF PhaseInv
<1>8. Seen' = Seen
  <2>1. CASE boot' = "up"
    <3>1. Seen' = [b \in Block |-> disk'[b]]
      BY <2>1 DEF Seen
    <3> QED
      BY <2>1, <3>1 DEF Seen
  <2>2. CASE boot' # "up"
    BY <2>2 DEF Seen
  <2> QED
    BY <2>1, <2>2
<1> QED
  BY <1>2, <1>3, <1>4, <1>5, <1>6, <1>7, <1>8, Stutter DEF IInv

LEMMA RecoverStep ==
  ASSUME IInv, Recover
  PROVE  IInv' /\ [Abstract!Next]_(Abstract!vars)
<1>t. TypeOK
  BY DEF IInv
<1>0. boot # "up"
  BY DEF Recover, ReadHead, RecoverTrans, RecoverClear
<1>1. /\ \A b \in Block : pins[b] = 0 /\ Contents(b) = disk[b]
      /\ outstanding = 0 /\ ~committing /\ panicked = "no" /\ pc = [p \in Proc |-> "idle"]
  BY <1>0 DEF IInv, BootInv, CacheInv
<1>2. CASE ReadHead
  <2>0. /\ lh' = head /\ tail = 1 /\ boot' = IF head = <<>> THEN "clear" ELSE "install"
        /\ UNCHANGED <<disk, logdisk, head, cache, pins, outstanding, committing, pc, tail, panicked>>
    BY <1>2 DEF ReadHead, diskVars, IInv, BootInv
  <2>1. BootInv'
    <3>1. head # <<>> => 1 \in 1..Len(head)
      BY <1>t DEF TypeOK, IsHeader
    <3>2. head = <<>> => Len(head) = 0
      OBVIOUS
    <3> QED
      BY <1>1, <2>0, <3>1, <3>2 DEF BootInv, Installed
  <2>2. Recovered' = Recovered
    BY <2>0 DEF Recovered
  <2>3. \A b \in Block : Contents(b)' = disk'[b]
    BY <1>1, <2>0 DEF Contents
  <2>4. boot' # "up" /\ boot' \in {"install", "clear", "up"}
    BY <2>0
  <2> QED
    BY <1>t, <1>0, <2>0, <2>1, <2>2, <2>3, <2>4, RecoveryInv DEF TypeOK
<1>3. CASE RecoverTrans
  <2>0. /\ boot = "install" /\ InstallOne /\ boot' = IF tail = Len(lh) THEN "clear" ELSE "install"
        /\ UNCHANGED <<logdisk, head, pins, lh, outstanding, committing, pc, panicked>>
    BY <1>3 DEF RecoverTrans
  <2>1. lh = head /\ tail \in 1..Len(lh) /\ Installed(tail) /\ Len(lh) \in Nat
    BY <1>t, <2>0 DEF IInv, BootInv, TypeOK, IsHeader
  <2>2. /\ disk' \in [Block -> Val] /\ cache' \in [Block -> Val \cup {NotCached}]
        /\ tail' \in Nat \ {0} /\ lh[tail] \in Block
        /\ \A b \in Block : b = lh[tail] => disk'[b] = logdisk[tail] /\ Contents(b)' = logdisk[tail]
        /\ \A b \in Block : b # lh[tail] => disk'[b] = disk[b] /\ Contents(b)' = Contents(b)
        /\ \A i \in 1..Len(lh) : lh[i] \in Block /\ (lh[i] = lh[tail] => i = tail)
        /\ Recovered' = Recovered
    BY <1>t, <2>0, <2>1, InstallRound
  <2>3. \A b \in Block : Contents(b)' = disk'[b]
    BY <1>1, <2>2
  <2>4. \A i \in 1..Len(lh) : i < tail + 1 => disk'[lh[i]] = logdisk[i] /\ pins[lh[i]] = 0
    <3>1. ASSUME NEW i \in 1..Len(lh), i < tail + 1
          PROVE  disk'[lh[i]] = logdisk[i] /\ pins[lh[i]] = 0
      <4>1. CASE i = tail
        BY <1>1, <2>2, <4>1
      <4>2. CASE i # tail
        <5>1. i < tail /\ lh[i] # lh[tail] /\ lh[i] \in Block
          BY <2>1, <2>2, <3>1, <4>2
        <5> QED
          BY <1>1, <2>1, <2>2, <5>1 DEF Installed
      <4> QED
        BY <4>1, <4>2
    <3> QED
      BY <3>1
  <2>5. BootInv'
    <3>1. CASE tail = Len(lh)
      BY <1>1, <2>0, <2>1, <2>4, <3>1 DEF BootInv, Installed
    <3>2. CASE tail # Len(lh)
      <4>1. tail' = tail + 1 /\ tail' \in 1..Len(lh) /\ boot' = "install"
        BY <2>0, <2>1, <3>2 DEF InstallOne
      <4> QED
        BY <1>1, <2>0, <2>1, <2>4, <4>1 DEF BootInv, Installed
    <3> QED
      BY <3>1, <3>2
  <2>6. boot' # "up" /\ boot' \in {"install", "clear", "up"}
    BY <2>0
  <2>7. IsHeader(head') /\ IsHeader(lh')
    BY <1>t, <2>0 DEF TypeOK
  <2> QED
    BY <1>0, <2>0, <2>2, <2>3, <2>5, <2>6, <2>7, RecoveryInv
<1>4. CASE RecoverClear
  <2>0. /\ boot = "clear" /\ lh' = <<>> /\ head' = <<>> /\ boot' = "up"
        /\ UNCHANGED <<disk, logdisk, cache, pins, outstanding, committing, pc, tail, panicked>>
    BY <1>4 DEF RecoverClear
  <2>1. lh = head /\ Installed(Len(lh) + 1)
    BY <2>0 DEF IInv, BootInv
  <2>2. Recovered = disk
    BY <1>t, <1>1, <2>1, AllInstalled
  <2>3. Recovered' = Recovered
    BY <1>t, <2>0, <2>2, RecoveredIsNext, EmptyHeader DEF TypeOK
  <2>4. \A b \in Block : Contents(b)' = disk'[b]
    BY <1>1, <2>0 DEF Contents
  <2> QED
    BY <1>t, <1>0, <2>0, <2>2, <2>3, <2>4, EmptyHeader, RecoveryInv DEF TypeOK
<1> QED
  BY <1>2, <1>3, <1>4 DEF Recover

-----------------------------------------------------------------------------
(* The theorems *)

LEMMA NextStep ==
  ASSUME IInv, [Next]_vars
  PROVE  IInv' /\ [Abstract!Next]_(Abstract!vars)
<1>1. CASE UNCHANGED vars
  <2>0. UNCHANGED <<disk, logdisk, head, cache, pins, lh, outstanding, committing, pc, tail, boot, panicked>>
    BY <1>1 DEF vars
  <2>1. TypeOK' /\ CommitInv' /\ QuietInv' /\ PanicInv' /\ HeadInv' /\ PinInv'
    BY <2>0 DEF IInv, TypeOK, CommitInv, QuietInv, PanicInv, HeadInv, PinInv, Active
  <2>2. CacheInv' /\ BootInv'
    BY <2>0 DEF IInv, CacheInv, BootInv, Installed, Contents
  <2>3. \A p \in Proc : PhaseInv(p)'
    BY <2>0 DEF IInv, PhaseInv, Logged, Installed, Pending, Contents
  <2>4. Seen' = Seen
    BY <2>0 DEF Seen, Recovered, Contents
  <2>5. Recovered' = Recovered /\ Active' = Active
    BY <2>0 DEF Recovered, Active
  <2> QED
    BY <2>1, <2>2, <2>3, <2>4, <2>5, Stutter DEF IInv
<1>2. ASSUME NEW p \in Proc, Commit(p) PROVE IInv' /\ [Abstract!Next]_(Abstract!vars)
  BY <1>2, WriteLogStep, WriteHeadStep, InstallTransStep, ClearHeadStep, EndCommitStep DEF Commit
<1> QED
  BY <1>1, <1>2, BeginOpStep, EndOpStep, LogWriteStep, BreadStep, RecycleStep, CrashStep,
     RecoverStep DEF Next

\* begin_op(), log_write(), end_op(), commit() and recovery implement the atomic
\* disk, whatever number of processes and blocks there is, however large the log
\* is and whether or not calls keep to the number of blocks they may write, and
\* whenever the machine crashes.
THEOREM LogImplements == Spec => Implements
<1>1. Init => IInv /\ Abstract!Init
  BY InitInv
<1>2. IInv /\ [Next]_vars => IInv' /\ [Abstract!Next]_(Abstract!vars)
  BY NextStep
<1> QED
  BY <1>1, <1>2, PTL DEF Spec, Implements, Abstract!Spec

\* The system calls that have returned from end_op() are on disk, or in a log
\* that recovery will copy there, as soon as no other call is in progress.
THEOREM LogDurable == Spec => []CompletedCallsDurable
<1>1. Init => IInv
  BY InitInv
<1>2. IInv /\ [Next]_vars => IInv'
  BY NextStep
<1>3. IInv => CompletedCallsDurable
  <2> SUFFICES ASSUME IInv, boot = "up", outstanding = 0, ~committing
               PROVE  Seen = Recovered
    BY DEF CompletedCallsDurable
  <2>1. Active = {}
    BY FiniteActive DEF IInv, TypeOK
  <2>2. panicked = "no" /\ lh = <<>>
    BY <2>1 DEF IInv, PanicInv, QuietInv
  <2>3. \A p \in Proc : pc[p] \notin Committing
    BY DEF IInv, CommitInv
  <2>4. head = <<>>
    BY <2>3 DEF IInv, HeadInv, Committing
  <2>5. \A b \in Block : Contents(b) = disk[b]
    BY <2>2, EmptyHeader DEF IInv, PinInv, CacheInv
  <2>6. Recovered = disk /\ disk = [b \in Block |-> disk[b]]
    BY <2>4, RecoveredIs, EmptyHeader DEF IInv, TypeOK
  <2> QED
    BY <2>5, <2>6 DEF Seen
<1> QED
  BY <1>1, <1>2, <1>3, PTL DEF Spec

-----------------------------------------------------------------------------
(* The reservation of begin_op() *)

\* A credit for every block that a call in progress may still add.
Credits == {c \in Active \X (1..OpBlocks) : c[2] > Cardinality(touched[c[1]])}

\* The transaction and the credits fit: either one call began with an empty
\* log, or begin_op() found space for two calls or more, MAXOPBLOCKS each.
Room(len, credits) ==
  \/ len + credits <= OpBlocks
  \/ len + credits + 2 * (MAXOPBLOCKS - OpBlocks) <= LOGSIZE

ReserveInv ==
  /\ \A p \in Proc : /\ IsFiniteSet(touched[p]) /\ touched[p] \subseteq Range(lh)
                     /\ p \notin Active => touched[p] = {}
  /\ touched = [p \in Proc |-> touched[p]]
  /\ Active # {} => Room(Len(lh), Cardinality(Credits))
  /\ panicked = "no"

LEMMA CreditsFinite ==
  /\ IsFiniteSet(Credits) /\ Cardinality(Credits) \in Nat
  /\ Cardinality(Credits) <= Cardinality(Active) * OpBlocks
<1>1. IsFiniteSet(1..OpBlocks) /\ Cardinality(1..OpBlocks) = OpBlocks
  BY SizeAssumption, FS_Interval
<1>2. /\ IsFiniteSet(Active \X (1..OpBlocks))
      /\ Cardinality(Active \X (1..OpBlocks)) = Cardinality(Active) * OpBlocks
  BY <1>1, FiniteActive, FS_Product
<1>3. Credits \subseteq Active \X (1..OpBlocks)
  BY DEF Credits
<1>4. IsFiniteSet(Credits) /\ Cardinality(Credits) <= Cardinality(Active \X (1..OpBlocks))
  BY <1>2, <1>3, FS_Subset
<1> QED
  BY <1>2, <1>4, FS_CardinalityType

\* The same of the next state.
LEMMA CreditsFiniteNext ==
  /\ IsFiniteSet(Credits') /\ Cardinality(Credits') \in Nat
  /\ Cardinality(Credits') <= Cardinality(Active') * OpBlocks
<1>0. IsFiniteSet(Active') /\ Cardinality(Active') \in Nat
  BY ProcAssumption, FS_Subset, FS_CardinalityType DEF Active
<1>1. IsFiniteSet(1..OpBlocks) /\ Cardinality(1..OpBlocks) = OpBlocks
  BY SizeAssumption, FS_Interval
<1>2. /\ IsFiniteSet(Active' \X (1..OpBlocks))
      /\ Cardinality(Active' \X (1..OpBlocks)) = Cardinality(Active') * OpBlocks
  BY <1>0, <1>1, FS_Product
<1>3. Credits' \subseteq Active' \X (1..OpBlocks)
  BY DEF Credits
<1>4. IsFiniteSet(Credits') /\ Cardinality(Credits') <= Cardinality(Active' \X (1..OpBlocks))
  BY <1>2, <1>3, FS_Subset
<1> QED
  BY <1>2, <1>4, FS_CardinalityType

\* The arithmetic of begin_op(): with k calls after this one, and room for each
\* to write MAXOPBLOCKS blocks.
LEMMA Reservation ==
  ASSUME NEW len \in Nat, NEW k \in Nat, NEW max \in Nat, NEW op \in Nat, NEW size \in Nat,
         op < max, k >= 2, len + k * max <= size
  PROVE  len + k * op + 2 * (max - op) <= size
<1>1. (k - 2) * (max - op) >= 0
  OBVIOUS
<1>2. (k - 2) * (max - op) = k * max - k * op - 2 * (max - op)
  OBVIOUS
<1> QED
  BY <1>1, <1>2

LEMMA RoomKept ==
  ASSUME NEW len \in Nat, NEW c \in Nat, NEW len2 \in Nat, NEW c2 \in Nat,
         len2 + c2 <= len + c, Room(len, c)
  PROVE  Room(len2, c2)
  BY SizeAssumption DEF Room

LEMMA TooBigNever ==
  ASSUME CallsFit, IInv, ReserveInv, Active # {}
  PROVE  ~TooBig
<1>1. Len(lh) \in Nat /\ Cardinality(Credits) \in Nat
  BY CreditsFinite DEF IInv, TypeOK, IsHeader
<1>2. \/ Len(lh) <= OpBlocks
      \/ Len(lh) + 2 * (MAXOPBLOCKS - OpBlocks) <= LOGSIZE
  BY <1>1, SizeAssumption DEF ReserveInv, Room
<1> QED
  BY <1>1, <1>2, SizeAssumption DEF CallsFit, TooBig

\* A step that changes no call in progress and empties the transaction only
\* when there is none.
LEMMA ReserveKept ==
  ASSUME ReserveInv, Active' = Active, touched' = touched, panicked' = panicked,
         lh' = lh \/ Active = {}
  PROVE  ReserveInv'
<1>1. Credits' = Credits
  BY DEF Credits
<1>2. CASE lh' = lh
  BY <1>1, <1>2 DEF ReserveInv
<1>3. CASE Active = {}
  BY <1>1, <1>3 DEF ReserveInv
<1> QED
  BY <1>2, <1>3

LEMMA ReserveBegin ==
  ASSUME CallsFit, IInv, ReserveInv, NEW p \in Proc, BeginOp(p)
  PROVE  ReserveInv'
<1>0. /\ boot = "up" /\ p \notin Active
      /\ touched' = touched /\ panicked' = panicked /\ lh' = lh /\ TypeOK
  BY DEF BeginOp, Running, Active, IInv
<1>1. CASE pc' = [pc EXCEPT ![p] = "asleep"]
  <2>1. Active' = Active
    BY <1>0, <1>1 DEF Active, TypeOK
  <2> QED
    BY <1>0, <2>1, ReserveKept
<1>2. CASE ~committing /\ ~NoSpace /\ pc' = [pc EXCEPT ![p] = "op"]
  <2>1. Active' = Active \cup {p}
    BY <1>0, <1>2 DEF Active, TypeOK
  <2>2. outstanding \in Nat /\ outstanding = Cardinality(Active) /\ Len(lh) \in Nat
    BY <1>0, FiniteActive DEF TypeOK, IsHeader
  <2>3. Cardinality(Active') = outstanding + 1
    BY <1>0, <2>1, <2>2, FiniteActive, FS_AddElement
  <2>4. Cardinality(Credits') \in Nat /\ Cardinality(Credits') <= (outstanding + 1) * OpBlocks
    BY <2>3, CreditsFiniteNext
  <2>5. CASE outstanding = 0
    <3>1. Active = {}
      BY <2>2, <2>5, FiniteActive
    <3>2. Len(lh) = 0
      BY <1>0, <1>2, <3>1, EmptyHeader DEF IInv, QuietInv
    <3>3. Room(Len(lh), Cardinality(Credits'))
      BY <2>4, <2>5, <3>2, SizeAssumption DEF Room
    <3> QED
      BY <1>0, <2>1, <3>3 DEF ReserveInv
  <2>6. CASE outstanding # 0
    <3>1. Len(lh) + (outstanding + 1) * MAXOPBLOCKS <= LOGSIZE
      BY <1>2, <2>2, SizeAssumption DEF NoSpace
    <3>2. Len(lh) + (outstanding + 1) * OpBlocks + 2 * (MAXOPBLOCKS - OpBlocks) <= LOGSIZE
      <4>1. outstanding + 1 \in Nat /\ outstanding + 1 >= 2
        BY <2>2, <2>6
      <4>2. /\ OpBlocks < MAXOPBLOCKS
            /\ OpBlocks \in Nat /\ MAXOPBLOCKS \in Nat /\ LOGSIZE \in Nat
        BY SizeAssumption DEF CallsFit
      <4> QED
        BY <2>2, <3>1, <4>1, <4>2, Reservation
    <3>3. Room(Len(lh), Cardinality(Credits'))
      BY <2>2, <2>4, <3>2, SizeAssumption DEF Room
    <3> QED
      BY <1>0, <2>1, <3>3 DEF ReserveInv
  <2> QED
    BY <2>5, <2>6
<1> QED
  BY <1>1, <1>2 DEF BeginOp

\* A new block turns a credit into a block of the transaction.
LEMMA ReserveWrite ==
  ASSUME CallsFit, IInv, ReserveInv, NEW p \in Proc, NEW b \in Block, NEW v \in Val,
         LogWrite(p, b, v)
  PROVE  ReserveInv'
<1>0. /\ boot = "up" /\ p \in Active /\ Active' = Active
      /\ touched' = [touched EXCEPT ![p] = @ \cup {b}]
      /\ Cardinality(touched[p] \cup {b}) <= OpBlocks
      /\ TypeOK
  BY DEF LogWrite, At, Running, Active, IInv
<1>1. ~(outstanding < 1)
  BY <1>0, FiniteActive DEF TypeOK
<1>2. ~TooBig
  BY <1>0, TooBigNever
<1>3. panicked' = "no"
  BY <1>1, <1>2 DEF LogWrite, ReserveInv
<1>4. Len(lh) \in Nat /\ Cardinality(Credits) \in Nat /\ Cardinality(Credits') \in Nat
  BY <1>0, CreditsFinite, CreditsFiniteNext DEF TypeOK, IsHeader
<1>5. /\ IsFiniteSet(touched[p]) /\ Cardinality(touched[p]) \in Nat
      /\ IsFiniteSet(touched[p] \cup {b}) /\ Cardinality(touched[p] \cup {b}) \in Nat
      /\ Cardinality(touched[p] \cup {b}) =
           IF b \in touched[p] THEN Cardinality(touched[p]) ELSE Cardinality(touched[p]) + 1
  BY FS_AddElement, FS_CardinalityType DEF ReserveInv
<1>6. /\ touched'[p] = touched[p] \cup {b}
      /\ \A q \in Proc : q # p => touched'[q] = touched[q]
      /\ touched' = [q \in Proc |-> touched'[q]]
  BY <1>0 DEF ReserveInv
<1>7. CASE b \in Range(lh)
  <2>1. lh' = lh
    BY <1>7 DEF LogWrite
  <2>2. Credits' \subseteq Credits
    BY <1>0, <1>5, <1>6 DEF Credits, Active
  <2>3. Cardinality(Credits') <= Cardinality(Credits)
    BY <2>2, CreditsFinite, FS_Subset
  <2>4. \A q \in Proc : /\ IsFiniteSet(touched'[q]) /\ touched'[q] \subseteq Range(lh')
                        /\ q \notin Active' => touched'[q] = {}
    BY <1>0, <1>5, <1>6, <1>7, <2>1 DEF ReserveInv
  <2>5. Room(Len(lh'), Cardinality(Credits'))
    BY <1>0, <1>4, <2>1, <2>3, RoomKept DEF ReserveInv
  <2> QED
    BY <1>3, <1>6, <2>4, <2>5 DEF ReserveInv
<1>8. CASE b \notin Range(lh)
  <2>1. lh' = Append(lh, b)
    BY <1>2, <1>8 DEF LogWrite
  <2>2. Len(lh) < NLOG - 1
    BY <1>2, <1>4, SizeAssumption DEF TooBig
  <2>3. Range(lh) \subseteq Range(lh') /\ b \in Range(lh')
    BY <1>0, <1>8, <2>1, <2>2, AppendHeader DEF TypeOK
  <2>4. Len(lh') = Len(lh) + 1
    BY <1>0, <2>1 DEF TypeOK, IsHeader
  <2> DEFINE c == <<p, Cardinality(touched[p]) + 1>>
  <2>5. b \notin touched[p]
    BY <1>8 DEF ReserveInv
  <2>6. c \in Credits
    BY <1>0, <1>5, <2>5, SizeAssumption DEF Credits
  <2>7. Credits' \subseteq Credits \ {c}
    BY <1>0, <1>5, <1>6, <2>5 DEF Credits, Active
  <2>8. IsFiniteSet(Credits \ {c}) /\ Cardinality(Credits \ {c}) = Cardinality(Credits) - 1
    BY <2>6, CreditsFinite, FS_RemoveElement
  <2>9. Cardinality(Credits') <= Cardinality(Credits) - 1
    BY <2>7, <2>8, FS_Subset
  <2>10. \A q \in Proc : /\ IsFiniteSet(touched'[q]) /\ touched'[q] \subseteq Range(lh')
                         /\ q \notin Active' => touched'[q] = {}
    BY <1>0, <1>5, <1>6, <2>3 DEF ReserveInv
  <2>11. Room(Len(lh'), Cardinality(Credits'))
    BY <1>0, <1>4, <2>4, <2>9, RoomKept DEF ReserveInv
  <2> QED
    BY <1>3, <1>6, <2>10, <2>11 DEF ReserveInv
<1> QED
  BY <1>7, <1>8

LEMMA ReserveEnd ==
  ASSUME IInv, ReserveInv, NEW p \in Proc, EndOp(p)
  PROVE  ReserveInv'
<1>0. /\ p \in Active /\ lh' = lh /\ TypeOK
      /\ touched' = [touched EXCEPT ![p] = {}]
  BY DEF EndOp, At, Active, IInv
<1>1. panicked' = "no"
  BY <1>0 DEF EndOp, ReserveInv, IInv, CommitInv
<1>2. Active' = Active \ {p}
  BY <1>0 DEF EndOp, Active, TypeOK, Wakeup, CommitStart
<1>3. \A q \in Proc : touched'[q] = IF q = p THEN {} ELSE touched[q]
  BY <1>0 DEF ReserveInv
<1>4. touched' = [q \in Proc |-> touched'[q]]
  BY <1>0 DEF ReserveInv
<1>5. Credits' \subseteq Credits
  BY <1>2, <1>3 DEF Credits, Active
<1>6. /\ Cardinality(Credits') <= Cardinality(Credits)
      /\ Cardinality(Credits) \in Nat /\ Cardinality(Credits') \in Nat /\ Len(lh) \in Nat
  BY <1>0, <1>5, CreditsFinite, CreditsFiniteNext, FS_Subset DEF TypeOK, IsHeader
<1>7. Room(Len(lh'), Cardinality(Credits'))
  BY <1>0, <1>6, RoomKept DEF ReserveInv
<1>8. \A q \in Proc : /\ IsFiniteSet(touched'[q]) /\ touched'[q] \subseteq Range(lh')
                      /\ q \notin Active' => touched'[q] = {}
  BY <1>0, <1>2, <1>3, FS_EmptySet DEF ReserveInv
<1> QED
  BY <1>1, <1>4, <1>7, <1>8 DEF ReserveInv

LEMMA ReserveNext ==
  ASSUME CallsFit, IInv, ReserveInv, [Next]_vars
  PROVE  ReserveInv'
<1>t. TypeOK
  BY DEF IInv
<1>1. CASE UNCHANGED vars
  BY <1>1, ReserveKept DEF vars, Active
<1>2. ASSUME NEW p \in Proc, Commit(p) PROVE ReserveInv'
  <2>1. pc[p] \in Committing /\ touched' = touched /\ panicked' = panicked
    BY <1>2 DEF Commit, WriteLog, WriteHead, InstallTrans, ClearHead, EndCommit, At, Committing
  <2>2. Active = {}
    BY <2>1 DEF IInv, CommitInv
  <2>3. Active' = {}
    <3>1. ASSUME NEW q \in Proc PROVE pc'[q] # "op"
      BY <1>2, <1>t, <2>2 DEF Commit, WriteLog, WriteHead, InstallTrans, ClearHead, EndCommit,
         TypeOK, Active, Wakeup
    <3> QED
      BY <3>1 DEF Active
  <2> QED
    BY <2>1, <2>2, <2>3, ReserveKept
<1>3. CASE \E b \in Block : Bread(b) \/ Recycle(b)
  BY <1>3, ReserveKept DEF Bread, Recycle, Active
<1>4. CASE Crash
  <2>1. panicked' = "no" /\ touched' = [p \in Proc |-> {}] /\ Active' = {}
    BY <1>4 DEF Crash, Active
  <2> QED
    BY <2>1, FS_EmptySet DEF ReserveInv
<1>5. CASE Recover
  <2>1. boot # "up" /\ touched' = touched /\ panicked' = panicked /\ pc' = pc
    BY <1>5 DEF Recover, ReadHead, RecoverTrans, RecoverClear
  <2>2. Active = {} /\ Active' = Active
    BY <2>1 DEF IInv, BootInv, Active
  <2> QED
    BY <2>1, <2>2, ReserveKept
<1> QED
  BY <1>1, <1>2, <1>3, <1>4, <1>5, ReserveBegin, ReserveWrite, ReserveEnd DEF Next

\* The reservation that begin_op() makes is enough: as long as a call writes
\* fewer than MAXOPBLOCKS blocks (CallsFit) log_write() and end_op() never panic,
\* for any number of processes and any interleaving of their calls, absorbed
\* writes, commits and crashes.
THEOREM LogNoPanic ==
  ASSUME CallsFit
  PROVE  Spec => []NoPanic
<1>1. Init => IInv /\ ReserveInv
  <2> SUFFICES ASSUME Init PROVE IInv /\ ReserveInv
    OBVIOUS
  <2>1. Active = {} /\ touched = [p \in Proc |-> {}] /\ panicked = "no"
    BY DEF Init, Active
  <2> QED
    BY <2>1, InitInv, FS_EmptySet DEF ReserveInv
<1>2. IInv /\ ReserveInv /\ [Next]_vars => IInv' /\ ReserveInv'
  BY NextStep, ReserveNext
<1>3. ReserveInv => NoPanic
  BY DEF ReserveInv, NoPanic
<1> QED
  BY <1>1, <1>2, <1>3, PTL DEF Spec
=============================================================================

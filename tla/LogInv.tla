------------------------------- MODULE LogInv -------------------------------
(***************************************************************************)
(* The inductive invariant of the log, how its state looks to the          *)
(* atomic disk, and the steps of a system call and of commit(): each       *)
(* preserves the invariant, and only the write of the header changes what  *)
(* a crash leaves behind.                                                  *)
(***************************************************************************)
EXTENDS Log, FiniteSetTheorems, TLAPS

PCs == {"idle", "asleep", "begin", "op", "write_log", "write_head", "install", "clear", "done"}
Committing == {"write_log", "write_head", "install", "clear", "done"}
Active == {p \in Proc : pc[p] = "op"}

\* A header: different blocks, as many as fit the log on disk.
IsHeader(s) ==
  /\ s \in Seq(Block) /\ Len(s) <= NLOG - 1
  /\ \A i, j \in 1..Len(s) : s[i] = s[j] => i = j

TypeOK ==
  /\ disk \in [Block -> Val] /\ logdisk \in [LogSlots -> Val]
  /\ IsHeader(head) /\ IsHeader(lh)
  /\ cache \in [Block -> Val \cup {NotCached}]
  /\ pins \in [Block -> Nat]
  /\ outstanding = Cardinality(Active)
  /\ committing \in BOOLEAN
  /\ pc \in [Proc -> PCs]
  /\ tail \in Nat \ {0}
  /\ boot \in {"read_head", "install", "clear", "up"}

\* One process commits at a time, and no call is active meanwhile.
CommitInv ==
  /\ committing => Active = {}
  /\ \A p, q \in Proc : pc[p] \in Committing =>
       boot = "up" /\ committing /\ (pc[q] \in Committing => q = p)

\* Between commits the transaction is empty unless a call is active.
QuietInv == boot = "up" /\ Active = {} /\ ~committing => lh = <<>>

\* Only a call in progress panics.
PanicInv == panicked # "no" => boot = "up" /\ Active # {}

\* The header on disk lists blocks only from write_head() on.
HeadInv ==
  boot = "up" /\ (\A p \in Proc : pc[p] \notin {"install", "clear"}) => head = <<>>

\* The buffers of the transaction are pinned until they are installed.
PinInv ==
  /\ \A b \in Block : b \notin Range(lh) => pins[b] = 0
  /\ boot = "up" /\ (\A p \in Proc : pc[p] \notin {"install", "clear"}) =>
       \A i \in 1..Len(lh) : pins[lh[i]] = 1

\* A buffer that may be recycled agrees with the disk.
CacheInv ==
  panicked = "no" => \A b \in Block : pins[b] = 0 => Contents(b) = disk[b]

\* The first n blocks of the transaction are in the log.
Logged(n) == \A i \in 1..Len(lh) : i < n => logdisk[i] = Contents(lh[i])

\* The first n blocks of the transaction are in their place.
Installed(n) == \A i \in 1..Len(lh) : i < n => disk[lh[i]] = logdisk[i] /\ pins[lh[i]] = 0

\* The others are still pinned.
Pending(n) == \A i \in 1..Len(lh) : i >= n => pins[lh[i]] = 1

\* How far the commit of process p is.
PhaseInv(p) ==
  /\ pc[p] = "write_log" => tail \in 1..Len(lh) /\ Logged(tail)
  /\ pc[p] = "write_head" => tail = 1 /\ lh # <<>> /\ Logged(Len(lh) + 1)
  /\ pc[p] = "install" =>
       /\ head = lh /\ tail \in 1..Len(lh)
       /\ Logged(Len(lh) + 1) /\ Installed(tail) /\ Pending(tail)
  /\ pc[p] = "clear" => head = lh /\ Logged(Len(lh) + 1) /\ Installed(Len(lh) + 1)
  /\ pc[p] = "done" => lh = <<>>

\* How far recovery is.
BootInv ==
  boot # "up" =>
    /\ outstanding = 0 /\ ~committing /\ panicked = "no"
    /\ pc = [p \in Proc |-> "idle"]
    /\ \A b \in Block : pins[b] = 0
    /\ boot = "read_head" => lh = <<>> /\ tail = 1
    /\ boot = "install" => lh = head /\ tail \in 1..Len(lh) /\ Installed(tail)
    /\ boot = "clear" => lh = head /\ Installed(Len(lh) + 1)

IInv ==
  /\ TypeOK /\ CommitInv /\ QuietInv /\ PanicInv /\ HeadInv
  /\ PinInv /\ CacheInv /\ BootInv
  /\ \A p \in Proc : PhaseInv(p)

-----------------------------------------------------------------------------
(* The abstract state *)

\* Recovered as a function of what it depends on.
RecoveredFrom(h, ld, d) ==
  [b \in Block |-> IF b \in Range(h) THEN ld[CHOOSE i \in DOMAIN h : h[i] = b] ELSE d[b]]

LEMMA RecoveredIs == Recovered = RecoveredFrom(head, logdisk, disk)
  BY DEF Recovered, RecoveredFrom

LEMMA RecoveredIsNext == Recovered' = RecoveredFrom(head', logdisk', disk')
  BY DEF Recovered, RecoveredFrom

\* What the header lists comes from the log, the rest from its place.
LEMMA RecoveredValue ==
  ASSUME NEW h, IsHeader(h), NEW ld, NEW d
  PROVE  /\ \A i \in 1..Len(h) : h[i] \in Block /\ RecoveredFrom(h, ld, d)[h[i]] = ld[i]
         /\ \A b \in Block : b \notin Range(h) => RecoveredFrom(h, ld, d)[b] = d[b]
<1>1. DOMAIN h = 1..Len(h) /\ h \in [1..Len(h) -> Block]
  BY DEF IsHeader
<1>2. ASSUME NEW i \in 1..Len(h) PROVE h[i] \in Block /\ RecoveredFrom(h, ld, d)[h[i]] = ld[i]
  <2>1. (CHOOSE j \in DOMAIN h : h[j] = h[i]) = i
    BY <1>1 DEF IsHeader
  <2>2. h[i] \in Block /\ h[i] \in Range(h)
    BY <1>1 DEF Range
  <2> QED
    BY <2>1, <2>2 DEF RecoveredFrom
<1>3. ASSUME NEW b \in Block, b \notin Range(h) PROVE RecoveredFrom(h, ld, d)[b] = d[b]
  BY <1>3 DEF RecoveredFrom
<1> QED
  BY <1>2, <1>3

\* Two disks recover to the same when they agree on what recovery reads.
LEMMA SameRecovered ==
  ASSUME NEW h, IsHeader(h), NEW g, NEW ld1, NEW d1, NEW d2,
         g = RecoveredFrom(h, ld1, d1), NEW ld2,
         \A i \in 1..Len(h) : ld2[i] = ld1[i],
         \A b \in Block : b \notin Range(h) => d2[b] = d1[b]
  PROVE  RecoveredFrom(h, ld2, d2) = g
<1>1. ASSUME NEW b \in Block PROVE RecoveredFrom(h, ld2, d2)[b] = RecoveredFrom(h, ld1, d1)[b]
  <2>1. CASE b \in Range(h)
    <3>1. PICK i \in 1..Len(h) : h[i] = b
      BY <2>1 DEF Range, IsHeader
    <3> QED
      BY <3>1, RecoveredValue
  <2>2. CASE b \notin Range(h)
    BY <2>2, RecoveredValue
  <2> QED
    BY <2>1, <2>2
<1> QED
  BY <1>1 DEF RecoveredFrom

LEMMA EmptyHeader ==
  /\ IsHeader(<<>>)
  /\ Range(<<>>) = {}
  /\ \A ld, d : d \in [Block -> Val] => RecoveredFrom(<<>>, ld, d) = d
<1>1. IsHeader(<<>>)
  BY SizeAssumption DEF IsHeader
<1>2. Range(<<>>) = {}
  BY DEF Range
<1>3. ASSUME NEW ld, NEW d \in [Block -> Val] PROVE RecoveredFrom(<<>>, ld, d) = d
  BY <1>2 DEF RecoveredFrom
<1> QED
  BY <1>1, <1>2, <1>3

\* A step that changes nothing of the abstract state is a stutter.
LEMMA Stutter ==
  ASSUME Seen' = Seen, Recovered' = Recovered, Active' = Active
  PROVE  [Abstract!Next]_(Abstract!vars)
  BY DEF Active, Abstract!vars

\* What a running system sees depends on the cache and the disk.
LEMMA SameSeen ==
  ASSUME boot = "up", boot' = "up", \A b \in Block : Contents(b)' = Contents(b)
  PROVE  Seen' = Seen
  BY DEF Seen, Contents

LEMMA FiniteActive ==
  /\ IsFiniteSet(Active) /\ Cardinality(Active) \in Nat
  /\ Cardinality(Active) = 0 <=> Active = {}
  BY ProcAssumption, FS_Subset, FS_CardinalityType, FS_EmptySet DEF Active

LEMMA InitInv ==
  ASSUME Init
  PROVE  IInv /\ Abstract!Init
<1> USE DEF Init
<1>1. Active = {} /\ outstanding = Cardinality(Active)
  BY FS_EmptySet DEF Active
<1>2. TypeOK
  <2>1. logdisk \in [LogSlots -> Val]
    OBVIOUS
  <2>2. IsHeader(head) /\ IsHeader(lh)
    BY EmptyHeader
  <2>3. disk \in [Block -> Val] /\ cache \in [Block -> Val \cup {NotCached}] /\ pins \in [Block -> Nat]
    OBVIOUS
  <2>4. pc \in [Proc -> PCs] /\ committing \in BOOLEAN /\ boot \in {"read_head", "install", "clear", "up"}
    BY DEF PCs
  <2>5. tail \in Nat \ {0}
    OBVIOUS
  <2> QED
    BY <1>1, <2>1, <2>2, <2>3, <2>4, <2>5 DEF TypeOK
<1>3. CommitInv /\ QuietInv /\ PanicInv /\ HeadInv /\ PinInv /\ BootInv
  BY DEF CommitInv, QuietInv, PanicInv, HeadInv, PinInv, BootInv, Committing
<1>4. CacheInv
  BY DEF CacheInv, Contents
<1>5. \A p \in Proc : PhaseInv(p)
  BY DEF PhaseInv
<1>6. Recovered = disk /\ Seen = disk
  BY RecoveredIs, EmptyHeader DEF Seen
<1>7. Abstract!Init
  BY <1>1, <1>6 DEF Abstract!Init, Active
<1> QED
  BY <1>2, <1>3, <1>4, <1>5, <1>7 DEF IInv

-----------------------------------------------------------------------------
(* begin_op() *)

\* A step that moves processes only between places outside commit() and calls,
\* and changes no block, keeps the invariants on blocks.
LEMMA BlocksUntouched ==
  ASSUME IInv, boot = "up",
         UNCHANGED <<diskVars, cache, pins, lh, tail, boot, panicked>>,
         \A p \in Proc : pc'[p] = pc[p] \/ (pc[p] \notin Committing \ {"done"} /\ pc'[p] \notin Committing)
  PROVE  /\ HeadInv' /\ PinInv' /\ CacheInv' /\ BootInv'
         /\ \A p \in Proc : PhaseInv(p)'
         /\ Seen' = Seen /\ Recovered' = Recovered
<1> USE DEF IInv, diskVars, Committing
<1>1. HeadInv'
  BY DEF HeadInv
<1>2. PinInv'
  BY DEF PinInv
<1>3. CacheInv'
  BY DEF CacheInv, Contents
<1>4. BootInv'
  BY DEF BootInv
<1>5. \A p \in Proc : PhaseInv(p)'
  BY DEF PhaseInv, Logged, Installed, Pending, Contents
<1>6. Seen' = Seen /\ Recovered' = Recovered
  BY DEF Seen, Recovered, Contents
<1> QED
  BY <1>1, <1>2, <1>3, <1>4, <1>5, <1>6

LEMMA BeginOpStep ==
  ASSUME IInv, NEW p \in Proc, BeginOp(p)
  PROVE  IInv' /\ [Abstract!Next]_(Abstract!vars)
<1> USE DEF BeginOp, Running, IInv
<1>0. pc[p] \notin Committing /\ pc[p] # "op" /\ boot = "up" /\ panicked = "no"
  BY DEF Committing
<1>1. CASE committing /\ pc' = [pc EXCEPT ![p] = "asleep"] /\ UNCHANGED outstanding
  <2>1. Active' = Active
    BY <1>0, <1>1 DEF Active, TypeOK
  <2>2. TypeOK' /\ CommitInv' /\ QuietInv' /\ PanicInv'
    BY <1>0, <1>1, <2>1 DEF TypeOK, CommitInv, QuietInv, PanicInv, PCs, Committing, diskVars
  <2>3. \A q \in Proc : pc'[q] = pc[q] \/ (pc[q] \notin Committing \ {"done"} /\ pc'[q] \notin Committing)
    BY <1>0, <1>1 DEF TypeOK, Committing
  <2> QED
    BY <1>0, <2>1, <2>2, <2>3, BlocksUntouched, Stutter
<1>2. CASE NoSpace /\ pc' = [pc EXCEPT ![p] = "asleep"] /\ UNCHANGED outstanding
  <2>1. Active' = Active
    BY <1>0, <1>2 DEF Active, TypeOK
  <2>2. TypeOK' /\ CommitInv' /\ QuietInv' /\ PanicInv'
    BY <1>0, <1>2, <2>1 DEF TypeOK, CommitInv, QuietInv, PanicInv, PCs, Committing, diskVars
  <2>3. \A q \in Proc : pc'[q] = pc[q] \/ (pc[q] \notin Committing \ {"done"} /\ pc'[q] \notin Committing)
    BY <1>0, <1>2 DEF TypeOK, Committing
  <2> QED
    BY <1>0, <2>1, <2>2, <2>3, BlocksUntouched, Stutter
<1>3. CASE ~committing /\ pc' = [pc EXCEPT ![p] = "op"] /\ outstanding' = outstanding + 1
  <2>1. Active' = Active \cup {p} /\ p \notin Active
    BY <1>0, <1>3 DEF Active, TypeOK
  <2>2. outstanding' = Cardinality(Active)'
    BY <1>3, <2>1, FiniteActive, FS_AddElement DEF TypeOK
  <2>3. TypeOK'
    BY <1>0, <1>3, <2>2 DEF TypeOK, PCs, diskVars
  <2>4. CommitInv' /\ QuietInv' /\ PanicInv'
    BY <1>0, <1>3, <2>1 DEF TypeOK, CommitInv, QuietInv, PanicInv, Committing
  <2>5. \A q \in Proc : pc'[q] = pc[q] \/ (pc[q] \notin Committing \ {"done"} /\ pc'[q] \notin Committing)
    BY <1>0, <1>3 DEF TypeOK, Committing
  <2>6. Seen' = Seen /\ Recovered' = Recovered
    BY <1>0, <2>5, BlocksUntouched
  <2>7. Abstract!Begin(p)
    BY <2>1, <2>6 DEF Abstract!Begin, Active
  <2> QED
    BY <1>0, <2>3, <2>4, <2>5, <2>7, BlocksUntouched DEF Abstract!Next
<1> QED
  BY <1>1, <1>2, <1>3

-----------------------------------------------------------------------------
(* log_write() *)

\* While a call is active nobody commits, and the header on disk is empty.
LEMMA NoCommitter ==
  ASSUME IInv, boot = "up", Active # {}
  PROVE  ~committing /\ head = <<>> /\ \A q \in Proc : pc[q] \notin Committing
<1>1. ~committing /\ \A q \in Proc : pc[q] \notin Committing
  BY DEF IInv, CommitInv
<1> QED
  BY <1>1 DEF IInv, HeadInv, Committing

\* A block that the header does not list yet, at the end of it.
LEMMA AppendHeader ==
  ASSUME NEW s, IsHeader(s), NEW b \in Block, b \notin Range(s), Len(s) < NLOG - 1
  PROVE  /\ IsHeader(Append(s, b)) /\ b \in Range(Append(s, b))
         /\ Range(s) \subseteq Range(Append(s, b))
         /\ \A i \in 1..Len(Append(s, b)) :
              Append(s, b)[i] = b \/ (i \in 1..Len(s) /\ Append(s, b)[i] = s[i])
<1> DEFINE t == Append(s, b)
<1>1. Len(s) \in Nat /\ s \in Seq(Block)
  BY DEF IsHeader
<1>2. t \in Seq(Block) /\ Len(t) = Len(s) + 1 /\ t[Len(s) + 1] = b
      /\ \A i \in 1..Len(s) : t[i] = s[i]
  BY <1>1
<1>3. \A i \in 1..Len(s) : s[i] # b
  BY <1>1 DEF Range
<1>4. DOMAIN t = 1..Len(t) /\ DOMAIN s = 1..Len(s)
  BY <1>1, <1>2
<1> HIDE DEF t
<1>5. IsHeader(t)
  BY <1>1, <1>2, <1>3, SizeAssumption DEF IsHeader
<1>6. b \in Range(t) /\ Range(s) \subseteq Range(t)
  BY <1>1, <1>2, <1>4 DEF Range
<1>7. \A i \in 1..Len(t) : t[i] = b \/ (i \in 1..Len(s) /\ t[i] = s[i])
  BY <1>1, <1>2
<1> QED
  BY <1>5, <1>6, <1>7 DEF t

LEMMA LogWriteStep ==
  ASSUME IInv, NEW p \in Proc, NEW b \in Block, NEW v \in Val, LogWrite(p, b, v)
  PROVE  IInv' /\ [Abstract!Next]_(Abstract!vars)
<1>0. /\ boot = "up" /\ panicked = "no" /\ p \in Active /\ Active' = Active
      /\ UNCHANGED <<disk, logdisk, head, outstanding, committing, pc, tail, boot>>
      /\ cache' = [cache EXCEPT ![b] = v]
      /\ (TooBig => panicked' # "no")
  BY DEF LogWrite, At, Running, Active, diskVars
<1>t. TypeOK
  BY DEF IInv
<1>1. ~committing /\ head = <<>> /\ \A q \in Proc : pc[q] \notin Committing
  BY <1>0, NoCommitter
<1>2. \A c \in Block : c \notin Range(lh) => pins[c] = 0
  BY DEF IInv, PinInv
<1>3. \A i \in 1..Len(lh) : pins[lh[i]] = 1 /\ lh[i] \in Block
  <2>1. \A i \in 1..Len(lh) : pins[lh[i]] = 1
    BY <1>0, <1>1 DEF IInv, PinInv, Committing
  <2> QED
    BY <1>t, <2>1 DEF TypeOK, IsHeader
<1>4. \/ /\ b \in Range(lh) \/ TooBig
         /\ lh' = lh /\ pins' = pins
      \/ /\ b \notin Range(lh) /\ Len(lh) < NLOG - 1 /\ ~TooBig
         /\ lh' = Append(lh, b) /\ pins' = [pins EXCEPT ![b] = 1]
  <2>1. Len(lh) \in Nat /\ NLOG - 1 \in Nat
    BY <1>t, SizeAssumption DEF TypeOK, IsHeader
  <2>2. ~TooBig => Len(lh) < NLOG - 1
    BY <2>1 DEF TooBig
  <2>3. b \notin Range(lh) => pins[b] + 1 = 1
    BY <1>2
  <2> QED
    BY <2>2, <2>3 DEF LogWrite, Pin
<1>5. /\ IsHeader(lh')
      /\ pins' \in [Block -> Nat]
      /\ \A c \in Block : c # b => pins'[c] = pins[c]
      /\ ~TooBig => pins'[b] = 1
      /\ \A c \in Block : c \notin Range(lh') => pins'[c] = 0
      /\ \A i \in 1..Len(lh') : pins'[lh'[i]] = 1
  <2>1. CASE (b \in Range(lh) \/ TooBig) /\ lh' = lh /\ pins' = pins
    <3>1. b \in Range(lh) => pins[b] = 1
      BY <1>t, <1>3 DEF Range, TypeOK, IsHeader
    <3> QED
      BY <1>t, <1>2, <1>3, <2>1, <3>1 DEF TypeOK
  <2>2. CASE /\ b \notin Range(lh) /\ Len(lh) < NLOG - 1
             /\ lh' = Append(lh, b) /\ pins' = [pins EXCEPT ![b] = 1]
    <3>1. /\ IsHeader(lh') /\ b \in Range(lh') /\ Range(lh) \subseteq Range(lh')
          /\ \A i \in 1..Len(lh') : lh'[i] = b \/ (i \in 1..Len(lh) /\ lh'[i] = lh[i])
      BY <1>t, <2>2, AppendHeader DEF TypeOK
    <3>2. pins' \in [Block -> Nat] /\ pins'[b] = 1 /\ \A c \in Block : c # b => pins'[c] = pins[c]
      BY <1>t, <2>2 DEF TypeOK
    <3> QED
      BY <1>2, <1>3, <3>1, <3>2
  <2> QED
    BY <1>4, <2>1, <2>2
<1>6. TypeOK'
  <2>1. cache' \in [Block -> Val \cup {NotCached}]
    BY <1>t, <1>0 DEF TypeOK
  <2> QED
    BY <1>t, <1>0, <1>5, <2>1 DEF TypeOK
<1>7. CommitInv' /\ QuietInv' /\ PanicInv' /\ HeadInv' /\ BootInv'
  BY <1>0, <1>1 DEF CommitInv, QuietInv, PanicInv, HeadInv, BootInv
<1>8. PinInv'
  BY <1>5 DEF PinInv
<1>9. CacheInv'
  <2>1. \A c \in Block : c # b => cache'[c] = cache[c]
    BY <1>t, <1>0 DEF TypeOK
  <2> QED
    BY <1>0, <1>5, <2>1 DEF IInv, CacheInv, Contents
<1>10. \A q \in Proc : PhaseInv(q)'
  BY <1>0, <1>1 DEF PhaseInv, Committing
<1>11. Abstract!Write(p, b, v)
  <2>1. Recovered' = Recovered
    BY <1>0 DEF Recovered
  <2>2. Seen' = [Seen EXCEPT ![b] = v]
    <3>1. cache'[b] # NotCached /\ cache'[b] = v /\ \A c \in Block : c # b => cache'[c] = cache[c]
      BY <1>t, <1>0, ValAssumption DEF TypeOK
    <3> QED
      BY <1>0, <3>1 DEF Seen, Contents
  <2> QED
    BY <1>0, <2>1, <2>2 DEF Abstract!Write, Active
<1> QED
  BY <1>6, <1>7, <1>8, <1>9, <1>10, <1>11 DEF IInv, Abstract!Next

-----------------------------------------------------------------------------
(* end_op() *)

LEMMA EndOpStep ==
  ASSUME IInv, NEW p \in Proc, EndOp(p)
  PROVE  IInv' /\ [Abstract!Next]_(Abstract!vars)
<1> USE DEF EndOp, At, Running
<1>0. boot = "up" /\ panicked = "no" /\ p \in Active
  BY DEF Active
<1>1. ~committing /\ head = <<>> /\ \A q \in Proc : pc[q] \notin Committing
  BY <1>0, NoCommitter
<1>2. Active' = Active \ {p} /\ outstanding' = Cardinality(Active)'
  <2>1. Active' = Active \ {p}
    <3>1. CASE pc' = [pc EXCEPT ![p] = CommitStart]
      BY <3>1 DEF Active, CommitStart, IInv, TypeOK
    <3>2. CASE pc' = [q \in Proc |-> IF q = p THEN "idle" ELSE Wakeup(q)]
      BY <3>2 DEF Active, Wakeup, IInv, TypeOK
    <3> QED
      BY <3>1, <3>2
  <2> QED
    BY <1>0, <2>1, FiniteActive, FS_RemoveElement DEF IInv, TypeOK
<1>3. panicked' = "no" /\ boot' = "up"
  BY <1>0, <1>1
<1>4. Seen' = Seen /\ Recovered' = Recovered
  BY DEF Seen, Recovered, Contents, diskVars
<1>5. Abstract!End(p)
  BY <1>0, <1>2, <1>4 DEF Abstract!End, Active
<1>6. CASE outstanding = 1 /\ committing' = TRUE /\ tail' = 1 /\ pc' = [pc EXCEPT ![p] = CommitStart]
  <2>1. Active' = {}
    <3>1. Cardinality(Active) = 1
      BY <1>6 DEF IInv, TypeOK
    <3>2. PICK x : Active = {x}
      BY <3>1, FiniteActive, FS_Singleton
    <3> QED
      BY <1>0, <1>2, <3>2
  <2>2. TypeOK'
    <3>1. pc' \in [Proc -> PCs]
      BY <1>6 DEF IInv, TypeOK, PCs, CommitStart
    <3> QED
      BY <1>2, <1>6, <3>1 DEF IInv, TypeOK, diskVars
  <2>3. CommitInv'
    BY <1>1, <1>3, <1>6, <2>1 DEF CommitInv, IInv, TypeOK
  <2>4. QuietInv' /\ PanicInv' /\ BootInv'
    BY <1>3, <1>6 DEF QuietInv, PanicInv, BootInv
  <2>5. \A q \in Proc : pc'[q] \notin {"install", "clear"}
    BY <1>1, <1>6 DEF IInv, TypeOK, CommitStart, Committing
  <2>6. HeadInv'
    BY <1>1 DEF HeadInv, diskVars
  <2>7. PinInv' /\ CacheInv'
    BY <1>0, <1>1, <2>5 DEF IInv, PinInv, CacheInv, Contents, Committing, diskVars
  <2>8. ASSUME NEW q \in Proc PROVE PhaseInv(q)'
    <3>1. CASE q = p
      <4>1. CASE lh = <<>>
        BY <1>6, <3>1, <4>1 DEF PhaseInv, CommitStart, IInv, TypeOK
      <4>2. CASE lh # <<>>
        <5>1. 1 \in 1..Len(lh)
          BY <4>2 DEF IInv, TypeOK, IsHeader
        <5>2. pc'[q] = "write_log"
          BY <1>6, <3>1, <4>2 DEF CommitStart, IInv, TypeOK
        <5> QED
          BY <1>6, <5>1, <5>2 DEF PhaseInv, Logged
      <4> QED
        BY <4>1, <4>2
    <3>2. CASE q # p
      <4>1. pc'[q] \notin Committing
        BY <1>1, <1>6, <3>2 DEF IInv, TypeOK
      <4> QED
        BY <4>1 DEF PhaseInv, Committing
    <3> QED
      BY <3>1, <3>2
  <2> QED
    BY <1>5, <2>2, <2>3, <2>4, <2>6, <2>7, <2>8 DEF IInv, Abstract!Next
<1>7. CASE /\ outstanding # 1
           /\ pc' = [q \in Proc |-> IF q = p THEN "idle" ELSE Wakeup(q)]
           /\ UNCHANGED <<committing, tail>>
  <2>1. Active' # {}
    <3>1. CASE Active \ {p} = {}
      <4>1. Active = {p}
        BY <1>0, <3>1
      <4> QED
        BY <1>7, <4>1, FS_Singleton DEF IInv, TypeOK
    <3> QED
      BY <1>2, <3>1
  <2>2. TypeOK'
    <3>1. pc' \in [Proc -> PCs]
      BY <1>7 DEF IInv, TypeOK, PCs, Wakeup
    <3> QED
      BY <1>2, <1>7, <3>1 DEF IInv, TypeOK, diskVars
  <2>3. \A q \in Proc : pc[q] \notin Committing /\ pc'[q] \notin Committing
    BY <1>1, <1>7 DEF Wakeup, Committing
  <2>4. CommitInv' /\ QuietInv' /\ PanicInv'
    BY <1>1, <1>3, <1>7, <2>1, <2>3 DEF CommitInv, QuietInv, PanicInv
  <2>5. HeadInv' /\ PinInv' /\ CacheInv' /\ BootInv' /\ \A q \in Proc : PhaseInv(q)'
    <3>1. UNCHANGED <<diskVars, cache, pins, lh, tail, boot, panicked>>
      BY <1>3, <1>7, <1>0
    <3> QED
      BY <1>0, <2>3, <3>1, BlocksUntouched
  <2> QED
    BY <1>5, <2>2, <2>4, <2>5 DEF IInv, Abstract!Next
<1> QED
  BY <1>6, <1>7

LEMMA EndCommitStep ==
  ASSUME IInv, NEW p \in Proc, EndCommit(p)
  PROVE  IInv' /\ [Abstract!Next]_(Abstract!vars)
<1> USE DEF EndCommit, At, Running
<1>0. boot = "up" /\ panicked = "no" /\ committing /\ lh = <<>> /\ Active = {}
  BY DEF IInv, CommitInv, PhaseInv, Committing
<1>1. \A q \in Proc : q # p => pc[q] \notin Committing
  BY DEF IInv, CommitInv, Committing
<1>2. Active' = Active
  BY <1>0 DEF Active, Wakeup
<1>3. TypeOK'
  <2>1. pc' \in [Proc -> PCs]
    BY DEF IInv, TypeOK, PCs, Wakeup
  <2> QED
    BY <1>2, <2>1 DEF IInv, TypeOK, diskVars
<1>4. \A q \in Proc : pc[q] \notin Committing \ {"done"} /\ pc'[q] \notin Committing
  BY <1>1 DEF Wakeup, Committing
<1>5. CommitInv' /\ QuietInv' /\ PanicInv'
  BY <1>0, <1>2, <1>4 DEF CommitInv, QuietInv, PanicInv
<1> QED
  BY <1>0, <1>2, <1>3, <1>4, <1>5, BlocksUntouched, Stutter DEF IInv

-----------------------------------------------------------------------------
(* The steps of commit() *)

\* The process that commits is alone in doing so, with no call active; its step
\* to another place of commit() leaves it so.
LEMMA CommitterAlone ==
  ASSUME IInv, NEW p \in Proc, Running, pc[p] \in Committing,
         NEW l \in Committing, pc' = [pc EXCEPT ![p] = l]
  PROVE  /\ boot = "up" /\ panicked = "no" /\ committing /\ Active = {} /\ Active' = {}
         /\ pc' \in [Proc -> PCs] /\ pc'[p] = l
         /\ \A q \in Proc : q # p => pc[q] \notin Committing /\ pc'[q] \notin Committing
<1>1. boot = "up" /\ panicked = "no" /\ committing /\ Active = {}
      /\ \A q \in Proc : q # p => pc[q] \notin Committing
  BY DEF IInv, CommitInv, Running
<1>2. pc' \in [Proc -> PCs] /\ pc'[p] = l /\ \A q \in Proc : q # p => pc'[q] = pc[q]
  BY DEF IInv, TypeOK, PCs, Committing
<1>3. Active' = {}
  BY <1>1, <1>2 DEF Active, Committing
<1> QED
  BY <1>1, <1>2, <1>3

\* What is left to show of such a step.
LEMMA CommitStepInv ==
  ASSUME IInv, NEW p \in Proc, Running, pc[p] \in Committing,
         NEW l \in Committing, pc' = [pc EXCEPT ![p] = l],
         UNCHANGED <<outstanding, committing, boot, panicked>>,
         disk' \in [Block -> Val], logdisk' \in [LogSlots -> Val],
         IsHeader(head'), IsHeader(lh'), cache' \in [Block -> Val \cup {NotCached}],
         pins' \in [Block -> Nat], tail' \in Nat \ {0},
         HeadInv', PinInv', CacheInv', PhaseInv(p)'
  PROVE  IInv'
<1>1. /\ boot = "up" /\ panicked = "no" /\ committing /\ Active = {} /\ Active' = {}
      /\ pc' \in [Proc -> PCs] /\ pc'[p] = l
      /\ \A q \in Proc : q # p => pc[q] \notin Committing /\ pc'[q] \notin Committing
  BY CommitterAlone
<1>2. TypeOK'
  BY <1>1 DEF IInv, TypeOK
<1>3. CommitInv' /\ QuietInv' /\ PanicInv' /\ BootInv'
  BY <1>1 DEF CommitInv, QuietInv, PanicInv, BootInv
<1>4. \A q \in Proc : PhaseInv(q)'
  BY <1>1 DEF PhaseInv, Committing
<1> QED
  BY <1>2, <1>3, <1>4 DEF IInv

LEMMA WriteLogStep ==
  ASSUME IInv, NEW p \in Proc, WriteLog(p)
  PROVE  IInv' /\ [Abstract!Next]_(Abstract!vars)
<1> DEFINE l == IF tail = Len(lh) THEN "write_head" ELSE "write_log"
<1>0. /\ Running /\ pc[p] = "write_log" /\ pc' = [pc EXCEPT ![p] = l]
      /\ logdisk' = [logdisk EXCEPT ![tail] = Contents(lh[tail])]
      /\ cache' = [cache EXCEPT ![lh[tail]] = Contents(lh[tail])]
      /\ tail' = IF tail = Len(lh) THEN 1 ELSE tail + 1
      /\ UNCHANGED <<disk, head, pins, lh, outstanding, committing, boot, panicked>>
  BY DEF WriteLog, At
<1>1. pc[p] \in Committing /\ l \in Committing
  BY <1>0 DEF Committing
<1>2. /\ boot = "up" /\ panicked = "no" /\ Active = {} /\ Active' = {} /\ pc'[p] = l
      /\ \A q \in Proc : q # p => pc[q] \notin Committing /\ pc'[q] \notin Committing
  BY <1>0, <1>1, CommitterAlone
<1>t. TypeOK
  BY DEF IInv
<1>3. /\ tail \in 1..Len(lh) /\ Logged(tail) /\ lh[tail] \in Block /\ tail \in LogSlots
      /\ Len(lh) \in Nat /\ lh # <<>>
  <2>1. tail \in 1..Len(lh) /\ Logged(tail)
    BY <1>0 DEF IInv, PhaseInv
  <2> QED
    BY <1>t, <2>1, SizeAssumption DEF TypeOK, IsHeader, LogSlots
<1>4. Contents(lh[tail]) \in Val
  BY <1>t, <1>3 DEF TypeOK, Contents
<1>5. \A b \in Block : Contents(b)' = Contents(b)
  BY <1>t, <1>0, <1>3, <1>4, ValAssumption DEF TypeOK, Contents
<1>6. /\ logdisk' \in [LogSlots -> Val] /\ cache' \in [Block -> Val \cup {NotCached}]
      /\ tail' \in Nat \ {0}
  BY <1>t, <1>0, <1>3, <1>4 DEF TypeOK
<1>7. head = <<>>
  BY <1>0, <1>2 DEF IInv, HeadInv, Committing
<1>8. HeadInv'
  BY <1>0, <1>7 DEF HeadInv
<1>9. PinInv'
  <2>1. \A q \in Proc : pc[q] \notin {"install", "clear"}
    BY <1>0, <1>2 DEF Committing
  <2> QED
    BY <1>0, <1>2, <2>1 DEF IInv, PinInv
<1>10. CacheInv'
  BY <1>0, <1>5 DEF IInv, CacheInv
<1>11. PhaseInv(p)'
  <2>1. \A i \in 1..Len(lh) : i < tail + 1 => logdisk'[i] = Contents(lh[i])'
    <3>1. \A i \in 1..Len(lh) : lh[i] \in Block /\ i \in LogSlots
      BY <1>t, SizeAssumption DEF TypeOK, IsHeader, LogSlots
    <3>2. \A i \in 1..Len(lh) : Contents(lh[i])' = Contents(lh[i])
      BY <1>0, <1>5, <3>1 DEF Contents
    <3> QED
      BY <1>t, <1>0, <1>3, <3>1, <3>2 DEF TypeOK, Logged
  <2>2. CASE tail = Len(lh)
    <3>1. pc'[p] = "write_head" /\ tail' = 1
      BY <1>0, <1>2, <2>2
    <3> QED
      BY <1>0, <1>3, <2>1, <2>2, <3>1 DEF PhaseInv, Logged
  <2>3. CASE tail # Len(lh)
    <3>1. pc'[p] = "write_log" /\ tail' = tail + 1 /\ tail' \in 1..Len(lh)
      BY <1>0, <1>2, <1>3, <2>3
    <3> QED
      BY <1>0, <1>3, <2>1, <3>1 DEF PhaseInv, Logged
  <2> QED
    BY <2>2, <2>3
<1>12. IInv'
  <2>1. disk' \in [Block -> Val] /\ IsHeader(head') /\ IsHeader(lh') /\ pins' \in [Block -> Nat]
    BY <1>t, <1>0 DEF TypeOK
  <2> HIDE DEF l
  <2> QED
    BY <1>0, <1>1, <1>6, <1>8, <1>9, <1>10, <1>11, <2>1, CommitStepInv
<1>13. Seen' = Seen
  BY <1>0, <1>2, <1>5, SameSeen
<1>14. Recovered' = Recovered
  BY <1>t, <1>0, <1>7, RecoveredIs, RecoveredIsNext, EmptyHeader DEF TypeOK
<1> QED
  BY <1>2, <1>12, <1>13, <1>14, Stutter

LEMMA WriteHeadStep ==
  ASSUME IInv, NEW p \in Proc, WriteHead(p)
  PROVE  IInv' /\ [Abstract!Next]_(Abstract!vars)
<1>0. /\ Running /\ pc[p] = "write_head" /\ pc' = [pc EXCEPT ![p] = "install"] /\ head' = lh
      /\ UNCHANGED <<disk, logdisk, cache, pins, lh, outstanding, committing, tail, boot, panicked>>
  BY DEF WriteHead, At, SetHead
<1>1. pc[p] \in Committing /\ "install" \in Committing
  BY <1>0 DEF Committing
<1>2. /\ boot = "up" /\ panicked = "no" /\ Active = {} /\ Active' = {} /\ pc'[p] = "install"
      /\ \A q \in Proc : q # p => pc[q] \notin Committing /\ pc'[q] \notin Committing
  BY <1>0, <1>1, CommitterAlone
<1>t. TypeOK
  BY DEF IInv
<1>3. tail = 1 /\ lh # <<>> /\ Logged(Len(lh) + 1)
  BY <1>0 DEF IInv, PhaseInv
<1>4. tail \in 1..Len(lh) /\ Len(lh) \in Nat
  BY <1>t, <1>3 DEF TypeOK, IsHeader
<1>5. HeadInv' /\ PinInv' /\ CacheInv'
  BY <1>0, <1>2 DEF IInv, HeadInv, PinInv, CacheInv, Contents
<1>6. PhaseInv(p)'
  <2>1. Pending(tail)
    BY <1>0, <1>2 DEF IInv, PinInv, Pending, Committing
  <2>2. Pending(tail)' /\ Logged(Len(lh) + 1)'
    BY <1>0, <1>3, <2>1 DEF Pending, Logged, Contents
  <2>3. Installed(tail)'
    BY <1>0, <1>3, <1>4 DEF Installed
  <2> QED
    BY <1>0, <1>2, <1>3, <1>4, <2>2, <2>3 DEF PhaseInv
<1>7. IInv'
  BY <1>t, <1>0, <1>1, <1>5, <1>6, CommitStepInv DEF TypeOK
<1>8. Seen' = Seen
  BY <1>0, <1>2, SameSeen DEF Contents
<1>9. Recovered' = Seen
  <2>0. IsHeader(lh)
    BY <1>t DEF TypeOK
  <2>1. ASSUME NEW b \in Block PROVE RecoveredFrom(lh, logdisk, disk)[b] = Contents(b)
    <3>1. CASE b \in Range(lh)
      <4>1. PICK i \in 1..Len(lh) : lh[i] = b
        BY <2>0, <3>1 DEF Range, IsHeader
      <4>2. logdisk[i] = Contents(b)
        BY <1>3, <1>4, <4>1 DEF Logged
      <4>3. RecoveredFrom(lh, logdisk, disk)[lh[i]] = logdisk[i]
        BY <2>0, RecoveredValue
      <4> QED
        BY <4>1, <4>2, <4>3
    <3>2. CASE b \notin Range(lh)
      <4>1. disk[b] = Contents(b)
        BY <1>2, <3>2 DEF IInv, PinInv, CacheInv
      <4>2. RecoveredFrom(lh, logdisk, disk)[b] = disk[b]
        BY <2>0, <3>2, RecoveredValue
      <4> QED
        BY <4>1, <4>2
    <3> QED
      BY <3>1, <3>2
  <2>2. RecoveredFrom(lh, logdisk, disk) = [b \in Block |-> Contents(b)]
    BY <2>1 DEF RecoveredFrom
  <2> QED
    BY <1>0, <1>2, <2>2, RecoveredIsNext DEF Seen
<1>10. Abstract!Commit
  BY <1>2, <1>8, <1>9 DEF Abstract!Commit, Active
<1> QED
  BY <1>7, <1>10 DEF Abstract!Next

\* One round of install_trans() for block lh[tail], whose copy is in the log.
LEMMA InstallRound ==
  ASSUME TypeOK, tail \in 1..Len(lh), head = lh, InstallOne, UNCHANGED <<head, logdisk, lh>>
  PROVE  /\ disk' \in [Block -> Val] /\ cache' \in [Block -> Val \cup {NotCached}]
         /\ tail' \in Nat \ {0} /\ lh[tail] \in Block
         /\ \A b \in Block : b = lh[tail] => disk'[b] = logdisk[tail] /\ Contents(b)' = logdisk[tail]
         /\ \A b \in Block : b # lh[tail] => disk'[b] = disk[b] /\ Contents(b)' = Contents(b)
         /\ \A i \in 1..Len(lh) : lh[i] \in Block /\ (lh[i] = lh[tail] => i = tail)
         /\ Recovered' = Recovered
<1>1. /\ disk' = [disk EXCEPT ![lh[tail]] = logdisk[tail]]
      /\ cache' = [cache EXCEPT ![lh[tail]] = logdisk[tail]]
      /\ tail' = IF tail = Len(lh) THEN 1 ELSE tail + 1
  BY DEF InstallOne, WriteHome
<1>2. /\ tail \in LogSlots /\ logdisk[tail] \in Val /\ logdisk[tail] # NotCached
      /\ \A i \in 1..Len(lh) : lh[i] \in Block /\ (lh[i] = lh[tail] => i = tail)
  BY SizeAssumption, ValAssumption DEF TypeOK, IsHeader, LogSlots
<1>3. /\ disk' \in [Block -> Val] /\ cache' \in [Block -> Val \cup {NotCached}]
      /\ tail' \in Nat \ {0}
  BY <1>1, <1>2 DEF TypeOK
<1>4. /\ disk'[lh[tail]] = logdisk[tail] /\ cache'[lh[tail]] = logdisk[tail]
      /\ \A b \in Block : b # lh[tail] => disk'[b] = disk[b] /\ cache'[b] = cache[b]
  BY <1>1, <1>2 DEF TypeOK
<1>5. Recovered' = Recovered
  <2>1. lh[tail] \in Range(head)
    BY DEF Range, TypeOK, IsHeader
  <2>2. \A b \in Block : b \notin Range(head) => disk'[b] = disk[b]
    BY <1>4, <2>1
  <2>3. RecoveredFrom(head, logdisk, disk') = Recovered
    BY <2>2, RecoveredIs, SameRecovered DEF TypeOK
  <2> QED
    BY <2>3, RecoveredIsNext
<1> QED
  BY <1>2, <1>3, <1>4, <1>5 DEF Contents

LEMMA InstallTransStep ==
  ASSUME IInv, NEW p \in Proc, InstallTrans(p)
  PROVE  IInv' /\ [Abstract!Next]_(Abstract!vars)
<1> DEFINE l == IF tail = Len(lh) THEN "clear" ELSE "install"
<1>0. /\ Running /\ pc[p] = "install" /\ pc' = [pc EXCEPT ![p] = l] /\ InstallOne
      /\ pins' = [pins EXCEPT ![lh[tail]] = @ - 1]
      /\ UNCHANGED <<logdisk, head, lh, outstanding, committing, boot, panicked>>
  BY DEF InstallTrans, At
<1>1. pc[p] \in Committing /\ l \in Committing
  BY <1>0 DEF Committing
<1>2. /\ boot = "up" /\ panicked = "no" /\ Active = {} /\ Active' = {} /\ pc'[p] = l
      /\ \A q \in Proc : q # p => pc[q] \notin Committing /\ pc'[q] \notin Committing
  BY <1>0, <1>1, CommitterAlone
<1>t. TypeOK
  BY DEF IInv
<1>3. head = lh /\ tail \in 1..Len(lh) /\ Logged(Len(lh) + 1) /\ Installed(tail)
  BY <1>0 DEF IInv, PhaseInv
<1>4. Pending(tail)
  BY <1>0 DEF IInv, PhaseInv
<1>5. /\ disk' \in [Block -> Val] /\ cache' \in [Block -> Val \cup {NotCached}]
      /\ tail' \in Nat \ {0} /\ lh[tail] \in Block
      /\ \A b \in Block : b = lh[tail] => disk'[b] = logdisk[tail] /\ Contents(b)' = logdisk[tail]
      /\ \A b \in Block : b # lh[tail] => disk'[b] = disk[b] /\ Contents(b)' = Contents(b)
      /\ \A i \in 1..Len(lh) : lh[i] \in Block /\ (lh[i] = lh[tail] => i = tail)
      /\ Recovered' = Recovered
  BY <1>t, <1>0, <1>3, InstallRound
<1>6. /\ pins' \in [Block -> Nat] /\ pins'[lh[tail]] = 0
      /\ \A b \in Block : b # lh[tail] => pins'[b] = pins[b]
  <2>1. pins[lh[tail]] = 1
    <3>1. tail >= tail
      BY <1>3
    <3> QED
      BY <1>3, <1>4, <3>1 DEF Pending
  <2> QED
    BY <1>t, <1>0, <1>5, <2>1 DEF TypeOK
<1>7. logdisk[tail] = Contents(lh[tail])
  BY <1>t, <1>3 DEF Logged, TypeOK, IsHeader
<1>8. \A b \in Block : Contents(b)' = Contents(b)
  BY <1>5, <1>7
<1>9. HeadInv'
  BY <1>0, <1>1, <1>2, <1>3 DEF HeadInv, Committing
<1>10. PinInv'
  <2>1. \A b \in Block : b \notin Range(lh) => pins'[b] = 0
    BY <1>5, <1>6 DEF IInv, PinInv
  <2>2. pc'[p] \in {"install", "clear"}
    BY <1>2
  <2> QED
    BY <1>0, <2>1, <2>2 DEF PinInv
<1>11. CacheInv'
  BY <1>0, <1>2, <1>5, <1>6 DEF IInv, CacheInv
<1>12. PhaseInv(p)'
  <2>1. Len(lh) \in Nat
    BY <1>t DEF TypeOK, IsHeader
  <2>2. \A i \in 1..Len(lh) : i < Len(lh) + 1 => logdisk'[i] = Contents(lh[i])'
    <3>1. \A i \in 1..Len(lh) : Contents(lh[i])' = Contents(lh[i])
      BY <1>0, <1>5, <1>8 DEF Contents
    <3> QED
      BY <1>0, <1>3, <3>1 DEF Logged
  <2>3. \A i \in 1..Len(lh) : i < tail + 1 => disk'[lh[i]] = logdisk[i] /\ pins'[lh[i]] = 0
    <3>1. ASSUME NEW i \in 1..Len(lh), i < tail + 1
          PROVE  disk'[lh[i]] = logdisk[i] /\ pins'[lh[i]] = 0
      <4>1. CASE i = tail
        BY <1>5, <1>6, <4>1
      <4>2. CASE i # tail
        <5>0. i < tail
          BY <1>3, <2>1, <3>1, <4>2
        <5>1. i < tail /\ lh[i] # lh[tail] /\ lh[i] \in Block
          BY <1>5, <4>2, <5>0
        <5> QED
          BY <1>3, <1>5, <1>6, <5>1 DEF Installed
      <4> QED
        BY <4>1, <4>2
    <3> QED
      BY <3>1
  <2>4. CASE tail = Len(lh)
    <3>1. pc'[p] = "clear"
      BY <1>2, <2>4
    <3> QED
      BY <1>0, <1>3, <2>2, <2>3, <2>4, <3>1 DEF PhaseInv, Logged, Installed
  <2>5. CASE tail # Len(lh)
    <3>1. pc'[p] = "install" /\ tail' = tail + 1 /\ tail' \in 1..Len(lh)
      BY <1>0, <1>2, <1>3, <2>1, <2>5 DEF InstallOne
    <3>2. \A i \in 1..Len(lh) : i >= tail + 1 => pins'[lh[i]] = 1
      <4>1. ASSUME NEW i \in 1..Len(lh), i >= tail + 1
            PROVE  lh[i] # lh[tail] /\ lh[i] \in Block /\ i >= tail
        <5>1. tail \in Nat /\ i \in Nat
          BY <1>3, <2>1
        <5>2. i >= tail /\ i # tail
          BY <4>1, <5>1
        <5> QED
          BY <1>5, <5>2
      <4> QED
        BY <1>4, <1>6, <4>1 DEF Pending
    <3> QED
      BY <1>0, <1>3, <2>2, <2>3, <3>1, <3>2 DEF PhaseInv, Logged, Installed, Pending
  <2> QED
    BY <2>4, <2>5
<1>13. IInv'
  <2>1. logdisk' \in [LogSlots -> Val] /\ IsHeader(head') /\ IsHeader(lh')
    BY <1>t, <1>0 DEF TypeOK
  <2> HIDE DEF l
  <2> QED
    BY <1>0, <1>1, <1>5, <1>6, <1>9, <1>10, <1>11, <1>12, <2>1, CommitStepInv
<1>14. Seen' = Seen
  BY <1>0, <1>2, <1>8, SameSeen
<1> QED
  BY <1>2, <1>5, <1>13, <1>14, Stutter

\* When every block that the header lists is in its place, the log adds nothing.
LEMMA AllInstalled ==
  ASSUME TypeOK, head = lh, Installed(Len(lh) + 1), \A b \in Block : b \notin Range(lh) => pins[b] = 0
  PROVE  Recovered = disk /\ \A b \in Block : pins[b] = 0
<1>0. IsHeader(lh)
  BY DEF TypeOK
<1>1. \A i \in 1..Len(lh) : disk[lh[i]] = logdisk[i] /\ pins[lh[i]] = 0
  BY <1>0 DEF Installed, IsHeader
<1>2. ASSUME NEW b \in Block
      PROVE  pins[b] = 0 /\ RecoveredFrom(head, logdisk, disk)[b] = disk[b]
  <2>1. CASE b \in Range(lh)
    <3>1. PICK i \in 1..Len(lh) : lh[i] = b
      BY <1>0, <2>1 DEF Range, IsHeader
    <3>2. RecoveredFrom(lh, logdisk, disk)[lh[i]] = logdisk[i]
      BY <1>0, RecoveredValue
    <3> QED
      BY <1>1, <3>1, <3>2
  <2>2. CASE b \notin Range(lh)
    <3>1. RecoveredFrom(lh, logdisk, disk)[b] = disk[b]
      BY <1>0, <2>2, RecoveredValue
    <3> QED
      BY <2>2, <3>1
  <2> QED
    BY <2>1, <2>2
<1>3. RecoveredFrom(head, logdisk, disk) = disk
  BY <1>2 DEF RecoveredFrom, TypeOK
<1> QED
  BY <1>2, <1>3, RecoveredIs

LEMMA ClearHeadStep ==
  ASSUME IInv, NEW p \in Proc, ClearHead(p)
  PROVE  IInv' /\ [Abstract!Next]_(Abstract!vars)
<1>0. /\ Running /\ pc[p] = "clear" /\ pc' = [pc EXCEPT ![p] = "done"] /\ lh' = <<>> /\ head' = <<>>
      /\ UNCHANGED <<disk, logdisk, cache, pins, outstanding, committing, tail, boot, panicked>>
  BY DEF ClearHead, At
<1>1. pc[p] \in Committing /\ "done" \in Committing
  BY <1>0 DEF Committing
<1>2. /\ boot = "up" /\ panicked = "no" /\ Active = {} /\ Active' = {} /\ pc'[p] = "done"
  BY <1>0, <1>1, CommitterAlone
<1>t. TypeOK
  BY DEF IInv
<1>3. head = lh /\ Installed(Len(lh) + 1)
  BY <1>0 DEF IInv, PhaseInv
<1>4. Recovered = disk /\ \A b \in Block : pins[b] = 0
  BY <1>t, <1>3, AllInstalled DEF IInv, PinInv
<1>5. HeadInv' /\ PinInv' /\ CacheInv'
  <2>1. \A i \in 1..Len(<<>>) : FALSE
    OBVIOUS
  <2> QED
    BY <1>0, <1>4, <2>1 DEF IInv, HeadInv, PinInv, CacheInv, Contents
<1>6. PhaseInv(p)'
  BY <1>0, <1>2 DEF PhaseInv
<1>7. IInv'
  BY <1>t, <1>0, <1>1, <1>5, <1>6, CommitStepInv, EmptyHeader DEF TypeOK
<1>8. Seen' = Seen
  BY <1>0, <1>2, SameSeen DEF Contents
<1>9. Recovered' = Recovered
  BY <1>t, <1>0, <1>4, RecoveredIsNext, EmptyHeader DEF TypeOK
<1> QED
  BY <1>2, <1>7, <1>8, <1>9, Stutter
=============================================================================

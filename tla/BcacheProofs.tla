---------------------------- MODULE BcacheProofs ----------------------------
(***************************************************************************)
(* The buffer cache for any number of buffers, processes and blocks: one   *)
(* buffer per block, exact reference counts, exclusive buffers, and        *)
(* contents that only the holder of a buffer changes.                      *)
(***************************************************************************)
EXTENDS Bcache, FiniteSetTheorems, TLAPS

PCs == {"idle", "acquiresleep", "asleep", "bread", "brelse"}

TypeOK ==
  /\ disk \in [Block -> Val]
  /\ blockno \in [Buf -> Block \cup {NoBlock}] /\ valid \in [Buf -> BOOLEAN]
  /\ refcnt \in [Buf -> Int] /\ data \in [Buf -> Val]
  /\ order \in [1..NBUF -> Buf]
  /\ locked \in [Buf -> BOOLEAN] /\ pid \in [Buf -> Proc \cup {NoProc}]
  /\ pinned \in SUBSET Block /\ dirty \in SUBSET Buf
  /\ pc \in [Proc -> PCs] /\ b \in [Proc -> Buf \cup {NoBuf}]
  /\ holds \in [Proc -> SUBSET Buf]

\* A process has its b from bget() to the end of bread() and during brelse().
LocalInv ==
  \A p \in Proc : /\ pc[p] = "idle" <=> b[p] = NoBuf
                  /\ b[p] \notin holds[p]

\* Who refers to a buffer, and how often.
Users(x) == {p \in Proc : b[p] = x \/ x \in holds[p]}
Pins(x) == {k \in pinned : blockno[x] = k}

\* A buffer that is referred to has a block, which bread() has brought in
\* before it returns the buffer; so has a pinned one.
BlockInv ==
  /\ \A p \in Proc : /\ b[p] # NoBuf => blockno[b[p]] \in Block
                     /\ \A x \in holds[p] : blockno[x] \in Block /\ valid[x]
  /\ \A k \in pinned : \E x \in Buf : blockno[x] = k /\ valid[x]

\* A buffer that nobody has changed since agrees with the disk.
DataInv == \A x \in Buf : valid[x] /\ x \notin dirty => data[x] = disk[blockno[x]]

IInv ==
  /\ TypeOK /\ LocalInv /\ OneBufferPerBlock /\ RefcntExact /\ SleepLocks /\ BlockInv /\ DataInv

-----------------------------------------------------------------------------
(* Reference counts *)

LEMMA Counts ==
  ASSUME NEW U \in SUBSET Proc
  PROVE  /\ Cardinality(U) \in Nat
         /\ Cardinality(U) = 0 <=> U = {}
         /\ \A p \in Proc : p \notin U => Cardinality(U \cup {p}) = Cardinality(U) + 1
         /\ \A p \in U : Cardinality(U \ {p}) = Cardinality(U) - 1
<1>1. IsFiniteSet(U)
  BY BcacheAssumption, FS_Subset
<1>2. Cardinality(U) \in Nat /\ (Cardinality(U) = 0 <=> U = {})
  BY <1>1, FS_CardinalityType, FS_EmptySet
<1>3. ASSUME NEW p \in Proc, p \notin U PROVE Cardinality(U \cup {p}) = Cardinality(U) + 1
  BY <1>1, <1>3, FS_AddElement
<1>4. ASSUME NEW p \in U PROVE Cardinality(U \ {p}) = Cardinality(U) - 1
  BY <1>1, FS_RemoveElement
<1> QED
  BY <1>2, <1>3, <1>4

LEMMA PinCount ==
  ASSUME NEW S, NEW k
  PROVE  Cardinality({j \in S : k = j}) = IF k \in S THEN 1 ELSE 0
<1>1. CASE k \in S
  <2>1. {j \in S : k = j} = {k}
    BY <1>1
  <2> QED
    BY <1>1, <2>1, FS_Singleton
<1>2. CASE k \notin S
  <2>1. {j \in S : k = j} = {}
    BY <1>2
  <2> QED
    BY <1>2, <2>1, FS_EmptySet
<1> QED
  BY <1>1, <1>2

\* The log's part of a reference count.
PinOf(x) == IF blockno[x] \in pinned THEN 1 ELSE 0

LEMMA RefIs ==
  RefcntExact <=> \A x \in Buf : refcnt[x] = Cardinality(Users(x)) + PinOf(x)
<1>1. \A x : Cardinality(Pins(x)) = PinOf(x)
  BY PinCount DEF Pins, PinOf
<1>2. RefcntExact <=> \A x \in Buf : refcnt[x] = Cardinality(Users(x)) + Cardinality(Pins(x))
  BY Zenon DEF RefcntExact, Users, Pins
<1> QED
  BY <1>1, <1>2

LEMMA RefIsNext ==
  RefcntExact' <=> \A x \in Buf : refcnt'[x] = Cardinality(Users(x)') + PinOf(x)'
<1>1. \A x : Cardinality(Pins(x)') = PinOf(x)'
  BY PinCount DEF Pins, PinOf
<1>2. RefcntExact' <=> \A x \in Buf : refcnt'[x] = Cardinality(Users(x)') + Cardinality(Pins(x)')
  BY Zenon DEF RefcntExact, Users, Pins
<1> QED
  BY <1>1, <1>2

\* A buffer that no count refers to has no user and is not pinned.
LEMMA UnusedIs ==
  ASSUME IInv, NEW x \in Buf, refcnt[x] = 0
  PROVE  /\ blockno[x] \notin pinned
         /\ \A p \in Proc : b[p] # x /\ x \notin holds[p]
<1>1. refcnt[x] = Cardinality(Users(x)) + PinOf(x)
  BY RefIs DEF IInv
<1>2. Users(x) \in SUBSET Proc
  BY DEF Users
<1>3. Cardinality(Users(x)) \in Nat /\ (Cardinality(Users(x)) = 0 <=> Users(x) = {})
  BY <1>2, Counts
<1>4. Cardinality(Users(x)) = 0 /\ PinOf(x) = 0
  BY <1>1, <1>3 DEF PinOf
<1> QED
  BY <1>3, <1>4 DEF Users, PinOf

-----------------------------------------------------------------------------
(* What bread() returns *)

\* It comes from the one buffer of the block, or from the disk.
LEMMA SeenHit ==
  ASSUME NEW l, NEW y \in Buf, blockno[y] = l, valid[y], \A z \in Buf : blockno[z] = l => z = y
  PROVE  Seen(l) = data[y]
<1>1. (CHOOSE z \in Buf : blockno[z] = l /\ valid[z]) = y
  OBVIOUS
<1> QED
  BY <1>1 DEF Seen

LEMMA SeenHitNext ==
  ASSUME NEW l, NEW y \in Buf, blockno'[y] = l, valid'[y], \A z \in Buf : blockno'[z] = l => z = y
  PROVE  Seen(l)' = data'[y]
<1>1. (CHOOSE z \in Buf : blockno'[z] = l /\ valid'[z]) = y
  OBVIOUS
<1> QED
  BY <1>1 DEF Seen

LEMMA SeenMiss ==
  ASSUME NEW l, \A z \in Buf : ~(blockno[z] = l /\ valid[z])
  PROVE  Seen(l) = disk[l]
BY DEF Seen

LEMMA SeenMissNext ==
  ASSUME NEW l, \A z \in Buf : ~(blockno'[z] = l /\ valid'[z])
  PROVE  Seen(l)' = disk'[l]
BY DEF Seen

\* What OnlyHolderChanges says of a step.
HolderStep ==
  \A k \in Block : Seen(k)' # Seen(k) =>
    \/ \E p \in Proc : \E x \in holds[p] : x \in holds'[p] /\ blockno[x] = k /\ valid[x]
    \/ \E x \in dirty \ dirty' : blockno[x] = k /\ k \notin pinned

LEMMA SameSeen ==
  ASSUME UNCHANGED <<blockno, valid, data, disk>>
  PROVE  HolderStep
  BY DEF HolderStep, Seen

-----------------------------------------------------------------------------
(* The actions *)

LEMMA InitInv ==
  ASSUME Init
  PROVE  IInv
<1>1. TypeOK
  <2>1. order \in [1..NBUF -> Buf]
    BY BcacheAssumption DEF Init, Buf
  <2>2. pc \in [Proc -> PCs] /\ b \in [Proc -> Buf \cup {NoBuf}] /\ holds \in [Proc -> SUBSET Buf]
    BY DEF Init, PCs
  <2>3. valid \in [Buf -> BOOLEAN] /\ locked \in [Buf -> BOOLEAN]
    BY DEF Init
  <2>4. /\ disk \in [Block -> Val] /\ blockno \in [Buf -> Block \cup {NoBlock}]
        /\ refcnt \in [Buf -> Int] /\ data \in [Buf -> Val]
        /\ pid \in [Buf -> Proc \cup {NoProc}]
        /\ pinned \in SUBSET Block /\ dirty \in SUBSET Buf
    BY DEF Init
  <2> QED
    BY <2>1, <2>2, <2>3, <2>4 DEF TypeOK
<1>2. LocalInv /\ OneBufferPerBlock /\ SleepLocks /\ BlockInv /\ DataInv
  BY BcacheAssumption DEF Init, LocalInv, OneBufferPerBlock, SleepLocks, BlockInv, DataInv, Buf
<1>3. RefcntExact
  <2>1. \A x \in Buf : Users(x) = {} /\ PinOf(x) = 0 /\ refcnt[x] = 0
    BY BcacheAssumption DEF Init, Users, PinOf, Buf
  <2>2. Cardinality({}) = 0
    BY FS_EmptySet
  <2> QED
    BY <2>1, <2>2, RefIs
<1> QED
  BY <1>1, <1>2, <1>3 DEF IInv

\* A step that counts nothing and lets nobody gain or lose a buffer.
LEMMA RefKept ==
  ASSUME IInv, refcnt' = refcnt,
         \A x \in Buf : Users(x)' = Users(x) /\ PinOf(x)' = PinOf(x)
  PROVE  RefcntExact'
  BY RefIs, RefIsNext DEF IInv

\* Who is on the way to a buffer has one, which it does not hold yet.
LEMMA LocalBuf ==
  ASSUME IInv, NEW p \in Proc, pc[p] # "idle"
  PROVE  b[p] \in Buf /\ b[p] \notin holds[p] /\ blockno[b[p]] \in Block
  BY DEF IInv, TypeOK, LocalInv, BlockInv

LEMMA Update ==
  ASSUME NEW S, NEW T, NEW f \in [S -> T], NEW x \in S, NEW v \in T
  PROVE  /\ [f EXCEPT ![x] = v] \in [S -> T]
         /\ [f EXCEPT ![x] = v][x] = v
         /\ \A y \in S : y # x => [f EXCEPT ![x] = v][y] = f[y]
  OBVIOUS

LEMMA AcquireSleepStep ==
  ASSUME IInv, NEW p \in Proc, AcquireSleep(p)
  PROVE  IInv' /\ HolderStep
<1>t. TypeOK
  BY DEF IInv
<1>0. /\ pc[p] = "acquiresleep"
      /\ UNCHANGED <<disk, blockno, valid, data, refcnt, order, pinned, dirty, b, holds, panicked>>
  BY DEF AcquireSleep, At, bufVars
<1>b. b[p] \in Buf /\ b[p] \notin holds[p]
  BY <1>0, LocalBuf
<1>1. \/ locked[b[p]] /\ locked' = locked /\ pid' = pid /\ pc' = [pc EXCEPT ![p] = "asleep"]
      \/ /\ ~locked[b[p]] /\ locked' = [locked EXCEPT ![b[p]] = TRUE]
         /\ pid' = [pid EXCEPT ![b[p]] = p] /\ pc' = [pc EXCEPT ![p] = "bread"]
  BY DEF AcquireSleep, Goto
<1>2. TypeOK'
  <2>1. CASE locked' = locked /\ pid' = pid /\ pc' = [pc EXCEPT ![p] = "asleep"]
    BY <1>t, <1>0, <2>1, Update DEF TypeOK, PCs
  <2>2. CASE /\ locked' = [locked EXCEPT ![b[p]] = TRUE]
             /\ pid' = [pid EXCEPT ![b[p]] = p] /\ pc' = [pc EXCEPT ![p] = "bread"]
    <3>1. locked' \in [Buf -> BOOLEAN]
      BY <1>t, <1>b, <2>2, Update DEF TypeOK
    <3>2. pid' \in [Buf -> Proc \cup {NoProc}]
      BY <1>t, <1>b, <2>2 DEF TypeOK
    <3>3. pc' \in [Proc -> PCs]
      BY <1>t, <2>2 DEF TypeOK, PCs
    <3> QED
      BY <1>t, <1>0, <3>1, <3>2, <3>3 DEF TypeOK
  <2> QED
    BY <1>1, <2>1, <2>2
<1>3. SleepLocks'
  <2>1. CASE locked[b[p]] /\ locked' = locked /\ pid' = pid /\ pc' = [pc EXCEPT ![p] = "asleep"]
    BY <1>t, <1>0, <2>1 DEF IInv, SleepLocks, TypeOK
  <2>2. CASE /\ ~locked[b[p]] /\ locked' = [locked EXCEPT ![b[p]] = TRUE]
             /\ pid' = [pid EXCEPT ![b[p]] = p] /\ pc' = [pc EXCEPT ![p] = "bread"]
    <3>1. ASSUME NEW q \in Proc, NEW x \in Buf, x \in holds[q] \/ (pc'[q] = "bread" /\ b[q] = x)
          PROVE  locked'[x] /\ pid'[x] = q
      <4>1. CASE q = p /\ x = b[p]
        BY <1>t, <1>b, <2>2, <4>1 DEF TypeOK
      <4>2. CASE q # p \/ x # b[p]
        <5>1. locked[x] /\ pid[x] = q
          BY <1>t, <2>2, <3>1, <4>2 DEF IInv, SleepLocks, TypeOK
        <5>2. x # b[p]
          BY <2>2, <5>1
        <5> QED
          BY <1>t, <2>2, <5>1, <5>2 DEF TypeOK
      <4> QED
        BY <4>1, <4>2
    <3>2. ASSUME NEW q \in Proc, pc'[q] = "asleep" PROVE locked'[b[q]]
      <4>1. pc[q] = "asleep"
        BY <1>t, <2>2, <3>2 DEF TypeOK
      <4>2. locked[b[q]] /\ b[q] \in Buf
        BY <4>1, LocalBuf DEF IInv, SleepLocks
      <4> QED
        BY <1>t, <1>b, <2>2, <4>2, Update DEF TypeOK
    <3> QED
      BY <1>0, <3>1, <3>2 DEF SleepLocks
  <2> QED
    BY <1>1, <2>1, <2>2
<1>4. LocalInv'
  BY <1>t, <1>0, <1>1 DEF IInv, LocalInv, TypeOK
<1>5. RefcntExact'
  BY <1>0, RefKept DEF Users, PinOf
<1>6. BlockInv'
  BY <1>0 DEF IInv, BlockInv
<1>7. OneBufferPerBlock' /\ DataInv'
  BY <1>0 DEF IInv, OneBufferPerBlock, DataInv
<1>8. HolderStep
  BY <1>0, SameSeen
<1> QED
  BY <1>2, <1>3, <1>4, <1>5, <1>6, <1>7, <1>8 DEF IInv

LEMMA BgetCachedStep ==
  ASSUME IInv, NEW p \in Proc, NEW k \in Block, BgetCached(p, k)
  PROVE  IInv' /\ HolderStep
<1>t. TypeOK
  BY DEF IInv
<1>0. PICK x \in Buf : /\ blockno[x] = k /\ refcnt' = [refcnt EXCEPT ![x] = @ + 1]
                       /\ b' = [b EXCEPT ![p] = x]
  BY DEF BgetCached
<1>1. /\ pc[p] = "idle" /\ pc' = [pc EXCEPT ![p] = "acquiresleep"]
      /\ \A y \in holds[p] : blockno[y] < k
      /\ UNCHANGED <<disk, blockno, valid, data, order, locked, pid, pinned, dirty, holds, panicked>>
  BY DEF BgetCached, MayRead, At, Goto, bufVars
<1>2. x \notin holds[p] /\ b[p] = NoBuf /\ x # NoBuf
  <2>1. ~(k < k)
    BY BcacheAssumption
  <2> QED
    BY <1>0, <1>1, <2>1, BcacheAssumption DEF IInv, LocalInv, Buf
<1>3. TypeOK'
  BY <1>t, <1>0, <1>1 DEF TypeOK, PCs
<1>4. LocalInv'
  BY <1>t, <1>0, <1>1, <1>2 DEF IInv, LocalInv, TypeOK
<1>5. OneBufferPerBlock' /\ DataInv'
  BY <1>1 DEF IInv, OneBufferPerBlock, DataInv
<1>6. RefcntExact'
  <2>1. ASSUME NEW y \in Buf PROVE refcnt'[y] = Cardinality(Users(y)') + PinOf(y)'
    <3>0. refcnt[y] = Cardinality(Users(y)) + PinOf(y) /\ PinOf(y)' = PinOf(y)
      BY <1>1, RefIs DEF IInv, PinOf
    <3>1. CASE y = x
      <4>1. Users(y)' = Users(y) \cup {p} /\ p \notin Users(y) /\ Users(y) \in SUBSET Proc
        BY <1>t, <1>0, <1>1, <1>2, <3>1 DEF Users, TypeOK
      <4>2. Cardinality(Users(y)') = Cardinality(Users(y)) + 1 /\ Cardinality(Users(y)) \in Nat
        BY <4>1, Counts
      <4>3. refcnt'[y] = refcnt[y] + 1
        BY <1>t, <1>0, <3>1 DEF TypeOK
      <4>4. PinOf(y) \in {0, 1}
        BY DEF PinOf
      <4> QED
        BY <3>0, <4>2, <4>3, <4>4
    <3>2. CASE y # x
      <4>1. Users(y)' = Users(y)
        BY <1>t, <1>0, <1>1, <1>2, <3>2, BcacheAssumption DEF Users, TypeOK, Buf
      <4> QED
        BY <1>t, <1>0, <3>0, <3>2, <4>1 DEF TypeOK
    <3> QED
      BY <3>1, <3>2
  <2> QED
    BY <2>1, RefIsNext
<1>7. SleepLocks'
  BY <1>t, <1>0, <1>1 DEF IInv, SleepLocks, TypeOK
<1>8. BlockInv'
  BY <1>t, <1>0, <1>1 DEF IInv, BlockInv, TypeOK
<1>9. HolderStep
  BY <1>1, SameSeen
<1> QED
  BY <1>3, <1>4, <1>5, <1>6, <1>7, <1>8, <1>9 DEF IInv

LEMMA BgetRecycleStep ==
  ASSUME IInv, NEW p \in Proc, NEW k \in Block, BgetRecycle(p, k)
  PROVE  IInv' /\ HolderStep
<1>t. TypeOK
  BY DEF IInv
<1>0. PICK j \in 1..NBUF :
        /\ refcnt[order[j]] = 0
        /\ blockno' = [blockno EXCEPT ![order[j]] = k]
        /\ valid' = [valid EXCEPT ![order[j]] = FALSE]
        /\ refcnt' = [refcnt EXCEPT ![order[j]] = 1]
        /\ b' = [b EXCEPT ![p] = order[j]]
        /\ dirty' = dirty \ {order[j]}
  BY DEF BgetRecycle, Unused
<1>1. PICK x \in Buf : x = order[j]
  BY <1>t DEF TypeOK
<1>2. /\ refcnt[x] = 0
      /\ blockno' = [blockno EXCEPT ![x] = k] /\ valid' = [valid EXCEPT ![x] = FALSE]
      /\ refcnt' = [refcnt EXCEPT ![x] = 1] /\ b' = [b EXCEPT ![p] = x] /\ dirty' = dirty \ {x}
  BY <1>0, <1>1
<1>3. /\ pc[p] = "idle" /\ pc' = [pc EXCEPT ![p] = "acquiresleep"]
      /\ \A y \in Buf : blockno[y] # k
      /\ UNCHANGED <<disk, data, order, locked, pid, pinned, holds, panicked>>
  BY DEF BgetRecycle, MayRead, At, Goto, Cached
<1>4. /\ blockno[x] \notin pinned /\ b[p] = NoBuf /\ x # NoBuf
      /\ \A q \in Proc : b[q] # x /\ x \notin holds[q]
  BY <1>2, <1>3, UnusedIs, BcacheAssumption DEF IInv, LocalInv, Buf
<1>5. /\ blockno'[x] = k /\ ~valid'[x] /\ refcnt'[x] = 1
      /\ \A y \in Buf : y # x => blockno'[y] = blockno[y] /\ (valid'[y] <=> valid[y]) /\ refcnt'[y] = refcnt[y]
      /\ b'[p] = x /\ pc'[p] = "acquiresleep"
      /\ \A q \in Proc : q # p => b'[q] = b[q] /\ pc'[q] = pc[q]
  BY <1>t, <1>2, <1>3 DEF TypeOK
<1>6. k \notin pinned
  BY <1>3 DEF IInv, BlockInv
<1>7. TypeOK'
  <2>1. valid' \in [Buf -> BOOLEAN]
    BY <1>t, <1>2, Update DEF TypeOK
  <2>2. /\ blockno' \in [Buf -> Block \cup {NoBlock}] /\ refcnt' \in [Buf -> Int]
        /\ b' \in [Proc -> Buf \cup {NoBuf}] /\ pc' \in [Proc -> PCs] /\ dirty' \in SUBSET Buf
    BY <1>t, <1>2, <1>3 DEF TypeOK, PCs
  <2> QED
    BY <1>t, <1>3, <2>1, <2>2 DEF TypeOK
<1>8. LocalInv'
  BY <1>3, <1>4, <1>5 DEF IInv, LocalInv
<1>9. OneBufferPerBlock'
  BY <1>3, <1>5 DEF IInv, OneBufferPerBlock
<1>10. RefcntExact'
  <2>1. ASSUME NEW y \in Buf PROVE refcnt'[y] = Cardinality(Users(y)') + PinOf(y)'
    <3>1. CASE y = x
      <4>1. Users(y)' = {p} /\ PinOf(y)' = 0
        BY <1>3, <1>4, <1>5, <1>6, <3>1 DEF Users, PinOf
      <4>2. Cardinality({p}) = 1
        BY FS_Singleton
      <4> QED
        BY <1>5, <3>1, <4>1, <4>2
    <3>2. CASE y # x
      <4>1. refcnt[y] = Cardinality(Users(y)) + PinOf(y)
        BY RefIs DEF IInv
      <4>2. Users(y)' = Users(y) /\ PinOf(y)' = PinOf(y)
        BY <1>3, <1>4, <1>5, <3>2, BcacheAssumption DEF Users, PinOf, Buf
      <4> QED
        BY <1>5, <3>2, <4>1, <4>2
    <3> QED
      BY <3>1, <3>2
  <2> QED
    BY <2>1, RefIsNext
<1>11. SleepLocks'
  BY <1>3, <1>4, <1>5 DEF IInv, SleepLocks
<1>12. BlockInv'
  <2>1. ASSUME NEW q \in Proc
        PROVE  /\ b'[q] # NoBuf => blockno'[b'[q]] \in Block
               /\ \A y \in holds[q] : blockno'[y] \in Block /\ valid'[y]
    <3>1. ASSUME NEW y \in holds[q] PROVE blockno'[y] \in Block /\ valid'[y]
      <4>1. y \in Buf /\ y # x /\ blockno[y] \in Block /\ valid[y]
        BY <1>t, <1>4 DEF IInv, BlockInv, TypeOK
      <4> QED
        BY <1>5, <4>1
    <3>2. ASSUME b'[q] # NoBuf PROVE blockno'[b'[q]] \in Block
      <4>1. q # p => b'[q] \in Buf /\ b'[q] = b[q] /\ blockno[b[q]] \in Block
        BY <1>t, <1>4, <1>5, <3>2 DEF IInv, BlockInv, TypeOK
      <4> QED
        BY <1>4, <1>5, <4>1
    <3> QED
      BY <3>1, <3>2
  <2>2. ASSUME NEW l \in pinned PROVE \E y \in Buf : blockno'[y] = l /\ valid'[y]
    <3>1. PICK y \in Buf : blockno[y] = l /\ valid[y]
      BY DEF IInv, BlockInv
    <3>2. y # x
      BY <1>4, <3>1
    <3> QED
      BY <1>5, <3>1, <3>2
  <2> QED
    BY <1>3, <2>1, <2>2 DEF BlockInv
<1>13. DataInv'
  BY <1>2, <1>3, <1>5 DEF IInv, DataInv
<1>14. HolderStep
  <2> SUFFICES ASSUME NEW l \in Block, Seen(l)' # Seen(l)
               PROVE  \E y \in dirty \ dirty' : blockno[y] = l /\ l \notin pinned
    BY DEF HolderStep
  <2>1. \A y, z \in Buf : blockno[y] = l /\ blockno[z] = l => z = y
    BY BcacheAssumption DEF IInv, OneBufferPerBlock
  <2>2. CASE \E y \in Buf : y # x /\ blockno[y] = l /\ valid[y]
    <3>1. PICK y \in Buf : y # x /\ blockno[y] = l /\ valid[y]
      BY <2>2
    <3>2. Seen(l) = data[y]
      BY <2>1, <3>1, SeenHit
    <3>3. \A z \in Buf : blockno'[z] = l => z = y
      <4>1. k # l
        BY <1>3, <3>1
      <4> QED
        BY <1>5, <2>1, <3>1, <4>1
    <3>4. Seen(l)' = data'[y]
      BY <1>5, <3>1, <3>3, SeenHitNext
    <3> QED
      BY <1>3, <3>2, <3>4
  <2>3. CASE ~ \E y \in Buf : y # x /\ blockno[y] = l /\ valid[y]
    <3>1. Seen(l)' = disk[l]
      <4>1. \A y \in Buf : ~(blockno'[y] = l /\ valid'[y])
        BY <1>5, <2>3
      <4> QED
        BY <1>3, <4>1, SeenMissNext
    <3>2. blockno[x] = l /\ valid[x]
      <4> SUFFICES ASSUME ~(blockno[x] = l /\ valid[x]) PROVE Seen(l) = disk[l]
        BY <3>1
      <4> QED
        BY <2>3, SeenMiss
    <3>3. Seen(l) = data[x]
      BY <2>1, <3>2, SeenHit
    <3>4. x \in dirty
      BY <3>1, <3>2, <3>3 DEF IInv, DataInv
    <3> QED
      BY <1>2, <1>4, <3>2, <3>4
  <2> QED
    BY <2>2, <2>3
<1> QED
  BY <1>7, <1>8, <1>9, <1>10, <1>11, <1>12, <1>13, <1>14 DEF IInv

-----------------------------------------------------------------------------
(* bread(), bwrite(), brelse(), bpin() and bunpin() *)

LEMMA BreadStep ==
  ASSUME IInv, NEW p \in Proc, Bread(p)
  PROVE  IInv' /\ HolderStep
<1>t. TypeOK
  BY DEF IInv
<1>0. /\ pc[p] = "bread"
      /\ data' = IF valid[b[p]] THEN data ELSE [data EXCEPT ![b[p]] = disk[blockno[b[p]]]]
      /\ valid' = [valid EXCEPT ![b[p]] = TRUE]
      /\ holds' = [holds EXCEPT ![p] = @ \cup {b[p]}]
      /\ b' = [b EXCEPT ![p] = NoBuf] /\ pc' = [pc EXCEPT ![p] = "idle"]
      /\ UNCHANGED <<disk, blockno, refcnt, order, locked, pid, pinned, dirty, panicked>>
  BY DEF Bread, At, Goto
<1>1. PICK x \in Buf : x = b[p] /\ x \notin holds[p] /\ blockno[x] \in Block
  BY <1>0, LocalBuf
<1>2. /\ valid'[x]
      /\ \A y \in Buf : y # x => (valid'[y] <=> valid[y]) /\ data'[y] = data[y]
      /\ data'[x] = IF valid[x] THEN data[x] ELSE disk[blockno[x]]
      /\ b'[p] = NoBuf /\ pc'[p] = "idle" /\ holds'[p] = holds[p] \cup {x}
      /\ \A q \in Proc : q # p => b'[q] = b[q] /\ pc'[q] = pc[q] /\ holds'[q] = holds[q]
  BY <1>t, <1>0, <1>1, Update DEF TypeOK
<1>3. TypeOK'
  <2>1. valid' \in [Buf -> BOOLEAN]
    BY <1>t, <1>0, <1>1, Update DEF TypeOK
  <2>2. data' \in [Buf -> Val]
    <3>1. disk[blockno[x]] \in Val
      BY <1>t, <1>1 DEF TypeOK
    <3> QED
      BY <1>t, <1>0, <1>1, <3>1 DEF TypeOK
  <2>3. /\ b' \in [Proc -> Buf \cup {NoBuf}] /\ pc' \in [Proc -> PCs]
        /\ holds' \in [Proc -> SUBSET Buf]
    BY <1>t, <1>0, <1>1 DEF TypeOK, PCs
  <2> QED
    BY <1>t, <1>0, <2>1, <2>2, <2>3 DEF TypeOK
<1>4. LocalInv'
  <2>1. NoBuf \notin holds'[p]
    BY <1>t, <1>1, <1>2, BcacheAssumption DEF TypeOK, Buf
  <2> QED
    BY <1>2, <2>1 DEF IInv, LocalInv
<1>5. OneBufferPerBlock'
  BY <1>0 DEF IInv, OneBufferPerBlock
<1>6. RefcntExact'
  <2>1. ASSUME NEW y \in Buf, NEW q \in Proc
        PROVE  (b'[q] = y \/ y \in holds'[q]) <=> (b[q] = y \/ y \in holds[q])
    BY <1>1, <1>2, BcacheAssumption DEF Buf
  <2>2. \A y \in Buf : Users(y)' = Users(y)
    BY <2>1 DEF Users
  <2> QED
    BY <1>0, <2>2, RefKept DEF PinOf
<1>7. SleepLocks'
  <2>1. SleepLocks /\ UNCHANGED <<locked, pid>>
    BY <1>0 DEF IInv
  <2> QED
    BY <1>0, <1>1, <1>2, <2>1 DEF SleepLocks
<1>8. BlockInv'
  <2>1. ASSUME NEW q \in Proc
        PROVE  /\ b'[q] # NoBuf => blockno[b'[q]] \in Block
               /\ \A y \in holds'[q] : blockno[y] \in Block /\ valid'[y]
    <3>1. ASSUME NEW y \in holds'[q] PROVE blockno[y] \in Block /\ valid'[y]
      <4>1. CASE y = x
        BY <1>1, <1>2, <4>1
      <4>2. CASE y # x
        <5>0. y \in holds[q]
          BY <1>2, <4>2
        <5>1. y \in Buf /\ blockno[y] \in Block /\ valid[y]
          BY <1>t, <5>0 DEF IInv, BlockInv, TypeOK
        <5> QED
          BY <1>2, <4>2, <5>1
      <4> QED
        BY <4>1, <4>2
    <3>2. b'[q] # NoBuf => blockno[b'[q]] \in Block
      BY <1>2 DEF IInv, BlockInv
    <3> QED
      BY <3>1, <3>2
  <2>2. ASSUME NEW l \in pinned PROVE \E y \in Buf : blockno[y] = l /\ valid'[y]
    BY <1>2 DEF IInv, BlockInv
  <2> QED
    BY <1>0, <2>1, <2>2 DEF BlockInv
<1>9. DataInv'
  <2>1. ASSUME NEW y \in Buf, valid'[y], y \notin dirty PROVE data'[y] = disk[blockno[y]]
    BY <1>2, <2>1 DEF IInv, DataInv
  <2> QED
    BY <1>0, <2>1 DEF DataInv
<1>10. HolderStep
  <2> SUFFICES ASSUME NEW l \in Block PROVE Seen(l)' = Seen(l)
    BY DEF HolderStep
  <2>1. \A y, z \in Buf : blockno[y] = l /\ blockno[z] = l => z = y
    BY BcacheAssumption DEF IInv, OneBufferPerBlock
  <2>2. CASE \E y \in Buf : blockno[y] = l /\ valid'[y]
    <3>1. PICK y \in Buf : blockno[y] = l /\ valid'[y]
      BY <2>2
    <3>2. Seen(l)' = data'[y]
      <4>1. blockno'[y] = l /\ valid'[y] /\ \A z \in Buf : blockno'[z] = l => z = y
        BY <1>0, <2>1, <3>1
      <4> QED
        BY <4>1, SeenHitNext
    <3>3. CASE valid[y]
      <4>1. Seen(l) = data[y]
        BY <2>1, <3>1, <3>3, SeenHit
      <4> QED
        BY <1>2, <3>2, <3>3, <4>1
    <3>4. CASE ~valid[y]
      <4>1. Seen(l) = disk[l]
        BY <2>1, <3>1, <3>4, SeenMiss
      <4>2. y = x
        BY <1>2, <3>1, <3>4
      <4> QED
        BY <1>2, <3>1, <3>2, <3>4, <4>1, <4>2
    <3> QED
      BY <3>3, <3>4
  <2>3. CASE ~ \E y \in Buf : blockno[y] = l /\ valid'[y]
    <3>1. \A y \in Buf : ~(blockno[y] = l /\ valid[y])
      BY <1>2, <2>3
    <3>2. Seen(l)' = disk'[l]
      BY <1>0, <2>3, SeenMissNext
    <3>3. Seen(l) = disk[l]
      BY <3>1, SeenMiss
    <3> QED
      BY <1>0, <3>2, <3>3
  <2> QED
    BY <2>2, <2>3
<1> QED
  BY <1>3, <1>4, <1>5, <1>6, <1>7, <1>8, <1>9, <1>10 DEF IInv

\* What a process may do with a buffer it holds.
LEMMA Held ==
  ASSUME IInv, NEW p \in Proc, NEW x \in Buf, x \in holds[p]
  PROVE  /\ HoldingSleep(p, x) /\ blockno[x] \in Block /\ valid[x]
         /\ \A q \in Proc : x \in holds[q] \/ (pc[q] = "bread" /\ b[q] = x) => q = p
         /\ \A y \in Buf : blockno[y] = blockno[x] => y = x
<1>1. locked[x] /\ pid[x] = p /\ blockno[x] \in Block /\ valid[x]
  BY DEF IInv, SleepLocks, BlockInv
<1>2. \A q \in Proc : x \in holds[q] \/ (pc[q] = "bread" /\ b[q] = x) => pid[x] = q
  BY DEF IInv, SleepLocks
<1>3. \A y \in Buf : blockno[y] = blockno[x] => y = x
  BY <1>1, BcacheAssumption DEF IInv, OneBufferPerBlock
<1> QED
  BY <1>1, <1>2, <1>3 DEF HoldingSleep

LEMMA ModifyStep ==
  ASSUME IInv, NEW p \in Proc, NEW x \in Buf, NEW v \in Val, Modify(p, x, v)
  PROVE  IInv' /\ HolderStep
<1>t. TypeOK
  BY DEF IInv
<1>0. /\ x \in holds[p] /\ data' = [data EXCEPT ![x] = v] /\ dirty' = dirty \cup {x}
      /\ UNCHANGED <<disk, blockno, valid, refcnt, order, locked, pid, pinned, pc, b, holds, panicked>>
  BY DEF Modify
<1>1. TypeOK'
  BY <1>t, <1>0 DEF TypeOK
<1>2. LocalInv' /\ OneBufferPerBlock' /\ SleepLocks' /\ BlockInv'
  <2>1. LocalInv'
    BY <1>0 DEF IInv, LocalInv
  <2>2. OneBufferPerBlock'
    BY <1>0 DEF IInv, OneBufferPerBlock
  <2>3. SleepLocks'
    BY <1>0 DEF IInv, SleepLocks
  <2>4. BlockInv'
    BY <1>0 DEF IInv, BlockInv
  <2> QED
    BY <2>1, <2>2, <2>3, <2>4
<1>3. RefcntExact'
  BY <1>0, RefKept DEF Users, PinOf
<1>4. DataInv'
  <2>1. \A y \in Buf : y \notin dirty' => y \notin dirty /\ data'[y] = data[y]
    BY <1>t, <1>0 DEF TypeOK
  <2> QED
    BY <1>0, <2>1 DEF IInv, DataInv
<1>5. HolderStep
  <2> SUFFICES ASSUME NEW l \in Block, blockno[x] # l PROVE Seen(l)' = Seen(l)
    <3>1. valid[x] /\ x \in holds'[p]
      BY <1>0, Held
    <3> QED
      BY <1>0, <3>1 DEF HolderStep
  <2>1. \A y, z \in Buf : blockno[y] = l /\ blockno[z] = l => z = y
    BY BcacheAssumption DEF IInv, OneBufferPerBlock
  <2>2. CASE \E y \in Buf : blockno[y] = l /\ valid[y]
    <3>1. PICK y \in Buf : blockno[y] = l /\ valid[y]
      BY <2>2
    <3>2. Seen(l)' = data'[y]
      BY <1>0, <2>1, <3>1, SeenHitNext
    <3>3. Seen(l) = data[y]
      BY <2>1, <3>1, SeenHit
    <3>4. data'[y] = data[y]
      BY <1>t, <1>0, <3>1 DEF TypeOK
    <3> QED
      BY <3>2, <3>3, <3>4
  <2>3. CASE ~ \E y \in Buf : blockno[y] = l /\ valid[y]
    <3>1. Seen(l)' = disk'[l]
      BY <1>0, <2>3, SeenMissNext
    <3>2. Seen(l) = disk[l]
      BY <2>3, SeenMiss
    <3> QED
      BY <1>0, <3>1, <3>2
  <2> QED
    BY <2>2, <2>3
<1> QED
  BY <1>1, <1>2, <1>3, <1>4, <1>5 DEF IInv

LEMMA BwriteStep ==
  ASSUME IInv, NEW p \in Proc, NEW x \in Buf, Bwrite(p, x)
  PROVE  IInv' /\ HolderStep
<1>t. TypeOK
  BY DEF IInv
<1>h. x \in holds[p]
  BY DEF Bwrite
<1>0. /\ disk' = [disk EXCEPT ![blockno[x]] = data[x]] /\ dirty' = dirty \ {x}
      /\ UNCHANGED <<blockno, valid, data, refcnt, order, locked, pid, pinned, pc, b, holds>>
  BY <1>h, Held DEF Bwrite, bufVars
<1>1. TypeOK'
  BY <1>t, <1>0, <1>h, Held DEF TypeOK
<1>2. LocalInv' /\ OneBufferPerBlock' /\ SleepLocks' /\ BlockInv'
  <2>1. LocalInv'
    BY <1>0 DEF IInv, LocalInv
  <2>2. OneBufferPerBlock'
    BY <1>0 DEF IInv, OneBufferPerBlock
  <2>3. SleepLocks'
    BY <1>0 DEF IInv, SleepLocks
  <2>4. BlockInv'
    BY <1>0 DEF IInv, BlockInv
  <2> QED
    BY <2>1, <2>2, <2>3, <2>4
<1>3. RefcntExact'
  BY <1>0, RefKept DEF Users, PinOf
<1>4. DataInv'
  <2>1. ASSUME NEW y \in Buf, valid[y], y \notin dirty' PROVE data[y] = disk'[blockno[y]]
    <3>1. CASE y = x
      BY <1>t, <1>0, <1>h, <3>1, Held DEF TypeOK
    <3>2. CASE y # x
      <4>1. blockno[y] # blockno[x] /\ data[y] = disk[blockno[y]]
        BY <1>0, <1>h, <2>1, <3>2, Held DEF IInv, DataInv
      <4> QED
        BY <1>t, <1>0, <4>1 DEF TypeOK
    <3> QED
      BY <3>1, <3>2
  <2> QED
    BY <1>0, <2>1 DEF DataInv
<1>5. HolderStep
  <2> SUFFICES ASSUME NEW l \in Block, blockno[x] # l PROVE Seen(l)' = Seen(l)
    <3>1. valid[x] /\ x \in holds'[p]
      BY <1>0, <1>h, Held
    <3> QED
      BY <1>h, <3>1 DEF HolderStep
  <2>1. disk'[l] = disk[l]
    BY <1>t, <1>0 DEF TypeOK
  <2> QED
    BY <1>0, <2>1 DEF Seen
<1> QED
  BY <1>1, <1>2, <1>3, <1>4, <1>5 DEF IInv

LEMMA BpinStep ==
  ASSUME IInv, NEW p \in Proc, NEW x \in Buf, Bpin(p, x)
  PROVE  IInv' /\ HolderStep
<1>t. TypeOK
  BY DEF IInv
<1>0. /\ x \in holds[p] /\ blockno[x] \notin pinned
      /\ pinned' = pinned \cup {blockno[x]} /\ refcnt' = [refcnt EXCEPT ![x] = @ + 1]
      /\ UNCHANGED <<disk, blockno, valid, data, order, locked, pid, dirty, pc, b, holds>>
  BY DEF Bpin, bufVars
<1>h. blockno[x] \in Block /\ valid[x] /\ \A y \in Buf : blockno[y] = blockno[x] => y = x
  BY <1>0, Held
<1>1. TypeOK'
  BY <1>t, <1>0, <1>h DEF TypeOK
<1>2. LocalInv' /\ OneBufferPerBlock' /\ SleepLocks' /\ DataInv'
  <2>1. LocalInv'
    BY <1>0 DEF IInv, LocalInv
  <2>2. OneBufferPerBlock'
    BY <1>0 DEF IInv, OneBufferPerBlock
  <2>3. SleepLocks'
    BY <1>0 DEF IInv, SleepLocks
  <2>4. DataInv'
    BY <1>0 DEF IInv, DataInv
  <2> QED
    BY <2>1, <2>2, <2>3, <2>4
<1>3. RefcntExact'
  <2>1. ASSUME NEW y \in Buf PROVE refcnt'[y] = Cardinality(Users(y)') + PinOf(y)'
    <3>1. refcnt[y] = Cardinality(Users(y)) + PinOf(y) /\ Users(y)' = Users(y)
      BY <1>0, RefIs DEF IInv, Users
    <3>2. Cardinality(Users(y)) \in Nat
      BY Counts DEF Users
    <3>3. CASE y = x
      <4>1. PinOf(y) = 0 /\ PinOf(y)' = 1 /\ refcnt'[y] = refcnt[y] + 1
        BY <1>t, <1>0, <3>3 DEF PinOf, TypeOK
      <4> QED
        BY <3>1, <3>2, <4>1
    <3>4. CASE y # x
      <4>1. PinOf(y)' = PinOf(y) /\ refcnt'[y] = refcnt[y]
        BY <1>t, <1>0, <1>h, <3>4 DEF PinOf, TypeOK
      <4> QED
        BY <3>1, <4>1
    <3> QED
      BY <3>3, <3>4
  <2> QED
    BY <2>1, RefIsNext
<1>4. BlockInv'
  BY <1>0, <1>h DEF IInv, BlockInv
<1> QED
  BY <1>0, <1>1, <1>2, <1>3, <1>4, SameSeen DEF IInv

LEMMA BunpinStep ==
  ASSUME IInv, NEW p \in Proc, NEW x \in Buf, Bunpin(p, x)
  PROVE  IInv' /\ HolderStep
<1>t. TypeOK
  BY DEF IInv
<1>0. /\ x \in holds[p] /\ blockno[x] \in pinned
      /\ pinned' = pinned \ {blockno[x]} /\ refcnt' = [refcnt EXCEPT ![x] = @ - 1]
      /\ UNCHANGED <<disk, blockno, valid, data, order, locked, pid, dirty, pc, b, holds>>
  BY DEF Bunpin, bufVars
<1>h. \A y \in Buf : blockno[y] = blockno[x] => y = x
  BY <1>0, Held
<1>1. TypeOK'
  BY <1>t, <1>0 DEF TypeOK
<1>2. LocalInv' /\ OneBufferPerBlock' /\ SleepLocks' /\ DataInv'
  <2>1. LocalInv'
    BY <1>0 DEF IInv, LocalInv
  <2>2. OneBufferPerBlock'
    BY <1>0 DEF IInv, OneBufferPerBlock
  <2>3. SleepLocks'
    BY <1>0 DEF IInv, SleepLocks
  <2>4. DataInv'
    BY <1>0 DEF IInv, DataInv
  <2> QED
    BY <2>1, <2>2, <2>3, <2>4
<1>3. RefcntExact'
  <2>1. ASSUME NEW y \in Buf PROVE refcnt'[y] = Cardinality(Users(y)') + PinOf(y)'
    <3>1. refcnt[y] = Cardinality(Users(y)) + PinOf(y) /\ Users(y)' = Users(y)
      BY <1>0, RefIs DEF IInv, Users
    <3>2. Cardinality(Users(y)) \in Nat
      BY Counts DEF Users
    <3>3. CASE y = x
      <4>1. PinOf(y) = 1 /\ PinOf(y)' = 0 /\ refcnt'[y] = refcnt[y] - 1
        BY <1>t, <1>0, <3>3 DEF PinOf, TypeOK
      <4> QED
        BY <3>1, <3>2, <4>1
    <3>4. CASE y # x
      <4>1. PinOf(y)' = PinOf(y) /\ refcnt'[y] = refcnt[y]
        BY <1>t, <1>0, <1>h, <3>4 DEF PinOf, TypeOK
      <4> QED
        BY <3>1, <4>1
    <3> QED
      BY <3>3, <3>4
  <2> QED
    BY <2>1, RefIsNext
<1>4. BlockInv'
  BY <1>0 DEF IInv, BlockInv
<1> QED
  BY <1>0, <1>1, <1>2, <1>3, <1>4, SameSeen DEF IInv

LEMMA BrelseUnlockStep ==
  ASSUME IInv, NEW p \in Proc, NEW x \in Buf, BrelseUnlock(p, x)
  PROVE  IInv' /\ HolderStep
<1>t. TypeOK
  BY DEF IInv
<1>0. /\ pc[p] = "idle" /\ x \in holds[p]
      /\ locked' = [locked EXCEPT ![x] = FALSE] /\ pid' = [pid EXCEPT ![x] = NoProc]
      /\ pc' = [q \in Proc |-> IF q = p THEN "brelse"
                               ELSE IF WakesSleeper(q, x) THEN "acquiresleep" ELSE pc[q]]
      /\ holds' = [holds EXCEPT ![p] = @ \ {x}] /\ b' = [b EXCEPT ![p] = x]
      /\ UNCHANGED <<disk, blockno, valid, data, refcnt, order, pinned, dirty>>
  BY DEF BrelseUnlock, ReleaseSleep, At, bufVars
<1>h. /\ blockno[x] \in Block
      /\ \A q \in Proc : x \in holds[q] \/ (pc[q] = "bread" /\ b[q] = x) => q = p
  BY <1>0, Held
<1>1. /\ holds'[p] = holds[p] \ {x} /\ b'[p] = x /\ pc'[p] = "brelse"
      /\ \A q \in Proc : q # p => holds'[q] = holds[q] /\ b'[q] = b[q]
      /\ \A q \in Proc : q # p => pc'[q] = IF WakesSleeper(q, x) THEN "acquiresleep" ELSE pc[q]
      /\ b[p] = NoBuf /\ x # NoBuf
  BY <1>t, <1>0, BcacheAssumption DEF IInv, LocalInv, TypeOK, Buf
<1>2. TypeOK'
  <2>1. locked' \in [Buf -> BOOLEAN]
    BY <1>t, <1>0, Update DEF TypeOK
  <2>2. pid' \in [Buf -> Proc \cup {NoProc}]
    BY <1>t, <1>0 DEF TypeOK
  <2>3. pc' \in [Proc -> PCs]
    BY <1>t, <1>0 DEF TypeOK, PCs
  <2>4. holds' \in [Proc -> SUBSET Buf] /\ b' \in [Proc -> Buf \cup {NoBuf}]
    BY <1>t, <1>0 DEF TypeOK
  <2> QED
    BY <1>t, <1>0, <2>1, <2>2, <2>3, <2>4 DEF TypeOK
<1>3. LocalInv'
  BY <1>1 DEF IInv, LocalInv, WakesSleeper
<1>4. OneBufferPerBlock' /\ DataInv'
  BY <1>0 DEF IInv, OneBufferPerBlock, DataInv
<1>5. RefcntExact'
  <2>1. \A y \in Buf : Users(y)' = Users(y)
    BY <1>0, <1>1, BcacheAssumption DEF Users, Buf
  <2> QED
    BY <1>0, <2>1, RefKept DEF PinOf
<1>6. SleepLocks'
  <2>0. \A y \in Buf : y # x => (locked'[y] <=> locked[y]) /\ pid'[y] = pid[y]
    BY <1>t, <1>0 DEF TypeOK
  <2>1. ASSUME NEW q \in Proc, NEW y \in Buf, y \in holds'[q] \/ (pc'[q] = "bread" /\ b'[q] = y)
        PROVE  locked'[y] /\ pid'[y] = q
    <3>1. y # x /\ (y \in holds[q] \/ (pc[q] = "bread" /\ b[q] = y))
      BY <1>1, <1>h, <2>1
    <3> QED
      BY <2>0, <3>1 DEF IInv, SleepLocks
  <2>2. ASSUME NEW q \in Proc, pc'[q] = "asleep" PROVE locked'[b'[q]]
    <3>1. q # p /\ pc[q] = "asleep" /\ b[q] # x
      BY <1>1, <2>2 DEF WakesSleeper
    <3>2. b[q] \in Buf /\ locked[b[q]]
      BY <3>1, LocalBuf DEF IInv, SleepLocks
    <3> QED
      BY <1>1, <2>0, <3>1, <3>2
  <2> QED
    BY <2>1, <2>2 DEF SleepLocks
<1>7. BlockInv'
  <2>1. ASSUME NEW q \in Proc
        PROVE  /\ b'[q] # NoBuf => blockno[b'[q]] \in Block
               /\ \A y \in holds'[q] : blockno[y] \in Block /\ valid[y]
    BY <1>1, <1>h DEF IInv, BlockInv
  <2>2. \A k \in pinned : \E y \in Buf : blockno[y] = k /\ valid[y]
    BY DEF IInv, BlockInv
  <2> QED
    BY <1>0, <2>1, <2>2 DEF BlockInv
<1> QED
  BY <1>0, <1>2, <1>3, <1>4, <1>5, <1>6, <1>7, SameSeen DEF IInv

LEMMA BrelseStep ==
  ASSUME IInv, NEW p \in Proc, Brelse(p)
  PROVE  IInv' /\ HolderStep
<1>t. TypeOK
  BY DEF IInv
<1>0. /\ pc[p] = "brelse" /\ pc' = [pc EXCEPT ![p] = "idle"]
      /\ refcnt' = [refcnt EXCEPT ![b[p]] = @ - 1] /\ b' = [b EXCEPT ![p] = NoBuf]
      /\ order' = IF refcnt[b[p]] = 1 THEN MoveToFront(b[p]) ELSE order
      /\ UNCHANGED <<disk, blockno, valid, data, locked, pid, pinned, dirty, holds>>
  BY DEF Brelse, At, Goto, bufVars
<1>u. UNCHANGED <<blockno, valid, locked, pid, pinned, holds>>
  BY <1>0
<1>1. PICK x \in Buf : x = b[p] /\ x \notin holds[p]
  BY <1>0, LocalBuf
<1>2. /\ b'[p] = NoBuf /\ pc'[p] = "idle"
      /\ \A q \in Proc : q # p => b'[q] = b[q] /\ pc'[q] = pc[q]
  BY <1>t, <1>0 DEF TypeOK
<1>3. TypeOK'
  <2>1. MoveToFront(x) \in [1..NBUF -> Buf]
    BY <1>t, BcacheAssumption DEF MoveToFront, TypeOK
  <2>2. order' \in [1..NBUF -> Buf]
    BY <1>t, <1>0, <1>1, <2>1 DEF TypeOK
  <2>3. refcnt' \in [Buf -> Int] /\ b' \in [Proc -> Buf \cup {NoBuf}] /\ pc' \in [Proc -> PCs]
    BY <1>t, <1>0, <1>1 DEF TypeOK, PCs
  <2> QED
    BY <1>t, <1>0, <2>2, <2>3 DEF TypeOK
<1>4. LocalInv'
  <2>1. NoBuf \notin holds[p]
    BY <1>t, BcacheAssumption DEF TypeOK, Buf
  <2>2. LocalInv
    BY DEF IInv
  <2> QED
    BY <1>u, <1>2, <2>1, <2>2 DEF LocalInv
<1>5. OneBufferPerBlock' /\ DataInv'
  BY <1>0 DEF IInv, OneBufferPerBlock, DataInv
<1>6. RefcntExact'
  <2>1. ASSUME NEW y \in Buf PROVE refcnt'[y] = Cardinality(Users(y)') + PinOf(y)'
    <3>0. refcnt[y] = Cardinality(Users(y)) + PinOf(y) /\ PinOf(y)' = PinOf(y)
      BY <1>0, RefIs DEF IInv, PinOf
    <3>1. CASE y = x
      <4>1. Users(y)' = Users(y) \ {p} /\ p \in Users(y) /\ Users(y) \in SUBSET Proc
        BY <1>0, <1>1, <1>2, <3>1, BcacheAssumption DEF Users, Buf
      <4>2. Cardinality(Users(y)') = Cardinality(Users(y)) - 1 /\ Cardinality(Users(y)) \in Nat
        BY <4>1, Counts
      <4>3. refcnt'[y] = refcnt[y] - 1
        BY <1>t, <1>0, <1>1, <3>1 DEF TypeOK
      <4>4. PinOf(y) \in {0, 1}
        BY DEF PinOf
      <4> QED
        BY <3>0, <4>2, <4>3, <4>4
    <3>2. CASE y # x
      <4>1. Users(y)' = Users(y)
        BY <1>0, <1>1, <1>2, <3>2, BcacheAssumption DEF Users, Buf
      <4> QED
        BY <1>t, <1>0, <1>1, <3>0, <3>2, <4>1 DEF TypeOK
    <3> QED
      BY <3>1, <3>2
  <2> QED
    BY <2>1, RefIsNext
<1>7. SleepLocks'
  <2>1. SleepLocks
    BY DEF IInv
  <2>2. ASSUME NEW q \in Proc
        PROVE  /\ \A y \in Buf : y \in holds[q] \/ (pc'[q] = "bread" /\ b'[q] = y)
                                 => locked[y] /\ pid[y] = q
               /\ pc'[q] = "asleep" => locked[b'[q]]
    <3>1. /\ \A y \in Buf : y \in holds[q] \/ (pc[q] = "bread" /\ b[q] = y) => locked[y] /\ pid[y] = q
          /\ pc[q] = "asleep" => locked[b[q]]
      BY <2>1 DEF SleepLocks
    <3>2. CASE q = p
      BY <1>2, <3>1, <3>2
    <3>3. CASE q # p
      BY <1>2, <3>1, <3>3
    <3> QED
      BY <3>2, <3>3
  <2> QED
    BY <1>u, <2>2 DEF SleepLocks
<1>8. BlockInv'
  <2>1. BlockInv
    BY DEF IInv
  <2> QED
    BY <1>u, <1>2, <2>1 DEF BlockInv
<1> QED
  BY <1>0, <1>3, <1>4, <1>5, <1>6, <1>7, <1>8, SameSeen DEF IInv

\* bget() that panics, and no step at all.
LEMMA SameState ==
  ASSUME IInv, UNCHANGED <<disk, blockno, valid, refcnt, data, order, locked, pid, pinned,
                           dirty, pc, b, holds>>
  PROVE  IInv' /\ HolderStep
<1>1. TypeOK'
  BY DEF IInv, TypeOK
<1>2. RefcntExact'
  BY RefKept DEF Users, PinOf
<1>3. LocalInv' /\ OneBufferPerBlock'
  BY DEF IInv, LocalInv, OneBufferPerBlock
<1>4. SleepLocks' /\ BlockInv' /\ DataInv'
  BY DEF IInv, SleepLocks, BlockInv, DataInv
<1> QED
  BY <1>1, <1>2, <1>3, <1>4, SameSeen DEF IInv

-----------------------------------------------------------------------------
(* The theorems *)

LEMMA NextStep ==
  ASSUME IInv, [Next]_vars
  PROVE  IInv' /\ HolderStep
<1>1. CASE UNCHANGED vars
  BY <1>1, SameState DEF vars
<1>2. CASE Next
  <2>1. PICK p \in Proc :
          \/ AcquireSleep(p) \/ Bread(p) \/ Brelse(p)
          \/ \E k \in Block : BgetCached(p, k) \/ BgetRecycle(p, k) \/ BgetPanic(p, k)
          \/ \E x \in Buf : Bwrite(p, x) \/ Bpin(p, x) \/ Bunpin(p, x) \/ BrelseUnlock(p, x)
          \/ \E x \in Buf, v \in Val : Modify(p, x, v)
    BY <1>2 DEF Next
  <2>2. ASSUME NEW k \in Block, BgetPanic(p, k) PROVE IInv' /\ HolderStep
    BY <2>2, SameState DEF BgetPanic, bufVars
  <2> QED
    BY <2>1, <2>2, AcquireSleepStep, BreadStep, BrelseStep, BgetCachedStep, BgetRecycleStep,
       BwriteStep, BpinStep, BunpinStep, BrelseUnlockStep, ModifyStep
<1> QED
  BY <1>1, <1>2

\* bget() never lets a block be in two buffers, for any number of buffers,
\* blocks and processes.
THEOREM BcacheOneBufferPerBlock == Spec => []OneBufferPerBlock
<1>1. Init => IInv
  BY InitInv
<1>2. IInv /\ [Next]_vars => IInv'
  BY NextStep
<1>3. IInv => OneBufferPerBlock
  BY DEF IInv
<1> QED
  BY <1>1, <1>2, <1>3, PTL DEF Spec

\* b->refcnt counts the processes between bget() and brelse() and the pins of
\* the log, exactly, for any number of buffers, blocks and processes.
THEOREM BcacheRefcntExact == Spec => []RefcntExact
<1>1. Init => IInv
  BY InitInv
<1>2. IInv /\ [Next]_vars => IInv'
  BY NextStep
<1>3. IInv => RefcntExact
  BY DEF IInv
<1> QED
  BY <1>1, <1>2, <1>3, PTL DEF Spec

\* acquiresleep() and releasesleep() give a buffer to one process at a time, and
\* who sleeps for one sleeps while it is taken, for any number of them.
THEOREM BcacheSleepLocks == Spec => []SleepLocks
<1>1. Init => IInv
  BY InitInv
<1>2. IInv /\ [Next]_vars => IInv'
  BY NextStep
<1>3. IInv => SleepLocks
  BY DEF IInv
<1> QED
  BY <1>1, <1>2, <1>3, PTL DEF Spec

\* What bread() of a block returns is changed by the holder of its buffer, and
\* by nothing that bget() does to the cache; only what was changed and neither
\* logged nor written is lost when the buffer is recycled.
THEOREM BcacheOnlyHolderChanges == Spec => OnlyHolderChanges
<1>1. Init => IInv
  BY InitInv
<1>2. IInv /\ [Next]_vars => IInv'
  BY NextStep
<1>3. IInv /\ [Next]_vars =>
        [\A k \in Block : Seen(k)' # Seen(k) =>
           \/ \E p \in Proc : \E x \in holds[p] : x \in holds'[p] /\ blockno[x] = k /\ valid[x]
           \/ \E x \in dirty \ dirty' : blockno[x] = k /\ k \notin pinned]_vars
  BY NextStep DEF HolderStep
<1> QED
  BY <1>1, <1>2, <1>3, PTL DEF Spec, OnlyHolderChanges
=============================================================================

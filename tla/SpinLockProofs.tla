--------------------------- MODULE SpinLockProofs ---------------------------
(***************************************************************************)
(* Mutual exclusion, absence of panics, restoration of the interrupt       *)
(* setting and absence of circular waits, for any number of CPUs and       *)
(* locks.                                                                  *)
(***************************************************************************)
EXTENDS SpinLock, FiniteSetTheorems, TLAPS

\* The steps of a CPU inside acquire() after push_off(), and inside release()
\* before the lock is given away.
Acquiring == {"acqHold1", "acqHold2", "spin", "own"}
Releasing == {"relHold1", "relHold2", "clear", "unlock"}

\* noff counts the locks held, and the push_off() that acquire() has done
\* before, or pop_off() is about to undo after, the lock is held.
CountInv(c) ==
  noff[c] = Cardinality(held[c]) + IF pc[c] \in Acquiring \cup {"pop"} THEN 1 ELSE 0

\* Interrupts are deliverable only outside locks, and never in a handler; a
\* CPU that has just read SIE in push_off() still has that setting.
MaskInv(c) ==
  /\ sie[c] => pc[c] \in {"run", "push"} /\ held[c] = {} /\ frame[c] = NoFrame
  /\ pc[c] = "push" => old[c] = sie[c]

\* A handler has interrupted code that held nothing and had interrupts on.
FrameInv(c) ==
  frame[c] # NoFrame =>
    /\ frame[c].pc \in {"run", "push"}
    /\ frame[c].held = {}
    /\ frame[c].pc = "push" => frame[c].old
    /\ want[c]

\* intena is the setting of the interrupted-or-not code outside all locks.
IntenaInv(c) ==
  /\ noff[c] > 0 => intena[c] = (frame[c] = NoFrame /\ want[c])
  /\ noff[c] = 0 => sie[c] = (frame[c] = NoFrame /\ want[c])

\* The argument of the call in progress.
ArgInv(c) ==
  /\ pc[c] \in Acquiring => lk[c] \in Lock
  /\ pc[c] \in Acquiring \cup {"push"} /\ lk[c] # NoLock => \A h \in held[c] : h < lk[c]
  /\ pc[c] \in Releasing => lk[c] \in held[c]

LocalInv(c) ==
  CountInv(c) /\ MaskInv(c) /\ FrameInv(c) /\ IntenaInv(c) /\ ArgInv(c)

\* c is past the amoswap of acquire(l) and before the store of release(l).
Has(c, l) == l \in held[c] \/ (pc[c] = "own" /\ lk[c] = l)

\* A lock that somebody has is locked, and nobody else has it.
OwnerInv ==
  \A c \in CPU : \A l \in Lock :
    Has(c, l) => locked[l] = 1 /\ \A d \in CPU : Has(d, l) => d = c

\* lk->cpu names c exactly while c holds the lock and has not cleared it.
LcpuInv ==
  \A c \in CPU : \A l \in Lock :
    lcpu[l] = c <=> l \in held[c] /\ ~(pc[c] = "unlock" /\ lk[c] = l)

IInv ==
  /\ TypeOK
  /\ NoPanic
  /\ \A c \in CPU : LocalInv(c)
  /\ OwnerInv
  /\ LcpuInv

-----------------------------------------------------------------------------
(* A step of one CPU leaves the private state of the others alone. *)

Untouched(d) ==
  /\ noff'[d] = noff[d] /\ intena'[d] = intena[d] /\ sie'[d] = sie[d]
  /\ pc'[d] = pc[d] /\ lk'[d] = lk[d] /\ old'[d] = old[d]
  /\ held'[d] = held[d] /\ frame'[d] = frame[d] /\ want'[d] = want[d]

LEMMA UntouchedLocal ==
  ASSUME NEW d \in CPU, LocalInv(d), Untouched(d)
  PROVE  LocalInv(d)'
  BY DEF LocalInv, Untouched, CountInv, MaskInv, FrameInv, IntenaInv, ArgInv

LEMMA StepUntouched ==
  ASSUME TypeOK, NEW c \in CPU, NEW d \in CPU, d # c, Step(c)
  PROVE  Untouched(d)
<1> USE DEF TypeOK, Untouched, Goto, At
<1>1. ASSUME NEW l \in Lock \cup {NoLock}, PushOffBegin(c, l) PROVE Untouched(d)
  BY <1>1 DEF PushOffBegin
<1>2. ASSUME NEW l \in Lock, ReleaseBegin(c, l) PROVE Untouched(d)
  BY <1>2 DEF ReleaseBegin, cpuVars
<1>3. CASE PushOff(c)
  BY <1>3 DEF PushOff, IntrOff, SaveIntena, Nest
<1>4. CASE PopOff(c)
  BY <1>4 DEF PopOff, Unmasks
<1>5. CASE Acquire(c)
  BY <1>5 DEF Acquire, AcquireHolding1, AcquireHolding2, TestAndSet, SetCpu, cpuVars
<1>6. CASE Release(c)
  BY <1>6 DEF Release, ReleaseHolding1, ReleaseHolding2, ClearCpu, Unlock, cpuVars
<1>7. CASE Interrupt(c)
  BY <1>7 DEF Interrupt
<1>8. CASE InterruptReturn(c)
  BY <1>8 DEF InterruptReturn
<1>9. ASSUME NEW on \in BOOLEAN, SetIntr(c, on) PROVE Untouched(d)
  BY <1>9 DEF SetIntr
<1> QED
  BY <1>1, <1>2, <1>3, <1>4, <1>5, <1>6, <1>7, <1>8, <1>9 DEF Step

LEMMA OthersLocal ==
  ASSUME IInv, NEW c \in CPU, Step(c), LocalInv(c)'
  PROVE  \A d \in CPU : LocalInv(d)'
  BY StepUntouched, UntouchedLocal DEF IInv

-----------------------------------------------------------------------------
(* Every step keeps the invariant. *)

LEMMA HeldFinite ==
  ASSUME TypeOK, NEW c \in CPU
  PROVE  /\ IsFiniteSet(held[c])
         /\ Cardinality(held[c]) \in Nat
         /\ Cardinality(held[c]) = 0 <=> held[c] = {}
  BY LockAssumption, FS_Subset, FS_CardinalityType, FS_EmptySet DEF TypeOK

\* With no lock held and no call in progress the nesting depth is 0.
LEMMA OutsideLocks ==
  ASSUME TypeOK, NEW c \in CPU, CountInv(c), held[c] = {}, pc[c] \in {"run", "push"}
  PROVE  noff[c] = 0
<1>1. Cardinality(held[c]) = 0
  BY HeldFinite
<1> QED
  BY <1>1 DEF CountInv, Acquiring

\* acquire() works on a lock that its CPU does not hold yet.
LEMMA FreshLock ==
  ASSUME NEW c \in CPU, ArgInv(c), pc[c] \in Acquiring
  PROVE  lk[c] \in Lock /\ lk[c] \notin held[c]
<1>1. lk[c] \in Lock /\ \A h \in held[c] : h < lk[c]
  BY LockAssumption DEF ArgInv
<1>2. lk[c] \in Nat
  BY <1>1, LockAssumption
<1>3. \A n \in Nat : ~(n < n)
  OBVIOUS
<1> QED
  BY <1>1, <1>2, <1>3

LEMMA PushOffBeginInv ==
  ASSUME IInv, NEW c \in CPU, NEW l \in Lock \cup {NoLock}, PushOffBegin(c, l)
  PROVE  IInv'
<1> USE DEF IInv, PushOffBegin, At, Goto
<1>1. TypeOK'
  BY DEF TypeOK, PCs
<1>2. LocalInv(c)'
  BY DEF TypeOK, LocalInv, CountInv, MaskInv, FrameInv, IntenaInv, ArgInv, Acquiring, Releasing
<1>3. Step(c)
  BY DEF Step
<1>4. OwnerInv' /\ LcpuInv'
  BY DEF TypeOK, OwnerInv, LcpuInv, Has
<1> QED
  BY <1>1, <1>2, <1>3, <1>4, OthersLocal DEF NoPanic

LEMMA PushOffInv ==
  ASSUME IInv, NEW c \in CPU, PushOff(c)
  PROVE  IInv'
<1>0. Cardinality(held[c]) \in Nat
  BY HeldFinite DEF IInv
<1> USE DEF IInv, PushOff, IntrOff, SaveIntena, Nest, At, Goto
<1>1. TypeOK'
  BY DEF TypeOK, PCs
<1>2. LocalInv(c)'
  <2> USE DEF TypeOK, LocalInv, CountInv, IntenaInv, MaskInv, ArgInv, Acquiring, Releasing
  <2>1. CountInv(c)'
    BY <1>0
  <2>2. IntenaInv(c)'
    <3>1. noff'[c] # 0
      OBVIOUS
    <3>2. intena'[c] = (frame[c] = NoFrame /\ want[c])
      <4>1. CASE noff[c] = 0
        BY <4>1
      <4>2. CASE noff[c] # 0
        BY <4>2
      <4> QED
        BY <4>1, <4>2
    <3> QED
      BY <3>1, <3>2
  <2>3. MaskInv(c)' /\ ArgInv(c)' /\ FrameInv(c)'
    BY DEF FrameInv
  <2> QED
    BY <2>1, <2>2, <2>3
<1>3. Step(c)
  BY DEF Step
<1>4. OwnerInv' /\ LcpuInv'
  BY DEF TypeOK, OwnerInv, LcpuInv, Has
<1> QED
  BY <1>1, <1>2, <1>3, <1>4, OthersLocal DEF NoPanic

LEMMA PopOffInv ==
  ASSUME IInv, NEW c \in CPU, PopOff(c)
  PROVE  IInv'
<1>a. Cardinality(held[c]) \in Nat /\ (Cardinality(held[c]) = 0 <=> held[c] = {})
  BY HeldFinite DEF IInv
<1> USE DEF IInv, PopOff, At, Goto
<1>0. noff[c] = Cardinality(held[c]) + 1 /\ noff[c] >= 1
  BY <1>a DEF LocalInv, CountInv, Acquiring
<1>b. sie[c] = FALSE
  BY DEF LocalInv, MaskInv, TypeOK
<1>1. TypeOK' /\ NoPanic'
  BY <1>0, <1>b DEF TypeOK, PCs, PanicIf, Unmasks, NoPanic
<1>2. LocalInv(c)'
  <2> USE DEF TypeOK, LocalInv, CountInv, IntenaInv, MaskInv, Unmasks
  <2>1. CountInv(c)'
    BY <1>0, <1>a DEF Acquiring
  <2>2. IntenaInv(c)'
    BY <1>0
  <2>3. MaskInv(c)'
    BY <1>0, <1>a
  <2>4. ArgInv(c)' /\ FrameInv(c)'
    BY DEF FrameInv, ArgInv, Acquiring, Releasing
  <2> QED
    BY <2>1, <2>2, <2>3, <2>4
<1>3. Step(c)
  BY DEF Step
<1>4. OwnerInv'
  BY DEF TypeOK, OwnerInv, Has
<1>5. LcpuInv'
  BY DEF TypeOK, LcpuInv
<1> QED
  BY <1>1, <1>2, <1>3, <1>4, <1>5, OthersLocal

LEMMA AcquireInv ==
  ASSUME IInv, NEW c \in CPU, Acquire(c)
  PROVE  IInv'
<1> USE DEF IInv, At, Goto, cpuVars
<1>0. Step(c)
  BY DEF Step
<1>1. CASE AcquireHolding1(c)
  <2> USE <1>1 DEF AcquireHolding1
  <2>1. TypeOK'
    BY DEF TypeOK, PCs
  <2>2. LocalInv(c)'
    BY DEF TypeOK, LocalInv, CountInv, MaskInv, FrameInv, IntenaInv, ArgInv, Acquiring, Releasing
  <2>3. OwnerInv' /\ LcpuInv'
    BY DEF TypeOK, OwnerInv, LcpuInv, Has
  <2> QED
    BY <1>0, <2>1, <2>2, <2>3, OthersLocal DEF NoPanic
<1>2. CASE AcquireHolding2(c)
  <2> USE <1>2 DEF AcquireHolding2
  <2>0. lcpu[lk[c]] # c
    BY FreshLock DEF LocalInv, LcpuInv, Acquiring
  <2>1. TypeOK' /\ NoPanic'
    BY <2>0 DEF TypeOK, PCs, NoPanic, PanicIf
  <2>2. LocalInv(c)'
    BY DEF TypeOK, LocalInv, CountInv, MaskInv, FrameInv, IntenaInv, ArgInv, Acquiring, Releasing
  <2>3. OwnerInv' /\ LcpuInv'
    BY DEF TypeOK, OwnerInv, LcpuInv, Has
  <2> QED
    BY <1>0, <2>1, <2>2, <2>3, OthersLocal
<1>3. CASE TestAndSet(c)
  <2> USE <1>3 DEF TestAndSet, LockFree
  <2>0. lk[c] \in Lock
    BY DEF LocalInv, ArgInv, Acquiring
  <2>1. TypeOK'
    BY <2>0 DEF TypeOK, PCs
  <2>2. LocalInv(c)'
    BY DEF TypeOK, LocalInv, CountInv, MaskInv, FrameInv, IntenaInv, ArgInv, Acquiring, Releasing
  <2>3. OwnerInv'
    BY <2>0 DEF TypeOK, OwnerInv, Has
  <2>4. LcpuInv'
    BY DEF TypeOK, LcpuInv
  <2> QED
    BY <1>0, <2>1, <2>2, <2>3, <2>4, OthersLocal DEF NoPanic
<1>4. CASE SetCpu(c)
  <2> USE <1>4 DEF SetCpu
  <2>0. lk[c] \in Lock /\ lk[c] \notin held[c]
    BY FreshLock DEF LocalInv, Acquiring
  <2>1. TypeOK'
    BY <2>0 DEF TypeOK, PCs
  <2>2. LocalInv(c)'
    <3>1. Cardinality(held[c] \cup {lk[c]}) = Cardinality(held[c]) + 1
      BY <2>0, HeldFinite, FS_AddElement
    <3>2. CountInv(c)'
      BY <3>1 DEF TypeOK, LocalInv, CountInv, Acquiring
    <3> QED
      BY <3>2 DEF TypeOK, LocalInv, MaskInv, FrameInv, IntenaInv, ArgInv, Acquiring, Releasing
  <2>3. OwnerInv'
    BY <2>0 DEF TypeOK, OwnerInv, Has
  <2>4. LcpuInv'
    <3>1. \A d \in CPU : lk[c] \in held[d] => d = c
      BY <2>0 DEF OwnerInv, Has
    <3> QED
      BY <2>0, <3>1 DEF TypeOK, LcpuInv
  <2> QED
    BY <1>0, <2>1, <2>2, <2>3, <2>4, OthersLocal DEF NoPanic
<1> QED
  BY <1>1, <1>2, <1>3, <1>4 DEF Acquire

LEMMA ReleaseBeginInv ==
  ASSUME IInv, NEW c \in CPU, NEW l \in Lock, ReleaseBegin(c, l)
  PROVE  IInv'
<1> USE DEF IInv, ReleaseBegin, At, Goto, cpuVars
<1>1. TypeOK'
  BY DEF TypeOK, PCs
<1>2. LocalInv(c)'
  BY DEF TypeOK, LocalInv, CountInv, MaskInv, FrameInv, IntenaInv, ArgInv, Acquiring, Releasing
<1>3. Step(c)
  BY DEF Step
<1>4. OwnerInv' /\ LcpuInv'
  BY DEF TypeOK, OwnerInv, LcpuInv, Has
<1> QED
  BY <1>1, <1>2, <1>3, <1>4, OthersLocal DEF NoPanic

LEMMA ReleaseInv ==
  ASSUME IInv, NEW c \in CPU, Release(c)
  PROVE  IInv'
<1>0. Step(c) /\ pc[c] \in Releasing
  BY DEF Step, Release, ReleaseHolding1, ReleaseHolding2, ClearCpu, Unlock, At, Releasing
<1>a. lk[c] \in held[c] /\ lk[c] \in Lock
  BY <1>0 DEF IInv, LocalInv, ArgInv, TypeOK
<1>b. locked[lk[c]] = 1
  BY <1>a DEF IInv, OwnerInv, Has
<1>c. \A d \in CPU : lk[c] \in held[d] => d = c
  BY <1>a DEF IInv, OwnerInv, Has
<1> USE DEF IInv, At, Goto, cpuVars
<1>1. CASE ReleaseHolding1(c)
  <2> USE <1>1 DEF ReleaseHolding1
  <2>1. TypeOK' /\ NoPanic'
    BY <1>b DEF TypeOK, PCs, NoPanic, PanicIf
  <2>2. LocalInv(c)'
    BY DEF TypeOK, LocalInv, CountInv, MaskInv, FrameInv, IntenaInv, ArgInv, Acquiring, Releasing
  <2>3. OwnerInv' /\ LcpuInv'
    BY DEF TypeOK, OwnerInv, LcpuInv, Has
  <2> QED
    BY <1>0, <2>1, <2>2, <2>3, OthersLocal
<1>2. CASE ReleaseHolding2(c)
  <2> USE <1>2 DEF ReleaseHolding2
  <2>0. lcpu[lk[c]] = c
    BY <1>a DEF LcpuInv
  <2>1. TypeOK' /\ NoPanic'
    BY <2>0 DEF TypeOK, PCs, NoPanic, PanicIf
  <2>2. LocalInv(c)'
    BY DEF TypeOK, LocalInv, CountInv, MaskInv, FrameInv, IntenaInv, ArgInv, Acquiring, Releasing
  <2>3. OwnerInv' /\ LcpuInv'
    BY DEF TypeOK, OwnerInv, LcpuInv, Has
  <2> QED
    BY <1>0, <2>1, <2>2, <2>3, OthersLocal
<1>3. CASE ClearCpu(c)
  <2> USE <1>3 DEF ClearCpu
  <2>1. TypeOK'
    BY <1>a DEF TypeOK, PCs
  <2>2. LocalInv(c)'
    BY DEF TypeOK, LocalInv, CountInv, MaskInv, FrameInv, IntenaInv, ArgInv, Acquiring, Releasing
  <2>3. OwnerInv'
    BY DEF TypeOK, OwnerInv, Has
  <2>4. LcpuInv'
    BY <1>a, <1>c, CpuAssumption DEF TypeOK, LcpuInv
  <2> QED
    BY <1>0, <2>1, <2>2, <2>3, <2>4, OthersLocal DEF NoPanic
<1>4. CASE Unlock(c)
  <2> USE <1>4 DEF Unlock
  <2>1. TypeOK'
    BY <1>a DEF TypeOK, PCs
  <2>2. LocalInv(c)'
    <3>1. Cardinality(held[c] \ {lk[c]}) = Cardinality(held[c]) - 1 /\ Cardinality(held[c]) \in Nat
      BY <1>a, HeldFinite, FS_RemoveElement
    <3>2. CountInv(c)'
      BY <3>1 DEF TypeOK, LocalInv, CountInv, Acquiring
    <3> QED
      BY <3>2 DEF TypeOK, LocalInv, MaskInv, FrameInv, IntenaInv, ArgInv, Acquiring, Releasing
  <2>3. OwnerInv'
    BY <1>a, <1>c DEF TypeOK, OwnerInv, Has
  <2>4. LcpuInv'
    BY <1>a, <1>c DEF TypeOK, LcpuInv
  <2> QED
    BY <1>0, <2>1, <2>2, <2>3, <2>4, OthersLocal DEF NoPanic
<1> QED
  BY <1>1, <1>2, <1>3, <1>4 DEF Release

LEMMA InterruptInv ==
  ASSUME IInv, NEW c \in CPU, Interrupt(c) \/ InterruptReturn(c)
  PROVE  IInv'
<1>0. Step(c)
  BY DEF Step
<1>a. held[c] = {} /\ pc[c] \in {"run", "push"} /\ noff[c] = 0
  BY OutsideLocks DEF IInv, LocalInv, MaskInv, Interrupt, InterruptReturn, At
<1>b. Cardinality({}) = 0
  BY FS_EmptySet
<1> USE DEF IInv, At, Goto
<1>1. CASE Interrupt(c)
  <2> USE <1>1 DEF Interrupt
  <2>0. /\ frame'[c] \in Frames /\ frame'[c] # NoFrame
        /\ frame'[c].pc = pc[c] /\ frame'[c].held = held[c] /\ frame'[c].old = old[c]
    BY FrameAssumption DEF TypeOK, Frames
  <2>1. TypeOK'
    BY <2>0 DEF TypeOK, PCs
  <2>2. LocalInv(c)'
    <3>1. held'[c] = {} /\ noff'[c] = 0 /\ pc'[c] = "run" /\ sie'[c] = FALSE
      BY <1>a DEF TypeOK, LocalInv, IntenaInv
    <3> HIDE DEF Interrupt, IInv
    <3>2. CountInv(c)'
      BY <3>1, <1>b DEF CountInv, Acquiring
    <3>3. FrameInv(c)'
      BY <1>a, <2>0 DEF Interrupt, IInv, FrameInv, LocalInv, MaskInv, IntenaInv, TypeOK
    <3>4. MaskInv(c)' /\ ArgInv(c)'
      BY <3>1 DEF MaskInv, ArgInv, Acquiring, Releasing
    <3>5. IntenaInv(c)'
      <4>1. ~(noff'[c] > 0)
        BY <3>1
      <4> QED
        BY <2>0, <3>1, <4>1, Zenon DEF IntenaInv
    <3> QED
      BY <3>2, <3>3, <3>4, <3>5 DEF LocalInv
  <2>3. OwnerInv' /\ LcpuInv'
    BY <1>a DEF TypeOK, OwnerInv, LcpuInv, Has
  <2> QED
    BY <1>0, <2>1, <2>2, <2>3, OthersLocal DEF NoPanic
<1>2. CASE InterruptReturn(c)
  <2> USE <1>2 DEF InterruptReturn
  <2>0. /\ frame[c] \in Frames
        /\ frame[c].held = {} /\ frame[c].pc \in {"run", "push"}
        /\ frame[c].pc = "push" => frame[c].old
        /\ want[c]
    BY DEF TypeOK, LocalInv, FrameInv
  <2>1. TypeOK'
    BY <2>0 DEF TypeOK, Frames
  <2>2. LocalInv(c)'
    <3>1. /\ held'[c] = {} /\ noff'[c] = 0 /\ pc'[c] = frame[c].pc /\ old'[c] = frame[c].old
          /\ sie'[c] = TRUE /\ want'[c] = TRUE /\ frame'[c] = NoFrame
      BY <1>a, <2>0 DEF TypeOK
    <3> HIDE DEF InterruptReturn, IInv
    <3>2. CountInv(c)'
      <4>1. pc'[c] \notin Acquiring \cup {"pop"}
        BY <3>1, <2>0 DEF Acquiring
      <4>2. Cardinality(held'[c]) = 0 /\ noff'[c] = 0
        BY <3>1, <1>b
      <4> QED
        BY <4>1, <4>2 DEF CountInv
    <3>3. MaskInv(c)'
      BY <2>0, <3>1 DEF MaskInv, Frames
    <3>4. FrameInv(c)' /\ IntenaInv(c)'
      <4>1. ~(noff'[c] > 0)
        BY <3>1
      <4> QED
        BY <3>1, <4>1, Zenon DEF FrameInv, IntenaInv
    <3>5. ArgInv(c)'
      BY <2>0, <3>1 DEF ArgInv, Acquiring, Releasing
    <3> QED
      BY <3>2, <3>3, <3>4, <3>5 DEF LocalInv
  <2>a. /\ held' = held /\ pc'[c] # "own" /\ pc'[c] # "unlock"
        /\ \A d \in CPU : d # c => pc'[d] = pc[d] /\ lk'[d] = lk[d]
    BY <1>a, <2>0 DEF TypeOK
  <2>3. OwnerInv'
    BY <1>a, <2>a DEF OwnerInv, Has
  <2>4. LcpuInv'
    BY <1>a, <2>a DEF LcpuInv
  <2> QED
    BY <1>0, <2>1, <2>2, <2>3, <2>4, OthersLocal DEF NoPanic
<1> QED
  BY <1>1, <1>2

LEMMA SetIntrInv ==
  ASSUME IInv, NEW c \in CPU, NEW on \in BOOLEAN, SetIntr(c, on)
  PROVE  IInv'
<1>0. Step(c)
  BY DEF Step
<1>a. noff[c] = 0
  BY OutsideLocks DEF IInv, LocalInv, SetIntr, At
<1> USE DEF IInv, At, Goto, SetIntr
<1>1. TypeOK'
  BY DEF TypeOK
<1>2. LocalInv(c)'
  BY <1>a DEF TypeOK, LocalInv, CountInv, MaskInv, FrameInv, IntenaInv, ArgInv, Acquiring, Releasing
<1>3. OwnerInv' /\ LcpuInv'
  BY DEF TypeOK, OwnerInv, LcpuInv, Has
<1> QED
  BY <1>0, <1>1, <1>2, <1>3, OthersLocal DEF NoPanic

-----------------------------------------------------------------------------
(* The theorems *)

LEMMA InitInv == Init => IInv
<1> SUFFICES ASSUME Init PROVE IInv
  OBVIOUS
<1> USE CpuAssumption, FS_EmptySet DEF Init
<1>1. TypeOK /\ NoPanic
  BY DEF TypeOK, PCs, NoPanic
<1>2. ASSUME NEW c \in CPU PROVE LocalInv(c)
  <2>1. CountInv(c)
    BY DEF CountInv, Acquiring
  <2>2. MaskInv(c) /\ FrameInv(c) /\ IntenaInv(c) /\ ArgInv(c)
    BY DEF MaskInv, FrameInv, IntenaInv, ArgInv, Acquiring, Releasing
  <2> QED
    BY <2>1, <2>2 DEF LocalInv
<1>3. OwnerInv /\ LcpuInv
  BY DEF OwnerInv, LcpuInv, Has
<1> QED
  BY <1>1, <1>2, <1>3 DEF IInv

LEMMA NextInv == IInv /\ [Next]_vars => IInv'
<1> SUFFICES ASSUME IInv, [Next]_vars PROVE IInv'
  OBVIOUS
<1>1. ASSUME NEW c \in CPU, Step(c) PROVE IInv'
  BY <1>1, PushOffBeginInv, ReleaseBeginInv, PushOffInv, PopOffInv, AcquireInv,
     ReleaseInv, InterruptInv, SetIntrInv DEF Step
<1>2. CASE UNCHANGED vars
  <2> USE <1>2 DEF vars, IInv
  <2>1. TypeOK' /\ NoPanic'
    BY DEF TypeOK, NoPanic
  <2>2. ASSUME NEW c \in CPU PROVE LocalInv(c)'
    <3>1. LocalInv(c) /\ Untouched(c)
      BY DEF Untouched
    <3> QED
      BY <3>1, UntouchedLocal
  <2>3. OwnerInv'
    BY DEF OwnerInv, Has
  <2>4. LcpuInv'
    BY DEF LcpuInv
  <2> QED
    BY <2>1, <2>2, <2>3, <2>4
<1> QED
  BY <1>1, <1>2 DEF Next

LEMMA InvImplies == IInv => MutualExclusion /\ NoPanic /\ IntrRestored
<1> SUFFICES ASSUME IInv PROVE MutualExclusion /\ NoPanic /\ IntrRestored
  OBVIOUS
<1>1. MutualExclusion
  BY DEF IInv, MutualExclusion, Owns, OwnerInv, Has, LocalInv, FrameInv
<1>2. IntrRestored
  BY OutsideLocks DEF IInv, IntrRestored, LocalInv, IntenaInv, TypeOK
<1> QED
  BY <1>1, <1>2 DEF IInv

\* A set of numbers has a least element, and a finite one a greatest.
LEMMA HasLeast ==
  ASSUME NEW T \in SUBSET Nat, T # {}
  PROVE  \E x \in T : \A y \in T : ~(y < x)
<1>1. PICK x \in T : \A y \in T : <<y, x>> \notin OpToRel(<, Nat)
  BY WFMin, NatLessThanWellFounded
<1>2. ASSUME NEW y \in T, y < x PROVE FALSE
  <2>1. <<y, x>> \in Nat \X Nat
    OBVIOUS
  <2>2. <<y, x>> \in OpToRel(<, Nat)
    BY <1>2, <2>1 DEF OpToRel
  <2> QED
    BY <1>1, <2>2
<1> QED
  BY <1>2

LEMMA HasGreatest ==
  ASSUME NEW T \in SUBSET Nat, IsFiniteSet(T), T # {}
  PROVE  \E x \in T : \A y \in T : ~(x < y)
<1> DEFINE Above(x) == {y \in T : x < y}
           Counts == {Cardinality(Above(x)) : x \in T}
<1>1. ASSUME NEW x \in T PROVE IsFiniteSet(Above(x)) /\ Cardinality(Above(x)) \in Nat
  <2>1. Above(x) \in SUBSET T
    OBVIOUS
  <2>2. IsFiniteSet(Above(x))
    BY <2>1, FS_Subset
  <2> QED
    BY <2>2, FS_CardinalityType
<1>2. Counts \in SUBSET Nat /\ Counts # {}
  BY <1>1
<1>3. PICK n \in Counts : \A m \in Counts : ~(m < n)
  <2> HIDE DEF Counts
  <2> QED
    BY <1>2, HasLeast
<1>4. PICK x \in T : n = Cardinality(Above(x))
  OBVIOUS
<1>5. ASSUME NEW y \in T, x < y PROVE FALSE
  <2>0. x \in Nat /\ y \in Nat /\ \A z \in T : z \in Nat
    OBVIOUS
  <2>a. \A z \in T : y < z => x < z
    BY <2>0, <1>5
  <2>b. ~(y < y)
    BY <2>0
  <2>1. Above(y) \in SUBSET Above(x) /\ y \in Above(x) /\ y \notin Above(y)
    BY <1>5, <2>a, <2>b, Zenon
  <2>2. Above(y) # Above(x)
    BY <2>1
  <2>3. Cardinality(Above(y)) \in Counts
    OBVIOUS
  <2> HIDE DEF Above, Counts
  <2>4. Cardinality(Above(y)) <= Cardinality(Above(x)) /\ Cardinality(Above(y)) # Cardinality(Above(x))
    BY <1>1, <2>1, <2>2, FS_Subset
  <2>5. ~(Cardinality(Above(y)) < Cardinality(Above(x)))
    BY <1>3, <1>4, <2>3
  <2> QED
    BY <1>1, <2>4, <2>5
<1> QED
  BY <1>5

\* Of the CPUs that spin, the one that waits for the greatest lock waits for
\* none of them: they hold only locks below the ones they ask for, and the code
\* under their handlers holds nothing.
LEMMA NoCircle == IInv => NoSpinDeadlock
<1> SUFFICES ASSUME IInv, NEW S \in SUBSET {c \in CPU : pc[c] = "spin"}, S # {}
             PROVE  \E c \in S : \A d \in S : ~Owns(d, lk[c])
  BY DEF NoSpinDeadlock
<1> DEFINE T == {lk[c] : c \in S}
<1>1. ASSUME NEW c \in S
      PROVE  /\ c \in CPU /\ pc[c] = "spin" /\ lk[c] \in Lock /\ lk[c] \in Nat
             /\ \A h \in held[c] : h \in Nat /\ h < lk[c]
             /\ frame[c] # NoFrame => frame[c].held = {}
  <2>1. c \in CPU /\ pc[c] = "spin" /\ ArgInv(c) /\ FrameInv(c) /\ held[c] \in SUBSET Lock
    BY DEF IInv, LocalInv, TypeOK
  <2>2. lk[c] \in Lock /\ \A h \in held[c] : h < lk[c]
    BY <2>1, LockAssumption DEF ArgInv, Acquiring
  <2> QED
    BY <2>1, <2>2, LockAssumption DEF FrameInv
<1>2. T \in SUBSET Lock /\ T # {}
  BY <1>1
<1>3. T \in SUBSET Nat /\ IsFiniteSet(T)
  BY <1>2, LockAssumption, FS_Subset
<1>4. PICK l \in T : \A m \in T : ~(l < m)
  <2> HIDE DEF T
  <2> QED
    BY <1>2, <1>3, HasGreatest
<1>5. PICK c \in S : lk[c] = l
  OBVIOUS
<1>6. ASSUME NEW d \in S PROVE ~Owns(d, lk[c])
  <2>1. ~(lk[c] < lk[d])
    BY <1>4, <1>5
  <2> QED
    BY <1>1, <2>1 DEF Owns
<1> QED
  BY <1>6

\* acquire() and release() give mutual exclusion, for any number of CPUs and
\* locks and whatever interrupts arrive.
THEOREM SpinLockMutualExclusion == Spec => []MutualExclusion
<1>1. Spec => []IInv
  BY InitInv, NextInv, PTL DEF Spec
<1> QED
  BY <1>1, InvImplies, PTL

\* No assertion of acquire(), release() or pop_off() ever fires: holding() is
\* exact for the CPU that asks, and the nesting count stays balanced.
THEOREM SpinLockNoPanic == Spec => []NoPanic
<1>1. Spec => []IInv
  BY InitInv, NextInv, PTL DEF Spec
<1> QED
  BY <1>1, InvImplies, PTL

\* Outside all locks a CPU has the interrupt setting it asked for.
THEOREM SpinLockIntrRestored == Spec => []IntrRestored
<1>1. Spec => []IInv
  BY InitInv, NextInv, PTL DEF Spec
<1> QED
  BY <1>1, InvImplies, PTL

\* CPUs never wait for each other's spin locks in a circle, and no handler
\* waits for a lock of the code that it has interrupted.
THEOREM SpinLockNoDeadlock == Spec => []NoSpinDeadlock
<1>1. Spec => []IInv
  BY InitInv, NextInv, PTL DEF Spec
<1> QED
  BY <1>1, NoCircle, PTL

\* The type invariant of the spin locks.
THEOREM SpinLockTypeOK == Spec => []TypeOK
<1>1. Spec => []IInv
  BY InitInv, NextInv, PTL DEF Spec
<1>2. IInv => TypeOK
  BY DEF IInv
<1> QED
  BY <1>1, <1>2, PTL
=============================================================================

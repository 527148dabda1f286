------------------------------ MODULE SpinLock ------------------------------
(***************************************************************************)
(* Spin locks and interrupt masking: kernel/spinlock.c, with the interrupt *)
(* entry and return of kernel/trap.c (kerneltrap) that they must be safe   *)
(* against.                                                                *)
(*                                                                         *)
(* Every CPU runs kernel code that takes and gives back locks.  While the  *)
(* SIE bit of a CPU is set an interrupt may arrive between any two         *)
(* instructions: the interrupted code is saved in a frame and a handler,   *)
(* which takes locks itself (uart, disk, ticks), runs on the same CPU.     *)
(*                                                                         *)
(* Each access to a shared word is a step of its own; the two reads of     *)
(* holding() in particular race with the other CPUs.  Work on CPU-private  *)
(* fields with interrupts off is one step.  The fences in acquire and      *)
(* release justify the sequentially consistent memory.                     *)
(*                                                                         *)
(* Locks are numbered by the kernel's acquisition order ("wait_lock must   *)
(* be acquired before any p->lock", proc.c:24): a CPU that holds a lock    *)
(* only asks for higher ones.                                              *)
(***************************************************************************)
EXTENDS Naturals, FiniteSets

CONSTANTS
  CPU,      \* the harts
  Lock,     \* the spin locks, numbered in acquisition order
  NoCpu,    \* lk->cpu = 0
  NoFrame,  \* no interrupted code on this CPU
  NoLock    \* myproc() masks interrupts without a lock

ASSUME LockAssumption == Lock \subseteq Nat /\ IsFiniteSet(Lock) /\ NoLock \notin Lock
ASSUME CpuAssumption == NoCpu \notin CPU

VARIABLES
  locked,   \* lk->locked
  lcpu,     \* lk->cpu
  noff,     \* depth of push_off() nesting of a CPU
  intena,   \* were interrupts enabled before the outermost push_off()?
  sie,      \* the SIE bit of sstatus: interrupts are deliverable
  pc,       \* next step of the code running on a CPU
  lk,       \* the lock argument of the call in progress
  old,      \* the local "old" of push_off()
  held,     \* the locks the code on a CPU has acquired and not yet released
  frame,    \* the code an interrupt handler has suspended
  want,     \* history: what intr_on()/intr_off() last asked for outside handlers
  panicked  \* the message of the panic that stopped the machine, or "no"

cpuVars == <<noff, intena, sie, old>>
vars == <<locked, lcpu, noff, intena, sie, pc, lk, old, held, frame, want, panicked>>

PCs == {"run", "push", "acqHold1", "acqHold2", "spin", "own",
        "relHold1", "relHold2", "clear", "unlock", "pop"}

Frames == [pc : PCs, lk : Lock \cup {NoLock}, old : BOOLEAN, held : SUBSET Lock]

ASSUME FrameAssumption == NoFrame \notin Frames

Panics == {"acquire", "release", "interruptible", "pop_off"}

\* initlock() for every lock; a CPU reaches scheduler() with interrupts off.
Init ==
  /\ locked = [l \in Lock |-> 0]
  /\ lcpu = [l \in Lock |-> NoCpu]
  /\ noff = [c \in CPU |-> 0]
  /\ intena = [c \in CPU |-> FALSE]
  /\ sie = [c \in CPU |-> FALSE]
  /\ pc = [c \in CPU |-> "run"]
  /\ lk = [c \in CPU |-> NoLock]
  /\ old = [c \in CPU |-> FALSE]
  /\ held = [c \in CPU |-> {}]
  /\ frame = [c \in CPU |-> NoFrame]
  /\ want = [c \in CPU |-> FALSE]
  /\ panicked = "no"

At(c, label) == panicked = "no" /\ pc[c] = label
Goto(c, label) == pc' = [pc EXCEPT ![c] = label]

\* if(bad) panic(message): the machine stops, so the rest of the step is moot.
PanicIf(bad, message) == panicked' = IF bad THEN message ELSE panicked

-----------------------------------------------------------------------------
(* push_off() and pop_off() *)

\* Mutant of IntrOff: push_off() forgets intr_off().
IntrOffMissing(c) == UNCHANGED sie

IntrOff(c) == sie' = [sie EXCEPT ![c] = FALSE]

\* Mutant of SaveIntena: every push_off() records the setting.
SaveIntenaAlways(c) == intena' = [intena EXCEPT ![c] = old[c]]

\* if(mycpu()->noff == 0) mycpu()->intena = old
SaveIntena(c) == intena' = IF noff[c] = 0 THEN [intena EXCEPT ![c] = old[c]] ELSE intena

Nest(c) == noff' = [noff EXCEPT ![c] = @ + 1]

\* push_off() begins: old = intr_get().  It is called by acquire(l), or by
\* myproc() for l = NoLock.  An interrupt may still arrive after this step.
PushOffBegin(c, l) ==
  /\ At(c, "run")
  /\ \A h \in held[c] : l # NoLock => h < l
  /\ lk' = [lk EXCEPT ![c] = l]
  /\ old' = [old EXCEPT ![c] = sie[c]]
  /\ Goto(c, "push")
  /\ UNCHANGED <<locked, lcpu, noff, intena, sie, held, frame, want, panicked>>

\* The rest of push_off(): intr_off(), then the CPU-private bookkeeping.
PushOff(c) ==
  /\ At(c, "push")
  /\ IntrOff(c)
  /\ SaveIntena(c)
  /\ Nest(c)
  /\ Goto(c, IF lk[c] = NoLock THEN "pop" ELSE "acqHold1")
  /\ UNCHANGED <<locked, lcpu, lk, old, held, frame, want, panicked>>

\* noff is back to 0 after this pop_off() and interrupts were on before.
Unmasks(c) == noff[c] = 1 /\ intena[c]

PopOff(c) ==
  /\ At(c, "pop")
  /\ IF sie[c] THEN PanicIf(TRUE, "interruptible")
               ELSE PanicIf(noff[c] < 1, "pop_off")
  /\ noff' = [noff EXCEPT ![c] = @ - 1]
  /\ sie' = [sie EXCEPT ![c] = Unmasks(c)]
  /\ Goto(c, "run")
  /\ UNCHANGED <<locked, lcpu, intena, lk, old, held, frame, want>>

-----------------------------------------------------------------------------
(* acquire(lk) after push_off() *)

\* holding(lk), first read: lk->locked.
AcquireHolding1(c) ==
  /\ At(c, "acqHold1")
  /\ Goto(c, IF locked[lk[c]] = 1 THEN "acqHold2" ELSE "spin")
  /\ UNCHANGED <<locked, lcpu, cpuVars, lk, held, frame, want, panicked>>

\* holding(lk), second read: lk->cpu == mycpu().
AcquireHolding2(c) ==
  /\ At(c, "acqHold2")
  /\ PanicIf(lcpu[lk[c]] = c, "acquire")
  /\ Goto(c, "spin")
  /\ UNCHANGED <<locked, lcpu, cpuVars, lk, held, frame, want>>

\* Mutant of LockFree: the result of the amoswap is not looked at.
LockFreeUnchecked(l) == TRUE

LockFree(l) == locked[l] = 0

\* The amoswap that finds 0; one that finds 1 changes nothing.
TestAndSet(c) ==
  /\ At(c, "spin")
  /\ LockFree(lk[c])
  /\ locked' = [locked EXCEPT ![lk[c]] = 1]
  /\ Goto(c, "own")
  /\ UNCHANGED <<lcpu, cpuVars, lk, held, frame, want, panicked>>

\* lk->cpu = mycpu(); acquire() returns.
SetCpu(c) ==
  /\ At(c, "own")
  /\ lcpu' = [lcpu EXCEPT ![lk[c]] = c]
  /\ held' = [held EXCEPT ![c] = @ \cup {lk[c]}]
  /\ Goto(c, "run")
  /\ UNCHANGED <<locked, cpuVars, lk, frame, want, panicked>>

-----------------------------------------------------------------------------
(* release(lk) *)

ReleaseBegin(c, l) ==
  /\ At(c, "run")
  /\ l \in held[c]
  /\ lk' = [lk EXCEPT ![c] = l]
  /\ Goto(c, "relHold1")
  /\ UNCHANGED <<locked, lcpu, cpuVars, held, frame, want, panicked>>

ReleaseHolding1(c) ==
  /\ At(c, "relHold1")
  /\ PanicIf(locked[lk[c]] = 0, "release")
  /\ Goto(c, "relHold2")
  /\ UNCHANGED <<locked, lcpu, cpuVars, lk, held, frame, want>>

ReleaseHolding2(c) ==
  /\ At(c, "relHold2")
  /\ PanicIf(lcpu[lk[c]] # c, "release")
  /\ Goto(c, "clear")
  /\ UNCHANGED <<locked, lcpu, cpuVars, lk, held, frame, want>>

\* Mutant of ClearCpu: release() forgets lk->cpu = 0.
SkipClearCpu(c) ==
  /\ At(c, "clear")
  /\ Goto(c, "unlock")
  /\ UNCHANGED <<locked, lcpu, cpuVars, lk, held, frame, want, panicked>>

\* lk->cpu = 0, before the lock is given away.
ClearCpu(c) ==
  /\ At(c, "clear")
  /\ lcpu' = [lcpu EXCEPT ![lk[c]] = NoCpu]
  /\ Goto(c, "unlock")
  /\ UNCHANGED <<locked, cpuVars, lk, held, frame, want, panicked>>

\* __sync_lock_release(&lk->locked); pop_off() follows.
Unlock(c) ==
  /\ At(c, "unlock")
  /\ locked' = [locked EXCEPT ![lk[c]] = 0]
  /\ held' = [held EXCEPT ![c] = @ \ {lk[c]}]
  /\ Goto(c, "pop")
  /\ UNCHANGED <<lcpu, cpuVars, lk, frame, want, panicked>>

-----------------------------------------------------------------------------
(* Interrupts *)

\* An interrupt: the hardware clears SIE and the handler runs on this CPU.
Interrupt(c) ==
  /\ panicked = "no"
  /\ sie[c]
  /\ frame[c] = NoFrame
  /\ frame' = [frame EXCEPT ![c] = [pc |-> pc[c], lk |-> lk[c], old |-> old[c], held |-> held[c]]]
  /\ held' = [held EXCEPT ![c] = {}]
  /\ sie' = [sie EXCEPT ![c] = FALSE]
  /\ Goto(c, "run")
  /\ UNCHANGED <<locked, lcpu, noff, intena, lk, old, want, panicked>>

\* The handler has given back its locks; sret restores SIE and the registers.
InterruptReturn(c) ==
  /\ At(c, "run")
  /\ frame[c] # NoFrame
  /\ held[c] = {}
  /\ pc' = [pc EXCEPT ![c] = frame[c].pc]
  /\ lk' = [lk EXCEPT ![c] = frame[c].lk]
  /\ old' = [old EXCEPT ![c] = frame[c].old]
  /\ held' = [held EXCEPT ![c] = frame[c].held]
  /\ sie' = [sie EXCEPT ![c] = TRUE]
  /\ frame' = [frame EXCEPT ![c] = NoFrame]
  /\ UNCHANGED <<locked, lcpu, noff, intena, want, panicked>>

\* intr_on() of scheduler() and usertrap(), intr_off() of usertrapret(): by code
\* that holds no lock and is no interrupt handler.
SetIntr(c, on) ==
  /\ At(c, "run")
  /\ frame[c] = NoFrame
  /\ held[c] = {}
  /\ sie' = [sie EXCEPT ![c] = on]
  /\ want' = [want EXCEPT ![c] = on]
  /\ UNCHANGED <<locked, lcpu, noff, intena, pc, lk, old, held, frame, panicked>>

-----------------------------------------------------------------------------
Acquire(c) == AcquireHolding1(c) \/ AcquireHolding2(c) \/ TestAndSet(c) \/ SetCpu(c)

Release(c) == ReleaseHolding1(c) \/ ReleaseHolding2(c) \/ ClearCpu(c) \/ Unlock(c)

Step(c) ==
  \/ \E l \in Lock \cup {NoLock} : PushOffBegin(c, l)
  \/ \E l \in Lock : ReleaseBegin(c, l)
  \/ PushOff(c)
  \/ PopOff(c)
  \/ Acquire(c)
  \/ Release(c)
  \/ Interrupt(c)
  \/ InterruptReturn(c)
  \/ \E on \in BOOLEAN : SetIntr(c, on)

Next == \E c \in CPU : Step(c)

Spec == Init /\ [][Next]_vars

-----------------------------------------------------------------------------
(* Properties *)

TypeOK ==
  /\ locked \in [Lock -> {0, 1}]
  /\ lcpu \in [Lock -> CPU \cup {NoCpu}]
  /\ noff \in [CPU -> Nat]
  /\ intena \in [CPU -> BOOLEAN]
  /\ sie \in [CPU -> BOOLEAN]
  /\ pc \in [CPU -> PCs]
  /\ lk \in [CPU -> Lock \cup {NoLock}]
  /\ old \in [CPU -> BOOLEAN]
  /\ held \in [CPU -> SUBSET Lock]
  /\ frame \in [CPU -> Frames \cup {NoFrame}]
  /\ want \in [CPU -> BOOLEAN]
  /\ panicked \in Panics \cup {"no"}

\* The code on c, a handler or the code it interrupted, is inside the section
\* that l protects.
Owns(c, l) ==
  \/ l \in held[c]
  \/ pc[c] = "own" /\ lk[c] = l
  \/ frame[c] # NoFrame /\ l \in frame[c].held

\* Between the amoswap of acquire() and the store of release() a lock belongs
\* to one CPU.
MutualExclusion ==
  \A c, d \in CPU : \A l \in Lock : Owns(c, l) /\ Owns(d, l) => c = d

\* None of the assertions of acquire(), release() and pop_off() fires: although
\* holding() reads two words that other CPUs are changing, it never takes
\* another CPU's lock for its own nor misses its own, and push_off() and
\* pop_off() stay balanced under interrupts.
NoPanic == panicked = "no"

\* CPUs that wait in the amoswap loop never wait for each other in a circle,
\* nor does a handler wait for a lock of the code it interrupted.
NoSpinDeadlock ==
  \A S \in SUBSET {c \in CPU : pc[c] = "spin"} :
    S # {} => \E c \in S : \A d \in S : ~Owns(d, lk[c])

\* push_off() and pop_off() are matched: code outside all locks runs with the
\* interrupt setting it chose itself, whatever locks it and the handlers that
\* interrupted it have taken and in whatever order they released them.
IntrRestored ==
  \A c \in CPU : pc[c] = "run" /\ frame[c] = NoFrame /\ held[c] = {} =>
                   noff[c] = 0 /\ sie[c] = want[c]
=============================================================================

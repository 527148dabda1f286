------------------------------- MODULE Virtio -------------------------------
(***************************************************************************)
(* The disk driver, kernel/virtio_disk.c, and the device it drives.        *)
(*                                                                         *)
(* The device runs beside the CPUs: it takes requests from the avail ring, *)
(* carries them out in any order, enters them in the used ring and raises  *)
(* an interrupt, each in a step of its own.  A section under vdisk_lock is *)
(* one step, but virtio_disk_intr() is a step per round of its loop, since *)
(* it reads the index that the device advances.                            *)
(*                                                                         *)
(* A process has its buffer locked (module Bcache), so no two processes    *)
(* have requests for the same block: process p transfers its buffer to or  *)
(* from block p.  Of their contents the model has only whether they agree. *)
(* A value that is dead (a ring entry that has been read, the header of a  *)
(* free chain, a local of a call that has returned) is set back to its     *)
(* initial value, to keep equivalent states together.                      *)
(***************************************************************************)
EXTENDS Integers, FiniteSets, FiniteSetsExt

CONSTANTS
  Proc,
  NUM,       \* descriptors, and entries of each ring
  WORD,      \* the ring indices are uint16: 2^16 in the code
  NoProc

ASSUME VirtioAssumption ==
  /\ NUM \in Nat \ {0} /\ WORD \in Nat \ {0} /\ WORD % NUM = 0 /\ NoProc \notin Proc

Desc == 0..(NUM - 1)

VARIABLES
  synced,      \* are b->data of the buffer of a process and its block the same?
  bdisk,       \* b->disk
  pc,
  write,       \* the argument of virtio_disk_rw()
  idx0,        \* idx[0], the head of the chain of a request
  free, desc, ops, info, used_idx,  \* struct disk
  avail, used,                      \* the rings
  lock,        \* does virtio_disk_intr() hold vdisk_lock?
  seen,        \* device: how far it has looked in the avail ring
  taken, done, \* device: requests taken, and carried out
  raise, irq,  \* device: an interrupt to be raised, and one raised
  panicked

driver == <<pc, write, idx0, bdisk, free, desc, ops, avail, used_idx, lock>>
device == <<seen, taken, done, raise, used>>
vars == <<synced, info, irq, driver, device, panicked>>

Null == [addr |-> <<"nil", 0>>, next |-> 0, more |-> FALSE]

\* virtio_disk_init(): all descriptors are free, the rings are zeroed.
Init ==
  /\ synced = [p \in Proc |-> FALSE]
  /\ bdisk = [p \in Proc |-> FALSE]
  /\ pc = [p \in Proc |-> "idle"]
  /\ write = [p \in Proc |-> FALSE]
  /\ idx0 = [p \in Proc |-> 0]
  /\ free = Desc
  /\ desc = [i \in Desc |-> Null]
  /\ ops = [i \in Desc |-> [write |-> FALSE, sector |-> NoProc]]
  /\ info = [i \in Desc |-> [b |-> NoProc, ok |-> TRUE]]
  /\ used_idx = 0
  /\ avail = [idx |-> 0, ring |-> [j \in Desc |-> 0]]
  /\ used = [idx |-> 0, ring |-> [j \in Desc |-> 0]]
  /\ lock = FALSE /\ seen = 0 /\ taken = {} /\ done = {} /\ raise = FALSE /\ irq = FALSE
  /\ panicked = FALSE

-----------------------------------------------------------------------------
(* virtio_disk_rw() *)

\* bread() of a buffer that is not valid, bwrite() of one that was changed.
Call(p, w) ==
  /\ pc[p] = "idle"
  /\ synced' = [synced EXCEPT ![p] = FALSE]
  /\ write' = [write EXCEPT ![p] = w]
  /\ pc' = [pc EXCEPT ![p] = "alloc"]
  /\ UNCHANGED <<info, irq, bdisk, idx0, free, desc, ops, avail, used_idx, lock, device, panicked>>

\* free_desc(): wakeup(&disk.free[0])
WokenByFree(q) == pc[q] = "nodesc"

WakeAllocators == [q \in Proc |-> IF WokenByFree(q) THEN "alloc" ELSE pc[q]]

\* alloc_desc() takes the free descriptor with the smallest number.
FirstFree(taking) == Min(free \ taking)

\* The entry of a ring that index k stands for.
Slot(k) == k % NUM

\* The uint16 indices are incremented, "not % NUM ...".
Advance(k) == (k + 1) % WORD

Submit(p) ==
  /\ pc[p] = "alloc" /\ ~lock
  /\ Cardinality(free) >= 3
  /\ LET a == FirstFree({})
         c == FirstFree({a})
         d == FirstFree({a, c}) IN
     /\ free' = free \ {a, c, d}
     /\ ops' = [ops EXCEPT ![a] = [write |-> write[p], sector |-> p]]
     /\ desc' = [desc EXCEPT
          ![a] = [addr |-> <<"ops", a>>, next |-> c, more |-> TRUE],
          ![c] = [addr |-> <<"data", p>>, next |-> d, more |-> TRUE],
          ![d] = [addr |-> <<"status", a>>, next |-> 0, more |-> FALSE]]
     /\ info' = [info EXCEPT ![a] = [b |-> p, ok |-> FALSE]]
     /\ avail' = [idx |-> Advance(avail.idx),
                  ring |-> [avail.ring EXCEPT ![Slot(avail.idx)] = a]]
     /\ idx0' = [idx0 EXCEPT ![p] = a]
  /\ bdisk' = [bdisk EXCEPT ![p] = TRUE]
  /\ pc' = [pc EXCEPT ![p] = "wait"]
  /\ UNCHANGED <<synced, irq, write, used_idx, lock, device, panicked>>

\* alloc3_desc() fails: what it got is given back, which wakes the others that
\* wait for descriptors, and the caller sleeps.
NoDescriptors(p) ==
  /\ pc[p] = "alloc" /\ ~lock
  /\ Cardinality(free) < 3
  /\ pc' = [(IF free = {} THEN pc ELSE WakeAllocators) EXCEPT ![p] = "nodesc"]
  /\ UNCHANGED <<synced, info, irq, write, idx0, bdisk, free, desc, ops, avail, used_idx, lock, device, panicked>>

\* The descriptors that free_chain(i) visits.
Chain(i) ==
  LET j == desc[i].next IN
  {i} \cup (IF ~desc[i].more THEN {} ELSE
            {j} \cup (IF desc[j].more THEN {desc[j].next} ELSE {}))

\* Mutant of Freed: the last descriptor of a chain is forgotten.
FreedShort(i) == {i, desc[i].next}

\* What free_chain(i) frees.
Freed(i) == Chain(i)

\* Mutant of DiskDone: if instead of while.
DiskDoneAssumed(p) == TRUE

DiskDone(p) == ~bdisk[p]

\* The sleeper on b wakes and finds b->disk 0, or sleeps again.
Return(p) ==
  /\ pc[p] = "woken" /\ ~lock
  /\ \/ /\ ~DiskDone(p)
        /\ pc' = [pc EXCEPT ![p] = "wait"]
        /\ UNCHANGED <<info, ops, idx0, write, free, desc, panicked>>
     \/ /\ DiskDone(p)
        /\ panicked' = (Freed(idx0[p]) \cap free # {})  \* "free_desc 2"
        /\ info' = [info EXCEPT ![idx0[p]] = [b |-> NoProc, ok |-> TRUE]]
        /\ ops' = [ops EXCEPT ![idx0[p]] = [write |-> FALSE, sector |-> NoProc]]
        /\ idx0' = [idx0 EXCEPT ![p] = 0]
        /\ write' = [write EXCEPT ![p] = FALSE]
        /\ free' = free \cup Freed(idx0[p])
        /\ desc' = [i \in Desc |-> IF i \in Freed(idx0[p]) THEN Null ELSE desc[i]]
        /\ pc' = [WakeAllocators EXCEPT ![p] = "idle"]
  /\ UNCHANGED <<synced, irq, bdisk, avail, used_idx, lock, device>>

\* kill() ends any sleep; both loops then test again.
Kill(p) ==
  /\ pc[p] \in {"nodesc", "wait"}
  /\ pc' = [pc EXCEPT ![p] = IF @ = "wait" THEN "woken" ELSE "alloc"]
  /\ UNCHANGED <<synced, info, irq, write, idx0, bdisk, free, desc, ops, avail, used_idx, lock, device, panicked>>

-----------------------------------------------------------------------------
(* virtio_disk_intr() *)

\* Up to the acknowledgement.
IntrBegin ==
  /\ irq /\ ~lock
  /\ lock' = TRUE
  /\ irq' = FALSE
  /\ UNCHANGED <<synced, info, pc, write, idx0, bdisk, free, desc, ops, avail, used_idx, device, panicked>>

\* Mutant of IntrMore: the handler looks at one entry at a time.
IntrMoreOne == used_idx # used.idx /\ used_idx % 2 = 0

\* while(disk.used_idx != disk.used->idx)
IntrMore == used_idx # used.idx

UsedId == used.ring[Slot(used_idx)]

DoneBuf == info[UsedId].b

IntrOne ==
  /\ lock /\ IntrMore
  /\ panicked' = ~info[UsedId].ok  \* "virtio_disk_intr status"
  /\ bdisk' = [bdisk EXCEPT ![DoneBuf] = FALSE]
  /\ pc' = [pc EXCEPT ![DoneBuf] = IF @ = "wait" THEN "woken" ELSE @]
  /\ used_idx' = Advance(used_idx)
  /\ used' = [used EXCEPT !.ring[Slot(used_idx)] = 0]
  /\ UNCHANGED <<synced, info, irq, write, idx0, free, desc, ops, avail, lock>>
  /\ UNCHANGED <<seen, taken, done, raise>>

IntrEnd ==
  /\ lock /\ ~IntrMore
  /\ lock' = FALSE
  /\ UNCHANGED <<synced, info, irq, pc, write, idx0, bdisk, free, desc, ops, avail, used_idx, device, panicked>>

-----------------------------------------------------------------------------
(* The device *)

DevTake ==
  /\ seen # avail.idx
  /\ taken' = taken \cup {avail.ring[Slot(seen)]}
  /\ seen' = Advance(seen)
  /\ avail' = [avail EXCEPT !.ring[Slot(seen)] = 0]
  /\ UNCHANGED <<synced, info, irq, pc, write, idx0, bdisk, free, desc, ops, used_idx, lock, panicked>>
  /\ UNCHANGED <<done, raise, used>>

\* The transfer that the three descriptors of the chain describe.
DevTransfer(i) ==
  /\ i \in taken
  /\ LET data == desc[desc[i].next]
         op == ops[desc[i].addr[2]]
         buf == data.addr[2] IN
     /\ synced' = [p \in Proc |->
          CASE op.sector = p /\ buf = p -> TRUE
            [] p = IF op.write THEN op.sector ELSE buf -> FALSE
            [] OTHER -> synced[p]]
     /\ info' = [info EXCEPT ![desc[data.next].addr[2]].ok = TRUE]
  /\ taken' = taken \ {i}
  /\ done' = done \cup {i}
  /\ UNCHANGED <<irq, driver, seen, raise, used, panicked>>

DevUsed(i) ==
  /\ i \in done
  /\ done' = done \ {i}
  /\ used' = [idx |-> Advance(used.idx), ring |-> [used.ring EXCEPT ![Slot(used.idx)] = i]]
  /\ raise' = TRUE
  /\ UNCHANGED <<synced, info, irq, driver, seen, taken, panicked>>

DevIrq ==
  /\ raise
  /\ raise' = FALSE
  /\ irq' = TRUE
  /\ UNCHANGED <<synced, info, driver, seen, taken, done, used, panicked>>

-----------------------------------------------------------------------------
Next ==
  /\ ~panicked
  /\ \/ \E p \in Proc : Submit(p) \/ NoDescriptors(p) \/ Return(p) \/ Kill(p)
     \/ \E p \in Proc, w \in BOOLEAN : Call(p, w)
     \/ IntrBegin \/ IntrOne \/ IntrEnd
     \/ DevTake \/ DevIrq \/ \E i \in Desc : DevTransfer(i) \/ DevUsed(i)

Spec == Init /\ [][Next]_vars

-----------------------------------------------------------------------------
(* Properties *)

\* The processes whose request the driver has handed to the device.
Active == {p \in Proc : pc[p] \in {"wait", "woken"}}

\* Every descriptor is free or in the chain of exactly one request: none is
\* lost, none is shared, and free_desc() never finds one that is free already.
DescriptorsOwned ==
  /\ \A p \in Active : Cardinality(Chain(idx0[p])) = 3 /\ Chain(idx0[p]) \cap free = {}
  /\ \A p, q \in Active : p # q => Chain(idx0[p]) \cap Chain(idx0[q]) = {}
  /\ Cardinality(free) + 3 * Cardinality(Active) = NUM

\* virtio_disk_rw() returns only when block and buffer are the same: the request
\* has been carried out, and not another one in its place.
ReturnsAfterTransfer ==
  [][\A p \in Proc : pc[p] = "woken" /\ pc'[p] = "idle" => synced[p]]_vars

\* No wakeup is lost: completed requests that the handler has not seen are
\* announced (an interrupt is raised or about to be, or the handler has not made
\* its last test), and a process sleeps for descriptors only while there are
\* fewer than three.
NoLostWakeup ==
  /\ used_idx # used.idx => raise \/ irq \/ lock
  /\ \A p \in Proc : pc[p] = "nodesc" => Cardinality(free) < 3
=============================================================================

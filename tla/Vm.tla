--------------------------------- MODULE Vm ---------------------------------
(***************************************************************************)
(* User memory: the page allocator (kernel/kalloc.c), page tables          *)
(* (kernel/vm.c), and the calls that build, grow, replace and free them:   *)
(* sbrk, exec, fork, exit and the store page fault (kernel/proc.c, exec.c, *)
(* sysfile.c, trap.c).                                                     *)
(*                                                                         *)
(* Which physical page backs a virtual one tells no two states apart, so   *)
(* the free list is its length and a page table is the set of its          *)
(* page-table pages with the permissions of its leaf entries.  Each round  *)
(* of uvmalloc()'s loop is a step: other processes take and return pages   *)
(* in between, and memory may run out in any round.  A page number is a    *)
(* virtual address divided by PGSIZE; sizes and segments are in bytes.     *)
(*                                                                         *)
(* Proc is the set of processes that exist.  As fork() is written only the *)
(* first one ever does; vm.c must serve any number.                        *)
(***************************************************************************)
EXTENDS Integers, Sequences, FiniteSets, FiniteSetsExt

CONSTANTS
  Proc, InitProc,
  NPAGES,   \* pages that freerange() hands to the allocator
  PGSIZE,   \* bytes of a page
  FANOUT,   \* entries of a page-table page, 512
  MAXVA,    \* page number of the first address above user space
  WORD,     \* 2^64: addresses and sizes wrap around here
  Amounts,  \* the arguments of sbrk()
  Images,   \* the programs exec() may be given: sequences of segments
  NoTable   \* a null page table

ASSUME VmAssumption ==
  /\ PGSIZE > 1 /\ FANOUT > 1 /\ MAXVA > 2 /\ WORD > MAXVA * PGSIZE
  /\ InitProc \in Proc /\ NPAGES \in Nat

VARIABLES
  nfree,      \* length of kmem.freelist
  pagetable,  \* p->pagetable
  sz,         \* p->sz
  call,       \* the sbrk or exec that a process is in
  panicked

vars == <<nfree, pagetable, sz, call, panicked>>

TRAMPOLINE == MAXVA - 1
TRAPFRAME == MAXVA - 2

\* Mutant of PGROUNDUP: a page in part does not count.
PGROUNDDOWN(bytes) == bytes \div PGSIZE

PGROUNDUP(bytes) == (bytes + PGSIZE - 1) \div PGSIZE   \* as a page number

\* kalloc() and kfree() of so many pages, one at a time; kalloc() fails at 0.
kalloc(n, pages) == n - pages
kfree(n, pages) == n + pages

-----------------------------------------------------------------------------
(* Page tables: functions on [tab, leaf] and the number n of free pages. *)

EmptyTable == [tab |-> {}, leaf |-> <<>>]

\* The page-table pages that walk() passes below the root, in its order.
WalkPath(va) == <<<<1, va \div (FANOUT * FANOUT)>>, <<0, va \div FANOUT>>>>

\* walk(pagetable, va, 1): creates the missing pages one by one, and those it
\* got stay in the tree when the next kalloc() fails.
Walk(pt, va, n) ==
  LET missing == SelectSeq(WalkPath(va), LAMBDA node : node \notin pt.tab)
      got == Min({n, Len(missing)})
  IN [ok |-> got = Len(missing),
      pt |-> [pt EXCEPT !.tab = @ \cup {missing[k] : k \in 1..got}],
      n  |-> kalloc(n, got)]

SetLeaf(pt, va, perm) ==
  [pt EXCEPT !.leaf = [a \in DOMAIN @ \cup {va} |-> IF a = va THEN perm ELSE @[a]]]

DropLeaves(pt, pages) == [pt EXCEPT !.leaf = [a \in DOMAIN @ \ pages |-> @[a]]]

\* mappages() of one page.
Mappages(pt, va, perm, n) ==
  LET w == Walk(pt, va, n)
  IN [ok |-> w.ok, remap |-> w.ok /\ va \in DOMAIN pt.leaf, n |-> w.n,
      pt |-> IF w.ok THEN SetLeaf(w.pt, va, perm) ELSE w.pt]

\* uvmunmap() of npages from page va on panics at the first that is not mapped.
UvmunmapPanics(pt, va, npages) == \E a \in va..(va + npages - 1) : a \notin DOMAIN pt.leaf

\* proc_pagetable(): root, trampoline and trapframe; all or nothing.
NewTablePages == 1 + Len(WalkPath(TRAMPOLINE))

NewTable ==
  LET t == Walk(EmptyTable, TRAMPOLINE, NewTablePages).pt
  IN SetLeaf(SetLeaf(t, TRAMPOLINE, {"R"}), TRAPFRAME, {"R", "W"})

\* proc_freepagetable(): uvmunmap() of the three ranges, then freewalk(), which
\* panics on any other leaf.
FreePanics(pt, size) ==
  DOMAIN pt.leaf # {TRAMPOLINE, TRAPFRAME} \cup 0..(PGROUNDUP(size) - 1)

FreedPages(pt, size) == PGROUNDUP(size) + Cardinality(pt.tab) + 1

\* walkaddr(): the page is there for the user to access.
Walkaddr(pt, page) == page < MAXVA /\ page \in DOMAIN pt.leaf /\ "U" \in pt.leaf[page]

-----------------------------------------------------------------------------
(* copyin() and copyout() move the bytes page by page and stop at the first *)
(* page the user may not access; copyinstr() also stops at the terminator,  *)
(* here the zero-th, first, ... byte of the string.                         *)

\* Mutant of Copy: the offset in the first page is forgotten.
CopyWholePages(pt, va, len) ==
  LET loop[done \in 0..len] ==
        IF done = len THEN len
        ELSE IF Walkaddr(pt, ((va + done) % WORD) \div PGSIZE)
             THEN loop[done + Min({PGSIZE, len - done})] ELSE -1
  IN loop[0]

Copy(pt, va, len) ==
  LET loop[done \in 0..len] ==
        LET at == (va + done) % WORD
            m == Min({PGSIZE - (at % PGSIZE), len - done})
        IN IF done = len THEN len
           ELSE IF Walkaddr(pt, at \div PGSIZE) THEN loop[done + m] ELSE -1
  IN loop[0]

Copyinstr(pt, va, nul, max) ==
  LET loop[done \in 0..max] ==
        LET at == (va + done) % WORD
            m == Min({PGSIZE - (at % PGSIZE), max - done})
        IN IF done = max \/ ~Walkaddr(pt, at \div PGSIZE) THEN -1
           ELSE IF nul \in done..(done + m - 1) THEN 0 ELSE loop[done + m]
  IN loop[0]

-----------------------------------------------------------------------------
Idle == [op |-> "none", at |-> "user", pt |-> NoTable, sz |-> 0, old |-> 0, a |-> 0,
         new |-> 0, perm |-> {}, segs |-> <<>>, args |-> 0, txn |-> FALSE]

\* uvmfirst(): a page for initcode at address 0.
Uvmfirst == Mappages(NewTable, 0, {"R", "W", "U"}, 3).pt

\* userinit(): a process has its memory and a page for its trapframe.
Init ==
  /\ pagetable = [p \in Proc |-> Uvmfirst]
  /\ nfree = kalloc(NPAGES, Cardinality(Proc) * (FreedPages(Uvmfirst, PGSIZE) + 1))
  /\ sz = [p \in Proc |-> PGSIZE]
  /\ call = [p \in Proc |-> Idle]
  /\ panicked = "no"

Alive(p) == pagetable[p] # NoTable /\ panicked = "no"
InUser(p) == Alive(p) /\ call[p] = Idle
At(p, op, at) == Alive(p) /\ call[p].op = op /\ call[p].at = at

PanicIf(bad, what) == panicked' = IF bad THEN what ELSE panicked

\* The table that uvmalloc() is called on: exec() builds a new one.
Target(p) == IF call[p].op = "exec" THEN call[p].pt ELSE pagetable[p]

SetTarget(p, pt, c) ==
  IF call[p].op = "exec"
  THEN call' = [call EXCEPT ![p] = [c EXCEPT !.pt = pt]] /\ UNCHANGED pagetable
  ELSE pagetable' = [pagetable EXCEPT ![p] = pt] /\ call' = [call EXCEPT ![p] = c]

\* The entry of uvmalloc(pagetable, oldsz, newsz, xperm).
EnterUvmalloc(c, oldsz, newsz, xperm) ==
  [c EXCEPT !.at = "uvmalloc", !.old = PGROUNDUP(oldsz), !.a = PGROUNDUP(oldsz),
            !.new = newsz, !.perm = {"R", "U"} \cup xperm]

\* A round of its loop.  On failure uvmdealloc() takes back the rounds before.
UvmallocRound(p) ==
  LET c == call[p]
      m == Mappages(Target(p), c.a, c.perm, kalloc(nfree, 1))
      undo == c.old..(c.a - 1)
      failed == [c EXCEPT !.at = "failed", !.old = 0, !.a = 0, !.new = 0, !.perm = {}]
  IN /\ Alive(p) /\ c.at = "uvmalloc" /\ c.a * PGSIZE < c.new
     /\ \/ /\ nfree = 0
           /\ SetTarget(p, DropLeaves(Target(p), undo), failed)
           /\ nfree' = kfree(nfree, Cardinality(undo))
           /\ UNCHANGED panicked
        \/ /\ nfree > 0 /\ ~m.ok          \* kfree(mem)
           /\ SetTarget(p, DropLeaves(m.pt, undo), failed)
           /\ nfree' = kfree(m.n, 1 + Cardinality(undo))
           /\ UNCHANGED panicked
        \/ /\ nfree > 0 /\ m.ok
           /\ SetTarget(p, m.pt, [c EXCEPT !.a = @ + 1])
           /\ nfree' = m.n
           /\ PanicIf(m.remap, "mappages: remap")
     /\ UNCHANGED sz

UvmallocDone(c) == c.at = "uvmalloc" /\ c.a * PGSIZE >= c.new

-----------------------------------------------------------------------------
(* sbrk: sys_sbrk() and growproc() *)

Sbrk(p, n) ==
  /\ InUser(p) /\ n > 0
  /\ call' = [call EXCEPT ![p] =
                EnterUvmalloc([@ EXCEPT !.op = "sbrk"], sz[p], sz[p] + n, {"W"})]
  /\ UNCHANGED <<nfree, pagetable, sz, panicked>>

SbrkEnd(p) ==
  /\ Alive(p) /\ call[p].op = "sbrk"
  /\ call[p].at = "failed" \/ UvmallocDone(call[p])
  /\ sz' = IF call[p].at = "failed" THEN sz ELSE [sz EXCEPT ![p] = call[p].new]
  /\ call' = [call EXCEPT ![p] = Idle]
  /\ UNCHANGED <<nfree, pagetable, panicked>>

\* uvmdealloc(): to shrink by more than there is wraps around and does nothing.
SbrkDown(p, n) ==
  LET newsz == (sz[p] + n + WORD) % WORD
      gone == PGROUNDUP(newsz)..(PGROUNDUP(sz[p]) - 1)
  IN /\ InUser(p) /\ n < 0 /\ newsz < sz[p]
     /\ PanicIf(~(gone \subseteq DOMAIN pagetable[p].leaf), "uvmunmap: not mapped")
     /\ pagetable' = [pagetable EXCEPT ![p] = DropLeaves(@, gone)]
     /\ nfree' = kfree(nfree, Cardinality(gone))
     /\ sz' = [sz EXCEPT ![p] = newsz]
     /\ UNCHANGED call

-----------------------------------------------------------------------------
(* exec: sys_exec() with its argument pages, then exec() *)

\* sys_exec(): a page for each argument; when one is missing it gives back those
\* it took and nothing has changed.
SysExec(p, image, args) ==
  /\ InUser(p) /\ nfree >= args
  /\ nfree' = kalloc(nfree, args)
  /\ call' = [call EXCEPT ![p] = [@ EXCEPT !.op = "exec", !.at = "start", !.segs = image,
                                           !.args = args]]
  /\ UNCHANGED <<pagetable, sz, panicked>>

\* exec() up to the new page table.  ok: the path leads to a program.
\* txn: inside begin_op() with the inode locked.
ExecStart(p, ok) ==
  /\ At(p, "exec", "start")
  /\ IF ok /\ nfree >= NewTablePages
       THEN /\ nfree' = kalloc(nfree, NewTablePages)
            /\ call' = [call EXCEPT ![p] = [@ EXCEPT !.at = "seg", !.pt = NewTable, !.txn = TRUE]]
       ELSE /\ nfree' = kfree(nfree, call[p].args)
            /\ call' = [call EXCEPT ![p] = Idle]
  /\ UNCHANGED <<pagetable, sz, panicked>>

\* The permissions for the flags of a program header: 1 to execute, 2 to write.
flags2perm(flags) ==
  (IF flags % 2 = 1 THEN {"X"} ELSE {}) \cup (IF (flags \div 2) % 2 = 1 THEN {"W"} ELSE {})

\* The checks of a program header.
SegOK(s) ==
  /\ s.memsz >= s.filesz
  /\ (s.vaddr + s.memsz) % WORD >= s.vaddr
  /\ s.vaddr % PGSIZE = 0

ExecSeg(p) ==
  LET c == call[p]
      s == Head(c.segs)
      newsz == (s.vaddr + s.memsz) % WORD
  IN /\ At(p, "exec", "seg") /\ c.segs # <<>>
     /\ call' = [call EXCEPT ![p] =
          IF ~SegOK(s) THEN [c EXCEPT !.at = "failed"]
          ELSE IF newsz < c.sz THEN [c EXCEPT !.at = "load"]   \* uvmalloc() has nothing to do
          ELSE EnterUvmalloc(c, c.sz, newsz, flags2perm(s.flags))]
     /\ UNCHANGED <<nfree, pagetable, sz, panicked>>

\* uvmalloc() returned: 0 is taken for a failure.
ExecGrown(p) ==
  LET c == call[p]
      back == [c EXCEPT !.sz = c.new, !.old = 0, !.a = 0, !.new = 0, !.perm = {}]
      guard == SetLeaf(c.pt, PGROUNDUP(c.new) - 2, c.pt.leaf[PGROUNDUP(c.new) - 2] \ {"U"})
  IN /\ At(p, "exec", "uvmalloc") /\ UvmallocDone(c)
     /\ call' = [call EXCEPT ![p] =
          IF c.new = 0 THEN [back EXCEPT !.at = "failed"]
          ELSE IF c.txn THEN [back EXCEPT !.at = "load"]
          ELSE [back EXCEPT !.at = "args", !.pt = guard]]       \* uvmclear()
     /\ UNCHANGED <<nfree, pagetable, sz, panicked>>

\* loadseg(), which fails when the file is shorter than the segment.
ExecLoad(p, ok) ==
  LET c == call[p]
      s == Head(c.segs)
      pages == {(s.vaddr + i) \div PGSIZE : i \in 0..(s.filesz - 1)}
  IN /\ At(p, "exec", "load")
     /\ PanicIf(\E a \in pages : ~Walkaddr(c.pt, a), "loadseg: address should exist")
     /\ call' = [call EXCEPT ![p] = IF ok THEN [c EXCEPT !.at = "seg", !.segs = Tail(@)]
                                          ELSE [c EXCEPT !.at = "failed"]]
     /\ UNCHANGED <<nfree, pagetable, sz>>

\* After the last segment: iunlockput(), end_op(), then the guard and stack pages.
ExecStack(p) ==
  LET c == call[p]
      base == PGROUNDUP(c.sz) * PGSIZE
  IN /\ At(p, "exec", "seg") /\ c.segs = <<>>
     /\ call' = [call EXCEPT ![p] =
          EnterUvmalloc([c EXCEPT !.txn = FALSE, !.sz = base], base, base + 2 * PGSIZE, {"W"})]
     /\ UNCHANGED <<nfree, pagetable, sz, panicked>>

\* The arguments may not fit the stack page; they are copied out to it, so it must
\* be the user's.
ExecArgs(p, fit) ==
  LET c == call[p]
  IN /\ At(p, "exec", "args")
     /\ call' = [call EXCEPT ![p].at =
          IF fit /\ Copy(c.pt, c.sz - PGSIZE, PGSIZE) = PGSIZE THEN "commit" ELSE "failed"]
     /\ UNCHANGED <<nfree, pagetable, sz, panicked>>

\* Commit to the new image and free the old one; sys_exec() frees the arguments.
ExecCommit(p) ==
  LET c == call[p]
  IN /\ At(p, "exec", "commit")
     /\ PanicIf(FreePanics(pagetable[p], sz[p]), "freewalk: leaf")
     /\ nfree' = kfree(nfree, FreedPages(pagetable[p], sz[p]) + c.args)
     /\ pagetable' = [pagetable EXCEPT ![p] = c.pt]
     /\ sz' = [sz EXCEPT ![p] = c.sz]
     /\ call' = [call EXCEPT ![p] = Idle]

\* Mutant of ExecBad: sys_exec() keeps its argument pages.
ExecBadArgs(p) ==
  LET c == call[p]
  IN /\ At(p, "exec", "failed")
     /\ PanicIf(FreePanics(c.pt, c.sz), "freewalk: leaf")
     /\ nfree' = kfree(nfree, FreedPages(c.pt, c.sz))
     /\ call' = [call EXCEPT ![p] = Idle]
     /\ UNCHANGED <<pagetable, sz>>

\* bad: free the new image, and the inode and the log unless that is done.
ExecBad(p) ==
  LET c == call[p]
  IN /\ At(p, "exec", "failed")
     /\ PanicIf(FreePanics(c.pt, c.sz), "freewalk: leaf")
     /\ nfree' = kfree(nfree, FreedPages(c.pt, c.sz) + c.args)
     /\ call' = [call EXCEPT ![p] = Idle]
     /\ UNCHANGED <<pagetable, sz>>

-----------------------------------------------------------------------------
(* The end of a process: freeproc() in wait() *)
Exit(p) ==
  /\ InUser(p) /\ p # InitProc
  /\ PanicIf(FreePanics(pagetable[p], sz[p]), "freewalk: leaf")
  /\ nfree' = kfree(nfree, FreedPages(pagetable[p], sz[p]) + 1)
  /\ pagetable' = [pagetable EXCEPT ![p] = NoTable]
  /\ sz' = [sz EXCEPT ![p] = 0]
  /\ UNCHANGED call

(* fork() and copy on write *)

\* uvmcopy(): the first round unmaps PGSIZE pages, not one, from the parent; if
\* they all are mapped the second round misses its page.  With sz = 0 there is
\* no round and it returns -1, as it always does at the end.
UvmcopyPanic(pt) ==
  IF UvmunmapPanics(pt, 0, PGSIZE) THEN "cow: not mapped"
  ELSE "cow: not present"

\* fork(): when allocproc() has no memory, or uvmcopy() returns, freeproc() gives
\* back what was taken and nothing has changed.
Fork(p) ==
  /\ InUser(p) /\ sz[p] > 0 /\ nfree >= 1 + NewTablePages
  /\ panicked' = UvmcopyPanic(pagetable[p])
  /\ UNCHANGED <<nfree, pagetable, sz, call>>

\* A store to a page that is not mapped writable, in usertrap().  The entry is
\* used even when walk() returns a null one, and kalloc()'s result unchecked: the
\* kernel then faults itself.  An entry that is not valid, for the user and
\* readable is left as it is, and the program faults again.
StoreFault(p, va) ==
  LET pt == pagetable[p]
      null == \E k \in 1..2 : WalkPath(va)[k] \notin pt.tab     \* also above MAXVA, in walk()
      cow == va \in DOMAIN pt.leaf /\ {"U", "R"} \subseteq pt.leaf[va]
  IN /\ InUser(p)
     /\ ~(Walkaddr(pt, va) /\ "W" \in pt.leaf[va])
     /\ null \/ cow
     /\ panicked' = IF null \/ nfree = 0 THEN "cow: kerneltrap"
                    ELSE IF UvmunmapPanics(pt, va, PGSIZE) THEN "cow: not mapped"
                    ELSE panicked
     /\ IF panicked' = "no"
        THEN /\ pagetable' = [pagetable EXCEPT ![p] =
                  SetLeaf(DropLeaves(pt, va..(va + PGSIZE - 1)), va,
                          (pt.leaf[va] \cup {"W"}) \ {"R"})]
             /\ nfree' = kalloc(nfree, 1)
        ELSE UNCHANGED <<pagetable, nfree>>
     /\ UNCHANGED <<sz, call>>

-----------------------------------------------------------------------------
Next ==
  \E p \in Proc :
    \/ \E n \in Amounts : Sbrk(p, n) \/ SbrkDown(p, n)
    \/ UvmallocRound(p) \/ SbrkEnd(p)
    \/ \E image \in Images, args \in 0..1 : SysExec(p, image, args)
    \/ ExecSeg(p) \/ ExecGrown(p) \/ ExecStack(p) \/ ExecCommit(p) \/ ExecBad(p)
    \/ \E ok \in BOOLEAN : ExecStart(p, ok) \/ ExecLoad(p, ok) \/ ExecArgs(p, ok)
    \/ Exit(p) \/ Fork(p)
    \/ \E va \in 0..MAXVA : StoreFault(p, va)

Spec == Init /\ [][Next]_vars

-----------------------------------------------------------------------------
(* Properties *)

PagesOf(pt) ==
  IF pt = NoTable THEN 0
  ELSE 1 + Cardinality(pt.tab) + Cardinality(DOMAIN pt.leaf \ {TRAMPOLINE, TRAPFRAME})

\* Every page of memory is on the free list or in exactly one place of use, also
\* in the middle of an exec() and after every failure: nothing leaks, nothing is
\* freed twice and nothing freed stays mapped.
PagesAccounted ==
  panicked = "no" =>
    nfree + MapThenSumSet(LAMBDA p : (IF pagetable[p] = NoTable THEN 0 ELSE 1)
                            + PagesOf(pagetable[p]) + PagesOf(call[p].pt) + call[p].args, Proc)
      = NPAGES

\* Only copy on write stops the kernel: no remap, no missing or left-over mapping
\* in any order of sbrk(), exec() and exit(), and with memory running out.
PanicsOnlyInCow ==
  panicked \in {"no", "cow: kerneltrap", "cow: not mapped", "cow: not present"}

\* copyin(), copyout() and copyinstr() succeed exactly when every byte they need
\* is on a page of the user, wherever the range starts and ends.
CopyExact ==
  \A p \in Proc : InUser(p) =>
    \A page \in 0..MAXVA, offset \in {0, PGSIZE - 1}, len \in {0, 1, 2, PGSIZE + 2} :
      LET va == page * PGSIZE + offset
          Access(n) == \A i \in 0..(n - 1) : Walkaddr(pagetable[p], (va + i) \div PGSIZE)
      IN /\ Copy(pagetable[p], va, len) = IF Access(len) THEN len ELSE -1
         /\ \A nul \in {0, 1, PGSIZE + 1} :
              Copyinstr(pagetable[p], va, nul, len) = IF nul < len /\ Access(nul + 1) THEN 0 ELSE -1
=============================================================================

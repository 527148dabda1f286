------------------------------ MODULE FileData ------------------------------
(***************************************************************************)
(* The contents of files: the free map and the block map of kernel/fs.c,   *)
(* the read and write loops of kernel/file.c above them, and the image     *)
(* that mkfs/mkfs.c leaves for them to start from.                         *)
(*                                                                         *)
(* A block has BSIZE cells, and a cell holds a byte or, in an indirect     *)
(* block, a block number (sizeof(uint) is 1).  The byte -i is one that was *)
(* written to inode i, 0 is a byte of a zeroed block.  A process runs      *)
(* under the lock of the inode it works on, and others, on other inodes,   *)
(* run between the blocks it writes; a transaction collects the blocks it  *)
(* logs.                                                                   *)
(***************************************************************************)
EXTENDS Integers, Sequences, FiniteSets, FiniteSetsExt, SequencesExt

CONSTANTS
  Proc, File,
  IpOf,          \* the inode of an open file
  BSIZE, NDIRECT, FSSIZE, BPB, MAXOPBLOCKS,
  NINODES, NMETA,
  Sizes,         \* sizes of the file that mkfs copies to the image
  Amounts,       \* byte counts of read() and write()
  NoProc

NINDIRECT == BSIZE
MAXFILE == NDIRECT + NINDIRECT
Inum == 1..NINODES
ROOTINO == 1
Block == 0..(FSSIZE - 1)
Cells == 0..(BSIZE - 1)
min(a, b) == IF a < b THEN a ELSE b

ASSUME FileDataAssumption ==
  /\ BSIZE \in Nat \ {0} /\ NDIRECT \in Nat /\ NMETA \in 1..FSSIZE /\ BPB \in Nat \ {0}
  /\ MAXOPBLOCKS >= 6 /\ NINODES >= 2 /\ NoProc \notin Proc

VARIABLES
  used,          \* the blocks marked in the free map
  blk,           \* the contents of the blocks
  inode,         \* the in-memory inodes: [size, addrs]
  dinode,        \* the inodes on disk
  lock,          \* the holder of ip->lock
  off,           \* f->off
  c,             \* the write() a process is in
  logged,        \* the blocks that the transaction of a process wrote
  panicked

vars == <<used, blk, inode, dinode, lock, off, c, logged, panicked>>

Idle == [at |-> "idle", f |-> CHOOSE f \in File : TRUE, n |-> 0, i |-> 0, tot |-> 0]
Zeroed == [k \in Cells |-> 0]
NoAddrs == [k \in 0..NDIRECT |-> 0]
Empty == [size |-> 0, addrs |-> NoAddrs]

-----------------------------------------------------------------------------
(* The block layer.  d is the part of the state that it reads and changes:  *)
(* [used, blk, ip, log], with the inode in ip.                              *)

BBLOCK(b) == <<"bitmap", b \div BPB>>

bzero(d, b) == [d EXCEPT !.blk[b] = Zeroed, !.log = @ \cup {<<"block", b>>}]

\* Mutant of balloc: the bit in the free map is not set.
ballocUnmarked(d) ==
  LET free == Block \ d.used
      b == Min(free)
  IN IF free = {} THEN [addr |-> 0, d |-> d]
     ELSE [addr |-> b, d |-> bzero(d, b)]

\* balloc(): the first free block, marked and zeroed; 0 when there is none.
balloc(d) ==
  LET free == Block \ d.used
      b == Min(free)
  IN IF free = {} THEN [addr |-> 0, d |-> d]
     ELSE [addr |-> b, d |-> bzero([d EXCEPT !.used = @ \cup {b}, !.log = @ \cup {BBLOCK(b)}], b)]

\* bmap(): the address of block bn, allocated if need be; 0 when the disk is full.
bmap(d, bn) ==
  LET slot == min(bn, NDIRECT)
      a == IF d.ip.addrs[slot] # 0 THEN [addr |-> d.ip.addrs[slot], d |-> d] ELSE balloc(d)
      d1 == [a.d EXCEPT !.ip.addrs[slot] = a.addr]
      k == bn - NDIRECT
      ind == a.addr
      e == balloc(d1)
  IN IF bn < NDIRECT \/ ind = 0 THEN [addr |-> a.addr, d |-> d1]
     ELSE IF d1.blk[ind][k] # 0 THEN [addr |-> d1.blk[ind][k], d |-> d1]
     ELSE IF e.addr = 0 THEN e
     ELSE [addr |-> e.addr,
           d |-> [e.d EXCEPT !.blk[ind][k] = e.addr, !.log = @ \cup {<<"block", ind>>}]]

\* The blocks of an inode, in the order itrunc() frees them.
BlocksOf(ip, b) ==
  LET direct == [k \in 1..NDIRECT |-> ip.addrs[k - 1]]
      ind == ip.addrs[NDIRECT]
      indirect == [k \in 1..NINDIRECT |-> b[ind][k - 1]] \o <<ind>>
  IN SelectSeq(direct \o (IF ind = 0 THEN <<>> ELSE indirect), LAMBDA x : x # 0)

-----------------------------------------------------------------------------
(* mkfs *)

\* An image m has the next free inode and block, the blocks and the inodes.
rsect(m, b) == m.blk[b]
wsect(m, b, k, x) == [m EXCEPT !.blk[b][k] = x]
rinode(m, i) == m.inode[i]
winode(m, i, ip) == [m EXCEPT !.inode[i] = ip]
ialloc(m) == winode([m EXCEPT !.freeinode = @ + 1], m.freeinode, Empty)
Take(m) == [m EXCEPT !.freeblock = @ + 1]

\* iappend() of one byte to inode i: blocks come from freeblock, in order.
iappend(m, i) ==
  LET din == rinode(m, i)
      fbn == din.size \div BSIZE
      slot == min(fbn, NDIRECT)
      fresh == din.addrs[slot] = 0
      addr == IF fresh THEN m.freeblock ELSE din.addrs[slot]
      m1 == IF fresh THEN Take(m) ELSE m
      k == fbn - NDIRECT
      m2 == IF fbn < NDIRECT \/ rsect(m1, addr)[k] # 0 THEN m1
            ELSE wsect(Take(m1), addr, k, m1.freeblock)
      x == IF fbn < NDIRECT THEN addr ELSE rsect(m2, addr)[k]
  IN winode(wsect(m2, x, din.size % BSIZE, -i), i,
            [din EXCEPT !.addrs[slot] = addr, !.size = @ + 1])

\* An image with one file of n bytes: the root gets ".", ".." and the file's
\* entry, of a byte each, and its size is rounded up; the blocks used so far are
\* marked.
Mkfs(n) ==
  LET start == [freeinode |-> ROOTINO, freeblock |-> NMETA,
                blk |-> [b \in Block |-> Zeroed], inode |-> [i \in Inum |-> Empty]]
      root == FoldLeft(iappend, ialloc(start), <<ROOTINO, ROOTINO>>)
      m == FoldLeft(iappend, ialloc(root), <<ROOTINO>> \o [k \in 1..n |-> root.freeinode])
      din == rinode(m, ROOTINO)
  IN winode(m, ROOTINO, [din EXCEPT !.size = (@ \div BSIZE + 1) * BSIZE])

Init ==
  /\ \E n \in Sizes :
       LET m == Mkfs(n)
       IN used = 0..(m.freeblock - 1) /\ blk = m.blk /\ inode = m.inode /\ dinode = m.inode
  /\ lock = [i \in Inum |-> NoProc]
  /\ off = [f \in File |-> 0]
  /\ c = [p \in Proc |-> Idle]
  /\ logged = [p \in Proc |-> {}]
  /\ panicked = "no"

-----------------------------------------------------------------------------
(* write() *)

\* iupdate() of inode i, whose fields are now ip.
iupdate(i, ip) ==
  inode' = [inode EXCEPT ![i] = ip] /\ dinode' = [dinode EXCEPT ![i] = ip]

\* Mutant of MaxChunk: no slop for a write that is not aligned.
MaxChunkAligned == ((MAXOPBLOCKS - 1 - 1) \div 2) * BSIZE

\* As many bytes as one transaction can log: the inode, an indirect block and
\* two blocks of slop aside, a block and its part of the free map for each.
MaxChunk == ((MAXOPBLOCKS - 1 - 1 - 2) \div 2) * BSIZE
Chunk(r) == min(r.n - r.i, MaxChunk)

WriteCall(p, f, n) ==
  /\ panicked = "no" /\ c[p] = Idle
  /\ c' = [c EXCEPT ![p] = [Idle EXCEPT !.at = "chunk", !.f = f, !.n = n]]
  /\ UNCHANGED <<used, blk, inode, dinode, lock, off, logged, panicked>>

\* Mutant of WriteChunk: the offset may lie beyond the end of the file.
WriteChunkAnywhere(p) ==
  LET r == c[p]
      i == IpOf[r.f]
      bad == off[r.f] + Chunk(r) > MAXFILE * BSIZE
  IN /\ panicked = "no" /\ r.at = "chunk" /\ lock[i] = NoProc
     /\ lock' = IF bad THEN lock ELSE [lock EXCEPT ![i] = p]
     /\ c' = [c EXCEPT ![p] = IF bad THEN Idle ELSE [r EXCEPT !.at = "fill", !.tot = 0]]
     /\ UNCHANGED <<used, blk, inode, dinode, off, logged, panicked>>

\* begin_op(), ilock() and the checks of writei().
WriteChunk(p) ==
  LET r == c[p]
      i == IpOf[r.f]
      bad == off[r.f] > inode[i].size \/ off[r.f] + Chunk(r) > MAXFILE * BSIZE
  IN /\ panicked = "no" /\ r.at = "chunk" /\ lock[i] = NoProc
     /\ lock' = IF bad THEN lock ELSE [lock EXCEPT ![i] = p]
     /\ c' = [c EXCEPT ![p] = IF bad THEN Idle ELSE [r EXCEPT !.at = "fill", !.tot = 0]]
     /\ UNCHANGED <<used, blk, inode, dinode, off, logged, panicked>>

\* One turn of the loop of writei(); either_copyin() moves got bytes and fails
\* when that is not all of them.
WriteBlock(p, got) ==
  LET r == c[p]
      i == IpOf[r.f]
      at == off[r.f] + r.tot
      a == bmap([used |-> used, blk |-> blk, ip |-> inode[i], log |-> logged[p]], at \div BSIZE)
      m == min(Chunk(r) - r.tot, BSIZE - (at % BSIZE))
      stop == a.addr = 0 \/ got < m
      first == at % BSIZE
  IN /\ panicked = "no" /\ r.at = "fill" /\ r.tot < Chunk(r) /\ got <= m
     /\ used' = a.d.used
     /\ inode' = [inode EXCEPT ![i] = a.d.ip]
     /\ blk' = IF a.addr = 0 THEN a.d.blk
               ELSE [a.d.blk EXCEPT ![a.addr] =
                       [k \in Cells |-> IF k \in first..(first + got - 1) THEN -i ELSE @[k]]]
     /\ logged' = [logged EXCEPT ![p] = IF stop THEN a.d.log ELSE a.d.log \cup {<<"block", a.addr>>}]
     /\ c' = [c EXCEPT ![p] = IF stop THEN [r EXCEPT !.at = "stop"] ELSE [r EXCEPT !.tot = @ + m]]
     /\ UNCHANGED <<dinode, lock, off, panicked>>

\* The end of writei(), with its iupdate(); the file offset moves, and the next
\* chunk follows unless this one fell short.
WriteEnd(p) ==
  LET r == c[p]
      i == IpOf[r.f]
      at == off[r.f] + r.tot
      ip == [inode[i] EXCEPT !.size = IF at > @ THEN at ELSE @]
      short == r.tot # Chunk(r)
      done == r.i + r.tot
  IN /\ panicked = "no"
     /\ r.at = "stop" \/ (r.at = "fill" /\ r.tot = Chunk(r))
     /\ iupdate(i, ip)
     /\ logged' = [logged EXCEPT ![p] = {}]
     /\ off' = [off EXCEPT ![r.f] = at]
     /\ lock' = [lock EXCEPT ![i] = NoProc]
     /\ c' = [c EXCEPT ![p] = IF short \/ done = r.n THEN Idle
                              ELSE [r EXCEPT !.at = "chunk", !.i = done, !.tot = 0]]
     /\ UNCHANGED <<used, blk, panicked>>

-----------------------------------------------------------------------------
(* read() and truncation *)

\* readi(): how many of n bytes it moves, and the blocks it asks bmap() for.
readi(ip, at, n) ==
  LET m == IF at > ip.size THEN 0 ELSE min(n, ip.size - at)
  IN [m |-> m, bns |-> {k \div BSIZE : k \in at..(at + m - 1)}]

\* fileread(), outside any transaction, as one step: all of it is under the
\* inode's lock.  A missing block would be allocated, and logged.
Read(p, f, n) ==
  LET i == IpOf[f]
      r == readi(inode[i], off[f], n)
      d == [used |-> used, blk |-> blk, ip |-> inode[i], log |-> {}]
  IN /\ panicked = "no" /\ c[p] = Idle /\ lock[i] = NoProc
     /\ panicked' = IF \E bn \in r.bns : bmap(d, bn).d.used # used
                      THEN "log_write outside of trans" ELSE "no"
     /\ off' = [off EXCEPT ![f] = @ + r.m]
     /\ UNCHANGED <<used, blk, inode, dinode, lock, c, logged>>

\* itrunc(), by open with O_TRUNC, whose new file, with offset 0, takes the place
\* of f (again) or is used no more, so that f is left beyond the end; or by the
\* iput() that frees the inode, after which create() starts from an empty one.
Trunc(p, f, again) ==
  LET i == IpOf[f]
      b == BlocksOf(inode[i], blk)
  IN /\ panicked = "no" /\ c[p] = Idle /\ lock[i] = NoProc
     /\ panicked' = IF Range(b) \subseteq used /\ Cardinality(Range(b)) = Len(b)
                      THEN "no" ELSE "freeing free block"
     /\ used' = used \ Range(b)
     /\ iupdate(i, Empty)
     /\ off' = [off EXCEPT ![f] = IF again THEN 0 ELSE @]
     /\ UNCHANGED <<blk, lock, c, logged>>

-----------------------------------------------------------------------------

Next ==
  \E p \in Proc :
    \/ \E f \in File, n \in Amounts : WriteCall(p, f, n) \/ Read(p, f, n)
    \/ WriteChunk(p) \/ WriteEnd(p)
    \/ \E got \in 0..BSIZE : WriteBlock(p, got)
    \/ \E f \in File, again \in BOOLEAN : Trunc(p, f, again)

Spec == Init /\ [][Next]_vars

-----------------------------------------------------------------------------
(* Properties *)

Meta == 0..(NMETA - 1)

\* Every block of the disk is free or in use for one purpose: the blocks marked
\* in the free map are the metadata and the blocks that the inodes name, and no
\* block has two places, whether writes ran at once, the disk filled up in the
\* middle of one, or its source turned out bad.  An inode that nobody has locked
\* is the inode on disk.  So nothing is freed twice, and no read allocates.
BlocksAccounted ==
  LET all == FoldLeft(LAMBDA s, i : s \o BlocksOf(inode[i], blk), <<>>, SetToSeq(Inum))
  IN /\ panicked = "no"
     /\ Range(all) \cap Meta = {}
     /\ used = Meta \cup Range(all)
     /\ Cardinality(Range(all)) = Len(all)
     /\ \A i \in Inum : lock[i] = NoProc => inode[i] = dinode[i]

\* A file has a block for each of its bytes, and the byte was written to this
\* file: no read finds a hole, which it would fill outside of a transaction, and
\* none finds what another file left in the block.  (A directory's last block
\* may end in zeroes.)
ContentsOwn ==
  \A i \in Inum : \A at \in 0..(inode[i].size - 1) :
    LET d == [used |-> used, blk |-> blk, ip |-> inode[i], log |-> {}]
        a == bmap(d, at \div BSIZE)
    IN a.d.used = used /\ blk[a.addr][at % BSIZE] \in {-i} \cup (IF i = ROOTINO THEN {0} ELSE {})

\* A write() logs at most MAXOPBLOCKS blocks in a transaction, the inode's
\* included, wherever the file offset and the free blocks lie: what begin_op()
\* counts on.
OpFitsLog ==
  \A p \in Proc : Cardinality(logged[p]) + 1 <= MAXOPBLOCKS

=============================================================================

--------------------------------- MODULE Fs ---------------------------------
(***************************************************************************)
(* Inodes and directories: the inode table and path names of kernel/fs.c   *)
(* with the system calls that make, name, open and drop inodes, in         *)
(* kernel/sysfile.c and file.c.                                            *)
(*                                                                         *)
(* Processes run between begin_op() and end_op() and interleave wherever   *)
(* the code holds no lock or holds one and takes another.  A stretch that  *)
(* locks one inode, works on it and unlocks it is one step; iput() is one  *)
(* or two.   In-memory fields are written through by iupdate() under the  *)
(* inode's lock, so that an inode and its copy on disk are one record, but *)
(* whether the copy has been read ("valid") is kept.  Directory contents   *)
(* are functions from names to inode numbers, 0 when there is none; the    *)
(* entry "." needs no cell.  That a directory cannot grow because the disk *)
(* is full is a choice.                                                    *)
(***************************************************************************)
EXTENDS Naturals, Sequences, FiniteSets, FiniteSetsExt

CONSTANTS
  Proc, Name,
  NINODES,   \* inodes on disk, ROOTINO included; the table holds as many
  Paths,     \* path arguments: [abs |-> does it begin with "/", elems]
  Images,    \* disks to start from: [tree, cwds]
  MAXCALLS,  \* bound: path calls in a behaviour
  NoProc

ASSUME FsAssumption == NINODES \in Nat \ {0} /\ NoProc \notin Proc

VARIABLES
  dinode,    \* [type, nlink, ent] of an inode
  ref,       \* itable: ip->ref; an entry is free when it is 0
  valid,     \* itable: ip->valid
  lock,      \* itable: the holder of ip->lock
  cwd,       \* p->cwd
  file,      \* the inode of the file the process has open, or 0
  c,         \* the system call a process is in
  calls,     \* calls made so far
  stray,     \* inodes whose names or references escape the counting, below
  panicked

vars == <<dinode, ref, valid, lock, cwd, file, c, calls, stray, panicked>>

Inum == 1..NINODES
ROOTINO == 1
Entry == Name \cup {".."}
NoEntries == [n \in Entry |-> 0]
FreeInode == [type |-> "none", nlink |-> 0, ent |-> NoEntries]

Idle == [op |-> "none", at |-> "user", rest |-> <<>>, ip |-> 0, dp |-> 0, cur |-> 0,
         put |-> <<>>, iput |-> "check"]

\* The system as earlier calls may have left it: a tree of directories on disk,
\* and processes whose working directory is one of it.
Init ==
  /\ \E img \in Images :
       /\ dinode = [i \in Inum |-> IF i \in DOMAIN img.tree THEN img.tree[i] ELSE FreeInode]
       /\ cwd \in [Proc -> img.cwds]
  /\ ref = [i \in Inum |-> Cardinality({p \in Proc : cwd[p] = i})]
  /\ valid = [i \in Inum |-> FALSE]
  /\ lock = [i \in Inum |-> NoProc]
  /\ file = [p \in Proc |-> 0]
  /\ c = [p \in Proc |-> Idle]
  /\ calls = 0
  /\ stray = {}
  /\ panicked = "no"

Goto(p, r) == c' = [c EXCEPT ![p] = r]

\* At a step of a call, with no iput() to finish first.
At(p, at) == panicked = "no" /\ c[p].at = at /\ c[p].put = <<>>

Parent(op) == op \in {"open_create", "mkdir", "mknod", "link_new", "unlink"}

-----------------------------------------------------------------------------
(* The inode table *)

\* iget().  The entry of an inode that nobody refers to is free and
\* counts as not valid: iget() clears the flag when it takes the entry.
Iget(i) == ref' = [ref EXCEPT ![i] = @ + 1]
Idup(i) == ref' = [ref EXCEPT ![i] = @ + 1]

\* ilock() of inode i can go on, and reads it in if need be.
LockFree(i) == lock[i] = NoProc
Ilock(i) == valid' = [valid EXCEPT ![i] = TRUE]
PanicIf(bad, i, what) == panicked' = IF ~bad THEN "no" ELSE IF i \in stray THEN "stray" ELSE what
Iunlock(i) == lock' = [lock EXCEPT ![i] = NoProc]
IlockPanics(i) == ~valid[i] /\ dinode[i].type = "none"

\* Mutants of MustFree: others may still refer to the inode, or name it.
MustFreeShared(i) == valid[i] /\ dinode[i].nlink = 0
MustFreeLinked(i) == ref[i] = 1 /\ valid[i]

\* iput(), on the first inode that the call has to drop.  The last reference to
\* an inode without links frees it: the sleep lock is taken under itable.lock,
\* the inode truncated and freed, and only then, the lock dropped and retaken,
\* is the reference given up.
MustFree(i) == ref[i] = 1 /\ valid[i] /\ dinode[i].nlink = 0

IputFree(p) ==
  LET i == Head(c[p].put)
  IN /\ panicked = "no" /\ c[p].put # <<>> /\ c[p].iput = "check" /\ MustFree(i)
     /\ panicked' = IF LockFree(i) THEN "no" ELSE "sched locks"
     /\ dinode' = [dinode EXCEPT ![i] = FreeInode]
     /\ valid' = [valid EXCEPT ![i] = FALSE]
     /\ stray' = stray \cup ({dinode[i].ent[n] : n \in Name} \ {0})
     /\ Goto(p, [c[p] EXCEPT !.iput = "drop"])
     /\ UNCHANGED <<calls, ref, lock, cwd, file>>

IputDrop(p) ==
  LET i == Head(c[p].put)
  IN /\ panicked = "no" /\ c[p].put # <<>>
     /\ c[p].iput = "drop" \/ (c[p].iput = "check" /\ ~MustFree(i))
     /\ ref' = [ref EXCEPT ![i] = @ - 1]
     /\ valid' = [valid EXCEPT ![i] = @ /\ ref[i] > 1]
     /\ Goto(p, [c[p] EXCEPT !.put = Tail(@), !.iput = "check"])
     /\ UNCHANGED <<calls, dinode, lock, cwd, file, stray, panicked>>

-----------------------------------------------------------------------------
(* namex() *)

\* The first element of a path, and the rest.
skipelem(path) == [name |-> Head(path), rest |-> Tail(path)]

StartOf(p, path) == IF path.abs THEN ROOTINO ELSE cwd[p]

\* Mutant of Failed: the directory is not put.
FailedKeeping(r) == IF r.op = "link_new" THEN [r EXCEPT !.at = "bad", !.put = <<>>] ELSE Idle

\* What a lookup that fails leads to: link() has a link to take back.
Failed(r) == IF r.op = "link_new" THEN [r EXCEPT !.at = "bad"] ELSE [Idle EXCEPT !.put = r.put]

\* With the path used up namei() is done, and nameiparent() fails.
Namex(r) ==
  IF r.rest # <<>> THEN [r EXCEPT !.at = "namex"]
  ELSE IF Parent(r.op) THEN Failed([r EXCEPT !.cur = 0, !.put = @ \o <<r.cur>>])
  ELSE [r EXCEPT !.at = "found", !.ip = r.cur, !.cur = 0]

\* A call begins with the lookup of its (first) path.
Call(p, op, path) ==
  /\ panicked = "no" /\ c[p] = Idle /\ calls < MAXCALLS
  /\ op \in {"open_create", "open"} => file[p] = 0
  /\ IF path.abs THEN Iget(ROOTINO) ELSE Idup(cwd[p])
  /\ calls' = calls + 1
  /\ Goto(p, Namex([Idle EXCEPT !.op = op, !.rest = path.elems, !.cur = StartOf(p, path)]))
  /\ UNCHANGED <<dinode, valid, lock, cwd, file, stray, panicked>>

\* Lock the directory, look the next element up, unlock and drop the directory.
NamexStep(p) ==
  LET d == c[p].cur
      path == skipelem(c[p].rest)
      name == path.name
      next == dinode[d].ent[name]
      drop == [c[p] EXCEPT !.cur = 0, !.put = <<d>>]
      isdir == dinode[d].type = "dir"
      stop == isdir /\ Parent(c[p].op) /\ path.rest = <<>>
      found == isdir /\ ~stop /\ next # 0
  IN /\ At(p, "namex") /\ LockFree(d)
     /\ PanicIf(IlockPanics(d), d, "ilock: no type")
     /\ ref' = IF found THEN [ref EXCEPT ![next] = @ + 1] ELSE ref
     /\ Ilock(d)
     /\ stray' = IF found /\ name = ".." /\ dinode[next].nlink = 0 THEN stray \cup {next} ELSE stray
     /\ Goto(p, IF stop THEN [c[p] EXCEPT !.at = "found", !.dp = d, !.cur = 0]
                ELSE IF found THEN Namex([drop EXCEPT !.rest = path.rest, !.cur = next])
                ELSE Failed(drop))
     /\ UNCHANGED <<calls, dinode, lock, cwd, file>>

-----------------------------------------------------------------------------
(* open without O_CREATE, and chdir: namei(), ilock(), a look, iunlock() *)

\* got: the mode suits the inode, and filealloc() and fdalloc() succeed.
Open(p, got) ==
  LET i == c[p].ip
  IN /\ At(p, "found") /\ c[p].op = "open" /\ LockFree(i)
     /\ PanicIf(IlockPanics(i), i, "ilock: no type") /\ Ilock(i)
     /\ file' = [file EXCEPT ![p] = IF got THEN i ELSE 0]
     /\ Goto(p, [Idle EXCEPT !.put = IF got THEN <<>> ELSE <<i>>])
     /\ UNCHANGED <<calls, dinode, ref, lock, cwd, stray>>

Chdir(p) ==
  LET i == c[p].ip
      isdir == dinode[i].type = "dir"
  IN /\ At(p, "found") /\ c[p].op = "chdir" /\ LockFree(i)
     /\ PanicIf(IlockPanics(i), i, "ilock: no type") /\ Ilock(i)
     /\ cwd' = [cwd EXCEPT ![p] = IF isdir THEN i ELSE @]
     /\ Goto(p, [Idle EXCEPT !.put = IF isdir THEN <<cwd[p]>> ELSE <<i>>])
     /\ UNCHANGED <<calls, dinode, ref, lock, file, stray>>

\* sys_close() of the last descriptor: fileclose() drops the inode.
Close(p) ==
  /\ panicked = "no" /\ c[p] = Idle /\ file[p] # 0
  /\ file' = [file EXCEPT ![p] = 0]
  /\ Goto(p, [Idle EXCEPT !.put = <<file[p]>>])
  /\ UNCHANGED <<calls, dinode, ref, valid, lock, cwd, stray, panicked>>

\* sys_fstat(): filestat() locks the inode to copy its fields.
Filestat(p) ==
  LET i == file[p]
  IN /\ panicked = "no" /\ c[p] = Idle /\ i # 0 /\ LockFree(i)
     /\ PanicIf(IlockPanics(i), i, "ilock: no type") /\ Ilock(i)
     /\ UNCHANGED <<calls, dinode, ref, lock, cwd, file, c, stray>>

-----------------------------------------------------------------------------
(* create(), for open with O_CREATE, mkdir and mknod *)

\* "file" stands for T_FILE and T_DEVICE, which no step here tells apart.
NewType(op) == IF op = "mkdir" THEN "dir" ELSE "file"

FreeInums == {i \in Inum \ {ROOTINO} : dinode[i].type = "none"}

Creates(op) == op \in {"open_create", "mkdir", "mknod"}

\* The name exists in the parent, which is unlocked and dropped.
CreateExists(p) ==
  LET d == c[p].dp
      i == dinode[d].ent[Head(c[p].rest)]
  IN /\ At(p, "found") /\ Creates(c[p].op) /\ LockFree(d) /\ i # 0
     /\ Ilock(d) /\ Iget(i)
     /\ stray' = IF Head(c[p].rest) = ".." /\ dinode[i].nlink = 0 THEN stray \cup {i} ELSE stray
     /\ Goto(p, [c[p] EXCEPT !.at = "exists", !.dp = 0, !.ip = i, !.put = <<d>>])
     /\ UNCHANGED <<calls, dinode, lock, cwd, file, panicked>>

\* Only open takes what exists, and no directory.
CreateFound(p, got) ==
  LET i == c[p].ip
      keep == got /\ c[p].op = "open_create" /\ dinode[i].type = "file"
  IN /\ At(p, "exists") /\ LockFree(i)
     /\ PanicIf(IlockPanics(i), i, "ilock: no type") /\ Ilock(i)
     /\ file' = [file EXCEPT ![p] = IF keep THEN i ELSE @]
     /\ Goto(p, [Idle EXCEPT !.put = IF keep THEN <<>> ELSE <<i>>])
     /\ UNCHANGED <<calls, dinode, ref, lock, cwd, stray>>

\* ialloc() takes the first free inode; the parent stays locked.
CreateAlloc(p) ==
  LET d == c[p].dp
      i == Min(FreeInums)
  IN /\ At(p, "found") /\ Creates(c[p].op) /\ LockFree(d)
     /\ dinode[d].ent[Head(c[p].rest)] = 0
     /\ Ilock(d)
     /\ IF FreeInums = {}
          THEN /\ Goto(p, [Idle EXCEPT !.put = <<d>>])
               /\ UNCHANGED <<dinode, ref, lock>>
          ELSE /\ dinode' = [dinode EXCEPT ![i].type = NewType(c[p].op)]
               /\ Iget(i)
               /\ lock' = [lock EXCEPT ![d] = p]
               /\ Goto(p, [c[p] EXCEPT !.at = "new", !.ip = i])
     /\ UNCHANGED <<calls, cwd, file, stray, panicked>>

\* Lock the new inode and enter it in the parent.  When a dirlink() fails
\* (full) the link is taken back, and the inode is put before the parent is
\* unlocked.
CreateLink(p, full) ==
  LET d == c[p].dp
      i == c[p].ip
      isdir == c[p].op = "mkdir"
      named == [dinode EXCEPT ![d].ent[Head(c[p].rest)] = i,
                              ![d].nlink = IF isdir THEN @ + 1 ELSE @,
                              ![i].nlink = 1,
                              ![i].ent[".."] = IF isdir THEN d ELSE 0]
  IN /\ At(p, "new") /\ LockFree(i)
     /\ Ilock(i)
     /\ dinode' = IF full THEN [dinode EXCEPT ![i].nlink = 0] ELSE named
     /\ lock' = IF full THEN lock ELSE [lock EXCEPT ![d] = NoProc, ![i] = p]
     /\ Goto(p, IF full THEN [c[p] EXCEPT !.at = "undo", !.ip = 0, !.put = <<i>>]
                ELSE [c[p] EXCEPT !.at = "made", !.dp = 0, !.put = <<d>>])
     /\ UNCHANGED <<calls, ref, cwd, file, stray, panicked>>

\* The caller of create() unlocks the new inode: open keeps it, if it can.
CreateDone(p, got) ==
  LET i == c[p].ip
      keep == got /\ c[p].op = "open_create"
  IN /\ At(p, "made")
     /\ Iunlock(i)
     /\ file' = [file EXCEPT ![p] = IF keep THEN i ELSE @]
     /\ Goto(p, [Idle EXCEPT !.put = IF keep THEN <<>> ELSE <<i>>])
     /\ UNCHANGED <<calls, dinode, ref, valid, cwd, stray, panicked>>

\* A failure with the parent locked, of any call: iunlockput(dp).
Undo(p) ==
  LET d == c[p].dp
  IN /\ At(p, "undo")
     /\ Iunlock(d)
     /\ Goto(p, Failed([c[p] EXCEPT !.dp = 0, !.put = <<d>>]))
     /\ UNCHANGED <<calls, dinode, ref, valid, cwd, file, stray, panicked>>

-----------------------------------------------------------------------------
(* unlink *)

UnlinkLookup(p) ==
  LET d == c[p].dp
      name == Head(c[p].rest)
      i == dinode[d].ent[name]
      bad == name = ".." \/ i = 0
  IN /\ At(p, "found") /\ c[p].op = "unlink" /\ LockFree(d)
     /\ Ilock(d)
     /\ ref' = IF bad THEN ref ELSE [ref EXCEPT ![i] = @ + 1]
     /\ lock' = IF bad THEN lock ELSE [lock EXCEPT ![d] = p]
     /\ Goto(p, IF bad THEN [Idle EXCEPT !.put = <<d>>]
                ELSE [c[p] EXCEPT !.at = "victim", !.ip = i])
     /\ UNCHANGED <<calls, dinode, cwd, file, stray, panicked>>

isdirempty(i) == \A n \in Name : dinode[i].ent[n] = 0

\* Parent and victim locked: the entry is erased and the parent put.
UnlinkErase(p) ==
  LET d == c[p].dp
      i == c[p].ip
      isdir == dinode[i].type = "dir"
      busy == isdir /\ ~isdirempty(i)
  IN /\ At(p, "victim") /\ LockFree(i)
     /\ Ilock(i)
     /\ PanicIf(IlockPanics(i) \/ dinode[i].nlink < 1, i, "unlink: nlink < 1")
     /\ dinode' = IF busy THEN dinode
                  ELSE [dinode EXCEPT ![d].ent[Head(c[p].rest)] = 0,
                                      ![d].nlink = IF isdir THEN @ - 1 ELSE @]
     /\ lock' = IF busy THEN lock ELSE [lock EXCEPT ![d] = NoProc, ![i] = p]
     /\ Goto(p, IF busy THEN [c[p] EXCEPT !.at = "undo", !.ip = 0, !.put = <<i>>]
                ELSE [c[p] EXCEPT !.at = "erased", !.dp = 0, !.put = <<d>>])
     /\ UNCHANGED <<calls, ref, cwd, file, stray>>

UnlinkDrop(p) ==
  LET i == c[p].ip
  IN /\ At(p, "erased")
     /\ dinode' = [dinode EXCEPT ![i].nlink = @ - 1]
     /\ Iunlock(i)
     /\ Goto(p, [Idle EXCEPT !.put = <<i>>])
     /\ UNCHANGED <<calls, ref, valid, cwd, file, stray, panicked>>

-----------------------------------------------------------------------------
(* link *)

\* The old name found: count the new link, then look for the new parent.
LinkOld(p, path) ==
  LET i == c[p].ip
      start == StartOf(p, path)
      isdir == dinode[i].type = "dir"
  IN /\ At(p, "found") /\ c[p].op = "link" /\ LockFree(i)
     /\ PanicIf(IlockPanics(i), i, "ilock: no type") /\ Ilock(i)
     /\ dinode' = IF isdir THEN dinode ELSE [dinode EXCEPT ![i].nlink = @ + 1]
     /\ ref' = IF isdir THEN ref ELSE [ref EXCEPT ![start] = @ + 1]
     /\ Goto(p, IF isdir THEN [Idle EXCEPT !.put = <<i>>]
                ELSE Namex([Idle EXCEPT !.op = "link_new", !.rest = path.elems,
                                        !.cur = start, !.ip = i]))
     /\ UNCHANGED <<calls, lock, cwd, file, stray>>

\* dirlink() in the new parent; a name that exists is looked up and put under
\* the parent's lock.
LinkNew(p, full) ==
  LET d == c[p].dp
      i == c[p].ip
      there == dinode[d].ent[Head(c[p].rest)]
      r == [c[p] EXCEPT !.dp = 0, !.put = <<d>>]
  IN /\ At(p, "found") /\ c[p].op = "link_new" /\ LockFree(d)
     /\ Ilock(d)
     /\ IF there # 0
          THEN /\ Iget(there)
               /\ lock' = [lock EXCEPT ![d] = p]
               /\ Goto(p, [c[p] EXCEPT !.at = "undo", !.put = <<there>>])
               /\ UNCHANGED dinode
          ELSE /\ dinode' = IF full THEN dinode ELSE [dinode EXCEPT ![d].ent[Head(c[p].rest)] = i]
               /\ Goto(p, IF full THEN [r EXCEPT !.at = "bad"]
                          ELSE [Idle EXCEPT !.put = <<d, i>>])
               /\ UNCHANGED <<ref, lock>>
     /\ UNCHANGED <<calls, cwd, file, stray, panicked>>

\* Mutant of LinkBad: the link stays counted.
LinkBadCounted(p) ==
  /\ At(p, "bad") /\ LockFree(c[p].ip)
  /\ Goto(p, [Idle EXCEPT !.put = <<c[p].ip>>])
  /\ UNCHANGED <<calls, dinode, ref, valid, lock, cwd, file, stray, panicked>>

LinkBad(p) ==
  LET i == c[p].ip
  IN /\ At(p, "bad") /\ LockFree(i)
     /\ dinode' = [dinode EXCEPT ![i].nlink = @ - 1]
     /\ Goto(p, [Idle EXCEPT !.put = <<i>>])
     /\ UNCHANGED <<calls, ref, valid, lock, cwd, file, stray, panicked>>

-----------------------------------------------------------------------------

Ops == {"open", "open_create", "mkdir", "mknod", "chdir", "link", "unlink"}

Step(p) ==
  \/ IputFree(p) \/ IputDrop(p)
  \/ NamexStep(p)
  \/ \E got \in BOOLEAN : Open(p, got) \/ CreateFound(p, got) \/ CreateDone(p, got)
  \/ Chdir(p)
  \/ CreateExists(p) \/ CreateAlloc(p) \/ Undo(p)
  \/ \E full \in BOOLEAN : CreateLink(p, full) \/ LinkNew(p, full)
  \/ UnlinkLookup(p) \/ UnlinkErase(p) \/ UnlinkDrop(p)
  \/ \E path \in Paths : LinkOld(p, path)
  \/ LinkBad(p)

Next ==
  \E p \in Proc :
    \/ Step(p) \/ Close(p) \/ Filestat(p)
    \/ \E op \in Ops, path \in Paths : Call(p, op, path)

Spec == Init /\ [][Next]_vars

-----------------------------------------------------------------------------
(* Properties *)

\* How often process p holds a reference to inode i.
Holds(p, i) ==
  LET one(x) == IF x = i THEN 1 ELSE 0
      r == c[p]
  IN one(cwd[p]) + one(file[p]) + one(r.ip) + one(r.dp) + one(r.cur)
       + Len(SelectSeq(r.put, LAMBDA x : x = i))

\* Every reference that the inode table counts is held by someone, and every
\* inode that someone uses is counted, at every step of every call and on each
\* of the error paths: no entry is recycled in use, none leaks.
RefsExact ==
  panicked = "no" => \A i \in Inum : ref[i] = MapThenSumSet(LAMBDA p : Holds(p, i), Proc)

\* The directory entries that are links to inode i: those that name it, and,
\* when it is a directory, the ".." of each directory entered in it.
Links(i) ==
  LET names == {<<d, n>> \in Inum \X Name : dinode[d].ent[n] = i}
      children == {n \in Name : LET k == dinode[i].ent[n] IN k # 0 /\ dinode[k].type = "dir"}
  IN Cardinality(names) + Cardinality(children) + IF i = ROOTINO THEN 1 ELSE 0

\* Between transactions, which is when the log commits, the link count of an
\* inode is the number of links to it, whatever calls ran at once and wherever
\* they failed; and a directory entry names an inode that is in use.  Excepted
\* are the stray inodes: one that a directory still named when it was itself
\* freed, since create() and link() enter names in a directory that was removed
\* after nameiparent() returned it; and one without links that was reached by
\* the ".." of a removed directory, whose parent may be free or another inode.
LinkCounts ==
  (panicked = "no" /\ \A p \in Proc : c[p].op = "none" /\ c[p].put = <<>>) =>
    \A i \in Inum \ stray :
      /\ dinode[i].nlink = Links(i)
      /\ Links(i) > 0 => dinode[i].type # "none"

\* The inode whose lock process p sleeps for.
WaitsFor(p) ==
  LET r == c[p]
  IN CASE r.put # <<>> -> 0
       [] r.at = "namex" -> r.cur
       [] r.at = "found" /\ Parent(r.op) -> r.dp
       [] r.at \in {"found", "exists", "new", "victim", "bad"} -> r.ip
       [] OTHER -> 0

\* No processes sleep for each other's inode locks: parents are locked before
\* children, and iput() under an inode lock never waits for another (the comment
\* in iput(): "this acquiresleep() won't block (or deadlock)").
NoLockCycle ==
  /\ panicked # "sched locks"
  /\ panicked = "no" => \A S \in (SUBSET Proc) \ {{}} :
       \E p \in S : WaitsFor(p) = 0 \/ lock[WaitsFor(p)] \notin S

\* No call panics but on a stray inode: no other name leads to a free inode, no
\* link count falls below the links there are.
PanicsOnlyOnStray == panicked \in {"no", "stray"}
=============================================================================

----------------------------- MODULE FileTable ------------------------------
(***************************************************************************)
(* Descriptors and open files: the file table of kernel/file.c, and the    *)
(* calls of kernel/sysfile.c and proc.c that make, share and drop its      *)
(* entries.  A step is what one holding of ftable.lock covers, or the work *)
(* on the object under a file (an inode reference, a pipe) after it.       *)
(* Devices are files on an inode; what a pipe end or an inode does is in   *)
(* the modules Pipe and Fs.                                                *)
(***************************************************************************)
EXTENDS Integers, Sequences, FiniteSets, FiniteSetsExt

CONSTANTS
  Proc, NOFILE, NFILE, Inum,
  NPIPE      \* pages that kalloc() has for pipes

ASSUME FileTableAssumption == {NOFILE, NFILE, NPIPE} \subseteq Nat \ {0}

VARIABLES
  file,      \* ftable.file: [ref, type, obj, writable]
  ofile,     \* p->ofile, 0 for none
  alive,     \* the processes there are
  iref,      \* references to an inode
  pipe,      \* the ends of a pipe that are open; a free page has none
  c          \* the call a process is in

vars == <<file, ofile, alive, iref, pipe, c>>

File == 1..NFILE
FD == 0..(NOFILE - 1)
Ends == {FALSE, TRUE}   \* ff.writable
NoFile == [ref |-> 0, type |-> "none", obj |-> 0, writable |-> FALSE]

\* ip: an inode reference; f: files allocated and not installed; close: files to
\* fileclose(); shut: the copies ff of files whose object is still to be closed.
Idle == [at |-> "user", ip |-> 0, f |-> <<>>, close |-> <<>>, shut |-> <<>>, fd |-> 0, child |-> 0]

Init ==
  /\ file = [f \in File |-> NoFile]
  /\ ofile = [p \in Proc |-> [fd \in FD |-> 0]]
  /\ \E p \in Proc : alive = {p}
  /\ iref = [i \in Inum |-> 0]
  /\ pipe = [k \in 1..NPIPE |-> {}]
  /\ c = [p \in Proc |-> Idle]

Goto(p, r) == c' = [c EXCEPT ![p] = r]
At(p, at) == p \in alive /\ c[p].at = at /\ c[p].close = <<>> /\ c[p].shut = <<>>

-----------------------------------------------------------------------------
(* file.c *)

FreeFiles == {f \in File : file[f].ref = 0}

\* filealloc(), which leaves the other fields as it finds them.
Filealloc(f) == file' = [file EXCEPT ![f].ref = 1]

\* Mutant of Filedup: the new descriptor is not counted.
FiledupUncounted(f) == UNCHANGED file

Filedup(f) == file' = [file EXCEPT ![f].ref = @ + 1]

\* fileclose() up to the release of ftable.lock.  A file of type FD_NONE keeps
\* its other fields, but no code looks at them.
Fileclose(p) ==
  LET r == c[p]
      f == Head(r.close)
      ff == file[f]
      last == ff.ref = 1
      rest == [r EXCEPT !.close = Tail(@)]
  IN /\ r.close # <<>> /\ r.shut = <<>>
     /\ file' = [file EXCEPT ![f] = IF last THEN NoFile ELSE [ff EXCEPT !.ref = @ - 1]]
     /\ Goto(p, IF last /\ ff.type # "none" THEN [rest EXCEPT !.shut = <<ff>>] ELSE rest)
     /\ UNCHANGED <<ofile, alive, iref, pipe>>

\* The rest of it: pipeclose(), or iput() in a transaction.
Shut(p) ==
  LET ff == Head(c[p].shut)
  IN /\ c[p].shut # <<>>
     /\ IF ff.type = "pipe"
          THEN pipe' = [pipe EXCEPT ![ff.obj] = @ \ {ff.writable}] /\ UNCHANGED iref
          ELSE iref' = [iref EXCEPT ![ff.obj] = @ - 1] /\ UNCHANGED pipe
     /\ Goto(p, [c[p] EXCEPT !.shut = <<>>])
     /\ UNCHANGED <<file, ofile, alive>>

-----------------------------------------------------------------------------
(* sysfile.c *)

\* The file of a descriptor argument, 0 when it is none.
argfd(p, fd) == IF fd \in FD THEN ofile[p][fd] ELSE 0

FreeFds(p) == {fd \in FD : ofile[p][fd] = 0}

\* sys_open() has its inode.
Open(p, i) ==
  /\ At(p, "user")
  /\ iref' = [iref EXCEPT ![i] = @ + 1]
  /\ Goto(p, [Idle EXCEPT !.at = "open", !.ip = i])
  /\ UNCHANGED <<file, ofile, alive, pipe>>

OpenAlloc(p) ==
  /\ At(p, "open")
  /\ IF FreeFiles = {}
       THEN Goto(p, [c[p] EXCEPT !.at = "openbad"]) /\ UNCHANGED file
       ELSE Filealloc(Min(FreeFiles)) /\ Goto(p, [c[p] EXCEPT !.at = "openfd", !.f = <<Min(FreeFiles)>>])
  /\ UNCHANGED <<ofile, alive, iref, pipe>>

\* fdalloc() and the fields of the file; without a descriptor, fileclose().
OpenFd(p) ==
  LET f == c[p].f[1]
  IN /\ At(p, "openfd")
     /\ IF FreeFds(p) = {}
          THEN /\ Goto(p, [c[p] EXCEPT !.at = "openbad", !.f = <<>>, !.close = <<f>>])
               /\ UNCHANGED <<file, ofile>>
          ELSE /\ ofile' = [ofile EXCEPT ![p][Min(FreeFds(p))] = f]
               /\ file' = [file EXCEPT ![f].type = "inode", ![f].obj = c[p].ip, ![f].writable = FALSE]
               /\ Goto(p, Idle)
     /\ UNCHANGED <<alive, iref, pipe>>

OpenBad(p) ==
  /\ At(p, "openbad")
  /\ iref' = [iref EXCEPT ![c[p].ip] = @ - 1]
  /\ Goto(p, Idle)
  /\ UNCHANGED <<file, ofile, alive, pipe>>

\* pipealloc(): two files, one at a time, then a page.
PipeFile(p) ==
  LET r == c[p]
  IN /\ At(p, "user") \/ (At(p, "pipe") /\ Len(r.f) < 2)
     /\ IF FreeFiles = {}
          THEN Goto(p, [Idle EXCEPT !.close = r.f]) /\ UNCHANGED file
          ELSE /\ Filealloc(Min(FreeFiles))
               /\ Goto(p, [r EXCEPT !.at = "pipe", !.f = Append(@, Min(FreeFiles))])
     /\ UNCHANGED <<ofile, alive, iref, pipe>>

PipePage(p) ==
  LET r == c[p]
      free == {k \in DOMAIN pipe : pipe[k] = {}}
      k == Min(free)
  IN /\ At(p, "pipe") /\ Len(r.f) = 2
     /\ IF free = {}
          THEN Goto(p, [Idle EXCEPT !.close = r.f]) /\ UNCHANGED <<file, pipe>>
          ELSE /\ pipe' = [pipe EXCEPT ![k] = Ends]
               /\ file' = [file EXCEPT
                    ![r.f[1]] = [@ EXCEPT !.type = "pipe", !.obj = k, !.writable = FALSE],
                    ![r.f[2]] = [@ EXCEPT !.type = "pipe", !.obj = k, !.writable = TRUE]]
               /\ Goto(p, [r EXCEPT !.at = "pipefd"])
     /\ UNCHANGED <<ofile, alive, iref>>

\* Two descriptors, then copyout() of their numbers (ok): a failure undoes it all.
PipeFd(p, ok) ==
  LET f == c[p].f
      free == FreeFds(p)
      fd0 == Min(free)
      fd1 == Min(free \ {fd0})
  IN /\ At(p, "pipefd")
     /\ IF Cardinality(free) < 2 \/ ~ok
          THEN Goto(p, [Idle EXCEPT !.close = f]) /\ UNCHANGED ofile
          ELSE ofile' = [ofile EXCEPT ![p][fd0] = f[1], ![p][fd1] = f[2]] /\ Goto(p, Idle)
     /\ UNCHANGED <<file, alive, iref, pipe>>

Dup(p, fd) ==
  /\ At(p, "user") /\ argfd(p, fd) # 0 /\ FreeFds(p) # {}
  /\ ofile' = [ofile EXCEPT ![p][Min(FreeFds(p))] = argfd(p, fd)]
  /\ Filedup(argfd(p, fd))
  /\ UNCHANGED <<alive, iref, pipe, c>>

Close(p, fd) ==
  /\ At(p, "user") /\ argfd(p, fd) # 0
  /\ ofile' = [ofile EXCEPT ![p][fd] = 0]
  /\ Goto(p, [Idle EXCEPT !.close = <<argfd(p, fd)>>])
  /\ UNCHANGED <<file, alive, iref, pipe>>

-----------------------------------------------------------------------------
(* fork(), past its uvmcopy(), and exit() *)

Fork(p, q) ==
  /\ At(p, "user") /\ q \notin alive /\ \A r \in Proc : c[r].child # q
  /\ Goto(p, [Idle EXCEPT !.at = "fork", !.child = q])
  /\ UNCHANGED <<file, ofile, alive, iref, pipe>>

\* filedup() of one descriptor; after the last the child can run.
ForkFd(p) ==
  LET r == c[p]
      f == ofile[p][r.fd]
  IN /\ At(p, "fork")
     /\ file' = IF f = 0 THEN file ELSE [file EXCEPT ![f].ref = @ + 1]
     /\ ofile' = [ofile EXCEPT ![r.child][r.fd] = f]
     /\ alive' = IF r.fd = NOFILE - 1 THEN alive \cup {r.child} ELSE alive
     /\ Goto(p, IF r.fd = NOFILE - 1 THEN Idle ELSE [r EXCEPT !.fd = @ + 1])
     /\ UNCHANGED <<iref, pipe>>

\* The loop of exit(); that the slot of p->ofile is cleared only after its
\* fileclose() is seen by nobody else.
Exit(p) ==
  LET r == c[p]
      fd == r.fd
      last == fd = NOFILE - 1
  IN /\ At(p, "user") \/ At(p, "exit")
     /\ Cardinality(alive) > 1 \/ r.at = "exit"
     /\ ofile' = [ofile EXCEPT ![p][fd] = 0]
     /\ Goto(p, [r EXCEPT !.at = IF last THEN "zombie" ELSE "exit", !.fd = IF last THEN 0 ELSE fd + 1,
                          !.close = IF ofile[p][fd] = 0 THEN <<>> ELSE <<ofile[p][fd]>>])
     /\ UNCHANGED <<file, alive, iref, pipe>>

Reaped(p) ==
  /\ At(p, "zombie")
  /\ alive' = alive \ {p}
  /\ Goto(p, Idle)
  /\ UNCHANGED <<file, ofile, iref, pipe>>

-----------------------------------------------------------------------------

Next ==
  \E p \in Proc :
    \/ Fileclose(p) \/ Shut(p)
    \/ \E i \in Inum : Open(p, i)
    \/ OpenAlloc(p) \/ OpenFd(p) \/ OpenBad(p)
    \/ PipeFile(p) \/ PipePage(p)
    \/ \E ok \in BOOLEAN : PipeFd(p, ok)
    \/ \E fd \in (-1)..NOFILE : Dup(p, fd) \/ Close(p, fd)
    \/ \E q \in Proc : Fork(p, q)
    \/ ForkFd(p) \/ Exit(p) \/ Reaped(p)

Spec == Init /\ [][Next]_vars

-----------------------------------------------------------------------------
(* Properties *)

Times(s, x) == Len(SelectSeq(s, LAMBDA y : y = x))

Live(ff) == ff.ref > 0 /\ ff.type # "none"
Shutting == {p \in Proc : c[p].shut # <<>>}

\* A file counts the descriptors that name it, and the calls that hold it, at
\* every step: no failing call leaves an entry taken, and no entry is given out
\* while somebody still has it.  The objects under files are closed once, when
\* the last descriptor goes: an inode has a reference for each file on it, also
\* those in the hands of a call, and a pipe end is open just as long as there is
\* one file for it.  A descriptor that a process can use names a file with an
\* object, so that fileread() and filewrite() never see the type FD_NONE.
RefsMatch ==
  LET of(t, o) == {f \in File : Live(file[f]) /\ file[f].type = t /\ file[f].obj = o}
      shut(t, o) == {p \in Shutting : c[p].shut[1].type = t /\ c[p].shut[1].obj = o}
  IN /\ \A f \in File :
          file[f].ref = Cardinality({<<p, fd>> \in Proc \X FD : ofile[p][fd] = f})
                        + MapThenSumSet(LAMBDA p : Times(c[p].f, f) + Times(c[p].close, f), Proc)
     /\ \A i \in Inum :
          iref[i] = Cardinality(of("inode", i)) + Cardinality(shut("inode", i))
                    + Cardinality({p \in Proc : c[p].ip = i})
     /\ \A k \in DOMAIN pipe, w \in Ends :
          Cardinality({f \in of("pipe", k) : file[f].writable = w})
            + Cardinality({p \in shut("pipe", k) : c[p].shut[1].writable = w})
            = IF w \in pipe[k] THEN 1 ELSE 0
     /\ \A p \in alive, fd \in FD : ofile[p][fd] # 0 => Live(file[ofile[p][fd]])
=============================================================================

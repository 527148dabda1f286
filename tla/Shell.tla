------------------------------- MODULE Shell --------------------------------
(***************************************************************************)
(* The shell, user/sh.c: the parser of command lines, and the processes    *)
(* and descriptors with which a command runs.  A line is a sequence of     *)
(* characters.  Each process steps from one fork(), wait(), exec() or      *)
(* exit() to the next, and processes interleave; the descriptors of a      *)
(* process are its own, and what they name does not matter here.           *)
(***************************************************************************)
EXTENDS Naturals, SequencesExt

CONSTANTS
  Lines,         \* pairs of a line and the command it stands for, or Error
  MAXARGS,
  NPROC,         \* bound: processes ever made, init and its shells included
  Error, NoCmd

VARIABLES
  line, want,    \* the line to type, and its meaning
  typed,         \* it was typed
  proc,          \* the processes made so far; 1 is init
  orphaned       \* a pipe's second fork1() failed, and its first child was left

vars == <<line, want, typed, proc, orphaned>>

-----------------------------------------------------------------------------
(* Tokens *)

whitespace == {" ", "nl"}
symbols == {"<", "|", ">", "&", ";", "(", ")"}
AtEnd(l, s) == s > Len(l)

\* From s on, the first place that is not in the set.
Skip(l, s, set) == Min({k \in s..(Len(l) + 1) : AtEnd(l, k) \/ l[k] \notin set})

\* The token that begins at q: its kind, its place and where to go on.
TokenAt(l, q) ==
  LET is(chs) == ~AtEnd(l, q) /\ l[q] \in chs
      append == is({">"}) /\ ~AtEnd(l, q + 1) /\ l[q + 1] = ">"
      words == {l[k] : k \in DOMAIN l} \ (whitespace \cup symbols)
      token(tok, eq) == [tok |-> tok, word |-> <<q, eq>>, s |-> Skip(l, eq, whitespace)]
  IN CASE AtEnd(l, q) -> token("0", q)
       [] append -> token("+", q + 2)
       [] is(symbols) /\ ~append -> token(l[q], q + 1)
       [] OTHER -> token("a", Skip(l, q, words))

gettoken(l, s) == TokenAt(l, Skip(l, s, whitespace))

peek(l, s, toks) ==
  LET k == Skip(l, s, whitespace) IN ~AtEnd(l, k) /\ l[k] \in toks

-----------------------------------------------------------------------------
(* Commands *)

execcmd == [type |-> "EXEC", argv |-> <<>>]
redircmd(cmd, file, mode) == [type |-> "REDIR", cmd |-> cmd, file |-> file, mode |-> mode]
pipecmd(left, right) == [type |-> "PIPE", left |-> left, right |-> right]
listcmd(left, right) == [type |-> "LIST", left |-> left, right |-> right]
backcmd(cmd) == [type |-> "BACK", cmd |-> cmd]

\* An argument goes to the EXEC under the redirections parsed so far.
RECURSIVE AddArg(_, _)
AddArg(cmd, word) ==
  IF cmd.type = "EXEC" THEN [cmd EXCEPT !.argv = Append(@, word)]
  ELSE [cmd EXCEPT !.cmd = AddArg(@, word)]

RECURSIVE Argc(_)
Argc(cmd) == IF cmd.type = "EXEC" THEN Len(cmd.argv) ELSE Argc(cmd.cmd)

\* Words are places in the line until nulterminate() ends them there.
RECURSIVE nulterminate(_, _)
nulterminate(l, cmd) ==
  LET cut(word) == SubSeq(l, word[1], word[2] - 1)
  IN CASE cmd.type = "EXEC" -> [cmd EXCEPT !.argv = [i \in DOMAIN @ |-> cut(@[i])]]
       [] cmd.type = "REDIR" -> [cmd EXCEPT !.cmd = nulterminate(l, @), !.file = cut(@)]
       [] cmd.type = "BACK" -> [cmd EXCEPT !.cmd = nulterminate(l, @)]
       [] OTHER -> [cmd EXCEPT !.left = nulterminate(l, @), !.right = nulterminate(l, @)]

-----------------------------------------------------------------------------
(* The parser.  What is parsed: [ok, cmd, s]; after panic() not ok. *)

Panic == [ok |-> FALSE, cmd |-> NoCmd, s |-> 1]

RECURSIVE parseredirs(_, _)
parseredirs(l, r) ==
  LET redir(mode, f) ==
        IF f.tok # "a" THEN Panic
        ELSE parseredirs(l, [r EXCEPT !.s = f.s, !.cmd = redircmd(@, f.word, mode)])
  IN IF ~r.ok \/ ~peek(l, r.s, {"<", ">"}) THEN r
     ELSE redir(gettoken(l, r.s).tok, gettoken(l, gettoken(l, r.s).s))

\* Mutant: redirections after a block are left in the line.
parseblockBare(l, s, pl) ==
  LET end(r) == IF ~r.ok \/ ~peek(l, r.s, {")"}) THEN Panic
                ELSE [r EXCEPT !.s = gettoken(l, @).s]
  IN end(pl[gettoken(l, s).s])

\* pl is parseline() on the same line, as a function of the place.
parseblock(l, s, pl) ==
  LET end(r) == IF ~r.ok \/ ~peek(l, r.s, {")"}) THEN Panic
                ELSE parseredirs(l, [r EXCEPT !.s = gettoken(l, @).s])
  IN end(pl[gettoken(l, s).s])

\* The loop of parseexec().
RECURSIVE parseargs(_, _)
parseargs(l, r) ==
  LET arg(t) ==
        IF t.tok = "0" THEN [r EXCEPT !.s = t.s]
        ELSE IF t.tok # "a" \/ Argc(r.cmd) + 1 >= MAXARGS THEN Panic
        ELSE parseargs(l, parseredirs(l, [r EXCEPT !.s = t.s, !.cmd = AddArg(@, t.word)]))
  IN IF ~r.ok \/ peek(l, r.s, {"|", ")", "&", ";"}) THEN r ELSE arg(gettoken(l, r.s))

parseexec(l, s, pl) ==
  IF peek(l, s, {"("}) THEN parseblock(l, s, pl)
  ELSE parseargs(l, parseredirs(l, [ok |-> TRUE, cmd |-> execcmd, s |-> s]))

\* A command, and after an operator the rest.
Binary(r, rest, make(_, _)) ==
  IF rest.ok THEN [rest EXCEPT !.cmd = make(r.cmd, @)] ELSE Panic

parsepipe(l, s0, pl) ==
  LET pp[s \in 1..(Len(l) + 1)] ==
        LET more(r) == IF ~r.ok \/ ~peek(l, r.s, {"|"}) THEN r
                       ELSE Binary(r, pp[gettoken(l, r.s).s], pipecmd)
        IN more(parseexec(l, s, pl))
  IN pp[s0]

\* The loop of parseline() for "&".
RECURSIVE parseback(_, _)
parseback(l, r) ==
  IF ~r.ok \/ ~peek(l, r.s, {"&"}) THEN r
  ELSE parseback(l, [r EXCEPT !.s = gettoken(l, @).s, !.cmd = backcmd(@)])

parseline(l, s0) ==
  LET pl[s \in 1..(Len(l) + 1)] ==
        LET more(r) == IF ~r.ok \/ ~peek(l, r.s, {";"}) THEN r
                       ELSE Binary(r, pl[gettoken(l, r.s).s], listcmd)
        IN more(parseback(l, parsepipe(l, s, pl)))
  IN pl[s0]

parsecmd(l) ==
  LET all(r) == IF r.ok /\ AtEnd(l, Skip(l, r.s, whitespace)) THEN nulterminate(l, r.cmd)
                ELSE Error
  IN all(parseline(l, 1))

-----------------------------------------------------------------------------
(* Descriptors: a function from the open ones to what they name. *)

close(fds, fd) == [d \in DOMAIN fds \ {fd} |-> fds[d]]
Lowest(fds) == Min((0..Cardinality(DOMAIN fds)) \ DOMAIN fds)
open(fds, obj) == (Lowest(fds) :> obj) @@ fds
dup(fds, fd) == open(fds, fds[fd])
console == <<"console">>
Std == [d \in 0..2 |-> console]

\* The two descriptors of pipe(), and a child's after the closes and the dup;
\* the pipe is named by its command.
PipeEnd(cmd, end) == <<"pipe", cmd, end>>
PipeFds(fds, cmd) == open(open(fds, PipeEnd(cmd, "r")), PipeEnd(cmd, "w"))
\* Mutant: the child keeps the read end open.
PipeChildLeaky(fds, cmd, std) ==
  LET p0 == Lowest(fds)
      p1 == Lowest(open(fds, cmd))
      mine == IF std = 1 THEN p1 ELSE p0
  IN close(dup(close(PipeFds(fds, cmd), std), mine), p1)

PipeChild(fds, cmd, std) ==
  LET p0 == Lowest(fds)
      p1 == Lowest(open(fds, cmd))
      mine == IF std = 1 THEN p1 ELSE p0
  IN close(close(dup(close(PipeFds(fds, cmd), std), mine), p0), p1)

-----------------------------------------------------------------------------
(* Processes.  st: "prompt" a shell in getcmd(), "run" at the head of        *)
(* runcmd(cmd), "wait" with so many calls of wait(0) to make before next,    *)
(* "prog" after exec(), "zombie" after exit(), "gone" once waited for.       *)
(* owners: the processes that wait for it, directly or not.                  *)

Pid == DOMAIN proc
main == [type |-> "MAIN"]    \* the loop of main(), to go on with
Live(p) == proc[p].st \notin {"zombie", "gone"}

Child(p, st, cmd, fds, owners) ==
  [st |-> st, cmd |-> cmd, waits |-> 0, next |-> NoCmd, fds |-> fds,
   parent |-> p, owners |-> owners]

Waited(p) == proc[p].owners \cup {p}

\* exit() closes the descriptors and gives the children to init.
exit(procs, p) ==
  [q \in DOMAIN procs |->
     IF q = p THEN [procs[q] EXCEPT !.st = "zombie", !.fds = <<>>]
     ELSE IF procs[q].parent = p THEN [procs[q] EXCEPT !.parent = 1] ELSE procs[q]]

\* Mutant: a pipe's parent waits for one child only.
waitingOnce(p, n, next) == [proc EXCEPT ![p].st = "wait", ![p].waits = 1, ![p].next = next]

waiting(p, n, next) == [proc EXCEPT ![p].st = "wait", ![p].waits = n, ![p].next = next]

Is(p, st) == p \in Pid /\ proc[p].st = st
At(p, type) == Is(p, "run") /\ proc[p].cmd # Error /\ proc[p].cmd.type = type
CanFork(n) == Len(proc) + n <= NPROC

Init ==
  /\ \E l \in Lines : line = l[1] /\ want = l[2]
  /\ typed = FALSE
  /\ proc = << [Child(0, "wait", NoCmd, Std, {}) EXCEPT !.next = 2],
               Child(1, "prompt", NoCmd, Std, {}) >>
  /\ orphaned = FALSE

\* getcmd() returns the line; a child parses and runs it.
Command(p) ==
  /\ Is(p, "prompt") /\ ~typed /\ CanFork(1)
  /\ proc' = Append(waiting(p, 1, main),
                    Child(p, "run", parsecmd(line), proc[p].fds, Waited(p)))
  /\ typed' = TRUE
  /\ UNCHANGED <<line, want, orphaned>>

\* getcmd() meets the end of the input.
EndOfInput(p) ==
  /\ Is(p, "prompt")
  /\ proc' = exit(proc, p)
  /\ UNCHANGED <<line, want, typed, orphaned>>

\* exec(), which fails when there is no such program.
RunExec(p) ==
  /\ At(p, "EXEC")
  /\ \/ proc[p].cmd.argv # <<>> /\ proc' = [proc EXCEPT ![p].st = "prog"]
     \/ proc' = exit(proc, p)
  /\ UNCHANGED <<line, want, typed, orphaned>>

RunRedir(p) ==
  /\ At(p, "REDIR")
  /\ LET cmd == proc[p].cmd
         fd == IF cmd.mode = "<" THEN 0 ELSE 1
     IN \/ proc' = [proc EXCEPT ![p].cmd = cmd.cmd, ![p].fds = open(close(@, fd), <<"file", cmd.file>>)]
        \/ proc' = exit(proc, p)
  /\ UNCHANGED <<line, want, typed, orphaned>>

RunList(p) ==
  /\ At(p, "LIST") /\ CanFork(1)
  /\ proc' = Append(waiting(p, 1, proc[p].cmd.right),
                    Child(p, "run", proc[p].cmd.left, proc[p].fds, Waited(p)))
  /\ UNCHANGED <<line, want, typed, orphaned>>

\* The parent has closed both ends again when it waits.
RunPipe(p) ==
  /\ At(p, "PIPE") /\ CanFork(2)
  /\ LET cmd == proc[p].cmd
         fds == proc[p].fds
     IN proc' = waiting(p, 2, NoCmd) \o
                <<Child(p, "run", cmd.left, PipeChild(fds, cmd, 1), Waited(p)),
                  Child(p, "run", cmd.right, PipeChild(fds, cmd, 0), Waited(p))>>
  /\ UNCHANGED <<line, want, typed, orphaned>>

RunBack(p) ==
  /\ At(p, "BACK") /\ CanFork(1)
  /\ proc' = Append(exit(proc, p), Child(1, "run", proc[p].cmd.cmd, proc[p].fds, {}))
  /\ UNCHANGED <<line, want, typed, orphaned>>

\* fork1() or pipe() fails: panic().
fork1Fails(p) ==
  /\ \/ At(p, "LIST") \/ At(p, "PIPE") \/ At(p, "BACK")
     \/ Is(p, "prompt") /\ ~typed
  /\ proc' = exit(proc, p)
  /\ typed' = TRUE
  /\ UNCHANGED <<line, want, orphaned>>

SecondFork1Fails(p) ==
  /\ At(p, "PIPE") /\ CanFork(1)
  /\ LET cmd == proc[p].cmd
     IN proc' = Append(exit(proc, p),
                       Child(1, "run", cmd.left, PipeChild(proc[p].fds, cmd, 1), Waited(p)))
  /\ orphaned' = TRUE
  /\ UNCHANGED <<line, want, typed>>

\* The line was refused, or the program ends.
Ends(p) ==
  /\ Is(p, "prog") \/ (Is(p, "run") /\ proc[p].cmd = Error)
  /\ proc' = exit(proc, p)
  /\ UNCHANGED <<line, want, typed, orphaned>>

\* What a process does when its last wait(0) has returned.
GoesOn(procs, p) ==
  CASE procs[p].next = NoCmd -> exit(procs, p)
    [] procs[p].next = main -> [procs EXCEPT ![p].st = "prompt"]
    [] OTHER -> [procs EXCEPT ![p].st = "run", ![p].cmd = procs[p].next]

wait(p, q) ==
  /\ p # 1 /\ Is(p, "wait") /\ Is(q, "zombie") /\ proc[q].parent = p
  /\ LET procs == [proc EXCEPT ![q].st = "gone", ![p].waits = @ - 1]
     IN proc' = IF procs[p].waits > 0 THEN procs ELSE GoesOn(procs, p)
  /\ UNCHANGED <<line, want, typed, orphaned>>

\* init starts another shell when the one it started, next, has exited.
InitWait(q) ==
  /\ Is(q, "zombie") /\ proc[q].parent = 1
  /\ q = proc[1].next => CanFork(1)
  /\ LET procs == [proc EXCEPT ![q].st = "gone"]
     IN proc' = IF q # proc[1].next THEN procs
                ELSE Append([procs EXCEPT ![1].next = Len(proc) + 1],
                            Child(1, "prompt", NoCmd, Std, {}))
  /\ UNCHANGED <<line, want, typed, orphaned>>

Next ==
  \E p \in 1..NPROC :
    \/ Command(p) \/ EndOfInput(p) \/ RunExec(p) \/ RunRedir(p) \/ RunList(p)
    \/ RunPipe(p) \/ RunBack(p) \/ fork1Fails(p) \/ SecondFork1Fails(p)
    \/ Ends(p) \/ InitWait(p)
    \/ \E q \in 1..NPROC : wait(p, q)

Spec == Init /\ [][Next]_vars

-----------------------------------------------------------------------------
(* What each program of a command should be joined to: its standard input    *)
(* and output.  Of two redirections of the same descriptor the first counts. *)

RECURSIVE Joined(_, _, _)
Joined(cmd, in, out) ==
  CASE cmd.type = "EXEC" -> {<<cmd.argv, in, out>>}
    [] cmd.type = "REDIR" -> IF cmd.mode = "<" THEN Joined(cmd.cmd, <<"file", cmd.file>>, out)
                             ELSE Joined(cmd.cmd, in, <<"file", cmd.file>>)
    [] cmd.type = "PIPE" -> Joined(cmd.left, in, PipeEnd(cmd, "w"))
                              \cup Joined(cmd.right, PipeEnd(cmd, "r"), out)
    [] cmd.type = "LIST" -> Joined(cmd.left, in, out) \cup Joined(cmd.right, in, out)
    [] OTHER -> Joined(cmd.cmd, in, out)

\* The parser gives back the command that a line was written from, for every
\* nesting of blocks, pipes, lists, redirections and "&" (parsecmd() and the
\* functions under it), and refuses the lines that stand for none.
ParsesBack == ~typed => parsecmd(line) = want

\* A program starts with exactly the descriptors 0, 1 and 2, joined as the line
\* says, and no stray end of a pipe, which would keep a reader from ever seeing
\* its end (the closes and dups of runcmd()).
Plumbed ==
  \A p \in Pid :
    /\ proc[p].st = "prog" =>
         LET fds == proc[p].fds
         IN /\ DOMAIN fds = 0..2 /\ fds[2] = console
            /\ <<proc[p].cmd.argv, fds[0], fds[1]>> \in Joined(want, console, console)
    /\ (Live(p) /\ proc[p].st # "run") => DOMAIN proc[p].fds = 0..2

\* A process goes on past its wait(0), to the right of a ";" or to the next
\* prompt, only when everything it waits for has ended, however the processes
\* interleave and whatever runs in the background; and only one shell reads
\* commands, though init also waits for the processes that others left.
InForeground ==
  /\ ~orphaned => \A p \in Pid : proc[p].st \in {"run", "prog", "prompt"} =>
                 \A q \in Pid : p \in proc[q].owners => ~Live(q)
  /\ Cardinality({p \in Pid : proc[p].st = "prompt"}) <= 1

=============================================================================

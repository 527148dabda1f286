----------------------------- MODULE AtomicDisk -----------------------------
(***************************************************************************)
(* What the log promises to the file system: system calls update blocks    *)
(* between begin_op() and end_op(), and the disk that survives a crash     *)
(* only ever moves from one state in which no call is half done to         *)
(* another ("commits only happen when there are no FS system calls         *)
(* active", log.c:12).                                                     *)
(***************************************************************************)
CONSTANTS Proc, Block, Val

VARIABLES
  mem,      \* the blocks as the running system reads them
  durable,  \* the blocks as the system will find them after a crash
  active    \* the processes inside a file system call

vars == <<mem, durable, active>>

Init ==
  /\ mem \in [Block -> Val]
  /\ durable = mem
  /\ active = {}

Begin(p) ==
  /\ p \notin active
  /\ active' = active \cup {p}
  /\ UNCHANGED <<mem, durable>>

Write(p, b, v) ==
  /\ p \in active
  /\ mem' = [mem EXCEPT ![b] = v]
  /\ UNCHANGED <<durable, active>>

End(p) ==
  /\ p \in active
  /\ active' = active \ {p}
  /\ UNCHANGED <<mem, durable>>

Commit ==
  /\ active = {}
  /\ durable' = mem
  /\ UNCHANGED <<mem, active>>

Crash ==
  /\ mem' = durable
  /\ active' = {}
  /\ UNCHANGED durable

Next ==
  \/ \E p \in Proc : Begin(p) \/ End(p)
  \/ \E p \in Proc, b \in Block, v \in Val : Write(p, b, v)
  \/ Commit
  \/ Crash

Spec == Init /\ [][Next]_vars
=============================================================================

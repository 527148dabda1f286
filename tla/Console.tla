------------------------------ MODULE Console -------------------------------
(***************************************************************************)
(* The console: kernel/console.c and the driver below it, kernel/uart.c.   *)
(* Readers sleep for lines that the interrupt handler collects; writers    *)
(* fill a ring that the driver empties into the UART, from a write() or    *)
(* from the interrupt; echoed characters go to the UART directly, without  *)
(* the driver's lock.  Writers, readers and the handler run on different   *)
(* CPUs.                                                                   *)
(***************************************************************************)
EXTENDS Naturals, Sequences, FiniteSetsExt

CONSTANTS
  Reader, Writer,
  Killable,      \* the readers that others kill
  INPUT_BUF_SIZE, UART_TX_BUF_SIZE,
  UINT,          \* the indices of the input buffer wrap here; divisible by its size
  FIFO,          \* what the transmitter of the 16550 holds
  Plain,         \* the ordinary characters
  ReadSizes, WriteSizes,
  MAXIN, MAXOUT, \* bounds: characters typed, and written, in a behaviour
  None

Ending == {"nl", "^D"}
Key == Plain \cup {"cr", "^D", "^U", "^H"}

ASSUME ConsoleAssumption ==
  /\ {INPUT_BUF_SIZE, UART_TX_BUF_SIZE, FIFO} \subseteq Nat \ {0}
  /\ UINT % INPUT_BUF_SIZE = 0 /\ UINT > INPUT_BUF_SIZE

VARIABLES
  cons,          \* [buf, r, w, e]; a cell that was read or erased counts as empty
  conslock,      \* the holder of cons.lock
  rd,            \* readers: [at, n, target, killed]
  ring,          \* uart_tx_buf from uart_tx_r to uart_tx_w: the numbers of bytes
  txlock,        \* the holder of uart_tx_lock
  wr,            \* writers: [at, n]
  intr,          \* the handler: [at, ch]
  thr,           \* the byte that the holder of uart_tx_lock has for the UART
  rx,            \* characters the UART received
  fifo,          \* bytes the UART is to send: numbers, or 0 for an echo
  irq,           \* the UART has an interrupt pending
  typed, written, sent

vars == <<cons, conslock, rd, ring, txlock, wr, intr, thr, rx, fifo, irq, typed, written, sent>>
input == <<cons, conslock, rd>>
output == <<ring, txlock, wr, thr>>

Init ==
  /\ cons = [buf |-> [k \in 0..(INPUT_BUF_SIZE - 1) |-> None], r |-> 0, w |-> 0, e |-> 0]
  /\ conslock = None
  /\ rd = [p \in Reader |-> [at |-> "idle", n |-> 0, target |-> 0, killed |-> FALSE]]
  /\ ring = <<>> /\ txlock = None /\ thr = 0
  /\ wr = [p \in Writer |-> [at |-> "idle", n |-> 0]]
  /\ intr = [at |-> "none", ch |-> None]
  /\ rx = <<>> /\ fifo = <<>> /\ irq = FALSE
  /\ typed = 0 /\ written = 0 /\ sent = 0

-----------------------------------------------------------------------------
(* The UART, a 16550 *)

Receive(ch) ==
  /\ typed < MAXIN /\ rx = <<>>
  /\ typed' = typed + 1 /\ rx' = Append(rx, ch) /\ irq' = TRUE
  /\ UNCHANGED <<input, output, intr, fifo, written, sent>>

\* A byte leaves; the transmitter interrupts when it has become idle.
Transmit ==
  /\ fifo # <<>>
  /\ fifo' = Tail(fifo)
  /\ sent' = IF Head(fifo) = 0 THEN sent ELSE Head(fifo)
  /\ irq' = (irq \/ Len(fifo) = 1)
  /\ UNCHANGED <<input, output, intr, rx, typed, written>>

LSR_TX_IDLE == fifo = <<>>

\* A store to THR; the byte is lost when the transmitter has no room for it.
WriteTHR(b) == fifo' = IF Len(fifo) < FIFO THEN Append(fifo, b) ELSE fifo

-----------------------------------------------------------------------------
(* consoleread() *)

Cell(i) == i % INPUT_BUF_SIZE
Up(i) == (i + 1) % UINT
Down(i) == (i + UINT - 1) % UINT
Diff(a, b) == (a + UINT - b) % UINT

ReadCall(p, n) ==
  /\ rd[p].at = "idle" /\ typed < MAXIN
  /\ rd' = [rd EXCEPT ![p] = [at |-> "lock", n |-> n, target |-> n, killed |-> FALSE]]
  /\ UNCHANGED <<cons, conslock, output, intr, rx, fifo, irq, typed, written, sent>>

From(a, b) == [k \in 1..Diff(b, a) |-> cons.buf[Cell(a + k - 1)]]
ReadDone == [at |-> "idle", n |-> 0, target |-> 0, killed |-> FALSE]

\* What one holding of cons.lock covers, from the call or the return of sleep():
\* take bytes up to the end of a line, the n-th, or the one (bad, if any) whose
\* either_copyout() fails; when they give out before, sleep, or give up if killed,
\* to exit on the way to user space.  An end-of-file mark that is not the first
\* of the call is put back.
Read(p, bad) ==
  LET r == rd[p]
      q == From(cons.r, cons.w)
      stops == {k \in 1..Len(q) : q[k] \in Ending \/ k = r.n \/ k = bad}
      m == IF stops = {} THEN Len(q) ELSE Min(stops)
      back == stops # {} /\ q[m] = "^D" /\ r.n - (m - 1) < r.target
      taken == IF back THEN m - 1 ELSE m
  IN /\ r.at = "lock" /\ conslock = None /\ bad \in {0, m}
     /\ cons' = [cons EXCEPT !.r = (@ + taken) % UINT,
                             !.buf = [k \in DOMAIN @ |->
                                        IF Diff(k, cons.r) % INPUT_BUF_SIZE < taken THEN None ELSE @[k]]]
     /\ rd' = [rd EXCEPT ![p] =
                 IF stops = {} /\ ~r.killed THEN [r EXCEPT !.at = "asleep", !.n = @ - m]
                 ELSE [ReadDone EXCEPT !.at = IF r.killed THEN "exit" ELSE "idle"]]
     /\ UNCHANGED <<conslock, output, intr, rx, fifo, irq, typed, written, sent>>

\* kill() wakes a sleeping reader; not if it is late, between the reader's test
\* of p->killed and its sleep().
Kill(p, late) ==
  /\ rd[p].at \in {"lock", "asleep"} /\ p \in Killable /\ ~rd[p].killed
  /\ late => rd[p].at = "asleep"
  /\ rd' = [rd EXCEPT ![p].at = IF late THEN "asleep" ELSE "lock", ![p].killed = TRUE]
  /\ UNCHANGED <<cons, conslock, output, intr, rx, fifo, irq, typed, written, sent>>

-----------------------------------------------------------------------------
(* uartintr() and consoleintr() *)

\* The PLIC delivers the interrupt and holds back the next until this is done.
Interrupt ==
  /\ irq /\ intr.at = "none"
  /\ irq' = FALSE
  /\ intr' = [intr EXCEPT !.at = "rx"]
  /\ UNCHANGED <<input, output, rx, fifo, typed, written, sent>>

\* Mutant of Echoes: erasing goes on into what is committed.
EchoesCommitted(ch) ==
  IF ch \in {"^U", "^H"} THEN cons.e # cons.r ELSE Diff(cons.e, cons.r) < INPUT_BUF_SIZE

Echoes(ch) ==
  IF ch \in {"^U", "^H"}
  THEN cons.e # cons.w /\ (ch = "^U" => cons.buf[Cell(Down(cons.e))] # "nl")
  ELSE Diff(cons.e, cons.r) < INPUT_BUF_SIZE

\* uartgetc(), and consoleintr() up to its first consputc(), under cons.lock, or
\* to its end when the character changes nothing.
Getc ==
  LET ch == Head(rx)
  IN /\ intr.at = "rx" /\ rx # <<>> /\ conslock = None
     /\ rx' = Tail(rx)
     /\ conslock' = IF Echoes(ch) THEN "intr" ELSE None
     /\ intr' = IF Echoes(ch) THEN [at |-> "wait", ch |-> ch] ELSE intr
     /\ UNCHANGED <<cons, rd, output, fifo, irq, typed, written, sent>>

\* uartputc_sync() waits for the transmitter to be idle, and stores afterwards,
\* without uart_tx_lock; the three bytes of a backspace count as one.
SyncWait ==
  /\ intr.at = "wait" /\ LSR_TX_IDLE
  /\ intr' = [intr EXCEPT !.at = "sync"]
  /\ UNCHANGED <<input, output, rx, fifo, irq, typed, written, sent>>

\* Mutant of Woken: the handler wakes nobody.
WokenNone == rd

Woken == [p \in Reader |-> IF rd[p].at = "asleep" THEN [rd[p] EXCEPT !.at = "lock"] ELSE rd[p]]

\* That store, and the change to the line up to the release of cons.lock; ^U goes
\* on erasing.
Edit ==
  LET ch == IF intr.ch = "cr" THEN "nl" ELSE intr.ch
      erase == ch \in {"^U", "^H"}
      e == IF erase THEN Down(cons.e) ELSE Up(cons.e)
      commit == ~erase /\ (ch \in Ending \/ Diff(e, cons.r) = INPUT_BUF_SIZE)
      again == ch = "^U" /\ e # cons.w /\ cons.buf[Cell(Down(e))] # "nl"
  IN /\ intr.at = "sync"
     /\ WriteTHR(0)
     /\ cons' = [cons EXCEPT !.e = e,
                             !.buf[Cell(IF erase THEN e ELSE cons.e)] = IF erase THEN None ELSE ch,
                             !.w = IF commit THEN e ELSE @]
     /\ rd' = IF commit THEN Woken ELSE rd
     /\ conslock' = IF again THEN "intr" ELSE None
     /\ intr' = IF again THEN [intr EXCEPT !.at = "wait"] ELSE [at |-> "rx", ch |-> None]
     /\ UNCHANGED <<output, rx, irq, typed, written, sent>>

-----------------------------------------------------------------------------
(* uartputc(), and uartstart() under uart_tx_lock *)

WriteCall(p, n) ==
  /\ wr[p].at = "idle" /\ written < MAXOUT
  /\ wr' = [wr EXCEPT ![p] = [at |-> "put", n |-> n]]
  /\ UNCHANGED <<input, ring, txlock, thr, intr, rx, fifo, irq, typed, written, sent>>

\* A full ring: sleep; else the next byte goes in.
Put(p) ==
  /\ wr[p].at = "put" /\ txlock = None
  /\ IF Len(ring) = UART_TX_BUF_SIZE
       THEN wr' = [wr EXCEPT ![p].at = "asleep"] /\ UNCHANGED <<ring, txlock, written>>
       ELSE /\ ring' = Append(ring, written + 1) /\ written' = written + 1
            /\ txlock' = p
            /\ wr' = [wr EXCEPT ![p].at = "start", ![p].n = @ - 1]
  /\ UNCHANGED <<input, thr, intr, rx, fifo, irq, typed, sent>>

\* uartgetc() finds no character more: on to the output.
IntrStart ==
  /\ intr.at = "rx" /\ rx = <<>> /\ txlock = None
  /\ txlock' = "intr"
  /\ intr' = [intr EXCEPT !.at = "start"]
  /\ UNCHANGED <<input, ring, wr, thr, rx, fifo, irq, typed, written, sent>>

\* Mutant of Awake: uartstart() wakes nobody.
AwakeNone == wr

Awake == [p \in Writer |-> IF wr[p].at = "asleep" THEN [wr[p] EXCEPT !.at = "put"] ELSE wr[p]]

\* Mutant of Uartstart: the line status is not looked at.
UartstartEager ==
  /\ txlock # None /\ thr = 0 /\ ring # <<>>
  /\ thr' = Head(ring) /\ ring' = Tail(ring)
  /\ wr' = Awake
  /\ UNCHANGED <<input, txlock, intr, rx, fifo, irq, typed, written, sent>>

\* uartstart(), one turn: take a byte from the ring if the transmitter is idle.
Uartstart ==
  /\ txlock # None /\ thr = 0 /\ ring # <<>> /\ LSR_TX_IDLE
  /\ thr' = Head(ring) /\ ring' = Tail(ring)
  /\ wr' = Awake
  /\ UNCHANGED <<input, txlock, intr, rx, fifo, irq, typed, written, sent>>

UartstartPut ==
  /\ thr # 0
  /\ WriteTHR(thr) /\ thr' = 0
  /\ UNCHANGED <<input, ring, txlock, wr, intr, rx, irq, typed, written, sent>>

\* Its return, and the release of the lock by uartputc() or uartintr().
UartstartEnd ==
  /\ txlock # None /\ thr = 0 /\ (ring = <<>> \/ ~LSR_TX_IDLE)
  /\ txlock' = None
  /\ IF txlock = "intr"
       THEN intr' = [intr EXCEPT !.at = "none"] /\ UNCHANGED wr
       ELSE /\ wr' = [wr EXCEPT ![txlock] = IF @.n = 0 THEN [at |-> "idle", n |-> 0]
                                            ELSE [@ EXCEPT !.at = "put"]]
            /\ UNCHANGED intr
  /\ UNCHANGED <<input, ring, thr, rx, fifo, irq, typed, written, sent>>

-----------------------------------------------------------------------------

Reads(p) == \E bad \in 0..INPUT_BUF_SIZE : Read(p, bad)
Handler == Getc \/ SyncWait \/ Edit \/ IntrStart
Driver == Uartstart \/ UartstartPut \/ UartstartEnd

Next ==
  \/ \E ch \in Key : Receive(ch)
  \/ Transmit \/ Interrupt \/ Handler \/ Driver
  \/ \E p \in Reader : Reads(p) \/ (\E late \in BOOLEAN : Kill(p, late)) \/ \E n \in ReadSizes : ReadCall(p, n)
  \/ \E p \in Writer : Put(p) \/ \E n \in WriteSizes : WriteCall(p, n)

\* Code that can run does; the UART sends, and its interrupt is delivered.
Fairness ==
  /\ WF_vars(Transmit) /\ WF_vars(Interrupt) /\ WF_vars(Handler) /\ WF_vars(Driver)
  /\ \A p \in Writer : WF_vars(Put(p))

Spec == Init /\ [][Next]_vars
LiveSpec == Spec /\ Fairness

-----------------------------------------------------------------------------
(* Properties *)

\* The input buffer is a LineQueue, whatever its indices, which only grow and
\* wrap around: characters are neither lost nor read twice, an erased one is
\* never read, and no edit reaches a committed one.
Lines == INSTANCE LineQueue WITH Size <- INPUT_BUF_SIZE,
                                 line <- From(cons.w, cons.e), queue <- From(cons.r, cons.w)
Implements == Lines!Spec

\* A reader sleeps only while there is nothing for it to read: no interleaving
\* of reads of part of a line, an end-of-file mark put back, and commits of the
\* handler leaves it asleep.
ReaderSleepsOnEmpty == (\E p \in Reader : rd[p].at = "asleep") => cons.r = cons.w

\* Bytes written come out of the UART once each, in the order of the writes,
\* though echoes are stored between them without the driver's lock: none finds
\* the transmitter full.
OutputInOrder ==
  LET numbers == SelectSeq(fifo, LAMBDA b : b # 0) \o (IF thr = 0 THEN <<>> ELSE <<thr>>) \o ring
  IN numbers = [k \in 1..(written - sent) |-> sent + k]

\* A write() returns: the last interrupt that a writer waiting for room needs is
\* never missed.
WritesFinish == \A p \in Writer : wr[p].at # "idle" ~> wr[p].at = "idle"

=============================================================================

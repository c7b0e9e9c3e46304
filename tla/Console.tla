------------------------------- MODULE Console -------------------------------
(***************************************************************************)
(* kernel/console.c and uart.c: readers and writers of the console, the    *)
(* interrupt handler, and the serial port.                                 *)
(*                                                                         *)
(* cons.lock and uart_tx_lock are explicit: a critical section is several  *)
(* steps where the port, kill() or an echo can come between.  The handler  *)
(* is one thread, since the PLIC does not deliver the interrupt again      *)
(* before it is complete.  The indices of the input ring are uint and wrap *)
(* around; those of the output ring are uint64 and do not.                 *)
(***************************************************************************)
EXTENDS Integers, Sequences, FiniteSets

CONSTANTS
  Readers, Writers,
  Letters,                  \* ordinary characters
  Typed,                    \* characters that somebody types
  INPUT_BUF_SIZE, UART_TX_BUF_SIZE,
  UintMod,                  \* number of values of a uint
  Start,                    \* characters read before the model starts
  MaxCount,                 \* largest count passed to read()
  MaxChars,                 \* characters typed and characters written
  Killable,                 \* readers that somebody kills
  Nobody

CR == "\r"
NL == "\n"
EOF == "^D"
KILL == "^U"
ERASE == "^H"   \* also the delete key
PROCS == "^P"
NUL == "0"
Keys == Letters \cup {CR, NL, EOF, KILL, ERASE, PROCS, NUL}
Stored == Letters \cup {NL, EOF}

ASSUME ConstantsAssumption ==
  /\ {INPUT_BUF_SIZE, UART_TX_BUF_SIZE, MaxCount} \subseteq Nat \ {0}
  /\ MaxChars \in Nat
  /\ \E k \in 2..UintMod : UintMod = k * INPUT_BUF_SIZE
  /\ Start \in 0..(UintMod - 1)
  /\ Typed \subseteq Keys
  /\ Killable \subseteq Readers
  /\ Readers \cap Writers = {}

intr == "uartintr"
Threads == Readers \cup Writers \cup {intr}
Senders == Writers \cup {intr}   \* the callers of uartstart()

VARIABLES
  buf, r, w, e, lock,          \* cons
  tx_buf, tx_w, tx_r, tx_lock, \* the transmit buffer
  rx,        \* the character received, if any
  thr,       \* characters the port still has to send
  thre,      \* its transmit interrupt is pending
  pc,        \* where each thread is
  ch, echo,  \* consoleintr: the character, and what is left to echo
  n, target, \* consoleread: what is left to read, and what was asked for
  killed,
  chars      \* characters typed and written so far

cons == <<buf, r, w, e, lock>>
tx == <<tx_buf, tx_w, tx_r, tx_lock>>
port == <<rx, thr, thre>>
input == <<ch, echo>>
reader == <<n, target, killed>>
vars == <<cons, tx, port, pc, input, reader, chars>>

Init ==
  /\ \E c \in Letters : buf = [k \in 0..(INPUT_BUF_SIZE - 1) |-> c]
  /\ r = Start /\ w = Start /\ e = Start
  /\ \E c \in Letters : tx_buf = [k \in 0..(UART_TX_BUF_SIZE - 1) |-> c]
  /\ tx_w = 0 /\ tx_r = 0
  /\ lock = Nobody /\ tx_lock = Nobody
  /\ rx = <<>> /\ thr = 0 /\ thre = FALSE
  /\ pc = [t \in Threads |-> "idle"]
  /\ ch = NUL /\ echo = 0
  /\ n = [p \in Readers |-> 0]
  /\ target = [p \in Readers |-> 0]
  /\ killed = {} /\ chars = 0

goto(t, l) == [pc EXCEPT ![t] = l]
Plus(i, k) == (i + k) % UintMod
Held(i, j) == (j - i) % UintMod      \* j - i in uint

\* wakeup(chan): the threads asleep at a label are awake.
wakeup(at, asleep, awake) ==
  [t \in Threads |-> IF at[t] = asleep THEN awake ELSE at[t]]
------------------------------------------------------------------------------
(* The port and its user *)

type(c) ==
  /\ rx = <<>> /\ chars < MaxChars
  /\ rx' = <<c>>
  /\ chars' = chars + 1
  /\ UNCHANGED <<cons, tx, thr, thre, pc, input, reader>>

\* LSR_TX_IDLE is set when all is sent.
transmit ==
  /\ thr > 0
  /\ thr' = thr - 1
  /\ thre' = (thr = 1)
  /\ UNCHANGED <<cons, tx, rx, pc, input, reader, chars>>

\* WriteReg(THR, c): the FIFO takes it.
WriteTHR == thr' = thr + 1 /\ thre' = FALSE
------------------------------------------------------------------------------
(* consoleread *)

read(p, count) ==
  /\ pc[p] = "idle" /\ p \notin killed
  /\ lock = Nobody
  /\ lock' = p
  /\ pc' = goto(p, "read")
  /\ n' = [n EXCEPT ![p] = count]
  /\ target' = [target EXCEPT ![p] = count]
  /\ UNCHANGED <<buf, r, w, e, tx, port, input, killed, chars>>

return(p) ==
  /\ lock' = Nobody
  /\ pc' = goto(p, "idle")
  /\ n' = [n EXCEPT ![p] = 0]
  /\ target' = [target EXCEPT ![p] = 0]

\* Nothing to read: killed(), then sleep() unless it says so.
read_wait(p) ==
  /\ pc[p] = "read" /\ r = w
  /\ IF p \in killed THEN return(p)
     ELSE pc' = goto(p, "read_sleep") /\ UNCHANGED <<lock, n, target>>
  /\ UNCHANGED <<buf, r, w, e, tx, port, input, killed, chars>>

read_sleep(p) ==
  /\ pc[p] = "read_sleep"
  /\ lock' = Nobody
  /\ pc' = goto(p, "read_asleep")
  /\ UNCHANGED <<buf, r, w, e, tx, port, input, reader, chars>>

read_awake(p) ==
  /\ pc[p] = "read_awake"
  /\ lock = Nobody
  /\ lock' = p
  /\ pc' = goto(p, "read")
  /\ UNCHANGED <<buf, r, w, e, tx, port, input, reader, chars>>

\* The next character.  An end of file after other characters stays for the
\* next read().
read_char(p) ==
  LET c == buf[r % INPUT_BUF_SIZE]
  IN /\ pc[p] = "read" /\ r # w
     /\ r' = IF c = EOF /\ n[p] < target[p] THEN r ELSE Plus(r, 1)
     /\ \/ return(p)   \* a line, enough, or either_copyout() failed
        \/ /\ c \notin {EOF, NL} /\ n[p] > 1
           /\ n' = [n EXCEPT ![p] = @ - 1]
           /\ UNCHANGED <<lock, pc, target>>
     /\ UNCHANGED <<buf, w, e, tx, port, input, killed, chars>>

kill(p) ==
  /\ p \in Killable \ killed
  /\ killed' = killed \cup {p}
  /\ pc' = IF pc[p] = "read_asleep" THEN goto(p, "read_awake") ELSE pc
  /\ UNCHANGED <<cons, tx, port, input, n, target, chars>>
------------------------------------------------------------------------------
(* uartintr and consoleintr *)

intr_begin ==
  /\ pc[intr] = "idle"
  /\ rx # <<>> \/ thre
  /\ pc' = goto(intr, "rx")
  /\ UNCHANGED <<cons, tx, port, input, reader, chars>>

uartgetc ==
  /\ pc[intr] = "rx" /\ rx # <<>>
  /\ ch' = rx[1]
  /\ rx' = <<>>
  /\ pc' = goto(intr, "cons")
  /\ UNCHANGED <<cons, tx, thr, thre, echo, reader, chars>>

\* The characters from the end of the line that ^U takes back.
Killed ==
  LET At(k) == buf[Plus(e, -k) % INPUT_BUF_SIZE]
  IN CHOOSE k \in 0..Held(w, e) :
       /\ \A j \in 1..k : At(j) # NL
       /\ k < Held(w, e) => At(k + 1) = NL

\* Mutant: backspace does not stop at the lines that are complete.
erased_PastLine(c) ==
  CASE c = KILL -> Killed
    [] c = ERASE /\ e # r -> 1
    [] OTHER -> 0

\* How many characters the editing key c takes back.
erased(c) ==
  CASE c = KILL -> Killed
    [] c = ERASE /\ e # w -> 1
    [] OTHER -> 0

\* acquire(&cons.lock) and the switch.  A backspace is echoed as three
\* characters, the process list as one.
consoleintr ==
  LET k == erased(ch)
      room == ch # NUL /\ Held(r, e) < INPUT_BUF_SIZE
  IN /\ pc[intr] = "cons"
     /\ lock = Nobody
     /\ lock' = intr
     /\ \/ /\ ch \in {KILL, ERASE, PROCS}
           /\ e' = Plus(e, -k)
           /\ echo' = IF ch = PROCS THEN 1 ELSE 3 * k
           /\ pc' = goto(intr, "echo")
           /\ UNCHANGED ch
        \/ /\ ch \notin {KILL, ERASE, PROCS}
           /\ echo' = IF room THEN 1 ELSE 0
           /\ ch' = IF ch = CR THEN NL ELSE ch
           /\ pc' = goto(intr, IF room THEN "store" ELSE "echo")
           /\ UNCHANGED e
     /\ UNCHANGED <<buf, r, w, tx, port, reader, chars>>

\* consputc(): uartputc_sync() waits for an idle port.
consputc ==
  /\ pc[intr] \in {"echo", "store"} /\ echo > 0
  /\ thr = 0
  /\ WriteTHR
  /\ echo' = echo - 1
  /\ UNCHANGED <<cons, tx, rx, pc, ch, reader, chars>>

consoleintr_done(at) ==
  /\ lock' = Nobody
  /\ ch' = NUL
  /\ pc' = [at EXCEPT ![intr] = "rx"]

edited ==
  /\ pc[intr] = "echo" /\ echo = 0
  /\ consoleintr_done(pc)
  /\ UNCHANGED <<buf, r, w, e, tx, port, echo, reader, chars>>

\* Mutant: readers are woken for whole lines only, not for a full buffer.
store_WakesForLines ==
  LET full == Held(r, e) + 1 = INPUT_BUF_SIZE
  IN /\ pc[intr] = "store" /\ echo = 0
     /\ buf' = [buf EXCEPT ![e % INPUT_BUF_SIZE] = ch]
     /\ e' = Plus(e, 1)
     /\ w' = IF ch \in {NL, EOF} \/ full THEN e' ELSE w
     /\ consoleintr_done(IF ch \in {NL, EOF}
          THEN wakeup(pc, "read_asleep", "read_awake") ELSE pc)
     /\ UNCHANGED <<r, tx, port, echo, reader, chars>>

\* The character is stored, and readers are woken for a whole line.
store ==
  LET full == Held(r, e) + 1 = INPUT_BUF_SIZE
      whole == ch \in {NL, EOF} \/ full
  IN /\ pc[intr] = "store" /\ echo = 0
     /\ buf' = [buf EXCEPT ![e % INPUT_BUF_SIZE] = ch]
     /\ e' = Plus(e, 1)
     /\ w' = IF whole THEN e' ELSE w
     /\ consoleintr_done(IF whole THEN wakeup(pc, "read_asleep", "read_awake") ELSE pc)
     /\ UNCHANGED <<r, tx, port, echo, reader, chars>>

\* acquire(&uart_tx_lock) in uartintr(), when nothing is left to receive.
intr_send ==
  /\ pc[intr] = "rx" /\ rx = <<>>
  /\ tx_lock = Nobody
  /\ tx_lock' = intr
  /\ pc' = goto(intr, "start")
  /\ UNCHANGED <<cons, tx_buf, tx_w, tx_r, port, input, reader, chars>>
------------------------------------------------------------------------------
(* consolewrite, uartputc and uartstart *)

\* consolewrite() comes to its next character: acquire(&uart_tx_lock).
write(p) ==
  /\ pc[p] = "idle" /\ chars < MaxChars
  /\ chars' = chars + 1
  /\ tx_lock = Nobody
  /\ tx_lock' = p
  /\ pc' = goto(p, "put")
  /\ UNCHANGED <<cons, tx_buf, tx_w, tx_r, port, input, reader>>

Full == tx_w = tx_r + UART_TX_BUF_SIZE

put_sleep(p) ==
  /\ pc[p] = "put" /\ Full
  /\ tx_lock' = Nobody
  /\ pc' = goto(p, "put_asleep")
  /\ UNCHANGED <<cons, tx_buf, tx_w, tx_r, port, input, reader, chars>>

put_awake(p) ==
  /\ pc[p] = "put_awake"
  /\ tx_lock = Nobody
  /\ tx_lock' = p
  /\ pc' = goto(p, "put")
  /\ UNCHANGED <<cons, tx_buf, tx_w, tx_r, port, input, reader, chars>>

uartputc(p, c) ==
  /\ pc[p] = "put" /\ ~Full
  /\ tx_buf' = [tx_buf EXCEPT ![tx_w % UART_TX_BUF_SIZE] = c]
  /\ tx_w' = tx_w + 1
  /\ pc' = goto(p, "start")
  /\ UNCHANGED <<cons, tx_r, tx_lock, port, input, reader, chars>>

\* uartstart() returns and its caller releases the lock.  If the buffer is
\* empty it reads ISR, which resets the transmit interrupt unless a received
\* character has the register.
start_return(t) ==
  /\ pc[t] = "start"
  /\ tx_w = tx_r \/ thr > 0
  /\ thre' = (thre /\ (tx_w # tx_r \/ rx # <<>>))
  /\ tx_lock' = Nobody
  /\ pc' = goto(t, "idle")
  /\ UNCHANGED <<cons, tx_buf, tx_w, tx_r, rx, thr, input, reader, chars>>

\* The port is idle.
start_send(t) ==
  /\ pc[t] = "start"
  /\ tx_w # tx_r /\ thr = 0
  /\ pc' = goto(t, "send")
  /\ UNCHANGED <<cons, tx, port, input, reader, chars>>

send(t) ==
  /\ pc[t] = "send"
  /\ tx_r' = tx_r + 1
  /\ pc' = [wakeup(pc, "put_asleep", "put_awake") EXCEPT ![t] = "start"]
  /\ WriteTHR
  /\ UNCHANGED <<cons, tx_buf, tx_w, tx_lock, rx, input, reader, chars>>
------------------------------------------------------------------------------
Next ==
  \/ \E c \in Typed : type(c)
  \/ transmit
  \/ \E p \in Readers :
       \/ \E count \in 1..MaxCount : read(p, count)
       \/ read_wait(p) \/ read_sleep(p) \/ read_awake(p) \/ read_char(p)
       \/ kill(p)
  \/ intr_begin \/ uartgetc \/ consoleintr \/ consputc \/ edited \/ store
  \/ intr_send
  \/ \E p \in Writers :
       \/ write(p) \/ put_sleep(p) \/ put_awake(p)
       \/ \E c \in Letters \cup {NL} : uartputc(p, c)
  \/ \E t \in Senders : start_return(t) \/ start_send(t) \/ send(t)

Spec == Init /\ [][Next]_vars
------------------------------------------------------------------------------
(* Properties *)

TypeOK ==
  /\ buf \in [0..(INPUT_BUF_SIZE - 1) -> Stored]
  /\ {r, w, e} \subseteq 0..(UintMod - 1)
  /\ tx_buf \in [0..(UART_TX_BUF_SIZE - 1) -> Letters \cup {NL}]
  /\ tx_w \in Nat /\ tx_r \in 0..tx_w
  /\ lock \in Readers \cup {intr, Nobody}
  /\ tx_lock \in Senders \cup {Nobody}
  /\ thr \in Nat /\ thre \in BOOLEAN
  /\ ch \in Keys /\ echo \in Nat

\* Nobody sleeps through what they wait for.  A reader is asleep only while
\* there is nothing to read, a writer only while the buffer is full, and
\* characters in the buffer are sent: the port is busy, its interrupt is
\* pending, or a thread has still to come to uartstart(), whatever echoes
\* come between its look at the port and its return.
NoLostWakeup ==
  /\ TypeOK
  /\ \A p \in Readers : pc[p] = "read_asleep" => r = w
  /\ \A p \in Writers : pc[p] = "put_asleep" => Full
  /\ tx_w # tx_r => thr > 0 \/ thre \/ pc[intr] # "idle" \/ tx_lock # Nobody

Line(i, j) == [k \in 1..Held(i, j) |-> buf[Plus(i, k - 1) % INPUT_BUF_SIZE]]

Term == INSTANCE Terminal WITH
  line <- Line(w, e),
  ready <- Line(r, w),
  out <- [k \in 1..(tx_w - tx_r) |-> tx_buf[(tx_r + k - 1) % UART_TX_BUF_SIZE]],
  Chars <- Stored,
  Ends <- {NL, EOF},
  InSize <- INPUT_BUF_SIZE,
  OutSize <- UART_TX_BUF_SIZE

\* The two rings are queues: line editing touches only the line that is not
\* complete, nothing unread or unsent is overwritten, and characters leave
\* in the order they came, each once, although the indices wrap around.
QueuesInOrder == Term!Spec
==============================================================================

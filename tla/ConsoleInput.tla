---------------------------- MODULE ConsoleInput ----------------------------
(***************************************************************************)
(* console_getchar() (lib/console.c): one thread that merges the keyboard's *)
(* ring and the polled serial port (drivers/serial.c), and halts the CPU    *)
(* when it has found nothing.                                               *)
(*                                                                         *)
(* Three things happen around it at any moment: the timer interrupts (only  *)
(* its wake-up matters here), the keyboard interrupts, and bytes arrive in  *)
(* the UART, which raises no interrupt (serial.c:28).  Interrupts are       *)
(* enabled all the time, so they also fall between the last look at the     *)
(* ring and the hlt.                                                        *)
(***************************************************************************)
EXTENDS Keyboard

CONSTANTS Scancodes,   \* what the keyboard may send
          Bytes,       \* what the serial line may deliver
          FIFO_SIZE,   \* of the 16550's receiver
          MaxInput,    \* bound: scancodes and serial bytes per behaviour
          MaxBytes     \* bound: serial bytes among them

ASSUME InputAssumption ==
    /\ Scancodes \subseteq 0 .. 255 /\ Bytes \subseteq 0 .. 255
    /\ FIFO_SIZE \in Nat \ {0} /\ MaxInput \in Nat /\ MaxBytes \in Nat

ESC == 27
LF  == 10
CR  == 13
BS  == 8
DEL == 127
LBRACKET == 91

VARIABLES pc,        \* where console_getchar() is
          fifo,      \* the UART's receive FIFO
          keys,      \* scancodes sent so far
          arrived,   \* auxiliary: the bytes that entered the FIFO
          sgot,      \* auxiliary: what console_getchar() returned from serial
          late       \* auxiliary: serial_read_soon() has given up once

svars == <<fifo, arrived, sgot, late>>
vars  == <<kvars, pc, fifo, keys, arrived, sgot, late>>

\* "caller": the shell is not reading.  "test", "read": in keyboard_read().
\* "serial": about to poll the UART.  "esc", "csi": in the first and in the
\* second serial_read_soon().  "hlt": about to halt.  "halted": in hlt.
Places == {"caller", "test", "read", "serial", "esc", "csi", "hlt", "halted"}

Init ==
    /\ KbdInit
    /\ pc = "caller" /\ keys = 0
    /\ fifo = <<>> /\ arrived = <<>> /\ sgot = <<>> /\ late = FALSE

-----------------------------------------------------------------------------
(* Interrupts and arrivals.                                                 *)

\* Any interrupt ends the hlt, and the loop starts over.
Wake == pc' = IF pc = "halted" THEN "test" ELSE pc

\* Mutant: the timer's line stays masked.
timer_irq_masked == UNCHANGED vars

timer_irq == Wake /\ UNCHANGED <<kvars, keys, svars>>

Key(sc) ==
    /\ keys + Len(arrived) < MaxInput
    /\ keys' = keys + 1
    /\ keyboard_irq(sc)
    /\ Wake
    /\ UNCHANGED <<tail, rd, kgot, svars>>

\* A byte that finds the FIFO full is lost in the UART.
Arrive(x) ==
    /\ keys + Len(arrived) < MaxInput /\ Len(arrived) < MaxBytes
    /\ Len(fifo) < FIFO_SIZE
    /\ fifo' = Append(fifo, x)
    /\ arrived' = Append(arrived, x)
    /\ UNCHANGED <<kvars, pc, keys, sgot, late>>

-----------------------------------------------------------------------------
(* The thread.                                                              *)

Goto(l) == pc' = l /\ UNCHANGED <<kvars, keys, svars>>

Call == pc = "caller" /\ Goto("test")

\* keyboard_read() returns -1.
NoKey == pc = "test" /\ Empty /\ Goto("serial")

SomeKey ==
    /\ pc = "test"
    /\ TestRing
    /\ pc' = "read"
    /\ UNCHANGED <<keys, svars>>

ReadKey ==
    /\ pc = "read"
    /\ LoadChar \/ AdvanceTail \/ AdvanceFirst \/ LoadLate
    /\ pc' = IF rd' = NotReading THEN "caller" ELSE "read"
    /\ UNCHANGED <<keys, svars>>

\* serial_read() and the way out of the loop with the character c.
Deliver(c) ==
    /\ sgot' = Append(sgot, c)
    /\ fifo' = Tail(fifo)
    /\ pc' = "caller"
    /\ UNCHANGED <<kvars, keys, arrived, late>>

Discard(l) ==
    /\ fifo' = Tail(fifo)
    /\ pc' = l
    /\ UNCHANGED <<kvars, keys, arrived, sgot, late>>

\* Mutant: serial_read() waits for a byte.
NoByte_waits == pc = "serial" /\ fifo = <<>> /\ Goto("serial")

NoByte == pc = "serial" /\ fifo = <<>> /\ Goto("hlt")

\* Mutant: DEL is passed on as it is.
Normalise_keeps_del(x) == IF x = CR THEN LF ELSE x

Normalise(x) == CASE x = CR  -> LF
                  [] x = DEL -> BS
                  [] OTHER   -> x

SomeByte ==
    /\ pc = "serial" /\ fifo # <<>>
    /\ IF Head(fifo) = ESC THEN Discard("esc")
       ELSE Deliver(Normalise(Head(fifo)))

\* The byte behind an ESC came in time: an ANSI sequence, or to be dropped.
Escape ==
    /\ pc = "esc" /\ fifo # <<>>
    /\ Discard(IF Head(fifo) = LBRACKET THEN "csi" ELSE "hlt")

ArrowOf(x) == IF x = 65 THEN KEY_UP ELSE KEY_DOWN     \* 'A', 'B'

Arrow ==
    /\ pc = "csi" /\ fifo # <<>>
    /\ IF Head(fifo) \in {65, 66}
       THEN Deliver(ArrowOf(Head(fifo)))
       ELSE Discard("hlt")

\* serial_read_soon() polls a fixed number of times; whether that is long
\* enough depends on the CPU and the sender.
GiveUp ==
    /\ pc \in {"esc", "csi"} /\ fifo = <<>>
    /\ late' = TRUE
    /\ pc' = "hlt"
    /\ UNCHANGED <<kvars, keys, fifo, arrived, sgot>>

\* "sti; hlt".  Interrupts were enabled before it, too.
Halt == pc = "hlt" /\ Goto("halted")

Thread ==
    \/ Call \/ NoKey \/ SomeKey \/ ReadKey
    \/ NoByte \/ SomeByte \/ Escape \/ Arrow \/ GiveUp \/ Halt

Next ==
    \/ Thread
    \/ timer_irq
    \/ \E sc \in Scancodes : Key(sc)
    \/ \E x \in Bytes : Arrive(x)

\* The thread keeps running while the CPU does, and the PIT, programmed once
\* in rate-generator mode, keeps interrupting.  Nothing is assumed of the
\* keyboard and the serial line.
Spec == Init /\ [][Next]_vars /\ WF_vars(Thread) /\ WF_vars(timer_irq)

-----------------------------------------------------------------------------
(* Properties.                                                              *)

TypeOK ==
    /\ KbdTypeOK
    /\ pc \in Places
    /\ (pc = "read") = (rd.at # "out")
    /\ fifo \in Seq(0 .. 255) /\ Len(fifo) <= FIFO_SIZE
    /\ keys \in 0 .. MaxInput /\ late \in BOOLEAN

\* What a stream of serial bytes means: CR and DEL are Enter and Backspace,
\* ESC [ A and ESC [ B the arrows, any other byte behind ESC or ESC [ is
\* swallowed with it.
Decode[s \in Seq(0 .. 255)] ==
    IF s = <<>> THEN <<>>
    ELSE IF s[1] # ESC
         THEN <<CASE s[1] = CR -> LF [] s[1] = DEL -> BS [] OTHER -> s[1]>> \o Decode[Tail(s)]
    ELSE IF Len(s) = 1 THEN <<>>
    ELSE IF s[2] # LBRACKET THEN Decode[SubSeq(s, 3, Len(s))]
    ELSE IF Len(s) = 2 THEN <<>>
    ELSE (CASE s[3] = 65 -> <<KEY_UP>> [] s[3] = 66 -> <<KEY_DOWN>> [] OTHER -> <<>>)
         \o Decode[SubSeq(s, 4, Len(s))]

\* Whatever keys and halts come in between, the serial bytes are decoded as
\* the stream they are, unless a sequence arrived too slowly for
\* serial_read_soon().
SerialDecoded ==
    ~late /\ pc \notin {"esc", "csi"} => Decode[arrived] = sgot \o Decode[fifo]

\* Every key accepted is returned in the end, the one that arrives between
\* the last look at the ring and the hlt included: the ring does not stay
\* filled.
KeysDelivered == (head # tail) ~> (head = tail)

\* No byte stays in the UART for ever, though it raises no interrupt.
SerialDrained == (fifo # <<>>) ~> (fifo = <<>>)

=============================================================================

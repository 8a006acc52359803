----------------------------- MODULE Interrupts -----------------------------
(***************************************************************************)
(* Interrupts from the first sti to the shell: the two 8259 PICs and their   *)
(* acknowledgement (kernel/idt.c, kernel/isr.S), the tick counter and        *)
(* timer_sleep_ms() (drivers/timer.c), and the order in which kmain() brings *)
(* them up.                                                                  *)
(*                                                                         *)
(* The devices are not part of the kernel.  The PICs are edge triggered: a   *)
(* line asks once, when it rises.  The keyboard controller raises IRQ1 for   *)
(* a byte and sends no further one before port 0x60 has been read.           *)
(***************************************************************************)
EXTENDS Integers, Sequences, FiniteSets, FiniteSetsExt

CONSTANTS Lines,        \* IRQ lines without a driver that may still rise
          EarlyKeys,    \* a key may be pressed between idt_init() and keyboard_init()
          Naps,         \* what timer_sleep_ms() is called with
          TIMER_HZ,     \* 100 in the code
          HALF,         \* 2^32: the CPU loads a 64-bit counter in two halves
          MaxTicks, MaxKeys, MaxNoise     \* bounds: ticks, keys, other IRQs

ASSUME InterruptAssumption ==
    /\ Lines \subseteq 3 .. 15 /\ Naps \subseteq Nat /\ EarlyKeys \in BOOLEAN
    /\ {TIMER_HZ, HALF} \subseteq Nat \ {0}
    /\ {MaxTicks, MaxKeys, MaxNoise} \subseteq Nat

\* The ticks a sleep of ms waits for.
Duration(ms) == (ms * TIMER_HZ + 999) \div 1000

VARIABLES
    iflag,          \* the CPU takes interrupts
    irr,            \* lines that ask
    pic1, pic2,     \* lines in service, on the master and on the slave
    stack,          \* the interrupts being handled, innermost first
    irq_handlers,   \* the lines that have a handler
    obf, keyq,      \* a byte is in port 0x60; bytes waiting behind it
    ticks,
    pc,             \* where the thread is: kmain(), then timer_sleep_ms()
    half, end,      \* timer_sleep_ms(): the half loaded first, and `end'
    nap,            \* auxiliary: the call's argument, ticks when it came, and
                    \* whether a carry has torn one of its readings of ticks
    pressed, noise  \* how often a key and another line have asked

devices == <<obf, keyq, pressed, noise>>
pics    == <<irr, pic1, pic2>>
thread  == <<pc, half, end, nap>>
vars    == <<iflag, irr, pic1, pic2, stack, irq_handlers, obf, keyq, ticks,
             pc, half, end, nap, pressed, noise>>

\* at is auxiliary: the whole counter at the first load.
NoHalf == [lo |-> -1, hi |-> -1, at |-> 0]
NoNap  == [ms |-> 0, start |-> 0, torn |-> FALSE]

Init ==
    /\ iflag = FALSE /\ irr = {} /\ pic1 = {} /\ pic2 = {} /\ stack = <<>>
    /\ irq_handlers = {} /\ ticks = 0
    /\ obf = FALSE /\ keyq = 0 /\ pressed = 0 /\ noise = 0
    /\ pc = "pic_remap" /\ half = NoHalf /\ end = 0
    /\ nap = NoNap

-----------------------------------------------------------------------------
(* Devices.                                                                 *)

\* The PIT's next tick.  It comes 10 ms after the last one, when that one has
\* long been handled.
Tick ==
    /\ 0 \notin irr /\ \A i \in DOMAIN stack : stack[i].irq # 0
    /\ irr' = irr \cup {0}
    /\ UNCHANGED <<iflag, pic1, pic2, stack, irq_handlers, ticks, thread, devices>>

PressKey ==
    /\ pressed < MaxKeys
    /\ 1 \in irq_handlers \/ (EarlyKeys /\ pc # "pic_remap")
    /\ pressed' = pressed + 1 /\ keyq' = keyq + 1
    /\ UNCHANGED <<iflag, pics, stack, irq_handlers, ticks, thread, obf, noise>>

\* The keyboard controller hands the next byte over.
Controller ==
    /\ keyq > 0 /\ ~obf
    /\ obf' = TRUE /\ keyq' = keyq - 1
    /\ irr' = irr \cup {1}
    /\ UNCHANGED <<iflag, pic1, pic2, stack, irq_handlers, ticks, thread, pressed, noise>>

Noise(n) ==
    /\ noise < MaxNoise
    /\ noise' = noise + 1
    /\ irr' = irr \cup {n}
    /\ UNCHANGED <<iflag, pic1, pic2, stack, irq_handlers, ticks, thread, obf, keyq, pressed>>

-----------------------------------------------------------------------------
(* The PICs and the CPU.                                                    *)

Input(n) == IF n >= 8 THEN 2 ELSE n          \* the slave hangs on input 2

\* Nothing of the same or of a higher priority is in service.
Admitted(n) ==
    /\ \A k \in pic1 : Input(n) < k
    /\ n >= 8 => \A k \in pic2 : n < k

\* n comes first among the lines the PICs would pass on.
First(n) ==
    \A m \in irr : Admitted(m) =>
        Input(n) < Input(m) \/ (Input(n) = Input(m) /\ n <= m)

\* Mutants: timer_sleep_ms() hlts in an if, not in a while; ticks is not
\* volatile, and the loop never looks at it again.
Wake_once == IF pc = "halted" THEN "return" ELSE pc
Wake_unseen == pc

\* Any interrupt ends a hlt, and timer_sleep_ms() tests again.
Wake == IF pc = "halted" THEN "test" ELSE pc

\* What an interrupt gate (idt_set: flags 0x8e) makes of the interrupt flag.
GateFlag == FALSE

Enter(n) ==
    /\ stack' = <<[irq |-> n, called |-> FALSE]>> \o stack
    /\ iflag' = GateFlag
    /\ pc' = Wake
    /\ UNCHANGED <<irq_handlers, ticks, half, end, nap, devices>>

Deliver(n) ==
    /\ iflag /\ n \in irr /\ Admitted(n) /\ First(n)
    /\ irr' = irr \ {n}
    /\ pic1' = pic1 \cup {Input(n)}
    /\ pic2' = IF n >= 8 THEN pic2 \cup {n} ELSE pic2
    /\ Enter(n)

\* A line that fell again before the CPU asked for the vector: the master
\* answers 7, with nothing in service.
Spurious ==
    /\ iflag /\ noise < MaxNoise
    /\ stack' = <<[irq |-> 7, called |-> FALSE]>> \o stack
    /\ iflag' = GateFlag
    /\ pc' = Wake
    /\ noise' = noise + 1
    /\ UNCHANGED <<irq_handlers, ticks, half, end, nap, obf, keyq, pressed, pics>>

-----------------------------------------------------------------------------
(* irq_handler().                                                           *)

Called == stack' = [stack EXCEPT ![1].called = TRUE]

\* The model stops counting at MaxTicks, or when a sleep is over.
timer_irq ==
    /\ ticks' = IF ticks < Max({MaxTicks, end}) THEN ticks + 1 ELSE ticks
    /\ UNCHANGED obf

\* Mutant: the handler returns without reading the port.
keyboard_irq_unread == UNCHANGED <<obf, ticks>>

\* What the handler does for the controller; see Keyboard for the rest.
keyboard_irq == obf' = FALSE /\ UNCHANGED ticks

CallHandler ==
    /\ stack # <<>> /\ ~stack[1].called
    /\ Called
    /\ CASE stack[1].irq = 0 /\ 0 \in irq_handlers -> timer_irq
         [] stack[1].irq = 1 /\ 1 \in irq_handlers -> keyboard_irq
         [] OTHER                                  -> UNCHANGED <<obf, ticks>>
    /\ UNCHANGED <<iflag, pics, irq_handlers, thread, keyq, pressed, noise>>

\* A non-specific EOI ends the service of the line with the highest priority.
EOI(pic) == IF pic = {} THEN {} ELSE pic \ {Min(pic)}

\* Mutant: IRQ 8 is not acknowledged at the slave.
Acknowledge_past_8 ==
    /\ stack # <<>> /\ stack[1].called
    /\ pic2' = IF stack[1].irq > 8 THEN EOI(pic2) ELSE pic2
    /\ pic1' = EOI(pic1)
    /\ stack' = Tail(stack)
    /\ iflag' = TRUE
    /\ UNCHANGED <<irr, irq_handlers, ticks, thread, devices>>

\* The end of irq_handler() and the iret.
Acknowledge ==
    /\ stack # <<>> /\ stack[1].called
    /\ pic2' = IF stack[1].irq >= 8 THEN EOI(pic2) ELSE pic2
    /\ pic1' = EOI(pic1)
    /\ stack' = Tail(stack)
    /\ iflag' = TRUE
    /\ UNCHANGED <<irr, irq_handlers, ticks, thread, devices>>

-----------------------------------------------------------------------------
(* The thread.  It moves only while no handler runs.                        *)

At(l) == pc = l /\ stack = <<>>
Goto(l) == pc' = l /\ UNCHANGED <<half, end, nap>>

\* Initialising a PIC forgets what it was asked; every line is unmasked.
pic_remap ==
    /\ At("pic_remap") /\ Goto("sti")
    /\ irr' = {} /\ pic1' = {} /\ pic2' = {}
    /\ UNCHANGED <<iflag, stack, irq_handlers, ticks, devices>>

\* The end of idt_init().
lidt_sti ==
    /\ At("sti") /\ Goto("timer_init")
    /\ iflag' = TRUE
    /\ UNCHANGED <<pics, stack, irq_handlers, ticks, devices>>

irq_install_handler(n) ==
    /\ irq_handlers' = irq_handlers \cup {n}
    /\ UNCHANGED <<iflag, pics, stack, ticks, devices>>

timer_init    == At("timer_init") /\ irq_install_handler(0) /\ Goto("keyboard_init")
keyboard_init == At("keyboard_init") /\ irq_install_handler(1) /\ Goto("shell")

Quiet == UNCHANGED <<iflag, pics, stack, irq_handlers, ticks, devices>>

\* The two loads of `ticks', in the order the compiler chose.
LoadFirst(l, m) ==
    /\ At(l)
    /\ half' \in {[lo |-> ticks % HALF, hi |-> -1, at |-> ticks],
                 [lo |-> -1, hi |-> ticks \div HALF, at |-> ticks]}
    /\ pc' = m
    /\ UNCHANGED <<end, nap>> /\ Quiet

Loaded ==
    IF half.lo = -1 THEN half.hi * HALF + (ticks % HALF)
                    ELSE (ticks \div HALF) * HALF + half.lo

\* The low half has run over into the high one between the two loads.
Carried == half.at \div HALF # ticks \div HALF

\* What the second load of a reading leaves of both.
LoadSecond ==
    /\ half' = NoHalf
    /\ nap' = [nap EXCEPT !.torn = nap.torn \/ Carried]

\* sleep calls timer_sleep_ms().
Sleep(ms) ==
    /\ At("shell")
    /\ ticks < MaxTicks
    /\ nap' = [NoNap EXCEPT !.ms = ms, !.start = ticks]
    /\ pc' = "begin"
    /\ UNCHANGED <<half, end>> /\ Quiet

SetEnd ==
    /\ At("begun")
    /\ end' = Loaded + Duration(nap.ms)
    /\ pc' = "test"
    /\ LoadSecond /\ Quiet

Test ==
    /\ At("tested")
    /\ pc' = IF Loaded < end THEN "hlt" ELSE "return"
    /\ LoadSecond
    /\ UNCHANGED end /\ Quiet

Halt == At("hlt") /\ Goto("halted") /\ Quiet

Return ==
    /\ At("return") /\ pc' = "shell"
    /\ end' = 0 /\ nap' = NoNap
    /\ UNCHANGED half /\ Quiet

timer_sleep_ms ==
    \/ LoadFirst("begin", "begun") \/ SetEnd
    \/ LoadFirst("test", "tested") \/ Test
    \/ Halt \/ Return

Thread == pic_remap \/ lidt_sti \/ timer_init \/ keyboard_init \/ timer_sleep_ms

Next ==
    \/ Thread
    \/ \E ms \in Naps : Sleep(ms)
    \/ CallHandler \/ Acknowledge
    \/ \E n \in Lines \cup {0, 1} : Deliver(n)
    \/ Spurious
    \/ Tick \/ PressKey \/ Controller
    \/ \E n \in Lines : Noise(n)

\* The CPU runs, the PIT ticks and the keyboard controller hands its bytes
\* over.  A line that may be served again and again is served: handlers are
\* short against the time between two ticks.  Nobody has to press a key or to
\* call timer_sleep_ms().
Spec ==
    /\ Init /\ [][Next]_vars
    /\ WF_vars(CallHandler \/ Acknowledge) /\ WF_vars(Tick) /\ WF_vars(Controller)
    /\ SF_vars(Thread)
    /\ \A n \in Lines \cup {0, 1} : SF_vars(Deliver(n))

-----------------------------------------------------------------------------
(* Properties.                                                              *)

\* No handler is interrupted, and nothing stays in service once the handler
\* has returned, whatever lines rise meanwhile, spurious interrupts and lines
\* without a handler included: no line is ever cut off.  The driver's ring
\* (Keyboard) relies on the first half.
ServiceEnds ==
    /\ Len(stack) <= 1
    /\ stack = <<>> => pic1 = {} /\ pic2 = {}
    /\ stack # <<>> => Cardinality(pic1) <= 1 /\ Cardinality(pic2) <= 1

\* timer_sleep_ms() counts as many ticks as the time asked for takes, whatever
\* interrupts end its hlt.  Only one thing makes it return earlier: a carry into
\* the high half of ticks between the two loads of one reading, which reads a
\* start too early or a present too late (after 497 days of uptime, and again
\* every 497 days).  Ticks, not time: the one under way at the call counts as
\* a whole one, so that the sleep may be up to one tick shorter than asked.
SleepsEnough ==
    pc = "return" /\ ~nap.torn => (ticks - nap.start) * 1000 >= nap.ms * TIMER_HZ

\* timer_sleep_ms() returns, though a tick may fall between the comparison
\* and the hlt.
SleepReturns == (pc = "begin") ~> (pc = "shell")

\* "PS/2 keyboard ready" (kernel/main.c:63): what the keyboard sends is read.
KeysRead == (keyq > 0 \/ obf) ~> (keyq = 0 /\ ~obf)

=============================================================================

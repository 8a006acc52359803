-------------------------- MODULE InterruptsProofs --------------------------
(***************************************************************************)
(* Handlers do not nest and every line's service ends, for every set of     *)
(* lines, every order of interrupts and every boot.                         *)
(***************************************************************************)
EXTENDS Interrupts, SequenceTheorems, FiniteSetTheorems, TLAPS

Frame == [irq : Nat, called : BOOLEAN]

\* What the PICs have in service while n is handled.  A spurious interrupt
\* has the number 7 and nothing in service.
Serving(n) ==
    /\ pic1 = {Input(n)} \/ (n = 7 /\ pic1 = {})
    /\ pic2 = IF n >= 8 THEN {n} ELSE {}

\* The flag is off in a handler, so there is at most one; the PICs serve its
\* line and no other.
IInv ==
    /\ irr \subseteq Nat
    /\ stack \in Seq(Frame) /\ Len(stack) <= 1
    /\ iflag => stack = <<>>
    /\ stack = <<>> => pic1 = {} /\ pic2 = {}
    /\ stack # <<>> => Serving(stack[1].irq)

\* The non-specific EOI ends the only service there is.
LEMMA EOIEnds ==
    ASSUME NEW k \in Nat
    PROVE  EOI({}) = {} /\ EOI({k}) = {}
<1>1. Min({k}) = k BY DEF Min
<1> QED BY <1>1 DEF EOI

\* In a handler there is one frame.
LEMMA OneFrame ==
    ASSUME IInv, stack # <<>>
    PROVE  /\ stack \in Seq(Frame) /\ Len(stack) = 1
           /\ stack[1] \in Frame /\ stack[1].irq \in Nat /\ Serving(stack[1].irq)
<1>1. stack \in Seq(Frame) /\ Len(stack) <= 1 /\ Serving(stack[1].irq) BY DEF IInv
<1>2. Len(stack) \in Nat \ {0} BY <1>1, EmptySeq
<1>3. Len(stack) = 1
  <2> DEFINE m == Len(stack)
  <2>1. m \in Nat \ {0} /\ m <= 1 BY <1>1, <1>2
  <2> HIDE DEF m
  <2>2. m = 1 BY <2>1
  <2> QED BY <2>2 DEF m
<1>4. stack[1] \in Frame BY <1>1, <1>3, ElementOfSeq
<1> QED BY <1>1, <1>3, <1>4 DEF Frame

LEMMA InitInv == Init => IInv
BY DEF Init, IInv

\* Entering a handler through an interrupt gate.
LEMMA EnterKeeps ==
    ASSUME IInv, iflag, NEW n \in Nat,
           stack' = <<[irq |-> n, called |-> FALSE]>> \o stack, ~iflag', irr' \subseteq Nat,
           \/ pic1' = pic1 \cup {Input(n)} /\ pic2' = IF n >= 8 THEN pic2 \cup {n} ELSE pic2
           \/ n = 7 /\ pic1' = pic1 /\ pic2' = pic2
    PROVE  IInv'
<1> DEFINE f == [irq |-> n, called |-> FALSE]
<1>1. stack = <<>> /\ pic1 = {} /\ pic2 = {} BY DEF IInv
<1>2. f \in Frame /\ f.irq = n BY DEF Frame
<1>3. stack' = <<f>>
  <2>1. <<f>> \o <<>> = <<f>>
    <3> HIDE DEF f
    <3>1. <<f>> \in Seq(Frame) BY <1>2
    <3> QED BY <3>1, ConcatEmptySeq
  <2> QED BY <1>1, <2>1
<1> HIDE DEF f
<1>4. stack' \in Seq(Frame) /\ Len(stack') = 1 /\ stack' # <<>> /\ stack'[1].irq = n
  <2>1. <<f>> \in Seq(Frame) /\ Len(<<f>>) = 1 /\ <<f>>[1] = f /\ <<f>> # <<>> BY <1>2
  <2> QED BY <1>2, <1>3, <2>1
<1>5. Serving(n)' BY <1>1 DEF Serving
<1>6. Serving(stack[1].irq)' BY <1>4, <1>5 DEF Serving
<1> QED BY <1>4, <1>6 DEF IInv

LEMMA CallKeeps == ASSUME IInv, CallHandler PROVE IInv'
<1>1. stack # <<>> /\ stack' = [stack EXCEPT ![1].called = TRUE] BY DEF CallHandler, Called
<1>2. UNCHANGED <<iflag, irr, pic1, pic2>> BY DEF CallHandler, pics
<1>3. stack \in Seq(Frame) /\ Len(stack) = 1 /\ stack[1] \in Frame BY <1>1, OneFrame
<1> DEFINE g == [stack[1] EXCEPT !.called = TRUE]
<1>4. g \in Frame /\ g.irq = stack[1].irq BY <1>3 DEF Frame
<1>5. stack' = [stack EXCEPT ![1] = g] BY <1>1
<1> HIDE DEF g
<1>6. stack' \in Seq(Frame) /\ Len(stack') = 1 /\ stack'[1] = g
  BY <1>3, <1>4, <1>5, ExceptSeq
<1>7. stack' # <<>> BY <1>6
<1>8. ~iflag BY <1>1 DEF IInv
<1>9. Serving(stack[1].irq)'
  <2>1. Serving(stack[1].irq) BY <1>1, OneFrame
  <2> QED BY <1>2, <1>4, <1>6, <2>1 DEF Serving
<1> QED BY <1>2, <1>6, <1>7, <1>8, <1>9 DEF IInv

\* The end of irq_handler(): the slave is acknowledged exactly for its lines.
LEMMA AcknowledgeKeeps == ASSUME IInv, Acknowledge PROVE IInv'
<1> DEFINE n == stack[1].irq
<1>1. stack # <<>> /\ stack \in Seq(Frame) /\ Len(stack) = 1 /\ Serving(n) /\ n \in Nat
  BY OneFrame DEF Acknowledge
<1>2. Input(n) \in Nat BY <1>1 DEF Input
<1>3. stack' = <<>>
  <2>1. Tail(stack) \in Seq(Frame) /\ Len(Tail(stack)) = 0 BY <1>1, HeadTailProperties
  <2> QED BY <2>1, EmptySeq DEF Acknowledge
<1> HIDE DEF n
<1>4. pic1' = {} BY <1>1, <1>2, EOIEnds DEF Acknowledge, Serving
<1>5. pic2' = {} BY <1>1, <1>2, EOIEnds DEF Acknowledge, Serving, n
<1>6. irr' = irr BY DEF Acknowledge
<1> QED BY <1>3, <1>4, <1>5, <1>6 DEF IInv

\* What neither enters nor leaves a handler: devices and the thread.
LEMMA OthersKeep ==
    ASSUME IInv, UNCHANGED stack, irr' \subseteq Nat,
           UNCHANGED <<iflag, pic1, pic2>> \/ (stack = <<>> /\ pic1' = {} /\ pic2' = {})
    PROVE  IInv'
BY DEF IInv, Serving

LEMMA ThreadKeeps == ASSUME IInv, Thread \/ \E ms \in Naps : Sleep(ms) PROVE IInv'
<1>1. CASE pic_remap BY <1>1, OthersKeep DEF pic_remap, At
<1>2. CASE lidt_sti BY <1>2, OthersKeep DEF lidt_sti, At, IInv, pics
<1>3. CASE timer_init \/ keyboard_init
  BY <1>3, OthersKeep DEF timer_init, keyboard_init, irq_install_handler, pics, IInv
<1>4. CASE timer_sleep_ms \/ \E ms \in Naps : Sleep(ms)
  <2>1. Quiet BY <1>4 DEF timer_sleep_ms, LoadFirst, SetEnd, Test, Halt, Return, Sleep
  <2> QED BY <2>1, OthersKeep DEF Quiet, pics, IInv
<1> QED BY <1>1, <1>2, <1>3, <1>4 DEF Thread

LEMMA StepInv == IInv /\ [Next]_vars => IInv'
<1> SUFFICES ASSUME IInv, [Next]_vars PROVE IInv' OBVIOUS
<1>0. Lines \cup {0, 1} \subseteq Nat BY InterruptAssumption
<1>1. CASE Thread \/ \E ms \in Naps : Sleep(ms) BY <1>1, ThreadKeeps
<1>2. CASE CallHandler BY <1>2, CallKeeps
<1>3. CASE Acknowledge BY <1>3, AcknowledgeKeeps
<1>4. ASSUME NEW n \in Lines \cup {0, 1}, Deliver(n) PROVE IInv'
  <2>1. /\ iflag /\ ~iflag' /\ n \in Nat
        /\ stack' = <<[irq |-> n, called |-> FALSE]>> \o stack
        /\ pic1' = pic1 \cup {Input(n)} /\ pic2' = IF n >= 8 THEN pic2 \cup {n} ELSE pic2
    BY <1>0, <1>4 DEF Deliver, Enter, GateFlag
  <2>2. irr' \subseteq Nat BY <1>4 DEF Deliver, IInv
  <2> QED BY <2>1, <2>2, EnterKeeps
<1>5. CASE Spurious
  <2>1. iflag /\ ~iflag' /\ UNCHANGED <<irr, pic1, pic2>>
        /\ stack' = <<[irq |-> 7, called |-> FALSE]>> \o stack
    BY <1>5 DEF Spurious, GateFlag, pics
  <2>2. irr' \subseteq Nat BY <2>1 DEF IInv
  <2> QED BY <2>1, <2>2, EnterKeeps
<1>6. CASE Tick \/ PressKey \/ Controller
  <2>1. UNCHANGED <<stack, iflag, pic1, pic2>> /\ irr' \subseteq irr \cup {0, 1}
    BY <1>6 DEF Tick, PressKey, Controller, pics
  <2>2. irr' \subseteq Nat BY <2>1 DEF IInv
  <2> QED BY <2>1, <2>2, OthersKeep
<1>7. ASSUME NEW n \in Lines, Noise(n) PROVE IInv'
  BY <1>0, <1>7, OthersKeep DEF Noise, IInv
<1>8. CASE UNCHANGED vars BY <1>8, OthersKeep DEF vars, IInv
<1> QED BY <1>1, <1>2, <1>3, <1>4, <1>5, <1>6, <1>7, <1>8 DEF Next

\* However interrupts fall, a handler is never interrupted and leaves nothing
\* in service: no acknowledgement is missing, and none goes to a wrong line.
THEOREM ServiceAlwaysEnds == Spec => []ServiceEnds
<1>1. IInv => ServiceEnds
  <2> SUFFICES ASSUME IInv PROVE ServiceEnds OBVIOUS
  <2>1. ASSUME stack # <<>> PROVE Cardinality(pic1) <= 1 /\ Cardinality(pic2) <= 1
    <3> DEFINE n == stack[1].irq
    <3>1. Serving(n) BY <2>1 DEF IInv
    <3>2. Cardinality({n}) = 1 /\ Cardinality({Input(n)}) = 1 BY FS_Singleton
    <3>3. Cardinality({}) = 0 BY FS_EmptySet
    <3> HIDE DEF n
    <3> QED BY <3>1, <3>2, <3>3 DEF Serving
  <2> QED BY <2>1 DEF IInv, ServiceEnds
<1> QED BY <1>1, InitInv, StepInv, PTL DEF Spec

-----------------------------------------------------------------------------
(* timer_sleep_ms().                                                        *)

\* One half of the counter has been loaded, as it was at some moment since the
\* call.
HalfOK ==
    /\ half.at \in Nat /\ nap.start <= half.at /\ half.at <= ticks
    /\ half \in {[lo |-> half.at % HALF, hi |-> -1, at |-> half.at],
                [lo |-> -1, hi |-> half.at \div HALF, at |-> half.at]}

\* `end' lies the duration behind the call, and the loop is left behind it,
\* unless a reading was torn.
SInv ==
    /\ ticks \in Nat /\ end \in Nat
    /\ nap \in [ms : Nat, start : Nat, torn : BOOLEAN] /\ nap.start <= ticks
    /\ pc \in {"pic_remap", "sti", "timer_init", "keyboard_init", "shell", "begin",
               "begun", "test", "tested", "hlt", "halted", "return"}
    /\ pc \in {"begun", "tested"} => HalfOK
    /\ pc \in {"test", "tested", "hlt", "halted", "return"} =>
          nap.torn \/ nap.start + Duration(nap.ms) <= end
    /\ pc = "return" => nap.torn \/ end <= ticks

\* The duration is rounded up to whole ticks.
LEMMA DurationCovers ==
    ASSUME NEW ms \in Nat
    PROVE  Duration(ms) \in Nat /\ Duration(ms) * 1000 >= ms * TIMER_HZ
<1> DEFINE x == ms * TIMER_HZ
<1>1. x \in Nat BY InterruptAssumption
<1> HIDE DEF x
<1>2. (x + 999) \div 1000 \in Nat /\ ((x + 999) \div 1000) * 1000 >= x BY <1>1
<1> QED BY <1>2 DEF Duration, x

\* The two halves of a counter make the counter.
LEMMA Halves ==
    ASSUME NEW t \in Nat
    PROVE  /\ t % HALF \in 0 .. HALF - 1 /\ t \div HALF \in Nat
           /\ t = (t \div HALF) * HALF + (t % HALF)
<1>1. HALF \in Nat /\ HALF > 0 BY InterruptAssumption
<1> DEFINE q == t \div HALF
           r == t % HALF
<1>2. q \in Int /\ r \in 0 .. HALF - 1 /\ t = HALF * q + r BY <1>1
<1> HIDE DEF q, r
<1>3. q \in Nat
  <2>1. CASE q <= -1
    <3>1. HALF * q <= -HALF BY <1>1, <1>2, <2>1
    <3> QED BY <1>1, <1>2, <3>1
  <2> QED BY <1>2, <2>1
<1>4. HALF * q = q * HALF BY <1>1, <1>2
<1>5. r \in 0 .. HALF - 1 /\ q \in Nat /\ t = q * HALF + r BY <1>1, <1>2, <1>3, <1>4
<1> QED BY <1>5, Zenon DEF q, r

\* Put together, the two loads make a natural number, and, where no carry fell
\* between them, the counter as it was at some moment between the call and now.
LEMMA LoadedIs ==
    ASSUME SInv, HalfOK
    PROVE  /\ Loaded \in Nat /\ Carried \in BOOLEAN
           /\ ~Carried => nap.start <= Loaded /\ Loaded <= ticks
<1> DEFINE a == half.at
           ah == half.at \div HALF
           al == half.at % HALF
           th == ticks \div HALF
           tl == ticks % HALF
<1>1. a \in Nat /\ nap.start <= a /\ a <= ticks /\ nap.start \in Nat /\ ticks \in Nat
      /\ HALF \in Nat
  BY InterruptAssumption DEF SInv, HalfOK
<1>2. ah \in Nat /\ al \in Nat /\ a = ah * HALF + al
  <2>1. al \in 0 .. HALF - 1 /\ ah \in Nat /\ a = ah * HALF + al BY <1>1, Halves, Zenon
  <2> HIDE DEF a, ah, al
  <2> QED BY <1>1, <2>1
<1>3. th \in Nat /\ tl \in Nat /\ ticks = th * HALF + tl
  <2>1. tl \in 0 .. HALF - 1 /\ th \in Nat /\ ticks = th * HALF + tl BY <1>1, Halves, Zenon
  <2> HIDE DEF th, tl
  <2> QED BY <1>1, <2>1
<1>4. Carried = (ah # th) BY DEF Carried
<1>5. Loaded = ah * HALF + tl \/ Loaded = th * HALF + al
  <2>1. CASE half = [lo |-> half.at % HALF, hi |-> -1, at |-> half.at]
    <3>1. half.lo = al BY <2>1
    <3>2. half.lo # -1 BY <1>2, <3>1
    <3> QED BY <3>1, <3>2 DEF Loaded
  <2>2. CASE half = [lo |-> -1, hi |-> half.at \div HALF, at |-> half.at]
    <3>1. half.lo = -1 /\ half.hi = ah BY <2>2
    <3> QED BY <3>1 DEF Loaded
  <2> QED BY <2>1, <2>2 DEF HalfOK
<1> HIDE DEF a, ah, al, th, tl
<1> DEFINE ap == ah * HALF
           tp == th * HALF
<1>6. ap \in Nat /\ tp \in Nat BY <1>1, <1>2, <1>3
<1>7. ah = th => ap = tp OBVIOUS
<1>8. a = ap + al /\ ticks = tp + tl /\ (Loaded = ap + tl \/ Loaded = tp + al)
  BY <1>2, <1>3, <1>5
<1> HIDE DEF ap, tp
<1>9. Loaded \in Nat BY <1>2, <1>3, <1>6, <1>8
<1>10. ah = th => nap.start <= Loaded /\ Loaded <= ticks
  BY <1>1, <1>2, <1>3, <1>6, <1>7, <1>8
<1> QED BY <1>4, <1>9, <1>10

LEMMA InitSleep == Init => SInv
BY InterruptAssumption DEF Init, SInv, NoNap

\* What leaves the thread and the counter alone, or only wakes the thread.
LEMMA WakeKeepsSleep ==
    ASSUME SInv, UNCHANGED <<ticks, half, end, nap>>, pc' = Wake \/ pc' = pc
    PROVE  SInv'
BY DEF SInv, HalfOK, Wake

\* A tick: the counter only grows.
LEMMA CallKeepsSleep == ASSUME SInv, CallHandler PROVE SInv'
<1>1. UNCHANGED <<pc, half, end, nap>> BY DEF CallHandler, thread
<1>2. ticks \in Nat /\ end \in Nat /\ nap.start \in Nat /\ nap.start <= ticks BY DEF SInv
<1>3. \/ ticks' = ticks
      \/ ticks' = ticks + 1
  BY DEF CallHandler, timer_irq, keyboard_irq
<1>4. ticks' \in Nat /\ ticks <= ticks' BY <1>2, <1>3
<1>5. HalfOK => HalfOK'
  <2> SUFFICES ASSUME HalfOK PROVE HalfOK' OBVIOUS
  <2>1. half.at \in Nat /\ half.at <= ticks BY DEF HalfOK
  <2>2. half.at <= ticks' BY <1>2, <1>4, <2>1
  <2> QED BY <1>1, <2>2 DEF HalfOK
<1>6. nap'.start <= ticks' BY <1>1, <1>2, <1>4
<1>7. end <= ticks => end' <= ticks' BY <1>1, <1>2, <1>4
<1> QED BY <1>1, <1>2, <1>4, <1>5, <1>6, <1>7 DEF SInv

\* The thread's own steps.
LEMMA LoadKeepsSleep ==
    ASSUME SInv, NEW l, NEW m, LoadFirst(l, m),
           <<l, m>> \in {<<"begin", "begun">>, <<"test", "tested">>}
    PROVE  SInv'
<1>1. UNCHANGED <<ticks, end, nap>> /\ pc = l /\ pc' = m BY DEF LoadFirst, Quiet, At
<1>2. ticks \in Nat /\ nap.start <= ticks BY DEF SInv
<1>3. half' \in {[lo |-> ticks % HALF, hi |-> -1, at |-> ticks],
                [lo |-> -1, hi |-> ticks \div HALF, at |-> ticks]}
  BY DEF LoadFirst
<1>4. half'.at = ticks BY <1>3
<1>5. HalfOK'
  <2>1. half'.at \in Nat /\ nap'.start <= half'.at /\ half'.at <= ticks' BY <1>1, <1>2, <1>4
  <2>2. half' \in {[lo |-> half'.at % HALF, hi |-> -1, at |-> half'.at],
                  [lo |-> -1, hi |-> half'.at \div HALF, at |-> half'.at]}
    BY <1>3, <1>4
  <2> QED BY <2>1, <2>2 DEF HalfOK
<1>6. CASE l = "begin" /\ m = "begun" BY <1>1, <1>5, <1>6 DEF SInv
<1>7. CASE l = "test" /\ m = "tested" BY <1>1, <1>5, <1>7 DEF SInv
<1> QED BY <1>6, <1>7

\* The second load of a reading: it only marks the call.
LEMMA SecondLoad ==
    ASSUME SInv, LoadSecond, Carried \in BOOLEAN
    PROVE  /\ nap' \in [ms : Nat, start : Nat, torn : BOOLEAN]
           /\ nap'.ms = nap.ms /\ nap'.start = nap.start
           /\ nap'.torn = (nap.torn \/ Carried)
BY DEF SInv, LoadSecond

LEMMA SetEndKeepsSleep == ASSUME SInv, SetEnd PROVE SInv'
<1>1. /\ UNCHANGED ticks /\ pc = "begun" /\ pc' = "test" /\ LoadSecond
      /\ end' = Loaded + Duration(nap.ms)
  BY DEF SetEnd, Quiet, At
<1>2. /\ Loaded \in Nat /\ Carried \in BOOLEAN
      /\ ~Carried => nap.start <= Loaded
  BY <1>1, LoadedIs DEF SInv
<1>3. ticks \in Nat /\ nap.start \in Nat /\ nap.start <= ticks /\ nap.ms \in Nat BY DEF SInv
<1>4. Duration(nap.ms) \in Nat BY <1>3, DurationCovers
<1>5. /\ nap' \in [ms : Nat, start : Nat, torn : BOOLEAN]
      /\ nap'.ms = nap.ms /\ nap'.start = nap.start
      /\ nap'.torn = (nap.torn \/ Carried)
  BY <1>1, <1>2, SecondLoad
<1>6. end' \in Nat /\ (~Carried => nap.start + Duration(nap.ms) <= end')
  <2> DEFINE d == Duration(nap.ms)
  <2>1. d \in Nat /\ end' = Loaded + d BY <1>1, <1>4
  <2> HIDE DEF d
  <2>2. end' \in Nat /\ (~Carried => nap.start + d <= end') BY <1>2, <1>3, <2>1
  <2> QED BY <2>2 DEF d
<1>7. nap'.torn \/ nap'.start + Duration(nap'.ms) <= end' BY <1>5, <1>6
<1> QED BY <1>1, <1>3, <1>5, <1>6, <1>7 DEF SInv

LEMMA TestKeepsSleep == ASSUME SInv, Test PROVE SInv'
<1>1. /\ UNCHANGED <<ticks, end>> /\ pc = "tested" /\ LoadSecond
      /\ pc' = IF Loaded < end THEN "hlt" ELSE "return"
  BY DEF Test, Quiet, At
<1>2. /\ Loaded \in Nat /\ Carried \in BOOLEAN
      /\ ~Carried => Loaded <= ticks
  BY <1>1, LoadedIs DEF SInv
<1>3. /\ ticks \in Nat /\ end \in Nat /\ nap.start <= ticks
      /\ nap.torn \/ nap.start + Duration(nap.ms) <= end
  BY <1>1 DEF SInv
<1>4. /\ nap' \in [ms : Nat, start : Nat, torn : BOOLEAN]
      /\ nap'.ms = nap.ms /\ nap'.start = nap.start
      /\ nap'.torn = (nap.torn \/ Carried)
  BY <1>1, <1>2, SecondLoad
<1>5. pc' = "return" => nap'.torn \/ end' <= ticks' BY <1>1, <1>2, <1>3, <1>4
<1>6. nap'.torn \/ nap'.start + Duration(nap'.ms) <= end' BY <1>1, <1>3, <1>4
<1>7. pc' \in {"hlt", "return"} BY <1>1
<1> QED BY <1>1, <1>3, <1>4, <1>5, <1>6, <1>7 DEF SInv

LEMMA ThreadKeepsSleep == ASSUME SInv, Thread \/ \E ms \in Naps : Sleep(ms) PROVE SInv'
<1>1. CASE pic_remap \/ lidt_sti \/ timer_init \/ keyboard_init
  <2>1. /\ UNCHANGED <<ticks, half, end, nap>>
        /\ pc' \in {"sti", "timer_init", "keyboard_init", "shell"}
    BY <1>1 DEF pic_remap, lidt_sti, timer_init, keyboard_init, irq_install_handler, Goto, At
  <2> QED BY <2>1 DEF SInv
<1>2. CASE LoadFirst("begin", "begun") \/ LoadFirst("test", "tested")
  BY <1>2, LoadKeepsSleep
<1>3. CASE SetEnd BY <1>3, SetEndKeepsSleep
<1>4. CASE Test BY <1>4, TestKeepsSleep
<1>5. CASE Halt BY <1>5 DEF Halt, At, Goto, Quiet, SInv
<1>6. CASE Return
  <2>1. UNCHANGED ticks /\ pc' = "shell" /\ end' = 0 /\ nap' = NoNap
    BY <1>6 DEF Return, Quiet
  <2> QED BY <2>1 DEF SInv, NoNap
<1>7. ASSUME NEW ms \in Naps, Sleep(ms) PROVE SInv'
  <2>1. /\ UNCHANGED <<ticks, end>> /\ pc' = "begin"
        /\ nap' = [NoNap EXCEPT !.ms = ms, !.start = ticks] /\ ms \in Nat /\ ticks \in Nat
    BY <1>7, InterruptAssumption DEF Sleep, Quiet, SInv
  <2>2. nap' = [ms |-> ms, start |-> ticks, torn |-> FALSE] BY <2>1 DEF NoNap
  <2>3. nap' \in [ms : Nat, start : Nat, torn : BOOLEAN] /\ nap'.start <= ticks'
    <3>1. ms \in Nat /\ ticks \in Nat /\ ticks' = ticks BY <2>1
    <3>2. nap'.start = ticks BY <2>2
    <3>3. nap' \in [ms : Nat, start : Nat, torn : BOOLEAN] BY <2>2, <3>1
    <3> QED BY <3>1, <3>2, <3>3
  <2>4. end' \in Nat /\ ticks' \in Nat BY <2>1 DEF SInv
  <2> QED BY <2>1, <2>3, <2>4 DEF SInv
<1> QED BY <1>1, <1>2, <1>3, <1>4, <1>5, <1>6, <1>7 DEF Thread, timer_sleep_ms

LEMMA StepSleep == SInv /\ [Next]_vars => SInv'
<1> SUFFICES ASSUME SInv, [Next]_vars PROVE SInv' OBVIOUS
<1>1. CASE Thread \/ \E ms \in Naps : Sleep(ms) BY <1>1, ThreadKeepsSleep
<1>2. CASE CallHandler BY <1>2, CallKeepsSleep
<1>3. CASE Acknowledge BY <1>3, WakeKeepsSleep DEF Acknowledge, thread
<1>4. CASE Spurious \/ \E n \in Lines \cup {0, 1} : Deliver(n)
  BY <1>4, WakeKeepsSleep DEF Spurious, Deliver, Enter
<1>5. CASE Tick \/ PressKey \/ Controller \/ \E n \in Lines : Noise(n)
  BY <1>5, WakeKeepsSleep DEF Tick, PressKey, Controller, Noise, thread
<1>6. CASE UNCHANGED vars BY <1>6, WakeKeepsSleep DEF vars
<1> QED BY <1>1, <1>2, <1>3, <1>4, <1>5, <1>6 DEF Next

\* Whatever interrupts end its hlt, and whichever half of the counter it loads
\* first, timer_sleep_ms() counts the ticks it was asked for, at any uptime: the
\* comparison behind which it leaves the loop sees a later counter than the
\* true one, or `end' was set from an earlier one, only where a carry fell
\* between the two loads of a reading.
THEOREM NeverWakesEarly == Spec => []SleepsEnough
<1>1. SInv => SleepsEnough
  <2> SUFFICES ASSUME SInv, pc = "return", ~nap.torn
               PROVE  (ticks - nap.start) * 1000 >= nap.ms * TIMER_HZ
    BY DEF SleepsEnough
  <2> DEFINE d == Duration(nap.ms)
             x == nap.ms * TIMER_HZ
             s == nap.start
  <2>1. d \in Nat /\ d * 1000 >= x BY DurationCovers DEF SInv
  <2>2. s \in Nat /\ ticks \in Nat /\ end \in Nat /\ s + d <= end /\ end <= ticks BY DEF SInv
  <2>3. x \in Nat BY InterruptAssumption DEF SInv
  <2> HIDE DEF d, x, s
  <2>4. (ticks - s) * 1000 >= x BY <2>1, <2>2, <2>3
  <2> QED BY <2>4 DEF x, s
<1> QED BY <1>1, InitSleep, StepSleep, PTL DEF Spec
=============================================================================

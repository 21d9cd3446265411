----------------------------- MODULE SystemTimer -----------------------------
(***************************************************************************)
(* The scheduler's clock: the system timer of the BCM283x and its driver   *)
(* (namespace Timer of kernel/Timer.cpp), the interrupt handler that       *)
(* dispatches to it (handle_irq in kernel/ExceptionVectorHandlers.cpp) and *)
(* the part of kmain that sets both up.                                    *)
(*                                                                         *)
(* The hardware compares the low bits of a free-running counter with       *)
(* Compare1 for equality, once per count: a compare value that is written  *)
(* after the counter has passed it matches one whole turn of the counter   *)
(* later.                                                                  *)
(***************************************************************************)
EXTENDS Integers, Sequences

CONSTANTS
    CounterBits,        \* width of CounterLow and Compare1 (32 on the hardware)
    TimerTickMSC,       \* the interval InitTimer asks for
    MSToTimerInterval,  \* counts per millisecond
    MaxDelay            \* bound: counts from a match to the callback, and from RegisterCallback's
                        \* read of CounterLow to its write of Compare1

Turn == 2 ^ CounterBits

Interval == TimerTickMSC * MSToTimerInterval

ASSUME SystemTimerAssumption ==
    /\ CounterBits \in Nat \ {0}
    /\ TimerTickMSC \in Nat /\ MSToTimerInterval \in Nat
    /\ Interval \in 1 .. Turn - 1
    \* An interrupt is masked and handled for less than the 200 ms of an interval.
    /\ MaxDelay \in 0 .. Interval - 1

\* The sources in InterruptEnable1 and IRQPending1 (1U << 1U and 1U << 3U).
SystemTimerIRQ1 == 1
SystemTimerIRQ3 == 3

VARIABLES
    CounterLow,           \* the counter
    Compare1,             \* the register it is compared with
    match1,               \* bit 1 of ControlStatus: they have been equal
    InterruptEnable1,     \* the sources the interrupt controller passes on
    irq,                  \* TRUE while DAIF.I is clear
    GlobalTimerInterval,  \* as in Timer.cpp
    registered,           \* pGlobalTimerCallback is not null
    kmain,                \* what kmain has left to do of its initialization
    handler,              \* the next step of the interrupt in progress, or "none"
    curTimerValue,        \* the local of RegisterCallback and of HandleIRQ
    delay,                \* counts since the match or the read (for MaxDelay only)
    stale,                \* the timer was armed over a match the firmware left (for TicksSpaced only)
    sinceTick             \* counts since the last callback, at most Interval (for TicksSpaced only)

timer == << CounterLow, Compare1, match1 >>
driver == << GlobalTimerInterval, registered, curTimerValue >>
vars == << timer, InterruptEnable1, irq, driver, kmain, handler, delay, stale, sinceTick >>

-----------------------------------------------------------------------------
\* Mutant: interrupts are enabled before there is a callback.
KmainEnablesFirst == << "controller", "irq", "callback", "read", "write" >>

\* What kmain does from InitTimer to enable_irq; InitTimer's RegisterCallback
\* has three steps of its own.
KmainOrder == << "callback", "read", "write", "controller", "irq" >>

\* The firmware leaves any values in the timer, and it may have matched.
Init ==
    /\ CounterLow \in 0 .. Turn - 1
    /\ Compare1 \in 0 .. Turn - 1
    /\ match1 \in BOOLEAN
    /\ InterruptEnable1 = {}
    /\ irq = FALSE
    /\ GlobalTimerInterval = 0
    /\ registered = FALSE
    /\ kmain = KmainOrder
    /\ handler = "none"
    /\ curTimerValue = 0
    /\ delay = 0
    /\ stale = FALSE
    /\ sinceTick = Interval

-----------------------------------------------------------------------------
(***************************************************************************)
(* The hardware.                                                           *)
(***************************************************************************)
\* The timer has been armed: kmain is past WriteCompare.
TimerArmed == \A i \in 1 .. Len(kmain) : kmain[i] # "write"

\* The time that is bounded by MaxDelay: from a match until its callback, and
\* between ReadCounter and WriteCompare.
InUse ==
    \/ handler # "none"
    \/ TimerArmed /\ match1
    \/ kmain # << >> /\ Head(kmain) = "write"

\* One microsecond passes.
Count ==
    /\ InUse => delay < MaxDelay
    /\ CounterLow' = (CounterLow + 1) % Turn
    /\ match1' = (match1 \/ CounterLow' = Compare1)
    /\ delay' = IF InUse THEN delay + 1 ELSE 0
    /\ sinceTick' = IF sinceTick < Interval THEN sinceTick + 1 ELSE sinceTick
    /\ UNCHANGED << Compare1, InterruptEnable1, irq, driver, kmain, handler, stale >>

IRQPending1 == {i \in InterruptEnable1 : i = SystemTimerIRQ1 /\ match1}

Asserted == IRQPending1 # {}

\* The core takes the interrupt, which masks interrupts.
TakeInterrupt ==
    /\ irq /\ Asserted
    /\ handler = "none"
    /\ irq' = FALSE
    /\ handler' = "pending"
    /\ UNCHANGED << timer, InterruptEnable1, driver, kmain, delay, stale, sinceTick >>

-----------------------------------------------------------------------------
(***************************************************************************)
(* RegisterCallback and the rest of kmain's initialization.                *)
(***************************************************************************)
Kmain(step) ==
    /\ kmain # << >> /\ Head(kmain) = step
    /\ handler = "none"
    /\ kmain' = Tail(kmain)

SetCallback ==
    /\ Kmain("callback")
    /\ registered' = TRUE
    /\ GlobalTimerInterval' = Interval % Turn
    /\ UNCHANGED << timer, InterruptEnable1, irq, handler, curTimerValue, delay, stale, sinceTick >>

ReadCounter ==
    /\ Kmain("read")
    /\ curTimerValue' = CounterLow
    /\ delay' = 0
    /\ UNCHANGED << timer, InterruptEnable1, irq, GlobalTimerInterval, registered,
                    handler, stale, sinceTick >>

\* Mutant: a sum that stops at the largest uint32_t.
SaturatedCompare(cur, n) == IF cur + n < Turn THEN cur + n ELSE Turn - 1

NextCompare(cur, n) == (cur + n) % Turn

WriteCompare ==
    /\ Kmain("write")
    /\ Compare1' = NextCompare(curTimerValue, GlobalTimerInterval)
    /\ delay' = 0
    /\ stale' = match1
    /\ UNCHANGED << CounterLow, match1, InterruptEnable1, irq, driver, handler, sinceTick >>

\* Mutant: the source of another compare register is enabled.
WrongSource == SystemTimerIRQ3

EnabledSource == SystemTimerIRQ1

EnableInterruptController ==
    /\ Kmain("controller")
    /\ InterruptEnable1' = InterruptEnable1 \union {EnabledSource}
    /\ UNCHANGED << timer, irq, driver, handler, delay, stale, sinceTick >>

enable_irq ==
    /\ Kmain("irq")
    /\ irq' = TRUE
    /\ UNCHANGED << timer, InterruptEnable1, driver, handler, delay, stale, sinceTick >>

\* kernel_exit runs with interrupts masked until its eret.
disable_irq ==
    /\ kmain = << >> /\ handler = "none"
    /\ irq /\ ~Asserted
    /\ irq' = FALSE
    /\ UNCHANGED << timer, InterruptEnable1, driver, kmain, handler, delay, stale, sinceTick >>

kernel_exit ==
    /\ kmain = << >> /\ handler = "none"
    /\ ~irq
    /\ irq' = TRUE
    /\ UNCHANGED << timer, InterruptEnable1, driver, kmain, handler, delay, stale, sinceTick >>

-----------------------------------------------------------------------------
(***************************************************************************)
(* handle_irq.                                                             *)
(***************************************************************************)
\* The pending register is compared as a whole: the timer is served only when
\* nothing else is pending.  Otherwise a message is printed and nothing cleared.
handle_irq ==
    /\ handler = "pending"
    /\ handler' = IF IRQPending1 = {SystemTimerIRQ1} THEN "clear" ELSE "none"
    /\ irq' = (handler' = "none")
    /\ UNCHANGED << timer, InterruptEnable1, driver, kmain, delay, stale, sinceTick >>

\* Mutant: the match is not acknowledged.
NotAcknowledged == match1

Acknowledged == FALSE

ClearMatch ==
    /\ handler = "clear"
    /\ match1' = Acknowledged
    /\ handler' = "read"
    /\ UNCHANGED << CounterLow, Compare1, InterruptEnable1, irq, driver, kmain,
                    delay, stale, sinceTick >>

HandlerReadsCounter ==
    /\ handler = "read"
    /\ curTimerValue' = CounterLow
    /\ handler' = "write"
    /\ UNCHANGED << timer, InterruptEnable1, irq, GlobalTimerInterval, registered,
                    kmain, delay, stale, sinceTick >>

HandlerWritesCompare ==
    /\ handler = "write"
    /\ Compare1' = NextCompare(curTimerValue, GlobalTimerInterval)
    /\ handler' = "call"
    /\ UNCHANGED << CounterLow, match1, InterruptEnable1, irq, driver, kmain,
                    delay, stale, sinceTick >>

\* The callback is TimerTick, which returns to the end of the interrupt or
\* enables interrupts to schedule; HandleIRQ has nothing left to do either way.
CallCallback ==
    /\ handler = "call"
    /\ sinceTick' = 0
    /\ handler' = "none"
    /\ irq' = TRUE
    /\ delay' = 0
    /\ UNCHANGED << timer, InterruptEnable1, driver, kmain, stale >>

-----------------------------------------------------------------------------
KmainStep ==
    \/ SetCallback \/ ReadCounter \/ WriteCompare
    \/ EnableInterruptController \/ enable_irq

HandlerStep ==
    \/ handle_irq \/ ClearMatch \/ HandlerReadsCounter
    \/ HandlerWritesCompare \/ CallCallback

Next == Count \/ TakeInterrupt \/ KmainStep \/ HandlerStep \/ disable_irq \/ kernel_exit

Spec == Init /\ [][Next]_vars

\* The counter never stops, the core goes on executing code and takes an
\* interrupt that is pending and not masked.
FairSpec ==
    /\ Spec
    /\ WF_vars(Count) /\ WF_vars(TakeInterrupt)
    /\ WF_vars(KmainStep) /\ WF_vars(HandlerStep) /\ WF_vars(kernel_exit)

-----------------------------------------------------------------------------
(***************************************************************************)
(* Properties.                                                             *)
(***************************************************************************)
\* Every variable has its type.
TypeOK ==
    /\ CounterLow \in 0 .. Turn - 1 /\ Compare1 \in 0 .. Turn - 1
    /\ match1 \in BOOLEAN /\ irq \in BOOLEAN
    /\ registered \in BOOLEAN /\ stale \in BOOLEAN
    /\ InterruptEnable1 \subseteq {SystemTimerIRQ1}
    /\ GlobalTimerInterval \in 0 .. Turn - 1
    /\ kmain \in Seq({"callback", "read", "write", "controller", "irq"})
    /\ handler \in {"none", "pending", "clear", "read", "write", "call"}
    /\ curTimerValue \in 0 .. Turn - 1
    /\ delay \in 0 .. MaxDelay
    /\ sinceTick \in 0 .. Interval

\* HandleIRQ calls pGlobalTimerCallback without looking at it: kmain has set it
\* before the first interrupt can come, even one the firmware left pending.
CallbackIsSet == handler = "call" => registered

\* Once the timer is armed, the next match is never further away than one
\* interval, across a wrap of the counter too: the compare value written is
\* always still ahead of the counter, by at most Interval.
ArmedWithinInterval ==
    TimerArmed /\ ~match1 /\ handler \notin {"read", "write"}
        => (Compare1 - CounterLow) % Turn \in 1 .. Interval

\* Two ticks are an interval apart, but for the time the handler takes up to the
\* callback: no match is served twice.  (When the timer was armed over a match
\* the firmware left, the first ticks may come early: the compare value written
\* at boot may match before the handler of the first has replaced it.)
TicksSpaced ==
    [][handler = "call" /\ handler' = "none" /\ ~stale =>
         sinceTick >= Interval - MaxDelay]_vars

\* The scheduler is called again and again (the module Scheduler assumes it).
TicksKeepComing == []<>(handler = "call")
=============================================================================

-------------------------- MODULE SystemTimerProofs --------------------------
(***************************************************************************)
(* The safety properties of SystemTimer, for a counter of any width, any   *)
(* interval shorter than a turn of the counter and any delay shorter than  *)
(* an interval.                                                            *)
(***************************************************************************)
EXTENDS SystemTimer, TLAPS

(***************************************************************************)
(* Distances on the counter.                                               *)
(***************************************************************************)
Value == 0 .. Turn - 1

\* The counter n counts after it was at a.
Later(a, n) == (a + n) % Turn

LEMMA TurnIsNat == Turn \in Nat /\ Turn > 1 /\ Interval \in 1 .. Turn - 1
  BY SystemTimerAssumption DEF Turn

\* There is at most one wrap in less than two turns.
LEMMA LaterWraps ==
    ASSUME NEW a \in Value, NEW n \in 0 .. Turn - 1
    PROVE  /\ Later(a, n) = IF a + n < Turn THEN a + n ELSE a + n - Turn
           /\ Later(a, n) \in Value
<1>1. Turn \in Nat /\ a \in Nat /\ n \in Nat /\ a < Turn /\ n < Turn
  BY TurnIsNat DEF Value
<1> HIDE DEF Turn
<1>2. CASE a + n < Turn
  BY <1>1, <1>2 DEF Later, Value
<1>3. CASE a + n >= Turn
  BY <1>1, <1>3 DEF Later, Value
<1> QED BY <1>1, <1>2, <1>3

\* The distance between two values.
LEMMA Distance ==
    ASSUME NEW a \in Value, NEW n \in 0 .. Turn - 1
    PROVE  (Later(a, n) - a) % Turn = n
<1>1. Turn \in Nat /\ a \in Nat /\ n \in Nat /\ a < Turn /\ n < Turn
  BY TurnIsNat DEF Value
<1>2. Later(a, n) - a = n \/ Later(a, n) - a = n - Turn
  BY <1>1, LaterWraps
<1> HIDE DEF Turn
<1> QED BY <1>1, <1>2

\* Counting n and then m is counting n + m.
LEMMA LaterSum ==
    ASSUME NEW a \in Value, NEW n \in Nat, NEW m \in Nat, n + m < Turn
    PROVE  Later(Later(a, n), m) = Later(a, n + m)
<1>1. Turn \in Nat /\ a \in Nat /\ a < Turn /\ n \in 0 .. Turn - 1 /\ m \in 0 .. Turn - 1
      /\ n + m \in 0 .. Turn - 1
  BY TurnIsNat DEF Value
<1>2. Later(a, n) \in Value /\ Later(a, n) = IF a + n < Turn THEN a + n ELSE a + n - Turn
  BY <1>1, LaterWraps
<1>3. Later(a, n + m) = IF a + (n + m) < Turn THEN a + (n + m) ELSE a + (n + m) - Turn
  BY <1>1, LaterWraps
<1>4. Later(Later(a, n), m) = IF Later(a, n) + m < Turn THEN Later(a, n) + m ELSE Later(a, n) + m - Turn
  BY <1>1, <1>2, LaterWraps
<1> HIDE DEF Turn, Later
<1> QED BY <1>1, <1>2, <1>3, <1>4

\* Less than a turn leads back to the same value only if it is nothing.
LEMMA LaterSame ==
    ASSUME NEW a \in Value, NEW n \in 0 .. Turn - 1
    PROVE  Later(a, n) = a <=> n = 0
<1>1. Turn \in Nat /\ a \in Nat /\ a < Turn
  BY TurnIsNat DEF Value
<1>2. Later(a, n) = IF a + n < Turn THEN a + n ELSE a + n - Turn
  BY LaterWraps
<1> HIDE DEF Turn, Later
<1> QED BY <1>1, <1>2

-----------------------------------------------------------------------------
(***************************************************************************)
(* The invariant.                                                          *)
(***************************************************************************)
\* What kmain has left to do; before it is done no interrupt is taken.
SetupInv ==
    /\ kmain \in {KmainOrder,
                  << "read", "write", "controller", "irq" >>,
                  << "write", "controller", "irq" >>,
                  << "controller", "irq" >>,
                  << "irq" >>,
                  << >>}
    /\ registered <=> kmain # KmainOrder
    /\ registered => GlobalTimerInterval = Interval
    /\ kmain # << >> => ~irq /\ handler = "none"

\* WriteCompare and HandlerWritesCompare are not long after the read.
ReadInv ==
    /\ kmain = << "write", "controller", "irq" >> => CounterLow = Later(curTimerValue, delay)
    /\ handler = "write" => \E e \in 0 .. delay : CounterLow = Later(curTimerValue, e)

\* n counts are left until the next match.
Left(n) ==
    /\ Compare1 = Later(CounterLow, n)
    /\ handler = "call" => n + delay >= Interval
    /\ ~stale /\ handler # "call" => sinceTick + n >= Interval - MaxDelay

\* It has been delay counts since the match.
SinceMatch ==
    /\ sinceTick >= Interval - MaxDelay
    /\ handler # "call" => CounterLow = Later(Compare1, delay)

\* Once the timer is armed, the next match is ahead of the counter or the last one
\* is waiting for its callback.
ArmedInv ==
    /\ TimerArmed /\ ~match1 /\ handler \notin {"read", "write"} => \E n \in 1 .. Interval : Left(n)
    /\ TimerArmed /\ ~stale /\ (match1 \/ handler # "none") => SinceMatch
    /\ handler \in {"read", "write", "call"} /\ ~stale => ~match1

TimerInv == TypeOK /\ SetupInv /\ ReadInv /\ ArmedInv

-----------------------------------------------------------------------------
\* kmain's steps in their order.
LEMMA KmainSteps ==
    ASSUME SetupInv, NEW step, Kmain(step)
    PROVE  /\ handler = "none" /\ ~irq
           /\ step = "callback" => kmain = KmainOrder /\ kmain' = << "read", "write", "controller", "irq" >>
           /\ step = "read" => /\ kmain = << "read", "write", "controller", "irq" >>
                               /\ kmain' = << "write", "controller", "irq" >>
           /\ step = "write" => kmain = << "write", "controller", "irq" >> /\ kmain' = << "controller", "irq" >>
           /\ step = "controller" => kmain = << "controller", "irq" >> /\ kmain' = << "irq" >>
           /\ step = "irq" => kmain = << "irq" >> /\ kmain' = << >>
<1>1. kmain # << >> /\ Head(kmain) = step /\ kmain' = Tail(kmain) /\ handler = "none" /\ ~irq
  BY DEF Kmain, SetupInv
<1>2. CASE kmain = KmainOrder
  <2>1. Head(kmain) = "callback" /\ Tail(kmain) = << "read", "write", "controller", "irq" >>
    BY <1>2 DEF KmainOrder
  <2> QED BY <1>1, <1>2, <2>1
<1>3. CASE kmain = << "read", "write", "controller", "irq" >>
  <2>1. Head(kmain) = "read" /\ Tail(kmain) = << "write", "controller", "irq" >>
    BY <1>3
  <2> QED BY <1>1, <1>3, <2>1
<1>4. CASE kmain = << "write", "controller", "irq" >>
  <2>1. Head(kmain) = "write" /\ Tail(kmain) = << "controller", "irq" >>
    BY <1>4
  <2> QED BY <1>1, <1>4, <2>1
<1>5. CASE kmain = << "controller", "irq" >>
  <2>1. Head(kmain) = "controller" /\ Tail(kmain) = << "irq" >>
    BY <1>5
  <2> QED BY <1>1, <1>5, <2>1
<1>6. CASE kmain = << "irq" >>
  <2>1. Head(kmain) = "irq" /\ Tail(kmain) = << >>
    BY <1>6
  <2> QED BY <1>1, <1>6, <2>1
<1> QED BY <1>1, <1>2, <1>3, <1>4, <1>5, <1>6 DEF SetupInv

\* The timer is armed in the stages after "write".
LEMMA NoWriteLeft ==
    ASSUME NEW k \in {KmainOrder,
                      << "read", "write", "controller", "irq" >>,
                      << "write", "controller", "irq" >>,
                      << "controller", "irq" >>,
                      << "irq" >>,
                      << >>}
    PROVE  (\A i \in 1 .. Len(k) : k[i] # "write") <=> k \in {<< "controller", "irq" >>, << "irq" >>, << >>}
<1>1. CASE k \in {<< "controller", "irq" >>, << "irq" >>, << >>}
  BY <1>1
<1>2. CASE k = KmainOrder
  <2>1. 3 \in 1 .. Len(k) /\ k[3] = "write" /\ Len(k) = 5
    BY <1>2 DEF KmainOrder
  <2> QED BY <1>2, <2>1
<1>3. CASE k = << "read", "write", "controller", "irq" >>
  <2>1. 2 \in 1 .. Len(k) /\ k[2] = "write" /\ Len(k) = 4
    BY <1>3
  <2> QED BY <1>3, <2>1
<1>4. CASE k = << "write", "controller", "irq" >>
  <2>1. 1 \in 1 .. Len(k) /\ k[1] = "write" /\ Len(k) = 3
    BY <1>4
  <2> QED BY <1>4, <2>1
<1> QED BY <1>1, <1>2, <1>3, <1>4

LEMMA ArmedWhen ==
    ASSUME SetupInv
    PROVE  TimerArmed <=> kmain \in {<< "controller", "irq" >>, << "irq" >>, << >>}
  BY NoWriteLeft DEF SetupInv, TimerArmed

LEMMA ArmedWhenNext ==
    ASSUME SetupInv'
    PROVE  TimerArmed' <=> kmain' \in {<< "controller", "irq" >>, << "irq" >>, << >>}
  BY NoWriteLeft DEF SetupInv, TimerArmed

\* The stages of kmain that differ in what the invariant says.
LEMMA KmainStages ==
    /\ KmainOrder \notin {<< "read", "write", "controller", "irq" >>, << "write", "controller", "irq" >>,
                          << "controller", "irq" >>, << "irq" >>, << >>}
    /\ << "read", "write", "controller", "irq" >> \notin
          {<< "write", "controller", "irq" >>, << "controller", "irq" >>, << "irq" >>, << >>}
    /\ << "write", "controller", "irq" >> \notin {<< "controller", "irq" >>, << "irq" >>, << >>}
    /\ << "controller", "irq" >> # << >> /\ << "irq" >> # << >>
<1>1. /\ KmainOrder \notin {<< "read", "write", "controller", "irq" >>, << "write", "controller", "irq" >>,
                            << "controller", "irq" >>, << "irq" >>, << >>}
  BY DEF KmainOrder
<1>2. << "read", "write", "controller", "irq" >> \notin
          {<< "write", "controller", "irq" >>, << "controller", "irq" >>, << "irq" >>, << >>}
  OBVIOUS
<1>3. << "write", "controller", "irq" >> \notin {<< "controller", "irq" >>, << "irq" >>, << >>}
  OBVIOUS
<1>4. << "controller", "irq" >> # << >> /\ << "irq" >> # << >>
  OBVIOUS
<1> QED BY <1>1, <1>2, <1>3, <1>4

\* Time passes.
LEMMA CountKeeps == TimerInv /\ Count => TimerInv'
<1> SUFFICES ASSUME TimerInv, Count PROVE TimerInv'
  OBVIOUS
<1>1. /\ CounterLow \in Value /\ Compare1 \in Value /\ match1 \in BOOLEAN /\ stale \in BOOLEAN
      /\ delay \in 0 .. MaxDelay /\ sinceTick \in 0 .. Interval /\ curTimerValue \in Value
      /\ MaxDelay \in 0 .. Interval - 1 /\ Interval \in 1 .. Turn - 1 /\ Turn \in Nat
  BY TurnIsNat, SystemTimerAssumption DEF TimerInv, TypeOK, Value
<1>2. /\ UNCHANGED << Compare1, InterruptEnable1, irq, driver, kmain, handler, stale >>
      /\ UNCHANGED << GlobalTimerInterval, registered, curTimerValue >>
      /\ CounterLow' = Later(CounterLow, 1) /\ CounterLow' \in Value
      /\ match1' = (match1 \/ CounterLow' = Compare1)
      /\ InUse => delay < MaxDelay /\ delay' = delay + 1
      /\ ~InUse => delay' = 0
      /\ sinceTick' = IF sinceTick < Interval THEN sinceTick + 1 ELSE sinceTick
  <2>1. CounterLow' = Later(CounterLow, 1) /\ 1 \in 0 .. Turn - 1
    BY <1>1 DEF Count, Later
  <2>2. CounterLow' \in Value
    BY <1>1, <2>1, LaterWraps
  <2> QED BY <2>1, <2>2 DEF Count, driver
<1>3. TimerArmed' = TimerArmed
  BY <1>2 DEF TimerArmed
<1> HIDE DEF Turn, Interval, Later, Value
<1>4. delay' \in 0 .. MaxDelay /\ sinceTick' \in 0 .. Interval /\ sinceTick' >= sinceTick
  BY <1>1, <1>2
<1>5. TypeOK'
  BY <1>1, <1>2, <1>4 DEF TimerInv, TypeOK, Value
<1>6. SetupInv'
  BY <1>2 DEF TimerInv, SetupInv
<1>7. ASSUME NEW a \in Value, NEW e \in 0 .. Turn - 2, CounterLow = Later(a, e)
      PROVE  CounterLow' = Later(a, e + 1)
  BY <1>1, <1>2, <1>7, LaterSum
<1>8. ReadInv'
  <2>1. ASSUME kmain = << "write", "controller", "irq" >>
        PROVE  CounterLow' = Later(curTimerValue, delay')
    <3>1. InUse
      BY <2>1 DEF InUse
    <3>2. CounterLow = Later(curTimerValue, delay)
      BY <2>1 DEF TimerInv, ReadInv
    <3>3. delay' = delay + 1 /\ delay \in 0 .. Turn - 2
      BY <1>1, <1>2, <3>1
    <3> QED BY <1>1, <1>7, <3>2, <3>3
  <2>2. ASSUME handler = "write" PROVE \E e \in 0 .. delay' : CounterLow' = Later(curTimerValue, e)
    <3>1. InUse
      BY <2>2 DEF InUse
    <3>2. PICK e \in 0 .. delay : CounterLow = Later(curTimerValue, e)
      BY <2>2 DEF TimerInv, ReadInv
    <3>3. e + 1 \in 0 .. delay' /\ e \in 0 .. Turn - 2
      BY <1>1, <1>2, <3>1
    <3>4. CounterLow' = Later(curTimerValue, e + 1)
      BY <1>1, <1>7, <3>2, <3>3
    <3> QED BY <3>3, <3>4
  <2> QED BY <1>2, <2>1, <2>2 DEF ReadInv
<1>9. ASSUME TimerArmed, ~match1', handler \notin {"read", "write"}
      PROVE  \E n \in 1 .. Interval : Left(n)'
  <2>1. ~match1 /\ CounterLow' # Compare1
    BY <1>1, <1>2, <1>9
  <2>2. PICK n \in 1 .. Interval : Left(n)
    BY <1>9, <2>1 DEF TimerInv, ArmedInv
  <2>3. Compare1 = Later(CounterLow', n - 1)
    <3>1. Compare1 = Later(CounterLow, 1 + (n - 1)) /\ n - 1 \in Nat /\ 1 + (n - 1) < Turn
      BY <1>1, <2>2 DEF Left
    <3>2. Later(Later(CounterLow, 1), n - 1) = Later(CounterLow, 1 + (n - 1))
      BY <1>1, <3>1, LaterSum
    <3> QED BY <1>2, <3>1, <3>2
  <2>4. n - 1 \in 1 .. Interval
    <3>1. n - 1 \in 0 .. Turn - 1
      BY <1>1
    <3>2. n - 1 # 0
      BY <1>2, <2>1, <2>3, <3>1, LaterSame
    <3> QED BY <1>1, <3>2
  <2>5. handler = "call" => (n - 1) + delay' >= Interval
    <3>1. handler = "call" => InUse
      BY DEF InUse
    <3> QED BY <1>1, <1>2, <2>2, <3>1 DEF Left
  <2>6. ~stale /\ handler # "call" => sinceTick' + (n - 1) >= Interval - MaxDelay
    BY <1>1, <1>2, <2>2, <2>4 DEF Left
  <2> QED BY <1>2, <2>3, <2>4, <2>5, <2>6 DEF Left
<1>10. ASSUME TimerArmed, ~stale, match1' \/ handler # "none"
       PROVE  SinceMatch'
  <2>1. CASE match1 \/ handler # "none"
    <3>1. InUse /\ SinceMatch
      BY <1>10, <2>1 DEF InUse, TimerInv, ArmedInv
    <3>2. delay' = delay + 1 /\ delay \in 0 .. Turn - 2
      BY <1>1, <1>2, <3>1
    <3>3. handler # "call" => CounterLow' = Later(Compare1, delay')
      BY <1>1, <1>7, <3>1, <3>2 DEF SinceMatch
    <3> QED BY <1>1, <1>2, <1>4, <3>1, <3>3 DEF SinceMatch
  <2>2. CASE ~match1 /\ handler = "none"
    <3>1. CounterLow' = Compare1
      BY <1>2, <1>10, <2>2
    <3>2. PICK n \in 1 .. Interval : Left(n)
      BY <1>10, <2>2 DEF TimerInv, ArmedInv
    <3>3. n = 1
      <4>1. Compare1 = Later(CounterLow, 1 + (n - 1)) /\ n - 1 \in Nat /\ 1 + (n - 1) < Turn
        BY <1>1, <3>2 DEF Left
      <4>2. Later(Later(CounterLow, 1), n - 1) = Later(CounterLow, 1 + (n - 1))
        BY <1>1, <4>1, LaterSum
      <4>3. Later(CounterLow', n - 1) = CounterLow' /\ n - 1 \in 0 .. Turn - 1
        BY <1>1, <1>2, <3>1, <4>1, <4>2
      <4>4. n - 1 = 0
        BY <1>2, <4>3, LaterSame
      <4> QED BY <4>4
    <3>4. sinceTick + 1 >= Interval - MaxDelay
      BY <1>10, <2>2, <3>2, <3>3 DEF Left
    <3>5. sinceTick' >= Interval - MaxDelay
      BY <1>1, <1>2, <3>4
    <3>6. CounterLow' = Later(Compare1, delay')
      <4>1. ~InUse
        <5>1. kmain # << "write", "controller", "irq" >> /\ (kmain # << >> => Head(kmain) # "write")
          <6>1. kmain \in {<< "controller", "irq" >>, << "irq" >>, << >>}
            BY <1>10, ArmedWhen DEF TimerInv
          <6>2. Head(<< "controller", "irq" >>) = "controller" /\ Head(<< "irq" >>) = "irq"
            OBVIOUS
          <6> QED BY <6>1, <6>2, KmainStages
        <5> QED BY <2>2, <5>1 DEF InUse
      <4>2. delay' = 0 /\ 0 \in 0 .. Turn - 1
        BY <1>1, <1>2, <4>1
      <4> QED BY <1>1, <3>1, <4>2, LaterSame
    <3> QED BY <1>2, <3>5, <3>6 DEF SinceMatch
  <2> QED BY <2>1, <2>2
<1>11. ASSUME handler \in {"read", "write", "call"}, ~stale PROVE ~match1'
  <2>1. InUse /\ ~match1 /\ TimerArmed
    <3>1. kmain = << >>
      BY <1>11 DEF TimerInv, SetupInv
    <3> QED BY <1>11, <3>1, ArmedWhen DEF InUse, TimerInv, ArmedInv
  <2>2. delay' = delay + 1 /\ delay + 1 \in 1 .. MaxDelay
    BY <1>1, <1>2, <2>1
  <2>3. CASE handler # "call"
    <3>1. CounterLow = Later(Compare1, delay)
      BY <1>11, <2>1, <2>3 DEF TimerInv, ArmedInv, SinceMatch
    <3>2. CounterLow' = Later(Compare1, delay + 1)
      BY <1>1, <1>7, <2>2, <3>1
    <3>3. delay + 1 \in 0 .. Turn - 1 /\ delay + 1 # 0
      BY <1>1, <2>2
    <3>4. CounterLow' # Compare1
      BY <1>1, <3>2, <3>3, LaterSame
    <3> QED BY <1>2, <2>1, <3>4
  <2>4. CASE handler = "call"
    <3>1. PICK n \in 1 .. Interval : Left(n)
      BY <2>1, <2>4 DEF TimerInv, ArmedInv
    <3>2. n >= 2
      BY <1>1, <1>2, <2>1, <2>4, <3>1 DEF Left
    <3>3. Compare1 = Later(CounterLow, 1 + (n - 1)) /\ n - 1 \in Nat /\ 1 + (n - 1) < Turn
      BY <1>1, <3>1 DEF Left
    <3>4. Compare1 = Later(CounterLow', n - 1)
      BY <1>1, <1>2, <3>3, LaterSum
    <3>5. n - 1 \in 0 .. Turn - 1 /\ n - 1 # 0
      BY <1>1, <3>2
    <3>6. CounterLow' # Compare1
      BY <1>2, <3>4, <3>5, LaterSame
    <3> QED BY <1>2, <2>1, <3>6
  <2> QED BY <2>3, <2>4
<1>12. ArmedInv'
  BY <1>2, <1>3, <1>9, <1>10, <1>11 DEF ArmedInv
<1> QED BY <1>5, <1>6, <1>8, <1>12 DEF TimerInv

\* A step of kmain's initialization.
LEMMA KmainKeeps == TimerInv /\ KmainStep => TimerInv'
<1> SUFFICES ASSUME TimerInv, KmainStep PROVE TimerInv'
  OBVIOUS
<1>1. /\ CounterLow \in Value /\ Compare1 \in Value /\ match1 \in BOOLEAN /\ stale \in BOOLEAN
      /\ delay \in 0 .. MaxDelay /\ sinceTick \in 0 .. Interval /\ curTimerValue \in Value
      /\ MaxDelay \in 0 .. Interval - 1 /\ Interval \in 1 .. Turn - 1 /\ Turn \in Nat
      /\ GlobalTimerInterval \in 0 .. Turn - 1
  BY TurnIsNat, SystemTimerAssumption DEF TimerInv, TypeOK, Value
<1>2. SetupInv /\ TypeOK
  BY DEF TimerInv
<1>3. Interval % Turn = Interval
  BY <1>1
<1> DEFINE Steps == {"callback", "read", "write", "controller", "irq"}
<1>4. ASSUME NEW step \in Steps, Kmain(step)
      PROVE  kmain' \in Seq(Steps)
  BY <1>2, <1>4 DEF Kmain, TypeOK
<1> HIDE DEF Turn, Interval, Value
<1>5. CASE SetCallback
  <2>1. /\ kmain = KmainOrder /\ kmain' = << "read", "write", "controller", "irq" >> /\ handler = "none" /\ ~irq
        /\ registered' = TRUE /\ GlobalTimerInterval' = Interval /\ kmain' \in Seq(Steps)
        /\ UNCHANGED << CounterLow, Compare1, match1, InterruptEnable1, irq, handler, curTimerValue,
                        delay, stale, sinceTick >>
    BY <1>2, <1>3, <1>4, <1>5, KmainSteps DEF SetCallback, timer
  <2>2. SetupInv'
    BY <2>1, KmainStages DEF SetupInv
  <2>3. ~TimerArmed'
    <3>1. TimerArmed' <=> kmain' \in {<< "controller", "irq" >>, << "irq" >>, << >>}
      BY <2>2, ArmedWhenNext
    <3> QED BY <2>1, <3>1, KmainStages
  <2>4. TypeOK'
    BY <1>1, <1>2, <2>1 DEF TypeOK
  <2>5. ReadInv' /\ ArmedInv'
    BY <2>1, <2>3, KmainStages DEF ReadInv, ArmedInv
  <2> QED BY <2>2, <2>4, <2>5 DEF TimerInv
<1>6. CASE ReadCounter
  <2>1. /\ kmain = << "read", "write", "controller", "irq" >> /\ kmain' = << "write", "controller", "irq" >>
        /\ handler = "none" /\ ~irq
        /\ curTimerValue' = CounterLow /\ delay' = 0 /\ kmain' \in Seq(Steps)
        /\ UNCHANGED << CounterLow, Compare1, match1, InterruptEnable1, irq, handler,
                        GlobalTimerInterval, registered, stale, sinceTick >>
    BY <1>2, <1>4, <1>6, KmainSteps DEF ReadCounter, timer
  <2>2. SetupInv'
    BY <1>2, <2>1, KmainStages DEF SetupInv
  <2>3. ~TimerArmed'
    <3>1. TimerArmed' <=> kmain' \in {<< "controller", "irq" >>, << "irq" >>, << >>}
      BY <2>2, ArmedWhenNext
    <3> QED BY <2>1, <3>1, KmainStages
  <2>4. TypeOK'
    BY <1>1, <1>2, <2>1 DEF TypeOK, Value
  <2>5. CounterLow' = Later(curTimerValue', delay')
    <3>1. 0 \in 0 .. Turn - 1
      BY <1>1
    <3> QED BY <1>1, <2>1, <3>1, LaterSame
  <2>6. ReadInv' /\ ArmedInv'
    BY <2>1, <2>3, <2>5 DEF ReadInv, ArmedInv
  <2> QED BY <2>2, <2>4, <2>6 DEF TimerInv
<1>7. CASE WriteCompare
  <2>1. /\ kmain = << "write", "controller", "irq" >> /\ kmain' = << "controller", "irq" >>
        /\ handler = "none" /\ ~irq
        /\ Compare1' = NextCompare(curTimerValue, GlobalTimerInterval)
        /\ delay' = 0 /\ stale' = match1 /\ kmain' \in Seq(Steps)
        /\ UNCHANGED << CounterLow, match1, InterruptEnable1, irq, handler,
                        GlobalTimerInterval, registered, curTimerValue, sinceTick >>
    BY <1>2, <1>4, <1>7, KmainSteps DEF WriteCompare, driver
  <2>2. SetupInv'
    BY <1>2, <2>1, KmainStages DEF SetupInv
  <2>3. GlobalTimerInterval = Interval
    BY <1>2, <2>1, KmainStages DEF SetupInv
  <2>4. Compare1' = Later(curTimerValue, Interval) /\ Compare1' \in Value
    <3>1. Compare1' = Later(curTimerValue, Interval)
      BY <2>1, <2>3 DEF NextCompare, Later
    <3>2. Interval \in 0 .. Turn - 1
      BY <1>1
    <3> QED BY <1>1, <3>1, <3>2, LaterWraps
  <2>5. CounterLow = Later(curTimerValue, delay)
    BY <2>1 DEF TimerInv, ReadInv
  <2>6. Compare1' = Later(CounterLow, Interval - delay) /\ Interval - delay \in 1 .. Interval
    <3>1. Interval - delay \in Nat /\ delay \in Nat /\ delay + (Interval - delay) < Turn
          /\ delay + (Interval - delay) = Interval /\ Interval - delay \in 1 .. Interval
      BY <1>1
    <3> QED BY <1>1, <2>4, <2>5, <3>1, LaterSum
  <2>7. TypeOK'
    BY <1>1, <1>2, <2>1, <2>4 DEF TypeOK, Value
  <2>8. PICK n \in 1 .. Interval : n = Interval - delay
    BY <2>6
  <2>9. ~match1 => Left(n)'
    <3>1. sinceTick + n >= Interval - MaxDelay
      BY <1>1, <2>8
    <3> QED BY <2>1, <2>6, <2>8, <3>1 DEF Left
  <2>10. ReadInv' /\ ArmedInv'
    BY <2>1, <2>9, KmainStages DEF ReadInv, ArmedInv
  <2> QED BY <2>2, <2>7, <2>10 DEF TimerInv
<1>8. CASE EnableInterruptController \/ enable_irq
  <2>1. /\ kmain \in {<< "controller", "irq" >>, << "irq" >>} /\ kmain' \in {<< "irq" >>, << >>}
        /\ handler = "none" /\ kmain' \in Seq(Steps)
        /\ irq' = irq \/ (irq' = TRUE /\ kmain' = << >>)
        /\ InterruptEnable1' \in {InterruptEnable1, InterruptEnable1 \union {SystemTimerIRQ1}}
        /\ UNCHANGED << CounterLow, Compare1, match1, handler, delay, stale, sinceTick,
                        GlobalTimerInterval, registered, curTimerValue >>
    BY <1>2, <1>4, <1>8, KmainSteps
       DEF EnableInterruptController, enable_irq, timer, driver, EnabledSource
  <2>2. SetupInv'
    BY <1>2, <2>1, KmainStages DEF SetupInv
  <2>3. TimerArmed /\ TimerArmed'
    <3>1. TimerArmed' <=> kmain' \in {<< "controller", "irq" >>, << "irq" >>, << >>}
      BY <2>2, ArmedWhenNext
    <3> QED BY <1>2, <2>1, <3>1, ArmedWhen
  <2>4. TypeOK'
    BY <1>2, <2>1 DEF TypeOK, SystemTimerIRQ1
  <2>5. ReadInv'
    BY <2>1, KmainStages DEF ReadInv
  <2>6. ArmedInv'
    BY <2>1, <2>3 DEF TimerInv, ArmedInv, Left, SinceMatch
  <2> QED BY <2>2, <2>4, <2>5, <2>6 DEF TimerInv
<1> QED BY <1>5, <1>6, <1>7, <1>8 DEF KmainStep

\* An interrupt, or its masking: nothing of the timer changes.
LEMMA MaskingKeeps ==
    TimerInv /\ (TakeInterrupt \/ disable_irq \/ kernel_exit \/ handle_irq) => TimerInv'
<1> SUFFICES ASSUME TimerInv, TakeInterrupt \/ disable_irq \/ kernel_exit \/ handle_irq
             PROVE  TimerInv'
  OBVIOUS
<1>1. /\ UNCHANGED << CounterLow, Compare1, match1, InterruptEnable1, kmain, delay, stale, sinceTick,
                      GlobalTimerInterval, registered, curTimerValue >>
      /\ kmain = << >> /\ irq' \in BOOLEAN
      /\ handler \in {"none", "pending"} /\ handler' \in {"none", "pending", "clear"}
  BY DEF TimerInv, SetupInv, TakeInterrupt, disable_irq, kernel_exit, handle_irq, timer, driver
<1>2. handler' = "none" \/ match1 \/ handler = "pending"
  BY DEF TakeInterrupt, Asserted, IRQPending1, disable_irq, kernel_exit, handle_irq
<1>3. TimerArmed /\ TimerArmed'
  BY <1>1 DEF TimerArmed
<1>4. TypeOK' /\ SetupInv' /\ ReadInv'
  BY <1>1, KmainStages DEF TimerInv, TypeOK, SetupInv, ReadInv
<1>5. ArmedInv'
  BY <1>1, <1>2, <1>3 DEF TimerInv, ArmedInv, Left, SinceMatch
<1> QED BY <1>4, <1>5 DEF TimerInv

\* HandleIRQ.
LEMMA HandlerKeeps ==
    TimerInv /\ (ClearMatch \/ HandlerReadsCounter \/ HandlerWritesCompare \/ CallCallback) => TimerInv'
<1> SUFFICES ASSUME TimerInv, ClearMatch \/ HandlerReadsCounter \/ HandlerWritesCompare \/ CallCallback
             PROVE  TimerInv'
  OBVIOUS
<1>1. /\ CounterLow \in Value /\ Compare1 \in Value /\ match1 \in BOOLEAN /\ stale \in BOOLEAN
      /\ delay \in 0 .. MaxDelay /\ sinceTick \in 0 .. Interval /\ curTimerValue \in Value
      /\ MaxDelay \in 0 .. Interval - 1 /\ Interval \in 1 .. Turn - 1 /\ Turn \in Nat
  BY TurnIsNat, SystemTimerAssumption DEF TimerInv, TypeOK, Value
<1> HIDE DEF Turn, Interval, Value
<1>2. /\ UNCHANGED << CounterLow, InterruptEnable1, kmain, stale, GlobalTimerInterval, registered >>
      /\ kmain = << >> /\ handler \in {"clear", "read", "write", "call"}
      /\ GlobalTimerInterval = Interval
  BY KmainStages
     DEF TimerInv, SetupInv, ClearMatch, HandlerReadsCounter, HandlerWritesCompare, CallCallback, timer, driver
<1>3. TimerArmed /\ TimerArmed'
  BY <1>2 DEF TimerArmed
<1>4. ASSUME ClearMatch PROVE TypeOK' /\ SetupInv' /\ ReadInv' /\ ArmedInv'
  <2>1. /\ handler = "clear" /\ match1' = FALSE /\ handler' = "read"
        /\ UNCHANGED << Compare1, irq, curTimerValue, delay, sinceTick >>
    BY <1>4 DEF ClearMatch, Acknowledged, driver
  <2>2. TypeOK' /\ SetupInv' /\ ReadInv'
    BY <1>2, <2>1, KmainStages DEF TimerInv, TypeOK, SetupInv, ReadInv
  <2>3. ArmedInv'
    BY <1>2, <1>3, <2>1 DEF TimerInv, ArmedInv, SinceMatch
  <2> QED BY <2>2, <2>3
<1>5. ASSUME HandlerReadsCounter PROVE TypeOK' /\ SetupInv' /\ ReadInv' /\ ArmedInv'
  <2>1. /\ handler = "read" /\ curTimerValue' = CounterLow /\ handler' = "write"
        /\ UNCHANGED << Compare1, match1, irq, delay, sinceTick >>
    BY <1>5 DEF HandlerReadsCounter, timer
  <2>2. TypeOK' /\ SetupInv'
    BY <1>2, <2>1, KmainStages DEF TimerInv, TypeOK, SetupInv
  <2>3. CounterLow' = Later(curTimerValue', 0) /\ 0 \in 0 .. delay'
    <3>1. 0 \in 0 .. Turn - 1 /\ 0 \in 0 .. delay
      BY <1>1
    <3> QED BY <1>1, <1>2, <2>1, <3>1, LaterSame
  <2>4. ReadInv'
    BY <1>2, <2>1, <2>3, KmainStages DEF ReadInv
  <2>5. ArmedInv'
    BY <1>2, <1>3, <2>1 DEF TimerInv, ArmedInv, SinceMatch
  <2> QED BY <2>2, <2>4, <2>5
<1>6. ASSUME HandlerWritesCompare PROVE TypeOK' /\ SetupInv' /\ ReadInv' /\ ArmedInv'
  <2>1. /\ handler = "write" /\ handler' = "call"
        /\ Compare1' = NextCompare(curTimerValue, GlobalTimerInterval)
        /\ UNCHANGED << match1, irq, curTimerValue, delay, sinceTick >>
    BY <1>6 DEF HandlerWritesCompare, driver
  <2>2. PICK e \in 0 .. delay : CounterLow = Later(curTimerValue, e)
    BY <2>1 DEF TimerInv, ReadInv
  <2>3. Compare1' = Later(curTimerValue, Interval) /\ Compare1' \in Value
    <3>1. Compare1' = Later(curTimerValue, Interval)
      BY <1>2, <2>1 DEF NextCompare, Later
    <3>2. Interval \in 0 .. Turn - 1
      BY <1>1
    <3> QED BY <1>1, <3>1, <3>2, LaterWraps
  <2>4. /\ Compare1' = Later(CounterLow, Interval - e) /\ Interval - e \in 1 .. Interval
        /\ (Interval - e) + delay >= Interval
    <3>1. Interval - e \in Nat /\ e \in Nat /\ e + (Interval - e) < Turn
          /\ e + (Interval - e) = Interval /\ Interval - e \in 1 .. Interval
          /\ (Interval - e) + delay >= Interval
      BY <1>1
    <3> QED BY <1>1, <2>2, <2>3, <3>1, LaterSum
  <2>5. TypeOK' /\ SetupInv' /\ ReadInv'
    BY <1>2, <2>1, <2>3, KmainStages DEF TimerInv, TypeOK, SetupInv, ReadInv, Value
  <2>6. Left(Interval - e)'
    BY <1>2, <2>1, <2>4 DEF Left
  <2>7. ArmedInv'
    BY <1>2, <1>3, <2>1, <2>4, <2>6 DEF TimerInv, ArmedInv, SinceMatch
  <2> QED BY <2>5, <2>7
<1>7. ASSUME CallCallback PROVE TypeOK' /\ SetupInv' /\ ReadInv' /\ ArmedInv'
  <2>1. /\ handler = "call" /\ handler' = "none" /\ sinceTick' = 0 /\ delay' = 0 /\ irq' = TRUE
        /\ UNCHANGED << Compare1, match1, curTimerValue >>
    BY <1>7 DEF CallCallback, timer, driver
  <2>2. 0 \in 0 .. MaxDelay /\ 0 \in 0 .. Interval
    BY <1>1
  <2>3. TypeOK' /\ SetupInv' /\ ReadInv'
    BY <1>2, <2>1, <2>2, KmainStages DEF TimerInv, TypeOK, SetupInv, ReadInv
  <2>4. ASSUME ~match1 PROVE \E n \in 1 .. Interval : Left(n)'
    <3>1. PICK n \in 1 .. Interval : Left(n)
      BY <1>3, <2>1, <2>4 DEF TimerInv, ArmedInv
    <3>2. 0 + n >= Interval - MaxDelay
      BY <1>1, <2>1, <3>1 DEF Left
    <3> QED BY <1>2, <2>1, <3>1, <3>2 DEF Left
  <2>5. ArmedInv'
    BY <1>2, <1>3, <2>1, <2>4 DEF TimerInv, ArmedInv
  <2> QED BY <2>3, <2>5
<1> QED BY <1>4, <1>5, <1>6, <1>7 DEF TimerInv

LEMMA TimerInitial == Init => TimerInv
<1> SUFFICES ASSUME Init PROVE TimerInv
  OBVIOUS
<1>1. /\ Turn \in Nat /\ Interval \in 1 .. Turn - 1 /\ MaxDelay \in 0 .. Interval - 1
  BY TurnIsNat, SystemTimerAssumption
<1> HIDE DEF Turn, Interval
<1>2. KmainOrder \in Seq({"callback", "read", "write", "controller", "irq"})
  BY DEF KmainOrder
<1>3. TypeOK
  <2>1. 0 \in 0 .. Turn - 1 /\ 0 \in 0 .. MaxDelay /\ Interval \in 0 .. Interval
    BY <1>1
  <2>2. /\ CounterLow \in 0 .. Turn - 1 /\ Compare1 \in 0 .. Turn - 1 /\ match1 \in BOOLEAN
        /\ InterruptEnable1 = {} /\ irq = FALSE /\ GlobalTimerInterval = 0 /\ registered = FALSE
        /\ kmain = KmainOrder /\ handler = "none" /\ curTimerValue = 0 /\ delay = 0
        /\ stale = FALSE /\ sinceTick = Interval
    BY DEF Init
  <2> QED BY <1>2, <2>1, <2>2 DEF TypeOK
<1>4. SetupInv
  BY DEF Init, SetupInv
<1>5. ~TimerArmed
  BY <1>4, ArmedWhen, KmainStages DEF Init
<1>6. ReadInv /\ ArmedInv
  BY <1>5, KmainStages DEF Init, ReadInv, ArmedInv
<1> QED BY <1>3, <1>4, <1>6 DEF TimerInv

LEMMA TimerNext == TimerInv /\ [Next]_vars => TimerInv'
<1> SUFFICES ASSUME TimerInv, [Next]_vars PROVE TimerInv'
  OBVIOUS
<1>1. CASE UNCHANGED vars
  BY <1>1 DEF vars, timer, driver, TimerInv, TypeOK, SetupInv, ReadInv, ArmedInv, Left, SinceMatch, TimerArmed
<1>2. CASE Next
  BY <1>2, CountKeeps, KmainKeeps, MaskingKeeps, HandlerKeeps DEF Next, HandlerStep
<1> QED BY <1>1, <1>2

-----------------------------------------------------------------------------
(***************************************************************************)
(* The theorems.                                                           *)
(***************************************************************************)
\* The invariant holds in every state the timer can reach.
THEOREM TimerInvariance == Spec => []TimerInv
  BY TimerInitial, TimerNext, PTL DEF Spec

\* HandleIRQ never calls a callback that has not been set, whatever the firmware
\* left pending: kmain enables interrupts after RegisterCallback.
THEOREM CallbackSet == Spec => []CallbackIsSet
<1>1. TimerInv => CallbackIsSet
  BY KmainStages DEF TimerInv, SetupInv, CallbackIsSet
<1> QED BY <1>1, TimerInvariance, PTL

\* The next match is at most one interval ahead of the counter, for a counter of any
\* width and wherever it wraps: NextTimerCompare's uint32_t sum wraps with it.
THEOREM Armed == Spec => []ArmedWithinInterval
<1>1. TimerInv => ArmedWithinInterval
  <2> SUFFICES ASSUME TimerInv, TimerArmed, ~match1, handler \notin {"read", "write"}
               PROVE  (Compare1 - CounterLow) % Turn \in 1 .. Interval
    BY DEF ArmedWithinInterval
  <2>1. PICK n \in 1 .. Interval : Compare1 = Later(CounterLow, n)
    BY DEF TimerInv, ArmedInv, Left
  <2>2. n \in 0 .. Turn - 1 /\ CounterLow \in Value
    BY TurnIsNat DEF TimerInv, TypeOK, Value
  <2>3. (Compare1 - CounterLow) % Turn = n
    BY <2>1, <2>2, Distance
  <2> QED BY <2>3
<1> QED BY <1>1, TimerInvariance, PTL

\* Two calls of TimerTick are an interval apart but for the time an interrupt is held
\* up: no match is served twice, and HandleIRQ re-arms the timer ahead of the counter.
THEOREM TicksApart == Spec => TicksSpaced
<1>1. TimerInv /\ [Next]_vars =>
        [handler = "call" /\ handler' = "none" /\ ~stale => sinceTick >= Interval - MaxDelay]_vars
  <2> SUFFICES ASSUME TimerInv, handler = "call", ~stale PROVE sinceTick >= Interval - MaxDelay
    OBVIOUS
  <2>1. TimerArmed
    BY ArmedWhen DEF TimerInv, SetupInv
  <2> QED BY <2>1 DEF TimerInv, ArmedInv, SinceMatch
<1> QED BY <1>1, TimerInvariance, PTL DEF Spec, TicksSpaced
=============================================================================

------------------------- MODULE PlatformPartsProofs ------------------------
(***************************************************************************)
(* Theorems about the parts that MCPlatformParts runs, for every value of  *)
(* their constants: a consumer's time window, the cycles of a dispatcher,  *)
(* and the product of these with the queue and the alerts.                 *)
(***************************************************************************)
EXTENDS MCPlatformParts, AlertsProofs, QueueStoreProofs

-----------------------------------------------------------------------------
(* The time window of a consumer.                                          *)

\* Whole multiples that differ do so by at least one divisor.
LEMMA MultiplesApart ==
  ASSUME NEW d \in Nat \ {0}, NEW a \in Int, NEW b \in Int, a < b
  PROVE  d * a + d <= d * b
<1>1. PICK k \in Nat : b = a + 1 + k
  <2>1. b - a - 1 \in Nat
    OBVIOUS
  <2> QED BY <2>1
<1>2. d * b = d * a + d + d * k
  BY <1>1
<1>3. d * k >= 0 /\ d * k \in Int /\ d * a \in Int
  OBVIOUS
<1> QED BY <1>2, <1>3

\* Division with remainder.
LEMMA DivisionGives ==
  ASSUME NEW d \in Nat \ {0}, NEW t \in Int
  PROVE  /\ t \div d \in Int /\ t % d \in 0..(d - 1)
         /\ t = d * (t \div d) + (t % d)
OBVIOUS

LEMMA DivisionIs ==
  ASSUME NEW d \in Nat \ {0}, NEW q \in Int, NEW r \in 0..(d - 1)
  PROVE  (d * q + r) \div d = q /\ (d * q + r) % d = r
<1> DEFINE t == d * q + r
           p == t \div d
           s == t % d
<1>1. p \in Int /\ s \in 0..(d - 1) /\ t = d * p + s /\ t = d * q + r /\ d * p \in Int /\ d * q \in Int
  BY DivisionGives
<1> HIDE DEF t, p, s
<1>2. ~(p < q)
  BY <1>1, MultiplesApart
<1>3. ~(q < p)
  BY <1>1, MultiplesApart
<1>4. p = q
  BY <1>1, <1>2, <1>3
<1>5. s = r
  BY <1>1, <1>4
<1> QED BY <1>4, <1>5 DEF t, p, s

\* The clock: a day is DayTicks ticks, a week Days days.
LEMMA ClockTypes ==
  /\ HourTicks \in Nat \ {0} /\ Hours \in Nat \ {0} /\ Days \in Nat \ {0} /\ Fraction \in Nat \ {0}
  /\ DayTicks \in Nat \ {0} /\ Week \in Nat \ {0}
  /\ Week = DayTicks * Days
<1>1. /\ HourTicks \in Nat \ {0} /\ Hours \in Nat \ {0} /\ Days \in Nat \ {0}
      /\ Fraction \in Nat \ {0}
  BY WindowAssumption
<1>2. \A a, b \in Nat \ {0} : a * b \in Nat \ {0} /\ a * b = b * a
  OBVIOUS
<1>3. DayTicks \in Nat \ {0}
  BY <1>1, <1>2 DEF DayTicks
<1> QED BY <1>1, <1>2, <1>3 DEF Week

\* The day and the time of day of an instant.
Day(t) == t \div DayTicks
TimeOfDay(t) == t % DayTicks

LEMMA InstantSplits ==
  ASSUME NEW t \in Int
  PROVE  /\ Day(t) \in Int /\ TimeOfDay(t) \in 0..(DayTicks - 1)
         /\ t = DayTicks * Day(t) + TimeOfDay(t)
         /\ Midnight(t) = DayTicks * Day(t)
         /\ DayTicks * Day(t) \in Int
<1>1. /\ Day(t) \in Int /\ TimeOfDay(t) \in 0..(DayTicks - 1)
      /\ t = DayTicks * Day(t) + TimeOfDay(t)
  BY ClockTypes, DivisionGives DEF Day, TimeOfDay
<1>2. DayTicks * Day(t) \in Int
  BY <1>1, ClockTypes
<1> QED BY <1>1, <1>2 DEF Midnight, TimeOfDay

LEMMA InstantOf ==
  ASSUME NEW q \in Int, NEW r \in 0..(DayTicks - 1)
  PROVE  /\ DayTicks * q + r \in Int
         /\ Day(DayTicks * q + r) = q /\ TimeOfDay(DayTicks * q + r) = r
BY ClockTypes, DivisionIs DEF Day, TimeOfDay

\* Some days later it is the same time of day.
LEMMA DaysLater ==
  ASSUME NEW t \in Int, NEW d \in Int
  PROVE  /\ t + d * DayTicks \in Int
         /\ Day(t + d * DayTicks) = Day(t) + d /\ TimeOfDay(t + d * DayTicks) = TimeOfDay(t)
<1>1. /\ Day(t) \in Int /\ TimeOfDay(t) \in 0..(DayTicks - 1)
      /\ t = DayTicks * Day(t) + TimeOfDay(t)
  BY InstantSplits
<1>2. DayTicks * (Day(t) + d) = DayTicks * Day(t) + d * DayTicks /\ d * DayTicks \in Int
      /\ DayTicks * Day(t) \in Int
  BY <1>1, ClockTypes
<1>3. t + d * DayTicks = DayTicks * (Day(t) + d) + TimeOfDay(t)
  BY <1>1, <1>2
<1>4. Day(t) + d \in Int
  BY <1>1
<1> QED BY <1>1, <1>3, <1>4, InstantOf

\* The window in ticks.
Opens == window.start * HourTicks
Closes == window.end * HourTicks
Inside(t) == Day(t) % Days \in window.weekdays /\ Opens <= TimeOfDay(t) /\ TimeOfDay(t) < Closes

LEMMA WindowTypes ==
  ASSUME window \in Controllers
  PROVE  /\ window.start \in 0..(Hours - 1) /\ window.end \in 1..Hours /\ window.start < window.end
         /\ window.weekdays \subseteq 0..(Days - 1) /\ window.weekdays # {}
         /\ Opens \in 0..(DayTicks - 1) /\ Closes \in 1..DayTicks /\ Opens < Closes
<1>1. /\ window.start \in 0..(Hours - 1) /\ window.end \in 1..Hours /\ window.start < window.end
      /\ window.weekdays \subseteq 0..(Days - 1) /\ window.weekdays # {}
  BY DEF Controllers
<1>2. /\ HourTicks \in Nat \ {0} /\ Hours \in Nat \ {0}
  BY ClockTypes
<1>3. /\ HourTicks * 0 + HourTicks <= HourTicks * window.end
      /\ HourTicks * window.start + HourTicks <= HourTicks * window.end
  BY <1>1, <1>2, MultiplesApart
<1>4. window.end = Hours \/ HourTicks * window.end + HourTicks <= HourTicks * Hours
  BY <1>1, <1>2, MultiplesApart
<1>5. /\ Opens = HourTicks * window.start /\ Closes = HourTicks * window.end
      /\ DayTicks = HourTicks * Hours
      /\ Opens \in Nat /\ Closes \in Nat /\ DayTicks \in Nat
  BY <1>1, <1>2 DEF Opens, Closes, DayTicks
<1>6. Opens < Closes /\ Closes <= DayTicks
  <2>1. CASE window.end = Hours
    BY <1>2, <1>3, <1>5, <2>1
  <2>2. CASE window.end # Hours
    BY <1>2, <1>3, <1>4, <1>5, <2>2
  <2> QED BY <2>1, <2>2
<1> QED BY <1>1, <1>5, <1>6

\* The hour of an instant is in the window just if its tick is.
LEMMA OpenIsInside ==
  ASSUME window \in Controllers, NEW t \in Int
  PROVE  IsOpen(t) <=> Inside(t)
<1>1. /\ window.start \in Int /\ window.end \in Int /\ HourTicks \in Nat \ {0}
  BY WindowTypes, ClockTypes
<1>2. TimeOfDay(t) \in Int
  BY InstantSplits, ClockTypes
<1> DEFINE o == TimeOfDay(t)
           h == o \div HourTicks
<1>3. h \in Int /\ o % HourTicks \in 0..(HourTicks - 1) /\ o = HourTicks * h + (o % HourTicks)
      /\ HourTicks * h \in Int
  <2>1. h \in Int /\ o % HourTicks \in 0..(HourTicks - 1) /\ o = HourTicks * h + (o % HourTicks)
    BY <1>1, <1>2, DivisionGives
  <2> HIDE DEF h
  <2> QED BY <1>1, <2>1
<1>4. Hour(t) = h
  BY DEF Hour, TimeOfDay
<1> HIDE DEF o, h
<1>5. ASSUME NEW w \in Int
      PROVE  /\ h < w <=> o < w * HourTicks
             /\ w * HourTicks \in Int
  <2>1. w * HourTicks = HourTicks * w /\ HourTicks * w \in Int
    BY <1>1
  <2>2. CASE h < w
    <3>1. HourTicks * h + HourTicks <= HourTicks * w
      BY <1>1, <1>3, <2>2, MultiplesApart
    <3> QED BY <1>1, <1>3, <2>1, <2>2, <3>1
  <2>3. CASE h = w
    BY <1>1, <1>3, <2>1, <2>3
  <2>4. CASE w < h
    <3>1. HourTicks * w + HourTicks <= HourTicks * h
      BY <1>1, <1>3, <2>4, MultiplesApart
    <3> QED BY <1>1, <1>3, <2>1, <2>4, <3>1
  <2> QED BY <1>3, <2>2, <2>3, <2>4
<1>6. /\ h < window.end <=> o < Closes
      /\ h < window.start <=> o < Opens
      /\ Opens \in Int /\ Closes \in Int
  BY <1>1, <1>5 DEF Opens, Closes
<1>7. window.start <= h <=> Opens <= o
  BY <1>1, <1>2, <1>3, <1>6 DEF o
<1> QED BY <1>4, <1>6, <1>7 DEF IsOpen, Inside, Weekday, Day, o

\* Days days later it is the same weekday.
LEMMA DaysAgain ==
  ASSUME NEW k \in Int
  PROVE  (k + Days) % Days = k % Days
<1>1. Days \in Nat \ {0}
  BY ClockTypes
<1> DEFINE q == k \div Days
           r == k % Days
<1>2. q \in Int /\ r \in 0..(Days - 1) /\ k = Days * q + r
  BY <1>1, DivisionGives
<1> HIDE DEF q, r
<1>3. k + Days = Days * (q + 1) + r /\ q + 1 \in Int
  <2>1. Days * (q + 1) = Days * q + Days /\ Days * q \in Int
    BY <1>1, <1>2
  <2> QED BY <1>1, <1>2, <2>1
<1>4. (k + Days) % Days = r
  BY <1>1, <1>2, <1>3, DivisionIs
<1> QED BY <1>4 DEF r

\* A week later the window is as it was.
LEMMA EveryWeek ==
  ASSUME window \in Controllers, NEW t \in Int
  PROVE  IsOpen(t + Week) <=> IsOpen(t)
<1>1. /\ Days \in Nat \ {0} /\ Week = Days * DayTicks
  BY ClockTypes
<1>2. /\ t + Week \in Int
      /\ Day(t + Week) = Day(t) + Days /\ TimeOfDay(t + Week) = TimeOfDay(t)
  <2>1. Days \in Int
    BY <1>1
  <2>2. /\ t + Days * DayTicks \in Int
        /\ Day(t + Days * DayTicks) = Day(t) + Days
        /\ TimeOfDay(t + Days * DayTicks) = TimeOfDay(t)
    BY <2>1, DaysLater
  <2> QED BY <1>1, <2>2
<1>3. Day(t) \in Int
  BY InstantSplits
<1>4. (Day(t) + Days) % Days = Day(t) % Days
  BY <1>3, DaysAgain
<1> QED BY <1>2, <1>4, OpenIsInside DEF Inside

\* The clock turns over at the end of the week.
LEMMA NextTick ==
  ASSUME now \in 0..(Week - 1)
  PROVE  /\ (now + 1) % Week \in 0..(Week - 1)
         /\ (now + 1) % Week = now + 1 \/ (now + 1 = Week /\ (now + 1) % Week = 0)
<1>1. Week \in Nat \ {0}
  BY ClockTypes
<1>2. CASE now + 1 < Week
  <2>1. now + 1 \in 0..(Week - 1) /\ Week * 0 + (now + 1) = now + 1
    BY <1>1, <1>2
  <2>2. (Week * 0 + (now + 1)) % Week = now + 1
    BY <1>1, <2>1, DivisionIs
  <2> QED BY <2>1, <2>2
<1>3. CASE now + 1 = Week
  <2>1. 0 \in 0..(Week - 1) /\ Week * 1 + 0 = now + 1
    BY <1>1, <1>3
  <2>2. (Week * 1 + 0) % Week = 0
    BY <1>1, <2>1, DivisionIs
  <2> QED BY <1>3, <2>1, <2>2
<1> QED BY <1>1, <1>2, <1>3

\* What is open at a tick is what is open as far before the next.
LEMMA OpenBefore ==
  ASSUME window \in Controllers, now \in 0..(Week - 1), NEW d \in Int
  PROVE  IsOpen(((now + 1) % Week) + Week - (d + 1)) <=> IsOpen(now + Week - d)
<1>1. Week \in Nat \ {0}
  BY ClockTypes
<1>2. CASE (now + 1) % Week = now + 1
  <2>1. (now + 1) + Week - (d + 1) = now + Week - d
    BY <1>1
  <2> QED BY <1>2, <2>1
<1>3. CASE now + 1 = Week /\ (now + 1) % Week = 0
  <2>1. 0 + Week - (d + 1) + Week = now + Week - d /\ 0 + Week - (d + 1) \in Int
    BY <1>1, <1>3
  <2>2. IsOpen(0 + Week - (d + 1) + Week) <=> IsOpen(0 + Week - (d + 1))
    BY <2>1, EveryWeek
  <2> QED BY <1>3, <2>1, <2>2
<1> QED BY <1>2, <1>3, NextTick

\* The limit of a pop is a second, or the window does not close before it is over.
LEMMA PopIsCut ==
  ASSUME window \in Controllers, timeout \in Timeouts, NEW t \in Int
  PROVE  /\ EffectivePopTimeout(t) \in Nat
         /\ \/ EffectivePopTimeout(t) = 1
            \/ IsOpen(t) /\ Fraction * EffectivePopTimeout(t) <= Midnight(t) + Closes - t
<1>1. timeout \in Nat /\ Fraction \in Nat \ {0}
  BY WindowAssumption, ClockTypes
<1> DEFINE remaining == SecondsUntilClose(t)
           gap == Midnight(t) + Closes - t
<1>2. CASE ~IsOpen(t)
  <2>1. remaining = 0
    BY <1>2 DEF SecondsUntilClose
  <2>2. EffectivePopTimeout(t) = 1
    BY <2>1 DEF EffectivePopTimeout
  <2> QED BY <2>2
<1>3. CASE IsOpen(t)
  <2>1. gap \in Int /\ 0 < gap
    <3>1. Inside(t)
      BY <1>3, OpenIsInside
    <3>2. /\ Closes \in Int /\ TimeOfDay(t) < Closes
          /\ t = Midnight(t) + TimeOfDay(t) /\ Midnight(t) \in Int /\ TimeOfDay(t) \in Int
      BY <3>1, WindowTypes, InstantSplits, ClockTypes DEF Inside
    <3> QED BY <3>2
  <2>2. remaining = gap \div Fraction
    BY <1>3 DEF SecondsUntilClose, Closes
  <2> HIDE DEF gap, remaining
  <2>3. remaining \in Int /\ Fraction * remaining <= gap /\ gap < Fraction * remaining + Fraction
    <3>1. /\ remaining \in Int /\ gap % Fraction \in 0..(Fraction - 1)
          /\ gap = Fraction * remaining + (gap % Fraction)
      BY <1>1, <2>1, <2>2, DivisionGives
    <3> DEFINE r == gap % Fraction
               m == Fraction * remaining
    <3>2. m \in Int /\ r \in 0..(Fraction - 1) /\ gap = m + r
      BY <1>1, <3>1
    <3> HIDE DEF r, m
    <3>3. m <= gap /\ gap < m + Fraction
      BY <1>1, <3>2
    <3> QED BY <3>1, <3>3 DEF m
  <2>4. 0 <= remaining
    <3>1. SUFFICES ASSUME remaining < 0 PROVE FALSE
      BY <2>3
    <3>2. Fraction * remaining + Fraction <= Fraction * 0
      BY <1>1, <2>3, <3>1, MultiplesApart
    <3>3. Fraction * remaining \in Int
      BY <1>1, <2>3
    <3> QED BY <1>1, <2>1, <2>3, <3>2, <3>3
  <2>5. CASE remaining = 0
    <3>1. EffectivePopTimeout(t) = 1
      BY <2>5 DEF EffectivePopTimeout, remaining
    <3> QED BY <3>1
  <2>6. CASE remaining > 0
    <3>1. EffectivePopTimeout(t) \in Nat /\ EffectivePopTimeout(t) <= remaining
      <4>1. CASE timeout = 0
        <5>1. EffectivePopTimeout(t) = remaining
          BY <2>3, <2>6, <4>1 DEF EffectivePopTimeout, remaining
        <5> QED BY <2>3, <2>4, <5>1
      <4>2. CASE timeout > 0
        <5>1. EffectivePopTimeout(t) = IF timeout < remaining THEN timeout ELSE remaining
          BY <2>3, <2>6, <4>2, <1>1 DEF EffectivePopTimeout, remaining
        <5> QED BY <1>1, <2>3, <2>4, <5>1
      <4> QED BY <1>1, <4>1, <4>2
    <3> DEFINE e == EffectivePopTimeout(t)
    <3>2. e \in Nat /\ e <= remaining
      BY <3>1
    <3> HIDE DEF e
    <3>3. Fraction * e <= Fraction * remaining
      <4>1. CASE e = remaining
        BY <1>1, <2>3, <4>1
      <4>2. CASE e < remaining
        <5>1. Fraction * e + Fraction <= Fraction * remaining
          BY <1>1, <2>3, <3>2, <4>2, MultiplesApart
        <5>2. Fraction * e \in Int /\ Fraction * remaining \in Int
          BY <1>1, <2>3, <3>2
        <5> QED BY <1>1, <5>1, <5>2
      <4> QED BY <2>3, <3>2, <4>1, <4>2
    <3>4. Fraction * e \in Int /\ Fraction * remaining \in Int
      BY <1>1, <2>3, <3>2
    <3>5. Fraction * e <= gap
      BY <2>1, <2>3, <3>3, <3>4
    <3> QED BY <1>3, <3>2, <3>5 DEF e, gap
  <2> QED BY <2>3, <2>4, <2>5, <2>6
<1> QED BY <1>2, <1>3

\* The window was open at most n ticks ago.
OpenWithin(n) == \E d \in 0..n : IsOpen(now + Week - d)

\* A stalled consumer saw the window open when it began to stall; a blocked one
\* waits its last second, or no longer than the window stays open.
IntakeInv ==
  /\ at = "pop" => left <= Stall /\ OpenWithin(Stall - left)
  /\ at = "blocked" => \/ left <= Fraction /\ OpenWithin(Stall + Fraction - left)
                       \/ IsOpen(now) /\ left <= Midnight(now) + Closes - now

LEMMA WindowBounds == Stall \in Nat /\ IdleSleep \in Nat /\ Fraction \in Nat \ {0}
BY WindowAssumption

LEMMA OpenNow ==
  ASSUME window \in Controllers, now \in 0..(Week - 1), IsOpen(now), NEW n \in Nat
  PROVE  OpenWithin(n)
<1>1. Week \in Nat \ {0} /\ now \in Int
  BY ClockTypes
<1>2. IsOpen(now + Week)
  BY <1>1, EveryWeek
<1>3. now + Week - 0 = now + Week /\ 0 \in 0..n
  BY <1>1
<1> QED BY <1>2, <1>3 DEF OpenWithin

LEMMA OpenWithinLater ==
  ASSUME window \in Controllers, now \in 0..(Week - 1), NEW n \in Int, OpenWithin(n),
         window' = window, now' = (now + 1) % Week
  PROVE  OpenWithin(n + 1)'
<1>1. PICK d \in 0..n : IsOpen(now + Week - d)
  BY DEF OpenWithin
<1>2. IsOpen(((now + 1) % Week) + Week - (d + 1))
  BY <1>1, OpenBefore
<1>3. d + 1 \in 0..(n + 1)
  OBVIOUS
<1>4. IsOpen(now + Week - (d + 1))'
  BY <1>2 DEF IsOpen, Weekday, Hour, DayTicks, Week
<1> QED BY <1>3, <1>4 DEF OpenWithin

LEMMA IntakeTypes == WindowTypeOK /\ [WindowNext]_windowVars => WindowTypeOK'
<1> SUFFICES ASSUME WindowTypeOK, [WindowNext]_windowVars PROVE WindowTypeOK'
  OBVIOUS
<1>1. CASE Tick
  <2>1. now' \in 0..(Week - 1)
    BY <1>1, NextTick DEF WindowTypeOK, Tick
  <2>2. left' \in Nat
    BY <1>1 DEF WindowTypeOK, Tick
  <2> QED BY <1>1, <2>1, <2>2 DEF WindowTypeOK, Tick, Controllers, Week, DayTicks
<1>2. CASE PopMessage
  <2>1. EffectivePopTimeout(now) \in Nat
    BY PopIsCut, ClockTypes DEF WindowTypeOK
  <2>2. left' \in Nat
    BY <1>2, <2>1, WindowBounds DEF PopMessage
  <2> QED BY <1>2, <2>2 DEF WindowTypeOK, PopMessage, Controllers, Week, DayTicks
<1>3. CASE CheckOpen \/ CheckClosed \/ PriorityMessage \/ MessageArrives \/ NoMessage \/ Again
           \/ UNCHANGED windowVars
  BY <1>3, WindowBounds DEF WindowTypeOK, CheckOpen, CheckClosed, PriorityMessage,
     MessageArrives, NoMessage, Again, windowVars, Controllers, Week, DayTicks
<1> QED BY <1>1, <1>2, <1>3 DEF WindowNext

\* A tick later a pop that the window outlasts is still one, or in its last second.
LEMMA TickWhileOpen ==
  ASSUME WindowTypeOK, Tick, IsOpen(now), left > 0, left <= Midnight(now) + Closes - now
  PROVE  \/ left' <= Fraction /\ OpenWithin(Stall + Fraction - left)'
         \/ IsOpen(now)' /\ left' <= Midnight(now)' + Closes' - now'
<1>1. /\ window \in Controllers /\ window' = window
      /\ now \in 0..(Week - 1) /\ now' = (now + 1) % Week
      /\ left \in Nat /\ left' = left - 1
  BY DEF WindowTypeOK, Tick
<1>2. /\ DayTicks \in Nat \ {0} /\ Week \in Nat \ {0} /\ now \in Int /\ Week = DayTicks * Days
      /\ Days \in Nat \ {0}
  BY <1>1, ClockTypes
<1> DEFINE q == Day(now)
           r == TimeOfDay(now)
<1>3. /\ q \in Int /\ r \in 0..(DayTicks - 1) /\ now = DayTicks * q + r
      /\ Midnight(now) = DayTicks * q /\ DayTicks * q \in Int
  BY <1>2, InstantSplits
<1>4. q % Days \in window.weekdays /\ Opens <= r /\ r < Closes
  BY <1>1, <1>2, OpenIsInside DEF Inside
<1>5. Closes \in 1..DayTicks /\ Opens \in 0..(DayTicks - 1) /\ Closes' = Closes
  BY <1>1, WindowTypes DEF Closes
<1> HIDE DEF q, r
<1>6. CASE r + 1 = Closes
  <2>1. left' = 0
    BY <1>1, <1>3, <1>5, <1>6
  <2>2. OpenWithin(0)
    BY <1>1, OpenNow
  <2>3. OpenWithin(0 + 1)'
    BY <1>1, <2>2, OpenWithinLater
  <2>4. 0..(0 + 1) \subseteq 0..(Stall + Fraction - left')
    BY <2>1, WindowBounds
  <2>5. OpenWithin(Stall + Fraction - left)'
    BY <2>3, <2>4 DEF OpenWithin
  <2> QED BY <2>1, <2>5, WindowBounds
<1>7. CASE r + 1 < Closes
  <2>1. r + 1 \in 0..(DayTicks - 1)
    BY <1>2, <1>3, <1>5, <1>7
  <2>2. now + 1 = DayTicks * q + (r + 1)
    BY <1>2, <1>3
  <2>3. Day(now + 1) = q /\ TimeOfDay(now + 1) = r + 1
    BY <1>3, <2>1, <2>2, InstantOf
  <2>4. now + 1 # Week
    <3>1. TimeOfDay(DayTicks * Days + 0) = 0
      <4>1. Days \in Int /\ 0 \in 0..(DayTicks - 1)
        BY <1>2
      <4> QED BY <4>1, InstantOf
    <3>2. DayTicks * Days + 0 = Week
      BY <1>2
    <3> QED BY <1>3, <2>3, <3>1, <3>2
  <2>5. now' = now + 1
    BY <1>1, <2>4, NextTick
  <2>6. now + 1 \in Int
    BY <1>2
  <2>7. Inside(now + 1)
    BY <1>3, <1>4, <1>5, <1>7, <2>3 DEF Inside
  <2>8. IsOpen(now + 1)
    BY <1>1, <2>6, <2>7, OpenIsInside
  <2>9. IsOpen(now)'
    BY <1>1, <2>5, <2>8 DEF IsOpen, Weekday, Hour, DayTicks
  <2>10. Midnight(now + 1) = DayTicks * q
    BY <2>3, <2>6, InstantSplits
  <2>11. Midnight(now)' = DayTicks * q
    BY <2>5, <2>10 DEF Midnight, DayTicks
  <2>12. left' <= DayTicks * q + Closes - (now + 1)
    BY <1>1, <1>2, <1>3, <1>5
  <2> QED BY <1>5, <2>5, <2>9, <2>11, <2>12
<1> QED BY <1>3, <1>4, <1>5, <1>6, <1>7

LEMMA IntakeStep == WindowTypeOK /\ IntakeInv /\ [WindowNext]_windowVars => IntakeInv'
<1> SUFFICES ASSUME WindowTypeOK, IntakeInv, [WindowNext]_windowVars PROVE IntakeInv'
  OBVIOUS
<1>t. /\ window \in Controllers /\ timeout \in Timeouts /\ left \in Nat
      /\ now \in 0..(Week - 1) /\ now \in Int
  BY ClockTypes DEF WindowTypeOK
<1>1. CASE Tick /\ at = "pop"
  <2>1. left > 0 /\ left' = left - 1 /\ at' = "pop" /\ window' = window /\ now' = (now + 1) % Week
    BY <1>1, <1>t DEF Tick
  <2>2. left <= Stall /\ OpenWithin(Stall - left)
    BY <1>1 DEF IntakeInv
  <2>3. PICK n \in Int : n = Stall - left
    BY <1>t, WindowBounds
  <2>4. OpenWithin(n + 1)'
    BY <1>t, <2>1, <2>2, <2>3, OpenWithinLater
  <2>5. OpenWithin(Stall - left)'
    <3>1. n + 1 = Stall - left'
      BY <1>t, <2>1, <2>3, WindowBounds
    <3> QED BY <2>4, <3>1 DEF OpenWithin
  <2> QED BY <1>t, <2>1, <2>2, <2>5, WindowBounds DEF IntakeInv
<1>2. CASE Tick /\ at = "blocked"
  <2>1. left > 0 /\ left' = left - 1 /\ at' = "blocked" /\ window' = window
        /\ now' = (now + 1) % Week
    BY <1>2, <1>t DEF Tick
  <2>2. CASE left <= Fraction /\ OpenWithin(Stall + Fraction - left)
    <3>1. PICK n \in Int : n = Stall + Fraction - left
      BY <1>t, WindowBounds
    <3>2. OpenWithin(n + 1)'
      BY <1>t, <2>1, <2>2, <3>1, OpenWithinLater
    <3>3. OpenWithin(Stall + Fraction - left)'
      <4>1. n + 1 = Stall + Fraction - left'
        BY <1>t, <2>1, <3>1, WindowBounds
      <4> QED BY <3>2, <4>1 DEF OpenWithin
    <3> QED BY <1>t, <2>1, <2>2, <3>3, WindowBounds DEF IntakeInv
  <2>3. CASE IsOpen(now) /\ left <= Midnight(now) + Closes - now
    <3>1. \/ left' <= Fraction /\ OpenWithin(Stall + Fraction - left)'
          \/ IsOpen(now)' /\ left' <= Midnight(now)' + Closes' - now'
      BY <1>2, <2>1, <2>3, TickWhileOpen
    <3> QED BY <2>1, <3>1 DEF IntakeInv
  <2> QED BY <1>2, <2>2, <2>3 DEF IntakeInv
<1>3. CASE PopMessage
  <2>1. /\ at = "pop" /\ at' = "blocked" /\ left' = Fraction * EffectivePopTimeout(now)
        /\ window' = window /\ now' = now
    BY <1>3 DEF PopMessage
  <2>2. left <= Stall /\ OpenWithin(Stall - left)
    BY <2>1 DEF IntakeInv
  <2>3. CASE EffectivePopTimeout(now) = 1
    <3>1. left' = Fraction
      BY <2>1, <2>3, WindowBounds
    <3>2. 0..(Stall - left) \subseteq 0..(Stall + Fraction - left')
      BY <1>t, <2>2, <3>1, WindowBounds
    <3>3. OpenWithin(Stall + Fraction - left)'
      BY <2>1, <2>2, <3>2 DEF OpenWithin, IsOpen, Weekday, Hour, DayTicks, Week
    <3> QED BY <2>1, <3>1, <3>3, WindowBounds DEF IntakeInv
  <2>4. CASE IsOpen(now) /\ Fraction * EffectivePopTimeout(now) <= Midnight(now) + Closes - now
    <3>1. IsOpen(now)' /\ left' <= Midnight(now)' + Closes' - now'
      BY <2>1, <2>4 DEF IsOpen, Weekday, Hour, Midnight, DayTicks, Closes
    <3> QED BY <2>1, <3>1 DEF IntakeInv
  <2> QED BY <1>t, <2>3, <2>4, PopIsCut
<1>4. CASE CheckOpen
  <2>1. /\ IsOpen(now) /\ at' = "pop" /\ left' = Stall /\ window' = window /\ now' = now
    BY <1>4 DEF CheckOpen
  <2>2. OpenWithin(0)
    BY <1>t, <2>1, OpenNow
  <2>3. 0 = Stall - left' /\ left' <= Stall
    BY <2>1, WindowBounds
  <2>4. OpenWithin(Stall - left)'
    BY <2>1, <2>2, <2>3 DEF OpenWithin, IsOpen, Weekday, Hour, DayTicks, Week
  <2> QED BY <2>1, <2>3, <2>4 DEF IntakeInv
<1>5. CASE (Tick /\ at \notin {"pop", "blocked"}) \/ CheckClosed \/ PriorityMessage
           \/ MessageArrives \/ NoMessage \/ Again
  <2>1. at' # "pop" /\ at' # "blocked"
    BY <1>5 DEF Tick, CheckClosed, PriorityMessage, MessageArrives, NoMessage, Again
  <2> QED BY <2>1 DEF IntakeInv
<1>6. CASE UNCHANGED windowVars
  BY <1>6 DEF windowVars, IntakeInv, OpenWithin, IsOpen, Weekday, Hour, Midnight, DayTicks,
     Closes, Week
<1> QED BY <1>1, <1>2, <1>3, <1>4, <1>5, <1>6 DEF WindowNext

\* Every consumer's intake stays in its types.
THEOREM WindowTypeCorrect == WindowSpec => []WindowTypeOK
<1>1. WindowInit => WindowTypeOK
  BY ClockTypes DEF WindowInit, WindowTypeOK
<1> QED BY <1>1, IntakeTypes, PTL DEF WindowSpec

LEMMA IntakeIsTimely == WindowTypeOK /\ IntakeInv => NeverTakesLate
<1> SUFFICES ASSUME WindowTypeOK, IntakeInv, at \in {"pop", "blocked"}
             PROVE  OpenWithin(Stall + Fraction)
  BY DEF NeverTakesLate, OpenWithin
<1>t. window \in Controllers /\ left \in Nat /\ now \in 0..(Week - 1)
  BY DEF WindowTypeOK
<1>1. CASE at = "pop"
  <2>1. left <= Stall /\ OpenWithin(Stall - left)
    BY <1>1 DEF IntakeInv
  <2>2. 0..(Stall - left) \subseteq 0..(Stall + Fraction)
    BY <1>t, <2>1, WindowBounds
  <2> QED BY <2>1, <2>2 DEF OpenWithin
<1>2. CASE at = "blocked" /\ IsOpen(now)
  <2>1. Stall + Fraction \in Nat
    BY WindowBounds
  <2> QED BY <1>t, <1>2, <2>1, OpenNow
<1>3. CASE at = "blocked" /\ OpenWithin(Stall + Fraction - left)
  <2>1. 0..(Stall + Fraction - left) \subseteq 0..(Stall + Fraction)
    BY <1>t, WindowBounds
  <2> QED BY <1>3, <2>1 DEF OpenWithin
<1> QED BY <1>1, <1>2, <1>3 DEF IntakeInv

\* A day's opening is a probe if its weekday is in the window and it is still ahead.
LEMMA ProbesAre ==
  ASSUME window \in Controllers, NEW t \in Int, NEW d \in 0..Days
  PROVE  /\ d \in Probes(t) <=> /\ (Day(t) + d) % Days \in window.weekdays
                                /\ d = 0 => TimeOfDay(t) < Opens
         /\ DayStart(t + d * DayTicks) = DayTicks * (Day(t) + d) + Opens
         /\ DayTicks * (Day(t) + d) = DayTicks * Day(t) + DayTicks * d
         /\ DayTicks * d \in Nat
<1>1. DayTicks \in Nat \ {0} /\ Days \in Nat \ {0} /\ d \in Nat
  BY ClockTypes
<1>2. /\ Day(t) \in Int /\ TimeOfDay(t) \in 0..(DayTicks - 1)
      /\ t = DayTicks * Day(t) + TimeOfDay(t) /\ DayTicks * Day(t) \in Int
  BY InstantSplits
<1>3. Opens \in 0..(DayTicks - 1)
  BY WindowTypes
<1> DEFINE q == Day(t)
           r == TimeOfDay(t)
           m == DayTicks * Day(t)
           n == DayTicks * d
<1>4. /\ t + d * DayTicks \in Int
      /\ Day(t + d * DayTicks) = q + d /\ q + d \in Int
  <2>1. d \in Int
    BY <1>1
  <2> QED BY <1>2, <2>1, DaysLater
<1>5. Midnight(t + d * DayTicks) = DayTicks * (q + d)
  BY <1>4, InstantSplits
<1>6. DayTicks * (q + d) = m + n /\ n \in Nat
  BY <1>1, <1>2
<1>7. DayStart(t + d * DayTicks) = DayTicks * (q + d) + Opens
  BY <1>5 DEF DayStart, Opens
<1>8. Weekday(t + d * DayTicks) = (q + d) % Days
  BY <1>4 DEF Weekday, Day
<1>9. d # 0 => DayTicks <= n
  <2>1. SUFFICES ASSUME 0 < d PROVE DayTicks * 0 + DayTicks <= n
    BY <1>1
  <2> QED BY <1>1, <2>1, MultiplesApart
<1>10. d = 0 => n = 0
  BY <1>1
<1> HIDE DEF q, r, m, n
<1>11. /\ m \in Int /\ r \in 0..(DayTicks - 1) /\ t = m + r
  BY <1>2 DEF m, r
<1>12. DayTicks * (q + d) + Opens > t <=> (d = 0 => r < Opens)
  <2>1. CASE d = 0
    BY <1>3, <1>6, <1>10, <1>11, <2>1
  <2>2. CASE d # 0
    BY <1>1, <1>3, <1>6, <1>9, <1>11, <2>2
  <2> QED BY <2>1, <2>2
<1>13. d \in Probes(t) <=> /\ (q + d) % Days \in window.weekdays
                           /\ d = 0 => r < Opens
  BY <1>7, <1>8, <1>12 DEF Probes
<1> QED BY <1>6, <1>7, <1>13 DEF q, r, m, n

\* One of the next Days days has a weekday of the window.
LEMMA ProbeExists ==
  ASSUME window \in Controllers, NEW t \in Int
  PROVE  Probes(t) # {}
<1>1. Days \in Nat \ {0} /\ Day(t) \in Int
  BY ClockTypes, InstantSplits
<1>2. PICK w \in window.weekdays : w \in 0..(Days - 1)
  BY WindowTypes
<1> DEFINE q == Day(t)
           p == q \div Days
           m == q % Days
           n == Days * p
<1>3. /\ p \in Int /\ m \in 0..(Days - 1) /\ q = n + m /\ n \in Int
  <2>1. /\ p \in Int /\ m \in 0..(Days - 1) /\ q = Days * p + m
    BY <1>1, DivisionGives
  <2> HIDE DEF p, m, q
  <2> QED BY <1>1, <2>1
<1>4. Days * (p + 1) = n + Days /\ p + 1 \in Int
  <2> HIDE DEF q
  <2>1. p \in Int
    BY <1>3
  <2> HIDE DEF p
  <2> QED BY <1>1, <2>1
<1>5. (n + w) % Days = w
  BY <1>1, <1>2, <1>3, DivisionIs
<1>6. (Days * (p + 1) + w) % Days = w
  BY <1>1, <1>2, <1>4, DivisionIs
<1> HIDE DEF q, p, m, n
<1>7. PICK d \in 1..Days : (q + d) % Days = w
  <2>1. CASE m < w
    <3>1. w - m \in 1..Days /\ q + (w - m) = n + w
      BY <1>1, <1>2, <1>3, <2>1
    <3> QED BY <1>5, <3>1
  <2>2. CASE w <= m
    <3>1. w - m + Days \in 1..Days /\ q + (w - m + Days) = n + Days + w
      BY <1>1, <1>2, <1>3, <2>2
    <3> QED BY <1>4, <1>6, <3>1
  <2> QED BY <1>2, <1>3, <2>1, <2>2
<1>8. d \in 0..Days /\ d # 0
  BY <1>1
<1>9. (Day(t) + d) % Days \in window.weekdays
  BY <1>7, <1>2 DEF q
<1>10. d \in Probes(t)
  BY <1>8, <1>9, ProbesAre
<1> QED BY <1>10

\* What a closed window's nearest opening is.
LEMMA NextOpening ==
  ASSUME window \in Controllers, NEW t \in Int, ~IsOpen(t)
  PROVE  \E n \in 0..Week : /\ NextOpenTime(t) = t + n
                            /\ IsOpen(t + n)
                            /\ \A e \in 0..(n - 1) : ~IsOpen(t + e)
<1>1. /\ DayTicks \in Nat \ {0} /\ Days \in Nat \ {0} /\ Week = DayTicks * Days /\ Week \in Nat
  BY ClockTypes
<1>2. Probes(t) \in SUBSET Nat /\ Probes(t) # {} /\ Probes(t) \subseteq 0..Days
  <2>1. Probes(t) \subseteq 0..Days
    BY DEF Probes
  <2>2. Probes(t) \subseteq Nat
    BY <1>1, <2>1
  <2> QED BY <2>1, <2>2, ProbeExists
<1> DEFINE S == Probes(t)
           First(d) == \A x \in S : d <= x
           k == CHOOSE d \in S : First(d)
<1>3. k \in S /\ First(k)
  <2>1. \E d \in S : First(d)
    BY <1>2, LeastExists
  <2> HIDE DEF S, First
  <2> QED BY <2>1
<1>4. NextOpenTime(t) = DayStart(t + DayTicks * k)
  BY <1>2 DEF NextOpenTime
<1> HIDE DEF k
<1> DEFINE q == Day(t)
           r == TimeOfDay(t)
           m == DayTicks * Day(t)
           l == DayTicks * k
           n == l + Opens - r
<1>5. k \in 0..Days /\ k \in Int
  BY <1>1, <1>2, <1>3
<1>6. /\ q \in Int /\ r \in 0..(DayTicks - 1) /\ t = m + r /\ m \in Int
      /\ Opens \in 0..(DayTicks - 1)
  BY InstantSplits, WindowTypes
<1>7. /\ (q + k) % Days \in window.weekdays /\ (k = 0 => r < Opens)
      /\ DayStart(t + k * DayTicks) = DayTicks * (q + k) + Opens
      /\ DayTicks * (q + k) = m + l /\ l \in Nat
  BY <1>3, <1>5, ProbesAre
<1>8. NextOpenTime(t) = m + l + Opens
  <2>1. DayTicks * k = k * DayTicks
    BY <1>1, <1>5
  <2> QED BY <1>4, <1>7, <2>1
<1>9. k > 0 => DayTicks <= l
  <2>1. SUFFICES ASSUME 0 < k PROVE DayTicks * 0 + DayTicks <= l
    BY <1>1
  <2> QED BY <1>1, <1>5, <2>1, MultiplesApart
<1>10. k = 0 => l = 0
  BY <1>1
<1>11. k < Days => l + DayTicks <= Week
  BY <1>1, <1>5, MultiplesApart
<1>12. k = Days => l = Week /\ Opens <= r
  <2>1. SUFFICES ASSUME k = Days PROVE l = Week /\ Opens <= r
    OBVIOUS
  <2>2. 0 \notin S
    BY <1>1, <1>3, <2>1
  <2>3. (q + 0) % Days \in window.weekdays
    <3>1. (q + Days) % Days = q % Days
      BY <1>6, DaysAgain
    <3> QED BY <1>6, <1>7, <2>1, <3>1
  <2>4. Opens <= r
    <3>1. 0 \in 0..Days
      BY <1>1
    <3>2. ~(TimeOfDay(t) < Opens)
      BY <2>2, <2>3, <3>1, ProbesAre
    <3> QED BY <1>1, <1>6, <3>2
  <2> QED BY <1>1, <2>1, <2>4
<1> HIDE DEF S, q, r, m, l
<1>13. n \in 0..Week
  <2>1. 0 <= n
    <3>1. CASE k = 0
      BY <1>1, <1>6, <1>7, <1>10, <3>1
    <3>2. CASE k > 0
      BY <1>1, <1>6, <1>7, <1>9, <3>2
    <3> QED BY <1>5, <3>1, <3>2
  <2>2. n <= Week
    <3>1. CASE k < Days
      BY <1>1, <1>6, <1>7, <1>11, <3>1
    <3>2. CASE k = Days
      BY <1>1, <1>6, <1>7, <1>12, <3>2
    <3> QED BY <1>1, <1>5, <3>1, <3>2
  <2> QED BY <1>1, <1>6, <1>7, <2>1, <2>2
<1>14. t + n = DayTicks * (q + k) + Opens /\ NextOpenTime(t) = t + n
  BY <1>1, <1>6, <1>7, <1>8
<1>15. IsOpen(t + n)
  <2>1. q + k \in Int
    BY <1>5, <1>6
  <2>2. Day(t + n) = q + k /\ TimeOfDay(t + n) = Opens /\ t + n \in Int
    BY <1>6, <1>14, <2>1, InstantOf
  <2>3. Inside(t + n)
    BY <1>6, <1>7, <2>2, WindowTypes DEF Inside
  <2> QED BY <2>2, <2>3, OpenIsInside
<1>16. ASSUME NEW e \in 0..(n - 1), IsOpen(t + e) PROVE FALSE
  <2> DEFINE u == t + e
             p == Day(u)
             s == TimeOfDay(u)
             j == p - q
  <2>1. u \in Int /\ t <= u /\ u < t + n
    BY <1>6, <1>13
  <2>2. p % Days \in window.weekdays /\ Opens <= s /\ s < Closes
    BY <1>16, <2>1, OpenIsInside DEF Inside
  <2>3. p \in Int /\ s \in 0..(DayTicks - 1) /\ u = DayTicks * p + s /\ DayTicks * p \in Int
    BY <2>1, InstantSplits
  <2> HIDE DEF u, p, s
  <2>4. m = DayTicks * q
    BY DEF m, q
  <2>5. ~(p < q)
    <3>1. SUFFICES ASSUME p < q PROVE FALSE
      OBVIOUS
    <3>2. DayTicks * p + DayTicks <= m
      BY <1>1, <1>6, <2>3, <2>4, <3>1, MultiplesApart
    <3> QED BY <1>1, <1>6, <2>1, <2>3, <3>2
  <2>6. p < q + k
    <3>1. SUFFICES ASSUME q + k <= p PROVE FALSE
      BY <1>5, <1>6, <2>3
    <3>2. DayTicks * (q + k) <= DayTicks * p
      <4>1. CASE p = q + k
        BY <2>3, <4>1
      <4>2. CASE q + k < p
        <5>1. q + k \in Int
          BY <1>5, <1>6
        <5>2. DayTicks * (q + k) + DayTicks <= DayTicks * p
          BY <1>1, <2>3, <4>2, <5>1, MultiplesApart
        <5> QED BY <1>1, <1>6, <1>7, <2>3, <5>2
      <4> QED BY <1>5, <1>6, <2>3, <3>1, <4>1, <4>2
    <3> QED BY <1>1, <1>6, <1>7, <1>14, <2>1, <2>2, <2>3, <3>2
  <2>7. j \in 0..Days /\ q + j = p /\ j < k
    BY <1>1, <1>5, <1>6, <2>3, <2>5, <2>6
  <2> HIDE DEF j
  <2>8. j \notin Probes(t)
    BY <1>1, <1>3, <1>5, <2>7 DEF S
  <2>9. j = 0 /\ Opens <= r
    <3>1. ~((Day(t) + j) % Days \in window.weekdays /\ (j = 0 => TimeOfDay(t) < Opens))
      BY <2>7, <2>8, ProbesAre
    <3>2. j = 0 /\ ~(r < Opens)
      BY <2>2, <2>7, <3>1 DEF q, r
    <3> QED BY <1>6, <3>2
  <2>10. p = q /\ r <= s
    BY <1>6, <2>1, <2>3, <2>4, <2>7, <2>9
  <2>11. Closes \in Int /\ r < Closes
    BY <1>1, <1>6, <2>2, <2>3, <2>10, WindowTypes
  <2>12. Inside(t)
    BY <2>2, <2>9, <2>10, <2>11 DEF Inside, q, r
  <2> QED BY <2>12, OpenIsInside
<1> QED BY <1>13, <1>14, <1>15, <1>16

LEMMA NearestOpening == WindowTypeOK => OpeningIsNearest
<1> SUFFICES ASSUME WindowTypeOK PROVE OpeningIsNearest
  OBVIOUS
<1>t. /\ window \in Controllers /\ now \in Int /\ Week \in Nat /\ Fraction \in Nat \ {0}
  BY ClockTypes DEF WindowTypeOK
<1> DEFINE Nearest(d) == IsOpen(now + d) /\ \A e \in 0..(d - 1) : ~IsOpen(now + e)
           nearest == CHOOSE d \in 0..Week : Nearest(d)
<1>1. SUFFICES SecondsUntilOpen(now) = nearest \div Fraction
  BY DEF OpeningIsNearest
<1>2. ASSUME NEW n \in 0..Week, Nearest(n) PROVE nearest = n
  <2>1. nearest \in 0..Week /\ Nearest(nearest)
    <3> HIDE DEF Nearest
    <3> QED BY <1>2
  <2> HIDE DEF nearest
  <2>2. ~(n < nearest)
    <3>1. SUFFICES ASSUME n < nearest PROVE FALSE
      OBVIOUS
    <3>2. n \in 0..(nearest - 1)
      BY <1>t, <2>1, <3>1
    <3> QED BY <1>2, <2>1, <3>2
  <2>3. ~(nearest < n)
    <3>1. SUFFICES ASSUME nearest < n PROVE FALSE
      OBVIOUS
    <3>2. nearest \in 0..(n - 1)
      BY <1>t, <2>1, <3>1
    <3> QED BY <1>2, <2>1, <3>2
  <2> QED BY <1>t, <2>1, <2>2, <2>3
<1>3. CASE IsOpen(now)
  <2>1. Nearest(0) /\ 0 \in 0..Week
    BY <1>t, <1>3
  <2>2. nearest = 0
    <3> HIDE DEF Nearest, nearest
    <3> QED BY <1>2, <2>1
  <2>3. SecondsUntilOpen(now) = 0
    BY <1>3 DEF SecondsUntilOpen
  <2>4. 0 \div Fraction = 0
    <3>1. Fraction * 0 + 0 = 0 /\ 0 \in 0..(Fraction - 1)
      BY <1>t
    <3>2. (Fraction * 0 + 0) \div Fraction = 0
      BY <1>t, <3>1, DivisionIs
    <3> QED BY <3>1, <3>2
  <2> HIDE DEF nearest
  <2> QED BY <2>2, <2>3, <2>4
<1>4. CASE ~IsOpen(now)
  <2>1. PICK n \in 0..Week : NextOpenTime(now) = now + n /\ Nearest(n)
    BY <1>t, <1>4, NextOpening
  <2>2. nearest = n
    <3> HIDE DEF Nearest, nearest
    <3> QED BY <1>2, <2>1
  <2>3. SecondsUntilOpen(now) = n \div Fraction
    <3>1. SecondsUntilOpen(now) = (NextOpenTime(now) - now) \div Fraction
      BY <1>4, Zenon DEF SecondsUntilOpen
    <3>2. NextOpenTime(now) - now = n
      BY <1>t, <2>1
    <3> QED BY <3>1, <3>2, Zenon
  <2> HIDE DEF nearest
  <2> QED BY <2>2, <2>3
<1> QED BY <1>3, <1>4

\* For every controller, weekday set, time limit and length of day and week, a
\* consumer is told the nearest opening (seconds_until_open), and one that can still
\* take a message is at most a second past the close, beyond its own stall between
\* the check of the window and the pop (get_effective_pop_timeout).
THEOREM WindowKept == WindowSpec => []WindowIsKept
<1>1. WindowInit => WindowTypeOK /\ IntakeInv
  <2>1. WindowInit => WindowTypeOK
    BY ClockTypes DEF WindowInit, WindowTypeOK
  <2>2. WindowInit => IntakeInv
    BY DEF WindowInit, IntakeInv
  <2> QED BY <2>1, <2>2
<1>2. WindowTypeOK /\ IntakeInv /\ [WindowNext]_windowVars => (WindowTypeOK /\ IntakeInv)'
  BY IntakeTypes, IntakeStep
<1>3. WindowTypeOK /\ IntakeInv => WindowIsKept
  BY NearestOpening, IntakeIsTimely DEF WindowIsKept
<1> QED BY <1>1, <1>2, <1>3, PTL DEF WindowSpec

-----------------------------------------------------------------------------
(* The cycles of a dispatcher.                                             *)

\* Rows are numbered in query order.
LEMMA RowsAreNumbers == Rows = 1..Len(Table) /\ Len(Table) \in Nat
BY CycleAssumption DEF CycleAssumption, Rows

\* Rows share a unit just if they repeat each other.
LEMMA UnitsAreShared ==
  ASSUME NEW q \in Rows, NEW r \in Rows
  PROVE  /\ Repeats(q, r) <=> Repeats(r, q)
         /\ Repeats(q, r) => UnitsOf(q) = UnitsOf(r) /\ Table[q].bad = Table[r].bad
         /\ \A u \in UnitsOf(q) \cap UnitsOf(r) : Repeats(q, r)
<1>1. Repeats(q, r) => UnitsOf(q) = UnitsOf(r)
  BY DEF Repeats, UnitsOf, Unit
<1>2. \A u \in UnitsOf(q) : u.task = Table[q].task /\ u.question = Table[q].question
  BY DEF UnitsOf, Unit
<1>3. \A u \in UnitsOf(r) : u.task = Table[r].task /\ u.question = Table[r].question
  BY DEF UnitsOf, Unit
<1> QED BY <1>1, <1>2, <1>3, CycleAssumption DEF Repeats, CycleAssumption

\* The rounds of a row are those of its task.
LEMMA RoundsOfRow ==
  ASSUME NEW r \in Rows
  PROVE  /\ RoundCount(Table[r].task) \in Nat \ {0}
         /\ \A n \in 1..RoundCount(Table[r].task) : Unit(r, n) \in UnitsOf(r)
         /\ \A u \in UnitsOf(r) : /\ u.round \in 1..RoundCount(Table[r].task)
                                  /\ u = Unit(r, u.round)
         /\ UnitsOf(r) \subseteq RowUnits
<1>1. Table[r].task \in RowTasks
  BY DEF RowTasks
<1>2. RoundCount(Table[r].task) \in Nat \ {0}
  BY <1>1, CycleAssumption DEF CycleAssumption, RoundCount
<1> QED BY <1>2 DEF UnitsOf, Unit, RowUnits

-----------------------------------------------------------------------------
\* Where the dispatcher is.
CyclePlace ==
  /\ entered \in 0..Len(Table)
  /\ started \subseteq RowTasks
  /\ todo \subseteq offered
  /\ offered \subseteq 1..entered
  /\ dropped \subseteq offered
  /\ round \in Nat \ {0}
  /\ errors \in 0..MaxErrors
  /\ doing \in {"idle", "next", "create", "push", "mark"}
  /\ doing \in {"idle", "next"} => round = 1
  /\ doing = "idle" => todo = {}
  /\ doing \in {"create", "push", "mark"} =>
       todo # {} /\ ~Table[Current].bad /\ round <= RoundCount(Table[Current].task)

\* The units that the cycle has still to come to.
Ahead(u) ==
  \E q \in todo : /\ u \in UnitsOf(q)
                  /\ q = Current => IF doing = "mark" THEN u.round > round ELSE u.round >= round

Dropped(u) == \E q \in dropped : u \in UnitsOf(q)

\* A unit that has a row and was not published is being pushed, or was dropped.
CycleUnits ==
  /\ created \subseteq RowUnits
  /\ published \in [RowUnits -> 0..1]
  /\ \A u \in created : \E q \in 1..entered : u \in UnitsOf(q)
  /\ \A u \in RowUnits : published[u] # 0 => u \in created
  /\ doing = "push" => CurrentUnit \in created /\ published[CurrentUnit] = 0
  /\ doing = "mark" => published[CurrentUnit] # 0
  /\ \A u \in created : published[u] = 0 => (doing = "push" /\ u = CurrentUnit) \/ Dropped(u)

\* What was offered and not published is ahead, or was dropped.
CycleLeft ==
  \A r \in offered : \A u \in UnitsOf(r) : published[u] = 0 => Ahead(u) \/ Dropped(u)

\* Before what is behind a bad row comes a bad row.
CycleStuck ==
  \A b \in Rows : Table[b].bad /\ Pending(b) /\ (\E r \in todo : r > b) =>
    \E q \in todo : q <= b /\ Table[q].bad

CycleInv == CyclePlace /\ CycleUnits /\ CycleLeft /\ CycleStuck /\ StuckBehindBadRow

\* The row that is dispatched is the first of the cycle.
LEMMA CurrentRow ==
  ASSUME CyclePlace, todo # {}
  PROVE  /\ Current \in todo /\ \A q \in todo : Current <= q
         /\ todo \subseteq Rows /\ Current \in 1..entered /\ entered <= Len(Table)
<1>1. todo \subseteq Rows /\ todo \subseteq 1..entered /\ todo \in SUBSET Nat
      /\ entered <= Len(Table)
  BY RowsAreNumbers DEF CyclePlace
<1>2. \E r \in todo : \A q \in todo : r <= q
  BY <1>1, LeastExists
<1> QED BY <1>1, <1>2 DEF Current

\* Its unit is one of its own.
LEMMA CurrentUnitOfRow ==
  ASSUME CyclePlace, doing \in {"create", "push", "mark"}
  PROVE  /\ CurrentUnit \in UnitsOf(Current) /\ CurrentUnit \in RowUnits
         /\ CurrentUnit.round = round
         /\ \A u \in UnitsOf(Current) : u.round = round => u = CurrentUnit
<1>1. Current \in Rows /\ round \in 1..RoundCount(Table[Current].task)
  BY CurrentRow, RoundsOfRow DEF CyclePlace
<1> QED BY <1>1, RoundsOfRow DEF CurrentUnit, Unit

\* When a unit is done with, the others are still ahead, and the dispatcher is at the
\* next round or the next row.
LEMMA UnitDoneStep ==
  ASSUME CyclePlace, doing \in {"create", "mark"}, UnitDone,
         UNCHANGED <<entered, errors, offered, dropped>>, started' \subseteq RowTasks
  PROVE  /\ CyclePlace'
         /\ doing' \in {"create", "next"}
         /\ todo' \subseteq todo /\ \A q \in todo : Table[q].bad => q \in todo'
         /\ \A u \in RowUnits : u # CurrentUnit /\ Ahead(u) => Ahead(u)'
<1> DEFINE c == Current
<1>1. /\ c \in todo /\ \A q \in todo : c <= q
      /\ todo \subseteq Rows /\ c \in Rows /\ ~Table[c].bad
  BY CurrentRow DEF CyclePlace
<1>2. RoundCount(Table[c].task) \in Nat \ {0}
  BY <1>1, RoundsOfRow
<1>3. \A u \in UnitsOf(c) : /\ u.round \in 1..RoundCount(Table[c].task)
                            /\ u.round = round => u = CurrentUnit
  BY <1>1, RoundsOfRow, CurrentUnitOfRow
<1>4. CASE round < RoundCount(Table[c].task)
  <2>1. round' = round + 1 /\ doing' = "create" /\ todo' = todo
    BY <1>4 DEF UnitDone
  <2>2. Current' = c
    BY <2>1 DEF Current
  <2>3. CyclePlace'
    BY <1>1, <1>2, <1>4, <2>1, <2>2 DEF CyclePlace
  <2>4. ASSUME NEW u \in RowUnits, u # CurrentUnit, Ahead(u) PROVE Ahead(u)'
    <3>1. PICK q \in todo : u \in UnitsOf(q) /\ (q = c => u.round >= round)
      BY <1>3, <2>4, <1>2 DEF Ahead, CyclePlace
    <3>2. q = c => u.round >= round + 1
      BY <1>3, <2>4, <3>1 DEF CyclePlace
    <3> QED BY <2>1, <2>2, <3>1, <3>2 DEF Ahead
  <2> QED BY <2>1, <2>3, <2>4
<1>5. CASE ~(round < RoundCount(Table[c].task))
  <2>1. round' = 1 /\ doing' = "next" /\ todo' = todo \ {c}
    BY <1>5 DEF UnitDone
  <2>2. CyclePlace'
    <3>1. todo' \subseteq offered'
      BY <2>1 DEF CyclePlace
    <3> QED BY <2>1, <3>1 DEF CyclePlace
  <2>3. ASSUME NEW u \in RowUnits, u # CurrentUnit, Ahead(u) PROVE Ahead(u)'
    <3>1. PICK q \in todo : u \in UnitsOf(q) /\ (q = c => u.round >= round)
      BY <1>3, <2>3, <1>2 DEF Ahead, CyclePlace
    <3>2. q # c
      BY <1>2, <1>3, <1>5, <2>3, <3>1 DEF CyclePlace
    <3>3. u.round >= 1
      BY <1>1, <3>1, RoundsOfRow
    <3> QED BY <2>1, <3>1, <3>2, <3>3 DEF Ahead
  <2> QED BY <1>1, <2>1, <2>2, <2>3
<1> QED BY <1>4, <1>5

\* A row is entered at the end.
LEMMA EnterRowStep ==
  ASSUME CycleInv, EnterRow
  PROVE  CycleInv'
<1> USE DEF CycleInv
<1>1. /\ entered \in Nat /\ entered' = entered + 1 /\ entered' \in 0..Len(Table)
      /\ UNCHANGED <<started, created, published, todo, round, doing, errors, offered, dropped>>
  BY RowsAreNumbers DEF EnterRow, CyclePlace
<1>2. CyclePlace'
  BY <1>1 DEF CyclePlace, Current
<1>3. CycleUnits' /\ CycleLeft'
  <2>1. UNCHANGED <<Current, CurrentUnit>>
    BY <1>1 DEF Current, CurrentUnit
  <2>2. CycleLeft'
    BY <1>1, <2>1 DEF CycleLeft, Ahead, Dropped
  <2>3. CycleUnits'
    BY <1>1, <2>1 DEF CycleUnits, Dropped
  <2> QED BY <2>2, <2>3
<1>4. ASSUME NEW b \in Rows, Pending(b)'
      PROVE  Pending(b) \/ b = entered + 1
  BY <1>1, <1>4, RowsAreNumbers DEF Pending
<1>5. CycleStuck'
  BY <1>1, <1>4, RowsAreNumbers DEF CycleStuck, CyclePlace
<1>6. StuckBehindBadRow'
  <2>1. ASSUME NEW r \in Rows, r > entered + 1, UnitsOf(r) \cap created # {}
        PROVE  \E q \in 1..entered : Repeats(q, r)
    <3>1. PICK u \in created : u \in UnitsOf(r)
      BY <2>1
    <3>2. PICK q \in 1..entered : u \in UnitsOf(q)
      BY <3>1 DEF CycleUnits
    <3>3. q \in Rows
      BY <1>1, RowsAreNumbers
    <3> QED BY <3>1, <3>2, <3>3, UnitsAreShared
  <2>2. ASSUME NEW b \in Rows, Table[b].bad, Pending(b)', NEW r \in Rows, r > b
        PROVE  UnitsOf(r) \cap created = {} \/ \E q \in 1..(b - 1) : Repeats(q, r)
    <3>1. CASE Pending(b)
      BY <2>2, <3>1 DEF StuckBehindBadRow
    <3>2. CASE b = entered + 1
      <4>1. 1..(b - 1) = 1..entered
        BY <1>1, <3>2
      <4> QED BY <2>1, <2>2, <3>2, <4>1
    <3> QED BY <1>4, <2>2, <3>1, <3>2
  <2> QED BY <1>1, <2>2 DEF StuckBehindBadRow
<1> QED BY <1>2, <1>3, <1>5, <1>6

\* The query: what is limited is offered, and a repetition of each is fetched.
LEMMA FetchedForLimited ==
  ASSUME CycleInv
  PROVE  /\ LimitedRows \subseteq 1..entered /\ LimitedRows \subseteq Rows
         /\ FetchedRows \subseteq LimitedRows
         /\ \A r \in LimitedRows : \E q \in FetchedRows : q <= r /\ Repeats(q, r)
         /\ \A r \in LimitedRows, b \in Rows : b < r /\ Pending(b) => b \in LimitedRows
<1>1. entered \in Nat /\ entered <= Len(Table)
  BY RowsAreNumbers DEF CycleInv, CyclePlace
<1>2. LimitedRows \subseteq 1..entered /\ LimitedRows \subseteq Rows
  BY <1>1, RowsAreNumbers DEF LimitedRows, Pending
<1>3. ASSUME NEW r \in LimitedRows
      PROVE  \E q \in FetchedRows : q <= r /\ Repeats(q, r)
  <2> DEFINE S == {q \in LimitedRows : Repeats(q, r)}
  <2>1. r \in S /\ S \in SUBSET Nat
    <3>1. \A q \in S : q \in Nat
      BY <1>1, <1>2
    <3> QED BY <3>1 DEF Repeats
  <2>2. PICK q \in S : \A p \in S : q <= p
    BY <2>1, LeastExists
  <2>3. \A p \in LimitedRows : Repeats(p, q) => p \in S
    BY <2>2 DEF Repeats
  <2>4. \A p \in LimitedRows : p < q => ~Repeats(p, q)
    BY <1>2, <2>2, <2>3
  <2> QED BY <2>1, <2>2, <2>4 DEF FetchedRows, SameKey
<1>4. ASSUME NEW r \in LimitedRows, NEW b \in Rows, b < r, Pending(b)
      PROVE  b \in LimitedRows
  <2> DEFINE Over(n) == {q \in 1..(n - 1) : Pending(q)}
  <2>1. b \in Nat /\ r \in Nat
    BY RowsAreNumbers DEF LimitedRows
  <2>2. Over(b) \subseteq Over(r) /\ Over(r) \subseteq 1..(r - 1)
    BY <1>4, <2>1
  <2>3. IsFiniteSet(1..(r - 1))
    BY <2>1, FS_Interval
  <2>4. IsFiniteSet(Over(r))
    BY <2>2, <2>3, FS_Subset
  <2>5. IsFiniteSet(Over(b)) /\ Cardinality(Over(b)) <= Cardinality(Over(r))
    BY <2>2, <2>4, FS_Subset
  <2>6. Cardinality(Over(b)) \in Nat /\ Cardinality(Over(r)) \in Nat
    BY <2>4, <2>5, FS_CardinalityType
  <2>7. Cardinality(Over(r)) < Limit /\ Limit \in Nat
    BY CycleAssumption DEF LimitedRows, CycleAssumption
  <2>8. Cardinality(Over(b)) < Limit
    BY <2>5, <2>6, <2>7
  <2> QED BY <1>4, <2>8 DEF LimitedRows
<1> QED BY <1>2, <1>3, <1>4 DEF FetchedRows

LEMMA FetchStep ==
  ASSUME CycleInv, FetchPendingTasks
  PROVE  CycleInv'
<1> USE DEF CycleInv
<1>1. /\ doing = "idle" /\ todo' = FetchedRows /\ offered' = offered \cup LimitedRows
      /\ doing' = "next" /\ round = 1 /\ todo = {}
      /\ UNCHANGED <<entered, started, created, published, round, errors, dropped>>
  BY DEF FetchPendingTasks, CyclePlace
<1>2. CyclePlace'
  <2>1. todo' \subseteq offered' /\ offered' \subseteq 1..entered /\ dropped \subseteq offered'
    BY <1>1, FetchedForLimited DEF CyclePlace
  <2> QED BY <1>1, <2>1 DEF CyclePlace
<1>3. CycleUnits'
  BY <1>1 DEF CycleUnits, Dropped
<1>4. CycleLeft'
  <2>1. ASSUME NEW r \in offered, NEW u \in UnitsOf(r), published[u] = 0
        PROVE  Dropped(u)'
    <3>1. ~Ahead(u)
      BY <1>1 DEF Ahead
    <3> QED BY <1>1, <2>1, <3>1 DEF CycleLeft, Dropped
  <2>2. ASSUME NEW r \in LimitedRows, NEW u \in UnitsOf(r)
        PROVE  Ahead(u)'
    <3>1. PICK q \in FetchedRows : Repeats(q, r)
      BY FetchedForLimited
    <3>2. r \in Rows /\ q \in Rows
      BY FetchedForLimited
    <3>3. u \in UnitsOf(q) /\ u.round >= 1
      BY <3>1, <3>2, UnitsAreShared, RoundsOfRow
    <3> QED BY <1>1, <3>3 DEF Ahead
  <2> QED BY <1>1, <2>1, <2>2 DEF CycleLeft
<1>5. CycleStuck'
  <2>1. ASSUME NEW b \in Rows, Table[b].bad, Pending(b), NEW r \in FetchedRows, r > b
        PROVE  \E q \in FetchedRows : q <= b /\ Table[q].bad
    <3>1. r \in LimitedRows /\ r \in Nat /\ b \in Nat
      BY FetchedForLimited, RowsAreNumbers
    <3>2. b \in LimitedRows
      BY <2>1, <3>1, FetchedForLimited
    <3>3. PICK q \in FetchedRows : q <= b /\ Repeats(q, b)
      BY <3>2, FetchedForLimited
    <3>4. q \in Rows
      BY FetchedForLimited
    <3> QED BY <2>1, <3>3, <3>4, UnitsAreShared
  <2>2. \A b \in Rows : Pending(b)' => Pending(b)
    BY <1>1 DEF Pending
  <2> QED BY <1>1, <2>1, <2>2 DEF CycleStuck
<1>6. StuckBehindBadRow'
  BY <1>1 DEF StuckBehindBadRow, Pending
<1> QED BY <1>2, <1>3, <1>4, <1>5, <1>6

\* A cycle that raises drops what it has not dispatched.
LEMMA RaiseStep ==
  ASSUME CycleInv, Raise, errors' \in 0..MaxErrors, doing # "idle",
         UNCHANGED <<entered, started, created, published, offered>>
  PROVE  CycleInv'
<1> USE DEF CycleInv
<1>1. doing' = "idle" /\ todo' = {} /\ round' = 1 /\ dropped' = dropped \cup todo
  BY DEF Raise
<1>2. CyclePlace'
  BY <1>1 DEF CyclePlace
<1>3. CycleUnits'
  <2>1. ASSUME NEW u \in created, published[u] = 0 PROVE Dropped(u)'
    <3>1. CASE doing = "push" /\ u = CurrentUnit
      <4>1. Current \in todo /\ u \in UnitsOf(Current)
        BY <3>1, CurrentRow, CurrentUnitOfRow DEF CyclePlace
      <4> QED BY <1>1, <4>1 DEF Dropped
    <3>2. CASE Dropped(u)
      BY <1>1, <3>2 DEF Dropped
    <3> QED BY <2>1, <3>1, <3>2 DEF CycleUnits
  <2> QED BY <1>1, <2>1 DEF CycleUnits
<1>4. CycleLeft'
  <2>1. ASSUME NEW r \in offered, NEW u \in UnitsOf(r), published[u] = 0 PROVE Dropped(u)'
    BY <1>1, <2>1 DEF CycleLeft, Ahead, Dropped
  <2> QED BY <2>1 DEF CycleLeft
<1>5. CycleStuck' /\ StuckBehindBadRow'
  BY <1>1 DEF CycleStuck, StuckBehindBadRow, Pending
<1> QED BY <1>2, <1>3, <1>4, <1>5

\* A row is taken, or there is none.
LEMMA NextRowStep ==
  ASSUME CycleInv, ExpandTask \/ CycleEnds
  PROVE  CycleInv'
<1> USE DEF CycleInv
<1>1. /\ doing = "next" /\ doing' \in {"create", "idle"}
      /\ doing' = "create" => todo # {} /\ ~Table[Current].bad
      /\ doing' = "idle" => todo = {}
      /\ UNCHANGED <<entered, started, created, published, todo, round, errors, offered, dropped>>
      /\ round = 1
  BY DEF ExpandTask, CycleEnds, CyclePlace
<1>2. UNCHANGED <<Current, CurrentUnit>>
  BY <1>1 DEF Current, CurrentUnit
<1>3. CyclePlace'
  <2>1. todo # {} => 1 <= RoundCount(Table[Current].task)
    BY CurrentRow, RoundsOfRow
  <2> QED BY <1>1, <1>2, <2>1 DEF CyclePlace
<1>4. CycleUnits'
  BY <1>1 DEF CycleUnits, Dropped
<1>5. CycleLeft'
  BY <1>1, <1>2 DEF CycleLeft, Ahead, Dropped
<1>6. CycleStuck' /\ StuckBehindBadRow'
  BY <1>1 DEF CycleStuck, StuckBehindBadRow, Pending
<1> QED BY <1>3, <1>4, <1>5, <1>6

\* What becomes of the invariant when the unit is done with.
LEMMA UnitDoneKeeps ==
  ASSUME CycleInv, doing \in {"create", "mark"}, UnitDone,
         UNCHANGED <<entered, published, errors, offered, dropped>>,
         started \subseteq started', started' \subseteq RowTasks, created' = created,
         published[CurrentUnit] # 0 \/ Dropped(CurrentUnit)
  PROVE  CycleInv'
<1> USE DEF CycleInv
<1>1. /\ CyclePlace'
      /\ doing' \in {"create", "next"}
      /\ todo' \subseteq todo /\ \A q \in todo : Table[q].bad => q \in todo'
      /\ \A u \in RowUnits : u # CurrentUnit /\ Ahead(u) => Ahead(u)'
  BY UnitDoneStep
<1>2. CycleUnits'
  BY <1>1 DEF CycleUnits, Dropped
<1>3. CycleLeft'
  <2>1. ASSUME NEW r \in offered, NEW u \in UnitsOf(r), published[u] = 0
        PROVE  Ahead(u)' \/ Dropped(u)
    <3>1. u \in RowUnits
      BY RowsAreNumbers, RoundsOfRow DEF CyclePlace
    <3> QED BY <1>1, <2>1, <3>1 DEF CycleLeft
  <2> QED BY <2>1 DEF CycleLeft, Dropped
<1>4. \A b \in Rows : Pending(b)' => Pending(b)
  BY DEF Pending
<1>5. CycleStuck'
  BY <1>1, <1>4 DEF CycleStuck
<1>6. StuckBehindBadRow'
  BY <1>4 DEF StuckBehindBadRow
<1> QED BY <1>1, <1>2, <1>3, <1>5, <1>6

\* A unit gets its row and is pushed next, or had one and is skipped.
LEMMA CreateStep ==
  ASSUME CycleInv, CreateOrGet
  PROVE  CycleInv'
<1> USE DEF CycleInv
<1>1. doing = "create" /\ UNCHANGED <<entered, started, published, errors, offered, dropped>>
  BY DEF CreateOrGet
<1>2. /\ Current \in todo /\ Current \in 1..entered /\ Current \in Rows
      /\ CurrentUnit \in UnitsOf(Current) /\ CurrentUnit \in RowUnits
  BY <1>1, CurrentRow, CurrentUnitOfRow DEF CyclePlace
<1>3. CASE CurrentUnit \in created
  <2>1. created' = created /\ UnitDone
    BY <1>3 DEF CreateOrGet
  <2>2. published[CurrentUnit] # 0 \/ Dropped(CurrentUnit)
    BY <1>1, <1>3 DEF CycleUnits
  <2> QED BY <1>1, <2>1, <2>2, UnitDoneKeeps DEF CyclePlace
<1>4. CASE CurrentUnit \notin created
  <2>1. created' = created \cup {CurrentUnit} /\ doing' = "push" /\ UNCHANGED <<round, todo>>
    BY <1>4 DEF CreateOrGet
  <2>2. UNCHANGED <<Current, CurrentUnit>>
    BY <2>1 DEF Current, CurrentUnit
  <2>3. CyclePlace'
    BY <1>1, <2>1, <2>2 DEF CyclePlace
  <2>4. CycleUnits'
    <3>1. published[CurrentUnit] = 0
      BY <1>2, <1>4 DEF CycleUnits
    <3> QED BY <1>1, <1>2, <2>1, <2>2, <3>1 DEF CycleUnits, Dropped
  <2>5. CycleLeft'
    BY <1>1, <2>1, <2>2 DEF CycleLeft, Ahead, Dropped
  <2>6. CycleStuck'
    BY <1>1, <2>1 DEF CycleStuck, Pending
  <2>7. StuckBehindBadRow'
    <3>1. ASSUME NEW b \in Rows, Table[b].bad, Pending(b), NEW r \in Rows, r > b,
                 CurrentUnit \in UnitsOf(r)
          PROVE  \E q \in 1..(b - 1) : Repeats(q, r)
      <4>1. Repeats(Current, r) /\ ~Table[Current].bad
        BY <1>1, <1>2, <3>1, UnitsAreShared DEF CyclePlace
      <4>2. Current < b
        <5>1. \A q \in todo : Current <= q
          BY <1>2, CurrentRow
        <5>2. Current \in Nat /\ b \in Nat /\ todo \subseteq Nat
          BY RowsAreNumbers, CurrentRow, <1>2
        <5>3. Current # b
          BY <3>1, <4>1
        <5>4. ~(Current > b)
          BY <1>2, <3>1, <4>1, <5>1, <5>2 DEF CycleStuck
        <5> QED BY <5>2, <5>3, <5>4
      <4>3. Current \in 1..(b - 1)
        BY <1>2, <4>2, RowsAreNumbers
      <4> QED BY <4>1, <4>3
    <3>2. \A r \in Rows : UnitsOf(r) \cap created' # {} =>
            UnitsOf(r) \cap created # {} \/ CurrentUnit \in UnitsOf(r)
      BY <2>1
    <3> QED BY <1>1, <3>1, <3>2 DEF StuckBehindBadRow, Pending
  <2> QED BY <2>3, <2>4, <2>5, <2>6, <2>7
<1> QED BY <1>3, <1>4

\* It is pushed.
LEMMA PublishStep ==
  ASSUME CycleInv, PublishTask
  PROVE  CycleInv'
<1> USE DEF CycleInv
<1>1. /\ doing = "push" /\ doing' = "mark"
      /\ published' = [published EXCEPT ![CurrentUnit] = published[CurrentUnit] + 1]
      /\ UNCHANGED <<entered, started, created, todo, round, errors, offered, dropped>>
  BY DEF PublishTask
<1>2. UNCHANGED <<Current, CurrentUnit>>
  BY <1>1 DEF Current, CurrentUnit
<1>3. /\ CurrentUnit \in RowUnits /\ CurrentUnit \in created /\ published[CurrentUnit] = 0
      /\ \A u \in UnitsOf(Current) : u.round = round => u = CurrentUnit
      /\ Current \in Rows
  BY <1>1, CurrentRow, CurrentUnitOfRow DEF CycleUnits, CyclePlace
<1>4. /\ published' \in [RowUnits -> 0..1] /\ published'[CurrentUnit] = 1
      /\ \A u \in RowUnits : u # CurrentUnit => published'[u] = published[u]
  BY <1>1, <1>3 DEF CycleUnits
<1>5. CyclePlace'
  BY <1>1, <1>2 DEF CyclePlace
<1>6. CycleUnits'
  BY <1>1, <1>2, <1>3, <1>4 DEF CycleUnits, Dropped
<1>7. CycleLeft'
  <2>1. ASSUME NEW r \in offered, NEW u \in UnitsOf(r), published'[u] = 0
        PROVE  Ahead(u)' \/ Dropped(u)
    <3>1. u \in RowUnits /\ u # CurrentUnit
      <4>1. r \in Rows
        BY <2>1, RowsAreNumbers DEF CyclePlace
      <4>2. u \in RowUnits
        BY <2>1, <4>1 DEF RowUnits
      <4>3. u # CurrentUnit
        BY <1>4, <2>1
      <4> QED BY <4>2, <4>3
    <3>2. Ahead(u) => Ahead(u)'
      <4>1. ASSUME Ahead(u) PROVE Ahead(u)'
        <5>1. PICK q \in todo : u \in UnitsOf(q) /\ (q = Current => u.round >= round)
          BY <1>1, <4>1 DEF Ahead
        <5>2. q = Current => u.round > round
          <6>1. q = Current => u.round \in Nat /\ u.round # round
            BY <1>3, <3>1, <5>1, RoundsOfRow
          <6> QED BY <5>1, <6>1 DEF CyclePlace
        <5> QED BY <1>1, <1>2, <5>1, <5>2 DEF Ahead
      <4> QED BY <4>1
    <3> QED BY <1>4, <2>1, <3>1, <3>2 DEF CycleLeft
  <2> QED BY <1>1, <2>1 DEF CycleLeft, Dropped
<1>8. CycleStuck' /\ StuckBehindBadRow'
  BY <1>1 DEF CycleStuck, StuckBehindBadRow, Pending
<1> QED BY <1>5, <1>6, <1>7, <1>8

\* And its task is marked.
LEMMA MarkStep ==
  ASSUME CycleInv, MarkBusiness
  PROVE  CycleInv'
<1> USE DEF CycleInv
<1>1. /\ doing = "mark" /\ UnitDone /\ started' = started \cup {Table[Current].task}
      /\ UNCHANGED <<entered, created, published, errors, offered, dropped>>
  BY DEF MarkBusiness
<1>2. Current \in Rows /\ Current \in todo /\ CurrentUnit \in UnitsOf(Current)
  BY <1>1, CurrentRow, CurrentUnitOfRow DEF CyclePlace
<1>3. started \subseteq started' /\ started' \subseteq RowTasks
  BY <1>1, <1>2 DEF CyclePlace, RowTasks
<1>4. published[CurrentUnit] # 0 \/ Dropped(CurrentUnit)
  BY <1>1 DEF CycleUnits
<1> QED BY <1>1, <1>3, <1>4, UnitDoneKeeps

\* The invariant holds at first, and every step keeps it.
LEMMA CycleInvariant ==
  /\ CycleInit => CycleInv
  /\ CycleInv /\ [CycleNext]_cycleVars => CycleInv'
<1>1. ASSUME CycleInit PROVE CycleInv
  <2>1. CyclePlace
    BY <1>1, RowsAreNumbers, CycleAssumption DEF CycleInit, CyclePlace, CycleAssumption
  <2>2. CycleUnits /\ CycleLeft
    BY <1>1 DEF CycleInit, CycleUnits, CycleLeft
  <2>3. CycleStuck /\ StuckBehindBadRow
    BY <1>1 DEF CycleInit, CycleStuck, StuckBehindBadRow
  <2> QED BY <2>1, <2>2, <2>3 DEF CycleInv
<1>2. ASSUME CycleInv, ExpandBadRow PROVE CycleInv'
  BY <1>2, RaiseStep DEF ExpandBadRow, CycleInv, CyclePlace
<1>3. ASSUME CycleInv, StatementFails PROVE CycleInv'
  <2>1. errors' \in 0..MaxErrors
    BY <1>3, CycleAssumption DEF StatementFails, CycleInv, CyclePlace, CycleAssumption
  <2> QED BY <1>3, <2>1, RaiseStep DEF StatementFails
<1>4. ASSUME CycleInv, UNCHANGED cycleVars PROVE CycleInv'
  <2>1. UNCHANGED <<Current, CurrentUnit>>
    BY <1>4 DEF cycleVars, Current, CurrentUnit
  <2>2. CyclePlace'
    BY <1>4, <2>1 DEF cycleVars, CycleInv, CyclePlace
  <2>3. CycleUnits' /\ CycleLeft'
    BY <1>4, <2>1 DEF cycleVars, CycleInv, CycleUnits, CycleLeft, Ahead, Dropped
  <2>4. CycleStuck' /\ StuckBehindBadRow'
    BY <1>4 DEF cycleVars, CycleInv, CycleStuck, StuckBehindBadRow, Pending
  <2> QED BY <2>2, <2>3, <2>4 DEF CycleInv
<1> QED
  BY <1>1, <1>2, <1>3, <1>4, EnterRowStep, FetchStep, NextRowStep, CreateStep, PublishStep,
     MarkStep
  DEF CycleNext

-----------------------------------------------------------------------------
\* Types, and no unit is ever published twice by the cycles of a dispatcher, however
\* often a row is entered again and wherever a cycle raises (dispatcher.py, the unique
\* key of task_master_status).
THEOREM CycleTypeCorrect == CycleSpec => []CycleTypeOK
<1>1. CycleInv => CycleTypeOK
  <2>1. ASSUME CycleInv, doing \in {"create", "push", "mark"}
        PROVE  CurrentUnit \in UnitsOf(Current)
    BY <2>1, CurrentUnitOfRow DEF CycleInv
  <2> QED BY <2>1 DEF CycleInv, CyclePlace, CycleUnits, CycleTypeOK
<1> QED BY <1>1, CycleInvariant, PTL DEF CycleSpec

\* What a cycle leaves behind: whatever the table, the limit and the errors, nothing is
\* dispatched from behind a pending row that raises, and of the rows a cycle fetched only
\* those it dropped on an error have unpublished units (task_expander.py, dispatcher.py).
THEOREM CycleLeavesBehind == CycleSpec => []LeftBehindExplained
<1>1. CycleInv => NothingElseLeft
  <2>1. ASSUME CycleInv, doing = "idle", NEW r \in offered, NEW u \in UnitsOf(r),
               published[u] = 0
        PROVE  \E q \in dropped : Repeats(q, r)
    <3>1. PICK q \in dropped : u \in UnitsOf(q)
      BY <2>1 DEF CycleInv, CyclePlace, CycleLeft, Ahead, Dropped
    <3>2. q \in Rows /\ r \in Rows
      BY <2>1, RowsAreNumbers DEF CycleInv, CyclePlace
    <3> QED BY <3>1, <3>2, UnitsAreShared
  <2> QED BY <2>1 DEF NothingElseLeft
<1>2. CycleInv => LeftBehindExplained
  BY <1>1 DEF CycleInv, LeftBehindExplained
<1> QED BY <1>2, CycleInvariant, PTL DEF CycleSpec

-----------------------------------------------------------------------------
(* The parts together.                                                     *)

\* In every behaviour of MCPlatformParts each part behaves as it does alone, whichever
\* part runs: what is proved of a part holds in the product that TLC checks.
THEOREM PartsImplementEach == PartsSpec => QueueSpec /\ WindowSpec /\ CycleSpec /\ AlertsSpec
<1>1. PartsInit => QueueInit /\ WindowInit /\ CycleInit /\ AlertsInit
  BY DEF PartsInit
<1>2. [PartsNext]_partVars => /\ [QueueNext]_queueVars /\ [WindowNext]_windowVars
                              /\ [CycleNext]_cycleVars /\ [AlertsNext]_alertVars
  BY Zenon DEF PartsNext, partVars
<1> QED BY <1>1, <1>2, PTL DEF PartsSpec, QueueSpec, WindowSpec, CycleSpec, AlertsSpec

\* The queue in Redis, the window, the cycle and the alerts stay in their types.
THEOREM PartsTypeCorrect == PartsSpec => []PartsTypeOK
<1>1. QueueTypeOK /\ WindowTypeOK /\ CycleTypeOK /\ AlertsTypeOK => PartsTypeOK
  BY DEF PartsTypeOK
<1> QED BY <1>1, PartsImplementEach, QueueTypeCorrect, WindowTypeCorrect, CycleTypeCorrect,
           AlertsTypeCorrect, PTL

=============================================================================

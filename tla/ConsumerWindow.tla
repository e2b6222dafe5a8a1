--------------------------- MODULE ConsumerWindow ---------------------------
(***************************************************************************)
(* The intake of one consumer and its daily time window: the clock, the    *)
(* check of consume_once, the pop whose time limit is cut to the close of  *)
(* the window, and the idle sleep between attempts.                        *)
(*                                                                         *)
(* The clock runs through one week in ticks, Fraction ticks a second, so   *)
(* that the truncation to whole seconds is part of the model; days and     *)
(* hours may be shorter than real ones.                                    *)
(***************************************************************************)
EXTENDS Integers

CONSTANTS
  Fraction,    (* ticks per second                                         *)
  HourTicks,   (* ticks per hour                                           *)
  Hours,       (* hours per day                                            *)
  Days,        (* days per week                                            *)
  Timeouts,    (* the time limits, in seconds, a consumer may be run with  *)
  IdleSleep,   (* idle_sleep, in ticks                                     *)
  Stall        (* bound of the model: ticks between the check and the pop  *)

ASSUME WindowAssumption ==
  /\ {Fraction, HourTicks, Hours, Days} \subseteq Nat \ {0}
  /\ {IdleSleep, Stall} \subseteq Nat
  /\ Timeouts \subseteq Nat /\ Timeouts # {}

VARIABLES
  window,      (* start_hour, end_hour and weekdays of the controller      *)
  timeout,     (* the time limit of this consumer                          *)
  now,         (* the tick of the week                                     *)
  at,          (* check, pop, blocked, working or asleep                   *)
  left         (* ticks until the pop or the sleep is over; pop: stalled   *)

windowVars == <<window, timeout, now, at, left>>

DayTicks == Hours * HourTicks
Week == Days * DayTicks

\* What the constructor accepts.
Controllers ==
  {w \in [start : 0..(Hours - 1), end : 1..Hours, weekdays : (SUBSET (0..(Days - 1))) \ {{}}] :
     w.start < w.end}

-----------------------------------------------------------------------------
(* TimeWindowController.                                                   *)

Weekday(t) == (t \div DayTicks) % Days
Midnight(t) == t - (t % DayTicks)
Hour(t) == (t % DayTicks) \div HourTicks

IsOpen(t) == Weekday(t) \in window.weekdays /\ window.start <= Hour(t) /\ Hour(t) < window.end

DayStart(t) == Midnight(t) + window.start * HourTicks

\* Today's start, or that of the first suitable day of the next Days days.
Probes(t) == {d \in 0..Days : /\ Weekday(t + d * DayTicks) \in window.weekdays
                              /\ DayStart(t + d * DayTicks) > t}

NextOpenTime(t) ==
  IF \E d \in Probes(t) : TRUE
  THEN DayStart(t + DayTicks * (CHOOSE d \in Probes(t) : \A e \in Probes(t) : d <= e))
  ELSE -1

SecondsUntilOpen(t) == IF IsOpen(t) THEN 0 ELSE (NextOpenTime(t) - t) \div Fraction

\* An end at the last hour is the next midnight, whatever follows it.
SecondsUntilClose(t) ==
  IF IsOpen(t) THEN (Midnight(t) + window.end * HourTicks - t) \div Fraction ELSE 0

\* Fault: the limit is not cut to the close of the window.
UncutPopTimeout(t) == IF timeout = 0 THEN 1 ELSE timeout

\* At least a second: zero would block for ever.
EffectivePopTimeout(t) ==
  LET remaining == SecondsUntilClose(t)
  IN  CASE remaining = 0                -> 1
        [] remaining > 0 /\ timeout = 0 -> remaining
        [] remaining > 0 /\ timeout > 0 -> IF timeout < remaining THEN timeout ELSE remaining

-----------------------------------------------------------------------------
(* consume_once.                                                           *)

WindowInit ==
  /\ window \in Controllers
  /\ timeout \in Timeouts
  /\ now \in 0..(Week - 1)
  /\ at = "check"
  /\ left = 0

Tick ==
  /\ at \in {"working", "check"} \/ left > 0
  /\ now' = (now + 1) % Week
  /\ left' = IF left > 0 THEN left - 1 ELSE left
  /\ UNCHANGED <<window, timeout, at>>

\* The window is looked at once; everything up to the pop happens after it.
CheckOpen ==
  /\ at = "check"
  /\ IsOpen(now)
  /\ at' = "pop"
  /\ left' = Stall
  /\ UNCHANGED <<window, timeout, now>>

CheckClosed ==
  /\ at = "check"
  /\ ~IsOpen(now)
  /\ at' = "asleep"
  /\ left' = IdleSleep
  /\ UNCHANGED <<window, timeout, now>>

\* A priority pop does not wait.
PriorityMessage ==
  /\ at = "pop"
  /\ at' = "working"
  /\ left' = 0
  /\ UNCHANGED <<window, timeout, now>>

PopMessage ==
  /\ at = "pop"
  /\ at' = "blocked"
  /\ left' = Fraction * EffectivePopTimeout(now)
  /\ UNCHANGED <<window, timeout, now>>

MessageArrives ==
  /\ at = "blocked"
  /\ at' = "working"
  /\ left' = 0
  /\ UNCHANGED <<window, timeout, now>>

NoMessage ==
  /\ at = "blocked"
  /\ left = 0
  /\ at' = "asleep"
  /\ left' = IdleSleep
  /\ UNCHANGED <<window, timeout, now>>

\* The sleep, or the work on a message, is over.
Again ==
  /\ at = "working" \/ (at = "asleep" /\ left = 0)
  /\ at' = "check"
  /\ left' = 0
  /\ UNCHANGED <<window, timeout, now>>

WindowNext ==
  Tick \/ CheckOpen \/ CheckClosed \/ PriorityMessage \/ PopMessage \/ MessageArrives
    \/ NoMessage \/ Again

WindowSpec == WindowInit /\ [][WindowNext]_windowVars

-----------------------------------------------------------------------------
(* Properties.                                                             *)

\* Type invariant.
WindowTypeOK ==
  /\ window \in Controllers
  /\ timeout \in Timeouts
  /\ now \in 0..(Week - 1)
  /\ at \in {"check", "pop", "blocked", "working", "asleep"}
  /\ left \in Nat

OpeningIsNearest ==
  LET nearest == CHOOSE d \in 0..Week :
                   IsOpen(now + d) /\ \A e \in 0..(d - 1) : ~IsOpen(now + e)
  IN  SecondsUntilOpen(now) = nearest \div Fraction

NeverTakesLate ==
  at \in {"pop", "blocked"} => \E d \in 0..(Stall + Fraction) : IsOpen(now + Week - d)

\* For every window, weekday set and time of the week, a consumer is told the next
\* time the window opens, and one that may still take a message is at most a second
\* past its close, beyond the time it stalled between the check and the pop.
WindowIsKept == OpeningIsNearest /\ NeverTakesLate

=============================================================================

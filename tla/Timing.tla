------------------------------- MODULE Timing -------------------------------
(***************************************************************************)
(* CODE/clock, which shows the time since the last reset, and              *)
(* CODE/interval, which waits for five seconds again and again.            *)
(***************************************************************************)
EXTENDS Library

CONSTANTS
  Sixty,        \* minutes of an hour, seconds of a minute
  FiveSeconds   \* 5*CLOCKS_PER_SEC

\* No clock counts as far as the wait.
ASSUME TimingAssumption == Sixty \in Nat \ {0} /\ FiveSeconds \in 1 .. Word - 1

-----------------------------------------------------------------------------

Does(name, from, to) ==
  /\ prog = name /\ at = from /\ at' = to
  /\ TimePasses
  /\ UNCHANGED <<image, prog, pointer, ram, mtvec, resets>>

Calls(name, from) ==
  /\ prog = name /\ at = from
  /\ ReadTime
  /\ UNCHANGED <<image, prog, pointer, ram, mtvec, resets, frame, out, time>>

-----------------------------------------------------------------------------
(* clock.c *)

ClockMain ==
  /\ Does("clock", "main", "gettimeofday")
  /\ UNCHANGED <<frame, out, timer>>

\* Mutant: the seconds of an hour are shown.
SecondsOfHour(sec) == sec % (Sixty * Sixty)

Seconds(sec) == sec % Sixty

ClockTimed ==
  /\ Does("clock", "timed", "show")
  /\ LET sec == _gettimeofday.sec IN
     frame' = [hour |-> sec \div (Sixty * Sixty), min |-> (sec \div Sixty) % Sixty,
               sec |-> Seconds(sec), usec |-> _gettimeofday.usec]
  /\ UNCHANGED <<out, timer>>

ClockShow ==
  /\ Does("clock", "show", "gettimeofday")
  /\ out' = <<frame>> /\ frame' = NoFrame
  /\ UNCHANGED timer

ClockNext ==
  ClockMain \/ Calls("clock", "gettimeofday") \/ ClockTimed \/ ClockShow

-----------------------------------------------------------------------------
(* interval.c *)

IntervalMain ==
  /\ Does("interval", "main", "clock")
  /\ UNCHANGED <<frame, out, timer>>

\* current = clock(), which is printed.  The time of the call is not the
\* program's, it is kept for the property.
Current ==
  /\ Does("interval", "timed", "wait") /\ frame = NoFrame
  /\ frame' = [current |-> clock, since |-> timer.called]
  /\ out' = <<clock>>
  /\ UNCHANGED timer

\* Mutant: the end of the wait is computed first.
ElapsedSinceSum == clock >= (frame.current + FiveSeconds) % Word

\* The difference of two 32-bit numbers is one.
Elapsed == (clock - frame.current) % Word >= FiveSeconds

Wait ==
  /\ frame # NoFrame
  /\ Does("interval", "timed", IF Elapsed THEN "elapsed" ELSE "wait")
  /\ UNCHANGED <<frame, out, timer>>

FiveSecondsElapsed ==
  /\ Does("interval", "elapsed", "clock")
  /\ out' = <<>> /\ frame' = NoFrame
  /\ UNCHANGED timer

IntervalNext ==
  \/ IntervalMain \/ Calls("interval", "clock") \/ Current
  \/ Calls("interval", "wait") \/ Wait \/ FiveSecondsElapsed

TimingNext == ClockNext \/ IntervalNext

-----------------------------------------------------------------------------
(* Properties *)

\* The hours, minutes, seconds and microseconds that clock.c shows are a time
\* between the call of gettimeofday and now, wherever the low half of the time
\* wrapped (sys_gettimeofday.c:24-36, clock.c:56-64).
ShownTimeIsTrue ==
  prog = "clock" /\ at = "show" =>
    ((frame.hour * Sixty + frame.min) * Sixty + frame.sec) * PerSecond + frame.usec
      \in timer.called .. time

\* When "5 seconds elapsed" is printed they have, although clock() has 32 bits
\* of the time and wraps in the midst of a wait (interval.c:63-72,
\* sys_times.c:22-32).
IntervalIsLongEnough ==
  prog = "interval" /\ at = "elapsed" => time - frame.since >= FiveSeconds
=============================================================================

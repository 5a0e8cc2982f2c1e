------------------------------- MODULE Clock --------------------------------
(***************************************************************************)
(* The clock of kernel/utils.c: the real-time clock read register by       *)
(* register, sleep, which polls it, and the measuring of the time stamp    *)
(* counter by sleeping.  Time goes on between any two reads.               *)
(*                                                                         *)
(* The radices of the calendar are parameters; a month that has ended      *)
(* starts again at its first day, and all have the same number of days, as *)
(* if each were a longest one: a target past the end of a shorter month    *)
(* would be met weeks later, on a day that the shorter one did not have.   *)
(* The time stamp counter counts ticks, TPS to a second.                   *)
(***************************************************************************)
EXTENDS Integers, Sequences

CONSTANTS
  TPS,                         \* ticks per second
  SECS, MINS, HOURS, DAYS,     \* seconds in a minute, ... days in a month
  Starts                       \* ticks into the month at which the kernel starts

DayTicks == TPS * SECS * MINS * HOURS
Month == DAYS * DayTicks

ASSUME ClockAssumption ==
  /\ TPS \in Nat \ {0}
  /\ {SECS, MINS, HOURS, DAYS} \subseteq 1 .. 99
  /\ Starts \subseteq 0 .. (Month - 1)

VARIABLES
  now,         \* the real-time clock, in ticks
  ticked,      \* whether it has gone on since the registers were last taken up
  clk,         \* "awake", in sleep "start" or "poll", "returned" from it
  regs,        \* the registers read so far by the date under way
  targetTime,
  counter,     \* ticks since the time stamp was last taken, up to a bound
  frequency,   \* kernel_CPUInfo.frequency, or Unset
  monthEnded   \* ghost: the month has ended while somebody slept

clockvars == <<now, ticked, clk, regs, targetTime, counter, frequency, monthEnded>>

Unset == -1
Asleep == clk \in {"start", "poll"}
CounterBound == 3 * TPS * SECS

-----------------------------------------------------------------------------
(* The hardware (external) *)

Bcd(n) == 16 * (n \div 10) + (n % 10)

\* Registers 0x00, 0x02, 0x04 and 0x07, in the order they are read; month
\* and year are read after them and not used.
RTC(r) ==
  Bcd(CASE r = 1 -> (now \div TPS) % SECS
        [] r = 2 -> (now \div (TPS * SECS)) % MINS
        [] r = 3 -> (now \div (TPS * SECS * MINS)) % HOURS
        [] r = 4 -> 1 + now \div DayTicks)

\* Reading the registers takes less than a tick: at most one falls into it.
Tick ==
  /\ ~ ticked
  /\ ticked' = TRUE
  /\ now' = (now + 1) % Month
  /\ counter' = IF counter < CounterBound THEN counter + 1 ELSE counter
  /\ monthEnded' = (monthEnded \/ (now' = 0 /\ Asleep))
  /\ UNCHANGED <<clk, regs, targetTime, frequency>>

-----------------------------------------------------------------------------
(* date and sleep *)

utils_bcd2dec(bcd) == (bcd % 16) + (bcd \div 16) * 10

\* One register of utils_readRTC, but the last.
ReadRegister ==
  /\ Asleep /\ Len(regs) < 3
  /\ regs' = Append(regs, utils_bcd2dec(RTC(Len(regs) + 1)))
  /\ UNCHANGED <<now, ticked, clk, targetTime, counter, frequency, monthEnded>>

\* Seconds into the month, and a day: days are counted from one.
Seconds(d) == d[4] * HOURS * MINS * SECS + d[3] * MINS * SECS + d[2] * SECS + d[1]

\* The last register, and what sleep does with the date: the first one sets
\* the target, every other one is compared with it.
UseDate(sec) ==
  /\ Asleep /\ Len(regs) = 3
  /\ LET t == Seconds(Append(regs, utils_bcd2dec(RTC(4)))) IN
     IF clk = "start" THEN clk' = "poll" /\ targetTime' = t + sec
     ELSE /\ clk' = IF t >= targetTime THEN "returned" ELSE "poll"
          /\ UNCHANGED targetTime
  /\ regs' = <<>>
  /\ ticked' = FALSE
  /\ UNCHANGED <<now, counter, frequency, monthEnded>>

SleepStep(sec) == ReadRegister \/ UseDate(sec)

Sleep ==
  /\ ~ Asleep
  /\ clk' = "start"
  /\ UNCHANGED <<now, ticked, regs, targetTime, frequency, monthEnded>>

\* tsc1 is taken and sleep called; sleep has returned and tsc2 is taken.
StampAndSleep == Sleep /\ counter' = 0
Measured ==
  /\ clk = "returned"
  /\ frequency' = counter
  /\ clk' = "awake"
  /\ UNCHANGED <<now, ticked, regs, targetTime, counter, monthEnded>>

ClockInit ==
  /\ now \in Starts
  /\ ticked = FALSE
  /\ clk = "awake"
  /\ regs = <<>>
  /\ targetTime = 0
  /\ counter = 0
  /\ frequency = Unset
  /\ monthEnded = FALSE

-----------------------------------------------------------------------------
(* kernel_idle where the counter is not stable: it measures over and over. *)

kernel_idle == (clk = "awake" /\ StampAndSleep) \/ SleepStep(1) \/ Measured

IdleNext == Tick \/ kernel_idle

\* Time goes on, and the idle task runs again and again.
IdleSpec == ClockInit /\ [][IdleNext]_clockvars /\ WF_clockvars(Tick) /\ WF_clockvars(kernel_idle)

\* sleep: "Function for sleep the system for a certain amount of time": it
\* comes back.  It does not when the longest month ends meanwhile; after a
\* shorter one it comes back weeks late, which months of one length show as
\* never.
SleepReturns == Asleep ~> ~ Asleep
=============================================================================

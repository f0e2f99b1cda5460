-------------------------- MODULE CronExpression --------------------------
(***************************************************************************)
(* What a schedule request becomes (crons.ts): "every 90s" and "at 3:15pm" *)
(* are turned into cron expressions, and the scheduler matches those       *)
(* against the minutes of the clock.  The functions are pure; a state is   *)
(* one request, and the properties compare the minutes that match with     *)
(* what the request asked for, or what the parser's note says it became    *)
(* (a note neither caller of the parser passes on).                        *)
(*                                                                         *)
(* Time is a minute of a month with 31 days, minute 0 its first midnight.  *)
(***************************************************************************)
EXTENDS Integers, FiniteSets, FiniteSetsExt

CONSTANTS MaxValue,  \* bound: the number in "every <number><unit>"
          Days,      \* bound: days of the month looked at
          Clock,     \* minutes of the day at which a one-shot is asked for
          Past       \* minutes past the hour such a request names

\* A clock time that is past today is meant for tomorrow
ASSUME ScheduleAssumption ==
  /\ MaxValue \in Nat /\ Days \in Nat /\ Days >= 2
  /\ Clock \subseteq Nat /\ \A c \in Clock : c < 1440
  /\ Past \subseteq Nat

VARIABLE request

Minute == 0..(Days * 1440 - 1)

Requests ==
  [kind : {"every"}, value : 1..MaxValue, unit : {"s", "m", "h", "d"}]
  \cup [kind : {"at"}, hour : 0..13, minute : Past, half : {"am", "pm"},
        now : Clock]
  \cup [kind : {"in"}, value : 0..MaxValue, unit : {"m", "h"}, now : Clock]

NoRequest == [kind |-> "none"]

\* A client asks for a schedule, and is answered
AskSchedule == request = NoRequest /\ request' \in Requests
Answered == request # NoRequest /\ request' = NoRequest

ScheduleInit == request = NoRequest
ScheduleNext == AskSchedule \/ Answered
ScheduleSpec == ScheduleInit /\ [][ScheduleNext]_request

----------------------------------------------------------------------------
(* Expressions                                                             *)

Star == [op |-> "*", n |-> 0]          \* "*"
Step(n) == [op |-> "*/", n |-> n]     \* "*/n"
Exact(n) == [op |-> "=", n |-> n]     \* "n"

Cron(minute, hour, day) == [minute |-> minute, hour |-> hour, day |-> day]

\* fieldMatches
FieldMatches(field, v) ==
  \/ field.op = "*"
  \/ field.op = "*/" /\ field.n > 0 /\ v % field.n = 0
  \/ field.op = "=" /\ v = field.n

\* For expressions with any month and any day of the week
CronMatchesTime(cron, t) ==
  /\ FieldMatches(cron.minute, t % 60)
  /\ FieldMatches(cron.hour, (t \div 60) % 24)
  /\ FieldMatches(cron.day, 1 + t \div 1440)

----------------------------------------------------------------------------
(* every <value><unit>                                                     *)

Abs(n) == IF n < 0 THEN -n ELSE n
Round(a, b) == (2 * a + b) \div (2 * b)    \* Math.round(a / b)

\* The divisor nearest to v, the smaller of two as near
Nearest(divisors, v) ==
  Min({d \in divisors : \A e \in divisors : Abs(d - v) <= Abs(e - v)})

\* A result: the expression, and the minutes its note says the interval is; a
\* result without a note stands for the interval that was asked for
Result(cron, noted) == [cron |-> cron, noted |-> noted]

\* Mutant: the interval is kept as it is, a divisor of the hour or not
MinuteCronAsIs(mins) ==
  IF mins >= 60
  THEN Result(Cron(Exact(0), Step(Max({1, Round(mins, 60)})), Star), 0)
  ELSE Result(Cron(Step(mins), Star, Star), 0)

MinuteCron(mins) ==
  IF mins >= 60
  THEN Result(Cron(Exact(0), Step(Max({1, Round(mins, 60)})), Star), 0)
  ELSE IF 60 % mins = 0 THEN Result(Cron(Step(mins), Star, Star), 0)
  ELSE LET near == Nearest({1, 2, 3, 4, 5, 6, 10, 12, 15, 20, 30, 60}, mins)
       IN Result(Cron(Step(near), Star, Star), near)

HourCron(hours) ==
  IF hours >= 24 THEN Result(Cron(Exact(0), Exact(0), Star), 1440)
  ELSE IF 24 % hours = 0 THEN Result(Cron(Exact(0), Step(hours), Star), 0)
  ELSE LET near == Nearest({1, 2, 3, 4, 6, 8, 12, 24}, hours)
       IN Result(Cron(Exact(0), Step(near), Star), near * 60)

DayCron(days) ==
  Result(Cron(Exact(0), Exact(0), IF days = 1 THEN Star ELSE Step(days)), 0)

ParseEvery(value, unit) ==
  CASE unit = "s" -> IF value < 60 THEN Result(Cron(Step(1), Star, Star), 1)
                     ELSE MinuteCron(Round(value, 60))
    [] unit = "m" -> MinuteCron(value)
    [] unit = "h" -> HourCron(value)
    [] unit = "d" -> DayCron(value)

UnitMinutes == [m |-> 1, h |-> 60, d |-> 1440]

\* The interval, in minutes, the parser stands for
Interval(value, unit) ==
  LET noted == ParseEvery(value, unit).noted
  IN IF noted > 0 THEN noted
     ELSE IF unit = "s" THEN Round(value, 60) ELSE value * UnitMinutes[unit]

\* estimatePeriodMs, in minutes; 0 when the expression is of no known shape
EstimatePeriod(cron) ==
  IF cron.day # Star THEN 0
  ELSE IF cron.minute.op = "*/"
  THEN IF cron.hour = Star THEN cron.minute.n ELSE 0
  ELSE IF cron.hour.op = "*/" THEN cron.hour.n * 60
  ELSE 1440

\* The most a firing is put off by, in milliseconds (computeJitter)
MaxJitter(cron) ==
  IF EstimatePeriod(cron) = 0 THEN 0
  ELSE Max({1, Min({EstimatePeriod(cron) * 6000, 59999})}) - 1

----------------------------------------------------------------------------
(* at <hour>:<minute> am|pm, in <value><unit>                              *)

\* 12am is midnight, 12pm is noon
Hour24(hour, half) ==
  CASE half = "pm" /\ hour # 12 -> hour + 12
    [] half = "am" /\ hour = 12 -> 0
    [] OTHER -> hour

\* The minute the task is scheduled for: today, or tomorrow if that is past
ParseAt(hour, minute, half, now) ==
  LET today == Hour24(hour, half) * 60 + minute
  IN IF hour < 1 \/ hour > 12 \/ minute > 59 THEN {}
     ELSE IF today <= now THEN {today + 1440} ELSE {today}

ParseIn(value, unit, now) ==
  IF unit = "h" THEN now + value * 60 ELSE now + value

\* dateToCron (with the month, here always the same)
DateToCron(t) ==
  Cron(Exact(t % 60), Exact((t \div 60) % 24), Exact(1 + t \div 1440))

----------------------------------------------------------------------------
(* Properties                                                              *)

ScheduleTypeOK == request \in Requests \cup {NoRequest}

\* The reference: the minutes of the month an interval of n minutes gives
Multiples(n) == {t \in Minute : t % n = 0}

\* Requests whose interval the code can keep: seconds and minutes up to an
\* hour, hours, and one day.  (Past those it cannot and does not say so: 90m
\* becomes 2h, 5h in minutes is uneven at midnight, 2d starts again at every
\* new month and 32d never matches.)
Regular ==
  /\ request.kind = "every"
  /\ \/ request.unit = "s" /\ request.value < 3600
     \/ request.unit = "m" /\ request.value <= 60
     \/ request.unit = "h"
     \/ request.unit = "d" /\ request.value = 1

\* A task asked for at a regular interval matches exactly the minutes that are
\* multiples of the interval asked for, or of the one its note says it was
\* rounded to; and no firing is put off up to the next match, so none is lost
\* or doubled by the jitter.
EveryIsAsNoted ==
  Regular =>
    LET cron == ParseEvery(request.value, request.unit).cron
        interval == Interval(request.value, request.unit)
    IN /\ {t \in Minute : CronMatchesTime(cron, t)} = Multiples(interval)
       /\ EstimatePeriod(cron) = interval
       /\ MaxJitter(cron) < interval * 60000

\* A one-shot task matches one minute of the month: the next one at which the
\* clock shows the time asked for, or the one so many minutes ahead.
OneShotIsNext ==
  /\ request.kind = "at" =>
       \A t \in ParseAt(request.hour, request.minute, request.half,
                        request.now) :
         /\ t \in (request.now + 1)..(request.now + 1440)
         /\ t % 60 = request.minute
         /\ ((t \div 60) % 12) = request.hour % 12
         /\ ((t \div 60) % 24 >= 12) <=> request.half = "pm"
         /\ {u \in Minute : CronMatchesTime(DateToCron(t), u)} = {t}
  /\ request.kind = "in" /\ request.value < 24 * Days - 24 =>
       LET t == ParseIn(request.value, request.unit, request.now)
       IN {u \in Minute : CronMatchesTime(DateToCron(t), u)} = {t}

\* A task asked for in words matches the minutes those words name, or those of
\* the interval its note says it was rounded to.
SchedulesAreAsNoted == EveryIsAsNoted /\ OneShotIsNext
============================================================================

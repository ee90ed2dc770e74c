---------------------------- MODULE CronSchedule ----------------------------
(***************************************************************************)
(* packages/core/src/queue/cron-parser.ts: what a cron expression parses    *)
(* to, and getNextRun(), whose loop moves a local date forward by whole     *)
(* fields until all of them match.  One action per way round the loop.      *)
(*                                                                          *)
(* An instant is a local time and which of the two it is in an hour that    *)
(* the clocks repeat.  A setter of Date makes an instant of a local time:   *)
(* the first of the two, and the hour after for one that the clocks skip.   *)
(* The calendar is a parameter, so that a small one can be searched whole.  *)
(***************************************************************************)
EXTENDS Integers, Sequences, FiniteSets

CONSTANTS
  SecondsPerMinute, MinutesPerHour, HoursPerDay, DaysPerWeek, MonthsPerYear,
  DaysPerMonth, \* at most
  FirstDay,    \* the number of the first day of every month there is, one after another
  Skipped,     \* [month, date, hour] that the clocks skip
  Twice,       \* [month, date, hour] that they repeat
  Expressions, \* what is parsed
  MaxYears,    \* how far getNextRun() looks ahead
  StartMonths  \* bound: the months it may start from, counted from 0

ASSUME CronUnits ==
  /\ {SecondsPerMinute, MinutesPerHour, HoursPerDay, DaysPerWeek, MonthsPerYear, DaysPerMonth}
       \subseteq Nat \ {0}
  /\ FirstDay \in Seq(Nat) /\ \A i, j \in 1..Len(FirstDay) : i < j => FirstDay[i] < FirstDay[j]
  /\ \A i \in 1..(Len(FirstDay) - 1) : FirstDay[i + 1] - FirstDay[i] <= DaysPerMonth
  /\ Skipped.hour + 1 < HoursPerDay /\ Skipped # Twice
  /\ MaxYears \in Nat /\ StartMonths \in Nat \ {0}
  \* The search may run past the last year by as much as a stepped range may.
  /\ Len(FirstDay) = (StartMonths \div MonthsPerYear + MaxYears + 3) * MonthsPerYear + 1

VARIABLES phase, schedule, from, current
cronVars == <<phase, schedule, from, current>>

-----------------------------------------------------------------------------
(* parseCronExpression().  A field is the set of its parts, one unless it is *)
(* a list: [kind, first, last, step].                                        *)

Stepped(part) == part.kind \in {"star/", "range/", "from/"}

\* A step must be positive; the bounds are looked at only where there is none.
Accepts(part, min, max) ==
  \/ Stepped(part) /\ part.step > 0
  \/ part.kind = "star"
  \/ part.kind \in {"value", "range"} /\ min <= part.first /\ part.first <= part.last /\ part.last <= max

Low(part, min) == IF part.kind \in {"star", "star/"} THEN min ELSE part.first
High(part, max) == IF part.kind \in {"star", "star/", "from/"} THEN max ELSE part.last
Values(part, min, max) ==
  {v \in Low(part, min)..High(part, max) : (v - Low(part, min)) % part.step = 0}

Bounds == [seconds |-> <<0, SecondsPerMinute - 1>>, minutes |-> <<0, MinutesPerHour - 1>>,
           hours |-> <<0, HoursPerDay - 1>>, daysOfMonth |-> <<1, DaysPerMonth>>,
           months |-> <<1, MonthsPerYear>>, daysOfWeek |-> <<0, DaysPerWeek - 1>>]

Parses(expression) ==
  \A f \in DOMAIN Bounds : \A part \in expression[f] : Accepts(part, Bounds[f][1], Bounds[f][2])
Parsed(expression) ==
  [f \in DOMAIN Bounds |-> UNION {Values(part, Bounds[f][1], Bounds[f][2]) : part \in expression[f]}]

-----------------------------------------------------------------------------
(* Date.  Months count from 0 and do not stop at a year's end.               *)

YearOf(month) == month \div MonthsPerYear
DaysInMonth(month) == FirstDay[month + 2] - FirstDay[month + 1]
Weekday(month, date) == (FirstDay[month + 1] + date - 1) % DaysPerWeek

Is(month, date, hour, when) == month = when.month /\ date = when.date /\ hour = when.hour

\* What a setter makes of local fields, each of which may be past its end.
Set(month, date, hour, minute, second) ==
  LET m == minute + second \div SecondsPerMinute
      h == hour + m \div MinutesPerHour
      d == date + h \div HoursPerDay
      inMonth == d <= DaysInMonth(month)
      local == [month |-> IF inMonth THEN month ELSE month + 1,
                date |-> IF inMonth THEN d ELSE d - DaysInMonth(month),
                hour |-> h % HoursPerDay, again |-> FALSE,
                minute |-> m % MinutesPerHour, second |-> second % SecondsPerMinute]
  IN IF Is(local.month, local.date, local.hour, Skipped)
     THEN [local EXCEPT !.hour = @ + 1] ELSE local

Months == 0..(Len(FirstDay) - 2)
\* The instants of some months, and their order.
Instants(months) ==
  {t \in [month : months, date : 1..Bounds.daysOfMonth[2], hour : 0..(HoursPerDay - 1), again : BOOLEAN,
          minute : 0..(MinutesPerHour - 1), second : 0..(SecondsPerMinute - 1)] :
     /\ t.date <= DaysInMonth(t.month)
     /\ ~Is(t.month, t.date, t.hour, Skipped)
     /\ t.again => Is(t.month, t.date, t.hour, Twice)}
Number(t) ==
  (((((FirstDay[t.month + 1] + t.date - 1) * HoursPerDay + t.hour) * 2 + (IF t.again THEN 1 ELSE 0))
    * MinutesPerHour) + t.minute) * SecondsPerMinute + t.second
Starts == Instants(0..(StartMonths - 1))

-----------------------------------------------------------------------------
(* getNextRun().                                                             *)

CronInit ==
  /\ phase = "parse"
  /\ \E expression \in Expressions : Parses(expression) /\ schedule = Parsed(expression)
  /\ from \in Starts /\ current = from

\* It starts from the second after.
Begin ==
  /\ phase = "parse" /\ phase' = "search"
  /\ current' = Set(from.month, from.date, from.hour, from.minute, from.second + 1)
  /\ UNCHANGED <<schedule, from>>

EndYear == YearOf(Set(from.month, from.date, from.hour, from.minute, from.second + 1).month) + MaxYears
Searching == phase = "search" /\ YearOf(current.month) <= EndYear

\* findNextInSorted().
From(values, target) == {v \in values : v >= target}
Least(values) == CHOOSE v \in values : \A w \in values : v <= w

MonthOfYear(t) == (t.month % MonthsPerYear) + 1
MonthsLeft == From(schedule.months, MonthOfYear(current))
January(year) == year * MonthsPerYear

GoesTo(t) == phase' = phase /\ current' = t /\ UNCHANGED <<schedule, from>>
Midnight(month, date) == Set(month, date, 0, 0, 0)

\* Mutant: January is that of this year.
NoMonthStaysInYear ==
  /\ Searching /\ MonthsLeft = {}
  /\ GoesTo(Midnight(January(YearOf(current.month)), 1))
NoMonth ==
  /\ Searching /\ MonthsLeft = {}
  /\ GoesTo(Midnight(January(YearOf(current.month) + 1), 1))
LaterMonth ==
  /\ Searching /\ MonthsLeft # {} /\ Least(MonthsLeft) > MonthOfYear(current)
  /\ GoesTo(Midnight(January(YearOf(current.month)) + Least(MonthsLeft) - 1, 1))

\* The days of this month, from this one on, that both day fields allow.
Days == {d \in current.date..DaysInMonth(current.month) :
           d \in schedule.daysOfMonth /\ Weekday(current.month, d) \in schedule.daysOfWeek}
InMonth == Searching /\ MonthsLeft # {} /\ Least(MonthsLeft) = MonthOfYear(current)
NoDay == InMonth /\ Days = {} /\ GoesTo(Midnight(current.month + 1, 1))

\* A day is found.  The rest is looked at on that day.
There == IF Least(Days) > current.date THEN Midnight(current.month, Least(Days)) ELSE current
OnDay == InMonth /\ Days # {}
HoursLeft == From(schedule.hours, There.hour)
NoHour == OnDay /\ HoursLeft = {} /\ GoesTo(Midnight(There.month, There.date + 1))
\* Mutant: the minutes are kept when the hour moves on.
LaterHourKeepsMinutes ==
  /\ OnDay /\ HoursLeft # {} /\ Least(HoursLeft) > There.hour
  /\ GoesTo(Set(There.month, There.date, Least(HoursLeft), There.minute, There.second))
LaterHour ==
  /\ OnDay /\ HoursLeft # {} /\ Least(HoursLeft) > There.hour
  /\ GoesTo(Set(There.month, There.date, Least(HoursLeft), 0, 0))

InHour == OnDay /\ HoursLeft # {} /\ Least(HoursLeft) = There.hour
MinutesLeft == From(schedule.minutes, There.minute)
NoMinute == InHour /\ MinutesLeft = {} /\ GoesTo(Set(There.month, There.date, There.hour + 1, 0, 0))
LaterMinute ==
  /\ InHour /\ MinutesLeft # {} /\ Least(MinutesLeft) > There.minute
  /\ GoesTo(Set(There.month, There.date, There.hour, Least(MinutesLeft), 0))

InMinute == InHour /\ MinutesLeft # {} /\ Least(MinutesLeft) = There.minute
SecondsLeft == From(schedule.seconds, There.second)
NoSecond ==
  /\ InMinute /\ SecondsLeft = {}
  /\ GoesTo(Set(There.month, There.date, There.hour, There.minute + 1, 0))
LaterSecond ==
  /\ InMinute /\ SecondsLeft # {} /\ Least(SecondsLeft) > There.second
  /\ GoesTo(Set(There.month, There.date, There.hour, There.minute, Least(SecondsLeft)))

Finds ==
  /\ InMinute /\ SecondsLeft # {} /\ Least(SecondsLeft) = There.second
  /\ phase' = "found" /\ current' = There /\ UNCHANGED <<schedule, from>>
GivesUp ==
  /\ phase = "search" /\ ~Searching
  /\ phase' = "none" /\ UNCHANGED <<schedule, from, current>>

Loop == NoMonth \/ LaterMonth \/ NoDay \/ NoHour \/ LaterHour \/ NoMinute \/ LaterMinute
        \/ NoSecond \/ LaterSecond
CronNext == Begin \/ Loop \/ Finds \/ GivesUp

\* The function is synchronous: it runs on until it returns.
CronSpec == CronInit /\ [][CronNext]_cronVars /\ WF_cronVars(CronNext)

-----------------------------------------------------------------------------
CronTypeOK ==
  /\ phase \in {"parse", "search", "found", "none"}
  /\ schedule \in [DOMAIN Bounds -> SUBSET Nat]
  /\ from \in Starts /\ current \in Instants(Months)

\* No field has a value past its end, which a stepped range may give it.
InBounds == \A f \in DOMAIN Bounds : schedule[f] \subseteq Bounds[f][1]..Bounds[f][2]

Matches(t) ==
  /\ MonthOfYear(t) \in schedule.months
  /\ t.date \in schedule.daysOfMonth /\ Weekday(t.month, t.date) \in schedule.daysOfWeek
  /\ t.hour \in schedule.hours /\ t.minute \in schedule.minutes /\ t.second \in schedule.seconds

\* The local times of all the months that may be searched.
Candidates == {t \in Instants(Months) : ~t.again}
After(t) == Number(t) > Number([from EXCEPT !.again = FALSE])

\* What getNextRun() returns is the first instant after the one it is given whose
\* fields all match, whichever fields it moves by, over months of any length, leap
\* years and hours that are skipped; and it returns null only when there is none up
\* to the end of the last year searched.  It is so for a local time: the second
\* pass through an hour that the clocks repeat is never returned, and a search
\* that starts in it starts in the first, so that it may return the past.
NextRunIsLeast ==
  InBounds =>
    /\ phase = "found" =>
         /\ Matches(current) /\ After(current)
         /\ \A t \in Candidates : Matches(t) /\ After(t) => Number(current) <= Number(t)
    /\ phase = "none" =>
         \A t \in Candidates : Matches(t) /\ YearOf(t.month) <= EndYear => ~After(t)

\* It returns, whatever was accepted as an expression: also with fields that are
\* empty or past their ends, and for dates that never come.
Returns == phase = "search" ~> phase \in {"found", "none"}
=============================================================================

--------------------------- MODULE PeriodResolver ---------------------------
(***************************************************************************)
(* PeriodResolver: the period expressions of a question, with the clock     *)
(* read once, become half-open intervals of Asia/Tokyo, or are not          *)
(* resolved.  Days are proleptic Gregorian ordinals (1 is 0001-01-01), and  *)
(* instants of Asia/Tokyo are Day * ordinal plus the time of the day.       *)
(***************************************************************************)
EXTENDS QueryService

CONSTANTS
  ResolutionLimit,  \* period_resolver.MAX_PERIOD, 90 days as in QueryService
  YearSpan          \* the years below zero that datetime takes at all, 2^31

ASSUME ResolutionAssumption ==
  /\ ResolutionLimit \in Nat /\ ResolutionLimit <= MaxPeriod
  /\ YearSpan \in Nat

----------------------------------------------------------------------------
(* datetime and calendar                                                     *)

Lesser(a, b) == IF a <= b THEN a ELSE b

FirstYear == 1
LastYear  == 9999

IsLeap(y) == y % 4 = 0 /\ (y % 100 # 0 \/ y % 400 = 0)

\* calendar.monthrange(y, m)[1]
MonthLength(y, m) ==
  IF m = 2 THEN IF IsLeap(y) THEN 29 ELSE 28
  ELSE IF m \in {4, 6, 9, 11} THEN 30 ELSE 31

ValidDate(y, m, d) ==
  y \in FirstYear .. LastYear /\ m \in 1 .. 12 /\ d \in 1 .. MonthLength(y, m)

DaysBeforeYear(y) == 365 * (y - 1) + (y - 1) \div 4 - (y - 1) \div 100 + (y - 1) \div 400

\* Months of 30 or 31 days alternate closely enough for 367 / 12 of a day.
DaysBeforeMonth(y, m) ==
  (367 * m - 362) \div 12 - (IF m <= 2 THEN 0 ELSE IF IsLeap(y) THEN 1 ELSE 2)

\* date.toordinal
Ordinal(y, m, d) == DaysBeforeYear(y) + DaysBeforeMonth(y, m) + d

\* The year of a day: 400 years have 146097 days, so the guess is off by at most one.
YearFrom(guess, day) ==
  IF day <= DaysBeforeYear(guess) THEN guess - 1
  ELSE IF day > DaysBeforeYear(guess + 1) THEN guess + 1 ELSE guess
YearOf(day) == YearFrom((400 * (day - 1)) \div 146097 + 1, day)

\* With a February of 30 days, months would even out to 367 / 12.
MonthOf(y, day) ==
  LET even == day - Ordinal(y, 1, 1)
                + (IF day < Ordinal(y, 3, 1) THEN 0 ELSE IF IsLeap(y) THEN 1 ELSE 2)
  IN  (12 * even + 373) \div 367

DateIn(y, m, day) == [y |-> y, m |-> m, d |-> day - Ordinal(y, m, 0)]

\* date.fromordinal
DateOf(day) == DateIn(YearOf(day), MonthOf(YearOf(day), day), day)

\* Monday is 0.
Weekday(day) == (day + 6) % 7

DayOf(t) == t \div Day
Midnight(day) == day * Day

\* What a datetime of Asia/Tokyo can hold; in UTC it ends Offset earlier.
Earliest == Midnight(Ordinal(FirstYear, 1, 1))
End == Midnight(Ordinal(LastYear, 12, 31) + 1)

----------------------------------------------------------------------------
(* _resolve_token                                                            *)

Interval(start, end) ==
  [outcome |-> IF start < end THEN "period" ELSE "ValueError", from |-> start, to |-> end]

Raises(error) == [outcome |-> error, from |-> 0, to |-> 0]

\* datetime + timedelta is not a ValueError when it leaves the calendar.
IntervalOfSum(start, end) ==
  IF start < Earliest \/ end >= End THEN Raises("OverflowError") ELSE Interval(start, end)

\* The months or years (of twelve) from a date, and the date of the same day in
\* the n-th month after it.
MonthIndex(date) == date.y * 12 + date.m - 1

\* Mutated form of Shifted: a day the month has not runs into the next.
ShiftedUnclamped(date, months) ==
  LET index == MonthIndex(date) + months
  IN  [y |-> index \div 12, m |-> (index % 12) + 1, d |-> date.d]

\* _shift_months and _shift_years
Shifted(date, months) ==
  LET index == MonthIndex(date) + months
      y == index \div 12
      m == (index % 12) + 1
  IN  [y |-> y, m |-> m, d |-> Lesser(date.d, MonthLength(y, m))]

\* datetime.replace takes the year as a C int before it looks at the calendar.
ReplaceError(date) == IF date.y < -YearSpan THEN "OverflowError" ELSE "ValueError"

InCalendar(date) == date.y \in FirstYear .. LastYear
DayNumber(date) == Ordinal(date.y, date.m, date.d)

FirstOfMonth(date) == [date EXCEPT !.d = 1]
FirstOfYear(date) == [y |-> date.y, m |-> 1, d |-> 1]

CurrentWords == {"today", "this week", "this month", "this year"}
PastWords == {"yesterday", "two days ago", "last week", "last weekend",
              "last month", "last year"}

\* The first day of a current period.
CurrentStart(word, today) ==
  CASE word = "today"      -> today
    [] word = "this week"  -> today - Weekday(today)
    [] word = "this month" -> DayNumber(FirstOfMonth(DateOf(today)))
    [] word = "this year"  -> DayNumber(FirstOfYear(DateOf(today)))

\* The first day of a past period and the first day after it.
PastDays(word, today) ==
  LET week == CurrentStart("this week", today)
      month == FirstOfMonth(DateOf(today))
      year == FirstOfYear(DateOf(today))
  IN  CASE word = "yesterday"    -> <<today - 1, today>>
        [] word = "two days ago" -> <<today - 2, today - 1>>
        [] word = "last week"    -> <<week - 7, week>>
        [] word = "last weekend" -> <<week - 2, week>>
        [] word = "last month"   -> <<DayNumber(Shifted(month, -1)), DayNumber(month)>>
        [] word = "last year"    -> <<DayNumber(Shifted(year, -12)), DayNumber(year)>>

ElapsedUnits == [hours |-> Hour, days |-> Day, weeks |-> 7 * Day]
CalendarUnits == [months |-> 1, years |-> 12]

\* The last n units before now; a timedelta cannot hold a huge n either.
Rolling(unit, n, now) ==
  LET date == Shifted(DateOf(DayOf(now)), -n * CalendarUnits[unit])
  IN  CASE n = 0 -> Raises("ValueError")
        [] n > 0 /\ unit \in DOMAIN ElapsedUnits ->
             IntervalOfSum(now - n * ElapsedUnits[unit], now)
        [] n > 0 /\ unit \in DOMAIN CalendarUnits ->
             IF InCalendar(date)
             THEN Interval(Midnight(DayNumber(date)) + (now % Day), now)
             ELSE Raises(ReplaceError(date))

ExplicitDay(y, m, d) ==
  IF ValidDate(y, m, d)
  THEN IntervalOfSum(Midnight(Ordinal(y, m, d)), Midnight(Ordinal(y, m, d) + 1))
  ELSE Raises("ValueError")

ExplicitMonth(y, m) ==
  LET first == [y |-> y, m |-> m, d |-> 1]
  IN  IF ValidDate(y, m, 1) /\ InCalendar(Shifted(first, 1))
      THEN Interval(Midnight(DayNumber(first)), Midnight(DayNumber(Shifted(first, 1))))
      ELSE Raises("ValueError")

\* The args of an explicit date and of a rolling period are its numbers.
Token ==
  [word : CurrentWords \cup PastWords, args : {<<>>}]
    \cup [word : {"hours", "days", "weeks", "months", "years"}, args : [{1} -> Nat]]
    \cup [word : {"date"}, args : [1 .. 3 -> Nat]]
    \cup [word : {"month", "month day"}, args : [1 .. 2 -> Nat]]

ResolveToken(token, now) ==
  LET today == DayOf(now)
      past == PastDays(token.word, today)
  IN  CASE token.word \in CurrentWords ->
             Interval(Midnight(CurrentStart(token.word, today)), now)
        [] token.word \in PastWords -> Interval(Midnight(past[1]), Midnight(past[2]))
        [] token.word \in DOMAIN ElapsedUnits \cup DOMAIN CalendarUnits ->
             Rolling(token.word, token.args[1], now)
        [] token.word = "date" ->
             ExplicitDay(token.args[1], token.args[2], token.args[3])
        [] token.word = "month" -> ExplicitMonth(token.args[1], token.args[2])
        [] token.word = "month day" ->
             ExplicitDay(DateOf(today).y, token.args[1], token.args[2])

----------------------------------------------------------------------------
(* resolve                                                                   *)

Unresolved == [outcome |-> "unresolved", periods |-> <<>>]
Escapes == [outcome |-> "raised", periods |-> <<>>]

\* Mutated form of WithinLimit: no limit here.
WithinLimitAlways(p) == TRUE

\* _within_limit
WithinLimit(p) == p.to - p.from <= ResolutionLimit

\* The conversion to UTC may leave the calendar.
HasUtc(p) == p.from - Offset >= Earliest

\* _within_limit over the periods in order, each converted to UTC first.
Limited(periods) ==
  IF \E i \in DOMAIN periods :
       /\ ~HasUtc(periods[i])
       /\ \A j \in 1 .. (i - 1) : WithinLimit(periods[j])
  THEN Escapes
  ELSE IF \A i \in DOMAIN periods : WithinLimit(periods[i])
  THEN [outcome |-> "resolved", periods |-> periods]
  ELSE Unresolved

\* The periods of a question from those of its tokens, or what keeps it from being resolved: a modifier
\* such as "other than" after a token, a token that raises (a ValueError is
\* caught, an OverflowError is not), or another number of periods than expected,
\* except that "from ... to ..." joins two into one.
Combined(question, expected, results) ==
  LET periods == [i \in DOMAIN results |-> [from |-> results[i].from, to |-> results[i].to]]
      faulty(i) == results[i].outcome # "period"
      joins == expected = 1 /\ Len(periods) = 2 /\ question.edges = {"from", "to"}
               /\ periods[1].from < periods[2].to
  IN  IF question.modified THEN Unresolved
      ELSE IF \E i \in DOMAIN results : faulty(i)
      THEN IF \E i \in DOMAIN results : /\ results[i].outcome = "OverflowError"
                                        /\ \A j \in 1 .. (i - 1) : ~faulty(j)
           THEN Escapes ELSE Unresolved
      ELSE IF Len(periods) = expected THEN Limited(periods)
      ELSE IF joins THEN Limited(<<[from |-> periods[1].from, to |-> periods[2].to]>>)
      ELSE Unresolved

\* resolve, which reads the clock once.
Resolve(question, expected, now) ==
  Combined(question, expected,
           [i \in DOMAIN question.tokens |-> ResolveToken(question.tokens[i], now)])

----------------------------------------------------------------------------
(* Reference: what a token means, instant by instant.                        *)

Meant(token, now, t) ==
  LET today == DayOf(now)
      day == DayOf(t)
      date == DateOf(day)
      week(d) == (d + 6) \div 7
      month == MonthIndex(date) - MonthIndex(DateOf(today))
      year == date.y - DateOf(today).y
      word == token.word
      n == token.args[1]
      \* t is at or after the latest instant that is the same day and time of the
      \* month n months back, or its last day if it has no such day.
      since(months) ==
        LET clock == [at |-> now % Day, d |-> DateOf(today).d]
        IN  \/ month > -months
            \/ /\ month = -months
               /\ \/ date.d > clock.d
                  \/ /\ date.d = Lesser(clock.d, MonthLength(date.y, date.m))
                     /\ t % Day >= clock.at
  IN  CASE word = "today"        -> day = today /\ t < now
        [] word = "this week"    -> week(day) = week(today) /\ t < now
        [] word = "this month"   -> month = 0 /\ t < now
        [] word = "this year"    -> year = 0 /\ t < now
        [] word = "yesterday"    -> day = today - 1
        [] word = "two days ago" -> day = today - 2
        [] word = "last week"    -> week(day) = week(today) - 1
        [] word = "last weekend" -> week(day) = week(today) - 1 /\ Weekday(day) \in {5, 6}
        [] word = "last month"   -> month = -1
        [] word = "last year"    -> year = -1
        [] word \in DOMAIN ElapsedUnits ->
             t < now /\ now - t <= n * ElapsedUnits[word]
        [] word \in DOMAIN CalendarUnits -> t < now /\ since(n * CalendarUnits[word])
        [] word = "date"         -> token.args = <<date.y, date.m, date.d>>
        [] word = "month"        -> token.args = <<date.y, date.m>>
        [] word = "month day"    -> year = 0 /\ token.args = <<date.m, date.d>>
=============================================================================

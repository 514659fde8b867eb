-------------------------- MODULE Questions_proofs --------------------------
(***************************************************************************)
(* For every clock, question, content of the database and answer of the     *)
(* model: a resolved period is what its words mean, what is queried is what  *)
(* was asked, what is shown rests on what the tools returned, and the       *)
(* fallback is never refused.                                               *)
(***************************************************************************)
EXTENDS Questions, Arithmetic_proofs

----------------------------------------------------------------------------
(* Dates                                                                     *)

Date == [y : Int, m : Int, d : Int]

LEMMA OrdinalType ==
  ASSUME NEW y \in Int, NEW m \in Int, NEW d \in Int
  PROVE  Ordinal(y, m, d) \in Int
BY DEF Ordinal, DaysBeforeYear, DaysBeforeMonth

LEMMA YearOfType ==
  ASSUME NEW day \in Int
  PROVE  YearOf(day) \in Int
<1> DEFINE guess == (400 * (day - 1)) \div 146097 + 1
<1>1. guess \in Int
  OBVIOUS
<1>2. YearOf(day) = YearFrom(guess, day)
  BY DEF YearOf
<1> HIDE DEF guess
<1> QED BY <1>1, <1>2 DEF YearFrom

LEMMA MonthOfType ==
  ASSUME NEW y \in Int, NEW day \in Int
  PROVE  MonthOf(y, day) \in Int
<1> DEFINE even == day - Ordinal(y, 1, 1)
                     + (IF day < Ordinal(y, 3, 1) THEN 0 ELSE IF IsLeap(y) THEN 1 ELSE 2)
<1>1. Ordinal(y, 1, 1) \in Int
  BY OrdinalType
<1>2. even \in Int
  BY <1>1
<1>3. MonthOf(y, day) = (12 * even + 373) \div 367
  BY DEF MonthOf
<1> HIDE DEF even
<1> QED BY <1>2, <1>3

LEMMA DateOfType ==
  ASSUME NEW day \in Int
  PROVE  DateOf(day) \in Date
<1> DEFINE y == YearOf(day)
           m == MonthOf(y, day)
<1>1. y \in Int /\ m \in Int
  BY YearOfType, MonthOfType
<1>2. Ordinal(y, m, 0) \in Int
  BY <1>1, OrdinalType
<1>3. DateOf(day) = [y |-> y, m |-> m, d |-> day - Ordinal(y, m, 0)]
  BY DEF DateOf, DateIn
<1> HIDE DEF y, m
<1> QED BY <1>1, <1>2, <1>3 DEF Date

LEMMA MonthLengthType ==
  ASSUME NEW y \in Int, NEW m \in Int
  PROVE  MonthLength(y, m) \in Nat
BY DEF MonthLength

LEMMA ShiftedType ==
  ASSUME NEW date \in Date, NEW months \in Int
  PROVE  Shifted(date, months) \in Date
<1> DEFINE index == MonthIndex(date) + months
           y == index \div 12
           m == (index % 12) + 1
<1>1. index \in Int
  BY DEF MonthIndex, Date
<1>2. y \in Int /\ m \in Int
  <2> HIDE DEF index
  <2> QED BY <1>1
<1>3. MonthLength(y, m) \in Nat
  <2> HIDE DEF y, m
  <2> QED BY <1>2, MonthLengthType
<1>4. Shifted(date, months) = [y |-> y, m |-> m, d |-> Lesser(date.d, MonthLength(y, m))]
  BY DEF Shifted
<1>5. Lesser(date.d, MonthLength(y, m)) \in Int
  <2> HIDE DEF y, m
  <2> QED BY <1>3 DEF Lesser, Date
<1> HIDE DEF y, m
<1> QED BY <1>2, <1>4, <1>5 DEF Date

LEMMA DayNumberType ==
  ASSUME NEW date \in Date
  PROVE  DayNumber(date) \in Int
BY OrdinalType DEF DayNumber, Date

LEMMA MidnightType ==
  ASSUME NEW day \in Int
  PROVE  Midnight(day) \in Int
BY QueryAssumption DEF Midnight

----------------------------------------------------------------------------
(* Tokens                                                                    *)

Sound(result) ==
  result.outcome = "period" =>
    result.from \in Int /\ result.to \in Int /\ result.from < result.to

LEMMA IntervalSound ==
  ASSUME NEW start \in Int, NEW end \in Int
  PROVE  Sound(Interval(start, end)) /\ Sound(IntervalOfSum(start, end))
<1>1. Sound(Interval(start, end))
  BY DEF Sound, Interval
<1> QED BY <1>1 DEF IntervalOfSum, Raises, Sound

LEMMA RaisesSound ==
  ASSUME NEW error \in {"ValueError", "OverflowError"}
  PROVE  Sound(Raises(error))
BY DEF Sound, Raises

LEMMA FirstsType ==
  ASSUME NEW date \in Date
  PROVE  FirstOfMonth(date) \in Date /\ FirstOfYear(date) \in Date
<1>1. FirstOfMonth(date) = [y |-> date.y, m |-> date.m, d |-> 1]
  BY DEF FirstOfMonth, Date
<1>2. FirstOfYear(date) = [y |-> date.y, m |-> 1, d |-> 1]
  BY DEF FirstOfYear, Date
<1>3. date.y \in Int /\ date.m \in Int
  BY DEF Date
<1> QED BY <1>1, <1>2, <1>3 DEF Date

LEMMA CurrentStartType ==
  ASSUME NEW word \in CurrentWords, NEW today \in Int
  PROVE  CurrentStart(word, today) \in Int
<1>1. today - Weekday(today) \in Int
  BY DEF Weekday
<1>2. DateOf(today) \in Date
  BY DateOfType
<1>3. FirstOfMonth(DateOf(today)) \in Date /\ FirstOfYear(DateOf(today)) \in Date
  BY <1>2, FirstsType
<1>4. /\ DayNumber(FirstOfMonth(DateOf(today))) \in Int
      /\ DayNumber(FirstOfYear(DateOf(today))) \in Int
  BY <1>3, DayNumberType
<1> QED BY <1>1, <1>4 DEF CurrentStart, CurrentWords

LEMMA PastDaysType ==
  ASSUME NEW word \in PastWords, NEW today \in Int
  PROVE  PastDays(word, today)[1] \in Int /\ PastDays(word, today)[2] \in Int
<1> DEFINE week == CurrentStart("this week", today)
           month == FirstOfMonth(DateOf(today))
           year == FirstOfYear(DateOf(today))
           lastMonth == DayNumber(Shifted(month, -1))
           lastYear == DayNumber(Shifted(year, -12))
<1>1. week \in Int
  BY CurrentStartType DEF CurrentWords
<1>2. DateOf(today) \in Date
  BY DateOfType
<1>3. month \in Date /\ year \in Date
  BY <1>2, FirstsType
<1>4. Shifted(month, -1) \in Date /\ Shifted(year, -12) \in Date
  BY <1>3, ShiftedType
<1>5. /\ DayNumber(month) \in Int /\ DayNumber(year) \in Int
      /\ lastMonth \in Int /\ lastYear \in Int
  BY <1>3, <1>4, DayNumberType
<1>6. PastDays(word, today) \in {<<today - 1, today>>, <<today - 2, today - 1>>,
                                <<week - 7, week>>, <<week - 2, week>>,
                                <<lastMonth, DayNumber(month)>>,
                                <<lastYear, DayNumber(year)>>}
  <2> HIDE DEF week
  <2> QED BY DEF PastDays, PastWords, week
<1> HIDE DEF week, month, year, lastMonth, lastYear
<1> QED BY <1>1, <1>5, <1>6

LEMMA RollingSound ==
  ASSUME NEW unit \in {"hours", "days", "weeks", "months", "years"}, NEW n \in Nat,
         NEW now_ \in Int
  PROVE  Sound(Rolling(unit, n, now_))
<1> DEFINE date == Shifted(DateOf(DayOf(now_)), -n * CalendarUnits[unit])
           length == n * ElapsedUnits[unit]
<1>1. CASE n = 0
  BY <1>1, RaisesSound DEF Rolling
<1>2. CASE n > 0 /\ unit \in {"hours", "days", "weeks"}
  <2>1. ElapsedUnits[unit] \in Int
    BY <1>2, QueryAssumption DEF ElapsedUnits
  <2>2. length \in Int
    <3> DEFINE u == ElapsedUnits[unit]
    <3>1. u \in Int
      BY <2>1
    <3> HIDE DEF u
    <3>2. n * u \in Int
      BY <3>1
    <3> QED BY <3>2 DEF u
  <2>3. Rolling(unit, n, now_) = IntervalOfSum(now_ - length, now_)
    <3> HIDE DEF date
    <3> QED BY <1>2 DEF Rolling, ElapsedUnits, CalendarUnits
  <2> HIDE DEF length
  <2> QED BY <2>2, <2>3, IntervalSound
<1>3. CASE n > 0 /\ unit \in {"months", "years"}
  <2>1. DayOf(now_) \in Int /\ now_ % Day \in Int
    BY QueryAssumption DEF DayOf
  <2>2. -n * CalendarUnits[unit] \in Int
    BY <1>3 DEF CalendarUnits
  <2>3. date \in Date
    BY <2>1, <2>2, DateOfType, ShiftedType
  <2>4. Rolling(unit, n, now_) =
          IF InCalendar(date) THEN Interval(Midnight(DayNumber(date)) + (now_ % Day), now_)
                              ELSE Raises(ReplaceError(date))
    BY <1>3 DEF Rolling, ElapsedUnits, CalendarUnits
  <2> HIDE DEF date
  <2>5. Midnight(DayNumber(date)) + (now_ % Day) \in Int
    BY <2>1, <2>3, DayNumberType, MidnightType
  <2>6. Sound(Raises(ReplaceError(date)))
    BY RaisesSound DEF ReplaceError
  <2> QED BY <2>4, <2>5, <2>6, IntervalSound
<1> QED BY <1>1, <1>2, <1>3

LEMMA ExplicitSound ==
  ASSUME NEW y \in Int, NEW m \in Int, NEW d \in Int
  PROVE  Sound(ExplicitDay(y, m, d)) /\ Sound(ExplicitMonth(y, m))
<1>1. Sound(ExplicitDay(y, m, d))
  <2>1. /\ Midnight(Ordinal(y, m, d)) \in Int
        /\ Midnight(Ordinal(y, m, d) + 1) \in Int
    <3> DEFINE day == Ordinal(y, m, d)
    <3>1. day \in Int
      BY OrdinalType
    <3> HIDE DEF day
    <3>2. Midnight(day) \in Int /\ Midnight(day + 1) \in Int
      BY <3>1, MidnightType
    <3> QED BY <3>2 DEF day
  <2> QED BY <2>1, IntervalSound, RaisesSound DEF ExplicitDay
<1>2. Sound(ExplicitMonth(y, m))
  <2> DEFINE first == [y |-> y, m |-> m, d |-> 1]
             next == Shifted(first, 1)
  <2>1. first \in Date
    BY DEF Date
  <2>2. next \in Date
    BY <2>1, ShiftedType
  <2>3. ExplicitMonth(y, m) \in {Raises("ValueError"),
                                Interval(Midnight(DayNumber(first)), Midnight(DayNumber(next)))}
    BY DEF ExplicitMonth
  <2> HIDE DEF first, next
  <2>4. Midnight(DayNumber(first)) \in Int /\ Midnight(DayNumber(next)) \in Int
    BY <2>1, <2>2, DayNumberType, MidnightType
  <2> QED BY <2>3, <2>4, IntervalSound, RaisesSound
<1> QED BY <1>1, <1>2

\* A token that does not raise is an interval with something in it.
LEMMA TokenSound ==
  ASSUME NEW token \in Token, NEW now_ \in Int
  PROVE  Sound(ResolveToken(token, now_))
<1> DEFINE today == DayOf(now_)
<1>1. today \in Int
  BY QueryAssumption DEF DayOf
<1>2. DateOf(today).y \in Int
  BY <1>1, DateOfType DEF Date
<1> HIDE DEF today
<1>3. CASE token.word \in CurrentWords
  <2>1. ResolveToken(token, now_) = Interval(Midnight(CurrentStart(token.word, today)), now_)
    BY <1>3 DEF ResolveToken, CurrentWords, PastWords, ElapsedUnits, CalendarUnits, today
  <2> QED BY <1>1, <1>3, <2>1, CurrentStartType, MidnightType, IntervalSound
<1>4. CASE token.word \in PastWords
  <2>1. ResolveToken(token, now_) = Interval(Midnight(PastDays(token.word, today)[1]),
                                            Midnight(PastDays(token.word, today)[2]))
    BY <1>4 DEF ResolveToken, CurrentWords, PastWords, ElapsedUnits, CalendarUnits, today
  <2> QED BY <1>1, <1>4, <2>1, PastDaysType, MidnightType, IntervalSound
<1>5. CASE token.word \in {"hours", "days", "weeks", "months", "years"}
  <2>1. ResolveToken(token, now_) = Rolling(token.word, token.args[1], now_)
    BY <1>5 DEF ResolveToken, CurrentWords, PastWords, ElapsedUnits, CalendarUnits
  <2>2. token.args[1] \in Nat
    <3>1. token.args \in [{1} -> Nat]
      BY <1>5 DEF Token, CurrentWords, PastWords
    <3> QED BY <3>1
  <2> QED BY <1>5, <2>1, <2>2, RollingSound
<1>6. CASE token.word = "date"
  <2>1. ResolveToken(token, now_) = ExplicitDay(token.args[1], token.args[2], token.args[3])
    BY <1>6 DEF ResolveToken, CurrentWords, PastWords, ElapsedUnits, CalendarUnits
  <2>2. token.args[1] \in Int /\ token.args[2] \in Int /\ token.args[3] \in Int
    <3>1. token.args \in [1 .. 3 -> Nat]
      BY <1>6 DEF Token, CurrentWords, PastWords
    <3> QED BY <3>1
  <2> QED BY <2>1, <2>2, ExplicitSound
<1>7. CASE token.word \in {"month", "month day"}
  <2>1. token.args[1] \in Int /\ token.args[2] \in Int
    <3>1. token.args \in [1 .. 2 -> Nat]
      BY <1>7 DEF Token, CurrentWords, PastWords
    <3> QED BY <3>1
  <2>2. ResolveToken(token, now_) \in {ExplicitMonth(token.args[1], token.args[2]),
                                      ExplicitDay(DateOf(today).y, token.args[1], token.args[2])}
    BY <1>7 DEF ResolveToken, CurrentWords, PastWords, ElapsedUnits, CalendarUnits, today
  <2> QED BY <1>2, <2>1, <2>2, ExplicitSound
<1>8. token.word \in CurrentWords \cup PastWords
        \cup {"hours", "days", "weeks", "months", "years", "date", "month", "month day"}
  BY DEF Token
<1> QED BY <1>3, <1>4, <1>5, <1>6, <1>7, <1>8

----------------------------------------------------------------------------
(* Resolution                                                                *)

Resolved(result) == result.outcome = "resolved"

LEMMA LimitedSound ==
  ASSUME NEW n \in Nat, NEW given,
         DOMAIN given = 1 .. n,
         \A i \in 1 .. n : given[i].from \in Int /\ given[i].to \in Int
                          /\ given[i].from < given[i].to,
         Resolved(Limited(given))
  PROVE  /\ Limited(given).periods = given
         /\ \A i \in 1 .. n : WithinLimit(given[i])
<1>1. Limited(given) = [outcome |-> "resolved", periods |-> given]
  BY DEF Limited, Resolved, Escapes, Unresolved
<1>2. \A i \in DOMAIN given : WithinLimit(given[i])
  <2>1. SUFFICES ASSUME NEW i \in DOMAIN given, ~WithinLimit(given[i]) PROVE FALSE
    OBVIOUS
  <2>2. Limited(given) \in {Escapes, Unresolved}
    BY <2>1 DEF Limited
  <2> QED BY <1>1, <2>2 DEF Escapes, Unresolved
<1> QED BY <1>1, <1>2

\* What is resolved are as many periods as expected, each one QueryService takes.
LEMMA ResolveSound ==
  ASSUME NEW q, NEW expected \in Nat, NEW now_ \in Int,
         q.tokens \in Seq(Token),
         Resolved(Resolve(q, expected, now_))
  PROVE  LET given == Resolve(q, expected, now_).periods
         IN  /\ DOMAIN given = 1 .. expected
             /\ \A i \in 1 .. expected :
                  /\ given[i].from \in Int /\ given[i].to \in Int
                  /\ given[i].from < given[i].to
                  /\ WithinLimit(given[i])
<1> DEFINE n == Len(q.tokens)
           results == [i \in DOMAIN q.tokens |-> ResolveToken(q.tokens[i], now_)]
           spans == [i \in DOMAIN results |-> [from |-> results[i].from, to |-> results[i].to]]
           joined == <<[from |-> spans[1].from, to |-> spans[2].to]>>
<1>1. n \in Nat /\ DOMAIN q.tokens = 1 .. n /\ \A i \in 1 .. n : q.tokens[i] \in Token
  OBVIOUS
<1>2. \A i \in 1 .. n : Sound(results[i])
  <2>1. SUFFICES ASSUME NEW i \in 1 .. n PROVE Sound(results[i])
    OBVIOUS
  <2>2. results[i] = ResolveToken(q.tokens[i], now_)
    BY <1>1
  <2> QED BY <1>1, <2>2, TokenSound
<1>3. DOMAIN spans = 1 .. n /\ Len(spans) = n
  BY <1>1
<1>4. /\ \A i \in 1 .. n : results[i].outcome = "period"
      /\ \/ Len(spans) = expected /\ Resolve(q, expected, now_) = Limited(spans)
         \/ /\ expected = 1 /\ Len(spans) = 2
            /\ spans[1].from < spans[2].to
            /\ Resolve(q, expected, now_) = Limited(joined)
  BY <1>1 DEF Resolve, Combined, Resolved, Unresolved, Escapes
<1> HIDE DEF results
<1>5. \A i \in 1 .. n : spans[i].from \in Int /\ spans[i].to \in Int /\ spans[i].from < spans[i].to
  BY <1>2, <1>3, <1>4 DEF Sound
<1> HIDE DEF spans
<1>6. CASE Len(spans) = expected /\ Resolve(q, expected, now_) = Limited(spans)
  BY <1>3, <1>5, <1>6, LimitedSound
<1>7. CASE /\ expected = 1 /\ Len(spans) = 2 /\ spans[1].from < spans[2].to
           /\ Resolve(q, expected, now_) = Limited(joined)
  <2>1. n = 2
    BY <1>3, <1>7
  <2>2. DOMAIN joined = 1 .. 1 /\ joined[1].from = spans[1].from /\ joined[1].to = spans[2].to
    OBVIOUS
  <2>3. joined[1].from \in Int /\ joined[1].to \in Int /\ joined[1].from < joined[1].to
    BY <1>5, <1>7, <2>1, <2>2
  <2> HIDE DEF joined
  <2>4. Resolved(Limited(joined))
    BY <1>7
  <2>5. \A i \in 1 .. 1 : joined[i].from \in Int /\ joined[i].to \in Int
                        /\ joined[i].from < joined[i].to
    BY <2>3
  <2>6. /\ Limited(joined).periods = joined
        /\ \A i \in 1 .. 1 : WithinLimit(joined[i])
    BY <2>2, <2>4, <2>5, LimitedSound
  <2>7. expected = 1 /\ Resolve(q, expected, now_).periods = joined
    BY <1>7, <2>6
  <2> QED BY <2>2, <2>5, <2>6, <2>7
<1> QED BY <1>4, <1>6, <1>7

----------------------------------------------------------------------------
(* Calls                                                                     *)

LEMMA RecordNames ==
  ASSUME NEW name, NEW queried, NEW status, NEW data, NEW times, NEW x
  PROVE  LET record == Record(name, queried, status, data, times)
         IN  /\ record.name = name /\ record.periods = queried
             /\ [record EXCEPT !.measuredAt = x].name = name
             /\ [record EXCEPT !.measuredAt = x].periods = queried
             /\ [record EXCEPT !.bucketFrom = x].name = name
             /\ [record EXCEPT !.bucketFrom = x].periods = queried
BY DEF Record

Names(record, name, queried) == record.name = name /\ record.periods = queried

\* Whatever a tool finds, its record names the tool and the periods it was called for.
LEMMA AnswerNames ==
  ASSUME NEW name \in {ToolByKind[k] : k \in DOMAIN ToolByKind}, NEW queried, NEW g, NEW filter,
         name = "get_latest_measurement" => queried = <<>>
  PROVE  /\ Names(Answer(name, queried, g, filter), name, queried)
         /\ Names(Unavailable(name, queried), name, queried)
<1>1. Names(Unavailable(name, queried), name, queried)
  BY RecordNames DEF Unavailable, Names
<1>2. name = "get_latest_measurement" => Names(LatestRecord(name), name, queried)
  BY RecordNames DEF LatestRecord, Names
<1>3. Names(StatisticsRecord(name, queried), name, queried)
  BY RecordNames DEF StatisticsRecord, Names
<1>4. Names(SeriesRecord(name, queried, g), name, queried)
  BY RecordNames DEF SeriesRecord, Names
<1>5. Names(CompareRecord(name, queried), name, queried)
  BY RecordNames DEF CompareRecord, Names
<1>6. Names(AlertRecord(name, queried, filter), name, queried)
  BY RecordNames DEF AlertRecord, Names
<1>7. Answer(name, queried, g, filter) \in
        {Unavailable(name, queried), LatestRecord(name), StatisticsRecord(name, queried),
         SeriesRecord(name, queried, g), CompareRecord(name, queried),
         AlertRecord(name, queried, filter)}
      /\ (Answer(name, queried, g, filter) = LatestRecord(name) =>
            \/ name = "get_latest_measurement"
            \/ Names(Answer(name, queried, g, filter), name, queried))
  BY <1>1, <1>3, <1>4, <1>5, <1>6 DEF Answer, ToolByKind
<1> QED BY <1>1, <1>2, <1>3, <1>4, <1>5, <1>6, <1>7

----------------------------------------------------------------------------
(* Answers                                                                   *)

\* What the validation lets through rests on the results it was validated against.
Supported(shown, results) ==
  /\ \A n \in shown.numbers : Rests(n.value, FoundUnit(n.sign), results)
  /\ \A t \in shown.dates :
       t \in {shown.period.from, shown.period.to}
         \/ \E i \in DOMAIN results : t \in results[i].times
  /\ \/ shown.period = NoPeriod
     \/ \E i \in DOMAIN results : \E j \in DOMAIN results[i].periods :
          results[i].periods[j] = shown.period
     \/ \E i \in DOMAIN results :
          results[i].measuredAt = shown.period.from /\ shown.period.to = shown.period.from
  /\ \E i \in DOMAIN results : results[i].status = shown.status

LEMMA FoundAt ==
  ASSUME NEW results, NEW i \in DOMAIN results, NEW path \in DOMAIN results[i].data,
         results[i].data[path] # None
  PROVE  [value |-> results[i].data[path], unit |-> Unit(path)] \in Found(results)
BY DEF Found

LEMMA NumbersRest ==
  ASSUME NEW c, NEW results, Accepted(c, results), NEW n \in c.numbers
  PROVE  Rests(n.value, FoundUnit(n.sign), results)
<1> DEFINE unit == FoundUnit(n.sign)
<1>1. n.value \in AllowedNumbers(c, unit)
  BY DEF Accepted
<1> HIDE DEF unit
<1>2. ASSUME \E e \in c.evidence : unit \in {e.unit, "none"} /\ n.value = e.value
      PROVE  Rests(n.value, unit, results)
  <2>1. PICK e \in c.evidence : unit \in {e.unit, "none"} /\ n.value = e.value
    BY <1>2
  <2>2. EvidenceHolds(e, results)
    BY DEF Accepted
  <2> DEFINE f == [value |-> results[e.call].data[e.path], unit |-> Unit(e.path)]
  <2>3. f.value # None
    BY <1>1, <2>1, <2>2 DEF EvidenceHolds, AllowedNumbers
  <2>4. f \in Found(results)
    BY <2>2, <2>3 DEF EvidenceHolds, Found
  <2>5. n.value = f.value /\ unit \in {f.unit, "none"}
    BY <2>1, <2>2 DEF EvidenceHolds
  <2> QED BY <2>4, <2>5 DEF Rests
<1>3. ASSUME \E k \in c.calculations : unit \in {CalculationUnit(k), "none"} /\ n.value = k.result
      PROVE  Rests(n.value, unit, results)
  <2>1. PICK k \in c.calculations : unit \in {CalculationUnit(k), "none"} /\ n.value = k.result
    BY <1>3
  <2>2. CalculationHolds(k, results)
    BY DEF Accepted
  <2> DEFINE of(o) == [value |-> results[o.call].data[o.path], unit |-> Unit(o.path)]
             f == of(k.first)
             s == of(k.second)
  <2>3. f \in Found(results) /\ s \in Found(results)
    <3>1. \A o \in {k.first, k.second} :
            /\ o.call \in DOMAIN results /\ o.path \in DOMAIN results[o.call].data
            /\ results[o.call].data[o.path] # None
      BY <2>2 DEF CalculationHolds
    <3>2. \A o \in {k.first, k.second} : of(o) \in Found(results)
      BY <3>1, FoundAt
    <3> QED BY <3>2
  <2>4. f.unit = s.unit
    BY <2>2 DEF CalculationHolds
  <2>5. \/ n.value = AbsoluteDifference(f.value, s.value) /\ unit \in {f.unit, "none"}
        \/ f.value # 0 /\ n.value = PercentChange(f.value, s.value) /\ unit \in {"percent", "none"}
    BY <2>1, <2>2 DEF CalculationHolds, CalculationUnit
  <2> HIDE DEF f, s
  <2> QED BY <2>3, <2>4, <2>5 DEF Rests
<1>4. Rests(n.value, unit, results)
  BY <1>1, <1>2, <1>3 DEF AllowedNumbers
<1> QED BY <1>4 DEF unit

LEMMA AcceptedSupported ==
  ASSUME NEW c, NEW results, Accepted(c, results)
  PROVE  Supported(Shown(c), results)
<1>1. \A e \in c.evidence : EvidenceHolds(e, results)
  BY DEF Accepted
<1>2. Relevant(c, results) \subseteq DOMAIN results
  BY <1>1 DEF Relevant, EvidenceHolds
<1>3. \A n \in c.numbers : Rests(n.value, FoundUnit(n.sign), results)
  BY NumbersRest
<1>4. ASSUME NEW t \in c.dates, t \notin {c.period.from, c.period.to}
      PROVE  \E i \in DOMAIN results : t \in results[i].times
  <2>1. t \in AllowedInstants(c)
    BY DEF Accepted
  <2>2. PICK e \in c.evidence : t = e.observedAt /\ t # None
    BY <1>4, <2>1 DEF AllowedInstants
  <2> QED BY <1>1, <2>2 DEF EvidenceHolds
<1>5. \/ c.period = NoPeriod
      \/ \E i \in DOMAIN results : \E j \in DOMAIN results[i].periods :
           results[i].periods[j] = c.period
      \/ \E i \in DOMAIN results :
           results[i].measuredAt = c.period.from /\ c.period.to = c.period.from
  BY <1>2 DEF Accepted, PeriodHolds, ContainsPeriod
<1>6. \E i \in DOMAIN results : results[i].status = c.status
  BY <1>2 DEF Accepted
<1> QED BY <1>3, <1>4, <1>5, <1>6 DEF Supported, Shown

LEMMA FirstSupports ==
  ASSUME NEW shown, NEW results, 1 \in DOMAIN results, Supported(shown, <<results[1]>>)
  PROVE  Supported(shown, results)
<1> DEFINE one == <<results[1]>>
<1>1. DOMAIN one = {1} /\ one[1] = results[1]
  OBVIOUS
<1> HIDE DEF one
<1>2. Found(one) \subseteq Found(results)
  BY <1>1 DEF Found
<1>3. \A value, unit : Rests(value, unit, one) => Rests(value, unit, results)
  BY <1>2 DEF Rests
<1>4. Supported(shown, one)
  BY DEF one
<1> QED BY <1>1, <1>3, <1>4 DEF Supported

----------------------------------------------------------------------------
(* The inductive invariant                                                   *)

Kinds == DOMAIN ToolByKind
Expected == PeriodCount(Kind(question))

QuestionIsKnown ==
  /\ now \in Int
  /\ step # "idle" => question \in Asked

\* The periods of a run are of its question, and each one QueryService takes.
PeriodsAreValid ==
  /\ periods = [i \in DOMAIN periods |-> periods[i]]
  /\ \A i \in DOMAIN periods : ValidPeriod(periods[i])
  /\ step = "running" => DOMAIN periods = 1 .. Expected /\ Kind(question) \in Kinds
  /\ step = "idle" => periods = <<>>

HistoryIsSequence == \E S : history \in Seq(S)

DisplayIsLast ==
  /\ step \in {"idle", "running"} => display = NoDisplay
  /\ step = "idle" => history = <<>>
  /\ display # NoDisplay => Supported(display, history)

QuestionsInv ==
  /\ QuestionIsKnown
  /\ PeriodsAreValid
  /\ HistoryIsSequence
  /\ OnlyAskedPeriodsAreQueried
  /\ DisplayIsLast

LEMMA ExpectedType ==
  ASSUME NEW kind
  PROVE  PeriodCount(kind) \in Nat /\ (kind = "LATEST" => PeriodCount(kind) = 0)
BY DEF PeriodCount

LEMMA UtcValid ==
  ASSUME NEW p, p.from \in Int, p.to \in Int, p.from < p.to, WithinLimit(p)
  PROVE  ValidPeriod(Utc(p))
<1>1. /\ Offset \in Int /\ MaxPeriod \in Int /\ ResolutionLimit \in Int
      /\ ResolutionLimit <= MaxPeriod
  BY QueryAssumption, ResolutionAssumption
<1>2. Utc(p).from = p.from - Offset /\ Utc(p).to = p.to - Offset
  BY DEF Utc
<1> QED BY <1>1, <1>2 DEF ValidPeriod, WithinLimit

LEMMA InitInv == Init => QuestionsInv
<1> SUFFICES ASSUME Init PROVE QuestionsInv
  OBVIOUS
<1>1. now \in Int
  BY QuestionAssumption DEF Init
<1>2. history \in Seq({})
  BY DEF Init
<1> QED BY <1>1, <1>2 DEF Init, QuestionsInv, QuestionIsKnown, PeriodsAreValid, ValidPeriod,
           HistoryIsSequence, OnlyAskedPeriodsAreQueried, DisplayIsLast

LEMMA AskInv ==
  ASSUME QuestionsInv, NEW q \in Asked, Ask(q)
  PROVE  QuestionsInv'
<1> DEFINE kind == Kind(q)
           expected == PeriodCount(kind)
           resolution == Resolve(q, expected, now)
<1>1. now \in Int /\ q.tokens \in Seq(Token) /\ expected \in Nat
  BY QuestionAssumption, ExpectedType DEF QuestionsInv, QuestionIsKnown
<1>2. /\ step = "idle" /\ question' = q /\ step' \in {"running", "fixed", "raised"}
      /\ now' = now /\ history' = history /\ display' = display
  BY DEF Ask, Begin, environment
<1>3. periods = <<>> /\ history = <<>> /\ display = NoDisplay
  BY <1>2 DEF QuestionsInv, PeriodsAreValid, DisplayIsLast
<1>4. QuestionIsKnown'
  BY <1>1, <1>2 DEF QuestionIsKnown
<1>5. PeriodsAreValid'
  <2>1. CASE step' # "running" \/ kind = "LATEST"
    <3>1. periods' = <<>>
      BY <1>2, <1>3, <2>1 DEF Ask, Begin
    <3>2. step' = "running" => kind \in Kinds
      BY <1>2 DEF Ask, Begin, Kinds
    <3> QED BY <1>2, <2>1, <3>1, <3>2, ExpectedType
            DEF PeriodsAreValid, ValidPeriod, Expected
  <2>2. CASE step' = "running" /\ kind # "LATEST"
    <3>1. /\ resolution.outcome = "resolved" /\ kind \in Kinds
          /\ periods' = [i \in DOMAIN resolution.periods |-> Utc(resolution.periods[i])]
      BY <1>2, <2>2 DEF Ask, Begin, Kinds
    <3>2. /\ DOMAIN resolution.periods = 1 .. expected
          /\ \A i \in 1 .. expected :
               /\ resolution.periods[i].from \in Int /\ resolution.periods[i].to \in Int
               /\ resolution.periods[i].from < resolution.periods[i].to
               /\ WithinLimit(resolution.periods[i])
      BY <1>1, <3>1, ResolveSound DEF Resolved
    <3> HIDE DEF resolution, expected
    <3>3. \A i \in 1 .. expected : ValidPeriod(Utc(resolution.periods[i]))
      BY <3>2, UtcValid
    <3>4. DOMAIN periods' = 1 .. expected
      BY <3>1, <3>2
    <3>5. \A i \in DOMAIN periods' : ValidPeriod(periods'[i])
      BY <3>1, <3>2, <3>3
    <3>6. periods' = [i \in DOMAIN periods' |-> periods'[i]]
      BY <3>1
    <3>7. Expected' = expected
      BY <1>2 DEF Expected, expected
    <3>8. (\A i \in DOMAIN periods : ValidPeriod(periods[i]))'
      BY <3>5 DEF ValidPeriod
    <3> QED BY <1>2, <2>2, <3>1, <3>4, <3>6, <3>7, <3>8 DEF PeriodsAreValid
  <2> QED BY <2>1, <2>2
<1>6. HistoryIsSequence'
  BY <1>2 DEF QuestionsInv, HistoryIsSequence
<1>7. OnlyAskedPeriodsAreQueried'
  BY <1>2, <1>3 DEF OnlyAskedPeriodsAreQueried
<1>8. DisplayIsLast'
  BY <1>2, <1>3 DEF DisplayIsLast
<1> QED BY <1>4, <1>5, <1>6, <1>7, <1>8 DEF QuestionsInv

\* A period the model supplies is replaced by the question's, at every place.
LEMMA ForcedIsAsked ==
  ASSUME NEW supplied \in Supplied, PeriodsAreValid, step = "running"
  PROVE  Forced(supplied) = periods
<1>1. DOMAIN periods = 1 .. Expected /\ DOMAIN supplied = 1 .. Expected
  BY DEF PeriodsAreValid, Supplied, Expected
<1>2. CASE periods = <<>>
  <2>1. Expected \in Nat
    BY ExpectedType DEF Expected
  <2>2. DOMAIN supplied = {}
    BY <1>1, <1>2
  <2>3. supplied = [i \in DOMAIN supplied |-> supplied[i]]
    BY DEF Supplied
  <2>4. supplied = <<>>
    BY <2>2, <2>3
  <2> QED BY <1>2, <2>4 DEF Forced
<1>3. CASE periods # <<>>
  <2>1. periods = [i \in DOMAIN periods |-> periods[i]]
    BY DEF PeriodsAreValid
  <2>2. Forced(supplied) = [i \in DOMAIN supplied |-> periods[i]]
    BY <1>3 DEF Forced
  <2> QED BY <1>1, <2>1, <2>2
<1> QED BY <1>2, <1>3

LEMMA CallInv ==
  ASSUME QuestionsInv, NEW supplied \in Supplied, NEW g, NEW filter,
         CallTool(supplied, g, filter)
  PROVE  QuestionsInv'
<1>1. /\ step = "running" /\ step' = step /\ now' = now /\ question' = question
      /\ periods' = periods /\ display' = display
  BY DEF CallTool, environment
<1>2. Forced(supplied) = periods
  BY <1>1, ForcedIsAsked DEF QuestionsInv
<1>3. PICK record \in {Answer(Tool, periods, g, filter), Unavailable(Tool, periods)} :
        history' = Append(history, record)
  BY <1>2 DEF CallTool
<1>4. Names(record, Tool, periods)
  <2>1. Kind(question) \in Kinds /\ DOMAIN periods = 1 .. Expected
    BY <1>1 DEF QuestionsInv, PeriodsAreValid
  <2>2. Tool \in {ToolByKind[k] : k \in DOMAIN ToolByKind}
    BY <2>1 DEF Tool, Kinds
  <2>3. ASSUME Tool = "get_latest_measurement" PROVE periods = <<>>
    <3>1. Kind(question) = "LATEST"
      BY <2>1, <2>3 DEF Tool, Kinds, ToolByKind
    <3>2. DOMAIN periods = {}
      BY <2>1, <3>1, ExpectedType DEF Expected
    <3>3. periods = [i \in DOMAIN periods |-> periods[i]]
      BY DEF QuestionsInv, PeriodsAreValid
    <3> QED BY <3>2, <3>3
  <2> QED BY <1>3, <2>2, <2>3, AnswerNames
<1>5. PICK S : history \in Seq(S)
  BY DEF QuestionsInv, HistoryIsSequence
<1>6. /\ history \in Seq(S \cup {record})
      /\ history' \in Seq(S \cup {record})
      /\ DOMAIN history' = DOMAIN history \cup {Len(history) + 1}
      /\ \A i \in DOMAIN history : history'[i] = history[i]
      /\ history'[Len(history) + 1] = record
  <2>1. history \in Seq(S \cup {record})
    BY <1>5
  <2> QED BY <1>3, <2>1
<1>7. QuestionIsKnown' /\ PeriodsAreValid'
  BY <1>1 DEF QuestionsInv, QuestionIsKnown, PeriodsAreValid, Expected, ValidPeriod
<1>8. HistoryIsSequence'
  BY <1>6 DEF HistoryIsSequence
<1>9. OnlyAskedPeriodsAreQueried'
  BY <1>1, <1>4, <1>6 DEF QuestionsInv, OnlyAskedPeriodsAreQueried, Names, Tool
<1>10. DisplayIsLast'
  BY <1>1 DEF QuestionsInv, DisplayIsLast
<1> QED BY <1>7, <1>8, <1>9, <1>10 DEF QuestionsInv

LEMMA ConcludeInv ==
  ASSUME QuestionsInv, NEW c, Conclude(c)
  PROVE  QuestionsInv'
<1>1. /\ step = "running" /\ step' \in {"answered", "fallback", "failed"}
      /\ now' = now /\ question' = question /\ periods' = periods /\ history' = history
  BY DEF Conclude, environment
<1>2. QuestionIsKnown' /\ PeriodsAreValid' /\ HistoryIsSequence' /\ OnlyAskedPeriodsAreQueried'
  BY <1>1 DEF QuestionsInv, QuestionIsKnown, PeriodsAreValid, ValidPeriod, HistoryIsSequence,
              OnlyAskedPeriodsAreQueried, Tool
<1>3. display' # NoDisplay => Supported(display', history)
  <2>1. CASE Accepted(c, history) /\ display' = Shown(c)
    BY <2>1, AcceptedSupported
  <2>2. CASE /\ history # <<>> /\ Accepted(Fallback(question, history[1]), <<history[1]>>)
             /\ display' = Shown(Fallback(question, history[1]))
    <3>1. 1 \in DOMAIN history
      BY <2>2 DEF QuestionsInv, HistoryIsSequence
    <3> QED BY <2>2, <3>1, AcceptedSupported, FirstSupports
  <2>3. CASE display' = display
    BY <1>1, <2>3 DEF QuestionsInv, DisplayIsLast
  <2> QED BY <2>1, <2>2, <2>3 DEF Conclude
<1>4. (display # NoDisplay => Supported(display, history))'
  BY <1>1, <1>3 DEF Supported, Rests, Found
<1>5. DisplayIsLast'
  BY <1>1, <1>4 DEF DisplayIsLast
<1> QED BY <1>2, <1>5 DEF QuestionsInv

LEMMA NextInv == QuestionsInv /\ [Next]_vars => QuestionsInv'
<1> SUFFICES ASSUME QuestionsInv, [Next]_vars PROVE QuestionsInv'
  OBVIOUS
<1>1. ASSUME /\ UNCHANGED <<now, question, periods, history, display>>
             /\ step' = step \/ (step = "running" /\ step' = "failed")
      PROVE  QuestionsInv'
  <2>1. QuestionIsKnown'
    BY <1>1 DEF QuestionsInv, QuestionIsKnown
  <2>2. PeriodsAreValid'
    BY <1>1 DEF QuestionsInv, PeriodsAreValid, ValidPeriod, Expected
  <2>3. HistoryIsSequence' /\ OnlyAskedPeriodsAreQueried'
    BY <1>1 DEF QuestionsInv, HistoryIsSequence, OnlyAskedPeriodsAreQueried, Tool
  <2>4. Supported(display, history) => Supported(display, history)'
    BY <1>1 DEF Supported, Rests, Found
  <2>5. DisplayIsLast'
    BY <1>1, <2>4 DEF QuestionsInv, DisplayIsLast
  <2> QED BY <2>1, <2>2, <2>3, <2>5 DEF QuestionsInv
<1>2. ASSUME NEW row, StoreMeasurement(row) PROVE QuestionsInv'
  BY <1>1, <1>2 DEF StoreMeasurement
<1>3. ASSUME Fail PROVE QuestionsInv'
  BY <1>1, <1>3 DEF Fail, environment
<1>4. CASE UNCHANGED vars
  BY <1>1, <1>4 DEF vars, environment
<1> QED BY <1>2, <1>3, <1>4, AskInv, CallInv, ConcludeInv DEF Next

LEMMA InvAlways == Spec => []QuestionsInv
BY InitInv, NextInv, PTL DEF Spec

----------------------------------------------------------------------------
(* Years                                                                     *)

LEMMA LeapYears ==
  ASSUME NEW y \in Int
  PROVE  DaysBeforeYear(y + 1) = DaysBeforeYear(y) + (IF IsLeap(y) THEN 366 ELSE 365)
<1>1. y \div 4 = (y - 1) \div 4 + (IF y % 4 = 0 THEN 1 ELSE 0)
  OBVIOUS
<1>2. y \div 100 = (y - 1) \div 100 + (IF y % 100 = 0 THEN 1 ELSE 0)
  OBVIOUS
<1>3. y \div 400 = (y - 1) \div 400 + (IF y % 400 = 0 THEN 1 ELSE 0)
  OBVIOUS
<1>4. y % 400 = 0 => y % 100 = 0
  OBVIOUS
<1>5. y % 100 = 0 => y % 4 = 0
  OBVIOUS
<1>6. DaysBeforeYear(y + 1) = 365 * y + y \div 4 - y \div 100 + y \div 400
  BY DEF DaysBeforeYear
<1> QED BY <1>1, <1>2, <1>3, <1>4, <1>5, <1>6 DEF DaysBeforeYear, IsLeap

LEMMA YearLength ==
  ASSUME NEW y \in Int
  PROVE  /\ DaysBeforeYear(y) \in Int
         /\ 146097 * (y - 1) - 699 <= 400 * DaysBeforeYear(y)
         /\ 400 * DaysBeforeYear(y) <= 146097 * (y - 1) + 396
<1> DEFINE a == (y - 1) \div 4  b == (y - 1) \div 100  c == (y - 1) \div 400
<1>1. /\ a \in Int /\ b \in Int /\ c \in Int
      /\ 4 * a <= y - 1 /\ y - 1 <= 4 * a + 3
      /\ 100 * b <= y - 1 /\ y - 1 <= 100 * b + 99
      /\ 400 * c <= y - 1 /\ y - 1 <= 400 * c + 399
  OBVIOUS
<1>2. DaysBeforeYear(y) = 365 * (y - 1) + a - b + c
  BY DEF DaysBeforeYear
<1> HIDE DEF a, b, c
<1> QED BY <1>1, <1>2

LEMMA YearOfDay ==
  ASSUME NEW y \in Int, NEW day \in Int,
         DaysBeforeYear(y) < day, day <= DaysBeforeYear(y + 1)
  PROVE  YearOf(day) = y
<1> DEFINE g == (400 * (day - 1)) \div 146097 + 1
<1>1. g \in Int /\ 146097 * (g - 1) <= 400 * (day - 1) /\ 400 * (day - 1) < 146097 * g
  OBVIOUS
<1>2. YearOf(day) = YearFrom(g, day)
  BY DEF YearOf
<1> HIDE DEF g
<1>3. /\ DaysBeforeYear(y) \in Int /\ 146097 * (y - 1) - 699 <= 400 * DaysBeforeYear(y)
      /\ DaysBeforeYear(y + 1) \in Int /\ 400 * DaysBeforeYear(y + 1) <= 146097 * y + 396
  BY YearLength, y + 1 \in Int, (y + 1) - 1 = y
<1>4. g \in (y - 1) .. (y + 1)
  BY <1>1, <1>3
<1>5. CASE g = y - 1
  <2>1. day > DaysBeforeYear(g + 1) /\ DaysBeforeYear(g) <= DaysBeforeYear(g + 1)
    BY <1>5, YearLength, y - 1 \in Int, (y - 1) + 1 = y
  <2>2. ~(day <= DaysBeforeYear(g))
    BY <2>1, <1>1, YearLength, g + 1 \in Int
  <2> QED BY <1>2, <1>5, <2>1, <2>2 DEF YearFrom
<1>6. CASE g = y
  BY <1>2, <1>3, <1>6 DEF YearFrom
<1>7. CASE g = y + 1
  BY <1>2, <1>3, <1>7 DEF YearFrom
<1> QED BY <1>4, <1>5, <1>6, <1>7
----------------------------------------------------------------------------
(* Months, numbered through the years: FirstDay(i) is the day before the first *)
(* of month i.                                                                *)

FirstDay(i) == Ordinal(i \div 12, (i % 12) + 1, 0)
LengthOf(i) == MonthLength(i \div 12, (i % 12) + 1)

LEMMA MonthNumber ==
  ASSUME NEW y \in Int, NEW m \in 1 .. 12
  PROVE  LET i == 12 * y + m - 1
         IN  /\ i \in Int /\ i \div 12 = y /\ (i % 12) + 1 = m
             /\ FirstDay(i) = Ordinal(y, m, 0) /\ LengthOf(i) = MonthLength(y, m)
<1> DEFINE i == 12 * y + m - 1
<1>1. i \in Int /\ i \div 12 = y /\ (i % 12) + 1 = m
  OBVIOUS
<1> QED BY <1>1 DEF FirstDay, LengthOf

LEMMA NumberOfMonth ==
  ASSUME NEW i \in Int
  PROVE  /\ i \div 12 \in Int /\ (i % 12) + 1 \in 1 .. 12
         /\ i = 12 * (i \div 12) + ((i % 12) + 1) - 1
OBVIOUS

\* The days of a year before its months.
Preceding(m, leap) == (367 * m - 362) \div 12 - (IF m <= 2 THEN 0 ELSE 2 - leap)

LeapDay(y) == IF IsLeap(y) THEN 1 ELSE 0

LEMMA DaysBefore ==
  ASSUME NEW y \in Int, NEW m \in 1 .. 12
  PROVE  /\ DaysBeforeMonth(y, m) = Preceding(m, LeapDay(y))
         /\ MonthLength(y, m) = Preceding(m + 1, LeapDay(y)) - Preceding(m, LeapDay(y))
<1>1. m \in {1, 2, 3, 4, 5, 6, 7, 8, 9, 10, 11, 12}
  OBVIOUS
<1>2. CASE m = 1
  BY <1>2 DEF DaysBeforeMonth, MonthLength, Preceding, LeapDay
<1>3. CASE m = 2
  BY <1>3 DEF DaysBeforeMonth, MonthLength, Preceding, LeapDay
<1>4. CASE m = 3
  BY <1>4 DEF DaysBeforeMonth, MonthLength, Preceding, LeapDay
<1>5. CASE m = 4
  BY <1>5 DEF DaysBeforeMonth, MonthLength, Preceding, LeapDay
<1>6. CASE m = 5
  BY <1>6 DEF DaysBeforeMonth, MonthLength, Preceding, LeapDay
<1>7. CASE m = 6
  BY <1>7 DEF DaysBeforeMonth, MonthLength, Preceding, LeapDay
<1>8. CASE m = 7
  BY <1>8 DEF DaysBeforeMonth, MonthLength, Preceding, LeapDay
<1>9. CASE m = 8
  BY <1>9 DEF DaysBeforeMonth, MonthLength, Preceding, LeapDay
<1>10. CASE m = 9
  BY <1>10 DEF DaysBeforeMonth, MonthLength, Preceding, LeapDay
<1>11. CASE m = 10
  BY <1>11 DEF DaysBeforeMonth, MonthLength, Preceding, LeapDay
<1>12. CASE m = 11
  BY <1>12 DEF DaysBeforeMonth, MonthLength, Preceding, LeapDay
<1>13. CASE m = 12
  BY <1>13 DEF DaysBeforeMonth, MonthLength, Preceding, LeapDay
<1> QED BY <1>1, <1>2, <1>3, <1>4, <1>5, <1>6, <1>7, <1>8, <1>9, <1>10, <1>11, <1>12, <1>13

LEMMA LeapDayType ==
  ASSUME NEW y \in Int
  PROVE  LeapDay(y) \in {0, 1} /\ (IsLeap(y) <=> LeapDay(y) = 1)
BY DEF LeapDay

\* A month of a year, in days of the calendar.
LEMMA MonthInYear ==
  ASSUME NEW i \in Int
  PROVE  LET y == i \div 12
             m == (i % 12) + 1
         IN  /\ FirstDay(i) = DaysBeforeYear(y) + Preceding(m, LeapDay(y))
             /\ LengthOf(i) = Preceding(m + 1, LeapDay(y)) - Preceding(m, LeapDay(y))
             /\ DaysBeforeYear(y) \in Int
             /\ DaysBeforeYear(y + 1) = DaysBeforeYear(y) + 365 + LeapDay(y)
<1> DEFINE y == i \div 12
           m == (i % 12) + 1
<1>1. y \in Int /\ m \in 1 .. 12
  BY NumberOfMonth
<1>2. FirstDay(i) = Ordinal(y, m, 0) /\ LengthOf(i) = MonthLength(y, m)
  BY DEF FirstDay, LengthOf
<1> HIDE DEF y, m
<1>3. DaysBeforeYear(y) \in Int
  BY <1>1, YearLength
<1>4. /\ DaysBeforeMonth(y, m) = Preceding(m, LeapDay(y))
      /\ MonthLength(y, m) = Preceding(m + 1, LeapDay(y)) - Preceding(m, LeapDay(y))
  BY <1>1, DaysBefore
<1>5. DaysBeforeYear(y + 1) = DaysBeforeYear(y) + (IF IsLeap(y) THEN 366 ELSE 365)
  BY <1>1, LeapYears
<1>6. DaysBeforeYear(y + 1) = DaysBeforeYear(y) + 365 + LeapDay(y)
  BY <1>3, <1>5 DEF LeapDay
<1>7. LeapDay(y) \in {0, 1}
  BY <1>1, LeapDayType
<1>8. Preceding(m, LeapDay(y)) \in Int
  <2> DEFINE leap == LeapDay(y)
  <2>1. leap \in {0, 1}
    BY <1>7
  <2> HIDE DEF leap
  <2>2. Preceding(m, leap) \in Int
    BY <1>1, <2>1 DEF Preceding
  <2> QED BY <2>2 DEF leap
<1>9. FirstDay(i) = DaysBeforeYear(y) + Preceding(m, LeapDay(y))
  BY <1>2, <1>3, <1>4, <1>8 DEF Ordinal
<1> QED BY <1>2, <1>3, <1>4, <1>6, <1>9 DEF y, m

LEMMA BeforeType ==
  ASSUME NEW m \in 1 .. 13, NEW leap \in {0, 1}
  PROVE  Preceding(m, leap) \in 0 .. 366
BY DEF Preceding

LEMMA MonthsFollow ==
  ASSUME NEW i \in Int
  PROVE  /\ FirstDay(i) \in Int /\ LengthOf(i) \in 28 .. 31
         /\ FirstDay(i + 1) = FirstDay(i) + LengthOf(i)
<1> DEFINE y == i \div 12
           m == (i % 12) + 1
           leap == LeapDay(y)
           next == LeapDay(y + 1)
<1>1. y \in Int /\ m \in 1 .. 12 /\ i = 12 * y + m - 1
  BY NumberOfMonth
<1>2. /\ FirstDay(i) = DaysBeforeYear(y) + Preceding(m, leap)
      /\ LengthOf(i) = Preceding(m + 1, leap) - Preceding(m, leap)
      /\ DaysBeforeYear(y) \in Int
      /\ DaysBeforeYear(y + 1) = DaysBeforeYear(y) + 365 + leap
  BY MonthInYear
<1>3. m < 12 => (i + 1) \div 12 = y /\ ((i + 1) % 12) + 1 = m + 1
  OBVIOUS
<1>4. m = 12 => (i + 1) \div 12 = y + 1 /\ ((i + 1) % 12) + 1 = 1
  OBVIOUS
<1>5. FirstDay(i + 1) = DaysBeforeYear((i + 1) \div 12)
                          + Preceding(((i + 1) % 12) + 1, LeapDay((i + 1) \div 12))
  <2>1. i + 1 \in Int
    OBVIOUS
  <2> QED BY <2>1, MonthInYear
<1>6. leap \in {0, 1} /\ next \in {0, 1}
  <2> HIDE DEF y
  <2>1. y + 1 \in Int
    BY <1>1
  <2> QED BY <1>1, <2>1, LeapDayType
<1>7. m < 12 => FirstDay(i + 1) = DaysBeforeYear(y) + Preceding(m + 1, leap)
  BY <1>3, <1>5
<1>8. m = 12 => FirstDay(i + 1) = DaysBeforeYear(y + 1) + Preceding(1, next)
  BY <1>4, <1>5
<1> HIDE DEF y, m, leap, next
<1>9. Preceding(m, leap) \in Int /\ Preceding(m + 1, leap) \in Int
  <2>1. m \in 1 .. 13 /\ m + 1 \in 1 .. 13
    BY <1>1
  <2>2. Preceding(m, leap) \in 0 .. 366 /\ Preceding(m + 1, leap) \in 0 .. 366
    BY <1>6, <2>1, BeforeType
  <2> QED BY <2>2
<1>10. Preceding(1, next) = 0 /\ Preceding(13, leap) = 365 + leap
  BY <1>6 DEF Preceding
<1>11. FirstDay(i) \in Int /\ FirstDay(i + 1) = FirstDay(i) + LengthOf(i)
  <2>1. CASE m < 12
    BY <1>2, <1>7, <1>9, <2>1
  <2>2. CASE m = 12
    BY <1>2, <1>6, <1>8, <1>9, <1>10, <2>2
  <2> QED BY <1>1, <2>1, <2>2
<1>12. Preceding(m + 1, leap) - Preceding(m, leap) \in 28 .. 31
  <2>1. CASE m = 1
    BY <1>6, <2>1 DEF Preceding
  <2>2. CASE m = 2
    BY <1>6, <2>2 DEF Preceding
  <2>3. CASE m = 3
    BY <1>6, <2>3 DEF Preceding
  <2>4. CASE m = 4
    BY <1>6, <2>4 DEF Preceding
  <2>5. CASE m = 5
    BY <1>6, <2>5 DEF Preceding
  <2>6. CASE m = 6
    BY <1>6, <2>6 DEF Preceding
  <2>7. CASE m = 7
    BY <1>6, <2>7 DEF Preceding
  <2>8. CASE m = 8
    BY <1>6, <2>8 DEF Preceding
  <2>9. CASE m = 9
    BY <1>6, <2>9 DEF Preceding
  <2>10. CASE m = 10
    BY <1>6, <2>10 DEF Preceding
  <2>11. CASE m = 11
    BY <1>6, <2>11 DEF Preceding
  <2>12. CASE m = 12
    BY <1>6, <2>12 DEF Preceding
  <2> QED BY <1>1, <2>1, <2>2, <2>3, <2>4, <2>5, <2>6, <2>7, <2>8, <2>9, <2>10, <2>11, <2>12
<1> QED BY <1>2, <1>11, <1>12

LEMMA DateOfDay ==
  ASSUME NEW i \in Int, NEW day \in Int,
         FirstDay(i) < day, day <= FirstDay(i) + LengthOf(i)
  PROVE  /\ DateOf(day) = [y |-> i \div 12, m |-> (i % 12) + 1, d |-> day - FirstDay(i)]
         /\ MonthIndex(DateOf(day)) = i
<1> DEFINE y == i \div 12
           m == (i % 12) + 1
           leap == LeapDay(y)
           first == DaysBeforeYear(y)
           e == day - first
           even == day - Ordinal(y, 1, 1)
                     + (IF day < Ordinal(y, 3, 1) THEN 0 ELSE IF IsLeap(y) THEN 1 ELSE 2)
<1>1. y \in Int /\ m \in 1 .. 12 /\ i = 12 * y + m - 1
  BY NumberOfMonth
<1>2. FirstDay(i) = Ordinal(y, m, 0)
  BY DEF FirstDay
<1>3. MonthOf(y, day) = (12 * even + 373) \div 367
  BY DEF MonthOf
<1>4. /\ FirstDay(i) = first + Preceding(m, leap)
      /\ LengthOf(i) = Preceding(m + 1, leap) - Preceding(m, leap)
      /\ first \in Int
      /\ DaysBeforeYear(y + 1) = first + 365 + leap
  BY MonthInYear
<1> HIDE DEF y, m
<1>5. leap \in {0, 1} /\ (IsLeap(y) <=> leap = 1)
  BY <1>1, LeapDayType
<1>6. /\ Ordinal(y, 1, 1) = first + 1
      /\ Ordinal(y, 3, 1) = first + 60 + leap
  <2>1. DaysBeforeMonth(y, 1) = 0
    BY DEF DaysBeforeMonth
  <2>2. DaysBeforeMonth(y, 3) = 59 + leap
    BY <1>5 DEF DaysBeforeMonth
  <2> HIDE DEF leap
  <2> QED BY <1>4, <1>5, <2>1, <2>2 DEF Ordinal
<1>7. even = e - 1 + (IF e < 60 + leap THEN 0 ELSE 2 - leap)
  <2> HIDE DEF leap, first
  <2> QED BY <1>4, <1>5, <1>6
<1> HIDE DEF leap, first
<1>8. Preceding(m, leap) \in Int /\ Preceding(m + 1, leap) \in Int
  <2>1. m \in 1 .. 13 /\ m + 1 \in 1 .. 13
    BY <1>1
  <2>2. Preceding(m, leap) \in 0 .. 366 /\ Preceding(m + 1, leap) \in 0 .. 366
    BY <1>5, <2>1, BeforeType
  <2> QED BY <2>2
<1>9. e \in Int /\ Preceding(m, leap) < e /\ e <= Preceding(m + 1, leap)
  BY <1>4, <1>8
<1>10. 0 < e /\ e <= 365 + leap
  <2>1. Preceding(m, leap) >= 0 /\ Preceding(m + 1, leap) <= 365 + leap
    BY <1>1, <1>5 DEF Preceding
  <2> HIDE DEF e
  <2> QED BY <1>5, <1>8, <1>9, <2>1
<1>11. YearOf(day) = y
  <2>1. DaysBeforeYear(y) < day /\ day <= DaysBeforeYear(y + 1)
    BY <1>4, <1>5, <1>10 DEF first
  <2> QED BY <1>1, <2>1, YearOfDay
<1> HIDE DEF e, even
<1>12. MonthOf(y, day) = m
  <2>1. CASE m = 1
    BY <1>3, <1>5, <1>7, <1>9, <2>1 DEF Preceding
  <2>2. CASE m = 2
    BY <1>3, <1>5, <1>7, <1>9, <2>2 DEF Preceding
  <2>3. CASE m = 3
    BY <1>3, <1>5, <1>7, <1>9, <2>3 DEF Preceding
  <2>4. CASE m = 4
    BY <1>3, <1>5, <1>7, <1>9, <2>4 DEF Preceding
  <2>5. CASE m = 5
    BY <1>3, <1>5, <1>7, <1>9, <2>5 DEF Preceding
  <2>6. CASE m = 6
    BY <1>3, <1>5, <1>7, <1>9, <2>6 DEF Preceding
  <2>7. CASE m = 7
    BY <1>3, <1>5, <1>7, <1>9, <2>7 DEF Preceding
  <2>8. CASE m = 8
    BY <1>3, <1>5, <1>7, <1>9, <2>8 DEF Preceding
  <2>9. CASE m = 9
    BY <1>3, <1>5, <1>7, <1>9, <2>9 DEF Preceding
  <2>10. CASE m = 10
    BY <1>3, <1>5, <1>7, <1>9, <2>10 DEF Preceding
  <2>11. CASE m = 11
    BY <1>3, <1>5, <1>7, <1>9, <2>11 DEF Preceding
  <2>12. CASE m = 12
    BY <1>3, <1>5, <1>7, <1>9, <2>12 DEF Preceding
  <2> QED BY <1>1, <2>1, <2>2, <2>3, <2>4, <2>5, <2>6, <2>7, <2>8, <2>9, <2>10, <2>11, <2>12
<1>13. DateOf(day) = [y |-> y, m |-> m, d |-> day - FirstDay(i)]
  BY <1>2, <1>11, <1>12 DEF DateOf, DateIn
<1> QED BY <1>1, <1>13 DEF MonthIndex, y, m

\* Every day is in a year.
LEMMA DayInYear ==
  ASSUME NEW day \in Int
  PROVE  \E y \in Int : DaysBeforeYear(y) < day /\ day <= DaysBeforeYear(y + 1)
<1> DEFINE g == (400 * (day - 1)) \div 146097 + 1
<1>1. g \in Int /\ 146097 * (g - 1) <= 400 * (day - 1) /\ 400 * (day - 1) < 146097 * g
  OBVIOUS
<1> HIDE DEF g
<1>2. /\ g - 1 \in Int /\ g + 1 \in Int /\ g + 2 \in Int
      /\ (g - 1) + 1 = g /\ (g + 1) + 1 = g + 2
  BY <1>1
<1>3. /\ DaysBeforeYear(g - 1) \in Int
      /\ 400 * DaysBeforeYear(g - 1) <= 146097 * ((g - 1) - 1) + 396
      /\ DaysBeforeYear(g + 2) \in Int
      /\ 146097 * ((g + 2) - 1) - 699 <= 400 * DaysBeforeYear(g + 2)
      /\ DaysBeforeYear(g) \in Int /\ DaysBeforeYear(g + 1) \in Int
  BY <1>1, <1>2, YearLength
<1>4. DaysBeforeYear(g - 1) < day /\ day <= DaysBeforeYear(g + 2)
  BY <1>1, <1>3
<1>5. CASE day <= DaysBeforeYear(g)
  BY <1>2, <1>4, <1>5
<1>6. CASE DaysBeforeYear(g) < day /\ day <= DaysBeforeYear(g + 1)
  BY <1>1, <1>6
<1>7. CASE DaysBeforeYear(g + 1) < day
  BY <1>2, <1>4, <1>7
<1> QED BY <1>3, <1>5, <1>6, <1>7

\* Every day is in a month.
LEMMA DayInMonth ==
  ASSUME NEW day \in Int
  PROVE  \E i \in Int : FirstDay(i) < day /\ day <= FirstDay(i) + LengthOf(i)
<1>1. PICK y \in Int : DaysBeforeYear(y) < day /\ day <= DaysBeforeYear(y + 1)
  BY DayInYear
<1> DEFINE first == DaysBeforeYear(y)
           leap == LeapDay(y)
           month(m) == 12 * y + m - 1
<1>2. first \in Int /\ DaysBeforeYear(y + 1) = first + 365 + leap /\ leap \in {0, 1}
  <2>1. first \in Int
    BY YearLength
  <2>2. leap \in {0, 1}
    BY LeapDayType
  <2>3. DaysBeforeYear(y + 1) = first + (IF IsLeap(y) THEN 366 ELSE 365)
    BY LeapYears
  <2> HIDE DEF first
  <2> QED BY <2>1, <2>2, <2>3 DEF LeapDay
<1>3. ASSUME NEW m \in 1 .. 12
      PROVE  /\ month(m) \in Int
             /\ FirstDay(month(m)) = first + Preceding(m, leap)
             /\ FirstDay(month(m)) + LengthOf(month(m)) = first + Preceding(m + 1, leap)
  <2>1. month(m) \in Int /\ month(m) \div 12 = y /\ (month(m) % 12) + 1 = m
    OBVIOUS
  <2>2. /\ FirstDay(month(m)) = first + Preceding(m, leap)
        /\ LengthOf(month(m)) = Preceding(m + 1, leap) - Preceding(m, leap)
    <3> DEFINE i == month(m)
    <3>1. i \in Int /\ i \div 12 = y /\ (i % 12) + 1 = m
      BY <2>1
    <3> HIDE DEF i
    <3>2. /\ FirstDay(i) = first + Preceding(m, leap)
          /\ LengthOf(i) = Preceding(m + 1, leap) - Preceding(m, leap)
      BY <3>1, MonthInYear
    <3> QED BY <3>2 DEF i
  <2>3. m \in 1 .. 13 /\ m + 1 \in 1 .. 13
    OBVIOUS
  <2>4. Preceding(m, leap) \in 0 .. 366 /\ Preceding(m + 1, leap) \in 0 .. 366
    BY <1>2, <2>3, BeforeType
  <2> DEFINE here == Preceding(m, leap)
             after == Preceding(m + 1, leap)
  <2>5. first \in Int /\ here \in Int /\ after \in Int
    BY <1>2, <2>4
  <2>6. first + here + (after - here) = first + after
    <3> HIDE DEF first, here, after
    <3> QED BY <2>5
  <2> QED BY <2>1, <2>2, <2>6
<1> HIDE DEF first, leap, month
<1>4. PICK m \in 1 .. 12 : first + Preceding(m, leap) < day /\ day <= first + Preceding(m + 1, leap)
  <2>1. first + Preceding(1, leap) < day
    BY <1>1, <1>2 DEF first, Preceding
  <2>2. day <= first + Preceding(13, leap)
    BY <1>1, <1>2 DEF first, Preceding
  <2> SUFFICES ASSUME \A m \in 1 .. 12 : first + Preceding(m, leap) < day =>
                                         ~(day <= first + Preceding(m + 1, leap))
               PROVE  FALSE
    OBVIOUS
  <2>3. \A m \in 1 .. 13 : Preceding(m, leap) \in 0 .. 366
    BY <1>2, BeforeType
  <2>4. \A m \in 1 .. 12 : first + Preceding(m, leap) < day => first + Preceding(m + 1, leap) < day
    <3>1. SUFFICES ASSUME NEW m \in 1 .. 12, first + Preceding(m, leap) < day
                   PROVE  first + Preceding(m + 1, leap) < day
      OBVIOUS
    <3>2. m + 1 \in 1 .. 13
      OBVIOUS
    <3>3. Preceding(m + 1, leap) \in 0 .. 366
      BY <2>3, <3>2
    <3>4. ~(day <= first + Preceding(m + 1, leap))
      BY <3>1
    <3> QED BY <1>2, <3>3, <3>4
  <2>5. /\ first + Preceding(2, leap) < day /\ first + Preceding(3, leap) < day
        /\ first + Preceding(4, leap) < day /\ first + Preceding(5, leap) < day
        /\ first + Preceding(6, leap) < day /\ first + Preceding(7, leap) < day
        /\ first + Preceding(8, leap) < day /\ first + Preceding(9, leap) < day
        /\ first + Preceding(10, leap) < day /\ first + Preceding(11, leap) < day
        /\ first + Preceding(12, leap) < day
    BY <2>1, <2>4, 1 + 1 = 2, 2 + 1 = 3, 3 + 1 = 4, 4 + 1 = 5, 5 + 1 = 6, 6 + 1 = 7, 7 + 1 = 8,
       8 + 1 = 9, 9 + 1 = 10, 10 + 1 = 11, 11 + 1 = 12
  <2>6. first + Preceding(13, leap) < day
    BY <2>4, <2>5, 12 + 1 = 13
  <2> QED BY <1>2, <2>2, <2>3, <2>6
<1> QED BY <1>3, <1>4

\* The date of a day is the day of that date, and its month is where it lies.
LEMMA EveryDay ==
  ASSUME NEW day \in Int
  PROVE  LET i == MonthIndex(DateOf(day))
         IN  /\ i \in Int
             /\ FirstDay(i) < day /\ day <= FirstDay(i) + LengthOf(i)
             /\ DateOf(day) = [y |-> i \div 12, m |-> (i % 12) + 1, d |-> day - FirstDay(i)]
<1>1. PICK i \in Int : FirstDay(i) < day /\ day <= FirstDay(i) + LengthOf(i)
  BY DayInMonth
<1> QED BY <1>1, DateOfDay

LEMMA DayOfDate ==
  ASSUME NEW i \in Int, NEW d \in Int
  PROVE  LET date == [y |-> i \div 12, m |-> (i % 12) + 1, d |-> d]
         IN  date \in Date /\ MonthIndex(date) = i /\ DayNumber(date) = FirstDay(i) + d
<1> DEFINE y == i \div 12
           m == (i % 12) + 1
<1>1. y \in Int /\ m \in 1 .. 12 /\ i = 12 * y + m - 1
  BY NumberOfMonth
<1>2. FirstDay(i) = Ordinal(y, m, 0)
  BY DEF FirstDay
<1> HIDE DEF y, m
<1>3. Ordinal(y, m, d) = Ordinal(y, m, 0) + d
  <2>1. DaysBeforeYear(y) \in Int
    BY <1>1, YearLength
  <2>2. DaysBeforeMonth(y, m) \in Int
    BY <1>1 DEF DaysBeforeMonth
  <2> QED BY <2>1, <2>2 DEF Ordinal
<1>4. [y |-> y, m |-> m, d |-> d] \in Date
  BY <1>1 DEF Date
<1> QED BY <1>1, <1>2, <1>3, <1>4 DEF MonthIndex, DayNumber, y, m

LEMMA EveryYear ==
  ASSUME NEW day \in Int
  PROVE  LET y == DateOf(day).y
         IN  y \in Int /\ DaysBeforeYear(y) < day /\ day <= DaysBeforeYear(y + 1)
<1>1. PICK y \in Int : DaysBeforeYear(y) < day /\ day <= DaysBeforeYear(y + 1)
  BY DayInYear
<1>2. YearOf(day) = y
  BY <1>1, YearOfDay
<1>3. DateOf(day).y = YearOf(day)
  BY DEF DateOf, DateIn
<1> QED BY <1>1, <1>2, <1>3

LEMMA YearIs ==
  ASSUME NEW y \in Int, NEW day \in Int,
         DaysBeforeYear(y) < day, day <= DaysBeforeYear(y + 1)
  PROVE  DateOf(day).y = y
<1>1. DateOf(day).y = YearOf(day)
  BY DEF DateOf, DateIn
<1> QED BY <1>1, YearOfDay

----------------------------------------------------------------------------
(* Days and instants                                                         *)

LEMMA DayType == Day \in Nat \ {0} /\ Offset \in Nat
BY QueryAssumption

LEMMA MidnightsFollow ==
  ASSUME NEW day \in Int
  PROVE  Midnight(day) \in Int /\ Midnight(day + 1) = Midnight(day) + Day
<1> DEFINE n == Day
<1>1. n \in Nat \ {0}
  BY DayType
<1> HIDE DEF n
<1>2. day * n \in Int /\ (day + 1) * n = day * n + n
  BY <1>1
<1> QED BY <1>2 DEF Midnight, n

LEMMA MidnightsAreOrdered ==
  ASSUME NEW a \in Int, NEW b \in Int, a < b
  PROVE  Midnight(a) + Day <= Midnight(b)
<1> DEFINE n == Day
           c == b - a - 1
<1>1. n \in Nat \ {0} /\ c \in Nat /\ b = a + 1 + c
  BY DayType
<1> HIDE DEF n, c
<1>2. c * n \in Nat /\ a * n \in Int /\ (a + 1 + c) * n = a * n + n + c * n
  BY <1>1
<1>3. b * n = a * n + n + c * n
  BY <1>1, <1>2
<1> QED BY <1>1, <1>2, <1>3 DEF Midnight, n

LEMMA InstantInDay ==
  ASSUME NEW t \in Int
  PROVE  /\ DayOf(t) \in Int /\ t % Day \in 0 .. (Day - 1)
         /\ t = Midnight(DayOf(t)) + (t % Day)
<1> DEFINE n == Day
<1>1. n \in Nat \ {0}
  BY DayType
<1> HIDE DEF n
<1>2. /\ t \div n \in Int /\ t % n \in 0 .. (n - 1)
      /\ t = (t \div n) * n + (t % n)
  BY <1>1
<1> QED BY <1>2 DEF DayOf, Midnight, n

LEMMA DayOfInstant ==
  ASSUME NEW day \in Int, NEW r \in 0 .. (Day - 1)
  PROVE  DayOf(Midnight(day) + r) = day /\ (Midnight(day) + r) % Day = r
<1> DEFINE t == Midnight(day) + r
           q == DayOf(t)
           s == t % Day
<1>1. t \in Int /\ Day \in Nat \ {0} /\ Midnight(day) \in Int /\ r \in Int
  BY DayType, MidnightsFollow
<1>2. q \in Int /\ s \in 0 .. (Day - 1) /\ t = Midnight(q) + s /\ Midnight(q) \in Int
  BY <1>1, InstantInDay, MidnightsFollow
<1>3. t = Midnight(day) + r
  OBVIOUS
<1> HIDE DEF q, s, t
<1>4. ~(q < day)
  <2>1. SUFFICES ASSUME q < day PROVE FALSE
    OBVIOUS
  <2>2. Midnight(q) + Day <= Midnight(day)
    BY <1>2, <2>1, MidnightsAreOrdered
  <2> QED BY <1>1, <1>2, <1>3, <2>2
<1>5. ~(day < q)
  <2>1. SUFFICES ASSUME day < q PROVE FALSE
    OBVIOUS
  <2>2. Midnight(day) + Day <= Midnight(q)
    BY <1>2, <2>1, MidnightsAreOrdered
  <2> QED BY <1>1, <1>2, <1>3, <2>2
<1>6. q = day
  BY <1>2, <1>4, <1>5
<1>7. s = r
  BY <1>1, <1>2, <1>3, <1>6
<1> QED BY <1>6, <1>7 DEF q, s, t

\* The instant before another is in the same day, or at the end of the day before.
LEMMA InstantBefore ==
  ASSUME NEW day \in Int, NEW r \in 0 .. (Day - 1)
  PROVE  LET t == Midnight(day) + r - 1
         IN  /\ r = 0 => DayOf(t) = day - 1
             /\ r > 0 => DayOf(t) = day /\ t % Day = r - 1
<1>1. Midnight(day) \in Int /\ Day \in Nat \ {0} /\ Midnight(day - 1) \in Int
      /\ Midnight((day - 1) + 1) = Midnight(day - 1) + Day
  <2>1. day - 1 \in Int
    OBVIOUS
  <2> QED BY <2>1, DayType, MidnightsFollow
<1>2. Midnight(day) = Midnight(day - 1) + Day
  BY <1>1, (day - 1) + 1 = day
<1>3. CASE r = 0
  <2>1. Midnight(day) + r - 1 = Midnight(day - 1) + (Day - 1)
    BY <1>1, <1>2, <1>3
  <2>2. DayOf(Midnight(day - 1) + (Day - 1)) = day - 1
    BY <1>1, DayOfInstant, day - 1 \in Int, Day - 1 \in 0 .. (Day - 1)
  <2> QED BY <1>3, <2>1, <2>2
<1>4. CASE r > 0
  <2>1. r - 1 \in 0 .. (Day - 1) /\ Midnight(day) + r - 1 = Midnight(day) + (r - 1)
    BY <1>1, <1>4
  <2>2. DayOf(Midnight(day) + (r - 1)) = day /\ (Midnight(day) + (r - 1)) % Day = r - 1
    BY <2>1, DayOfInstant
  <2> QED BY <1>4, <2>1, <2>2
<1> QED BY <1>1, <1>3, <1>4

LEMMA AtMidnight ==
  ASSUME NEW day \in Int
  PROVE  /\ DayOf(Midnight(day)) = day /\ Midnight(day) % Day = 0
         /\ DayOf(Midnight(day) - 1) = day - 1
<1>1. 0 \in 0 .. (Day - 1) /\ Midnight(day) \in Int
  BY DayType, MidnightsFollow
<1>2. Midnight(day) + 0 = Midnight(day) /\ Midnight(day) + 0 - 1 = Midnight(day) - 1
  BY <1>1
<1> QED BY <1>1, <1>2, DayOfInstant, InstantBefore

\* An instant after a midnight follows one that is not before it.
LEMMA AfterMidnight ==
  ASSUME NEW day \in Int, NEW t \in Int, Midnight(day) < t
  PROVE  DayOf(t - 1) \in day .. DayOf(t)
<1> DEFINE q == DayOf(t - 1)
           p == DayOf(t)
<1>1. /\ p \in Int /\ t % Day \in 0 .. (Day - 1) /\ t = Midnight(p) + (t % Day)
      /\ Midnight(p) \in Int
  BY InstantInDay, MidnightsFollow
<1>2. q = p \/ q = p - 1
  BY <1>1, InstantBefore
<1>3. /\ q \in Int /\ (t - 1) % Day \in 0 .. (Day - 1) /\ t - 1 = Midnight(q) + ((t - 1) % Day)
      /\ Midnight(q) \in Int
  <2>1. t - 1 \in Int
    OBVIOUS
  <2> QED BY <2>1, InstantInDay, MidnightsFollow
<1> HIDE DEF p, q
<1>4. ~(q < day)
  <2>1. SUFFICES ASSUME q < day PROVE FALSE
    OBVIOUS
  <2>2. Midnight(q) + Day <= Midnight(day) /\ Midnight(day) \in Int
    BY <1>3, <2>1, MidnightsAreOrdered, MidnightsFollow
  <2> QED BY <1>3, <2>2, DayType
<1> QED BY <1>1, <1>2, <1>3, <1>4 DEF p, q

----------------------------------------------------------------------------
(* What the words mean, one by one                                           *)

Index(day) == MonthIndex(DateOf(day))

InCurrent(word, day, today) ==
  \/ word = "today" /\ day = today
  \/ word = "this week" /\ (day + 6) \div 7 = (today + 6) \div 7
  \/ word = "this month" /\ Index(day) = Index(today)
  \/ word = "this year" /\ DateOf(day).y = DateOf(today).y

InPast(word, day, today) ==
  \/ word = "yesterday" /\ day = today - 1
  \/ word = "two days ago" /\ day = today - 2
  \/ word = "last week" /\ (day + 6) \div 7 = (today + 6) \div 7 - 1
  \/ word = "last weekend" /\ (day + 6) \div 7 = (today + 6) \div 7 - 1 /\ Weekday(day) \in {5, 6}
  \/ word = "last month" /\ Index(day) = Index(today) - 1
  \/ word = "last year" /\ DateOf(day).y = DateOf(today).y - 1

\* t is within the months before c, down to the same day and time, or the last
\* day of the month if it has no such day.
SinceMonths(months, c, t) ==
  LET date == DateOf(DayOf(t))
      month == Index(DayOf(t)) - Index(DayOf(c))
      d == DateOf(DayOf(c)).d
  IN  \/ month > -months
      \/ /\ month = -months
         /\ \/ date.d > d
            \/ date.d = Lesser(d, MonthLength(date.y, date.m)) /\ t % Day >= c % Day

LEMMA MeantWords ==
  ASSUME NEW token, NEW c, NEW t
  PROVE  LET day == DayOf(t)
             today == DayOf(c)
             week == (day + 6) \div 7
             thisWeek == (today + 6) \div 7
             month == MonthIndex(DateOf(day)) - MonthIndex(DateOf(today))
             year == DateOf(day).y - DateOf(today).y
             word == token.word
         IN  /\ word = "today" => (Meant(token, c, t) <=> day = today /\ t < c)
             /\ word = "this week" => (Meant(token, c, t) <=> week = thisWeek /\ t < c)
             /\ word = "this month" => (Meant(token, c, t) <=> month = 0 /\ t < c)
             /\ word = "this year" => (Meant(token, c, t) <=> year = 0 /\ t < c)
             /\ word = "yesterday" => (Meant(token, c, t) <=> day = today - 1)
             /\ word = "two days ago" => (Meant(token, c, t) <=> day = today - 2)
             /\ word = "last week" => (Meant(token, c, t) <=> week = thisWeek - 1)
             /\ word = "last weekend" =>
                  (Meant(token, c, t) <=> week = thisWeek - 1 /\ Weekday(day) \in {5, 6})
             /\ word = "last month" => (Meant(token, c, t) <=> month = -1)
             /\ word = "last year" => (Meant(token, c, t) <=> year = -1)
BY DEF Meant, ElapsedUnits, CalendarUnits

LEMMA MeantCurrent ==
  ASSUME NEW token, NEW c \in Int, NEW t \in Int, token.word \in CurrentWords
  PROVE  Meant(token, c, t) <=> t < c /\ InCurrent(token.word, DayOf(t), DayOf(c))
<1> DEFINE day == DayOf(t)
           today == DayOf(c)
           month == Index(day) - Index(today)
           year == DateOf(day).y - DateOf(today).y
           means == Meant(token, c, t)
<1>1. day \in Int /\ today \in Int
  BY InstantInDay
<1>2. Index(day) \in Int /\ Index(today) \in Int /\ DateOf(day).y \in Int /\ DateOf(today).y \in Int
  BY <1>1, EveryDay, DateOfType DEF Index, Date
<1>3. /\ token.word = "today" => (means <=> day = today /\ t < c)
      /\ token.word = "this week" => (means <=> (day + 6) \div 7 = (today + 6) \div 7 /\ t < c)
      /\ token.word = "this month" => (means <=> month = 0 /\ t < c)
      /\ token.word = "this year" => (means <=> year = 0 /\ t < c)
  BY MeantWords DEF Index
<1>4. (month = 0 <=> Index(day) = Index(today)) /\ (year = 0 <=> DateOf(day).y = DateOf(today).y)
  <2> HIDE DEF day, today
  <2> QED BY <1>2
<1> HIDE DEF month, year, means
<1>5. means <=> t < c /\ InCurrent(token.word, day, today)
  <2> HIDE DEF day, today
  <2> QED BY <1>3, <1>4 DEF CurrentWords, InCurrent
<1> QED BY <1>5 DEF means

LEMMA MeantPast ==
  ASSUME NEW token, NEW c \in Int, NEW t \in Int, token.word \in PastWords
  PROVE  Meant(token, c, t) <=> InPast(token.word, DayOf(t), DayOf(c))
<1> DEFINE day == DayOf(t)
           today == DayOf(c)
           month == Index(day) - Index(today)
           year == DateOf(day).y - DateOf(today).y
           lastWeek == (day + 6) \div 7 = (today + 6) \div 7 - 1
           means == Meant(token, c, t)
<1>1. day \in Int /\ today \in Int
  BY InstantInDay
<1>2. Index(day) \in Int /\ Index(today) \in Int /\ DateOf(day).y \in Int /\ DateOf(today).y \in Int
  BY <1>1, EveryDay, DateOfType DEF Index, Date
<1>3. /\ token.word = "yesterday" => (means <=> day = today - 1)
      /\ token.word = "two days ago" => (means <=> day = today - 2)
      /\ token.word = "last week" => (means <=> lastWeek)
      /\ token.word = "last weekend" => (means <=> lastWeek /\ Weekday(day) \in {5, 6})
      /\ token.word = "last month" => (means <=> month = -1)
      /\ token.word = "last year" => (means <=> year = -1)
  BY MeantWords DEF Index
<1>4. /\ month = -1 <=> Index(day) = Index(today) - 1
      /\ year = -1 <=> DateOf(day).y = DateOf(today).y - 1
  <2> HIDE DEF day, today
  <2> QED BY <1>2
<1> HIDE DEF month, year, means
<1>5. means <=> InPast(token.word, day, today)
  <2> HIDE DEF day, today
  <2> QED BY <1>3, <1>4 DEF PastWords, InPast
<1> QED BY <1>5 DEF means

LEMMA MeantElapsed ==
  ASSUME NEW token, NEW c, NEW t, token.word \in DOMAIN ElapsedUnits
  PROVE  Meant(token, c, t) <=> t < c /\ c - t <= token.args[1] * ElapsedUnits[token.word]
<1>1. token.word \in {"hours", "days", "weeks"}
  BY DEF ElapsedUnits
<1> QED BY <1>1 DEF Meant, ElapsedUnits, CalendarUnits

LEMMA MeantMonths ==
  ASSUME NEW token, NEW c, NEW t, token.word \in DOMAIN CalendarUnits
  PROVE  Meant(token, c, t) <=>
           t < c /\ SinceMonths(token.args[1] * CalendarUnits[token.word], c, t)
<1>1. token.word \in {"months", "years"}
  BY DEF CalendarUnits
<1> DEFINE months == token.args[1] * CalendarUnits[token.word]
<1>2. Meant(token, c, t) <=> t < c /\ SinceMonths(months, c, t)
  BY <1>1 DEF Meant, SinceMonths, Index, ElapsedUnits
<1> QED BY <1>2

LEMMA MeantDates ==
  ASSUME NEW token, NEW c, NEW t
  PROVE  LET date == DateOf(DayOf(t))
         IN  /\ token.word = "date" =>
                  (Meant(token, c, t) <=> token.args = <<date.y, date.m, date.d>>)
             /\ token.word = "month" =>
                  (Meant(token, c, t) <=> token.args = <<date.y, date.m>>)
             /\ token.word = "month day" =>
                  (Meant(token, c, t) <=> /\ date.y - DateOf(DayOf(c)).y = 0
                                          /\ token.args = <<date.m, date.d>>)
BY DEF Meant, ElapsedUnits, CalendarUnits

----------------------------------------------------------------------------
(* Relative periods                                                          *)

LEMMA IndexOfDay ==
  ASSUME NEW day \in Int
  PROVE  LET i == Index(day)
         IN  /\ i \in Int /\ FirstDay(i) \in Int /\ LengthOf(i) \in Int
             /\ FirstDay(i) < day /\ day <= FirstDay(i) + LengthOf(i)
<1> DEFINE i == Index(day)
<1>1. i \in Int /\ FirstDay(i) < day /\ day <= FirstDay(i) + LengthOf(i)
  BY EveryDay DEF Index
<1> HIDE DEF i
<1>2. FirstDay(i) \in Int /\ LengthOf(i) \in 28 .. 31
  BY <1>1, MonthsFollow
<1> QED BY <1>1, <1>2 DEF i

\* The first days of this month and year, and of the last ones.
LEMMA FirstDays ==
  ASSUME NEW today \in Int
  PROVE  LET i == Index(today)
             y == DateOf(today).y
             date == DateOf(today)
         IN  /\ i \in Int /\ y \in Int
             /\ DayNumber(FirstOfMonth(date)) = FirstDay(i) + 1
             /\ DayNumber(Shifted(FirstOfMonth(date), -1)) = FirstDay(i - 1) + 1
             /\ DayNumber(FirstOfYear(date)) = DaysBeforeYear(y) + 1
             /\ DayNumber(Shifted(FirstOfYear(date), -12)) = DaysBeforeYear(y - 1) + 1
<1> DEFINE i == Index(today)
           date == DateOf(today)
           y == date.y
<1>1. /\ i \in Int
      /\ date = [y |-> i \div 12, m |-> (i % 12) + 1, d |-> today - FirstDay(i)]
  BY EveryDay DEF Index
<1>2. y \in Int
  BY EveryYear
<1>3. FirstDay(i) \in Int
  BY <1>1, MonthsFollow
<1> HIDE DEF i
<1>4. FirstOfMonth(date) = [y |-> i \div 12, m |-> (i % 12) + 1, d |-> 1]
  BY <1>1 DEF FirstOfMonth
<1>5. MonthIndex(FirstOfMonth(date)) = i /\ DayNumber(FirstOfMonth(date)) = FirstDay(i) + 1
  BY <1>1, <1>4, DayOfDate
<1>6. DayNumber(Shifted(FirstOfMonth(date), -1)) = FirstDay(i - 1) + 1
  <2> DEFINE j == i - 1
  <2>1. j \in Int /\ i + (-1) = j
    BY <1>1
  <2>2. LengthOf(j) \in 28 .. 31
    BY <2>1, MonthsFollow
  <2> HIDE DEF j
  <2>3. Shifted(FirstOfMonth(date), -1) =
          [y |-> j \div 12, m |-> (j % 12) + 1, d |-> Lesser(1, LengthOf(j))]
    BY <1>4, <1>5, <2>1 DEF Shifted, LengthOf
  <2>4. Lesser(1, LengthOf(j)) = 1
    BY <2>2 DEF Lesser
  <2>5. DayNumber(Shifted(FirstOfMonth(date), -1)) = FirstDay(j) + 1
    BY <2>1, <2>3, <2>4, DayOfDate
  <2> QED BY <2>5 DEF j
<1>7. FirstOfYear(date) = [y |-> y, m |-> 1, d |-> 1]
  BY DEF FirstOfYear
<1> HIDE DEF date, y
<1>8. ASSUME NEW z \in Int
      PROVE  DayNumber([y |-> z, m |-> 1, d |-> 1]) = DaysBeforeYear(z) + 1
  <2>1. DaysBeforeMonth(z, 1) = 0
    BY DEF DaysBeforeMonth
  <2>2. DaysBeforeYear(z) \in Int
    BY YearLength
  <2> QED BY <2>1, <2>2 DEF DayNumber, Ordinal
<1>9. DayNumber(FirstOfYear(date)) = DaysBeforeYear(y) + 1
  BY <1>2, <1>7, <1>8
<1>10. Shifted(FirstOfYear(date), -12) = [y |-> y - 1, m |-> 1, d |-> 1]
  <2>1. MonthIndex(FirstOfYear(date)) = y * 12
    BY <1>2, <1>7 DEF MonthIndex
  <2>2. (y * 12 + (-12)) \div 12 = y - 1 /\ (y * 12 + (-12)) % 12 = 0
    BY <1>2
  <2>3. Lesser(1, MonthLength(y - 1, 1)) = 1
    BY DEF MonthLength, Lesser
  <2>4. FirstOfYear(date).d = 1
    BY <1>7
  <2> QED BY <2>1, <2>2, <2>3, <2>4 DEF Shifted
<1>11. y - 1 \in Int
  BY <1>2
<1>12. DayNumber(Shifted(FirstOfYear(date), -12)) = DaysBeforeYear(y - 1) + 1
  BY <1>8, <1>10, <1>11
<1> QED BY <1>1, <1>2, <1>5, <1>6, <1>9, <1>12 DEF i, date, y

\* The days of a current period are those from its first one.
LEMMA CurrentDays ==
  ASSUME NEW word \in CurrentWords, NEW today \in Int
  PROVE  LET first == CurrentStart(word, today)
         IN  /\ first \in Int
             /\ \A day \in first .. today : InCurrent(word, day, today)
             /\ ~InCurrent(word, first - 1, today)
<1> DEFINE i == Index(today)
           y == DateOf(today).y
           first == CurrentStart(word, today)
<1>1. /\ i \in Int /\ y \in Int
      /\ DayNumber(FirstOfMonth(DateOf(today))) = FirstDay(i) + 1
      /\ DayNumber(FirstOfYear(DateOf(today))) = DaysBeforeYear(y) + 1
  BY FirstDays
<1>2. CASE word = "today"
  <2>1. first = today
    BY <1>2 DEF CurrentStart
  <2> QED BY <1>2, <2>1 DEF InCurrent
<1>3. CASE word = "this week"
  <2>1. first = today - ((today + 6) % 7)
    BY <1>3 DEF CurrentStart, Weekday
  <2> HIDE DEF first
  <2>2. first \in Int
    BY <2>1
  <2>3. \A day \in first .. today : (day + 6) \div 7 = (today + 6) \div 7
    BY <2>1
  <2>4. (first - 1 + 6) \div 7 # (today + 6) \div 7
    BY <2>1
  <2> QED BY <1>3, <2>2, <2>3, <2>4 DEF InCurrent, first
<1>4. CASE word = "this month"
  <2>1. first = FirstDay(i) + 1
    BY <1>1, <1>4 DEF CurrentStart
  <2>2. /\ FirstDay(i) \in Int /\ today <= FirstDay(i) + LengthOf(i)
        /\ LengthOf(i) \in Int
    BY IndexOfDay
  <2>3. /\ i - 1 \in Int /\ FirstDay(i - 1) \in Int /\ LengthOf(i - 1) \in 28 .. 31
        /\ FirstDay(i) = FirstDay(i - 1) + LengthOf(i - 1)
    <3>1. i - 1 \in Int /\ (i - 1) + 1 = i
      BY <1>1
    <3> HIDE DEF i
    <3> QED BY <3>1, MonthsFollow
  <2> HIDE DEF i, first
  <2>4. first \in Int
    BY <2>1, <2>2
  <2>5. ASSUME NEW day \in first .. today PROVE Index(day) = i
    <3>1. day \in Int /\ FirstDay(i) < day /\ day <= FirstDay(i) + LengthOf(i)
      BY <2>1, <2>2, <2>4
    <3> QED BY <1>1, <3>1, DateOfDay DEF Index
  <2>6. Index(first - 1) # i
    <3>1. /\ first - 1 \in Int /\ FirstDay(i - 1) < first - 1
          /\ first - 1 <= FirstDay(i - 1) + LengthOf(i - 1)
      BY <2>1, <2>2, <2>3
    <3>2. Index(first - 1) = i - 1
      BY <2>3, <3>1, DateOfDay DEF Index
    <3> QED BY <1>1, <3>2
  <2> QED BY <1>4, <2>4, <2>5, <2>6 DEF InCurrent, i, first
<1>5. CASE word = "this year"
  <2>1. first = DaysBeforeYear(y) + 1
    BY <1>1, <1>5 DEF CurrentStart
  <2>2. /\ DaysBeforeYear(y) \in Int /\ DaysBeforeYear(y + 1) \in Int
        /\ today <= DaysBeforeYear(y + 1)
    <3>1. y + 1 \in Int
      BY <1>1
    <3>2. today <= DaysBeforeYear(y + 1)
      BY EveryYear
    <3> HIDE DEF y
    <3> QED BY <1>1, <3>1, <3>2, YearLength
  <2>3. y - 1 \in Int /\ DaysBeforeYear(y - 1) \in Int /\ DaysBeforeYear(y - 1) < DaysBeforeYear(y)
    <3> DEFINE z == y - 1
    <3>1. z \in Int /\ z + 1 = y
      BY <1>1
    <3> HIDE DEF z
    <3>2. DaysBeforeYear(z) \in Int
      BY <3>1, YearLength
    <3>3. DaysBeforeYear(z + 1) = DaysBeforeYear(z) + (IF IsLeap(z) THEN 366 ELSE 365)
      BY <3>1, LeapYears
    <3>4. DaysBeforeYear(z) < DaysBeforeYear(z + 1)
      BY <3>2, <3>3
    <3> QED BY <3>1, <3>2, <3>4 DEF z
  <2> HIDE DEF y, first
  <2>4. first \in Int
    BY <2>1, <2>2
  <2>5. ASSUME NEW day \in first .. today PROVE DateOf(day).y = y
    <3>1. day \in Int /\ DaysBeforeYear(y) < day /\ day <= DaysBeforeYear(y + 1)
      BY <2>1, <2>2, <2>4
    <3> QED BY <1>1, <3>1, YearIs
  <2>6. DateOf(first - 1).y # y
    <3>1. first - 1 = DaysBeforeYear(y) /\ (y - 1) + 1 = y
      BY <1>1, <2>1, <2>2
    <3>2. first - 1 \in Int /\ DaysBeforeYear(y - 1) < first - 1 /\ first - 1 <= DaysBeforeYear(y)
      BY <2>2, <2>3, <3>1
    <3>3. DateOf(first - 1).y = y - 1
      BY <2>3, <3>1, <3>2, YearIs
    <3> QED BY <1>1, <3>3
  <2> QED BY <1>5, <2>4, <2>5, <2>6 DEF InCurrent, y, first
<1> QED BY <1>2, <1>3, <1>4, <1>5 DEF CurrentWords

\* A past period is the days from its first one to the one before the day after it.
LEMMA PastSpan ==
  ASSUME NEW word \in PastWords, NEW today \in Int
  PROVE  LET a == PastDays(word, today)[1]
             b == PastDays(word, today)[2]
         IN  /\ a \in Int /\ b \in Int
             /\ InPast(word, a, today) /\ ~InPast(word, a - 1, today)
             /\ InPast(word, b - 1, today) /\ ~InPast(word, b, today)
<1> DEFINE i == Index(today)
           y == DateOf(today).y
           date == DateOf(today)
           week == CurrentStart("this week", today)
           a == PastDays(word, today)[1]
           b == PastDays(word, today)[2]
           lastMonth == DayNumber(Shifted(FirstOfMonth(date), -1))
           lastYear == DayNumber(Shifted(FirstOfYear(date), -12))
<1>1. /\ i \in Int /\ y \in Int
      /\ DayNumber(FirstOfMonth(date)) = FirstDay(i) + 1 /\ lastMonth = FirstDay(i - 1) + 1
      /\ DayNumber(FirstOfYear(date)) = DaysBeforeYear(y) + 1
      /\ lastYear = DaysBeforeYear(y - 1) + 1
  BY FirstDays
<1>2. week = today - ((today + 6) % 7)
  BY DEF CurrentStart, Weekday
<1>3. /\ word = "yesterday" => a = today - 1 /\ b = today
      /\ word = "two days ago" => a = today - 2 /\ b = today - 1
      /\ word = "last week" => a = week - 7 /\ b = week
      /\ word = "last weekend" => a = week - 2 /\ b = week
      /\ word = "last month" => a = lastMonth /\ b = DayNumber(FirstOfMonth(date))
      /\ word = "last year" => a = lastYear /\ b = DayNumber(FirstOfYear(date))
  <2> HIDE DEF week, lastMonth, lastYear
  <2> QED BY DEF PastDays, week, lastMonth, lastYear
<1> HIDE DEF a, b, week, lastMonth, lastYear, date, y, i
<1>4. SUFFICES /\ a \in Int /\ b \in Int
               /\ InPast(word, a, today) /\ ~InPast(word, a - 1, today)
               /\ InPast(word, b - 1, today) /\ ~InPast(word, b, today)
  BY DEF a, b
<1>5. ASSUME NEW day
       PROVE  /\ word = "yesterday" => (InPast(word, day, today) <=> day = today - 1)
              /\ word = "two days ago" => (InPast(word, day, today) <=> day = today - 2)
              /\ word = "last week" =>
                   (InPast(word, day, today) <=> (day + 6) \div 7 = (today + 6) \div 7 - 1)
              /\ word = "last weekend" =>
                   (InPast(word, day, today) <=> /\ (day + 6) \div 7 = (today + 6) \div 7 - 1
                                                /\ Weekday(day) \in {5, 6})
  BY DEF InPast
<1>6. CASE word = "yesterday" \/ word = "two days ago"
  <2>1. CASE word = "yesterday"
    <3>1. a = today - 1 /\ b = today
      BY <1>3, <2>1
    <3> QED BY <1>5, <2>1, <3>1
  <2>2. CASE word = "two days ago"
    <3>1. a = today - 2 /\ b = today - 1
      BY <1>3, <2>2
    <3>2. \A day : InPast(word, day, today) <=> day = today - 2
      BY <1>5, <2>2
    <3> QED BY <3>1, <3>2
  <2> QED BY <1>6, <2>1, <2>2
<1>7. CASE word = "last week"
  <2>1. a = week - 7 /\ b = week
    BY <1>3, <1>7
  <2>2. week \in Int
    BY <1>2
  <2>3. /\ (week - 7 + 6) \div 7 = (today + 6) \div 7 - 1
        /\ (week - 7 - 1 + 6) \div 7 # (today + 6) \div 7 - 1
        /\ (week - 1 + 6) \div 7 = (today + 6) \div 7 - 1
        /\ (week + 6) \div 7 # (today + 6) \div 7 - 1
    BY <1>2
  <2>4. a \in Int /\ b \in Int
    BY <2>1, <2>2
  <2> QED BY <1>7, <1>5, <2>1, <2>3, <2>4
<1>8. CASE word = "last weekend"
  <2>1. a = week - 2 /\ b = week
    BY <1>3, <1>8
  <2>2. week \in Int
    BY <1>2
  <2>3. /\ (week - 2 + 6) \div 7 = (today + 6) \div 7 - 1 /\ (week - 2 + 6) % 7 = 5
        /\ (week - 2 - 1 + 6) % 7 = 4
        /\ (week - 1 + 6) \div 7 = (today + 6) \div 7 - 1 /\ (week - 1 + 6) % 7 = 6
        /\ (week + 6) \div 7 # (today + 6) \div 7 - 1
    BY <1>2
  <2>4. a \in Int /\ b \in Int
    BY <2>1, <2>2
  <2>5. Weekday(a) \in {5, 6} /\ Weekday(a - 1) \notin {5, 6} /\ Weekday(b - 1) \in {5, 6}
    BY <2>1, <2>3 DEF Weekday
  <2>6. \A day : InPast(word, day, today) <=> /\ (day + 6) \div 7 = (today + 6) \div 7 - 1
                                              /\ Weekday(day) \in {5, 6}
    BY <1>8, <1>5
  <2>7. /\ (a + 6) \div 7 = (today + 6) \div 7 - 1
        /\ (b - 1 + 6) \div 7 = (today + 6) \div 7 - 1
        /\ (b + 6) \div 7 # (today + 6) \div 7 - 1
    BY <2>1, <2>3
  <2> QED BY <2>4, <2>5, <2>6, <2>7, Zenon
<1>9. CASE word = "last month"
  <2> DEFINE j == i - 1
             k == i - 2
  <2>1. j \in Int /\ k \in Int /\ j + 1 = i /\ k + 1 = j /\ i # j /\ k # j
    BY <1>1
  <2>2. a = FirstDay(j) + 1 /\ b = FirstDay(i) + 1
    BY <1>1, <1>3, <1>9
  <2> HIDE DEF j, k
  <2>3. /\ FirstDay(j) \in Int /\ LengthOf(j) \in 28 .. 31 /\ FirstDay(i) = FirstDay(j) + LengthOf(j)
        /\ FirstDay(k) \in Int /\ LengthOf(k) \in 28 .. 31 /\ FirstDay(j) = FirstDay(k) + LengthOf(k)
        /\ FirstDay(i) \in Int /\ LengthOf(i) \in 28 .. 31
    BY <1>1, <2>1, MonthsFollow
  <2>4. a \in Int /\ b \in Int /\ a - 1 \in Int /\ b - 1 \in Int
    BY <2>2, <2>3
  <2>5. Index(a) = j
    <3>1. FirstDay(j) < a /\ a <= FirstDay(j) + LengthOf(j)
      BY <2>2, <2>3
    <3> QED BY <2>1, <2>4, <3>1, DateOfDay DEF Index
  <2>6. Index(a - 1) = k
    <3>1. FirstDay(k) < a - 1 /\ a - 1 <= FirstDay(k) + LengthOf(k)
      BY <2>2, <2>3
    <3> QED BY <2>1, <2>4, <3>1, DateOfDay DEF Index
  <2>7. Index(b - 1) = j
    <3>1. FirstDay(j) < b - 1 /\ b - 1 <= FirstDay(j) + LengthOf(j)
      BY <2>2, <2>3
    <3> QED BY <2>1, <2>4, <3>1, DateOfDay DEF Index
  <2>8. Index(b) = i
    <3>1. FirstDay(i) < b /\ b <= FirstDay(i) + LengthOf(i)
      BY <2>2, <2>3
    <3> QED BY <1>1, <2>4, <3>1, DateOfDay DEF Index
  <2>9. Index(today) - 1 = j
    BY DEF i, j
  <2> QED BY <1>9, <2>1, <2>4, <2>5, <2>6, <2>7, <2>8, <2>9 DEF InPast
<1>10. CASE word = "last year"
  <2> DEFINE x == y - 1
             w == y - 2
  <2>1. x \in Int /\ w \in Int /\ x + 1 = y /\ w + 1 = x /\ y # x /\ w # x /\ y + 1 \in Int
    BY <1>1
  <2>2. a = DaysBeforeYear(x) + 1 /\ b = DaysBeforeYear(y) + 1
    BY <1>1, <1>3, <1>10
  <2> HIDE DEF x, w
  <2>3. ASSUME NEW z \in Int
        PROVE  /\ DaysBeforeYear(z) \in Int /\ DaysBeforeYear(z + 1) \in Int
               /\ DaysBeforeYear(z) + 1 < DaysBeforeYear(z + 1)
    <3>1. DaysBeforeYear(z) \in Int
      BY YearLength
    <3>2. DaysBeforeYear(z + 1) = DaysBeforeYear(z) + (IF IsLeap(z) THEN 366 ELSE 365)
      BY LeapYears
    <3> QED BY <3>1, <3>2
  <2>4. /\ DaysBeforeYear(w) \in Int /\ DaysBeforeYear(x) \in Int /\ DaysBeforeYear(y) \in Int
        /\ DaysBeforeYear(y + 1) \in Int
        /\ DaysBeforeYear(w) + 1 < DaysBeforeYear(x) /\ DaysBeforeYear(x) + 1 < DaysBeforeYear(y)
        /\ DaysBeforeYear(y) + 1 < DaysBeforeYear(y + 1)
    BY <1>1, <2>1, <2>3
  <2>5. a \in Int /\ b \in Int /\ a - 1 \in Int /\ b - 1 \in Int
    BY <2>2, <2>4
  <2>6. DateOf(a).y = x
    <3>1. DaysBeforeYear(x) < a /\ a <= DaysBeforeYear(x + 1)
      BY <2>1, <2>2, <2>4
    <3> QED BY <2>1, <2>5, <3>1, YearIs
  <2>7. DateOf(a - 1).y = w
    <3>1. DaysBeforeYear(w) < a - 1 /\ a - 1 <= DaysBeforeYear(w + 1)
      BY <2>1, <2>2, <2>4
    <3> QED BY <2>1, <2>5, <3>1, YearIs
  <2>8. DateOf(b - 1).y = x
    <3>1. DaysBeforeYear(x) < b - 1 /\ b - 1 <= DaysBeforeYear(x + 1)
      BY <2>1, <2>2, <2>4
    <3> QED BY <2>1, <2>5, <3>1, YearIs
  <2>9. DateOf(b).y = y
    <3>1. DaysBeforeYear(y) < b /\ b <= DaysBeforeYear(y + 1)
      BY <2>2, <2>4
    <3> QED BY <1>1, <2>5, <3>1, YearIs
  <2>10. DateOf(today).y - 1 = x
    BY DEF x, y, date
  <2> QED BY <1>10, <2>1, <2>5, <2>6, <2>7, <2>8, <2>9, <2>10 DEF InPast
<1> QED BY <1>6, <1>7, <1>8, <1>9, <1>10 DEF PastWords

----------------------------------------------------------------------------
(* Where what a token means begins and ends                                  *)

Bounded(token, c, result) ==
  result.outcome = "period" =>
    /\ Meant(token, c, result.from) /\ ~Meant(token, c, result.from - 1)
    /\ Meant(token, c, result.to - 1) /\ ~Meant(token, c, result.to)

LEMMA PeriodOf ==
  ASSUME NEW from, NEW to
  PROVE  LET p == Interval(from, to)
         IN  p.from = from /\ p.to = to /\ (p.outcome = "period" => from < to)
BY DEF Interval

LEMMA CurrentBounded ==
  ASSUME NEW token, NEW c \in Int, token.word \in CurrentWords
  PROVE  Bounded(token, c, Interval(Midnight(CurrentStart(token.word, DayOf(c))), c))
<1> DEFINE today == DayOf(c)
           first == CurrentStart(token.word, today)
           from == Midnight(first)
<1>1. today \in Int
  BY InstantInDay
<1>2. /\ first \in Int
      /\ \A day \in first .. today : InCurrent(token.word, day, today)
      /\ ~InCurrent(token.word, first - 1, today)
  BY <1>1, CurrentDays
<1> HIDE DEF first
<1>3. from \in Int /\ DayOf(from) = first /\ DayOf(from - 1) = first - 1
  BY <1>2, AtMidnight, MidnightsFollow
<1>4. SUFFICES ASSUME from < c
               PROVE  /\ Meant(token, c, from) /\ ~Meant(token, c, from - 1)
                      /\ Meant(token, c, c - 1) /\ ~Meant(token, c, c)
  BY PeriodOf DEF Bounded, first
<1>5. DayOf(c - 1) \in first .. today
  BY <1>2, <1>4, AfterMidnight
<1>6. first \in first .. today
  BY <1>1, <1>2, <1>5
<1> HIDE DEF today, from
<1>7. \A t \in Int : Meant(token, c, t) <=> t < c /\ InCurrent(token.word, DayOf(t), today)
  BY MeantCurrent DEF today
<1>8. Meant(token, c, from)
  BY <1>2, <1>3, <1>4, <1>6, <1>7
<1>9. ~Meant(token, c, from - 1)
  <2>1. from - 1 \in Int
    BY <1>3
  <2> QED BY <1>2, <1>3, <1>7, <2>1
<1>10. Meant(token, c, c - 1) /\ ~Meant(token, c, c)
  <2>1. c - 1 \in Int /\ c - 1 < c /\ ~(c < c)
    OBVIOUS
  <2> QED BY <1>2, <1>5, <1>7, <2>1
<1> QED BY <1>8, <1>9, <1>10

LEMMA PastBounded ==
  ASSUME NEW token, NEW c \in Int, token.word \in PastWords
  PROVE  LET past == PastDays(token.word, DayOf(c))
         IN  Bounded(token, c, Interval(Midnight(past[1]), Midnight(past[2])))
<1> DEFINE today == DayOf(c)
           a == PastDays(token.word, today)[1]
           b == PastDays(token.word, today)[2]
           from == Midnight(a)
           to == Midnight(b)
<1>1. today \in Int
  BY InstantInDay
<1>2. /\ a \in Int /\ b \in Int
      /\ InPast(token.word, a, today) /\ ~InPast(token.word, a - 1, today)
      /\ InPast(token.word, b - 1, today) /\ ~InPast(token.word, b, today)
  BY <1>1, PastSpan
<1> HIDE DEF a, b
<1>3. /\ from \in Int /\ DayOf(from) = a /\ DayOf(from - 1) = a - 1
      /\ to \in Int /\ DayOf(to) = b /\ DayOf(to - 1) = b - 1
  BY <1>2, AtMidnight, MidnightsFollow
<1> HIDE DEF today, from, to
<1>4. \A t \in Int : Meant(token, c, t) <=> InPast(token.word, DayOf(t), today)
  BY MeantPast DEF today
<1>5. from - 1 \in Int /\ to - 1 \in Int
  BY <1>3
<1>6. /\ Meant(token, c, from) /\ ~Meant(token, c, from - 1)
      /\ Meant(token, c, to - 1) /\ ~Meant(token, c, to)
  BY <1>2, <1>3, <1>4, <1>5
<1> QED BY <1>6, PeriodOf DEF Bounded, from, to, a, b, today

LEMMA RaisesBounded ==
  ASSUME NEW token, NEW c
  PROVE  Bounded(token, c, Raises("ValueError")) /\ Bounded(token, c, Raises("OverflowError"))
BY DEF Bounded, Raises

LEMMA ElapsedBounded ==
  ASSUME NEW token, NEW c \in Int, token.word \in DOMAIN ElapsedUnits, token.args[1] \in Nat
  PROVE  Bounded(token, c, Rolling(token.word, token.args[1], c))
<1> DEFINE n == token.args[1]
           u == ElapsedUnits[token.word]
           length == n * u
           result == IntervalOfSum(c - length, c)
<1>1. token.word \in {"hours", "days", "weeks"}
  BY DEF ElapsedUnits
<1>2. CASE n = 0
  <2>1. Rolling(token.word, n, c) = Raises("ValueError")
    BY <1>2 DEF Rolling
  <2> QED BY <2>1, RaisesBounded
<1>3. CASE n > 0
  <2>1. u \in Nat \ {0}
    BY <1>1, QueryAssumption DEF ElapsedUnits
  <2>2. length \in Nat \ {0}
    <3> HIDE DEF u, n
    <3>1. n \in Nat \ {0}
      BY <1>3 DEF n
    <3> QED BY <2>1, <3>1
  <2>3. Rolling(token.word, n, c) = result
    BY <1>1, <1>3 DEF Rolling, ElapsedUnits, CalendarUnits
  <2>4. \A t \in Int : Meant(token, c, t) <=> t < c /\ c - t <= length
    BY MeantElapsed
  <2> HIDE DEF length
  <2>5. ASSUME result.outcome = "period"
        PROVE  result.from = c - length /\ result.to = c
    BY <2>5 DEF IntervalOfSum, Interval, Raises
  <2>6. /\ c - length \in Int /\ c - length - 1 \in Int /\ c - 1 \in Int
        /\ c - length < c /\ c - (c - length) <= length /\ ~(c - (c - length - 1) <= length)
        /\ c - 1 < c /\ c - (c - 1) <= length /\ ~(c < c)
    BY <2>2
  <2>7. /\ Meant(token, c, c - length) /\ ~Meant(token, c, c - length - 1)
        /\ Meant(token, c, c - 1) /\ ~Meant(token, c, c)
    BY <2>4, <2>6
  <2> HIDE DEF result
  <2>8. Bounded(token, c, result)
    BY <2>5, <2>7 DEF Bounded
  <2> QED BY <2>3, <2>8
<1> QED BY <1>2, <1>3

\* The same in months numbered through the years and days numbered through them.
Since(month, e, d, r, t) ==
  LET m == Index(DayOf(t))
  IN  \/ m > month
      \/ /\ m = month
         /\ \/ DayOf(t) - FirstDay(month) > d
            \/ DayOf(t) - FirstDay(month) = e /\ t % Day >= r

LEMMA SinceIs ==
  ASSUME NEW months \in Int, NEW c \in Int, NEW t \in Int
  PROVE  LET month == Index(DayOf(c)) - months
             d == DayOf(c) - FirstDay(Index(DayOf(c)))
         IN  SinceMonths(months, c, t)
               <=> Since(month, Lesser(d, LengthOf(month)), d, c % Day, t)
<1> DEFINE i == Index(DayOf(c))
           m == Index(DayOf(t))
           month == i - months
           date == DateOf(DayOf(t))
           d == DayOf(c) - FirstDay(i)
<1>1. DayOf(c) \in Int /\ DayOf(t) \in Int
  BY InstantInDay
<1>2. i \in Int /\ DateOf(DayOf(c)).d = d
  BY <1>1, EveryDay DEF Index
<1>3. /\ m \in Int /\ date.d = DayOf(t) - FirstDay(m)
      /\ date.y = m \div 12 /\ date.m = (m % 12) + 1
  BY <1>1, EveryDay DEF Index
<1>4. MonthLength(date.y, date.m) = LengthOf(m)
  BY <1>3 DEF LengthOf
<1> HIDE DEF i, m, d, date
<1>5. (m - i > -months <=> m > month) /\ (m - i = -months <=> m = month)
  BY <1>2, <1>3
<1> HIDE DEF month
<1>6. SinceMonths(months, c, t) <=>
        \/ m - i > -months
        \/ /\ m - i = -months
           /\ \/ date.d > d
              \/ date.d = Lesser(d, LengthOf(m)) /\ t % Day >= c % Day
  BY <1>2, <1>4 DEF SinceMonths, i, m, date
<1>7. Since(month, Lesser(d, LengthOf(month)), d, c % Day, t) <=>
        \/ m > month
        \/ /\ m = month
           /\ \/ DayOf(t) - FirstDay(month) > d
              \/ DayOf(t) - FirstDay(month) = Lesser(d, LengthOf(month)) /\ t % Day >= c % Day
  BY DEF Since, m
<1>8. SinceMonths(months, c, t)
        <=> Since(month, Lesser(d, LengthOf(month)), d, c % Day, t)
  <2> DEFINE x == LengthOf(m)  z == FirstDay(m)
  <2>1. m = month => LengthOf(month) = LengthOf(m) /\ FirstDay(month) = FirstDay(m)
    OBVIOUS
  <2>2. CASE m = month
    BY <1>3, <1>5, <1>6, <1>7, <2>1, <2>2
  <2>3. CASE m # month
    BY <1>5, <1>6, <1>7, <2>3
  <2> QED BY <2>2, <2>3
<1> QED BY <1>8 DEF month, d, i

\* The first instant that counts, and the last that does not.
LEMMA SinceBegins ==
  ASSUME NEW j \in Int, NEW d \in Nat, d >= 1, NEW r \in 0 .. (Day - 1)
  PROVE  LET e == Lesser(d, LengthOf(j))
             from == Midnight(FirstDay(j) + e) + r
         IN  from \in Int /\ Since(j, e, d, r, from) /\ ~Since(j, e, d, r, from - 1)
<1> DEFINE e == Lesser(d, LengthOf(j))
           first == FirstDay(j) + e
           from == Midnight(first) + r
           k == j - 1
<1>1. /\ FirstDay(j) \in Int /\ LengthOf(j) \in 28 .. 31
      /\ FirstDay(k) \in Int /\ LengthOf(k) \in 28 .. 31 /\ FirstDay(j) = FirstDay(k) + LengthOf(k)
  <2>1. k \in Int /\ k + 1 = j
    OBVIOUS
  <2> HIDE DEF k
  <2> QED BY <2>1, MonthsFollow
<1>2. e \in 1 .. LengthOf(j) /\ e <= d
  BY <1>1 DEF Lesser
<1> HIDE DEF e
<1>3. first \in Int /\ first - FirstDay(j) = e
  BY <1>1, <1>2
<1>4. FirstDay(j) < first /\ first <= FirstDay(j) + LengthOf(j)
  BY <1>1, <1>2
<1>5. Index(first) = j
  BY <1>3, <1>4, DateOfDay DEF Index
<1>6. e > 1 => Index(first - 1) = j
  <2>1. e > 1 => FirstDay(j) < first - 1 /\ first - 1 <= FirstDay(j) + LengthOf(j)
    BY <1>1, <1>2
  <2> QED BY <1>3, <2>1, DateOfDay DEF Index
<1>7. e = 1 => Index(first - 1) = k
  <2>1. e = 1 => FirstDay(k) < first - 1 /\ first - 1 <= FirstDay(k) + LengthOf(k)
    BY <1>1, <1>2
  <2>2. k \in Int
    OBVIOUS
  <2> HIDE DEF k
  <2> QED BY <1>3, <2>1, <2>2, DateOfDay DEF Index
<1> HIDE DEF first
<1>8. /\ from \in Int /\ DayOf(from) = first /\ from % Day = r
      /\ r = 0 => DayOf(from - 1) = first - 1
      /\ r > 0 => DayOf(from - 1) = first /\ (from - 1) % Day = r - 1
  <2>1. first \in Int /\ Midnight(first) \in Int /\ r \in Int
    BY <1>3, DayType, MidnightsFollow
  <2>2. Midnight(first) + r \in Int /\ (Midnight(first) + r) - 1 = Midnight(first) + r - 1
    BY <2>1
  <2>3. DayOf(Midnight(first) + r) = first /\ (Midnight(first) + r) % Day = r
    BY <2>1, DayOfInstant
  <2>4. /\ r = 0 => DayOf(Midnight(first) + r - 1) = first - 1
        /\ r > 0 => /\ DayOf(Midnight(first) + r - 1) = first
                    /\ (Midnight(first) + r - 1) % Day = r - 1
    BY <2>1, InstantBefore
  <2> QED BY <2>2, <2>3, <2>4, Zenon
<1> HIDE DEF from
<1>9. Since(j, e, d, r, from)
  BY <1>3, <1>5, <1>8 DEF Since
<1>10. ~Since(j, e, d, r, from - 1)
  <2>1. ~(e > d)
    BY <1>1, <1>2
  <2>2. CASE r > 0
    <3>1. r \in Int /\ ~(r - 1 >= r)
      BY DayType
    <3>2. DayOf(from - 1) = first /\ (from - 1) % Day = r - 1
      BY <1>8, <2>2
    <3> QED BY <1>3, <1>5, <2>1, <3>1, <3>2 DEF Since
  <2>3. CASE r = 0 /\ e > 1
    <3>1. DayOf(from - 1) = first - 1 /\ Index(first - 1) = j
      BY <1>6, <1>8, <2>3
    <3>2. first - 1 - FirstDay(j) = e - 1 /\ e - 1 # e /\ ~(e - 1 > d)
      BY <1>1, <1>2, <1>3
    <3> QED BY <3>1, <3>2 DEF Since
  <2>4. CASE r = 0 /\ e = 1
    <3>1. DayOf(from - 1) = first - 1 /\ Index(first - 1) = k
      BY <1>7, <1>8, <2>4
    <3>2. ~(k > j) /\ k # j
      OBVIOUS
    <3> HIDE DEF k
    <3> QED BY <3>1, <3>2 DEF Since
  <2>5. r = 0 \/ r > 0
    BY DayType
  <2>6. e = 1 \/ e > 1
    BY <1>1, <1>2
  <2> QED BY <2>2, <2>3, <2>4, <2>5, <2>6
<1> QED BY <1>8, <1>9, <1>10 DEF from, first, e

\* The last instant before now counts: it is of the day before at most, and a month
\* back that is the last day of its month, later than the first.
LEMMA SinceEnds ==
  ASSUME NEW c \in Int, NEW months \in Nat \ {0}
  PROVE  LET i == Index(DayOf(c))
             d == DayOf(c) - FirstDay(i)
         IN  Since(i - months, Lesser(d, LengthOf(i - months)), d, c % Day, c - 1)
<1> DEFINE today == DayOf(c)
           i == Index(today)
           r == c % Day
           d == today - FirstDay(i)
           j == i - months
           k == i - 1
           e == Lesser(d, LengthOf(j))
<1>1. today \in Int /\ r \in 0 .. (Day - 1) /\ c = Midnight(today) + r
  BY InstantInDay
<1>2. /\ i \in Int /\ FirstDay(i) < today /\ today <= FirstDay(i) + LengthOf(i)
      /\ FirstDay(i) \in Int /\ LengthOf(i) \in Int
  BY <1>1, IndexOfDay
<1>3. SUFFICES Since(j, e, d, r, c - 1)
  OBVIOUS
<1> HIDE DEF today, r
<1>4. /\ r = 0 => DayOf(c - 1) = today - 1
      /\ r > 0 => DayOf(c - 1) = today
  <2> DEFINE before == Midnight(today) + r - 1
  <2>1. /\ r = 0 => DayOf(before) = today - 1
        /\ r > 0 => DayOf(before) = today
    BY <1>1, InstantBefore
  <2>2. before = c - 1
    BY <1>1, MidnightsFollow, DayType
  <2> QED BY <2>1, <2>2
<1>5. r = 0 \/ r > 0
  BY <1>1, DayType
<1> HIDE DEF i, e
<1>6. j \in Int /\ i > j /\ k \in Int /\ k + 1 = i /\ k >= j
  BY <1>2
<1>7. /\ FirstDay(k) \in Int /\ LengthOf(k) \in 28 .. 31 /\ FirstDay(i) = FirstDay(k) + LengthOf(k)
  <2> HIDE DEF k
  <2> QED BY <1>6, MonthsFollow
<1>8. CASE r > 0 \/ d > 1
  <2>1. Index(DayOf(c - 1)) = i
    <3>1. CASE r > 0
      BY <1>4, <3>1 DEF i
    <3>2. CASE r = 0 /\ d > 1
      <4>1. FirstDay(i) < today - 1 /\ today - 1 <= FirstDay(i) + LengthOf(i) /\ today - 1 \in Int
        BY <1>1, <1>2, <3>2
      <4>2. Index(today - 1) = i
        BY <1>2, <4>1, DateOfDay DEF Index
      <4> QED BY <1>4, <3>2, <4>2
    <3> QED BY <1>5, <1>8, <3>1, <3>2
  <2> HIDE DEF d, j
  <2> QED BY <1>6, <2>1 DEF Since
<1>9. CASE r = 0 /\ d = 1
  <2>1. FirstDay(k) < today - 1 /\ today - 1 <= FirstDay(k) + LengthOf(k) /\ today - 1 \in Int
    BY <1>1, <1>2, <1>7, <1>9
  <2>2. Index(today - 1) = k
    <3> HIDE DEF k
    <3> QED BY <1>6, <2>1, DateOfDay DEF Index
  <2>3. Index(DayOf(c - 1)) = k
    BY <1>4, <1>9, <2>2
  <2>4. CASE k > j
    <3> HIDE DEF d, j, k
    <3> QED BY <2>3, <2>4 DEF Since
  <2>5. CASE k = j
    <3>1. today - 1 - FirstDay(k) = LengthOf(k) /\ LengthOf(k) > d
      BY <1>1, <1>2, <1>7, <1>9
    <3>2. DayOf(c - 1) - FirstDay(j) > d
      BY <1>4, <1>9, <2>5, <3>1
    <3> HIDE DEF d, j, k
    <3> QED BY <2>3, <2>5, <3>2 DEF Since
  <2> QED BY <1>6, <2>4, <2>5
<1>10. d >= 1 /\ d \in Int
  BY <1>1, <1>2
<1> HIDE DEF d
<1> QED BY <1>5, <1>8, <1>9, <1>10

LEMMA CalendarBounded ==
  ASSUME NEW token, NEW c \in Int, token.word \in DOMAIN CalendarUnits, token.args[1] \in Nat
  PROVE  Bounded(token, c, Rolling(token.word, token.args[1], c))
<1> DEFINE n == token.args[1]
           k == CalendarUnits[token.word]
           months == n * k
           today == DayOf(c)
           i == Index(today)
           d == today - FirstDay(i)
           j == i - months
           e == Lesser(d, LengthOf(j))
           r == c % Day
           from == Midnight(FirstDay(j) + e) + r
           date == Shifted(DateOf(today), -n * k)
<1>1. token.word \in {"months", "years"}
  BY DEF CalendarUnits
<1>2. CASE n = 0
  <2>1. Rolling(token.word, n, c) = Raises("ValueError")
    BY <1>2 DEF Rolling
  <2> QED BY <2>1, RaisesBounded
<1>3. CASE n > 0
  <2>1. k \in Nat \ {0}
    BY <1>1 DEF CalendarUnits
  <2>2. months \in Nat \ {0} /\ -n * k = -months
    <3> HIDE DEF k, n
    <3>1. n \in Nat \ {0}
      BY <1>3 DEF n
    <3> QED BY <2>1, <3>1
  <2>3. Rolling(token.word, n, c) =
          IF InCalendar(date) THEN Interval(Midnight(DayNumber(date)) + r, c)
                              ELSE Raises(ReplaceError(date))
    BY <1>1, <1>3 DEF Rolling, ElapsedUnits, CalendarUnits
  <2>4. \A t \in Int : Meant(token, c, t) <=> t < c /\ SinceMonths(months, c, t)
    BY MeantMonths
  <2> HIDE DEF months
  <2>5. today \in Int /\ r \in 0 .. (Day - 1)
    BY InstantInDay
  <2>6. /\ i \in Int /\ MonthIndex(DateOf(today)) = i /\ DateOf(today).d = d
        /\ FirstDay(i) \in Int /\ d \in Nat /\ d >= 1
    <3>1. /\ i \in Int /\ FirstDay(i) < today /\ FirstDay(i) \in Int
          /\ MonthIndex(DateOf(today)) = i /\ DateOf(today).d = d
      BY <2>5, EveryDay, IndexOfDay DEF Index
    <3> HIDE DEF i, today
    <3> QED BY <2>5, <3>1
  <2>7. j \in Int
    BY <2>2, <2>6
  <2>8. date = [y |-> j \div 12, m |-> (j % 12) + 1, d |-> e]
    <3>1. MonthIndex(DateOf(today)) + (-n * k) = j
      BY <2>2, <2>6
    <3> QED BY <2>6, <3>1 DEF Shifted, LengthOf
  <2>9. LengthOf(j) \in Int /\ FirstDay(j) \in Int
    BY <2>7, MonthsFollow
  <2>10. e \in Int
    BY <2>6, <2>9 DEF Lesser
  <2>11. DayNumber(date) = FirstDay(j) + e
    <3> HIDE DEF e, j, date
    <3> QED BY <2>7, <2>8, <2>10, DayOfDate
  <2>12. from \in Int /\ Since(j, e, d, r, from) /\ ~Since(j, e, d, r, from - 1)
    <3> HIDE DEF j, d, r
    <3> QED BY <2>5, <2>6, <2>7, SinceBegins
  <2>13. Since(j, e, d, r, c - 1)
    BY <2>2, SinceEnds
  <2>14. \A t \in Int : SinceMonths(months, c, t) <=> Since(j, e, d, r, t)
    BY <2>2, SinceIs
  <2>15. Rolling(token.word, n, c) \in
           {Interval(from, c), Raises("ValueError"), Raises("OverflowError")}
    BY <2>3, <2>11 DEF ReplaceError
  <2> HIDE DEF from, e, j, d, r, date
  <2>16. ASSUME from < c
         PROVE  /\ Meant(token, c, from) /\ ~Meant(token, c, from - 1)
                /\ Meant(token, c, c - 1) /\ ~Meant(token, c, c)
    <3>1. from - 1 \in Int /\ c - 1 \in Int /\ c - 1 < c /\ ~(c < c)
      BY <2>12
    <3> QED BY <2>4, <2>12, <2>13, <2>14, <2>16, <3>1
  <2>17. Bounded(token, c, Interval(from, c))
    BY <2>16, PeriodOf DEF Bounded
  <2> QED BY <2>15, <2>17, RaisesBounded
<1> QED BY <1>2, <1>3

LEMMA DaysBounded ==
  ASSUME NEW token, NEW c, NEW a \in Int, NEW b \in Int, a < b,
         \A t \in Int : Meant(token, c, t) <=> a <= DayOf(t) /\ DayOf(t) < b
  PROVE  /\ Bounded(token, c, Interval(Midnight(a), Midnight(b)))
         /\ Bounded(token, c, IntervalOfSum(Midnight(a), Midnight(b)))
<1> DEFINE from == Midnight(a)
           to == Midnight(b)
<1>1. /\ from \in Int /\ DayOf(from) = a /\ DayOf(from - 1) = a - 1
      /\ to \in Int /\ DayOf(to) = b /\ DayOf(to - 1) = b - 1
  BY AtMidnight, MidnightsFollow
<1> HIDE DEF from, to
<1>2. from - 1 \in Int /\ to - 1 \in Int
  BY <1>1
<1>3. a <= a /\ ~(a <= a - 1) /\ a <= b - 1 /\ b - 1 < b /\ ~(b < b)
  OBVIOUS
<1>4. /\ Meant(token, c, from) /\ ~Meant(token, c, from - 1)
      /\ Meant(token, c, to - 1) /\ ~Meant(token, c, to)
  BY <1>1, <1>2, <1>3
<1>5. Bounded(token, c, Interval(from, to))
  BY <1>4, PeriodOf DEF Bounded
<1>6. Bounded(token, c, IntervalOfSum(from, to))
  BY <1>5, RaisesBounded DEF IntervalOfSum
<1> QED BY <1>5, <1>6 DEF from, to

LEMMA InMonth ==
  ASSUME NEW i \in Int, NEW day \in Int
  PROVE  LET date == DateOf(day)
             within == date.y = i \div 12 /\ date.m = (i % 12) + 1
         IN  /\ within <=> FirstDay(i) < day /\ day <= FirstDay(i) + LengthOf(i)
             /\ within => date.d = day - FirstDay(i)
<1> DEFINE date == DateOf(day)
           k == MonthIndex(date)
           within == date.y = i \div 12 /\ date.m = (i % 12) + 1
<1>1. /\ k \in Int /\ FirstDay(k) < day /\ day <= FirstDay(k) + LengthOf(k)
      /\ date.y = k \div 12 /\ date.m = (k % 12) + 1 /\ date.d = day - FirstDay(k)
  BY EveryDay
<1>2. k = 12 * (k \div 12) + ((k % 12) + 1) - 1
  BY <1>1, NumberOfMonth
<1> HIDE DEF k
<1>3. ASSUME within
      PROVE  k = i
  BY <1>1, <1>2, <1>3, NumberOfMonth
<1>4. ASSUME FirstDay(i) < day, day <= FirstDay(i) + LengthOf(i)
      PROVE  within
  BY <1>4, DateOfDay
<1> HIDE DEF date, within
<1>5. /\ within <=> FirstDay(i) < day /\ day <= FirstDay(i) + LengthOf(i)
      /\ within => date.d = day - FirstDay(i)
  BY <1>1, <1>3, <1>4
<1> QED BY <1>5 DEF date, within

LEMMA OnDate ==
  ASSUME NEW y, NEW m, NEW d, ValidDate(y, m, d), NEW day \in Int
  PROVE  LET date == DateOf(day)
         IN  /\ Ordinal(y, m, d) \in Int
             /\ date.y = y /\ date.m = m /\ date.d = d <=> day = Ordinal(y, m, d)
<1> DEFINE i == 12 * y + m - 1
           date == DateOf(day)
<1>1. y \in Int /\ m \in 1 .. 12 /\ d \in 1 .. MonthLength(y, m)
  BY DEF ValidDate, FirstYear, LastYear
<1>2. i \in Int /\ i \div 12 = y /\ (i % 12) + 1 = m /\ LengthOf(i) = MonthLength(y, m)
  BY <1>1, MonthNumber
<1> HIDE DEF i
<1>3. FirstDay(i) \in Int /\ LengthOf(i) \in 28 .. 31
  BY <1>2, MonthsFollow
<1>4. d \in Int /\ 1 <= d /\ d <= LengthOf(i)
  BY <1>1, <1>2, <1>3
<1>5. Ordinal(y, m, d) = FirstDay(i) + d
  <2>1. DayNumber([y |-> i \div 12, m |-> (i % 12) + 1, d |-> d]) = FirstDay(i) + d
    BY <1>2, <1>4, DayOfDate
  <2> QED BY <1>2, <2>1 DEF DayNumber
<1>6. /\ date.y = y /\ date.m = m <=> FirstDay(i) < day /\ day <= FirstDay(i) + LengthOf(i)
      /\ date.y = y /\ date.m = m => date.d = day - FirstDay(i)
  BY <1>2, InMonth
<1> HIDE DEF date
<1>7. /\ Ordinal(y, m, d) \in Int
      /\ date.y = y /\ date.m = m /\ date.d = d <=> day = Ordinal(y, m, d)
  BY <1>3, <1>4, <1>5, <1>6
<1> QED BY <1>7 DEF date

LEMMA ExplicitDayBounded ==
  ASSUME NEW token, NEW c, NEW y, NEW m, NEW d,
         \A t \in Int : Meant(token, c, t) <=>
           LET date == DateOf(DayOf(t)) IN date.y = y /\ date.m = m /\ date.d = d
  PROVE  Bounded(token, c, ExplicitDay(y, m, d))
<1>1. CASE ~ValidDate(y, m, d)
  BY <1>1, RaisesBounded DEF ExplicitDay
<1>2. CASE ValidDate(y, m, d)
  <2> DEFINE o == Ordinal(y, m, d)
             next == o + 1
  <2>1. o \in Int
    BY <1>2, OnDate, 0 \in Int
  <2>2. ASSUME NEW t \in Int
        PROVE  Meant(token, c, t) <=> DayOf(t) = o
    BY <1>2, InstantInDay, OnDate
  <2>3. ExplicitDay(y, m, d) = IntervalOfSum(Midnight(o), Midnight(next))
    BY <1>2 DEF ExplicitDay
  <2> HIDE DEF o
  <2>4. \A t \in Int : Meant(token, c, t) <=> o <= DayOf(t) /\ DayOf(t) < next
    <3>1. SUFFICES ASSUME NEW t \in Int
                   PROVE  Meant(token, c, t) <=> o <= DayOf(t) /\ DayOf(t) < next
      OBVIOUS
    <3>2. DayOf(t) \in Int
      BY InstantInDay
    <3>3. DayOf(t) = o <=> o <= DayOf(t) /\ DayOf(t) < next
      BY <2>1, <3>2
    <3> QED BY <2>2, <3>3
  <2>5. next \in Int /\ o < next
    BY <2>1
  <2> HIDE DEF next
  <2> QED BY <2>1, <2>3, <2>4, <2>5, DaysBounded
<1> QED BY <1>1, <1>2

LEMMA ExplicitMonthBounded ==
  ASSUME NEW token, NEW c, NEW y, NEW m,
         \A t \in Int : Meant(token, c, t) <=>
           LET date == DateOf(DayOf(t)) IN date.y = y /\ date.m = m
  PROVE  Bounded(token, c, ExplicitMonth(y, m))
<1> DEFINE i == 12 * y + m - 1
           j == i + 1
           a == FirstDay(i) + 1
           b == FirstDay(j) + 1
           first == [y |-> y, m |-> m, d |-> 1]
<1>1. CASE ~(ValidDate(y, m, 1) /\ InCalendar(Shifted(first, 1)))
  BY <1>1, RaisesBounded DEF ExplicitMonth
<1>2. CASE ValidDate(y, m, 1) /\ InCalendar(Shifted(first, 1))
  <2>1. y \in Int /\ m \in 1 .. 12
    BY <1>2 DEF ValidDate, FirstYear, LastYear
  <2>2. i \in Int /\ i \div 12 = y /\ (i % 12) + 1 = m
    BY <2>1, MonthNumber
  <2>3. MonthIndex(first) = i
    BY <2>1 DEF MonthIndex
  <2> HIDE DEF i
  <2>4. ASSUME NEW t \in Int
        PROVE  Meant(token, c, t) <=> FirstDay(i) < DayOf(t) /\ DayOf(t) <= FirstDay(i) + LengthOf(i)
    <3>1. DayOf(t) \in Int
      BY InstantInDay
    <3> QED BY <2>2, <3>1, InMonth
  <2>5. j \in Int
    BY <2>2
  <2>6. /\ FirstDay(i) \in Int /\ LengthOf(i) \in 28 .. 31
        /\ FirstDay(j) = FirstDay(i) + LengthOf(i) /\ LengthOf(j) \in 28 .. 31
    BY <2>2, <2>5, MonthsFollow
  <2>7. DayNumber(first) = a
    BY <2>2, DayOfDate
  <2>8. DayNumber(Shifted(first, 1)) = b
    <3>1. Shifted(first, 1) = [y |-> j \div 12, m |-> (j % 12) + 1, d |-> Lesser(1, LengthOf(j))]
      BY <2>3 DEF Shifted, LengthOf
    <3>2. Lesser(1, LengthOf(j)) = 1
      BY <2>6 DEF Lesser
    <3> HIDE DEF j
    <3> QED BY <2>5, <3>1, <3>2, DayOfDate
  <2>9. ExplicitMonth(y, m) = Interval(Midnight(a), Midnight(b))
    BY <1>2, <2>7, <2>8 DEF ExplicitMonth
  <2>10. \A t \in Int : Meant(token, c, t) <=> a <= DayOf(t) /\ DayOf(t) < b
    <3>1. SUFFICES ASSUME NEW t \in Int
                   PROVE  Meant(token, c, t) <=> a <= DayOf(t) /\ DayOf(t) < b
      OBVIOUS
    <3>2. DayOf(t) \in Int
      BY InstantInDay
    <3>3. FirstDay(i) < DayOf(t) /\ DayOf(t) <= FirstDay(i) + LengthOf(i)
            <=> a <= DayOf(t) /\ DayOf(t) < b
      BY <2>6, <3>2
    <3> QED BY <2>4, <3>3
  <2>11. a \in Int /\ b \in Int /\ a < b
    BY <2>6
  <2> HIDE DEF a, b
  <2> QED BY <2>9, <2>10, <2>11, DaysBounded
<1> QED BY <1>1, <1>2

LEMMA TriplesAre ==
  ASSUME NEW args \in [1 .. 3 -> Nat], NEW x, NEW y, NEW z
  PROVE  args = <<x, y, z>> <=> x = args[1] /\ y = args[2] /\ z = args[3]
<1> DEFINE triple == <<x, y, z>>
<1>1. /\ triple = [i \in 1 .. 3 |-> triple[i]] /\ args = [i \in 1 .. 3 |-> args[i]]
      /\ triple[1] = x /\ triple[2] = y /\ triple[3] = z
  OBVIOUS
<1> HIDE DEF triple
<1>2. ASSUME x = args[1], y = args[2], z = args[3]
      PROVE  args = triple
  <2>1. \A i \in 1 .. 3 : triple[i] = args[i]
    BY <1>1, <1>2
  <2> QED BY <1>1, <2>1
<1>3. args = triple <=> x = args[1] /\ y = args[2] /\ z = args[3]
  BY <1>1, <1>2
<1> QED BY <1>3 DEF triple

LEMMA PairsAre ==
  ASSUME NEW args \in [1 .. 2 -> Nat], NEW x, NEW y
  PROVE  args = <<x, y>> <=> x = args[1] /\ y = args[2]
<1> DEFINE pair == <<x, y>>
<1>1. /\ pair = [i \in 1 .. 2 |-> pair[i]] /\ args = [i \in 1 .. 2 |-> args[i]]
      /\ pair[1] = x /\ pair[2] = y
  OBVIOUS
<1> HIDE DEF pair
<1>2. ASSUME x = args[1], y = args[2]
      PROVE  args = pair
  <2>1. \A i \in 1 .. 2 : pair[i] = args[i]
    BY <1>1, <1>2
  <2> QED BY <1>1, <2>1
<1>3. args = pair <=> x = args[1] /\ y = args[2]
  BY <1>1, <1>2
<1> QED BY <1>3 DEF pair

\* A token that does not raise begins and ends where its meaning does.
LEMMA TokenBounded ==
  ASSUME NEW token \in Token, NEW c \in Int
  PROVE  Bounded(token, c, ResolveToken(token, c))
<1> DEFINE today == DayOf(c)
           thisYear == DateOf(today).y
           args == token.args
<1>1. CASE token.word \in CurrentWords
  <2>1. ResolveToken(token, c) = Interval(Midnight(CurrentStart(token.word, today)), c)
    BY <1>1 DEF ResolveToken, CurrentWords, PastWords, ElapsedUnits, CalendarUnits
  <2> QED BY <1>1, <2>1, CurrentBounded
<1>2. CASE token.word \in PastWords
  <2>1. ResolveToken(token, c) = Interval(Midnight(PastDays(token.word, today)[1]),
                                          Midnight(PastDays(token.word, today)[2]))
    BY <1>2 DEF ResolveToken, CurrentWords, PastWords, ElapsedUnits, CalendarUnits
  <2> QED BY <1>2, <2>1, PastBounded
<1>3. CASE token.word \in {"hours", "days", "weeks", "months", "years"}
  <2>1. ResolveToken(token, c) = Rolling(token.word, args[1], c)
    BY <1>3 DEF ResolveToken, CurrentWords, PastWords, ElapsedUnits, CalendarUnits
  <2>2. token.args[1] \in Nat
    <3>1. token.args \in [{1} -> Nat]
      BY <1>3 DEF Token, CurrentWords, PastWords
    <3> QED BY <3>1
  <2>3. token.word \in DOMAIN ElapsedUnits \/ token.word \in DOMAIN CalendarUnits
    BY <1>3 DEF ElapsedUnits, CalendarUnits
  <2> QED BY <2>1, <2>2, <2>3, ElapsedBounded, CalendarBounded
<1>4. CASE token.word = "date"
  <2>1. ResolveToken(token, c) = ExplicitDay(args[1], args[2], args[3])
    BY <1>4 DEF ResolveToken, CurrentWords, PastWords, ElapsedUnits, CalendarUnits
  <2>2. token.args \in [1 .. 3 -> Nat]
    BY <1>4 DEF Token, CurrentWords, PastWords
  <2>3. ASSUME NEW t \in Int
        PROVE  Meant(token, c, t) <=>
                 LET date == DateOf(DayOf(t))
                 IN  date.y = args[1] /\ date.m = args[2] /\ date.d = args[3]
    <3> DEFINE date == DateOf(DayOf(t))
    <3>1. Meant(token, c, t) <=> args = <<date.y, date.m, date.d>>
      BY <1>4, MeantDates
    <3> HIDE DEF date
    <3>2. args = <<date.y, date.m, date.d>>
            <=> date.y = args[1] /\ date.m = args[2] /\ date.d = args[3]
      BY <2>2, TriplesAre
    <3> QED BY <3>1, <3>2 DEF date
  <2> HIDE DEF args
  <2> QED BY <2>1, <2>3, ExplicitDayBounded
<1>5. CASE token.word = "month"
  <2>1. ResolveToken(token, c) = ExplicitMonth(args[1], args[2])
    BY <1>5 DEF ResolveToken, CurrentWords, PastWords, ElapsedUnits, CalendarUnits
  <2>2. token.args \in [1 .. 2 -> Nat]
    BY <1>5 DEF Token, CurrentWords, PastWords
  <2>3. ASSUME NEW t \in Int
        PROVE  Meant(token, c, t) <=>
                 LET date == DateOf(DayOf(t)) IN date.y = args[1] /\ date.m = args[2]
    <3> DEFINE date == DateOf(DayOf(t))
    <3>1. Meant(token, c, t) <=> args = <<date.y, date.m>>
      BY <1>5, MeantDates
    <3> HIDE DEF date
    <3>2. args = <<date.y, date.m>> <=> date.y = args[1] /\ date.m = args[2]
      BY <2>2, PairsAre
    <3> QED BY <3>1, <3>2 DEF date
  <2> HIDE DEF args
  <2> QED BY <2>1, <2>3, ExplicitMonthBounded
<1>6. CASE token.word = "month day"
  <2>1. ResolveToken(token, c) = ExplicitDay(thisYear, args[1], args[2])
    BY <1>6 DEF ResolveToken, CurrentWords, PastWords, ElapsedUnits, CalendarUnits
  <2>2. token.args \in [1 .. 2 -> Nat]
    BY <1>6 DEF Token, CurrentWords, PastWords
  <2>3. ASSUME NEW t \in Int
        PROVE  Meant(token, c, t) <=>
                 LET date == DateOf(DayOf(t))
                 IN  date.y = thisYear /\ date.m = args[1] /\ date.d = args[2]
    <3> DEFINE date == DateOf(DayOf(t))
    <3>1. date.y \in Int /\ thisYear \in Int
      BY InstantInDay, EveryYear
    <3>2. Meant(token, c, t) <=> date.y - thisYear = 0 /\ args = <<date.m, date.d>>
      BY <1>6, MeantDates
    <3>3. args = <<date.m, date.d>> <=> date.m = args[1] /\ date.d = args[2]
      BY <2>2, PairsAre
    <3>4. date.y - thisYear = 0 <=> date.y = thisYear
      <4> HIDE DEF date, thisYear
      <4> QED BY <3>1
    <3> HIDE DEF date, thisYear
    <3>5. Meant(token, c, t) <=> date.y = thisYear /\ date.m = args[1] /\ date.d = args[2]
      BY <3>2, <3>3, <3>4
    <3> QED BY <3>5 DEF date, thisYear
  <2> HIDE DEF args, thisYear
  <2> QED BY <2>1, <2>3, ExplicitDayBounded
<1>7. token.word \in CurrentWords \cup PastWords
        \cup {"hours", "days", "weeks", "months", "years", "date", "month", "month day"}
  BY DEF Token
<1> QED BY <1>1, <1>2, <1>3, <1>4, <1>5, <1>6, <1>7

----------------------------------------------------------------------------
(* The periods of a run                                                      *)

Begins(token, c, t) == Meant(token, c, t) /\ ~Meant(token, c, t - 1)
Ends(token, c, t) == Meant(token, c, t - 1) /\ ~Meant(token, c, t)

\* The period of each token, or one from the first to the second.
Calendar(tokens, c, given) ==
  IF Len(given) = Len(tokens)
  THEN \A i \in DOMAIN given :
         Begins(tokens[i], c, given[i].from) /\ Ends(tokens[i], c, given[i].to)
  ELSE \A p \in {given[i] : i \in DOMAIN given} :
         Begins(tokens[1], c, p.from) /\ Ends(tokens[2], c, p.to)

LEMMA ResolveCalendar ==
  ASSUME NEW q, NEW expected \in Nat, NEW c \in Int,
         q.tokens \in Seq(Token),
         Resolved(Resolve(q, expected, c))
  PROVE  LET given == Resolve(q, expected, c).periods
         IN  Len(given) = expected /\ Calendar(q.tokens, c, given)
<1> DEFINE n == Len(q.tokens)
           tokens == q.tokens
           results == [i \in DOMAIN tokens |-> ResolveToken(tokens[i], c)]
           spans == [i \in DOMAIN results |-> [from |-> results[i].from, to |-> results[i].to]]
           joined == <<[from |-> spans[1].from, to |-> spans[2].to]>>
           given == Resolve(q, expected, c).periods
<1>1. n \in Nat /\ DOMAIN tokens = 1 .. n /\ \A i \in 1 .. n : tokens[i] \in Token
  OBVIOUS
<1>2. \A i \in 1 .. n : Bounded(tokens[i], c, results[i]) /\ Sound(results[i])
  <2>1. SUFFICES ASSUME NEW i \in 1 .. n
                 PROVE  Bounded(tokens[i], c, results[i]) /\ Sound(results[i])
    OBVIOUS
  <2>2. results[i] = ResolveToken(tokens[i], c) /\ tokens[i] \in Token
    BY <1>1
  <2> QED BY <2>2, TokenBounded, TokenSound
<1>3. DOMAIN spans = 1 .. n /\ Len(spans) = n
  BY <1>1
<1>4. /\ \A i \in 1 .. n : results[i].outcome = "period"
      /\ \/ Len(spans) = expected /\ Resolve(q, expected, c) = Limited(spans)
         \/ /\ expected = 1 /\ Len(spans) = 2
            /\ spans[1].from < spans[2].to
            /\ Resolve(q, expected, c) = Limited(joined)
  BY <1>1 DEF Resolve, Combined, Resolved, Unresolved, Escapes
<1>5. \A i \in 1 .. n : /\ spans[i].from = results[i].from /\ spans[i].to = results[i].to
  BY <1>1
<1> HIDE DEF results, spans, tokens
<1>6. \A i \in 1 .. n : /\ spans[i].from \in Int /\ spans[i].to \in Int
                       /\ spans[i].from < spans[i].to
                       /\ Begins(tokens[i], c, spans[i].from)
                       /\ Ends(tokens[i], c, spans[i].to)
  BY <1>2, <1>4, <1>5 DEF Sound, Bounded, Begins, Ends
<1>7. CASE Len(spans) = expected /\ Resolve(q, expected, c) = Limited(spans)
  <2>1. given = spans
    <3>1. Resolved(Limited(spans))
      BY <1>7
    <3>2. Limited(spans).periods = spans
      BY <1>3, <1>6, <1>7, <3>1, LimitedSound
    <3> QED BY <1>7, <3>2
  <2> HIDE DEF given
  <2>2. Calendar(tokens, c, given)
    BY <1>1, <1>3, <1>6, <2>1 DEF Calendar, tokens
  <2> QED BY <1>7, <2>1, <2>2 DEF given, tokens
<1>8. CASE /\ expected = 1 /\ Len(spans) = 2 /\ spans[1].from < spans[2].to
           /\ Resolve(q, expected, c) = Limited(joined)
  <2>1. n = 2
    BY <1>3, <1>8
  <2>2. /\ DOMAIN joined = 1 .. 1 /\ Len(joined) = 1
        /\ joined[1].from = spans[1].from /\ joined[1].to = spans[2].to
    OBVIOUS
  <2> HIDE DEF joined
  <2>3. given = joined
    <3>1. Resolved(Limited(joined))
      BY <1>8
    <3>2. \A i \in 1 .. 1 : joined[i].from \in Int /\ joined[i].to \in Int
                          /\ joined[i].from < joined[i].to
      BY <1>6, <1>8, <2>1, <2>2
    <3>3. Limited(joined).periods = joined
      BY <2>2, <3>1, <3>2, LimitedSound
    <3> QED BY <1>8, <3>3
  <2> HIDE DEF given
  <2>4. Begins(tokens[1], c, joined[1].from) /\ Ends(tokens[2], c, joined[1].to)
    BY <1>6, <2>1, <2>2
  <2>5. \A p \in {joined[i] : i \in DOMAIN joined} : p = joined[1]
    BY <2>2
  <2>6. Calendar(tokens, c, joined)
    BY <2>1, <2>2, <2>4, <2>5 DEF Calendar, tokens
  <2> QED BY <1>8, <2>2, <2>3, <2>6 DEF given, tokens
<1> QED BY <1>4, <1>7, <1>8

\* The periods of a run begin and end in UTC where they do in Asia/Tokyo.
PeriodsHold ==
  step = "running" =>
    IF Len(periods) = Len(question.tokens)
    THEN \A i \in DOMAIN periods : Spans(question.tokens[i], periods[i])
    ELSE \A p \in {periods[i] : i \in DOMAIN periods} :
           /\ Meant(question.tokens[1], now, Local(p.from))
           /\ ~Meant(question.tokens[1], now, Local(p.from - 1))
           /\ Meant(question.tokens[2], now, Local(p.to - 1))
           /\ ~Meant(question.tokens[2], now, Local(p.to))

LEMMA LocalOfUtc ==
  ASSUME NEW p, p.from \in Int, p.to \in Int
  PROVE  /\ Local(Utc(p).from) = p.from /\ Local(Utc(p).from - 1) = p.from - 1
         /\ Local(Utc(p).to) = p.to /\ Local(Utc(p).to - 1) = p.to - 1
<1>1. Offset \in Int
  BY QueryAssumption
<1>2. Utc(p).from = p.from - Offset /\ Utc(p).to = p.to - Offset
  BY DEF Utc
<1> QED BY <1>1, <1>2 DEF Local

LEMMA AskHolds ==
  ASSUME QuestionsInv, NEW q \in Asked, Ask(q)
  PROVE  PeriodsHold'
<1> DEFINE kind == Kind(q)
           expected == PeriodCount(kind)
           resolution == Resolve(q, expected, now)
           given == resolution.periods
           tokens == q.tokens
<1>1. now \in Int /\ q.tokens \in Seq(Token) /\ expected \in Nat
  BY QuestionAssumption, ExpectedType DEF QuestionsInv, QuestionIsKnown
<1>2. step = "idle" /\ question' = q /\ now' = now
  BY DEF Ask, environment
<1>3. CASE step' # "running"
  BY <1>3 DEF PeriodsHold
<1>4. CASE step' = "running" /\ kind = "LATEST"
  <2>1. periods' = <<>>
    BY <1>4 DEF Ask, Begin
  <2>2. DOMAIN periods' = {} /\ {periods'[i] : i \in DOMAIN periods'} = {}
    BY <2>1
  <2> QED BY <2>2 DEF PeriodsHold
<1>5. CASE step' = "running" /\ kind # "LATEST"
  <2>1. /\ Resolved(resolution)
        /\ periods' = [i \in DOMAIN given |-> Utc(given[i])]
    BY <1>2, <1>5 DEF Ask, Begin, Resolved
  <2>2. /\ DOMAIN given = 1 .. expected
        /\ \A i \in 1 .. expected : given[i].from \in Int /\ given[i].to \in Int
    BY <1>1, <2>1, ResolveSound
  <2>3. Len(given) = expected /\ Calendar(tokens, now, given)
    BY <1>1, <2>1, ResolveCalendar
  <2> HIDE DEF given, expected, tokens
  <2>4. DOMAIN periods' = 1 .. expected /\ Len(periods') = expected
    BY <1>1, <2>1, <2>2 DEF expected
  <2>5. \A i \in 1 .. expected :
          /\ Local(periods'[i].from) = given[i].from /\ Local(periods'[i].from - 1) = given[i].from - 1
          /\ Local(periods'[i].to) = given[i].to /\ Local(periods'[i].to - 1) = given[i].to - 1
    BY <2>1, <2>2, LocalOfUtc
  <2>6. CASE expected = Len(tokens)
    <3>1. \A i \in 1 .. expected :
            Begins(tokens[i], now, given[i].from) /\ Ends(tokens[i], now, given[i].to)
      BY <2>2, <2>3, <2>6 DEF Calendar
    <3>2. \A i \in 1 .. expected :
            /\ Meant(tokens[i], now, Local(periods'[i].from))
            /\ ~Meant(tokens[i], now, Local(periods'[i].from - 1))
            /\ Meant(tokens[i], now, Local(periods'[i].to - 1))
            /\ ~Meant(tokens[i], now, Local(periods'[i].to))
      BY <2>5, <3>1 DEF Begins, Ends
    <3>3. \A i \in DOMAIN periods' : Spans(question.tokens[i], periods[i])'
      BY <1>2, <2>4, <3>2 DEF Spans, tokens
    <3>4. Len(periods') = Len(question'.tokens)
      BY <1>2, <2>4, <2>6 DEF tokens
    <3> QED BY <3>3, <3>4 DEF PeriodsHold
  <2>7. CASE expected # Len(tokens)
    <3>1. \A i \in 1 .. expected :
            Begins(tokens[1], now, given[i].from) /\ Ends(tokens[2], now, given[i].to)
      BY <2>2, <2>3, <2>7 DEF Calendar
    <3>2. \A i \in 1 .. expected :
            /\ Meant(tokens[1], now, Local(periods'[i].from))
            /\ ~Meant(tokens[1], now, Local(periods'[i].from - 1))
            /\ Meant(tokens[2], now, Local(periods'[i].to - 1))
            /\ ~Meant(tokens[2], now, Local(periods'[i].to))
      BY <2>5, <3>1 DEF Begins, Ends
    <3>3. Len(periods') # Len(question'.tokens)
      BY <1>2, <2>4, <2>7 DEF tokens
    <3>4. \A p \in {periods'[i] : i \in DOMAIN periods'} :
            /\ Meant(question'.tokens[1], now', Local(p.from))
            /\ ~Meant(question'.tokens[1], now', Local(p.from - 1))
            /\ Meant(question'.tokens[2], now', Local(p.to - 1))
            /\ ~Meant(question'.tokens[2], now', Local(p.to))
      BY <1>2, <2>4, <3>2 DEF tokens
    <3> QED BY <3>3, <3>4 DEF PeriodsHold
  <2> QED BY <2>6, <2>7
<1> QED BY <1>3, <1>4, <1>5

LEMMA HoldsAlways == Spec => []PeriodsHold
<1>1. Init => PeriodsHold
  BY DEF Init, PeriodsHold
<1>2. ASSUME QuestionsInv, PeriodsHold, [Next]_vars
      PROVE  PeriodsHold'
  <2>1. ASSUME UNCHANGED <<now, question, periods>>, step' = "running" => step = "running"
        PROVE  PeriodsHold'
    BY <1>2, <2>1 DEF PeriodsHold, Spans
  <2>2. ASSUME NEW q \in Asked, Ask(q) PROVE PeriodsHold'
    BY <1>2, <2>2, AskHolds
  <2>3. ASSUME NEW supplied, NEW g, NEW filter, CallTool(supplied, g, filter) PROVE PeriodsHold'
    BY <2>1, <2>3 DEF CallTool, environment
  <2>4. ASSUME NEW row, StoreMeasurement(row) PROVE PeriodsHold'
    BY <2>1, <2>4 DEF StoreMeasurement
  <2>5. ASSUME NEW c, Conclude(c) PROVE PeriodsHold'
    BY <2>1, <2>5 DEF Conclude, environment
  <2>6. ASSUME Fail PROVE PeriodsHold'
    BY <2>1, <2>6 DEF Fail, environment
  <2>7. CASE UNCHANGED vars
    BY <2>1, <2>7 DEF vars, environment
  <2> QED BY <1>2, <2>2, <2>3, <2>4, <2>5, <2>6, <2>7 DEF Next
<1> QED BY <1>1, <1>2, InvAlways, PTL DEF Spec

----------------------------------------------------------------------------
(* The rows of a question                                                    *)

AlertRow == [started : Int, status : {"OPEN", "RESOLVED"}, metric : Measured,
             threshold : Int, trigger : Int, hysteresis : Int]

\* What is stored and may be stored: rows with integers, and no two with the same id.
RowsAre(rows) ==
  IsFiniteSet(rows) /\ rows \subseteq Measurement /\ \A r, s \in rows : r.id = s.id => r = s

\* The newest of rows that there are is one of them.
LEMMA LatestIs ==
  ASSUME NEW rows, RowsAre(rows), rows # {}
  PROVE  Latest(rows) \in rows
<1> DEFINE Older(i, j) == i.at < j.at \/ (i.at = j.at /\ i.id < j.id)
           below == [j \in rows |-> {i \in rows : Older(i, j)}]
<1>1. IsFiniteSet(rows) /\ \A r \in rows : r.at \in Int /\ r.id \in Int
  BY DEF RowsAre, Measurement
<1>2. below \in [rows -> SUBSET rows] /\ \A i, j \in rows : i \in below[j] <=> Older(i, j)
  OBVIOUS
<1>3. \A i \in rows : i \notin below[i]
  BY <1>1, <1>2
<1>4. \A i, j \in rows : i # j => i \in below[j] \/ j \in below[i]
  BY <1>1, <1>2 DEF RowsAre
<1>5. \A i, j, k \in rows : i \in below[j] /\ j \in below[k] => i \in below[k]
  BY <1>1, <1>2
<1> HIDE DEF below
<1>6. PICK r \in rows : below[r] = rows \ {r}
  BY <1>1, <1>2, <1>3, <1>4, <1>5, EndsExist
<1>7. \A other \in rows \ {r} : other.at < r.at \/ (other.at = r.at /\ other.id < r.id)
  BY <1>2, <1>6
<1> QED BY <1>7 DEF Latest

\* The aggregates of rows that there are are integers.
LEMMA AggregateType ==
  ASSUME NEW rows, IsFiniteSet(rows), rows # {}, NEW m, \A r \in rows : r.values[m] \in Int
  PROVE  LET a == Aggregate(rows, m)
         IN  /\ a.count \in Nat /\ a.minimum \in Int /\ a.maximum \in Int /\ a.average \in Int
<1> DEFINE f == [r \in rows |-> r.values[m]]
           values == {r.values[m] : r \in rows}
           n == Cardinality(rows)
           total == SumFunctionOnSet(f, rows)
<1>1. Aggregate(rows, m) = [count |-> n, minimum |-> Sets!Min(values), maximum |-> Sets!Max(values),
                            average |-> RoundedQuotient(total, n)]
  BY DEF Aggregate, SumFunction
<1>2. n \in Nat \ {0}
  BY FS_CardinalityType, FS_EmptySet
<1>3. values \in SUBSET Int /\ IsFiniteSet(values) /\ values # {}
  <2>1. f \in Surjection(rows, values)
    BY DEF Surjection
  <2> QED BY <2>1, FS_Surjection
<1>4. Sets!Min(values) \in Int /\ Sets!Max(values) \in Int
  <2> HIDE DEF values
  <2>1. (\E i \in values : \A j \in values : i <= j) /\ (\E i \in values : \A j \in values : j <= i)
    BY <1>3, NumbersAreOrdered
  <2>2. \E i \in values : \A j \in values : i >= j
    BY <1>3, <2>1
  <2> QED BY <1>3, <2>1, <2>2 DEF Sets!Min, Sets!Max
<1>5. total \in Int
  <2>1. \A r \in rows : f[r] \in Int
    OBVIOUS
  <2> HIDE DEF f
  <2> QED BY <2>1, SumOut
<1> HIDE DEF total, n, values
<1>6. RoundedQuotient(total, n) \in Int
  <2>1. \A v \in Int : (2 * v + n) \div (2 * n) \in Int
    BY <1>2
  <2>2. -total \in Int /\ RoundedQuotient(total, n) =
          IF total >= 0 THEN (2 * total + n) \div (2 * n) ELSE -((2 * (-total) + n) \div (2 * n))
    BY <1>5 DEF RoundedQuotient
  <2>3. (2 * total + n) \div (2 * n) \in Int /\ (2 * (-total) + n) \div (2 * n) \in Int
    BY <1>5, <2>1, <2>2
  <2> QED BY <2>2, <2>3
<1> QED BY <1>1, <1>2, <1>4, <1>6

\* The rows of a period, as the statistics of it need them.
LEMMA SelectedIs ==
  ASSUME NEW rows, RowsAre(rows), NEW p
  PROVE  /\ IsFiniteSet(Selected(rows, p))
         /\ \A r \in Selected(rows, p) :
              r.at \in Int /\ \A m \in Measured : r.values[m] \in Int
<1>1. Selected(rows, p) \in SUBSET rows
  BY DEF Selected
<1>2. \A r \in rows : r.at \in Int /\ \A m \in Measured : r.values[m] \in Int
  BY DEF RowsAre, Measurement
<1> QED BY <1>1, <1>2, FS_Subset DEF RowsAre

\* A number of statistics with integers is one.
LEMMA AggregateAtType ==
  ASSUME NEW statistics, NEW path, path.leaf \in Aggregates,
         LET a == statistics[path.metric]
         IN  a.count \in Nat /\ a.minimum \in Int /\ a.maximum \in Int /\ a.average \in Int
  PROVE  AggregateAt(statistics, path) \in Int
<1>1. statistics[path.metric].count \in Nat
  OBVIOUS
<1>2. Whole(statistics[path.metric].count) \in Int
  BY <1>1 DEF Whole
<1>3. path.leaf # "count" => path.leaf \in {"minimum", "maximum", "average"}
  BY DEF Aggregates
<1> QED BY <1>2, <1>3 DEF AggregateAt

----------------------------------------------------------------------------
(* The points of a series that are shown                                     *)

\* _sample_indices: as many points as may be shown, none twice, with the first and
\* the last.
THEOREM Sampling ==
  ASSUME NEW count \in Nat \ {0}
  PROVE  /\ SampleIndices(count) \subseteq 1 .. count
         /\ {1, count} \subseteq SampleIndices(count)
         /\ Cardinality(SampleIndices(count)) = Lesser(count, MaxShown)
<1> DEFINE steps == MaxShown - 1
           d == 2 * steps
           last == count - 1
           t(i) == 2 * i * last + steps
           at(i) == t(i) \div d + 1
<1>1. MaxShown \in Nat /\ MaxShown > 1
  BY ShownAssumption
<1>2. CASE count <= MaxShown
  <2>1. SampleIndices(count) = 1 .. count
    BY <1>2 DEF SampleIndices
  <2>2. Lesser(count, MaxShown) = count
    BY <1>2 DEF Lesser
  <2> QED BY <2>1, <2>2, UpTo
<1>3. CASE ~(count <= MaxShown)
  <2>1. SampleIndices(count) = {at(i) : i \in 0 .. steps}
    BY <1>3 DEF SampleIndices
  <2>2. /\ steps \in Nat \ {0} /\ d \in Nat \ {0} /\ d = 2 * steps
        /\ last \in Nat /\ count = last + 1 /\ last > steps
    BY <1>1, <1>3
  <2> HIDE DEF steps, d, last
  <2>3. ASSUME NEW i \in 0 .. steps PROVE t(i) \in Int /\ i * last \in Int /\ t(i) = 2 * (i * last) + steps
    BY <2>2
  <2>4. ASSUME NEW i \in 0 .. steps, NEW j \in 0 .. steps, i < j PROVE t(i) + d <= t(j)
    <3>1. PICK k \in Nat : j = i + 1 + k
      <4>1. j - i - 1 \in Nat /\ j = i + 1 + (j - i - 1)
        BY <2>2, <2>4
      <4> QED BY <4>1
    <3>2. j * last = i * last + last + k * last /\ k * last \in Nat
      BY <2>2, <3>1
    <3> DEFINE a == i * last   b == k * last   c == j * last
    <3>3. t(i) = 2 * a + steps /\ t(j) = 2 * c + steps /\ a \in Int /\ c = a + last + b /\ b \in Nat
      BY <2>3, <3>2
    <3> HIDE DEF t, a, b, c
    <3> QED BY <2>2, <3>3
  <2>5. t(0) = steps
    BY <2>2
  <2>6. t(steps) = steps + d * last
    BY <2>2
  <2>7. \A n \in 0 .. steps : t(n) \in Int
    BY <2>3
  <2> HIDE DEF t
  <2>8. steps \div d = 0
    <3>1. /\ steps \div d \in Int
          /\ 0 <= steps \div d <=> d * 0 <= steps
          /\ 1 <= steps \div d <=> d * 1 <= steps
      BY <2>2, QuotientAtLeast
    <3>2. d * 0 = 0 /\ d * 1 = d
      BY <2>2
    <3> QED BY <2>2, <3>1, <3>2
  <2>9. at(0) = 1
    BY <2>5, <2>8
  <2>10. at(steps) = count
    <3>1. steps \in Int /\ last \in Int
      BY <2>2
    <3>2. (steps + d * last) \div d = steps \div d + last
      BY <2>2, <3>1, QuotientShifts
    <3>3. t(steps) \div d = last
      BY <2>2, <2>6, <2>8, <3>2
    <3> QED BY <2>2, <3>3
  <2>11. \A n \in 0 .. steps : at(n) \in Int
    <3> TAKE n \in 0 .. steps
    <3>1. t(n) \div d \in Int
      BY <2>2, <2>7, QuotientAtLeast
    <3> QED BY <3>1
  <2>12. ASSUME NEW i \in 0 .. steps, NEW j \in 0 .. steps, i < j PROVE at(i) < at(j)
    <3>1. (t(i) + d * 1) \div d = t(i) \div d + 1
      <4>1. t(i) \in Int /\ 1 \in Int
        BY <2>7
      <4> DEFINE a == t(i)
      <4>2. a \in Int
        BY <4>1
      <4> HIDE DEF a
      <4>3. (a + d * 1) \div d = a \div d + 1
        BY <2>2, <4>1, <4>2, QuotientShifts
      <4> QED BY <4>3 DEF a
    <3>2. d * 1 = d
      BY <2>2
    <3> DEFINE q == (t(i) + d) \div d
    <3>3. q = t(i) \div d + 1 /\ t(i) \div d \in Int
      BY <2>2, <2>7, <3>1, <3>2, QuotientAtLeast
    <3>4. q \in Int /\ d * q <= t(i) + d
      <4>1. t(i) + d \in Int
        BY <2>2, <2>7
      <4>2. q \in Int
        BY <3>3
      <4>3. q <= q
        BY <4>2
      <4> QED BY <2>2, <4>1, <4>2, <4>3, QuotientAtLeast
    <3>5. d * q <= t(j)
      <4>1. d * q \in Int
        BY <2>2, <3>4
      <4> HIDE DEF q
      <4> QED BY <2>2, <2>4, <2>7, <2>12, <3>4, <4>1
    <3>6. q <= t(j) \div d /\ t(j) \div d \in Int
      BY <2>2, <2>7, <3>4, <3>5, QuotientAtLeast
    <3> HIDE DEF q
    <3> QED BY <3>3, <3>6
  <2> HIDE DEF at
  <2>13. 0 \in 0 .. steps /\ steps \in 0 .. steps
    BY <2>2
  <2>14. ASSUME NEW i \in 0 .. steps PROVE at(i) \in 1 .. count
    <3>1. i = 0 \/ 0 < i
      OBVIOUS
    <3>2. i = steps \/ i < steps
      BY <2>2
    <3>3. 1 <= at(i)
      BY <2>9, <2>11, <2>12, <2>13, <3>1
    <3>4. at(i) <= count
      BY <2>10, <2>11, <2>12, <2>13, <3>2
    <3> QED BY <2>11, <3>3, <3>4
  <2> DEFINE shown == {at(i) : i \in 0 .. steps}
             f == [i \in 0 .. steps |-> at(i)]
  <2>15. shown \subseteq 1 .. count
    BY <2>14
  <2>16. {1, count} \subseteq shown
    BY <2>9, <2>10, <2>13
  <2>17. Cardinality(shown) = MaxShown
    <3>1. f \in Surjection(0 .. steps, shown)
      BY DEF Surjection
    <3>2. ASSUME NEW i \in 0 .. steps, NEW j \in 0 .. steps, f[i] = f[j] PROVE i = j
      <4>1. at(i) = at(j) /\ at(i) \in Int
        BY <2>11, <3>2
      <4>2. ~(i < j) /\ ~(j < i)
        BY <2>12, <4>1
      <4> QED BY <4>2
    <3>3. f \in Injection(0 .. steps, shown)
      BY <3>1, <3>2 DEF Injection, IsInjective, Surjection
    <3>4. IsFiniteSet(0 .. steps) /\ Cardinality(0 .. steps) = MaxShown
      <4>1. steps = MaxShown - 1
        BY DEF steps
      <4> QED BY <1>1, <4>1, FromZero
    <3> QED BY <3>1, <3>3, <3>4, FS_Surjection
  <2>18. Lesser(count, MaxShown) = MaxShown
    BY <1>1, <1>3 DEF Lesser
  <2> QED BY <2>1, <2>15, <2>16, <2>17, <2>18
<1> QED BY <1>2, <1>3

\* The points of a series are numbered, and each has integers and rows.
LEMMA PointsAre ==
  ASSUME NEW rows, RowsAre(rows), NEW p, NEW g \in Granularities
  PROVE  \E size \in Nat :
           /\ DOMAIN Series(rows, p, g) = 1 .. size
           /\ \A n \in 1 .. size, m \in Measured :
                LET a == Series(rows, p, g)[n].metrics[m]
                IN  a.count \in Nat /\ a.minimum \in Int /\ a.maximum \in Int /\ a.average \in Int
<1> DEFINE inside == Selected(rows, p)
           buckets == {BucketOf(r.at, g) : r \in inside}
           size == Cardinality(buckets)
           order == Ascending(buckets)
           points == Series(rows, p, g)
           rank(b) == Cardinality({c \in buckets : c < b})
           within(b) == {r \in inside : BucketOf(r.at, g) = b}
<1>1. /\ IsFiniteSet(inside)
      /\ \A r \in inside : r.at \in Int /\ \A m \in Measured : r.values[m] \in Int
  BY SelectedIs
<1>2. buckets \in SUBSET Int /\ IsFiniteSet(buckets)
  <2> DEFINE f == [r \in inside |-> BucketOf(r.at, g)]
  <2>1. f \in Surjection(inside, buckets)
    BY DEF Surjection
  <2>2. IsFiniteSet(buckets)
    BY <1>1, <2>1, FS_Surjection
  <2>3. Length(g) \in Nat \ {0} /\ Offset \in Int
    BY QueryAssumption DEF Length, Granularities
  <2>4. \A t \in Int : BucketOf(t, g) \in Int
    <3> TAKE t \in Int
    <3>1. t + Offset \in Int
      BY <2>3
    <3>2. (t + Offset) \div Length(g) \in Int
      BY <2>3, <3>1, QuotientAtLeast
    <3> QED BY <3>2 DEF BucketOf, Local
  <2> QED BY <1>1, <2>2, <2>4
<1>3. size \in Nat /\ \A n \in 0 .. (size - 1) : \E b \in buckets : rank(b) = n
  <2> HIDE DEF buckets
  <2> QED BY <1>2, NumbersAreOrdered
<1>4. order = [n \in 1 .. size |-> CHOOSE b \in buckets : rank(b) = n - 1]
  BY DEF Ascending
<1>5. /\ DOMAIN points = DOMAIN order
      /\ \A n \in DOMAIN order : \A m \in Measured :
           points[n].metrics[m] = Aggregate(within(order[n]), m)
  BY DEF Series
<1>6. \A b \in buckets : within(b) # {}
  OBVIOUS
<1>7. \A b : within(b) \in SUBSET inside /\ IsFiniteSet(within(b))
  <2> TAKE b
  <2>1. within(b) \in SUBSET inside
    OBVIOUS
  <2> QED BY <1>1, <2>1, FS_Subset
<1> HIDE DEF inside, buckets, size, order, points, rank, within
<1>8. ASSUME NEW n \in 1 .. size, NEW m \in Measured
      PROVE  LET a == points[n].metrics[m]
             IN  a.count \in Nat /\ a.minimum \in Int /\ a.maximum \in Int /\ a.average \in Int
  <2>1. n - 1 \in 0 .. (size - 1)
    BY <1>3
  <2>2. order[n] \in buckets
    BY <1>3, <1>4, <2>1
  <2>3. /\ IsFiniteSet(within(order[n])) /\ within(order[n]) # {}
        /\ \A r \in within(order[n]) : r.values[m] \in Int
    BY <1>1, <1>6, <1>7, <2>2
  <2>4. points[n].metrics[m] = Aggregate(within(order[n]), m)
    BY <1>4, <1>5
  <2> QED BY <2>3, <2>4, AggregateType
<1>9. DOMAIN points = 1 .. size
  BY <1>4, <1>5
<1> QED BY <1>3, <1>8, <1>9 DEF points

----------------------------------------------------------------------------
(* The fallback                                                              *)

\* FallbackSucceeds for a first result.
FallbackHolds(q, record) ==
  LET fallback == Fallback(q, record)
      shown == {e.path.at : e \in fallback.evidence}
  IN  /\ Accepted(fallback, <<record>>)
      /\ record.status = "AVAILABLE" => fallback.numbers # {}
      /\ record.name = "get_measurement_series" /\ record.status = "AVAILABLE" =>
           /\ Cardinality(shown) = Lesser(PointCount(record), MaxShown)
           /\ {1, PointCount(record)} \subseteq shown

\* What may be said of a path of a result.
Sayable(record, path) ==
  /\ path \in DOMAIN record.data
  /\ record.data[path] # None
  /\ SaidUnit(path) = Unit(path)
  /\ ObservedAt(record, path) # None => ObservedAt(record, path) \in record.times

\* A result whose numbers may be said is said.
LEMMA SayableAccepted ==
  ASSUME NEW q, NEW record,
         record.status = "AVAILABLE" =>
           /\ ShownPaths(q, record) # {}
           /\ \A path \in ShownPaths(q, record) : Sayable(record, path),
         FallbackPeriod(record) = NoPeriod \/ ContainsPeriod(record, FallbackPeriod(record))
  PROVE  /\ Accepted(Fallback(q, record), <<record>>)
         /\ record.status = "AVAILABLE" => Fallback(q, record).numbers # {}
         /\ record.status = "AVAILABLE" =>
              {e.path.at : e \in Fallback(q, record).evidence}
                = {path.at : path \in ShownPaths(q, record)}
<1> DEFINE c == Fallback(q, record)
           results == <<record>>
           evidence == IF record.status = "AVAILABLE"
                       THEN {Evidence(record, path) : path \in ShownPaths(q, record)}
                       ELSE {}
<1>1. /\ c.numbers = {[value |-> e.value, sign |-> SignOf(e.unit)] : e \in evidence}
      /\ c.dates = {e.observedAt : e \in evidence} \ {None}
      /\ c.period = FallbackPeriod(record) /\ c.evidence = evidence
      /\ c.calculations = {} /\ c.status = record.status
  BY DEF Fallback
<1>2. results # <<>> /\ DOMAIN results = {1} /\ results[1] = record
  OBVIOUS
<1>3. ASSUME NEW e \in evidence
      PROVE  \E path \in ShownPaths(q, record) :
               e = Evidence(record, path) /\ Sayable(record, path)
  BY <1>3
<1>4. ASSUME record.status = "AVAILABLE"
      PROVE  \A path \in ShownPaths(q, record) : Evidence(record, path) \in evidence
  BY <1>4
<1> HIDE DEF evidence, results
<1>5. ASSUME NEW e \in evidence
      PROVE  /\ EvidenceHolds(e, results) /\ e.value # None /\ e.call = 1
             /\ FoundUnit(SignOf(e.unit)) \in {e.unit, "none"}
  <2>1. PICK path \in ShownPaths(q, record) : e = Evidence(record, path) /\ Sayable(record, path)
    BY <1>3
  <2>2. /\ e.call = 1 /\ e.path = path /\ e.value = record.data[path]
        /\ e.label = <<path.metric, path.leaf>> /\ e.unit = SaidUnit(path)
        /\ e.observedAt = ObservedAt(record, path)
    BY <2>1 DEF Evidence
  <2>3. e.label \in Labels(path)
    BY <2>2 DEF Labels
  <2>4. e.unit \in {"cases", "celsius", "percent"}
    BY <2>1, <2>2 DEF Sayable, Unit
  <2>5. FoundUnit(SignOf(e.unit)) \in {e.unit, "none"}
    BY <2>4 DEF SignOf, FoundUnit, MeantUnit
  <2> QED BY <1>2, <2>1, <2>2, <2>3, <2>5 DEF EvidenceHolds, Sayable
<1>6. Relevant(c, results) = {1}
  <2>1. CASE evidence = {}
    BY <1>1, <1>2, <2>1 DEF Relevant
  <2>2. CASE evidence # {}
    <3>1. {e.call : e \in evidence} = {1}
      BY <1>5, <2>2
    <3> QED BY <1>1, <2>2, <3>1 DEF Relevant
  <2> QED BY <2>1, <2>2
<1>7. PeriodHolds(c, results)
  BY <1>1, <1>2, <1>6 DEF PeriodHolds
<1>8. c.dates \subseteq AllowedInstants(c)
  BY <1>1 DEF AllowedInstants
<1>9. ASSUME NEW n \in c.numbers PROVE n.value \in AllowedNumbers(c, FoundUnit(n.sign))
  <2>1. PICK e \in evidence : n = [value |-> e.value, sign |-> SignOf(e.unit)]
    BY <1>1
  <2>2. e.value # None /\ n.value = e.value /\ FoundUnit(n.sign) \in {e.unit, "none"}
    BY <1>5, <2>1
  <2> QED BY <1>1, <2>1, <2>2 DEF AllowedNumbers
<1>10. Accepted(c, results)
  BY <1>1, <1>2, <1>5, <1>6, <1>7, <1>8, <1>9 DEF Accepted
<1>11. ASSUME record.status = "AVAILABLE" PROVE c.numbers # {}
  <2>1. PICK e \in evidence : TRUE
    BY <1>4, <1>11
  <2>2. [value |-> e.value, sign |-> SignOf(e.unit)] \in c.numbers
    BY <1>1, <2>1
  <2> HIDE DEF c
  <2> QED BY <2>2
<1>12. ASSUME record.status = "AVAILABLE"
       PROVE  {e.path.at : e \in evidence} = {path.at : path \in ShownPaths(q, record)}
  <2>1. \A path : Evidence(record, path).path = path
    BY DEF Evidence
  <2> QED BY <1>3, <1>4, <1>12, <2>1
<1> QED BY <1>1, <1>10, <1>11, <1>12 DEF results

\* The unit said of a number of a metric is that of its path.
LEMMA UnitSaid ==
  ASSUME NEW path, path.metric \in {"temperature", "humidity"}, path.leaf # "total"
  PROVE  SaidUnit(path) = Unit(path)
BY DEF SaidUnit, Unit

LEMMA MetricsAsked ==
  ASSUME NEW q \in Asked
  PROVE  RequestedMetrics(q) # {} /\ RequestedMetrics(q) \subseteq Measured
BY QuestionAssumption DEF RequestedMetrics

\* The period that is shown is one of the result.
LEMMA PeriodIsOfRecord ==
  ASSUME NEW record,
         \/ record.name = "compare_periods"
         \/ /\ record.name = "get_latest_measurement"
            /\ record.measuredAt = None \/ record.data # <<>>
         \/ /\ record.name \notin {"compare_periods", "get_latest_measurement"}
            /\ 1 \in DOMAIN record.periods
  PROVE  FallbackPeriod(record) = NoPeriod \/ ContainsPeriod(record, FallbackPeriod(record))
<1>1. CASE record.name = "compare_periods"
  BY <1>1 DEF FallbackPeriod
<1>2. CASE record.name = "get_latest_measurement"
  <2>1. FallbackPeriod(record) = [from |-> record.measuredAt, to |-> record.measuredAt]
    BY <1>2 DEF FallbackPeriod
  <2> QED BY <1>2, <2>1 DEF NoPeriod, ContainsPeriod
<1>3. CASE record.name \notin {"compare_periods", "get_latest_measurement"}
  <2>1. FallbackPeriod(record) = record.periods[1]
    BY <1>3 DEF FallbackPeriod
  <2> QED BY <1>3, <2>1 DEF ContainsPeriod
<1> QED BY <1>1, <1>2, <1>3

\* The tools, and whether they are given a period.
Tools == {"get_latest_measurement", "get_measurement_statistics", "get_measurement_series",
          "compare_periods", "get_alert_history"}
Given(name, queried) == name \in Tools /\ (name = "get_latest_measurement" \/ 1 \in DOMAIN queried)

LEMMA UnavailableHolds ==
  ASSUME NEW q, NEW name, NEW queried, Given(name, queried)
  PROVE  FallbackHolds(q, Unavailable(name, queried))
<1> DEFINE record == Unavailable(name, queried)
<1>1. /\ record.name = name /\ record.periods = queried /\ record.status = "UNAVAILABLE"
      /\ record.measuredAt = None
  BY DEF Unavailable, Record
<1> HIDE DEF record
<1>2. FallbackPeriod(record) = NoPeriod \/ ContainsPeriod(record, FallbackPeriod(record))
  BY <1>1, PeriodIsOfRecord DEF Given
<1>3. Accepted(Fallback(q, record), <<record>>)
  BY <1>1, <1>2, SayableAccepted
<1> QED BY <1>1, <1>3 DEF FallbackHolds, record

LEMMA LatestHolds ==
  ASSUME RowsAre(stored), NEW q \in Asked, NEW name, name = "get_latest_measurement"
  PROVE  FallbackHolds(q, LatestRecord(name))
<1> DEFINE record == LatestRecord(name)
           row == Latest(stored)
           found == stored # {}
           paths == {Leaf(m, "value") : m \in Measured}
<1>1. /\ record.name = name /\ record.status = StatusOf(found)
      /\ record.measuredAt = IF found THEN row.at ELSE None
      /\ record.data = [path \in paths |-> IF found THEN row.values[path.metric] ELSE None]
  BY DEF LatestRecord, Record
<1>2. Measured = {"temperature", "humidity"}
  BY QuestionAssumption
<1>3. RequestedMetrics(q) # {} /\ RequestedMetrics(q) \subseteq Measured
  BY MetricsAsked
<1>4. record.data # <<>>
  <2>1. Leaf("temperature", "value") \in DOMAIN record.data
    BY <1>1, <1>2
  <2> QED BY <2>1
<1>5. ShownPaths(q, record) =
        {path \in {Leaf(m, "value") : m \in RequestedMetrics(q)} : record.data[path] # None}
  BY <1>1 DEF ShownPaths
<1>6. \A path : ObservedAt(record, path) = None
  BY <1>1 DEF ObservedAt
<1>7. ASSUME record.status = "AVAILABLE"
      PROVE  \A m \in RequestedMetrics(q) :
               /\ Sayable(record, Leaf(m, "value"))
               /\ Leaf(m, "value") \in ShownPaths(q, record)
  <2> TAKE m \in RequestedMetrics(q)
  <2>1. found
    BY <1>1, <1>7 DEF StatusOf
  <2>2. row \in stored
    BY <2>1, LatestIs
  <2>3. row.values[m] \in Int
    BY <1>3, <2>2 DEF RowsAre, Measurement
  <2>4. Leaf(m, "value") \in paths /\ Leaf(m, "value").metric = m /\ Leaf(m, "value").leaf = "value"
    BY <1>3 DEF Leaf
  <2>5. record.data[Leaf(m, "value")] = row.values[m]
    BY <1>1, <2>1, <2>4
  <2>6. SaidUnit(Leaf(m, "value")) = Unit(Leaf(m, "value"))
    BY <1>2, <1>3, <2>4, UnitSaid
  <2>7. record.data[Leaf(m, "value")] # None
    BY <2>3, <2>5, QueryAssumption
  <2> QED BY <1>1, <1>5, <1>6, <2>4, <2>6, <2>7 DEF Sayable
<1> HIDE DEF record
<1>8. FallbackPeriod(record) = NoPeriod \/ ContainsPeriod(record, FallbackPeriod(record))
  BY <1>1, <1>4, PeriodIsOfRecord
<1>9. ASSUME record.status = "AVAILABLE"
      PROVE  /\ ShownPaths(q, record) # {}
             /\ \A path \in ShownPaths(q, record) : Sayable(record, path)
  <2>1. ShownPaths(q, record) # {}
    BY <1>3, <1>7, <1>9
  <2> QED BY <1>5, <1>7, <1>9, <2>1
<1>10. /\ Accepted(Fallback(q, record), <<record>>)
       /\ record.status = "AVAILABLE" => Fallback(q, record).numbers # {}
  BY <1>8, <1>9, SayableAccepted
<1> QED BY <1>1, <1>10 DEF FallbackHolds, record

LEMMA StatisticsHolds ==
  ASSUME RowsAre(stored), NEW q \in Asked, NEW queried, 1 \in DOMAIN queried,
         NEW name, name = "get_measurement_statistics"
  PROVE  FallbackHolds(q, StatisticsRecord(name, queried))
<1> DEFINE record == StatisticsRecord(name, queried)
           statistics == Statistics(stored, queried[1])
           inside == Selected(stored, queried[1])
           paths == {Leaf(m, leaf) : m \in Measured, leaf \in Aggregates}
<1>1. /\ record.name = name /\ record.periods = queried /\ record.status = StatusOf(inside # {})
      /\ record.data = [path \in paths |-> AggregateAt(statistics, path)]
  BY DEF StatisticsRecord, Record
<1>2. Measured = {"temperature", "humidity"} /\ q.statistic \in Aggregates
  BY QuestionAssumption
<1>3. RequestedMetrics(q) # {} /\ RequestedMetrics(q) \subseteq Measured
  BY MetricsAsked
<1>4. ShownPaths(q, record) = {Leaf(m, q.statistic) : m \in RequestedMetrics(q)}
  BY <1>1 DEF ShownPaths
<1>5. \A path : ObservedAt(record, path) = None
  BY <1>1 DEF ObservedAt
<1>6. ASSUME record.status = "AVAILABLE", NEW m \in RequestedMetrics(q)
      PROVE  Sayable(record, Leaf(m, q.statistic))
  <2> DEFINE path == Leaf(m, q.statistic)
  <2>1. IsFiniteSet(inside) /\ inside # {} /\ \A r \in inside : r.values[m] \in Int
    BY <1>1, <1>3, <1>6, SelectedIs DEF StatusOf
  <2>2. statistics[m] = Aggregate(inside, m)
    BY <1>3, <1>6 DEF Statistics
  <2>3. path.metric = m /\ path.leaf = q.statistic
    BY DEF Leaf
  <2>4. path \in paths
    BY <1>2, <1>3, <1>6
  <2>5. path.leaf # "total"
    BY <1>2, <2>3 DEF Aggregates
  <2> HIDE DEF path, inside, statistics
  <2>6. LET a == statistics[path.metric]
        IN  a.count \in Nat /\ a.minimum \in Int /\ a.maximum \in Int /\ a.average \in Int
    BY <2>1, <2>2, <2>3, AggregateType
  <2>7. AggregateAt(statistics, path) \in Int
    BY <1>2, <2>3, <2>6, AggregateAtType
  <2>8. record.data[path] = AggregateAt(statistics, path) /\ path \in DOMAIN record.data
    BY <1>1, <2>4
  <2>9. SaidUnit(path) = Unit(path)
    BY <1>2, <1>3, <2>3, <2>5, UnitSaid
  <2> HIDE DEF record
  <2>10. Sayable(record, path)
    BY <1>5, <2>7, <2>8, <2>9, QueryAssumption DEF Sayable
  <2> QED BY <2>10 DEF path
<1> HIDE DEF record
<1>7. FallbackPeriod(record) = NoPeriod \/ ContainsPeriod(record, FallbackPeriod(record))
  BY <1>1, PeriodIsOfRecord
<1>8. ASSUME record.status = "AVAILABLE"
      PROVE  /\ ShownPaths(q, record) # {}
             /\ \A path \in ShownPaths(q, record) : Sayable(record, path)
  BY <1>3, <1>4, <1>6, <1>8
<1>9. /\ Accepted(Fallback(q, record), <<record>>)
      /\ record.status = "AVAILABLE" => Fallback(q, record).numbers # {}
  BY <1>7, <1>8, SayableAccepted
<1> QED BY <1>1, <1>9 DEF FallbackHolds, record

\* A path of a part of a result.
LEMMA LeafOfIs ==
  ASSUME NEW n, NEW m, NEW leaf
  PROVE  /\ LeafOf(n, m, leaf).at = n /\ LeafOf(n, m, leaf).metric = m
         /\ LeafOf(n, m, leaf).leaf = leaf
BY DEF LeafOf

LEMMA SeriesHolds ==
  ASSUME RowsAre(stored), NEW q \in Asked, NEW queried, 1 \in DOMAIN queried,
         NEW g \in Granularities, NEW name, name = "get_measurement_series"
  PROVE  FallbackHolds(q, SeriesRecord(name, queried, g))
<1> DEFINE record == SeriesRecord(name, queried, g)
           points == Series(stored, queried[1], g)
           paths == {LeafOf(n, m, leaf) : n \in DOMAIN points, m \in Measured, leaf \in Aggregates}
           ends == {points[n].from : n \in DOMAIN points} \cup {points[n].to : n \in DOMAIN points}
           positions == {path.at : path \in DOMAIN record.data}
           samples == SampleIndices(PointCount(record))
           metrics == RequestedMetrics(q)
<1>1. /\ record.name = name /\ record.periods = queried /\ record.status = StatusOf(points # <<>>)
      /\ record.data = [path \in paths |-> AggregateAt(points[path.at].metrics, path)]
      /\ record.times = Endpoints(queried) \cup ends
      /\ record.bucketFrom = [n \in DOMAIN points |-> points[n].from]
  BY DEF SeriesRecord, Record
<1>2. Measured = {"temperature", "humidity"}
  BY QuestionAssumption
<1>3. metrics # {} /\ metrics \subseteq Measured
  BY MetricsAsked
<1>4. PICK size \in Nat :
        /\ DOMAIN points = 1 .. size
        /\ \A n \in 1 .. size, m \in Measured :
             LET a == points[n].metrics[m]
             IN  a.count \in Nat /\ a.minimum \in Int /\ a.maximum \in Int /\ a.average \in Int
  BY PointsAre, Zenon
<1>5. \A n \in 1 .. size, m \in Measured : LeafOf(n, m, "average") \in paths
  BY <1>4 DEF Aggregates
<1>6. PointCount(record) = size
  <2>1. positions = 1 .. size
    <3>1. \A path \in paths : path.at \in 1 .. size
      BY <1>4, LeafOfIs
    <3>2. \A n \in 1 .. size : \E path \in paths : path.at = n
      BY <1>2, <1>5, LeafOfIs
    <3>3. DOMAIN record.data = paths
      BY <1>1
    <3> HIDE DEF paths, record
    <3> QED BY <3>1, <3>2, <3>3
  <2> QED BY <2>1, UpTo DEF PointCount
<1>7. ShownPaths(q, record) = {LeafOf(n, m, "average") : n \in samples, m \in metrics}
  BY <1>1 DEF ShownPaths
<1>8. \A n \in 1 .. size : points[n].from \in ends /\ record.bucketFrom[n] = points[n].from
  BY <1>1, <1>4
<1>9. ASSUME record.status = "AVAILABLE"
      PROVE  /\ samples \subseteq 1 .. size /\ {1, size} \subseteq samples
             /\ Cardinality(samples) = Lesser(size, MaxShown)
  <2>1. points # <<>>
    BY <1>1, <1>9 DEF StatusOf
  <2>2. points = [n \in DOMAIN points |-> points[n]]
    BY DEF Series
  <2>3. size # 0
    <3> HIDE DEF points
    <3> SUFFICES ASSUME size = 0 PROVE FALSE
      OBVIOUS
    <3>1. DOMAIN points = {}
      BY <1>4
    <3>2. points = <<>>
      BY <2>2, <3>1
    <3> QED BY <2>1, <3>2
  <2> QED BY <1>6, <2>3, Sampling
<1> HIDE DEF samples, paths, ends, positions, points, metrics
<1>10. ASSUME record.status = "AVAILABLE", NEW n \in samples, NEW m \in metrics
       PROVE  Sayable(record, LeafOf(n, m, "average"))
  <2> DEFINE path == LeafOf(n, m, "average")
             statistics == points[path.at].metrics
  <2>1. path.at = n /\ path.metric = m /\ path.leaf = "average"
    BY LeafOfIs
  <2>2. n \in 1 .. size /\ path \in paths
    BY <1>3, <1>5, <1>9, <1>10
  <2> HIDE DEF path, record
  <2>3. LET a == statistics[path.metric]
        IN  a.count \in Nat /\ a.minimum \in Int /\ a.maximum \in Int /\ a.average \in Int
    BY <1>3, <1>4, <2>1, <2>2
  <2> HIDE DEF statistics
  <2>4. AggregateAt(statistics, path) \in Int
    BY <2>1, <2>3, AggregateAtType DEF Aggregates
  <2>5. record.data[path] = AggregateAt(statistics, path) /\ path \in DOMAIN record.data
    BY <1>1, <2>2 DEF statistics
  <2>6. SaidUnit(path) = Unit(path)
    BY <1>2, <1>3, <2>1, UnitSaid
  <2>7. ObservedAt(record, path) \in record.times
    <3>1. ObservedAt(record, path) = record.bucketFrom[n]
      BY <1>1, <2>1 DEF ObservedAt
    <3> QED BY <1>1, <1>8, <2>2, <3>1
  <2>8. Sayable(record, path)
    BY <2>4, <2>5, <2>6, <2>7, QueryAssumption DEF Sayable
  <2> QED BY <2>8 DEF path
<1> HIDE DEF record
<1>11. FallbackPeriod(record) = NoPeriod \/ ContainsPeriod(record, FallbackPeriod(record))
  BY <1>1, PeriodIsOfRecord
<1>12. ASSUME record.status = "AVAILABLE"
       PROVE  /\ ShownPaths(q, record) # {}
              /\ \A path \in ShownPaths(q, record) : Sayable(record, path)
              /\ {path.at : path \in ShownPaths(q, record)} = samples
  <2>1. \A path \in ShownPaths(q, record) : Sayable(record, path)
    BY <1>7, <1>10, <1>12
  <2>2. ASSUME NEW n \in samples
        PROVE  \E path \in ShownPaths(q, record) : path.at = n
    <3>1. PICK m \in metrics : TRUE
      BY <1>3
    <3>2. LeafOf(n, m, "average") \in ShownPaths(q, record)
      BY <1>7
    <3> QED BY <3>2, LeafOfIs
  <2>3. \A path \in ShownPaths(q, record) : path.at \in samples
    BY <1>7, LeafOfIs
  <2>4. {path.at : path \in ShownPaths(q, record)} = samples
    BY <2>2, <2>3
  <2>5. ShownPaths(q, record) # {}
    BY <1>9, <1>12, <2>2
  <2> QED BY <2>1, <2>4, <2>5
<1>13. /\ Accepted(Fallback(q, record), <<record>>)
       /\ record.status = "AVAILABLE" => Fallback(q, record).numbers # {}
       /\ record.status = "AVAILABLE" =>
            {e.path.at : e \in Fallback(q, record).evidence}
              = {path.at : path \in ShownPaths(q, record)}
  BY <1>11, <1>12, SayableAccepted
<1>14. ASSUME record.status = "AVAILABLE"
       PROVE  LET shown == {e.path.at : e \in Fallback(q, record).evidence}
              IN  /\ Cardinality(shown) = Lesser(PointCount(record), MaxShown)
                  /\ {1, PointCount(record)} \subseteq shown
  BY <1>6, <1>9, <1>12, <1>13, <1>14
<1> QED BY <1>13, <1>14 DEF FallbackHolds, record

LEMMA CompareHolds ==
  ASSUME RowsAre(stored), NEW q \in Asked, NEW queried,
         NEW name, name = "compare_periods"
  PROVE  FallbackHolds(q, CompareRecord(name, queried))
<1> DEFINE record == CompareRecord(name, queried)
           inside(i) == Selected(stored, queried[i])
           statistics == [i \in 1 .. 2 |-> Statistics(stored, queried[i])]
           parts == {LeafOf(i, m, leaf) : i \in 1 .. 2, m \in Measured, leaf \in Aggregates}
           differences == {Leaf(m, "difference") : m \in Measured}
           metrics == RequestedMetrics(q)
<1>1. /\ record.name = name /\ record.periods = queried
      /\ record.status = StatusOf({} \notin {inside(i) : i \in 1 .. 2})
      /\ record.data = CompareData(statistics)
  BY DEF CompareRecord, Record
<1>2. Measured = {"temperature", "humidity"}
  BY QuestionAssumption
<1>3. metrics # {} /\ metrics \subseteq Measured
  BY MetricsAsked
<1>4. ShownPaths(q, record) = {LeafOf(n, m, "average") : n \in {1, 2}, m \in metrics}
                                \cup {Leaf(m, "difference") : m \in metrics}
  BY <1>1 DEF ShownPaths
<1>5. \A path : ObservedAt(record, path) = None
  BY <1>1 DEF ObservedAt
<1>6. /\ DOMAIN record.data = parts \cup differences
      /\ \A path \in parts : record.data[path] = AggregateAt(statistics[path.at], path)
      /\ \A path \in differences \ parts :
           record.data[path] = Difference(statistics[1][path.metric].average,
                                          statistics[2][path.metric].average)
  <2> DEFINE entry(path) == IF path \in parts THEN AggregateAt(statistics[path.at], path)
                            ELSE Difference(statistics[1][path.metric].average,
                                            statistics[2][path.metric].average)
  <2>1. record.data = [path \in parts \cup differences |-> entry(path)]
    <3> HIDE DEF statistics, record
    <3> QED BY <1>1 DEF CompareData
  <2> HIDE DEF parts, differences, statistics, record
  <2>2. DOMAIN record.data = parts \cup differences
    BY <2>1
  <2>3. \A path \in parts \cup differences : record.data[path] = entry(path)
    BY <2>1
  <2> QED BY <2>2, <2>3
<1>7. ASSUME record.status = "AVAILABLE", NEW n \in {1, 2}, NEW m \in Measured
      PROVE  LET a == statistics[n][m]
             IN  a.count \in Nat /\ a.minimum \in Int /\ a.maximum \in Int /\ a.average \in Int
  <2>1. n \in 1 .. 2
    OBVIOUS
  <2>2. IsFiniteSet(inside(n)) /\ inside(n) # {} /\ \A r \in inside(n) : r.values[m] \in Int
    <3>1. inside(n) # {}
      BY <1>1, <1>7, <2>1 DEF StatusOf
    <3> QED BY <3>1, SelectedIs
  <2>3. statistics[n][m] = Aggregate(inside(n), m)
    BY <2>1 DEF Statistics
  <2> HIDE DEF inside, statistics
  <2> QED BY <2>2, <2>3, AggregateType
<1> HIDE DEF statistics
<1>8. ASSUME record.status = "AVAILABLE", NEW n \in {1, 2}, NEW m \in metrics
      PROVE  Sayable(record, LeafOf(n, m, "average"))
  <2> DEFINE path == LeafOf(n, m, "average")
             at == statistics[path.at]
  <2>1. path.at = n /\ path.metric = m /\ path.leaf = "average"
    BY LeafOfIs
  <2>2. path \in parts
    BY <1>3, <1>8 DEF Aggregates
  <2> HIDE DEF path, record, parts
  <2>3. LET a == at[path.metric]
        IN  a.count \in Nat /\ a.minimum \in Int /\ a.maximum \in Int /\ a.average \in Int
    BY <1>3, <1>7, <1>8, <2>1
  <2>4. record.data[path] = AggregateAt(at, path) /\ path \in DOMAIN record.data
    BY <1>6, <2>2
  <2> HIDE DEF at
  <2>5. AggregateAt(at, path) \in Int
    BY <2>1, <2>3, AggregateAtType DEF Aggregates
  <2>6. SaidUnit(path) = Unit(path)
    BY <1>2, <1>3, <2>1, UnitSaid
  <2>7. Sayable(record, path)
    BY <1>5, <2>4, <2>5, <2>6, QueryAssumption DEF Sayable
  <2> QED BY <2>7 DEF path
<1>9. ASSUME record.status = "AVAILABLE", NEW m \in metrics
      PROVE  Sayable(record, Leaf(m, "difference"))
  <2> DEFINE path == Leaf(m, "difference")
             first == statistics[1][m].average
             second == statistics[2][m].average
  <2>1. path.at = 0 /\ path.metric = m /\ path.leaf = "difference"
    BY DEF Leaf
  <2>2. path \in differences
    BY <1>3, <1>9
  <2>3. path \notin parts
    <3>1. \A part \in parts : part.at \in 1 .. 2
      BY LeafOfIs
    <3> HIDE DEF path
    <3> QED BY <2>1, <3>1
  <2>4. first \in Int /\ second \in Int
    BY <1>3, <1>7, <1>9
  <2> HIDE DEF path, record, parts, differences
  <2>5. record.data[path] = Difference(first, second) /\ path \in DOMAIN record.data
    BY <1>6, <2>1, <2>2, <2>3
  <2> HIDE DEF first, second
  <2>6. Difference(first, second) \in Int
    BY <2>4, QueryAssumption DEF Difference
  <2>7. SaidUnit(path) = Unit(path)
    BY <1>2, <1>3, <2>1, UnitSaid
  <2>8. Sayable(record, path)
    BY <1>5, <2>5, <2>6, <2>7, QueryAssumption DEF Sayable
  <2> QED BY <2>8 DEF path
<1> HIDE DEF record, metrics
<1>10. FallbackPeriod(record) = NoPeriod \/ ContainsPeriod(record, FallbackPeriod(record))
  BY <1>1, PeriodIsOfRecord
<1>11. ASSUME record.status = "AVAILABLE"
       PROVE  /\ ShownPaths(q, record) # {}
              /\ \A path \in ShownPaths(q, record) : Sayable(record, path)
  <2>1. ShownPaths(q, record) # {}
    BY <1>3, <1>4
  <2> QED BY <1>4, <1>8, <1>9, <1>11, <2>1
<1>12. /\ Accepted(Fallback(q, record), <<record>>)
       /\ record.status = "AVAILABLE" => Fallback(q, record).numbers # {}
  BY <1>10, <1>11, SayableAccepted
<1> QED BY <1>1, <1>12 DEF FallbackHolds, record

LEMMA AlertHolds ==
  ASSUME alerts \in Seq(AlertRow), NEW q, NEW queried, 1 \in DOMAIN queried, NEW filter,
         NEW name, name = "get_alert_history"
  PROVE  FallbackHolds(q, AlertRecord(name, queried, filter))
<1> DEFINE record == AlertRecord(name, queried, filter)
           found == Matching(alerts, queried[1], filter)
           total == Leaf("alerts", "total")
<1>1. /\ record.name = name /\ record.periods = queried
      /\ total \in DOMAIN record.data
      /\ record.data[total] = Whole(Cardinality(found))
  BY DEF AlertRecord, Record
<1>2. Cardinality(found) \in Nat
  <2>1. found \in SUBSET DOMAIN alerts
    BY DEF Matching
  <2>2. IsFiniteSet(DOMAIN alerts)
    BY FS_Interval
  <2>3. IsFiniteSet(found)
    BY <2>1, <2>2, FS_Subset
  <2> QED BY <2>3, FS_CardinalityType
<1>3. record.data[total] \in Int
  BY <1>1, <1>2 DEF Whole
<1>4. ShownPaths(q, record) = {total}
  BY <1>1 DEF ShownPaths
<1>5. ObservedAt(record, total) = None
  BY <1>1 DEF ObservedAt
<1>6. SaidUnit(total) = Unit(total)
  BY DEF SaidUnit, Unit, Leaf
<1> HIDE DEF record, total
<1>7. Sayable(record, total)
  BY <1>1, <1>3, <1>5, <1>6, QueryAssumption DEF Sayable
<1>8. FallbackPeriod(record) = NoPeriod \/ ContainsPeriod(record, FallbackPeriod(record))
  BY <1>1, PeriodIsOfRecord
<1>9. /\ Accepted(Fallback(q, record), <<record>>)
      /\ record.status = "AVAILABLE" => Fallback(q, record).numbers # {}
  BY <1>4, <1>7, <1>8, SayableAccepted
<1> QED BY <1>1, <1>9 DEF FallbackHolds, record

\* Whatever a tool answers, the fallback made of it is accepted.
LEMMA AnswerHolds ==
  ASSUME RowsAre(stored), alerts \in Seq(AlertRow), NEW q \in Asked, NEW name, NEW queried,
         Given(name, queried), NEW g \in Granularities, NEW filter
  PROVE  FallbackHolds(q, Answer(name, queried, g, filter))
<1> DEFINE refused == \/ \E i \in DOMAIN queried : ~ValidPeriod(queried[i])
                      \/ name = "get_measurement_series" /\ ~AcceptsSeries(queried[1], g)
<1>1. CASE refused
  <2>1. Answer(name, queried, g, filter) = Unavailable(name, queried)
    BY <1>1 DEF Answer
  <2> QED BY <2>1, UnavailableHolds
<1>2. CASE ~refused
  <2> DEFINE answer == Answer(name, queried, g, filter)
  <2>1. answer = CASE name = "get_latest_measurement"     -> LatestRecord(name)
                   [] name = "get_measurement_statistics" -> StatisticsRecord(name, queried)
                   [] name = "get_measurement_series"     -> SeriesRecord(name, queried, g)
                   [] name = "compare_periods"            -> CompareRecord(name, queried)
                   [] name = "get_alert_history"          -> AlertRecord(name, queried, filter)
    BY <1>2 DEF Answer
  <2> HIDE DEF answer
  <2>2. CASE name = "get_latest_measurement"
    <3>1. answer = LatestRecord(name)
      BY <2>1, <2>2
    <3> QED BY <2>2, <3>1, LatestHolds DEF answer
  <2>3. CASE name = "get_measurement_statistics"
    <3>1. answer = StatisticsRecord(name, queried)
      BY <2>1, <2>3
    <3>2. 1 \in DOMAIN queried
      BY <2>3 DEF Given
    <3> QED BY <2>3, <3>1, <3>2, StatisticsHolds DEF answer
  <2>4. CASE name = "get_measurement_series"
    <3>1. answer = SeriesRecord(name, queried, g)
      BY <2>1, <2>4
    <3>2. 1 \in DOMAIN queried
      BY <2>4 DEF Given
    <3> QED BY <2>4, <3>1, <3>2, SeriesHolds DEF answer
  <2>5. CASE name = "compare_periods"
    <3>1. answer = CompareRecord(name, queried)
      BY <2>1, <2>5
    <3> QED BY <2>5, <3>1, CompareHolds DEF answer
  <2>6. CASE name = "get_alert_history"
    <3>1. answer = AlertRecord(name, queried, filter)
      BY <2>1, <2>6
    <3>2. 1 \in DOMAIN queried
      BY <2>6 DEF Given
    <3> QED BY <2>6, <3>1, <3>2, AlertHolds DEF answer
  <2> QED BY <2>2, <2>3, <2>4, <2>5, <2>6 DEF Given, Tools
<1> QED BY <1>1, <1>2

\* What is stored and may be stored never grows, and the fallback of the first
\* result, which never changes, holds.
FallbackInv ==
  /\ RowsAre(stored \cup arriving)
  /\ alerts \in Seq(AlertRow)
  /\ history # <<>> => FallbackHolds(question, history[1])

LEMMA CallKeepsFallback ==
  ASSUME QuestionsInv, FallbackInv, NEW supplied \in Supplied, NEW g \in Granularities,
         NEW filter, CallTool(supplied, g, filter)
  PROVE  FallbackInv'
<1>1. /\ step = "running" /\ question' = question /\ stored' = stored /\ arriving' = arriving
      /\ alerts' = alerts
  BY DEF CallTool, environment
<1>2. Forced(supplied) = periods
  BY <1>1, ForcedIsAsked DEF QuestionsInv
<1>3. PICK record \in {Answer(Tool, periods, g, filter), Unavailable(Tool, periods)} :
        history' = Append(history, record)
  BY <1>2 DEF CallTool
<1>4. PICK S : history \in Seq(S)
  BY DEF QuestionsInv, HistoryIsSequence
<1>5. history \in Seq(S \cup {record})
  BY <1>4
<1>6. CASE history # <<>>
  <2>1. history'[1] = history[1]
    BY <1>3, <1>5, <1>6
  <2> QED BY <1>1, <1>6, <2>1 DEF FallbackInv
<1>7. CASE history = <<>>
  <2>1. history'[1] = record
    BY <1>3, <1>7
  <2>2. question \in Asked /\ Kind(question) \in Kinds /\ DOMAIN periods = 1 .. Expected
    BY <1>1 DEF QuestionsInv, QuestionIsKnown, PeriodsAreValid
  <2>3. Given(Tool, periods)
    <3>1. Tool \in Tools
      BY <2>2 DEF Tool, Tools, Kinds, ToolByKind
    <3>2. ASSUME Tool # "get_latest_measurement" PROVE 1 \in DOMAIN periods
      <4>1. Kind(question) # "LATEST"
        BY <3>2 DEF Tool, ToolByKind
      <4>2. Expected \in {1, 2}
        BY <4>1 DEF Expected, PeriodCount
      <4> QED BY <2>2, <4>2
    <3> QED BY <3>1, <3>2 DEF Given
  <2>4. RowsAre(stored)
    <3>1. stored \in SUBSET (stored \cup arriving)
      OBVIOUS
    <3> QED BY <3>1, FS_Subset DEF FallbackInv, RowsAre
  <2>5. FallbackHolds(question, record)
    BY <1>3, <2>2, <2>3, <2>4, AnswerHolds, UnavailableHolds DEF FallbackInv
  <2> QED BY <1>1, <2>1, <2>5 DEF FallbackInv
<1> QED BY <1>6, <1>7

LEMMA FallbackAlways == Spec => []FallbackInv
<1>1. Init => FallbackInv
  <2> SUFFICES ASSUME Init PROVE FallbackInv
    OBVIOUS
  <2>1. PICK world \in Worlds :
          stored = world.stored /\ arriving = world.arriving /\ alerts = world.alerts
    BY DEF Init
  <2>2. RowsAre(stored \cup arriving) /\ alerts \in Seq(AlertRow)
    BY <2>1, QuestionAssumption DEF RowsAre, AlertRow
  <2> QED BY <2>2 DEF Init, FallbackInv
<1>2. ASSUME QuestionsInv, FallbackInv, [Next]_vars
      PROVE  FallbackInv'
  <2>1. ASSUME UNCHANGED <<environment, question, history>> PROVE FallbackInv'
    BY <1>2, <2>1 DEF FallbackInv, environment
  <2>2. ASSUME NEW q \in Asked, Ask(q) PROVE FallbackInv'
    <3>1. history' = <<>> /\ UNCHANGED environment
      BY <1>2, <2>2 DEF Ask, QuestionsInv, DisplayIsLast
    <3> QED BY <1>2, <3>1 DEF FallbackInv, environment
  <2>3. ASSUME NEW supplied \in Supplied, NEW g \in Granularities, NEW filter,
               CallTool(supplied, g, filter)
        PROVE  FallbackInv'
    BY <1>2, <2>3, CallKeepsFallback
  <2>4. ASSUME NEW row \in arriving, StoreMeasurement(row) PROVE FallbackInv'
    <3>1. stored' \cup arriving' = stored \cup arriving
      BY <2>4 DEF StoreMeasurement
    <3>2. question' = question /\ history' = history /\ alerts' = alerts
      BY <2>4 DEF StoreMeasurement
    <3> QED BY <1>2, <3>1, <3>2 DEF FallbackInv
  <2>5. ASSUME NEW c, Conclude(c) PROVE FallbackInv'
    BY <2>1, <2>5 DEF Conclude
  <2>6. ASSUME Fail PROVE FallbackInv'
    BY <2>1, <2>6 DEF Fail
  <2>7. CASE UNCHANGED vars
    BY <2>1, <2>7 DEF vars
  <2> QED BY <1>2, <2>2, <2>3, <2>4, <2>5, <2>6, <2>7 DEF Next
<1> QED BY <1>1, <1>2, InvAlways, PTL DEF Spec

----------------------------------------------------------------------------
(* Theorems                                                                  *)

\* Whatever the clock and the question, no period is resolved that
\* QueryService._validate_period refuses.
THEOREM ResolvedPeriodsAreAlwaysAccepted == Spec => []ResolvedPeriodsAreAccepted
<1>1. QuestionsInv => ResolvedPeriodsAreAccepted
  BY DEF QuestionsInv, PeriodsAreValid, ResolvedPeriodsAreAccepted
<1> QED BY <1>1, InvAlways, PTL

\* Whatever periods the model passes to its tool, ReadOnlyTools._forced_period
\* has the periods of the question queried.
THEOREM OnlyAskedPeriodsAreEverQueried == Spec => []OnlyAskedPeriodsAreQueried
<1>1. QuestionsInv => OnlyAskedPeriodsAreQueried
  BY DEF QuestionsInv
<1> QED BY <1>1, InvAlways, PTL

\* Whatever the model answers, what validate_and_build_display lets through to the
\* page rests on what the tools returned.
THEOREM AnswersAlwaysRestOnTools == Spec => []AnswersRestOnTools
<1>1. ASSUME QuestionsInv, display # NoDisplay
      PROVE  \/ display.period = NoPeriod
             \/ \E i \in DOMAIN periods : display.period = periods[i]
             \/ \E i \in DOMAIN history :
                  history[i].measuredAt = display.period.from
                    /\ display.period.to = display.period.from
  <2>1. Supported(display, history)
    BY <1>1 DEF QuestionsInv, DisplayIsLast
  <2>2. \A i \in DOMAIN history : history[i].periods = periods
    BY <1>1 DEF QuestionsInv, OnlyAskedPeriodsAreQueried
  <2> QED BY <2>1, <2>2 DEF Supported
<1>2. QuestionsInv => AnswersRestOnTools
  BY <1>1 DEF QuestionsInv, DisplayIsLast, Supported, AnswersRestOnTools
<1> QED BY <1>2, InvAlways, PTL

\* Whatever the clock and the words, a period PeriodResolver resolves begins and ends
\* where what the words mean in the calendar of Asia/Tokyo does.
THEOREM PeriodsAreAlwaysCalendar == Spec => []PeriodsAreCalendar
<1>1. PeriodsHold => PeriodsAreCalendar
  BY DEF PeriodsHold, PeriodsAreCalendar
<1> QED BY <1>1, HoldsAlways, PTL

\* Whatever is stored and whatever its first result, a question whose answer is
\* refused is answered by build_verified_fallback: the answer made of the result
\* passes validate_and_build_display.
THEOREM FallbackAlwaysSucceeds == Spec => []FallbackSucceeds
<1>1. FallbackInv => FallbackSucceeds
  BY DEF FallbackInv, FallbackHolds, FallbackSucceeds
<1> QED BY <1>1, FallbackAlways, PTL
=============================================================================

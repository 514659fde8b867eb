----------------------------- MODULE Questions -----------------------------
(***************************************************************************)
(* One question from its text to the page: QuestionClassifier, the periods   *)
(* of PeriodResolver, the calls the model makes of the one tool it is given  *)
(* (ReadOnlyTools over QueryService), and the model's answer, verified or     *)
(* replaced.  Measurements are stored meanwhile.  The turns, time limits and  *)
(* the row of the request are those of AgentRun.                             *)
(*                                                                         *)
(* A question is the classes of words it has, the metrics it names, the      *)
(* statistic it asks for, its period tokens in order, which of "from" and     *)
(* "to" it has, and whether a modifier follows a token.                      *)
(***************************************************************************)
EXTENDS PeriodResolver, AnswerValidation

CONSTANTS
  Worlds,           \* [now, stored, arriving, alerts] a question may meet
  Asked,            \* the questions
  SuppliedPeriods,  \* periods the model may pass to a tool
  Proposals(_, _),  \* the candidates the model may answer, given question and history
  MaxCalls          \* ReadOnlyTools max_calls, 5 in the code

ASSUME QuestionAssumption ==
  /\ Measured = {"temperature", "humidity"}
  /\ \A q \in Asked : /\ q.tokens \in Seq(Token)
                     /\ q.metrics \subseteq Measured
                     /\ q.statistic \in Aggregates
  /\ \A world \in Worlds :
       LET rows == world.stored \cup world.arriving
       IN  /\ world.now \in Int
           /\ IsFiniteSet(rows) /\ rows \subseteq Measurement
           /\ \A r, s \in rows : r.id = s.id => r = s
           /\ world.alerts \in Seq([started : Int, status : {"OPEN", "RESOLVED"},
                                    metric : Measured, threshold : Int, trigger : Int,
                                    hysteresis : Int])
  /\ MaxCalls \in Nat

VARIABLES
  now,       \* the clock, in Asia/Tokyo
  stored,    \* the rows of app.measurements
  arriving,  \* those that may be stored while the question is answered
  alerts,    \* the rows of app.alerts
  question,
  step,      \* "idle", "fixed", "raised", "running", "answered", "fallback", "failed"
  periods,   \* resolved_periods, in UTC
  history,   \* tools.history
  display    \* what the page shows of data

environment == <<now, stored, arriving, alerts>>
vars == <<environment, question, step, periods, history, display>>

NoQuestion == [words |-> {}, metrics |-> {}, statistic |-> "average", tokens |-> <<>>,
               edges |-> {}, modified |-> FALSE]

NoDisplay == [numbers |-> {}, dates |-> {}, period |-> NoPeriod, status |-> "NONE"]

----------------------------------------------------------------------------
(* QuestionClassifier                                                        *)

HasData(q) == q.metrics # {} \/ "data" \in q.words
HasPeriod(q) == q.tokens # <<>> \/ q.edges # {}

\* The rules in order of priority: a condition, what is required of the question,
\* and its kind; without the requirement a clarification is asked for.
Rules(q) ==
  << [applies |-> "unsupported" \in q.words, met |-> TRUE, kind |-> "UNSUPPORTED_OPERATION"],
     [applies |-> "help" \in q.words,        met |-> TRUE, kind |-> "HELP"],
     [applies |-> "out of scope" \in q.words, met |-> TRUE, kind |-> "OUT_OF_SCOPE"],
     [applies |-> "compare" \in q.words,
      met |-> HasData(q) /\ Len(q.tokens) >= 2, kind |-> "COMPARE"],
     [applies |-> "alert" \in q.words, met |-> HasPeriod(q), kind |-> "ALERT_HISTORY"],
     [applies |-> "series" \in q.words, met |-> HasData(q) /\ HasPeriod(q), kind |-> "SERIES"],
     [applies |-> "statistics" \in q.words,
      met |-> HasData(q) /\ HasPeriod(q), kind |-> "STATISTICS"],
     [applies |-> "latest" \in q.words /\ HasData(q), met |-> TRUE, kind |-> "LATEST"] >>

\* classify
Kind(q) ==
  LET rules == Rules(q)
      first(i) == rules[i].applies /\ \A j \in 1 .. (i - 1) : ~rules[j].applies
  IN  IF \E i \in DOMAIN rules : first(i) /\ rules[i].met
      THEN rules[CHOOSE i \in DOMAIN rules : first(i)].kind
      ELSE "CLARIFICATION"

ToolByKind == [LATEST        |-> "get_latest_measurement",
               STATISTICS    |-> "get_measurement_statistics",
               SERIES        |-> "get_measurement_series",
               COMPARE       |-> "compare_periods",
               ALERT_HISTORY |-> "get_alert_history"]

PeriodCount(kind) == IF kind = "LATEST" THEN 0 ELSE IF kind = "COMPARE" THEN 2 ELSE 1

----------------------------------------------------------------------------
(* What the tools return                                                     *)

Record(name, queried, status, data, times) ==
  [name |-> name, periods |-> queried, status |-> status, data |-> data, times |-> times,
   measuredAt |-> None, bucketFrom |-> <<>>]

Unavailable(name, queried) == Record(name, queried, "UNAVAILABLE", <<>>, {})

StatusOf(found) == IF found THEN "AVAILABLE" ELSE "NO_DATA"

Endpoints(queried) == {queried[i].from : i \in DOMAIN queried}
                        \cup {queried[i].to : i \in DOMAIN queried}

\* A number of a MetricStatistics.
AggregateAt(statistics, path) ==
  IF path.leaf = "count" THEN Whole(statistics[path.metric].count)
                         ELSE statistics[path.metric][path.leaf]

LatestRecord(name) ==
  LET found == stored # {}
      row == Latest(stored)
      paths == {Leaf(m, "value") : m \in Measured}
  IN  [Record(name, <<>>, StatusOf(found),
              [path \in paths |-> IF found THEN row.values[path.metric] ELSE None],
              IF found THEN {row.at} ELSE {})
       EXCEPT !.measuredAt = IF found THEN row.at ELSE None]

StatisticsRecord(name, queried) ==
  LET statistics == Statistics(stored, queried[1])
  IN  Record(name, queried, StatusOf(Selected(stored, queried[1]) # {}),
             [path \in {Leaf(m, leaf) : m \in Measured, leaf \in Aggregates} |->
                AggregateAt(statistics, path)],
             Endpoints(queried))

SeriesRecord(name, queried, g) ==
  LET points == Series(stored, queried[1], g)
      paths == {LeafOf(n, m, leaf) : n \in DOMAIN points, m \in Measured, leaf \in Aggregates}
      ends == {points[n].from : n \in DOMAIN points} \cup {points[n].to : n \in DOMAIN points}
  IN  [Record(name, queried, StatusOf(points # <<>>),
              [path \in paths |-> AggregateAt(points[path.at].metrics, path)],
              Endpoints(queried) \cup ends)
       EXCEPT !.bucketFrom = [n \in DOMAIN points |-> points[n].from]]

\* Two statistics, and the differences of their averages.
CompareData(statistics) ==
  LET parts == {LeafOf(i, m, leaf) : i \in 1 .. 2, m \in Measured, leaf \in Aggregates}
      averages(m) == <<statistics[1][m].average, statistics[2][m].average>>
  IN  [path \in parts \cup {Leaf(m, "difference") : m \in Measured} |->
         IF path \in parts THEN AggregateAt(statistics[path.at], path)
         ELSE Difference(averages(path.metric)[1], averages(path.metric)[2])]

CompareRecord(name, queried) ==
  Record(name, queried,
         StatusOf({} \notin {Selected(stored, queried[i]) : i \in 1 .. 2}),
         CompareData([i \in 1 .. 2 |-> Statistics(stored, queried[i])]),
         Endpoints(queried))

AlertRecord(name, queried, filter) ==
  LET found == Matching(alerts, queried[1], filter)
      shown == Newest(alerts, found)
      values == {"threshold", "trigger", "hysteresis"}
      total == Leaf("alerts", "total")
      paths == {LeafOf(n, alerts[shown[n]].metric, leaf) :
                  n \in DOMAIN shown, leaf \in values}
  IN  Record(name, queried, StatusOf(shown # <<>>),
             [path \in paths \cup {total} |->
                IF path = total THEN Whole(Cardinality(found))
                                ELSE alerts[shown[path.at]][path.leaf]],
             Endpoints(queried) \cup {alerts[shown[n]].started : n \in DOMAIN shown})

\* QueryService validates, then answers.
Answer(name, queried, g, filter) ==
  IF \/ \E i \in DOMAIN queried : ~ValidPeriod(queried[i])
     \/ name = "get_measurement_series" /\ ~AcceptsSeries(queried[1], g)
  THEN Unavailable(name, queried)
  ELSE CASE name = "get_latest_measurement"     -> LatestRecord(name)
         [] name = "get_measurement_statistics" -> StatisticsRecord(name, queried)
         [] name = "get_measurement_series"     -> SeriesRecord(name, queried, g)
         [] name = "compare_periods"            -> CompareRecord(name, queried)
         [] name = "get_alert_history"          -> AlertRecord(name, queried, filter)

----------------------------------------------------------------------------
(* The actions                                                               *)

Init ==
  /\ \E world \in Worlds : /\ now = world.now
                          /\ stored = world.stored
                          /\ arriving = world.arriving
                          /\ alerts = world.alerts
  /\ question = NoQuestion
  /\ step = "idle"
  /\ periods = <<>>
  /\ history = <<>>
  /\ display = NoDisplay

Utc(p) == [from |-> p.from - Offset, to |-> p.to - Offset]

\* A fixed answer, or a run with one tool and the periods resolved once.
Begin(kind, resolution) ==
  LET starts == kind = "LATEST" \/ resolution.outcome = "resolved"
  IN  IF kind \in DOMAIN ToolByKind
      THEN IF starts
           THEN /\ step' = "running"
                /\ periods' = IF kind = "LATEST" THEN <<>>
                              ELSE [i \in DOMAIN resolution.periods |->
                                      Utc(resolution.periods[i])]
           ELSE /\ step' = IF resolution.outcome = "raised" THEN "raised" ELSE "fixed"
                /\ UNCHANGED periods
      ELSE step' = "fixed" /\ UNCHANGED periods

\* AgentService.run up to the row of the request.
Ask(q) ==
  /\ step = "idle"
  /\ question' = q
  /\ Begin(Kind(q), Resolve(q, PeriodCount(Kind(q)), now))
  /\ UNCHANGED <<environment, history, display>>

Tool == ToolByKind[Kind(question)]

\* Mutated form of Forced: the model's periods are used.
ForcedNot(supplied) == supplied

\* _forced_period, for every period the tool takes.
Forced(supplied) ==
  IF periods = <<>> THEN supplied ELSE [i \in DOMAIN supplied |-> periods[i]]

\* A call of the allowed tool, which records the period it was forced to; for
\* another device, or if the database fails, it is unavailable.
CallTool(supplied, g, filter) ==
  /\ step = "running"
  /\ Len(history) < MaxCalls
  /\ \E record \in {Answer(Tool, Forced(supplied), g, filter),
                    Unavailable(Tool, Forced(supplied))} :
       history' = Append(history, record)
  /\ UNCHANGED <<environment, question, step, periods, display>>

StoreMeasurement(row) ==
  /\ step = "running"
  /\ row \in arriving
  /\ stored' = stored \cup {row}
  /\ arriving' = arriving \ {row}
  /\ UNCHANGED <<now, alerts, question, step, periods, history, display>>

Shown(c) ==
  [numbers |-> c.numbers, dates |-> c.dates, period |-> c.period, status |-> c.status]

\* The model's candidate is verified and shown, or the fallback is.
Conclude(c) ==
  /\ step = "running"
  /\ IF Accepted(c, history)
     THEN step' = "answered" /\ display' = Shown(c)
     ELSE IF history # <<>> /\ Accepted(Fallback(question, history[1]), <<history[1]>>)
     THEN step' = "fallback" /\ display' = Shown(Fallback(question, history[1]))
     ELSE step' = "failed" /\ UNCHANGED display
  /\ UNCHANGED <<environment, question, periods, history>>

\* Another tool, the call or turn limit, a timeout, the backend.
Fail ==
  /\ step = "running"
  /\ step' = "failed"
  /\ UNCHANGED <<environment, question, periods, history, display>>

Supplied == [1 .. PeriodCount(Kind(question)) -> SuppliedPeriods]

Next ==
  \/ \E q \in Asked : Ask(q)
  \/ \E supplied \in Supplied, g \in Granularities, filter \in Filters :
       CallTool(supplied, g, filter)
  \/ \E row \in arriving : StoreMeasurement(row)
  \/ \E c \in Proposals(question, history) : Conclude(c)
  \/ Fail

Spec == Init /\ [][Next]_vars

----------------------------------------------------------------------------
(* Properties                                                                *)

\* Every period PeriodResolver resolves is one QueryService takes: two modules
\* with limits of their own, and the model cannot be told that the question it
\* was let through with is invalid.
ResolvedPeriodsAreAccepted ==
  \A i \in DOMAIN periods : ValidPeriod(periods[i])

\* Whatever periods the model passes, and however often it calls: all that is
\* read from the database, and so all the model sees, is of the periods of the
\* question and of the kind it was classified as.
OnlyAskedPeriodsAreQueried ==
  \A i \in DOMAIN history :
    history[i].name = Tool /\ history[i].periods = periods

Spans(token, p) ==
  LET means(t) == Meant(token, now, Local(t))
  IN  /\ means(p.from) /\ ~means(p.from - 1)
      /\ means(p.to - 1) /\ ~means(p.to)

\* A resolved period is what its words mean in the calendar of Asia/Tokyo: it
\* begins and ends where their meaning does, at month and year ends and leap
\* days too, and "from A to B" begins with A and ends with B.
PeriodsAreCalendar ==
  step = "running" /\ history = <<>> =>
    IF Len(periods) = Len(question.tokens)
    THEN \A i \in DOMAIN periods : Spans(question.tokens[i], periods[i])
    ELSE LET means(i, t) == Meant(question.tokens[i], now, Local(t))
         IN  \A p \in {periods[i] : i \in DOMAIN periods} :
               /\ means(1, p.from) /\ ~means(1, p.from - 1)
               /\ means(2, p.to - 1) /\ ~means(2, p.to)

\* The numbers of the tool results, each with the unit it has.
Found(results) ==
  {found \in UNION {{[value |-> results[i].data[path], unit |-> Unit(path)] :
                       path \in DOMAIN results[i].data} : i \in DOMAIN results} :
     found.value # None}

\* One of them, or the difference or change of two, is this value in this unit, or
\* in any if none is given.
Rests(value, unit, results) ==
  \/ \E f \in Found(results) : value = f.value /\ unit \in {f.unit, "none"}
  \/ \E f, s \in Found(results) :
       /\ f.unit = s.unit
       /\ \/ value = AbsoluteDifference(f.value, s.value) /\ unit \in {f.unit, "none"}
          \/ /\ f.value # 0
             /\ value = PercentChange(f.value, s.value)
             /\ unit \in {"percent", "none"}

\* What the page shows, of the model's answer or of the fallback, rests on the
\* tool results: each number, and its unit if it is written with any sign but
\* U+2103; each date, the status, and the period, which is one of the question,
\* none, or the instant of a latest measurement.
AnswersRestOnTools ==
  display # NoDisplay =>
    LET p == display.period
    IN  /\ \A n \in display.numbers : Rests(n.value, FoundUnit(n.sign), history)
        /\ \A t \in display.dates :
             t \in {p.from, p.to} \/ \E i \in DOMAIN history : t \in history[i].times
        /\ \/ p = NoPeriod
           \/ \E i \in DOMAIN periods : p = periods[i]
           \/ \E i \in DOMAIN history : history[i].measuredAt = p.from /\ p.to = p.from
        /\ \E i \in DOMAIN history : history[i].status = display.status

\* docs/detailed-design/ai-agent.md:143: a number of an answer has the meaning of the
\* evidence it rests on; that a tool result holds it in another meaning is not
\* enough.  Not so of a number written with U+2103, whose unit is not looked at.
UnitsRestOnTools ==
  \A n \in display.numbers : Rests(n.value, MeantUnit(n.sign), history)

\* Once a tool has returned, an answer of the model that is refused is always
\* replaced: what build_verified_fallback makes of any result passes the same
\* validation, and of a series it shows as many points as allowed, with both ends.
FallbackSucceeds ==
  history # <<>> =>
    LET record == history[1]
        fallback == Fallback(question, record)
        shown == {e.path.at : e \in fallback.evidence}
    IN  /\ Accepted(fallback, <<record>>)
        /\ record.status = "AVAILABLE" => fallback.numbers # {}
        /\ record.name = "get_measurement_series" /\ record.status = "AVAILABLE" =>
             /\ Cardinality(shown) = Lesser(PointCount(record), MaxShown)
             /\ {1, PointCount(record)} \subseteq shown
=============================================================================

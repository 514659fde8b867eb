-------------------------- MODULE AnswerValidation --------------------------
(***************************************************************************)
(* validate_and_build_display: a candidate answer against the history of    *)
(* tool calls; and build_verified_fallback: the answer made of the first     *)
(* tool result when the model's is refused.                                 *)
(*                                                                         *)
(* Every number is in hundredths.  The data of a result is a function from  *)
(* the paths a number can be found at, [at, metric, leaf]: at is 0 for the  *)
(* result itself and n for its n-th period, point or alert.  Of the answer's *)
(* text only its numbers, with the sign each is followed by, and its dates   *)
(* are kept.                                                                *)
(***************************************************************************)
EXTENDS QueryService, FiniteSets

CONSTANT MaxShown  \* MAX_SERIES_DISPLAY_POINTS, 12 in the code

\* An odd number of steps: no quotient below is exactly a half, so Python's
\* round, to the even neighbour, is the nearest.
ASSUME ShownAssumption == MaxShown \in Nat /\ MaxShown > 1 /\ (MaxShown - 1) % 2 = 1

Whole(n) == 100 * n

Leaf(metric, leaf) == [at |-> 0, metric |-> metric, leaf |-> leaf]
LeafOf(n, metric, leaf) == [at |-> n, metric |-> metric, leaf |-> leaf]

NoPeriod == [from |-> None, to |-> None]

----------------------------------------------------------------------------
(* What a path means                                                         *)

Unit(path) ==
  IF path.leaf \in {"count", "total"} THEN "cases"
  ELSE IF path.metric = "temperature" THEN "celsius" ELSE "percent"

\* _meaning, and LABEL_ALIASES: the counts of both metrics share a label.
Labels(path) ==
  {<<path.metric, path.leaf>>}
    \cup (IF path.leaf = "count" THEN {<<"measurements", "count">>} ELSE {})

----------------------------------------------------------------------------
(* Evidence and calculations                                                 *)

\* Mutated form of EvidenceHolds: its unit is taken from the candidate.
EvidenceHoldsAnyUnit(e, history) ==
  /\ e.call \in DOMAIN history
  /\ e.path \in DOMAIN history[e.call].data
  /\ e.value = history[e.call].data[e.path]
  /\ e.label \in Labels(e.path)
  /\ e.observedAt # None => e.observedAt \in history[e.call].times

\* An item names a call, a path in its result, the value there and its meaning,
\* and possibly an instant that occurs in the result.
EvidenceHolds(e, history) ==
  /\ e.call \in DOMAIN history
  /\ e.path \in DOMAIN history[e.call].data
  /\ e.value = history[e.call].data[e.path]
  /\ e.label \in Labels(e.path)
  /\ e.unit = Unit(e.path)
  /\ e.observedAt # None => e.observedAt \in history[e.call].times

\* Decimal.quantize to the even neighbour of total / n.
HalfEven(total, n) ==
  LET floor == total \div n
      rest == total % n
  IN  IF 2 * rest > n \/ (2 * rest = n /\ floor % 2 = 1) THEN floor + 1 ELSE floor

AbsoluteDifference(first, second) == IF second >= first THEN second - first ELSE first - second

\* In hundredths of a percent.
PercentChange(first, second) ==
  IF first > 0 THEN HalfEven(10000 * (second - first), first)
               ELSE HalfEven(10000 * (first - second), -first)

\* The number a calculation names, in the unit it has; operands are [call, path].
CalculationHolds(c, history) ==
  /\ \A o \in {c.first, c.second} :
       /\ o.call \in DOMAIN history
       /\ o.path \in DOMAIN history[o.call].data
       /\ history[o.call].data[o.path] # None
  /\ Unit(c.first.path) = Unit(c.second.path)
  /\ LET first == history[c.first.call].data[c.first.path]
         second == history[c.second.call].data[c.second.path]
     IN  \/ c.operation = "difference" /\ c.result = AbsoluteDifference(first, second)
         \/ c.operation = "percent change" /\ first # 0 /\ c.result = PercentChange(first, second)

CalculationUnit(c) == IF c.operation = "difference" THEN Unit(c.first.path) ELSE "percent"

----------------------------------------------------------------------------
(* validate_and_build_display                                                *)

\* The records of the evidence, or all if there is none.
Relevant(c, history) ==
  IF c.evidence = {} THEN DOMAIN history ELSE {e.call : e \in c.evidence}

\* _record_contains_period
ContainsPeriod(record, p) ==
  IF record.name = "get_latest_measurement" /\ record.data # <<>>
  THEN record.measuredAt = p.from /\ record.measuredAt = p.to
  ELSE \E i \in DOMAIN record.periods : record.periods[i] = p

PeriodHolds(c, history) ==
  \/ c.period = NoPeriod
  \/ \E i \in Relevant(c, history) : ContainsPeriod(history[i], c.period)

\* The signs a number of an answer may be followed by: U+2103, the characters for
\* degrees, for percent and for a number of cases or times, or anything else.
Signs == {"celsius sign", "degrees", "percent", "cases", "none"}

\* The unit a sign stands for.
MeantUnit(sign) == IF sign \in {"celsius sign", "degrees"} THEN "celsius" ELSE sign

\* The unit the validation finds: NFKC makes of U+2103 a degree sign and a C, which
\* begin with no prefix of UNIT_PREFIXES, so a number in it is taken to have none.
FoundUnit(sign) == IF sign = "celsius sign" THEN "none" ELSE MeantUnit(sign)

\* The numbers an answer may state with a unit, or with none.
AllowedNumbers(c, unit) ==
  ({e.value : e \in {e \in c.evidence : unit \in {e.unit, "none"}}}
     \cup {k.result : k \in {k \in c.calculations : unit \in {CalculationUnit(k), "none"}}})
  \ {None}

AllowedInstants(c) ==
  ({e.observedAt : e \in c.evidence} \cup {c.period.from, c.period.to}) \ {None}

Accepted(c, history) ==
  /\ history # <<>>
  /\ \A e \in c.evidence : EvidenceHolds(e, history)
  /\ \E i \in Relevant(c, history) : history[i].status = c.status
  /\ \A k \in c.calculations : CalculationHolds(k, history)
  /\ PeriodHolds(c, history)
  /\ c.dates \subseteq AllowedInstants(c)
  /\ \A n \in c.numbers : n.value \in AllowedNumbers(c, FoundUnit(n.sign))

----------------------------------------------------------------------------
(* build_verified_fallback                                                   *)

\* _metrics: those the question names, temperature if it names none.
RequestedMetrics(question) ==
  IF question.metrics = {} THEN {"temperature"} ELSE question.metrics

\* _sample_indices: at most MaxShown points, evenly, with the first and the last.
SampleIndices(count) ==
  IF count <= MaxShown THEN 1 .. count
  ELSE LET steps == MaxShown - 1
       IN  {(2 * i * (count - 1) + steps) \div (2 * steps) + 1 : i \in 0 .. steps}

\* The positions of the points of a series.
PointCount(record) == Cardinality({path.at : path \in DOMAIN record.data})

\* The paths whose numbers the answer of a tool consists of.
ShownPaths(question, record) ==
  LET metrics == RequestedMetrics(question)
  IN  CASE record.name = "get_latest_measurement" ->
             {path \in {Leaf(m, "value") : m \in metrics} : record.data[path] # None}
        [] record.name = "get_measurement_statistics" ->
             {Leaf(m, question.statistic) : m \in metrics}
        [] record.name = "get_measurement_series" ->
             {LeafOf(n, m, "average") : n \in SampleIndices(PointCount(record)), m \in metrics}
        [] record.name = "compare_periods" ->
             {LeafOf(n, m, "average") : n \in {1, 2}, m \in metrics}
               \cup {Leaf(m, "difference") : m \in metrics}
        [] record.name = "get_alert_history" -> {Leaf("alerts", "total")}

\* The instant the answer of a series puts to a value.
ObservedAt(record, path) ==
  IF record.name = "get_measurement_series" THEN record.bucketFrom[path.at] ELSE None

\* _period_endpoint: a comparison has two periods and shows neither.
FallbackPeriod(record) ==
  CASE record.name = "get_latest_measurement" ->
         [from |-> record.measuredAt, to |-> record.measuredAt]
    [] record.name = "compare_periods" -> NoPeriod
    [] OTHER -> record.periods[1]

\* Mutated form of SaidUnit: a count is said in the unit of its metric.
SaidUnitOfMetric(path) ==
  IF path.metric = "alerts" THEN "cases"
  ELSE IF path.metric = "temperature" THEN "celsius" ELSE "percent"

\* _requested_statistic and the candidate builders.
SaidUnit(path) ==
  CASE path.metric = "alerts" \/ path.leaf = "count" -> "cases"
    [] path.metric = "temperature" /\ path.leaf # "count" -> "celsius"
    [] path.metric = "humidity" /\ path.leaf # "count" -> "percent"

Evidence(record, path) ==
  [call |-> 1, path |-> path, value |-> record.data[path],
   label |-> <<path.metric, path.leaf>>, unit |-> SaidUnit(path),
   observedAt |-> ObservedAt(record, path)]

\* How a unit is written in the answers.
SignOf(unit) == IF unit = "celsius" THEN "celsius sign" ELSE unit

\* The candidate of the first tool result; the number is said with its unit.
Fallback(question, record) ==
  LET evidence == IF record.status = "AVAILABLE"
                  THEN {Evidence(record, path) : path \in ShownPaths(question, record)}
                  ELSE {}
  IN  [numbers |-> {[value |-> e.value, sign |-> SignOf(e.unit)] : e \in evidence},
       dates |-> {e.observedAt : e \in evidence} \ {None},
       period |-> FallbackPeriod(record),
       evidence |-> evidence, calculations |-> {}, status |-> record.status]
=============================================================================

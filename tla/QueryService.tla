---------------------------- MODULE QueryService ----------------------------
(***************************************************************************)
(* QueryService and the SQL of QueryRepository as functions of the rows of *)
(* one device.  An instant is a number of units of time, a value a number  *)
(* of hundredths, the resolution of the columns and of what is shown.      *)
(***************************************************************************)
EXTENDS Integers, Sequences, FiniteSets, Functions

CONSTANTS
  Hour, Day,  \* their length in units of time
  Offset,     \* Asia/Tokyo is ahead of UTC by this much
  MaxPeriod,  \* 90 days in the code
  MaxPoints,  \* 500 in the code
  MaxAlerts,  \* 100 in the code
  Measured,   \* the columns of a measurement: temperature and humidity
  None        \* a value there is none of

ASSUME QueryAssumption ==
  /\ {Hour, Day, MaxPeriod, MaxPoints, MaxAlerts} \subseteq Nat \ {0}
  /\ Day % Hour = 0 /\ Offset \in Nat /\ Offset % Hour = 0
  /\ None \notin Int

Sets == INSTANCE FiniteSetsExt

----------------------------------------------------------------------------
(* Periods and buckets                                                       *)

Period == [from : Int, to : Int]

\* _validate_period; a period is half-open.
ValidPeriod(p) == p.from < p.to /\ p.to - p.from <= MaxPeriod

InPeriod(t, p) == p.from <= t /\ t < p.to

Local(t) == t + Offset

Granularities == {"hour", "day"}
Length(g) == IF g = "hour" THEN Hour ELSE Day

\* Mutated form of BucketOf: the buckets of UTC.
BucketOfUtc(t, g) == t \div Length(g)

\* date_trunc in Asia/Tokyo.
BucketOf(t, g) == Local(t) \div Length(g)

CeilDiv(a, b) == (a + b - 1) \div b

\* _estimate_points
EstimatePoints(p, g) ==
  CeilDiv(Local(p.to) - BucketOf(p.from, g) * Length(g), Length(g))

----------------------------------------------------------------------------
(* Measurements                                                              *)

Measurement == [id : Int, at : Int, values : [Measured -> Int]]

\* The numbers of a MetricStatistics.
Aggregates == {"minimum", "maximum", "average", "count"}

Selected(rows, p) == {r \in rows : InPeriod(r.at, p)}

\* ORDER BY measured_at DESC, id DESC LIMIT 1, of rows that there are.
Latest(rows) ==
  CHOOSE r \in rows : \A other \in rows \ {r} :
    other.at < r.at \/ (other.at = r.at /\ other.id < r.id)

\* _round: to a hundredth, half away from zero.
RoundedQuotient(total, n) ==
  LET magnitude(v) == (2 * v + n) \div (2 * n)
  IN  IF total >= 0 THEN magnitude(total) ELSE -magnitude(-total)

\* MIN, MAX, AVG and COUNT over a set of rows, and _metric.
Aggregate(rows, m) ==
  IF rows = {}
  THEN [count |-> 0, minimum |-> None, maximum |-> None, average |-> None]
  ELSE LET values == {r.values[m] : r \in rows}
           total == SumFunction([r \in rows |-> r.values[m]])
       IN  [count |-> Cardinality(rows), minimum |-> Sets!Min(values), maximum |-> Sets!Max(values),
            average |-> RoundedQuotient(total, Cardinality(rows))]

Statistics(rows, p) == [m \in Measured |-> Aggregate(Selected(rows, p), m)]

\* _difference
Difference(first, second) ==
  IF None \in {first, second} THEN None
  ELSE IF second >= first THEN second - first ELSE first - second

\* get_measurement_series refuses a period that is too long or has too many buckets.
AcceptsSeries(p, g) == ValidPeriod(p) /\ EstimatePoints(p, g) <= MaxPoints

\* ORDER BY local_bucket, of buckets that are all different.
Ascending(buckets) ==
  [n \in 1 .. Cardinality(buckets) |->
     CHOOSE b \in buckets : Cardinality({c \in buckets : c < b}) = n - 1]

\* GROUP BY local_bucket: no row, no point.
Series(rows, p, g) ==
  LET inside == Selected(rows, p)
      point(b) == [from |-> b * Length(g) - Offset, to |-> (b + 1) * Length(g) - Offset,
                   metrics |-> [m \in Measured |->
                                  Aggregate({r \in inside : BucketOf(r.at, g) = b}, m)]]
      order == Ascending({BucketOf(r.at, g) : r \in inside})
  IN  [n \in DOMAIN order |-> point(order[n])]

----------------------------------------------------------------------------
(* Alerts: a sequence of rows in order of insertion                          *)

Filters == {"OPEN", "RESOLVED", "ALL"}

\* The rows of the WHERE clause.
Matching(alerts, p, filter) ==
  {i \in DOMAIN alerts : /\ InPeriod(alerts[i].started, p)
                         /\ filter = "ALL" \/ alerts[i].status = filter}

\* Mutated form of Before: the oldest first.
BeforeOldest(a, b) == a.started < b.started

\* ORDER BY started_at DESC; rows that started together, by id, are left to Precedes.
Before(a, b) == a.started > b.started

\* The LIMIT newest of the rows found, by position.
Precedes(alerts, i, j) ==
  \/ Before(alerts[i], alerts[j])
  \/ alerts[i].started = alerts[j].started /\ i > j

Newest(alerts, found) ==
  LET preceding(i) == {j \in found : Precedes(alerts, j, i)}
      size == Cardinality(found)
  IN  [n \in 1 .. IF size < MaxAlerts THEN size ELSE MaxAlerts |->
         CHOOSE i \in found : Cardinality(preceding(i)) = n - 1]
=============================================================================

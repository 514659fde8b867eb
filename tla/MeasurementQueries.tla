------------------------- MODULE MeasurementQueries -------------------------
(***************************************************************************)
(* Queries of what intake and alerting leave, while evaluation goes on.  A  *)
(* series or a statistic is one statement; an alert history counts and      *)
(* selects in two, and under READ COMMITTED each of them sees what is       *)
(* committed when it starts.  The n-th measurement was taken at n.          *)
(***************************************************************************)
EXTENDS AlertEpisodes, QueryService

CONSTANT AskedPeriods  \* the periods of which alert histories are asked

ASSUME AskedAssumption == AskedPeriods \subseteq Period /\ Measured = {Metric}

VARIABLE query  \* the alert history being answered

queryVars == <<episodeVars, query>>

Measurements ==
  {[id |-> i, at |-> i, values |-> [m \in Measured |-> Stored(history[i]) \div Scale]] :
     i \in DOMAIN history}

NoQuery == [step |-> "idle", period |-> [from |-> 0, to |-> 0], filter |-> "ALL",
            total |-> 0, shown |-> <<>>]

QueryInit == EpisodeInit /\ query = NoQuery

EvaluateNext == EpisodeNext /\ UNCHANGED query

\* SELECT COUNT; a period that is not valid is refused before.
CountAlerts(p, filter) ==
  /\ query.step = "idle"
  /\ ValidPeriod(p)
  /\ query' = [query EXCEPT !.step = "counted", !.period = p, !.filter = filter,
                            !.total = Cardinality(Matching(alertRows, p, filter))]
  /\ UNCHANGED episodeVars

\* SELECT the rows
SelectAlerts ==
  /\ query.step = "counted"
  /\ query' = [query EXCEPT !.step = "selected",
                 !.shown = Newest(alertRows, Matching(alertRows, query.period, query.filter))]
  /\ UNCHANGED episodeVars

Answered == query.step = "selected" /\ query' = NoQuery /\ UNCHANGED episodeVars

QueryNext ==
  \/ EvaluateNext
  \/ \E p \in AskedPeriods, filter \in Filters : CountAlerts(p, filter)
  \/ SelectAlerts \/ Answered

QuerySpec == QueryInit /\ [][QueryNext]_queryVars

Truncated == query.total > Len(query.shown)

----------------------------------------------------------------------------
(* Properties                                                                *)

AllPeriods == [from : 0 .. Len(history) + 1, to : 0 .. Len(history) + 1]

\* The buckets of Asia/Tokyo that have an instant in the period.
TouchedBuckets(p, g) == {BucketOf(t, g) : t \in p.from .. (p.to - 1)}

\* The series of a period splits its statistics: it has the same measurements,
\* the same extremes and an average between them, in buckets that follow each
\* other in time and overlap the period; and it is refused exactly if the period
\* touches more than MaxPoints buckets (_estimate_points, which counts them, and
\* the two statements, which fill them, agree on zone and bounds).
SeriesAgreesWithStatistics ==
  query = NoQuery =>
  \A p \in AllPeriods, g \in Granularities : ValidPeriod(p) =>
    LET all == Statistics(Measurements, p)[Metric]
        points == Series(Measurements, p, g)
        parts == {points[n].metrics[Metric] : n \in DOMAIN points}
    IN  /\ AcceptsSeries(p, g) <=> Cardinality(TouchedBuckets(p, g)) <= MaxPoints
        /\ SumFunction([n \in DOMAIN points |-> points[n].metrics[Metric].count]) = all.count
        /\ all.count > 0 =>
             /\ all.minimum = Sets!Min({s.minimum : s \in parts})
             /\ all.maximum = Sets!Max({s.maximum : s \in parts})
             /\ all.average \in all.minimum .. all.maximum
        /\ \A n \in DOMAIN points :
             /\ points[n].metrics[Metric].count > 0
             /\ points[n].from < p.to /\ p.from < points[n].to
             /\ n > 1 => points[n - 1].to <= points[n].from

\* Whatever is evaluated between the two statements: an alert history shows the
\* newest matching alerts, and one of all statuses that calls itself truncated
\* really lacks some.  (The converse does not hold: an alert opened in between
\* pushes an older one out unnoticed.)
AlertHistoryIsHonest ==
  [][SelectAlerts =>
       LET matching == Matching(alertRows, query.period, query.filter)
           shown == {query'.shown[n] : n \in DOMAIN query'.shown}
       IN  /\ shown \subseteq matching
           /\ \A i \in matching \ shown, j \in shown : alertRows[i].started <= alertRows[j].started
           /\ query.filter = "ALL" /\ Truncated' => shown # matching
           /\ Cardinality(shown) < MaxAlerts => shown = matching]_queryVars
=============================================================================

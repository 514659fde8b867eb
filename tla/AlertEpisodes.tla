---- MODULE AlertEpisodes ----
(***************************************************************************)
(* One metric of one device: measurements evaluated one after the other,   *)
(* each newer than the last (MeasurementService evaluates no other).  Only *)
(* the order of the times matters, so the n-th evaluation happens at n.    *)
(***************************************************************************)
EXTENDS AlertRules, FiniteSets

CONSTANTS
  Metric,          \* the metric evaluated
  Readings,        \* the readings it may take
  MaxEvaluations   \* bound on the length of a history

ASSUME EpisodeAssumption ==
  /\ Metric \in Metrics
  /\ Readings \subseteq Int
  /\ MaxEvaluations \in Nat

VARIABLES
  history,   \* the readings evaluated so far, in order
  alertRows  \* app.alerts rows of the metric, in order of insertion

episodeVars == <<history, alertRows>>

EpisodeInit ==
  /\ history = <<>>
  /\ alertRows = <<>>

EvaluateReading(value) ==
  /\ Len(history) < MaxEvaluations
  /\ history' = Append(history, value)
  /\ alertRows' = EvaluateMetric(Metric, alertRows, Len(history) + 1, value)

EpisodeNext == \E value \in Readings : EvaluateReading(value)

EpisodeSpec == EpisodeInit /\ [][EpisodeNext]_episodeVars

----------------------------------------------------------------------------
(* Reference: an episode of a direction, said without the algorithm.        *)

Limits == Thresholds[Metric]

\* How far the i-th reading is outside the threshold of a direction.
Excess(d, i) ==
  IF d = "LOW" THEN Limits.lower - history[i] ELSE history[i] - Limits.upper

\* Some reading up to the i-th crossed the threshold, and no reading since
\* came back by the hysteresis.
InEpisode(d, i) ==
  \E j \in 1 .. i : /\ Excess(d, j) > 0
                   /\ \A k \in j .. i : Excess(d, k) > -Limits.hysteresis

Begins(d, i) == InEpisode(d, i) /\ (i = 1 \/ ~InEpisode(d, i - 1))

\* The last evaluation of the episode of d that contains the i-th.
Ends(d, i) ==
  CHOOSE j \in i .. Len(history) :
    /\ \A k \in i .. j : InEpisode(d, k)
    /\ j = Len(history) \/ ~InEpisode(d, j + 1)

Episode(d, i) ==
  [direction |-> d, started |-> i, lastDetected |-> Ends(d, i),
   resolved |-> IF Ends(d, i) = Len(history) THEN Null ELSE Ends(d, i) + 1,
   trigger |-> Stored(history[i])]

Beginnings == {p \in Directions \X (1 .. Len(history)) : Begins(p[1], p[2])}

Episodes == {Episode(p[1], p[2]) : p \in Beginnings}

RowEpisode(row) ==
  [direction |-> row.direction, started |-> row.started,
   lastDetected |-> row.lastDetected, resolved |-> row.resolved,
   trigger |-> row.trigger]

----------------------------------------------------------------------------
(* Properties                                                               *)

\* The alert rows AlertService leaves are exactly the maximal episodes of the
\* history: one row per episode, started and last detected at its ends and
\* resolved by the first reading after it; a row is OPEN exactly while it has
\* no resolved_at.
AlertsAreEpisodes ==
  /\ {RowEpisode(alertRows[i]) : i \in DOMAIN alertRows} = Episodes
  /\ Len(alertRows) = Cardinality(Episodes)
  /\ \A i \in DOMAIN alertRows : alertRows[i].status = "OPEN" <=> alertRows[i].resolved = Null
====

---- MODULE MC_Questions ----
EXTENDS Questions

MCMeasured == {"temperature", "humidity"}

\* Hours of Asia/Tokyo around the ends of the year 2023 and of February 2024, at
\* midnight and in the afternoon.
Clock(y, m, d, hour) == Midnight(Ordinal(y, m, d)) + hour
ClockDays == {<<2023, 12, 31>>, <<2024, 1, 1>>, <<2024, 2, 29>>, <<2024, 3, 1>>,
              <<2024, 3, 31>>, <<2025, 2, 28>>, <<2025, 3, 30>>}
Clocks == {Clock(d[1], d[2], d[3], hour) : d \in ClockDays, hour \in {0, 15}}

\* Measured on 29 February and 1 March, in UTC; one more is stored meanwhile.
Row(id, d, hour, temperature, humidity) ==
  [id |-> id, at |-> Clock(2024, 2, 29, hour) + Day * d - Offset,
   values |-> [temperature |-> temperature, humidity |-> humidity]]
MCStored == {Row(1, 0, 23, -150, 4500), Row(2, 1, 0, 2000, 4700), Row(3, 1, 3, 2101, 4500),
             Row(4, 1, 9, 2300, 4600), Row(5, 1, 10, 2300, 4700), Row(6, 1, 11, 2200, 4700)}
MCAlerts == <<[started |-> Clock(2024, 3, 1, 9) - Offset, status |-> "OPEN",
               metric |-> "temperature", threshold |-> 2250, trigger |-> 2300,
               hysteresis |-> 50]>>

MCWorlds ==
  {[now |-> t, stored |-> {}, arriving |-> {}, alerts |-> <<>>] : t \in Clocks}
    \cup {[now |-> Clock(2024, 3, 2, 15), stored |-> MCStored,
           arriving |-> {Row(7, 1, 12, 1000, 1000)}, alerts |-> MCAlerts]}

Word(word) == [word |-> word, args |-> <<>>]
Numbered(word, args) == [word |-> word, args |-> args]

Relative == {Word(w) : w \in CurrentWords \cup PastWords}
RollingTokens ==
  {Numbered(u, <<n>>) : u \in {"hours", "days", "weeks", "months", "years"}, n \in {0, 1, 3}}
    \cup {Numbered("days", <<90>>), Numbered("days", <<91>>),
          Numbered("days", <<800000>>), Numbered("years", <<3000>>),
          Numbered("years", <<2000000>>)}
Explicit ==
  {Numbered("date", d) : d \in {<<2024, 2, 29>>, <<2024, 2, 30>>, <<2023, 12, 31>>,
                                <<9999, 12, 31>>, <<1, 1, 1>>}}
    \cup {Numbered("month", d) : d \in {<<2024, 2>>, <<2023, 12>>, <<2024, 13>>, <<9999, 12>>}}
    \cup {Numbered("month day", d) : d \in {<<2, 29>>, <<3, 1>>}}

\* Every token alone; "from ... to ..." of days either way round; pairs to compare.
Question(words, metrics, tokens, edges) ==
  [words |-> words, metrics |-> metrics, statistic |-> "average", tokens |-> tokens,
   edges |-> edges, modified |-> FALSE]
Single == {Question({"statistics"}, {"temperature"}, <<token>>, {}) :
             token \in Relative \cup RollingTokens \cup Explicit}
Ends == {Word("yesterday"), Word("two days ago"), Word("last month"), Word("this week")}
Joined == {Question({"statistics"}, {"temperature"}, <<a, b>>, {"from", "to"}) :
             a \in Ends, b \in Ends}
Yesterday == <<Word("yesterday")>>
Days == <<Word("two days ago"), Word("yesterday")>>
Others ==
  {Question({"statistics"}, {"humidity"}, Yesterday, {}),
   [Question({"statistics"}, {"temperature", "humidity"}, Yesterday, {})
      EXCEPT !.statistic = "count"],
   [Question({"statistics", "data"}, {}, Yesterday, {}) EXCEPT !.statistic = "maximum"],
   [Question({"statistics"}, {"temperature"}, Yesterday, {}) EXCEPT !.modified = TRUE],
   Question({"statistics"}, {"temperature"}, <<>>, {"from"}),
   Question({"statistics", "series"}, {"temperature", "humidity"}, Yesterday, {}),
   Question({"series"}, {"temperature"}, <<Numbered("days", <<30>>)>>, {}),
   Question({"compare", "statistics"}, {"temperature", "humidity"}, Days, {}),
   Question({"compare"}, {"temperature"}, Days \o Yesterday, {}),
   Question({"alert"}, {}, Yesterday, {}), Question({"alert", "latest"}, {}, <<>>, {}),
   Question({"latest"}, {"temperature", "humidity"}, <<>>, {}),
   Question({"latest", "unsupported"}, {"temperature"}, <<>>, {}),
   Question({"latest", "help"}, {"temperature"}, <<>>, {}),
   Question({"statistics", "out of scope"}, {"temperature"}, Yesterday, {}),
   Question({}, {"temperature"}, Yesterday, {})}
MCAsked == Single \cup Joined \cup Others

MCSupplied == {[from |-> 0, to |-> Day]}

----------------------------------------------------------------------------
(* What the model may answer: the fallback's candidate with one part changed. *)

Values(record) == {record.data[path] : path \in {p \in DOMAIN record.data : p.at \in {0, 1}}}

Items(call, record) ==
  {[call |-> call, path |-> path, value |-> value, label |-> label, unit |-> unit,
    observedAt |-> at] :
     path \in {path \in DOMAIN record.data : path.leaf # "minimum"},
     value \in Values(record),
     label \in {<<"temperature", "average">>, <<"measurements", "count">>, <<"alerts", "total">>},
     unit \in {"celsius", "percent", "cases"},
     at \in {None, 0}}

Statements(record) ==
  {[value |-> value, sign |-> sign] : value \in Values(record), sign \in Signs}

MCProposals(q, h) ==
  IF h = <<>>
  THEN {[numbers |-> {}, dates |-> {}, period |-> NoPeriod, evidence |-> {},
         calculations |-> {}, status |-> "AVAILABLE"]}
  ELSE
  LET record == h[Len(h)]
      base == Fallback(q, h[1])
      bare == [base EXCEPT !.numbers = {}, !.evidence = {}]
      operands == {[call |-> 1, path |-> path] :
                     path \in {p \in DOMAIN h[1].data : p.at \in {1, 2} /\ p.leaf = "average"}}
  IN  {base, [base EXCEPT !.evidence = {}], bare}
        \cup {[base EXCEPT !.status = s] : s \in {"AVAILABLE", "NO_DATA", "UNAVAILABLE"}}
        \cup {[base EXCEPT !.period = p] : p \in {NoPeriod, [from |-> 0, to |-> Day]}}
        \cup {[base EXCEPT !.dates = @ \cup {0}]}
        \cup {[base EXCEPT !.numbers = {n}] : n \in Statements(record)}
        \cup {[bare EXCEPT !.numbers = {[value |-> e.value, sign |-> sign]}, !.evidence = {e}] :
                e \in Items(Len(h), record), sign \in {SignOf("celsius"), "degrees", "percent"}}
        \cup {[bare EXCEPT !.numbers = {[value |-> n, sign |-> sign]},
                           !.calculations = {[operation |-> op, first |-> a, second |-> b,
                                              result |-> n]}] :
                op \in {"difference", "percent change"}, a \in operands, b \in operands,
                n \in {0, 2330, -155333}, sign \in {SignOf("celsius"), "degrees", "percent"}}
====

# SoraSense: a verification development in TLA+

SoraSense measures temperature and humidity with an M5StickC, sends each
measurement to a FastAPI service that stores it in PostgreSQL, opens and resolves
alerts on thresholds, shows the data in Grafana and answers questions about it
with a Gemini agent. This directory holds TLA+ modules translated from that code,
TLC configurations that check them on small instances, and TLAPS proofs that hold
for every value of the constants. `PROJECT.json` is the index: which definition
stands for which lines, what each run checks, which mutation of the code each
property detects, which hazard it is for.

Paths below are relative to `src/`; `fw/` is `firmware/src/`.

## 1. The system

    sensor -> AppController loop -> RetryController -> HTTP -> create_measurement
                 |  |                                             |
              Wi-Fi  SNTP clock                       MeasurementService.accept
                                                        |              |
    browser -> web router -> AgentService -> tools -> measurements   AlertService
                 |               |                                     |
        SessionManager,      ai_requests                             alerts
        LoginRateLimiter

| Component | State it keeps | Operations | What is hard about it | What makes it correct |
|---|---|---|---|---|
| Measurement intake (`app/services/measurement_service.py`, `app/repositories`, `app/db`) | rows of `devices` and `measurements`; per request a thread, a session, a pooled connection | `accept`, `register_device` | statements of several threads interleave; row lock, UNIQUE constraint and pool; a statement or commit fails, a commit's acknowledgement is lost, the process stops | a message is stored once; a success means stored; storing and evaluating are one step or none |
| Alerting (`app/services/alert_service.py`, `app/repositories/alert_repository.py`) | rows of `alerts`, `last_alert_evaluated_at` | `evaluate` inside `accept` | hysteresis, a direct change from LOW to HIGH, late measurements, equal times | rows are the threshold episodes; at most one OPEN row per metric; the state is that of the newest measurement |
| Device loop and delivery (`fw/app_controller.cpp`, `fw/retry_controller.cpp`, `fw/send_result.cpp`, `fw/api_client.cpp`) | state machine, one pending message, retry count | `update` and the six functions it calls, reset | a request the device gave up on is still handled later; answers are lost; resets; a newer measurement replaces an older one | accepted means stored; only the newest is sent; an authentication error is final; nothing stays pending for ever |
| Device Wi-Fi supervision (`fw/app_controller.cpp`) | connection flag, attempt, two 32-bit deadlines | `update_wifi`, `start_wifi`, `update_display` | `millis()` wraps after 49.7 days; two functions write one flag | attempts end, are spaced, and are made |
| Device clock (`fw/clock_service.cpp`) | last synchronisation, request in progress, last second given out | `update`, `request_synchronization`, `utc_now` | SNTP answers in its own task, late, wrong or never; the clock is set back; wraps | time used is recent; `measured_at` is accurate and never goes back |
| Agent run (`app/agent/service.py`, `backend.py`, `tools.py`, `app/repositories/ai_request_repository.py`) | tool history, the row of `ai_requests` | `run`, model turns, tools, retry, timeout, fallback | a timeout abandons a tool thread; every database call can fail or lose its acknowledgement; retry only before tools | what is shown is recorded; rows end once; the tool limit holds; the user gets a page |
| Web sessions (`app/security/session.py`, `app/web/router.py`) | sessions with two lifetimes, one-use forms | pages, login, question, logout | what a handler found before an await is used after it; several tabs; expiry | a form asks once, newest forms work, ended sessions stay ended |
| Login attempts (`app/security/login_rate_limit.py`) | bounded table of failures and locks | `retry_after`, `record_failure`, `clear` | trimming, purging and eviction while other keys change | locked exactly when the failures remembered say so; a full table forgets the oldest first |
| Device retry schedule (`fw/retry_controller.cpp`) | retry count, a 32-bit deadline | `replace`, `is_due`, `apply_result` | doubling and jitter in 32 bits, Retry-After, a send that blocks the loop for seconds, a newer measurement at any time | not sent too early, nor left waiting too long |
| Device sensor and measurement timer (`fw/sensor_reader.cpp`, `fw/sensor_freshness.cpp`, `fw/app_controller.cpp`) | the last reading and its time, two deadlines | `update_sensor`, `update_measurement` | the sensor stops and comes back; a loop is late; wraps | no old value is measured; the sensor is retried; measurements stay on their grid |
| Measurement queries (`app/services/query_service.py`, `app/repositories/query_repository.py`) | none; reads the rows | five queries | Python estimates what SQL fills; two statements see two snapshots | series, statistics and limits agree; an alert history is honest |
| Question, periods, verification (`app/agent/question_classifier.py`, `period_resolver.py`, `tools.py`, `validation.py`, `fallback.py`) | resolved periods, tool history | `classify`, `resolve`, the tools, `validate_and_build_display`, `build_verified_fallback` | calendar edges; a model that passes and answers anything; measurements arriving meanwhile | periods mean what their words say; only they are read; what is shown rests on tool results; the fallback never fails |
| Assembly, configuration, logging, migrations, dashboards, containers | none of their own | start-up | - | - |

How they interact: the device calls the backend by HTTP (a message), the endpoint
calls `accept` in a threadpool thread, `accept` calls `AlertService.evaluate` in its
transaction; the web handlers run on the event loop, call the session manager and
the rate limiter directly, await the agent, which runs tools in worker threads;
requests share only the database, the pool and the in-memory tables.

## 2. Modules

| Module | Models | Uses |
|---|---|---|
| `AlertRules` | `AlertService.evaluate` as operators on the rows of `alerts` | |
| `AlertEpisodes` | a history of readings evaluated one by one; a declarative definition of episodes over the whole history | `AlertRules` |
| `QueryService` | the queries as operators on the rows | |
| `MeasurementQueries`, `MC_MeasurementQueries` | queries of what alerting leaves, while it goes on; the alert history in its two statements | `AlertEpisodes`, `QueryService` |
| `IntakeSpec` | **abstract**: a request takes effect in one step or not at all | `AlertRules` |
| `MeasurementIntake`, `MC_MeasurementIntake` | `accept`, one action per SQL statement | `AlertRules`, refines `IntakeSpec` |
| `DeviceDelivery`, `MC_DeviceDelivery` | the main loop of the device, the network, and the backend | `AlertRules`; composes with `IntakeSpec` (`Backend == INSTANCE`) |
| `Millis` | differences, deadlines and sums of the 32-bit counter, with `Word` for 2^32 | |
| `WifiSupervisor`, `SendingLoop` | the loop with the connection attempts; the same loop with `RetryController` and blocking sends | `Millis`; `SendingLoop` extends, and implements, `WifiSupervisor` |
| `DeviceClock`, `MeasuringLoop` | the loop with the clock; the same loop with the sensor and the measurement timer | `Millis`; `MeasuringLoop` extends, and implements, `DeviceClock` |
| `AIRequestSpec` | **abstract**: rows end once, answers are shown only when stored | |
| `AgentRun` | `AgentService.run` with its backend, tools and repository | refines `AIRequestSpec` |
| `PeriodResolver` | period words and dates to intervals of Asia/Tokyo, and what a word means, instant by instant | `QueryService` |
| `AnswerValidation` | a candidate against the tool history; the fallback answer | `QueryService` |
| `Questions`, `MC_Questions` | a question from its words to the page: rules, periods, tools, a model that answers anything, validation, fallback | `PeriodResolver`, `AnswerValidation` |
| `WebSessions`, `MC_WebSessions` | `SessionManager` and the handlers that use it | |
| `LoginAttempts`, `MC_LoginAttempts` | `LoginRateLimiter` in `POST /login` | |
| `Measurements_proofs` | proofs about `AlertRules`, `MeasurementIntake`, its refinement, `AlertEpisodes`, `MeasurementQueries` | those, `Arithmetic_proofs` |
| `Arithmetic_proofs` | what other proofs share: the 32-bit counter, quotients, sums over finite sets, ranks in a finite order | `Millis` |
| `DeviceDelivery_proofs`, `AgentRun_proofs` | proofs about the module of that name | those |
| `Questions_proofs` | proofs about `Questions` and the modules it extends | `Arithmetic_proofs` |
| `MeasuringLoop_proofs`, `SendingLoop_proofs` | proofs about the two loops and the modules they extend | `Arithmetic_proofs` |
| `Web_proofs` | proofs about `WebSessions` and `LoginAttempts` | those |

Because `MeasurementIntake` implements `IntakeSpec`, `DeviceDelivery` composes the
device with the one-step promise instead of with threads and SQL: the refinement
is what makes the end-to-end model small enough to check.

### Correspondence with the code

*MeasurementIntake.* `pc[r]` is the line of `accept` request `r` is at: `checkout`
(a connection from the pool), `lock` (`lock_device`, SELECT FOR UPDATE), `find`
(`find_by_message_id`), `insert` (`add` and flush), `evaluate`, `commit`, `reread`
(after an IntegrityError), `respond`. `seen[r]` and `draft[r]` are what its session
holds: the Device object and the alert rows it will write. Rows another transaction
has flushed are invisible until its commit, but a second insert of the same message
waits for it, as in PostgreSQL. `DatabaseFails`, `CommitUnacknowledged`, `Crash` and
`InsertElsewhere` are the environment.

*DeviceDelivery.* `step` is the function of `AppController::update` the loop is at;
`await` means inside the blocking `send`. `body[a]` and `answer[a]` are attempt `a`
on the network and the backend's answer. Handling an attempt is possible at any time
after it was sent, in any order, also after a reset. Message identities are fresh by
construction (UUID v4). Timers are not counted here: a running one may expire at
any step, so the model has every timing.

*WifiSupervisor, DeviceClock.* `uptime` is true time, `now` is `millis()`. `idle`,
`gaveUp`, `startedOn`, `syncedOn` and `overdue` are observations that no action reads.

*SendingLoop.* Its steps are those of `WifiSupervisor` with the part of the loop that
runs beside them: a newer measurement may arrive (`Replace`) when `update_wifi` runs, and
`send_pending` (`Send` or `Hold`) comes before `update_display`. `took` is the time `send`
has blocked the loop: the result is applied at `uptime + took`, the display still uses the
loop's own time. `failedAt` and `retryAfter` are observations.

*MeasuringLoop.* `update_sensor` comes before `update_wifi`, `update_measurement` is the
clock's `Measure` or no measurement. `sensor` holds the members of
`SensorFreshnessTracker`; `readOn`, the uptime of the reading it has, and `triedOn`, that of the
last attempt to initialise the sensor or of its loss, are observations.

*QueryService, MeasurementQueries.* Instants and values are numbers; `None` is SQL's
NULL. A statement reads the committed rows at once. `CountAlerts` and `SelectAlerts` are
the two statements of `QueryRepository.alerts`; `ORDER BY started_at DESC, id DESC LIMIT n` is
that row j is shown at place p if p - 1 matching rows come before it. The two statistics of a comparison are
taken from one state: the second could see a row more, which no property tells apart.

*PeriodResolver, Questions.* A question is the classes of words the classifier's patterns
find in it, the metrics it names and its period tokens in order; which text belongs to which
class is left out. Days are the ordinals of `datetime.date`. A tool result is its status, its
instants and a function from paths to numbers (in hundredths), which is what `source_path`
addresses. The text of an answer is the numbers, each with the sign it is followed by, and the dates it states;
a sign has the unit it means (`MeantUnit`) and the one the validation finds (`FoundUnit`), which differ
for `℃`. Of the labels only which value may carry which is kept. `Proposals` is what the model may
answer; the proofs allow anything at all.

*AgentRun.* `run[q].step` is the place in `run`; `history` notes, for each tool
record, the attempt that made it. Each repository call can commit, fail, or commit
and raise. Whether an answer verifies is a choice, except that nothing verifies
without a tool record, which is the first check of `validate_and_build_display` and
of `build_verified_fallback`.

*WebSessions.* Handlers are split where they await: `...Arrives` is what runs before
the form is read, `AskRead`/`LogoutRead` what runs after, `AskAnswered` what runs
after the agent. A WebSession object lives on in the handlers that found it after it
has left `store`, as in Python. `MayAsk` is what is checked after the form is read.

*LoginAttempts.* No handler awaits between the check and the record, so a login is
one step: `PasswordWrong` and `PasswordRight` are `POST /login` with `record_failure` and with
`clear`. `states` is `_states`, a function of the keys it holds. `tries` are the failures of a
key since its last success and `forgotten` is how many of them the table held when it last dropped the
key for want of room; no action but the bounds reads them. `Remembered` is the rest of `tries`.

## 3. What is checked

Every property has a mutant in `PROJECT.json`: a definition of the model changed the
way a plausible bug would change the code. With the mutant TLC reports that property.

| Run | Instance | What it shows |
|---|---|---|
| `history` | 7 readings on both sides of every edge, finer than what is stored, histories of 5; a day of two hours, limits of 5 instants, 2 points and 1 alert | `AlertsAreEpisodes`: the rows left by the incremental code are exactly the maximal episodes, with start, end, last detection and trigger value. `SeriesAgreesWithStatistics`, for every period of every history: a series splits the statistics of its period into buckets that overlap it, and is refused exactly if it touches too many. `AlertHistoryIsHonest`: whatever is evaluated between the two statements |
| `intake_concurrent` | 3 requests, 5 messages (equal times, late, resent), pool of 2 | `AlertsAgreeWithNewest`, `AlertsMoveForward`: late and equal-time commits do not move the alert state, with failures and a crash anywhere |
| `intake_other_writers` | 3 requests, 2 messages, another client | `OneRowPerMessage`, `SuccessIsStored` also when the constraint has to remove duplicates; `AcceptIsAtomic`: the refinement of `IntakeSpec`; `EveryRequestEnds` |
| `delivery` | 2 measurements, 4 attempts, 1 retry | `AcceptedIsStored` with overtaken requests and resets, `OnlyNewestIsSent`, `AuthenticationErrorIsFinal`, `AttemptsBounded`; and `PendingIsSettled` if link and time stay valid from some point on |
| `agent_run` | 2 questions, 2 calls, 2 turns | `ShownAnswerIsRecorded`, `HistoryOfOneAttempt`, `StoringFailureIsRecorded`, `RowsFollowLifecycle` (refinement), `QuestionsConclude` |
| `agent_fallback` | 1 question | finding 1 |
| `questions` | each of ten period words and 30 more tokens at 14 clocks (ends of months, of years and of February, midnight and afternoon); 32 other questions; rows on both sides of 29 February; 2 calls; candidates that change each part of a right answer | `PeriodsAreCalendar`, `ResolvedPeriodsAreAccepted`, `OnlyAskedPeriodsAreQueried`, `AnswersRestOnTools`, `FallbackSucceeds` |
| `sending` | counter of 16, uptimes up to 18, 3 retries, intervals 2 to 5, Retry-After 0 or 6 | `SendsAreSpaced` and `AttemptsEnd` across the wrap; `WaitsInTimeAtFirst` and `RetriesInTimeAtFirst` below half the range |
| `measuring` | counter of 8, uptimes up to 9, loops of 1 to 3, time valid for 4, SNTP off by 1 at most, readings valid for 1 | across the wrap: `ValidMeansRecentForOneWrap`, `MeasuredAtIsAccurate`, `MeasuredAtNeverGoesBack`, `ReadingIsFresh`, `SensorRetriedInTime` (a silent sensor is given up, and initialised every interval), `MeasurementsKeepTime`; below half the range `ResyncInTimeAtFirst` |
| `clock_long_uptime` | counter of 12, uptimes up to 14 | finding 2 |
| `web_sessions` | 2 requests in flight, 2 sessions, 3 forms, 2 open forms, 4 instants | `OneQuestionPerForm`, `NewestFormsWork` (and no more are open than allowed) |
| `login_attempts` | 2 addresses, 2 users, table of 3, 4 instants, 4 failures of a key | `LockedWhenExhausted`: the table is bounded and agrees with the failures since a success or a drop; `FailuresAreRare`; `DroppedForNewer`: what a full table drops |

### Bounds

Three requests are two that compete for the device lock and one that waits for a
connection, which is what two connections are for; five messages have each relation
of times that `accept` compares. Histories of five readings can open, continue,
resolve and reopen in both directions, and with a limit of one alert and two points both
limits are met and passed. Two measurements and four attempts let an old request arrive
after a newer one and each measurement use its retry. A tool limit and a turn limit of
two leave room for a first call, a last one and one too many. The counter's range and the
intervals of the timer runs only keep the order of the real ones (interval < half range
< range): the code compares nothing else. `sending` has room for a timeout, a lost link
and a retry in the first half of the range and goes past the wrap. So does `measuring`: a
synchronisation or a reading made before the wrap is used and expires after it, one made at the start
looks new again, and a loop of 3 with an interval of 2 misses a measurement altogether. The proofs of section 4
cover every uptime. `questions` uses the real
hour, day and limits; only what is shown of a series, 4 points instead of 12 (both leave an
odd number of steps, so that Python's rounding never meets a half), and the tool calls, 2
instead of 5, and `YearSpan`, a million years for 2^31, are smaller; a token on either side of it
is among those asked. Three keys of four possible fill the table of `login_attempts`, and with four
failures each a key is locked, dropped and locked again. In `web_sessions` idle lifetime and form lifetime are equal, as
the defaults are, and the absolute lifetime is longer; two open forms stand for five.
`MaxMeasurements`, the `MaxAttempts` of `delivery`, `MaxClock`, `MaxTries`, `MaxUptime`, `MaxTime`, `MaxLogins`, `MaxTokens` and
`MaxEvaluations` only end the runs; deadlock is not checked where they do, nor where a
question or a request may simply be over. `delivery` does check it: the loop never stops.

### Fairness

- `MeasurementIntake`: weak fairness of each request's own next statement (`Handle`).
  Threads are scheduled and PostgreSQL and SQLAlchemy answer or time out; waiting for
  the lock or the pool disables `Handle`, so their progress has to follow.
  Arrivals, failures and crashes are not fair.
- `DeviceDelivery`: the loop goes on, since every call in it returns (`send` has
  timeouts), and a retry interval passes. The backend is not fair: that it answers
  is not assumed. `PendingIsSettled` assumes link and valid time for good from some
  point on; without them the device does not send.
- `AgentRun`: `asyncio.wait_for` fires (`Timeout`) and the event loop runs what
  follows (`Conclude`). That the model or a tool answers is not assumed.

The other modules state safety and bounded-time properties only.

## 4. What is proved

The theorems hold for all values of the constants that satisfy the named assumptions:
`ThresholdAssumption` (what `ThresholdSettings` validates), `HysteresisAssumption` (the stored width
is positive, the CHECK of `app/models/alert.py:45`), `ScaleAssumption` (a reading
is at least as fine as a stored hundredth),
`IntakeAssumption` (messages are messages, a pool has a connection),
`LimitsAssumption`, `DeliveryAssumption` and `EpisodeAssumption` (types),
`AskedAssumption` (periods asked for are ones that `validate_period` accepts),
`WordAssumption` (the range of the counter is even), `ClockAssumption`
(validity and resynchronisation interval shorter than the range, deadlines set less than half
of it ahead), `MeasuringAssumption` and `WifiAssumption` (intervals and loops shorter than half
of it), `SendingAssumption` (the doubled interval of no retry exceeds the counter, as
with 5 s and 6 retries, and no Retry-After half of it), `QueryAssumption`,
`ResolutionAssumption` (the resolver's limit is no longer than the queries', and `YearSpan` is a number),
`ShownAssumption`, `QuestionAssumption` (a question names metrics and a statistic there are; rows of
measurements are finite in number, have integers for both metrics and different ids, as the primary
key and the NOT NULL columns have it), `SessionAssumption` (the idle lifetime is shorter than
the absolute one, as the settings have it) and `AttemptsAssumption` (limits are positive, no user
is an address).
`Measurements_proofs` and `Questions_proofs` take the sums and orders of `Arithmetic_proofs`, and with
them its `Word`, which none of their proofs uses.

| Theorem | Says |
|---|---|
| `TypeCorrect`, `StoredOnce`, `SuccessMeansStored`, `OneCreator`, `LockSuffices`, `OneOpenAlert`, `LockKeepsWorkingCopy` (Measurements_proofs) | the invariants of `MeasurementIntake` for any number of requests, messages, connections and thresholds; `OneCreator`: no two requests report having created one message; `LockSuffices`: without other writers the UNIQUE constraint never fires; `LockKeepsWorkingCopy`: what a transaction read under the lock is still true when it commits |
| `EvaluateMetricAgrees`, `ResolvedDoesNotReopen` (Measurements_proofs) | evaluating keeps one OPEN row at most and leaves the state the reading calls for; a resolved row does not reopen on the reading that resolved it |
| `LateArrivalsChangeNoAlert`, `NewestDecides`, `AcceptRefinesAtomic` (Measurements_proofs) | the alert state only moves forward, is that of the newest measurement, and `accept` implements `IntakeSpec` |
| `AlertRowsAreEpisodes` (Measurements_proofs) | for all thresholds, readings and lengths of history: the rows of `alerts` are exactly the maximal episodes of the history, one row each |
| `AlertHistoriesAreHonest` (Measurements_proofs) | for every limit, period and filter: the newest matching alerts are shown, in order, whatever is evaluated between the two statements, and a truncated history of all statuses lacks some |
| `SeriesAlwaysAgree`, `EstimateCounts` (Measurements_proofs) | for every offset, hour, day and limit, and every history of readings: the series of a period has the rows of its statistics, each once, in buckets in order that overlap it, with the same extremes and an average between them; `_estimate_points` is the number of buckets that have an instant in the period |
| `DeliveryInvariant`, `NothingAcceptedIsLost`, `NoEndlessResending`, `SendsOnlyNewest`, `NoSendAfterAuthenticationError` (DeviceDelivery_proofs) | what the device takes for accepted is stored, it sends a measurement `1 + MaxRetryCount` times at most, only the newest, and none after an authentication error, for any number of measurements, attempts and retries |
| `AgentTypes`, `AnswersAreRecorded`, `HistoriesAreNotMixed`, `ToolsAreBounded`, `FailuresOfStoringAreRecorded`, `AgentImplementsLifecycle` (AgentRun_proofs) | the invariants of `AgentRun` for any number of questions and limits, and the refinement of `AIRequestSpec` |
| `ElapsedIsExact`, `DeadlineIsExact` (Arithmetic_proofs) | 32-bit differences are exact below one wrap, deadlines below half of one |
| `ClockTypes`, `ValidForOneWrap`, `NeverGoesBack`, `MeasuredAtAlwaysAccurate`, `ResyncAlwaysInTimeAtFirst` (MeasuringLoop_proofs) | the time is valid for at most the validity period until the age wraps; `measured_at` is monotone at any uptime and off by no more than SNTP was until the age wraps; in the first half of the range a connected device asks for the synchronisation it needs |
| `MeasuringImplementsClock`, `ReadingAlwaysFresh`, `SensorAlwaysRetriedInTime`, `SensorRetriesAlwaysSpaced`, `MeasurementsAlwaysKeepTime` (MeasuringLoop_proofs) | the loop with the sensor implements `DeviceClock`; at any uptime no old value is measured, a silent sensor is given up and then retried every interval and not more often, and the next measurement is the next point of the grid |
| `SendingImplementsWifi`, `AttemptsAlwaysEnd`, `RetriesAlwaysSpaced`, `RetriesAlwaysInTimeAtFirst`, `SendsAlwaysSpaced`, `WaitsAlwaysInTimeAtFirst` (SendingLoop_proofs) | the loop with the retry schedule implements `WifiSupervisor`; attempts and sends are bounded in time and spaced |
| `ResolvedPeriodsAreAlwaysAccepted`, `OnlyAskedPeriodsAreEverQueried` (Questions_proofs) | for every question, clock, content of the database and call of the model |
| `AnswersAlwaysRestOnTools` (Questions_proofs) | for any candidate whatever: what is shown rests on the tool results, each number in its unit unless it is written with `℃` (section 5) |
| `PeriodsAreAlwaysCalendar` (Questions_proofs) | for every clock and every word, number and date: a resolved period begins and ends, to the instant, where its words do in the calendar |
| `FallbackAlwaysSucceeds`, `Sampling` (Questions_proofs) | for every question, content of the database and first result: the fallback made of it passes the validation, says a number whenever there is data, and shows of a series as many points as allowed, none twice, with both ends |
| `FormsAskOnce`, `NewestFormsStayOpen`, `EndedSessionsStayEnded` (Web_proofs) | for any number of requests, sessions and forms, however handlers interleave |
| `LimiterInvariant`, `LocksFollowFailures`, `FewFailuresPerWindow` (Web_proofs) | for every window, lock time, limit and table size: a key is locked exactly when its failures since a success or a drop for want of room say so (section 5 is about those before) |
| `FullTablesDropTheOldest` (Web_proofs) | for every table size: a key is dropped only for as many others as the table holds, with failures that still count and are no older |

*Intake.* None of the invariants is inductive alone. `OneRowPerMessage` needs that
what a lock holder did not find stays absent (`InsertIsNew`, without other writers) or
that a flushed message is not stored (`WorkingCopyIsCurrent`). That in turn needs the
lock: `seen` and `draft` are current because only the holder writes them, so `IInv`
carries `pc[r] \in Locked => rowLock = r`. `SuccessIsStored` needs `StatusInv`, that an
answer exists only at the end. The alert rows need `EvaluateAllAgrees`, which comes
from `EvaluateMetricAgrees`. `NewestDecides` adds `NewestInv`: no stored
measurement is newer than `lastEvaluated`, which is the time of one of them.
The refinement maps `answer` to `result`, with `Lost` for a request the crash took;
`Commit` and `CommitUnacknowledged` map to `Accept`, `FindStored` and `Reread` to
`AcknowledgeResend`, failures to `Refuse`, `Crash` to `Lose`, everything else stutters.
It is `WorkingCopyIsCurrent` that makes the late `Commit` equal to an evaluation of the
current rows.

*Episodes.* The rows alone do not carry the proof: an evaluation looks only at the
OPEN row, so `RowsFollow` says of each row what it holds of its episode (where it began, that
it lasted up to `lastDetected`, that it is over right after if RESOLVED), that rows are in the
order of their beginnings, that no beginning is without a row, and that the episode now running,
if any, has its row open. Whether the next reading is in an episode follows from the previous one and
hysteresis alone, which is what turns the definition over the whole history into a step.
Distinct beginnings make "one row each" a bijection.

*Histories.* The order of the query is total, so a row's place is the number of rows before it:
the places are exactly 1 to the number of rows (`RanksAreAll`), which needs finite sets and no
induction over sequences. Between the two statements rows are only added or changed in
status and end, so that of all statuses none that was counted is lost (`QueryInv`).

*Series.* No invariant but the types of the rows is needed; the work is in the operators. An
instant is in bucket b exactly if it is between the ends of b (`BucketIs`, by `QuotientAtLeast`),
which gives the overlap, the order and, with the first and the last bucket of a period as the
ends of an interval, `EstimateCounts`. The buckets part the rows, so their counts add up to
the number of rows (`PartsCount`); an extreme of all rows is that of the bucket its row is in; an
average lies between the extremes since a sum lies between n times each of them (`SumBetween`) and
rounding to the nearest does not leave an interval of integers (`RoundedBetween`).

*Sums and orders.* A sum over a set is a fold of the community modules that takes out a
chosen element first. That any element may be taken out first (`SumOut`) is shown without an
induction theorem: of the subsets where it fails one is the smallest, because the subsets of a
finite set are well-founded (`SmallestSet`), and for that one the step is a contradiction.
Likewise `StepExists`, that there is a function with the fold's recursion at all. `OrderHasRanks`
says that in a finite strict order the ranks are 0 up to the number of elements, each once, for
any such order: the alerts of a page, the buckets of a series, the newest measurement.

*Delivery.* `DeliveryInv` ties four places together: what is pending is the newest measurement
and not accepted, the request awaited is the last one and carries it, every attempt of it but
the one awaited was counted as a retry, and a success on the network was answered for
a stored row. `AcceptedIsStored` follows when `SendReturns` reads such an answer; that rows stay
stored is a lemma about `IntakeSpec`.

*Sessions.* `FormsAreKept` accounts for every form ever issued: asked with, expired, open, or
behind `MaxForms` newer ones of its session. `AskedAreClosed` says that a form asked with is
open in no session, which is why closing it before the agent is awaited is enough.

*Attempts.* `LimiterInv` relates what is kept of a key to the failures remembered of it: the kept ones are all
but the first few, which have left the window (`KeepsRecent`); the lock is that of the
last exhausting failure while it lasts (`LockIsLast`); and no failure was recorded during a lock
(`LockHeld`), without which an older lock could end later than a newer one. Trimming and
purging only drop what this lets them drop; what eviction drops is remembered no more, by either side.
`DroppedForNewer` needs that a key's last update was its last failure (`UpToDate`) and that what purging left
in the table still counts.

*Agent.* The invariant is a conjunction per question: its types, what is known at each
step (`Position`, for example that storing happens while the row is RUNNING and that
`abandoned` is never set while the task itself calls tools), `Tools`, which counts the
abandoned call's pending record, and `Shown`. `Locality` says that a task changes only
its own question, so every action is proved for one record. The refinement maps a row
to its status and a page to whether it shows an answer; a `RecordFailure` on a row that
is already SUCCEEDED is a stutter, because of the CHECK constraint. `StoringFailureIsRecorded`
needs only that a question that ended in an attempt with no failure but that of storing its
candidate has left RUNNING behind.

*Clock.* `SyncedAt` ties the stored counter value to the true uptime of the last
synchronisation; with `ElapsedIsExact` the age is the true age until it wraps.
`AccuracyInv` bounds the second given out from above at any uptime, since a wrapped age is only
smaller, and from below until the wrap. `ResyncInv` stays in the first half of the range, where a stamp is the uptime:
a request in progress was made before anything became overdue and ends within its
interval, and the next attempt is never more than one interval after that.

*Measuring.* `SensorInv` ties each stamp, that of a reading or of the initialisation before the first, to a
true uptime and bounds its age by its limit in the loop and by one loop more before `update_sensor`: because every loop looks at it, no
age comes near a wrap, and `ElapsedIsExact` applies at any uptime. `GridInv` says the
deadline is the stamp of a point of the grid that is at most one loop past, so
`DeadlineIsExact` applies, and the catch-up stops at the first point still to come.

*Sending.* `WifiInv` and `SendInv` do the same for connection attempts and retries. A
retry deadline that is not looked at, without a link, does age: this is why
`WaitsInTimeAtFirst` and `RetriesInTimeAtFirst` stop at half the range, while `SendsAreSpaced`
holds at any uptime: a deadline is never more than half a range ahead, so that one still to
come never looks reached, and an old one can only look like one to come. The
doubling is exact because `SendingAssumption` keeps it below the counter.

*Questions.* `PeriodsAreValid` comes from `Resolve` alone, case by case, which needs the
types of the calendar operators but no calendar; only `PeriodsAreCalendar` needs that.
`HistoryIsSequence` and
`OnlyAskedPeriodsAreQueried` carry the periods through any number of calls, and `DisplayIsLast`
says that what is shown was accepted against the history that is still there, from which
`AnswersRestOnTools` follows by the definition of `Accepted`. It says of a number what the code checks of
it; `UnitsRestOnTools`, which asks for the unit of `℃` too, is false (section 5).

*Fallback.* Only the first result of a tool matters, and neither it nor the question changes
later: `FallbackInv` says that its fallback holds, and that what is stored or may be stored is a
finite set of rows with different ids, which a step only moves from one to the other. That a
fallback is accepted is one lemma about any result whose shown paths are `Sayable` (`SayableAccepted`),
and then one for each tool: the newest row exists because the order by time and id is
total, aggregates of rows that there are are integers and not NULL, a comparison with data in
both periods has both averages. `Sampling` is arithmetic: with at least one step more than there are
places, the rounded multiples of (N - 1) / (M - 1) rise by one at least, from the first to the last.

*Calendar.* `PeriodsAreCalendar` compares two computations: an interval from first days of
days, weeks, months and years, and the meaning of a word by the date of one instant. Months are
numbered through the years, so that month `i + 1` begins where month `i` ends across years as well
(`MonthsFollow`, from the leap days of `LeapYears` and the 367ths of `DaysBefore`). Every day is
then in exactly one month (`DayInMonth`), and `DateOf` finds it (`DateOfDay`): the guess at
the year is off by one at most (`YearLength`), and the division by 367 hits the month. The
rest is one lemma for each kind of token (`CurrentBounded`, `PastBounded`, `ElapsedBounded`,
`CalendarBounded`, `ExplicitDayBounded`, `ExplicitMonthBounded`) on four instants: the first, the
last, and those right outside. "The last n months" is the delicate one: at its begin the day
may not exist (`SinceBegins`), and right before now may be the end of a longer month
(`SinceEnds`). The years are not bounded, so no clock is left out.

`TypeOK` (three modules), `OneOpenPerMetric`, `WorkingCopyIsCurrent`, `ConstraintUnused`,
`ToolCallsBounded`, `NoRevival`, `RetriesAreSpaced` and `SensorRetriesAreSpaced` are in no run: TLC found
them true of small instances before they were proved for all, and the runs are
left to other questions.

### Only model-checked

Liveness (`EveryRequestEnds`, `PendingIsSettled`, `QuestionsConclude`): the prover does
not handle it, nor ENABLED. Every other property of a passing run is a theorem.

## 5. Where code and documents differ

1. `agent_fallback`. The `succeed` call of the fallback path (`app/agent/service.py:154`)
   stands in an `except` clause, so no other clause catches its failure: the row stays
   RUNNING, while `docs/detailed-design/ai-agent.md:152` says a failure is recorded.
2. `clock_long_uptime`. The age of a synchronisation is a 32-bit difference
   (`fw/clock_service.cpp:70`): 49.7 days after the last one it wraps and the time is
   valid again for 24 hours, while `docs/detailed-design/device.md:62` says a time older
   than 24 hours is not used. `ValidForOneWrap` proves that this is the only way.

Three more that TLC shows when the property named is added to the INVARIANTS of the configuration named:

- `UnitsRestOnTools` in `MC_Questions.cfg`. The validation looks for units in the NFKC form of an answer
  (`app/agent/validation.py:300`), in which `℃` has become `°C` and no longer begins with the `℃` of
  `UNIT_PREFIXES` (29). A number written with it counts as one without a unit and may be that of any
  metric: with 50 % of humidity as evidence, "温度は50℃" is shown, while
  `docs/detailed-design/ai-agent.md:143` does not accept a number that a result holds in another meaning.
- `LocksAreKept` in `MC_LoginAttempts.cfg`. `_enforce_capacity` (`app/security/login_rate_limit.py:113`) runs
  after expired keys were purged, so what it drops still counts; locked keys, which no login updates, are
  among the first. Their locks end early, while `docs/detailed-design/ui-grafana.md:86` locks for 15 minutes
  and has only expired keys dropped. `FullTablesDropTheOldest` says what the code does promise.
- `AskedInSession` in `MC_WebSessions.cfg`. A question finds its session before it awaits the body
  (`app/web/router.py:274`) and does not look again: logged out meanwhile, it still asks the agent, while
  `docs/detailed-design/ui-grafana.md:152` has the body before the session and 164 a deleted session refused.

Further observations:

- `RetriesInTime` fails beyond half the range of `millis()` (check it with
  `SendingLoop.cfg`): `update_display` writes
  `wifi_connected` too (`fw/app_controller.cpp:277`), so when it is the first to see a lost
  link, `update_wifi` (117-120) does not renew the deadline, which after 24.8 days of
  connection looks like one in the future.
- `ResyncInTime` fails there too (`DeviceClock` with `Word` 8 and `MaxUptime` 10): after 24.8
  days without a link, when `update_display` is the first to see it again, `update_wifi`
  does not set the clock's deadline (`fw/app_controller.cpp:110`) and no synchronisation is asked for
  until the old one comes round, where `docs/detailed-design/device.md:60` has one on
  connecting and every six hours.
- The form of the next question is issued before the agent is awaited (`app/web/router.py:293`), not when the
  answer is rendered (`docs/detailed-design/ui-grafana.md:129`, 156): it ages up to 100 s meanwhile, and pages
  opened in other tabs during that time are newer. `NewestFormsWork` is about the order of issue.
- A hysteresis under 0.005 is accepted (`app/config.py:44`) but stored as 0.00, which the CHECK of
  `app/models/alert.py:45` refuses: with it the measurement that opens an alert is not stored either. The models
  assume it away (`HysteresisAssumption`).
- `NUMBER` (`app/agent/validation.py:20`) finds no number that touches an ASCII letter, so none of "50C"
  is verified.
- An alert compares the unrounded reading (`app/services/alert_service.py:96`) but stores
  two decimals, so a stored trigger value can equal its threshold (readings 29 and 61 of
  `MC_MeasurementQueries`).
- `update_measurement` leaves INITIALIZING although readiness is not reached
  (`fw/app_controller.cpp:163`), other than `docs/detailed-design/device.md:97`.
- The measurement endpoint has no 429 answer (`docs/detailed-design/backend.md:99`); the
  device handles one.
- Expired sessions leave the table only when they are looked up; two concurrent logins
  of one browser leave two sessions; `Retry-After` of a locked login is rounded down.
- "Today" asked exactly at midnight is an empty period (`app/agent/period_resolver.py:98`)
  and answered with a request to clarify.
- A period that leaves the calendar (800000 days back, years or months beyond 2^31
  (`app/agent/period_resolver.py:184`, 192), 9999-12-31, 0001-01-01) raises
  OverflowError, which `app/agent/period_resolver.py:68` does not catch: `run` raises instead
  of asking to clarify (`docs/detailed-design/ai-agent.md:60`). `Questions` has the step `raised`.
- The alert history counts and selects in two statements: an alert opened in between pushes
  an older one out of a full list with `truncated` false (`app/repositories/query_repository.py:125`).
- A newer measurement replaces the pending one with its schedule, so a server's Retry-After
  is forgotten then (`docs/detailed-design/device.md:54`); with the measurement interval of 60 s
  a message is usually replaced before its six retries.
- A measurement that finds no reading or no valid time sets the state to READY although an
  older message still waits for its retry (`fw/app_controller.cpp:161`-`196`).

## 6. Not modelled

- Text: the patterns of `QuestionClassifier`, `PERIOD_TOKEN` and the validation of answers, the
  wording of answers and prompts, formatted times. What they find is an input, what follows
  from it is modelled.
- `Questions` takes one question at a time at one instant: its clock does not move between the calls,
  and it has no other question's history. Tool histories of several questions are in `AgentRun`, each with
  its question as `ReadOnlyTools` is made for one run.
- The values of the sensor and their ranges: a reading is there or not, valid or not.
- The checks of the measurement endpoint before `accept`: stateless; their refusals are
  the answers 400 and 401 of `DeviceDelivery` (401 also for 403).
- The login form token and the password hash: stateless; their outcome is an input.
- SQL views and dashboards, migrations (their UNIQUE and CHECK constraints are in the models),
  configuration, logging, headers, display drawing, UUIDs, containers: no state other parts
  depend on, or outside the program.
- `DeviceDelivery` lets a retry come due at any time and `SendingLoop` any message be
  pending: that the timed schedule implements the untimed one is not stated as a refinement,
  because the two cut the loop at different steps.
- One device, as the deployment has; hashing and tokens are identities that do not
  collide.

## 7. Plan

Done, in this order: alert rules and intake with its abstraction; delivery on top of
it; the agent run with its abstraction; the timed parts of the device, then composed with the
sensor and the retry schedule; sessions and login attempts; queries; questions, periods and
verification; the proofs of section 4.

Next:

1. One loop of the device from which both `DeviceDelivery` and `SendingLoop` are obtained by
   hiding what each leaves out.
2. The measurement endpoint's checks, in their order, as an abstraction of its answers.

## 8. Running it

`tlc -config <cfg> <module>` for the pairs listed in `PROJECT.json`, `tlapm <module>` for the
eight proof modules. The longest run, `delivery`, takes about two minutes on two workers.

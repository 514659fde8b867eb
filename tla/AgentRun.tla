------------------------------ MODULE AgentRun ------------------------------
(***************************************************************************)
(* One question after the other layers let it through: AgentService.run,   *)
(* the Gemini turns of GeminiBackend.run, the tool history of ReadOnlyTools *)
(* and the row of AIRequestRepository.  Every question is one task of the   *)
(* event loop; a tool runs in a worker thread, which a timeout abandons but *)
(* does not stop.  Each database call may commit, fail, or commit and lose  *)
(* the acknowledgement; the process may crash between any two steps.        *)
(***************************************************************************)
EXTENDS Naturals, Sequences

CONSTANTS Questions,
          MaxCalls,      \* ReadOnlyTools max_calls (5)
          MaxTurns       \* turns of one GeminiBackend.run (8)

ASSUME LimitsAssumption == MaxCalls \in Nat /\ MaxTurns \in Nat

VARIABLES run,           \* run[q]: the local state of the task of q
          rows,          \* rows[q]: q's row of app.ai_requests
          page           \* page[q]: what the web layer renders for q

vars == <<run, rows, page>>

NoRow == [status |-> "ABSENT", answer |-> "none", error |-> "none"]
ErrorCodes == {"LIMIT_EXCEEDED", "AI_RESPONSE_INVALID", "AI_UNAVAILABLE"}
Steps == {"asked", "model", "tools", "candidate", "invalid", "rebuilt",
          "failing", "storedModel", "storedFallback", "raised", "ended", "crashed"}

(* calls: function calls of the turn still to be executed.  history: for    *)
(* each record of tools.history, the attempt that made the call.  abandoned: *)
(* a tool call goes on in its thread after its task timed out.  failed: the *)
(* steps whose database call raised (observation only).                     *)
FreshRun == [step |-> "asked", attempt |-> 0, turn |-> 0, calls |-> 0,
             history |-> <<>>, abandoned |-> FALSE, error |-> "none", failed |-> {}]

Init == /\ run  = [q \in Questions |-> FreshRun]
        /\ rows = [q \in Questions |-> NoRow]
        /\ page = [q \in Questions |-> "none"]

Goes(q, step) == run' = [run EXCEPT ![q].step = step]
Fails(q, error) == run' = [run EXCEPT ![q].step = "failing", ![q].error = error,
                                      ![q].calls = 0]

-----------------------------------------------------------------------------
(* The database *)

\* Mutated form of StatusResult: the table has no CHECK constraint.
StatusResultAny(row) == row.status \in {"RUNNING", "SUCCEEDED", "FAILED"}

(* The CHECK constraint status_result. *)
StatusResult(row) ==
    \/ row.status = "RUNNING" /\ row.answer = "none" /\ row.error = "none"
    \/ row.status = "SUCCEEDED" /\ row.answer # "none" /\ row.error = "none"
    \/ row.status = "FAILED" /\ row.answer = "none" /\ row.error # "none"

\* Mutated form of Writes: an exception of the call is swallowed.
WritesUnnoticed(q, row, next, onError) ==
    /\ StatusResult(row)
    /\ rows' \in {rows, [rows EXCEPT ![q] = row]}
    /\ Goes(q, next)

(* One repository call on q's row: it commits and the task goes on to next; *)
(* or it raises, and the task goes on to onError, without or with its effect. *)
Writes(q, row, next, onError) ==
    \/ /\ StatusResult(row)
       /\ rows' = [rows EXCEPT ![q] = row]
       /\ Goes(q, next)
    \/ /\ \/ UNCHANGED rows
          \/ StatusResult(row) /\ rows' = [rows EXCEPT ![q] = row]
       /\ run' = [run EXCEPT ![q].step = onError, ![q].failed = @ \cup {run[q].step},
                             ![q].error = IF onError = "failing"
                                          THEN "AI_UNAVAILABLE" ELSE @]

-----------------------------------------------------------------------------
(* The question is classified; a data question gets a RUNNING row. *)

AnswerLocally(q) ==
    /\ run[q].step = "asked"
    /\ page' = [page EXCEPT ![q] = "fixed"]
    /\ Goes(q, "ended")
    /\ UNCHANGED rows

Start(q) ==
    /\ run[q].step = "asked"
    /\ \/ /\ rows' = [rows EXCEPT ![q] = [NoRow EXCEPT !.status = "RUNNING"]]
          /\ run' = [run EXCEPT ![q].step = "model", ![q].attempt = 1]
       \/ /\ rows' \in {rows, [rows EXCEPT ![q] = [NoRow EXCEPT !.status = "RUNNING"]]}
          /\ run' = [run EXCEPT ![q].step = "raised", ![q].failed = @ \cup {run[q].step}]
    /\ UNCHANGED page

-----------------------------------------------------------------------------
(* The turns of the model and its tools *)

(* A turn with function calls; its answer text, if any, is not used. *)
ModelCallsTools(q, n) ==
    /\ run[q].step = "model" /\ run[q].turn < MaxTurns
    /\ run' = [run EXCEPT ![q].step = "tools", ![q].turn = @ + 1, ![q].calls = n]
    /\ UNCHANGED <<rows, page>>

ModelAnswers(q) ==
    /\ run[q].step = "model" /\ run[q].turn < MaxTurns
    /\ Goes(q, "candidate")
    /\ UNCHANGED <<rows, page>>

TurnsExhausted(q) ==
    /\ run[q].step = "model" /\ run[q].turn = MaxTurns
    /\ Fails(q, "LIMIT_EXCEEDED")
    /\ UNCHANGED <<rows, page>>

\* Mutated form of MayRetry: tools.history is not looked at.
MayRetryAnyTime(q) == run[q].attempt = 1

(* _run_with_one_retry: one retry, and only before any tool was executed. *)
MayRetry(q) == run[q].attempt = 1 /\ run[q].history = <<>>

ModelErrs(q, transient) ==
    /\ run[q].step = "model" /\ run[q].turn < MaxTurns
    /\ IF transient /\ MayRetry(q)
       THEN run' = [run EXCEPT ![q].attempt = 2, ![q].turn = 0]
       ELSE Fails(q, "AI_UNAVAILABLE")
    /\ UNCHANGED <<rows, page>>

(* A tool that is not exposed, arguments that do not parse, an answer that  *)
(* is no candidate: an exception of another class.                          *)
ModelMisbehaves(q) ==
    /\ run[q].step \in {"model", "tools"}
    /\ Fails(q, "AI_UNAVAILABLE")
    /\ UNCHANGED <<rows, page>>

CallsLeft(q) == Len(run[q].history) < MaxCalls

(* The thread of the tool appends its result, good or not, to the history.  *)
ToolReturns(q) ==
    /\ run[q].step = "tools" /\ CallsLeft(q)
    /\ run' = [run EXCEPT ![q].history = Append(@, run[q].attempt),
                          ![q].calls = @ - 1,
                          ![q].step = IF run[q].calls = 1 THEN "model" ELSE "tools"]
    /\ UNCHANGED <<rows, page>>

ToolLimit(q) ==
    /\ run[q].step = "tools" /\ ~CallsLeft(q)
    /\ Fails(q, "LIMIT_EXCEEDED")
    /\ UNCHANGED <<rows, page>>

\* Mutated form of Timeout: the limit covers the model's answers only.
TimeoutOfModel(q) ==
    /\ run[q].step = "model"
    /\ Fails(q, "LIMIT_EXCEEDED")
    /\ UNCHANGED <<rows, page>>

(* asyncio.wait_for gives up; a tool call under way is abandoned. *)
Timeout(q) ==
    /\ run[q].step \in {"model", "tools"}
    /\ run' = [run EXCEPT ![q].step = "failing", ![q].error = "LIMIT_EXCEEDED",
                          ![q].calls = 0,
                          ![q].abandoned = run[q].step = "tools" /\ CallsLeft(q)]
    /\ UNCHANGED <<rows, page>>

AbandonedToolReturns(q) ==
    /\ run[q].abandoned
    /\ run' = [run EXCEPT ![q].history = Append(@, run[q].attempt),
                          ![q].abandoned = FALSE]
    /\ UNCHANGED <<rows, page>>

-----------------------------------------------------------------------------
(* The candidate is verified, stored and shown *)

(* validate_and_build_display accepts nothing without a tool history. *)
MayBeVerified(q) == run[q].history # <<>>

\* Mutated form of Verify: storing the answer is outside the try statement.
VerifyUnguarded(q) ==
    /\ run[q].step = "candidate"
    /\ \/ MayBeVerified(q) /\ Writes(q, [status |-> "SUCCEEDED", answer |-> "model",
                                         error |-> "none"], "storedModel", "raised")
       \/ UNCHANGED rows /\ Goes(q, "invalid")
       \/ UNCHANGED rows /\ Fails(q, "AI_UNAVAILABLE")
    /\ UNCHANGED page

Verify(q) ==
    /\ run[q].step = "candidate"
    /\ \/ MayBeVerified(q) /\ Writes(q, [status |-> "SUCCEEDED", answer |-> "model",
                                         error |-> "none"], "storedModel", "failing")
       \/ UNCHANGED rows /\ Goes(q, "invalid")
       \/ UNCHANGED rows /\ Fails(q, "AI_UNAVAILABLE")
    /\ UNCHANGED page

(* build_verified_fallback takes the first tool result and has what it makes  *)
(* of it verified in the same way.                                            *)
MayBeRebuilt(q) == run[q].history # <<>>

Rebuild(q) ==
    /\ run[q].step = "invalid"
    /\ \/ MayBeRebuilt(q) /\ Goes(q, "rebuilt")
       \/ Fails(q, "AI_RESPONSE_INVALID")
    /\ UNCHANGED <<rows, page>>

StoreRebuilt(q) ==
    /\ run[q].step = "rebuilt"
    /\ Writes(q, [status |-> "SUCCEEDED", answer |-> "fallback", error |-> "none"],
              "storedFallback", "raised")
    /\ UNCHANGED page

(* _record_failure sets status and error_code of the row it reads. *)
RecordFailure(q) ==
    /\ run[q].step = "failing"
    /\ Writes(q, [rows[q] EXCEPT !.status = "FAILED", !.error = run[q].error],
              "raised", "raised")
    /\ UNCHANGED page

(* What run returns, which is not read back from the row; ask_question       *)
(* renders it, or "unavailable" for every exception.                         *)
Display == [storedModel |-> "model", storedFallback |-> "fallback",
            raised |-> "unavailable"]

Show(q) ==
    /\ run[q].step \in DOMAIN Display
    /\ page' = [page EXCEPT ![q] = Display[run[q].step]]
    /\ Goes(q, "ended")
    /\ UNCHANGED rows

-----------------------------------------------------------------------------
(* A crash ends every task; nothing looks at RUNNING rows at the next start. *)
Crash ==
    /\ \E q \in Questions : run[q].step \notin {"asked", "ended", "crashed"}
    /\ run' = [q \in Questions |->
                 IF run[q].step \in {"asked", "ended"} THEN [run[q] EXCEPT !.abandoned = FALSE]
                 ELSE [run[q] EXCEPT !.step = "crashed", !.calls = 0, !.abandoned = FALSE]]
    /\ UNCHANGED <<rows, page>>

Model(q) == \/ \E n \in 1..2 : ModelCallsTools(q, n)
            \/ ModelAnswers(q) \/ TurnsExhausted(q)
            \/ \E transient \in BOOLEAN : ModelErrs(q, transient)
            \/ ModelMisbehaves(q)
            \/ ToolReturns(q) \/ ToolLimit(q)

Conclude(q) == Verify(q) \/ Rebuild(q) \/ StoreRebuilt(q) \/ RecordFailure(q) \/ Show(q)

Handle(q) == AnswerLocally(q) \/ Start(q) \/ Model(q) \/ Timeout(q)
             \/ AbandonedToolReturns(q) \/ Conclude(q)

Next == Crash \/ \E q \in Questions : Handle(q)

Spec == Init /\ [][Next]_vars

(* The timer of wait_for fires and the event loop runs what follows; that   *)
(* the model ever answers is not assumed.                                   *)
FairSpec == Spec /\ \A q \in Questions : WF_vars(Timeout(q)) /\ WF_vars(Conclude(q))

-----------------------------------------------------------------------------
(* Properties *)

RunType == [step : Steps, attempt : 0..2, turn : 0..MaxTurns, calls : 0..2,
            history : Seq(1..2), abandoned : BOOLEAN,
            error : ErrorCodes \cup {"none"}, failed : SUBSET Steps]
RowType == [status : {"ABSENT", "RUNNING", "SUCCEEDED", "FAILED"},
            answer : {"none", "model", "fallback"}, error : ErrorCodes \cup {"none"}]

(* The variables keep their types; every row satisfies its CHECK constraint. *)
TypeOK ==
    /\ run \in [Questions -> RunType]
    /\ rows \in [Questions -> RowType]
    /\ \A q \in Questions : rows[q] = NoRow \/ StatusResult(rows[q])
    /\ page \in [Questions -> {"none", "fixed", "model", "fallback", "unavailable"}]

(* An answer on the page is the answer stored as SUCCEEDED, and it rests on  *)
(* at least one tool result (service.py: stored before it is returned).      *)
ShownAnswerIsRecorded ==
    \A q \in Questions : page[q] \in {"model", "fallback"} =>
        /\ rows[q].status = "SUCCEEDED" /\ rows[q].answer = page[q]
        /\ run[q].history # <<>>

(* The tool results an answer is verified against come from one attempt: a   *)
(* retry never mixes them with those of the attempt it replaces              *)
(* (service.py _run_with_one_retry), whatever an abandoned thread adds later. *)
HistoryOfOneAttempt ==
    \A q \in Questions : \A i \in DOMAIN run[q].history :
        run[q].history[i] = run[q].attempt

(* No question executes more than MaxCalls tools, retries and calls of one   *)
(* turn included, and the abandoned one as well (tools.py _execute).         *)
ToolCallsBounded == \A q \in Questions : Len(run[q].history) <= MaxCalls

(* The rows and the pages behave as AIRequestSpec promises: a row ends once, *)
(* even when a lost acknowledgement makes the service record a failure for a *)
(* row already SUCCEEDED.                                                     *)
Lifecycle == INSTANCE AIRequestSpec WITH
    status <- [q \in Questions |-> rows[q].status],
    page   <- [q \in Questions |-> IF page[q] \in {"model", "fallback"}
                                   THEN "answer" ELSE page[q]]
RowsFollowLifecycle == Lifecycle!Spec

ConcludedFailingOnly(q, failures) == /\ run[q].step = "ended" /\ run[q].attempt > 0
                                 /\ run[q].failed \subseteq failures

(* When nothing but storing the verified answer fails, the question does not  *)
(* stay RUNNING: the failure is recorded instead (service.py, the last except *)
(* clause of run).                                                            *)
StoringFailureIsRecorded ==
    \A q \in Questions :
        ConcludedFailingOnly(q, {"candidate"}) => rows[q].status # "RUNNING"

(* docs/detailed-design/ai-agent.md on the fallback: whatever exception it   *)
(* meets, the failure is recorded and the request is not left RUNNING.       *)
FallbackFailureIsRecorded ==
    \A q \in Questions :
        ConcludedFailingOnly(q, {"rebuilt"}) => rows[q].status # "RUNNING"

(* A question that reached the model is concluded, whatever the model does,  *)
(* unless the process crashes (wait_for with AGENT_EXECUTION_TIMEOUT_SECONDS). *)
QuestionsConclude ==
    \A q \in Questions :
        run[q].step = "model" ~> run[q].step \in {"ended", "crashed"}
=============================================================================

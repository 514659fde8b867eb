-------------------------- MODULE AgentRun_proofs --------------------------
(***************************************************************************)
(* The invariants of AgentRun for any number of questions, calls and turns, *)
(* and that the rows and pages follow AIRequestSpec.                        *)
(***************************************************************************)
EXTENDS AgentRun, TLAPS

Pages == {"none", "fixed", "model", "fallback", "unavailable"}

(* What is known of a question with run r, row and page pg at each step. *)
Position(r, row, pg) ==
    /\ r.step = "asked" => row = NoRow /\ pg = "none" /\ r.history = <<>> /\ ~r.abandoned
    /\ r.step \in {"model", "tools", "candidate", "invalid", "rebuilt"} =>
         row.status = "RUNNING"
    /\ r.step \in {"model", "tools"} \/ r.abandoned => r.attempt # 0
    /\ r.step = "tools" => r.calls # 0
    /\ r.step = "rebuilt" => r.history # <<>>
    /\ r.step = "failing" => row.status \in {"RUNNING", "SUCCEEDED"} /\ r.error # "none"
    /\ r.step \in {"storedModel", "storedFallback"} =>
         row.status = "SUCCEEDED" /\ row.answer = Display[r.step] /\ r.history # <<>>
    /\ r.abandoned => r.step \notin {"asked", "model", "tools"}
    /\ r.step # "ended" => pg = "none"

(* The tools of a question: of one attempt, and no more than allowed. *)
Tools(r) ==
    /\ \A i \in DOMAIN r.history : r.history[i] = r.attempt
    /\ Len(r.history) <= MaxCalls
    /\ r.abandoned => Len(r.history) < MaxCalls

Shown(r, row, pg) ==
    pg \in {"model", "fallback"} =>
        row.status = "SUCCEEDED" /\ row.answer = pg /\ r.history # <<>>

Typed(r, row, pg) == /\ r \in RunType /\ row \in RowType /\ pg \in Pages
                     /\ row = NoRow \/ StatusResult(row)

Good(r, row, pg) == Typed(r, row, pg) /\ Position(r, row, pg) /\ Tools(r) /\ Shown(r, row, pg)

IInv == TypeOK /\ \A q \in Questions : Good(run[q], rows[q], page[q])

USE LimitsAssumption

-----------------------------------------------------------------------------
(* Fields of a run that changed. *)
LEMMA RunFields ==
    ASSUME NEW r \in RunType
    PROVE  /\ r.step \in Steps /\ r.attempt \in 0..2 /\ r.turn \in 0..MaxTurns
           /\ r.calls \in 0..2 /\ r.history \in Seq(1..2) /\ r.abandoned \in BOOLEAN
           /\ r.error \in ErrorCodes \cup {"none"} /\ r.failed \in SUBSET Steps
BY DEF RunType

(* A task changes nothing of the other questions. *)
LEMMA Locality ==
    ASSUME TypeOK, NEW q \in Questions, Handle(q)
    PROVE  /\ run'  = [run  EXCEPT ![q] = run'[q]]
           /\ rows' = [rows EXCEPT ![q] = rows'[q]]
           /\ page' = [page EXCEPT ![q] = page'[q]]
<1> USE DEF TypeOK, Goes, Fails
<1>1. CASE AnswerLocally(q) BY <1>1 DEF AnswerLocally
<1>2. CASE Start(q) BY <1>2 DEF Start
<1>3. CASE Model(q)
  <2>1. ASSUME NEW n \in 1..2, ModelCallsTools(q, n)
        PROVE  UNCHANGED <<rows, page>> /\ run' = [run EXCEPT ![q] = run'[q]]
    BY <2>1 DEF ModelCallsTools
  <2>2. ASSUME NEW t \in BOOLEAN, ModelErrs(q, t)
        PROVE  UNCHANGED <<rows, page>> /\ run' = [run EXCEPT ![q] = run'[q]]
    BY <2>2 DEF ModelErrs
  <2>3. CASE ToolReturns(q) BY <2>3 DEF ToolReturns
  <2> QED BY <1>3, <2>1, <2>2, <2>3
        DEF Model, ModelAnswers, TurnsExhausted, ModelMisbehaves, ToolLimit
<1>4. CASE Timeout(q) BY <1>4 DEF Timeout
<1>5. CASE AbandonedToolReturns(q) BY <1>5 DEF AbandonedToolReturns
<1>6. CASE Verify(q) BY <1>6 DEF Verify, Writes
<1>7. CASE Rebuild(q) BY <1>7 DEF Rebuild
<1>8. CASE StoreRebuilt(q) BY <1>8 DEF StoreRebuilt, Writes
<1>9. CASE RecordFailure(q) BY <1>9 DEF RecordFailure, Writes
<1>10. CASE Show(q) BY <1>10 DEF Show
<1> QED BY <1>1, <1>2, <1>3, <1>4, <1>5, <1>6, <1>7, <1>8, <1>9, <1>10
        DEF Handle, Conclude

-----------------------------------------------------------------------------
(* Each action, on the question it concerns *)

(* The task moves to another step and nothing else of it changes. *)
LEMMA OnlyStep ==
    ASSUME TypeOK, NEW q \in Questions, NEW s \in Steps, Goes(q, s)
    PROVE  /\ run'[q] \in RunType /\ run'[q].step = s
           /\ run'[q].history = run[q].history /\ run'[q].attempt = run[q].attempt
           /\ run'[q].calls = run[q].calls /\ run'[q].abandoned = run[q].abandoned
           /\ run'[q].error = run[q].error
<1>1. run[q] \in RunType /\ run'[q] = [run[q] EXCEPT !.step = s] BY DEF TypeOK, Goes
<1> QED BY <1>1, RunFields DEF RunType

(* The task gives up with an error to record. *)
LEMMA OnlyError ==
    ASSUME TypeOK, NEW q \in Questions, NEW e \in ErrorCodes, Fails(q, e)
    PROVE  /\ run'[q] \in RunType /\ run'[q].step = "failing" /\ run'[q].error = e
           /\ run'[q].history = run[q].history /\ run'[q].attempt = run[q].attempt
           /\ run'[q].abandoned = run[q].abandoned
<1>1. run[q] \in RunType
      /\ run'[q] = [run[q] EXCEPT !.step = "failing", !.error = e, !.calls = 0]
  BY DEF TypeOK, Fails
<1>2. "failing" \in Steps /\ e \in ErrorCodes \cup {"none"} /\ 0 \in 0..2 BY DEF Steps
<1> DEFINE r == run[q]   t == run'[q]
<1> HIDE DEF r, t
<1>3. r \in RunType /\ t = [r EXCEPT !.step = "failing", !.error = e, !.calls = 0]
  BY <1>1 DEF r, t
<1>4. t \in RunType BY <1>2, <1>3, RunFields DEF RunType
<1>5. /\ t.step = "failing" /\ t.error = e /\ t.history = r.history
      /\ t.attempt = r.attempt /\ t.abandoned = r.abandoned
  BY <1>3 DEF RunType
<1> QED BY <1>4, <1>5 DEF r, t

LEMMA StartKeeps ==
    ASSUME IInv, NEW q \in Questions, AnswerLocally(q) \/ Start(q)
    PROVE  Good(run'[q], rows'[q], page'[q])
<1> USE DEF Good, Typed
<1>1. run[q] \in RunType /\ run[q].step = "asked" /\ TypeOK
      /\ Good(run[q], rows[q], page[q])
  BY DEF IInv, AnswerLocally, Start
<1>2. CASE AnswerLocally(q)
  <2>1. Goes(q, "ended") /\ rows'[q] = rows[q] /\ page'[q] = "fixed" /\ "ended" \in Steps
    BY <1>1, <1>2 DEF AnswerLocally, TypeOK, Steps
  <2> QED BY <1>1, <2>1, OnlyStep DEF Position, Tools, Shown, Pages
<1>3. CASE Start(q)
  <2>1. /\ page'[q] = page[q]
        /\ rows'[q] \in {rows[q], [NoRow EXCEPT !.status = "RUNNING"]}
    BY <1>1, <1>3 DEF Start, TypeOK
  <2>2. \/ /\ run'[q] = [run[q] EXCEPT !.step = "model", !.attempt = 1]
           /\ rows'[q] = [NoRow EXCEPT !.status = "RUNNING"]
        \/ run'[q] = [run[q] EXCEPT !.step = "raised", !.failed = @ \cup {run[q].step}]
    BY <1>1, <1>3 DEF Start, TypeOK
  <2>3. /\ run'[q] \in RunType /\ run'[q].history = run[q].history
        /\ run'[q].abandoned = run[q].abandoned
        /\ \/ /\ run'[q].step = "model" /\ run'[q].attempt = 1
              /\ rows'[q] = [NoRow EXCEPT !.status = "RUNNING"]
           \/ run'[q].step = "raised"
    <3> DEFINE r == run[q]   t == run'[q]
    <3>1. "model" \in Steps /\ "raised" \in Steps /\ 1 \in 0..2 BY DEF Steps
    <3> HIDE DEF r, t
    <3>2. r \in RunType BY <1>1 DEF r
    <3>3. ASSUME t = [r EXCEPT !.step = "model", !.attempt = 1]
          PROVE  t \in RunType /\ t.history = r.history /\ t.abandoned = r.abandoned
                 /\ t.step = "model" /\ t.attempt = 1
      BY <3>1, <3>2, <3>3, RunFields DEF RunType
    <3>4. ASSUME t = [r EXCEPT !.step = "raised", !.failed = @ \cup {r.step}]
          PROVE  t \in RunType /\ t.history = r.history /\ t.abandoned = r.abandoned
                 /\ t.step = "raised"
      <4>1. r.failed \cup {r.step} \in SUBSET Steps BY <3>2, RunFields
      <4> QED BY <3>1, <3>2, <3>4, <4>1, RunFields DEF RunType
    <3> QED BY <2>2, <3>3, <3>4 DEF r, t
  <2>4. rows'[q] \in RowType /\ (rows'[q] = NoRow \/ StatusResult(rows'[q]))
        /\ (run'[q].step = "model" => rows'[q].status = "RUNNING")
    BY <1>1, <2>1, <2>3 DEF Position, NoRow, StatusResult, RowType
  <2>5. Position(run'[q], rows'[q], page'[q]) BY <1>1, <2>1, <2>3, <2>4 DEF Position
  <2>6. Tools(run'[q]) BY <1>1, <2>3 DEF Tools, Position
  <2>7. Shown(run'[q], rows'[q], page'[q]) BY <1>1, <2>1 DEF Shown, Position
  <2> QED BY <1>1, <2>1, <2>3, <2>4, <2>5, <2>6, <2>7
<1> QED BY <1>2, <1>3

(* While the model and its tools work the row stays RUNNING. *)
LEMMA WorkKeeps ==
    ASSUME IInv, NEW q \in Questions, run[q].step \in {"model", "tools"},
           UNCHANGED <<rows, page>>,
           run'[q] \in RunType, Tools(run'[q]),
           run'[q].step \in {"model", "tools", "candidate", "failing"},
           run'[q].attempt # 0,
           run'[q].step = "tools" => run'[q].calls # 0,
           run'[q].step = "failing" => run'[q].error # "none",
           run'[q].abandoned => run'[q].step = "failing"
    PROVE  Good(run'[q], rows'[q], page'[q])
BY DEF IInv, Good, Typed, Position, Shown

LEMMA ModelKeeps ==
    ASSUME IInv, NEW q \in Questions, Model(q)
    PROVE  Good(run'[q], rows'[q], page'[q])
<1>1. TypeOK /\ run[q] \in RunType /\ Tools(run[q]) /\ Position(run[q], rows[q], page[q])
  BY DEF IInv, Good, Typed
<1> USE DEF ErrorCodes
<1>2. ASSUME NEW e \in ErrorCodes, Fails(q, e), UNCHANGED <<rows, page>>,
             run[q].step \in {"model", "tools"}
      PROVE  Good(run'[q], rows'[q], page'[q])
  BY <1>1, <1>2, OnlyError, WorkKeeps DEF Tools, Position
<1>3. ASSUME NEW n \in 1..2, ModelCallsTools(q, n)
      PROVE  Good(run'[q], rows'[q], page'[q])
  <2>1. run'[q] = [run[q] EXCEPT !.step = "tools", !.turn = @ + 1, !.calls = n]
        /\ run[q].step = "model" /\ run[q].turn < MaxTurns
    BY <1>1, <1>3 DEF ModelCallsTools, TypeOK
  <2>2. /\ run'[q] \in RunType /\ run'[q].step = "tools" /\ run'[q].calls = n
        /\ run'[q].history = run[q].history /\ run'[q].attempt = run[q].attempt
        /\ run'[q].abandoned = run[q].abandoned
    <3>1. "tools" \in Steps /\ n \in 0..2 BY DEF Steps
    <3>2. run[q].turn + 1 \in 0..MaxTurns BY <1>1, <2>1, RunFields
    <3> DEFINE r == run[q]   t == run'[q]
    <3> HIDE DEF r, t
    <3>3. r \in RunType /\ r.turn + 1 \in 0..MaxTurns
          /\ t = [r EXCEPT !.step = "tools", !.turn = @ + 1, !.calls = n]
      BY <1>1, <2>1, <3>2 DEF r, t
    <3>4. /\ t \in RunType /\ t.step = "tools" /\ t.calls = n /\ t.history = r.history
          /\ t.attempt = r.attempt /\ t.abandoned = r.abandoned
      BY <3>1, <3>3, RunFields DEF RunType
    <3> QED BY <3>4 DEF r, t
  <2>3. Tools(run'[q]) BY <1>1, <2>2 DEF Tools
  <2>4. /\ run[q].step = "model" /\ UNCHANGED <<rows, page>>
        /\ run'[q].attempt # 0 /\ run'[q].calls # 0 /\ ~run'[q].abandoned
    BY <1>1, <1>3, <2>2 DEF ModelCallsTools, Position
  <2> QED BY <2>2, <2>3, <2>4, WorkKeeps
<1>4. CASE ModelAnswers(q)
  <2>1. Goes(q, "candidate") /\ "candidate" \in Steps /\ run[q].step = "model"
    BY <1>4 DEF ModelAnswers, Steps
  <2> QED BY <1>1, <1>4, <2>1, OnlyStep, WorkKeeps DEF ModelAnswers, Tools, Position
<1>5. ASSUME NEW transient \in BOOLEAN, ModelErrs(q, transient)
      PROVE  Good(run'[q], rows'[q], page'[q])
  <2>1. CASE transient /\ MayRetry(q)
    <3>1. run'[q] = [run[q] EXCEPT !.attempt = 2, !.turn = 0]
          /\ run[q].step = "model" /\ run[q].history = <<>>
      BY <1>1, <1>5, <2>1 DEF ModelErrs, MayRetry, TypeOK
    <3>2. /\ run'[q] \in RunType /\ run'[q].step = "model" /\ run'[q].history = <<>>
          /\ run'[q].attempt = 2 /\ run'[q].abandoned = run[q].abandoned
      <4> DEFINE r == run[q]   t == run'[q]
      <4> HIDE DEF r, t
      <4>1. r \in RunType /\ t = [r EXCEPT !.attempt = 2, !.turn = 0] BY <1>1, <3>1 DEF r, t
      <4>2. 2 \in 0..2 /\ 0 \in 0..MaxTurns OBVIOUS
      <4>3. t \in RunType BY <4>1, <4>2, RunFields DEF RunType
      <4>4. /\ t.step = r.step /\ t.history = r.history
            /\ t.attempt = 2 /\ t.abandoned = r.abandoned
        BY <4>1 DEF RunType
      <4> QED BY <3>1, <4>3, <4>4 DEF r, t
    <3>3. Tools(run'[q]) /\ ~run'[q].abandoned BY <1>1, <3>1, <3>2 DEF Tools, Position
    <3>4. run[q].step = "model" /\ UNCHANGED <<rows, page>> BY <1>5 DEF ModelErrs
    <3> QED BY <3>2, <3>3, <3>4, WorkKeeps
  <2>2. CASE ~(transient /\ MayRetry(q)) BY <1>2, <1>5, <2>2 DEF ModelErrs
  <2> QED BY <2>1, <2>2
<1>6. CASE ToolReturns(q)
  <2>1. /\ run'[q] = [run[q] EXCEPT !.history = Append(@, run[q].attempt), !.calls = @ - 1,
                        !.step = IF run[q].calls = 1 THEN "model" ELSE "tools"]
        /\ run[q].step = "tools" /\ Len(run[q].history) < MaxCalls
    BY <1>1, <1>6 DEF ToolReturns, CallsLeft, TypeOK
  <2>2. /\ run[q].calls \in 1..2 /\ run[q].attempt \in 1..2
        /\ run[q].history \in Seq(1..2) /\ ~run[q].abandoned
    BY <1>1, <2>1, RunFields DEF Position
  <2> DEFINE h == Append(run[q].history, run[q].attempt)
  <2>3. h \in Seq(1..2) /\ Len(h) = Len(run[q].history) + 1 BY <2>2
  <2>4. \A i \in DOMAIN h : h[i] = run[q].attempt BY <1>1, <2>2 DEF Tools
  <2>5. run[q].calls - 1 \in 0..2 /\ "model" \in Steps /\ "tools" \in Steps
    BY <2>2 DEF Steps
  <2>6. /\ run'[q] \in RunType /\ run'[q].history = h
        /\ run'[q].attempt = run[q].attempt /\ run'[q].abandoned = run[q].abandoned
        /\ run'[q].calls = run[q].calls - 1
        /\ run'[q].step = IF run[q].calls = 1 THEN "model" ELSE "tools"
    <3> DEFINE r == run[q]   t == run'[q]
    <3> HIDE DEF h, r, t
    <3>1. t = [r EXCEPT !.history = h, !.calls = r.calls - 1,
                        !.step = IF r.calls = 1 THEN "model" ELSE "tools"]
          /\ r \in RunType /\ r.calls - 1 \in 0..2
      BY <1>1, <2>1, <2>5 DEF h, r, t
    <3>2. /\ t \in RunType /\ t.history = h /\ t.attempt = r.attempt
          /\ t.abandoned = r.abandoned /\ t.calls = r.calls - 1
          /\ t.step = IF r.calls = 1 THEN "model" ELSE "tools"
      BY <2>3, <2>5, <3>1, RunFields DEF RunType
    <3> QED BY <3>2 DEF r, t
  <2>7. Len(run[q].history) \in Nat BY <2>2
  <2>8. Tools(run'[q])
    <3> HIDE DEF h
    <3> QED BY <2>1, <2>2, <2>3, <2>4, <2>6, <2>7 DEF Tools
  <2>9. /\ run'[q].attempt # 0 /\ ~run'[q].abandoned
        /\ run'[q].step \in {"model", "tools"}
        /\ run'[q].step = "tools" => run'[q].calls # 0
    <3> HIDE DEF h
    <3> QED BY <2>2, <2>6
  <2>10. run[q].step = "tools" /\ UNCHANGED <<rows, page>> BY <1>6 DEF ToolReturns
  <2> QED BY <2>6, <2>8, <2>9, <2>10, WorkKeeps
<1>7. ModelMisbehaves(q) \/ TurnsExhausted(q) \/ ToolLimit(q)
        => Good(run'[q], rows'[q], page'[q])
  BY <1>2 DEF ModelMisbehaves, TurnsExhausted, ToolLimit
<1> QED BY <1>3, <1>4, <1>5, <1>6, <1>7 DEF Model

LEMMA TimeoutKeeps ==
    ASSUME IInv, NEW q \in Questions, Timeout(q)
    PROVE  Good(run'[q], rows'[q], page'[q])
<1>1. TypeOK /\ run[q] \in RunType /\ Tools(run[q]) BY DEF IInv, Good, Typed
<1> DEFINE r == run[q]   t == run'[q]   lost == r.step = "tools" /\ Len(r.history) < MaxCalls
<1>2. t = [r EXCEPT !.step = "failing", !.error = "LIMIT_EXCEEDED", !.calls = 0,
                    !.abandoned = lost]
  BY <1>1 DEF Timeout, TypeOK, CallsLeft
<1>3. /\ "failing" \in Steps /\ "LIMIT_EXCEEDED" \in ErrorCodes \cup {"none"}
      /\ 0 \in 0..2 /\ lost \in BOOLEAN
  BY DEF Steps, ErrorCodes
<1>7. r.attempt # 0 BY DEF IInv, Good, Position, Timeout
<1>4. /\ t \in RunType /\ t.step = "failing" /\ t.error = "LIMIT_EXCEEDED"
      /\ t.history = r.history /\ t.attempt = r.attempt /\ t.abandoned = lost
  <2>1. r \in RunType BY <1>1
  <2> HIDE DEF r, t, lost
  <2> QED BY <1>2, <1>3, <2>1, RunFields DEF RunType
<1>5. Tools(t) BY <1>1, <1>4 DEF Tools
<1>6. run[q].step \in {"model", "tools"} /\ UNCHANGED <<rows, page>> BY DEF Timeout
<1> QED BY <1>4, <1>5, <1>6, <1>7, WorkKeeps

(* The history may grow at any later step, within the limit. *)
LEMMA AbandonedKeeps ==
    ASSUME IInv, NEW q \in Questions, AbandonedToolReturns(q)
    PROVE  Good(run'[q], rows'[q], page'[q])
<1>1. TypeOK /\ run[q] \in RunType /\ Good(run[q], rows[q], page[q]) BY DEF IInv, Good, Typed
<1> DEFINE r == run[q]   t == run'[q]   h == Append(r.history, r.attempt)
<1>2. t = [r EXCEPT !.history = h, !.abandoned = FALSE] /\ r.abandoned
  BY <1>1 DEF AbandonedToolReturns, TypeOK
<1>3. r.history \in Seq(1..2) /\ r.attempt \in 1..2 /\ Len(r.history) \in Nat
  BY <1>1, <1>2, RunFields DEF Good, Position
<1>4. h \in Seq(1..2) /\ Len(h) = Len(r.history) + 1 /\ h # <<>>
      /\ \A i \in DOMAIN h : h[i] = r.attempt
  <2>1. \A i \in DOMAIN r.history : r.history[i] = r.attempt BY <1>1 DEF Good, Tools
  <2>2. h \in Seq(1..2) /\ Len(h) = Len(r.history) + 1 BY <1>3
  <2>3. h # <<>> BY <1>3, <2>2
  <2> QED BY <1>3, <2>1, <2>2, <2>3
<1>5. /\ t \in RunType /\ t.history = h /\ ~t.abandoned
      /\ t.step = r.step /\ t.attempt = r.attempt /\ t.calls = r.calls /\ t.error = r.error
  <2>1. r \in RunType BY <1>1
  <2> HIDE DEF r, t, h
  <2> QED BY <1>2, <1>4, <2>1, RunFields DEF RunType
<1>6. Tools(t)
  <2> HIDE DEF h
  <2> QED BY <1>1, <1>2, <1>3, <1>4, <1>5 DEF Good, Tools
<1>7. UNCHANGED <<rows, page>> BY DEF AbandonedToolReturns
<1>8. Position(t, rows[q], page[q]) /\ Shown(t, rows[q], page[q])
  <2> HIDE DEF h
  <2> QED BY <1>1, <1>2, <1>4, <1>5 DEF Good, Position, Shown
<1> QED BY <1>1, <1>5, <1>6, <1>7, <1>8 DEF Good, Typed

-----------------------------------------------------------------------------
(* Storing: what a repository call can do to the row and the task. *)
LEMMA WritesFacts ==
    ASSUME TypeOK, NEW q \in Questions, NEW row \in RowType,
           NEW next \in Steps, NEW onError \in Steps, Writes(q, row, next, onError)
    PROVE  /\ run'[q] \in RunType
           /\ run'[q].history = run[q].history /\ run'[q].attempt = run[q].attempt
           /\ run'[q].abandoned = run[q].abandoned
           /\ \/ run'[q].step = next /\ rows'[q] = row
              \/ run'[q].step = onError /\ rows'[q] \in {rows[q], row}
           /\ rows'[q] # rows[q] => StatusResult(row)
           /\ run'[q].step = "failing" => next = "failing" \/ run'[q].error = "AI_UNAVAILABLE"
<1>1. run[q] \in RunType /\ rows \in [Questions -> RowType] BY DEF TypeOK
<1>2. CASE StatusResult(row) /\ rows' = [rows EXCEPT ![q] = row] /\ Goes(q, next)
  BY <1>1, <1>2, OnlyStep
<1>3. CASE /\ \/ UNCHANGED rows
              \/ StatusResult(row) /\ rows' = [rows EXCEPT ![q] = row]
           /\ run' = [run EXCEPT ![q].step = onError, ![q].failed = @ \cup {run[q].step},
                             ![q].error = IF onError = "failing"
                                          THEN "AI_UNAVAILABLE" ELSE @]
  <2> DEFINE r == run[q]   t == run'[q]
             e == IF onError = "failing" THEN "AI_UNAVAILABLE" ELSE r.error
             f == r.failed \cup {r.step}
  <2>1. t = [r EXCEPT !.step = onError, !.failed = f, !.error = e] BY <1>1, <1>3 DEF TypeOK
  <2>2. e \in ErrorCodes \cup {"none"} /\ f \in SUBSET Steps
    BY <1>1, RunFields DEF ErrorCodes
  <2>3. /\ t \in RunType /\ t.step = onError /\ t.history = r.history
        /\ t.attempt = r.attempt /\ t.abandoned = r.abandoned /\ t.error = e
    <3>1. r \in RunType BY <1>1
    <3> HIDE DEF r, t, e, f
    <3> QED BY <2>1, <2>2, <3>1, RunFields DEF RunType
  <2> QED BY <1>1, <1>3, <2>3
<1> QED BY <1>2, <1>3 DEF Writes

(* The row an answer is stored with. *)
Answered(answer) == [status |-> "SUCCEEDED", answer |-> answer, error |-> "none"]

LEMMA StoringKeeps ==
    ASSUME IInv, NEW q \in Questions, NEW answer, NEW stored,
           \/ answer = "model" /\ stored = "storedModel"
           \/ answer = "fallback" /\ stored = "storedFallback",
           NEW onError \in {"failing", "raised"},
           run[q].step \in {"candidate", "rebuilt"}, run[q].history # <<>>,
           Writes(q, Answered(answer), stored, onError), UNCHANGED page
    PROVE  Good(run'[q], rows'[q], page'[q])
<1>1. TypeOK /\ Good(run[q], rows[q], page[q]) BY DEF IInv
<1>2. Answered(answer) \in RowType /\ StatusResult(Answered(answer))
      /\ Answered(answer).status = "SUCCEEDED" /\ Answered(answer).answer = Display[stored]
  BY DEF Answered, RowType, StatusResult, Display
<1>3. stored \in Steps /\ onError \in Steps BY DEF Steps
<1> HIDE DEF Answered
<1>4. /\ run'[q] \in RunType
      /\ run'[q].history = run[q].history /\ run'[q].attempt = run[q].attempt
      /\ run'[q].abandoned = run[q].abandoned
      /\ \/ run'[q].step = stored /\ rows'[q] = Answered(answer)
         \/ run'[q].step = onError /\ rows'[q] \in {rows[q], Answered(answer)}
      /\ run'[q].step = "failing" => run'[q].error = "AI_UNAVAILABLE"
  BY <1>1, <1>2, <1>3, WritesFacts
<1>5. Typed(run'[q], rows'[q], page'[q]) BY <1>1, <1>2, <1>4 DEF Good, Typed
<1>6. Position(run'[q], rows'[q], page'[q])
  BY <1>1, <1>2, <1>4 DEF Good, Position
<1>7. Tools(run'[q]) BY <1>1, <1>4 DEF Good, Tools
<1>8. Shown(run'[q], rows'[q], page'[q])
  <2>1. page'[q] = "none" BY <1>1 DEF Good, Position
  <2> QED BY <2>1 DEF Shown
<1> QED BY <1>5, <1>6, <1>7, <1>8 DEF Good

LEMMA RecordFailureKeeps ==
    ASSUME IInv, NEW q \in Questions, RecordFailure(q)
    PROVE  Good(run'[q], rows'[q], page'[q])
<1>1. TypeOK /\ Good(run[q], rows[q], page[q]) /\ run[q].step = "failing"
      /\ UNCHANGED page
  BY DEF IInv, RecordFailure
<1> DEFINE row == [rows[q] EXCEPT !.status = "FAILED", !.error = run[q].error]
<1>2. row \in RowType /\ row.status = "FAILED" /\ row # NoRow
  <2>1. rows[q] \in RowType /\ run[q].error \in ErrorCodes \cup {"none"}
    BY <1>1, RunFields DEF Good, Typed
  <2> QED BY <2>1 DEF RowType, NoRow
<1>3. Writes(q, row, "raised", "raised") /\ "raised" \in Steps BY DEF RecordFailure, Steps
<1> HIDE DEF row
<1>4. /\ run'[q] \in RunType /\ run'[q].step = "raised"
      /\ run'[q].history = run[q].history /\ run'[q].attempt = run[q].attempt
      /\ run'[q].abandoned = run[q].abandoned
      /\ rows'[q] \in {rows[q], row} /\ (rows'[q] # rows[q] => StatusResult(row))
  BY <1>1, <1>2, <1>3, WritesFacts
<1>5. Typed(run'[q], rows'[q], page'[q]) BY <1>1, <1>2, <1>4 DEF Good, Typed
<1>6. Position(run'[q], rows'[q], page'[q]) BY <1>1, <1>2, <1>4 DEF Good, Position
<1>7. Tools(run'[q]) BY <1>1, <1>4 DEF Good, Tools
<1>8. Shown(run'[q], rows'[q], page'[q])
  <2>1. page'[q] = "none" BY <1>1 DEF Good, Position
  <2> QED BY <2>1 DEF Shown
<1> QED BY <1>5, <1>6, <1>7, <1>8 DEF Good

LEMMA ConcludeKeeps ==
    ASSUME IInv, NEW q \in Questions, Conclude(q)
    PROVE  Good(run'[q], rows'[q], page'[q])
<1>1. TypeOK /\ run[q] \in RunType /\ Good(run[q], rows[q], page[q]) BY DEF IInv, Good, Typed
(* The task fails, or goes on with the row as it is. *)
<1>2. ASSUME NEW e \in ErrorCodes, Fails(q, e), UNCHANGED <<rows, page>>,
             run[q].step \in {"candidate", "invalid"}
      PROVE  Good(run'[q], rows'[q], page'[q])
  <2>1. /\ run'[q] \in RunType /\ run'[q].step = "failing" /\ run'[q].error # "none"
        /\ run'[q].history = run[q].history /\ run'[q].attempt = run[q].attempt
        /\ run'[q].abandoned = run[q].abandoned
    BY <1>1, <1>2, OnlyError DEF ErrorCodes
  <2> QED BY <1>1, <1>2, <2>1 DEF Good, Typed, Position, Tools, Shown
<1>3. ASSUME NEW s \in {"invalid", "rebuilt"}, Goes(q, s), UNCHANGED <<rows, page>>,
             run[q].step \in {"candidate", "invalid"}, s = "rebuilt" => run[q].history # <<>>
      PROVE  Good(run'[q], rows'[q], page'[q])
  <2>1. s \in Steps BY DEF Steps
  <2>2. /\ run'[q] \in RunType /\ run'[q].step = s
        /\ run'[q].history = run[q].history /\ run'[q].attempt = run[q].attempt
        /\ run'[q].abandoned = run[q].abandoned
    BY <1>1, <1>3, <2>1, OnlyStep
  <2> QED BY <1>1, <1>3, <2>2 DEF Good, Typed, Position, Tools, Shown
<1> USE DEF ErrorCodes
<1>4. CASE Verify(q)
  <2>1. CASE MayBeVerified(q) /\ Writes(q, Answered("model"), "storedModel", "failing")
    <3>1. run[q].step = "candidate" /\ run[q].history # <<>> /\ UNCHANGED page
      BY <1>4, <2>1 DEF Verify, MayBeVerified
    <3> QED BY <2>1, <3>1, StoringKeeps
  <2>2. CASE UNCHANGED rows /\ Goes(q, "invalid") BY <1>3, <1>4, <2>2 DEF Verify
  <2>3. CASE UNCHANGED rows /\ Fails(q, "AI_UNAVAILABLE") BY <1>2, <1>4, <2>3 DEF Verify
  <2> QED BY <1>4, <2>1, <2>2, <2>3 DEF Verify, Answered
<1>5. CASE Rebuild(q) BY <1>2, <1>3, <1>5 DEF Rebuild, MayBeRebuilt
<1>6. CASE StoreRebuilt(q)
  <2>1. run[q].step = "rebuilt" /\ run[q].history # <<>> /\ UNCHANGED page
        /\ Writes(q, Answered("fallback"), "storedFallback", "raised")
    BY <1>1, <1>6 DEF StoreRebuilt, Good, Position, Answered
  <2> QED BY <2>1, StoringKeeps
<1>7. CASE RecordFailure(q) BY <1>7, RecordFailureKeeps
<1>8. CASE Show(q)
  <2>1. Goes(q, "ended") /\ "ended" \in Steps /\ run[q].step \in DOMAIN Display
        /\ rows' = rows /\ page'[q] = Display[run[q].step]
    BY <1>1, <1>8 DEF Show, Steps, TypeOK
  <2>2. \/ run[q].step = "storedModel" /\ page'[q] = "model"
        \/ run[q].step = "storedFallback" /\ page'[q] = "fallback"
        \/ run[q].step = "raised" /\ page'[q] = "unavailable"
    BY <2>1 DEF Display
  <2>3. /\ run'[q] \in RunType /\ run'[q].step = "ended"
        /\ run'[q].history = run[q].history /\ run'[q].attempt = run[q].attempt
        /\ run'[q].abandoned = run[q].abandoned
    BY <1>1, <2>1, OnlyStep
  <2>4. page'[q] \in {"model", "fallback"} =>
          rows[q].status = "SUCCEEDED" /\ rows[q].answer = page'[q] /\ run[q].history # <<>>
    BY <1>1, <2>1, <2>2 DEF Good, Position
  <2> QED BY <1>1, <2>1, <2>2, <2>3, <2>4 DEF Good, Typed, Position, Tools, Shown, Pages
<1> QED BY <1>4, <1>5, <1>6, <1>7, <1>8 DEF Conclude

-----------------------------------------------------------------------------
(* The invariant of every reachable state *)

LEMMA HandleKeeps == ASSUME IInv, NEW q \in Questions, Handle(q) PROVE IInv'
<1>1. Good(run'[q], rows'[q], page'[q])
  BY StartKeeps, ModelKeeps, TimeoutKeeps, AbandonedKeeps, ConcludeKeeps DEF Handle
<1>2. /\ run'  = [run  EXCEPT ![q] = run'[q]]
      /\ rows' = [rows EXCEPT ![q] = rows'[q]]
      /\ page' = [page EXCEPT ![q] = page'[q]]
      /\ TypeOK
  BY Locality DEF IInv
<1>3. \A p \in Questions : Good(run'[p], rows'[p], page'[p])
  BY <1>1, <1>2 DEF IInv, TypeOK
<1>4. /\ run' \in [Questions -> RunType] /\ rows' \in [Questions -> RowType]
      /\ page' \in [Questions -> Pages]
  BY <1>1, <1>2 DEF Good, Typed, TypeOK, Pages
<1> QED BY <1>3, <1>4 DEF IInv, TypeOK, Good, Typed, Pages

LEMMA CrashKeeps == ASSUME IInv, Crash PROVE IInv'
<1>1. ASSUME NEW q \in Questions PROVE Good(run'[q], rows'[q], page'[q])
  <2> DEFINE r == run[q]   t == run'[q]
  <2>1. r \in RunType /\ Good(r, rows[q], page[q]) /\ UNCHANGED <<rows, page>>
    BY DEF IInv, Good, Typed, Crash
  <2>2. t = IF r.step \in {"asked", "ended"} THEN [r EXCEPT !.abandoned = FALSE]
            ELSE [r EXCEPT !.step = "crashed", !.calls = 0, !.abandoned = FALSE]
    BY DEF Crash
  <2>3. "crashed" \in Steps /\ 0 \in 0..2 /\ FALSE \in BOOLEAN BY DEF Steps
  <2>4. /\ t \in RunType /\ t.history = r.history /\ t.attempt = r.attempt /\ ~t.abandoned
        /\ t.step = IF r.step \in {"asked", "ended"} THEN r.step ELSE "crashed"
    <3>1. r \in RunType BY <2>1
    <3> HIDE DEF r, t
    <3>2. CASE r.step \in {"asked", "ended"} BY <2>2, <3>1, <3>2, RunFields DEF RunType
    <3>3. CASE r.step \notin {"asked", "ended"}
      BY <2>2, <2>3, <3>1, <3>3, RunFields DEF RunType
    <3> QED BY <3>2, <3>3
  <2> QED BY <2>1, <2>4 DEF Good, Typed, Position, Tools, Shown
<1>2. run' \in [Questions -> RunType]
  <2>1. DOMAIN run' = Questions /\ run' = [q \in Questions |-> run'[q]] BY DEF Crash
  <2> QED BY <1>1, <2>1 DEF Good, Typed
<1> QED BY <1>1, <1>2 DEF IInv, TypeOK, Good, Typed, Crash

LEMMA Invariance == Spec => []IInv
<1>1. Init => IInv
  <2> SUFFICES ASSUME Init PROVE IInv OBVIOUS
  <2>1. FreshRun \in RunType
    BY DEF FreshRun, RunType, Steps, ErrorCodes
  <2>2. NoRow \in RowType BY DEF NoRow, RowType
  <2>3. Good(FreshRun, NoRow, "none")
    BY <2>1, <2>2 DEF Good, Typed, Position, Tools, Shown, FreshRun, Pages
  <2> QED BY <2>1, <2>2, <2>3 DEF Init, IInv, TypeOK
<1>2. IInv /\ [Next]_vars => IInv'
  <2> SUFFICES ASSUME IInv, [Next]_vars PROVE IInv' OBVIOUS
  <2>1. CASE UNCHANGED vars BY <2>1 DEF vars, IInv, TypeOK
  <2> QED BY <2>1, HandleKeeps, CrashKeeps DEF Next
<1> QED BY <1>1, <1>2, PTL DEF Spec

-----------------------------------------------------------------------------
(* The invariants that are checked *)

(* Rows satisfy their CHECK constraint and every field keeps its type. *)
THEOREM AgentTypes == Spec => []TypeOK
BY Invariance, PTL DEF IInv

(* The page shows a model or fallback answer only if the row holds it. *)
THEOREM AnswersAreRecorded == Spec => []ShownAnswerIsRecorded
<1>1. IInv => ShownAnswerIsRecorded BY DEF IInv, Good, Shown, ShownAnswerIsRecorded
<1> QED BY <1>1, Invariance, PTL

(* A retry never mixes its tool results with those of the first attempt. *)
THEOREM HistoriesAreNotMixed == Spec => []HistoryOfOneAttempt
<1>1. IInv => HistoryOfOneAttempt BY DEF IInv, Good, Tools, HistoryOfOneAttempt
<1> QED BY <1>1, Invariance, PTL

(* The limit of tool calls holds for the whole question. *)
THEOREM ToolsAreBounded == Spec => []ToolCallsBounded
<1>1. IInv => ToolCallsBounded BY DEF IInv, Good, Tools, ToolCallsBounded
<1> QED BY <1>1, Invariance, PTL

-----------------------------------------------------------------------------
(* A failure of storing the answer is recorded *)

(* A task that reached the model and whose calls all succeeded, but that of    *)
(* storing the verified answer, settled its row before it ended.              *)
Settled(r, row) ==
    /\ r.step = "asked" => r.attempt = 0
    /\ r.step \in {"raised", "ended"} /\ r.attempt > 0 /\ r.failed \subseteq {"candidate"} =>
         row.status # "RUNNING"

AllSettled == \A q \in Questions : Settled(run[q], rows[q])

SettledInv == IInv /\ AllSettled

LEMMA SettledKeeps ==
    ASSUME SettledInv, NEW q \in Questions, Handle(q)
    PROVE  Settled(run'[q], rows'[q])
<1> DEFINE r == run[q]   t == run'[q]
<1>1. TypeOK /\ r \in RunType /\ rows[q] \in RowType /\ Settled(r, rows[q])
      /\ Position(r, rows[q], page[q])
  BY DEF SettledInv, AllSettled, IInv, Good, Typed
<1>2. CASE AnswerLocally(q)
  <2>1. r.step = "asked" /\ t = [r EXCEPT !.step = "ended"]
    BY <1>1, <1>2 DEF AnswerLocally, Goes, TypeOK
  <2> QED BY <1>1, <2>1 DEF Settled, RunType
<1>3. CASE Start(q)
  <2>1. r.step = "asked" /\ \/ t = [r EXCEPT !.step = "model", !.attempt = 1]
                            \/ t = [r EXCEPT !.step = "raised", !.failed = @ \cup {r.step}]
    BY <1>1, <1>3 DEF Start, TypeOK
  <2> QED BY <1>1, <2>1 DEF Settled, RunType
<1>4. CASE Model(q) \/ Timeout(q)
  <2>1. t.step \in {"model", "tools", "candidate", "failing"}
    BY <1>1, <1>4 DEF Model, ModelCallsTools, ModelAnswers, TurnsExhausted, ModelErrs,
        ModelMisbehaves, ToolReturns, ToolLimit, Timeout, Goes, Fails, TypeOK, RunType
  <2> QED BY <2>1 DEF Settled
<1>5. CASE AbandonedToolReturns(q)
  <2>1. t = [r EXCEPT !.history = Append(@, r.attempt), !.abandoned = FALSE]
        /\ rows'[q] = rows[q]
    BY <1>1, <1>5 DEF AbandonedToolReturns, TypeOK
  <2>2. t.step = r.step /\ t.attempt = r.attempt /\ t.failed = r.failed
    BY <1>1, <2>1 DEF RunType
  <2> QED BY <1>1, <2>1, <2>2 DEF Settled
<1>6. CASE Verify(q) \/ Rebuild(q)
  <2>1. t.step \in {"storedModel", "invalid", "rebuilt", "failing"}
    BY <1>1, <1>6 DEF Verify, Rebuild, Writes, Goes, Fails, TypeOK, RunType
  <2> QED BY <2>1 DEF Settled
<1>7. CASE StoreRebuilt(q) \/ RecordFailure(q)
  <2>1. \/ t.step = "storedFallback"
        \/ t.step = "raised" /\ (rows'[q].status = "FAILED" \/ r.step \in t.failed)
    <3>1. ASSUME NEW row, NEW next, Writes(q, row, next, "raised")
          PROVE  \/ t.step = next /\ rows'[q] = row
                 \/ t.step = "raised" /\ r.step \in t.failed
      <4>1. \/ t = [r EXCEPT !.step = next] /\ rows'[q] = row
            \/ t = [r EXCEPT !.step = "raised", !.failed = @ \cup {r.step},
                             !.error = IF "raised" = "failing" THEN "AI_UNAVAILABLE" ELSE @]
        BY <1>1, <3>1 DEF Writes, Goes, TypeOK
      <4>2. r \in RunType BY <1>1
      <4> HIDE DEF r, t
      <4>3. CASE t = [r EXCEPT !.step = next] /\ rows'[q] = row
        BY <4>2, <4>3 DEF RunType
      <4>4. CASE t = [r EXCEPT !.step = "raised", !.failed = @ \cup {r.step},
                               !.error = IF "raised" = "failing" THEN "AI_UNAVAILABLE" ELSE @]
        <5>1. t.step = "raised" BY <4>2, <4>4 DEF RunType
        <5>2. t.failed = r.failed \cup {r.step} BY <4>2, <4>4 DEF RunType
        <5> QED BY <5>1, <5>2
      <4> QED BY <4>1, <4>3, <4>4
    <3>2. CASE StoreRebuilt(q) BY <3>1, <3>2 DEF StoreRebuilt
    <3>3. CASE RecordFailure(q)
      <4> DEFINE row == [rows[q] EXCEPT !.status = "FAILED", !.error = r.error]
      <4>1. row.status = "FAILED" BY <1>1 DEF RowType
      <4>2. Writes(q, row, "raised", "raised") BY <3>3 DEF RecordFailure
      <4> HIDE DEF row
      <4> QED BY <3>1, <4>1, <4>2
    <3> QED BY <1>7, <3>2, <3>3
  <2>2. r.step \in {"rebuilt", "failing"}
    BY <1>7 DEF StoreRebuilt, RecordFailure
  <2> QED BY <2>1, <2>2 DEF Settled
<1>8. CASE Show(q)
  <2>1. t = [r EXCEPT !.step = "ended"] /\ rows'[q] = rows[q]
        /\ r.step \in {"storedModel", "storedFallback", "raised"}
    BY <1>1, <1>8 DEF Show, Display, Goes, TypeOK
  <2>2. t.step = "ended" /\ t.attempt = r.attempt /\ t.failed = r.failed
    BY <1>1, <2>1 DEF RunType
  <2> QED BY <1>1, <2>1, <2>2 DEF Settled, Position
<1> QED BY <1>2, <1>3, <1>4, <1>5, <1>6, <1>7, <1>8 DEF Handle, Conclude

(* When storing the verified answer is all that fails, the question does not   *)
(* stay RUNNING: the last except clause of run records the failure.            *)
THEOREM FailuresOfStoringAreRecorded == Spec => []StoringFailureIsRecorded
<1> USE DEF AllSettled
<1>1. Init => AllSettled
  <2>1. Settled(FreshRun, NoRow) BY DEF FreshRun, Settled
  <2> QED BY <2>1 DEF Init
<1>2. SettledInv /\ [Next]_vars => AllSettled'
  <2>1. SUFFICES ASSUME SettledInv, [Next]_vars, NEW q \in Questions
                 PROVE  Settled(run'[q], rows'[q])
    OBVIOUS
  <2>2. CASE UNCHANGED vars BY <2>1, <2>2 DEF vars, SettledInv
  <2>3. CASE Crash
    <3>1. run'[q].step = run[q].step \/ run'[q].step = "crashed"
      BY <2>1, <2>3 DEF Crash, SettledInv, IInv, TypeOK, RunType
    <3>2. run'[q].attempt = run[q].attempt /\ run'[q].failed = run[q].failed /\ rows' = rows
      BY <2>1, <2>3 DEF Crash, SettledInv, IInv, TypeOK, RunType
    <3> QED BY <2>1, <3>1, <3>2 DEF Settled, SettledInv
  <2>4. ASSUME NEW p \in Questions, Handle(p) PROVE Settled(run'[q], rows'[q])
    <3>1. CASE p = q BY <2>1, <2>4, <3>1, SettledKeeps
    <3>2. CASE p # q
      <4>1. run'[q] = run[q] /\ rows'[q] = rows[q]
        BY <2>1, <2>4, <3>2, Locality DEF SettledInv, IInv, TypeOK
      <4> QED BY <2>1, <4>1 DEF SettledInv
    <3> QED BY <3>1, <3>2
  <2> QED BY <2>1, <2>2, <2>3, <2>4 DEF Next
<1>3. SettledInv => StoringFailureIsRecorded
  BY DEF SettledInv, Settled, StoringFailureIsRecorded, ConcludedFailingOnly
<1> HIDE DEF AllSettled
<1>4. Spec => []SettledInv
  BY <1>1, <1>2, Invariance, PTL DEF Spec, SettledInv
<1> QED BY <1>3, <1>4, PTL

-----------------------------------------------------------------------------
(* The rows and pages follow AIRequestSpec *)

StatusOf == [q \in Questions |-> rows[q].status]
PageOf == [q \in Questions |-> IF page[q] \in {"model", "fallback"}
                               THEN "answer" ELSE page[q]]

(* What one step of a question does to its status and its page. *)
LEMMA StepOfQuestion ==
    ASSUME IInv, NEW q \in Questions, Handle(q)
    PROVE  \/ UNCHANGED <<rows, page>>
           \/ /\ rows[q].status = "ABSENT" /\ page[q] = "none"
              /\ \/ rows' = rows /\ page' = [page EXCEPT ![q] = "fixed"]
                 \/ page' = page /\ rows'[q].status = "RUNNING"
           \/ /\ rows[q].status = "RUNNING" /\ page[q] = "none" /\ page' = page
              /\ rows'[q].status \in {"RUNNING", "SUCCEEDED", "FAILED"}
           \/ /\ rows[q].status = "SUCCEEDED" /\ page[q] = "none" /\ rows' = rows
              /\ page'[q] \in {"model", "fallback"}
           \/ page[q] = "none" /\ rows' = rows /\ page'[q] = "unavailable"
<1>1. TypeOK /\ Good(run[q], rows[q], page[q]) BY DEF IInv
<1>2. CASE AnswerLocally(q) BY <1>1, <1>2 DEF AnswerLocally, Good, Position, NoRow
<1>3. CASE Start(q)
  <2>1. rows[q] = NoRow /\ page[q] = "none" /\ UNCHANGED page
    BY <1>1, <1>3 DEF Start, Good, Position
  <2>2. rows' \in {rows, [rows EXCEPT ![q] = [NoRow EXCEPT !.status = "RUNNING"]]}
    BY <1>3 DEF Start
  <2> QED BY <1>1, <2>1, <2>2 DEF NoRow, TypeOK
<1>4. Model(q) \/ Timeout(q) \/ AbandonedToolReturns(q) => UNCHANGED <<rows, page>>
  BY DEF Model, ModelCallsTools, ModelAnswers, TurnsExhausted, ModelErrs, ModelMisbehaves,
         ToolReturns, ToolLimit, Timeout, AbandonedToolReturns
<1>5. CASE Verify(q) \/ StoreRebuilt(q)
  <2>1. rows[q].status = "RUNNING" /\ page[q] = "none" /\ UNCHANGED page
    BY <1>1, <1>5 DEF Verify, StoreRebuilt, Good, Position
  <2>2. rows' = rows \/ \E a \in {"model", "fallback"} :
                          rows' = [rows EXCEPT ![q] = Answered(a)]
    BY <1>5 DEF Verify, StoreRebuilt, Writes, Answered
  <2>3. rows'[q].status \in {"RUNNING", "SUCCEEDED"}
    BY <1>1, <2>1, <2>2 DEF TypeOK, Answered
  <2> QED BY <2>1, <2>3
<1>6. CASE Rebuild(q) BY <1>6 DEF Rebuild
<1>7. CASE RecordFailure(q)
  <2> DEFINE row == [rows[q] EXCEPT !.status = "FAILED", !.error = run[q].error]
  <2>1. /\ rows[q].status \in {"RUNNING", "SUCCEEDED"} /\ page[q] = "none" /\ UNCHANGED page
        /\ rows[q] \in RowType /\ StatusResult(rows[q])
    BY <1>1, <1>7 DEF RecordFailure, Good, Typed, Position, NoRow
  <2>2. rows' = rows \/ (StatusResult(row) /\ rows' = [rows EXCEPT ![q] = row])
    BY <1>7 DEF RecordFailure, Writes
  <2>3. row.status = "FAILED" /\ row.answer = rows[q].answer BY <2>1 DEF RowType
  <2>4. CASE rows' = rows BY <2>1, <2>4
  <2>5. CASE StatusResult(row) /\ rows' = [rows EXCEPT ![q] = row]
    <3>1. rows[q].status = "RUNNING" BY <2>1, <2>3, <2>5 DEF StatusResult
    <3>2. rows'[q] = row BY <1>1, <2>5 DEF TypeOK
    <3> QED BY <2>1, <2>3, <3>1, <3>2
  <2> QED BY <2>2, <2>4, <2>5
<1>8. CASE Show(q)
  <2>1. /\ run[q].step \in DOMAIN Display /\ page'[q] = Display[run[q].step]
        /\ UNCHANGED rows /\ page[q] = "none"
    BY <1>1, <1>8 DEF Show, TypeOK, Good, Position, Display
  <2>2. \/ page'[q] \in {"model", "fallback"} /\ rows[q].status = "SUCCEEDED"
        \/ page'[q] = "unavailable"
    BY <1>1, <2>1 DEF Good, Position, Display
  <2> QED BY <2>1, <2>2
<1> QED BY <1>2, <1>3, <1>4, <1>5, <1>6, <1>7, <1>8 DEF Handle, Conclude

(* Every behaviour of the service is one of the lifecycle it promises. *)
THEOREM AgentImplementsLifecycle == Spec => RowsFollowLifecycle
<1>1. Init => Lifecycle!SpecInit BY DEF Init, Lifecycle!SpecInit, NoRow
<1>2. IInv /\ [Next]_vars => [Lifecycle!SpecNext]_(Lifecycle!specVars)
  <2> SUFFICES ASSUME IInv, [Next]_vars
               PROVE  [Lifecycle!SpecNext]_(Lifecycle!specVars)
    OBVIOUS
  <2> USE DEF Lifecycle!specVars
  <2>1. CASE UNCHANGED <<rows, page>> BY <2>1
  <2>2. ASSUME NEW q \in Questions, Handle(q), ~UNCHANGED <<rows, page>>
        PROVE  Lifecycle!SpecNext \/ UNCHANGED <<StatusOf, PageOf>>
    <3>1. /\ rows' = [rows EXCEPT ![q] = rows'[q]]
          /\ page' = [page EXCEPT ![q] = page'[q]]
          /\ rows \in [Questions -> RowType] /\ page \in [Questions -> Pages]
      BY <2>2, Locality DEF IInv, TypeOK, Pages
    <3>2. /\ StatusOf' = [StatusOf EXCEPT ![q] = rows'[q].status]
          /\ PageOf' = [PageOf EXCEPT ![q] = IF page'[q] \in {"model", "fallback"}
                                             THEN "answer" ELSE page'[q]]
          /\ StatusOf[q] = rows[q].status
          /\ page[q] = "none" => PageOf[q] = "none"
          /\ page' = page => PageOf' = PageOf
          /\ rows' = rows => StatusOf' = StatusOf
      BY <3>1 DEF StatusOf, PageOf
    <3> DEFINE St == StatusOf   Pg == PageOf
    <3>3. \/ /\ St[q] = "ABSENT" /\ Pg[q] = "none"
             /\ \/ St' = St /\ Pg' = [Pg EXCEPT ![q] = "fixed"]
                \/ Pg' = Pg /\ St' = [St EXCEPT ![q] = "RUNNING"]
          \/ /\ St[q] = "RUNNING" /\ Pg[q] = "none" /\ Pg' = Pg
             /\ \/ St' = St
                \/ \E terminal \in {"SUCCEEDED", "FAILED"} : St' = [St EXCEPT ![q] = terminal]
          \/ /\ St[q] = "SUCCEEDED" /\ Pg[q] = "none" /\ St' = St
             /\ Pg' = [Pg EXCEPT ![q] = "answer"]
          \/ Pg[q] = "none" /\ St' = St /\ Pg' = [Pg EXCEPT ![q] = "unavailable"]
      <4>1. St \in [Questions -> {"ABSENT", "RUNNING", "SUCCEEDED", "FAILED"}]
        BY <3>1 DEF RowType, StatusOf
      <4> HIDE DEF St, Pg
      <4> QED BY <2>2, <3>1, <3>2, <4>1, StepOfQuestion DEF St, Pg
    <3>4. \/ Lifecycle!AnswerFixed(q) \/ Lifecycle!Begin(q) \/ Lifecycle!End(q)
          \/ Lifecycle!ShowAnswer(q) \/ Lifecycle!ShowUnavailable(q)
          \/ UNCHANGED <<StatusOf, PageOf>>
      BY <3>3 DEF Lifecycle!AnswerFixed, Lifecycle!Begin, Lifecycle!End,
                  Lifecycle!ShowAnswer, Lifecycle!ShowUnavailable, StatusOf, PageOf
    <3> QED BY <3>4 DEF Lifecycle!SpecNext
  <2> QED BY <2>1, <2>2 DEF Next, vars, Crash, StatusOf, PageOf
<1> QED BY <1>1, <1>2, Invariance, PTL DEF Spec, RowsFollowLifecycle, Lifecycle!Spec
=============================================================================

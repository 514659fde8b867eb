--------------------------- MODULE AIRequestSpec ---------------------------
(***************************************************************************)
(* What the question interface promises about the rows of app.ai_requests  *)
(* and the page a user gets: a row is created RUNNING and ends once, in    *)
(* SUCCEEDED or FAILED; a model answer reaches the page only when the row  *)
(* already holds it; whatever else happens the page says "unavailable".    *)
(***************************************************************************)
CONSTANT Questions       \* the questions asked, each its own HTTP request

VARIABLES status,        \* status[q]: "ABSENT" or the status column of q's row
          page           \* page[q]: what q's user was shown

specVars == <<status, page>>

SpecInit == /\ status = [q \in Questions |-> "ABSENT"]
            /\ page   = [q \in Questions |-> "none"]

(* A fixed answer, without a row. *)
AnswerFixed(q) == /\ status[q] = "ABSENT" /\ page[q] = "none"
                  /\ page' = [page EXCEPT ![q] = "fixed"]
                  /\ UNCHANGED status

Begin(q) == /\ status[q] = "ABSENT" /\ page[q] = "none"
            /\ status' = [status EXCEPT ![q] = "RUNNING"]
            /\ UNCHANGED page

End(q) == /\ status[q] = "RUNNING" /\ page[q] = "none"
          /\ \E terminal \in {"SUCCEEDED", "FAILED"} :
               status' = [status EXCEPT ![q] = terminal]
          /\ UNCHANGED page

ShowAnswer(q) == /\ status[q] = "SUCCEEDED" /\ page[q] = "none"
                 /\ page' = [page EXCEPT ![q] = "answer"]
                 /\ UNCHANGED status

ShowUnavailable(q) == /\ page[q] = "none"
                      /\ page' = [page EXCEPT ![q] = "unavailable"]
                      /\ UNCHANGED status

SpecNext == \E q \in Questions : \/ AnswerFixed(q) \/ Begin(q) \/ End(q)
                                 \/ ShowAnswer(q) \/ ShowUnavailable(q)

Spec == SpecInit /\ [][SpecNext]_specVars
=============================================================================

---------------------------- MODULE WebSessions ----------------------------
(***************************************************************************)
(* SessionManager and the handlers of the question page that use it.  The   *)
(* handlers run on one event loop and let others run while they read a form  *)
(* and while the agent answers; what they found before, they use afterwards. *)
(* One browser with several tabs has the pages it was shown and one cookie.  *)
(***************************************************************************)
EXTENDS Naturals, Sequences, FiniteSets, Functions

CONSTANTS Requests,      \* the requests in flight at once
          Idle, Absolute, FormLife, MaxForms,
          MaxTime, MaxLogins, MaxTokens     \* bounds of the runs

ASSUME SessionAssumption ==
    /\ {Idle, Absolute, FormLife, MaxForms} \subseteq Nat \ {0} /\ Idle < Absolute
    /\ {MaxTime, MaxLogins, MaxTokens} \subseteq Nat

VARIABLES now,
          logins,            \* the sessions created so far are 1..logins
          session,           \* session[s]: the WebSession object, kept by who has it;
                             \* its form_tokens, in order of issue, are a set of numbers
          store,             \* _sessions: the sessions it holds
          issued,            \* the form tokens: whose, and when issued
          shown,             \* tokens on pages the browser shows
          cookie,            \* the browser's session cookie
          request,           \* the handlers under way
          asked              \* observation: the tokens the agent was asked with

vars == <<now, logins, session, store, issued, shown, cookie, request, asked>>

None == 0
Sessions == 1..MaxLogins
Tokens == 1..MaxTokens
Free == [step |-> "none", session |-> None, token |-> None]

Init == /\ now = 0 /\ logins = 0 /\ store = {} /\ issued = <<>> /\ shown = {}
        /\ session = [s \in Sessions |-> [created |-> 0, seen |-> 0, forms |-> {}]]
        /\ cookie = None /\ request = [r \in Requests |-> Free]
        /\ asked = <<>>

-----------------------------------------------------------------------------
(* SessionManager *)

(* create: the WebSession it makes, and the store after *)
NewSession == [created |-> now, seen |-> now, forms |-> {}]
Created(s, old) == (store \ {old}) \cup {s}

IsLive(s) == /\ s \in store
             /\ now - session[s].seen < Idle /\ now - session[s].created < Absolute

(* get: an expired session is removed *)
Touched(s) == [session EXCEPT ![s].seen = now]
Dropped(s) == IF IsLive(s) THEN store ELSE store \ {s}

Revoked(s) == store \ {s}

IsFresh(t) == now - issued[t].at < FormLife
Unexpired(forms) == {t \in forms : IsFresh(t)}

\* Mutated form of Newest: the newest forms are given up.
NewestFirst(forms) == {t \in forms : Cardinality({u \in forms : u < t}) < MaxForms}

Newest(forms) == {t \in forms : Cardinality({u \in forms : u > t}) < MaxForms}

(* issue_form_token *)
IssueInto(s, forms) ==
    /\ Len(issued) < MaxTokens
    /\ issued' = Append(issued, [session |-> s, at |-> now])
    /\ session' = [session EXCEPT ![s].forms = Newest(forms \cup {Len(issued) + 1})]

\* Mutated form of Consumed: the token stays in the session.
ConsumedNever(forms, t) == forms

(* consume_form_token *)
Consumed(forms, t) == forms \ {t}

-----------------------------------------------------------------------------
(* The handlers *)

LoginPage ==
    /\ cookie # None
    /\ session' = IF IsLive(cookie) THEN Touched(cookie) ELSE session
    /\ store' = Dropped(cookie)
    /\ UNCHANGED <<now, logins, issued, shown, cookie, request, asked>>

(* The cookie of the request is the one the browser had when it was sent. *)
LoginArrives(r) ==
    /\ request[r] = Free
    /\ request' = [request EXCEPT ![r] = [Free EXCEPT !.step = "login", !.session = cookie]]
    /\ UNCHANGED <<now, logins, session, store, issued, shown, cookie, asked>>

(* create, once the form is read and the password right *)
LoginSucceeds(r) ==
    /\ request[r].step = "login" /\ logins < MaxLogins
    /\ logins' = logins + 1
    /\ session' = [session EXCEPT ![logins + 1] = NewSession]
    /\ store' = Created(logins + 1, request[r].session)
    /\ cookie' = logins + 1
    /\ request' = [request EXCEPT ![r] = Free]
    /\ UNCHANGED <<now, issued, shown, asked>>

LoginFails(r) ==
    /\ request[r].step = "login" /\ request' = [request EXCEPT ![r] = Free]
    /\ UNCHANGED <<now, logins, session, store, issued, shown, cookie, asked>>

AgentPage ==
    /\ cookie # None /\ IsLive(cookie)
    /\ Len(issued) < MaxTokens
    /\ issued' = Append(issued, [session |-> cookie, at |-> now])
    /\ session' = [session EXCEPT
         ![cookie].seen = now,
         ![cookie].forms = Newest(Unexpired(@) \cup {Len(issued) + 1})]
    /\ shown' = shown \cup {Len(issued) + 1}
    /\ UNCHANGED <<now, logins, store, cookie, request, asked>>

AgentPageExpired ==
    /\ cookie # None /\ ~IsLive(cookie)
    /\ store' = Dropped(cookie) /\ cookie' = None
    /\ UNCHANGED <<now, logins, session, issued, shown, request, asked>>

AskArrives(r, t) ==
    /\ request[r] = Free /\ cookie # None
    /\ IF IsLive(cookie)
       THEN /\ session' = Touched(cookie)
            /\ request' = [request EXCEPT ![r] = [step |-> "reading", session |-> cookie,
                                                  token |-> t]]
       ELSE UNCHANGED <<session, request>>
    /\ store' = Dropped(cookie)
    /\ UNCHANGED <<now, logins, issued, shown, cookie, asked>>

(* The form's CSRF token is that of the session whose page it is from. *)
CsrfMatches(r) == issued[request[r].token].session = request[r].session

(* What is checked once the form is read; whether the session is still in the  *)
(* store is not.                                                               *)
MayAsk(r) ==
    /\ request[r].step = "reading" /\ CsrfMatches(r)
    /\ request[r].token \in Unexpired(session[request[r].session].forms)

AskRead(r) ==
    LET s == request[r].session
        t == request[r].token
        forms == Unexpired(session[s].forms)
    IN  /\ MayAsk(r)
        /\ IssueInto(s, Consumed(forms, t))
        /\ asked' = Append(asked, t)
        /\ request' = [request EXCEPT ![r].step = "asking", ![r].token = Len(issued) + 1]
        /\ UNCHANGED <<now, logins, store, shown, cookie>>

(* 400, 403, or 409 after the expired forms were dropped *)
AskRejected(r) ==
    /\ request[r].step = "reading"
    /\ \/ UNCHANGED session
       \/ /\ CsrfMatches(r)
          /\ request[r].token \notin Unexpired(session[request[r].session].forms)
          /\ session' = [session EXCEPT ![request[r].session].forms = Unexpired(@)]
    /\ request' = [request EXCEPT ![r] = Free]
    /\ UNCHANGED <<now, logins, store, issued, shown, cookie, asked>>

(* The answer, or that there is none, on a page with the next form *)
AskAnswered(r) ==
    /\ request[r].step = "asking"
    /\ shown' = shown \cup {request[r].token}
    /\ request' = [request EXCEPT ![r] = Free]
    /\ UNCHANGED <<now, logins, session, store, issued, cookie, asked>>

(* without touching the session *)
LogoutArrives(r, t) ==
    /\ request[r] = Free /\ cookie # None
    /\ request' = IF IsLive(cookie)
                  THEN [request EXCEPT ![r] = [step |-> "logout", session |-> cookie, token |-> t]]
                  ELSE request
    /\ store' = Dropped(cookie)
    /\ UNCHANGED <<now, logins, session, issued, shown, cookie, asked>>

LogoutRead(r) ==
    /\ request[r].step = "logout"
    /\ IF CsrfMatches(r)
       THEN /\ store' = Revoked(request[r].session) /\ cookie' = None
       ELSE UNCHANGED <<store, cookie>>
    /\ request' = [request EXCEPT ![r] = Free]
    /\ UNCHANGED <<now, logins, session, issued, shown, asked>>

Restart == /\ store' = {} /\ request' = [r \in Requests |-> Free]
           /\ UNCHANGED <<now, logins, session, issued, shown, cookie, asked>>

Tick == /\ now < MaxTime /\ now' = now + 1
        /\ UNCHANGED <<logins, session, store, issued, shown, cookie, request, asked>>

Next == \/ Tick \/ Restart \/ LoginPage \/ AgentPage \/ AgentPageExpired
        \/ \E r \in Requests :
             \/ LoginArrives(r) \/ LoginSucceeds(r) \/ LoginFails(r)
             \/ AskRead(r) \/ AskRejected(r) \/ AskAnswered(r) \/ LogoutRead(r)
             \/ \E t \in shown : AskArrives(r, t) \/ LogoutArrives(r, t)

Spec == Init /\ [][Next]_vars

-----------------------------------------------------------------------------
(* Properties *)

(* docs/detailed-design/ui-grafana.md: a form asks the agent at most once,      *)
(* however often and in however many overlapping requests it is sent           *)
(* (consume_form_token before the agent is called).                            *)
OneQuestionPerForm == IsInjective(asked)

(* A session has at most MaxForms open forms, and its MaxForms newest work as   *)
(* long as they are not used and not expired, those given out by requests that *)
(* still wait for the agent included: no other tab closes them                 *)
(* (issue_form_token).                                                         *)
IssuedTo(s) == {t \in DOMAIN issued : issued[t].session = s}
NewestFormsWork ==
    \A s \in Sessions :
        /\ Cardinality(session[s].forms) <= MaxForms
        /\ \A t \in IssuedTo(s) :
             \/ t \in Range(asked) \/ ~IsFresh(t) \/ t \in session[s].forms
             \/ Cardinality({u \in IssuedTo(s) : u > t}) >= MaxForms

(* docs/detailed-design/ui-grafana.md:164: a session that was logged out is not *)
(* used again, so a question asks the agent only if its session is still there *)
(* once its form is read.  The code does not keep this: ask_question does not  *)
(* look again, so a question that arrived before the logout is asked.          *)
AskedInSession == \A r \in Requests : MayAsk(r) => request[r].session \in store

(* A session that was logged out, replaced, lost or found expired never comes   *)
(* back, also when requests that found it earlier are still under way.         *)
NoRevival == [][\A s \in 1..logins : s \notin store => s \notin store']_vars
=============================================================================

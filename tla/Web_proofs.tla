----------------------------- MODULE Web_proofs -----------------------------
(***************************************************************************)
(* The web layer, for any number of requests, sessions, forms, addresses    *)
(* and users: what SessionManager promises of forms and of ended sessions,   *)
(* and that the bookkeeping of LoginRateLimiter is that of the whole history. *)
(***************************************************************************)
EXTENDS WebSessions, LoginAttempts, FiniteSetTheorems, SequenceTheorems, TLAPS

-----------------------------------------------------------------------------
(* Sets of numbers by their size *)

(* The numbers from one to n are n. *)
LEMMA CountTo ==
    ASSUME NEW n \in Nat
    PROVE  IsFiniteSet(1..n) /\ Cardinality(1..n) = n
<1>1. 1 \in Int /\ n \in Int
  OBVIOUS
<1>2. IsFiniteSet(1..n) /\ Cardinality(1..n) = IF 1 > n THEN 0 ELSE n - 1 + 1
  BY <1>1, FS_Interval
<1>3. (IF 1 > n THEN 0 ELSE n - 1 + 1) = n
  OBVIOUS
<1> QED BY <1>2, <1>3

(* A finite set has more elements above a smaller element. *)
LEMMA FewerAbove ==
    ASSUME NEW S \in SUBSET Nat, IsFiniteSet(S), NEW t \in S, NEW u \in S, t < u
    PROVE  LET above(x) == {y \in S : y > x}
           IN  /\ IsFiniteSet(above(t)) /\ IsFiniteSet(above(u))
               /\ Cardinality(above(u)) \in Nat /\ Cardinality(above(t)) \in Nat
               /\ Cardinality(above(u)) < Cardinality(above(t))
<1> DEFINE above(x) == {y \in S : y > x}
<1>1. IsFiniteSet(above(t)) /\ IsFiniteSet(above(u))
  BY FS_Subset
<1>2. Cardinality(above(u)) \in Nat /\ Cardinality(above(t)) \in Nat
  BY <1>1, FS_CardinalityType
<1>3. above(u) \cup {u} \subseteq above(t) /\ u \notin above(u)
  <2>1. t \in Nat /\ u \in Nat /\ \A y \in S : y \in Nat
    OBVIOUS
  <2>2. \A y \in S : y > u => y > t
    BY <2>1
  <2>3. ~(u > u) /\ u > t
    BY <2>1
  <2> QED BY <2>2, <2>3
<1>4. Cardinality(above(u) \cup {u}) = Cardinality(above(u)) + 1
  BY <1>1, <1>3, FS_AddElement
<1>5. Cardinality(above(u) \cup {u}) <= Cardinality(above(t))
  BY <1>1, <1>3, FS_Subset
<1> HIDE DEF above
<1>6. Cardinality(above(u)) < Cardinality(above(t))
  BY <1>2, <1>4, <1>5
<1> QED BY <1>1, <1>2, <1>6 DEF above

(* Newest keeps at most MaxForms, and gives up only what has MaxForms above it. *)
LEMMA NewestFacts ==
    ASSUME NEW S \in SUBSET Nat, IsFiniteSet(S)
    PROVE  /\ Newest(S) \subseteq S
           /\ Cardinality(Newest(S)) <= MaxForms
           /\ \A t \in S \ Newest(S) : Cardinality({u \in S : u > t}) >= MaxForms
<1> DEFINE above(x) == {y \in S : y > x}   N == Newest(S)
<1>1. MaxForms \in Nat \ {0}
  BY SessionAssumption
<1>2. \A t \in S : IsFiniteSet(above(t)) /\ Cardinality(above(t)) \in Nat
  BY FS_Subset, FS_CardinalityType
<1>3. N \subseteq S /\ \A t \in S : t \in N <=> Cardinality(above(t)) < MaxForms
  BY DEF Newest
<1>4. \A t \in S \ N : Cardinality(above(t)) >= MaxForms
  <2> HIDE DEF above
  <2> QED BY <1>1, <1>2, <1>3
<1>5. Cardinality(N) <= MaxForms
  <2> DEFINE f == [t \in N |-> Cardinality(above(t))]
  <2>1. f \in [N -> 0..(MaxForms - 1)]
    <3> HIDE DEF above, N
    <3> QED BY <1>1, <1>2, <1>3
  <2>2. ASSUME NEW t \in N, NEW u \in N, t # u
        PROVE  f[t] # f[u]
    <3>1. t \in S /\ u \in S /\ t \in Nat /\ u \in Nat
      BY <1>3
    <3>2. CASE t < u BY <1>2, <3>1, <3>2, FewerAbove
    <3>3. CASE u < t BY <1>2, <3>1, <3>3, FewerAbove
    <3> QED BY <2>2, <3>1, <3>2, <3>3
  <2> HIDE DEF f
  <2>3. f \in Injection(N, 0..(MaxForms - 1))
    BY <2>1, <2>2 DEF Injection, IsInjective
  <2>4. IsFiniteSet(0..(MaxForms - 1)) /\ Cardinality(0..(MaxForms - 1)) = MaxForms
    BY <1>1, FS_Interval
  <2> QED BY <2>3, <2>4, FS_Injection
<1> QED BY <1>3, <1>4, <1>5

-----------------------------------------------------------------------------
(* Sessions and forms: the inductive invariant *)

Issue == [session : Nat, at : Nat]
SessionType == [created : Nat, seen : Nat, forms : SUBSET Nat]
HandlerSteps == {"none", "login", "reading", "asking", "logout"}
RequestType == [step : HandlerSteps, session : Nat, token : Nat]

(* A handler under way, with one of the first n sessions if it was live. *)
UnderWay(q, n) ==
    /\ q \in RequestType /\ q.session <= n
    /\ q.step \in {"reading", "asking", "logout"} => q.session # None

SessionTypes ==
    /\ now \in Nat /\ logins \in 0..MaxLogins /\ cookie \in 0..logins
    /\ issued \in Seq(Issue)
    /\ \A t \in DOMAIN issued : issued[t].session \in 1..logins
    /\ session \in [Sessions -> SessionType]
    /\ request \in [Requests -> RequestType]
    /\ \A r \in Requests : UnderWay(request[r], logins)
    /\ asked \in Seq(Nat) /\ shown \subseteq Nat

(* A form was asked with, is too old, is open, or has MaxForms newer ones. *)
Accounted(s, t) ==
    \/ t \in Range(asked) \/ ~IsFresh(t) \/ t \in session[s].forms
    \/ Cardinality({u \in IssuedTo(s) : u > t}) >= MaxForms

FormsAreKept ==
    \A s \in Sessions :
        /\ session[s].forms \subseteq IssuedTo(s)
        /\ Cardinality(session[s].forms) <= MaxForms
        /\ \A t \in IssuedTo(s) : Accounted(s, t)

(* A form the agent was asked with is open nowhere. *)
AskedAreClosed ==
    /\ IsInjective(asked)
    /\ \A i \in DOMAIN asked : /\ asked[i] \in DOMAIN issued
                              /\ \A s \in Sessions : asked[i] \notin session[s].forms

WebInv == SessionTypes /\ FormsAreKept /\ AskedAreClosed

-----------------------------------------------------------------------------
(* What a step does to the forms *)

(* Nothing is issued or asked; at most expired forms are closed. *)
NothingIssued ==
    /\ issued' = issued /\ asked' = asked /\ now' \in Nat /\ now <= now'
    /\ \A s \in Sessions :
         /\ session'[s].forms \subseteq session[s].forms
         /\ \A t \in session[s].forms : IsFresh(t) => t \in session'[s].forms

(* A form is issued to s; the expired ones are closed, and those asked with. *)
IssuedOneTo(s, closed) ==
    /\ issued' = Append(issued, [session |-> s, at |-> now]) /\ now' = now
    /\ session'[s].forms =
         Newest((Unexpired(session[s].forms) \ closed) \cup {Len(issued) + 1})
    /\ \A p \in Sessions \ {s} : session'[p].forms = session[p].forms

LEMMA IssuedFacts ==
    ASSUME SessionTypes
    PROVE  /\ DOMAIN issued = 1..Len(issued) /\ Len(issued) \in Nat
           /\ \A t \in DOMAIN issued : issued[t].at \in Nat
           /\ \A s : IssuedTo(s) \in SUBSET Nat /\ IsFiniteSet(IssuedTo(s))
           /\ FormLife \in Nat /\ MaxForms \in Nat \ {0} /\ now \in Nat
<1>1. issued \in Seq(Issue)
  BY DEF SessionTypes
<1>2. /\ DOMAIN issued = 1..Len(issued) /\ Len(issued) \in Nat
      /\ \A t \in DOMAIN issued : issued[t].at \in Nat
  <2>1. /\ DOMAIN issued = 1..Len(issued) /\ Len(issued) \in Nat
        /\ \A t \in DOMAIN issued : issued[t] \in Issue
    BY <1>1
  <2>2. \A x \in Issue : x.at \in Nat
    BY DEF Issue
  <2> QED BY <2>1, <2>2
<1>3. ASSUME NEW s
      PROVE  IssuedTo(s) \in SUBSET Nat /\ IsFiniteSet(IssuedTo(s))
  <2>1. IssuedTo(s) \subseteq 1..Len(issued)
    BY <1>2 DEF IssuedTo
  <2>2. IsFiniteSet(1..Len(issued))
    BY <1>2, FS_Interval
  <2>3. IsFiniteSet(IssuedTo(s))
    BY <2>1, <2>2, FS_Subset
  <2> QED BY <2>1, <2>3
<1>4. FormLife \in Nat /\ MaxForms \in Nat \ {0} /\ now \in Nat
  BY SessionAssumption DEF SessionTypes
<1> QED BY <1>2, <1>3, <1>4

LEMMA NothingIssuedKeeps ==
    ASSUME WebInv, NothingIssued
    PROVE  FormsAreKept' /\ AskedAreClosed'
<1>1. issued' = issued /\ asked' = asked /\ now' \in Nat /\ now <= now' /\ SessionTypes
  BY DEF NothingIssued, WebInv
<1>2. \A t \in DOMAIN issued : ~IsFresh(t) => ~IsFresh(t)'
  BY <1>1, IssuedFacts DEF IsFresh
<1>3. \A s : IssuedTo(s)' = IssuedTo(s)
  BY <1>1 DEF IssuedTo
<1>4. ASSUME NEW s \in Sessions
      PROVE  /\ session'[s].forms \subseteq IssuedTo(s)
             /\ Cardinality(session'[s].forms) <= MaxForms
             /\ \A t \in IssuedTo(s) : Accounted(s, t)'
  <2>1. /\ session[s].forms \subseteq IssuedTo(s) /\ Cardinality(session[s].forms) <= MaxForms
        /\ \A t \in IssuedTo(s) : Accounted(s, t)
    BY DEF WebInv, FormsAreKept
  <2>2. /\ session'[s].forms \subseteq session[s].forms
        /\ \A t \in session[s].forms : IsFresh(t) => t \in session'[s].forms
    BY DEF NothingIssued
  <2>3. IsFiniteSet(session[s].forms)
    BY <1>1, <2>1, IssuedFacts, FS_Subset
  <2>4. /\ Cardinality(session'[s].forms) <= Cardinality(session[s].forms)
        /\ Cardinality(session'[s].forms) \in Nat /\ Cardinality(session[s].forms) \in Nat
    BY <2>2, <2>3, FS_Subset, FS_CardinalityType
  <2>5. Cardinality(session'[s].forms) <= MaxForms
    BY <1>1, <2>1, <2>4, IssuedFacts
  <2>6. ASSUME NEW t \in IssuedTo(s) PROVE Accounted(s, t)'
    <3>1. t \in DOMAIN issued
      BY <2>6 DEF IssuedTo
    <3> QED BY <1>1, <1>2, <1>3, <2>1, <2>2, <2>6, <3>1 DEF Accounted
  <2> QED BY <2>1, <2>2, <2>5, <2>6
<1>5. FormsAreKept'
  BY <1>3, <1>4 DEF FormsAreKept
<1>6. AskedAreClosed'
  BY <1>1 DEF WebInv, AskedAreClosed, NothingIssued
<1> QED BY <1>5, <1>6

LEMMA IssuedOneKeeps ==
    ASSUME WebInv, NEW s \in 1..logins, NEW closed, IssuedOneTo(s, closed),
           Range(asked) \subseteq Range(asked)', closed \subseteq Range(asked)'
    PROVE  /\ FormsAreKept'
           /\ \A p \in Sessions : session'[p].forms \subseteq session[p].forms \cup {Len(issued) + 1}
           /\ session'[s].forms \cap closed \subseteq {Len(issued) + 1}
           /\ DOMAIN issued' = DOMAIN issued \cup {Len(issued) + 1}
<1> DEFINE n == Len(issued) + 1
           F == (Unexpired(session[s].forms) \ closed) \cup {n}
<1>1. /\ SessionTypes /\ DOMAIN issued = 1..Len(issued) /\ Len(issued) \in Nat
      /\ n \in Nat /\ n \notin DOMAIN issued /\ MaxForms \in Nat \ {0}
      /\ s \in Sessions /\ s \in Nat
  <2>1. SessionTypes BY DEF WebInv
  <2>2. /\ DOMAIN issued = 1..Len(issued) /\ Len(issued) \in Nat /\ MaxForms \in Nat \ {0}
    BY <2>1, IssuedFacts
  <2>3. s \in Sessions /\ s \in Nat
    BY <2>1, SessionAssumption DEF SessionTypes, Sessions
  <2> QED BY <2>1, <2>2, <2>3
<1>2. /\ issued' = Append(issued, [session |-> s, at |-> now]) /\ now' = now
      /\ session'[s].forms = Newest(F)
      /\ \A p \in Sessions \ {s} : session'[p].forms = session[p].forms
  BY DEF IssuedOneTo
<1>3. /\ DOMAIN issued' = DOMAIN issued \cup {n}
      /\ \A t \in DOMAIN issued : issued'[t] = issued[t]
      /\ issued'[n] = [session |-> s, at |-> now]
  BY <1>1, <1>2 DEF SessionTypes
<1>4. /\ IssuedTo(s)' = IssuedTo(s) \cup {n}
      /\ \A p \in Sessions \ {s} : IssuedTo(p)' = IssuedTo(p)
  BY <1>1, <1>3 DEF IssuedTo
<1>5. \A t \in DOMAIN issued : IsFresh(t)' <=> IsFresh(t)
  BY <1>2, <1>3 DEF IsFresh
<1>6. F \subseteq IssuedTo(s) \cup {n}
  BY <1>1 DEF WebInv, FormsAreKept, Unexpired
<1>7. /\ IssuedTo(s) \cup {n} \in SUBSET Nat /\ IsFiniteSet(IssuedTo(s) \cup {n})
      /\ F \in SUBSET Nat /\ IsFiniteSet(F)
  <2>1. IssuedTo(s) \in SUBSET Nat /\ IsFiniteSet(IssuedTo(s))
    BY <1>1, IssuedFacts
  <2>2. IsFiniteSet(IssuedTo(s) \cup {n})
    BY <2>1, FS_AddElement
  <2> QED BY <1>1, <1>6, <2>1, <2>2, FS_Subset
<1>8. /\ Newest(F) \subseteq F /\ Cardinality(Newest(F)) <= MaxForms
      /\ \A t \in F \ Newest(F) : Cardinality({u \in F : u > t}) >= MaxForms
  <2> HIDE DEF F
  <2> QED BY <1>7, NewestFacts
(* Of the session that got the form *)
<1>9. ASSUME NEW t \in IssuedTo(s) \cup {n} PROVE Accounted(s, t)'
  <2> DEFINE newer == {u \in IssuedTo(s)' : u > t}
  <2>1. IsFiniteSet(newer) /\ Cardinality(newer) \in Nat
    BY <1>4, <1>7, FS_Subset, FS_CardinalityType
  <2>2. CASE t \in F /\ t \notin Newest(F)
    <3>1. {u \in F : u > t} \subseteq newer
      BY <1>4, <1>6
    <3>2. /\ Cardinality({u \in F : u > t}) <= Cardinality(newer)
          /\ Cardinality({u \in F : u > t}) \in Nat
      BY <2>1, <3>1, FS_Subset, FS_CardinalityType
    <3>3. Cardinality(newer) >= MaxForms
      <4> HIDE DEF newer, F
      <4> QED BY <1>1, <1>8, <2>1, <2>2, <3>2
    <3> QED BY <3>3 DEF Accounted
  <2>3. CASE t \in Newest(F)
    BY <1>2, <2>3 DEF Accounted
  <2>4. CASE t \notin F
    <3>1. t \in IssuedTo(s) /\ t \in DOMAIN issued /\ Accounted(s, t)
      BY <1>1, <2>4 DEF WebInv, FormsAreKept, IssuedTo
    <3>2. CASE t \in Range(asked) BY <3>2 DEF Accounted
    <3>3. CASE ~IsFresh(t) BY <1>5, <3>1, <3>3 DEF Accounted
    <3>4. CASE t \in session[s].forms
      <4>1. ~IsFresh(t) \/ t \in closed
        BY <2>4, <3>4 DEF Unexpired
      <4> QED BY <1>5, <3>1, <4>1 DEF Accounted
    <3>5. CASE Cardinality({u \in IssuedTo(s) : u > t}) >= MaxForms
      <4>1. {u \in IssuedTo(s) : u > t} \subseteq newer
        BY <1>4
      <4>2. /\ Cardinality({u \in IssuedTo(s) : u > t}) <= Cardinality(newer)
            /\ Cardinality({u \in IssuedTo(s) : u > t}) \in Nat
        BY <2>1, <4>1, FS_Subset, FS_CardinalityType
      <4>3. Cardinality(newer) >= MaxForms
        <5> HIDE DEF newer
        <5> QED BY <1>1, <2>1, <3>5, <4>2
      <4> QED BY <4>3 DEF Accounted
    <3> QED BY <3>1, <3>2, <3>3, <3>4, <3>5 DEF Accounted
  <2> QED BY <2>2, <2>3, <2>4
(* Of another session *)
<1>10. ASSUME NEW p \in Sessions \ {s}
       PROVE  /\ session'[p].forms \subseteq IssuedTo(p)'
              /\ Cardinality(session'[p].forms) <= MaxForms
              /\ \A t \in IssuedTo(p)' : Accounted(p, t)'
  <2>1. \A t \in IssuedTo(p) : t \in DOMAIN issued
    BY DEF IssuedTo
  <2> QED BY <1>2, <1>4, <1>5, <2>1 DEF WebInv, FormsAreKept, Accounted
<1>11. FormsAreKept'
  BY <1>2, <1>4, <1>6, <1>8, <1>9, <1>10 DEF FormsAreKept
<1>12. \A p \in Sessions : session'[p].forms \subseteq session[p].forms \cup {n}
  BY <1>2, <1>8 DEF Unexpired
<1>13. session'[s].forms \cap closed \subseteq {n}
  BY <1>2, <1>8
<1> QED BY <1>3, <1>11, <1>12, <1>13

-----------------------------------------------------------------------------
(* The steps *)

(* The handlers change as they should, nothing else of the types moves. *)
LEMMA RequestChanges ==
    ASSUME SessionTypes, NEW r \in Requests, NEW q, UnderWay(q, logins),
           request' = [request EXCEPT ![r] = q],
           UNCHANGED <<now, logins, session, issued, asked>>,
           cookie' \in {None, cookie}, shown' \in SUBSET Nat
    PROVE  SessionTypes'
BY DEF SessionTypes, UnderWay, None

(* Sessions are used: other fields than forms may change, or forms expire. *)
LEMMA SessionTouched ==
    ASSUME SessionTypes, NEW s
    PROVE  /\ Touched(s) \in [Sessions -> SessionType]
           /\ \A p \in Sessions : Touched(s)[p].forms = session[p].forms
<1>1. session \in [Sessions -> SessionType] /\ now \in Nat
  BY DEF SessionTypes
<1>2. CASE s \notin Sessions
  <2>1. Touched(s) = session
    BY <1>1, <1>2 DEF Touched
  <2> QED BY <1>1, <2>1
<1>3. CASE s \in Sessions
  <2>1. session[s] \in SessionType
    BY <1>1, <1>3
  <2>2. [session[s] EXCEPT !.seen = now] \in SessionType
    BY <1>1, <2>1 DEF SessionType
  <2>3. [session[s] EXCEPT !.seen = now].forms = session[s].forms
    BY <2>1 DEF SessionType
  <2>4. Touched(s) = [session EXCEPT ![s] = [session[s] EXCEPT !.seen = now]]
    BY DEF Touched
  <2> QED BY <1>1, <1>3, <2>2, <2>3, <2>4
<1> QED BY <1>2, <1>3

LEMMA MakesUnderWay ==
    ASSUME NEW n \in Nat, NEW s \in 0..n, NEW t \in Nat, NEW st \in HandlerSteps,
           s # None \/ st \in {"none", "login"}
    PROVE  UnderWay([step |-> st, session |-> s, token |-> t], n)
<1> DEFINE q == [step |-> st, session |-> s, token |-> t]
<1>1. q \in RequestType /\ q.step = st /\ q.session = s
  BY DEF RequestType
<1> HIDE DEF q
<1>2. UnderWay(q, n)
  BY <1>1 DEF UnderWay
<1> QED BY <1>2 DEF q

LEMMA FreeIsUnderWay ==
    ASSUME NEW n \in Nat
    PROVE  /\ UnderWay(Free, n)
           /\ \A s \in 0..n : UnderWay([Free EXCEPT !.step = "login", !.session = s], n)
<1> USE DEF HandlerSteps
<1>1. Free = [step |-> "none", session |-> 0, token |-> 0]
  BY DEF Free, None
<1>2. UnderWay(Free, n)
  <2>1. 0 \in 0..n /\ 0 \in Nat /\ "none" \in HandlerSteps /\ "none" \in {"none", "login"}
    OBVIOUS
  <2>2. UnderWay([step |-> "none", session |-> 0, token |-> 0], n)
    BY <2>1, MakesUnderWay
  <2> QED BY <1>1, <2>2
<1>3. ASSUME NEW s \in 0..n
      PROVE  UnderWay([Free EXCEPT !.step = "login", !.session = s], n)
  <2> DEFINE q == [Free EXCEPT !.step = "login", !.session = s]
  <2>1. Free \in RequestType
    BY <1>2 DEF UnderWay
  <2>2. q \in RequestType /\ q.step = "login" /\ q.session = s
    <3>1. s \in Nat /\ "login" \in HandlerSteps
      OBVIOUS
    <3>2. /\ DOMAIN q = {"step", "session", "token"}
          /\ q.step = "login" /\ q.session = s /\ q.token = Free.token
      BY <2>1 DEF RequestType
    <3> QED BY <2>1, <3>1, <3>2 DEF RequestType
  <2> HIDE DEF q
  <2>3. UnderWay(q, n)
    BY <2>2 DEF UnderWay
  <2> QED BY <2>3 DEF q
<1> QED BY <1>2, <1>3

LEMMA QuietSteps ==
    ASSUME WebInv,
           \/ Tick \/ Restart \/ LoginPage \/ AgentPageExpired \/ UNCHANGED vars
           \/ \E r \in Requests :
                \/ LoginArrives(r) \/ LoginSucceeds(r) \/ LoginFails(r) \/ AskRejected(r)
                \/ AskAnswered(r) \/ LogoutRead(r)
                \/ \E t \in shown : AskArrives(r, t) \/ LogoutArrives(r, t)
    PROVE  SessionTypes' /\ NothingIssued
<1>1. SessionTypes /\ FormsAreKept BY DEF WebInv
<1>2. /\ now \in Nat /\ logins \in Nat /\ cookie \in 0..logins /\ MaxLogins \in Nat
      /\ session \in [Sessions -> SessionType] /\ None = 0
  BY SessionAssumption DEF WebInv, SessionTypes, None
<1>3. ASSUME UNCHANGED <<now, issued, asked, session>> PROVE NothingIssued
  BY <1>2, <1>3 DEF NothingIssued
<1>4. ASSUME UNCHANGED <<now, issued, asked>>, NEW s, session' \in {session, Touched(s)}
      PROVE  NothingIssued /\ session' \in [Sessions -> SessionType]
  BY <1>1, <1>2, <1>4, SessionTouched DEF NothingIssued
<1>5. CASE Tick
  <2>1. now' = now + 1 /\ UNCHANGED <<logins, session, store, issued, shown, cookie, request, asked>>
    BY <1>5 DEF Tick
  <2> QED BY <1>1, <1>2, <2>1 DEF SessionTypes, NothingIssued
<1>6. CASE Restart
  <2>1. /\ request' = [r \in Requests |-> Free]
        /\ UNCHANGED <<now, logins, session, issued, shown, cookie, asked>>
    BY <1>6 DEF Restart
  <2>2. UnderWay(Free, logins)
    BY <1>2, FreeIsUnderWay
  <2>3. request' \in [Requests -> RequestType] /\ \A r \in Requests : request'[r] = Free
    BY <2>1, <2>2 DEF UnderWay
  <2>4. \A r \in Requests : UnderWay(request'[r], logins)
    BY <2>2, <2>3
  <2>5. SessionTypes'
    BY <1>1, <2>1, <2>3, <2>4 DEF SessionTypes
  <2> QED BY <1>3, <2>1, <2>5
<1>7. CASE LoginPage
  <2>1. /\ session' \in {session, Touched(cookie)}
        /\ UNCHANGED <<now, logins, issued, shown, cookie, request, asked>>
    BY <1>7 DEF LoginPage
  <2>2. NothingIssued /\ session' \in [Sessions -> SessionType]
    BY <1>4, <2>1
  <2> QED BY <1>1, <2>1, <2>2 DEF SessionTypes
<1>8. CASE AgentPageExpired
  <2>1. cookie' = None /\ UNCHANGED <<now, logins, session, issued, shown, request, asked>>
    BY <1>8 DEF AgentPageExpired
  <2> QED BY <1>1, <1>2, <1>3, <2>1 DEF SessionTypes
<1>9. CASE UNCHANGED vars
  BY <1>1, <1>3, <1>9 DEF vars, SessionTypes
<1>10. ASSUME NEW r \in Requests,
              \/ LoginArrives(r) \/ LoginFails(r) \/ AskAnswered(r) \/ LogoutRead(r)
              \/ \E t \in shown : LogoutArrives(r, t)
       PROVE  SessionTypes' /\ NothingIssued
  <2>1. UNCHANGED <<now, logins, session, issued, asked>>
    BY <1>10 DEF LoginArrives, LoginFails, AskAnswered, LogoutRead, LogoutArrives
  <2>2. cookie' \in {None, cookie}
    BY <1>10 DEF LoginArrives, LoginFails, AskAnswered, LogoutRead, LogoutArrives
  <2>3. shown' \in SUBSET Nat
    <3>1. request[r].token \in Nat /\ shown \subseteq Nat
      BY <1>1 DEF SessionTypes, RequestType
    <3> QED BY <1>10, <3>1 DEF LoginArrives, LoginFails, AskAnswered, LogoutRead, LogoutArrives
  <2>4. \E q : UnderWay(q, logins) /\ request' = [request EXCEPT ![r] = q]
    <3>1. CASE LoginFails(r) \/ AskAnswered(r) \/ LogoutRead(r)
      BY <1>2, <3>1, FreeIsUnderWay DEF LoginFails, AskAnswered, LogoutRead
    <3>2. CASE LoginArrives(r)
      BY <1>2, <3>2, FreeIsUnderWay DEF LoginArrives
    <3>3. ASSUME NEW t \in shown, LogoutArrives(r, t)
          PROVE  \E q : UnderWay(q, logins) /\ request' = [request EXCEPT ![r] = q]
      <4>1. t \in Nat
        BY <1>1 DEF SessionTypes
      <4>2. UnderWay([step |-> "logout", session |-> cookie, token |-> t], logins)
        BY <1>2, <3>3, <4>1, MakesUnderWay DEF LogoutArrives, HandlerSteps
      <4>3. UnderWay(request[r], logins) /\ request = [request EXCEPT ![r] = request[r]]
        BY <1>1 DEF SessionTypes
      <4> QED BY <3>3, <4>2, <4>3 DEF LogoutArrives
    <3> QED BY <1>10, <3>1, <3>2, <3>3
  <2> QED BY <1>1, <1>3, <2>1, <2>2, <2>3, <2>4, RequestChanges
<1>11. ASSUME NEW r \in Requests, LoginSucceeds(r)
       PROVE  SessionTypes' /\ NothingIssued
  <2>1. /\ logins < MaxLogins /\ logins' = logins + 1 /\ cookie' = logins + 1
        /\ session' = [session EXCEPT ![logins + 1] = NewSession]
        /\ request' = [request EXCEPT ![r] = Free]
        /\ UNCHANGED <<now, issued, shown, asked>>
    BY <1>11 DEF LoginSucceeds
  <2>2. NewSession \in SessionType /\ NewSession.forms = {}
    BY <1>2 DEF NewSession, SessionType
  <2>3. logins + 1 \in Sessions /\ session[logins + 1].forms = {}
    <3>1. logins + 1 \in Sessions
      BY <1>2, <2>1 DEF Sessions
    <3>2. IssuedTo(logins + 1) = {}
      BY <1>1, <1>2 DEF SessionTypes, IssuedTo
    <3> QED BY <1>1, <3>1, <3>2 DEF FormsAreKept
  <2>4. NothingIssued
    BY <1>2, <2>1, <2>2, <2>3 DEF NothingIssued
  <2>5. \A q : UnderWay(q, logins) => UnderWay(q, logins + 1)
    BY <1>2 DEF UnderWay, RequestType
  <2>6. \A p \in Requests : UnderWay(request'[p], logins + 1)
    BY <1>1, <1>2, <2>1, <2>5, FreeIsUnderWay DEF SessionTypes
  <2>7. request' \in [Requests -> RequestType]
    BY <1>1, <1>2, <2>1, FreeIsUnderWay DEF SessionTypes, UnderWay
  <2>8. session' \in [Sessions -> SessionType]
    BY <1>2, <2>1, <2>2
  <2>9. \A t \in DOMAIN issued : issued[t].session \in 1..(logins + 1)
    BY <1>1, <1>2 DEF SessionTypes
  <2> QED BY <1>1, <1>2, <2>1, <2>4, <2>6, <2>7, <2>8, <2>9 DEF SessionTypes
<1>12. ASSUME NEW r \in Requests, AskRejected(r)
       PROVE  SessionTypes' /\ NothingIssued
  <2> DEFINE s == request[r].session
  <2>1. /\ request' = [request EXCEPT ![r] = Free]
        /\ session' \in {session, [session EXCEPT ![s].forms = Unexpired(@)]}
        /\ UNCHANGED <<now, logins, issued, shown, cookie, asked>>
    BY <1>12 DEF AskRejected
  <2>2. session' \in [Sessions -> SessionType]
        /\ \A p \in Sessions : session'[p].forms \in {session[p].forms, Unexpired(session[p].forms)}
    <3>1. CASE s \in Sessions /\ session' = [session EXCEPT ![s].forms = Unexpired(@)]
      <4>1. session[s] \in SessionType
        BY <1>2, <3>1
      <4>2. Unexpired(session[s].forms) \in SUBSET Nat
        BY <4>1 DEF Unexpired, SessionType
      <4>3. [session[s] EXCEPT !.forms = Unexpired(@)] \in SessionType
            /\ [session[s] EXCEPT !.forms = Unexpired(@)].forms = Unexpired(session[s].forms)
        BY <4>1, <4>2 DEF SessionType
      <4>4. session' = [session EXCEPT ![s] = [session[s] EXCEPT !.forms = Unexpired(@)]]
        BY <3>1
      <4> HIDE DEF s
      <4> QED BY <1>2, <3>1, <4>3, <4>4
    <3>2. CASE session' = session
      BY <1>2, <3>2
    <3>3. CASE s \notin Sessions
      BY <1>2, <2>1, <3>3
    <3> QED BY <2>1, <3>1, <3>2, <3>3
  <2>3. NothingIssued
    BY <1>2, <2>1, <2>2 DEF NothingIssued, Unexpired
  <2>4. UnderWay(Free, logins) /\ Free \in RequestType
    BY <1>2, FreeIsUnderWay DEF UnderWay
  <2> QED BY <1>1, <2>1, <2>2, <2>3, <2>4 DEF SessionTypes
<1>13. ASSUME NEW r \in Requests, NEW t \in shown, AskArrives(r, t)
       PROVE  SessionTypes' /\ NothingIssued
  <2>1. /\ session' \in {session, Touched(cookie)}
        /\ UNCHANGED <<now, logins, issued, shown, cookie, asked>>
        /\ \/ request' = request
           \/ request' = [request EXCEPT ![r] = [step |-> "reading", session |-> cookie, token |-> t]]
        /\ cookie # None
    BY <1>13 DEF AskArrives
  <2>2. t \in Nat
    BY <1>1 DEF SessionTypes
  <2>3. LET q == [step |-> "reading", session |-> cookie, token |-> t]
        IN  UnderWay(q, logins) /\ q \in RequestType
    <3>1. UnderWay([step |-> "reading", session |-> cookie, token |-> t], logins)
      BY <1>2, <2>1, <2>2, MakesUnderWay DEF HandlerSteps
    <3> QED BY <3>1 DEF UnderWay
  <2>4. request' \in [Requests -> RequestType] /\ \A p \in Requests : UnderWay(request'[p], logins)
    BY <1>1, <2>1, <2>3 DEF SessionTypes
  <2> QED BY <1>1, <1>4, <2>1, <2>4 DEF SessionTypes
<1> QED BY <1>5, <1>6, <1>7, <1>8, <1>9, <1>10, <1>11, <1>12, <1>13

LEMMA IssueTyped ==
    ASSUME issued \in Seq(Issue), now \in Nat, NEW s \in Nat, NEW n,
           \A t \in DOMAIN issued : issued[t].session \in 1..n, s \in 1..n,
           issued' = Append(issued, [session |-> s, at |-> now])
    PROVE  issued' \in Seq(Issue) /\ \A t \in DOMAIN issued' : issued'[t].session \in 1..n
<1>1. [session |-> s, at |-> now] \in Issue
  BY DEF Issue
<1>2. /\ issued' \in Seq(Issue) /\ DOMAIN issued' = 1..(Len(issued) + 1)
      /\ DOMAIN issued = 1..Len(issued) /\ Len(issued) \in Nat
      /\ \A t \in DOMAIN issued : issued'[t] = issued[t]
      /\ issued'[Len(issued) + 1] = [session |-> s, at |-> now]
  BY <1>1
<1>3. \A t \in DOMAIN issued' : t \in DOMAIN issued \/ t = Len(issued) + 1
  BY <1>2
<1> QED BY <1>2, <1>3

(* The form given out with a page, and the one given out for the next question. *)
LEMMA AgentPageKeeps == ASSUME WebInv, AgentPage PROVE WebInv'
<1> DEFINE s == cookie   n == Len(issued) + 1
           forms == Newest(Unexpired(session[s].forms) \cup {n})
<1>1. SessionTypes /\ s \in 1..logins /\ s \in Sessions /\ Len(issued) \in Nat
      /\ session[s] \in SessionType /\ now \in Nat
      /\ session \in [Sessions -> SessionType]
  <2>1. SessionTypes BY DEF WebInv
  <2>2. s \in 1..logins /\ s \in Sessions
    BY <2>1, SessionAssumption DEF AgentPage, SessionTypes, Sessions, None
  <2> QED BY <2>1, <2>2, IssuedFacts DEF SessionTypes
<1>2. /\ issued' = Append(issued, [session |-> s, at |-> now])
      /\ session' = [session EXCEPT ![s] = [session[s] EXCEPT !.seen = now, !.forms = forms]]
      /\ shown' = shown \cup {n}
      /\ UNCHANGED <<now, logins, cookie, request, asked>>
  BY DEF AgentPage
<1>3. forms \in SUBSET Nat
  BY <1>1 DEF Newest, Unexpired, SessionType
<1>4. LET t == [session[s] EXCEPT !.seen = now, !.forms = forms]
      IN  t \in SessionType /\ t.forms = forms
  <2> HIDE DEF forms, s
  <2> QED BY <1>1, <1>3 DEF SessionType
<1> HIDE DEF forms
<1>5. /\ session' \in [Sessions -> SessionType] /\ session'[s].forms = forms
      /\ \A p \in Sessions \ {s} : session'[p].forms = session[p].forms
  <2> HIDE DEF s
  <2> QED BY <1>1, <1>2, <1>4
<1>6. IssuedOneTo(s, {})
  BY <1>1, <1>2, <1>5 DEF IssuedOneTo, forms
<1>7. /\ FormsAreKept'
      /\ \A p \in Sessions : session'[p].forms \subseteq session[p].forms \cup {n}
      /\ DOMAIN issued' = DOMAIN issued \cup {n}
  <2> HIDE DEF s
  <2> QED BY <1>1, <1>2, <1>6, IssuedOneKeeps
<1>8. AskedAreClosed'
  <2>1. n \notin DOMAIN issued
    BY <1>1, IssuedFacts
  <2> QED BY <1>2, <1>7, <2>1 DEF WebInv, AskedAreClosed
<1>9. SessionTypes'
  <2>1. /\ issued' \in Seq(Issue)
        /\ \A t \in DOMAIN issued' : issued'[t].session \in 1..logins
    <3>1. issued \in Seq(Issue) /\ \A u \in DOMAIN issued : issued[u].session \in 1..logins
      BY <1>1 DEF SessionTypes
    <3>2. s \in Nat
      BY <1>1
    <3> HIDE DEF s
    <3> QED BY <1>1, <1>2, <3>1, <3>2, IssueTyped
  <2> QED BY <1>1, <1>2, <1>5, <2>1 DEF SessionTypes
<1> QED BY <1>7, <1>8, <1>9 DEF WebInv

LEMMA AskReadKeeps ==
    ASSUME WebInv, NEW r \in Requests, AskRead(r)
    PROVE  WebInv'
<1> DEFINE s == request[r].session   t == request[r].token   n == Len(issued) + 1
           forms == Newest((Unexpired(session[s].forms) \ {t}) \cup {n})
<1>1. /\ SessionTypes /\ s \in 1..logins /\ s \in Sessions /\ Len(issued) \in Nat
      /\ session[s] \in SessionType /\ now \in Nat /\ t \in Nat
      /\ session \in [Sessions -> SessionType]
  <2>1. SessionTypes BY DEF WebInv
  <2>2. UnderWay(request[r], logins) /\ request[r].step = "reading"
    BY <2>1 DEF SessionTypes, AskRead, MayAsk
  <2>3. s \in 1..logins /\ s \in Sessions /\ t \in Nat
    BY <2>1, <2>2, SessionAssumption DEF SessionTypes, UnderWay, RequestType, Sessions, None
  <2> QED BY <2>1, <2>3, IssuedFacts DEF SessionTypes
<1>2. /\ issued' = Append(issued, [session |-> s, at |-> now])
      /\ session' = [session EXCEPT ![s] = [session[s] EXCEPT !.forms = forms]]
      /\ asked' = Append(asked, t)
      /\ t \in session[s].forms
      /\ request' = [request EXCEPT ![r] = [request[r] EXCEPT !.step = "asking", !.token = n]]
      /\ UNCHANGED <<now, logins, cookie, shown>>
  BY DEF AskRead, MayAsk, IssueInto, Consumed, Unexpired
<1>3. forms \in SUBSET Nat
  BY <1>1 DEF Newest, Unexpired, SessionType
<1>4. LET u == [session[s] EXCEPT !.forms = forms]
      IN  u \in SessionType /\ u.forms = forms
  <2> HIDE DEF forms, s
  <2> QED BY <1>1, <1>3 DEF SessionType
<1> HIDE DEF forms
<1>5. /\ session' \in [Sessions -> SessionType] /\ session'[s].forms = forms
      /\ \A p \in Sessions \ {s} : session'[p].forms = session[p].forms
  <2> HIDE DEF s
  <2> QED BY <1>1, <1>2, <1>4
<1>6. IssuedOneTo(s, {t})
  BY <1>1, <1>2, <1>5 DEF IssuedOneTo, forms
<1>7. /\ asked \in Seq(Nat) /\ asked' \in Seq(Nat)
      /\ DOMAIN asked = 1..Len(asked) /\ Len(asked) \in Nat
      /\ DOMAIN asked' = 1..(Len(asked) + 1) /\ asked'[Len(asked) + 1] = t
      /\ \A i \in DOMAIN asked : asked'[i] = asked[i]
  BY <1>1, <1>2 DEF SessionTypes
<1>8. Range(asked) \subseteq Range(asked)' /\ {t} \subseteq Range(asked)'
  BY <1>7 DEF Range
<1>9. /\ FormsAreKept'
      /\ \A p \in Sessions : session'[p].forms \subseteq session[p].forms \cup {n}
      /\ session'[s].forms \cap {t} \subseteq {n}
      /\ DOMAIN issued' = DOMAIN issued \cup {n}
  <2> HIDE DEF s, t
  <2> QED BY <1>1, <1>6, <1>8, IssuedOneKeeps
<1>10. AskedAreClosed'
  <2>1. n \notin DOMAIN issued /\ t \in IssuedTo(s) /\ t \in DOMAIN issued
    BY <1>1, <1>2, IssuedFacts DEF WebInv, FormsAreKept, IssuedTo
  <2>2. \A p \in Sessions : t \notin session'[p].forms
    <3>1. \A p \in Sessions \ {s} : t \notin session[p].forms
      BY <1>1, <2>1 DEF WebInv, FormsAreKept, IssuedTo
    <3> QED BY <1>5, <1>9, <2>1, <3>1
  <2>3. \A i \in DOMAIN asked : asked[i] # t
    BY <1>1, <1>2 DEF WebInv, AskedAreClosed
  <2>4. IsInjective(asked')
    BY <1>7, <2>3 DEF WebInv, AskedAreClosed, IsInjective
  <2>5. \A i \in DOMAIN asked' :
          asked'[i] \in DOMAIN issued /\ \A p \in Sessions : asked'[i] \notin session'[p].forms
    <3>1. \A i \in DOMAIN asked' : i \in DOMAIN asked \/ i = Len(asked) + 1
      BY <1>7
    <3>2. \A i \in DOMAIN asked :
            asked[i] \in DOMAIN issued /\ \A p \in Sessions : asked[i] \notin session[p].forms
      BY DEF WebInv, AskedAreClosed
    <3> HIDE DEF s, t, n
    <3>3. \A i \in DOMAIN asked :
            asked'[i] \in DOMAIN issued /\ \A p \in Sessions : asked'[i] \notin session'[p].forms
      BY <1>7, <1>9, <2>1, <3>2
    <3>4. asked'[Len(asked) + 1] = t
      BY <1>7
    <3> QED BY <2>1, <2>2, <3>1, <3>3, <3>4
  <2> QED BY <1>9, <2>4, <2>5 DEF AskedAreClosed
<1>11. SessionTypes'
  <2>1. /\ issued' \in Seq(Issue)
        /\ \A u \in DOMAIN issued' : issued'[u].session \in 1..logins
    <3>1. issued \in Seq(Issue) /\ \A u \in DOMAIN issued : issued[u].session \in 1..logins
      BY <1>1 DEF SessionTypes
    <3>2. s \in Nat
      BY <1>1
    <3> HIDE DEF s
    <3> QED BY <1>1, <1>2, <3>1, <3>2, IssueTyped
  <2>2. LET q == [request[r] EXCEPT !.step = "asking", !.token = n]
        IN  q \in RequestType /\ UnderWay(q, logins)
    <3> DEFINE h == request[r]   q == [request[r] EXCEPT !.step = "asking", !.token = n]
    <3>1. h \in RequestType /\ h.session <= logins /\ h.session # None
      BY <1>1 DEF SessionTypes, UnderWay, None
    <3>2. n \in Nat /\ "asking" \in HandlerSteps
      BY <1>1 DEF HandlerSteps
    <3> HIDE DEF h
    <3>3. q = [h EXCEPT !.step = "asking", !.token = n]
      BY DEF h
    <3> HIDE DEF q, n
    <3>4. q \in RequestType /\ q.session = h.session
      BY <3>1, <3>2, <3>3 DEF RequestType
    <3>5. UnderWay(q, logins)
      BY <3>1, <3>4 DEF UnderWay
    <3> QED BY <3>4, <3>5 DEF q, n
  <2>3. request' \in [Requests -> RequestType] /\ \A p \in Requests : UnderWay(request'[p], logins)
    BY <1>1, <1>2, <2>2 DEF SessionTypes
  <2> QED BY <1>1, <1>2, <1>5, <1>7, <2>1, <2>3 DEF SessionTypes
<1> QED BY <1>9, <1>10, <1>11 DEF WebInv

-----------------------------------------------------------------------------
(* What SessionManager promises *)

LEMMA WebInvariance == Spec => []WebInv
<1>1. Init => WebInv
  <2> SUFFICES ASSUME Init PROVE WebInv OBVIOUS
  <2>1. MaxForms \in Nat /\ MaxLogins \in Nat
    BY SessionAssumption
  <2>2. /\ now = 0 /\ logins = 0 /\ issued = <<>> /\ shown = {} /\ cookie = 0 /\ asked = <<>>
        /\ session = [s \in Sessions |-> [created |-> 0, seen |-> 0, forms |-> {}]]
        /\ request = [r \in Requests |-> Free]
    BY DEF Init, None
  <2>3. \A s \in Sessions : session[s].forms = {} /\ IssuedTo(s) = {}
    BY <2>2 DEF IssuedTo
  <2>4. UnderWay(Free, logins) /\ Free \in RequestType
    <3>1. UnderWay(Free, logins) BY <2>2, FreeIsUnderWay
    <3> QED BY <3>1 DEF UnderWay
  <2>5. SessionTypes
    BY <2>1, <2>2, <2>4 DEF SessionTypes, SessionType
  <2>6. FormsAreKept
    BY <2>1, <2>3, FS_EmptySet DEF FormsAreKept
  <2>7. AskedAreClosed
    BY <2>2 DEF AskedAreClosed, IsInjective
  <2> QED BY <2>5, <2>6, <2>7 DEF WebInv
<1>2. WebInv /\ [Next]_vars => WebInv'
  <2> SUFFICES ASSUME WebInv, [Next]_vars PROVE WebInv' OBVIOUS
  <2>1. CASE AgentPage
    BY <2>1, AgentPageKeeps
  <2>2. CASE \E r \in Requests : AskRead(r)
    BY <2>2, AskReadKeeps
  <2>3. CASE ~AgentPage /\ ~\E r \in Requests : AskRead(r)
    BY <2>3, QuietSteps, NothingIssuedKeeps DEF Next, WebInv
  <2> QED BY <2>1, <2>2, <2>3
<1> QED BY <1>1, <1>2, PTL DEF Spec

(* A form asks the agent at most once, in however many requests, tabs and      *)
(* threads it is sent (consume_form_token).                                    *)
THEOREM FormsAskOnce == Spec => []OneQuestionPerForm
<1>1. WebInv => OneQuestionPerForm
  BY DEF WebInv, AskedAreClosed, OneQuestionPerForm
<1> QED BY <1>1, WebInvariance, PTL

(* The MaxForms newest forms of a session work until they are used or too old, *)
(* and it has no more (issue_form_token).                                      *)
THEOREM NewestFormsStayOpen == Spec => []NewestFormsWork
<1>1. WebInv => NewestFormsWork
  BY DEF WebInv, FormsAreKept, Accounted, NewestFormsWork
<1> QED BY <1>1, WebInvariance, PTL

(* An ended session stays ended, whatever the handlers that found it do later  *)
(* (SessionManager, without a way to put a session back).                      *)
THEOREM EndedSessionsStayEnded == Spec => NoRevival
<1> DEFINE Step == \A s \in 1..logins : s \notin store => s \notin store'
<1>1. WebInv /\ [Next]_vars => Step
  <2> SUFFICES ASSUME WebInv, [Next]_vars, NEW s \in 1..logins, s \notin store
               PROVE  s \notin store'
    OBVIOUS
  <2>1. logins \in Nat /\ s # logins + 1
    BY DEF WebInv, SessionTypes
  <2>2. CASE \/ Tick \/ Restart \/ LoginPage \/ AgentPage \/ AgentPageExpired \/ UNCHANGED vars
    BY <2>2 DEF Tick, Restart, LoginPage, AgentPage, AgentPageExpired, vars, Dropped
  <2>3. ASSUME NEW r \in Requests,
               \/ LoginArrives(r) \/ LoginSucceeds(r) \/ LoginFails(r)
               \/ AskRead(r) \/ AskRejected(r) \/ AskAnswered(r) \/ LogoutRead(r)
        PROVE  s \notin store'
    BY <2>1, <2>3 DEF LoginArrives, LoginSucceeds, LoginFails, AskRead, AskRejected,
                      AskAnswered, LogoutRead, Created, Revoked
  <2>4. ASSUME NEW r \in Requests, NEW t \in shown, AskArrives(r, t) \/ LogoutArrives(r, t)
        PROVE  s \notin store'
    BY <2>4 DEF AskArrives, LogoutArrives, Dropped
  <2> QED BY <2>2, <2>3, <2>4 DEF Next
<1> QED BY <1>1, WebInvariance, PTL DEF Spec, NoRevival

-----------------------------------------------------------------------------
(* Login attempts: the inductive invariant *)

AttemptType == [failures : Seq(Nat), lockedUntil : Nat, updatedAt : Nat]

(* The m-th failure locked the key, or would have. *)
Exhausting(T, m) ==
    /\ m \in DOMAIN T /\ m >= MaxAttempts
    /\ T[m] - T[m - MaxAttempts + 1] < Window

(* Failures T of a key in the order of their times, up to then. *)
History(T, at) ==
    /\ T \in Seq(Nat)
    /\ \A i \in DOMAIN T : T[i] <= at
    /\ \A i, j \in DOMAIN T : i <= j => T[i] <= T[j]

(* The failures kept are all but the first d, which have left the window. *)
AllButFirst(kept, T, d) ==
    /\ d \in 0..Len(T) /\ kept \in Seq(Nat) /\ Len(kept) = Len(T) - d
    /\ \A j \in 1..Len(kept) : kept[j] = T[d + j]

KeepsRecent(kept, T, at) ==
    \E d \in 0..Len(T) : AllButFirst(kept, T, d) /\ \A j \in 1..d : at - T[j] >= Window

(* The lock is that of the last exhausting failure, as long as it lasts. *)
LockIsLast(until, T, at) ==
    /\ until \in Nat
    /\ until > at => \E m \in DOMAIN T : Exhausting(T, m) /\ until = T[m] + LockTime
    /\ \A m \in DOMAIN T : Exhausting(T, m) /\ T[m] + LockTime > at => until >= T[m] + LockTime

(* No failure is recorded while a key is locked. *)
LockHeld(T) ==
    \A m \in DOMAIN T : Exhausting(T, m) /\ m < Len(T) => T[m + 1] >= T[m] + LockTime

Tracks(state, T, at) ==
    /\ History(T, at) /\ LockHeld(T)
    /\ KeepsRecent(state.failures, T, at)
    /\ LockIsLast(state.lockedUntil, T, at)

(* The last update was the last failure. *)
UpToDate(state, T) == T # <<>> /\ state.updatedAt = T[Len(T)]

StateIn(table, k) == IF k \in DOMAIN table THEN table[k] ELSE Fresh

Observed ==
    /\ DOMAIN tries = Keys /\ DOMAIN forgotten = Keys
    /\ \A k \in Keys : tries[k] \in Seq(Nat) /\ forgotten[k] \in 0..Len(tries[k])

LimiterInv ==
    /\ clock \in Nat
    /\ DOMAIN states \subseteq Keys /\ IsFiniteSet(DOMAIN states)
    /\ Cardinality(DOMAIN states) <= MaxKeys
    /\ Observed
    /\ \A k \in DOMAIN states :
         states[k] \in AttemptType /\ UpToDate(states[k], Remembered(k))
    /\ \A k \in Keys : Tracks(StateIn(states, k), Remembered(k), clock)

-----------------------------------------------------------------------------
(* Trimming *)

LEMMA LimiterConstants ==
    /\ Window \in Nat \ {0} /\ MaxAttempts \in Nat \ {0} /\ LockTime \in Nat \ {0}
    /\ MaxKeys \in Nat \ {0}
BY AttemptsAssumption

(* What is dropped is a prefix, as long as its number of elements says. *)
LEMMA StaleIsPrefix ==
    ASSUME NEW f \in Seq(Nat)
    PROVE  /\ Cardinality(Stale(f)) \in 0..Len(f)
           /\ \A j \in 1..Len(f) : j \in Stale(f) <=> j <= Cardinality(Stale(f))
<1> DEFINE S == Stale(f)   c == Cardinality(S)
<1>1. Len(f) \in Nat /\ DOMAIN f = 1..Len(f)
  OBVIOUS
<1>2. S \subseteq 1..Len(f) /\ \A i \in S : \A j \in 1..i : j \in S
  <2>1. S \subseteq 1..Len(f)
    BY <1>1 DEF Stale
  <2>2. ASSUME NEW i \in S, NEW j \in 1..i PROVE j \in S
    <3>1. j \in DOMAIN f /\ \A k \in 1..j : k \in 1..i
      BY <1>1, <2>1, <2>2
    <3> DEFINE Old(m) == \A k \in 1..m : ~InWindow(f[k])
    <3>2. S = {m \in DOMAIN f : Old(m)}
      BY DEF Stale
    <3>3. Old(i) => Old(j)
      BY <3>1
    <3> HIDE DEF S, Old
    <3>4. Old(i)
      BY <2>2, <3>2
    <3>5. Old(j)
      BY <3>3, <3>4
    <3> QED BY <3>1, <3>2, <3>5
  <2> QED BY <2>1, <2>2
<1> HIDE DEF S
<1>3. IsFiniteSet(1..Len(f)) /\ Cardinality(1..Len(f)) = Len(f)
  BY <1>1, CountTo
<1>4. IsFiniteSet(S) /\ c \in Nat /\ c <= Len(f)
  <2>1. S \subseteq 1..Len(f)
    BY <1>2
  <2>2. IsFiniteSet(S) /\ Cardinality(S) <= Cardinality(1..Len(f))
    BY <1>3, <2>1, FS_Subset
  <2> QED BY <1>3, <2>2, FS_CardinalityType
<1>5. ASSUME NEW j \in 1..Len(f), j \in S PROVE j <= c
  <2>1. 1..j \subseteq S
    BY <1>2, <1>5
  <2>2. Cardinality(1..j) = j
    BY CountTo
  <2> QED BY <1>4, <2>1, <2>2, FS_Subset
<1>6. ASSUME NEW j \in 1..Len(f), j \notin S PROVE j > c
  <2>1. S \subseteq 1..(j - 1)
    BY <1>1, <1>2, <1>6
  <2>2. IsFiniteSet(1..(j - 1)) /\ Cardinality(1..(j - 1)) = j - 1
    <3>1. j - 1 \in Nat
      BY <1>1
    <3> QED BY <3>1, CountTo
  <2>3. c <= j - 1
    BY <2>1, <2>2, FS_Subset
  <2> QED BY <1>4, <2>3
<1>7. c \in 0..Len(f)
  BY <1>1, <1>4
<1>8. \A j \in 1..Len(f) : j \in S <=> j <= c
  BY <1>4, <1>5, <1>6
<1> QED BY <1>7, <1>8 DEF S

(* Of failures in order of time, exactly those in the window are kept. *)
LEMMA TrimmedFacts ==
    ASSUME clock \in Nat, NEW f \in Seq(Nat),
           \A i, j \in 1..Len(f) : i <= j => f[i] <= f[j]
    PROVE  \E c \in 0..Len(f) :
             /\ AllButFirst(Trimmed(f), f, c)
             /\ \A j \in 1..Len(f) : InWindow(f[j]) <=> j > c
<1> DEFINE c == Cardinality(Stale(f))
<1>1. /\ c \in 0..Len(f) /\ \A j \in 1..Len(f) : j \in Stale(f) <=> j <= c
      /\ Len(f) \in Nat /\ DOMAIN f = 1..Len(f) /\ \A j \in 1..Len(f) : f[j] \in Nat
  BY StaleIsPrefix
<1>2. Trimmed(f) = SubSeq(f, c + 1, Len(f))
  BY DEF Trimmed
<1> HIDE DEF c
<1>3. /\ Trimmed(f) \in Seq(Nat) /\ Len(Trimmed(f)) = Len(f) - c
      /\ \A j \in 1..Len(Trimmed(f)) : Trimmed(f)[j] = f[c + j]
  <2>1. \A i \in (c + 1)..Len(f) : f[i] \in Nat
    BY <1>1
  <2>2. /\ Trimmed(f) \in Seq(Nat)
        /\ Len(Trimmed(f)) = IF c + 1 <= Len(f) THEN Len(f) - (c + 1) + 1 ELSE 0
        /\ \A j \in 1..(Len(f) - (c + 1) + 1) : Trimmed(f)[j] = f[(c + 1) + j - 1]
    <3>1. c + 1 \in Int /\ Len(f) \in Int BY <1>1
    <3> QED BY <1>2, <2>1, <3>1, SubSeqProperties
  <2>3. Len(Trimmed(f)) = Len(f) - c
    <3>1. CASE c + 1 <= Len(f)
      <4>1. Len(Trimmed(f)) = Len(f) - (c + 1) + 1
        BY <2>2, <3>1
      <4> QED BY <1>1, <4>1
    <3>2. CASE ~(c + 1 <= Len(f))
      <4>1. Len(Trimmed(f)) = 0
        BY <2>2, <3>2
      <4>2. c \in Nat /\ c <= Len(f) /\ Len(f) \in Nat
        BY <1>1
      <4>3. c = Len(f)
        BY <3>2, <4>2
      <4> QED BY <4>1, <4>2, <4>3
    <3> QED BY <3>1, <3>2
  <2>4. ASSUME NEW j \in 1..Len(Trimmed(f)) PROVE Trimmed(f)[j] = f[c + j]
    <3>1. j \in 1..(Len(f) - (c + 1) + 1) /\ (c + 1) + j - 1 = c + j
      BY <1>1, <2>3
    <3> QED BY <2>2, <3>1
  <2> QED BY <2>2, <2>3, <2>4
<1>4. ASSUME NEW j \in 1..Len(f), j <= c PROVE ~InWindow(f[j])
  <2>1. j \in Stale(f) BY <1>1, <1>4
  <2> QED BY <2>1 DEF Stale
<1>5. ASSUME NEW j \in 1..Len(f), j > c PROVE InWindow(f[j])
  <2>1. c + 1 \in 1..Len(f) /\ c + 1 \notin Stale(f)
    BY <1>1, <1>5
  <2>2. PICK i \in 1..(c + 1) : InWindow(f[i])
    BY <1>1, <2>1 DEF Stale
  <2>3. i = c + 1
    BY <1>1, <1>4, <2>1, <2>2
  <2>4. f[i] <= f[j] /\ f[i] \in Nat /\ f[j] \in Nat
    BY <1>1, <1>5, <2>1, <2>3
  <2> QED BY <2>2, <2>4, LimiterConstants DEF InWindow
<1>6. \A j \in 1..Len(f) : InWindow(f[j]) <=> j > c
  BY <1>1, <1>4, <1>5
<1> QED BY <1>1, <1>3, <1>6 DEF AllButFirst

LEMMA HistoryFacts ==
    ASSUME NEW at \in Nat, NEW T, History(T, at)
    PROVE  /\ Len(T) \in Nat /\ DOMAIN T = 1..Len(T)
           /\ \A i \in 1..Len(T) : T[i] \in Nat /\ T[i] <= at
           /\ \A i, j \in 1..Len(T) : i <= j => T[i] <= T[j]
BY DEF History

(* The failures kept, once trimmed, are those in the window. *)
LEMMA TrimKeeps ==
    ASSUME clock \in Nat, NEW T, History(T, clock), NEW kept, KeepsRecent(kept, T, clock)
    PROVE  \E d \in 0..Len(T) :
             /\ AllButFirst(Trimmed(kept), T, d)
             /\ \A j \in 1..Len(T) : InWindow(T[j]) <=> j > d
<1>1. PICK d0 \in 0..Len(T) : AllButFirst(kept, T, d0) /\ \A j \in 1..d0 : clock - T[j] >= Window
  BY DEF KeepsRecent
<1>2. /\ Len(T) \in Nat /\ \A i \in 1..Len(T) : T[i] \in Nat /\ T[i] <= clock
      /\ \A i, j \in 1..Len(T) : i <= j => T[i] <= T[j]
  BY HistoryFacts
<1>3. /\ kept \in Seq(Nat) /\ Len(kept) \in Nat /\ Len(kept) = Len(T) - d0
      /\ \A j \in 1..Len(kept) : kept[j] = T[d0 + j]
  BY <1>1 DEF AllButFirst
<1>4. \A i, j \in 1..Len(kept) : i <= j => kept[i] <= kept[j]
  <2>1. SUFFICES ASSUME NEW i \in 1..Len(kept), NEW j \in 1..Len(kept), i <= j
                 PROVE  kept[i] <= kept[j]
    OBVIOUS
  <2>2. d0 + i \in 1..Len(T) /\ d0 + j \in 1..Len(T) /\ d0 + i <= d0 + j
    BY <1>1, <1>2, <1>3, <2>1
  <2> QED BY <1>2, <1>3, <2>2
<1>5. PICK c \in 0..Len(kept) : /\ AllButFirst(Trimmed(kept), kept, c)
                               /\ \A j \in 1..Len(kept) : InWindow(kept[j]) <=> j > c
  BY <1>3, <1>4, TrimmedFacts
<1> DEFINE d == d0 + c   g == Trimmed(kept)
<1>6. d \in 0..Len(T) /\ d0 \in Nat /\ c \in Nat
  BY <1>1, <1>2, <1>3
<1>7. /\ g \in Seq(Nat) /\ Len(g) = Len(kept) - c
      /\ \A j \in 1..Len(g) : g[j] = kept[c + j]
  BY <1>5 DEF AllButFirst
<1>8. Len(g) = Len(T) - d
  BY <1>2, <1>3, <1>6, <1>7
<1>9. ASSUME NEW j \in 1..Len(g) PROVE g[j] = T[d + j]
  <2>1. c + j \in 1..Len(kept) /\ d0 + (c + j) = d + j
    BY <1>3, <1>6, <1>7
  <2>2. g[j] = kept[c + j] /\ kept[c + j] = T[d0 + (c + j)]
    BY <1>3, <1>7, <2>1
  <2> QED BY <2>1, <2>2
<1>10. ASSUME NEW j \in 1..Len(T) PROVE InWindow(T[j]) <=> j > d
  <2>1. CASE j <= d0
    <3>1. ~InWindow(T[j])
      BY <1>1, <1>2, <1>6, <2>1, LimiterConstants DEF InWindow
    <3> QED BY <1>6, <2>1, <3>1
  <2>2. CASE j > d0
    <3>1. j - d0 \in 1..Len(kept) /\ d0 + (j - d0) = j
      BY <1>2, <1>3, <1>6, <2>2
    <3>2. kept[j - d0] = T[j]
      BY <1>3, <3>1
    <3>3. InWindow(T[j]) <=> j - d0 > c
      BY <1>5, <3>1, <3>2
    <3> QED BY <1>6, <3>3
  <2> QED BY <1>6, <2>1, <2>2
<1> HIDE DEF d, g
<1>11. AllButFirst(g, T, d)
  BY <1>6, <1>7, <1>8, <1>9 DEF AllButFirst
<1> QED BY <1>6, <1>10, <1>11 DEF g

(* Trimming and the end of a lock change nothing that counts. *)
LEMMA RenewedTracks ==
    ASSUME clock \in Nat, NEW state \in AttemptType, NEW T, Tracks(state, T, clock)
    PROVE  /\ Renewed(state) \in AttemptType
           /\ Tracks(Renewed(state), T, clock)
           /\ state.lockedUntil <= clock => Renewed(state).lockedUntil = NoLock
<1> DEFINE r == Renewed(state)
<1>1. /\ r.failures = Trimmed(state.failures)
      /\ r.lockedUntil = IF state.lockedUntil <= clock THEN 0 ELSE state.lockedUntil
      /\ r.updatedAt = state.updatedAt
      /\ DOMAIN r = {"failures", "lockedUntil", "updatedAt"}
  BY DEF AttemptType, Renewed, NoLock
<1>2. PICK d \in 0..Len(T) : /\ AllButFirst(Trimmed(state.failures), T, d)
                            /\ \A j \in 1..Len(T) : InWindow(T[j]) <=> j > d
  BY TrimKeeps DEF Tracks
<1>3. r \in AttemptType
  <2>1. Trimmed(state.failures) \in Seq(Nat)
    BY <1>2 DEF AllButFirst
  <2> DEFINE until == IF state.lockedUntil <= clock THEN 0 ELSE state.lockedUntil
             q == [state EXCEPT !.failures = Trimmed(state.failures)]
  <2>2. q \in AttemptType /\ q.lockedUntil = state.lockedUntil
    BY <2>1 DEF AttemptType
  <2>3. until \in Nat
    BY DEF AttemptType
  <2>4. r = [q EXCEPT !.lockedUntil = until]
    BY <2>2 DEF Renewed, NoLock
  <2> HIDE DEF q, until, r
  <2> QED BY <2>2, <2>3, <2>4 DEF AttemptType
<1>4. KeepsRecent(r.failures, T, clock)
  <2>1. Len(T) \in Nat /\ \A i \in 1..Len(T) : T[i] \in Nat /\ T[i] <= clock
    BY HistoryFacts DEF Tracks
  <2>2. \A j \in 1..d : clock - T[j] >= Window
    BY <1>2, <2>1, LimiterConstants DEF InWindow
  <2> QED BY <1>1, <1>2, <2>2 DEF KeepsRecent
<1>5. LockIsLast(r.lockedUntil, T, clock)
  <2>1. LockIsLast(state.lockedUntil, T, clock) /\ state.lockedUntil \in Nat
    BY DEF Tracks, LockIsLast
  <2>2. CASE state.lockedUntil > clock
    <3>1. r.lockedUntil = state.lockedUntil
      BY <1>1, <2>1, <2>2
    <3> QED BY <2>1, <3>1
  <2>3. CASE state.lockedUntil <= clock
    <3>1. r.lockedUntil = 0
      BY <1>1, <2>3
    <3>2. ASSUME NEW m \in DOMAIN T, Exhausting(T, m) PROVE ~(T[m] + LockTime > clock)
      <4>1. T[m] \in Nat
        BY HistoryFacts DEF Tracks
      <4> QED BY <2>1, <2>3, <3>2, <4>1, LimiterConstants DEF LockIsLast
    <3> QED BY <3>1, <3>2 DEF LockIsLast
  <2> QED BY <2>1, <2>2, <2>3
<1>6. Tracks(r, T, clock)
  BY <1>4, <1>5 DEF Tracks
<1> QED BY <1>1, <1>3, <1>6 DEF NoLock

(* A key that has not failed since it was forgotten *)
LEMMA NothingTracked ==
    ASSUME NEW at \in Nat PROVE Tracks(Fresh, <<>>, at)
<1>1. Len(<<>>) = 0 /\ DOMAIN <<>> = {} /\ <<>> \in Seq(Nat)
  OBVIOUS
<1>2. AllButFirst(<<>>, <<>>, 0)
  BY <1>1 DEF AllButFirst
<1>3. KeepsRecent(<<>>, <<>>, at)
  BY <1>1, <1>2 DEF KeepsRecent
<1>4. History(<<>>, at) /\ LockHeld(<<>>) /\ LockIsLast(0, <<>>, at)
  BY <1>1 DEF History, LockHeld, LockIsLast
<1>5. Fresh.failures = <<>> /\ Fresh.lockedUntil = 0
  BY DEF Fresh, NoLock
<1> QED BY <1>3, <1>4, <1>5 DEF Tracks

LEMMA FreshIsState == Fresh \in AttemptType /\ Fresh.lockedUntil = 0 /\ IsOver(Fresh)
BY DEF Fresh, NoLock, AttemptType, IsOver

(* Time passes. *)
LEMMA TickTracks ==
    ASSUME NEW at \in Nat, NEW state \in AttemptType, NEW T, Tracks(state, T, at)
    PROVE  Tracks(state, T, at + 1)
<1>1. /\ Len(T) \in Nat /\ DOMAIN T = 1..Len(T) /\ T \in Seq(Nat)
      /\ \A i \in 1..Len(T) : T[i] \in Nat /\ T[i] <= at
      /\ \A i, j \in 1..Len(T) : i <= j => T[i] <= T[j]
  BY HistoryFacts DEF Tracks, History
<1>2. History(T, at + 1)
  BY <1>1 DEF History
<1>3. KeepsRecent(state.failures, T, at + 1)
  <2>1. PICK d \in 0..Len(T) : /\ AllButFirst(state.failures, T, d)
                              /\ \A j \in 1..d : at - T[j] >= Window
    BY DEF Tracks, KeepsRecent
  <2>2. ASSUME NEW j \in 1..d PROVE (at + 1) - T[j] >= Window
    <3>1. j \in 1..Len(T)
      BY <1>1
    <3>2. T[j] \in Nat /\ at - T[j] >= Window
      BY <1>1, <2>1, <3>1
    <3> QED BY <3>2, LimiterConstants
  <2> QED BY <2>1, <2>2 DEF KeepsRecent
<1>4. LockIsLast(state.lockedUntil, T, at + 1)
  <2>1. LockIsLast(state.lockedUntil, T, at) /\ state.lockedUntil \in Nat
    BY DEF Tracks, LockIsLast
  <2>2. ASSUME state.lockedUntil > at + 1
        PROVE  \E m \in DOMAIN T : Exhausting(T, m) /\ state.lockedUntil = T[m] + LockTime
    <3>1. state.lockedUntil > at
      BY <2>1, <2>2
    <3> QED BY <2>1, <3>1 DEF LockIsLast
  <2>3. ASSUME NEW m \in DOMAIN T, Exhausting(T, m), T[m] + LockTime > at + 1
        PROVE  state.lockedUntil >= T[m] + LockTime
    <3>1. T[m] + LockTime > at
      BY <1>1, <2>3, LimiterConstants
    <3> QED BY <2>1, <2>3, <3>1 DEF LockIsLast
  <2> QED BY <2>1, <2>2, <2>3 DEF LockIsLast
<1> QED BY <1>2, <1>3, <1>4 DEF Tracks

(* One more failure of a key that is not locked: the failures kept are all *)
(* those of the window, so their number says whether this one exhausts it. *)
LEMMA FailedTracks ==
    ASSUME clock \in Nat, NEW state \in AttemptType, NEW T, Tracks(state, T, clock),
           state.lockedUntil <= clock
    PROVE  /\ Failed(state) \in AttemptType
           /\ Tracks(Failed(state), Append(T, clock), clock)
<1> DEFINE n == Len(T)   U == Append(T, clock)
           g == Trimmed(state.failures)   F == Append(g, clock)
           until == IF Len(F) >= MaxAttempts THEN clock + LockTime ELSE state.lockedUntil
<1>1. /\ n \in Nat /\ DOMAIN T = 1..n /\ T \in Seq(Nat)
      /\ \A i \in 1..n : T[i] \in Nat /\ T[i] <= clock
      /\ \A i, j \in 1..n : i <= j => T[i] <= T[j]
  BY HistoryFacts DEF Tracks, History
<1>2. PICK d \in 0..n : /\ AllButFirst(g, T, d)
                       /\ \A j \in 1..n : InWindow(T[j]) <=> j > d
  BY TrimKeeps DEF Tracks
<1>3. /\ g \in Seq(Nat) /\ Len(g) = n - d /\ \A j \in 1..Len(g) : g[j] = T[d + j]
  BY <1>2 DEF AllButFirst
<1>4. /\ U \in Seq(Nat) /\ Len(U) = n + 1 /\ DOMAIN U = 1..(n + 1)
      /\ U[n + 1] = clock /\ \A i \in 1..n : U[i] = T[i]
  BY <1>1
<1>5. /\ F \in Seq(Nat) /\ Len(F) = n - d + 1
      /\ F[n - d + 1] = clock /\ \A j \in 1..(n - d) : F[j] = T[d + j]
  BY <1>1, <1>3
<1>6. /\ Failed(state).failures = F /\ Failed(state).lockedUntil = until
      /\ Failed(state) = [failures |-> F, lockedUntil |-> until, updatedAt |-> clock]
  BY DEF Failed
<1>7. LockIsLast(state.lockedUntil, T, clock) /\ state.lockedUntil \in Nat /\ LockHeld(T)
  BY DEF Tracks, LockIsLast
<1> HIDE DEF U, F, g
<1>8. until \in Nat
  BY <1>7, LimiterConstants
<1>9. Failed(state) \in AttemptType
  BY <1>5, <1>6, <1>8 DEF AttemptType
<1> HIDE DEF n
<1>10. History(U, clock)
  <2>1. \A i \in 1..(n + 1) : U[i] \in Nat /\ U[i] <= clock
    BY <1>1, <1>4
  <2>2. ASSUME NEW i \in 1..(n + 1), NEW j \in 1..(n + 1), i <= j PROVE U[i] <= U[j]
    <3>1. CASE j = n + 1
      BY <1>4, <2>1, <3>1
    <3>2. CASE j # n + 1
      <4>1. i \in 1..n /\ j \in 1..n
        BY <1>1, <2>2, <3>2
      <4> QED BY <1>1, <1>4, <2>2, <4>1
    <3> QED BY <3>1, <3>2
  <2> QED BY <1>4, <2>1, <2>2 DEF History
<1>11. KeepsRecent(F, U, clock)
  <2>1. d \in 0..Len(U) /\ Len(F) = Len(U) - d
    BY <1>1, <1>4, <1>5
  <2>2. ASSUME NEW j \in 1..Len(F) PROVE F[j] = U[d + j]
    <3>1. CASE j = n - d + 1
      <4>1. d + j = n + 1
        BY <1>1, <3>1
      <4> QED BY <1>4, <1>5, <3>1, <4>1
    <3>2. CASE j # n - d + 1
      <4>1. j \in 1..(n - d) /\ d + j \in 1..n
        BY <1>1, <1>5, <3>2
      <4> QED BY <1>4, <1>5, <4>1
    <3> QED BY <3>1, <3>2
  <2>3. AllButFirst(F, U, d)
    BY <1>5, <2>1, <2>2 DEF AllButFirst
  <2>4. ASSUME NEW j \in 1..d PROVE clock - U[j] >= Window
    <3>1. j \in 1..n /\ ~(j > d)
      BY <1>1
    <3>2. U[j] = T[j] /\ T[j] \in Nat /\ ~InWindow(T[j])
      BY <1>1, <1>2, <1>4, <3>1
    <3> QED BY <3>2, LimiterConstants DEF InWindow
  <2> QED BY <2>1, <2>3, <2>4 DEF KeepsRecent
<1>12. ASSUME NEW m \in 1..n PROVE Exhausting(U, m) <=> Exhausting(T, m)
  <2>1. m \in DOMAIN U /\ m \in DOMAIN T /\ U[m] = T[m]
    BY <1>1, <1>4
  <2>2. CASE m >= MaxAttempts
    <3>1. m - MaxAttempts + 1 \in 1..n
      BY <1>1, <2>2, LimiterConstants
    <3>2. U[m - MaxAttempts + 1] = T[m - MaxAttempts + 1]
      BY <1>4, <3>1
    <3> QED BY <2>1, <3>2 DEF Exhausting
  <2>3. CASE ~(m >= MaxAttempts)
    BY <2>3 DEF Exhausting
  <2> QED BY <2>2, <2>3
<1>13. Exhausting(U, n + 1) <=> Len(F) >= MaxAttempts
  <2> DEFINE i == n + 1 - MaxAttempts + 1
  <2>1. n + 1 \in DOMAIN U /\ U[n + 1] = clock
    BY <1>1, <1>4
  <2>2. CASE n + 1 >= MaxAttempts
    <3>1. i \in 1..(n + 1) /\ (i = n + 1 <=> MaxAttempts = 1)
      BY <1>1, <2>2, LimiterConstants
    <3>2. Exhausting(U, n + 1) <=> clock - U[i] < Window
      <4>1. (n + 1) - MaxAttempts + 1 = i
        BY <1>1, LimiterConstants
      <4>2. Exhausting(U, n + 1) <=> U[n + 1] - U[(n + 1) - MaxAttempts + 1] < Window
        BY <2>1, <2>2 DEF Exhausting
      <4> QED BY <2>1, <4>1, <4>2
    <3>3. CASE i = n + 1
      <4>1. clock - U[i] = 0 /\ n - d + 1 >= 1
        BY <1>1, <2>1, <3>3
      <4> QED BY <1>1, <1>5, <3>1, <3>2, <3>3, <4>1, LimiterConstants
    <3>4. CASE i # n + 1
      <4>1. i \in 1..n
        BY <1>1, <3>1, <3>4
      <4>2. U[i] = T[i] /\ (clock - T[i] < Window <=> i > d)
        BY <1>2, <1>4, <4>1 DEF InWindow
      <4>3. i > d <=> n - d + 1 >= MaxAttempts
        BY <1>1, LimiterConstants
      <4> QED BY <1>5, <3>2, <4>2, <4>3
    <3> QED BY <3>3, <3>4
  <2>3. CASE ~(n + 1 >= MaxAttempts)
    <3>1. ~(n - d + 1 >= MaxAttempts)
      BY <1>1, <2>3, LimiterConstants
    <3> QED BY <1>5, <2>3, <3>1 DEF Exhausting
  <2> QED BY <2>2, <2>3
<1>14. ASSUME NEW m \in 1..n, Exhausting(T, m) PROVE T[m] + LockTime <= clock
  <2>1. m \in DOMAIN T /\ T[m] \in Nat
    BY <1>1
  <2> QED BY <1>7, <1>14, <2>1, LimiterConstants DEF LockIsLast
<1>15. LockHeld(U)
  <2>1. SUFFICES ASSUME NEW m \in DOMAIN U, Exhausting(U, m), m < Len(U)
                 PROVE  U[m + 1] >= U[m] + LockTime
    BY DEF LockHeld
  <2>2. m \in 1..n /\ U[m] = T[m] /\ Exhausting(T, m)
    BY <1>1, <1>4, <1>12, <2>1
  <2>3. CASE m = n
    <3>1. U[m + 1] = clock /\ T[m] + LockTime <= clock /\ T[m] \in Nat
      BY <1>1, <1>4, <1>14, <2>2, <2>3
    <3> QED BY <2>2, <3>1, LimiterConstants
  <2>4. CASE m # n
    <3>1. m + 1 \in 1..n /\ m < Len(T) /\ m \in DOMAIN T
      BY <1>1, <2>2, <2>4 DEF n
    <3>2. T[m + 1] >= T[m] + LockTime
      BY <1>7, <2>2, <3>1 DEF LockHeld
    <3>3. U[m + 1] = T[m + 1]
      BY <1>4, <3>1
    <3> QED BY <2>2, <3>2, <3>3
  <2> QED BY <2>3, <2>4
<1>16. LockIsLast(until, U, clock)
  <2>1. ASSUME until > clock
        PROVE  \E m \in DOMAIN U : Exhausting(U, m) /\ until = U[m] + LockTime
    <3>1. Len(F) >= MaxAttempts /\ until = clock + LockTime
      BY <1>7, <2>1
    <3>2. n + 1 \in DOMAIN U /\ U[n + 1] = clock
      BY <1>1, <1>4
    <3> QED BY <1>13, <3>1, <3>2
  <2>2. ASSUME NEW m \in DOMAIN U, Exhausting(U, m), U[m] + LockTime > clock
        PROVE  until >= U[m] + LockTime
    <3>1. CASE m = n + 1
      <4>1. Len(F) >= MaxAttempts /\ U[m] = clock
        BY <1>4, <1>13, <2>2, <3>1
      <4> QED BY <4>1, LimiterConstants
    <3>2. CASE m # n + 1
      <4>1. m \in 1..n
        BY <1>1, <1>4, <2>2, <3>2
      <4>2. U[m] = T[m] /\ T[m] \in Nat /\ T[m] + LockTime <= clock
        BY <1>1, <1>4, <1>12, <1>14, <2>2, <4>1
      <4> QED BY <2>2, <4>2, LimiterConstants
    <3> QED BY <3>1, <3>2
  <2> QED BY <1>8, <2>1, <2>2 DEF LockIsLast
<1>17. Tracks(Failed(state), U, clock)
  BY <1>6, <1>10, <1>11, <1>15, <1>16 DEF Tracks
<1> QED BY <1>9, <1>17 DEF U

-----------------------------------------------------------------------------
(* The steps of the limiter *)

(* What is remembered is the rest of a sequence. *)
LEMMA RestFacts ==
    ASSUME NEW T \in Seq(Nat), NEW n \in 0..Len(T)
    PROVE  LET rest == SubSeq(T, n + 1, Len(T))
           IN  /\ rest \in Seq(Nat) /\ Len(rest) = Len(T) - n
               /\ \A j \in 1..Len(rest) : rest[j] = T[n + j]
               /\ rest # <<>> => rest[Len(rest)] = T[Len(T)]
<1> DEFINE rest == SubSeq(T, n + 1, Len(T))   l == Len(T)
<1>1. l \in Nat /\ n \in Nat /\ n <= l /\ \A i \in 1..l : T[i] \in Nat
  OBVIOUS
<1> HIDE DEF l
<1>2. /\ rest \in Seq(Nat)
      /\ Len(rest) = IF n + 1 <= l THEN l - (n + 1) + 1 ELSE 0
      /\ \A j \in 1..(l - (n + 1) + 1) : rest[j] = T[(n + 1) + j - 1]
  <2>1. n + 1 \in Int /\ l \in Int /\ \A i \in (n + 1)..l : T[i] \in Nat
    BY <1>1
  <2>2. rest = SubSeq(T, n + 1, l)
    BY DEF l
  <2> HIDE DEF rest
  <2> QED BY <2>1, <2>2, SubSeqProperties
<1> HIDE DEF rest
<1>3. Len(rest) = l - n
  BY <1>1, <1>2
<1>4. ASSUME NEW j \in 1..Len(rest) PROVE rest[j] = T[n + j]
  <2>1. j \in 1..(l - (n + 1) + 1) /\ (n + 1) + j - 1 = n + j
    BY <1>1, <1>3
  <2> QED BY <1>2, <2>1
<1>5. ASSUME rest # <<>> PROVE rest[Len(rest)] = T[l]
  <2>1. Len(rest) \in Nat /\ Len(rest) # 0
    BY <1>2, <1>5
  <2>2. Len(rest) \in 1..Len(rest) /\ n + Len(rest) = l
    BY <1>1, <1>3, <2>1
  <2> QED BY <1>4, <2>2
<1> QED BY <1>2, <1>3, <1>4, <1>5 DEF rest, l

(* It grows with the sequence, and there is none of the whole of it. *)
LEMMA RestGrows ==
    ASSUME NEW T \in Seq(Nat), NEW n \in 0..Len(T), NEW x \in Nat
    PROVE  /\ SubSeq(Append(T, x), n + 1, Len(Append(T, x)))
                = Append(SubSeq(T, n + 1, Len(T)), x)
           /\ SubSeq(T, Len(T) + 1, Len(T)) = <<>>
<1> DEFINE U == Append(T, x)   new == SubSeq(U, n + 1, Len(U))   old == SubSeq(T, n + 1, Len(T))
           l == Len(T)
<1>1. /\ U \in Seq(Nat) /\ Len(U) = l + 1 /\ l \in Nat /\ n \in 0..Len(U) /\ n \in Nat /\ n <= l
      /\ U[l + 1] = x /\ \A i \in 1..l : U[i] = T[i]
  OBVIOUS
<1>2. old \in Seq(Nat) /\ Len(old) = l - n /\ \A j \in 1..Len(old) : old[j] = T[n + j]
  BY RestFacts
<1> HIDE DEF U
<1>3. new \in Seq(Nat) /\ Len(new) = l + 1 - n /\ \A j \in 1..Len(new) : new[j] = U[n + j]
  BY <1>1, RestFacts
<1> HIDE DEF new, old, l
<1>4. /\ Append(old, x) \in Seq(Nat) /\ Len(Append(old, x)) = l - n + 1
      /\ Append(old, x)[l - n + 1] = x /\ \A j \in 1..(l - n) : Append(old, x)[j] = old[j]
  BY <1>2
<1>5. Len(new) = Len(Append(old, x))
  BY <1>1, <1>3, <1>4
<1>6. ASSUME NEW j \in 1..Len(new) PROVE new[j] = Append(old, x)[j]
  <2>1. CASE j = l - n + 1
    <3>1. n + j = l + 1
      BY <1>1, <2>1
    <3> QED BY <1>1, <1>3, <1>4, <2>1, <3>1
  <2>2. CASE j # l - n + 1
    <3>1. j \in 1..(l - n) /\ n + j \in 1..l
      BY <1>1, <1>3, <2>2
    <3> QED BY <1>1, <1>2, <1>3, <1>4, <3>1
  <2> QED BY <2>1, <2>2
<1>7. new = Append(old, x)
  BY <1>3, <1>4, <1>5, <1>6, SeqEqual
<1>8. SubSeq(T, l + 1, Len(T)) = <<>>
  <2>1. l \in 0..Len(T) /\ l = Len(T)
    BY <1>1 DEF l
  <2>2. /\ SubSeq(T, l + 1, Len(T)) \in Seq(Nat)
        /\ Len(SubSeq(T, l + 1, Len(T))) = Len(T) - l
    BY <2>1, RestFacts
  <2> QED BY <1>1, <2>1, <2>2
<1> QED BY <1>7, <1>8 DEF new, old, U, l

LEMMA RememberedFacts ==
    ASSUME Observed, NEW k \in Keys
    PROVE  /\ Remembered(k) \in Seq(Nat)
           /\ Len(Remembered(k)) = Len(tries[k]) - forgotten[k]
           /\ Remembered(k) # <<>> => Remembered(k)[Len(Remembered(k))] = tries[k][Len(tries[k])]
BY RestFacts DEF Observed, Remembered

LEMMA LimiterStarts == LimiterInit => LimiterInv
<1>1. SUFFICES ASSUME LimiterInit PROVE LimiterInv
  OBVIOUS
<1>2. /\ clock = 1 /\ DOMAIN states = {} /\ tries = [k \in Keys |-> <<>>]
      /\ forgotten = [k \in Keys |-> 0]
  BY <1>1 DEF LimiterInit
<1>3. IsFiniteSet({}) /\ Cardinality({}) = 0
  BY FS_EmptySet
<1>4. Observed
  BY <1>2 DEF Observed
<1>5. ASSUME NEW k \in Keys PROVE Tracks(StateIn(states, k), Remembered(k), clock)
  <2>1. StateIn(states, k) = Fresh /\ Len(tries[k]) = 0 /\ forgotten[k] = 0
    BY <1>2 DEF StateIn
  <2>2. Remembered(k) \in Seq(Nat) /\ Len(Remembered(k)) = 0
    BY <1>4, <2>1, RememberedFacts
  <2>3. Remembered(k) = <<>>
    BY <2>2
  <2> QED BY <1>2, <2>1, <2>3, NothingTracked
<1>6. Cardinality(DOMAIN states) <= MaxKeys
  BY <1>2, <1>3, LimiterConstants
<1> QED BY <1>2, <1>3, <1>4, <1>5, <1>6 DEF LimiterInv

LEMMA TickKeeps == LimiterInv /\ ClockTicks => LimiterInv'
<1>1. SUFFICES ASSUME LimiterInv, ClockTicks PROVE LimiterInv'
  OBVIOUS
<1>2. /\ clock \in Nat /\ clock' = clock + 1 /\ states' = states
      /\ tries' = tries /\ forgotten' = forgotten
  BY <1>1 DEF LimiterInv, ClockTicks
<1>3. \A k : Remembered(k)' = Remembered(k)
  BY <1>2 DEF Remembered
<1>4. ASSUME NEW k \in Keys PROVE Tracks(StateIn(states, k), Remembered(k), clock + 1)
  <2>1. Tracks(StateIn(states, k), Remembered(k), clock)
    BY <1>1 DEF LimiterInv
  <2>2. StateIn(states, k) \in AttemptType
    BY <1>1, FreshIsState DEF LimiterInv, StateIn
  <2> QED BY <1>2, <2>1, <2>2, TickTracks
<1>5. Observed'
  BY <1>1, <1>2 DEF LimiterInv, Observed
<1> QED BY <1>1, <1>2, <1>3, <1>4, <1>5 DEF LimiterInv

(* The table of a login: what the purge leaves of each key tracks its *)
(* failures as well as before. *)
LEMMA PurgedTracks ==
    ASSUME LimiterInv, NEW k \in Keys
    PROVE  /\ StateIn(Purged, k) \in AttemptType
           /\ Tracks(StateIn(Purged, k), Remembered(k), clock)
           /\ ~IsLocked(k) => StateIn(Purged, k).lockedUntil <= clock
<1> DEFINE kept == {x \in DOMAIN states : ~IsOver(Renewed(states[x]))}
<1>1. Purged = [x \in kept |-> Renewed(states[x])]
  BY DEF Purged, Restrict
<1>2. clock \in Nat /\ Tracks(StateIn(states, k), Remembered(k), clock)
  BY DEF LimiterInv
<1>3. CASE k \notin DOMAIN states
  <2>1. k \notin DOMAIN Purged
    BY <1>1, <1>3
  <2>2. StateIn(Purged, k) = Fresh /\ StateIn(states, k) = Fresh
    BY <1>3, <2>1 DEF StateIn
  <2> QED BY <1>2, <2>2, FreshIsState
<1>4. CASE k \in DOMAIN states
  <2> DEFINE r == Renewed(states[k])
  <2>1. states[k] \in AttemptType /\ Tracks(states[k], Remembered(k), clock)
    BY <1>2, <1>4 DEF LimiterInv, StateIn
  <2>2. /\ r \in AttemptType /\ Tracks(r, Remembered(k), clock)
        /\ states[k].lockedUntil <= clock => r.lockedUntil = NoLock
    BY <1>2, <2>1, RenewedTracks
  <2>3. ~IsLocked(k) => r.lockedUntil = NoLock
    BY <1>2, <1>4, <2>1, <2>2 DEF IsLocked, AttemptType
  <2> HIDE DEF r
  <2>4. CASE IsOver(r)
    <3>1. k \notin DOMAIN Purged
      BY <1>1, <2>4 DEF r
    <3>2. StateIn(Purged, k) = Fresh
      BY <3>1 DEF StateIn
    <3>3. r.failures = Fresh.failures /\ r.lockedUntil = Fresh.lockedUntil
      BY <2>4, FreshIsState DEF IsOver
    <3>4. Tracks(Fresh, Remembered(k), clock)
      BY <2>2, <3>3 DEF Tracks
    <3> QED BY <1>2, <3>2, <3>4, FreshIsState
  <2>5. CASE ~IsOver(r)
    <3>1. k \in DOMAIN Purged /\ Purged[k] = r
      BY <1>1, <1>4, <2>5 DEF r
    <3>2. StateIn(Purged, k) = r
      BY <3>1 DEF StateIn
    <3> QED BY <1>2, <2>2, <2>3, <3>2 DEF NoLock
  <2> QED BY <2>4, <2>5
<1> QED BY <1>3, <1>4

LEMMA PurgedDomain == LimiterInv => DOMAIN Purged \subseteq DOMAIN states
BY DEF Purged, Restrict

(* A table that overflows is full afterwards. *)
LEMMA FullAfterDrop ==
    ASSUME NEW table, IsFiniteSet(DOMAIN table), ~(Cardinality(DOMAIN table) <= MaxKeys),
           NEW dropped \in Evictions(table)
    PROVE  /\ Cardinality(DOMAIN table \ dropped) = MaxKeys
           /\ \A d \in dropped, k \in DOMAIN table \ dropped :
                table[d].updatedAt <= table[k].updatedAt
<1>1. /\ dropped \in SUBSET DOMAIN table
      /\ Cardinality(dropped) = Cardinality(DOMAIN table) - MaxKeys
      /\ \A d \in dropped, k \in DOMAIN table \ dropped :
           table[d].updatedAt <= table[k].updatedAt
  BY DEF Evictions
<1>2. Cardinality(DOMAIN table) \in Nat
  BY FS_CardinalityType
<1>3. Cardinality(DOMAIN table \ dropped)
        = Cardinality(DOMAIN table) - Cardinality(DOMAIN table \cap dropped)
  BY <1>1, FS_Subset, FS_Difference
<1>4. DOMAIN table \cap dropped = dropped
  BY <1>1
<1>5. \A size \in Nat : size - (size - MaxKeys) = MaxKeys
  BY LimiterConstants
<1>6. Cardinality(DOMAIN table \ dropped) = MaxKeys
  BY <1>1, <1>2, <1>3, <1>4, <1>5
<1> QED BY <1>1, <1>6

(* A key that stays has failed in the window or is locked. *)
LEMMA PurgedCounts ==
    ASSUME LimiterInv, NEW k \in DOMAIN Purged
    PROVE  /\ k \in Keys /\ UpToDate(Purged[k], Remembered(k))
           /\ InWindow(LastFailure(k)) \/ Purged[k].lockedUntil > clock
<1> DEFINE kept == {x \in DOMAIN states : ~IsOver(Renewed(states[x]))}
           T == Remembered(k)   n == Len(T)   r == Renewed(states[k])
<1>1. Purged = [x \in kept |-> Renewed(states[x])]
  BY DEF Purged, Restrict
<1>2. k \in DOMAIN states /\ ~IsOver(r) /\ Purged[k] = r
  BY <1>1
<1>3. /\ k \in Keys /\ clock \in Nat /\ states[k] \in AttemptType
      /\ UpToDate(states[k], T) /\ Tracks(states[k], T, clock)
  BY <1>2 DEF LimiterInv, StateIn
<1> HIDE DEF T
<1>4. /\ r.updatedAt = states[k].updatedAt /\ r.failures = Trimmed(states[k].failures)
      /\ r.lockedUntil = IF states[k].lockedUntil <= clock THEN 0 ELSE states[k].lockedUntil
      /\ states[k].lockedUntil \in Nat
  BY <1>3 DEF Renewed, AttemptType, NoLock
<1> HIDE DEF r
<1>5. UpToDate(Purged[k], T)
  BY <1>2, <1>3, <1>4 DEF UpToDate
<1>6. PICK d \in 0..n : /\ AllButFirst(r.failures, T, d)
                        /\ \A j \in 1..n : InWindow(T[j]) <=> j > d
  BY <1>3, <1>4, TrimKeeps DEF Tracks
<1>7. T \in Seq(Nat) /\ T # <<>>
  BY <1>3 DEF Tracks, History, UpToDate
<1>8. n \in Nat /\ n \in 1..n
  BY <1>7
<1>9. CASE r.failures # <<>>
  <2>1. r.failures \in Seq(Nat) /\ Len(r.failures) = n - d
    BY <1>6 DEF AllButFirst
  <2>2. n > d
    BY <1>8, <1>9, <2>1
  <2>3. InWindow(T[n])
    BY <1>6, <1>8, <2>2
  <2> QED BY <1>3, <1>5, <2>3 DEF LastFailure, T
<1>10. CASE r.failures = <<>>
  <2>1. r.lockedUntil # 0
    BY <1>2, <1>10 DEF IsOver, NoLock
  <2>2. r.lockedUntil > clock
    BY <1>3, <1>4, <2>1
  <2> QED BY <1>2, <1>3, <1>5, <2>2 DEF T
<1> QED BY <1>9, <1>10

(* The table and what is remembered, after a failure of both keys that made *)
(* the table drop some. *)
FailureChanges(both, table, dropped) ==
    /\ table = Counted(Purged, both)
    /\ dropped \in Evictions(table) /\ dropped \subseteq DOMAIN table
    /\ IsFiniteSet(DOMAIN table) /\ DOMAIN table \subseteq Keys
    /\ DOMAIN table = DOMAIN Purged \cup both
    /\ \A k \in DOMAIN table : table[k] = IF k \in both THEN Failed(StateIn(Purged, k))
                                          ELSE StateIn(Purged, k)
    /\ DOMAIN states' = DOMAIN table \ dropped
    /\ \A k \in DOMAIN states' : states'[k] = table[k]
    /\ clock' = clock /\ Observed'
    /\ \A k \in Keys \ dropped : forgotten'[k] = forgotten[k]
    /\ \A k \in Keys : tries'[k] = IF k \in both THEN Append(tries[k], clock) ELSE tries[k]
    /\ \A k \in Keys : Remembered(k)' = IF k \in dropped THEN <<>>
                                        ELSE IF k \in both THEN Append(Remembered(k), clock)
                                        ELSE Remembered(k)

LEMMA FailureFacts ==
    ASSUME LimiterInv, NEW address \in Addresses, NEW user \in Users,
           PasswordWrong(address, user)
    PROVE  \E table, dropped : FailureChanges({address, user}, table, dropped)
<1> DEFINE both == {address, user}   table == Counted(Purged, both)
<1>1. /\ clock \in Nat /\ clock' = clock /\ both \subseteq Keys /\ Observed
  BY DEF LimiterInv, PasswordWrong, Keys
<1>2. PICK dropped \in Evictions(table) :
        /\ states' = Restrict(table, DOMAIN table \ dropped)
        /\ tries' = [k \in Keys |-> IF k \in both THEN Append(tries[k], clock) ELSE tries[k]]
        /\ forgotten' = [k \in Keys |-> IF k \in dropped THEN Len(tries'[k]) ELSE forgotten[k]]
  BY DEF PasswordWrong, RecordFailure
<1>3. /\ DOMAIN table = DOMAIN Purged \cup both
      /\ \A k \in DOMAIN table : table[k] = IF k \in both THEN Failed(StateIn(Purged, k))
                                            ELSE StateIn(Purged, k)
  BY DEF Counted, StateIn
<1>4. DOMAIN Purged \subseteq Keys /\ DOMAIN states \subseteq Keys /\ IsFiniteSet(DOMAIN states)
  BY PurgedDomain DEF LimiterInv
<1> HIDE DEF table
<1>5. IsFiniteSet(DOMAIN table) /\ DOMAIN table \subseteq Keys
  <2>1. IsFiniteSet(DOMAIN Purged)
    BY <1>4, PurgedDomain, FS_Subset
  <2>2. IsFiniteSet(both)
    <3>1. IsFiniteSet({}) BY FS_EmptySet
    <3>2. IsFiniteSet({address}) BY <3>1, FS_AddElement
    <3> QED BY <3>2, FS_AddElement
  <2>3. IsFiniteSet(DOMAIN Purged \cup both)
    BY <2>1, <2>2, FS_Union
  <2> QED BY <1>1, <1>3, <1>4, <2>3
<1>6. dropped \subseteq DOMAIN table
  BY <1>2 DEF Evictions
<1>7. /\ DOMAIN states' = DOMAIN table \ dropped
      /\ \A k \in DOMAIN states' : states'[k] = table[k]
  BY <1>2 DEF Restrict
<1> HIDE DEF both
<1>8. ASSUME NEW k \in Keys
      PROVE  /\ tries'[k] = IF k \in both THEN Append(tries[k], clock) ELSE tries[k]
             /\ forgotten'[k] = IF k \in dropped THEN Len(tries'[k]) ELSE forgotten[k]
             /\ tries'[k] \in Seq(Nat) /\ forgotten'[k] \in 0..Len(tries'[k])
             /\ Remembered(k)' = IF k \in dropped THEN <<>>
                                 ELSE IF k \in both THEN Append(Remembered(k), clock)
                                 ELSE Remembered(k)
  <2>1. /\ tries'[k] = IF k \in both THEN Append(tries[k], clock) ELSE tries[k]
        /\ forgotten'[k] = IF k \in dropped THEN Len(tries'[k]) ELSE forgotten[k]
    BY <1>2
  <2>2. tries[k] \in Seq(Nat) /\ forgotten[k] \in 0..Len(tries[k])
    BY <1>1 DEF Observed
  <2>3. /\ tries'[k] \in Seq(Nat) /\ Len(tries'[k]) \in Nat /\ Len(tries[k]) <= Len(tries'[k])
        /\ Len(tries[k]) \in Nat
    BY <1>1, <2>1, <2>2
  <2>4. forgotten'[k] \in 0..Len(tries'[k])
    BY <2>1, <2>2, <2>3
  <2>5. Remembered(k)' = SubSeq(tries'[k], forgotten'[k] + 1, Len(tries'[k]))
    BY DEF Remembered
  <2>6. CASE k \in dropped
    <3>1. 0 \in 0..Len(tries'[k]) /\ 0 \in Nat
      BY <2>3
    <3>2. SubSeq(tries'[k], Len(tries'[k]) + 1, Len(tries'[k])) = <<>>
      BY <2>3, <3>1, RestGrows
    <3>3. Remembered(k)' = <<>>
      BY <2>1, <2>5, <2>6, <3>2
    <3> QED BY <2>1, <2>3, <2>4, <2>6, <3>3
  <2>7. CASE k \notin dropped /\ k \in both
    <3>1. Remembered(k)' = Append(Remembered(k), clock)
      BY <1>1, <2>1, <2>2, <2>5, <2>7, RestGrows DEF Remembered
    <3> QED BY <2>1, <2>3, <2>4, <2>7, <3>1
  <2>8. CASE k \notin dropped /\ k \notin both
    <3>1. Remembered(k)' = Remembered(k)
      BY <2>1, <2>5, <2>8 DEF Remembered
    <3> QED BY <2>1, <2>3, <2>4, <2>8, <3>1
  <2> QED BY <2>6, <2>7, <2>8
<1>9. Observed'
  <2>1. DOMAIN tries' = Keys /\ DOMAIN forgotten' = Keys
    BY <1>2
  <2> QED BY <1>8, <2>1 DEF Observed
<1>10. \A k \in Keys \ dropped : forgotten'[k] = forgotten[k]
  BY <1>8
<1>11. FailureChanges(both, table, dropped)
  <2>1. table = Counted(Purged, both)
    BY DEF table
  <2> QED BY <1>1, <1>2, <1>3, <1>5, <1>6, <1>7, <1>8, <1>9, <1>10, <2>1 DEF FailureChanges
<1> QED BY <1>11 DEF both

(* A wrong password for keys that are not locked *)
LEMMA FailureKeeps ==
    ASSUME LimiterInv, NEW address \in Addresses, NEW user \in Users,
           PasswordWrong(address, user)
    PROVE  LimiterInv'
<1> DEFINE both == {address, user}
<1>1. /\ clock \in Nat /\ both \subseteq Keys /\ Observed
      /\ \A k \in both : ~IsLocked(k)
  BY DEF LimiterInv, PasswordWrong, MayVerify, Keys
<1>2. PICK table, dropped : FailureChanges(both, table, dropped)
  BY FailureFacts
<1> HIDE DEF both
<1>3. /\ dropped \in Evictions(table) /\ dropped \subseteq DOMAIN table
      /\ IsFiniteSet(DOMAIN table) /\ DOMAIN table \subseteq Keys
      /\ DOMAIN table = DOMAIN Purged \cup both
      /\ DOMAIN states' = DOMAIN table \ dropped
      /\ clock' = clock /\ Observed'
  BY <1>2 DEF FailureChanges
<1>4. /\ \A k \in DOMAIN table : table[k] = IF k \in both THEN Failed(StateIn(Purged, k))
                                            ELSE StateIn(Purged, k)
      /\ \A k \in DOMAIN states' : states'[k] = table[k]
      /\ \A k \in Keys : Remembered(k)' = IF k \in dropped THEN <<>>
                                          ELSE IF k \in both THEN Append(Remembered(k), clock)
                                          ELSE Remembered(k)
  BY <1>2 DEF FailureChanges
<1>5. IsFiniteSet(DOMAIN states') /\ Cardinality(DOMAIN states') <= MaxKeys
  <2>1. IsFiniteSet(DOMAIN states')
    BY <1>3, FS_Subset
  <2>2. Cardinality(DOMAIN table) \in Nat
    BY <1>3, FS_CardinalityType
  <2>3. CASE Cardinality(DOMAIN table) <= MaxKeys
    <3>1. Cardinality(DOMAIN states') <= Cardinality(DOMAIN table) /\ Cardinality(DOMAIN states') \in Nat
      BY <1>3, FS_Subset, FS_CardinalityType, <2>1
    <3> QED BY <2>1, <2>2, <2>3, <3>1, LimiterConstants
  <2>4. CASE ~(Cardinality(DOMAIN table) <= MaxKeys)
    BY <1>3, <2>1, <2>4, FullAfterDrop, LimiterConstants
  <2> QED BY <2>3, <2>4
<1>6. ASSUME NEW k \in DOMAIN table
      PROVE  LET T == IF k \in both THEN Append(Remembered(k), clock) ELSE Remembered(k)
             IN  table[k] \in AttemptType /\ Tracks(table[k], T, clock) /\ UpToDate(table[k], T)
  <2>1. k \in Keys /\ Remembered(k) \in Seq(Nat)
    BY <1>1, <1>3, RememberedFacts
  <2>2. /\ StateIn(Purged, k) \in AttemptType
        /\ Tracks(StateIn(Purged, k), Remembered(k), clock)
        /\ ~IsLocked(k) => StateIn(Purged, k).lockedUntil <= clock
    BY <2>1, PurgedTracks
  <2>3. CASE k \in both
    <3>1. table[k] = Failed(StateIn(Purged, k)) /\ StateIn(Purged, k).lockedUntil <= clock
      BY <1>1, <1>4, <2>2, <2>3
    <3>2. UpToDate(table[k], Append(Remembered(k), clock))
      <4>1. table[k].updatedAt = clock
        BY <3>1 DEF Failed
      <4>2. /\ Append(Remembered(k), clock) # <<>>
            /\ Append(Remembered(k), clock)[Len(Append(Remembered(k), clock))] = clock
        BY <1>1, <2>1
      <4> QED BY <4>1, <4>2 DEF UpToDate
    <3> QED BY <1>1, <2>2, <2>3, <3>1, <3>2, FailedTracks
  <2>4. CASE k \notin both
    <3>1. k \in DOMAIN Purged /\ table[k] = Purged[k]
      BY <1>3, <1>4, <2>4 DEF StateIn
    <3>2. UpToDate(table[k], Remembered(k))
      BY <3>1, PurgedCounts
    <3> QED BY <1>4, <2>2, <2>4, <3>2
  <2> QED BY <2>3, <2>4
<1>7. ASSUME NEW k \in Keys PROVE Tracks(StateIn(states', k), Remembered(k)', clock)
  <2>1. CASE k \in DOMAIN table \ dropped
    <3>1. /\ StateIn(states', k) = table[k]
          /\ Remembered(k)' = IF k \in both THEN Append(Remembered(k), clock) ELSE Remembered(k)
      BY <1>3, <1>4, <2>1 DEF StateIn
    <3> QED BY <1>6, <2>1, <3>1
  <2>2. CASE k \in dropped
    <3>1. StateIn(states', k) = Fresh /\ Remembered(k)' = <<>>
      BY <1>3, <1>4, <2>2 DEF StateIn
    <3> QED BY <1>1, <3>1, NothingTracked
  <2>3. CASE k \notin DOMAIN table
    <3>1. k \notin both /\ k \notin DOMAIN Purged /\ k \notin dropped
      BY <1>3, <2>3
    <3>2. /\ StateIn(states', k) = Fresh /\ Remembered(k)' = Remembered(k)
          /\ StateIn(Purged, k) = Fresh
      BY <1>3, <1>4, <2>3, <3>1 DEF StateIn
    <3> QED BY <3>2, PurgedTracks
  <2> QED BY <2>1, <2>2, <2>3
<1>8. ASSUME NEW k \in DOMAIN states'
      PROVE  states'[k] \in AttemptType /\ UpToDate(states'[k], Remembered(k)')
  <2>1. k \in DOMAIN table /\ k \notin dropped /\ k \in Keys /\ states'[k] = table[k]
    BY <1>3, <1>4
  <2>2. Remembered(k)' = IF k \in both THEN Append(Remembered(k), clock) ELSE Remembered(k)
    BY <1>4, <2>1
  <2> QED BY <1>6, <2>1, <2>2
<1>9. DOMAIN states' \subseteq Keys
  BY <1>3
<1> QED BY <1>1, <1>3, <1>5, <1>7, <1>8, <1>9 DEF LimiterInv, StateIn

(* A right password forgets both keys. *)
LEMMA SuccessKeeps ==
    ASSUME LimiterInv, NEW address \in Addresses, NEW user \in Users,
           PasswordRight(address, user)
    PROVE  LimiterInv' /\ \A k \in Keys : forgotten'[k] <= forgotten[k]
<1> DEFINE both == {address, user}
<1>1. /\ clock \in Nat /\ clock' = clock
      /\ states' = Restrict(states, DOMAIN states \ both)
      /\ tries' = [k \in Keys |-> IF k \in both THEN <<>> ELSE tries[k]]
      /\ forgotten' = [k \in Keys |-> IF k \in both THEN 0 ELSE forgotten[k]]
  BY DEF LimiterInv, PasswordRight, ClearBoth
<1>2. /\ DOMAIN states' = DOMAIN states \ both
      /\ \A k \in DOMAIN states' : states'[k] = states[k]
  BY <1>1 DEF Restrict
<1>3. /\ DOMAIN states \subseteq Keys /\ IsFiniteSet(DOMAIN states)
      /\ Cardinality(DOMAIN states) <= MaxKeys /\ Observed
  BY DEF LimiterInv
<1>4. IsFiniteSet(DOMAIN states') /\ Cardinality(DOMAIN states') <= MaxKeys
  <2>1. DOMAIN states' \subseteq DOMAIN states
    BY <1>2
  <2>2. /\ IsFiniteSet(DOMAIN states')
        /\ Cardinality(DOMAIN states') <= Cardinality(DOMAIN states)
    BY <1>3, <2>1, FS_Subset
  <2>3. Cardinality(DOMAIN states') \in Nat /\ Cardinality(DOMAIN states) \in Nat
    BY <1>3, <2>2, FS_CardinalityType
  <2> QED BY <1>3, <2>2, <2>3, LimiterConstants
<1> HIDE DEF both
<1>5. ASSUME NEW k \in Keys
      PROVE  /\ tries'[k] \in Seq(Nat) /\ forgotten'[k] \in 0..Len(tries'[k])
             /\ forgotten'[k] <= forgotten[k]
             /\ Remembered(k)' = IF k \in both THEN <<>> ELSE Remembered(k)
  <2>1. tries[k] \in Seq(Nat) /\ forgotten[k] \in 0..Len(tries[k]) /\ Len(tries[k]) \in Nat
    BY <1>3 DEF Observed
  <2>2. CASE k \in both
    <3>1. tries'[k] = <<>> /\ forgotten'[k] = 0 /\ Len(<<>>) = 0
      BY <1>1, <2>2
    <3>2. Remembered(k)' = SubSeq(<<>>, 0 + 1, 0)
      BY <3>1 DEF Remembered
    <3>3. SubSeq(<<>>, 0 + 1, 0) = <<>>
      OBVIOUS
    <3>4. <<>> \in Seq(Nat) /\ 0 \in 0..0 /\ 0 <= forgotten[k]
      BY <2>1
    <3> QED BY <2>2, <3>1, <3>2, <3>3, <3>4
  <2>3. CASE k \notin both
    <3>1. tries'[k] = tries[k] /\ forgotten'[k] = forgotten[k]
      BY <1>1, <2>3
    <3>2. Remembered(k)' = Remembered(k)
      BY <3>1 DEF Remembered
    <3> QED BY <2>1, <2>3, <3>1, <3>2
  <2> QED BY <2>2, <2>3
<1>6. Observed'
  <2>1. DOMAIN tries' = Keys /\ DOMAIN forgotten' = Keys
    BY <1>1
  <2> QED BY <1>5, <2>1 DEF Observed
<1>7. ASSUME NEW k \in Keys PROVE Tracks(StateIn(states', k), Remembered(k)', clock)
  <2>1. CASE k \in both
    <3>1. StateIn(states', k) = Fresh /\ Remembered(k)' = <<>>
      BY <1>2, <1>5, <2>1 DEF StateIn
    <3> QED BY <1>1, <3>1, NothingTracked
  <2>2. CASE k \notin both
    <3>1. StateIn(states', k) = StateIn(states, k) /\ Remembered(k)' = Remembered(k)
      BY <1>2, <1>5, <2>2 DEF StateIn
    <3> QED BY <3>1 DEF LimiterInv
  <2> QED BY <2>1, <2>2
<1>8. ASSUME NEW k \in DOMAIN states'
      PROVE  states'[k] \in AttemptType /\ UpToDate(states'[k], Remembered(k)')
  <2>1. k \in DOMAIN states /\ k \notin both /\ k \in Keys /\ states'[k] = states[k]
    BY <1>2, <1>3
  <2>2. Remembered(k)' = Remembered(k)
    BY <1>5, <2>1
  <2> QED BY <2>1, <2>2 DEF LimiterInv
<1>9. DOMAIN states' \subseteq Keys
  BY <1>2, <1>3
<1> QED BY <1>1, <1>4, <1>5, <1>6, <1>7, <1>8, <1>9 DEF LimiterInv, StateIn

(* The table of the limiter tracks, for every key, the failures since the key *)
(* last succeeded or was evicted.                                             *)
THEOREM LimiterInvariant == LimiterSpec => []LimiterInv
<1>1. LimiterInit => LimiterInv
  BY LimiterStarts
<1>2. LimiterInv /\ [LimiterNext]_limiterVars => LimiterInv'
  <2>1. SUFFICES ASSUME LimiterInv, [LimiterNext]_limiterVars PROVE LimiterInv'
    OBVIOUS
  <2>2. CASE ClockTicks
    BY <2>1, <2>2, TickKeeps
  <2>3. ASSUME NEW address \in Addresses, NEW user \in Users, PasswordWrong(address, user)
        PROVE  LimiterInv'
    BY <2>1, <2>3, FailureKeeps
  <2>4. ASSUME NEW address \in Addresses, NEW user \in Users, PasswordRight(address, user)
        PROVE  LimiterInv'
    BY <2>1, <2>4, SuccessKeeps
  <2>5. CASE UNCHANGED limiterVars
    <3>1. /\ clock' = clock /\ states' = states /\ tries' = tries /\ forgotten' = forgotten
          /\ \A k : Remembered(k)' = Remembered(k)
      BY <2>5 DEF limiterVars, Remembered
    <3> QED BY <2>1, <3>1 DEF LimiterInv, Observed
  <2> QED BY <2>1, <2>2, <2>3, <2>4, <2>5 DEF LimiterNext
<1> QED BY <1>1, <1>2, PTL DEF LimiterSpec

LEMMA LimiterLocks == LimiterInv => LockedWhenExhausted
<1>1. LimiterInv => LockedWhenExhausted
  <2>1. SUFFICES ASSUME LimiterInv, NEW k \in Keys
                 PROVE  IsLocked(k) <=> Exhausts(Remembered(k))
    BY DEF LimiterInv, LockedWhenExhausted
  <2> DEFINE T == Remembered(k)   until == StateIn(states, k).lockedUntil
  <2>2. clock \in Nat /\ Tracks(StateIn(states, k), T, clock)
    BY <2>1 DEF LimiterInv
  <2>3. LockIsLast(until, T, clock) /\ until \in Nat
    BY <2>2 DEF Tracks, LockIsLast
  <2>4. Len(T) \in Nat /\ DOMAIN T = 1..Len(T) /\ \A i \in 1..Len(T) : T[i] \in Nat
    BY <2>2, HistoryFacts DEF Tracks
  <2>5. IsLocked(k) <=> until > clock
    <3>1. CASE k \in DOMAIN states
      BY <3>1 DEF IsLocked, StateIn
    <3>2. CASE k \notin DOMAIN states
      <4>1. until = 0
        BY <3>2, FreshIsState DEF StateIn
      <4> QED BY <2>2, <3>2, <4>1 DEF IsLocked
    <3> QED BY <3>1, <3>2
  <2> HIDE DEF until, T
  <2>6. Exhausts(T) <=> \E m \in DOMAIN T : Exhausting(T, m) /\ clock - T[m] < LockTime
    <3>1. ASSUME NEW m \in DOMAIN T, Exhausting(T, m), clock - T[m] < LockTime
          PROVE  Exhausts(T)
      <4> DEFINE i == m - MaxAttempts + 1
      <4>1. i \in DOMAIN T /\ i + MaxAttempts - 1 = m
        BY <2>4, <3>1, LimiterConstants DEF Exhausting
      <4>2. T[m] - T[i] < Window
        BY <3>1 DEF Exhausting
      <4> HIDE DEF i
      <4> QED BY <3>1, <4>1, <4>2 DEF Exhausts
    <3>2. ASSUME Exhausts(T)
          PROVE  \E m \in DOMAIN T : Exhausting(T, m) /\ clock - T[m] < LockTime
      <4>1. PICK i \in DOMAIN T : /\ i + MaxAttempts - 1 \in DOMAIN T
                                  /\ T[i + MaxAttempts - 1] - T[i] < Window
                                  /\ clock - T[i + MaxAttempts - 1] < LockTime
        BY <3>2 DEF Exhausts
      <4> DEFINE m == i + MaxAttempts - 1
      <4>2. m \in DOMAIN T /\ m >= MaxAttempts /\ m - MaxAttempts + 1 = i
        BY <2>4, <4>1, LimiterConstants
      <4> HIDE DEF m
      <4>3. T[m] - T[i] < Window /\ clock - T[m] < LockTime
        BY <4>1 DEF m
      <4>4. Exhausting(T, m)
        BY <4>2, <4>3 DEF Exhausting
      <4> QED BY <4>2, <4>3, <4>4
    <3> QED BY <3>1, <3>2
  <2>7. ASSUME until > clock
        PROVE  \E m \in DOMAIN T : Exhausting(T, m) /\ clock - T[m] < LockTime
    <3>1. PICK m \in DOMAIN T : Exhausting(T, m) /\ until = T[m] + LockTime
      BY <2>3, <2>7 DEF LockIsLast
    <3> QED BY <2>2, <2>4, <2>7, <3>1, LimiterConstants
  <2>8. ASSUME NEW m \in DOMAIN T, Exhausting(T, m), clock - T[m] < LockTime
        PROVE  until > clock
    <3>1. T[m] \in Nat /\ T[m] + LockTime > clock
      BY <2>2, <2>4, <2>8, LimiterConstants
    <3>2. until >= T[m] + LockTime
      BY <2>3, <2>8, <3>1 DEF LockIsLast
    <3> QED BY <2>2, <2>3, <3>1, <3>2, LimiterConstants
  <2>9. IsLocked(k) <=> Exhausts(T)
    BY <2>5, <2>6, <2>7, <2>8
  <2> QED BY <2>9 DEF T
<1> QED BY <1>1

(* Every key is locked exactly for the lock time after the last of its failures *)
(* that exhausted it, of those the table has not dropped for want of room, and  *)
(* the table is never over its capacity: see LockedWhenExhausted                *)
(* (record_failure, _purge_expired, _enforce_capacity).                         *)
THEOREM LocksFollowFailures == LimiterSpec => []LockedWhenExhausted
BY LimiterLocks, LimiterInvariant, PTL

(* When the lock lasts a window or longer, no window holds more than MaxAttempts *)
(* failures of a key that the table has not dropped since: see FailuresAreRare.   *)
(* Were there more, the one after the exhausting one would have been recorded     *)
(* while the key was locked.                                                      *)
THEOREM FewFailuresPerWindow == LimiterSpec => []FailuresAreRare
<1>1. LimiterInv => FailuresAreRare
  <2>1. SUFFICES ASSUME LimiterInv, LockTime >= Window, NEW k \in Keys
                 PROVE  Cardinality({i \in DOMAIN Remembered(k) : InWindow(Remembered(k)[i])})
                          <= MaxAttempts
    BY DEF FailuresAreRare
  <2> DEFINE T == Remembered(k)   n == Len(T)   recent == {i \in DOMAIN T : InWindow(T[i])}
  <2>2. clock \in Nat /\ History(T, clock) /\ LockHeld(T)
    BY <2>1 DEF LimiterInv, Tracks
  <2> HIDE DEF T
  <2>3. /\ n \in Nat /\ DOMAIN T = 1..n /\ \A i \in 1..n : T[i] \in Nat /\ T[i] <= clock
        /\ \A i, j \in 1..n : i <= j => T[i] <= T[j]
    BY <2>2, HistoryFacts
  <2> HIDE DEF n
  <2>4. ASSUME NEW i \in recent PROVE i > n - MaxAttempts
    <3>1. SUFFICES ASSUME i <= n - MaxAttempts PROVE FALSE
      BY <2>3, LimiterConstants
    <3>2. i \in 1..n /\ InWindow(T[i])
      BY <2>3
    <3> DEFINE m == i + MaxAttempts - 1
    <3>3. m \in 1..n /\ m + 1 \in 1..n /\ m >= MaxAttempts /\ m - MaxAttempts + 1 = i /\ m < n
      BY <2>3, <3>1, <3>2, LimiterConstants
    <3> HIDE DEF m
    <3>4. T[i] \in Nat /\ T[m] \in Nat /\ T[m + 1] \in Nat /\ T[m] <= clock /\ T[m + 1] <= clock
      BY <2>3, <3>2, <3>3
    <3>5. T[i] <= T[m]
      <4>1. i <= m
        BY <3>2, LimiterConstants DEF m
      <4> QED BY <2>3, <3>2, <3>3, <4>1
    <3>6. T[m] - T[i] < Window
      BY <2>2, <3>2, <3>4, LimiterConstants DEF InWindow
    <3>7. Exhausting(T, m)
      BY <2>3, <3>3, <3>6 DEF Exhausting
    <3>8. T[m + 1] >= T[m] + LockTime
      BY <2>2, <2>3, <3>3, <3>7 DEF LockHeld, n
    <3>9. clock - T[i] >= Window
      BY <2>1, <2>2, <3>4, <3>5, <3>8, LimiterConstants
    <3> QED BY <2>2, <3>2, <3>4, <3>9, LimiterConstants DEF InWindow
  <2> DEFINE last == (n - MaxAttempts + 1)..n
  <2>5. recent \subseteq last
    <3>1. ASSUME NEW i \in recent PROVE i \in last
      <4>1. i \in 1..n /\ i > n - MaxAttempts
        BY <2>3, <2>4
      <4> QED BY <2>3, <4>1, LimiterConstants
    <3> QED BY <3>1
  <2>6. IsFiniteSet(last) /\ Cardinality(last) = MaxAttempts
    <3>1. n - MaxAttempts + 1 \in Int /\ n \in Int
      BY <2>3, LimiterConstants
    <3>2. /\ IsFiniteSet(last)
          /\ Cardinality(last) = IF n - MaxAttempts + 1 > n THEN 0
                                 ELSE n - (n - MaxAttempts + 1) + 1
      BY <3>1, FS_Interval
    <3>3. ~(n - MaxAttempts + 1 > n) /\ n - (n - MaxAttempts + 1) + 1 = MaxAttempts
      BY <2>3, LimiterConstants
    <3> QED BY <3>2, <3>3
  <2> HIDE DEF last
  <2>7. Cardinality(recent) <= MaxAttempts
    BY <2>5, <2>6, FS_Subset
  <2> QED BY <2>7 DEF T
<1> QED BY <1>1, LimiterInvariant, PTL

LEMMA DropsForNewer ==
    ASSUME LimiterInv, LimiterInv', NEW address \in Addresses, NEW user \in Users,
           PasswordWrong(address, user), NEW k \in Keys, forgotten'[k] > forgotten[k]
    PROVE  \E others \in SUBSET (Keys \ {k}) :
             /\ Cardinality(others) = MaxKeys
             /\ \A o \in others : /\ StillCounts(o)'
                                  /\ LastFailure(o)' >= tries'[k][Len(tries'[k])]
<1> DEFINE both == {address, user}   last == tries'[k][Len(tries'[k])]
<1>1. /\ clock \in Nat /\ Observed /\ both \subseteq Keys
  BY DEF LimiterInv, Keys
<1>2. PICK table, dropped : FailureChanges(both, table, dropped)
  BY FailureFacts
<1> HIDE DEF both
<1>3. /\ dropped \in Evictions(table) /\ dropped \subseteq DOMAIN table
      /\ IsFiniteSet(DOMAIN table) /\ DOMAIN table \subseteq Keys
      /\ DOMAIN table = DOMAIN Purged \cup both
      /\ DOMAIN states' = DOMAIN table \ dropped
      /\ clock' = clock /\ Observed'
  BY <1>2 DEF FailureChanges
<1>4. /\ \A x \in DOMAIN table : table[x] = IF x \in both THEN Failed(StateIn(Purged, x))
                                            ELSE StateIn(Purged, x)
      /\ \A x \in DOMAIN states' : states'[x] = table[x]
      /\ \A x \in Keys : tries'[x] = IF x \in both THEN Append(tries[x], clock) ELSE tries[x]
      /\ \A x \in Keys : Remembered(x)' = IF x \in dropped THEN <<>>
                                          ELSE IF x \in both THEN Append(Remembered(x), clock)
                                          ELSE Remembered(x)
      /\ \A x \in Keys \ dropped : forgotten'[x] = forgotten[x]
  BY <1>2 DEF FailureChanges
<1>5. k \in dropped /\ k \in DOMAIN table
  <2>1. forgotten'[k] # forgotten[k]
    <3>1. forgotten[k] \in Nat
      BY <1>1 DEF Observed
    <3> QED BY <3>1
  <2> QED BY <1>3, <1>4, <2>1
<1>6. ~(Cardinality(DOMAIN table) <= MaxKeys)
  BY <1>3, <1>5 DEF Evictions
<1>7. /\ Cardinality(DOMAIN states') = MaxKeys
      /\ \A o \in DOMAIN states' : table[k].updatedAt <= states'[o].updatedAt
  <2>1. /\ Cardinality(DOMAIN table \ dropped) = MaxKeys
        /\ \A d \in dropped, o \in DOMAIN table \ dropped :
             table[d].updatedAt <= table[o].updatedAt
    BY <1>3, <1>6, FullAfterDrop
  <2>2. \A o \in DOMAIN states' : table[k].updatedAt <= states'[o].updatedAt
    BY <1>3, <1>4, <1>5, <2>1
  <2> QED BY <1>3, <2>1, <2>2
(* The dropped key: its last update was its last failure. *)
<1>8. table[k].updatedAt = last
  <2>1. tries[k] \in Seq(Nat)
    BY <1>1 DEF Observed
  <2>2. CASE k \in both
    <3>1. table[k].updatedAt = clock
      BY <1>4, <1>5, <2>2 DEF Failed
    <3>2. last = clock
      <4>1. tries'[k] = Append(tries[k], clock)
        BY <1>4, <2>2
      <4>2. Append(tries[k], clock)[Len(Append(tries[k], clock))] = clock
        BY <1>1, <2>1
      <4> QED BY <4>1, <4>2
    <3> QED BY <3>1, <3>2
  <2>3. CASE k \notin both
    <3>1. k \in DOMAIN Purged /\ table[k] = Purged[k] /\ tries'[k] = tries[k]
      BY <1>3, <1>4, <1>5, <2>3 DEF StateIn
    <3>2. UpToDate(Purged[k], Remembered(k))
      BY <3>1, PurgedCounts
    <3> QED BY <1>1, <3>1, <3>2, RememberedFacts DEF UpToDate
  <2> QED BY <2>2, <2>3
(* The keys that stay *)
<1> HIDE DEF last
<1>9. ASSUME NEW o \in DOMAIN states' PROVE o \in Keys \ {k} /\ StillCounts(o)' /\ LastFailure(o)' >= last
  <2>1. o \in Keys /\ o # k /\ o \in DOMAIN table /\ o \notin dropped /\ states'[o] = table[o]
    BY <1>3, <1>4, <1>5
  <2>2. /\ Remembered(o)' # <<>> /\ LastFailure(o)' = states'[o].updatedAt
        /\ states'[o].updatedAt \in Nat
    <3>1. UpToDate(states'[o], Remembered(o)') /\ states'[o] \in AttemptType
      BY DEF LimiterInv
    <3> QED BY <3>1 DEF UpToDate, LastFailure, AttemptType
  <2>3. LastFailure(o)' >= last
    BY <1>7, <1>8, <2>2
  <2>4. StillCounts(o)'
    <3>1. CASE o \in both
      <4>1. states'[o].updatedAt = clock
        BY <1>4, <2>1, <3>1 DEF Failed
      <4>2. InWindow(LastFailure(o))'
        BY <1>1, <1>3, <2>2, <4>1, LimiterConstants DEF InWindow
      <4> QED BY <2>2, <4>2 DEF StillCounts
    <3>2. CASE o \notin both
      <4>1. /\ o \in DOMAIN Purged /\ states'[o] = Purged[o]
            /\ Remembered(o)' = Remembered(o)
        BY <1>3, <1>4, <2>1, <3>2 DEF StateIn
      <4>2. CASE InWindow(LastFailure(o))
        <5>1. InWindow(LastFailure(o))'
          BY <1>3, <4>1, <4>2 DEF InWindow, LastFailure
        <5> QED BY <2>2, <5>1 DEF StillCounts
      <4>3. CASE Purged[o].lockedUntil > clock
        <5>1. IsLocked(o)'
          BY <1>3, <4>1, <4>3 DEF IsLocked
        <5>2. LockedWhenExhausted'
          BY LimiterLocks, PTL
        <5>3. Exhausts(Remembered(o))'
          BY <2>1, <5>1, <5>2 DEF LockedWhenExhausted, Keys
        <5> QED BY <2>2, <5>3 DEF StillCounts
      <4> QED BY <4>1, <4>2, <4>3, PurgedCounts
    <3> QED BY <3>1, <3>2
  <2> QED BY <2>1, <2>3, <2>4
<1>10. DOMAIN states' \in SUBSET (Keys \ {k})
  BY <1>9
<1> QED BY <1>7, <1>9, <1>10 DEF last

(* A full table drops a key only for MaxKeys others whose failures still count *)
(* and are no older: see DroppedForNewer (_purge_expired, _enforce_capacity).  *)
THEOREM FullTablesDropTheOldest == LimiterSpec => DroppedForNewer
<1> DEFINE Newer(k) == \E others \in SUBSET (Keys \ {k}) :
             /\ Cardinality(others) = MaxKeys
             /\ \A o \in others : /\ StillCounts(o)'
                                  /\ LastFailure(o)' >= tries'[k][Len(tries'[k])]
           Drops == \A k \in Keys : forgotten'[k] > forgotten[k] => Newer(k)
<1>1. LimiterInv /\ LimiterInv' /\ [LimiterNext]_limiterVars => [Drops]_limiterVars
  <2>1. SUFFICES ASSUME LimiterInv, LimiterInv', LimiterNext, NEW k \in Keys,
                        forgotten'[k] > forgotten[k]
                 PROVE  Newer(k)
    BY DEF limiterVars
  <2>2. forgotten[k] \in Nat /\ forgotten'[k] \in Nat
    BY <2>1 DEF LimiterInv, Observed
  <2>3. CASE ClockTicks
    BY <2>1, <2>2, <2>3 DEF ClockTicks
  <2>4. ASSUME NEW address \in Addresses, NEW user \in Users, PasswordWrong(address, user)
        PROVE  Newer(k)
    BY <2>1, <2>4, DropsForNewer
  <2>5. ASSUME NEW address \in Addresses, NEW user \in Users, PasswordRight(address, user)
        PROVE  Newer(k)
    <3>1. forgotten'[k] <= forgotten[k]
      BY <2>1, <2>5, SuccessKeeps
    <3> QED BY <2>1, <2>2, <3>1
  <2> QED BY <2>1, <2>3, <2>4, <2>5 DEF LimiterNext
<1> QED BY <1>1, LimiterInvariant, PTL DEF LimiterSpec, DroppedForNewer
=============================================================================

-------------------------- MODULE Arithmetic_proofs --------------------------
(***************************************************************************)
(* The arithmetic that the proofs of several components rest on: what the   *)
(* 32-bit differences of millis() compute, for every width of the counter;   *)
(* sums over finite sets; and the ranks of the elements of a finite order.   *)
(***************************************************************************)
EXTENDS Millis, Integers, FiniteSetTheorems, TLAPS

----------------------------------------------------------------------------
(* The 32-bit counter *)

(* millis() and its differences are counter values. *)
LEMMA StampFacts ==
    /\ Word \in Nat \ {0}
    /\ \A t \in Nat : MillisAt(t) \in Stamp
    /\ \A s, t \in Stamp : Elapsed(t, s) \in Stamp
    /\ \A s \in Stamp, i \in Nat : Later(s, i) \in Stamp
BY WordAssumption DEF MillisAt, Stamp, Elapsed, Later

(* Division of a time by the range of the counter, or by a second. *)
LEMMA Division ==
    ASSUME NEW w \in Nat \ {0}, NEW t \in Nat
    PROVE  /\ t \div w \in Int /\ t % w \in 0..(w - 1)
           /\ t = w * (t \div w) + (t % w)
<1>1. t \div w \in Int OBVIOUS
<1>2. t % w \in 0..(w - 1) OBVIOUS
<1>3. t = w * (t \div w) + (t % w) OBVIOUS
<1> QED BY <1>1, <1>2, <1>3

(* A quotient is a natural number. *)
LEMMA QuotientIsNat ==
    ASSUME NEW w \in Nat \ {0}, NEW t \in Nat
    PROVE  t \div w \in Nat
<1> DEFINE a == t \div w   u == t % w
<1>1. a \in Int /\ u \in 0..(w - 1) /\ t = w * a + u
  BY Division
<1> HIDE DEF a, u
<1>2. CASE a <= -1
  <2>1. w * a <= w * (-1)
    BY <1>1, <1>2
  <2> QED BY <1>1, <2>1
<1>3. a \in Nat
  BY <1>1, <1>2
<1> QED BY <1>3 DEF a

(* A difference of two counter values is the time that has passed if that    *)
(* is less than the range of the counter (now_ms - then in the source).      *)
THEOREM ElapsedIsExact ==
    ASSUME NEW s \in Nat, NEW t \in Nat, s <= t, t - s < Word
    PROVE  Elapsed(MillisAt(t), MillisAt(s)) = t - s
<1> DEFINE a == s \div Word   b == t \div Word   u == s % Word   v == t % Word
<1>1. /\ a \in Int /\ b \in Int /\ u \in 0..(Word - 1) /\ v \in 0..(Word - 1)
      /\ s = Word * a + u /\ t = Word * b + v /\ Word \in Nat \ {0}
  BY StampFacts, Division
<1> HIDE DEF a, b, u, v
<1>2. t - s = Word * (b - a) + (v - u) BY <1>1
<1>3. b - a \in {0, 1}
  <2>1. CASE b - a >= 2
    <3>1. Word * (b - a) >= Word * 2 BY <1>1, <2>1
    <3> QED BY <1>1, <1>2, <3>1
  <2>2. CASE b - a <= -1
    <3>1. Word * (b - a) <= Word * (-1) BY <1>1, <2>2
    <3> QED BY <1>1, <1>2, <3>1
  <2> QED BY <1>1, <2>1, <2>2
<1>4. CASE b - a = 0 BY <1>1, <1>2, <1>4 DEF Elapsed, MillisAt, u, v
<1>5. CASE b - a = 1 BY <1>1, <1>2, <1>5 DEF Elapsed, MillisAt, u, v
<1> QED BY <1>3, <1>4, <1>5

(* However long ago, the difference is never more than the time that passed.  *)
LEMMA ElapsedIsAtMost ==
    ASSUME NEW s \in Nat, NEW t \in Nat, s <= t
    PROVE  /\ Elapsed(MillisAt(t), MillisAt(s)) \in Nat
           /\ Elapsed(MillisAt(t), MillisAt(s)) <= t - s
<1> DEFINE a == s \div Word   b == t \div Word   u == s % Word   v == t % Word
<1>1. /\ a \in Int /\ b \in Int /\ u \in 0..(Word - 1) /\ v \in 0..(Word - 1)
      /\ s = Word * a + u /\ t = Word * b + v /\ Word \in Nat \ {0}
  BY StampFacts, Division
<1>2. Elapsed(MillisAt(t), MillisAt(s)) = IF v >= u THEN v - u ELSE v + Word - u
  BY DEF Elapsed, MillisAt
<1> HIDE DEF a, b, u, v
<1>3. t - s = Word * (b - a) + (v - u)
  BY <1>1
<1>4. b - a \in Nat /\ (v < u => b - a >= 1)
  <2>1. CASE b - a <= -1
    <3>1. Word * (b - a) <= Word * (-1) BY <1>1, <2>1
    <3> QED BY <1>1, <1>3, <3>1
  <2>2. CASE b - a = 0
    BY <1>1, <1>3, <2>2
  <2>3. CASE b - a >= 1
    BY <1>1, <2>3
  <2> QED BY <1>1, <2>1, <2>2, <2>3
<1>5. CASE v >= u
  <2>1. Word * (b - a) >= Word * 0
    BY <1>1, <1>4
  <2> QED BY <1>1, <1>2, <1>3, <1>5, <2>1
<1>6. CASE v < u
  <2>1. Word * (b - a) >= Word * 1
    BY <1>1, <1>4, <1>6
  <2> QED BY <1>1, <1>2, <1>3, <1>6, <2>1
<1> QED BY <1>1, <1>5, <1>6

(* Half of the range, which the sign of a difference is about. *)
LEMMA Halves == Word \in Nat \ {0} /\ Half \in Nat \ {0} /\ Word = 2 * Half
<1>1. PICK h \in 1..Word : Word = 2 * h
  BY WordAssumption
<1>2. Half = h /\ h \in Nat \ {0} /\ Word \in Nat
  BY <1>1, WordAssumption DEF Half
<1> QED BY <1>1, <1>2

(* deadline_reached is right about deadlines less than half the counter away. *)
THEOREM DeadlineIsExact ==
    ASSUME NEW t \in Nat, NEW s \in Nat, t - s < Half, s - t < Half
    PROVE  DeadlineReached(MillisAt(t), MillisAt(s)) <=> s <= t
<1>1. CASE s <= t
  <2>1. Elapsed(MillisAt(t), MillisAt(s)) = t - s
    BY <1>1, ElapsedIsExact, Halves
  <2> QED BY <1>1, <2>1 DEF DeadlineReached
<1>2. CASE t < s
  <2>1. Elapsed(MillisAt(s), MillisAt(t)) = s - t
    BY <1>2, ElapsedIsExact, Halves
  <2>2. MillisAt(s) \in Stamp /\ MillisAt(t) \in Stamp
    BY StampFacts
  <2>3. Elapsed(MillisAt(t), MillisAt(s)) = Word - (s - t)
    BY <1>2, <2>1, <2>2, Halves DEF Elapsed, Stamp
  <2> QED BY <1>2, <2>3, Halves DEF DeadlineReached
<1> QED BY <1>1, <1>2

(* Wrapping after each addition is wrapping once. *)
LEMMA LaterIsExact ==
    ASSUME NEW t \in Nat, NEW i \in Nat
    PROVE  Later(MillisAt(t), i) = MillisAt(t + i)
<1> DEFINE u == t % Word   a == t \div Word
           v == (u + i) % Word   b == (u + i) \div Word
           x == (t + i) % Word   c == (t + i) \div Word
<1>1. /\ a \in Int /\ u \in 0..(Word - 1) /\ t = Word * a + u
      /\ Word \in Nat \ {0}
  BY Halves, Division
<1>2. u + i \in Nat
  BY <1>1
<1>3. /\ b \in Int /\ v \in 0..(Word - 1) /\ u + i = Word * b + v
  BY <1>1, <1>2, Division
<1>4. /\ c \in Int /\ x \in 0..(Word - 1) /\ t + i = Word * c + x
  <2>1. t + i \in Nat
    OBVIOUS
  <2> QED BY <1>1, <2>1, Division
<1> HIDE DEF a, u, b, v, c, x
<1> DEFINE d == a + b - c
<1>5. d \in Int /\ Word * d = x - v
  <2>1. Word * (a + b - c) = Word * a + Word * b - Word * c
    BY <1>1, <1>3, <1>4
  <2>2. Word * a \in Int /\ Word * b \in Int /\ Word * c \in Int
    BY <1>1, <1>3, <1>4
  <2> QED BY <1>1, <1>3, <1>4, <2>1, <2>2
<1> HIDE DEF d
<1>6. d = 0
  <2>1. CASE d >= 1
    <3>1. Word * d >= Word BY <1>1, <1>5, <2>1
    <3> QED BY <1>1, <1>3, <1>4, <1>5, <3>1
  <2>2. CASE d <= -1
    <3>1. Word * d <= Word * (-1) BY <1>1, <1>5, <2>2
    <3> QED BY <1>1, <1>3, <1>4, <1>5, <3>1
  <2> QED BY <1>5, <2>1, <2>2
<1>7. x = v
  BY <1>1, <1>3, <1>4, <1>5, <1>6
<1> QED BY <1>7 DEF Later, MillisAt, u, v, x

----------------------------------------------------------------------------
(* Quotients *)

\* A quotient rounded down is at least q exactly if q divisors fit.
LEMMA QuotientAtLeast ==
  ASSUME NEW a \in Int, NEW d \in Nat \ {0}, NEW q \in Int
  PROVE  a \div d \in Int /\ (q <= a \div d <=> d * q <= a)
<1> DEFINE k == a \div d   r == a % d
<1>1. k \in Int /\ r \in 0 .. (d - 1) /\ a = d * k + r
  OBVIOUS
<1> HIDE DEF k, r
<1>2. CASE q <= k
  <2>1. d * q <= d * k
    BY <1>1, <1>2
  <2> QED BY <1>1, <1>2, <2>1 DEF k
<1>3. CASE q >= k + 1
  <2>1. d * (k + 1) <= d * q /\ d * (k + 1) = d * k + d
    BY <1>1, <1>3
  <2>2. d * q \in Int /\ d * k \in Int
    BY <1>1
  <2> QED BY <1>1, <1>3, <2>1, <2>2 DEF k
<1> QED BY <1>1, <1>2, <1>3

\* As many divisors more make the quotient as much greater.
LEMMA QuotientShifts ==
  ASSUME NEW a \in Int, NEW d \in Nat \ {0}, NEW q \in Int
  PROVE  (a + d * q) \div d = a \div d + q
<1> DEFINE k == a \div d   b == a + d * q   j == b \div d
<1>1. b \in Int /\ d * q \in Int
  OBVIOUS
<1>2. k \in Int /\ j \in Int
  BY <1>1, QuotientAtLeast
<1>3. d * k <= a /\ d * j <= b
  BY <1>1, <1>2, QuotientAtLeast
<1>4. d * (k + q) = d * k + d * q /\ d * (j - q) = d * j - d * q /\ d * k \in Int /\ d * j \in Int
  <2> HIDE DEF k, j
  <2> QED BY <1>2
<1>5. d * (k + q) <= b /\ d * (j - q) <= a
  <2> HIDE DEF k, j
  <2> QED BY <1>1, <1>3, <1>4 DEF b
<1>6. k + q \in Int /\ j - q \in Int
  BY <1>2
<1>7. k + q <= j
  <2> HIDE DEF b
  <2> QED BY <1>1, <1>5, <1>6, QuotientAtLeast
<1>8. j - q <= k
  BY <1>5, <1>6, QuotientAtLeast
<1> HIDE DEF k, j
<1>9. j = k + q
  BY <1>2, <1>7, <1>8
<1> QED BY <1>9 DEF k, j, b

----------------------------------------------------------------------------
(* Sums over finite sets *)

\* What one step of the fold makes of the sums of smaller sets.
SumStep(f, S, over) ==
  [part \in SUBSET S |->
     IF part = {} THEN 0 ELSE LET x == CHOOSE x \in part : TRUE IN f[x] + over[part \ {x}]]

LEMMA SumIsStep ==
  ASSUME NEW f, NEW S
  PROVE  SumFunctionOnSet(f, S) = (CHOOSE over : over = SumStep(f, S, over))[S]
BY DEF SumStep, SumFunctionOnSet, FoldFunctionOnSet, MapThenFoldSet

\* A set of finite sets that is not empty has a member no other is part of.
LEMMA SmallestSet ==
  ASSUME NEW S, IsFiniteSet(S), NEW W \in SUBSET SUBSET S, W # {}
  PROVE  \E T \in W : \A U \in W : U \subseteq T => U = T
<1>1. IsWellFoundedOn(StrictSubsetOrdering(S), SUBSET S)
  BY FS_StrictSubsetOrderingWellFounded, FS_FiniteSubsetsOfFinite
<1>2. PICK T \in W : \A U \in W : ~(<<U, T>> \in StrictSubsetOrdering(S))
  BY <1>1, WFMin, Zenon
<1>3. ASSUME NEW U \in W, U \subseteq T, U # T PROVE FALSE
  <2>1. <<U, T>> \in (SUBSET S) \X (SUBSET S)
    OBVIOUS
  <2> QED BY <1>2, <1>3, <2>1 DEF StrictSubsetOrdering
<1> QED BY <1>3

\* Two such functions agree on the finite sets both are about.
LEMMA StepsAgree ==
  ASSUME NEW f, NEW A, NEW B, NEW g, NEW h, NEW S, IsFiniteSet(S),
         g = SumStep(f, A, g), h = SumStep(f, B, h), S \subseteq A, S \subseteq B
  PROVE  g[S] = h[S]
<1> DEFINE W == {T \in SUBSET S : g[T] # h[T]}
<1>1. ASSUME W # {} PROVE FALSE
  <2>0. W \in SUBSET SUBSET S
    OBVIOUS
  <2>1. PICK T \in W : \A U \in W : U \subseteq T => U = T
    <3> HIDE DEF W
    <3> QED BY <1>1, <2>0, SmallestSet
  <2>2. T \in SUBSET A /\ T \in SUBSET B /\ T \in SUBSET S /\ g[T] # h[T]
    OBVIOUS
  <2> DEFINE x == CHOOSE x \in T : TRUE
  <2>3. /\ g[T] = IF T = {} THEN 0 ELSE f[x] + g[T \ {x}]
        /\ h[T] = IF T = {} THEN 0 ELSE f[x] + h[T \ {x}]
    BY <2>2 DEF SumStep
  <2>4. T # {} => x \in T
    OBVIOUS
  <2> HIDE DEF x
  <2>5. T # {} => T \ {x} \in SUBSET S /\ T \ {x} \subseteq T /\ T \ {x} # T
    BY <2>2, <2>4
  <2>6. T # {} => g[T \ {x}] = h[T \ {x}]
    BY <2>1, <2>5
  <2> QED BY <2>2, <2>3, <2>6
<1> QED BY <1>1

\* There is such a function on the parts of a finite set.
LEMMA StepExists ==
  ASSUME NEW f, NEW S, IsFiniteSet(S)
  PROVE  \E over : over = SumStep(f, S, over)
<1> DEFINE W == {T \in SUBSET S : ~\E over : over = SumStep(f, T, over)}
<1>1. ASSUME W # {} PROVE FALSE
  <2>0. W \in SUBSET SUBSET S
    OBVIOUS
  <2>1. PICK T \in W : \A U \in W : U \subseteq T => U = T
    <3> HIDE DEF W
    <3> QED BY <1>1, <2>0, SmallestSet
  <2> DEFINE at(U) == CHOOSE over : over = SumStep(f, U, over)
             all == [U \in SUBSET T |->
                       IF U = {} THEN 0
                       ELSE LET x == CHOOSE x \in U : TRUE IN f[x] + at(U \ {x})[U \ {x}]]
  <2>2. ASSUME NEW U \in SUBSET T, U # T PROVE at(U) = SumStep(f, U, at(U))
    <3>1. \E over : over = SumStep(f, U, over)
      BY <2>1, <2>2
    <3> QED BY <3>1
  <2> HIDE DEF at
  <2>3. ASSUME NEW U \in SUBSET T, U # T PROVE all[U] = at(U)[U]
    <3> DEFINE x == CHOOSE x \in U : TRUE
    <3>1. all[U] = IF U = {} THEN 0 ELSE f[x] + at(U \ {x})[U \ {x}]
      OBVIOUS
    <3>2. at(U)[U] = IF U = {} THEN 0 ELSE f[x] + at(U)[U \ {x}]
      BY <2>2, <2>3 DEF SumStep
    <3>3. U # {} => x \in U
      OBVIOUS
    <3> HIDE DEF x
    <3>4. ASSUME U # {} PROVE at(U)[U \ {x}] = at(U \ {x})[U \ {x}]
      <4> DEFINE V == U \ {x}
      <4>1. V \in SUBSET T /\ V # T /\ V \subseteq U
        BY <2>3, <3>3, <3>4
      <4>2. IsFiniteSet(V)
        BY <4>1, FS_Subset
      <4>3. at(U) = SumStep(f, U, at(U)) /\ at(V) = SumStep(f, V, at(V))
        BY <2>2, <2>3, <4>1
      <4> HIDE DEF V
      <4>4. at(U)[V] = at(V)[V]
        BY <4>1, <4>2, <4>3, StepsAgree
      <4> QED BY <4>4 DEF V
    <3> HIDE DEF all
    <3> QED BY <3>1, <3>2, <3>4
  <2>4. all = SumStep(f, T, all)
    <3>1. ASSUME NEW U \in SUBSET T
          PROVE  all[U] = IF U = {} THEN 0
                          ELSE LET x == CHOOSE x \in U : TRUE IN f[x] + all[U \ {x}]
      <4> DEFINE x == CHOOSE x \in U : TRUE
      <4>1. all[U] = IF U = {} THEN 0 ELSE f[x] + at(U \ {x})[U \ {x}]
        OBVIOUS
      <4>2. U # {} => x \in U
        OBVIOUS
      <4> HIDE DEF x, all
      <4>3. U # {} => U \ {x} \in SUBSET T /\ U \ {x} # T
        BY <4>2
      <4>4. U # {} => all[U \ {x}] = at(U \ {x})[U \ {x}]
        BY <2>3, <4>3
      <4> QED BY <4>1, <4>4 DEF x
    <3>2. all = [U \in SUBSET T |-> all[U]]
      OBVIOUS
    <3> HIDE DEF all
    <3> QED BY <3>1, <3>2 DEF SumStep
  <2> HIDE DEF all
  <2> QED BY <2>1, <2>4
<1> QED BY <1>1

\* The sum over a set is that of the chosen element and of the others.
LEMMA SumChosen ==
  ASSUME NEW f, NEW S, IsFiniteSet(S)
  PROVE  LET x == CHOOSE x \in S : TRUE
         IN  SumFunctionOnSet(f, S) = IF S = {} THEN 0 ELSE f[x] + SumFunctionOnSet(f, S \ {x})
<1> DEFINE x == CHOOSE x \in S : TRUE
           at(U) == CHOOSE over : over = SumStep(f, U, over)
<1>1. ASSUME NEW U \in SUBSET S
      PROVE  at(U) = SumStep(f, U, at(U)) /\ SumFunctionOnSet(f, U) = at(U)[U]
  <2>1. IsFiniteSet(U)
    BY FS_Subset
  <2>2. \E over : over = SumStep(f, U, over)
    BY <2>1, StepExists
  <2> QED BY <2>2, SumIsStep
<1> HIDE DEF at
<1>2. at(S)[S] = IF S = {} THEN 0 ELSE f[x] + at(S)[S \ {x}]
  BY <1>1 DEF SumStep
<1> HIDE DEF x
<1>3. at(S)[S \ {x}] = at(S \ {x})[S \ {x}]
  <2> DEFINE V == S \ {x}
  <2>1. V \in SUBSET S /\ V \subseteq V
    OBVIOUS
  <2>2. IsFiniteSet(V)
    BY <2>1, FS_Subset
  <2>3. at(S) = SumStep(f, S, at(S)) /\ at(V) = SumStep(f, V, at(V))
    BY <1>1, <2>1
  <2> HIDE DEF V
  <2>4. at(S)[V] = at(V)[V]
    BY <2>1, <2>2, <2>3, StepsAgree
  <2> QED BY <2>4 DEF V
<1>4. SumFunctionOnSet(f, S) = at(S)[S] /\ SumFunctionOnSet(f, S \ {x}) = at(S \ {x})[S \ {x}]
  BY <1>1
<1>5. SumFunctionOnSet(f, S) = IF S = {} THEN 0 ELSE f[x] + SumFunctionOnSet(f, S \ {x})
  BY <1>2, <1>3, <1>4
<1> QED BY <1>5 DEF x

LEMMA SumEmpty ==
  ASSUME NEW f
  PROVE  SumFunctionOnSet(f, {}) = 0
BY SumChosen, FS_EmptySet

\* A sum of integers is an integer, and any element may be taken out of it.
LEMMA SumOut ==
  ASSUME NEW f, NEW S, IsFiniteSet(S), \A x \in S : f[x] \in Int
  PROVE  /\ SumFunctionOnSet(f, S) \in Int
         /\ \A y \in S : SumFunctionOnSet(f, S) = f[y] + SumFunctionOnSet(f, S \ {y})
<1> DEFINE Holds(T) ==
             /\ SumFunctionOnSet(f, T) \in Int
             /\ \A y \in T : SumFunctionOnSet(f, T) = f[y] + SumFunctionOnSet(f, T \ {y})
           W == {T \in SUBSET S : ~Holds(T)}
<1>1. SumFunctionOnSet(f, {}) = 0
  BY SumEmpty
<1>2. ASSUME W # {} PROVE FALSE
  <2>0. W \in SUBSET SUBSET S
    OBVIOUS
  <2>1. PICK T \in W : \A U \in W : U \subseteq T => U = T
    <3> HIDE DEF W
    <3> QED BY <1>2, <2>0, SmallestSet
  <2>2. T \in SUBSET S /\ ~Holds(T) /\ \A U \in SUBSET S : U \subseteq T /\ U # T => Holds(U)
    <3> HIDE DEF Holds
    <3> QED BY <2>1
  <2>3. IsFiniteSet(T)
    BY <2>2, FS_Subset
  <2>4. T # {}
    <3>1. Holds({})
      BY <1>1
    <3> HIDE DEF Holds
    <3> QED BY <2>2, <3>1
  <2> DEFINE x == CHOOSE x \in T : TRUE
  <2>5. x \in T /\ SumFunctionOnSet(f, T) = f[x] + SumFunctionOnSet(f, T \ {x})
    BY <2>3, <2>4, SumChosen
  <2> HIDE DEF x
  <2>6. Holds(T \ {x})
    <3> HIDE DEF Holds
    <3> QED BY <2>2, <2>5
  <2>7. SumFunctionOnSet(f, T) \in Int
    BY <2>2, <2>5, <2>6
  <2>8. ASSUME NEW y \in T, y # x PROVE SumFunctionOnSet(f, T) = f[y] + SumFunctionOnSet(f, T \ {y})
    <3>1. SumFunctionOnSet(f, T \ {x}) = f[y] + SumFunctionOnSet(f, (T \ {x}) \ {y})
      BY <2>6, <2>8
    <3>2. Holds(T \ {y})
      <4> HIDE DEF Holds
      <4> QED BY <2>2
    <3>3. SumFunctionOnSet(f, T \ {y}) = f[x] + SumFunctionOnSet(f, (T \ {y}) \ {x})
      BY <2>5, <2>8, <3>2
    <3>4. SumFunctionOnSet(f, (T \ {x}) \ {y}) = SumFunctionOnSet(f, (T \ {y}) \ {x})
      <4>1. (T \ {x}) \ {y} = (T \ {y}) \ {x}
        OBVIOUS
      <4> QED BY <4>1, Zenon
    <3>5. Holds((T \ {y}) \ {x})
      <4> HIDE DEF Holds
      <4> QED BY <2>2, <2>5
    <3>6. f[x] \in Int /\ f[y] \in Int /\ SumFunctionOnSet(f, (T \ {y}) \ {x}) \in Int
      BY <2>2, <2>5, <3>5
    <3> HIDE DEF Holds
    <3> QED BY <2>5, <3>1, <3>3, <3>4, <3>6
  <2> QED BY <2>2, <2>5, <2>7, <2>8
<1>3. Holds(S)
  <2> HIDE DEF Holds
  <2> QED BY <1>2
<1> QED BY <1>1, <1>3

\* A sum lies between as many times a lower and as many times an upper bound.
LEMMA SumBetween ==
  ASSUME NEW f, NEW S, IsFiniteSet(S), \A x \in S : f[x] \in Int,
         NEW lo \in Int, NEW hi \in Int, \A x \in S : lo <= f[x] /\ f[x] <= hi
  PROVE  /\ Cardinality(S) * lo <= SumFunctionOnSet(f, S)
         /\ SumFunctionOnSet(f, S) <= Cardinality(S) * hi
<1> DEFINE Holds(T) == /\ Cardinality(T) * lo <= SumFunctionOnSet(f, T)
                       /\ SumFunctionOnSet(f, T) <= Cardinality(T) * hi
           W == {T \in SUBSET S : ~Holds(T)}
<1>1. Holds({})
  BY SumEmpty, FS_EmptySet
<1>2. ASSUME W # {} PROVE FALSE
  <2>0. W \in SUBSET SUBSET S
    OBVIOUS
  <2>1. PICK T \in W : \A U \in W : U \subseteq T => U = T
    <3> HIDE DEF W
    <3> QED BY <1>2, <2>0, SmallestSet
  <2>2. T \in SUBSET S /\ ~Holds(T) /\ \A U \in SUBSET S : U \subseteq T /\ U # T => Holds(U)
    <3> HIDE DEF Holds
    <3> QED BY <2>1
  <2>3. IsFiniteSet(T)
    BY <2>2, FS_Subset
  <2>4. PICK y \in T : TRUE
    <3> HIDE DEF Holds
    <3> QED BY <1>1, <2>2
  <2>5. /\ SumFunctionOnSet(f, T) = f[y] + SumFunctionOnSet(f, T \ {y})
        /\ SumFunctionOnSet(f, T \ {y}) \in Int /\ f[y] \in Int /\ lo <= f[y] /\ f[y] <= hi
    <3>1. (\A x \in T : f[x] \in Int) /\ (\A x \in T \ {y} : f[x] \in Int)
      BY <2>2
    <3>2. IsFiniteSet(T \ {y})
      BY <2>3, FS_RemoveElement
    <3>3. SumFunctionOnSet(f, T) = f[y] + SumFunctionOnSet(f, T \ {y})
      BY <2>3, <2>4, <3>1, SumOut
    <3>4. SumFunctionOnSet(f, T \ {y}) \in Int
      BY <3>1, <3>2, SumOut
    <3>5. y \in S
      BY <2>2, <2>4, Zenon
    <3> QED BY <3>3, <3>4, <3>5
  <2>6. Holds(T \ {y})
    <3> HIDE DEF Holds
    <3> QED BY <2>2, <2>4
  <2> DEFINE n == Cardinality(T \ {y})
  <2>7. Cardinality(T) = n + 1 /\ n \in Nat
    <3>1. IsFiniteSet(T \ {y}) /\ Cardinality(T \ {y}) = Cardinality(T) - 1
      BY <2>3, <2>4, FS_RemoveElement
    <3>2. n \in Nat /\ Cardinality(T) \in Nat
      BY <2>3, <3>1, FS_CardinalityType
    <3> QED BY <3>1, <3>2
  <2>8. n * lo <= SumFunctionOnSet(f, T \ {y}) /\ SumFunctionOnSet(f, T \ {y}) <= n * hi
    BY <2>6
  <2> HIDE DEF n
  <2>9. (n + 1) * lo = n * lo + lo /\ (n + 1) * hi = n * hi + hi /\ n * lo \in Int /\ n * hi \in Int
    BY <2>7
  <2>10. (n + 1) * lo <= SumFunctionOnSet(f, T) /\ SumFunctionOnSet(f, T) <= (n + 1) * hi
    BY <2>5, <2>8, <2>9
  <2>11. Holds(T)
    BY <2>7, <2>10
  <2> HIDE DEF Holds
  <2> QED BY <2>2, <2>11
<1>3. Holds(S)
  <2> HIDE DEF Holds
  <2> QED BY <1>2
<1> QED BY <1>3

\* The parts of a finite set, by a key its elements have, have together as many
\* elements as the set.
LEMMA PartsCount ==
  ASSUME NEW S, IsFiniteSet(S), NEW B, IsFiniteSet(B), NEW key \in [S -> B],
         NEW f, \A b \in B : f[b] = Cardinality({x \in S : key[x] = b})
  PROVE  SumFunctionOnSet(f, B) = Cardinality(S)
<1> DEFINE In(T) == {x \in S : key[x] \in T}
           Holds(T) == SumFunctionOnSet(f, T) = Cardinality(In(T))
           W == {T \in SUBSET B : ~Holds(T)}
<1>1. \A T : IsFiniteSet(In(T)) /\ Cardinality(In(T)) \in Nat
  <2> TAKE T
  <2>1. In(T) \in SUBSET S
    OBVIOUS
  <2> HIDE DEF In
  <2>2. IsFiniteSet(In(T))
    BY <2>1, FS_Subset
  <2> QED BY <2>2, FS_CardinalityType
<1>2. ASSUME NEW b \in B PROVE f[b] = Cardinality(In({b})) /\ f[b] \in Int
  <2>1. In({b}) = {x \in S : key[x] = b}
    OBVIOUS
  <2> HIDE DEF In
  <2>2. f[b] = Cardinality(In({b}))
    BY <2>1
  <2>3. Cardinality(In({b})) \in Nat
    BY <1>1
  <2> QED BY <2>2, <2>3
<1>3. Holds({})
  <2>1. In({}) = {}
    OBVIOUS
  <2> HIDE DEF In
  <2> QED BY <2>1, SumEmpty, FS_EmptySet
<1>4. ASSUME W # {} PROVE FALSE
  <2>0. W \in SUBSET SUBSET B
    OBVIOUS
  <2>1. PICK T \in W : \A U \in W : U \subseteq T => U = T
    <3> HIDE DEF W
    <3> QED BY <1>4, <2>0, SmallestSet
  <2>2. T \in SUBSET B /\ ~Holds(T) /\ \A U \in SUBSET B : U \subseteq T /\ U # T => Holds(U)
    <3> HIDE DEF Holds
    <3> QED BY <2>1
  <2>3. IsFiniteSet(T)
    BY <2>2, FS_Subset
  <2>4. PICK y \in T : TRUE
    <3> HIDE DEF Holds
    <3> QED BY <1>3, <2>2
  <2>5. SumFunctionOnSet(f, T) = f[y] + SumFunctionOnSet(f, T \ {y})
    <3> HIDE DEF In, Holds, W
    <3>1. T \subseteq B
      BY <2>2, Zenon
    <3>2. \A x \in T : f[x] \in Int
      BY <1>2, <3>1, Zenon
    <3> QED BY <2>3, <2>4, <3>2, SumOut
  <2>6. Holds(T \ {y})
    <3> HIDE DEF Holds
    <3> QED BY <2>2, <2>4
  <2>7. In(T) = In({y}) \cup In(T \ {y}) /\ In({y}) \cap In(T \ {y}) = {}
    BY <2>4
  <2>8. f[y] = Cardinality(In({y})) /\ SumFunctionOnSet(f, T \ {y}) = Cardinality(In(T \ {y}))
    <3> HIDE DEF In
    <3> QED BY <1>2, <2>2, <2>4, <2>6
  <2> HIDE DEF In
  <2>9. Cardinality(In({y}) \cup In(T \ {y}))
          = Cardinality(In({y})) + Cardinality(In(T \ {y})) - Cardinality(In({y}) \cap In(T \ {y}))
    BY <1>1, FS_Union
  <2>10. Cardinality(In({y}) \cap In(T \ {y})) = 0
    BY <2>7, FS_EmptySet
  <2>11. Cardinality(In({y})) \in Nat /\ Cardinality(In(T \ {y})) \in Nat
    BY <1>1
  <2>12. Holds(T)
    <3> DEFINE a == In({y})   b == In(T \ {y})   c == In(T)
    <3>1. /\ SumFunctionOnSet(f, T) = Cardinality(a) + Cardinality(b)
          /\ Cardinality(c) = Cardinality(a) + Cardinality(b) - 0
      BY <2>5, <2>7, <2>8, <2>9, <2>10
    <3>2. Cardinality(a) \in Nat /\ Cardinality(b) \in Nat
      BY <2>11
    <3> QED BY <3>1, <3>2
  <2> HIDE DEF Holds
  <2> QED BY <2>2, <2>12
<1>5. Holds(B)
  <2> HIDE DEF Holds
  <2> QED BY <1>4
<1>6. In(B) = S
  OBVIOUS
<1> HIDE DEF In
<1> QED BY <1>5, <1>6

----------------------------------------------------------------------------
(* Ranks in a finite set                                                     *)

\* The numbers up to n are n.
LEMMA UpTo ==
  ASSUME NEW n \in Nat
  PROVE  IsFiniteSet(1 .. n) /\ Cardinality(1 .. n) = n
<1>1. 1 \in Int /\ n \in Int
  OBVIOUS
<1>2. IsFiniteSet(1 .. n) /\ Cardinality(1 .. n) = IF 1 > n THEN 0 ELSE n - 1 + 1
  BY <1>1, FS_Interval
<1>3. (IF 1 > n THEN 0 ELSE n - 1 + 1) = n
  OBVIOUS
<1> QED BY <1>2, <1>3

\* The numbers from 0 up to n are one more than n.
LEMMA FromZero ==
  ASSUME NEW n \in Nat
  PROVE  IsFiniteSet(0 .. (n - 1)) /\ Cardinality(0 .. (n - 1)) = n
<1>1. 0 \in Int /\ n - 1 \in Int
  OBVIOUS
<1>2. /\ IsFiniteSet(0 .. (n - 1))
      /\ Cardinality(0 .. (n - 1)) = IF 0 > n - 1 THEN 0 ELSE (n - 1) - 0 + 1
  BY <1>1, FS_Interval
<1>3. (IF 0 > n - 1 THEN 0 ELSE (n - 1) - 0 + 1) = n
  OBVIOUS
<1> QED BY <1>2, <1>3

\* In a strict total order, given by the elements below each, a finite set has the
\* ranks from 0, each once.
LEMMA OrderHasRanks ==
  ASSUME NEW S, IsFiniteSet(S), NEW below \in [S -> SUBSET S],
         \A i \in S : i \notin below[i],
         \A i, j \in S : i # j => i \in below[j] \/ j \in below[i],
         \A i, j, k \in S : i \in below[j] /\ j \in below[k] => i \in below[k]
  PROVE  /\ Cardinality(S) \in Nat
         /\ \A i \in S : Cardinality(below[i]) \in 0 .. (Cardinality(S) - 1)
         /\ \A i, j \in S : i \in below[j] => Cardinality(below[i]) < Cardinality(below[j])
         /\ \A n \in 0 .. (Cardinality(S) - 1) : \E i \in S : Cardinality(below[i]) = n
         /\ \A i, j \in S : Cardinality(below[i]) = Cardinality(below[j]) => i = j
<1> DEFINE size == Cardinality(S)   rank(i) == Cardinality(below[i])
<1>1. size \in Nat
  BY FS_CardinalityType
<1>2. ASSUME NEW i \in S PROVE IsFiniteSet(below[i]) /\ rank(i) \in Nat
  <2>1. IsFiniteSet(below[i])
    BY FS_Subset
  <2> QED BY <2>1, FS_CardinalityType
<1>3. ASSUME NEW i \in S, NEW j \in S, i \in below[j] PROVE rank(i) < rank(j)
  <2>1. below[i] \cup {i} \in SUBSET below[j] /\ i \notin below[i]
    BY <1>3
  <2>2. Cardinality(below[i] \cup {i}) = rank(i) + 1
    BY <1>2, <2>1, FS_AddElement
  <2>3. Cardinality(below[i] \cup {i}) <= rank(j)
    BY <1>2, <2>1, FS_Subset
  <2> HIDE DEF rank
  <2> QED BY <1>2, <2>2, <2>3
<1>4. ASSUME NEW i \in S PROVE rank(i) \in 0 .. (size - 1)
  <2>1. below[i] \in SUBSET (S \ {i})
    OBVIOUS
  <2>2. IsFiniteSet(S \ {i}) /\ Cardinality(S \ {i}) = size - 1
    BY FS_RemoveElement
  <2>3. rank(i) <= size - 1
    BY <2>1, <2>2, FS_Subset
  <2> HIDE DEF rank, size
  <2> QED BY <1>1, <1>2, <2>3
<1>5. ASSUME NEW i \in S, NEW j \in S, rank(i) = rank(j) PROVE i = j
  <2>1. i \notin below[j] /\ j \notin below[i]
    <3> HIDE DEF rank
    <3> QED BY <1>2, <1>3, <1>5
  <2> QED BY <2>1
<1>6. ASSUME NEW n \in 0 .. (size - 1) PROVE \E i \in S : rank(i) = n
  <2> DEFINE f == [i \in S |-> rank(i)]
  <2>1. f \in [S -> 0 .. (size - 1)] /\ \A i \in S : f[i] = rank(i)
    BY <1>4
  <2> HIDE DEF f
  <2>2. f \in Injection(S, 0 .. (size - 1))
    BY <1>5, <2>1 DEF Injection, IsInjective
  <2>3. IsFiniteSet(0 .. (size - 1)) /\ Cardinality(0 .. (size - 1)) = size
    BY <1>1, FromZero
  <2>4. f \in Surjection(S, 0 .. (size - 1))
    BY <2>2, <2>3, FS_Injection
  <2>5. \E i \in S : f[i] = n
    BY <2>4 DEF Surjection
  <2> QED BY <2>1, <2>5
<1> HIDE DEF rank, size
<1> QED BY <1>1, <1>3, <1>4, <1>5, <1>6 DEF rank, size

\* One element is below no other, and one above all others.
LEMMA EndsExist ==
  ASSUME NEW S, IsFiniteSet(S), S # {}, NEW below \in [S -> SUBSET S],
         \A i \in S : i \notin below[i],
         \A i, j \in S : i # j => i \in below[j] \/ j \in below[i],
         \A i, j, k \in S : i \in below[j] /\ j \in below[k] => i \in below[k]
  PROVE  /\ \E i \in S : below[i] = {}
         /\ \E i \in S : below[i] = S \ {i}
<1> DEFINE size == Cardinality(S)
<1>1. /\ size \in Nat
      /\ \A n \in 0 .. (size - 1) : \E i \in S : Cardinality(below[i]) = n
  BY OrderHasRanks
<1>2. size # 0
  BY FS_EmptySet
<1> HIDE DEF size
<1>3. 0 \in 0 .. (size - 1) /\ size - 1 \in 0 .. (size - 1)
  BY <1>1, <1>2
<1>4. \E i \in S : below[i] = {}
  <2>1. PICK i \in S : Cardinality(below[i]) = 0
    BY <1>1, <1>3
  <2>2. IsFiniteSet(below[i])
    BY FS_Subset
  <2> QED BY <2>1, <2>2, FS_EmptySet
<1>5. \E i \in S : below[i] = S \ {i}
  <2>1. PICK i \in S : Cardinality(below[i]) = size - 1
    BY <1>1, <1>3
  <2>2. IsFiniteSet(S \ {i}) /\ Cardinality(S \ {i}) = size - 1
    BY FS_RemoveElement DEF size
  <2>3. below[i] \in SUBSET (S \ {i})
    OBVIOUS
  <2> QED BY <2>1, <2>2, <2>3, FS_Subset
<1> QED BY <1>4, <1>5

\* A finite set of numbers in its order.
LEMMA NumbersAreOrdered ==
  ASSUME NEW S \in SUBSET Int, IsFiniteSet(S)
  PROVE  LET rank(i) == Cardinality({j \in S : j < i})
         IN  /\ Cardinality(S) \in Nat
             /\ \A i \in S : rank(i) \in 0 .. (Cardinality(S) - 1)
             /\ \A i, j \in S : i < j => rank(i) < rank(j)
             /\ \A n \in 0 .. (Cardinality(S) - 1) : \E i \in S : rank(i) = n
             /\ \A i, j \in S : rank(i) = rank(j) => i = j
             /\ S # {} => /\ \E i \in S : \A j \in S : i <= j
                          /\ \E i \in S : \A j \in S : j <= i
<1> DEFINE below == [i \in S |-> {j \in S : j < i}]
           rank(i) == Cardinality({j \in S : j < i})
<1>1. /\ below \in [S -> SUBSET S]
      /\ \A i \in S : below[i] = {j \in S : j < i}
  OBVIOUS
<1>2. \A i, j \in S : i \in below[j] <=> i < j
  OBVIOUS
<1> HIDE DEF below, rank
<1>3. /\ \A i \in S : i \notin below[i]
      /\ \A i, j \in S : i # j => i \in below[j] \/ j \in below[i]
      /\ \A i, j, k \in S : i \in below[j] /\ j \in below[k] => i \in below[k]
  <2>1. \A i \in S : i \in Int
    OBVIOUS
  <2>2. \A i \in S : i \notin below[i]
    BY <1>2, <2>1
  <2>3. \A i, j \in S : i # j => i \in below[j] \/ j \in below[i]
    BY <1>2, <2>1
  <2>4. \A i, j, k \in S : i \in below[j] /\ j \in below[k] => i \in below[k]
    BY <1>2, <2>1
  <2> QED BY <2>2, <2>3, <2>4
<1>4. /\ Cardinality(S) \in Nat
      /\ \A i \in S : Cardinality(below[i]) \in 0 .. (Cardinality(S) - 1)
      /\ \A i, j \in S : i \in below[j] => Cardinality(below[i]) < Cardinality(below[j])
      /\ \A n \in 0 .. (Cardinality(S) - 1) : \E i \in S : Cardinality(below[i]) = n
      /\ \A i, j \in S : Cardinality(below[i]) = Cardinality(below[j]) => i = j
  BY <1>1, <1>3, OrderHasRanks
<1>5. ASSUME S # {}
      PROVE  (\E i \in S : \A j \in S : i <= j) /\ (\E i \in S : \A j \in S : j <= i)
  <2>1. (\E i \in S : below[i] = {}) /\ (\E i \in S : below[i] = S \ {i})
    BY <1>1, <1>3, <1>5, EndsExist
  <2>2. PICK i \in S : below[i] = {}
    BY <2>1
  <2>3. PICK k \in S : below[k] = S \ {k}
    BY <2>1
  <2>4. \A j \in S : i <= j
    BY <1>2, <2>2
  <2>5. \A j \in S : j <= k
    BY <1>2, <2>3
  <2> QED BY <2>4, <2>5
<1>6. \A i \in S : Cardinality(below[i]) = rank(i)
  BY <1>1 DEF rank
<1>7. /\ \A i \in S : rank(i) \in 0 .. (Cardinality(S) - 1)
      /\ \A i, j \in S : i < j => rank(i) < rank(j)
      /\ \A n \in 0 .. (Cardinality(S) - 1) : \E i \in S : rank(i) = n
      /\ \A i, j \in S : rank(i) = rank(j) => i = j
  BY <1>2, <1>4, <1>6
<1> QED BY <1>4, <1>5, <1>7 DEF rank
=============================================================================

------------------------------ MODULE PaperProofs ------------------------------
(***************************************************************************)
(* What a paper asks and what its answers are worth: what holds of         *)
(* ObjectiveQuestions, CodingJudge and QuestionPaper for every library,    *)
(* order, form, answer, paper, list of back ends and number of failures.   *)
(*                                                                         *)
(* The loops of these modules are folds.  A fold is a function of the sets *)
(* of places before it (FoldDefined), so a fold over a sequence runs step  *)
(* by step (FoldRuns), and what each step keeps holds at its end           *)
(* (RunKeeps).                                                             *)
(***************************************************************************)
EXTENDS CodingJudge, QuestionPaper,
        FiniteSetTheorems, SequenceTheorems, WellFoundedInduction, TLAPS

-----------------------------------------------------------------------------
(* Folds over sequences. *)

Below == {pair \in Nat \X Nat : pair[1] < pair[2]}

LEMMA LeastOf ==
    ASSUME NEW T \in SUBSET Nat, T # {}
    PROVE  \E x \in T : \A y \in T : x <= y
<1>1. IsWellFoundedOn(Below, Nat)
    BY NatLessThanWellFounded DEF OpToRel, Below
<1>2. PICK x \in T : \A y \in T : ~(<<y, x>> \in Below)
    BY <1>1, WFMin, Zenon
<1>3. \A y \in T : x <= y
  <2> TAKE y \in T
  <2>1. x \in Nat /\ y \in Nat
      BY <1>2
  <2>2. ~(y < x)
      BY <1>2, <2>1 DEF Below
  <2> QED
      BY <2>1, <2>2
<1> QED
    BY <1>2, <1>3

LEMMA Inductive ==
    ASSUME NEW T \in SUBSET Nat, 0 \in T, \A n \in T : n + 1 \in T
    PROVE  T = Nat
<1> SUFFICES ASSUME Nat \ T # {} PROVE FALSE
    OBVIOUS
<1>1. PICK x \in Nat \ T : \A y \in Nat \ T : x <= y
    BY LeastOf
<1>2. x # 0 /\ x - 1 \in Nat
    BY <1>1
<1>3. x - 1 \in T
    BY <1>1, <1>2
<1> QED
    BY <1>1, <1>3

\* An induction from 0 to n, its statement a set of naturals.
LEMMA UpTo ==
    ASSUME NEW n \in Nat, NEW T \in SUBSET (0..n), 0 \in T,
           \A k \in 1..n : k - 1 \in T => k \in T
    PROVE  \A k \in 0..n : k \in T
<1> SUFFICES ASSUME (0..n) \ T # {} PROVE FALSE
    OBVIOUS
<1>1. PICK x \in (0..n) \ T : \A y \in (0..n) \ T : x <= y
  <2>1. (0..n) \ T \in SUBSET Nat
      OBVIOUS
  <2>2. QED
      BY <2>1, LeastOf
<1>2. x # 0 /\ x - 1 \in 0..n /\ x \in 1..n
    BY <1>1
<1>3. x - 1 \in T
    BY <1>1, <1>2
<1> QED
    BY <1>1, <1>2, <1>3

LEMMA TopOf ==
    ASSUME NEW k \in Nat, NEW s \in SUBSET (1..k), k \in s
    PROVE  Max(s) = k
<1>1. \A y \in s : k >= y
    OBVIOUS
<1>2. \A x \in s : (\A y \in s : x >= y) => x = k
    BY <1>1
<1>3. QED
    BY <1>1, <1>2, Zenon DEF Max

LEMMA TopStep ==
    ASSUME NEW n \in Nat, NEW k \in 1..n
    PROVE  /\ 1..k \in SUBSET (1..n) /\ 1..k # {}
           /\ Max(1..k) = k /\ (1..k) \ {k} = 1..(k - 1)
<1>1. k \in 1..k /\ \A i \in 1..k : i \in 1..n
    OBVIOUS
<1>2. Max(1..k) = k
    BY <1>1, TopOf
<1>3. QED
    BY <1>1, <1>2

LEMMA MaxIn ==
    ASSUME NEW n \in Nat, NEW s \in SUBSET (1..n), s # {}
    PROVE  Max(s) \in s
<1>1. PICK d \in {n - x : x \in s} : \A y \in {n - x : x \in s} : d <= y
  <2>1. \A x \in s : x \in Int /\ n - x \in Nat
      OBVIOUS
  <2>2. {n - x : x \in s} \in SUBSET Nat /\ {n - x : x \in s} # {}
      BY <2>1
  <2>3. QED
      BY <2>2, LeastOf
<1>2. PICK x \in s : d = n - x
    OBVIOUS
<1>3. \A y \in s : x >= y
  <2> TAKE y \in s
  <2>1. n - x <= n - y
      BY <1>1, <1>2
  <2>2. QED
      BY <2>1
<1>4. QED
    BY <1>3, Zenon DEF Max

\* A fold from the left over n members is a recursion over the subsets of 1..n.
Folded(f, base, F, s) == IF s = {} THEN base ELSE F[Max(s)][f[s \ {Max(s)}]]
StepsIn(n, V) == [1..n -> [V -> V]]
Folds(f, n, V, base, F) ==
    /\ f \in [SUBSET (1..n) -> V]
    /\ \A s \in SUBSET (1..n) : f[s] = Folded(f, base, F, s)

LEMMA FoldDefined ==
    ASSUME NEW n \in Nat, NEW V, NEW base \in V, NEW F \in StepsIn(n, V)
    PROVE  \E f : Folds(f, n, V, base, F)
<1> DEFINE Upto(f, k) == \A s \in SUBSET (1..k) : f[s] = Folded(f, base, F, s)
           T == {k \in 0..n : \E f \in [SUBSET (1..n) -> V] : Upto(f, k)}
<1>1. 0 \in T
  <2> DEFINE f == [s \in SUBSET (1..n) |-> base]
  <2>1. \A s \in SUBSET (1..0) : s = {}
      OBVIOUS
  <2>2. f \in [SUBSET (1..n) -> V] /\ f[{}] = base
      OBVIOUS
  <2>3. Upto(f, 0)
      BY <2>1, <2>2 DEF Folded
  <2> HIDE DEF f, Upto
  <2>4. QED
      BY <2>2, <2>3
<1>2. ASSUME NEW k \in 1..n, k - 1 \in T PROVE k \in T
  <2>1. PICK f \in [SUBSET (1..n) -> V] : Upto(f, k - 1)
      BY <1>2
  <2> DEFINE g == [s \in SUBSET (1..n) |->
                     IF k \in s THEN F[k][f[s \ {k}]] ELSE f[s]]
  <2>2. g \in [SUBSET (1..n) -> V]
      BY <2>1 DEF StepsIn
  <2>3. ASSUME NEW s \in SUBSET (1..k) PROVE g[s] = Folded(g, base, F, s)
    <3>1. CASE k \in s
      <4>1. Max(s) = k
          BY <3>1, TopOf
      <4>2. s \in SUBSET (1..n) /\ s \ {k} \in SUBSET (1..n) /\ k \notin s \ {k} /\ s # {}
          BY <3>1
      <4>3. g[s] = F[k][f[s \ {k}]] /\ g[s \ {k}] = f[s \ {k}]
          BY <3>1, <4>2
      <4>4. QED
          BY <4>1, <4>2, <4>3 DEF Folded
    <3>2. CASE k \notin s
      <4>1. s \in SUBSET (1..(k - 1)) /\ s \in SUBSET (1..n)
          BY <3>2
      <4>2. g[s] = f[s]
          BY <3>2, <4>1
      <4>3. f[s] = Folded(f, base, F, s)
          BY <2>1, <4>1
      <4>4. CASE s = {}
          BY <4>2, <4>3, <4>4 DEF Folded
      <4>5. CASE s # {}
        <5>1. k \notin s \ {Max(s)} /\ s \ {Max(s)} \in SUBSET (1..n)
            BY <3>2, <4>1
        <5>2. g[s \ {Max(s)}] = f[s \ {Max(s)}]
            BY <5>1
        <5>3. QED
            BY <4>2, <4>3, <4>5, <5>2 DEF Folded
      <4>6. QED
          BY <4>4, <4>5
    <3>3. QED
        BY <3>1, <3>2
  <2>4. Upto(g, k)
      BY <2>3
  <2> HIDE DEF g, Upto
  <2>5. QED
      BY <2>2, <2>4
<1>3. n \in T
  <2> HIDE DEF T
  <2>1. T \in SUBSET (0..n)
      BY DEF T
  <2>2. \A k \in 1..n : k - 1 \in T => k \in T
      BY <1>2
  <2>3. \A k \in 0..n : k \in T
      BY <1>1, <2>1, <2>2, UpTo
  <2>4. QED
      BY <2>3
<1>4. PICK f \in [SUBSET (1..n) -> V] : Upto(f, n)
    BY <1>3
<1>5. QED
    BY <1>4 DEF Folds

\* The values such a fold takes on its way, and what holds of them all.
Runs(g, n, V, base, F) ==
    /\ g \in [0..n -> V] /\ g[0] = base
    /\ \A k \in 1..n : g[k] = F[k][g[k - 1]]

LEMMA FoldRuns ==
    ASSUME NEW n \in Nat, NEW V, NEW base \in V, NEW F \in StepsIn(n, V), NEW it, it[{}] = base,
           \A k \in 1..n : it[1..(k - 1)] \in V => it[1..k] = F[k][it[1..(k - 1)]]
    PROVE  \E g : Runs(g, n, V, base, F) /\ g[n] = it[1..n]
<1> DEFINE g == [k \in 0..n |-> it[1..k]]
           T == {k \in 0..n : g[k] \in V}
<1>1. g[0] = base /\ g[n] = it[1..n]
  <2>1. 1..0 = {}
      OBVIOUS
  <2>2. QED
      BY <2>1
<1>2. \A k \in 1..n : g[k - 1] \in V => g[k] = F[k][g[k - 1]]
    OBVIOUS
<1> HIDE DEF g
<1>3. \A k \in 1..n : \A v \in V : F[k][v] \in V
    BY DEF StepsIn
<1>4. 0 \in T
    BY <1>1
<1>5. \A k \in 1..n : k - 1 \in T => k \in T
    BY <1>2, <1>3
<1>6. \A k \in 0..n : k \in T
  <2>1. T \in SUBSET (0..n)
      OBVIOUS
  <2> HIDE DEF T
  <2>2. QED
      BY <1>4, <1>5, <2>1, UpTo
<1>7. g \in [0..n -> V]
    BY <1>6 DEF g
<1>8. QED
    BY <1>1, <1>2, <1>6, <1>7 DEF Runs

LEMMA RunKeeps ==
    ASSUME NEW n \in Nat, NEW g, NEW V, NEW base, NEW F, Runs(g, n, V, base, F),
           NEW P, base \in P[0], \A k \in 1..n : \A v \in P[k - 1] : v \in V => F[k][v] \in P[k]
    PROVE  \A k \in 0..n : g[k] \in P[k]
<1> DEFINE T == {k \in 0..n : g[k] \in P[k]}
<1>1. 0 \in T
    BY DEF Runs
<1>2. \A k \in 1..n : k - 1 \in T => k \in T
    BY DEF Runs
<1>3. \A k \in 0..n : k \in T
  <2>1. T \in SUBSET (0..n)
      OBVIOUS
  <2> HIDE DEF T
  <2>2. QED
      BY <1>1, <1>2, <2>1, UpTo
<1>4. QED
    BY <1>3

KeepOne(kept, x, S) == IF x \in S THEN Append(kept, x) ELSE kept
OnlySteps(V, s, S) == [k \in 1..Len(s) |-> [p \in V |-> KeepOne(p, s[k], S)]]

\* The values on the way to what is kept of a sequence.
LEMMA OnlyRuns ==
    ASSUME NEW A, NEW s \in Seq(A), NEW S
    PROVE  \E g : /\ Runs(g, Len(s), Seq(A \cap S), <<>>, OnlySteps(Seq(A \cap S), s, S))
                  /\ Only(s, S) = g[Len(s)]
<1> DEFINE n == Len(s)
           V == Seq(A \cap S)
           F == OnlySteps(V, s, S)
           Step(f, d) == IF d = {} THEN <<>> ELSE KeepOne(f[d \ {Max(d)}], s[Max(d)], S)
           iter == CHOOSE f : f = [d \in SUBSET (1..n) |-> Step(f, d)]
<1>1. n \in Nat /\ DOMAIN s = 1..n /\ \A k \in 1..n : s[k] \in A
    OBVIOUS
<1>2. Only(s, S) = iter[1..n]
    BY <1>1, Zenon DEF Only, FoldLeft, MapThenFoldSet, KeepOne
<1>3. \A k \in 1..n : \A p \in V : F[k][p] = KeepOne(p, s[k], S)
    BY DEF OnlySteps
<1>4. F \in StepsIn(n, V) /\ <<>> \in V
  <2>1. \A p \in V, x \in A : KeepOne(p, x, S) \in V
      BY DEF KeepOne
  <2>2. <<>> \in V
      OBVIOUS
  <2> HIDE DEF V
  <2>3. F \in StepsIn(n, V)
      BY <1>1, <2>1 DEF StepsIn, OnlySteps
  <2>4. QED
      BY <2>2, <2>3
<1> HIDE DEF n, F, V
<1>5. iter = [d \in SUBSET (1..n) |-> Step(iter, d)]
  <2>1. PICK f : Folds(f, n, V, <<>>, F)
      BY <1>1, <1>4, FoldDefined
  <2>2. ASSUME NEW d \in SUBSET (1..n) PROVE f[d] = Step(f, d)
      BY <1>1, <1>3, <2>1, MaxIn DEF Folds, Folded
  <2>3. f = [d \in SUBSET (1..n) |-> Step(f, d)]
      BY <2>1, <2>2 DEF Folds
  <2>4. QED
      BY <2>3, Zenon
<1> HIDE DEF iter
<1>6. iter[{}] = <<>>
    BY <1>5
<1>7. ASSUME NEW k \in 1..n, iter[1..(k - 1)] \in V
      PROVE  iter[1..k] = F[k][iter[1..(k - 1)]]
  <2>1. /\ 1..k \in SUBSET (1..n) /\ 1..k # {}
        /\ Max(1..k) = k /\ (1..k) \ {k} = 1..(k - 1)
      BY <1>1, TopStep
  <2>2. iter[1..k] = Step(iter, 1..k)
      BY <1>5, <2>1
  <2>3. Step(iter, 1..k) = KeepOne(iter[1..(k - 1)], s[k], S)
      BY <2>1
  <2>4. F[k][iter[1..(k - 1)]] = KeepOne(iter[1..(k - 1)], s[k], S)
      BY <1>3, <1>7
  <2> HIDE DEF Step
  <2>5. QED
      BY <2>2, <2>3, <2>4
<1>8. PICK g : Runs(g, n, V, <<>>, F) /\ g[n] = iter[1..n]
    BY <1>1, <1>4, <1>6, <1>7, FoldRuns
<1>9. QED
    BY <1>2, <1>8 DEF n, F, V

BeginsLike(r, s, S) == \A j \in 0..Len(s) :
    (\A i \in 1..j : s[i] \in S) => j <= Len(r) /\ \A i \in 1..j : r[i] = s[i]

\* What is kept of a sequence is what of it is in the set, and it begins like the
\* sequence as far as all of that is in the set.
LEMMA OnlyKeeps ==
    ASSUME NEW A, NEW s \in Seq(A), NEW S
    PROVE  LET r == Only(s, S) IN
           /\ r \in Seq(A \cap S) /\ Range(r) = Range(s) \cap S /\ Len(r) <= Len(s)
           /\ BeginsLike(r, s, S)
<1> DEFINE n == Len(s)
           V == Seq(A \cap S)
           Begins(p, k) == \A j \in 0..k : (\A i \in 1..j : s[i] \in S) =>
                               j <= Len(p) /\ \A i \in 1..j : p[i] = s[i]
           Kept(k) == {p \in V : /\ Range(p) = {s[i] : i \in 1..k} \cap S
                                 /\ Len(p) <= k /\ Begins(p, k)}
           P == [k \in 0..n |-> Kept(k)]
           F == OnlySteps(V, s, S)
<1>1. PICK g : Runs(g, n, V, <<>>, F) /\ Only(s, S) = g[n]
    BY OnlyRuns
<1>2. n \in Nat /\ DOMAIN s = 1..n /\ \A k \in 1..n : s[k] \in A
    OBVIOUS
<1> HIDE DEF n
<1>3. <<>> \in Kept(0)
  <2>1. <<>> \in V /\ Range(<<>>) = {} /\ Len(<<>>) = 0
      BY DEF Range
  <2>2. \A j \in 0..0 : j = 0
      OBVIOUS
  <2>3. \A i \in 1..0 : FALSE
      OBVIOUS
  <2> HIDE DEF V
  <2>4. QED
      BY <2>1, <2>2, <2>3
<1>4. ASSUME NEW k \in 1..n, NEW p \in Kept(k - 1) PROVE KeepOne(p, s[k], S) \in Kept(k)
  <2>1. /\ p \in V /\ Len(p) \in Nat /\ Len(p) <= k - 1 /\ k - 1 \in Nat /\ k \in Nat
        /\ Range(p) = {s[i] : i \in 1..(k - 1)} \cap S
      BY <1>2
  <2>2. Begins(p, k - 1)
      OBVIOUS
  <2>3. \A i \in 1..k : i = k \/ i \in 1..(k - 1)
      BY <1>2
  <2>4. \A j \in 0..k : j = k \/ j \in 0..(k - 1)
      BY <1>2
  <2>5. CASE s[k] \notin S
    <3>1. {s[i] : i \in 1..k} \cap S = {s[i] : i \in 1..(k - 1)} \cap S
        BY <2>1, <2>3, <2>5
    <3>2. Begins(p, k)
      <4>1. k \in 1..k
          BY <2>1
      <4>2. QED
          BY <2>2, <2>4, <2>5, <4>1
    <3> HIDE DEF Begins
    <3>3. p \in Kept(k)
        BY <2>1, <3>1, <3>2
    <3>4. QED
        BY <2>5, <3>3 DEF KeepOne
  <2>6. CASE s[k] \in S
    <3> DEFINE r == Append(p, s[k])
    <3>1. /\ r \in V /\ Len(r) = Len(p) + 1 /\ r[Len(p) + 1] = s[k]
          /\ \A i \in 1..Len(p) : r[i] = p[i]
        BY <1>2, <2>1, <2>6
    <3>2. Range(r) = Range(p) \cup {s[k]}
      <4>1. DOMAIN r = 1..(Len(p) + 1) /\ DOMAIN p = 1..Len(p)
          BY <2>1, <3>1
      <4>2. \A i \in 1..(Len(p) + 1) : i \in 1..Len(p) \/ i = Len(p) + 1
          BY <2>1
      <4>3. Len(p) + 1 \in 1..(Len(p) + 1) /\ \A i \in 1..Len(p) : i \in 1..(Len(p) + 1)
          BY <2>1
      <4> HIDE DEF r
      <4>4. QED
          BY <3>1, <4>1, <4>2, <4>3 DEF Range
    <3>3. Range(r) = {s[i] : i \in 1..k} \cap S
      <4>1. {s[i] : i \in 1..k} = {s[i] : i \in 1..(k - 1)} \cup {s[k]}
        <5>1. k \in 1..k /\ \A i \in 1..(k - 1) : i \in 1..k
            BY <2>1
        <5>2. QED
            BY <2>3, <5>1
      <4>2. QED
          BY <2>1, <2>6, <3>2, <4>1
    <3>4. Begins(r, k)
      <4> HIDE DEF r
      <4> SUFFICES ASSUME NEW j \in 0..k, \A i \in 1..j : s[i] \in S
                   PROVE  j <= Len(r) /\ \A i \in 1..j : r[i] = s[i]
          OBVIOUS
      <4>1. CASE j \in 0..(k - 1)
        <5>1. j <= Len(p) /\ \A i \in 1..j : p[i] = s[i]
            BY <2>2, <4>1
        <5>2. \A i \in 1..j : i \in 1..Len(p)
            BY <2>1, <5>1
        <5>3. QED
            BY <2>1, <3>1, <5>1, <5>2
      <4>2. CASE j = k
        <5>1. \A i \in 1..(k - 1) : s[i] \in S
            BY <2>1, <4>2
        <5>2. k - 1 \in 0..(k - 1)
            BY <2>1
        <5>3. k - 1 <= Len(p) /\ \A i \in 1..(k - 1) : p[i] = s[i]
            BY <2>2, <5>1, <5>2
        <5>4. Len(p) = k - 1
            BY <2>1, <5>3
        <5>5. QED
            BY <2>1, <2>3, <3>1, <4>2, <5>3, <5>4
      <4>3. QED
          BY <2>4, <4>1, <4>2
    <3> HIDE DEF Begins, r
    <3>5. Len(r) <= k
        BY <2>1, <3>1
    <3>6. r \in Kept(k)
        BY <3>1, <3>3, <3>4, <3>5
    <3>7. QED
        BY <2>6, <3>6 DEF KeepOne, r
  <2>7. QED
      BY <2>5, <2>6
<1>5. <<>> \in P[0] /\ \A k \in 1..n : \A v \in P[k - 1] : v \in V => F[k][v] \in P[k]
  <2>1. 0 \in 0..n /\ \A k \in 1..n : k \in 0..n /\ k - 1 \in 0..n
      BY <1>2
  <2>2. \A k \in 1..n : \A v \in V : F[k][v] = KeepOne(v, s[k], S)
      BY DEF OnlySteps, n
  <2> HIDE DEF F, Kept, V
  <2>3. QED
      BY <1>3, <1>4, <2>1, <2>2
<1> HIDE DEF F, P
<1>6. \A k \in 0..n : g[k] \in P[k]
    BY <1>1, <1>2, <1>5, RunKeeps
<1>7. g[n] \in Kept(n)
  <2>1. n \in 0..n
      BY <1>2
  <2> HIDE DEF Kept
  <2>2. QED
      BY <1>6, <2>1 DEF P
<1>8. {s[i] : i \in 1..n} = Range(s)
    BY <1>2 DEF Range
<1>9. QED
    BY <1>1, <1>2, <1>7, <1>8 DEF n, BeginsLike

AddType(once, t) == IF t \in Range(once) THEN once ELSE Append(once, t)
OnceSteps(T, ts) == [k \in 1..Len(ts) |-> [p \in Seq(T) |-> AddType(p, ts[k])]]

LEMMA AddTypeRange ==
    ASSUME NEW T, NEW p \in Seq(T), NEW t \in T
    PROVE  Range(AddType(p, t)) = Range(p) \cup {t}
<1>1. CASE t \in Range(p)
    BY <1>1 DEF AddType
<1>2. CASE t \notin Range(p)
  <2> DEFINE r == Append(p, t)
  <2>1. /\ Len(p) \in Nat /\ DOMAIN p = 1..Len(p) /\ DOMAIN r = 1..(Len(p) + 1)
        /\ r[Len(p) + 1] = t /\ \A i \in 1..Len(p) : r[i] = p[i]
      OBVIOUS
  <2>2. /\ \A i \in 1..(Len(p) + 1) : i \in 1..Len(p) \/ i = Len(p) + 1
        /\ Len(p) + 1 \in 1..(Len(p) + 1) /\ \A i \in 1..Len(p) : i \in 1..(Len(p) + 1)
      BY <2>1
  <2> HIDE DEF r
  <2>3. Range(r) = Range(p) \cup {t}
      BY <2>1, <2>2 DEF Range
  <2>4. QED
      BY <1>2, <2>3 DEF AddType, r
<1>3. QED
    BY <1>1, <1>2

\* Once has the members of the sequence.
LEMMA OnceKeeps ==
    ASSUME NEW T, NEW ts \in Seq(T), ts # <<>>
    PROVE  Once(ts) \in Seq(T) /\ Once(ts) # <<>> /\ Range(Once(ts)) = Range(ts)
<1> DEFINE n == Len(ts)
           V == Seq(T)
           F == OnceSteps(T, ts)
           Step(f, d) == IF d = {} THEN <<>> ELSE AddType(f[d \ {Max(d)}], ts[Max(d)])
           iter == CHOOSE f : f = [d \in SUBSET (1..n) |-> Step(f, d)]
<1>1. n \in Nat \ {0} /\ DOMAIN ts = 1..n /\ \A k \in 1..n : ts[k] \in T
    OBVIOUS
<1>2. Once(ts) = iter[1..n]
    BY <1>1, Zenon DEF Once, FoldLeft, MapThenFoldSet, AddType
<1>3. \A k \in 1..n : \A p \in V : F[k][p] = AddType(p, ts[k])
    BY DEF OnceSteps
<1>4. \A p \in V, t \in T : AddType(p, t) \in V /\ AddType(p, t) # <<>>
  <2> SUFFICES ASSUME NEW p \in V, NEW t \in T
               PROVE  AddType(p, t) \in V /\ AddType(p, t) # <<>>
      OBVIOUS
  <2>1. CASE t \in Range(p)
      BY <2>1 DEF AddType, Range
  <2>2. CASE t \notin Range(p)
      BY <2>2 DEF AddType
  <2>3. QED
      BY <2>1, <2>2
<1>5. F \in StepsIn(n, V) /\ <<>> \in V
  <2>1. <<>> \in V
      OBVIOUS
  <2> HIDE DEF V
  <2>2. F = [k \in 1..n |-> [p \in V |-> AddType(p, ts[k])]]
      BY Zenon DEF OnceSteps, V
  <2> HIDE DEF F
  <2>3. F \in StepsIn(n, V)
      BY <1>1, <1>4, <2>2 DEF StepsIn
  <2>4. QED
      BY <2>1, <2>3
<1> HIDE DEF n, F, V
<1>6. iter = [d \in SUBSET (1..n) |-> Step(iter, d)]
  <2>1. PICK f : Folds(f, n, V, <<>>, F)
      BY <1>1, <1>5, FoldDefined
  <2>2. ASSUME NEW d \in SUBSET (1..n) PROVE f[d] = Step(f, d)
      BY <1>1, <1>3, <2>1, MaxIn DEF Folds, Folded
  <2>3. f = [d \in SUBSET (1..n) |-> Step(f, d)]
      BY <2>1, <2>2 DEF Folds
  <2>4. QED
      BY <2>3, Zenon
<1> HIDE DEF iter
<1>7. iter[{}] = <<>>
    BY <1>6
<1>8. ASSUME NEW k \in 1..n, iter[1..(k - 1)] \in V
      PROVE  iter[1..k] = F[k][iter[1..(k - 1)]]
  <2>1. /\ 1..k \in SUBSET (1..n) /\ 1..k # {}
        /\ Max(1..k) = k /\ (1..k) \ {k} = 1..(k - 1)
      BY <1>1, TopStep
  <2>2. iter[1..k] = Step(iter, 1..k)
      BY <1>6, <2>1
  <2>3. Step(iter, 1..k) = AddType(iter[1..(k - 1)], ts[k])
      BY <2>1
  <2>4. F[k][iter[1..(k - 1)]] = AddType(iter[1..(k - 1)], ts[k])
      BY <1>3, <1>8
  <2> HIDE DEF Step
  <2>5. QED
      BY <2>2, <2>3, <2>4
<1>9. PICK g : Runs(g, n, V, <<>>, F) /\ g[n] = iter[1..n]
    BY <1>1, <1>5, <1>7, <1>8, FoldRuns
<1>10. g[n] \in V /\ g[n - 1] \in V /\ g[n] = F[n][g[n - 1]]
    BY <1>1, <1>9 DEF Runs
<1>11. g[n] = AddType(g[n - 1], ts[n])
    BY <1>1, <1>3, <1>10
<1>12. g[n] # <<>>
    BY <1>1, <1>4, <1>10, <1>11
<1>13. \A k \in 0..n : g[k] \in {p \in V : Range(p) = {ts[i] : i \in 1..k}}
  <2> DEFINE P == [k \in 0..n |-> {p \in V : Range(p) = {ts[i] : i \in 1..k}}]
  <2>1. 0 \in 0..n /\ \A k \in 1..n : k \in 0..n /\ k - 1 \in 0..n
      BY <1>1
  <2>2. <<>> \in P[0]
    <3>1. Range(<<>>) = {} /\ {ts[i] : i \in 1..0} = {}
        BY DEF Range
    <3>2. QED
        BY <1>5, <2>1, <3>1
  <2>3. ASSUME NEW k \in 1..n, NEW v \in P[k - 1], v \in V PROVE F[k][v] \in P[k]
    <3>1. Range(v) = {ts[i] : i \in 1..(k - 1)}
        BY <2>1
    <3>2. {ts[i] : i \in 1..k} = {ts[i] : i \in 1..(k - 1)} \cup {ts[k]}
      <4>1. /\ k \in 1..k /\ \A i \in 1..(k - 1) : i \in 1..k
            /\ \A i \in 1..k : i = k \/ i \in 1..(k - 1)
          BY <1>1
      <4>2. QED
          BY <4>1
    <3>3. AddType(v, ts[k]) \in V /\ Range(AddType(v, ts[k])) = Range(v) \cup {ts[k]}
        BY <1>1, <1>4, <2>3, AddTypeRange DEF V
    <3>4. QED
        BY <1>3, <2>1, <2>3, <3>1, <3>2, <3>3
  <2> HIDE DEF P
  <2>4. \A k \in 0..n : g[k] \in P[k]
      BY <1>1, <1>9, <2>2, <2>3, RunKeeps
  <2>5. QED
      BY <2>4 DEF P
<1>14. Range(g[n]) = Range(ts)
  <2>1. n \in 0..n /\ Range(ts) = {ts[i] : i \in 1..n}
      BY <1>1 DEF Range
  <2>2. QED
      BY <1>13, <2>1
<1>15. QED
    BY <1>2, <1>9, <1>10, <1>12, <1>14 DEF V

LEMMA OnceNone ==
    ASSUME NEW ts, ts = <<>>
    PROVE  Once(ts) = <<>>
<1> DEFINE n == Len(ts)
           Step(f, d) == IF d = {} THEN <<>> ELSE AddType(f[d \ {Max(d)}], ts[Max(d)])
           iter == CHOOSE f : f = [d \in SUBSET (1..n) |-> Step(f, d)]
<1>1. n = 0 /\ 1..n = {} /\ DOMAIN ts = 1..n
    OBVIOUS
<1>2. Once(ts) = iter[1..n]
    BY <1>1, Zenon DEF Once, FoldLeft, MapThenFoldSet, AddType
<1>3. iter = [d \in SUBSET (1..n) |-> Step(iter, d)]
  <2> DEFINE g == [d \in SUBSET (1..n) |-> <<>>]
  <2>1. \A d \in SUBSET (1..n) : d = {}
      BY <1>1
  <2> HIDE DEF n
  <2>2. g = [d \in SUBSET (1..n) |-> Step(g, d)]
      BY <2>1
  <2> HIDE DEF g
  <2>3. QED
      BY <2>2, Zenon
<1> HIDE DEF iter, n
<1>4. iter[{}] = <<>>
    BY <1>3
<1>5. QED
    BY <1>1, <1>2, <1>4

-----------------------------------------------------------------------------
(* The grading of a choice or of a number. *)

LEMMA OnlyAll ==
    ASSUME NEW A, NEW s \in Seq(A), NEW S, \A i \in 1..Len(s) : s[i] \in S
    PROVE  Only(s, S) = s
<1> DEFINE r == Only(s, S)
<1>1. r \in Seq(A \cap S) /\ Len(r) <= Len(s) /\ BeginsLike(r, s, S)
    BY OnlyKeeps
<1> HIDE DEF r
<1>2. Len(s) \in 0..Len(s) /\ Len(r) \in Nat
    BY <1>1
<1>3. Len(r) = Len(s) /\ \A i \in 1..Len(s) : r[i] = s[i]
    BY <1>1, <1>2 DEF BeginsLike
<1>4. r = s
    BY <1>1, <1>3
<1>5. QED
    BY <1>4 DEF r

\* The options that are not blank, and where they stand.
LEMMA OptionsKept ==
    ASSUME NEW item, item.options \in Seq(Texts)
    PROVE  /\ Options(item) \in Seq(Texts \ {Blank}) /\ Len(Options(item)) <= Len(item.options)
           /\ Range(Options(item)) = Range(item.options) \ {Blank}
           /\ \A j \in 0..Len(item.options) : (\A i \in 1..j : item.options[i] # Blank) =>
                  j <= Len(Options(item)) /\ \A i \in 1..j : Options(item)[i] = item.options[i]
           /\ Blank \notin Range(item.options) => Options(item) = item.options
<1> DEFINE s == item.options
           S == ToSet(s) \ {Blank}
<1>1. /\ Options(item) = Only(s, S) /\ ToSet(s) = Range(s)
      /\ DOMAIN s = 1..Len(s)
    BY DEF Options, ToSet, Range
<1>2. /\ Only(s, S) \in Seq(Texts \cap S) /\ Range(Only(s, S)) = Range(s) \cap S
      /\ Len(Only(s, S)) <= Len(s)
      /\ BeginsLike(Only(s, S), s, S)
    BY OnlyKeeps
<1>3. \A i \in 1..Len(s) : s[i] \in S <=> s[i] # Blank
    BY <1>1 DEF Range
<1>4. Blank \notin Range(s) => Only(s, S) = s
    BY <1>1, <1>3, OnlyAll DEF Range
<1>5. Only(s, S) \in Seq(Texts \ {Blank})
  <2>1. Texts \cap S \subseteq Texts \ {Blank}
      OBVIOUS
  <2>2. \A A, B : A \subseteq B => Seq(A) \subseteq Seq(B)
      OBVIOUS
  <2>3. QED
      BY <1>2, <2>1, <2>2
<1>6. Range(Only(s, S)) = Range(s) \ {Blank}
    BY <1>1, <1>2
<1>7. \A j \in 0..Len(s) : (\A i \in 1..j : s[i] # Blank) => \A i \in 1..j : s[i] \in S
    BY <1>3
<1> HIDE DEF S
<1>8. QED
    BY <1>1, <1>2, <1>4, <1>5, <1>6, <1>7 DEF BeginsLike

MarkedPlaces(form) == {j \in ToSet(form.indices) : Within(form.options, j)}

\* The cleaning of a plain form keeps what is marked, and no mark stands for another
\* option.
LEMMA MarksKept ==
    ASSUME NEW form \in Fields, PlainForm(form)
    PROVE  LET q == Cleaned(form) IN
           /\ q.type = form.type /\ q.answer = form.answer /\ q.tolerance = form.tolerance
           /\ q.options \in Seq(Texts \ {Blank}) /\ Range(q.options) = Range(form.options) \ {Blank}
           /\ q.indices \in Seq(Int) /\ Range(q.indices) = MarkedPlaces(form)
           /\ \A k \in MarkedPlaces(form) : At(q.options, k) = At(form.options, k)
<1> DEFINE q == Cleaned(form)
           opts == Options(form)
           kept == Only(form.indices, Places(opts))
<1>1. form.options \in Seq(Texts) /\ form.indices \in Seq(Int)
    BY DEF Fields
<1>2. /\ q.type = form.type /\ q.answer = form.answer /\ q.tolerance = form.tolerance
      /\ q.options = opts /\ q.indices = kept
    BY DEF Cleaned, Fields
<1> HIDE DEF q
<1>3. /\ opts \in Seq(Texts \ {Blank}) /\ Len(opts) <= Len(form.options)
      /\ Range(opts) = Range(form.options) \ {Blank}
      /\ \A j \in 0..Len(form.options) : (\A i \in 1..j : form.options[i] # Blank) =>
             j <= Len(opts) /\ \A i \in 1..j : opts[i] = form.options[i]
    BY <1>1, OptionsKept
<1> HIDE DEF opts
<1>4. kept \in Seq(Int) /\ Range(kept) = Range(form.indices) \cap Places(opts)
  <2>1. kept \in Seq(Int \cap Places(opts)) /\ Range(kept) = Range(form.indices) \cap Places(opts)
      BY <1>1, OnlyKeeps
  <2>2. QED
      BY <2>1
<1> HIDE DEF kept
<1>5. ASSUME NEW k \in MarkedPlaces(form)
      PROVE  k \in Places(opts) /\ At(opts, k) = At(form.options, k)
  <2>1. k \in ToSet(form.indices) /\ k \in 0..Len(form.options) - 1 /\ Len(form.options) \in Nat
      BY <1>1 DEF MarkedPlaces, Within, Places
  <2>2. \A i \in 1..(k + 1) : form.options[i] # Blank
    <3> SUFFICES ASSUME NEW i \in 1..(k + 1), form.options[i] = Blank PROVE FALSE
        OBVIOUS
    <3>1. i \in DOMAIN form.options
        BY <1>1, <2>1
    <3>2. "word" \notin DOMAIN form.options[i]
        BY DEF Blank
    <3>3. k < i - 1
        BY <2>1, <3>1, <3>2 DEF PlainForm
    <3>4. QED
        BY <2>1, <3>3
  <2>3. k + 1 \in 0..Len(form.options)
      BY <2>1
  <2>4. k + 1 <= Len(opts) /\ \A i \in 1..(k + 1) : opts[i] = form.options[i]
      BY <1>3, <2>2, <2>3
  <2>5. Len(opts) \in Nat /\ k + 1 \in 1..(k + 1)
      BY <1>3, <2>1
  <2>6. QED
      BY <2>1, <2>4, <2>5 DEF Places, At
<1>6. Range(kept) = MarkedPlaces(form)
  <2>1. ToSet(form.indices) = Range(form.indices)
      BY DEF ToSet, Range
  <2>2. \A k : k \in Places(opts) => Within(form.options, k)
    <3>1. Len(opts) \in Nat /\ Len(form.options) \in Nat
        BY <1>1, <1>3
    <3>2. QED
        BY <1>3, <3>1 DEF Within, Places
  <2>3. QED
      BY <1>4, <1>5, <2>1, <2>2 DEF MarkedPlaces
<1>7. QED
    BY <1>2, <1>3, <1>4, <1>5, <1>6 DEF q

\* The normalization of an accepted question keeps its options and its key.
LEMMA NormalizedKept ==
    ASSUME NEW q, q.type \in {"mcq", "msq"}, q.options \in Seq(Texts \ {Blank}),
           q.indices \in Seq(Int), Accepted(q), DOMAIN q = {"type", "options", "indices", "answer", "tolerance"}
    PROVE  /\ Normalized(q).type = q.type /\ Normalized(q).options = q.options
           /\ Range(Normalized(q).indices) = Range(q.indices) /\ Range(q.indices) # {}
           /\ q.type = "mcq" => Cardinality(Range(q.indices)) = 1
<1>1. q.options \in Seq(Texts) /\ Blank \notin Range(q.options)
  <2>1. \A A, B : A \subseteq B => Seq(A) \subseteq Seq(B)
      OBVIOUS
  <2>2. q.options \in Seq(Texts)
      BY <2>1
  <2>3. \A i \in DOMAIN q.options : q.options[i] # Blank
      OBVIOUS
  <2>4. QED
      BY <2>2, <2>3 DEF Range
<1>2. Options(q) = q.options
    BY <1>1, OptionsKept
<1>3. /\ q.indices # <<>> /\ \A i \in Range(q.indices) : i \in Places(q.options)
      /\ q.type = "mcq" => Len(Once(q.indices)) = 1
    BY <1>2 DEF Accepted, Within, ToSet, Range
<1>4. Only(q.indices, Places(q.options)) = q.indices
  <2>1. \A i \in 1..Len(q.indices) : q.indices[i] \in Places(q.options)
      BY <1>3 DEF Range
  <2>2. QED
      BY <2>1, OnlyAll
<1> DEFINE once == Once(q.indices)
<1>5. once \in Seq(Int) /\ once # <<>> /\ Range(once) = Range(q.indices)
    BY <1>3, OnceKeeps
<1>6. CorrectIndices(q) = once
    BY <1>2, <1>4, <1>5 DEF CorrectIndices
<1> HIDE DEF once
<1>7. q.type = "mcq" => Len(once) = 1
    BY <1>3 DEF once
<1>8. /\ Normalized(q).type = q.type /\ Normalized(q).options = q.options
      /\ Normalized(q).indices = once
  <2>1. ~(q.type = "mcq" /\ Len(once) > 1)
    <3>1. ASSUME NEW n \in Nat, n = 1 PROVE ~(n > 1)
        BY <3>1
    <3>2. Len(once) \in Nat
        BY <1>5
    <3>3. QED
        BY <1>7, <3>1, <3>2
  <2>2. Normalized(q) = [q EXCEPT !.options = q.options, !.answer = NoAnswer, !.indices = once]
      BY <1>2, <1>6, <2>1 DEF Normalized
  <2>3. QED
      BY <2>2
<1>9. Range(once) # {}
  <2>1. 1 \in DOMAIN once
      BY <1>5
  <2>2. QED
      BY <2>1 DEF Range
<1>10. ASSUME Len(once) = 1 PROVE Cardinality(Range(once)) = 1
  <2>1. DOMAIN once = 1..1
      BY <1>5, <1>10
  <2>2. \A i \in 1..1 : i = 1
      OBVIOUS
  <2>3. Range(once) = {once[1]}
      BY <2>1, <2>2 DEF Range
  <2>4. QED
      BY <2>3, FS_Singleton
<1>11. QED
    BY <1>5, <1>7, <1>8, <1>9, <1>10

\* What is a number among the texts, and a word.
LEMMA KindsOfTexts ==
    ASSUME NEW t \in Texts \cup {NoAnswer}
    PROVE  /\ "number" \in DOMAIN t => t.number \in Int
           /\ "word" \in DOMAIN t =>
                "bar" \notin DOMAIN t /\ "numeral" \notin DOMAIN t /\ "numerals" \notin DOMAIN t
<1>1. CASE t \in Amounts
    BY <1>1 DEF Amounts
<1>2. CASE t \in [word : STRING]
    BY <1>2
<1>3. CASE t \in [numeral : Nat]
    BY <1>3
<1>4. CASE t \in [numerals : SUBSET Nat]
    BY <1>4
<1>5. CASE t \in [bar : SUBSET STRING]
    BY <1>5
<1>6. CASE t \in {Blank, NoAnswer}
    BY <1>6 DEF Blank, NoAnswer
<1>7. QED
    BY <1>1, <1>2, <1>3, <1>4, <1>5, <1>6 DEF Texts

LEMMA WithinTolerance ==
    ASSUME NEW x \in Int, NEW y \in Int, NEW tol \in Int
    PROVE  x - y <= tol /\ y - x <= tol <=> x - y \in -tol..tol
OBVIOUS

\* A number is right exactly when it lies within the tolerance of the answer.
LEMMA NumberGraded ==
    ASSUME NEW form \in Fields, form.type = "numerical", Accepted(Cleaned(form)),
           NEW t \in Amounts, t.unit # "with_e"
    PROVE  Correct(Cleaned(form), Payload(form, {t})) <=> MeantRight(form, {t})
<1> DEFINE q == Cleaned(form)
<1>1. /\ q.type = "numerical" /\ q.answer = form.answer /\ q.tolerance = form.tolerance
      /\ DOMAIN q = {"type", "options", "indices", "answer", "tolerance"}
    BY DEF Cleaned, Fields
<1>2. Accepted(q)
    OBVIOUS
<1> HIDE DEF q
<1>3. Numeric(form.answer) /\ form.tolerance >= 0
  <2>1. Numeric(q.answer) /\ q.tolerance >= 0
      BY <1>1, <1>2 DEF Accepted
  <2>2. QED
      BY <1>1, <2>1
<1>4. form.tolerance \in Int /\ form.answer \in Texts \cup {NoAnswer}
    BY DEF Fields
<1>5. Normalized(q).type = "numerical" /\ Normalized(q).answer = form.answer
      /\ Normalized(q).tolerance = form.tolerance
  <2>1. ~(q.tolerance < 0)
      BY <1>1, <1>3, <1>4
  <2>2. Normalized(q) = [q EXCEPT !.tolerance = q.tolerance]
      BY <1>1, <2>1 DEF Normalized
  <2>3. QED
      BY <1>1, <2>2
<1>6. Payload(form, {t}).text = t
  <2>1. (CHOOSE x \in {t} : TRUE) = t
      OBVIOUS
  <2>2. form.type # "msq"
      OBVIOUS
  <2>3. QED
      BY <2>1, <2>2 DEF Payload
<1>7. Parsed(form.answer) = {form.answer.number}
    BY <1>3 DEF Parsed, Numeric
<1>8. Parsed(t) = {t.number}
    BY DEF Parsed, Amounts
<1>9. form.answer.number \in Int /\ t.number \in Int
  <2>1. "number" \in DOMAIN form.answer
      BY <1>3 DEF Numeric
  <2>2. form.answer.number \in Int
      BY <1>4, <2>1, KindsOfTexts
  <2>3. QED
      BY <2>2 DEF Amounts
<1>10. Correct(q, Payload(form, {t})) <=>
          form.answer.number - t.number <= form.tolerance /\ t.number - form.answer.number <= form.tolerance
    BY <1>5, <1>6, <1>7, <1>8 DEF Correct
<1>11. MeantRight(form, {t}) <=> form.answer.number - t.number \in -form.tolerance..form.tolerance
    BY DEF MeantRight
<1>12. QED
    BY <1>4, <1>9, <1>10, <1>11, WithinTolerance DEF q

\* A plain choice of options is graded right exactly when it is what was marked.
LEMMA ChoiceGraded ==
    ASSUME NEW form \in Fields, form.type \in {"mcq", "msq"}, Accepted(Cleaned(form)),
           PlainForm(form), NEW numbers, NEW choice \in ChoicesOf(Cleaned(form), numbers)
    PROVE  Correct(Cleaned(form), Payload(form, choice)) <=> MeantRight(form, choice)
<1> DEFINE q == Cleaned(form)
           r == Normalized(q)
           key == {At(r.options, i) : i \in ToSet(r.indices)}
           p == Payload(form, choice)
<1>1. /\ q.type = form.type
      /\ q.options \in Seq(Texts \ {Blank}) /\ Range(q.options) = Range(form.options) \ {Blank}
      /\ q.indices \in Seq(Int) /\ Range(q.indices) = MarkedPlaces(form)
      /\ \A k \in MarkedPlaces(form) : At(q.options, k) = At(form.options, k)
    BY MarksKept
<1>2. DOMAIN q = {"type", "options", "indices", "answer", "tolerance"}
    BY DEF Cleaned, Fields
<1> HIDE DEF q
<1>3. /\ r.type = q.type /\ r.options = q.options
      /\ Range(r.indices) = MarkedPlaces(form) /\ MarkedPlaces(form) # {}
      /\ q.type = "mcq" => Cardinality(MarkedPlaces(form)) = 1
    BY <1>1, <1>2, NormalizedKept DEF q
<1> HIDE DEF r
<1>4. key = Marked(form) /\ key # {}
  <2>1. ToSet(r.indices) = MarkedPlaces(form)
      BY <1>3 DEF ToSet, Range
  <2>2. key = {At(form.options, k) : k \in MarkedPlaces(form)}
      BY <1>1, <1>3, <2>1
  <2>3. QED
      BY <1>3, <2>2 DEF Marked, MarkedPlaces
<1>5. q.type = "mcq" => Cardinality(key) = 1
  <2> SUFFICES ASSUME q.type = "mcq" PROVE Cardinality(key) = 1
      OBVIOUS
  <2>1. PICK k : MarkedPlaces(form) = {k}
    <3>1. IsFiniteSet(MarkedPlaces(form))
      <4>1. form.options \in Seq(Texts)
          BY DEF Fields
      <4>2. 0 \in Int /\ Len(form.options) - 1 \in Int
          BY <4>1
      <4>3. IsFiniteSet(0..(Len(form.options) - 1))
          BY <4>2, FS_Interval
      <4>4. MarkedPlaces(form) \subseteq 0..(Len(form.options) - 1)
          BY DEF MarkedPlaces, Within, Places
      <4>5. QED
          BY <4>3, <4>4, FS_Subset
    <3>2. QED
        BY <1>3, <3>1, FS_Singleton
  <2>2. key = {At(r.options, k)}
      BY <1>3, <2>1 DEF ToSet, Range
  <2>3. QED
      BY <2>2, FS_Singleton
<1> HIDE DEF key
<1>6. SelectedTexts(p, r.options) = choice
  <2>1. CASE form.type = "msq"
      BY <2>1 DEF SelectedTexts, Payload
  <2>2. CASE form.type = "mcq"
    <3>1. PICK t \in ToSet(r.options) : choice = {t}
        BY <1>1, <2>2 DEF ChoicesOf, PublicView, q, r
    <3>2. t \in Range(form.options) \ {Blank}
        BY <1>1, <1>3, <3>1 DEF ToSet, Range
    <3>3. "word" \in DOMAIN t
        BY <3>2 DEF PlainForm, Range
    <3>4. t \in Texts
        BY <3>2 DEF Fields, Range
    <3>5. "bar" \notin DOMAIN t /\ "numeral" \notin DOMAIN t /\ "numerals" \notin DOMAIN t
        BY <3>3, <3>4, KindsOfTexts
    <3>6. p = [text |-> t]
      <4>1. (CHOOSE x \in {t} : TRUE) = t
          OBVIOUS
      <4>2. QED
          BY <2>2, <3>1, <4>1 DEF Payload
    <3>7. SelectedTexts(p, r.options) = {t}
        BY <3>5, <3>6 DEF SelectedTexts
    <3>8. QED
        BY <3>1, <3>7
  <2>3. QED
      BY <2>1, <2>2
<1>7. Correct(q, p) <=> choice = Marked(form)
  <2>1. r.type # "numerical"
      BY <1>1, <1>3
  <2>2. Correct(q, p) <=> /\ key # {} /\ SelectedTexts(p, r.options) = key
                          /\ r.type = "mcq" => Cardinality(key) = 1
    <3> HIDE DEF p
    <3>1. QED
        BY <2>1 DEF Correct, key, r
  <2>3. QED
      BY <1>3, <1>4, <1>5, <1>6, <2>2
<1>8. MeantRight(form, choice) <=> choice = Marked(form)
    BY DEF MeantRight
<1>9. QED
    BY <1>7, <1>8 DEF q, p

\* Whatever is accepted, a plain choice or number is right exactly when it was meant.
LEMMA PlainGraded ==
    ASSUME NEW form \in Fields, Accepted(Cleaned(form)), PlainForm(form),
           NEW numbers \in SUBSET Amounts, NEW choice \in ChoicesOf(Cleaned(form), numbers),
           PlainChoice(choice)
    PROVE  Correct(Cleaned(form), Payload(form, choice)) = MeantRight(form, choice)
<1>1. Correct(Cleaned(form), Payload(form, choice)) <=> MeantRight(form, choice)
  <2>1. CASE form.type = "numerical"
    <3>1. Cleaned(form).type = "numerical"
        BY <2>1 DEF Cleaned, Fields
    <3>2. PICK t \in numbers : choice = {t}
        BY <3>1 DEF ChoicesOf
    <3>3. t \in Amounts /\ t.unit # "with_e"
        BY <3>2 DEF PlainChoice, Amounts
    <3>4. QED
        BY <2>1, <3>2, <3>3, NumberGraded
  <2>2. CASE form.type \in {"mcq", "msq"}
      BY <2>2, ChoiceGraded
  <2>3. QED
      BY <2>1, <2>2 DEF Fields
<1>2. Correct(Cleaned(form), Payload(form, choice)) \in BOOLEAN
    BY DEF Correct
<1>3. MeantRight(form, choice) \in BOOLEAN
    BY DEF MeantRight
<1>4. QED
    BY <1>1, <1>2, <1>3

\* The normalization of a question leaves a question.
LEMMA NormalizedTyped ==
    ASSUME NEW raw \in Fields
    PROVE  Normalized(raw) \in Fields
<1>1. /\ raw.options \in Seq(Texts) /\ raw.indices \in Seq(Int) /\ raw.tolerance \in Int
      /\ raw.type \in {"mcq", "msq", "numerical"}
    BY DEF Fields
<1> DEFINE opts == Options(raw)
           indices == CorrectIndices(raw)
<1>2. opts \in Seq(Texts)
  <2>1. opts \in Seq(Texts \ {Blank})
      BY <1>1, OptionsKept
  <2>2. \A A, B : A \subseteq B => Seq(A) \subseteq Seq(B)
      OBVIOUS
  <2> HIDE DEF opts
  <2>3. QED
      BY <2>1, <2>2
<1>3. \A s \in Seq(Int) : \A S : Only(s, S) \in Seq(Int)
  <2> SUFFICES ASSUME NEW s \in Seq(Int), NEW S PROVE Only(s, S) \in Seq(Int)
      OBVIOUS
  <2>1. Only(s, S) \in Seq(Int \cap S)
      BY OnlyKeeps
  <2>2. \A A, B : A \subseteq B => Seq(A) \subseteq Seq(B)
      OBVIOUS
  <2>3. QED
      BY <2>1, <2>2
<1> HIDE DEF opts
<1>4. indices \in Seq(Int)
  <2> DEFINE given == Only(raw.indices, Places(opts))
             all == [i \in DOMAIN opts |-> i - 1]
  <2>1. given \in Seq(Int) /\ all \in Seq(Int)
    <3>1. given \in Seq(Int)
        BY <1>1, <1>3
    <3>2. all \in Seq(Int)
      <4>1. Len(opts) \in Nat /\ DOMAIN opts = 1..Len(opts)
          BY <1>2
      <4>2. QED
          BY <4>1
    <3>3. QED
        BY <3>1, <3>2
  <2> HIDE DEF given, all
  <2>2. given # <<>> => Once(given) \in Seq(Int)
      BY <2>1, OnceKeeps
  <2>3. \A S : Only(all, S) \in Seq(Int)
      BY <1>3, <2>1
  <2>4. given = <<>> => Once(given) = <<>>
      BY OnceNone
  <2>5. indices \in Seq(Int)
    <3>1. CASE Once(given) = <<>>
        BY <2>3, <3>1 DEF CorrectIndices, given, all, opts
    <3>2. CASE Once(given) # <<>>
      <4>1. indices = Once(given)
          BY <3>2 DEF CorrectIndices, given, opts
      <4>2. QED
          BY <2>2, <2>4, <3>2, <4>1
    <3>3. QED
        BY <3>1, <3>2
  <2>6. QED
      BY <2>5
<1> HIDE DEF indices
<1>5. CASE raw.type = "numerical"
  <2>1. Normalized(raw) = [raw EXCEPT !.tolerance = IF raw.tolerance < 0 THEN 0 ELSE raw.tolerance]
      BY <1>5 DEF Normalized
  <2>2. (IF raw.tolerance < 0 THEN 0 ELSE raw.tolerance) \in Int
      BY <1>1
  <2>3. QED
      BY <2>1, <2>2 DEF Fields
<1>6. CASE raw.type # "numerical"
  <2> DEFINE kept == IF raw.type = "mcq" /\ Len(indices) > 1 THEN <<indices[1]>> ELSE indices
  <2>1. kept \in Seq(Int)
    <3>1. Len(indices) \in Nat /\ DOMAIN indices = 1..Len(indices)
        BY <1>4
    <3>2. Len(indices) > 1 => indices[1] \in Int
        BY <1>4, <3>1
    <3>3. QED
        BY <1>4, <3>2
  <2>2. Normalized(raw) = [raw EXCEPT !.options = opts, !.answer = NoAnswer, !.indices = kept]
      BY <1>6 DEF Normalized, opts, indices
  <2> HIDE DEF kept
  <2>3. QED
      BY <1>2, <2>1, <2>2 DEF Fields
<1>7. QED
    BY <1>5, <1>6

-----------------------------------------------------------------------------
(* Counting tests. *)

LEMMA TestsType == \A q \in Questions : Tests[q] \in Nat
BY JudgeAssumption DEF Tests

\* Of the tests up to d + 1 a program passes one more than of those up to d, or
\* as many.
LEMMA OneMoreTest ==
    ASSUME NEW s, NEW d \in Nat
    PROVE  /\ Cardinality(s \cap 1..d) \in Nat
           /\ Cardinality(s \cap 1..d) <= d
           /\ Cardinality(s \cap 1..d + 1) =
                Cardinality(s \cap 1..d) + (IF d + 1 \in s THEN 1 ELSE 0)
<1>1. IsFiniteSet(1..d) /\ Cardinality(1..d) = d
    BY FS_Interval
<1>2. /\ IsFiniteSet(s \cap 1..d)
      /\ Cardinality(s \cap 1..d) <= d
    BY <1>1, FS_Subset
<1>3. Cardinality(s \cap 1..d) \in Nat
    BY <1>2, FS_CardinalityType
<1>4. CASE d + 1 \in s
  <2>1. s \cap 1..d + 1 = (s \cap 1..d) \cup {d + 1}
    BY <1>4
  <2>2. d + 1 \notin s \cap 1..d
    OBVIOUS
  <2>3. QED
    BY <1>2, <1>3, <1>4, <2>1, <2>2, FS_AddElement
<1>5. CASE d + 1 \notin s
  <2>1. s \cap 1..d + 1 = s \cap 1..d
    BY <1>5
  <2>2. QED
    BY <1>2, <1>3, <1>5, <2>1
<1>6. QED
    BY <1>4, <1>5

-----------------------------------------------------------------------------
(* Rounding. *)

LEMMA AtMostOne ==
    ASSUME NEW x \in Int, NEW d \in Nat \ {0}, x * d <= d
    PROVE  x <= 1
<1>1. ASSUME x >= 2 PROVE x * d >= 2 * d
    BY <1>1
<1>2. QED
    BY <1>1

\* A rounded quotient lies between the integers the exact one lies between.
LEMMA RoundedBetween ==
    ASSUME NEW n \in Nat, NEW d \in Nat \ {0}, NEW lo \in Nat, NEW hi \in Nat,
           lo * d <= n, n <= hi * d, NEW k \in Rounded(n, d)
    PROVE  k \in lo..hi
<1>1. k \in Nat /\ 2 * k * d <= 2 * n + d /\ 2 * n <= 2 * k * d + d
  <2>1. n \div d \in Nat
      OBVIOUS
  <2>2. QED
      BY <2>1 DEF Rounded
<1>2. (2 * k - 2 * hi) * d <= d
  <2>1. (2 * k - 2 * hi) * d = 2 * k * d - 2 * (hi * d)
      BY <1>1
  <2>2. k * d \in Int /\ hi * d \in Int /\ 2 * k * d = 2 * (k * d)
      BY <1>1
  <2>3. QED
      BY <1>1, <2>1, <2>2
<1>3. (2 * lo - 2 * k) * d <= d
  <2>1. (2 * lo - 2 * k) * d = 2 * (lo * d) - 2 * k * d
      BY <1>1
  <2>2. k * d \in Int /\ lo * d \in Int /\ 2 * k * d = 2 * (k * d)
      BY <1>1
  <2>3. QED
      BY <1>1, <2>1, <2>2
<1>4. 2 * k - 2 * hi <= 1 /\ 2 * lo - 2 * k <= 1
    BY <1>1, <1>2, <1>3, AtMostOne
<1>5. QED
    BY <1>1, <1>4

LEMMA ShareBetween ==
    ASSUME NEW top \in Nat, NEW total \in Nat \ {0}, NEW passed \in 0..total,
           NEW k \in Rounded(top * passed, total)
    PROVE  k \in 0..top
<1> DEFINE n == top * passed
<1>1. n \in Nat /\ n <= top * total
    OBVIOUS
<1>2. ASSUME NEW lo \in Nat, lo = 0 PROVE k \in lo..top
  <2>1. lo * total <= n
      BY <1>1, <1>2
  <2> HIDE DEF n
  <2>2. QED
      BY <1>1, <2>1, RoundedBetween DEF n
<1>3. QED
    BY <1>2

LEMMA ScoreRange ==
    ASSUME NEW total \in Nat, NEW passed \in 0..total, NEW score \in ScorePercent(passed, total)
    PROVE  score \in Percents
<1>1. CASE total = 0
    BY <1>1 DEF ScorePercent, Percents
<1>2. CASE total # 0
  <2>1. PICK top \in Nat : top = 10000
      OBVIOUS
  <2>2. score \in Rounded(top * passed, total)
      BY <1>2, <2>1 DEF ScorePercent
  <2>3. score \in 0..top
      BY <1>2, <2>2, ShareBetween
  <2>4. QED
      BY <2>1, <2>3 DEF Percents
<1>3. QED
    BY <1>1, <1>2

-----------------------------------------------------------------------------
(* The invariant.  A run has a back end, before which all others failed, and *)
(* counts the tests it is past; a judgment counts the tests of its program.  *)

Counts(q, d, p) ==
    LET n == Cardinality(solves[q] \cap 1..d) IN p <= n /\ (q \notin spoiled => p = n)

Running(q) ==
    \E b \in DOMAIN Backends, d \in Nat, p \in Nat :
        /\ run[q] = [at |-> "running", backend |-> b, done |-> d, passed |-> p]
        /\ d < Tests[q]
        /\ Counts(q, d, p)
        /\ \A c \in 1..b - 1 : Failed(q, c)

\* Every back end was out, or one gave an odd answer.
Out(q) ==
    \/ \A b \in DOMAIN Backends : Failed(q, b)
    \/ \E x \in broken[q] : x[2] = "odd"

Verdict(q, p, error, score) ==
    [at |-> "judged", passed |-> p, error |-> error, score |-> score,
     correct |-> p = Tests[q] /\ Tests[q] > 0]

JudgedFairly(q) ==
    \E p \in Nat, error \in {"none", "stopped", "raised"}, score \in Percents :
        /\ judgment[q] = Verdict(q, p, error, score)
        /\ p <= Cardinality(solves[q])
        /\ q \notin spoiled /\ error = "none" => p = Cardinality(solves[q])
        /\ error = "stopped" /\ Tests[q] > 0 => Out(q)

ObjectiveJudged(q) ==
    /\ judgment[q].at = "judged"
    /\ judgment[q].score \in Percents
    /\ judgment[q].plain => judgment[q].correct = judgment[q].meant

RunsInv ==
    /\ DOMAIN run = Questions
    /\ \A q \in Questions : solves[q] \in SUBSET (1..Tests[q])
    /\ \A q \in Questions : run[q] = None \/ Running(q)

JudgmentsInv ==
    /\ DOMAIN judgment = AllQuestions
    /\ \A q \in Questions : judgment[q] = None \/ JudgedFairly(q)
    /\ \A q \in Objective : judgment[q] = None \/ ObjectiveJudged(q)

BrokenInv == DOMAIN broken = Questions

IInv == RunsInv /\ JudgmentsInv /\ BrokenInv

-----------------------------------------------------------------------------
(* What is said of a question stays true while calls fail for others. *)

Grows ==
    /\ solves' = solves
    /\ spoiled \subseteq spoiled'
    /\ \A q \in Questions : broken[q] \subseteq broken'[q]

LEMMA FailuresStay ==
    ASSUME Grows, NEW q \in Questions
    PROVE  /\ \A b : Failed(q, b) => Failed(q, b)'
           /\ Out(q) => Out(q)'
<1>1. broken[q] \subseteq broken'[q]
    BY DEF Grows
<1>2. ASSUME NEW b, Failed(q, b) PROVE Failed(q, b)'
    BY <1>1, <1>2 DEF Failed
<1>3. ASSUME Out(q) PROVE Out(q)'
    BY <1>1, <1>2, <1>3 DEF Out
<1>4. QED
    BY <1>2, <1>3

LEMMA RunStays ==
    ASSUME Grows, NEW q \in Questions, run'[q] = run[q], run[q] = None \/ Running(q)
    PROVE  run'[q] = None \/ Running(q)'
<1>1. CASE run[q] = None
    BY <1>1
<1>2. CASE Running(q)
  <2>1. PICK b \in DOMAIN Backends, d \in Nat, p \in Nat :
            /\ run[q] = [at |-> "running", backend |-> b, done |-> d, passed |-> p]
            /\ d < Tests[q]
            /\ Counts(q, d, p)
            /\ \A c \in 1..b - 1 : Failed(q, c)
      BY <1>2 DEF Running
  <2>2. Counts(q, d, p)'
      BY <2>1 DEF Grows, Counts
  <2>3. \A c \in 1..b - 1 : Failed(q, c)'
      BY <2>1, FailuresStay
  <2>4. run'[q] = [at |-> "running", backend |-> b, done |-> d, passed |-> p]
      BY <2>1
  <2>5. QED
      BY <2>1, <2>2, <2>3, <2>4 DEF Running
<1>3. QED
    BY <1>1, <1>2

LEMMA JudgmentStays ==
    ASSUME Grows, NEW q \in Questions, judgment'[q] = judgment[q],
           judgment[q] = None \/ JudgedFairly(q)
    PROVE  judgment'[q] = None \/ JudgedFairly(q)'
<1>1. CASE judgment[q] = None
    BY <1>1
<1>2. CASE JudgedFairly(q)
  <2>1. PICK p \in Nat, error \in {"none", "stopped", "raised"}, score \in Percents :
        /\ judgment[q] = Verdict(q, p, error, score)
        /\ p <= Cardinality(solves[q])
        /\ q \notin spoiled /\ error = "none" => p = Cardinality(solves[q])
        /\ error = "stopped" /\ Tests[q] > 0 => Out(q)
      BY <1>2 DEF JudgedFairly
  <2>2. judgment'[q] = Verdict(q, p, error, score)
      BY <2>1
  <2>3. /\ p <= Cardinality(solves'[q])
        /\ q \notin spoiled' /\ error = "none" => p = Cardinality(solves'[q])
      BY <2>1 DEF Grows
  <2>4. error = "stopped" /\ Tests[q] > 0 => Out(q)'
      BY <2>1, FailuresStay
  <2>5. QED
      BY <2>2, <2>3, <2>4 DEF JudgedFairly
<1>3. QED
    BY <1>1, <1>2

LEMMA ObjectiveStays ==
    ASSUME NEW q \in Objective, judgment'[q] = judgment[q],
           judgment[q] = None \/ ObjectiveJudged(q)
    PROVE  judgment'[q] = None \/ ObjectiveJudged(q)'
<1>1. CASE judgment[q] = None
    BY <1>1
<1>2. CASE ObjectiveJudged(q)
    BY <1>2 DEF ObjectiveJudged
<1>3. QED
    BY <1>1, <1>2

\* A step that neither runs nor judges anything.
LEMMA NothingRuns ==
    ASSUME IInv, Grows, UNCHANGED <<run, judgment>>, DOMAIN broken' = Questions
    PROVE  IInv'
<1>1. \A q \in Questions : run'[q] = None \/ Running(q)'
    BY RunStays DEF IInv, RunsInv
<1>2. \A q \in Questions : judgment'[q] = None \/ JudgedFairly(q)'
    BY JudgmentStays DEF IInv, JudgmentsInv
<1>3. \A q \in Objective : judgment'[q] = None \/ ObjectiveJudged(q)'
    BY ObjectiveStays DEF IInv, JudgmentsInv
<1>4. RunsInv'
    BY <1>1 DEF IInv, RunsInv, Grows
<1>5. JudgmentsInv'
    BY <1>2, <1>3 DEF IInv, JudgmentsInv
<1>6. QED
    BY <1>4, <1>5 DEF IInv, BrokenInv

\* The run of one question goes on.
LEMMA RunGoesOn ==
    ASSUME IInv, Grows, DOMAIN broken' = Questions, UNCHANGED judgment,
           NEW q \in Questions, NEW b \in DOMAIN Backends, NEW d \in Nat, NEW p \in Nat,
           run' = [run EXCEPT ![q] = [at |-> "running", backend |-> b, done |-> d, passed |-> p]],
           d < Tests[q], Counts(q, d, p)', \A c \in 1..b - 1 : Failed(q, c)'
    PROVE  IInv'
<1>1. DOMAIN run = Questions
    BY DEF IInv, RunsInv
<1>2. Running(q)'
  <2>1. run'[q] = [at |-> "running", backend |-> b, done |-> d, passed |-> p]
      BY <1>1
  <2>2. QED
      BY <2>1 DEF Running
<1>3. ASSUME NEW r \in Questions PROVE run'[r] = None \/ Running(r)'
  <2>1. CASE r = q
      BY <1>2, <2>1
  <2>2. CASE r # q
    <3>1. run'[r] = run[r]
        BY <1>1, <2>2
    <3>2. QED
        BY <3>1, RunStays DEF IInv, RunsInv
  <2>3. QED
      BY <2>1, <2>2
<1>4. RunsInv'
    BY <1>1, <1>3 DEF IInv, RunsInv, Grows
<1>5. \A r \in Questions : judgment'[r] = None \/ JudgedFairly(r)'
    BY JudgmentStays DEF IInv, JudgmentsInv
<1>6. \A r \in Objective : judgment'[r] = None \/ ObjectiveJudged(r)'
    BY ObjectiveStays DEF IInv, JudgmentsInv
<1>7. JudgmentsInv'
    BY <1>5, <1>6 DEF IInv, JudgmentsInv
<1>8. QED
    BY <1>4, <1>7 DEF IInv, BrokenInv

\* A question is judged, and its run ends if it had one.
LEMMA JudgedOnce ==
    ASSUME IInv, Grows, DOMAIN broken' = Questions,
           NEW q \in Questions, NEW p \in Nat, NEW error \in {"none", "stopped", "raised"},
           Judged(q, p, error), p <= Cardinality(solves[q]),
           q \notin spoiled' /\ error = "none" => p = Cardinality(solves[q]),
           error = "stopped" /\ Tests[q] > 0 => Out(q)',
           run' = run \/ run' = [run EXCEPT ![q] = None]
    PROVE  IInv'
<1>1. /\ DOMAIN run = Questions /\ DOMAIN judgment = AllQuestions
      /\ q \in AllQuestions /\ q \notin Objective
    BY JudgeAssumption DEF IInv, RunsInv, JudgmentsInv, AllQuestions
<1>2. p \in 0..Tests[q]
  <2>1. IsFiniteSet(1..Tests[q]) /\ Cardinality(1..Tests[q]) = Tests[q]
    <3>1. \A n \in Nat : IsFiniteSet(1..n) /\ Cardinality(1..n) = n
        BY FS_Interval
    <3>2. QED
        BY <3>1, TestsType
  <2>2. solves[q] \in SUBSET (1..Tests[q])
      BY DEF IInv, RunsInv
  <2>3. Cardinality(solves[q]) <= Tests[q] /\ Cardinality(solves[q]) \in Nat
      BY <2>1, <2>2, FS_Subset, FS_CardinalityType
  <2>4. QED
      BY <2>3, TestsType
<1>3. PICK score \in ScorePercent(p, Tests[q]) :
        judgment' = [judgment EXCEPT ![q] = Verdict(q, p, error, score)]
    BY Zenon DEF Judged, Verdict
<1>4. score \in Percents
    BY <1>2, ScoreRange, TestsType
<1>5. judgment'[q] = Verdict(q, p, error, score)
    BY <1>1, <1>3
<1>6. JudgedFairly(q)'
  <2>1. p <= Cardinality(solves'[q]) /\ (q \notin spoiled' /\ error = "none" => p = Cardinality(solves'[q]))
      BY DEF Grows
  <2>2. QED
      BY <1>4, <1>5, <2>1 DEF JudgedFairly
<1>7. ASSUME NEW r \in Questions PROVE judgment'[r] = None \/ JudgedFairly(r)'
  <2>1. CASE r = q
      BY <1>6, <2>1
  <2>2. CASE r # q
    <3>1. judgment'[r] = judgment[r]
        BY <1>1, <1>3, <2>2
    <3>2. QED
        BY <3>1, JudgmentStays DEF IInv, JudgmentsInv
  <2>3. QED
      BY <2>1, <2>2
<1>8. ASSUME NEW r \in Objective PROVE judgment'[r] = None \/ ObjectiveJudged(r)'
  <2>1. judgment'[r] = judgment[r]
      BY <1>1, <1>3
  <2>2. QED
      BY <2>1, ObjectiveStays DEF IInv, JudgmentsInv
<1>9. ASSUME NEW r \in Questions PROVE run'[r] = None \/ Running(r)'
  <2>1. CASE run'[r] = None
      BY <2>1
  <2>2. CASE run'[r] # None
    <3>1. run'[r] = run[r]
        BY <1>1, <2>2
    <3>2. QED
        BY <3>1, RunStays DEF IInv, RunsInv
  <2>3. QED
      BY <2>1, <2>2
<1>10. RunsInv'
    BY <1>1, <1>9 DEF IInv, RunsInv, Grows
<1>11. JudgmentsInv'
  <2>1. DOMAIN judgment' = AllQuestions
      BY <1>1, <1>3
  <2>2. QED
      BY <1>7, <1>8, <2>1 DEF JudgmentsInv
<1>12. QED
    BY <1>10, <1>11 DEF IInv, BrokenInv

-----------------------------------------------------------------------------
(* Every step keeps it. *)

LEMMA InitIInv == Init => IInv
<1> SUFFICES ASSUME Init PROVE IInv
    OBVIOUS
<1>1. \A q \in Questions : run[q] = None
    BY DEF Init
<1>2. \A q \in AllQuestions : judgment[q] = None
    BY DEF Init
<1>3. \A q \in Questions : solves[q] \in SUBSET (1..Tests[q])
    BY DEF Init
<1>4. RunsInv
    BY <1>1, <1>3 DEF Init, RunsInv
<1>5. JudgmentsInv
    BY <1>2 DEF Init, JudgmentsInv, AllQuestions
<1>6. QED
    BY <1>4, <1>5 DEF Init, IInv, BrokenInv

LEMMA SolvedCount ==
    ASSUME RunsInv, NEW q \in Questions
    PROVE  /\ Cardinality(solves[q]) \in Nat
           /\ solves[q] \cap 1..Tests[q] = solves[q]
           /\ Cardinality(solves[q] \cap 1..0) = 0
<1>1. solves[q] \in SUBSET (1..Tests[q]) /\ Tests[q] \in Nat
    BY TestsType DEF RunsInv
<1>2. solves[q] \cap 1..Tests[q] = solves[q]
    BY <1>1
<1>3. solves[q] \cap 1..0 = {}
    OBVIOUS
<1>4. QED
    BY <1>1, <1>2, <1>3, OneMoreTest, FS_EmptySet, ZenonT(60)

LEMMA SubmitStep == ASSUME IInv, NEW q \in Questions, Submit(q) PROVE IInv'
<1>1. Grows /\ DOMAIN broken' = Questions
    BY DEF Submit, Grows, IInv, BrokenInv
<1>2. PICK language \in Languages :
         \/ Unrun(language) /\ Judged(q, 0, "raised") /\ UNCHANGED run
         \/ ~Unrun(language) /\ Tests[q] = 0 /\ Judged(q, 0, "stopped") /\ UNCHANGED run
         \/ ~Unrun(language) /\ Tests[q] > 0 /\ UNCHANGED judgment
            /\ run' = [run EXCEPT ![q] = Run(1, 0, 0)]
    BY DEF Submit
<1>3. Cardinality(solves[q]) \in Nat /\ Cardinality(solves[q] \cap 1..0) = 0
    BY SolvedCount DEF IInv
<1>4. CASE Judged(q, 0, "raised") /\ UNCHANGED run
    BY <1>1, <1>3, <1>4, JudgedOnce
<1>5. CASE Tests[q] = 0 /\ Judged(q, 0, "stopped") /\ UNCHANGED run
    BY <1>1, <1>3, <1>5, JudgedOnce
<1>6. CASE ~Unrun(language) /\ Tests[q] > 0 /\ UNCHANGED judgment
           /\ run' = [run EXCEPT ![q] = Run(1, 0, 0)]
  <2>1. Backends # <<>>
      BY <1>6 DEF Unrun
  <2>2. 1 \in DOMAIN Backends
      BY <2>1, JudgeAssumption
  <2>3. Counts(q, 0, 0)'
      BY <1>1, <1>3 DEF Counts, Grows
  <2>4. run' = [run EXCEPT ![q] = [at |-> "running", backend |-> 1, done |-> 0, passed |-> 0]]
      BY <1>6 DEF Run
  <2>5. \A c \in 1..1 - 1 : Failed(q, c)'
      OBVIOUS
  <2>6. 0 < Tests[q]
      BY <1>6, TestsType
  <2>7. QED
      BY <1>1, <1>6, <2>2, <2>3, <2>4, <2>5, <2>6, RunGoesOn
<1>7. QED
    BY <1>2, <1>4, <1>5, <1>6

\* The run of a question that is running.
LEMMA CurrentRun ==
    ASSUME IInv, NEW q \in Questions, Current(q)
    PROVE  \E b \in DOMAIN Backends, d \in Nat, p \in Nat :
            /\ run[q] = [at |-> "running", backend |-> b, done |-> d, passed |-> p]
            /\ d < Tests[q]
            /\ Counts(q, d, p)
            /\ \A c \in 1..b - 1 : Failed(q, c)
<1>1. run[q] # None
    BY DEF Current, None
<1>2. QED
    BY <1>1 DEF IInv, RunsInv, Running

\* A case is counted as it is, or as failed if an error page was in its place.
LEMMA CountedStep ==
    ASSUME IInv, Grows, DOMAIN broken' = Questions, NEW q \in Questions, Current(q),
           NEW passes \in BOOLEAN, Counted(q, passes),
           passes => run[q].done + 1 \in solves[q],
           q \in spoiled' \/ (run[q].done + 1 \in solves[q] => passes)
    PROVE  IInv'
<1>1. PICK b \in DOMAIN Backends, d \in Nat, p \in Nat :
            /\ run[q] = [at |-> "running", backend |-> b, done |-> d, passed |-> p]
            /\ d < Tests[q]
            /\ Counts(q, d, p)
            /\ \A c \in 1..b - 1 : Failed(q, c)
    BY CurrentRun
<1> DEFINE n == p + (IF passes THEN 1 ELSE 0)
           r == [at |-> "running", backend |-> b, done |-> d + 1, passed |-> n]
<1>2. Run(run[q].backend, run[q].done + 1, run[q].passed + IF passes THEN 1 ELSE 0) = r
  <2>1. run[q].backend = b /\ run[q].done = d /\ run[q].passed = p
      BY <1>1
  <2>2. QED
      BY <2>1 DEF Run
<1>3. n \in Nat /\ Tests[q] \in Nat
    BY TestsType
<1>4. n <= Cardinality(solves[q] \cap 1..d + 1)
      /\ (q \notin spoiled' => n = Cardinality(solves[q] \cap 1..d + 1))
  <2>1. /\ Cardinality(solves[q] \cap 1..d) \in Nat
        /\ Cardinality(solves[q] \cap 1..d + 1) =
             Cardinality(solves[q] \cap 1..d) + (IF d + 1 \in solves[q] THEN 1 ELSE 0)
      BY OneMoreTest
  <2>2. run[q].done = d
      BY <1>1
  <2>3. p <= Cardinality(solves[q] \cap 1..d)
        /\ (q \notin spoiled' => p = Cardinality(solves[q] \cap 1..d))
      BY <1>1 DEF Counts, Grows
  <2>4. CASE passes
      BY <2>1, <2>2, <2>3, <2>4
  <2>5. CASE ~passes
      BY <2>1, <2>2, <2>3, <2>5
  <2>6. QED
      BY <2>4, <2>5
<1>5. Counts(q, d + 1, n)'
    BY <1>4 DEF Counts, Grows
<1>6. CASE r.done = Tests[q]
  <2>1. Judged(q, n, "none") /\ run' = [run EXCEPT ![q] = None]
      BY <1>2, <1>6 DEF Counted
  <2>2. d + 1 = Tests[q]
      BY <1>6
  <2>3. Cardinality(solves[q] \cap 1..d + 1) = Cardinality(solves[q])
      BY <2>2, SolvedCount DEF IInv
  <2> HIDE DEF n
  <2>4. QED
      BY <1>3, <1>4, <2>1, <2>3, JudgedOnce
<1>7. CASE r.done # Tests[q]
  <2>1. run' = [run EXCEPT ![q] = r] /\ UNCHANGED judgment
      BY <1>2, <1>7 DEF Counted
  <2>2. d + 1 \in Nat /\ d + 1 < Tests[q]
      BY <1>1, <1>3, <1>7
  <2>3. \A c \in 1..b - 1 : Failed(q, c)'
      BY <1>1, FailuresStay
  <2> HIDE DEF n
  <2>4. QED
      BY <1>3, <1>5, <2>1, <2>2, <2>3, RunGoesOn
<1>8. QED
    BY <1>6, <1>7

LEMMA CaseGradedStep == ASSUME IInv, NEW q \in Questions, CaseGraded(q) PROVE IInv'
<1>1. Grows /\ DOMAIN broken' = Questions
    BY DEF CaseGraded, Grows, IInv, BrokenInv
<1>2. CASE run[q].done + 1 \in solves[q]
  <2>1. Counted(q, TRUE)
      BY <1>2 DEF CaseGraded, Counted
  <2>2. QED
      BY <1>1, <1>2, <2>1, CountedStep DEF CaseGraded
<1>3. CASE run[q].done + 1 \notin solves[q]
  <2>1. Counted(q, FALSE)
      BY <1>3 DEF CaseGraded, Counted
  <2>2. QED
      BY <1>1, <1>3, <2>1, CountedStep DEF CaseGraded
<1>4. QED
    BY <1>2, <1>3

LEMMA CaseSpoiledStep == ASSUME IInv, NEW q \in Questions, CaseSpoiled(q) PROVE IInv'
<1>1. Grows /\ DOMAIN broken' = Questions /\ q \in spoiled'
    BY DEF CaseSpoiled, Grows, IInv, BrokenInv
<1>2. QED
    BY <1>1, CountedStep DEF CaseSpoiled

LEMMA CaseFailedStep == ASSUME IInv, NEW q \in Questions, CaseFailed(q) PROVE IInv'
<1>1. PICK b \in DOMAIN Backends, d \in Nat, p \in Nat :
            /\ run[q] = [at |-> "running", backend |-> b, done |-> d, passed |-> p]
            /\ d < Tests[q]
            /\ Counts(q, d, p)
            /\ \A c \in 1..b - 1 : Failed(q, c)
    BY CurrentRun DEF CaseFailed
<1>0. run[q].backend = b /\ run[q].passed = p
    BY <1>1
<1>2. PICK failure \in Failures(b) :
         /\ broken' = [broken EXCEPT ![q] = @ \cup {<<b, failure>>}]
         /\ IF FallsThrough(q, failure) THEN NextBackend(q) /\ UNCHANGED judgment
            ELSE /\ Judged(q, p, "stopped")
                 /\ run' = [run EXCEPT ![q] = None]
    BY <1>0 DEF CaseFailed
<1>3. DOMAIN broken = Questions
    BY DEF IInv, BrokenInv
<1>4. broken'[q] = broken[q] \cup {<<b, failure>>}
    BY <1>2, <1>3
<1>5. Grows /\ DOMAIN broken' = Questions
    BY <1>2, <1>3 DEF CaseFailed, Grows
<1>6. Failed(q, b)'
  <2>1. <<b, failure>> \in broken'[q] /\ <<b, failure>>[1] = b
      BY <1>4
  <2>2. QED
      BY <2>1 DEF Failed
<1>7. \A c \in 1..b : Failed(q, c)'
  <2>1. b \in Nat
      BY JudgeAssumption
  <2>2. \A c \in 1..b - 1 : Failed(q, c)'
      BY <1>1, <1>5, FailuresStay
  <2>3. QED
      BY <1>6, <2>1, <2>2
<1>8. b \in 1..Len(Backends) /\ Len(Backends) \in Nat /\ DOMAIN Backends = 1..Len(Backends)
    BY JudgeAssumption
<1>9. CASE FallsThrough(q, failure)
  <2>1. b < Len(Backends)
      BY <1>1, <1>9 DEF FallsThrough
  <2>2. b + 1 \in DOMAIN Backends
      BY <1>8, <2>1
  <2>3. run' = [run EXCEPT ![q] = [at |-> "running", backend |-> b + 1, done |-> 0, passed |-> 0]]
      BY <1>1, <1>2, <1>9 DEF NextBackend, Run
  <2>4. Counts(q, 0, 0)'
      BY <1>5, SolvedCount DEF Counts, Grows, IInv
  <2>5. \A c \in 1..(b + 1) - 1 : Failed(q, c)'
      BY <1>7, <1>8
  <2>6. 0 < Tests[q] /\ UNCHANGED judgment
      BY <1>1, <1>2, <1>9, TestsType
  <2>7. QED
      BY <1>5, <2>2, <2>3, <2>4, <2>5, <2>6, RunGoesOn
<1>10. CASE ~FallsThrough(q, failure)
  <2>1. Judged(q, p, "stopped") /\ run' = [run EXCEPT ![q] = None]
      BY <1>2, <1>10
  <2>2. p <= Cardinality(solves[q])
    <3>1. solves[q] \in SUBSET (1..Tests[q]) /\ Tests[q] \in Nat
        BY TestsType DEF IInv, RunsInv
    <3>2. IsFiniteSet(solves[q])
      <4>1. IsFiniteSet(1..Tests[q])
        <5>1. 1 \in Int /\ Tests[q] \in Int
            BY <3>1
        <5>2. QED
            BY <5>1, FS_Interval, ZenonT(60)
      <4>2. QED
          BY <3>1, <4>1, FS_Subset
    <3>3. Cardinality(solves[q] \cap 1..d) <= Cardinality(solves[q])
        BY <3>2, FS_Subset
    <3>4. Cardinality(solves[q] \cap 1..d) \in Nat /\ Cardinality(solves[q]) \in Nat
        BY <1>1, <3>2, OneMoreTest, FS_CardinalityType
    <3>5. p <= Cardinality(solves[q] \cap 1..d)
        BY <1>1 DEF Counts
    <3>6. QED
        BY <1>1, <3>3, <3>4, <3>5
  <2>3. Out(q)'
    <3>1. CASE failure \notin Outages
      <4>1. failure = "odd"
          BY <3>1 DEF Failures, Outages
      <4>2. <<b, failure>> \in broken'[q] /\ <<b, failure>>[2] = "odd"
          BY <1>4, <4>1
      <4>3. QED
          BY <4>2 DEF Out
    <3>2. CASE failure \in Outages
      <4>1. b = Len(Backends)
          BY <1>1, <1>8, <1>10, <3>2 DEF FallsThrough
      <4>2. QED
          BY <1>7, <1>8, <4>1 DEF Out
    <3>3. QED
        BY <3>1, <3>2
  <2>4. QED
      BY <1>5, <2>1, <2>2, <2>3, JudgedOnce
<1>11. QED
    BY <1>9, <1>10
LEMMA FormsTyped == Forms \subseteq Fields
<1> SUFFICES ASSUME NEW form \in Forms PROVE form \in Fields
    OBVIOUS
<1>1. CASE form \in TypedForms
    BY <1>1, JudgeAssumption
<1>2. CASE form \in UNION {Drafted(raw) : raw \in RawQuestions}
  <2>1. PICK raw \in RawQuestions : form \in Drafted(raw)
      BY <1>2
  <2>2. raw \in Fields /\ form = Normalized(raw)
      BY <2>1, JudgeAssumption DEF Drafted
  <2>3. QED
      BY <2>2, NormalizedTyped
<1>3. QED
    BY <1>1, <1>2 DEF Forms

LEMMA PercentEnds == {0, 10000} \subseteq Percents
BY DEF Percents

LEMMA SubmitObjectiveStep ==
    ASSUME IInv, NEW q \in Objective, SubmitObjective(q) PROVE IInv'
<1>1. Grows /\ DOMAIN broken' = Questions /\ UNCHANGED run
    BY DEF SubmitObjective, Grows, IInv, BrokenInv
<1>2. PICK form, choice :
        /\ form \in Forms /\ choice \in ChoicesOf(Cleaned(form), Numbers)
        /\ Accepted(Cleaned(form))
        /\ judgment' = [judgment EXCEPT ![q] =
              Grade(form, choice, Correct(Cleaned(form), Payload(form, choice)))]
    BY ZenonT(60) DEF SubmitObjective
<1> DEFINE right == Correct(Cleaned(form), Payload(form, choice))
<1>3. judgment' = [judgment EXCEPT ![q] = Grade(form, choice, right)]
    BY <1>2, Zenon
<1>4. PlainForm(form) /\ PlainChoice(choice) => right = MeantRight(form, choice)
    BY <1>2, FormsTyped, JudgeAssumption, PlainGraded
<1> HIDE DEF right
<1>5. /\ DOMAIN judgment = AllQuestions
      /\ q \in AllQuestions /\ q \notin Questions
    BY JudgeAssumption DEF IInv, JudgmentsInv, AllQuestions
<1>6. DOMAIN judgment' = AllQuestions /\ \A r \in AllQuestions \ {q} : judgment'[r] = judgment[r]
    BY <1>3, <1>5
<1>7. /\ judgment'[q].at = "judged" /\ judgment'[q].score \in Percents
      /\ judgment'[q].plain => judgment'[q].correct = judgment'[q].meant
  <2>1. judgment'[q] = Grade(form, choice, right)
      BY <1>3, <1>5
  <2>2. /\ Grade(form, choice, right).at = "judged"
        /\ Grade(form, choice, right).score = IF right THEN 10000 ELSE 0
        /\ Grade(form, choice, right).correct = right
        /\ Grade(form, choice, right).meant = MeantRight(form, choice)
        /\ Grade(form, choice, right).plain = (PlainForm(form) /\ PlainChoice(choice))
      BY DEF Grade
  <2>3. judgment'[q].plain => judgment'[q].correct = judgment'[q].meant
      BY <1>4, <2>1, <2>2
  <2>4. QED
      BY <2>1, <2>2, <2>3, PercentEnds
<1>8. ASSUME NEW r \in Questions PROVE judgment'[r] = None \/ JudgedFairly(r)'
  <2>1. judgment'[r] = judgment[r]
      BY <1>5, <1>6 DEF AllQuestions
  <2>2. QED
      BY <1>1, <2>1, JudgmentStays DEF IInv, JudgmentsInv
<1>9. ASSUME NEW r \in Objective PROVE judgment'[r] = None \/ ObjectiveJudged(r)'
  <2>1. CASE r = q
      BY <1>7, <2>1 DEF ObjectiveJudged
  <2>2. CASE r # q
    <3>1. judgment'[r] = judgment[r]
        BY <1>6, <2>2 DEF AllQuestions
    <3>2. QED
        BY <3>1, ObjectiveStays DEF IInv, JudgmentsInv
  <2>3. QED
      BY <2>1, <2>2
<1>10. JudgmentsInv'
    BY <1>6, <1>8, <1>9 DEF JudgmentsInv
<1>11. ASSUME NEW r \in Questions PROVE run'[r] = None \/ Running(r)'
    BY <1>1, RunStays DEF IInv, RunsInv
<1>12. RunsInv'
    BY <1>1, <1>11 DEF IInv, RunsInv, Grows
<1>13. QED
    BY <1>1, <1>10, <1>12 DEF IInv, BrokenInv

LEMMA NextIInv == IInv /\ [Next]_vars => IInv'
<1> SUFFICES ASSUME IInv, [Next]_vars PROVE IInv'
    OBVIOUS
<1>1. ASSUME NEW q \in Questions, Submit(q) \/ CaseGraded(q) \/ CaseSpoiled(q) \/ CaseFailed(q)
      PROVE  IInv'
    BY <1>1, SubmitStep, CaseGradedStep, CaseSpoiledStep, CaseFailedStep
<1>2. ASSUME NEW q \in Objective, SubmitObjective(q) PROVE IInv'
    BY <1>2, SubmitObjectiveStep
<1>3. CASE Score \/ EndInterview \/ UNCHANGED vars
  <2>1. Grows /\ DOMAIN broken' = Questions /\ UNCHANGED <<run, judgment>>
      BY <1>3 DEF Score, EndInterview, vars, Grows, IInv, BrokenInv
  <2>2. QED
      BY <2>1, NothingRuns
<1>4. QED
    BY <1>1, <1>2, <1>3 DEF Next

LEMMA Invariant == Spec => []IInv
BY InitIInv, NextIInv, PTL DEF Spec

\* JudgedPrograms are judged fairly.
LEMMA FairPrograms ==
    ASSUME IInv, NEW q \in JudgedPrograms
    PROVE  q \in Questions /\ JudgedFairly(q)
BY DEF IInv, JudgmentsInv, JudgedPrograms, JudgedQuestions

\* For every list of back ends, whichever of them fail in the middle of a run: a
\* judgment without an error counts exactly the tests the program passes, unless
\* a back end passed off an error page as its result, and none ever counts more.
THEOREM Graded == Spec => []GradedAsItRuns
<1>1. IInv => GradedAsItRuns
  <2> SUFFICES ASSUME IInv, NEW q \in JudgedPrograms
               PROVE  /\ judgment[q].passed <= Cardinality(solves[q])
                      /\ q \notin spoiled /\ judgment[q].error = "none" =>
                           judgment[q].passed = Cardinality(solves[q])
      BY DEF GradedAsItRuns
  <2>1. PICK p \in Nat, error \in {"none", "stopped", "raised"}, score \in Percents :
        /\ judgment[q] = Verdict(q, p, error, score)
        /\ p <= Cardinality(solves[q])
        /\ q \notin spoiled /\ error = "none" => p = Cardinality(solves[q])
      BY FairPrograms DEF JudgedFairly
  <2>2. judgment[q].passed = p /\ judgment[q].error = error
      BY <2>1 DEF Verdict
  <2>3. QED
      BY <2>1, <2>2
<1>2. QED
    BY <1>1, Invariant, PTL

\* For whatever forms the recruiters type, whatever questions the library or the
\* language model gives and whatever the candidates choose: a plain answer is
\* right exactly when it is what the recruiter meant, through the cleaning of the
\* form, the normalization, the shuffled view and the payload of the page.
THEOREM GradedAsTheyMeant == Spec => []GradedAsMeant
<1>1. IInv => GradedAsMeant
  <2> SUFFICES ASSUME IInv, NEW q \in JudgedQuestions \cap Objective
               PROVE  judgment[q].plain => judgment[q].correct = judgment[q].meant
      BY DEF GradedAsMeant
  <2>1. ObjectiveJudged(q)
      BY DEF IInv, JudgmentsInv, JudgedQuestions
  <2>2. QED
      BY <2>1 DEF ObjectiveJudged
<1>2. QED
    BY <1>1, Invariant, PTL

\* A program that is left without its full grade had every back end fail on it,
\* or one that answered with no JSON object.
THEOREM OutagesCovered == Spec => []OutageCovered
<1>1. IInv => OutageCovered
  <2> SUFFICES ASSUME IInv, NEW q \in JudgedPrograms,
                      judgment[q].error = "stopped" /\ Tests[q] > 0
               PROVE  Out(q)
      BY DEF OutageCovered, Out
  <2>1. PICK p \in Nat, error \in {"none", "stopped", "raised"}, score \in Percents :
        /\ judgment[q] = Verdict(q, p, error, score)
        /\ error = "stopped" /\ Tests[q] > 0 => Out(q)
      BY FairPrograms DEF JudgedFairly
  <2>2. judgment[q].error = error
      BY <2>1 DEF Verdict
  <2>3. QED
      BY <2>1, <2>2
<1>2. QED
    BY <1>1, Invariant, PTL

\* A run counts tests of its question, and scores and counts stay in range.
THEOREM TypesHold == Spec => []TypeOK
<1>1. IInv => TypeOK
  <2> SUFFICES ASSUME IInv PROVE TypeOK
      OBVIOUS
  <2>1. ASSUME NEW q \in Questions, Current(q)
        PROVE  /\ run[q].backend \in DOMAIN Backends
               /\ run[q].done \in 0..Tests[q] - 1 /\ run[q].passed \in 0..run[q].done
    <3>1. PICK b \in DOMAIN Backends, d \in Nat, p \in Nat :
            /\ run[q] = [at |-> "running", backend |-> b, done |-> d, passed |-> p]
            /\ d < Tests[q]
            /\ Counts(q, d, p)
        BY <2>1, CurrentRun
    <3>2. p <= d
      <4>1. /\ Cardinality(solves[q] \cap 1..d) \in Nat
            /\ Cardinality(solves[q] \cap 1..d) <= d
          BY OneMoreTest
      <4>2. p <= Cardinality(solves[q] \cap 1..d)
          BY <3>1 DEF Counts
      <4>3. QED
          BY <4>1, <4>2
    <3>3. run[q].backend = b /\ run[q].done = d /\ run[q].passed = p
        BY <3>1
    <3>4. QED
        BY <3>1, <3>2, <3>3, TestsType
  <2>2. ASSUME NEW q \in JudgedPrograms
        PROVE  judgment[q].score \in Percents /\ judgment[q].passed \in 0..Tests[q]
    <3>1. PICK p \in Nat, error \in {"none", "stopped", "raised"}, score \in Percents :
            /\ judgment[q] = Verdict(q, p, error, score)
            /\ p <= Cardinality(solves[q])
        BY FairPrograms DEF JudgedFairly
    <3>2. judgment[q].score = score /\ judgment[q].passed = p
        BY <3>1 DEF Verdict
    <3>3. Cardinality(solves[q]) \in Nat /\ Cardinality(solves[q]) <= Tests[q]
        BY FairPrograms, SolvedCount, TestsType, OneMoreTest DEF IInv
    <3>4. QED
        BY <3>1, <3>2, <3>3, FairPrograms, TestsType
  <2>3. ASSUME NEW q \in JudgedQuestions PROVE judgment[q].score \in Percents
    <3>1. CASE q \in Questions
        BY <2>2, <3>1 DEF JudgedPrograms
    <3>2. CASE q \in Objective
        BY <2>3, <3>2 DEF IInv, JudgmentsInv, ObjectiveJudged, JudgedQuestions
    <3>3. QED
        BY <3>1, <3>2 DEF JudgedQuestions, AllQuestions
  <2>4. \A q \in JudgedQuestions : judgment[q].score \in Percents
      BY <2>3
  <2>5. \A q \in JudgedPrograms : judgment[q].passed \in 0..Tests[q]
      BY <2>2
  <2>6. QED
      BY <2>1, <2>4, <2>5, ZenonT(60) DEF TypeOK
<1>2. QED
    BY <1>1, Invariant, PTL

-----------------------------------------------------------------------------
(* Sums over the questions of a paper.  The fold that adds them up is defined *)
(* by a recursion over the subsets of its set: there is one, by induction on  *)
(* their cardinality, and its sums follow the recursion.                      *)

Chosen(s) == CHOOSE x \in s : TRUE

\* What the recursion says of one set, given the sums of smaller ones.
Summed(f, w, s) == IF s = {} THEN 0 ELSE w[Chosen(s)] + f[s \ {Chosen(s)}]

Sums(f, w, S) == f = [s \in SUBSET S |-> Summed(f, w, s)]

\* The sum of w over S, as the fold defines it.
SumOver(w, S) ==
    LET iter[s \in SUBSET S] == IF s = {} THEN 0
                                ELSE LET x == CHOOSE x \in s : TRUE IN w[x] + iter[s \ {x}]
    IN  iter[S]

LEMMA Removed ==
    ASSUME NEW s, IsFiniteSet(s), s # {}
    PROVE  /\ Chosen(s) \in s
           /\ IsFiniteSet(s \ {Chosen(s)})
           /\ Cardinality(s) \in Nat
           /\ Cardinality(s \ {Chosen(s)}) \in Nat
           /\ Cardinality(s) = Cardinality(s \ {Chosen(s)}) + 1
<1>1. Chosen(s) \in s
    BY DEF Chosen
<1>2. /\ IsFiniteSet(s \ {Chosen(s)})
      /\ Cardinality(s \ {Chosen(s)}) = IF Chosen(s) \in s THEN Cardinality(s) - 1 ELSE Cardinality(s)
    BY FS_RemoveElement
<1>3. Cardinality(s) \in Nat /\ Cardinality(s \ {Chosen(s)}) \in Nat
    BY <1>2, FS_CardinalityType
<1>4. QED
    BY <1>1, <1>2, <1>3

LEMMA OneLess ==
    ASSUME NEW s, IsFiniteSet(s), NEW n \in Nat, Cardinality(s) = n + 1
    PROVE  s # {} /\ Chosen(s) \in s /\ Cardinality(s \ {Chosen(s)}) = n
<1>1. s # {}
    BY FS_EmptySet
<1>2. QED
    BY <1>1, Removed

LEMMA SumsExist ==
    ASSUME NEW S, IsFiniteSet(S), NEW w \in [S -> Nat]
    PROVE  \E f : Sums(f, w, S)
<1> DEFINE Upto(n) == \E f \in [SUBSET S -> Nat] :
                        \A s \in SUBSET S : Cardinality(s) <= n => f[s] = Summed(f, w, s)
           T == {n \in Nat : Upto(n)}
<1>1. \A s \in SUBSET S : IsFiniteSet(s) /\ Cardinality(s) \in Nat /\ Cardinality(s) <= Cardinality(S)
    BY FS_Subset, FS_CardinalityType
<1>2. 0 \in T
  <2> DEFINE f == [s \in SUBSET S |-> 0]
  <2>1. \A s \in SUBSET S : Cardinality(s) <= 0 => s = {}
      BY <1>1, FS_EmptySet
  <2>2. f \in [SUBSET S -> Nat] /\ \A s \in SUBSET S : Cardinality(s) <= 0 => f[s] = Summed(f, w, s)
      BY <2>1 DEF Summed
  <2> HIDE DEF f
  <2>3. QED
      BY <2>2
<1>3. ASSUME NEW n \in T PROVE n + 1 \in T
  <2>1. PICK f \in [SUBSET S -> Nat] :
            \A s \in SUBSET S : Cardinality(s) <= n => f[s] = Summed(f, w, s)
      OBVIOUS
  <2> DEFINE g == [s \in SUBSET S |-> Summed(f, w, s)]
  <2>2. \A s \in SUBSET S : s # {} =>
            /\ Chosen(s) \in s /\ s \ {Chosen(s)} \in SUBSET S
            /\ Cardinality(s \ {Chosen(s)}) \in Nat
            /\ Cardinality(s) = Cardinality(s \ {Chosen(s)}) + 1
      BY <1>1, Removed
  <2>3. g \in [SUBSET S -> Nat]
    <3>1. \A s \in SUBSET S : Summed(f, w, s) \in Nat
        BY <2>2 DEF Summed
    <3>2. QED
        BY <3>1
  <2>4. \A s \in SUBSET S : Cardinality(s) <= n => g[s] = f[s]
      BY <2>1
  <2>5. ASSUME NEW s \in SUBSET S, Cardinality(s) <= n + 1 PROVE g[s] = Summed(g, w, s)
    <3>1. CASE s = {}
        BY <3>1 DEF Summed
    <3>2. CASE s # {}
      <4>1. Cardinality(s \ {Chosen(s)}) <= n
          BY <2>2, <2>5, <3>2
      <4>2. g[s \ {Chosen(s)}] = f[s \ {Chosen(s)}]
          BY <2>2, <2>4, <3>2, <4>1
      <4>3. QED
          BY <3>2, <4>2 DEF Summed
    <3>3. QED
        BY <3>1, <3>2
  <2> HIDE DEF g
  <2>6. QED
      BY <2>3, <2>5
<1>4. T = Nat
  <2> HIDE DEF T
  <2>1. T \in SUBSET Nat
      BY DEF T
  <2>2. QED
      BY <1>2, <1>3, <2>1, Inductive
<1>5. Cardinality(S) \in T
    BY <1>1, <1>4
<1>6. PICK f \in [SUBSET S -> Nat] :
            \A s \in SUBSET S : Cardinality(s) <= Cardinality(S) => f[s] = Summed(f, w, s)
    BY <1>5
<1>7. f = [s \in SUBSET S |-> Summed(f, w, s)]
    BY <1>1, <1>6
<1>8. QED
    BY <1>7 DEF Sums

LEMMA SumFollows ==
    ASSUME NEW S, IsFiniteSet(S), NEW w \in [S -> Nat]
    PROVE  \E f : /\ \A s \in SUBSET S : f[s] = Summed(f, w, s)
                  /\ SumOver(w, S) = f[S]
<1> DEFINE iter == CHOOSE f : f = [s \in SUBSET S |-> Summed(f, w, s)]
<1>1. iter = [s \in SUBSET S |-> Summed(iter, w, s)]
  <2>1. \E f : Sums(f, w, S)
      BY SumsExist
  <2>2. QED
      BY <2>1, Zenon DEF Sums
<1>2. SumOver(w, S) = iter[S]
    BY Zenon DEF SumOver, Summed, Chosen
<1> HIDE DEF iter
<1>3. \A s \in SUBSET S : iter[s] = Summed(iter, w, s)
    BY <1>1
<1>4. QED
    BY <1>2, <1>3

\* Weighting the scores of a paper keeps their sum between the marks times the
\* least and the marks times the greatest of them.
LEMMA SumBetween ==
    ASSUME NEW S, IsFiniteSet(S), S # {}, NEW m \in [S -> Nat \ {0}], NEW w \in [S -> Nat],
           NEW lo \in Nat, NEW hi \in Nat, \A x \in S : lo * m[x] <= w[x] /\ w[x] <= hi * m[x]
    PROVE  /\ SumOver(m, S) \in Nat \ {0} /\ SumOver(w, S) \in Nat
           /\ lo * SumOver(m, S) <= SumOver(w, S)
           /\ SumOver(w, S) <= hi * SumOver(m, S)
<1>1. PICK f : (\A s \in SUBSET S : f[s] = Summed(f, m, s)) /\ SumOver(m, S) = f[S]
  <2>1. m \in [S -> Nat]
      OBVIOUS
  <2>2. QED
      BY <2>1, SumFollows
<1>2. PICK g : (\A s \in SUBSET S : g[s] = Summed(g, w, s)) /\ SumOver(w, S) = g[S]
    BY SumFollows
<1> DEFINE Fair(s) == /\ f[s] \in Nat /\ g[s] \in Nat
                      /\ lo * f[s] <= g[s] /\ g[s] <= hi * f[s]
                      /\ s # {} => f[s] # 0
           T == {n \in Nat : \A s \in SUBSET S : Cardinality(s) = n => Fair(s)}
<1>3. \A s \in SUBSET S : IsFiniteSet(s) /\ Cardinality(s) \in Nat
    BY FS_Subset, FS_CardinalityType
<1>4. 0 \in T
  <2>1. \A s \in SUBSET S : Cardinality(s) = 0 => s = {}
      BY <1>3, FS_EmptySet
  <2>2. f[{}] = 0 /\ g[{}] = 0
      BY <1>1, <1>2 DEF Summed
  <2>3. Fair({})
      BY <2>2
  <2> HIDE DEF Fair
  <2>4. QED
      BY <2>1, <2>3
<1>5. ASSUME NEW n \in T PROVE n + 1 \in T
  <2>1. ASSUME NEW s \in SUBSET S, Cardinality(s) = n + 1 PROVE Fair(s)
    <3> DEFINE x == Chosen(s)
               t == s \ {x}
    <3>0. n \in Nat
        OBVIOUS
    <3>1. s # {} /\ x \in S /\ t \in SUBSET S /\ Cardinality(t) = n
      <4>1. IsFiniteSet(s)
          BY <1>3
      <4> HIDE DEF T, Fair
      <4>2. s # {} /\ x \in s /\ Cardinality(t) = n
          BY <2>1, <3>0, <4>1, OneLess
      <4>3. QED
          BY <4>2
    <3>3. Fair(t)
      <4> HIDE DEF Fair
      <4>1. QED
          BY <3>1
    <3>4. f[s] = m[x] + f[t] /\ g[s] = w[x] + g[t]
        BY <1>1, <1>2, <3>1 DEF Summed
    <3>5. /\ m[x] \in Nat \ {0} /\ w[x] \in Nat
          /\ lo * m[x] <= w[x] /\ w[x] <= hi * m[x]
        BY <3>1
    <3> HIDE DEF x, t
    <3>6. lo * f[s] = lo * m[x] + lo * f[t] /\ hi * f[s] = hi * m[x] + hi * f[t]
        BY <3>3, <3>4, <3>5
    <3>7. lo * m[x] \in Nat /\ lo * f[t] \in Nat /\ hi * m[x] \in Nat /\ hi * f[t] \in Nat
        BY <3>3, <3>5
    <3>8. QED
        BY <3>3, <3>4, <3>5, <3>6, <3>7
  <2> HIDE DEF Fair
  <2>2. QED
      BY <2>1
<1>6. T = Nat
  <2> HIDE DEF T
  <2>1. T \in SUBSET Nat
      BY DEF T
  <2>2. QED
      BY <1>4, <1>5, <2>1, Inductive
<1>7. Fair(S)
  <2> HIDE DEF Fair
  <2>1. QED
      BY <1>3, <1>6
<1>8. QED
    BY <1>1, <1>2, <1>7

\* The weighted average that the paper is scored by lies between the least and
\* the greatest score.
LEMMA AverageBetween ==
    ASSUME NEW S, IsFiniteSet(S), S # {}, NEW score \in [S -> Nat], NEW m \in [S -> Nat \ {0}],
           NEW lo \in Nat, NEW hi \in Nat, \A x \in S : lo <= score[x] /\ score[x] <= hi,
           NEW k \in Rounded(SumOver([x \in S |-> score[x] * m[x]], S), SumOver(m, S))
    PROVE  k \in lo..hi
<1> DEFINE w == [x \in S |-> score[x] * m[x]]
<1>1. w \in [S -> Nat]
    OBVIOUS
<1>2. ASSUME NEW x \in S PROVE lo * m[x] <= w[x] /\ w[x] <= hi * m[x]
  <2>1. w[x] = score[x] * m[x]
      OBVIOUS
  <2>2. score[x] \in Nat /\ m[x] \in Nat
      OBVIOUS
  <2>3. QED
      BY <2>1, <2>2
<1>3. k \in Rounded(SumOver(w, S), SumOver(m, S))
    OBVIOUS
<1> HIDE DEF w
<1>4. /\ SumOver(m, S) \in Nat \ {0} /\ SumOver(w, S) \in Nat
      /\ lo * SumOver(m, S) <= SumOver(w, S)
      /\ SumOver(w, S) <= hi * SumOver(m, S)
    BY <1>1, <1>2, SumBetween
<1>5. QED
    BY <1>3, <1>4, RoundedBetween

\* Of the scores of a paper there is a least and a greatest.
LEMMA Extremes ==
    ASSUME NEW S, S # {}, NEW top \in Nat, NEW score \in [S -> 0..top]
    PROVE  \E a, b \in S : \A x \in S : score[a] <= score[x] /\ score[x] <= score[b]
<1>1. PICK a \in S : \A x \in S : score[a] <= score[x]
  <2> DEFINE V == {score[x] : x \in S}
  <2>1. V \in SUBSET Nat /\ V # {}
      OBVIOUS
  <2>2. PICK v \in V : \A y \in V : v <= y
      BY <2>1, LeastOf
  <2>3. QED
      BY <2>2
<1>2. PICK b \in S : \A x \in S : score[x] <= score[b]
  <2> DEFINE V == {top - score[x] : x \in S}
  <2>1. \A x \in S : score[x] \in Nat /\ top - score[x] \in Nat
      OBVIOUS
  <2>2. V \in SUBSET Nat /\ V # {}
      BY <2>1
  <2>3. PICK v \in V : \A y \in V : v <= y
      BY <2>2, LeastOf
  <2>4. PICK b \in S : v = top - score[b]
      BY <2>3
  <2>5. \A x \in S : top - score[b] <= top - score[x]
      BY <2>3, <2>4
  <2>6. QED
      BY <2>1, <2>5
<1>3. QED
    BY <1>1, <1>2

-----------------------------------------------------------------------------
(* The score of the paper and its penalty.  From the time it is scored nothing *)
(* runs and nothing is judged.                                                 *)

Taken(original, penalty) == {10 * t : t \in Rounded(original * (100 - penalty), 1000)}

ScoreInv ==
    final # None =>
        /\ DOMAIN final = {"at", "original", "shown", "penalty", "band"} /\ final.at = "scored"
        /\ final.original \in Nat /\ final.penalty \in Nat
        /\ final.penalty > 0 => final.shown \in Taken(final.original, final.penalty)
        /\ \A q \in Questions : ~Current(q)
        /\ WithinScores

FInv == IInv /\ ScoreInv

LEMMA ScoresAre ==
    ASSUME IInv, NEW q \in JudgedQuestions
    PROVE  judgment[q].score \in Percents
<1>1. CASE q \in Questions
  <2>1. PICK p \in Nat, error \in {"none", "stopped", "raised"}, score \in Percents :
            judgment[q] = Verdict(q, p, error, score)
      BY <1>1 DEF IInv, JudgmentsInv, JudgedFairly, JudgedQuestions
  <2>2. QED
      BY <2>1 DEF Verdict
<1>2. CASE q \in Objective
    BY <1>2 DEF IInv, JudgmentsInv, ObjectiveJudged, JudgedQuestions
<1>3. QED
    BY <1>1, <1>2 DEF JudgedQuestions, AllQuestions

LEMMA AverageWithin ==
    ASSUME IInv, JudgedQuestions # {}, NEW score \in Average(JudgedQuestions)
    PROVE  /\ score \in Nat
           /\ \E q \in JudgedQuestions : judgment[q].score <= score
           /\ \E q \in JudgedQuestions : judgment[q].score >= score
<1> DEFINE J == JudgedQuestions
           scores == [q \in J |-> judgment[q].score]
           marks == [q \in J |-> Marks[q]]
<1>1. IsFiniteSet(J)
  <2>1. IsFiniteSet(AllQuestions)
      BY JudgeAssumption, FS_Union DEF AllQuestions
  <2>2. QED
      BY <2>1, FS_Subset DEF JudgedQuestions
<1>2. PICK top \in Nat : scores \in [J -> 0..top]
  <2>1. \A q \in J : judgment[q].score \in Percents
      BY ScoresAre
  <2>2. PICK top \in Nat : top = 10000
      OBVIOUS
  <2>3. Percents = 0..top
      BY <2>2 DEF Percents
  <2>4. \A q \in J : judgment[q].score \in 0..top
      BY <2>1, <2>3, Zenon
  <2>5. QED
      BY <2>4
<1>3. marks \in [J -> Nat \ {0}]
    BY JudgeAssumption DEF JudgedQuestions, AllQuestions
<1>4. PICK a, b \in J : \A x \in J : scores[a] <= scores[x] /\ scores[x] <= scores[b]
    BY <1>2, Extremes
<1>5. MapThenSumSet(LAMBDA q : judgment[q].score * Marks[q], J)
        = SumOver([q \in J |-> judgment[q].score * Marks[q]], J)
    BY ZenonT(60) DEF SumOver, MapThenSumSet, MapThenFoldSet
<1>6. MapThenSumSet(LAMBDA q : Marks[q], J) = SumOver(marks, J)
    BY ZenonT(60) DEF SumOver, MapThenSumSet, MapThenFoldSet
<1>7. [q \in J |-> judgment[q].score * Marks[q]] = [q \in J |-> scores[q] * marks[q]]
    OBVIOUS
<1>8. score \in Rounded(SumOver([q \in J |-> scores[q] * marks[q]], J), SumOver(marks, J))
  <2>1. score \in Rounded(MapThenSumSet(LAMBDA q : judgment[q].score * Marks[q], J),
                          MapThenSumSet(LAMBDA q : Marks[q], J))
      BY Zenon DEF Average
  <2> HIDE DEF J, scores, marks
  <2>2. QED
      BY <1>5, <1>6, <1>7, <2>1, Zenon
<1>9. scores[a] = judgment[a].score /\ scores[b] = judgment[b].score
    OBVIOUS
<1> HIDE DEF scores, marks
<1>10. scores[a] \in Nat /\ scores[b] \in Nat /\ scores \in [J -> Nat]
    BY <1>2, <1>4
<1>11. score \in scores[a]..scores[b]
    BY <1>1, <1>3, <1>4, <1>8, <1>10, AverageBetween
<1>12. QED
    BY <1>4, <1>9, <1>10, <1>11

LEMMA ScoreInvInit == Init => ScoreInv
BY DEF Init, ScoreInv

\* Before the paper is scored.
LEMMA Unscored == ASSUME final = None, UNCHANGED final PROVE ScoreInv'
BY DEF ScoreInv

LEMMA ScoreInvScore == ASSUME IInv, Score PROVE ScoreInv'
<1>1. PICK score \in Average(JudgedQuestions) : final' = Scored(score)
    BY DEF Score
<1>2. /\ score \in Nat
      /\ \E q \in JudgedQuestions : judgment[q].score <= score
      /\ \E q \in JudgedQuestions : judgment[q].score >= score
    BY AverageWithin DEF Score
<1>3. /\ DOMAIN final' = {"at", "original", "shown", "penalty", "band"} /\ final'.at = "scored"
      /\ final'.original = score /\ final'.penalty = 0
    BY <1>1 DEF Scored
<1>4. WithinScores'
    BY <1>2, <1>3 DEF Score, WithinScores, JudgedQuestions
<1>5. \A q \in Questions : ~Current(q)'
    BY DEF Score, Current
<1>6. QED
    BY <1>2, <1>3, <1>4, <1>5 DEF ScoreInv

LEMMA ScoreInvEnd == ASSUME ScoreInv, EndInterview PROVE ScoreInv'
<1>1. final # None
    BY DEF EndInterview
<1>2. /\ DOMAIN final = {"at", "original", "shown", "penalty", "band"} /\ final.at = "scored"
      /\ final.original \in Nat /\ final.penalty \in Nat
      /\ final.penalty > 0 => final.shown \in Taken(final.original, final.penalty)
      /\ \A q \in Questions : ~Current(q)
      /\ WithinScores
    BY <1>1 DEF ScoreInv
<1>3. PICK p \in Penalties :
         IF p = 0 THEN UNCHANGED final
         ELSE \E tenths \in Rounded(Original * (100 - p), 1000) :
                final' = [final EXCEPT !.penalty = p, !.shown = 10 * tenths]
    BY ZenonT(60) DEF EndInterview
<1>4. \A q \in Questions : ~Current(q)'
    BY <1>2 DEF EndInterview, Current
<1>5. CASE p = 0
  <2>1. UNCHANGED final
      BY <1>3, <1>5
  <2>2. WithinScores'
      BY <1>2, <2>1, ZenonT(60) DEF EndInterview, WithinScores, JudgedQuestions
  <2>3. QED
      BY <1>2, <1>4, <2>1, <2>2 DEF ScoreInv
<1>6. CASE p # 0
  <2>1. PICK tenths \in Rounded(final.original * (100 - p), 1000) :
            final' = [final EXCEPT !.penalty = p, !.shown = 10 * tenths]
      BY <1>3, <1>6 DEF Original
  <2>2. /\ DOMAIN final' = {"at", "original", "shown", "penalty", "band"} /\ final'.at = "scored"
        /\ final'.original = final.original
        /\ final'.penalty = p /\ final'.shown = 10 * tenths
      BY <1>2, <2>1
  <2>3. WithinScores'
      BY <1>1, <1>2, <2>2, ZenonT(60) DEF EndInterview, WithinScores, JudgedQuestions
  <2>4. p \in Nat
      BY JudgeAssumption
  <2>5. final'.shown \in Taken(final'.original, final'.penalty)
      BY <2>1, <2>2 DEF Taken
  <2>6. QED
      BY <1>2, <1>4, <2>2, <2>3, <2>4, <2>5 DEF ScoreInv
<1>7. QED
    BY <1>5, <1>6

\* Once the paper is scored, no question is being run and none is judged.
LEMMA ScoreInvStays ==
    ASSUME ScoreInv, UNCHANGED <<run, judgment, final>>
    PROVE  ScoreInv'
BY DEF ScoreInv, WithinScores, JudgedQuestions, Current

LEMMA ScoreInvNext == FInv /\ [Next]_vars => ScoreInv'
<1> SUFFICES ASSUME FInv, [Next]_vars PROVE ScoreInv'
    OBVIOUS
<1>1. ASSUME NEW q \in Questions, Submit(q) PROVE ScoreInv'
    BY <1>1, Unscored DEF Submit
<1>2. ASSUME NEW q \in Questions, CaseGraded(q) \/ CaseSpoiled(q) \/ CaseFailed(q)
      PROVE  ScoreInv'
  <2>1. Current(q) /\ UNCHANGED final
      BY <1>2 DEF CaseGraded, CaseSpoiled, CaseFailed
  <2>2. final = None
      BY <2>1 DEF FInv, ScoreInv
  <2>3. QED
      BY <2>1, <2>2, Unscored
<1>3. ASSUME NEW q \in Objective, SubmitObjective(q) PROVE ScoreInv'
    BY <1>3, Unscored DEF SubmitObjective
<1>4. CASE Score
    BY <1>4, ScoreInvScore DEF FInv
<1>5. CASE EndInterview
    BY <1>5, ScoreInvEnd DEF FInv
<1>6. CASE UNCHANGED vars
    BY <1>6, ScoreInvStays DEF FInv, vars
<1>7. QED
    BY <1>1, <1>2, <1>3, <1>4, <1>5, <1>6 DEF Next

LEMMA ScoreInvariant == Spec => []FInv
<1>1. Init => FInv
    BY InitIInv, ScoreInvInit DEF FInv
<1>2. FInv /\ [Next]_vars => FInv'
    BY NextIInv, ScoreInvNext DEF FInv
<1>3. QED
    BY <1>1, <1>2, PTL DEF Spec

\* For every paper, whatever its marks and whichever of its questions are judged:
\* the score is neither below the worst of them nor above the best.
THEOREM ScoredWithin == Spec => []WithinScores
<1>1. FInv => WithinScores
  <2> SUFFICES ASSUME FInv PROVE WithinScores
      OBVIOUS
  <2>1. CASE final = None
      BY <2>1 DEF WithinScores
  <2>2. CASE final # None
      BY <2>2 DEF FInv, ScoreInv
  <2>3. QED
      BY <2>1, <2>2
<1>2. QED
    BY <1>1, ScoreInvariant, PTL

\* However often the end is requested, and with whatever penalties: what is shown
\* is the original score less the last of them, taken off once.
THEOREM PenaltyTakenOnce == Spec => []PenaltyOnce
<1>1. FInv => PenaltyOnce
    BY DEF FInv, ScoreInv, PenaltyOnce, Taken
<1>2. QED
    BY <1>1, ScoreInvariant, PTL

-----------------------------------------------------------------------------
\* The folds of the composition run.

AddOne(p, q, limit) == IF Len(p) < limit /\ q.fp \notin Fps(p) THEN Append(p, q) ELSE p
AddSteps(Q, qs, limit) == [k \in 1..Len(qs) |-> [p \in Seq(Q) |-> AddOne(p, qs[k], limit)]]

LEMMA AddNewRuns ==
    ASSUME NEW Q, NEW paper \in Seq(Q), NEW qs \in Seq(Q), NEW limit
    PROVE  \E g : /\ Runs(g, Len(qs), Seq(Q), paper, AddSteps(Q, qs, limit))
                  /\ AddNew(paper, qs, limit) = g[Len(qs)]
<1> DEFINE n == Len(qs)
           F == AddSteps(Q, qs, limit)
           Step(f, s) == IF s = {} THEN paper ELSE AddOne(f[s \ {Max(s)}], qs[Max(s)], limit)
           iter == CHOOSE f : f = [s \in SUBSET (1..n) |-> Step(f, s)]
<1>1. n \in Nat /\ DOMAIN qs = 1..n /\ \A k \in 1..n : qs[k] \in Q
    OBVIOUS
<1>2. AddNew(paper, qs, limit) = iter[1..n]
    BY <1>1, Zenon DEF AddNew, FoldLeft, MapThenFoldSet, AddOne
<1>3. \A k \in 1..n : \A p \in Seq(Q) : F[k][p] = AddOne(p, qs[k], limit)
    BY DEF AddSteps
<1>4. F \in StepsIn(n, Seq(Q))
  <2>1. \A p \in Seq(Q), q \in Q : AddOne(p, q, limit) \in Seq(Q)
      BY DEF AddOne
  <2>2. QED
      BY <1>1, <2>1 DEF StepsIn, AddSteps
<1> HIDE DEF n, F
<1>5. iter = [s \in SUBSET (1..n) |-> Step(iter, s)]
  <2>1. PICK f : Folds(f, n, Seq(Q), paper, F)
      BY <1>1, <1>4, FoldDefined
  <2>2. ASSUME NEW s \in SUBSET (1..n) PROVE f[s] = Step(f, s)
      BY <1>1, <1>3, <2>1, MaxIn DEF Folds, Folded
  <2>3. f = [s \in SUBSET (1..n) |-> Step(f, s)]
      BY <2>1, <2>2 DEF Folds
  <2>4. QED
      BY <2>3, Zenon
<1> HIDE DEF iter
<1>6. iter[{}] = paper
    BY <1>5
<1>7. ASSUME NEW k \in 1..n, iter[1..(k - 1)] \in Seq(Q)
      PROVE  iter[1..k] = F[k][iter[1..(k - 1)]]
  <2>1. /\ 1..k \in SUBSET (1..n) /\ 1..k # {}
        /\ Max(1..k) = k /\ (1..k) \ {k} = 1..(k - 1)
      BY <1>1, TopStep
  <2>2. iter[1..k] = Step(iter, 1..k)
      BY <1>5, <2>1
  <2>3. Step(iter, 1..k) = AddOne(iter[1..(k - 1)], qs[k], limit)
      BY <2>1
  <2>4. F[k][iter[1..(k - 1)]] = AddOne(iter[1..(k - 1)], qs[k], limit)
      BY <1>3, <1>7
  <2> HIDE DEF Step
  <2>5. QED
      BY <2>2, <2>3, <2>4
<1>8. PICK g : Runs(g, n, Seq(Q), paper, F) /\ g[n] = iter[1..n]
    BY <1>1, <1>4, <1>6, <1>7, FoldRuns
<1>9. QED
    BY <1>2, <1>8 DEF n, F

Distinct(p) == \A i, j \in 1..Len(p) : p[i].fp = p[j].fp => i = j

LEMMA AppendKeeps ==
    ASSUME NEW Q, NEW p \in Seq(Q), NEW q \in Q
    PROVE  /\ Append(p, q) \in Seq(Q) /\ Len(Append(p, q)) = Len(p) + 1
           /\ Fps(Append(p, q)) = Fps(p) \cup {q.fp}
           /\ Distinct(p) /\ q.fp \notin Fps(p) => Distinct(Append(p, q))
<1> DEFINE r == Append(p, q)
<1>1. /\ r \in Seq(Q) /\ Len(p) \in Nat /\ Len(r) = Len(p) + 1 /\ DOMAIN p = 1..Len(p)
      /\ DOMAIN r = 1..Len(r) /\ r[Len(r)] = q /\ \A i \in 1..Len(p) : r[i] = p[i]
    OBVIOUS
<1> HIDE DEF r
<1>2. Fps(r) = Fps(p) \cup {q.fp}
  <2>1. \A i \in 1..Len(r) : i = Len(r) \/ i \in 1..Len(p)
      BY <1>1
  <2>2. Fps(r) \subseteq Fps(p) \cup {q.fp}
      BY <1>1, <2>1 DEF Fps
  <2>3. Fps(p) \subseteq Fps(r) /\ q.fp \in Fps(r)
    <3>1. 1..Len(p) \in SUBSET (1..Len(r)) /\ Len(r) \in 1..Len(r)
        BY <1>1
    <3>2. QED
        BY <1>1, <3>1 DEF Fps
  <2>4. QED
      BY <2>2, <2>3
<1>3. ASSUME Distinct(p), q.fp \notin Fps(p) PROVE Distinct(r)
  <2> SUFFICES ASSUME NEW i \in 1..Len(r), NEW j \in 1..Len(r), r[i].fp = r[j].fp
               PROVE  i = j
      BY DEF Distinct
  <2>1. \A k \in 1..Len(p) : r[k].fp # q.fp
      BY <1>1, <1>3 DEF Fps
  <2>2. CASE i = Len(r)
      BY <1>1, <2>1, <2>2
  <2>3. CASE j = Len(r)
      BY <1>1, <2>1, <2>3
  <2>4. CASE i \in 1..Len(p) /\ j \in 1..Len(p)
      BY <1>1, <1>3, <2>4 DEF Distinct
  <2>5. QED
      BY <1>1, <2>2, <2>3, <2>4
<1>4. QED
    BY <1>1, <1>2, <1>3 DEF r

\* A paper topped up asks nothing twice, is not longer than the limit, and if it
\* is shorter it has the fingerprints of all it was offered.
LEMMA AddNewKeeps ==
    ASSUME NEW Q, NEW paper \in Seq(Q), NEW qs \in Seq(Q), NEW limit \in Nat,
           Distinct(paper), Len(paper) <= limit
    PROVE  LET r == AddNew(paper, qs, limit) IN
           /\ r \in Seq(Q) /\ Distinct(r) /\ Len(r) <= limit
           /\ Len(r) < limit => Fps(qs) \subseteq Fps(r)
<1> DEFINE n == Len(qs)
           Kept(k) == {p \in Seq(Q) : /\ Distinct(p) /\ Len(p) <= limit
                                      /\ Len(p) < limit => \A i \in 1..k : qs[i].fp \in Fps(p)}
           P == [k \in 0..n |-> Kept(k)]
           F == AddSteps(Q, qs, limit)
<1>1. PICK g : Runs(g, n, Seq(Q), paper, F) /\ AddNew(paper, qs, limit) = g[n]
    BY AddNewRuns
<1>2. n \in Nat /\ DOMAIN qs = 1..n /\ \A k \in 1..n : qs[k] \in Q
    OBVIOUS
<1> HIDE DEF n
<1>3. paper \in Kept(0)
    OBVIOUS
<1>4. ASSUME NEW k \in 1..n, NEW p \in Kept(k - 1) PROVE AddOne(p, qs[k], limit) \in Kept(k)
  <2>1. k - 1 \in Nat /\ \A i \in 1..k : i = k \/ i \in 1..(k - 1)
      BY <1>2
  <2>2. /\ p \in Seq(Q) /\ Len(p) \in Nat /\ Distinct(p) /\ Len(p) <= limit
        /\ Len(p) < limit => \A i \in 1..(k - 1) : qs[i].fp \in Fps(p)
      OBVIOUS
  <2>3. CASE Len(p) < limit /\ qs[k].fp \notin Fps(p)
    <3>1. /\ Append(p, qs[k]) \in Seq(Q) /\ Len(Append(p, qs[k])) = Len(p) + 1
          /\ Fps(Append(p, qs[k])) = Fps(p) \cup {qs[k].fp}
          /\ Distinct(Append(p, qs[k]))
        BY <1>2, <2>2, <2>3, AppendKeeps
    <3>2. \A i \in 1..k : qs[i].fp \in Fps(Append(p, qs[k]))
        BY <2>1, <2>2, <2>3, <3>1
    <3>3. Append(p, qs[k]) \in Kept(k)
        BY <2>2, <2>3, <3>1, <3>2
    <3>4. QED
        BY <2>3, <3>3 DEF AddOne
  <2>4. CASE Len(p) < limit /\ qs[k].fp \in Fps(p)
    <3>1. \A i \in 1..k : qs[i].fp \in Fps(p)
        BY <2>1, <2>2, <2>4
    <3>2. QED
        BY <2>2, <2>4, <3>1 DEF AddOne
  <2>5. CASE ~(Len(p) < limit)
      BY <2>2, <2>5 DEF AddOne
  <2>6. QED
      BY <2>3, <2>4, <2>5
<1>5. paper \in P[0] /\ \A k \in 1..n : \A v \in P[k - 1] : v \in Seq(Q) => F[k][v] \in P[k]
  <2>1. \A k \in 1..n : k \in 0..n /\ k - 1 \in 0..n
      BY <1>2
  <2>2. 0 \in 0..n
      BY <1>2
  <2>3. \A k \in 1..n : \A v \in Seq(Q) : F[k][v] = AddOne(v, qs[k], limit)
      BY DEF AddSteps, n
  <2> HIDE DEF F, Kept
  <2>4. QED
      BY <1>3, <1>4, <2>1, <2>2, <2>3
<1> HIDE DEF F, P
<1>6. \A k \in 0..n : g[k] \in P[k]
    BY <1>1, <1>2, <1>5, RunKeeps
<1>7. g[n] \in Kept(n)
    BY <1>2, <1>6 DEF P
<1>8. Len(g[n]) < limit => Fps(qs) \subseteq Fps(g[n])
    BY <1>2, <1>7 DEF Fps
<1>9. QED
    BY <1>1, <1>7, <1>8

-----------------------------------------------------------------------------
\* The composition.

\* A question that is no item of recent (no prover knows a literal for a string).
Allowed(recent) ==
    [fp : Nat, type : STRING \cup {"subjective"}, id : (ItemIds \ recent) \cup {0}]
Free(recent) == {q \in Library : q.id \notin recent}

LEMMA PoolFree ==
    ASSUME NEW t, NEW order, order.n \in Nat, NEW ranking \in Seq(Library), NEW recent
    PROVE  Pool(t, order, ranking, recent) \in Seq(Free(recent))
<1> DEFINE S1 == {q \in Library : q.type = t /\ q.id \notin recent}
           free == Only(ranking, S1)
           S2 == {q \in Library : order.jd \in q.fits}
           preferred == Only(free, S2)
           chosen == IF preferred # <<>> THEN preferred ELSE free
           m == Least(Len(chosen), Most(order.n, PoolFloor))
<1>1. \A A, B : A \subseteq B => Seq(A) \subseteq Seq(B)
    OBVIOUS
<1>2. /\ Seq(Library \cap S1) \subseteq Seq(Free(recent))
      /\ Seq(Free(recent) \cap S2) \subseteq Seq(Free(recent))
    BY <1>1 DEF Free
<1> HIDE DEF S1, S2
<1>3. free \in Seq(Free(recent))
    BY <1>2, OnlyKeeps
<1> HIDE DEF free
<1>4. preferred \in Seq(Free(recent))
    BY <1>2, <1>3, OnlyKeeps
<1> HIDE DEF preferred
<1>5. chosen \in Seq(Free(recent))
    BY <1>3, <1>4
<1> HIDE DEF chosen
<1>6. m \in Nat /\ m <= Len(chosen)
    BY <1>5, PaperAssumption DEF Least, Most, PaperAssumption
<1> HIDE DEF m
<1>7. SubSeq(chosen, 1, m) \in Seq(Free(recent))
    BY <1>5, <1>6
<1>8. QED
    BY <1>7 DEF Pool, m, chosen, preferred, free, S1, S2

Composed(recent) == {p \in Seq(Allowed(recent)) : Distinct(p)}

LEMMA FillSlotKeeps ==
    ASSUME NEW recent, NEW p \in Composed(recent), NEW t \in BankTypes, NEW pool \in Seq(Free(recent))
    PROVE  LET r == FillSlot(p, t, pool) IN r \in Composed(recent) /\ Len(r) <= Len(p) + 1
<1> DEFINE S == {q \in Library : q.fp \notin Fps(p)}
           new == Only(pool, S)
           q == [fp |-> Head(new).fp, type |-> t, id |-> Head(new).id]
<1>1. new \in Seq(Free(recent) \cap S)
    BY OnlyKeeps
<1>2. p \in Seq(Allowed(recent)) /\ Len(p) \in Nat /\ Distinct(p)
    BY DEF Composed
<1>3. CASE new = <<>>
    BY <1>2, <1>3 DEF FillSlot
<1>4. CASE new # <<>>
  <2>1. Head(new) \in Free(recent) \cap S
      BY <1>1, <1>4
  <2>2. t \in STRING
      BY PaperAssumption DEF PaperAssumption, BankTypes
  <2> HIDE DEF new
  <2>3. q \in Allowed(recent) /\ q.fp \notin Fps(p)
      BY <2>1, <2>2, PaperAssumption DEF PaperAssumption, Free, Allowed, ItemIds
  <2> HIDE DEF q
  <2>4. /\ Append(p, q) \in Seq(Allowed(recent)) /\ Len(Append(p, q)) = Len(p) + 1
        /\ Distinct(Append(p, q))
      BY <1>2, <2>3, AppendKeeps
  <2>5. FillSlot(p, t, pool) = Append(p, q)
      BY <1>4 DEF FillSlot, new, q
  <2>6. QED
      BY <1>2, <2>4, <2>5 DEF Composed
<1>5. QED
    BY <1>3, <1>4

LEMMA DistributeTyped ==
    ASSUME NEW n \in Nat, NEW T, NEW types \in Seq(T), types # <<>>
    PROVE  Distribute(n, types) \in [1..n -> T] /\ Distribute(n, types) \in Seq(T)
<1>1. Len(types) \in Nat \ {0} /\ \A i \in 1..Len(types) : types[i] \in T
    OBVIOUS
<1>2. \A i \in 1..n : ((i - 1) % Len(types)) + 1 \in 1..Len(types)
    BY <1>1
<1>3. QED
    BY <1>1, <1>2 DEF Distribute

ComposeSteps(order, ranking, recent) ==
    [k \in 1..order.n |-> [p \in Composed(recent) |->
        FillSlot(p, Distribute(order.n, order.types)[k],
                 Pool(Distribute(order.n, order.types)[k], order, ranking, recent))]]

\* A composed paper asks nothing twice, is no longer than asked for and has no item
\* withheld.
LEMMA ComposeKeeps ==
    ASSUME NEW order, ValidOrder(order), NEW ranking \in Seq(Library), NEW recent
    PROVE  LET r == Compose(order, ranking, recent) IN
           r \in Seq(Allowed(recent)) /\ Distinct(r) /\ Len(r) <= order.n
<1> DEFINE n == order.n
           plan == Distribute(order.n, order.types)
           V == Composed(recent)
           F == ComposeSteps(order, ranking, recent)
           One(p, t) == FillSlot(p, t, Pool(t, order, ranking, recent))
           Step(f, d) == IF d = {} THEN <<>> ELSE One(f[d \ {Max(d)}], plan[Max(d)])
           iter == CHOOSE f : f = [d \in SUBSET (1..n) |-> Step(f, d)]
<1>1. n \in Nat /\ plan \in [1..n -> BankTypes] /\ Len(plan) = n
  <2>1. order.n \in Nat /\ order.types \in Seq(BankTypes) /\ order.types # <<>>
      BY DEF ValidOrder
  <2>2. QED
      BY <2>1, DistributeTyped
<1> HIDE DEF plan
<1>2. Compose(order, ranking, recent) = iter[1..n]
  <2>1. Compose(order, ranking, recent) =
            FoldLeft(LAMBDA paper, t : FillSlot(paper, t, Pool(t, order, ranking, recent)), <<>>, plan)
      BY Zenon DEF Compose, plan
  <2>2. DOMAIN plan = 1..n
      BY <1>1
  <2> HIDE DEF n
  <2>3. QED
      BY <2>1, <2>2, Zenon DEF FoldLeft, MapThenFoldSet
<1>3. \A p \in V, t \in BankTypes : One(p, t) \in V /\ Len(One(p, t)) <= Len(p) + 1
    BY <1>1, PoolFree, FillSlotKeeps
<1>4. F = [k \in 1..n |-> [p \in V |-> One(p, plan[k])]]
    BY Zenon DEF ComposeSteps, plan
<1> HIDE DEF One, F
<1>5. \A k \in 1..n : \A p \in V : F[k][p] = One(p, plan[k])
    BY <1>4
<1>6. F \in StepsIn(n, V) /\ <<>> \in V
  <2>1. F \in StepsIn(n, V)
    <3> HIDE DEF V, n
    <3>1. QED
        BY <1>1, <1>3, <1>4 DEF StepsIn
  <2>2. <<>> \in Seq(Allowed(recent)) /\ Distinct(<<>>)
      BY DEF Distinct
  <2>3. QED
      BY <2>1, <2>2 DEF Composed
<1> HIDE DEF V, n
<1>7. iter = [d \in SUBSET (1..n) |-> Step(iter, d)]
  <2>1. PICK f : Folds(f, n, V, <<>>, F)
      BY <1>1, <1>6, FoldDefined
  <2>2. ASSUME NEW d \in SUBSET (1..n) PROVE f[d] = Step(f, d)
      BY <1>1, <1>5, <2>1, MaxIn DEF Folds, Folded
  <2>3. f = [d \in SUBSET (1..n) |-> Step(f, d)]
      BY <2>1, <2>2 DEF Folds
  <2>4. QED
      BY <2>3, Zenon
<1> HIDE DEF iter
<1>8. iter[{}] = <<>>
    BY <1>7
<1>9. ASSUME NEW k \in 1..n, iter[1..(k - 1)] \in V
      PROVE  iter[1..k] = F[k][iter[1..(k - 1)]]
  <2>1. /\ 1..k \in SUBSET (1..n) /\ 1..k # {}
        /\ Max(1..k) = k /\ (1..k) \ {k} = 1..(k - 1)
      BY <1>1, TopStep
  <2>2. iter[1..k] = Step(iter, 1..k)
      BY <1>7, <2>1
  <2>3. Step(iter, 1..k) = One(iter[1..(k - 1)], plan[k])
      BY <2>1
  <2>4. F[k][iter[1..(k - 1)]] = One(iter[1..(k - 1)], plan[k])
      BY <1>5, <1>9
  <2> HIDE DEF Step
  <2>5. QED
      BY <2>2, <2>3, <2>4
<1>10. PICK g : Runs(g, n, V, <<>>, F) /\ g[n] = iter[1..n]
    BY <1>1, <1>6, <1>8, <1>9, FoldRuns
<1>11. \A k \in 0..n : g[k] \in {p \in V : Len(p) <= k}
  <2> DEFINE P == [k \in 0..n |-> {p \in V : Len(p) <= k}]
  <2>1. <<>> \in P[0]
      BY <1>1, <1>6
  <2>2. \A k \in 1..n : k \in 0..n /\ k - 1 \in 0..n
      BY <1>1
  <2>3. \A p \in V : Len(p) \in Nat
      BY DEF V, Composed
  <2>4. ASSUME NEW k \in 1..n, NEW v \in P[k - 1], v \in V PROVE F[k][v] \in P[k]
    <3>1. Len(v) <= k - 1 /\ plan[k] \in BankTypes
        BY <1>1, <2>2
    <3>2. One(v, plan[k]) \in V /\ Len(One(v, plan[k])) <= Len(v) + 1
        BY <1>3, <2>4, <3>1
    <3>3. Len(One(v, plan[k])) <= k
        BY <1>1, <2>3, <2>4, <3>1, <3>2
    <3>4. QED
        BY <1>5, <2>2, <2>4, <3>2, <3>3
  <2> HIDE DEF P
  <2>5. \A k \in 0..n : g[k] \in P[k]
      BY <1>1, <1>10, <2>1, <2>4, RunKeeps
  <2>6. QED
      BY <2>5 DEF P
<1>12. QED
    BY <1>1, <1>2, <1>10, <1>11 DEF V, Composed, n

-----------------------------------------------------------------------------
\* The built-in questions.

LEMMA BankFinite ==
    ASSUME NEW t
    PROVE  Bank(t) \subseteq BuiltIn /\ IsFiniteSet(Bank(t)) /\ Cardinality(Bank(t)) \in Nat
<1>1. Bank(t) \subseteq BuiltIn /\ IsFiniteSet(BuiltIn)
    BY PaperAssumption DEF PaperAssumption, Bank
<1>2. IsFiniteSet(Bank(t))
    BY <1>1, FS_Subset
<1>3. QED
    BY <1>1, <1>2, FS_CardinalityType

\* A shuffled bank has each of its questions once.
LEMMA Deck ==
    ASSUME NEW decks \in Shuffles, NEW t \in BankTypes
    PROVE  /\ decks[t] \in Seq(Bank(t)) /\ Len(decks[t]) = Cardinality(Bank(t))
           /\ Len(decks[t]) \in Nat \ {0}
           /\ \A i, j \in 1..Len(decks[t]) : decks[t][i] = decks[t][j] => i = j
<1> DEFINE d == decks[t]
<1>1. /\ d \in UNION {SetToSeqs(Bank(u)) : u \in BankTypes}
      /\ Range(d) = Bank(t)
    BY DEF Shuffles
<1>2. PICK u : d \in SetToSeqs(Bank(u))
    BY <1>1
<1>3. PICK c \in Nat : /\ d \in [1..c -> Bank(u)]
                       /\ \A i, j \in 1..c : i # j => d[i] # d[j]
    BY <1>2, BankFinite DEF SetToSeqs
<1>4. d \in [1..c -> Bank(t)] /\ \A q \in Bank(t) : \E i \in 1..c : d[i] = q
    BY <1>1, <1>3 DEF Range
<1>5. d \in Seq(Bank(t)) /\ Len(d) = c
    BY <1>4
<1>6. Cardinality(Bank(t)) = c
  <2>1. d \in Bijection(1..c, Bank(t))
      BY <1>3, <1>4 DEF Bijection, Injection, Surjection, IsInjective
  <2>2. IsFiniteSet(1..c) /\ Cardinality(1..c) = c
      BY FS_Interval
  <2>3. ExistsBijection(1..c, Bank(t))
      BY <2>1 DEF ExistsBijection
  <2>4. QED
      BY <2>2, <2>3, FS_Bijection
<1>7. Bank(t) # {}
    BY DEF BankTypes, Bank
<1>8. c # 0
    BY <1>4, <1>7
<1>9. QED
    BY <1>3, <1>5, <1>6, <1>8

LEMMA FallbackTyped ==
    ASSUME NEW n \in Nat, NEW types \in Seq(BankTypes), types # <<>>, NEW decks \in Shuffles
    PROVE  Fallback(n, types, decks) \in Seq(BuiltIn) /\ Len(Fallback(n, types, decks)) = n
<1> DEFINE plan == Distribute(n, types)
           Picks(i) == Cardinality({j \in 1..i : plan[j] = plan[i]})
           f == Fallback(n, types, decks)
<1>1. plan \in [1..n -> BankTypes]
    BY DistributeTyped
<1>2. f = [i \in 1..n |-> decks[plan[i]][((Picks(i) - 1) % Len(decks[plan[i]])) + 1]]
    BY Zenon DEF Fallback
<1> HIDE DEF plan, f
<1>3. ASSUME NEW i \in 1..n PROVE Picks(i) \in Nat \ {0}
  <2> DEFINE C == {j \in 1..i : plan[j] = plan[i]}
  <2>1. IsFiniteSet(1..i) /\ C \in SUBSET (1..i) /\ i \in C
      BY FS_Interval
  <2> HIDE DEF C
  <2>2. IsFiniteSet(C) /\ Cardinality(C) \in Nat /\ Cardinality(C) # 0
      BY <2>1, FS_Subset, FS_CardinalityType, FS_EmptySet
  <2>3. QED
      BY <2>2 DEF C
<1> HIDE DEF Picks
<1>4. ASSUME NEW i \in 1..n
      PROVE  decks[plan[i]][((Picks(i) - 1) % Len(decks[plan[i]])) + 1] \in BuiltIn
  <2>1. plan[i] \in BankTypes
      BY <1>1
  <2>2. /\ decks[plan[i]] \in Seq(Bank(plan[i])) /\ Len(decks[plan[i]]) \in Nat \ {0}
        /\ Bank(plan[i]) \subseteq BuiltIn
      BY <2>1, Deck, BankFinite
  <2>3. ((Picks(i) - 1) % Len(decks[plan[i]])) + 1 \in 1..Len(decks[plan[i]])
      BY <1>3, <2>2
  <2>4. QED
      BY <2>2, <2>3
<1>5. f \in [1..n -> BuiltIn]
    BY <1>2, <1>4
<1>6. QED
    BY <1>5 DEF f

\* A part of 1..n is counted off one by one.
LEMMA CountedOff ==
    ASSUME NEW n \in Nat, NEW C \in SUBSET (1..n), NEW m \in 1..Cardinality(C)
    PROVE  \E i \in C : Cardinality({j \in 1..i : j \in C}) = m
<1> DEFINE Up(k) == {j \in 1..k : j \in C}
           Good(k) == \A v \in 1..Cardinality(Up(k)) : \E i \in C : Cardinality(Up(i)) = v
           T == {k \in 0..n : Good(k)}
<1>1. \A k \in Nat : IsFiniteSet(Up(k)) /\ Cardinality(Up(k)) \in Nat
  <2> TAKE k \in Nat
  <2>1. IsFiniteSet(1..k) /\ Up(k) \in SUBSET (1..k)
      BY FS_Interval
  <2> HIDE DEF Up
  <2>2. QED
      BY <2>1, FS_Subset, FS_CardinalityType
<1>2. Up(0) = {} /\ Up(n) = C
  <2>1. Up(0) = {}
      OBVIOUS
  <2>2. \A j : j \in Up(n) <=> j \in C
      OBVIOUS
  <2>3. Up(n) = C
      BY <2>2, Zenon
  <2>4. QED
      BY <2>1, <2>3
<1>3. \A k \in 1..n : k - 1 \in Nat /\ Up(k) = IF k \in C THEN Up(k - 1) \cup {k} ELSE Up(k - 1)
    OBVIOUS
<1>4. \A k \in 1..n : k \notin Up(k - 1)
    OBVIOUS
<1> HIDE DEF Up
<1>5. 0 \in T
  <2>1. Cardinality(Up(0)) = 0
      BY <1>2, FS_EmptySet
  <2>2. QED
      BY <2>1
<1>6. \A k \in 1..n : k - 1 \in T => k \in T
  <2> SUFFICES ASSUME NEW k \in 1..n, k - 1 \in T PROVE Good(k)
      OBVIOUS
  <2>1. CASE k \notin C
      BY <1>3, <2>1
  <2>2. CASE k \in C
    <3>1. Cardinality(Up(k)) = Cardinality(Up(k - 1)) + 1
        BY <1>1, <1>3, <1>4, <2>2, FS_AddElement
    <3>2. Cardinality(Up(k - 1)) \in Nat
        BY <1>1, <1>3
    <3>3. ASSUME NEW v \in 1..Cardinality(Up(k)) PROVE \E i \in C : Cardinality(Up(i)) = v
      <4>1. v = Cardinality(Up(k)) \/ v \in 1..Cardinality(Up(k - 1))
          BY <3>1, <3>2
      <4>2. QED
          BY <2>2, <4>1
    <3>4. QED
        BY <3>3
  <2>3. QED
      BY <2>1, <2>2
<1>7. Good(n)
  <2>1. T \in SUBSET (0..n)
      OBVIOUS
  <2>2. n \in 0..n
      OBVIOUS
  <2> HIDE DEF T
  <2>3. n \in T
      BY <1>5, <1>6, <2>1, <2>2, UpTo
  <2>4. QED
      BY <2>3 DEF T
<1>8. QED
    BY <1>2, <1>7 DEF Up

\* What is dealt of a type has the first questions of its deck, as many as it is
\* planned for.
LEMMA FallbackDeals ==
    ASSUME NEW n \in Nat, NEW types \in Seq(BankTypes), types # <<>>, NEW decks \in Shuffles,
           NEW t \in BankTypes
    PROVE  Least(Cardinality(Bank(t)), Cardinality({i \in 1..n : Distribute(n, types)[i] = t}))
               <= Cardinality({q \in Bank(t) : q.fp \in Fps(Fallback(n, types, decks))})
<1> DEFINE plan == Distribute(n, types)
           d == decks[t]
           L == Len(d)
           D == {i \in 1..n : plan[i] = t}
           m == Least(L, Cardinality(D))
           f == Fallback(n, types, decks)
           W == {q \in Bank(t) : q.fp \in Fps(f)}
           Picks(i) == Cardinality({j \in 1..i : plan[j] = plan[i]})
<1>1. /\ d \in Seq(Bank(t)) /\ L = Cardinality(Bank(t)) /\ L \in Nat \ {0}
      /\ \A i, j \in 1..L : d[i] = d[j] => i = j
    BY Deck
<1>2. f \in Seq(BuiltIn) /\ Len(f) = n /\ DOMAIN f = 1..n
    BY FallbackTyped
<1>3. f = [i \in 1..n |-> decks[plan[i]][((Picks(i) - 1) % Len(decks[plan[i]])) + 1]]
    BY Zenon DEF Fallback
<1>4. Cardinality(D) \in Nat /\ D \in SUBSET (1..n)
  <2>1. IsFiniteSet(1..n) /\ D \in SUBSET (1..n)
      BY FS_Interval
  <2> HIDE DEF D
  <2>2. QED
      BY <2>1, FS_Subset, FS_CardinalityType
<1> HIDE DEF plan, f, d
<1>5. ASSUME NEW k \in 1..m PROVE k \in 1..L /\ d[k] \in W
  <2>1. k \in 1..L /\ k \in 1..Cardinality(D)
      BY <1>1, <1>4 DEF Least
  <2>2. PICK i \in D : Cardinality({j \in 1..i : j \in D}) = k
    <3> HIDE DEF D, m
    <3>1. QED
        BY <1>4, <2>1, CountedOff
  <2>3. i \in 1..n /\ plan[i] = t
      OBVIOUS
  <2>4. Picks(i) = k
    <3>1. \A j : j \in {x \in 1..i : x \in D} <=> j \in {x \in 1..i : plan[x] = plan[i]}
        BY <2>3
    <3> HIDE DEF D
    <3>2. {x \in 1..i : x \in D} = {x \in 1..i : plan[x] = plan[i]}
        BY <3>1, Zenon
    <3>3. QED
        BY <2>2, <3>2
  <2> HIDE DEF Picks
  <2>5. f[i] = d[((k - 1) % L) + 1]
      BY <1>3, <2>3, <2>4 DEF d
  <2>6. ((k - 1) % L) + 1 = k
    <3>1. k - 1 \in 0..(L - 1) /\ (k - 1) % L = k - 1
        BY <1>1, <2>1
    <3>2. QED
        BY <2>1, <3>1
  <2>7. d[k] \in Bank(t) /\ f[i] = d[k]
      BY <1>1, <2>1, <2>5, <2>6
  <2>8. d[k].fp \in Fps(f)
      BY <1>2, <2>3, <2>7 DEF Fps
  <2>9. QED
      BY <2>1, <2>7, <2>8
<1>6. m \in Nat
    BY <1>1, <1>4 DEF Least
<1>7. IsFiniteSet(W)
    BY BankFinite, FS_Subset
<1> HIDE DEF W, m, D
<1>8. [k \in 1..m |-> d[k]] \in Injection(1..m, W)
    BY <1>1, <1>5, <1>6 DEF Injection, IsInjective
<1>9. m <= Cardinality(W)
  <2>1. Cardinality(1..m) = m
      BY <1>6, FS_Interval
  <2>2. QED
      BY <1>7, <1>8, <2>1, FS_Injection
<1>10. QED
    BY <1>1, <1>9 DEF W, m, D, plan, f

-----------------------------------------------------------------------------
\* A whole paper.

LEMMA UnlistedAllowed ==
    ASSUME NEW recent
    PROVE  /\ Seq(BuiltIn) \subseteq Seq(Allowed(recent))
           /\ \A a \in Answers : a.qs \in Seq(Allowed(recent))
<1> DEFINE U == [fp : Nat, type : STRING, id : {0}]
<1>1. U \subseteq Allowed(recent)
    BY DEF Allowed
<1>2. BuiltIn \subseteq U /\ \A a \in Answers : a.qs \in Seq(U)
    BY PaperAssumption DEF PaperAssumption
<1> HIDE DEF U
<1>3. \A A, B : A \subseteq B => Seq(A) \subseteq Seq(B)
    OBVIOUS
<1>4. Seq(U) \subseteq Seq(Allowed(recent)) /\ BuiltIn \subseteq Allowed(recent)
    BY <1>1, <1>2, <1>3
<1>5. QED
    BY <1>2, <1>3, <1>4

\* The questions a paper shorter than n has, then: all that are dealt for 2 * n.
Exhausted(r, n, types) ==
    \E decks \in Shuffles : Fps(Fallback(2 * n, types, decks)) \subseteq Fps(r)
Sound(r, n, types, recent) ==
    /\ r \in Seq(Allowed(recent)) /\ Distinct(r) /\ Len(r) <= n
    /\ Len(r) < n => Exhausted(r, n, types)

LEMMA TopUpSound ==
    ASSUME NEW n \in Nat, NEW types \in Seq(BankTypes), types # <<>>, NEW decks \in Shuffles,
           NEW recent, NEW p \in Seq(Allowed(recent)), Distinct(p), Len(p) <= n
    PROVE  Sound(AddNew(p, Fallback(2 * n, types, decks), n), n, types, recent)
<1>1. 2 * n \in Nat
    OBVIOUS
<1>2. Fallback(2 * n, types, decks) \in Seq(Allowed(recent))
    BY <1>1, FallbackTyped, UnlistedAllowed
<1>3. QED
    BY <1>2, AddNewKeeps, Zenon DEF Sound, Exhausted

LEMMA ParseSound ==
    ASSUME NEW n \in Nat, NEW types \in Seq(BankTypes), types # <<>>, NEW decks \in Shuffles,
           NEW recent, NEW answer \in Seq(Allowed(recent))
    PROVE  Sound(Parse(answer, n, types, decks), n, types, recent)
<1> DEFINE unique == AddNew(<<>>, answer, Len(answer))
<1>1. <<>> \in Seq(Allowed(recent)) /\ Distinct(<<>>) /\ Len(<<>>) = 0 /\ Len(answer) \in Nat
    BY DEF Distinct
<1>2. unique \in Seq(Allowed(recent)) /\ Distinct(unique) /\ Len(unique) \in Nat
  <2>1. Len(<<>>) <= Len(answer)
      BY <1>1
  <2>2. unique \in Seq(Allowed(recent)) /\ Distinct(unique)
      BY <1>1, <2>1, AddNewKeeps
  <2>3. QED
      BY <2>2
<1> HIDE DEF unique
<1>3. CASE Len(unique) >= n
  <2> DEFINE r == SubSeq(unique, 1, n)
  <2>1. r \in Seq(Allowed(recent)) /\ Len(r) = n /\ \A i \in 1..n : i \in 1..Len(unique) /\ r[i] = unique[i]
      BY <1>2, <1>3
  <2>2. Distinct(r)
    <3> HIDE DEF r
    <3>1. QED
        BY <1>2, <2>1 DEF Distinct
  <2>3. Parse(answer, n, types, decks) = r
      BY <1>3 DEF Parse, unique
  <2>4. QED
      BY <2>1, <2>2, <2>3 DEF Sound
<1>4. CASE ~(Len(unique) >= n)
  <2>1. Parse(answer, n, types, decks) = AddNew(unique, Fallback(2 * n, types, decks), n)
      BY <1>4 DEF Parse, unique
  <2>2. Len(unique) <= n
      BY <1>2, <1>4
  <2>3. QED
      BY <1>2, <2>1, <2>2, TopUpSound
<1>5. QED
    BY <1>3, <1>4

\* Whatever the library, the model and the built-in questions hold.
LEMMA GenerateSound ==
    ASSUME NEW order \in Orders, NEW ranking \in Seq(Library), NEW recent, NEW answer \in Answers,
           NEW decks \in Shuffles, NEW anew \in Shuffles
    PROVE  Sound(Generate(order, ranking, recent, answer, decks, anew), order.n, order.types, recent)
<1> DEFINE n == order.n
           plan == Distribute(n, order.types)
           composed == Compose(order, ranking, recent)
           gap == n - Len(composed)
           gapTypes == SubSeq(plan, Len(composed) + 1, n)
           gaps == FillGaps(gap, gapTypes, answer, decks)
           filled == AddNew(composed, gaps, n)
           topped == AddNew(filled, Fallback(2 * n, order.types, anew), n)
<1>1. /\ ValidOrder(order) /\ n \in Nat \ {0} /\ order.types \in Seq(BankTypes)
      /\ order.types # <<>>
    BY PaperAssumption DEF PaperAssumption, ValidOrder
<1>2. /\ composed \in Seq(Allowed(recent)) /\ Distinct(composed) /\ Len(composed) <= n
      /\ Len(composed) \in Nat
  <2>1. composed \in Seq(Allowed(recent)) /\ Distinct(composed) /\ Len(composed) <= n
      BY <1>1, ComposeKeeps
  <2>2. QED
      BY <2>1
<1>3. Generate(order, ranking, recent, answer, decks, anew) =
          IF gap = 0 THEN composed ELSE topped
    BY Zenon DEF Generate
<1>4. plan \in Seq(BankTypes) /\ Len(plan) = n
    BY <1>1, DistributeTyped
<1> HIDE DEF composed, plan, n
<1>5. CASE gap = 0
  <2>1. Len(composed) = n
      BY <1>1, <1>2, <1>5
  <2>2. QED
      BY <1>1, <1>2, <1>3, <1>5, <2>1 DEF Sound, n
<1>6. CASE gap # 0
  <2>1. gap \in Nat /\ Len(composed) + 1 \in 1..n
      BY <1>1, <1>2, <1>6
  <2>2. gapTypes \in Seq(BankTypes) /\ gapTypes # <<>>
    <3>1. gapTypes \in Seq(BankTypes) /\ Len(gapTypes) = n - Len(composed)
        BY <1>1, <1>4, <2>1
    <3>2. QED
        BY <1>6, <3>1
  <2> HIDE DEF gap, gapTypes
  <2>3. gaps \in Seq(Allowed(recent))
    <3> DEFINE once == Once(gapTypes)
    <3>1. once \in Seq(BankTypes) /\ once # <<>>
        BY <2>2, OnceKeeps
    <3>2. gaps = IF answer.up THEN Parse(answer.qs, gap, once, decks) ELSE Fallback(gap, once, decks)
        BY Zenon DEF FillGaps
    <3> HIDE DEF once, gaps
    <3>3. Fallback(gap, once, decks) \in Seq(Allowed(recent))
        BY <2>1, <3>1, FallbackTyped, UnlistedAllowed
    <3>4. Parse(answer.qs, gap, once, decks) \in Seq(Allowed(recent))
      <4>1. answer.qs \in Seq(Allowed(recent))
          BY UnlistedAllowed
      <4>2. QED
          BY <2>1, <3>1, <4>1, ParseSound DEF Sound
    <3>5. QED
        BY <3>2, <3>3, <3>4
  <2> HIDE DEF gaps
  <2>4. filled \in Seq(Allowed(recent)) /\ Distinct(filled) /\ Len(filled) <= n
      BY <1>1, <1>2, <2>3, AddNewKeeps
  <2> HIDE DEF filled
  <2>5. Sound(topped, n, order.types, recent)
      BY <1>1, <2>4, TopUpSound
  <2> HIDE DEF topped
  <2>6. QED
      BY <1>3, <1>6, <2>5 DEF n, gap
<1>7. QED
    BY <1>5, <1>6

\* A sound paper is what FullPaper and NoRepeats ask of it.
LEMMA SoundIsFull ==
    ASSUME NEW o \in Orders, NEW r, NEW recent, Sound(r, o.n, o.types, recent)
    PROVE  /\ IsInjective([i \in DOMAIN r |-> r[i].fp])
           /\ Len(r) <= o.n
           /\ Len(r) < o.n => \A t \in Range(o.types) :
                  Least(Cardinality(Bank(t)), Planned(o, 2 * o.n, t))
                      <= Cardinality({q \in Bank(t) : q.fp \in Fps(r)})
<1>1. /\ 2 * o.n \in Nat /\ o.types \in Seq(BankTypes) /\ o.types # <<>>
    BY PaperAssumption DEF PaperAssumption, ValidOrder
<1>2. r \in Seq(Allowed(recent)) /\ Distinct(r) /\ Len(r) <= o.n
    BY DEF Sound
<1>3. IsInjective([i \in DOMAIN r |-> r[i].fp])
    BY <1>2 DEF IsInjective, Distinct
<1>4. ASSUME Len(r) < o.n, NEW t \in Range(o.types)
      PROVE  Least(Cardinality(Bank(t)), Planned(o, 2 * o.n, t))
                 <= Cardinality({q \in Bank(t) : q.fp \in Fps(r)})
  <2>1. PICK decks \in Shuffles : Fps(Fallback(2 * o.n, o.types, decks)) \subseteq Fps(r)
      BY <1>4 DEF Sound, Exhausted
  <2> DEFINE f == Fallback(2 * o.n, o.types, decks)
             V == {q \in Bank(t) : q.fp \in Fps(f)}
             W == {q \in Bank(t) : q.fp \in Fps(r)}
  <2>2. t \in BankTypes
      BY <1>1, <1>4 DEF Range
  <2>3. Least(Cardinality(Bank(t)), Planned(o, 2 * o.n, t)) <= Cardinality(V)
      BY <1>1, <2>2, FallbackDeals DEF Planned
  <2>4. Cardinality(V) <= Cardinality(W) /\ Cardinality(V) \in Nat /\ Cardinality(W) \in Nat
    <3>1. V \in SUBSET W /\ W \in SUBSET Bank(t)
        BY <2>1
    <3> HIDE DEF V, W
    <3>2. IsFiniteSet(W) /\ IsFiniteSet(V)
        BY <3>1, BankFinite, FS_Subset
    <3>3. QED
        BY <3>1, <3>2, FS_Subset, FS_CardinalityType
  <2>5. Least(Cardinality(Bank(t)), Planned(o, 2 * o.n, t)) \in Nat
    <3>1. Planned(o, 2 * o.n, t) \in Nat
      <4> DEFINE N == 2 * o.n
                 D == {i \in 1..N : Distribute(N, o.types)[i] = t}
      <4>1. 1 \in Int /\ N \in Int /\ D \in SUBSET (1..N)
          BY <1>1
      <4> HIDE DEF N
      <4>2. IsFiniteSet(1..N)
          BY <4>1, FS_Interval
      <4> HIDE DEF D
      <4>3. Cardinality(D) \in Nat
          BY <4>1, <4>2, FS_Subset, FS_CardinalityType
      <4>4. QED
          BY <4>3 DEF Planned, D, N
    <3>2. Cardinality(Bank(t)) \in Nat
        BY BankFinite
    <3>3. QED
        BY <3>1, <3>2 DEF Least
  <2> HIDE DEF V, W
  <2>6. Least(Cardinality(Bank(t)), Planned(o, 2 * o.n, t)) <= Cardinality(W)
      BY <2>3, <2>4, <2>5
  <2>7. QED
      BY <2>6 DEF W
<1>5. QED
    BY <1>2, <1>3, <1>4

LEMMA DraftSound ==
    /\ \A pp \in LibraryPapers :
          pp.order \in Orders /\ Sound(pp.qs, pp.order.n, pp.order.types, pp.recent)
    /\ \A pp \in AiPapers :
          pp.order \in Orders /\ \E recent : Sound(pp.qs, pp.order.n, pp.order.types, recent)
<1>1. \A ranking \in SetToSeqs(Library) \cup {<<>>} : ranking \in Seq(Library)
  <2>1. Cardinality(Library) \in Nat
      BY PaperAssumption, FS_CardinalityType DEF PaperAssumption
  <2>2. SetToSeqs(Library) \subseteq [1..Cardinality(Library) -> Library]
      BY DEF SetToSeqs
  <2>3. \A ranking \in [1..Cardinality(Library) -> Library] : ranking \in Seq(Library)
      BY <2>1
  <2>4. <<>> \in Seq(Library)
      OBVIOUS
  <2>5. QED
      BY <2>2, <2>3, <2>4
<1>2. ASSUME NEW pp \in LibraryPapers
      PROVE  pp.order \in Orders /\ Sound(pp.qs, pp.order.n, pp.order.types, pp.recent)
  <2>1. PICK order \in Orders, recent \in SUBSET ItemIds, ranking \in SetToSeqs(Library) \cup {<<>>},
             answer \in Answers, decks \in Shuffles, anew \in Shuffles :
          pp = [order |-> order, recent |-> recent,
                qs |-> Generate(order, ranking, recent, answer, decks, anew)]
      BY DEF LibraryPapers
  <2>2. Sound(Generate(order, ranking, recent, answer, decks, anew), order.n, order.types, recent)
      BY <1>1, GenerateSound
  <2>3. pp.order = order /\ pp.recent = recent
        /\ pp.qs = Generate(order, ranking, recent, answer, decks, anew)
      BY <2>1
  <2>4. QED
      BY <2>2, <2>3
<1>3. ASSUME NEW pp \in AiPapers
      PROVE  pp.order \in Orders /\ \E recent : Sound(pp.qs, pp.order.n, pp.order.types, recent)
  <2>1. PICK order \in Orders, answer \in {a \in Answers : a.up}, decks \in Shuffles :
          pp = [order |-> order, qs |-> GenerateAiOnly(order, answer, decks)]
      BY DEF AiPapers
  <2>2. /\ order.n \in Nat /\ order.types \in Seq(BankTypes) /\ order.types # <<>>
        /\ answer.qs \in Seq(Allowed({}))
      BY PaperAssumption, UnlistedAllowed DEF PaperAssumption, ValidOrder
  <2>3. Sound(GenerateAiOnly(order, answer, decks), order.n, order.types, {})
      BY <2>2, ParseSound DEF GenerateAiOnly
  <2>4. pp.order = order /\ pp.qs = GenerateAiOnly(order, answer, decks)
      BY <2>1
  <2>5. QED
      BY <2>3, <2>4
<1>4. QED
    BY <1>2, <1>3

\* A sound paper has ids of the library only, and none that was withheld.
LEMMA SoundIds ==
    ASSUME NEW r, NEW n, NEW types, NEW recent, Sound(r, n, types, recent)
    PROVE  Range(r) \subseteq Allowed({}) /\ Ids(Range(r)) \subseteq ItemIds \ recent
<1>1. \A i \in DOMAIN r : r[i] \in Allowed(recent)
    BY DEF Sound
<1>2. Range(r) \subseteq Allowed(recent)
    BY <1>1 DEF Range
<1>3. QED
    BY <1>2 DEF Allowed, Ids

-----------------------------------------------------------------------------
\* The invariant.

Requests == [at : {"none"}] \cup [at : {"generate"}, order : Orders]
            \cup [at : {"create"}, ids : {{}}, drawn : SUBSET ItemIds]
Made == [drawn : SUBSET ItemIds, known : SUBSET Nat]
Invited == [noted : SUBSET ItemIds, drawn : SUBSET ItemIds, known : SUBSET Nat,
            failed : BOOLEAN, recent : BOOLEAN, deleted : BOOLEAN]
PaperShape ==
    /\ page \in [Pages -> [request : Requests, qs : SUBSET Allowed({})]]
    /\ making \in [Scripts -> {Nothing} \cup Made]
    /\ invites \in Seq(Invited)
    /\ usage \subseteq [id : ItemIds, invite : Nat, recent : BOOLEAN]

\* The draft is a paper of an order.
DraftIsSound ==
    \/ draft = Nothing
    \/ /\ draft.order \in Orders
       /\ \E recent : Sound(draft.qs, draft.order.n, draft.order.types, recent)

\* The uses noted for a recent invite are withheld.
NotedInUse == \A i \in DOMAIN invites :
    invites[i].recent => \A id \in invites[i].noted : Use(id, i) \in usage

\* A paper not yet committed has no use noted for an invite it knows.
MadeFresh == \A s \in Scripts : making[s] # Nothing =>
    /\ making[s].known \subseteq DOMAIN invites
    /\ \A j \in making[s].known : making[s].drawn \cap invites[j].noted = {}

PaperInv == PaperShape /\ PaperTyped /\ DraftIsSound /\ NotedInUse /\ MadeFresh /\ NotAgain

LEMMA PaperStarts == PaperInit => PaperInv
<1> SUFFICES ASSUME PaperInit PROVE PaperInv
    OBVIOUS
<1> USE DEF PaperInit
<1>1. PaperShape
  <2>1. Nothing \in Requests
      BY DEF Nothing, Requests
  <2>2. page \in [Pages -> [request : Requests, qs : SUBSET Allowed({})]]
      BY <2>1
  <2>3. QED
      BY <2>2 DEF PaperShape
<1>2. PaperTyped
    BY DEF PaperTyped, Ids
<1>3. DraftIsSound /\ NotedInUse /\ MadeFresh /\ NotAgain
  <2>1. DOMAIN invites = {}
      OBVIOUS
  <2>2. NotedInUse /\ NotAgain
      BY <2>1 DEF NotedInUse, NotAgain
  <2>3. DraftIsSound
      BY DEF DraftIsSound
  <2>4. \A s \in Scripts : making[s] = Nothing
      OBVIOUS
  <2>5. MadeFresh
      BY <2>4 DEF MadeFresh
  <2>6. QED
      BY <2>2, <2>3, <2>5
<1>4. QED
    BY <1>1, <1>2, <1>3 DEF PaperInv

\* A step of the page alone.
LEMMA PageStep ==
    ASSUME PaperInv, UNCHANGED <<making, invites, usage>>, DraftIsSound',
           page' \in [Pages -> [request : Requests, qs : SUBSET Allowed({})]]
    PROVE  PaperInv'
<1>1. PaperShape'
    BY DEF PaperInv, PaperShape
<1>2. \A p \in Pages : Ids(page[p].qs)' \subseteq ItemIds
  <2> SUFFICES ASSUME NEW p \in Pages PROVE Ids(page'[p].qs) \subseteq ItemIds
      OBVIOUS
  <2>1. page'[p].qs \subseteq Allowed({})
      OBVIOUS
  <2>2. QED
      BY <2>1 DEF Ids, Allowed
<1>3. PaperTyped'
    BY <1>2 DEF PaperInv, PaperTyped
<1>4. NotedInUse' /\ MadeFresh' /\ NotAgain'
    BY DEF PaperInv, NotedInUse, MadeFresh, NotAgain
<1>5. QED
    BY <1>1, <1>3, <1>4 DEF PaperInv

\* An invite is added to those before it.
LEMMA InsertKeeps ==
    ASSUME PaperInv, NEW ids \in SUBSET ItemIds, NEW drawn \in SUBSET ItemIds, NEW known,
           known \subseteq DOMAIN invites, \A j \in known : drawn \cap invites[j].noted = {},
           Insert(ids, drawn, known)
    PROVE  /\ invites' \in Seq(Invited) /\ usage' \subseteq [id : ItemIds, invite : Nat, recent : BOOLEAN]
           /\ DOMAIN invites \subseteq DOMAIN invites'
           /\ \A i \in DOMAIN invites : invites'[i] = invites[i]
           /\ \A i \in DOMAIN invites' : invites'[i].known \subseteq 1..(i - 1)
           /\ \A u \in usage' : u.invite \in DOMAIN invites' /\ u.id \in ItemIds
           /\ NotedInUse' /\ NotAgain'
<1> DEFINE n == Len(invites)
<1>1. /\ invites \in Seq(Invited) /\ n \in Nat /\ DOMAIN invites = 1..n
      /\ usage \subseteq [id : ItemIds, invite : Nat, recent : BOOLEAN]
    BY DEF PaperInv, PaperShape
<1>2. PICK failed \in BOOLEAN :
        /\ usage' = IF failed THEN usage ELSE usage \cup Record(n + 1, ids)
        /\ invites' = Append(invites,
               [noted |-> IF failed THEN {} ELSE ids, drawn |-> drawn, known |-> known,
                failed |-> failed, recent |-> TRUE, deleted |-> FALSE])
    BY DEF Insert
<1> DEFINE noted == IF failed THEN {} ELSE ids
           new == [noted |-> noted, drawn |-> drawn, known |-> known,
                   failed |-> failed, recent |-> TRUE, deleted |-> FALSE]
<1>3. new \in Invited /\ new.noted = noted /\ new.known = known /\ new.drawn = drawn
    BY <1>1 DEF Invited
<1>4. invites' = Append(invites, new)
    BY <1>2
<1>5. \A id \in noted : Use(id, n + 1) \in usage'
    BY <1>2 DEF Record
<1>6. Record(n + 1, ids) \subseteq [id : ItemIds, invite : {n + 1}, recent : BOOLEAN]
  <2>1. \A id \in ids : Use(id, n + 1) \in [id : ItemIds, invite : {n + 1}, recent : BOOLEAN]
      BY DEF Use
  <2>2. QED
      BY <2>1 DEF Record
<1> HIDE DEF new, noted, n
<1>7. /\ invites' \in Seq(Invited) /\ DOMAIN invites' = 1..(n + 1)
      /\ invites'[n + 1] = new /\ \A i \in 1..n : invites'[i] = invites[i]
    BY <1>1, <1>3, <1>4 DEF n
<1>8. /\ usage \subseteq usage'
      /\ \A u \in usage' : u \in usage \/ u \in [id : ItemIds, invite : {n + 1}, recent : BOOLEAN]
    BY <1>2, <1>6
<1>9. usage' \subseteq [id : ItemIds, invite : Nat, recent : BOOLEAN]
    BY <1>1, <1>8
<1>10. \A i \in 1..(n + 1) : i \in 1..n \/ i = n + 1
    BY <1>1
<1>11. \A i \in DOMAIN invites' : invites'[i].known \subseteq 1..(i - 1)
  <2>1. \A i \in 1..n : invites[i].known \subseteq 1..(i - 1)
      BY <1>1 DEF PaperInv, PaperTyped
  <2>2. new.known \subseteq 1..((n + 1) - 1)
      BY <1>1, <1>3
  <2>3. QED
      BY <1>7, <1>10, <2>1, <2>2
<1>12. \A u \in usage' : u.invite \in DOMAIN invites' /\ u.id \in ItemIds
  <2>1. \A u \in usage : u.invite \in 1..n /\ u.id \in ItemIds
      BY <1>1 DEF PaperInv, PaperTyped
  <2>2. QED
      BY <1>1, <1>7, <1>8, <2>1
<1>13. NotedInUse'
  <2>1. \A i \in 1..n : invites[i].recent => \A id \in invites[i].noted : Use(id, i) \in usage
      BY <1>1 DEF PaperInv, NotedInUse
  <2>2. \A i \in DOMAIN invites' : invites'[i].recent =>
            \A id \in invites'[i].noted : Use(id, i) \in usage'
      BY <1>3, <1>5, <1>7, <1>8, <1>10, <2>1
  <2>3. QED
      BY <2>2 DEF NotedInUse, Use
<1>14. NotAgain'
  <2>1. \A i \in 1..n : \A j \in invites[i].known :
            j \in 1..n /\ invites[i].drawn \cap invites[j].noted = {}
      BY <1>1 DEF PaperInv, PaperTyped, NotAgain
  <2>2. \A j \in new.known : j \in 1..n /\ new.drawn \cap invites[j].noted = {}
      BY <1>1, <1>3
  <2>3. QED
      BY <1>7, <1>10, <2>1, <2>2 DEF NotAgain
<1>15. QED
    BY <1>1, <1>7, <1>9, <1>11, <1>12, <1>13, <1>14

\* What the handlers of the page write.
LEMMA PageTyped ==
    ASSUME PaperShape, NEW p \in Pages, NEW r \in Requests, NEW qs \in SUBSET Allowed({})
    PROVE  /\ page[p].qs \in SUBSET Allowed({}) /\ page[p].request \in Requests
           /\ [page EXCEPT ![p].request = r] \in [Pages -> [request : Requests, qs : SUBSET Allowed({})]]
           /\ [page EXCEPT ![p].qs = qs] \in [Pages -> [request : Requests, qs : SUBSET Allowed({})]]
           /\ [page EXCEPT ![p].request = r, ![p].qs = qs]
                  \in [Pages -> [request : Requests, qs : SUBSET Allowed({})]]
<1>1. page \in [Pages -> [request : Requests, qs : SUBSET Allowed({})]]
    BY DEF PaperShape
<1>2. page[p].qs \in SUBSET Allowed({}) /\ page[p].request \in Requests
    BY <1>1
<1> DEFINE R == [request : Requests, qs : SUBSET Allowed({})]
<1>3. [page[p] EXCEPT !.request = r] \in R /\ [page[p] EXCEPT !.qs = qs] \in R
    BY <1>1
<1>4. [page[p] EXCEPT !.request = r, !.qs = qs] \in R
    BY <1>1
<1>5. QED
    BY <1>1, <1>2, <1>3, <1>4

LEMMA PageActions ==
    ASSUME PaperInv, NEW p \in Pages,
           \/ \E order \in Orders : PressGenerate(p, order)
           \/ GenerateAnswered(p) \/ GenerateFailed(p) \/ EditDraft(p) \/ Cancel(p) \/ PressCreate(p)
    PROVE  PaperInv'
<1> DEFINE Typed == page' \in [Pages -> [request : Requests, qs : SUBSET Allowed({})]]
<1>1. PaperShape
    BY DEF PaperInv
<1>2. Nothing \in Requests /\ {} \in SUBSET Allowed({})
    BY DEF Nothing, Requests
<1>3. page[p].qs \in SUBSET Allowed({})
    BY <1>1, <1>2, PageTyped
<1>4. draft' = Nothing => DraftIsSound'
    BY DEF DraftIsSound
<1>5. ASSUME NEW order \in Orders, PressGenerate(p, order) PROVE Typed /\ DraftIsSound'
  <2>1. [at |-> "generate", order |-> order] \in Requests
      BY DEF Requests
  <2>2. QED
      BY <1>1, <1>2, <1>4, <1>5, <2>1, PageTyped DEF PressGenerate
<1>6. ASSUME GenerateAnswered(p) PROVE Typed /\ DraftIsSound'
  <2>1. PICK paper \in {pp \in LibraryPapers : pp.recent = Recent} \cup AiPapers :
          /\ draft' = [order |-> paper.order, qs |-> paper.qs]
          /\ page' = [page EXCEPT ![p].request = Nothing, ![p].qs = Range(paper.qs)]
      BY <1>6 DEF GenerateAnswered
  <2>2. PICK recent : paper.order \in Orders
                      /\ Sound(paper.qs, paper.order.n, paper.order.types, recent)
      BY DraftSound
  <2>3. Range(paper.qs) \in SUBSET Allowed({})
      BY <2>2, SoundIds
  <2>4. Typed
      BY <1>1, <1>2, <2>1, <2>3, PageTyped
  <2>5. DraftIsSound'
    <3>1. draft'.order = paper.order /\ draft'.qs = paper.qs
        BY <2>1
    <3>2. QED
        BY <2>2, <3>1 DEF DraftIsSound
  <2>6. QED
      BY <2>4, <2>5
<1>7. ASSUME GenerateFailed(p) PROVE Typed /\ DraftIsSound'
    BY <1>1, <1>2, <1>4, <1>7, PageTyped DEF GenerateFailed
<1>8. ASSUME EditDraft(p) PROVE Typed /\ DraftIsSound'
  <2>1. \A q \in page[p].qs : page[p].qs \ {q} \in SUBSET Allowed({})
      BY <1>3
  <2>2. [fp |-> 0, type |-> "subjective", id |-> 0] \in Allowed({})
    <3>1. "subjective" \in STRING \cup {"subjective"}
        BY Zenon
    <3>2. 0 \in Nat /\ 0 \in (ItemIds \ {}) \cup {0}
        OBVIOUS
    <3>3. QED
        BY <3>1, <3>2, Zenon DEF Allowed
  <2>3. page[p].qs \cup {[fp |-> 0, type |-> "subjective", id |-> 0]} \in SUBSET Allowed({})
      BY <1>3, <2>2
  <2>4. draft' = Nothing
        /\ \E qs \in SUBSET Allowed({}) : page' = [page EXCEPT ![p].qs = qs]
    <3>1. draft' = Nothing
        BY <1>8 DEF EditDraft
    <3>2. CASE \E q \in page[p].qs : page' = [page EXCEPT ![p].qs = @ \ {q}]
        BY <2>1, <3>1, <3>2
    <3>3. CASE page' = [page EXCEPT ![p].qs = @ \cup {[fp |-> 0, type |-> "subjective", id |-> 0]}]
        BY <2>3, <3>1, <3>3
    <3>4. QED
        BY <1>8, <3>2, <3>3 DEF EditDraft
  <2>5. PICK qs \in SUBSET Allowed({}) : page' = [page EXCEPT ![p].qs = qs]
      BY <2>4
  <2>6. QED
      BY <1>1, <1>2, <1>4, <2>4, <2>5, PageTyped
<1>9. ASSUME Cancel(p) PROVE Typed /\ DraftIsSound'
    BY <1>1, <1>2, <1>4, <1>9, PageTyped DEF Cancel
<1>10. ASSUME PressCreate(p) PROVE Typed /\ DraftIsSound'
  <2>1. Ids(page[p].qs) \in SUBSET ItemIds
      BY <1>3 DEF Ids, Allowed
  <2>2. [at |-> "create", ids |-> {}, drawn |-> Ids(page[p].qs)] \in Requests
      BY <2>1 DEF Requests
  <2>3. QED
      BY <1>1, <1>2, <1>4, <1>10, <2>2, PageTyped DEF PressCreate
<1>11. UNCHANGED <<making, invites, usage>>
    BY DEF PressGenerate, GenerateAnswered, GenerateFailed, EditDraft, Cancel, PressCreate
<1>12. Typed /\ DraftIsSound'
    BY <1>5, <1>6, <1>7, <1>8, <1>9, <1>10
<1>13. QED
    BY <1>11, <1>12, PageStep

LEMMA CreateKeeps ==
    ASSUME PaperInv, NEW p \in Pages, CreateAnswered(p)
    PROVE  PaperInv'
<1>1. PaperShape
    BY DEF PaperInv
<1>2. Nothing \in Requests /\ {} \in SUBSET Allowed({})
    BY DEF Nothing, Requests
<1>3. page' \in [Pages -> [request : Requests, qs : SUBSET Allowed({})]]
    BY <1>1, <1>2, PageTyped DEF CreateAnswered
<1>4. DraftIsSound'
    BY DEF CreateAnswered, DraftIsSound
<1>5. CASE UNCHANGED <<invites, usage>>
  <2>1. UNCHANGED <<making, invites, usage>>
      BY <1>5 DEF CreateAnswered
  <2>2. QED
      BY <1>3, <1>4, <2>1, PageStep
<1>6. CASE Insert(page[p].request.ids, page[p].request.drawn, {})
  <2>1. page[p].request.ids \in SUBSET ItemIds /\ page[p].request.drawn \in SUBSET ItemIds
    <3>1. page[p].request \in Requests /\ page[p].request.at = "create"
        BY <1>1, <1>2, PageTyped DEF CreateAnswered
    <3>2. QED
        BY <3>1 DEF Requests
  <2> DEFINE ids == page[p].request.ids
             drawn == page[p].request.drawn
             known == {}
  <2>2. known \subseteq DOMAIN invites /\ \A j \in known : drawn \cap invites[j].noted = {}
      OBVIOUS
  <2>3. ids \in SUBSET ItemIds /\ drawn \in SUBSET ItemIds /\ Insert(ids, drawn, known)
      BY <1>6, <2>1
  <2> HIDE DEF ids, drawn, known
  <2>4. /\ invites' \in Seq(Invited) /\ usage' \subseteq [id : ItemIds, invite : Nat, recent : BOOLEAN]
        /\ DOMAIN invites \subseteq DOMAIN invites'
        /\ \A i \in DOMAIN invites : invites'[i] = invites[i]
        /\ \A i \in DOMAIN invites' : invites'[i].known \subseteq 1..(i - 1)
        /\ \A u \in usage' : u.invite \in DOMAIN invites' /\ u.id \in ItemIds
        /\ NotedInUse' /\ NotAgain'
      BY <2>2, <2>3, InsertKeeps
  <2>5. making' = making
      BY DEF CreateAnswered
  <2>6. PaperShape'
      BY <1>1, <1>3, <2>4, <2>5 DEF PaperShape
  <2>7. PaperTyped'
    <3>1. \A q \in Pages : Ids(page'[q].qs) \subseteq ItemIds
      <4>1. \A q \in Pages : page'[q].qs \subseteq Allowed({})
          BY <1>3
      <4>2. QED
          BY <4>1 DEF Ids, Allowed
    <3>2. \A s \in Scripts : making'[s] = Nothing \/ making'[s].drawn \subseteq ItemIds
        BY <2>5 DEF PaperInv, PaperTyped
    <3>3. QED
        BY <2>4, <3>1, <3>2 DEF PaperTyped, Ids, ItemIds
  <2>8. MadeFresh'
    <3>1. \A s \in Scripts : making[s] # Nothing =>
              /\ making[s].known \subseteq DOMAIN invites'
              /\ \A j \in making[s].known : making[s].drawn \cap invites'[j].noted = {}
        BY <2>4 DEF PaperInv, MadeFresh
    <3>2. QED
        BY <2>5, <3>1 DEF MadeFresh, Nothing
  <2>9. QED
      BY <1>4, <2>4, <2>6, <2>7, <2>8 DEF PaperInv
<1>7. QED
    BY <1>5, <1>6 DEF CreateAnswered

LEMMA MakeKeeps ==
    ASSUME PaperInv, NEW s \in Scripts, NEW order \in Orders, Make(s, order)
    PROVE  PaperInv'
<1>1. PaperShape
    BY DEF PaperInv
<1>2. PICK paper \in LibraryPapers :
        /\ paper.recent = Recent
        /\ draft' = [order |-> order, qs |-> paper.qs] /\ paper.order = order
        /\ making' = [making EXCEPT ![s] = [drawn |-> Ids(Range(paper.qs)), known |-> Known]]
    BY DEF Make
<1>3. Sound(paper.qs, paper.order.n, paper.order.types, Recent)
    BY <1>2, DraftSound
<1>4. Ids(Range(paper.qs)) \subseteq ItemIds \ Recent
    BY <1>3, SoundIds
<1>5. UNCHANGED <<page, invites, usage>>
    BY DEF Make
<1> DEFINE drawn == Ids(Range(paper.qs))
           made == [drawn |-> drawn, known |-> Known]
<1>6. Known \subseteq DOMAIN invites /\ Known \in SUBSET Nat
  <2>1. DOMAIN invites = 1..Len(invites)
      BY <1>1 DEF PaperShape
  <2>2. QED
      BY <2>1 DEF Known
<1>7. \A j \in Known : drawn \cap invites[j].noted = {}
  <2> SUFFICES ASSUME NEW j \in Known, NEW id \in invites[j].noted PROVE id \in Recent
      BY <1>4
  <2>1. Use(id, j) \in usage
      BY DEF Known, PaperInv, NotedInUse
  <2>2. Use(id, j).id = id /\ Use(id, j).recent = TRUE
      BY DEF Use
  <2>3. QED
      BY <2>1, <2>2 DEF Recent
<1> HIDE DEF drawn
<1>8. made \in Made /\ made.drawn = drawn /\ made.known = Known
    BY <1>4, <1>6 DEF Made, drawn
<1> HIDE DEF made
<1>9. /\ making' = [making EXCEPT ![s] = made]
      /\ making' \in [Scripts -> {Nothing} \cup Made]
      /\ \A r \in Scripts : making'[r] = IF r = s THEN made ELSE making[r]
    BY <1>1, <1>2, <1>8 DEF made, drawn, PaperShape
<1>10. PaperShape'
    BY <1>1, <1>5, <1>9 DEF PaperShape
<1>11. PaperTyped'
  <2>1. \A r \in Scripts : making'[r] = Nothing \/ making'[r].drawn \subseteq ItemIds
      BY <1>8, <1>9 DEF Made, PaperInv, PaperTyped
  <2>2. QED
      BY <1>5, <2>1 DEF PaperInv, PaperTyped
<1>12. MadeFresh'
  <2>1. \A r \in Scripts : making'[r] # Nothing =>
            /\ making'[r].known \subseteq DOMAIN invites
            /\ \A j \in making'[r].known : making'[r].drawn \cap invites[j].noted = {}
      BY <1>6, <1>7, <1>8, <1>9 DEF PaperInv, MadeFresh
  <2>2. QED
      BY <1>5, <2>1 DEF MadeFresh
<1>13. DraftIsSound'
  <2>1. draft'.order = paper.order /\ draft'.qs = paper.qs
      BY <1>2
  <2>2. QED
      BY <1>2, <1>3, <2>1 DEF DraftIsSound
<1>14. NotedInUse' /\ NotAgain'
    BY <1>5 DEF PaperInv, NotedInUse, NotAgain
<1>15. QED
    BY <1>10, <1>11, <1>12, <1>13, <1>14 DEF PaperInv

LEMMA CommitKeeps ==
    ASSUME PaperInv, NEW s \in Scripts, Commit(s)
    PROVE  PaperInv'
<1> DEFINE made == making[s]
           drawn == made.drawn
           known == made.known
<1>1. PaperShape /\ making[s] # Nothing /\ made \in Made
    BY DEF PaperInv, PaperShape, Commit
<1>2. drawn \in SUBSET ItemIds
    BY <1>1 DEF Made
<1>3. known \subseteq DOMAIN invites /\ \A j \in known : drawn \cap invites[j].noted = {}
    BY <1>1 DEF PaperInv, MadeFresh
<1>4. Insert(drawn, drawn, known)
    BY DEF Commit
<1> HIDE DEF drawn, known
<1>5. /\ invites' \in Seq(Invited) /\ usage' \subseteq [id : ItemIds, invite : Nat, recent : BOOLEAN]
      /\ DOMAIN invites \subseteq DOMAIN invites'
      /\ \A i \in DOMAIN invites : invites'[i] = invites[i]
      /\ \A i \in DOMAIN invites' : invites'[i].known \subseteq 1..(i - 1)
      /\ \A u \in usage' : u.invite \in DOMAIN invites' /\ u.id \in ItemIds
      /\ NotedInUse' /\ NotAgain'
    BY <1>2, <1>3, <1>4, InsertKeeps
<1>6. /\ making' \in [Scripts -> {Nothing} \cup Made] /\ page' = page /\ draft' = Nothing
      /\ \A r \in Scripts : making'[r] = Nothing \/ making'[r] = making[r]
    BY <1>1 DEF Commit, PaperShape
<1>7. PaperShape'
    BY <1>1, <1>5, <1>6 DEF PaperShape
<1>8. PaperTyped'
  <2>1. \A r \in Scripts : making'[r] = Nothing \/ making'[r].drawn \subseteq ItemIds
      BY <1>6 DEF PaperInv, PaperTyped
  <2>2. QED
      BY <1>5, <1>6, <2>1 DEF PaperInv, PaperTyped
<1>9. MadeFresh'
  <2>1. \A r \in Scripts : making'[r] # Nothing =>
            /\ making'[r].known \subseteq DOMAIN invites'
            /\ \A j \in making'[r].known : making'[r].drawn \cap invites'[j].noted = {}
      BY <1>5, <1>6 DEF PaperInv, MadeFresh
  <2>2. QED
      BY <2>1 DEF MadeFresh
<1>10. DraftIsSound'
    BY <1>6 DEF DraftIsSound
<1>11. QED
    BY <1>5, <1>7, <1>8, <1>9, <1>10 DEF PaperInv

\* A change of an invite that leaves what it is made of.
LEMMA InviteMarked ==
    ASSUME PaperInv, NEW i \in DOMAIN invites, NEW row \in Invited,
           row.noted = invites[i].noted, row.drawn = invites[i].drawn, row.known = invites[i].known,
           invites' = [invites EXCEPT ![i] = row], UNCHANGED <<page, making>>, draft' = Nothing,
           usage' \subseteq [id : ItemIds, invite : Nat, recent : BOOLEAN],
           \A u \in usage' : \E v \in usage : u.invite = v.invite /\ u.id = v.id,
           NotedInUse'
    PROVE  PaperInv'
<1>1. PaperShape
    BY DEF PaperInv
<1>2. /\ invites' \in Seq(Invited) /\ DOMAIN invites' = DOMAIN invites
      /\ \A j \in DOMAIN invites : /\ invites'[j].noted = invites[j].noted
                                   /\ invites'[j].drawn = invites[j].drawn
                                   /\ invites'[j].known = invites[j].known
    BY <1>1 DEF PaperShape
<1>3. PaperShape'
    BY <1>1, <1>2 DEF PaperShape
<1>4. PaperTyped'
  <2>1. \A u \in usage' : u.invite \in DOMAIN invites' /\ u.id \in ItemIds
      BY <1>2 DEF PaperInv, PaperTyped
  <2>2. QED
      BY <1>2, <2>1 DEF PaperInv, PaperTyped
<1>5. MadeFresh'
  <2>1. \A s \in Scripts : making[s] # Nothing =>
            /\ making[s].known \subseteq DOMAIN invites'
            /\ \A j \in making[s].known : making[s].drawn \cap invites'[j].noted = {}
      BY <1>2 DEF PaperInv, MadeFresh
  <2>2. QED
      BY <2>1 DEF MadeFresh
<1>6. NotAgain'
  <2>1. \A k \in DOMAIN invites : \A j \in invites[k].known :
            j \in DOMAIN invites /\ invites[k].drawn \cap invites[j].noted = {}
    <3>1. DOMAIN invites = 1..Len(invites) /\ Len(invites) \in Nat
        BY <1>1 DEF PaperShape
    <3>2. QED
        BY <3>1 DEF PaperInv, PaperTyped, NotAgain
  <2>2. QED
      BY <1>2, <2>1 DEF NotAgain
<1>7. DraftIsSound'
    BY DEF DraftIsSound
<1>8. QED
    BY <1>3, <1>4, <1>5, <1>6, <1>7 DEF PaperInv

LEMMA DeleteKeeps ==
    ASSUME PaperInv, NEW i \in DOMAIN invites, Delete(i)
    PROVE  PaperInv'
<1> DEFINE row == [invites[i] EXCEPT !.deleted = TRUE]
<1>1. /\ invites \in Seq(Invited) /\ invites[i] \in Invited
      /\ usage \subseteq [id : ItemIds, invite : Nat, recent : BOOLEAN]
    BY DEF PaperInv, PaperShape
<1>2. /\ row \in Invited /\ row.noted = invites[i].noted /\ row.drawn = invites[i].drawn
      /\ row.known = invites[i].known /\ row.recent = invites[i].recent
    BY <1>1 DEF Invited
<1>3. /\ invites' = [invites EXCEPT ![i] = row] /\ UNCHANGED <<page, making, usage>>
      /\ draft' = Nothing
    BY DEF Delete
<1> HIDE DEF row
<1>4. NotedInUse'
  <2>1. DOMAIN invites' = DOMAIN invites
        /\ \A j \in DOMAIN invites : /\ invites'[j].noted = invites[j].noted
                                     /\ invites'[j].recent = invites[j].recent
      BY <1>1, <1>2, <1>3
  <2>2. QED
      BY <1>3, <2>1 DEF PaperInv, NotedInUse, Use
<1>5. QED
    BY <1>1, <1>2, <1>3, <1>4, InviteMarked

LEMMA AgeKeeps ==
    ASSUME PaperInv, NEW i \in DOMAIN invites, Age(i)
    PROVE  PaperInv'
<1> DEFINE row == [invites[i] EXCEPT !.recent = FALSE]
           Aged(u) == [u EXCEPT !.recent = u.recent /\ u.invite # i]
<1>1. /\ invites \in Seq(Invited) /\ invites[i] \in Invited
      /\ usage \subseteq [id : ItemIds, invite : Nat, recent : BOOLEAN]
    BY DEF PaperInv, PaperShape
<1>2. /\ row \in Invited /\ row.noted = invites[i].noted /\ row.drawn = invites[i].drawn
      /\ row.known = invites[i].known /\ row.recent = FALSE
    BY <1>1 DEF Invited
<1>3. /\ invites' = [invites EXCEPT ![i] = row] /\ UNCHANGED <<page, making>>
      /\ draft' = Nothing /\ usage' = {Aged(u) : u \in usage}
    BY DEF Age
<1>4. \A u \in [id : ItemIds, invite : Nat, recent : BOOLEAN] :
          /\ Aged(u) \in [id : ItemIds, invite : Nat, recent : BOOLEAN]
          /\ Aged(u).invite = u.invite /\ Aged(u).id = u.id
    OBVIOUS
<1>5. \A id \in ItemIds, j \in Nat \ {i} : Aged(Use(id, j)) = Use(id, j)
    BY DEF Use
<1> HIDE DEF row, Aged
<1>6. /\ usage' \subseteq [id : ItemIds, invite : Nat, recent : BOOLEAN]
      /\ \A u \in usage' : \E v \in usage : u.invite = v.invite /\ u.id = v.id
    BY <1>1, <1>3, <1>4
<1>7. NotedInUse'
  <2>1. DOMAIN invites' = DOMAIN invites /\ ~invites'[i].recent
        /\ \A j \in DOMAIN invites \ {i} : invites'[j] = invites[j]
      BY <1>1, <1>2, <1>3
  <2>2. ASSUME NEW j \in DOMAIN invites \ {i}, invites[j].recent, NEW id \in invites[j].noted
        PROVE  Use(id, j) \in usage'
    <3>1. Use(id, j) \in usage
        BY <2>2 DEF PaperInv, NotedInUse
    <3>2. DOMAIN invites = 1..Len(invites) /\ invites[j] \in Invited
        BY <1>1
    <3>3. id \in ItemIds /\ j \in Nat \ {i}
        BY <3>2 DEF Invited
    <3>4. QED
        BY <1>3, <1>5, <3>1, <3>3
  <2>3. QED
      BY <2>1, <2>2 DEF NotedInUse, Use
<1>8. QED
    BY <1>1, <1>2, <1>3, <1>6, <1>7, InviteMarked

LEMMA PaperSteps == PaperInv /\ [PaperNext]_paperVars => PaperInv'
<1> SUFFICES ASSUME PaperInv, [PaperNext]_paperVars PROVE PaperInv'
    OBVIOUS
<1>1. ASSUME NEW p \in Pages,
             \/ \E order \in Orders : PressGenerate(p, order)
             \/ GenerateAnswered(p) \/ GenerateFailed(p) \/ EditDraft(p) \/ Cancel(p) \/ PressCreate(p)
      PROVE  PaperInv'
    BY <1>1, PageActions
<1>2. ASSUME NEW p \in Pages, CreateAnswered(p) PROVE PaperInv'
    BY <1>2, CreateKeeps
<1>3. ASSUME NEW s \in Scripts, NEW order \in Orders, Make(s, order) PROVE PaperInv'
    BY <1>3, MakeKeeps
<1>4. ASSUME NEW s \in Scripts, Commit(s) PROVE PaperInv'
    BY <1>4, CommitKeeps
<1>5. ASSUME NEW i \in DOMAIN invites, Delete(i) PROVE PaperInv'
    BY <1>5, DeleteKeeps
<1>6. ASSUME NEW i \in DOMAIN invites, Age(i) PROVE PaperInv'
    BY <1>6, AgeKeeps
<1>7. CASE UNCHANGED paperVars
  <2>1. UNCHANGED <<page, making, invites, usage, draft>>
      BY <1>7 DEF paperVars
  <2>2. QED
      BY <2>1 DEF PaperInv, PaperShape, PaperTyped, DraftIsSound, NotedInUse, MadeFresh, NotAgain
<1>8. QED
    BY <1>1, <1>2, <1>3, <1>4, <1>5, <1>6, <1>7 DEF PaperNext

LEMMA PaperAlways == PaperSpec => []PaperInv
    BY PaperStarts, PaperSteps, PTL DEF PaperSpec

\* What is noted points to library items and to earlier invites.
THEOREM PaperTypes == PaperSpec => []PaperTyped
<1>1. PaperInv => PaperTyped
    BY DEF PaperInv
<1>2. QED
    BY <1>1, PaperAlways, PTL

\* No generated paper asks anything twice.
THEOREM PapersNeverRepeat == PaperSpec => []NoRepeats
<1>1. PaperInv => NoRepeats
    BY SoundIsFull DEF PaperInv, DraftIsSound, NoRepeats
<1>2. QED
    BY <1>1, PaperAlways, PTL

\* A generated paper is as long as asked for, unless the built-in questions ran out.
THEOREM PapersAreFull == PaperSpec => []FullPaper
<1>1. PaperInv => FullPaper
    BY SoundIsFull DEF PaperInv, DraftIsSound, FullPaper
<1>2. QED
    BY <1>1, PaperAlways, PTL

\* No invite repeats a library item whose use was noted when its paper was made.
THEOREM ItemsNotDrawnAgain == PaperSpec => []NotAgain
<1>1. PaperInv => NotAgain
    BY DEF PaperInv
<1>2. QED
    BY <1>1, PaperAlways, PTL
=============================================================================

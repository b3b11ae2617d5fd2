------------------------------ MODULE SequenceFacts ------------------------------
(***************************************************************************)
(* Induction and recursion without operator parameters, and what they give *)
(* for the folds over sequences that the models are built from.            *)
(*                                                                         *)
(* The induction theorems of the library take a predicate as a parameter.  *)
(* Here the predicate is a set: a collection of finite sets of numbers has *)
(* a least member, so a set that holds 0 and every successor of its        *)
(* numbers holds them all. A recursive definition is a choice of a         *)
(* function that satisfies its equation; with induction such a function    *)
(* exists, and what was chosen has the values the equation gives it.       *)
(***************************************************************************)
EXTENDS Lists, FiniteSets, FiniteSetTheorems, WellFoundedInduction, SequenceTheorems, TLAPS

-----------------------------------------------------------------------------
(* Induction *)

(* A set of numbers without a first gap is all of Nat.                     *)
THEOREM NatSetInduction ==
  ASSUME NEW S, 0 \in S, \A n \in Nat : n \in S => n + 1 \in S
  PROVE  Nat \subseteq S
<1> DEFINE R == StrictSubsetOrdering(Nat)
           F == FiniteSubsetsOf(Nat)
           T == {0..k : k \in Nat \ S}
<1>1. SUFFICES ASSUME T # {} PROVE FALSE
  OBVIOUS
<1>2. T \subseteq F
  <2>1. \A k \in Nat : 0..k \in F
    BY FS_Interval DEF FiniteSubsetsOf
  <2> QED
    BY <2>1
<1>3. PICK x \in T : \A y \in T : ~(<<y, x>> \in R)
  <2>1. IsWellFoundedOn(R, F)
    BY FS_StrictSubsetOrderingWellFounded
  <2> HIDE DEF R, F, T
  <2> QED
    BY <1>1, <1>2, <2>1, WFMin
<1>4. PICK m \in Nat \ S : x = 0..m
  BY <1>3
<1>5. m - 1 \in Nat \ S
  BY <1>4
<1>6. <<0..(m - 1), 0..m>> \in R
  BY <1>4, <1>5 DEF StrictSubsetOrdering
<1> QED
  BY <1>3, <1>4, <1>5, <1>6

(* The same up to a bound.                                                 *)
LEMMA IntervalInduction ==
  ASSUME NEW n \in Nat, NEW S, 0 \in S, \A i \in 0..(n - 1) : i \in S => i + 1 \in S
  PROVE  0..n \subseteq S
<1> DEFINE T == S \cup {i \in Nat : i > n}
<1>1. 0 \in T /\ \A i \in Nat : i \in T => i + 1 \in T
  OBVIOUS
<1>2. Nat \subseteq T
  <2> HIDE DEF T
  <2> QED BY <1>1, NatSetInduction
<1> QED
  BY <1>2

(* Some numbers below a bound have a greatest, ...                         *)
LEMMA MaxOfSome ==
  ASSUME NEW n \in Nat, NEW U, U \subseteq 1..n, U # {}
  PROVE  Max(U) \in U /\ \A x \in U : Max(U) >= x
<1> DEFINE P(k) == \A T : T \subseteq 1..k /\ T # {} => \E x \in T : \A y \in T : x >= y
           S == {k \in Nat : P(k)}
<1>1. P(0)
  <2>1. 1..0 = {}
    OBVIOUS
  <2> QED
    BY <2>1
<1>2. ASSUME NEW k \in Nat, P(k) PROVE P(k + 1)
  <2> SUFFICES ASSUME NEW T, T \subseteq 1..(k + 1), T # {}
               PROVE  \E x \in T : \A y \in T : x >= y
    OBVIOUS
  <2>1. CASE k + 1 \in T
    BY <2>1
  <2>2. CASE k + 1 \notin T
    <3>1. T \subseteq 1..k
      BY <2>2
    <3> QED
      BY <1>2, <3>1
  <2> QED
    BY <2>1, <2>2
<1>3. P(n)
  <2> HIDE DEF P
  <2>1. 0 \in S /\ \A k \in Nat : k \in S => k + 1 \in S
    BY <1>1, <1>2
  <2>2. Nat \subseteq S
    <3> HIDE DEF S
    <3> QED BY <2>1, NatSetInduction
  <2> QED BY <2>2
<1> QED
  BY <1>3 DEF Max

(* The greatest of some numbers, zero among those allowed                  *)
LEMMA MaxWithZero ==
  ASSUME NEW n \in Nat, NEW U, U \subseteq 0..n, U # {}
  PROVE  Max(U) \in U /\ \A x \in U : Max(U) >= x
<1>1. \E x \in U : \A y \in U : x >= y
  <2>1. CASE U \ {0} = {}
    <3>1. U = {0}
      BY <2>1
    <3> QED
      BY <3>1
  <2>2. CASE U \ {0} # {}
    <3> DEFINE V == U \ {0}
    <3>1. V \subseteq 1..n
      OBVIOUS
    <3>2. PICK m \in V : \A x \in V : m >= x
      <4>1. V # {}
        BY <2>2
      <4> HIDE DEF V
      <4>2. Max(V) \in V /\ \A x \in V : Max(V) >= x
        BY <3>1, <4>1, MaxOfSome
      <4> QED BY <4>2
    <3>3. m \in U /\ m \in 1..n /\ \A y \in U : y \in V \/ y = 0
      OBVIOUS
    <3>4. \A y \in U : m >= y
      BY <3>2, <3>3
    <3> QED
      BY <3>3, <3>4
  <2> QED
    BY <2>1, <2>2
<1> QED
  BY <1>1 DEF Max

LEMMA MaxOfInterval ==
  ASSUME NEW i \in Nat \ {0} PROVE Max(1..i) = i
<1>1. i \in 1..i
  OBVIOUS
<1>2. Max(1..i) \in 1..i /\ \A x \in 1..i : Max(1..i) >= x
  BY <1>1, MaxOfSome
<1> QED
  BY <1>1, <1>2

(* ... and a least.                                                        *)
LEMMA LeastOfSome ==
  ASSUME NEW U \in SUBSET Nat, U # {}
  PROVE  \E x \in U : \A y \in U : x <= y
<1> DEFINE S == {k \in Nat : \A j \in 0..k : j \notin U}
<1>1. SUFFICES ASSUME ~ \E x \in U : \A y \in U : x <= y PROVE FALSE
  OBVIOUS
<1>2. 0 \in S
  BY <1>1
<1>3. ASSUME NEW k \in Nat, k \in S PROVE k + 1 \in S
  <2>1. ASSUME k + 1 \in U PROVE FALSE
    <3>1. \A y \in U : k + 1 <= y
      BY <1>3
    <3> QED
      BY <1>1, <2>1, <3>1
  <2> QED
    BY <1>3, <2>1
<1>4. Nat \subseteq S
  <2> HIDE DEF S
  <2> QED BY <1>2, <1>3, NatSetInduction
<1>5. PICK x : x \in U
  OBVIOUS
<1>6. x \in S
  BY <1>4, <1>5
<1> QED
  BY <1>5, <1>6

(* A set that holds the empty sequence and every extension of its own      *)
(* sequences holds them all.                                               *)
LEMMA SequenceInduction ==
  ASSUME NEW T, NEW S, <<>> \in S,
         \A s \in Seq(T), x \in T : s \in S => Append(s, x) \in S
  PROVE  Seq(T) \subseteq S
<1> DEFINE N == {n \in Nat : \A s \in Seq(T) : Len(s) = n => s \in S}
<1>1. 0 \in N
  <2>1. \A s \in Seq(T) : Len(s) = 0 => s = <<>>
    OBVIOUS
  <2> QED
    BY <2>1
<1>2. ASSUME NEW n \in Nat, n \in N PROVE n + 1 \in N
  <2> SUFFICES ASSUME NEW s \in Seq(T), Len(s) = n + 1 PROVE s \in S
    OBVIOUS
  <2>1. s = Append(SubSeq(s, 1, n), s[n + 1]) /\ SubSeq(s, 1, n) \in Seq(T)
        /\ Len(SubSeq(s, 1, n)) = n /\ s[n + 1] \in T
    OBVIOUS
  <2> QED
    BY <1>2, <2>1
<1>3. Nat \subseteq N
  <2> HIDE DEF N
  <2> QED BY <1>1, <1>2, NatSetInduction
<1> QED
  BY <1>3

-----------------------------------------------------------------------------
(* Recursion *)

(* A value for every number up to n, from the one before.                  *)
Steps(n, V, base, step) == base \in V /\ step \in [1..n -> [V -> V]]

LEMMA Recursion ==
  ASSUME NEW n \in Nat, NEW V, NEW base, NEW step, Steps(n, V, base, step)
  PROVE  \E f \in [0..n -> V] : /\ f[0] = base
                                /\ \A i \in 1..n : f[i] = step[i][f[i - 1]]
<1>0. base \in V /\ step \in [1..n -> [V -> V]]
  BY DEF Steps
<1> DEFINE Good(k, f) == f[0] = base /\ \A i \in 1..k : f[i] = step[i][f[i - 1]]
           S == {k \in Nat : k <= n => \E f \in [0..k -> V] : Good(k, f)}
<1>1. 0 \in S
  <2>1. [i \in 0..0 |-> base] \in [0..0 -> V] /\ Good(0, [i \in 0..0 |-> base])
    BY <1>0
  <2> QED
    BY <2>1
<1>2. ASSUME NEW k \in Nat, k \in S PROVE k + 1 \in S
  <2> SUFFICES ASSUME k + 1 <= n PROVE \E f \in [0..(k + 1) -> V] : Good(k + 1, f)
    OBVIOUS
  <2>1. PICK f \in [0..k -> V] : Good(k, f)
    BY <1>2
  <2> DEFINE g == [i \in 0..(k + 1) |-> IF i = k + 1 THEN step[k + 1][f[k]] ELSE f[i]]
  <2>2. step[k + 1] \in [V -> V] /\ f[k] \in V
    BY <1>0
  <2>3. g \in [0..(k + 1) -> V]
    BY <2>2
  <2>4. Good(k + 1, g)
    BY <2>1, <2>2
  <2> QED
    BY <2>3, <2>4
<1>3. n \in S
  <2> HIDE DEF S
  <2> QED BY <1>1, <1>2, NatSetInduction
<1> QED
  BY <1>3

(* FoldLeft recurs over the sets of indices; what it computes at u from    *)
(* what it computed without the greatest index of u is step.               *)
IsFold(g, n, V, base, step) ==
  /\ g[{}] = base
  /\ \A u \in SUBSET (1..n) :
       u # {} /\ g[u \ {Max(u)}] \in V => g[u] = step[Max(u)][g[u \ {Max(u)}]]

LEMMA FoldExtends ==
  ASSUME NEW n \in Nat, NEW V, NEW base \in V, NEW step \in [1..n -> [V -> V]],
         NEW k \in Nat, k + 1 <= n,
         NEW g \in [SUBSET (1..k) -> V], IsFold(g, k, V, base, step)
  PROVE  \E h \in [SUBSET (1..(k + 1)) -> V] : IsFold(h, k + 1, V, base, step)
<1> DEFINE h == [u \in SUBSET (1..(k + 1)) |->
                   IF k + 1 \in u THEN step[k + 1][g[u \ {k + 1}]] ELSE g[u]]
<1>1. \A u \in SUBSET (1..(k + 1)) :
        IF k + 1 \in u THEN u \ {k + 1} \in SUBSET (1..k) ELSE u \in SUBSET (1..k)
  OBVIOUS
<1>2. step[k + 1] \in [V -> V]
  OBVIOUS
<1>3. h \in [SUBSET (1..(k + 1)) -> V]
  BY <1>1, <1>2
<1>4. h[{}] = base
  BY DEF IsFold
<1>5. ASSUME NEW u \in SUBSET (1..(k + 1)), u # {}
      PROVE  h[u] = step[Max(u)][h[u \ {Max(u)}]]
  <2>0. k + 1 \in Nat /\ u \subseteq 1..(k + 1)
    OBVIOUS
  <2>1. Max(u) \in u /\ \A x \in u : Max(u) >= x
    <3> HIDE DEF h
    <3> QED BY <1>5, <2>0, MaxOfSome
  <2>2. CASE k + 1 \in u
    <3>1. Max(u) = k + 1
      <4> HIDE DEF h
      <4>1. Max(u) >= k + 1 /\ Max(u) \in 1..(k + 1)
        BY <2>0, <2>1, <2>2
      <4> QED
        BY <4>1
    <3>2. h[u \ {k + 1}] = g[u \ {k + 1}]
      BY <1>1
    <3> QED
      BY <2>2, <3>1, <3>2
  <2>3. CASE k + 1 \notin u
    <3>1. u \in SUBSET (1..k) /\ u \ {Max(u)} \in SUBSET (1..k)
      BY <1>1, <2>3
    <3>2. h[u] = g[u] /\ h[u \ {Max(u)}] = g[u \ {Max(u)}]
      BY <2>3
    <3>3. g[u \ {Max(u)}] \in V
      BY <3>1
    <3> QED
      BY <1>5, <3>1, <3>2, <3>3 DEF IsFold
  <2> QED
    BY <2>2, <2>3
<1> HIDE DEF h
<1> QED
  BY <1>3, <1>4, <1>5 DEF IsFold

LEMMA FoldExists ==
  ASSUME NEW n \in Nat, NEW V, NEW base \in V, NEW step \in [1..n -> [V -> V]]
  PROVE  \E g \in [SUBSET (1..n) -> V] : IsFold(g, n, V, base, step)
<1> DEFINE P(k) == \E g \in [SUBSET (1..k) -> V] : IsFold(g, k, V, base, step)
           S == {k \in Nat : k <= n => P(k)}
<1>1. P(0)
  <2> DEFINE g == [u \in SUBSET (1..0) |-> base]
  <2>1. 1..0 = {}
    OBVIOUS
  <2>2. g \in [SUBSET (1..0) -> V] /\ g[{}] = base
    BY <2>1
  <2>3. \A u \in SUBSET (1..0) : u = {}
    BY <2>1
  <2>4. IsFold(g, 0, V, base, step)
    <3> HIDE DEF g
    <3> QED BY <2>2, <2>3 DEF IsFold
  <2> QED
    BY <2>2, <2>4
<1>2. ASSUME NEW k \in Nat, k + 1 <= n, P(k) PROVE P(k + 1)
  BY <1>2, FoldExtends
<1>3. P(n)
  <2> HIDE DEF P
  <2>1. 0 \in S /\ \A k \in Nat : k \in S => k + 1 \in S
    BY <1>1, <1>2
  <2>2. Nat \subseteq S
    <3> HIDE DEF S
    <3> QED BY <2>1, NatSetInduction
  <2> QED BY <2>2
<1> QED
  BY <1>3

(* The fold of the first indices, one index at a time.                     *)
LEMMA FoldPrefix ==
  ASSUME NEW n \in Nat, NEW V, NEW base \in V, NEW step \in [1..n -> [V -> V]],
         NEW g, IsFold(g, n, V, base, step)
  PROVE  /\ g[1..0] = base
         /\ \A i \in 0..n : g[1..i] \in V
         /\ \A i \in 1..n : g[1..i] = step[i][g[1..(i - 1)]]
<1>1. ASSUME NEW i \in 1..n, g[1..(i - 1)] \in V
      PROVE  g[1..i] = step[i][g[1..(i - 1)]] /\ g[1..i] \in V
  <2>1. 1..i \in SUBSET (1..n) /\ 1..i # {}
    OBVIOUS
  <2>2. Max(1..i) = i
    BY MaxOfInterval
  <2>3. (1..i) \ {i} = 1..(i - 1)
    OBVIOUS
  <2>4. g[1..i] = step[i][g[1..(i - 1)]]
    BY <1>1, <2>1, <2>2, <2>3 DEF IsFold
  <2> QED
    BY <1>1, <2>4
<1> DEFINE S == {i \in 0..n : g[1..i] \in V}
<1>2. 0 \in S
  BY DEF IsFold
<1>3. \A i \in 0..(n - 1) : i \in S => i + 1 \in S
  <2> SUFFICES ASSUME NEW i \in 0..(n - 1), i \in S PROVE i + 1 \in S
    OBVIOUS
  <2>1. i + 1 \in 1..n /\ (i + 1) - 1 = i
    OBVIOUS
  <2> QED
    BY <1>1, <2>1
<1>4. 0..n \subseteq S
  <2> HIDE DEF S
  <2> QED BY <1>2, <1>3, IntervalInduction
<1>5. \A i \in 1..n : i - 1 \in 0..n
  OBVIOUS
<1> QED
  BY <1>1, <1>4, <1>5 DEF IsFold

(* All that is asked of a fold.                                            *)
Folding(g, n, V, base, step) ==
  /\ n \in Nat /\ base \in V /\ step \in [1..n -> [V -> V]]
  /\ IsFold(g, n, V, base, step)

LEMMA FoldSteps ==
  ASSUME NEW n \in Nat, NEW V, NEW base, NEW step, NEW g, Folding(g, n, V, base, step)
  PROVE  /\ g[1..0] = base
         /\ \A i \in 0..n : g[1..i] \in V
         /\ \A i \in 1..n : g[1..i] = step[i][g[1..(i - 1)]]
<1>1. n \in Nat /\ base \in V /\ step \in [1..n -> [V -> V]] /\ IsFold(g, n, V, base, step)
  BY DEF Folding
<1> QED
  BY <1>1, FoldPrefix

(* Two folds agree as long as their steps do.                              *)
LEMMA FoldsAgree ==
  ASSUME NEW n \in Nat, NEW m \in Nat, n <= m, NEW V, NEW base, NEW step, NEW stepm,
         \A i \in 1..n : step[i] = stepm[i],
         NEW g, Folding(g, n, V, base, step), NEW h, Folding(h, m, V, base, stepm)
  PROVE  g[1..n] = h[1..n]
<1> DEFINE S == {i \in 0..n : g[1..i] = h[1..i]}
<1>1. /\ g[1..0] = base /\ h[1..0] = base
      /\ \A i \in 1..n : g[1..i] = step[i][g[1..(i - 1)]]
      /\ \A i \in 1..m : h[1..i] = stepm[i][h[1..(i - 1)]]
  BY FoldSteps
<1>0. n \in Nat /\ m \in Nat
  BY DEF Folding
<1>2. 0 \in S
  BY <1>0, <1>1
<1>3. \A i \in 0..(n - 1) : i \in S => i + 1 \in S
  <2> SUFFICES ASSUME NEW i \in 0..(n - 1), i \in S PROVE i + 1 \in S
    OBVIOUS
  <2>1. i + 1 \in 1..n /\ i + 1 \in 1..m /\ (i + 1) - 1 = i
    BY <1>0
  <2>2. g[1..(i + 1)] = step[i + 1][g[1..i]] /\ h[1..(i + 1)] = stepm[i + 1][h[1..i]]
    BY <1>1, <2>1
  <2> QED
    BY <2>1, <2>2
<1>4. 0..n \subseteq S
  <2> HIDE DEF S
  <2> QED BY <1>0, <1>2, <1>3, IntervalInduction
<1> QED
  BY <1>0, <1>4

(* A fold over one index more takes one step more.                         *)
LEMMA FoldGrows ==
  ASSUME NEW n \in Nat, NEW m \in Nat, m = n + 1, NEW V, NEW base, NEW step, NEW stepm,
         \A i \in 1..n : step[i] = stepm[i],
         NEW g, Folding(g, n, V, base, step), NEW h, Folding(h, m, V, base, stepm)
  PROVE  g[1..n] \in V /\ h[1..m] = stepm[m][g[1..n]]
<1>1. n <= m /\ m \in 1..m /\ m - 1 = n /\ n \in 0..n
  BY DEF Folding
<1>2. g[1..n] = h[1..n]
  BY <1>1, FoldsAgree
<1>3. \A i \in 0..n : g[1..i] \in V
  BY FoldSteps
<1>4. \A i \in 1..m : h[1..i] = stepm[i][h[1..(i - 1)]]
  BY FoldSteps
<1> QED
  BY <1>1, <1>2, <1>3, <1>4

-----------------------------------------------------------------------------
(* Sequences *)

LEMMA PrefixIsAppend ==
  ASSUME NEW T, NEW s \in Seq(T), NEW i \in 1..Len(s)
  PROVE  /\ SubSeq(s, 1, i) = Append(SubSeq(s, 1, i - 1), s[i])
         /\ SubSeq(s, 1, i - 1) \in Seq(T)
OBVIOUS

LEMMA WholePrefix ==
  ASSUME NEW T, NEW s \in Seq(T)
  PROVE  SubSeq(s, 1, Len(s)) = s /\ SubSeq(s, 1, 0) = <<>>
OBVIOUS

SumStep(s) == [i \in 1..Len(s) |-> [v \in Nat |-> v + s[i]]]

LEMMA SumUnfolds ==
  ASSUME NEW s \in Seq(Nat)
  PROVE  \E g : /\ SumSeq(s) = g[1..Len(s)]
               /\ Folding(g, Len(s), Nat, 0, SumStep(s))
<1> DEFINE n == Len(s)
           step == [i \in 1..n |-> [v \in Nat |-> v + s[i]]]
           Sums(g) == g = [u \in SUBSET (1..n) |->
                             IF u = {} THEN 0 ELSE g[u \ {Max(u)}] + s[Max(u)]]
           f == CHOOSE g : Sums(g)
<1>1. DOMAIN s = 1..n /\ n \in Nat
  OBVIOUS
<1>2. SumSeq(s) = f[1..n]
  BY <1>1 DEF SumSeq, FoldLeft, MapThenFoldSet
<1>3. \A u \in SUBSET (1..n) : u # {} => Max(u) \in 1..n
  BY <1>1, MaxOfSome
<1>4. step \in [1..n -> [Nat -> Nat]]
  BY <1>1
<1>5. \E g : Sums(g)
  <2>1. PICK g \in [SUBSET (1..n) -> Nat] : IsFold(g, n, Nat, 0, step)
    BY <1>1, <1>4, FoldExists
  <2>2. ASSUME NEW u \in SUBSET (1..n), u # {} PROVE g[u] = g[u \ {Max(u)}] + s[Max(u)]
    <3>1. Max(u) \in 1..n /\ g[u \ {Max(u)}] \in Nat
      BY <1>3, <2>2
    <3>2. g[u] = step[Max(u)][g[u \ {Max(u)}]]
      BY <2>1, <2>2, <3>1 DEF IsFold
    <3> QED
      BY <3>1, <3>2
  <2>3. g[{}] = 0
    BY <2>1 DEF IsFold
  <2>4. Sums(g)
    BY <2>2, <2>3
  <2> QED
    BY <2>4
<1>6. Sums(f)
  BY <1>5
<1>7. IsFold(f, n, Nat, 0, step)
  <2>1. f[{}] = 0
    BY <1>6
  <2>2. ASSUME NEW u \in SUBSET (1..n), u # {}, f[u \ {Max(u)}] \in Nat
        PROVE  f[u] = step[Max(u)][f[u \ {Max(u)}]]
    <3>1. f[u] = f[u \ {Max(u)}] + s[Max(u)]
      BY <1>6, <2>2
    <3> HIDE DEF f
    <3> QED
      BY <1>3, <2>2, <3>1
  <2> HIDE DEF f, step
  <2> QED
    BY <2>1, <2>2 DEF IsFold
<1>8. Folding(f, n, Nat, 0, step)
  <2> HIDE DEF f, step
  <2> QED BY <1>1, <1>4, <1>7 DEF Folding
<1>9. step = SumStep(s)
  BY DEF SumStep
<1> HIDE DEF f, n, step
<1> QED
  BY <1>2, <1>8, <1>9 DEF n

LEMMA SumEmpty == SumSeq(<<>>) = 0
<1>1. <<>> \in Seq(Nat) /\ Len(<<>>) = 0
  OBVIOUS
<1>2. PICK g : SumSeq(<<>>) = g[1..0] /\ g[{}] = 0
  BY <1>1, SumUnfolds DEF IsFold, Folding
<1>3. 1..0 = {}
  OBVIOUS
<1> QED
  BY <1>2, <1>3

LEMMA SumAppend ==
  ASSUME NEW s \in Seq(Nat), NEW x \in Nat
  PROVE  SumSeq(s) \in Nat /\ SumSeq(Append(s, x)) = SumSeq(s) + x
<1>1. PICK t : t = Append(s, x)
  OBVIOUS
<1>2. /\ Len(s) \in Nat /\ t \in Seq(Nat) /\ Len(t) = Len(s) + 1 /\ Len(t) \in 1..Len(t)
      /\ t[Len(t)] = x /\ \A i \in 1..Len(s) : t[i] = s[i]
  BY <1>1
<1>3. \A i \in 1..Len(s) : SumStep(s)[i] = SumStep(t)[i]
  <2>1. \A i \in 1..Len(s) : i \in 1..Len(t) /\ t[i] = s[i]
    BY <1>2
  <2> QED BY <2>1 DEF SumStep
<1>4. \A v \in Nat : SumStep(t)[Len(t)][v] = v + x
  BY <1>2 DEF SumStep
<1>5. PICK g : SumSeq(s) = g[1..Len(s)] /\ Folding(g, Len(s), Nat, 0, SumStep(s))
  BY SumUnfolds
<1>6. PICK h : SumSeq(t) = h[1..Len(t)] /\ Folding(h, Len(t), Nat, 0, SumStep(t))
  BY <1>2, SumUnfolds
<1>7. Len(s) \in Nat /\ Len(t) \in Nat /\ Len(t) = Len(s) + 1
  BY <1>2
<1>8. g[1..Len(s)] \in Nat /\ h[1..Len(t)] = SumStep(t)[Len(t)][g[1..Len(s)]]
  BY <1>3, <1>5, <1>6, <1>7, FoldGrows
<1> QED
  BY <1>1, <1>4, <1>5, <1>6, <1>8

(* The sum of a longer prefix has one more term.                           *)
LEMMA SumGrows ==
  ASSUME NEW N \in Nat, NEW f \in [1..N -> Nat], NEW n \in Nat, n < N
  PROVE  /\ SumSeq([i \in 1..n |-> f[i]]) \in Nat
         /\ SumSeq([i \in 1..(n + 1) |-> f[i]]) = SumSeq([i \in 1..n |-> f[i]]) + f[n + 1]
<1> DEFINE s == [i \in 1..n |-> f[i]]
           t == [i \in 1..(n + 1) |-> f[i]]
<1>1. s \in Seq(Nat) /\ f[n + 1] \in Nat
  OBVIOUS
<1>2. t = Append(s, f[n + 1])
  OBVIOUS
<1> HIDE DEF s, t
<1>3. SumSeq(s) \in Nat /\ SumSeq(Append(s, f[n + 1])) = SumSeq(s) + f[n + 1]
  BY <1>1, SumAppend
<1> QED
  BY <1>2, <1>3 DEF s, t

(* The sum of two sequences one after the other is that of both.           *)
LEMMA SumConcat ==
  ASSUME NEW a \in Seq(Nat), NEW b \in Seq(Nat)
  PROVE  SumSeq(a \o b) = SumSeq(a) + SumSeq(b) /\ SumSeq(a \o b) \in Nat
<1> DEFINE P(n) == \A c \in Seq(Nat) : Len(c) = n => SumSeq(a \o c) = SumSeq(a) + SumSeq(c)
           S == {n \in Nat : P(n)}
<1>1. SumSeq(a) \in Nat
  BY SumAppend
<1>2. 0 \in S
  <2>1. \A c \in Seq(Nat) : Len(c) = 0 => c = <<>> /\ a \o c = a
    OBVIOUS
  <2>2. ASSUME NEW c \in Seq(Nat), Len(c) = 0
        PROVE  SumSeq(a \o c) = SumSeq(a) + SumSeq(c)
    <3>1. SumSeq(a \o c) = SumSeq(a) /\ SumSeq(c) = 0
      BY <2>1, <2>2, SumEmpty
    <3> QED BY <1>1, <3>1
  <2> QED
    BY <2>2
<1>3. ASSUME NEW n \in Nat, n \in S PROVE n + 1 \in S
  <2> SUFFICES ASSUME NEW c \in Seq(Nat), Len(c) = n + 1
               PROVE  SumSeq(a \o c) = SumSeq(a) + SumSeq(c)
    OBVIOUS
  <2>1. PICK d \in Seq(Nat), x \in Nat : c = Append(d, x) /\ Len(d) = n
    <3>1. c = Append(SubSeq(c, 1, n), c[n + 1]) /\ SubSeq(c, 1, n) \in Seq(Nat)
          /\ Len(SubSeq(c, 1, n)) = n /\ c[n + 1] \in Nat
      OBVIOUS
    <3> QED BY <3>1
  <2>2. a \o c = Append(a \o d, x) /\ a \o d \in Seq(Nat)
    BY <2>1
  <2>3. SumSeq(a \o d) = SumSeq(a) + SumSeq(d)
    BY <1>3, <2>1
  <2>4. SumSeq(c) = SumSeq(d) + x /\ SumSeq(a \o c) = SumSeq(a \o d) + x /\ SumSeq(d) \in Nat
    BY <2>1, <2>2, SumAppend
  <2> QED
    BY <1>1, <2>1, <2>3, <2>4
<1>4. P(Len(b))
  <2>1. Nat \subseteq S
    <3> HIDE DEF S
    <3> QED BY <1>2, <1>3, NatSetInduction
  <2> QED BY <2>1
<1>5. a \o b \in Seq(Nat)
  OBVIOUS
<1> QED
  BY <1>4, <1>5, SumAppend

LEMMA SumOne ==
  ASSUME NEW x \in Nat PROVE SumSeq(<<x>>) = x
<1>1. PICK e : e = <<>>
  OBVIOUS
<1>2. <<x>> = Append(e, x)
  BY <1>1
<1>5. e \in Seq(Nat)
  BY <1>1, EmptySeq
<1>3. SumSeq(e) = 0
  BY <1>1, SumEmpty
<1>4. SumSeq(Append(e, x)) = SumSeq(e) + x
  BY <1>5, SumAppend
<1>6. SumSeq(<<x>>) = SumSeq(Append(e, x))
  BY <1>2
<1> QED
  BY <1>3, <1>4, <1>6

(* A sum of ones is their number, one of zeroes nothing.                   *)
LEMMA SumOfSame ==
  ASSUME NEW n \in Nat
  PROVE  SumSeq([i \in 1..n |-> 1]) = n /\ SumSeq([i \in 1..n |-> 0]) = 0
<1> DEFINE Ones(k) == [i \in 1..k |-> 1]
           Zeroes(k) == [i \in 1..k |-> 0]
           S == {k \in Nat : SumSeq(Ones(k)) = k /\ SumSeq(Zeroes(k)) = 0}
<1>1. 0 \in S
  <2>1. Ones(0) = <<>> /\ Zeroes(0) = <<>>
    OBVIOUS
  <2> QED
    BY <2>1, SumEmpty
<1>2. ASSUME NEW k \in Nat, k \in S PROVE k + 1 \in S
  <2>1. /\ Ones(k + 1) = Append(Ones(k), 1) /\ Ones(k) \in Seq(Nat)
        /\ Zeroes(k + 1) = Append(Zeroes(k), 0) /\ Zeroes(k) \in Seq(Nat)
    OBVIOUS
  <2> HIDE DEF Ones, Zeroes
  <2>2. SumSeq(Append(Ones(k), 1)) = SumSeq(Ones(k)) + 1
    BY <2>1, SumAppend
  <2>3. SumSeq(Append(Zeroes(k), 0)) = SumSeq(Zeroes(k)) + 0
    BY <2>1, SumAppend
  <2>4. SumSeq(Ones(k)) = k /\ SumSeq(Zeroes(k)) = 0
    BY <1>2
  <2>5. SumSeq(Ones(k + 1)) = k + 1
    BY <2>1, <2>2, <2>4
  <2>6. SumSeq(Zeroes(k + 1)) = 0
    <3>1. SumSeq(Append(Zeroes(k), 0)) = 0
      BY <2>3, <2>4
    <3>2. Zeroes(k + 1) = Append(Zeroes(k), 0)
      BY <2>1
    <3> QED BY <3>1, <3>2, Zenon
  <2> QED
    BY <2>5, <2>6
<1>3. Nat \subseteq S
  <2> HIDE DEF S
  <2> QED BY <1>1, <1>2, NatSetInduction
<1> QED
  BY <1>3

-----------------------------------------------------------------------------
(* A sequence of sequences, one after the other *)

SiftStep(s, keep, V) ==
  [i \in 1..Len(s) |-> [v \in V |-> IF s[i] \in keep THEN Append(v, s[i]) ELSE v]]

(* Sifting is a fold as well, over sequences of what is kept.              *)
LEMMA SiftedUnfolds ==
  ASSUME NEW T, NEW s \in Seq(T), NEW keep
  PROVE  \E g : /\ Sifted(s, keep) = g[1..Len(s)]
               /\ Folding(g, Len(s), Seq(T \cap keep), <<>>, SiftStep(s, keep, Seq(T \cap keep)))
<1> DEFINE n == Len(s)
           V == Seq(T \cap keep)
           step == [i \in 1..n |-> [v \in V |-> IF s[i] \in keep THEN Append(v, s[i]) ELSE v]]
           Sifts(g) == g = [u \in SUBSET (1..n) |->
                              IF u = {} THEN <<>>
                              ELSE IF s[Max(u)] \in keep THEN Append(g[u \ {Max(u)}], s[Max(u)])
                              ELSE g[u \ {Max(u)}]]
           f == CHOOSE g : Sifts(g)
<1>1. DOMAIN s = 1..n /\ n \in Nat /\ \A i \in 1..n : s[i] \in T
  OBVIOUS
<1>2. Sifted(s, keep) = f[1..n]
  BY <1>1 DEF Sifted, FoldLeft, MapThenFoldSet
<1>3. \A u \in SUBSET (1..n) : u # {} => Max(u) \in 1..n
  BY <1>1, MaxOfSome
<1>4. step \in [1..n -> [V -> V]]
  <2> SUFFICES ASSUME NEW i \in 1..n, NEW v \in V
               PROVE  (IF s[i] \in keep THEN Append(v, s[i]) ELSE v) \in V
    OBVIOUS
  <2> QED
    BY <1>1
<1>5. <<>> \in V
  OBVIOUS
<1> HIDE DEF V
<1>6. \E g : Sifts(g)
  <2>1. PICK g \in [SUBSET (1..n) -> V] : IsFold(g, n, V, <<>>, step)
    BY <1>1, <1>4, <1>5, FoldExists
  <2>2. ASSUME NEW u \in SUBSET (1..n), u # {}
        PROVE  g[u] = IF s[Max(u)] \in keep THEN Append(g[u \ {Max(u)}], s[Max(u)])
                      ELSE g[u \ {Max(u)}]
    <3>1. Max(u) \in 1..n /\ g[u \ {Max(u)}] \in V
      BY <1>3, <2>2
    <3>2. g[u] = step[Max(u)][g[u \ {Max(u)}]]
      BY <2>1, <2>2, <3>1 DEF IsFold
    <3> QED
      BY <3>1, <3>2
  <2>3. g[{}] = <<>>
    BY <2>1 DEF IsFold
  <2>4. Sifts(g)
    BY <2>2, <2>3
  <2> QED
    BY <2>4
<1>7. Sifts(f)
  BY <1>6
<1>8. IsFold(f, n, V, <<>>, step)
  <2>1. f[{}] = <<>>
    BY <1>7
  <2>2. ASSUME NEW u \in SUBSET (1..n), u # {}, f[u \ {Max(u)}] \in V
        PROVE  f[u] = step[Max(u)][f[u \ {Max(u)}]]
    <3>1. f[u] = IF s[Max(u)] \in keep THEN Append(f[u \ {Max(u)}], s[Max(u)])
                 ELSE f[u \ {Max(u)}]
      BY <1>7, <2>2
    <3> HIDE DEF f
    <3> QED
      BY <1>3, <2>2, <3>1
  <2> HIDE DEF f, step
  <2> QED
    BY <2>1, <2>2 DEF IsFold
<1>9. Folding(f, n, V, <<>>, step)
  <2> HIDE DEF f, step
  <2> QED BY <1>1, <1>4, <1>5, <1>8 DEF Folding
<1>10. step = SiftStep(s, keep, V)
  BY DEF SiftStep
<1> HIDE DEF f, n, step
<1> QED
  BY <1>2, <1>9, <1>10 DEF n, V

LEMMA SiftedKeeps ==
  ASSUME NEW T, NEW s \in Seq(T), NEW keep
  PROVE  Sifted(s, keep) \in Seq(T \cap keep)
<1>1. PICK g : /\ Sifted(s, keep) = g[1..Len(s)]
               /\ Folding(g, Len(s), Seq(T \cap keep), <<>>, SiftStep(s, keep, Seq(T \cap keep)))
  BY SiftedUnfolds
<1>2. Len(s) \in Nat /\ Len(s) \in 0..Len(s)
  OBVIOUS
<1> QED
  BY <1>1, <1>2, FoldSteps

LEMMA FlattenUnfolds ==
  ASSUME NEW T, NEW ss \in Seq(Seq(T))
  PROVE  \E f \in [0..Len(ss) -> Seq(T)] :
           /\ FlattenSeq(ss) = f[Len(ss)] /\ f[0] = <<>>
           /\ \A i \in 1..Len(ss) : f[i] = f[i - 1] \o ss[i]
<1> DEFINE n == Len(ss)
           step == [i \in 1..n |-> [v \in Seq(T) |-> v \o ss[i]]]
           Flat(g) == g = [i \in 1..n |-> IF i = 1 THEN ss[i] ELSE g[i - 1] \o ss[i]]
           flat == CHOOSE g : Flat(g)
<1>1. n \in Nat /\ (n = 0 => ss = <<>>) /\ \A i \in 1..n : ss[i] \in Seq(T)
  OBVIOUS
<1>2. FlattenSeq(ss) = IF n = 0 THEN ss ELSE flat[n]
  BY DEF FlattenSeq
<1>3. PICK f \in [0..n -> Seq(T)] : f[0] = <<>> /\ \A i \in 1..n : f[i] = step[i][f[i - 1]]
  <2> DEFINE V == Seq(T)
             e == <<>>
  <2>1. e \in V
    BY EmptySeq
  <2>2. \A i \in 1..n : [v \in V |-> v \o ss[i]] \in [V -> V]
    BY <1>1
  <2>3. step \in [1..n -> [V -> V]]
    BY <2>2
  <2>4. n \in Nat
    BY <1>1
  <2>5. \E f \in [0..n -> V] : f[0] = e /\ \A i \in 1..n : f[i] = step[i][f[i - 1]]
    <3>1. Steps(n, V, e, step)
      BY <2>1, <2>3 DEF Steps
    <3> HIDE DEF step, n, V, e
    <3> QED BY <2>4, <3>1, Recursion
  <2> QED
    BY <2>5
<1>4. \A i \in 1..n : f[i] = f[i - 1] \o ss[i]
  <2> SUFFICES ASSUME NEW i \in 1..n PROVE f[i] = f[i - 1] \o ss[i]
    OBVIOUS
  <2>1. i - 1 \in 0..n
    BY <1>1
  <2> QED
    BY <1>3, <2>1
<1>first. \A i \in 1..n : i = 1 => f[i] = ss[i]
  <2> SUFFICES ASSUME NEW i \in 1..n PROVE i = 1 => f[i] = ss[i]
    OBVIOUS
  <2>1. i = 1 => f[i] = f[0] \o ss[i] /\ f[0] = <<>> /\ ss[i] \in Seq(T)
    <3>1. f[i] = f[i - 1] \o ss[i]
      BY <1>4
    <3>2. i = 1 => i - 1 = 0
      OBVIOUS
    <3> HIDE DEF n, step
    <3> QED BY <1>1, <1>3, <3>1, <3>2
  <2>2. \A q \in Seq(T) : <<>> \o q = q
    OBVIOUS
  <2> QED
    BY <2>1, <2>2
<1>5. Flat([i \in 1..n |-> f[i]])
  <2>2. \A i \in 1..n : i # 1 => i - 1 \in 1..n
    BY <1>1
  <2> QED
    BY <1>4, <1>first, <2>2
<1>6. Flat(flat)
  BY <1>5
<1>7. \A i \in 1..n : flat[i] = f[i]
  <2> DEFINE S == {i \in 0..n : i > 0 => flat[i] = f[i]}
  <2>1. 0 \in S
    BY <1>1
  <2>2. ASSUME NEW i \in 0..(n - 1), i \in S PROVE i + 1 \in S
    <3>1. i + 1 \in 1..n /\ (i + 1) - 1 = i /\ (i + 1 = 1 <=> i = 0)
      BY <1>1
    <3>2. flat[i + 1] = IF i + 1 = 1 THEN ss[i + 1] ELSE flat[(i + 1) - 1] \o ss[i + 1]
      <4> HIDE DEF flat
      <4> QED BY <1>6, <3>1
    <3>3. f[i + 1] = IF i + 1 = 1 THEN ss[i + 1] ELSE f[i] \o ss[i + 1]
      <4>1. f[i + 1] = f[i] \o ss[i + 1]
        BY <1>4, <3>1
      <4>2. i = 0 => f[i + 1] = ss[i + 1]
        BY <1>first, <3>1
      <4> QED
        BY <4>1, <4>2, <3>1
    <3> HIDE DEF flat
    <3> QED
      BY <2>2, <3>1, <3>2, <3>3
  <2>3. 0..n \subseteq S
    <3> HIDE DEF S, n
    <3> QED BY <1>1, <2>1, <2>2, IntervalInduction
  <2> QED
    <3>1. \A i \in 1..n : i \in 0..n /\ i > 0
      BY <1>1
    <3> HIDE DEF n, flat
    <3> QED BY <2>3, <3>1
<1>8. FlattenSeq(ss) = f[n]
  <2> HIDE DEF flat
  <2> QED
    BY <1>1, <1>2, <1>3, <1>7
<1> QED
  BY <1>3, <1>4, <1>8

LEMMA FlattenEmpty == FlattenSeq(<<>>) = <<>>
BY DEF FlattenSeq

LEMMA FlattenAppend ==
  ASSUME NEW T, NEW ss \in Seq(Seq(T)), NEW s \in Seq(T)
  PROVE  /\ FlattenSeq(ss) \in Seq(T)
         /\ FlattenSeq(Append(ss, s)) = FlattenSeq(ss) \o s
<1>1. PICK tt : tt = Append(ss, s)
  OBVIOUS
<1>2. /\ tt \in Seq(Seq(T)) /\ Len(tt) = Len(ss) + 1 /\ tt[Len(tt)] = s
      /\ Len(ss) \in Nat /\ Len(tt) \in 1..Len(tt) /\ Len(tt) - 1 = Len(ss)
      /\ \A i \in 1..Len(ss) : i \in 1..Len(tt) /\ tt[i] = ss[i]
  BY <1>1
<1>3. PICK f \in [0..Len(ss) -> Seq(T)] :
           /\ FlattenSeq(ss) = f[Len(ss)] /\ f[0] = <<>>
           /\ \A i \in 1..Len(ss) : f[i] = f[i - 1] \o ss[i]
  BY FlattenUnfolds
<1>4. PICK g \in [0..Len(tt) -> Seq(T)] :
           /\ FlattenSeq(tt) = g[Len(tt)] /\ g[0] = <<>>
           /\ \A i \in 1..Len(tt) : g[i] = g[i - 1] \o tt[i]
  BY <1>2, FlattenUnfolds
<1>5. f[Len(ss)] = g[Len(ss)]
  <2> DEFINE S == {i \in 0..Len(ss) : f[i] = g[i]}
  <2>1. 0 \in S
    BY <1>2, <1>3, <1>4
  <2>2. ASSUME NEW i \in 0..(Len(ss) - 1), i \in S PROVE i + 1 \in S
    <3>1. i + 1 \in 1..Len(ss) /\ i + 1 \in 0..Len(ss) /\ (i + 1) - 1 = i
      BY <1>2
    <3>2. f[i + 1] = f[i] \o ss[i + 1] /\ g[i + 1] = g[i] \o ss[i + 1]
      BY <1>2, <1>3, <1>4, <3>1
    <3> QED
      BY <2>2, <3>1, <3>2
  <2>3. 0..Len(ss) \subseteq S
    <3> HIDE DEF S
    <3> QED BY <1>2, <2>1, <2>2, IntervalInduction
  <2> QED
    BY <1>2, <2>3
<1>6. f[Len(ss)] \in Seq(T)
  <2>1. Len(ss) \in 0..Len(ss)
    BY <1>2
  <2> QED BY <2>1
<1>7. g[Len(tt)] = g[Len(ss)] \o s
  <2>1. g[Len(tt)] = g[Len(tt) - 1] \o tt[Len(tt)]
    BY <1>2, <1>4
  <2> QED BY <1>2, <2>1
<1> QED
  BY <1>1, <1>3, <1>4, <1>5, <1>6, <1>7

LEMMA ConcatPlaces ==
  ASSUME NEW T, NEW a \in Seq(T), NEW b \in Seq(T)
  PROVE  /\ Len(a \o b) = Len(a) + Len(b) /\ Len(a) \in Nat /\ Len(b) \in Nat
         /\ \A p \in 1..Len(a) : (a \o b)[p] = a[p]
         /\ \A j \in 1..Len(b) : (a \o b)[Len(a) + j] = b[j]
OBVIOUS

(* Where each of the concatenated sequences lies in the whole              *)
LEMMA FlattenPlaces ==
  ASSUME NEW T, NEW ss \in Seq(Seq(T))
  PROVE  /\ FlattenSeq(ss) \in Seq(T)
         /\ \E at \in [0..Len(ss) -> Nat] :
              /\ at[0] = 0 /\ at[Len(ss)] = Len(FlattenSeq(ss))
              /\ \A i \in 1..Len(ss) : at[i] = at[i - 1] + Len(ss[i]) /\ at[i] <= at[Len(ss)]
              /\ \A i \in 1..Len(ss) : \A j \in 1..Len(ss[i]) :
                   FlattenSeq(ss)[at[i - 1] + j] = ss[i][j]
<1> DEFINE n == Len(ss)
<1>0. n \in Nat /\ \A i \in 1..n : ss[i] \in Seq(T) /\ i - 1 \in 0..n /\ i \in 0..n
  OBVIOUS
<1>1. PICK f \in [0..n -> Seq(T)] :
           /\ FlattenSeq(ss) = f[n] /\ f[0] = <<>>
           /\ \A i \in 1..n : f[i] = f[i - 1] \o ss[i]
  BY FlattenUnfolds
<1> DEFINE at == [i \in 0..n |-> Len(f[i])]
<1>2. \A i \in 0..n : at[i] = Len(f[i]) /\ f[i] \in Seq(T) /\ at[i] \in Nat
  <2> SUFFICES ASSUME NEW i \in 0..n PROVE at[i] = Len(f[i]) /\ f[i] \in Seq(T) /\ at[i] \in Nat
    OBVIOUS
  <2>1. at[i] = Len(f[i]) /\ f[i] \in Seq(T)
    OBVIOUS
  <2> HIDE DEF at, n
  <2> QED
    BY <2>1, LenProperties
<1>start. at \in [0..n -> Nat] /\ 0 \in 0..n /\ n \in 0..n /\ Len(<<>>) = 0
  BY <1>0, <1>2
<1> HIDE DEF at, n
<1>placed. /\ at \in [0..n -> Nat] /\ at[0] = 0 /\ at[n] = Len(FlattenSeq(ss))
      /\ FlattenSeq(ss) \in Seq(T)
  BY <1>1, <1>2, <1>start
<1>3. ASSUME NEW i \in 1..n
      PROVE  /\ at[i] = at[i - 1] + Len(ss[i]) /\ Len(ss[i]) \in Nat
             /\ at[i - 1] \in Nat /\ at[i] \in Nat
             /\ \A p \in 1..at[i - 1] : f[i][p] = f[i - 1][p]
             /\ \A j \in 1..Len(ss[i]) : f[i][at[i - 1] + j] = ss[i][j]
  <2>1. /\ f[i] = f[i - 1] \o ss[i] /\ f[i - 1] \in Seq(T) /\ ss[i] \in Seq(T)
        /\ at[i] = Len(f[i]) /\ at[i - 1] = Len(f[i - 1])
    BY <1>0, <1>1, <1>2
  <2>2. PICK a \in Seq(T), b \in Seq(T) : a = f[i - 1] /\ b = ss[i]
    BY <2>1
  <2>3. /\ Len(a \o b) = Len(a) + Len(b) /\ Len(a) \in Nat /\ Len(b) \in Nat
        /\ \A p \in 1..Len(a) : (a \o b)[p] = a[p]
        /\ \A j \in 1..Len(b) : (a \o b)[Len(a) + j] = b[j]
    BY ConcatPlaces
  <2>4. f[i] = a \o b /\ at[i - 1] = Len(a) /\ at[i] = Len(a \o b)
    BY <2>1, <2>2
  <2>5. f[i - 1] = a /\ ss[i] = b /\ Len(a \o b) \in Nat
    <3>1. f[i - 1] = a /\ ss[i] = b
      BY <2>2
    <3>2. a \o b \in Seq(T)
      BY ConcatProperties
    <3> QED
      BY <3>1, <3>2, LenProperties
  <2>6. at[i] = at[i - 1] + Len(ss[i]) /\ Len(ss[i]) \in Nat /\ at[i - 1] \in Nat /\ at[i] \in Nat
    BY <2>3, <2>4, <2>5
  <2>7. \A p \in 1..at[i - 1] : f[i][p] = f[i - 1][p]
    BY <2>3, <2>4, <2>5
  <2>8. \A j \in 1..Len(ss[i]) : f[i][at[i - 1] + j] = ss[i][j]
    BY <2>3, <2>4, <2>5
  <2> QED
    BY <2>6, <2>7, <2>8
<1>4. ASSUME NEW i \in 1..n
      PROVE  /\ at[i] <= at[n] /\ \A p \in 1..at[i] : f[n][p] = f[i][p]
  <2> DEFINE S == {k \in 0..n : k >= i => at[i] <= at[k] /\ \A p \in 1..at[i] : f[k][p] = f[i][p]}
  <2>1. 0 \in S
    BY <1>0
  <2>2. ASSUME NEW k \in 0..(n - 1), k \in S PROVE k + 1 \in S
    <3>1. k + 1 \in 1..n /\ k \in 0..n /\ k + 1 \in 0..n /\ (k + 1) - 1 = k
      BY <1>0
    <3>2. /\ at[k] \in Nat /\ at[k + 1] \in Nat /\ at[i] \in Nat /\ at[k] <= at[k + 1]
          /\ \A p \in 1..at[k] : f[k + 1][p] = f[k][p]
      <4>1. /\ at[k + 1] = at[(k + 1) - 1] + Len(ss[k + 1]) /\ Len(ss[k + 1]) \in Nat
            /\ at[(k + 1) - 1] \in Nat /\ at[k + 1] \in Nat
            /\ \A p \in 1..at[(k + 1) - 1] : f[k + 1][p] = f[(k + 1) - 1][p]
        BY <1>3, <3>1
      <4>2. at[i] \in Nat
        BY <1>0, <1>2
      <4>3. at[(k + 1) - 1] = at[k] /\ f[(k + 1) - 1] = f[k]
        BY <3>1
      <4>4. /\ at[k + 1] = at[k] + Len(ss[k + 1]) /\ at[k] \in Nat
            /\ \A p \in 1..at[k] : f[k + 1][p] = f[k][p]
        BY <4>1, <4>3
      <4> QED
        BY <4>1, <4>2, <4>4
    <3>4. CASE k >= i
      <4>1. at[i] <= at[k] /\ \A p \in 1..at[i] : f[k][p] = f[i][p]
        BY <2>2, <3>4
      <4>2. \A p \in 1..at[i] : p \in 1..at[k]
        BY <3>2, <4>1
      <4>3. at[i] <= at[k + 1] /\ \A p \in 1..at[i] : f[k + 1][p] = f[i][p]
        BY <3>2, <4>1, <4>2
      <4> QED
        BY <3>1, <4>3
    <3>5. CASE ~(k >= i)
      <4>1. ~(k + 1 >= i) \/ k + 1 = i
        BY <3>1, <3>5
      <4>2. at[i] <= at[i]
        BY <1>0, <1>2
      <4> QED
        BY <3>1, <4>1, <4>2
    <3> QED
      BY <3>4, <3>5
  <2>3. 0..n \subseteq S
    <3> HIDE DEF S
    <3> QED BY <1>0, <2>1, <2>2, IntervalInduction
  <2>4. n \in S /\ n >= i
    <3> HIDE DEF S
    <3> QED
      BY <1>0, <2>3
  <2> QED
    BY <2>4
<1>5. ASSUME NEW i \in 1..n, NEW j \in 1..Len(ss[i])
      PROVE  FlattenSeq(ss)[at[i - 1] + j] = ss[i][j]
  <2>2. at[i - 1] + j \in 1..at[i]
    BY <1>3
  <2>3. f[n][at[i - 1] + j] = f[i][at[i - 1] + j]
    BY <1>4, <2>2
  <2>4. f[i][at[i - 1] + j] = ss[i][j]
    BY <1>3
  <2> QED
    BY <1>1, <2>3, <2>4
<1> QED
  BY <1>3, <1>4, <1>5, <1>placed DEF n

-----------------------------------------------------------------------------
(* Concatenation *)

(* Concatenation with one element more                                     *)
LEMMA AppendConcat ==
  ASSUME NEW T, NEW a \in Seq(T), NEW b \in Seq(T), NEW c \in Seq(T), NEW x \in T
  PROVE  /\ a \o b \in Seq(T) /\ Append(b, x) \in Seq(T)
         /\ a \o Append(b, x) = Append(a \o b, x)
         /\ (a \o b) \o c = a \o (b \o c)
         /\ a \o <<>> = a /\ <<>> \o a = a
<1>1. a \o b \in Seq(T) /\ Append(b, x) \in Seq(T) /\ a \o <<>> = a /\ <<>> \o a = a
  OBVIOUS
<1>2. a \o Append(b, x) = Append(a \o b, x)
  <2>1. /\ Len(a \o Append(b, x)) = Len(Append(a \o b, x))
        /\ a \o Append(b, x) \in Seq(T) /\ Append(a \o b, x) \in Seq(T)
    OBVIOUS
  <2>2. \A i \in 1..(Len(a) + Len(b) + 1) : (a \o Append(b, x))[i] = Append(a \o b, x)[i]
    OBVIOUS
  <2> QED
    BY <2>1, <2>2
<1>3. (a \o b) \o c = a \o (b \o c)
  OBVIOUS
<1> QED
  BY <1>1, <1>2, <1>3

(* A sequence is its two parts.                                            *)
LEMMA CutInTwo ==
  ASSUME NEW T, NEW s \in Seq(T), NEW n \in 0..Len(s)
  PROVE  /\ SubSeq(s, 1, n) \in Seq(T) /\ Len(SubSeq(s, 1, n)) = n
         /\ SubSeq(s, n + 1, Len(s)) \in Seq(T) /\ Len(SubSeq(s, n + 1, Len(s))) = Len(s) - n
         /\ SubSeq(s, 1, n) \o SubSeq(s, n + 1, Len(s)) = s
<1>1. n \in Int /\ Len(s) \in Nat /\ n <= Len(s) /\ \A i \in 1..Len(s) : s[i] \in T
  OBVIOUS
<1>2. SubSeq(s, 1, n) \in Seq(T) /\ Len(SubSeq(s, 1, n)) = n
  <2>1. 1 \in Int /\ \A i \in 1..n : s[i] \in T
    BY <1>1
  <2> QED
    BY <1>1, <2>1, SubSeqProperties
<1>3. SubSeq(s, n + 1, Len(s)) \in Seq(T) /\ Len(SubSeq(s, n + 1, Len(s))) = Len(s) - n
  <2>1. n + 1 \in Int /\ Len(s) \in Int /\ \A i \in (n + 1)..Len(s) : s[i] \in T
    BY <1>1
  <2> QED
    BY <1>1, <2>1, SubSeqProperties
<1>4. SubSeq(s, 1, n) \o SubSeq(s, n + 1, Len(s)) = s
  <2>1. SubSeq(s, 1, n) \o SubSeq(s, n + 1, Len(s)) = SubSeq(s, 1, Len(s))
    <3>1. 1 \in 1..(Len(s) + 1) /\ n \in (1 - 1)..Len(s) /\ Len(s) \in n..Len(s)
      BY <1>1
    <3> QED
      BY <3>1, ConcatAdjacentSubSeq
  <2> QED
    BY <2>1, SubSeqFull
<1> QED
  BY <1>2, <1>3, <1>4

(* What is concatenated starts with its first part.                        *)
LEMMA PrefixOfConcat ==
  ASSUME NEW T, NEW p \in Seq(T), NEW q \in Seq(T)
  PROVE  /\ Len(p \o q) = Len(p) + Len(q) /\ p \o q \in Seq(T)
         /\ SubSeq(p \o q, 1, Len(p)) = p /\ IsPrefix(p, p \o q)
<1>1. PICK r \in Seq(T) : r = p \o q
  <2>1. p \o q \in Seq(T)
    OBVIOUS
  <2> QED BY <2>1
<1>2. Len(r) = Len(p) + Len(q) /\ \A i \in 1..Len(p) : r[i] = p[i]
  BY <1>1
<1>3. SubSeq(r, 1, Len(p)) = p
  BY <1>2
<1>4. SubSeq(p, 1, Len(p)) = p
  OBVIOUS
<1>5. IsPrefix(p, r)
  BY <1>2, <1>3, <1>4 DEF IsPrefix
<1> QED
  BY <1>1, <1>2, <1>3, <1>5

(* A first part is a prefix of a longer whole.                             *)
LEMMA PartOfWhole ==
  ASSUME NEW T, NEW a \in Seq(T), NEW x \in Seq(T), NEW y \in Seq(T), NEW z \in Seq(T)
  PROVE  \E m \in 0..Len((a \o (x \o y)) \o z) :
           /\ a \o x = SubSeq((a \o (x \o y)) \o z, 1, m)
           /\ IsPrefix(a, a \o x)
<1>0. (a \o (x \o y)) \o z = (a \o x) \o (y \o z)
  OBVIOUS
<1>1. PICK p \in Seq(T) : p = a \o x /\ IsPrefix(a, p)
  BY PrefixOfConcat
<1>2. PICK q \in Seq(T) : q = y \o z
  BY PrefixOfConcat
<1>3. (a \o (x \o y)) \o z = p \o q
  BY <1>0, <1>1, <1>2, Zenon
<1>4. Len(p) \in 0..Len(p \o q) /\ SubSeq(p \o q, 1, Len(p)) = p
  <2>1. /\ Len(p \o q) = Len(p) + Len(q) /\ SubSeq(p \o q, 1, Len(p)) = p
        /\ Len(p) \in Nat /\ Len(q) \in Nat
    BY PrefixOfConcat
  <2> QED
    BY <2>1
<1> QED
  BY <1>1, <1>3, <1>4

(* Concatenation in other groups; as predicates, for the provers           *)
Regroup(a, x, y) == (a \o x) \o y = a \o (x \o y)
Regroup4(a, x, y, z) == a \o ((x \o y) \o z) = (a \o x) \o (y \o z)
AppendLater(a, x, b) == a \o Append(x, b) = Append(a \o x, b)

LEMMA Regroups ==
  ASSUME NEW T, NEW a \in Seq(T), NEW x \in Seq(T), NEW y \in Seq(T)
  PROVE  Regroup(a, x, y) /\ a \o x \in Seq(T)
BY DEF Regroup

LEMMA Regroups4 ==
  ASSUME NEW T, NEW a \in Seq(T), NEW x \in Seq(T), NEW y \in Seq(T), NEW z \in Seq(T)
  PROVE  Regroup4(a, x, y, z)
BY DEF Regroup4

LEMMA AppendsLater ==
  ASSUME NEW T, NEW a \in Seq(T), NEW x \in Seq(T), NEW b \in T
  PROVE  AppendLater(a, x, b)
BY AppendConcat DEF AppendLater
-----------------------------------------------------------------------------
(* Members *)

LEMMA MembersOfAppend ==
  ASSUME NEW T, NEW q \in Seq(T), NEW x \in T
  PROVE  /\ ToSet(Append(q, x)) = ToSet(q) \cup {x}
         /\ IsInjective(q) /\ x \notin ToSet(q) => IsInjective(Append(q, x))
<1>1. PICK n \in Nat : n = Len(q) /\ DOMAIN q = 1..n
  OBVIOUS
<1>2. PICK r \in Seq(T) : r = Append(q, x)
  <2>1. Append(q, x) \in Seq(T)
    OBVIOUS
  <2> QED
    BY <2>1
<1>3. DOMAIN r = 1..(n + 1) /\ r[n + 1] = x /\ \A i \in 1..n : r[i] = q[i]
  BY <1>1, <1>2
<1>4. ToSet(r) = ToSet(q) \cup {x}
  <2>1. ToSet(r) \subseteq ToSet(q) \cup {x}
    <3> SUFFICES ASSUME NEW i \in 1..(n + 1) PROVE r[i] \in ToSet(q) \cup {x}
      BY <1>3 DEF ToSet
    <3>1. i \in 1..n \/ i = n + 1
      OBVIOUS
    <3> QED
      BY <1>1, <1>3, <3>1 DEF ToSet
  <2>2. ToSet(q) \subseteq ToSet(r) /\ x \in ToSet(r)
    <3>1. 1..n \subseteq 1..(n + 1) /\ n + 1 \in 1..(n + 1)
      OBVIOUS
    <3> QED
      BY <1>1, <1>3, <3>1 DEF ToSet
  <2> QED
    BY <2>1, <2>2
<1>5. ASSUME IsInjective(q), x \notin ToSet(q) PROVE IsInjective(r)
  <2> SUFFICES ASSUME NEW i \in 1..(n + 1), NEW j \in 1..(n + 1), r[i] = r[j] PROVE i = j
    BY <1>3 DEF IsInjective
  <2>1. (i \in 1..n \/ i = n + 1) /\ (j \in 1..n \/ j = n + 1)
    OBVIOUS
  <2>2. \A k \in 1..n : q[k] # x
    BY <1>1, <1>5 DEF ToSet
  <2>3. \A k, l \in 1..n : q[k] = q[l] => k = l
    BY <1>1, <1>5 DEF IsInjective
  <2> QED
    BY <1>3, <2>1, <2>2, <2>3
<1> QED
  BY <1>2, <1>4, <1>5

LEMMA MembersOfConcat ==
  ASSUME NEW T, NEW p \in Seq(T), NEW q \in Seq(T)
  PROVE  ToSet(p \o q) = ToSet(p) \cup ToSet(q)
<1>1. PICK m \in Nat, n \in Nat : m = Len(p) /\ DOMAIN p = 1..m /\ n = Len(q) /\ DOMAIN q = 1..n
  OBVIOUS
<1>2. PICK r \in Seq(T) : r = p \o q
  <2>1. p \o q \in Seq(T)
    BY ConcatProperties
  <2> QED
    BY <2>1
<1>3. /\ DOMAIN r = 1..(m + n)
      /\ \A i \in 1..(m + n) : r[i] = IF i <= m THEN p[i] ELSE q[i - m]
  BY <1>1, <1>2, ConcatProperties
<1>4. ASSUME NEW i \in 1..(m + n) PROVE r[i] \in ToSet(p) \cup ToSet(q)
  <2>1. CASE i <= m
    <3>1. i \in 1..m /\ r[i] = p[i]
      BY <1>3, <2>1
    <3> QED
      BY <1>1, <3>1 DEF ToSet
  <2>2. CASE ~(i <= m)
    <3>1. i - m \in 1..n /\ r[i] = q[i - m]
      BY <1>3, <2>2
    <3> QED
      BY <1>1, <3>1 DEF ToSet
  <2> QED
    BY <2>1, <2>2
<1>5. ASSUME NEW i \in 1..m PROVE p[i] \in ToSet(r)
  <2>1. i \in 1..(m + n) /\ r[i] = p[i]
    BY <1>3
  <2> QED
    BY <1>3, <2>1 DEF ToSet
<1>6. ASSUME NEW i \in 1..n PROVE q[i] \in ToSet(r)
  <2>1. m + i \in 1..(m + n) /\ r[m + i] = q[i]
    BY <1>3
  <2> QED
    BY <1>3, <2>1 DEF ToSet
<1>7. ToSet(r) \subseteq ToSet(p) \cup ToSet(q)
  <2>1. ToSet(r) = {r[i] : i \in 1..(m + n)}
    BY <1>3 DEF ToSet
  <2> QED
    BY <1>4, <2>1
<1>8. ToSet(p) \subseteq ToSet(r) /\ ToSet(q) \subseteq ToSet(r)
  <2>1. ToSet(p) = {p[i] : i \in 1..m} /\ ToSet(q) = {q[i] : i \in 1..n}
    BY <1>1 DEF ToSet
  <2> QED
    BY <1>5, <1>6, <2>1
<1> QED
  BY <1>2, <1>7, <1>8

(* Sifting keeps every member that is to be kept, and adds no repetition.  *)
LEMMA SiftedMembers ==
  ASSUME NEW T, NEW s \in Seq(T), NEW keep
  PROVE  /\ ToSet(Sifted(s, keep)) = ToSet(s) \cap keep
         /\ IsInjective(s) => IsInjective(Sifted(s, keep))
<1> DEFINE n == Len(s)
           V == Seq(T \cap keep)
           Done(i) == {s[j] : j \in 1..i}
<1>1. PICK g : /\ Sifted(s, keep) = g[1..n]
               /\ Folding(g, n, V, <<>>, SiftStep(s, keep, V))
  BY SiftedUnfolds
<1>2. n \in Nat /\ DOMAIN s = 1..n /\ \A i \in 1..n : s[i] \in T
  OBVIOUS
<1>3. /\ g[1..0] = <<>>
      /\ \A i \in 0..n : g[1..i] \in V
      /\ \A i \in 1..n : g[1..i] = SiftStep(s, keep, V)[i][g[1..(i - 1)]]
  <2> HIDE DEF V, n
  <2> QED BY <1>1, <1>2, FoldSteps
<1>4. \A i \in 1..n : g[1..i] = IF s[i] \in keep THEN Append(g[1..(i - 1)], s[i]) ELSE g[1..(i - 1)]
  <2> SUFFICES ASSUME NEW i \in 1..n
               PROVE g[1..i] = IF s[i] \in keep THEN Append(g[1..(i - 1)], s[i]) ELSE g[1..(i - 1)]
    OBVIOUS
  <2>1. i - 1 \in 0..n
    BY <1>2
  <2>2. PICK v \in V : v = g[1..(i - 1)]
    BY <1>3, <2>1
  <2>3. SiftStep(s, keep, V)[i][v] = IF s[i] \in keep THEN Append(v, s[i]) ELSE v
    <3> HIDE DEF V
    <3> QED BY DEF SiftStep
  <2> QED
    BY <1>3, <2>2, <2>3
<1> DEFINE S == {i \in Nat : /\ ToSet(g[1..i]) = Done(i) \cap keep
                             /\ IsInjective(s) => IsInjective(g[1..i])}
<1>5. 0 \in S
  <2>1. Done(0) = {} /\ ToSet(<<>>) = {} /\ IsInjective(<<>>)
    BY DEF ToSet, IsInjective
  <2> QED
    BY <1>3, <2>1
<1>6. \A i \in 0..(n - 1) : i \in S => i + 1 \in S
  <2> SUFFICES ASSUME NEW i \in 0..(n - 1), i \in S PROVE i + 1 \in S
    OBVIOUS
  <2>1. i + 1 \in 1..n /\ (i + 1) - 1 = i /\ i \in 0..n /\ i \in Nat
    BY <1>2
  <2>2. Done(i + 1) = Done(i) \cup {s[i + 1]}
    <3>1. 1..(i + 1) = (1..i) \cup {i + 1}
      BY <2>1
    <3> QED
      BY <3>1
  <2>3. g[1..(i + 1)] = IF s[i + 1] \in keep THEN Append(g[1..i], s[i + 1]) ELSE g[1..i]
    BY <1>4, <2>1
  <2>4. IsInjective(s) => s[i + 1] \notin Done(i)
    <3>1. \A j \in 1..i : j \in 1..n /\ j # i + 1
      BY <2>1
    <3> QED
      BY <1>2, <2>1, <3>1 DEF IsInjective
  <2>5. g[1..i] \in V /\ ToSet(g[1..i]) = Done(i) \cap keep /\ (IsInjective(s) => IsInjective(g[1..i]))
    BY <1>3, <2>1
  <2>6. PICK v \in V : v = g[1..i]
    BY <2>5
  <2>7. s[i + 1] \in keep => /\ ToSet(Append(v, s[i + 1])) = ToSet(v) \cup {s[i + 1]}
                             /\ IsInjective(v) /\ s[i + 1] \notin ToSet(v) => IsInjective(Append(v, s[i + 1]))
    BY <1>2, <2>1, MembersOfAppend
  <2> HIDE DEF Done, V, n
  <2> SUFFICES /\ ToSet(g[1..(i + 1)]) = Done(i + 1) \cap keep
               /\ IsInjective(s) => IsInjective(g[1..(i + 1)])
    BY <2>1
  <2>8. CASE s[i + 1] \in keep
    <3>1. g[1..(i + 1)] = Append(v, s[i + 1])
      BY <2>3, <2>6, <2>8
    <3>2. ToSet(v) = Done(i) \cap keep /\ (IsInjective(s) => IsInjective(v))
      BY <2>5, <2>6
    <3> QED
      BY <2>2, <2>4, <2>7, <2>8, <3>1, <3>2
  <2>9. CASE s[i + 1] \notin keep
    BY <2>2, <2>3, <2>5, <2>9
  <2> QED
    BY <2>8, <2>9
<1>7. 0..n \subseteq S
  <2> HIDE DEF S, n
  <2> QED BY <1>2, <1>5, <1>6, IntervalInduction
<1>8. n \in S
  BY <1>2, <1>7
<1>9. ToSet(s) = Done(n)
  BY <1>2 DEF ToSet
<1> QED
  BY <1>1, <1>8, <1>9

(* The members of a finite set in some order, each once                    *)
LEMMA ListOfSet ==
  ASSUME NEW S, IsFiniteSet(S)
  PROVE  SetToSeq(S) \in Seq(S) /\ ToSet(SetToSeq(S)) = S /\ IsInjective(SetToSeq(S))
<1> DEFINE n == Cardinality(S)
<1>1. n \in Nat /\ ExistsBijection(1..n, S)
  BY FS_CardinalityType
<1>2. PICK f \in Bijection(1..n, S) : TRUE
  BY <1>1 DEF ExistsBijection
<1>3. f \in [1..n -> S] /\ IsInjective(f)
  BY <1>2 DEF Bijection, Injection, IsInjective
<1>4. SetToSeq(S) \in [1..n -> S] /\ IsInjective(SetToSeq(S))
  BY <1>3 DEF SetToSeq
<1>5. PICK q \in [1..n -> S] : q = SetToSeq(S) /\ IsInjective(q)
  BY <1>4
<1>6. q \in Seq(S)
  BY <1>1
<1>7. q \in Injection(1..n, S)
  BY <1>5 DEF Injection, IsInjective
<1>8. q \in Surjection(1..n, S)
  <2>1. Cardinality(1..n) = n
    BY <1>1, FS_Interval
  <2> HIDE DEF n
  <2>2. Cardinality(1..n) = Cardinality(S)
    BY <2>1 DEF n
  <2> QED
    BY <1>7, <2>2, FS_Injection
<1>9. ToSet(q) = S
  BY <1>5, <1>8 DEF ToSet, Surjection
<1> QED
  BY <1>5, <1>6, <1>9
==================================================================================

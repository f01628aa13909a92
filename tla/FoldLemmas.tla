---- MODULE FoldLemmas ----
(***************************************************************************)
(* Facts about the folds the models are written with.  The library's       *)
(* theorems about induction take the induction hypothesis as an operator,  *)
(* which these provers do not instantiate; here it is a set, and what a    *)
(* fold does at each element is a function.                                *)
(***************************************************************************)
EXTENDS Lists, FiniteSetTheorems, WellFoundedInduction, TLAPS

\* Induction over the natural numbers, for a set of them.
LEMMA Induction ==
  ASSUME NEW N, 0 \in N, \A n \in Nat : n \in N => n + 1 \in N
  PROVE  Nat \subseteq N
<1> SUFFICES ASSUME Nat \ N # {} PROVE FALSE
  OBVIOUS
<1>1. PICK x \in Nat \ N : \A y \in Nat \ N : <<y, x>> \notin OpToRel(<, Nat)
  BY NatLessThanWellFounded, WFMin
<1>2. \A y \in Nat \ N : ~(y < x)
  BY <1>1 DEF OpToRel
<1>3. QED
  BY <1>2

\* A set of natural numbers has a least element.
LEMMA Least ==
  ASSUME NEW N \in SUBSET Nat, N # {}
  PROVE  \E x \in N : \A y \in N : x <= y
<1>1. PICK x \in N : \A y \in N : <<y, x>> \notin OpToRel(<, Nat)
  BY NatLessThanWellFounded, WFMin
<1>2. \A y \in N : ~(y < x)
  BY <1>1 DEF OpToRel
<1>3. QED
  BY <1>2

\* A bounded one has a greatest.
LEMMA Greatest ==
  ASSUME NEW n \in Nat, NEW N \in SUBSET (1 .. n), N # {}
  PROVE  /\ Max(N) \in N
         /\ \A y \in N : y <= Max(N)
<1> DEFINE M == {n - x : x \in N}
<1>1. PICK d \in M : \A e \in M : d <= e
  <2>1. \A x \in N : n - x \in Nat
    OBVIOUS
  <2>2. M \in SUBSET Nat
    BY <2>1
  <2>3. M # {}
    OBVIOUS
  <2> HIDE DEF M
  <2>4. QED
    BY <2>2, <2>3, Least
<1>2. PICK x \in N : d = n - x
  OBVIOUS
<1>3. \A y \in N : x >= y
  <2> SUFFICES ASSUME NEW y \in N PROVE x >= y
    OBVIOUS
  <2>1. n - y \in M
    OBVIOUS
  <2>2. n - x <= n - y
    BY <1>1, <1>2, <2>1
  <2>3. QED
    BY <2>2
<1>4. QED
  BY <1>3 DEF Max

\* In an interval from 1 that is its end.
LEMMA GreatestUpTo ==
  ASSUME NEW n \in Nat \ {0}
  PROVE  Max(1 .. n) = n /\ (1 .. n) \ {n} = 1 .. n - 1
<1>1. 1 .. n # {} /\ 1 .. n \in SUBSET (1 .. n) /\ n \in 1 .. n
  OBVIOUS
<1>2. Max(1 .. n) \in 1 .. n /\ n <= Max(1 .. n)
  BY <1>1, Greatest
<1>3. QED
  BY <1>2

\* Induction over the subsets of a finite set, for a set of them.
LEMMA SubsetInduction ==
  ASSUME NEW S, IsFiniteSet(S), NEW Q, {} \in Q,
         \A T \in SUBSET S : T # {} /\ (\A x \in T : T \ {x} \in Q) => T \in Q
  PROVE  SUBSET S \subseteq Q
<1> DEFINE N == {n \in Nat : \A T \in SUBSET S : Cardinality(T) <= n => T \in Q}
<1>1. \A T \in SUBSET S : IsFiniteSet(T) /\ Cardinality(T) \in Nat
  BY FS_Subset, FS_CardinalityType
<1>2. 0 \in N
  <2> SUFFICES ASSUME NEW T \in SUBSET S, Cardinality(T) <= 0 PROVE T \in Q
    OBVIOUS
  <2>1. T = {}
    BY <1>1, FS_EmptySet
  <2>2. QED
    BY <2>1
<1>3. ASSUME NEW n \in Nat, n \in N PROVE n + 1 \in N
  <2> SUFFICES ASSUME NEW T \in SUBSET S, Cardinality(T) <= n + 1 PROVE T \in Q
    OBVIOUS
  <2>1. \A x \in T : Cardinality(T \ {x}) <= n
    BY <1>1, FS_RemoveElement
  <2>2. \A x \in T : T \ {x} \in Q
    BY <1>3, <2>1
  <2>3. QED
    BY <2>2
<1>4. Nat \subseteq N
  <2> HIDE DEF N
  <2>1. QED
    BY <1>2, <1>3, Induction
<1>5. QED
  BY <1>1, <1>4
-----------------------------------------------------------------------------
\* f is the fold over the subsets of a set: base for the empty one, else the
\* step of the element picked from the value for the others.
IsFold(f, S, base, pick, step) ==
    f = [T \in SUBSET S |-> IF T = {} THEN base
                            ELSE step[pick[T]][f[T \ {pick[T]}]]]

\* There is such a function, and it is typed as its steps are: by induction
\* over the size of the subsets.
LEMMA FoldExists ==
  ASSUME NEW S, IsFiniteSet(S), NEW V, NEW base \in V, NEW pick, NEW step,
         \A T \in SUBSET S : T # {} => pick[T] \in T,
         \A x \in S, v \in V : step[x][v] \in V
  PROVE  \E f \in [SUBSET S -> V] : IsFold(f, S, base, pick, step)
<1> DEFINE Sub(n) == {T \in SUBSET S : Cardinality(T) <= n}
           Value(f, T) == IF T = {} THEN base ELSE step[pick[T]][f[T \ {pick[T]}]]
           Good(n, f) == f \in [Sub(n) -> V] /\ \A T \in Sub(n) : f[T] = Value(f, T)
           N == {n \in Nat : \E f : Good(n, f)}
<1>1. \A T \in SUBSET S : IsFiniteSet(T) /\ Cardinality(T) \in Nat
  BY FS_Subset, FS_CardinalityType
<1>2. \A T \in SUBSET S : T # {} =>
          /\ pick[T] \in T
          /\ T \ {pick[T]} \in SUBSET S
          /\ Cardinality(T \ {pick[T]}) = Cardinality(T) - 1
  BY <1>1, FS_RemoveElement
<1>3. 0 \in N
  <2>1. \A T \in Sub(0) : T = {}
    <3> SUFFICES ASSUME NEW T \in Sub(0) PROVE T = {}
      OBVIOUS
    <3>1. IsFiniteSet(T) /\ Cardinality(T) = 0
      BY <1>1
    <3>2. QED
      BY <3>1, FS_EmptySet
  <2>2. Good(0, [T \in Sub(0) |-> base])
    BY <2>1
  <2>3. QED
    BY <2>2
<1>4. ASSUME NEW n \in Nat, n \in N PROVE n + 1 \in N
  <2>1. PICK f : Good(n, f)
    BY <1>4
  <2> DEFINE g == [T \in Sub(n + 1) |-> Value(f, T)]
  <2>2. \A T \in Sub(n + 1) : T # {} => T \ {pick[T]} \in Sub(n)
    BY <1>1, <1>2
  <2>3. Sub(n) \subseteq Sub(n + 1)
    BY <1>1
  <2>4. \A T \in Sub(n) : g[T] = f[T]
    BY <2>1, <2>3
  <2>5. g \in [Sub(n + 1) -> V]
    <3> SUFFICES ASSUME NEW T \in Sub(n + 1) PROVE Value(f, T) \in V
      OBVIOUS
    <3>1. CASE T = {}
      BY <3>1
    <3>2. CASE T # {}
      <4>1. f[T \ {pick[T]}] \in V /\ pick[T] \in S
        BY <2>1, <2>2, <3>2
      <4>2. QED
        BY <3>2, <4>1
    <3>3. QED
      BY <3>1, <3>2
  <2>6. \A T \in Sub(n + 1) : g[T] = Value(g, T)
    BY <2>2, <2>4
  <2>7. Good(n + 1, g)
    BY <2>5, <2>6
  <2> HIDE DEF g, Good
  <2>8. QED
    BY <2>7
<1>5. Cardinality(S) \in N
  <2> HIDE DEF N
  <2>1. Nat \subseteq N
    BY <1>3, <1>4, Induction
  <2>2. QED
    BY <2>1, FS_CardinalityType
<1>6. Sub(Cardinality(S)) = SUBSET S
  BY FS_Subset
<1>7. PICK f : Good(Cardinality(S), f)
  BY <1>5
<1>8. f \in [SUBSET S -> V] /\ \A T \in SUBSET S : f[T] = Value(f, T)
  BY <1>6, <1>7
<1>9. IsFold(f, S, base, pick, step)
  BY <1>8 DEF IsFold
<1>10. QED
  BY <1>8, <1>9

\* Two folds of the same steps agree where both are defined.
LEMMA FoldUnique ==
  ASSUME NEW S, IsFiniteSet(S), NEW base, NEW step,
         NEW pick, \A T \in SUBSET S : T # {} => pick[T] \in T,
         NEW R \in SUBSET S, NEW pick2, \A T \in SUBSET R : T # {} => pick2[T] = pick[T],
         NEW f, IsFold(f, S, base, pick, step),
         NEW g, IsFold(g, R, base, pick2, step)
  PROVE  \A T \in SUBSET R : g[T] = f[T]
<1> DEFINE Q == {T \in SUBSET R : g[T] = f[T]}
<1>1. \A T \in SUBSET S : f[T] = IF T = {} THEN base
                                 ELSE step[pick[T]][f[T \ {pick[T]}]]
  BY Zenon DEF IsFold
<1>2. \A T \in SUBSET R : g[T] = IF T = {} THEN base
                                 ELSE step[pick2[T]][g[T \ {pick2[T]}]]
  BY Zenon DEF IsFold
<1>3. {} \in Q
  BY <1>1, <1>2
<1>4. ASSUME NEW T \in SUBSET R, T # {}, \A x \in T : T \ {x} \in Q
      PROVE  T \in Q
  <2>1. pick2[T] = pick[T] /\ T \ {pick[T]} \in Q
    BY <1>4
  <2>2. g[T] = step[pick2[T]][g[T \ {pick2[T]}]]
    BY <1>2, <1>4
  <2>3. f[T] = step[pick[T]][f[T \ {pick[T]}]]
    BY <1>1, <1>4
  <2>4. QED
    BY <2>1, <2>2, <2>3
<1>5. IsFiniteSet(R)
  BY FS_Subset
<1> HIDE DEF Q
<1>6. SUBSET R \subseteq Q
  BY <1>3, <1>4, <1>5, SubsetInduction
<1>7. QED
  BY <1>6 DEF Q
-----------------------------------------------------------------------------
(***************************************************************************)
(* Sums over finite sets.                                                  *)
(***************************************************************************)
Total(f, S) == MapThenSumSet(LAMBDA x : f[x], S)

Plus(f, S) == [x \in S |-> [v \in Nat |-> f[x] + v]]
AnyOf(S) == [T \in SUBSET S |-> CHOOSE x \in T : TRUE]

\* The sum is a fold.
LEMMA TotalIsFold ==
  ASSUME NEW S, IsFiniteSet(S), NEW f, \A x \in S : f[x] \in Nat
  PROVE  \E it \in [SUBSET S -> Nat] :
            /\ IsFold(it, S, 0, AnyOf(S), Plus(f, S))
            /\ Total(f, S) = it[S]
<1> DEFINE Eq(it) == it = [T \in SUBSET S |->
                       IF T = {} THEN 0 ELSE f[CHOOSE x \in T : TRUE] + it[T \ {CHOOSE x \in T : TRUE}]]
<1>1. Total(f, S) = (CHOOSE it : Eq(it))[S]
  BY DEF Total, MapThenSumSet, MapThenFoldSet
<1>2. PICK it \in [SUBSET S -> Nat] : IsFold(it, S, 0, AnyOf(S), Plus(f, S))
  <2>1. \A T \in SUBSET S : T # {} => AnyOf(S)[T] \in T
    BY DEF AnyOf
  <2>2. \A x \in S, v \in Nat : Plus(f, S)[x][v] \in Nat
    BY DEF Plus
  <2>3. QED
    BY <2>1, <2>2, FoldExists
<1>3. Eq(it)
  BY <1>2 DEF IsFold, AnyOf, Plus
<1> DEFINE c == CHOOSE g : Eq(g)
<1>4. Eq(c)
  BY <1>3
<1> DEFINE Q == {T \in SUBSET S : c[T] = it[T]}
<1>5. {} \in Q
  BY <1>3, <1>4
<1>6. ASSUME NEW T \in SUBSET S, T # {}, \A x \in T : T \ {x} \in Q
      PROVE  T \in Q
  <2> DEFINE x == CHOOSE y \in T : TRUE
  <2>1. T \ {x} \in Q
    BY <1>6
  <2>2. c[T] = f[x] + c[T \ {x}]
    BY <1>4, <1>6
  <2>3. it[T] = f[x] + it[T \ {x}]
    BY <1>3, <1>6
  <2>4. QED
    BY <2>1, <2>2, <2>3
<1>7. SUBSET S \subseteq Q
  <2> HIDE DEF Q
  <2>1. QED
    BY <1>5, <1>6, SubsetInduction
<1>8. QED
  BY <1>1, <1>2, <1>7

\* The sum over no element, and over one element more.
LEMMA TotalOfNone ==
  ASSUME NEW f
  PROVE  Total(f, {}) = 0
<1>1. PICK it \in [SUBSET {} -> Nat] :
         IsFold(it, {}, 0, AnyOf({}), Plus(f, {})) /\ Total(f, {}) = it[{}]
  BY TotalIsFold, FS_EmptySet
<1>2. QED
  BY <1>1 DEF IsFold

\* A sum of natural numbers is one.
LEMMA TotalIsNat ==
  ASSUME NEW S, IsFiniteSet(S), NEW f, \A x \in S : f[x] \in Nat
  PROVE  Total(f, S) \in Nat
<1>1. PICK it \in [SUBSET S -> Nat] : Total(f, S) = it[S]
  BY TotalIsFold
<1>2. QED
  BY <1>1

\* Any element may be the last that is added.
LEMMA TotalOfOneMore ==
  ASSUME NEW S, IsFiniteSet(S), NEW f, \A x \in S : f[x] \in Nat,
         NEW x \in S
  PROVE  Total(f, S) = f[x] + Total(f, S \ {x})
<1>1. PICK it \in [SUBSET S -> Nat] :
         IsFold(it, S, 0, AnyOf(S), Plus(f, S)) /\ Total(f, S) = it[S]
  BY TotalIsFold
<1>2. \A T \in SUBSET S : Total(f, T) = it[T]
  <2> SUFFICES ASSUME NEW T \in SUBSET S PROVE Total(f, T) = it[T]
    OBVIOUS
  <2>1. IsFiniteSet(T)
    BY FS_Subset
  <2>2. PICK g \in [SUBSET T -> Nat] :
           IsFold(g, T, 0, AnyOf(T), Plus(f, T)) /\ Total(f, T) = g[T]
    BY <2>1, TotalIsFold
  <2>3. IsFold(g, T, 0, AnyOf(T), Plus(f, S))
    BY <2>2 DEF IsFold, AnyOf, Plus
  <2>4. /\ \A U \in SUBSET S : U # {} => AnyOf(S)[U] \in U
        /\ \A U \in SUBSET T : U # {} => AnyOf(T)[U] = AnyOf(S)[U]
    BY DEF AnyOf
  <2>5. \A U \in SUBSET T : g[U] = it[U]
    BY <1>1, <2>3, <2>4, FoldUnique
  <2>6. QED
    BY <2>2, <2>5
<1> DEFINE Q == {T \in SUBSET S : \A y \in T : it[T] = f[y] + it[T \ {y}]}
<1>3. ASSUME NEW T \in SUBSET S, T # {}, \A y \in T : T \ {y} \in Q
      PROVE  T \in Q
  <2> SUFFICES ASSUME NEW y \in T PROVE it[T] = f[y] + it[T \ {y}]
    OBVIOUS
  <2> DEFINE c == CHOOSE z \in T : TRUE
  <2>1. it[T] = f[c] + it[T \ {c}] /\ c \in T
    BY <1>1, <1>3 DEF IsFold, AnyOf, Plus
  <2>2. CASE c = y
    BY <2>1, <2>2
  <2>3. CASE c # y
    <3>1. it[T \ {c}] = f[y] + it[(T \ {c}) \ {y}]
      BY <1>3, <2>1, <2>3
    <3>2. it[T \ {y}] = f[c] + it[(T \ {y}) \ {c}]
      BY <1>3, <2>1, <2>3
    <3>3. (T \ {c}) \ {y} = (T \ {y}) \ {c}
      OBVIOUS
    <3>4. /\ f[y] \in Nat /\ f[c] \in Nat
          /\ it[(T \ {y}) \ {c}] \in Nat
      BY <2>1
    <3>5. it[T] = f[c] + (f[y] + it[(T \ {y}) \ {c}])
      BY <2>1, <3>1, <3>3
    <3> HIDE DEF c
    <3>6. QED
      BY <3>2, <3>4, <3>5
  <2>4. QED
    BY <2>2, <2>3
<1>4. {} \in Q
  OBVIOUS
<1>5. SUBSET S \subseteq Q
  <2> HIDE DEF Q
  <2>1. QED
    BY <1>3, <1>4, SubsetInduction
<1>6. QED
  BY <1>1, <1>2, <1>5

\* A larger set has a larger sum.
LEMMA TotalGrows ==
  ASSUME NEW S, IsFiniteSet(S), NEW f, \A x \in S : f[x] \in Nat,
         NEW R \in SUBSET S
  PROVE  Total(f, R) <= Total(f, S)
<1> DEFINE Q == {T \in SUBSET (S \ R) : Total(f, R) <= Total(f, R \cup T)}
<1>1. IsFiniteSet(S \ R) /\ IsFiniteSet(R)
  BY FS_Subset
<1>2. {} \in Q
  <2>1. Total(f, R) \in Nat /\ R \cup {} = R
    BY <1>1, TotalIsNat
  <2>2. QED
    BY <2>1
<1>3. ASSUME NEW T \in SUBSET (S \ R), T # {}, \A x \in T : T \ {x} \in Q
      PROVE  T \in Q
  <2>1. PICK x \in T : TRUE
    BY <1>3
  <2>2. /\ IsFiniteSet(R \cup T) /\ x \in R \cup T
        /\ \A y \in R \cup T : f[y] \in Nat
        /\ (R \cup T) \ {x} = R \cup (T \ {x})
    BY FS_Subset
  <2>3. Total(f, R \cup T) = f[x] + Total(f, R \cup (T \ {x}))
    BY <2>2, TotalOfOneMore
  <2>4. Total(f, R) <= Total(f, R \cup (T \ {x}))
    BY <1>3
  <2>5. Total(f, R) \in Nat /\ Total(f, R \cup (T \ {x})) \in Nat /\ f[x] \in Nat
    <3>1. IsFiniteSet(R \cup (T \ {x}))
      BY FS_Subset
    <3>2. QED
      BY <1>1, <3>1, TotalIsNat
  <2>6. QED
    BY <2>3, <2>4, <2>5
<1>4. SUBSET (S \ R) \subseteq Q
  <2> HIDE DEF Q
  <2>1. QED
    BY <1>1, <1>2, <1>3, SubsetInduction
<1>5. R \cup (S \ R) = S
  OBVIOUS
<1>6. QED
  BY <1>4, <1>5
-----------------------------------------------------------------------------
(***************************************************************************)
(* Lists.                                                                  *)
(***************************************************************************)

\* A fold over a list of n elements takes them in their order.
LastOf(n) == [T \in SUBSET (1 .. n) |-> Max(T)]

\* There is such a fold.
LEMMA ListFoldExists ==
  ASSUME NEW n \in Nat, NEW V, NEW base \in V, NEW step,
         \A i \in 1 .. n, v \in V : step[i][v] \in V
  PROVE  \E f \in [SUBSET (1 .. n) -> V] : IsFold(f, 1 .. n, base, LastOf(n), step)
<1>1. IsFiniteSet(1 .. n)
  <2>1. 1 \in Int /\ n \in Int
    OBVIOUS
  <2>2. QED
    BY <2>1, FS_Interval, Zenon
<1>2. \A T \in SUBSET (1 .. n) : T # {} => LastOf(n)[T] \in T
  BY Greatest DEF LastOf
<1>3. QED
  BY <1>1, <1>2, FoldExists

\* Without is what its fold makes of the list, one element after the other.
LEMMA WithoutIsFold ==
  ASSUME NEW X, NEW s \in Seq(X), NEW S
  PROVE  \E w : /\ w[{}] = <<>>
                /\ \A k \in 1 .. Len(s) :
                     w[1 .. k] = IF s[k] \in S THEN w[1 .. k - 1]
                                 ELSE Append(w[1 .. k - 1], s[k])
                /\ Without(s, S) = w[1 .. Len(s)]
<1> DEFINE n == Len(s)
           Eq(w) == w = [T \in SUBSET (1 .. n) |->
                      IF T = {} THEN <<>>
                      ELSE IF s[Max(T)] \in S THEN w[T \ {Max(T)}]
                           ELSE Append(w[T \ {Max(T)}], s[Max(T)])]
           step == [i \in 1 .. n |-> [v \in Seq(X) |->
                      IF s[i] \in S THEN v ELSE Append(v, s[i])]]
<1>1. n \in Nat /\ DOMAIN s = 1 .. n /\ \A i \in 1 .. n : s[i] \in X
  OBVIOUS
<1>2. Without(s, S) = (CHOOSE w : Eq(w))[1 .. n]
  BY <1>1 DEF Without, FoldLeft, MapThenFoldSet
<1>3. PICK f \in [SUBSET (1 .. n) -> Seq(X)] : IsFold(f, 1 .. n, <<>>, LastOf(n), step)
  <2>1. \A i \in 1 .. n, v \in Seq(X) : step[i][v] \in Seq(X)
    BY <1>1
  <2>2. <<>> \in Seq(X)
    OBVIOUS
  <2> HIDE DEF step, n
  <2>3. QED
    BY <1>1, <2>1, <2>2, ListFoldExists
<1>4. Eq(f)
  <2>1. \A T \in SUBSET (1 .. n) : T # {} => /\ Max(T) \in 1 .. n
                                            /\ f[T \ {Max(T)}] \in Seq(X)
    BY <1>1, <1>3, Greatest
  <2>2. f = [T \in SUBSET (1 .. n) |->
               IF T = {} THEN <<>> ELSE step[Max(T)][f[T \ {Max(T)}]]]
    BY <1>3 DEF IsFold, LastOf
  <2>3. QED
    BY <2>1, <2>2
<1> DEFINE c == CHOOSE w : Eq(w)
<1>5. Eq(c)
  BY <1>4
<1>6. c[{}] = <<>>
  BY <1>5
<1>7. ASSUME NEW k \in 1 .. n
      PROVE  c[1 .. k] = IF s[k] \in S THEN c[1 .. k - 1]
                         ELSE Append(c[1 .. k - 1], s[k])
  <2>1. 1 .. k \in SUBSET (1 .. n) /\ 1 .. k # {}
    BY <1>1
  <2>2. Max(1 .. k) = k /\ (1 .. k) \ {k} = 1 .. k - 1
    BY <1>1, GreatestUpTo
  <2>3. QED
    BY <1>5, <2>1, <2>2
<1> HIDE DEF c
<1>8. QED
  BY <1>2, <1>6, <1>7 DEF c

\* Without keeps the elements that are not to go, each as often as before.
LEMMA WithoutKeeps ==
  ASSUME NEW X, NEW s \in Seq(X), NEW S
  PROVE  /\ Without(s, S) \in Seq(X)
         /\ ToSet(Without(s, S)) = ToSet(s) \ S
         /\ IsInjective(s) => IsInjective(Without(s, S))
<1> DEFINE n == Len(s)
<1>1. n \in Nat /\ DOMAIN s = 1 .. n /\ \A i \in 1 .. n : s[i] \in X
  OBVIOUS
<1>2. PICK w : /\ w[{}] = <<>>
               /\ \A k \in 1 .. n :
                    w[1 .. k] = IF s[k] \in S THEN w[1 .. k - 1]
                                ELSE Append(w[1 .. k - 1], s[k])
               /\ Without(s, S) = w[1 .. n]
  BY WithoutIsFold
<1> DEFINE Good(k) == /\ w[1 .. k] \in Seq(X)
                      /\ ToSet(w[1 .. k]) = {s[i] : i \in 1 .. k} \ S
                      /\ IsInjective(s) => IsInjective(w[1 .. k])
           N == {k \in Nat : k <= n => Good(k)}
<1>3. 0 \in N
  <2>1. w[1 .. 0] = <<>>
    BY <1>2
  <2>2. <<>> \in Seq(X) /\ ToSet(<<>>) = {} /\ IsInjective(<<>>)
    BY DEF ToSet, IsInjective
  <2>3. {s[i] : i \in 1 .. 0} = {}
    OBVIOUS
  <2>4. QED
    BY <2>1, <2>2, <2>3
<1>4. ASSUME NEW k \in Nat, k \in N PROVE k + 1 \in N
  <2> SUFFICES ASSUME k + 1 <= n PROVE Good(k + 1)
    OBVIOUS
  <2>1. Good(k)
    BY <1>1, <1>4
  <2>2. k + 1 \in 1 .. n /\ (k + 1) - 1 = k
    BY <1>1
  <2>3. w[1 .. k + 1] = IF s[k + 1] \in S THEN w[1 .. k]
                        ELSE Append(w[1 .. k], s[k + 1])
    BY <1>2, <2>2
  <2>4. 1 .. k + 1 = (1 .. k) \cup {k + 1}
    OBVIOUS
  <2>5. CASE s[k + 1] \in S
    BY <2>1, <2>3, <2>4, <2>5
  <2>6. CASE s[k + 1] \notin S
    <3> DEFINE v == w[1 .. k]
               m == Len(v)
    <3>1. v \in Seq(X) /\ s[k + 1] \in X /\ m \in Nat
      BY <1>1, <2>1, <2>2
    <3>2. w[1 .. k + 1] = Append(v, s[k + 1])
      BY <2>3, <2>6
    <3>3. /\ DOMAIN v = 1 .. m
          /\ DOMAIN Append(v, s[k + 1]) = (1 .. m) \cup {m + 1}
          /\ \A i \in 1 .. m : Append(v, s[k + 1])[i] = v[i]
          /\ Append(v, s[k + 1])[m + 1] = s[k + 1]
      BY <3>1
    <3>4. ToSet(w[1 .. k + 1]) = ToSet(v) \cup {s[k + 1]}
      BY <3>2, <3>3 DEF ToSet
    <3>5. ToSet(w[1 .. k + 1]) = {s[i] : i \in 1 .. k + 1} \ S
      BY <2>1, <2>4, <2>6, <3>4
    <3>6. ASSUME IsInjective(s) PROVE IsInjective(w[1 .. k + 1])
      <4>1. \A i \in 1 .. k : s[i] # s[k + 1]
        BY <1>1, <2>2, <3>6 DEF IsInjective
      <4>2. s[k + 1] \notin ToSet(v)
        BY <2>1, <4>1
      <4>3. \A i \in 1 .. m : v[i] # s[k + 1]
        BY <3>3, <4>2 DEF ToSet
      <4>4. IsInjective(v)
        BY <2>1, <3>6
      <4>5. QED
        BY <3>2, <3>3, <4>3, <4>4 DEF IsInjective
    <3>7. QED
      BY <3>1, <3>2, <3>5, <3>6
  <2>7. QED
    BY <2>5, <2>6
<1>5. Nat \subseteq N
  <2> HIDE DEF N
  <2>1. QED
    BY <1>3, <1>4, Induction
<1>6. n \in N
  BY <1>1, <1>5
<1>7. Good(n)
  <2> HIDE DEF Good
  <2>1. QED
    BY <1>1, <1>6
<1>8. QED
  BY <1>1, <1>2, <1>7 DEF ToSet

\* A list that became longer by one.
LEMMA AppendKeeps ==
  ASSUME NEW X, NEW s \in Seq(X), NEW x \in X
  PROVE  /\ Append(s, x) \in Seq(X)
         /\ ToSet(Append(s, x)) = ToSet(s) \cup {x}
         /\ IsInjective(s) /\ x \notin ToSet(s) => IsInjective(Append(s, x))
<1>1. /\ Len(s) \in Nat /\ DOMAIN s = 1 .. Len(s)
      /\ DOMAIN Append(s, x) = (1 .. Len(s)) \cup {Len(s) + 1}
      /\ \A i \in 1 .. Len(s) : Append(s, x)[i] = s[i]
      /\ Append(s, x)[Len(s) + 1] = x
  OBVIOUS
<1>2. QED
  BY <1>1 DEF ToSet, IsInjective

\* Once is what its fold makes of the list, one element after the other.
LEMMA OnceIsFold ==
  ASSUME NEW X, NEW s \in Seq(X)
  PROVE  \E w : /\ w[{}] = <<>>
                /\ \A k \in 1 .. Len(s) :
                     w[1 .. k] = IF Contains(w[1 .. k - 1], s[k]) THEN w[1 .. k - 1]
                                 ELSE Append(w[1 .. k - 1], s[k])
                /\ Once(s) = w[1 .. Len(s)]
<1> DEFINE n == Len(s)
           Eq(w) == w = [T \in SUBSET (1 .. n) |->
                      IF T = {} THEN <<>>
                      ELSE IF Contains(w[T \ {Max(T)}], s[Max(T)]) THEN w[T \ {Max(T)}]
                           ELSE Append(w[T \ {Max(T)}], s[Max(T)])]
           step == [i \in 1 .. n |-> [v \in Seq(X) |->
                      IF Contains(v, s[i]) THEN v ELSE Append(v, s[i])]]
<1>1. n \in Nat /\ DOMAIN s = 1 .. n /\ \A i \in 1 .. n : s[i] \in X
  OBVIOUS
<1>2. Once(s) = (CHOOSE w : Eq(w))[1 .. n]
  BY <1>1 DEF Once, FoldLeft, MapThenFoldSet
<1>3. PICK f \in [SUBSET (1 .. n) -> Seq(X)] : IsFold(f, 1 .. n, <<>>, LastOf(n), step)
  <2>1. \A i \in 1 .. n, v \in Seq(X) : step[i][v] \in Seq(X)
    BY <1>1
  <2>2. <<>> \in Seq(X)
    OBVIOUS
  <2> HIDE DEF step, n
  <2>3. QED
    BY <1>1, <2>1, <2>2, ListFoldExists
<1>4. Eq(f)
  <2>1. \A T \in SUBSET (1 .. n) : T # {} => /\ Max(T) \in 1 .. n
                                            /\ f[T \ {Max(T)}] \in Seq(X)
    BY <1>1, <1>3, Greatest
  <2>2. f = [T \in SUBSET (1 .. n) |->
               IF T = {} THEN <<>> ELSE step[Max(T)][f[T \ {Max(T)}]]]
    BY <1>3 DEF IsFold, LastOf
  <2>3. QED
    BY <2>1, <2>2
<1> DEFINE c == CHOOSE w : Eq(w)
<1>5. Eq(c)
  BY <1>4
<1>6. c[{}] = <<>>
  BY <1>5
<1>7. ASSUME NEW k \in 1 .. n
      PROVE  c[1 .. k] = IF Contains(c[1 .. k - 1], s[k]) THEN c[1 .. k - 1]
                         ELSE Append(c[1 .. k - 1], s[k])
  <2>1. 1 .. k \in SUBSET (1 .. n) /\ 1 .. k # {}
    BY <1>1
  <2>2. Max(1 .. k) = k /\ (1 .. k) \ {k} = 1 .. k - 1
    BY <1>1, GreatestUpTo
  <2>3. QED
    BY <1>5, <2>1, <2>2
<1> HIDE DEF c
<1>8. QED
  BY <1>2, <1>6, <1>7 DEF c

\* Once keeps every element, and none of them twice.
LEMMA OnceKeeps ==
  ASSUME NEW X, NEW s \in Seq(X)
  PROVE  /\ Once(s) \in Seq(X)
         /\ ToSet(Once(s)) = ToSet(s)
         /\ IsInjective(Once(s))
<1> DEFINE n == Len(s)
<1>1. n \in Nat /\ DOMAIN s = 1 .. n /\ \A i \in 1 .. n : s[i] \in X
  OBVIOUS
<1>2. PICK w : /\ w[{}] = <<>>
               /\ \A k \in 1 .. n :
                    w[1 .. k] = IF Contains(w[1 .. k - 1], s[k]) THEN w[1 .. k - 1]
                                ELSE Append(w[1 .. k - 1], s[k])
               /\ Once(s) = w[1 .. n]
  BY OnceIsFold
<1> DEFINE Good(k) == /\ w[1 .. k] \in Seq(X)
                      /\ ToSet(w[1 .. k]) = {s[i] : i \in 1 .. k}
                      /\ IsInjective(w[1 .. k])
           N == {k \in Nat : k <= n => Good(k)}
<1>3. 0 \in N
  <2>1. w[1 .. 0] = <<>>
    BY <1>2
  <2>2. <<>> \in Seq(X) /\ ToSet(<<>>) = {} /\ IsInjective(<<>>)
    BY DEF ToSet, IsInjective
  <2>3. {s[i] : i \in 1 .. 0} = {}
    OBVIOUS
  <2>4. QED
    BY <2>1, <2>2, <2>3
<1>4. ASSUME NEW k \in Nat, k \in N PROVE k + 1 \in N
  <2> SUFFICES ASSUME k + 1 <= n PROVE Good(k + 1)
    OBVIOUS
  <2> DEFINE v == w[1 .. k]
  <2>1. v \in Seq(X) /\ ToSet(v) = {s[i] : i \in 1 .. k} /\ IsInjective(v)
    BY <1>1, <1>4
  <2>2. k + 1 \in 1 .. n /\ (k + 1) - 1 = k /\ s[k + 1] \in X
    BY <1>1
  <2>3. w[1 .. k + 1] = IF Contains(v, s[k + 1]) THEN v ELSE Append(v, s[k + 1])
    BY <1>2, <2>2
  <2>4. {s[i] : i \in 1 .. k + 1} = {s[i] : i \in 1 .. k} \cup {s[k + 1]}
    OBVIOUS
  <2>5. Contains(v, s[k + 1]) <=> s[k + 1] \in ToSet(v)
    BY <2>1 DEF Contains, ToSet
  <2> HIDE DEF v
  <2>6. CASE s[k + 1] \in ToSet(v)
    BY <2>1, <2>3, <2>4, <2>5, <2>6
  <2>7. CASE s[k + 1] \notin ToSet(v)
    BY <2>1, <2>2, <2>3, <2>4, <2>5, <2>7, AppendKeeps
  <2>8. QED
    BY <2>6, <2>7
<1>5. Nat \subseteq N
  <2> HIDE DEF N
  <2>1. QED
    BY <1>3, <1>4, Induction
<1>6. n \in N
  BY <1>1, <1>5
<1>7. Good(n)
  <2> HIDE DEF Good
  <2>1. QED
    BY <1>1, <1>6
<1>8. QED
  BY <1>1, <1>2, <1>7 DEF ToSet

\* A list that lost its head.
LEMMA TailKeeps ==
  ASSUME NEW X, NEW s \in Seq(X), s # <<>>
  PROVE  /\ Tail(s) \in Seq(X)
         /\ ToSet(s) = {Head(s)} \cup ToSet(Tail(s))
         /\ IsInjective(s) => IsInjective(Tail(s)) /\ Head(s) \notin ToSet(Tail(s))
<1> DEFINE n == Len(s)
           t == Tail(s)
<1>1. /\ n \in Nat /\ n > 0 /\ DOMAIN s = 1 .. n /\ Head(s) = s[1]
      /\ t \in Seq(X) /\ DOMAIN t = 1 .. n - 1
      /\ \A i \in 1 .. n - 1 : t[i] = s[i + 1]
  OBVIOUS
<1>2. IsInjective(s) => \A i, j \in 1 .. n : s[i] = s[j] => i = j
  BY <1>1 DEF IsInjective
<1> HIDE DEF n, t
<1>3. ASSUME IsInjective(s) PROVE IsInjective(t)
  <2> SUFFICES ASSUME NEW i \in 1 .. n - 1, NEW j \in 1 .. n - 1, t[i] = t[j]
               PROVE  i = j
    BY <1>1 DEF IsInjective
  <2>1. i + 1 \in 1 .. n /\ j + 1 \in 1 .. n /\ s[i + 1] = s[j + 1]
    BY <1>1
  <2>2. i + 1 = j + 1
    BY <1>2, <1>3, <2>1
  <2>3. QED
    BY <2>2
<1>4. ToSet(s) = {s[1]} \cup ToSet(t)
  <2>1. \A i \in 1 .. n : i # 1 => i - 1 \in 1 .. n - 1 /\ t[i - 1] = s[i]
    BY <1>1
  <2>2. \A i \in 1 .. n - 1 : i + 1 \in 1 .. n /\ t[i] = s[i + 1]
    BY <1>1
  <2>3. 1 \in 1 .. n
    BY <1>1
  <2>4. ToSet(s) = {s[i] : i \in 1 .. n} /\ ToSet(t) = {t[i] : i \in 1 .. n - 1}
    BY <1>1 DEF ToSet
  <2>5. QED
    BY <2>1, <2>2, <2>3, <2>4
<1>5. ASSUME IsInjective(s) PROVE s[1] \notin ToSet(t)
  <2> SUFFICES ASSUME NEW i \in 1 .. n - 1, s[1] = t[i] PROVE FALSE
    BY <1>1 DEF ToSet
  <2>1. i + 1 \in 1 .. n /\ 1 \in 1 .. n /\ s[i + 1] = s[1]
    BY <1>1
  <2>2. i + 1 = 1
    BY <1>2, <1>5, <2>1
  <2>3. QED
    BY <2>2
<1>6. QED
  BY <1>1, <1>3, <1>4, <1>5 DEF t

\* A list without elements is empty.
LEMMA EmptyList ==
  ASSUME NEW X, NEW s \in Seq(X), ToSet(s) = {}
  PROVE  Len(s) = 0
<1> SUFFICES ASSUME Len(s) # 0 PROVE FALSE
  OBVIOUS
<1>1. 1 \in DOMAIN s
  OBVIOUS
<1>2. QED
  BY <1>1 DEF ToSet

\* A list has finitely many elements.
LEMMA ToSetIsFinite ==
  ASSUME NEW X, NEW s \in Seq(X)
  PROVE  IsFiniteSet(ToSet(s)) /\ ToSet(s) \subseteq X
<1>1. s \in Surjection(1 .. Len(s), ToSet(s))
  BY DEF ToSet, Surjection
<1>2. IsFiniteSet(1 .. Len(s))
  <2>1. 1 \in Int /\ Len(s) \in Int
    OBVIOUS
  <2>2. QED
    BY <2>1, FS_Interval, Zenon
<1>3. IsFiniteSet(ToSet(s))
  BY <1>1, <1>2, FS_Surjection
<1>4. QED
  BY <1>3 DEF ToSet
====

---- MODULE ModelAwareGate_proofs ----
(***************************************************************************)
(* The model-aware gate keeps its promises for every set of tickets and    *)
(* models and every budget: proofs of what ModelAwareGate.cfg checks on    *)
(* three tickets and four models, but for its liveness.                    *)
(***************************************************************************)
EXTENDS ModelAwareGate, FoldLemmas

Gates == [want     : [Tickets -> [model : Models, prio : Priorities]],
          waiters  : Seq(Tickets),
          admitted : SUBSET Tickets,
          resident : Seq(Models),
          young    : SUBSET Big]

\* What the scheduler relies on and preserves: lists without repetition, time
\* stamps of residents only, tickets that wait or are admitted, not both.
Sound(g) == /\ g \in Gates
            /\ IsInjective(g.waiters) /\ IsInjective(g.resident)
            /\ g.young \subseteq Held(g)
            /\ ToSet(g.waiters) \cap g.admitted = {}

Fits(g) == GB(Held(g)) <= Budget \/ Len(g.resident) = 1

-----------------------------------------------------------------------------
(***************************************************************************)
(* The footprint of a set of models.                                       *)
(***************************************************************************)
\* GB is a sum as FoldLemmas has them.
LEMMA FootprintIsTotal ==
  ASSUME NEW S
  PROVE  GB(S) = Total(Size, S)
  BY DEF GB, Total

\* The footprint with one more model.
LEMMA FootprintOfOneMore ==
  ASSUME NEW S \in SUBSET Models, IsFiniteSet(S), NEW m \in Models, m \notin S
  PROVE  /\ GB(S) \in Nat
         /\ GB(S \cup {m}) = Size[m] + GB(S)
<1>1. \A x \in Models : Size[x] \in Nat
  BY ModelAwareGateAssumption
<1>2. IsFiniteSet(S \cup {m}) /\ (S \cup {m}) \ {m} = S
  BY FS_AddElement
<1>3. Total(Size, S) \in Nat
  BY <1>1, TotalIsNat
<1>4. Total(Size, S \cup {m}) = Size[m] + Total(Size, S)
  <2>1. \A x \in S \cup {m} : Size[x] \in Nat
    BY <1>1
  <2>2. QED
    BY <1>2, <2>1, TotalOfOneMore
<1>5. QED
  BY <1>3, <1>4, FootprintIsTotal

\* The models of the ledger, of which a footprint can be taken.
LEMMA HeldIsFinite ==
  ASSUME NEW g, Sound(g)
  PROVE  IsFiniteSet(Held(g)) /\ Held(g) \in SUBSET Models
  BY ToSetIsFinite DEF Sound, Gates, Held
-----------------------------------------------------------------------------
(***************************************************************************)
(* _pick and what is evicted for its choice.                               *)
(***************************************************************************)

\* The ticket that goes first among some that wait is one of them.
LEMMA FirstIsOne ==
  ASSUME NEW g, Sound(g), NEW S \in SUBSET ToSet(g.waiters), S # {}
  PROVE  First(g, S) \in S
<1> DEFINE place(t) == CHOOSE i \in DOMAIN g.waiters : g.waiters[i] = t
           prio(t) == g.want[t].prio
           goesFirst(w) == \A v \in S \ {w} :
                             \/ prio(w) < prio(v)
                             \/ prio(w) = prio(v) /\ place(w) < place(v)
<1>1. \A t \in S : /\ t \in Tickets /\ prio(t) \in Nat
                   /\ place(t) \in Nat /\ g.waiters[place(t)] = t
  <2> SUFFICES ASSUME NEW t \in S
               PROVE  /\ t \in Tickets /\ prio(t) \in Nat
                      /\ place(t) \in Nat /\ g.waiters[place(t)] = t
    OBVIOUS
  <2>1. g.waiters \in Seq(Tickets) /\ g.want \in [Tickets -> [model : Models, prio : Priorities]]
    BY DEF Sound, Gates
  <2>2. \E i \in DOMAIN g.waiters : g.waiters[i] = t
    BY DEF ToSet
  <2>3. place(t) \in DOMAIN g.waiters /\ g.waiters[place(t)] = t
    BY <2>2
  <2>4. t \in Tickets
    BY <2>1, <2>2
  <2>5. prio(t) \in {0, 1}
    BY <2>1, <2>4 DEF Priorities
  <2>6. place(t) \in Nat
    BY <2>1, <2>3
  <2> HIDE DEF place, prio
  <2>7. QED
    BY <2>3, <2>4, <2>5, <2>6
<1> HIDE DEF place, prio
<1> DEFINE P == {prio(t) : t \in S}
<1>2. PICK p \in P : \A q \in P : p <= q
  <2>1. P \in SUBSET Nat
    BY <1>1
  <2>2. P # {}
    OBVIOUS
  <2> HIDE DEF P
  <2>3. QED
    BY <2>1, <2>2, Least
<1> DEFINE K == {place(t) : t \in {u \in S : prio(u) = p}}
<1>3. PICK k \in K : \A l \in K : k <= l
  <2>1. K \in SUBSET Nat
    BY <1>1
  <2>2. K # {}
    BY <1>2
  <2> HIDE DEF K
  <2>3. QED
    BY <2>1, <2>2, Least
<1>4. PICK w \in S : prio(w) = p /\ place(w) = k
  BY <1>3
<1>5. goesFirst(w)
  <2> SUFFICES ASSUME NEW v \in S \ {w}
               PROVE  \/ prio(w) < prio(v)
                      \/ prio(w) = prio(v) /\ place(w) < place(v)
    OBVIOUS
  <2>1. prio(w) <= prio(v)
    BY <1>2, <1>4
  <2>2. CASE prio(v) = prio(w)
    <3>1. place(v) \in K
      BY <1>4, <2>2
    <3>2. place(w) <= place(v) /\ place(w) # place(v)
      BY <1>1, <1>3, <1>4, <3>1
    <3>3. place(v) \in Nat /\ place(w) \in Nat
      BY <1>1
    <3>4. QED
      BY <2>2, <3>2, <3>3
  <2>3. prio(v) \in Nat /\ prio(w) \in Nat
    BY <1>1
  <2>4. QED
    BY <2>1, <2>2, <2>3
<1>6. First(g, S) = CHOOSE x \in S : goesFirst(x)
  BY DEF First, place, prio
<1> HIDE DEF goesFirst
<1>7. QED
  BY <1>5, <1>6

\* The ticket _pick returns waits; it needs no swap, or the machine is idle
\* and the hysteresis lets it.
LEMMA PickAllows ==
  ASSUME NEW g, Sound(g), NEW active, NEW w \in Pick(g, active)
  PROVE  /\ w \in ToSet(g.waiters)
         /\ NoSwapNeeded(g, w) \/ (active = {} /\ ~HysteresisBlocks(g, w))
<1> DEFINE pending == ToSet(g.waiters)
           noswap == {v \in pending : NoSwapNeeded(g, v)}
<1>1. CASE noswap # {}
  <2>1. First(g, noswap) \in noswap
    BY <1>1, FirstIsOne
  <2>2. w = First(g, noswap)
    BY <1>1 DEF Pick
  <2>3. QED
    BY <2>1, <2>2
<1>2. CASE noswap = {} /\ pending # {}
  <2>1. First(g, pending) \in pending
    BY <1>2, FirstIsOne
  <2>2. w = First(g, pending) /\ active = {} /\ ~HysteresisBlocks(g, w)
    BY <1>2 DEF Pick
  <2>3. QED
    BY <2>1, <2>2
<1>3. CASE pending = {}
  BY <1>3 DEF Pick
<1>4. QED
  BY <1>1, <1>2, <1>3

\* What is evicted is held, and what stays fits beside the model of w, if
\* anything stays.
LEMMA EvictionSuffices ==
  ASSUME NEW g, Sound(g), NEW w \in ToSet(g.waiters)
  PROVE  LET m    == ModelOf(g, w)
             kept == (Held(g) \ EvictFor(g, w)) \ {m}
         IN  kept = {} \/ GB(kept) + Size[m] <= Budget
<1> DEFINE m == ModelOf(g, w)
           others == Without(g.resident, {m})
           kept == (Held(g) \ EvictFor(g, w)) \ {m}
           n == Len(others)
           rest(k) == {others[i] : i \in k+1 .. n}
           fits(k) == k = n \/ GB(rest(k)) + Size[m] <= Budget
           N == {k \in 0 .. n : fits(k)}
           isLeast(k) == fits(k) /\ \A j \in 0 .. k-1 : ~fits(j)
           least == CHOOSE k \in 0 .. n : isLeast(k)
<1>1. /\ others \in Seq(Models)
      /\ ToSet(others) = Held(g) \ {m}
      /\ IsInjective(others)
  BY WithoutKeeps DEF Sound, Gates, Held
<1>2. n \in Nat /\ DOMAIN others = 1 .. n
  BY <1>1
<1>3. \E k \in 0 .. n : isLeast(k)
  <2>1. N \in SUBSET Nat /\ N # {}
    <3>1. n \in N
      BY <1>2
    <3>2. QED
      BY <1>2, <3>1
  <2>2. PICK k \in N : \A j \in N : k <= j
    <3> HIDE DEF N
    <3>1. QED
      BY <2>1, Least
  <2> HIDE DEF fits
  <2>3. k \in 0 .. n /\ fits(k)
    OBVIOUS
  <2>4. \A j \in 0 .. k-1 : j \in 0 .. n /\ ~(k <= j)
    BY <1>2, <2>3
  <2>5. \A j \in 0 .. k-1 : ~fits(j)
    BY <2>2, <2>4
  <2>6. QED
    BY <2>3, <2>5
<1>4. least \in 0 .. n /\ fits(least)
  <2> HIDE DEF fits
  <2>1. QED
    BY <1>3
<1>5. CASE m \in Exclusive
  BY <1>5 DEF EvictFor
<1>6. CASE m \notin Exclusive
  <2>1. EvictFor(g, w) = {others[i] : i \in 1 .. least}
    BY <1>6 DEF EvictFor
  <2> HIDE DEF least
  <2>2. kept = rest(least)
    <3>1. kept = ToSet(others) \ {others[i] : i \in 1 .. least}
      BY <1>1, <2>1
    <3>2. ToSet(others) = {others[i] : i \in 1 .. n}
      BY <1>2 DEF ToSet
    <3>3. \A i, j \in 1 .. n : others[i] = others[j] => i = j
      BY <1>1, <1>2 DEF IsInjective
    <3> HIDE DEF others, n, kept
    <3>4. QED
      BY <1>2, <1>4, <3>1, <3>2, <3>3
  <2>3. CASE least = n
    <3>1. rest(least) = {}
      BY <1>2, <2>3
    <3>2. QED
      BY <2>2, <3>1
  <2>4. CASE least # n
    BY <1>4, <2>2, <2>4
  <2>5. QED
    BY <2>3, <2>4
<1>7. QED
  BY <1>5, <1>6

\* The ledger after a model is admitted: a list of what stays, then it.
LEMMA Marked ==
  ASSUME NEW g, Sound(g), NEW m \in Models, NEW S
  PROVE  LET h    == Mark(Drop(g, S), m)
             kept == (Held(g) \ S) \ {m}
         IN  /\ Sound(h)
             /\ h.want = g.want /\ h.waiters = g.waiters /\ h.admitted = g.admitted
             /\ Held(h) = kept \cup {m}
             /\ kept = {} => Len(h.resident) = 1
             /\ g.young \ S \subseteq h.young
<1> DEFINE r == Without(g.resident, S)
           q == Without(r, {m})
           h == Mark(Drop(g, S), m)
           kept == (Held(g) \ S) \ {m}
<1>1. g \in Gates /\ g.resident \in Seq(Models) /\ IsInjective(g.resident)
  BY DEF Sound, Gates
<1>2. r \in Seq(Models) /\ ToSet(r) = Held(g) \ S /\ IsInjective(r)
  BY <1>1, WithoutKeeps DEF Held
<1>3. q \in Seq(Models) /\ ToSet(q) = kept /\ IsInjective(q)
  BY <1>2, WithoutKeeps
<1> HIDE DEF q
<1>4. /\ Append(q, m) \in Seq(Models)
      /\ ToSet(Append(q, m)) = kept \cup {m}
      /\ IsInjective(Append(q, m))
  <2>1. m \notin ToSet(q)
    BY <1>3
  <2>2. QED
    BY <1>3, <2>1, AppendKeeps
<1> DEFINE y == IF m \in Big THEN (g.young \ S) \cup {m} ELSE (g.young \ S) \ {m}
<1>5. h = [g EXCEPT !.resident = Append(q, m), !.young = y]
  BY <1>1 DEF Mark, Drop, Gates, q
<1>6. /\ y \in SUBSET Big /\ g.young \ S \subseteq y
      /\ y \subseteq kept \cup {m}
  BY <1>1 DEF Sound, Gates, Big
<1>7. kept = {} => Len(Append(q, m)) = 1
  <2> SUFFICES ASSUME kept = {} PROVE Len(Append(q, m)) = 1
    OBVIOUS
  <2>1. Len(q) = 0
    BY <1>3, EmptyList
  <2>2. QED
    BY <1>3, <2>1
<1> HIDE DEF r, y, kept
<1>8. /\ h \in Gates /\ h.resident = Append(q, m) /\ h.young = y
      /\ h.want = g.want /\ h.waiters = g.waiters /\ h.admitted = g.admitted
  BY <1>1, <1>4, <1>5, <1>6 DEF Gates
<1>9. Held(h) = kept \cup {m}
  BY <1>4, <1>8 DEF Held
<1>10. Sound(h)
  BY <1>4, <1>6, <1>8, <1>9 DEF Sound
<1> HIDE DEF h
<1>11. QED
  BY <1>6, <1>7, <1>8, <1>9, <1>10 DEF h, kept

\* What admitting the picked ticket w preserves: it is taken off the waiters
\* and nobody else is, the ledger still fits, nothing is swapped out while
\* something generates, and a young model only for an interactive ticket and
\* when no ticket wants it.
LEMMA AdmitKeeps ==
  ASSUME NEW g, Sound(g), NEW active, NEW w \in Pick(g, active)
  PROVE  LET h == Admit(g, w)
         IN  /\ Sound(h)
             /\ Fits(g) => Fits(h)
             /\ w \in ToSet(g.waiters)
             /\ h.want = g.want
             /\ ToSet(h.waiters) = ToSet(g.waiters) \ {w}
             /\ h.admitted = g.admitted \cup {w}
             /\ active # {} => Held(g) \subseteq Held(h)
             /\ \A m \in g.young :
                  \/ m \in h.young
                  \/ /\ g.want[w].prio = Interactive
                     /\ \A t \in ToSet(g.waiters) : ModelOf(g, t) # m
<1> DEFINE m == ModelOf(g, w)
           evict == IF NoSwapNeeded(g, w) THEN {} ELSE EvictFor(g, w)
           kept == (Held(g) \ evict) \ {m}
           marked == Mark(Drop(g, evict), m)
           rest == Without(g.waiters, {w})
           h == Admit(g, w)
<1>1. /\ w \in ToSet(g.waiters)
      /\ NoSwapNeeded(g, w) \/ (active = {} /\ ~HysteresisBlocks(g, w))
  BY PickAllows
<1>2. /\ g \in Gates /\ g.waiters \in Seq(Tickets) /\ IsInjective(g.waiters)
      /\ ToSet(g.waiters) \in SUBSET Tickets
      /\ w \in Tickets /\ m \in Models
  <2>1. g \in Gates /\ g.waiters \in Seq(Tickets) /\ IsInjective(g.waiters)
    BY DEF Sound, Gates
  <2>2. ToSet(g.waiters) \in SUBSET Tickets
    BY <2>1, ToSetIsFinite
  <2>3. g.want \in [Tickets -> [model : Models, prio : Priorities]] /\ w \in Tickets
    BY <1>1, <2>1, <2>2 DEF Gates
  <2>4. QED
    BY <2>1, <2>2, <2>3 DEF ModelOf
<1>3. /\ rest \in Seq(Tickets) /\ IsInjective(rest)
      /\ ToSet(rest) = ToSet(g.waiters) \ {w}
  BY <1>2, WithoutKeeps
<1> HIDE DEF evict, m, rest
<1>4. /\ Sound(marked)
      /\ marked.want = g.want /\ marked.waiters = g.waiters
      /\ marked.admitted = g.admitted
      /\ Held(marked) = kept \cup {m}
      /\ kept = {} => Len(marked.resident) = 1
      /\ g.young \ evict \subseteq marked.young
  BY <1>2, Marked
<1> HIDE DEF marked, kept
<1>5. h = [marked EXCEPT !.admitted = @ \cup {w}, !.waiters = rest]
  <2>1. marked \in Gates
    BY <1>4 DEF Sound
  <2>2. h = [marked EXCEPT !.admitted = @ \cup {w}, !.waiters = Without(@, {w})]
    BY DEF Admit, marked, evict, m
  <2>3. QED
    BY <1>4, <2>1, <2>2 DEF Gates, rest
<1> HIDE DEF h
<1>6. /\ h \in Gates /\ h.waiters = rest /\ h.admitted = g.admitted \cup {w}
      /\ h.want = g.want /\ h.resident = marked.resident /\ h.young = marked.young
  <2>1. marked \in Gates
    BY <1>4 DEF Sound
  <2>2. QED
    BY <1>2, <1>3, <1>4, <1>5, <2>1 DEF Gates
<1>7. Held(h) = kept \cup {m}
  BY <1>4, <1>6 DEF Held
<1>8. Sound(h)
  <2>1. IsInjective(h.resident) /\ h.young \subseteq Held(h)
    BY <1>4, <1>6, <1>7 DEF Sound
  <2>2. ToSet(h.waiters) \cap h.admitted = {}
    BY <1>3, <1>6 DEF Sound
  <2>3. QED
    BY <1>3, <1>6, <2>1, <2>2 DEF Sound
<1>9. ASSUME Fits(g) PROVE Fits(h)
  <2>1. CASE kept = {}
    BY <1>4, <1>6, <2>1 DEF Fits
  <2>2. CASE kept # {} /\ GB(kept) + Size[m] <= Budget
    <3>1. IsFiniteSet(kept) /\ kept \in SUBSET Models /\ m \notin kept
      BY HeldIsFinite, FS_Subset DEF kept
    <3>2. GB(kept) \in Nat /\ GB(kept \cup {m}) = Size[m] + GB(kept)
      BY <1>2, <3>1, FootprintOfOneMore
    <3>3. Size[m] \in Nat /\ Budget \in Nat
      BY <1>2, ModelAwareGateAssumption
    <3>4. QED
      BY <1>7, <2>2, <3>2, <3>3 DEF Fits
  <2>3. CASE ~NoSwapNeeded(g, w)
    <3>1. kept = (Held(g) \ EvictFor(g, w)) \ {m}
      BY <2>3 DEF kept, evict
    <3>2. kept = {} \/ GB(kept) + Size[m] <= Budget
      BY <1>1, <3>1, EvictionSuffices DEF m
    <3>3. QED
      BY <2>1, <2>2, <3>2
  <2>4. CASE NoSwapNeeded(g, w) /\ m \notin Held(g)
    <3>1. kept = Held(g)
      BY <2>4 DEF kept, evict
    <3>2. GB(Held(g)) + Size[m] <= Budget
      BY <2>4 DEF NoSwapNeeded, m
    <3>3. QED
      BY <2>1, <2>2, <3>1, <3>2
  <2>5. CASE NoSwapNeeded(g, w) /\ m \in Held(g)
    <3>1. Held(h) = Held(g)
      BY <1>7, <2>5 DEF kept, evict
    <3>2. CASE GB(Held(g)) <= Budget
      BY <3>1, <3>2 DEF Fits
    <3>3. CASE Len(g.resident) = 1
      <4>1. Held(g) = {m}
        <5>1. DOMAIN g.resident = {1}
          <6>1. g.resident \in Seq(Models)
            BY <1>2 DEF Gates
          <6>2. QED
            BY <3>3, <6>1
        <5>2. QED
          BY <2>5, <5>1 DEF Held, ToSet
      <4>2. kept = {}
        BY <4>1 DEF kept
      <4>3. QED
        BY <2>1, <4>2
    <3>4. QED
      BY <1>9, <3>2, <3>3 DEF Fits
  <2>6. QED
    BY <2>3, <2>4, <2>5
<1>10. ASSUME active # {} PROVE Held(g) \subseteq Held(h)
  BY <1>1, <1>7, <1>10 DEF kept, evict
<1>11. ASSUME NEW x \in g.young, x \notin h.young
       PROVE  /\ g.want[w].prio = Interactive
              /\ \A t \in ToSet(g.waiters) : ModelOf(g, t) # x
  <2>1. x \in evict
    BY <1>4, <1>6, <1>11
  <2>2. ~HysteresisBlocks(g, w)
    BY <1>1, <2>1 DEF evict
  <2>3. QED
    BY <1>11, <2>2 DEF HysteresisBlocks
<1>12. QED
  BY <1>1, <1>3, <1>6, <1>8, <1>9, <1>10, <1>11 DEF h
-----------------------------------------------------------------------------
(***************************************************************************)
(* _schedule: what a turn of its loop preserves, the loop does.            *)
(***************************************************************************)
\* A set of gates that no turn leaves is not left by _schedule.
LEMMA ScheduleStaysIn ==
  ASSUME NEW I, NEW g \in I, NEW active, g.waiters \in Seq(Tickets),
         \A h \in I : Turn(h, active) \subseteq I
  PROVE  Schedule(g, active) \subseteq I
<1> DEFINE n == Len(g.waiters)
           Turns(S) == UNION {Turn(h, active) : h \in S}
           Eq(it) == it = [T \in SUBSET (1 .. n) |->
                             IF T = {} THEN {g} ELSE Turns(it[T \ {Max(T)}])]
           c == CHOOSE it : Eq(it)
           step == [i \in 1 .. n |-> [S \in SUBSET I |-> Turns(S)]]
<1>1. n \in Nat /\ DOMAIN g.waiters = 1 .. n
  OBVIOUS
<1>2. Schedule(g, active) = c[1 .. n]
  BY <1>1 DEF Schedule, FoldLeft, MapThenFoldSet
<1>3. \A S \in SUBSET I : Turns(S) \in SUBSET I
  OBVIOUS
<1>4. PICK f \in [SUBSET (1 .. n) -> SUBSET I] : IsFold(f, 1 .. n, {g}, LastOf(n), step)
  <2>1. \A i \in 1 .. n, S \in SUBSET I : step[i][S] \in SUBSET I
    BY <1>3
  <2>2. {g} \in SUBSET I
    OBVIOUS
  <2> HIDE DEF step, n
  <2>3. QED
    BY <1>1, <2>1, <2>2, ListFoldExists
<1>5. Eq(f)
  <2>1. \A T \in SUBSET (1 .. n) : T # {} => /\ Max(T) \in 1 .. n
                                            /\ f[T \ {Max(T)}] \in SUBSET I
    BY <1>1, <1>4, Greatest
  <2>2. f = [T \in SUBSET (1 .. n) |->
               IF T = {} THEN {g} ELSE step[Max(T)][f[T \ {Max(T)}]]]
    BY <1>4 DEF IsFold, LastOf
  <2> HIDE DEF Turns
  <2>3. QED
    BY <2>1, <2>2
<1>6. Eq(c)
  BY <1>5
<1> DEFINE Q == {T \in SUBSET (1 .. n) : c[T] \in SUBSET I}
<1> HIDE DEF c, Turns
<1>7. {} \in Q
  BY <1>6
<1>8. ASSUME NEW T \in SUBSET (1 .. n), T # {}, \A x \in T : T \ {x} \in Q
      PROVE  T \in Q
  <2>1. Max(T) \in T
    BY <1>1, <1>8, Greatest
  <2>2. c[T] = Turns(c[T \ {Max(T)}])
    BY <1>6, <1>8
  <2>3. QED
    BY <1>3, <1>8, <2>1, <2>2
<1>9. IsFiniteSet(1 .. n)
  <2>1. 1 \in Int /\ n \in Int
    BY <1>1
  <2>2. QED
    BY <2>1, FS_Interval, Zenon
<1>10. SUBSET (1 .. n) \subseteq Q
  <2> HIDE DEF Q, n
  <2>1. QED
    BY <1>7, <1>8, <1>9, SubsetInduction
<1>11. QED
  BY <1>1, <1>2, <1>10

\* The gates _schedule may make of g: the tickets that left the waiters are
\* the ones it admitted, and each turn was as AdmitKeeps says.
Reaches(g, active) ==
    {h \in Gates :
       /\ Sound(h) /\ Fits(h)
       /\ h.want = g.want
       /\ ToSet(h.waiters) \subseteq ToSet(g.waiters)
       /\ h.admitted = g.admitted \cup (ToSet(g.waiters) \ ToSet(h.waiters))
       /\ active # {} => Held(g) \subseteq Held(h)
       /\ \A m \in g.young :
            \/ m \in h.young
            \/ /\ \A t \in ToSet(h.waiters) : ModelOf(g, t) # m
               /\ \E t \in h.admitted \ g.admitted : g.want[t].prio = Interactive}

\* Schedule makes of g one of these: by ScheduleStaysIn.
LEMMA ScheduleReaches ==
  ASSUME NEW g, Sound(g), Fits(g), NEW active, NEW h \in Schedule(g, active)
  PROVE  h \in Reaches(g, active)
<1> DEFINE I == Reaches(g, active)
<1>1. g \in I
  BY DEF Reaches, Sound
<1>2. ASSUME NEW x \in I, NEW y \in Turn(x, active)
      PROVE  y \in I
  <2>1. /\ x \in Gates /\ Sound(x) /\ Fits(x)
        /\ x.want = g.want
        /\ ToSet(x.waiters) \subseteq ToSet(g.waiters)
        /\ x.admitted = g.admitted \cup (ToSet(g.waiters) \ ToSet(x.waiters))
        /\ active # {} => Held(g) \subseteq Held(x)
        /\ \A m \in g.young :
             \/ m \in x.young
             \/ /\ \A t \in ToSet(x.waiters) : ModelOf(g, t) # m
                /\ \E t \in x.admitted \ g.admitted : g.want[t].prio = Interactive
    BY DEF Reaches
  <2>2. CASE y = x
    BY <2>2
  <2>3. CASE y # x
    <3>1. PICK w \in Pick(x, active) : y = Admit(x, w)
      BY <2>3 DEF Turn
    <3>2. /\ Sound(y) /\ (Fits(x) => Fits(y))
          /\ w \in ToSet(x.waiters)
          /\ y.want = x.want
          /\ ToSet(y.waiters) = ToSet(x.waiters) \ {w}
          /\ y.admitted = x.admitted \cup {w}
          /\ active # {} => Held(x) \subseteq Held(y)
          /\ \A m \in x.young :
               \/ m \in y.young
               \/ /\ x.want[w].prio = Interactive
                  /\ \A t \in ToSet(x.waiters) : ModelOf(x, t) # m
      BY <2>1, <3>1, AdmitKeeps
    <3>3. w \notin g.admitted
      BY <2>1, <3>2 DEF Sound
    <3>4. ASSUME NEW m \in g.young
          PROVE  \/ m \in y.young
                 \/ /\ \A t \in ToSet(y.waiters) : ModelOf(g, t) # m
                    /\ \E t \in y.admitted \ g.admitted : g.want[t].prio = Interactive
      BY <2>1, <3>2, <3>3 DEF ModelOf
    <3>5. y.admitted = g.admitted \cup (ToSet(g.waiters) \ ToSet(y.waiters))
      BY <2>1, <3>2
    <3>6. y \in Gates /\ y.want = g.want /\ ToSet(y.waiters) \subseteq ToSet(g.waiters)
      BY <2>1, <3>2 DEF Sound
    <3>7. QED
      BY <2>1, <3>2, <3>4, <3>5, <3>6 DEF Reaches
  <2>4. QED
    BY <2>2, <2>3
<1>3. g.waiters \in Seq(Tickets)
  BY DEF Sound, Gates
<1> HIDE DEF I
<1>4. Schedule(g, active) \subseteq I
  <2>1. \A x \in I : Turn(x, active) \subseteq I
    BY <1>2
  <2>2. QED
    BY <1>1, <1>3, <2>1, ScheduleStaysIn
<1>5. QED
  BY <1>4 DEF I

\* The gates a handler may leave behind: those, whose residencies may have
\* run out by the time the timer is looked at.
Leaves(g, active) ==
    {k \in Gates :
       /\ Sound(k) /\ Fits(k)
       /\ k.want = g.want
       /\ ToSet(k.waiters) \subseteq ToSet(g.waiters)
       /\ k.admitted = g.admitted \cup (ToSet(g.waiters) \ ToSet(k.waiters))
       /\ active # {} => Held(g) \subseteq Held(k)
       /\ \A m \in g.young :
            \/ m \in Held(k)
            \/ /\ \A t \in ToSet(k.waiters) : ModelOf(g, t) # m
               /\ \E t \in k.admitted \ g.admitted : g.want[t].prio = Interactive}

\* ArmTimer leaves one of these behind, with the lists of h.
LEMMA ArmTimerLeaves ==
  ASSUME NEW g, Sound(g), Fits(g), NEW active, NEW h \in Schedule(g, active),
         NEW armed, ArmTimer(h, active, armed)
  PROVE  /\ gate' \in Leaves(g, active)
         /\ gate'.admitted = h.admitted
         /\ timer' \in {"off", "armed", "slipped"}
<1>1. h \in Reaches(g, active) /\ h \in Gates
  BY ScheduleReaches DEF Reaches
<1>2. /\ gate' \in Gates
      /\ gate'.want = h.want /\ gate'.waiters = h.waiters
      /\ gate'.admitted = h.admitted /\ gate'.resident = h.resident
      /\ gate'.young \subseteq h.young
  BY <1>1 DEF ArmTimer, Gates
<1>3. Held(gate') = Held(h)
  BY <1>2 DEF Held
<1>4. Sound(gate') /\ Fits(gate')
  BY <1>1, <1>2, <1>3 DEF Reaches, Sound, Fits
<1>5. h.young \subseteq Held(h)
  BY <1>1 DEF Reaches, Sound
<1>6. gate' \in Leaves(g, active)
  BY <1>1, <1>2, <1>3, <1>4, <1>5 DEF Reaches, Leaves
<1>7. QED
  BY <1>2, <1>6 DEF ArmTimer
-----------------------------------------------------------------------------
(***************************************************************************)
(* The inductive invariant.  QueueAccounts is not inductive alone: a       *)
(* ticket must be new to the gate when it is acquired.                     *)
(***************************************************************************)
IInv == /\ TypeOK
        /\ LedgerWithinBudget
        /\ QueueAccounts
        /\ \A t \in gate.admitted : pc[t] # "idle"

Places == [Tickets -> {"idle", "asleep", "awake", "active", "gone"}]
Timers == {"off", "armed", "slipped"}

\* QueueAccounts and the last conjunct of IInv, of a gate and of places that
\* are not yet those of a state.
Accounts(g, P) ==
    LET queued == {t \in Tickets : P[t] \in {"asleep", "awake"}}
    IN  /\ ToSet(g.waiters) = queued \ g.admitted
        /\ \A t \in queued \cap g.admitted : P[t] = "awake"
        /\ \A t \in Tickets : P[t] = "active" => t \in g.admitted
        /\ \A t \in g.admitted : P[t] # "idle"

\* The invariant, in terms of the gate and the places.
LEMMA InvOfGate ==
  IInv <=> /\ pc \in Places /\ timer \in Timers
           /\ Sound(gate) /\ Fits(gate) /\ Accounts(gate, pc)
<1>1. TypeOK <=> /\ pc \in Places /\ timer \in Timers /\ gate \in Gates
                 /\ IsInjective(gate.waiters) /\ IsInjective(gate.resident)
                 /\ gate.young \subseteq Held(gate)
  BY DEF TypeOK, Places, Timers, Gates
<1>2. LedgerWithinBudget <=> Fits(gate)
  BY DEF LedgerWithinBudget, Fits
<1>3. QueueAccounts /\ (\A t \in gate.admitted : pc[t] # "idle") <=> Accounts(gate, pc)
  BY DEF QueueAccounts, Accounts, Active
<1>4. Accounts(gate, pc) => ToSet(gate.waiters) \cap gate.admitted = {}
  BY DEF Accounts
<1>5. QED
  BY <1>1, <1>2, <1>3, <1>4 DEF IInv, Sound

\* The same of the next state.
LEMMA InvOfNextGate ==
  ASSUME pc' \in Places, timer' \in Timers,
         Sound(gate'), Fits(gate'), Accounts(gate', pc')
  PROVE  IInv'
<1>1. TypeOK'
  BY DEF TypeOK, Places, Timers, Gates, Sound, Held
<1>2. LedgerWithinBudget'
  BY DEF LedgerWithinBudget, Fits, Held
<1>3. QueueAccounts' /\ (\A t \in gate'.admitted : pc'[t] # "idle")
  BY DEF QueueAccounts, Accounts, Active
<1>4. QED
  BY <1>1, <1>2, <1>3 DEF IInv

\* Once those it admitted are notified, _schedule has lost no ticket.
LEMMA NotifiedAccounts ==
  ASSUME NEW g, NEW P \in Places, Accounts(g, P), g.admitted = gate.admitted,
         NEW active, NEW h \in Leaves(g, active)
  PROVE  Notify(h, P) \in Places /\ Accounts(h, Notify(h, P))
<1> DEFINE Q == Notify(h, P)
<1>1. Q \in Places
  BY DEF Notify, Places
<1>2. \A t \in Tickets : Q[t] = IF P[t] = "asleep" /\ h.admitted # g.admitted
                                THEN "awake" ELSE P[t]
  BY DEF Notify
<1>3. /\ h.admitted = g.admitted \cup (ToSet(g.waiters) \ ToSet(h.waiters))
      /\ ToSet(h.waiters) \subseteq ToSet(g.waiters)
      /\ h.admitted \subseteq Tickets
  BY DEF Leaves, Gates
<1> HIDE DEF Q
<1>4. QED
  BY <1>1, <1>2, <1>3 DEF Accounts, Q

\* The task that runs on is active or asleep.
LEMMA RunnerAccounts ==
  ASSUME NEW h \in Gates, NEW Q \in Places, Accounts(h, Q),
         NEW t \in Tickets, Q[t] = "awake"
  PROVE  LET R == [Q EXCEPT ![t] = IF t \in h.admitted THEN "active" ELSE "asleep"]
         IN  R \in Places /\ Accounts(h, R)
<1> DEFINE R == [Q EXCEPT ![t] = IF t \in h.admitted THEN "active" ELSE "asleep"]
<1>1. R \in Places
  BY DEF Places
<1>2. \A u \in Tickets : R[u] = IF u = t THEN IF t \in h.admitted THEN "active" ELSE "asleep"
                                ELSE Q[u]
  BY DEF Places
<1>3. h.admitted \subseteq Tickets
  BY DEF Gates
<1> HIDE DEF R
<1>4. QED
  BY <1>1, <1>2, <1>3 DEF Accounts, R
-----------------------------------------------------------------------------
(***************************************************************************)
(* The actions.  All but Expire hand the scheduler some gate g, which      *)
(* differs from the state's in its waiters and what they want, and the     *)
(* tickets that are active, but for one whose generation just ended.       *)
(***************************************************************************)
Hands(g, active) ==
    /\ Sound(g) /\ Fits(g)
    /\ g.admitted = gate.admitted
    /\ g.resident = gate.resident /\ g.young = gate.young
    /\ gate' \in Leaves(g, active)
    /\ Active \cap Active' \subseteq active

\* The invariant after a step that hands g over and notifies those at P.
LEMMA InvAfterReschedule ==
  ASSUME IInv, NEW g, Sound(g), Fits(g), g.admitted = gate.admitted,
         NEW active, NEW P \in Places, Accounts(g, P),
         gate' \in Leaves(g, active), pc' = Notify(gate', P),
         timer' \in Timers
  PROVE  IInv'
<1>1. Notify(gate', P) \in Places /\ Accounts(gate', Notify(gate', P))
  BY NotifiedAccounts
<1>2. Sound(gate') /\ Fits(gate')
  BY DEF Leaves
<1>3. QED
  BY <1>1, <1>2, InvOfNextGate

\* ... and after one whose task t runs on, and is not on the condition itself.
LEMMA InvAfterRunOrWait ==
  ASSUME IInv, NEW g, Sound(g), Fits(g), g.admitted = gate.admitted,
         NEW t \in Tickets, Accounts(g, [pc EXCEPT ![t] = "awake"]), pc[t] # "asleep",
         gate' \in Leaves(g, Active),
         pc' = [Notify(gate', pc) EXCEPT
                  ![t] = IF t \in gate'.admitted THEN "active" ELSE "asleep"],
         timer' \in Timers
  PROVE  IInv'
<1> DEFINE P == [pc EXCEPT ![t] = "awake"]
           Q == Notify(gate', P)
<1>1. pc \in Places /\ P \in Places
  BY InvOfGate DEF Places
<1>2. Q \in Places /\ Accounts(gate', Q)
  BY <1>1, NotifiedAccounts
<1>3. Q[t] = "awake"
  BY <1>1 DEF Notify, Places
<1>4. pc' = [Q EXCEPT ![t] = IF t \in gate'.admitted THEN "active" ELSE "asleep"]
  BY <1>1 DEF Notify, Places
<1>5. gate' \in Gates /\ Sound(gate') /\ Fits(gate')
  BY DEF Leaves
<1> DEFINE R == [Q EXCEPT ![t] = IF t \in gate'.admitted THEN "active" ELSE "asleep"]
<1>6. pc' \in Places /\ Accounts(gate', pc')
  <2> HIDE DEF Q
  <2>1. R \in Places /\ Accounts(gate', R)
    BY <1>2, <1>3, <1>5, RunnerAccounts
  <2>2. QED
    BY <1>4, <2>1
<1>7. QED
  BY <1>5, <1>6, InvOfNextGate

\* The two ways in which the handlers end.
LEMMA RescheduleLeaves ==
  ASSUME NEW g, Sound(g), Fits(g), NEW active, NEW P, Reschedule(g, active, P)
  PROVE  /\ gate' \in Leaves(g, active)
         /\ pc' = Notify(gate', P)
         /\ timer' \in Timers
<1>1. PICK h \in Schedule(g, active) : pc' = Notify(h, P) /\ ArmTimer(h, active, timer)
  BY DEF Reschedule
<1>2. QED
  BY <1>1, ArmTimerLeaves DEF Notify, Timers

LEMMA RunOrWaitLeaves ==
  ASSUME NEW g, Sound(g), Fits(g), NEW t \in Tickets, RunOrWait(g, t)
  PROVE  /\ gate' \in Leaves(g, Active)
         /\ pc' = [Notify(gate', pc) EXCEPT
                      ![t] = IF t \in gate'.admitted THEN "active" ELSE "asleep"]
         /\ timer' \in Timers
<1>1. PICK h \in Schedule(g, Active) :
          /\ pc' = [Notify(h, pc) EXCEPT
                       ![t] = IF t \in h.admitted THEN "active" ELSE "asleep"]
          /\ ArmTimer(h, Active, timer)
  BY DEF RunOrWait
<1>2. QED
  BY <1>1, ArmTimerLeaves DEF Notify, Timers

\* What a step on the gate itself keeps of it: with other waiters, and other
\* wants of theirs, it is still sound and fits.
LEMMA SoundWithWaiters ==
  ASSUME IInv, NEW q \in Seq(Tickets), IsInjective(q), ToSet(q) \cap gate.admitted = {},
         NEW f \in [Tickets -> [model : Models, prio : Priorities]]
  PROVE  LET g == [gate EXCEPT !.want = f, !.waiters = q]
         IN  /\ Sound(g) /\ Fits(g)
             /\ g.want = f /\ g.waiters = q
             /\ g.admitted = gate.admitted
             /\ g.resident = gate.resident /\ g.young = gate.young
<1> DEFINE g == [gate EXCEPT !.want = f, !.waiters = q]
<1>1. gate \in Gates /\ Sound(gate) /\ Fits(gate)
  BY InvOfGate DEF Sound
<1>2. /\ g \in Gates /\ g.want = f /\ g.waiters = q
      /\ g.admitted = gate.admitted
      /\ g.resident = gate.resident /\ g.young = gate.young
  BY <1>1 DEF Gates
<1> HIDE DEF g
<1>3. Sound(g) /\ Fits(g)
  BY <1>1, <1>2 DEF Sound, Fits, Held
<1>4. QED
  BY <1>2, <1>3 DEF g

\* acquire_ticket hands over the gate with one waiter more.
LEMMA AcquireHands ==
  ASSUME IInv, NEW t \in Tickets, NEW m \in Models, NEW p \in Priorities, Acquire(t, m, p)
  PROVE  IInv' /\ \E g, active : Hands(g, active)
<1> DEFINE f == [gate.want EXCEPT ![t] = [model |-> m, prio |-> p]]
           q == Append(gate.waiters, t)
           g == [gate EXCEPT !.want = f, !.waiters = q]
<1>1. /\ pc \in Places /\ timer \in Timers /\ Sound(gate) /\ Accounts(gate, pc)
      /\ gate \in Gates /\ pc[t] = "idle"
  BY InvOfGate DEF Sound, Acquire
<1>2. t \notin ToSet(gate.waiters) /\ t \notin gate.admitted
  BY <1>1 DEF Accounts
<1>3. /\ q \in Seq(Tickets) /\ IsInjective(q)
      /\ ToSet(q) = ToSet(gate.waiters) \cup {t}
  BY <1>1, <1>2, AppendKeeps DEF Sound, Gates
<1>4. f \in [Tickets -> [model : Models, prio : Priorities]]
  BY <1>1 DEF Gates
<1>5. ToSet(q) \cap gate.admitted = {}
  BY <1>1, <1>2, <1>3 DEF Sound
<1>6. [gate EXCEPT !.want[t] = [model |-> m, prio |-> p],
                   !.waiters = Append(@, t)] = g
  BY <1>1 DEF Gates
<1>7. RunOrWait(g, t)
  BY <1>6 DEF Acquire
<1> HIDE DEF q, f
<1>8. /\ Sound(g) /\ Fits(g) /\ g.waiters = q
      /\ g.admitted = gate.admitted
      /\ g.resident = gate.resident /\ g.young = gate.young
  BY <1>3, <1>4, <1>5, SoundWithWaiters
<1> HIDE DEF g
<1>9. Accounts(g, [pc EXCEPT ![t] = "awake"])
  BY <1>1, <1>2, <1>3, <1>8 DEF Accounts, Places, Gates
<1>10. /\ gate' \in Leaves(g, Active)
       /\ pc' = [Notify(gate', pc) EXCEPT
                    ![t] = IF t \in gate'.admitted THEN "active" ELSE "asleep"]
       /\ timer' \in Timers
  BY <1>7, <1>8, RunOrWaitLeaves
<1>11. IInv'
  BY <1>1, <1>8, <1>9, <1>10, InvAfterRunOrWait
<1>12. Hands(g, Active)
  BY <1>8, <1>10 DEF Hands
<1>13. QED
  BY <1>11, <1>12

\* A task that resumes hands over the gate as it is.
LEMMA WakeHands ==
  ASSUME IInv, NEW t \in Tickets, Wake(t)
  PROVE  IInv' /\ \E g, active : Hands(g, active)
<1>1. /\ pc \in Places /\ timer \in Timers /\ Accounts(gate, pc)
      /\ Sound(gate) /\ Fits(gate)
  BY InvOfGate
<1>2. pc[t] = "awake" /\ RunOrWait(gate, t)
  BY DEF Wake
<1>3. [pc EXCEPT ![t] = "awake"] = pc
  BY <1>1, <1>2 DEF Places
<1>4. /\ gate' \in Leaves(gate, Active)
      /\ pc' = [Notify(gate', pc) EXCEPT
                   ![t] = IF t \in gate'.admitted THEN "active" ELSE "asleep"]
      /\ timer' \in Timers
  BY <1>1, <1>2, RunOrWaitLeaves
<1>5. IInv'
  BY <1>1, <1>2, <1>3, <1>4, InvAfterRunOrWait
<1>6. Hands(gate, Active)
  BY <1>1, <1>4 DEF Hands
<1>7. QED
  BY <1>5, <1>6

\* A task that is cancelled hands over the gate without its ticket.
LEMMA CancelHands ==
  ASSUME IInv, NEW t \in Tickets, Cancel(t)
  PROVE  IInv' /\ \E g, active : Hands(g, active)
<1> DEFINE q == Without(gate.waiters, {t})
           f == gate.want
           g == [gate EXCEPT !.want = f, !.waiters = q]
           P == [pc EXCEPT ![t] = "gone"]
<1>1. /\ pc \in Places /\ timer \in Timers /\ Sound(gate) /\ Accounts(gate, pc)
      /\ gate \in Gates
  BY InvOfGate DEF Sound
<1>2. /\ q \in Seq(Tickets) /\ IsInjective(q)
      /\ ToSet(q) = ToSet(gate.waiters) \ {t}
  BY <1>1, WithoutKeeps DEF Sound, Gates
<1>3. ToSet(q) \cap gate.admitted = {} /\ f \in [Tickets -> [model : Models, prio : Priorities]]
  BY <1>1, <1>2 DEF Sound, Gates
<1>4. [gate EXCEPT !.waiters = Without(@, {t})] = g
  BY <1>1 DEF Gates
<1>5. pc[t] \in {"asleep", "awake"} /\ Reschedule(g, Active, P)
  BY <1>4 DEF Cancel
<1> HIDE DEF q
<1>6. /\ Sound(g) /\ Fits(g) /\ g.waiters = q
      /\ g.admitted = gate.admitted
      /\ g.resident = gate.resident /\ g.young = gate.young
  BY <1>2, <1>3, SoundWithWaiters
<1> HIDE DEF g
<1>7. P \in Places
  BY <1>1 DEF Places
<1>8. Accounts(g, P)
  BY <1>1, <1>2, <1>6, <1>7 DEF Accounts, Places, Gates
<1>9. /\ gate' \in Leaves(g, Active)
      /\ pc' = Notify(gate', P) /\ timer' \in Timers
  BY <1>5, <1>6, RescheduleLeaves
<1>10. IInv'
  BY <1>6, <1>7, <1>8, <1>9, InvAfterReschedule
<1>11. Hands(g, Active)
  BY <1>6, <1>9 DEF Hands
<1>12. QED
  BY <1>10, <1>11

\* A generation that ends hands over the gate, and the others that are active.
LEMMA ReleaseHands ==
  ASSUME IInv, NEW t \in Tickets, Release(t)
  PROVE  IInv' /\ \E g, active : Hands(g, active)
<1> DEFINE P == [pc EXCEPT ![t] = "gone"]
<1>1. /\ pc \in Places /\ timer \in Timers /\ Accounts(gate, pc)
      /\ Sound(gate) /\ Fits(gate)
  BY InvOfGate
<1>2. pc[t] = "active" /\ Reschedule(gate, Active \ {t}, P)
  BY DEF Release
<1>3. P \in Places
  BY <1>1 DEF Places
<1>4. Accounts(gate, P)
  BY <1>1, <1>2 DEF Accounts, Places, Sound, Gates
<1>5. /\ gate' \in Leaves(gate, Active \ {t})
      /\ pc' = Notify(gate', P) /\ timer' \in Timers
  BY <1>1, <1>2, RescheduleLeaves
<1>6. IInv'
  BY <1>1, <1>3, <1>4, <1>5, InvAfterReschedule
<1>7. pc'[t] = "gone"
  BY <1>1, <1>5 DEF Notify, Places
<1>8. Hands(gate, Active \ {t})
  BY <1>1, <1>5, <1>7 DEF Hands, Active
<1>9. QED
  BY <1>6, <1>8

\* The timer hands over the gate as it is.
LEMMA TimerHands ==
  ASSUME IInv, TimerFires
  PROVE  IInv' /\ \E g, active : Hands(g, active)
<1>1. /\ pc \in Places /\ timer \in Timers /\ Accounts(gate, pc)
      /\ Sound(gate) /\ Fits(gate)
  BY InvOfGate
<1>2. /\ gate' \in Leaves(gate, Active)
      /\ pc' = Notify(gate', pc) /\ timer' \in Timers
  <2>1. PICK h \in Schedule(gate, Active) : pc' = Notify(h, pc) /\ ArmTimer(h, Active, "off")
    BY DEF TimerFires
  <2>2. QED
    BY <1>1, <2>1, ArmTimerLeaves DEF Notify, Timers
<1>3. IInv'
  BY <1>1, <1>2, InvAfterReschedule
<1>4. Hands(gate, Active)
  BY <1>1, <1>2 DEF Hands
<1>5. QED
  BY <1>3, <1>4

\* Time passes only for a model that is young, and takes nothing from the ledger.
LEMMA ExpireKeeps ==
  ASSUME IInv, Expire
  PROVE  IInv' /\ Held(gate') = Held(gate)
<1>1. /\ pc \in Places /\ timer \in Timers /\ Accounts(gate, pc)
      /\ Sound(gate) /\ Fits(gate) /\ gate \in Gates
  BY InvOfGate DEF Sound
<1>2. PICK old : gate' = [gate EXCEPT !.young = @ \ {old}]
  BY DEF Expire
<1>3. /\ gate' \in Gates
      /\ gate'.waiters = gate.waiters /\ gate'.admitted = gate.admitted
      /\ gate'.resident = gate.resident /\ gate'.young \subseteq gate.young
  BY <1>1, <1>2 DEF Gates
<1>4. Sound(gate') /\ Fits(gate') /\ Accounts(gate', pc)
  BY <1>1, <1>3 DEF Sound, Fits, Accounts, Held
<1>5. pc' = pc /\ timer' = timer
  BY DEF Expire
<1>6. QED
  BY <1>1, <1>3, <1>4, <1>5, InvOfNextGate DEF Held

\* One step: the invariant, and what the scheduler was handed.
LEMMA StepKeeps ==
  ASSUME IInv, Next
  PROVE  IInv' /\ ((\E g, active : Hands(g, active)) \/ Held(gate') = Held(gate))
<1>1. ASSUME NEW t \in Tickets, NEW m \in Models, NEW p \in Priorities, Acquire(t, m, p)
      PROVE  IInv' /\ \E g, active : Hands(g, active)
  BY <1>1, AcquireHands
<1>2. ASSUME NEW t \in Tickets, Wake(t)
      PROVE  IInv' /\ \E g, active : Hands(g, active)
  BY <1>2, WakeHands
<1>3. ASSUME NEW t \in Tickets, Cancel(t)
      PROVE  IInv' /\ \E g, active : Hands(g, active)
  BY <1>3, CancelHands
<1>4. ASSUME NEW t \in Tickets, Release(t)
      PROVE  IInv' /\ \E g, active : Hands(g, active)
  BY <1>4, ReleaseHands
<1>5. CASE TimerFires
  BY <1>5, TimerHands
<1>6. CASE Expire
  BY <1>6, ExpireKeeps
<1>7. QED
  BY <1>1, <1>2, <1>3, <1>4, <1>5, <1>6 DEF Next
-----------------------------------------------------------------------------
(***************************************************************************)
(* The theorems.                                                           *)
(***************************************************************************)

\* The invariant holds in every reachable state.
THEOREM Invariance == Spec => []IInv
<1>1. Init => IInv
  <2> SUFFICES ASSUME Init PROVE IInv
    OBVIOUS
  <2>1. (CHOOSE m \in Models : TRUE) \in Models
    BY ModelAwareGateAssumption
  <2>2. gate \in Gates
    BY <2>1 DEF Init, Gates, Priorities, Interactive
  <2>3. /\ gate.waiters = <<>> /\ gate.resident = <<>>
        /\ gate.admitted = {} /\ gate.young = {}
    BY DEF Init
  <2>4. ToSet(<<>>) = {} /\ IsInjective(<<>>)
    BY DEF ToSet, IsInjective
  <2>5. Sound(gate)
    BY <2>2, <2>3, <2>4 DEF Sound
  <2>6. Fits(gate)
    <3>1. GB({}) = 0
      BY FootprintIsTotal, TotalOfNone
    <3>2. Held(gate) = {} /\ Budget \in Nat
      BY <2>3, <2>4, ModelAwareGateAssumption DEF Held
    <3>3. QED
      BY <3>1, <3>2 DEF Fits
  <2>7. pc \in Places /\ timer \in Timers /\ Accounts(gate, pc)
    BY <2>3, <2>4 DEF Init, Places, Timers, Accounts
  <2>8. QED
    BY <2>5, <2>6, <2>7, InvOfGate
<1>2. IInv /\ [Next]_vars => IInv'
  <2> SUFFICES ASSUME IInv, [Next]_vars PROVE IInv'
    OBVIOUS
  <2>1. CASE Next
    BY <2>1, StepKeeps
  <2>2. CASE UNCHANGED vars
    <3>1. pc' = pc /\ gate' = gate /\ timer' = timer
      BY <2>2 DEF vars
    <3>2. QED
      BY <3>1, InvOfGate, InvOfNextGate
  <2>3. QED
    BY <2>1, <2>2
<1>3. QED
  BY <1>1, <1>2, PTL DEF Spec

\* The gate's records have their types, its lists no element twice.
THEOREM TypeCorrect == Spec => []TypeOK
<1>1. IInv => TypeOK
  BY DEF IInv
<1>2. QED
  BY <1>1, Invariance, PTL

\* The ledger never plans for more than the budget, but for a single model
\* that is larger than the budget.
THEOREM LedgerStaysWithinBudget == Spec => []LedgerWithinBudget
<1>1. IInv => LedgerWithinBudget
  BY DEF IInv
<1>2. QED
  BY <1>1, Invariance, PTL

\* No ticket is lost, admitted after its task is gone, or asleep when its
\* turn has come.
THEOREM QueueAlwaysAccounts == Spec => []QueueAccounts
<1>1. IInv => QueueAccounts
  BY DEF IInv
<1>2. QED
  BY <1>1, Invariance, PTL

\* No model leaves the ledger while another generation goes on.
THEOREM SwapsWaitForIdle == Spec => SwapsOnlyWhenIdle
<1>1. IInv /\ [Next]_vars =>
        [~(Held(gate) \subseteq Held(gate')) => Active \cap Active' = {}]_vars
  <2> SUFFICES ASSUME IInv, Next, ~(Held(gate) \subseteq Held(gate'))
               PROVE  Active \cap Active' = {}
    BY DEF vars
  <2>1. PICK g, active : Hands(g, active)
    BY StepKeeps
  <2>2. gate' \in Leaves(g, active)
    BY <2>1 DEF Hands
  <2>3. Held(g) = Held(gate)
    BY <2>1 DEF Hands, Held
  <2>4. active = {}
    BY <2>2, <2>3 DEF Leaves
  <2>5. QED
    BY <2>1, <2>4 DEF Hands
<1>2. QED
  BY <1>1, Invariance, PTL DEF Spec, SwapsOnlyWhenIdle

\* A young big model leaves the ledger only for an interactive ticket, and
\* when none waits for it.
THEOREM MinResidency == Spec => YoungSwapsForInteractive
<1> DEFINE Fair == \A m \in gate.young \ Held(gate') :
              /\ \A t \in ToSet(gate'.waiters) : ModelOf(gate', t) # m
              /\ \E t \in gate'.admitted \ gate.admitted :
                   gate'.want[t].prio = Interactive
<1>1. IInv /\ [Next]_vars => [Fair]_vars
  <2> SUFFICES ASSUME IInv, Next, NEW m \in gate.young, m \notin Held(gate')
               PROVE  /\ \A t \in ToSet(gate'.waiters) : ModelOf(gate', t) # m
                      /\ \E t \in gate'.admitted \ gate.admitted :
                           gate'.want[t].prio = Interactive
    BY DEF vars
  <2>1. m \in Held(gate)
    BY InvOfGate DEF Sound
  <2>2. PICK g, active : Hands(g, active)
    BY <2>1, StepKeeps
  <2>3. gate' \in Leaves(g, active)
    BY <2>2 DEF Hands
  <2>4. m \in g.young /\ g.admitted = gate.admitted
    BY <2>2 DEF Hands
  <2>5. QED
    BY <2>3, <2>4 DEF Leaves, ModelOf
<1>2. QED
  BY <1>1, Invariance, PTL DEF Spec, YoungSwapsForInteractive
====

---- MODULE Registry_proofs ----
(***************************************************************************)
(* The rollback a role offers is real, for every set of roles, models and  *)
(* ways to serve them: proofs of what Registry.cfg checks on two roles and *)
(* three models.                                                           *)
(***************************************************************************)
EXTENDS Registry, SequenceTheorems, TLAPS

Entry == [config   : Config,
          rollback : Seq(Models),
          snaps    : [Models -> Config \cup {None}]]

\* What RollbackIsRestorable says of one entry.
Restorable(e) ==
    /\ {m \in Models : e.snaps[m] # None} = Names(e.rollback)
    /\ Len(e.rollback) <= KEEP_ROLLBACK_N
    /\ \A m \in Names(e.rollback) :
         /\ e.snaps[m].model = m
         /\ e.snaps[m].spec # None
         /\ m # e.config.model

\* A role that has a model knows how to serve it, and one that has none offers
\* no rollback.
Served(e) == IF e.config.model = None THEN e.rollback = <<>>
             ELSE e.config.spec # None

\* The inductive invariant.  RollbackIsRestorable is not inductive: it says
\* nothing of the incumbent, whose configuration is the next snapshot.
IInv == /\ TypeOK
        /\ \A r \in Roles : Restorable(roles[r]) /\ Served(roles[r])

-----------------------------------------------------------------------------
(***************************************************************************)
(* What Trim and Retain return.                                            *)
(***************************************************************************)
LEMMA TrimType ==
  ASSUME NEW rolls \in Seq(Models)
  PROVE  /\ Trim(rolls) \in Seq(Models)
         /\ Len(Trim(rolls)) <= KEEP_ROLLBACK_N
         /\ rolls = <<>> => Trim(rolls) = <<>>
         /\ rolls # <<>> => Trim(rolls) = <<Head(rolls)>>
<1>1. CASE rolls = <<>>
  BY <1>1 DEF Trim, KEEP_ROLLBACK_N
<1>2. CASE rolls # <<>>
  <2>1. Len(rolls) >= 1
    BY <1>2
  <2>2. Trim(rolls) = SubSeq(rolls, 1, 1)
    BY <2>1 DEF Trim, KEEP_ROLLBACK_N
  <2>3. SubSeq(rolls, 1, 1) = <<rolls[1]>>
    <3> DEFINE first == <<rolls[1]>>
               sub   == SubSeq(rolls, 1, 1)
    <3>1. /\ rolls[1] \in Models
          /\ first \in Seq(Models)
          /\ Len(first) = 1
          /\ first[1] = rolls[1]
      BY <2>1
    <3>2. /\ sub \in Seq(Models)
          /\ Len(sub) = 1
          /\ sub[1] = rolls[1]
      BY <2>1, <3>1, SubSeqProperties
    <3>3. \A i \in 1 .. Len(sub) : sub[i] = first[i]
      BY <3>1, <3>2
    <3> HIDE DEF first, sub
    <3>4. sub = first
      BY <3>1, <3>2, <3>3, SeqEqual
    <3> QED
      BY <3>4 DEF first, sub
  <2> QED
    BY <1>2, <2>1, <2>2, <2>3 DEF KEEP_ROLLBACK_N
<1> QED
  BY <1>1, <1>2

LEMMA NewestType ==
  ASSUME NEW e \in Entry, NEW c \in Config, NEW history \in Seq(Models)
  PROVE  /\ Newest(e, c, history) \in Seq(Models)
         /\ Len(Newest(e, c, history)) <= KEEP_ROLLBACK_N
         /\ e.config.model \notin {None, c.model}
              => Newest(e, c, history) = <<e.config.model>>
         /\ e.config.model \in {None, c.model}
              => Newest(e, c, history) = Trim(history)
<1>1. CASE e.config.model \in {None, c.model}
  <2>1. Newest(e, c, history) = Trim(history)
    BY <1>1 DEF Newest, Deposed
  <2>2. Trim(history) \in Seq(Models) /\ Len(Trim(history)) <= KEEP_ROLLBACK_N
    BY TrimType
  <2> QED
    BY <1>1, <2>1, <2>2
<1>2. CASE e.config.model \notin {None, c.model}
  <2>1. e.config.model \in Models
    BY <1>2 DEF Entry, Config
  <2>2. /\ Deposed(e, c.model) \o history \in Seq(Models)
        /\ Deposed(e, c.model) \o history # <<>>
        /\ Head(Deposed(e, c.model) \o history) = e.config.model
    BY <1>2, <2>1 DEF Deposed
  <2>3. Newest(e, c, history) = <<e.config.model>>
    BY <2>2, TrimType DEF Newest
  <2> QED
    BY <1>2, <2>1, <2>3 DEF KEEP_ROLLBACK_N
<1> QED
  BY <1>1, <1>2

\* An entry that offers a real rollback, changed to a configuration that can be
\* served, offers a real rollback again.
LEMMA RetainRestorable ==
  ASSUME NEW e \in Entry, Restorable(e), Served(e),
         NEW c \in Config, c.model # None, c.spec # None,
         NEW history \in Seq(Models), Names(history) \subseteq Names(e.rollback),
         e.config.model \in {None, c.model} => c.model \notin Names(history)
  PROVE  /\ Retain(e, c, history) \in Entry
         /\ Restorable(Retain(e, c, history))
         /\ Served(Retain(e, c, history))
<1> DEFINE n == Newest(e, c, history)
           x == Retain(e, c, history)
<1>1. /\ x.config = c
      /\ x.rollback = n
      /\ x.snaps = [m \in Models |->
                      IF m \notin Names(n) THEN None
                      ELSE IF m \in Names(Deposed(e, c.model)) THEN e.config
                      ELSE e.snaps[m]]
  BY DEF Retain
<1>2. n \in Seq(Models) /\ Len(n) <= KEEP_ROLLBACK_N
  BY NewestType
<1>3. /\ e.config \in Config
      /\ e.rollback \in Seq(Models)
      /\ e.snaps \in [Models -> Config \cup {None}]
  BY DEF Entry
<1>4. x \in Entry
  <2>1. x.snaps \in [Models -> Config \cup {None}]
    BY <1>1, <1>3
  <2> QED
    BY <1>2, <2>1 DEF Retain, Entry
<1>5. \A m \in Names(n) :
        /\ m \in Models
        /\ m # c.model
        /\ x.snaps[m] \in Config
        /\ x.snaps[m].model = m
        /\ x.snaps[m].spec # None
  <2>1. CASE e.config.model \notin {None, c.model}
    <3>1. n = <<e.config.model>>
      BY <2>1, NewestType
    <3>2. Deposed(e, c.model) = <<e.config.model>>
      BY <2>1 DEF Deposed
    <3>3. Names(n) = {e.config.model} /\ Names(Deposed(e, c.model)) = {e.config.model}
      BY <3>1, <3>2 DEF Names
    <3>4. e.config.model \in Models /\ e.config.spec # None
      BY <1>3, <2>1 DEF Config, Served
    <3>5. x.snaps[e.config.model] = e.config
      BY <1>1, <3>3, <3>4
    <3> QED
      BY <1>3, <2>1, <3>3, <3>4, <3>5
  <2>2. CASE e.config.model \in {None, c.model}
    <3>1. n = Trim(history)
      BY <2>2, NewestType
    <3>2. Names(n) \subseteq Names(history)
      <4>1. CASE history = <<>>
        BY <3>1, <4>1, TrimType
      <4>2. CASE history # <<>>
        <5>1. n = <<Head(history)>>
          BY <3>1, <4>2, TrimType
        <5>2. Head(history) = history[1] /\ 1 \in DOMAIN history
          BY <4>2
        <5> QED
          BY <5>1, <5>2 DEF Names
      <4> QED
        BY <4>1, <4>2
    <3>3. Names(Deposed(e, c.model)) = {}
      BY <2>2 DEF Deposed, Names
    <3>4. ASSUME NEW m \in Names(n)
          PROVE  /\ m \in Models
                 /\ m # c.model
                 /\ x.snaps[m] = e.snaps[m]
      <4>1. m \in Models
        BY <1>2 DEF Names
      <4> QED
        BY <1>1, <2>2, <3>2, <3>3, <4>1
    <3>5. ASSUME NEW m \in Names(n)
          PROVE  /\ e.snaps[m] \in Config
                 /\ e.snaps[m].model = m
                 /\ e.snaps[m].spec # None
      <4>1. m \in Names(e.rollback)
        BY <3>2
      <4>2. e.snaps[m] # None /\ m \in Models
        BY <4>1, <3>4 DEF Restorable
      <4> QED
        BY <1>3, <4>1, <4>2 DEF Restorable
    <3> QED
      BY <3>4, <3>5
  <2> QED
    BY <2>1, <2>2
<1>6. {m \in Models : x.snaps[m] # None} = Names(n)
  <2>1. \A m \in Models : m \notin Names(n) => x.snaps[m] = None
    BY <1>1
  <2> QED
    BY <1>5, <2>1, NoneAssumption
<1> QED
  BY <1>1, <1>2, <1>4, <1>5, <1>6 DEF Restorable, Served
-----------------------------------------------------------------------------
(***************************************************************************)
(* The invariant.                                                          *)
(***************************************************************************)

\* set_incumbent keeps an entry as it has to be.
LEMMA SetIncumbentKeeps ==
  ASSUME NEW e \in Entry, Restorable(e), Served(e),
         NEW m \in Models, NEW s \in Specs, NEW f \in Fallbacks \cup {None}
  PROVE  /\ SetIncumbent(e, m, s, f) \in Entry
         /\ Restorable(SetIncumbent(e, m, s, f))
         /\ Served(SetIncumbent(e, m, s, f))
<1> DEFINE c == [e.config EXCEPT !.model = m, !.spec = s,
                                 !.fallback = IF f = None THEN @ ELSE f]
<1>1. c \in Config /\ c.model = m /\ c.spec = s
  BY RegistryAssumption DEF Entry, Config
<1>2. m # None /\ s # None
  BY RegistryAssumption
<1>3. e.rollback \in Seq(Models)
  BY DEF Entry
<1>4. e.config.model \in {None, m} => m \notin Names(e.rollback)
  <2>1. CASE e.config.model = None
    BY <2>1 DEF Served, Names
  <2>2. CASE e.config.model = m
    BY <2>2 DEF Restorable
  <2> QED
    BY <2>1, <2>2
<1> HIDE DEF c
<1>5. /\ Retain(e, c, e.rollback) \in Entry
      /\ Restorable(Retain(e, c, e.rollback))
      /\ Served(Retain(e, c, e.rollback))
  BY <1>1, <1>2, <1>3, <1>4, RetainRestorable
<1> QED
  BY <1>5 DEF SetIncumbent, c

LEMMA LengthOne ==
  ASSUME NEW rolls \in Seq(Models), rolls # <<>>, Len(rolls) <= KEEP_ROLLBACK_N
  PROVE  /\ Len(rolls) = 1
         /\ Head(rolls) \in Names(rolls)
         /\ Head(rolls) \in Models
         /\ Tail(rolls) \in Seq(Models)
         /\ Names(Tail(rolls)) = {}
<1>1. Len(rolls) \in Nat /\ Len(rolls) # 0
  BY LenProperties, EmptySeq
<1>2. Len(rolls) = 1
  BY <1>1 DEF KEEP_ROLLBACK_N
<1>3. Len(Tail(rolls)) = 0 /\ Tail(rolls) \in Seq(Models)
  BY <1>2, HeadTailProperties
<1>4. 1 \in DOMAIN rolls /\ DOMAIN Tail(rolls) = {}
  <2>1. DOMAIN rolls = 1 .. 1
    BY <1>2, LenProperties
  <2>2. DOMAIN Tail(rolls) = 1 .. 0
    BY <1>3, LenProperties
  <2> QED
    BY <2>1, <2>2
<1> QED
  BY <1>2, <1>3, <1>4 DEF Names

\* So does rollback, and the target was not the incumbent.
LEMMA RolledBackKeeps ==
  ASSUME NEW e \in Entry, Restorable(e), Served(e), NEW disk, CanRollback(e, disk)
  PROVE  /\ RolledBack(e) \in Entry
         /\ Restorable(RolledBack(e))
         /\ Served(RolledBack(e))
<1> DEFINE target == Head(e.rollback)
           c == e.snaps[target]
<1>1. /\ e.rollback \in Seq(Models)
      /\ e.rollback # <<>>
      /\ Len(e.rollback) <= KEEP_ROLLBACK_N
  BY DEF Entry, CanRollback, Restorable
<1>2. target \in Models /\ target \in Names(e.rollback)
  BY <1>1, LengthOne
<1>3. /\ c \in Config
      /\ c.model = target
      /\ c.spec # None
  BY <1>2 DEF Entry, CanRollback, Restorable
<1>4. Tail(e.rollback) \in Seq(Models) /\ Names(Tail(e.rollback)) = {}
  BY <1>1, LengthOne
<1>5. c.model # None
  BY <1>2, <1>3, RegistryAssumption
<1> HIDE DEF c
<1>6. /\ Retain(e, c, Tail(e.rollback)) \in Entry
      /\ Restorable(Retain(e, c, Tail(e.rollback)))
      /\ Served(Retain(e, c, Tail(e.rollback)))
  BY <1>3, <1>4, <1>5, RetainRestorable
<1> QED
  BY <1>6 DEF RolledBack, c

\* Quarantine leaves the rollback and the incumbent alone.
LEMMA QuarantineKeeps ==
  ASSUME NEW e \in Entry, Restorable(e), Served(e), NEW m \in Models,
         NEW q, q = [e EXCEPT !.config.quarantine = @ \cup {m}]
  PROVE  q \in Entry /\ Restorable(q) /\ Served(q)
<1>1. /\ q.config = [e.config EXCEPT !.quarantine = @ \cup {m}]
      /\ q.rollback = e.rollback
      /\ q.snaps = e.snaps
      /\ q \in Entry
  BY DEF Entry, Config
<1>2. q.config.model = e.config.model /\ q.config.spec = e.config.spec
  BY <1>1 DEF Entry, Config
<1> QED
  BY <1>1, <1>2 DEF Restorable, Served

LEMMA TypeByEntry ==
  TypeOK <=> /\ roles \in [Roles -> Entry]
             /\ installed \subseteq Models
             /\ known \subseteq Roles \X Models
BY DEF TypeOK, Entry

LEMMA InitIInv == Init => IInv
<1> SUFFICES ASSUME Init PROVE IInv
  OBVIOUS
<1>1. Unregistered \in Entry
  BY DEF Unregistered, Entry, Config
<1>2. Restorable(Unregistered) /\ Served(Unregistered)
  BY DEF Unregistered, Restorable, Served, Names, KEEP_ROLLBACK_N
<1> QED
  BY <1>1, <1>2, TypeByEntry DEF Init, IInv

LEMMA NextIInv == IInv /\ [Next]_vars => IInv'
<1> SUFFICES ASSUME IInv, [Next]_vars PROVE IInv'
  OBVIOUS
<1>1. /\ roles \in [Roles -> Entry]
      /\ installed \subseteq Models
      /\ known \subseteq Roles \X Models
      /\ \A r \in Roles : roles[r] \in Entry /\ Restorable(roles[r]) /\ Served(roles[r])
  BY TypeByEntry DEF IInv
<1>2. ASSUME NEW r \in Roles, NEW x \in Entry, Restorable(x), Served(x),
             roles' = [roles EXCEPT ![r] = x],
             installed' \subseteq Models, known' \subseteq Roles \X Models
      PROVE  IInv'
  BY <1>1, <1>2 DEF IInv, TypeOK, Entry
<1>3. ASSUME roles' = roles, installed' \subseteq Models, known' \subseteq Roles \X Models
      PROVE  IInv'
  BY <1>1, <1>3 DEF IInv, TypeOK, Entry
<1>4. ASSUME NEW r \in Roles, NEW m \in Models, NEW s \in Specs,
             NEW f \in Fallbacks \cup {None}, Promote(r, m, s, f)
      PROVE  IInv'
  BY <1>1, <1>2, <1>4, SetIncumbentKeeps DEF Promote
<1>5. ASSUME NEW r \in Roles, Rollback(r)
      PROVE  IInv'
  BY <1>1, <1>2, <1>5, RolledBackKeeps DEF Rollback
<1>6. ASSUME NEW r \in Roles, NEW m \in Suspects, Quarantine(r, m)
      PROVE  IInv'
  <2> DEFINE q == [roles[r] EXCEPT !.config.quarantine = @ \cup {m}]
  <2>1. m \in Models
    BY RegistryAssumption
  <2>2. q \in Entry /\ Restorable(q) /\ Served(q)
    BY <1>1, <2>1, QuarantineKeeps
  <2>3. roles' = [roles EXCEPT ![r] = q]
    BY <1>6, <1>1 DEF Quarantine
  <2>4. installed' \subseteq Models /\ known' \subseteq Roles \X Models
    BY <1>1, <1>6, <2>1 DEF Quarantine
  <2> HIDE DEF q
  <2> QED
    BY <1>2, <2>2, <2>3, <2>4
<1>7. ASSUME NEW m \in Models, Prune(m) \/ Install(m)
      PROVE  IInv'
  BY <1>1, <1>3, <1>7 DEF Prune, Install
<1>8. CASE UNCHANGED vars
  BY <1>1, <1>3, <1>8 DEF vars
<1> QED
  BY <1>4, <1>5, <1>6, <1>7, <1>8 DEF Next

\* The inductive invariant of the registry, for all roles, models and specs.
THEOREM Invariance == Spec => []IInv
BY InitIInv, NextIInv, PTL DEF Spec

\* Type correctness.
THEOREM TypeCorrect == Spec => []TypeOK
<1>1. IInv => TypeOK
  BY DEF IInv
<1> QED
  BY Invariance, <1>1, PTL

\* However promotions, rollbacks and quarantines follow each other, the
\* rollback on offer has the snapshot of its own model and is another one than
\* the incumbent.
THEOREM Restoration == Spec => []RollbackIsRestorable
<1>1. IInv => RollbackIsRestorable
  BY DEF IInv, RollbackIsRestorable, Restorable
<1> QED
  BY Invariance, <1>1, PTL
-----------------------------------------------------------------------------
(***************************************************************************)
(* Pruning, and the way back.                                              *)
(***************************************************************************)

\* The models a role is served by now or after a rollback.
Needed(e) == {e.config.model} \cup Names(e.rollback)

\* What the new entry needs, the old one needed, or it is the new incumbent.
LEMMA RetainNeeds ==
  ASSUME NEW e \in Entry, NEW c \in Config,
         NEW history \in Seq(Models), Names(history) \subseteq Names(e.rollback)
  PROVE  Needed(Retain(e, c, history)) \subseteq Needed(e) \cup {c.model}
<1> DEFINE n == Newest(e, c, history)
<1>1. Retain(e, c, history).config = c /\ Retain(e, c, history).rollback = n
  BY DEF Retain
<1>2. Names(n) \subseteq Needed(e)
  <2>1. CASE e.config.model \notin {None, c.model}
    <3>1. n = <<e.config.model>>
      BY <2>1, NewestType
    <3> QED
      BY <3>1 DEF Names, Needed
  <2>2. CASE e.config.model \in {None, c.model} /\ history = <<>>
    <3>1. n = <<>>
      BY <2>2, NewestType, TrimType
    <3> QED
      BY <3>1 DEF Names
  <2>3. CASE e.config.model \in {None, c.model} /\ history # <<>>
    <3>1. n = <<Head(history)>>
      BY <2>3, NewestType, TrimType
    <3>2. Head(history) = history[1] /\ 1 \in DOMAIN history
      BY <2>3
    <3>3. Names(n) = {Head(history)}
      BY <3>1 DEF Names
    <3> QED
      BY <3>2, <3>3 DEF Names, Needed
  <2> QED
    BY <2>1, <2>2, <2>3
<1> QED
  BY <1>1, <1>2 DEF Needed

LEMMA InitPruning == Init => IncumbentsSurvivePruning
<1> SUFFICES ASSUME Init, NEW r \in Roles
             PROVE  Needed(roles[r]) = {None}
  BY DEF IncumbentsSurvivePruning, Needed
<1>1. roles[r] = Unregistered
  BY DEF Init
<1>2. roles[r].rollback = <<>> /\ roles[r].config.model = None
  BY <1>1 DEF Unregistered
<1>3. Names(<<>>) = {}
  BY DEF Names
<1> QED
  BY <1>2, <1>3 DEF Needed

LEMMA NextPruning ==
  IInv /\ IncumbentsSurvivePruning /\ [Next]_vars => IncumbentsSurvivePruning'
<1> SUFFICES ASSUME IInv, IncumbentsSurvivePruning, [Next]_vars,
                    NEW r \in Roles
             PROVE  Needed(roles'[r]) \subseteq installed' \cup {None}
  BY DEF IncumbentsSurvivePruning, Needed
<1>1. /\ roles \in [Roles -> Entry]
      /\ roles[r] \in Entry /\ Restorable(roles[r]) /\ Served(roles[r])
  BY TypeByEntry DEF IInv
<1>2. Needed(roles[r]) \subseteq installed \cup {None}
  BY DEF IncumbentsSurvivePruning, Needed
<1>3. ASSUME NEW m \in Models, NEW s \in Specs,
             NEW f \in Fallbacks \cup {None}, Promote(r, m, s, f)
      PROVE  Needed(roles'[r]) \subseteq installed' \cup {None}
  <2> DEFINE c == [roles[r].config EXCEPT !.model = m, !.spec = s,
                                          !.fallback = IF f = None THEN @ ELSE f]
  <2>1. c \in Config /\ c.model = m
    BY <1>1, RegistryAssumption DEF Entry, Config
  <2>2. roles[r].rollback \in Seq(Models)
    BY <1>1 DEF Entry
  <2> HIDE DEF c
  <2>3. Needed(Retain(roles[r], c, roles[r].rollback)) \subseteq Needed(roles[r]) \cup {m}
    BY <1>1, <2>1, <2>2, RetainNeeds
  <2>4. roles'[r] = Retain(roles[r], c, roles[r].rollback)
    BY <1>1, <1>3 DEF Promote, SetIncumbent, c
  <2> QED
    BY <1>2, <1>3, <2>3, <2>4 DEF Promote
<1>4. ASSUME Rollback(r)
      PROVE  Needed(roles'[r]) \subseteq installed' \cup {None}
  <2> DEFINE c == roles[r].snaps[Head(roles[r].rollback)]
  <2>1. /\ roles[r].rollback \in Seq(Models)
        /\ roles[r].rollback # <<>>
        /\ Len(roles[r].rollback) <= KEEP_ROLLBACK_N
        /\ Head(roles[r].rollback) \in installed
    BY <1>1, <1>4 DEF Entry, Rollback, CanRollback, Restorable
  <2>2. /\ Head(roles[r].rollback) \in Models
        /\ Head(roles[r].rollback) \in Names(roles[r].rollback)
        /\ Tail(roles[r].rollback) \in Seq(Models)
        /\ Names(Tail(roles[r].rollback)) = {}
    BY <2>1, LengthOne
  <2>3. c \in Config /\ c.model = Head(roles[r].rollback)
    BY <1>1, <1>4, <2>2 DEF Entry, Rollback, CanRollback, Restorable
  <2> HIDE DEF c
  <2>4. Needed(Retain(roles[r], c, Tail(roles[r].rollback)))
          \subseteq Needed(roles[r]) \cup {c.model}
    BY <1>1, <2>2, <2>3, RetainNeeds
  <2>5. roles'[r] = Retain(roles[r], c, Tail(roles[r].rollback))
    BY <1>1, <1>4 DEF Rollback, RolledBack, c
  <2> QED
    BY <1>2, <1>4, <2>1, <2>3, <2>4, <2>5 DEF Rollback
<1>5. ASSUME NEW m \in Suspects, Quarantine(r, m)
      PROVE  Needed(roles'[r]) \subseteq installed' \cup {None}
  <2>1. roles'[r].rollback = roles[r].rollback /\ roles'[r].config.model = roles[r].config.model
    BY <1>1, <1>5 DEF Quarantine, Entry, Config
  <2> QED
    BY <1>2, <1>5, <2>1 DEF Quarantine, Needed
<1>6. ASSUME NEW q \in Roles, q # r,
             \/ \E m \in Models, s \in Specs, f \in Fallbacks \cup {None} : Promote(q, m, s, f)
             \/ Rollback(q)
             \/ \E m \in Suspects : Quarantine(q, m)
      PROVE  Needed(roles'[r]) \subseteq installed' \cup {None}
  <2>1. roles'[r] = roles[r] /\ installed' = installed
    BY <1>1, <1>6 DEF Promote, Rollback, Quarantine
  <2> QED
    BY <1>2, <2>1
<1>7. ASSUME NEW m \in Models, Prune(m)
      PROVE  Needed(roles'[r]) \subseteq installed' \cup {None}
  <2>1. Trim(roles[r].rollback) = roles[r].rollback
    <3>1. CASE roles[r].rollback = <<>>
      BY <1>1, <3>1, TrimType DEF Entry
    <3>2. CASE roles[r].rollback # <<>>
      <4> DEFINE h == roles[r].rollback
      <4>1. /\ h \in Seq(Models)
            /\ Len(h) <= KEEP_ROLLBACK_N
        BY <1>1 DEF Entry, Restorable
      <4>2. Len(h) = 1
        BY <3>2, <4>1, LengthOne
      <4>3. Trim(h) = SubSeq(h, 1, Len(h))
        BY <4>2 DEF Trim, KEEP_ROLLBACK_N
      <4> QED
        BY <4>1, <4>3, SubSeqFull
    <3> QED
      BY <3>1, <3>2
  <2>2. Needed(roles[r]) \subseteq Protected
    BY <2>1 DEF Needed, Protected
  <2>3. m \notin Needed(roles[r])
    BY <1>7, <2>2 DEF Prune, PruneCandidates
  <2> QED
    BY <1>2, <1>7, <2>3 DEF Prune
<1>8. ASSUME NEW m \in Models, Install(m)
      PROVE  Needed(roles'[r]) \subseteq installed' \cup {None}
  BY <1>2, <1>8 DEF Install
<1>9. CASE UNCHANGED vars
  BY <1>2, <1>9 DEF vars
<1> QED
  BY <1>3, <1>4, <1>5, <1>6, <1>7, <1>8, <1>9 DEF Next

\* What a role is served by, now or after a rollback, is never pruned, be it
\* another role that needs it.
THEOREM Pruning == Spec => []IncumbentsSurvivePruning
BY Invariance, InitPruning, NextPruning, PTL DEF Spec

\* An entry whose incumbent gave way has its whole configuration on offer.
LEMMA RetainUndoes ==
  ASSUME NEW e \in Entry, Served(e), NEW c \in Config, NEW history \in Seq(Models),
         e.config.model \notin {None, c.model}, NEW disk, e.config.model \in disk
  PROVE  /\ CanRollback(Retain(e, c, history), disk)
         /\ RolledBack(Retain(e, c, history)).config = e.config
<1> DEFINE x == Retain(e, c, history)
<1>1. Newest(e, c, history) = <<e.config.model>> /\ Deposed(e, c.model) = <<e.config.model>>
  BY NewestType DEF Deposed
<1>2. Names(<<e.config.model>>) = {e.config.model}
  BY DEF Names
<1>3. e.config \in Config /\ e.config.model \in Models /\ e.config.spec # None
  BY DEF Entry, Config, Served
<1>4. x.rollback = <<e.config.model>> /\ x.snaps[e.config.model] = e.config
  BY <1>1, <1>2, <1>3 DEF Retain
<1>5. Head(x.rollback) = e.config.model /\ x.rollback # <<>>
  BY <1>4
<1>6. CanRollback(x, disk)
  BY <1>3, <1>4, <1>5, NoneAssumption DEF CanRollback
<1>7. RolledBack(x).config = x.snaps[Head(x.rollback)]
  BY DEF RolledBack, Retain
<1> QED
  BY <1>4, <1>5, <1>6, <1>7

LEMMA StepUndoes ==
  ASSUME IInv, IncumbentsSurvivePruning, Next, NEW r \in Roles,
         roles[r].config.model \notin {None, roles'[r].config.model}
  PROVE  /\ CanRollback(roles'[r], installed')
         /\ RolledBack(roles'[r]).config = roles[r].config
<1>1. /\ roles \in [Roles -> Entry]
      /\ roles[r] \in Entry /\ Restorable(roles[r]) /\ Served(roles[r])
      /\ roles[r].config.model \in installed
  BY TypeByEntry DEF IInv, IncumbentsSurvivePruning
<1>2. ASSUME NEW m \in Models, NEW s \in Specs,
             NEW f \in Fallbacks \cup {None}, Promote(r, m, s, f)
      PROVE  /\ CanRollback(roles'[r], installed')
             /\ RolledBack(roles'[r]).config = roles[r].config
  <2> DEFINE c == [roles[r].config EXCEPT !.model = m, !.spec = s,
                                          !.fallback = IF f = None THEN @ ELSE f]
  <2>1. c \in Config /\ roles[r].rollback \in Seq(Models)
    BY <1>1, RegistryAssumption DEF Entry, Config
  <2> HIDE DEF c
  <2>2. roles'[r] = Retain(roles[r], c, roles[r].rollback) /\ installed' = installed
    BY <1>1, <1>2 DEF Promote, SetIncumbent, c
  <2>3. roles'[r].config = c
    BY <2>2 DEF Retain
  <2> QED
    BY <1>1, <2>1, <2>2, <2>3, RetainUndoes
<1>3. ASSUME Rollback(r)
      PROVE  /\ CanRollback(roles'[r], installed')
             /\ RolledBack(roles'[r]).config = roles[r].config
  <2> DEFINE c == roles[r].snaps[Head(roles[r].rollback)]
             h == Tail(roles[r].rollback)
  <2>1. /\ roles[r].rollback \in Seq(Models)
        /\ roles[r].rollback # <<>>
        /\ Len(roles[r].rollback) <= KEEP_ROLLBACK_N
    BY <1>1, <1>3 DEF Entry, Rollback, CanRollback, Restorable
  <2>2. Head(roles[r].rollback) \in Models /\ h \in Seq(Models)
    BY <2>1, LengthOne
  <2>3. c \in Config
    BY <1>1, <1>3, <2>2 DEF Entry, Rollback, CanRollback
  <2>4. roles'[r] = Retain(roles[r], c, h) /\ installed' = installed
    BY <1>1, <1>3 DEF Rollback, RolledBack
  <2> HIDE DEF c, h
  <2>5. roles'[r].config = c
    BY <2>4 DEF Retain
  <2> QED
    BY <1>1, <2>2, <2>3, <2>4, <2>5, RetainUndoes
<1>4. ASSUME NEW m \in Suspects, Quarantine(r, m)
      PROVE  roles'[r].config.model = roles[r].config.model
  BY <1>1, <1>4 DEF Quarantine, Entry, Config
<1>5. ASSUME NEW q \in Roles, q # r,
             \/ \E m \in Models, s \in Specs, f \in Fallbacks \cup {None} : Promote(q, m, s, f)
             \/ Rollback(q)
             \/ \E m \in Suspects : Quarantine(q, m)
      PROVE  roles'[r] = roles[r]
  BY <1>1, <1>5 DEF Promote, Rollback, Quarantine
<1>6. ASSUME NEW m \in Models, Prune(m) \/ Install(m)
      PROVE  roles'[r] = roles[r]
  BY <1>6 DEF Prune, Install
<1> QED
  BY <1>2, <1>3, <1>4, <1>5, <1>6 DEF Next

\* Whenever a role changes its model, a rollback would restore what it was, in
\* every key, from a model that is still on the disk.
THEOREM Undo == Spec => EverySwapCanBeUndone
<1>1. IInv /\ IncumbentsSurvivePruning /\ [Next]_vars => [SwapCanBeUndone]_vars
  BY StepUndoes DEF SwapCanBeUndone
<1> QED
  BY <1>1, Invariance, Pruning, PTL DEF Spec, EverySwapCanBeUndone
====

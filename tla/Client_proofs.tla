---- MODULE Client_proofs ----
(***************************************************************************)
(* For any registries, configurations, roles and models: a private prompt  *)
(* reaches this machine only (IInv), a role's call asks no model that was  *)
(* in quarantine, and it ends with the answer of a model it asked or with  *)
(* every candidate exhausted (DInv).  The second half is about the engine  *)
(* that a call for JSON runs, SelfHealing: its calls are bounded and its   *)
(* blocks last (SInv), and a failed challenger is undone (UInv).           *)
(***************************************************************************)
EXTENDS Client, SelfHealing, FoldLemmas

Fields == {"pc", "json", "private", "role", "model", "todo", "left", "allowed",
           "barred", "failed", "asked", "served"}

\* The last hop to the broker is proved local before each post, or, for JSON,
\* before all of them; it does not change during the call.
HopProved ==
    Private => /\ call.pc \in {"post", "queued"} => hop = "local"
               /\ call.json /\ call.pc \notin {"idle", "prove", "unavailable"} =>
                    hop = "local"

IInv == /\ DOMAIN call = Fields
        /\ call.json \in BOOLEAN /\ call.private \in BOOLEAN
        /\ call.pc = "idle" => seen = {}
        /\ HopProved
        /\ PrivatePromptStaysLocal

-----------------------------------------------------------------------------
\* After a failed attempt the call goes on, or gives up, as it was.
LEMMA FailedKeeps ==
    ASSUME NEW state, DOMAIN state = Fields
    PROVE  /\ DOMAIN Failed(state) = Fields
           /\ Failed(state).pc \in {"next", "unavailable"}
           /\ Failed(state).private = state.private /\ Failed(state).json = state.json
  BY DEF Failed, Fields

LEMMA InitIInv == Init => IInv
  BY DEF Init, IInv, Fields, HopProved, PrivatePromptStaysLocal, Private

LEMMA CallIInv == IInv /\ Call => IInv'
<1> SUFFICES ASSUME IInv, Call PROVE IInv'
    OBVIOUS
<1>1. PICK json \in BOOLEAN, private \in BOOLEAN, to \in ToSet(RoleOrder) \cup Models :
        call' = [call EXCEPT !.pc = IF json /\ private THEN "prove" ELSE "read",
                             !.json = json, !.private = private,
                             !.role = IF to \in Models THEN None ELSE to,
                             !.model = IF to \in Models THEN to ELSE None]
    BY DEF Call
<1>2. /\ DOMAIN call' = Fields /\ call'.json = json /\ call'.private = private
      /\ call'.pc = IF json /\ private THEN "prove" ELSE "read"
    BY <1>1 DEF IInv, Fields
<1>3. seen' = {} /\ hop' = hop
    BY DEF Call, Silently, IInv
<1> QED BY <1>2, <1>3 DEF IInv, HopProved, PrivatePromptStaysLocal, Private

LEMMA ProveIInv == IInv /\ Prove => IInv'
<1> SUFFICES ASSUME IInv, Prove PROVE IInv'
    OBVIOUS
<1>1. PICK place \in {"read", "unavailable"} :
        /\ call' = [call EXCEPT !.pc = place]
        /\ place = "read" => hop = "local"
    BY DEF Prove, RouteIsLocal, RoleHasLocal
<1>2. /\ DOMAIN call' = Fields /\ call'.pc = place
      /\ call'.json = call.json /\ call'.private = call.private
    BY <1>1 DEF IInv, Fields
<1> QED BY <1>1, <1>2 DEF Prove, Silently, IInv, HopProved, PrivatePromptStaysLocal,
                          Private

LEMMA ReadIInv == IInv /\ Read => IInv'
<1> SUFFICES ASSUME IInv, Read PROVE IInv'
    OBVIOUS
<1>1. \E todo, barred :
        call' = [call EXCEPT !.pc = IF todo = <<>> THEN "unavailable" ELSE "next",
                             !.todo = todo, !.allowed = ToSet(todo), !.barred = barred]
    BY DEF Read
<1>2. /\ DOMAIN call' = Fields /\ call'.pc \in {"unavailable", "next"}
      /\ call'.json = call.json /\ call'.private = call.private
    BY <1>1 DEF IInv, Fields
<1> QED BY <1>2 DEF Read, Silently, IInv, HopProved, PrivatePromptStaysLocal, Private

LEMMA GuardIInv == IInv /\ Guard => IInv'
<1> SUFFICES ASSUME IInv, Guard PROVE IInv'
    OBVIOUS
<1>1. CASE call' = Failed(call)
    BY <1>1, FailedKeeps
       DEF Guard, Silently, IInv, HopProved, PrivatePromptStaysLocal, Private
<1>2. CASE /\ call' = [call EXCEPT !.pc = "post"]
           /\ Private => (Exact /\ call.json) \/ RouteIsLocal(Head(call.todo))
    <2>1. /\ DOMAIN call' = Fields /\ call'.pc = "post"
          /\ call'.json = call.json /\ call'.private = call.private
        BY <1>2 DEF IInv, Fields
    <2> QED BY <1>2, <2>1
            DEF Guard, Silently, IInv, HopProved, PrivatePromptStaysLocal, Private,
                RouteIsLocal
<1> QED BY <1>1, <1>2 DEF Guard

LEMMA PostIInv == IInv /\ Post => IInv'
<1> SUFFICES ASSUME IInv, Post PROVE IInv'
    OBVIOUS
<1> DEFINE asking == [call EXCEPT !.asked = @ \cup {Head(call.todo)}]
<1>1. /\ call.pc = "post" /\ hop' = hop /\ seen' = seen \cup {Hop}
      /\ call' = Failed(asking) \/ call' = [asking EXCEPT !.pc = "queued"]
    BY DEF Post
<1>2. DOMAIN asking = Fields /\ asking.json = call.json /\ asking.private = call.private
    BY DEF IInv, Fields
<1> HIDE DEF asking
<1>3. /\ DOMAIN call' = Fields /\ call'.pc \in {"next", "unavailable", "queued"}
      /\ call'.json = call.json /\ call'.private = call.private
    BY <1>1, <1>2, FailedKeeps DEF Fields
<1>4. Private => Hop = "local" /\ hop = "local"
    BY <1>1 DEF IInv, HopProved, Hop
<1> QED BY <1>1, <1>3, <1>4 DEF IInv, HopProved, PrivatePromptStaysLocal, Private

LEMMA ServeIInv == IInv /\ Serve => IInv'
<1> SUFFICES ASSUME IInv, Serve PROVE IInv'
    OBVIOUS
<1>1. /\ call.pc = "queued" /\ hop' = hop /\ seen' = seen \cup Base
      /\ \/ call' = Failed(call)
         \/ \E served, m : call' = [call EXCEPT !.pc = "done", !.served = served,
                                                !.model = m]
    BY DEF Serve
<1>2. /\ DOMAIN call' = Fields /\ call'.pc \in {"next", "unavailable", "done"}
      /\ call'.json = call.json /\ call'.private = call.private
    BY <1>1, FailedKeeps DEF IInv, Fields
<1>3. Private => Base \subseteq {"local"}
    BY DEF Base
<1> QED BY <1>1, <1>2, <1>3 DEF IInv, HopProved, PrivatePromptStaysLocal, Private

LEMMA NextIInv == IInv /\ [Next]_vars => IInv'
<1>1. IInv /\ Replaced => IInv'
    BY DEF Replaced, IInv, HopProved, PrivatePromptStaysLocal, Private
<1>2. IInv /\ UNCHANGED vars => IInv'
    BY DEF vars, IInv, HopProved, PrivatePromptStaysLocal, Private
<1> QED BY <1>1, <1>2, CallIInv, ProveIInv, ReadIInv, GuardIInv, PostIInv, ServeIInv
        DEF Next, Ended

\* The inductive invariant holds in every reachable state.
THEOREM Invariance == Spec => []IInv
BY InitIInv, NextIInv, PTL DEF Spec

\* A private prompt reaches no other machine, whatever the registries and the
\* configurations of client and broker say, and however the registry is
\* replaced during the call (client.py:126, :337, app.py:588).
THEOREM PrivateStaysLocal == Spec => []PrivatePromptStaysLocal
<1>1. IInv => PrivatePromptStaysLocal
    BY DEF IInv
<1> QED BY Invariance, <1>1, PTL
-----------------------------------------------------------------------------
(***************************************************************************)
(* The candidates.                                                         *)
(***************************************************************************)

\* What is left to ask and what has failed are all that may be asked, and
\* nothing of it is in quarantine.
Asking == /\ call.todo \in Seq(call.allowed) /\ call.todo # <<>>
          /\ IsInjective(call.todo)
          /\ call.failed \cap ToSet(call.todo) = {}
          /\ call.failed \cup ToSet(call.todo) = call.allowed

DInv == /\ registry \in Tables
        /\ call.pc \in {"idle", "prove", "read"} =>
             call.asked = {} /\ call.failed = {} /\ call.allowed = {}
        /\ call.pc \in {"next", "post", "queued"} => Asking
        /\ call.pc = "queued" => Head(call.todo) \in call.asked
        /\ call.asked \subseteq call.allowed
        /\ call.allowed \cap call.barred = {}
        /\ AnswerOrExhausted

\* The candidates of a role are not in quarantine, and each is there once.
LEMMA CandidatesAreFit ==
    ASSUME registry \in Tables, NEW r
    PROVE  \E X : /\ RoleCandidates(r) \in Seq(X)
                  /\ IsInjective(RoleCandidates(r))
                  /\ ToSet(RoleCandidates(r)) \cap Quarantine(r) = {}
<1>1. CASE r \notin DOMAIN Roles("client")
    <2>1. RoleCandidates(r) = <<>>
        BY <1>1 DEF RoleCandidates
    <2>2. <<>> \in Seq({}) /\ IsInjective(<<>>) /\ ToSet(<<>>) = {}
        BY DEF IsInjective, ToSet
    <2> QED BY <2>1, <2>2
<1>2. CASE r \in DOMAIN Roles("client")
    <2> DEFINE entry == Roles("client")[r]
               X == Models \cup {entry.model, entry.fallback}
               S == {None} \cup Quarantine(r)
    <2>1. entry.rollback \in Seq(Models)
        <3>1. \E table \in Tables \cup {Defaults, Config["client"].roles} :
                r \in DOMAIN table /\ entry = table[r]
            BY <1>2 DEF Roles
        <3> QED BY <3>1, ClientAssumption
    <2>2. Named(r) \in Seq(X)
        <3>1. entry.rollback \in Seq(X)
            BY <2>1
        <3>2. <<entry.model, entry.fallback>> \in Seq(X)
            OBVIOUS
        <3> HIDE DEF X
        <3> QED BY <3>1, <3>2 DEF Named
    <2> HIDE DEF X, entry
    <2>3. Once(Named(r)) \in Seq(X) /\ IsInjective(Once(Named(r)))
        BY <2>2, OnceKeeps
    <2>4. RoleCandidates(r) = Without(Once(Named(r)), S)
        BY <1>2 DEF RoleCandidates
    <2>5. /\ Without(Once(Named(r)), S) \in Seq(X)
          /\ ToSet(Without(Once(Named(r)), S)) = ToSet(Once(Named(r))) \ S
          /\ IsInjective(Without(Once(Named(r)), S))
        <3> HIDE DEF S
        <3> QED BY <2>3, WithoutKeeps
    <2> QED BY <2>4, <2>5
<1> QED BY <1>1, <1>2

\* After a failed attempt what is left is still to be asked, or all has failed.
LEMMA FailedAsking ==
    ASSUME NEW state, DOMAIN state = Fields,
           state.todo \in Seq(state.allowed), state.todo # <<>>,
           IsInjective(state.todo), state.failed \cap ToSet(state.todo) = {},
           state.failed \cup ToSet(state.todo) = state.allowed
    PROVE  LET new == Failed(state)
           IN  /\ new.asked = state.asked /\ new.allowed = state.allowed
               /\ new.barred = state.barred /\ new.pc \in {"next", "unavailable"}
               /\ new.pc = "unavailable" => new.failed = new.allowed
               /\ new.pc = "next" =>
                    /\ new.todo \in Seq(new.allowed) /\ new.todo # <<>>
                    /\ IsInjective(new.todo)
                    /\ new.failed \cap ToSet(new.todo) = {}
                    /\ new.failed \cup ToSet(new.todo) = new.allowed
<1> DEFINE new == Failed(state)
           rest == Tail(state.todo)
           h == Head(state.todo)
<1>1. /\ rest \in Seq(state.allowed) /\ IsInjective(rest)
      /\ ToSet(state.todo) = {h} \cup ToSet(rest) /\ h \notin ToSet(rest)
    BY TailKeeps
<1>2. CASE state.json /\ state.left > 0
    <2>1. new = [state EXCEPT !.pc = "next", !.left = @ - 1]
        BY <1>2 DEF Failed
    <2> HIDE DEF new
    <2>2. /\ new.pc = "next" /\ new.asked = state.asked /\ new.allowed = state.allowed
          /\ new.barred = state.barred /\ new.failed = state.failed
          /\ new.todo = state.todo
        BY <2>1 DEF Fields
    <2> QED BY <2>2 DEF new
<1>3. CASE ~(state.json /\ state.left > 0)
    <2>1. new = [state EXCEPT !.todo = rest, !.left = Retries, !.failed = @ \cup {h},
                              !.pc = IF rest = <<>> THEN "unavailable" ELSE "next"]
        BY <1>3 DEF Failed
    <2>2. ToSet(<<>>) = {}
        BY DEF ToSet
    <2> HIDE DEF new, rest, h
    <2>3. /\ new.pc = IF rest = <<>> THEN "unavailable" ELSE "next"
          /\ new.asked = state.asked /\ new.allowed = state.allowed
          /\ new.barred = state.barred /\ new.failed = state.failed \cup {h}
          /\ new.todo = rest
        BY <2>1 DEF Fields
    <2>4. /\ (state.failed \cup {h}) \cap ToSet(rest) = {}
          /\ (state.failed \cup {h}) \cup ToSet(rest) = state.allowed
        BY <1>1
    <2>5. new.pc = "unavailable" => new.failed = new.allowed
        BY <2>2, <2>3, <2>4
    <2> QED BY <1>1, <2>3, <2>4, <2>5 DEF new
<1> QED BY <1>2, <1>3

LEMMA InitDInv == Init => DInv
  BY DEF Init, DInv, AnswerOrExhausted

LEMMA CallDInv == IInv /\ DInv /\ (Call \/ Prove) => DInv'
<1> SUFFICES ASSUME IInv, DInv, Call \/ Prove PROVE DInv'
    OBVIOUS
<1>1. /\ DOMAIN call = Fields /\ registry' = registry
      /\ call.asked = {} /\ call.failed = {} /\ call.allowed = {}
    BY DEF IInv, DInv, Call, Prove, Silently
<1>2. /\ call'.pc \in {"prove", "read", "unavailable"} /\ call'.asked = call.asked
      /\ call'.failed = call.failed /\ call'.allowed = call.allowed
    BY <1>1 DEF Call, Prove, Fields
<1> QED BY <1>1, <1>2 DEF DInv, AnswerOrExhausted

LEMMA ReadDInv == IInv /\ DInv /\ Read => DInv'
<1> SUFFICES ASSUME IInv, DInv, Read PROVE DInv'
    OBVIOUS
<1> DEFINE list == RoleCandidates(call.role)
           barred == IF Exact THEN {} ELSE Quarantine(call.role)
           New(todo) == [call EXCEPT
                           !.pc = IF todo = <<>> THEN "unavailable" ELSE "next",
                           !.todo = todo, !.allowed = ToSet(todo), !.barred = barred]
<1>1. PICK todo : /\ call' = New(todo)
                  /\ \/ Exact /\ todo = <<call.model>>
                     \/ ~Exact /\ \E unfit : todo = Without(list, unfit)
    BY DEF Read
<1>2. /\ todo \in Seq(ToSet(todo)) /\ IsInjective(todo) /\ ToSet(todo) \cap barred = {}
    <2>1. CASE Exact /\ todo = <<call.model>>
        BY <2>1 DEF ToSet, IsInjective
    <2>2. ASSUME ~Exact, NEW unfit, todo = Without(list, unfit)
          PROVE  todo \in Seq(ToSet(todo)) /\ IsInjective(todo) /\ ToSet(todo) \cap barred = {}
        <3>1. PICK X : /\ list \in Seq(X) /\ IsInjective(list)
                       /\ ToSet(list) \cap Quarantine(call.role) = {}
            BY CandidatesAreFit DEF DInv
        <3> HIDE DEF list
        <3>2. /\ Without(list, unfit) \in Seq(X) /\ IsInjective(Without(list, unfit))
              /\ ToSet(Without(list, unfit)) = ToSet(list) \ unfit
            BY <3>1, WithoutKeeps
        <3>3. todo \in Seq(ToSet(todo))
            BY <2>2, <3>2 DEF ToSet
        <3> QED BY <2>2, <3>1, <3>2, <3>3
    <2> QED BY <1>1, <2>1, <2>2
<1> HIDE DEF list, barred
<1>3. /\ call.asked = {} /\ call.failed = {} /\ DOMAIN call = Fields
      /\ registry' = registry
    BY DEF IInv, DInv, Read, Silently
<1>4. /\ call'.pc = IF todo = <<>> THEN "unavailable" ELSE "next"
      /\ call'.todo = todo /\ call'.allowed = ToSet(todo) /\ call'.barred = barred
      /\ call'.asked = {} /\ call'.failed = {}
    BY <1>1, <1>3 DEF Fields
<1>5. ToSet(<<>>) = {}
    BY DEF ToSet
<1> QED BY <1>2, <1>3, <1>4, <1>5 DEF DInv, Asking, AnswerOrExhausted

LEMMA GuardDInv == IInv /\ DInv /\ Guard => DInv'
<1> SUFFICES ASSUME IInv, DInv, Guard PROVE DInv'
    OBVIOUS
<1>1. Asking /\ DOMAIN call = Fields /\ registry' = registry
    BY DEF IInv, DInv, Guard, Silently
<1>2. CASE call' = Failed(call)
    BY <1>1, <1>2, FailedAsking DEF DInv, Asking, AnswerOrExhausted
<1>3. CASE call' = [call EXCEPT !.pc = "post"]
    <2>1. /\ call'.pc = "post" /\ call'.todo = call.todo /\ call'.asked = call.asked
          /\ call'.failed = call.failed /\ call'.allowed = call.allowed
          /\ call'.barred = call.barred
        BY <1>1, <1>3 DEF Fields
    <2> QED BY <1>1, <2>1 DEF DInv, Asking, AnswerOrExhausted
<1> QED BY <1>2, <1>3 DEF Guard

LEMMA PostDInv == IInv /\ DInv /\ Post => DInv'
<1> SUFFICES ASSUME IInv, DInv, Post PROVE DInv'
    OBVIOUS
<1> DEFINE asking == [call EXCEPT !.asked = @ \cup {Head(call.todo)}]
<1>1. Asking /\ DOMAIN call = Fields /\ registry' = registry
    BY DEF IInv, DInv, Post
<1>2. call' = Failed(asking) \/ call' = [asking EXCEPT !.pc = "queued"]
    BY DEF Post
<1>3. /\ DOMAIN asking = Fields /\ asking.asked = call.asked \cup {Head(call.todo)}
      /\ asking.todo = call.todo /\ asking.failed = call.failed
      /\ asking.allowed = call.allowed /\ asking.barred = call.barred
    BY <1>1 DEF Fields
<1> HIDE DEF asking
<1>4. Head(call.todo) \in call.allowed
    BY <1>1 DEF Asking
<1>5. asking.asked \subseteq asking.allowed
    BY <1>3, <1>4 DEF DInv
<1>6. CASE call' = Failed(asking)
    BY <1>1, <1>3, <1>5, <1>6, FailedAsking DEF DInv, Asking, AnswerOrExhausted
<1>7. CASE call' = [asking EXCEPT !.pc = "queued"]
    <2>1. /\ call'.pc = "queued" /\ call'.todo = call.todo /\ call'.asked = asking.asked
          /\ call'.failed = call.failed /\ call'.allowed = call.allowed
          /\ call'.barred = call.barred
        BY <1>3, <1>7 DEF Fields
    <2> QED BY <1>1, <1>3, <1>5, <2>1 DEF DInv, Asking, AnswerOrExhausted
<1> QED BY <1>2, <1>6, <1>7

LEMMA ServeDInv == IInv /\ DInv /\ Serve => DInv'
<1> SUFFICES ASSUME IInv, DInv, Serve PROVE DInv'
    OBVIOUS
<1>1. /\ Asking /\ DOMAIN call = Fields /\ registry' = registry
      /\ Head(call.todo) \in call.asked
    BY DEF IInv, DInv, Serve
<1>2. CASE call' = Failed(call)
    BY <1>1, <1>2, FailedAsking DEF DInv, Asking, AnswerOrExhausted
<1>3. ASSUME NEW served, Accepts(served),
             call' = [call EXCEPT !.pc = "done", !.served = served,
                                  !.model = Head(call.todo)]
      PROVE  DInv'
    <2>1. /\ call'.pc = "done" /\ call'.served = served /\ call'.model = Head(call.todo)
          /\ call'.json = call.json /\ call'.asked = call.asked
          /\ call'.failed = call.failed /\ call'.allowed = call.allowed
          /\ call'.barred = call.barred
        BY <1>1, <1>3 DEF Fields
    <2>2. Head(call.todo) \in ToSet(call.todo)
        BY <1>1 DEF Asking, ToSet
    <2>3. Head(call.todo) \notin call.failed
        BY <1>1, <2>2 DEF Asking
    <2> QED BY <1>1, <1>3, <2>1, <2>3 DEF DInv, AnswerOrExhausted, Accepts
<1> QED BY <1>2, <1>3 DEF Serve

LEMMA NextDInv == IInv /\ DInv /\ [Next]_vars => DInv'
<1>1. IInv /\ DInv /\ Replaced => DInv'
    BY DEF Replaced, DInv, Asking, AnswerOrExhausted
<1>2. IInv /\ DInv /\ UNCHANGED vars => DInv'
    BY DEF vars, DInv, Asking, AnswerOrExhausted
<1> QED BY <1>1, <1>2, CallDInv, ReadDInv, GuardDInv, PostDInv, ServeDInv
        DEF Next, Ended

\* The candidates are in order in every reachable state.
THEOREM CandidatesInOrder == Spec => []DInv
BY Invariance, InitDInv, NextDInv, PTL DEF Spec

\* A role's call asks no model that the role had in quarantine when its
\* candidates were read, whatever the registry becomes (client.py:194).
THEOREM QuarantineIsKept == Spec => []QuarantinedNotAsked
<1>1. DInv => QuarantinedNotAsked
    BY DEF DInv, QuarantinedNotAsked
<1> QED BY CandidatesInOrder, <1>1, PTL

\* A call ends with the answer of a model it asked, or with all of them
\* refused or failed (client.py:521, :566).
THEOREM AnswersOrExhausts == Spec => []AnswerOrExhausted
<1>1. DInv => AnswerOrExhausted
    BY DEF DInv
<1> QED BY CandidatesInOrder, <1>1, PTL
-----------------------------------------------------------------------------
(***************************************************************************)
(* The engine that a call for JSON runs, and that recovers a role.         *)
(*                                                                         *)
(* How often a model is in a list.                                         *)
(***************************************************************************)
LEMMA TimesOfTail ==
    ASSUME NEW X, NEW s \in Seq(X), s # <<>>, NEW m
    PROVE  /\ Times(m, s) \in Nat /\ Times(m, Tail(s)) \in Nat
           /\ Times(m, s) = Times(m, Tail(s)) + IF Head(s) = m THEN 1 ELSE 0
<1> DEFINE n == Len(s)
           I == {i \in 1 .. n : s[i] = m}
           J == {i \in 1 .. n - 1 : s[i + 1] = m}
           f == [i \in J |-> i + 1]
<1>1. /\ n \in Nat /\ n > 0 /\ DOMAIN s = 1 .. n /\ Head(s) = s[1]
      /\ DOMAIN Tail(s) = 1 .. n - 1
      /\ \A i \in 1 .. n - 1 : Tail(s)[i] = s[i + 1]
    OBVIOUS
<1>2. Times(m, s) = Cardinality(I) /\ Times(m, Tail(s)) = Cardinality(J)
    <2>1. {i \in DOMAIN s : s[i] = m} = I /\ {i \in DOMAIN Tail(s) : Tail(s)[i] = m} = J
        BY <1>1
    <2> QED BY <2>1 DEF Times
<1>3. IsFiniteSet(I) /\ IsFiniteSet(J)
    <2>1. IsFiniteSet(1 .. n) /\ IsFiniteSet(1 .. n - 1)
        BY <1>1, FS_Interval
    <2>2. I \in SUBSET (1 .. n) /\ J \in SUBSET (1 .. n - 1)
        OBVIOUS
    <2> HIDE DEF I, J
    <2> QED BY <2>1, <2>2, FS_Subset
<1>4. Cardinality(I \ {1}) = Cardinality(J)
    <2>1. f \in Bijection(J, I \ {1})
        <3>1. \A i \in J : f[i] \in I \ {1}
            BY <1>1
        <3>2. \A k \in I \ {1} : k - 1 \in J /\ f[k - 1] = k
            BY <1>1
        <3>3. \A i, j \in J : f[i] = f[j] => i = j
            BY <1>1
        <3> HIDE DEF I, J
        <3> QED BY <3>1, <3>2, <3>3 DEF Bijection, Injection, Surjection, IsInjective
    <2>2. ExistsBijection(J, I \ {1})
        BY <2>1 DEF ExistsBijection
    <2> HIDE DEF I, J
    <2> QED BY <1>3, <2>2, FS_Bijection
<1>5. 1 \in I <=> Head(s) = m
    BY <1>1
<1> HIDE DEF I, J
<1>6. /\ Cardinality(I) \in Nat /\ Cardinality(J) \in Nat
      /\ Cardinality(I \ {1}) = IF 1 \in I THEN Cardinality(I) - 1 ELSE Cardinality(I)
    BY <1>3, FS_CardinalityType, FS_RemoveElement
<1> QED BY <1>2, <1>4, <1>5, <1>6

LEMMA TimesOfNone ==
    ASSUME NEW X, NEW s \in Seq(X), NEW m, m \notin ToSet(s)
    PROVE  Times(m, s) = 0
<1>1. {i \in DOMAIN s : s[i] = m} = {}
    BY DEF ToSet
<1> QED BY <1>1, FS_EmptySet DEF Times

LEMMA TimesOfInjective ==
    ASSUME NEW X, NEW s \in Seq(X), IsInjective(s), NEW m \in ToSet(s)
    PROVE  Times(m, s) = 1
<1>1. PICK k \in DOMAIN s : s[k] = m
    BY DEF ToSet
<1>2. {i \in DOMAIN s : s[i] = m} = {k}
    BY <1>1 DEF IsInjective
<1> QED BY <1>2, FS_Singleton DEF Times

\* The calls that a list may cost its models.
Worth(m, list) == (RepairAttempts + 1) * Times(m, list)

LEMMA WorthOfTail ==
    ASSUME NEW s \in Seq(AllModels), s # <<>>, NEW m
    PROVE  /\ Worth(m, s) \in Nat /\ Worth(m, Tail(s)) \in Nat
           /\ Worth(m, s) = Worth(m, Tail(s))
                              + IF Head(s) = m THEN RepairAttempts + 1 ELSE 0
<1> DEFINE N == RepairAttempts + 1
<1>1. N \in Nat
    BY SelfHealingAssumption
<1> HIDE DEF N
<1>2. \A k \in Nat : N * k \in Nat /\ N * (k + 1) = N * k + N /\ N * (k + 0) = N * k
    BY <1>1
<1>3. /\ Times(m, s) \in Nat /\ Times(m, Tail(s)) \in Nat
      /\ Times(m, s) = Times(m, Tail(s)) + IF Head(s) = m THEN 1 ELSE 0
    BY TimesOfTail
<1>4. /\ Worth(m, s) = N * Times(m, s) /\ Worth(m, Tail(s)) = N * Times(m, Tail(s))
    BY DEF Worth, N
<1>5. CASE Head(s) = m
    BY <1>1, <1>2, <1>3, <1>4, <1>5 DEF N
<1>6. CASE Head(s) # m
    <2>1. Times(m, s) = Times(m, Tail(s))
        BY <1>3, <1>6
    <2>2. Worth(m, s) = Worth(m, Tail(s)) /\ Worth(m, s) \in Nat
        BY <1>2, <1>3, <1>4, <2>1
    <2> QED BY <1>6, <2>2
<1> QED BY <1>5, <1>6

LEMMA WorthOfNone ==
    ASSUME NEW s \in Seq(AllModels), NEW m, m \notin ToSet(s)
    PROVE  Worth(m, s) = 0
BY TimesOfNone, SelfHealingAssumption DEF Worth

LEMMA WorthOfInjective ==
    ASSUME NEW s \in Seq(AllModels), IsInjective(s), NEW m \in ToSet(s)
    PROVE  Worth(m, s) = RepairAttempts + 1
BY TimesOfInjective, SelfHealingAssumption DEF Worth

LEMMA WorthIsNat ==
    ASSUME NEW s \in Seq(AllModels), NEW m
    PROVE  Worth(m, s) \in Nat
<1>1. CASE s = <<>>
    <2>1. m \notin ToSet(s)
        BY <1>1 DEF ToSet
    <2> QED BY <2>1, WorthOfNone
<1> QED BY <1>1, WorthOfTail
-----------------------------------------------------------------------------
(***************************************************************************)
(* A run's calls.  What it has asked of a model, what it may still ask of  *)
(* it as the current one, and what the models ahead may cost, are within   *)
(* its allowance.  While the run is at the installed models, and until     *)
(* discovery has returned, only these have been asked: discovery must pass *)
(* over them.                                                              *)
(***************************************************************************)
\* The states of one run.
Runs == [pc : Places, todo : Seq(AllModels), offer : Seq(AllModels), trial : BOOLEAN,
         left : 0 .. RepairAttempts, tried : SUBSET AllModels,
         before : AllModels \cup {NoModel}, calls : [AllModels -> 0 .. CallsBound],
         swapFailed : BOOLEAN, data : SUBSET (Jobs \X AllModels), read : BOOLEAN]

Attempts == {"try", "invoking", "validating", "blocking", "marking"}
Gated == Gates \cup {"rejecting"}

\* The models whose turn is still to come.
Ahead(run) ==
    IF run.pc \in Gated THEN run.todo
    ELSE IF run.pc \in Attempts \cup {"rollback"} THEN Tail(run.todo)
    ELSE <<>>

Due(run, m) ==
    IF run.pc \in Attempts /\ m = Head(run.todo)
    THEN run.left + (IF run.pc = "try" THEN 1 ELSE 0)
    ELSE 0

Load(run, m) == run.calls[m] + Due(run, m) + Worth(m, Ahead(run))

Quota(run, m) == IF m \in run.tried THEN RepairAttempts + 1 ELSE Worth(m, run.offer)

InTurn(run) ==
    /\ run \in Runs
    /\ run.pc \in Attempts \cup Gated \cup {"rollback"} => run.todo # <<>>
    /\ \/ run.pc \in {"idle", "discover", "discovering"}
       \/ run.pc \in Attempts /\ ~run.trial
       => run.offer = <<>>
    /\ run.pc = "idle" => ~run.trial /\ \A m \in AllModels : run.calls[m] = 0

Sound(run) == InTurn(run) /\ \A m \in AllModels : Load(run, m) <= Quota(run, m)

SInv == /\ DOMAIN eng = Engines
        /\ \A e \in Engines : Sound(eng[e])
        /\ late \subseteq Engines
        /\ blocked \subseteq Jobs \X AllModels
        /\ fleet \in [now : AllModels, back : AllModels \cup {NoModel}]

LEMMA NoWorth == ASSUME NEW m PROVE Worth(m, <<>>) = 0
<1>1. <<>> \in Seq(AllModels) /\ m \notin ToSet(<<>>)
    BY DEF ToSet
<1> QED BY <1>1, WorthOfNone

\* The parts of a load are numbers.
LEMMA LoadsAreNat ==
    ASSUME NEW run, InTurn(run), NEW m \in AllModels
    PROVE  /\ run.calls[m] \in Nat /\ Due(run, m) \in Nat
           /\ Ahead(run) \in Seq(AllModels) /\ Worth(m, Ahead(run)) \in Nat
           /\ Load(run, m) \in Nat /\ Quota(run, m) \in Nat
<1>1. /\ run.todo \in Seq(AllModels) /\ run.offer \in Seq(AllModels)
      /\ run.left \in Nat /\ run.calls[m] \in Nat /\ RepairAttempts \in Nat
    BY SelfHealingAssumption DEF InTurn, Runs
<1>2. Ahead(run) \in Seq(AllModels)
    <2>1. <<>> \in Seq(AllModels) /\ (run.todo # <<>> => Tail(run.todo) \in Seq(AllModels))
        BY <1>1
    <2> QED BY <1>1, <2>1 DEF Ahead, InTurn
<1>3. Worth(m, Ahead(run)) \in Nat /\ Worth(m, run.offer) \in Nat
    BY <1>1, <1>2, WorthIsNat
<1>4. Due(run, m) \in Nat
    BY <1>1 DEF Due
<1> QED BY <1>1, <1>2, <1>3, <1>4 DEF Load, Quota

\* A run that goes on with no more to ask is still sound.
LEMMA LessLoad ==
    ASSUME NEW old, Sound(old), NEW run, InTurn(run),
           run.tried = old.tried, run.offer = old.offer,
           \A m \in AllModels :
             run.calls[m] + Due(run, m) + Worth(m, Ahead(run))
               <= old.calls[m] + Due(old, m) + Worth(m, Ahead(old))
    PROVE  Sound(run)
<1> SUFFICES ASSUME NEW m \in AllModels PROVE Load(run, m) <= Quota(run, m)
    BY DEF Sound
<1>1. Load(old, m) <= Quota(old, m) /\ InTurn(old)
    BY DEF Sound
<1>2. Load(run, m) <= Load(old, m) /\ Quota(run, m) = Quota(old, m)
    BY DEF Load, Quota
<1>3. Load(run, m) \in Nat /\ Load(old, m) \in Nat /\ Quota(old, m) \in Nat
    BY <1>1, LoadsAreNat
<1> QED BY <1>1, <1>2, <1>3

\* ... so is one that leaves its attempts, with no more models ahead ...
LEMMA MovesOn ==
    ASSUME NEW old, Sound(old), NEW run, InTurn(run),
           run.tried = old.tried, run.offer = old.offer, run.calls = old.calls,
           run.pc \notin Attempts,
           \/ Ahead(run) = <<>>
           \/ Ahead(run) = Ahead(old)
           \/ Ahead(old) # <<>> /\ Ahead(run) = Tail(Ahead(old))
    PROVE  Sound(run)
<1>1. InTurn(old)
    BY DEF Sound
<1>2. ASSUME NEW m \in AllModels
      PROVE  run.calls[m] + Due(run, m) + Worth(m, Ahead(run))
               <= old.calls[m] + Due(old, m) + Worth(m, Ahead(old))
    <2>1. /\ old.calls[m] \in Nat /\ Due(old, m) \in Nat /\ Due(run, m) = 0
          /\ Worth(m, Ahead(old)) \in Nat /\ Worth(m, Ahead(run)) \in Nat
          /\ Ahead(old) \in Seq(AllModels)
        BY <1>1, LoadsAreNat DEF Due
    <2>2. Worth(m, Ahead(run)) <= Worth(m, Ahead(old))
        <3>1. CASE Ahead(run) = <<>>
            BY <2>1, <3>1, NoWorth
        <3>2. CASE Ahead(run) = Ahead(old)
            BY <2>1, <3>2
        <3>3. CASE Ahead(old) # <<>> /\ Ahead(run) = Tail(Ahead(old))
            BY <2>1, <3>3, WorthOfTail, SelfHealingAssumption
        <3> QED BY <3>1, <3>2, <3>3
    <2> QED BY <2>1, <2>2
<1> QED BY <1>2, LessLoad

\* ... one that comes to the first of the models ahead ...
LEMMA TakesTurn ==
    ASSUME NEW old, Sound(old), old.pc \notin {"try"}, NEW run, InTurn(run),
           run.tried = old.tried, run.offer = old.offer, run.calls = old.calls,
           run.pc = "try", run.left = RepairAttempts, run.todo = Ahead(old)
    PROVE  Sound(run)
<1>1. InTurn(old) /\ run.todo # <<>> /\ Ahead(run) = Tail(run.todo)
    BY DEF Sound, InTurn, Ahead, Attempts, Gated, Gates
<1>2. ASSUME NEW m \in AllModels
      PROVE  run.calls[m] + Due(run, m) + Worth(m, Ahead(run))
               <= old.calls[m] + Due(old, m) + Worth(m, Ahead(old))
    <2>1. /\ old.calls[m] \in Nat /\ Due(old, m) \in Nat
          /\ Worth(m, Ahead(old)) \in Nat /\ Ahead(old) \in Seq(AllModels)
        BY <1>1, LoadsAreNat
    <2>2. /\ Worth(m, Tail(run.todo)) \in Nat
          /\ Worth(m, Ahead(old)) = Worth(m, Tail(run.todo))
                             + IF Head(run.todo) = m THEN RepairAttempts + 1 ELSE 0
        BY <1>1, <2>1, WorthOfTail
    <2>3. Due(run, m) = IF Head(run.todo) = m THEN RepairAttempts + 1 ELSE 0
        BY DEF Due, Attempts
    <2>4. Due(run, m) + Worth(m, Ahead(run)) = Worth(m, Ahead(old))
        BY <1>1, <2>2, <2>3, SelfHealingAssumption
    <2> QED BY <1>1, <2>1, <2>2, <2>3, <2>4, SelfHealingAssumption
<1> QED BY <1>2, LessLoad

\* ... and one that goes on with the attempts of its current model.
LEMMA AttemptsGoOn ==
    ASSUME NEW old, Sound(old), old.pc \in Attempts, NEW run, InTurn(run),
           run.tried = old.tried, run.offer = old.offer, run.todo = old.todo,
           run.pc \in Attempts,
           \A m \in AllModels :
             run.calls[m] + Due(run, m) <= old.calls[m] + Due(old, m)
    PROVE  Sound(run)
<1>1. InTurn(old) /\ Ahead(run) = Ahead(old)
    BY DEF Sound, Ahead, Attempts, Gated, Gates
<1>2. ASSUME NEW m \in AllModels
      PROVE  run.calls[m] + Due(run, m) + Worth(m, Ahead(run))
               <= old.calls[m] + Due(old, m) + Worth(m, Ahead(old))
    <2>1. /\ old.calls[m] \in Nat /\ Due(old, m) \in Nat
          /\ run.calls[m] \in Nat /\ Due(run, m) \in Nat
          /\ Worth(m, Ahead(old)) \in Nat
        BY <1>1, LoadsAreNat
    <2>2. run.calls[m] + Due(run, m) <= old.calls[m] + Due(old, m)
        OBVIOUS
    <2> QED BY <1>1, <2>1, <2>2
<1> QED BY <1>2, LessLoad

LEMMA InitSInv == EngineInit => SInv
<1> SUFFICES ASSUME EngineInit PROVE SInv
    OBVIOUS
<1>1. RepairAttempts \in Nat /\ CallsBound \in Nat /\ Incumbent \in AllModels
    BY SelfHealingAssumption
<1>2. ASSUME NEW e \in Engines PROVE Sound(eng[e])
    <2> DEFINE r == [pc |-> "idle", todo |-> <<>>, offer |-> <<>>, trial |-> FALSE,
                     left |-> RepairAttempts, tried |-> {}, before |-> NoModel,
                     calls |-> [m \in AllModels |-> 0], swapFailed |-> FALSE,
                     data |-> {}, read |-> TRUE]
    <2>1. eng[e] = r
        BY DEF EngineInit
    <2>2. <<>> \in Seq(AllModels) /\ RepairAttempts \in 0 .. RepairAttempts
          /\ [m \in AllModels |-> 0] \in [AllModels -> 0 .. CallsBound]
        BY <1>1
    <2>3. r \in Runs
        BY <2>2 DEF Runs, Places
    <2>4. InTurn(r)
        BY <2>3 DEF InTurn, Attempts, Gated, Gates
    <2>5. ASSUME NEW m \in AllModels PROVE Load(r, m) <= Quota(r, m)
        <3>1. r.calls[m] = 0 /\ Due(r, m) = 0 /\ Ahead(r) = <<>> /\ m \notin r.tried
              /\ r.offer = <<>>
            BY DEF Due, Ahead, Attempts, Gated, Gates
        <3> HIDE DEF r
        <3> QED BY <3>1, NoWorth DEF Load, Quota
    <2> HIDE DEF r
    <2> QED BY <2>1, <2>4, <2>5 DEF Sound
<1> QED BY <1>1, <1>2 DEF SInv, EngineInit

\* One run took a step that leaves it sound, and the others and the role typed.
LEMMA OneRun ==
    ASSUME SInv, NEW e \in Engines, NEW STATE run, eng' = [eng EXCEPT ![e] = run], Sound(run),
           late' = late, blocked' \subseteq Jobs \X AllModels,
           fleet' \in [now : AllModels, back : AllModels \cup {NoModel}]
    PROVE  SInv'
<1>1. DOMAIN eng' = Engines /\ \A f \in Engines : eng'[f] = IF f = e THEN run ELSE eng[f]
    BY DEF SInv
<1>2. \A f \in Engines : Sound(eng'[f])
    BY <1>1 DEF SInv
<1>3. \A f \in Engines : Sound(eng[f])'
    BY <1>2 DEF Sound, InTurn, Load, Quota, Due, Runs, Ahead
<1> QED BY <1>1, <1>3 DEF SInv

\* A run that changes its place: it ends, goes to the next gate, or gives up
\* its attempts.
LEMMA MovedSound ==
    ASSUME NEW old, Sound(old), NEW run \in Runs,
           run.todo = old.todo, run.offer = old.offer, run.calls = old.calls,
           run.tried = old.tried, run.trial = old.trial,
           \/ run.pc \in Over
           \/ run.pc = "discovering" /\ old.pc = "discover"
           \/ run.pc \in Gated /\ old.pc \in Gates
           \/ run.pc = "rollback" /\ old.pc \in Attempts
           \/ run.pc = "discover" /\ old.pc \in Attempts /\ ~old.trial
    PROVE  Sound(run)
<1>1. InTurn(old)
    BY DEF Sound
<1>2. InTurn(run)
    BY <1>1 DEF InTurn, Over, Gated, Gates, Attempts
<1>3. run.pc \notin Attempts /\ (Ahead(run) = <<>> \/ Ahead(run) = Ahead(old))
    BY DEF Ahead, Over, Gated, Gates, Attempts
<1> QED BY <1>2, <1>3, MovesOn

\* A run that releases the store.
LEMMA UnlockedKeeps ==
    ASSUME NEW run \in Runs
    PROVE  LET r == Unlocked(run)
           IN  /\ r \in Runs /\ r.pc = run.pc /\ r.todo = run.todo /\ r.offer = run.offer
               /\ r.trial = run.trial /\ r.left = run.left /\ r.tried = run.tried
               /\ r.before = run.before /\ r.calls = run.calls
               /\ r.swapFailed = run.swapFailed
BY DEF Runs, Unlocked

\* The models of discovery after the current one.
LEMMA LaterSound ==
    ASSUME SInv, NEW e \in Engines, eng[e].pc \in Gated \cup {"rollback"},
           NEW STATE run,
           \/ run = Discovered(e, Tail(eng[e].todo))
           \/ run = [Discovered(e, Tail(eng[e].todo)) EXCEPT !.swapFailed = TRUE]
           \/ run = Unlocked(Discovered(e, Tail(eng[e].todo)))
    PROVE  Sound(run)
<1> DEFINE old == eng[e]
           list == Tail(old.todo)
           p == IF list = <<>> THEN "failed" ELSE "fit"
<1>1. Sound(old) /\ InTurn(old) /\ old \in Runs /\ old.todo \in Seq(AllModels) /\ old.todo # <<>>
    BY DEF SInv, Sound, InTurn, Runs
<1>2. list \in Seq(AllModels) /\ p \in Places
    BY <1>1 DEF Places, Gates, Over
<1>3. /\ run \in Runs /\ run.pc = p /\ run.todo = list /\ ~run.trial
      /\ run.calls = old.calls /\ run.tried = old.tried /\ run.offer = old.offer
    <2> HIDE DEF p, list, old
    <2>1. Discovered(e, list) = [old EXCEPT !.todo = list, !.trial = FALSE, !.pc = p]
        BY DEF Discovered, p, old
    <2> DEFINE later == Discovered(e, list)
               failed == [later EXCEPT !.swapFailed = TRUE]
    <2>2. /\ later \in Runs /\ later.pc = p /\ later.todo = list /\ ~later.trial
          /\ later.calls = old.calls /\ later.tried = old.tried /\ later.offer = old.offer
        BY <1>1, <1>2, <2>1 DEF Runs
    <2>3. run = later \/ run = failed \/ run = Unlocked(later)
        BY DEF list, old
    <2> HIDE DEF later
    <2>4. /\ failed \in Runs /\ failed.pc = p /\ failed.todo = list /\ ~failed.trial
          /\ failed.calls = old.calls /\ failed.tried = old.tried /\ failed.offer = old.offer
        BY <2>2 DEF Runs
    <2> HIDE DEF failed
    <2> QED BY <2>2, <2>3, <2>4, UnlockedKeeps
<1>4. Ahead(old) = IF old.pc \in Gated THEN old.todo ELSE list
    BY DEF Ahead, Attempts, Gated, Gates
<1>5. Ahead(run) = list
    BY <1>3 DEF Ahead, Attempts, Gated, Gates
<1>6. InTurn(run) /\ run.pc \notin Attempts
    BY <1>3 DEF InTurn, Attempts, Gated, Gates
<1> HIDE DEF old, list
<1> QED BY <1>1, <1>3, <1>4, <1>5, <1>6, MovesOn DEF list

\* After the last attempt of a candidate comes the next one, or the rollback.
LEMMA NextCandidateSound ==
    ASSUME SInv, NEW e \in Engines, eng[e].pc \in Attempts \ {"try"}, NEW STATE run,
           run = NextCandidate(e) \/ run = Unlocked(NextCandidate(e))
    PROVE  Sound(run)
<1> DEFINE old == eng[e]
           list == Tail(old.todo)
<1>1. /\ Sound(old) /\ InTurn(old) /\ old \in Runs
      /\ old.todo \in Seq(AllModels) /\ old.todo # <<>> /\ old.trial \in BOOLEAN
    BY DEF SInv, Sound, InTurn, Runs
<1>2. list \in Seq(AllModels) /\ Ahead(old) = list
    BY <1>1 DEF Ahead, Attempts, Gated, Gates
<1>3. CASE old.trial
    <2>1. NextCandidate(e) = [old EXCEPT !.pc = "rollback"] /\ "rollback" \in Places
        BY <1>3 DEF NextCandidate, Places
    <2> HIDE DEF old, list
    <2> DEFINE next == NextCandidate(e)
    <2>2. /\ next \in Runs /\ next.pc = "rollback" /\ next.todo = old.todo
          /\ next.calls = old.calls /\ next.tried = old.tried
          /\ next.offer = old.offer /\ next.trial = old.trial
        BY <1>1, <2>1 DEF Runs
    <2>3. /\ run \in Runs /\ run.pc = "rollback" /\ run.todo = old.todo
          /\ run.calls = old.calls /\ run.tried = old.tried
          /\ run.offer = old.offer /\ run.trial = old.trial
        BY <2>2, UnlockedKeeps
    <2> QED BY <1>1, <2>3, MovedSound DEF old
<1>4. CASE ~old.trial /\ list = <<>>
    <2>1. /\ NextCandidate(e) = [old EXCEPT !.pc = "discover", !.todo = list]
          /\ "discover" \in Places
        BY <1>4 DEF NextCandidate, Trying, Places
    <2> HIDE DEF old, list
    <2> DEFINE next == NextCandidate(e)
    <2>2. /\ next \in Runs /\ next.pc = "discover" /\ next.trial = old.trial
          /\ next.calls = old.calls /\ next.tried = old.tried /\ next.offer = old.offer
        BY <1>1, <1>2, <2>1 DEF Runs
    <2>3. /\ run \in Runs /\ run.pc = "discover" /\ run.trial = old.trial
          /\ run.calls = old.calls /\ run.tried = old.tried /\ run.offer = old.offer
        BY <2>2, UnlockedKeeps
    <2>4. InTurn(run) /\ Ahead(run) = <<>> /\ run.pc \notin Attempts
        BY <1>1, <1>4, <2>3 DEF InTurn, Ahead, Attempts, Gated, Gates, old
    <2> QED BY <1>1, <2>3, <2>4, MovesOn
<1>5. CASE ~old.trial /\ list # <<>>
    <2>1. /\ NextCandidate(e) =
                [old EXCEPT !.pc = "try", !.todo = list, !.left = RepairAttempts]
          /\ "try" \in Places /\ RepairAttempts \in 0 .. RepairAttempts
        BY <1>5, SelfHealingAssumption DEF NextCandidate, Trying, Places
    <2> HIDE DEF old, list
    <2> DEFINE next == NextCandidate(e)
    <2>2. /\ next \in Runs /\ next.pc = "try" /\ next.trial = old.trial /\ next.todo = list
          /\ next.calls = old.calls /\ next.tried = old.tried /\ next.offer = old.offer
          /\ next.left = RepairAttempts
        BY <1>1, <1>2, <2>1 DEF Runs
    <2>3. /\ run \in Runs /\ run.pc = "try" /\ run.trial = old.trial /\ run.todo = list
          /\ run.calls = old.calls /\ run.tried = old.tried /\ run.offer = old.offer
          /\ run.left = RepairAttempts
        BY <2>2, UnlockedKeeps
    <2>4. InTurn(run)
        BY <1>1, <1>5, <2>3 DEF InTurn, Attempts, Gated, Gates, old
    <2> QED BY <1>1, <1>2, <2>3, <2>4, TakesTurn DEF old
<1> QED BY <1>1, <1>3, <1>4, <1>5

\* The run's attempts end, because its deadline is over.
LEMMA AbandonSound ==
    ASSUME SInv, NEW e \in Engines, eng[e].pc \in Attempts
    PROVE  Sound(Abandon(e))
<1> DEFINE old == eng[e]
           p == IF old.trial THEN "rollback" ELSE "discover"
           new == [old EXCEPT !.pc = p]
<1>1. Abandon(e) = new /\ p \in Places /\ old \in Runs /\ Sound(old) /\ old.trial \in BOOLEAN
    BY DEF Abandon, SInv, Sound, InTurn, Runs, Places
<1> HIDE DEF old
<1>2. /\ new \in Runs /\ new.pc = p /\ new.todo = old.todo /\ new.offer = old.offer
      /\ new.calls = old.calls /\ new.tried = old.tried /\ new.trial = old.trial
    BY <1>1 DEF Runs
<1> HIDE DEF new
<1> QED BY <1>1, <1>2, MovedSound DEF old

\* Within the attempts of the current model, what it is asked and may still
\* be asked does not grow.
LEMMA WithinAttempts ==
    ASSUME SInv, NEW e \in Engines, eng[e].pc \in Attempts, NEW STATE run, run \in Runs,
           run.pc \in Attempts, run.todo = eng[e].todo, run.offer = eng[e].offer,
           run.tried = eng[e].tried, run.trial = eng[e].trial,
           \A m \in AllModels : run.calls[m] + Due(run, m) <= eng[e].calls[m] + Due(eng[e], m)
    PROVE  Sound(run)
<1>1. Sound(eng[e]) /\ InTurn(eng[e])
    BY DEF SInv, Sound
<1>2. InTurn(run)
    BY <1>1 DEF InTurn, Attempts, Gated, Gates
<1> QED BY <1>1, <1>2, AttemptsGoOn
-----------------------------------------------------------------------------
(***************************************************************************)
(* The steps of a run.                                                     *)
(***************************************************************************)
LEMMA StartSInv == SInv => \A e \in Engines : Start(e) => SInv'
<1> SUFFICES ASSUME SInv, NEW e \in Engines, Start(e) PROVE SInv'
    OBVIOUS
<1> DEFINE old == eng[e]
<1>0. PICK absent \in SUBSET Absent, noted \in SUBSET blocked :
        \E list \in {Without(Candidates, {NoModel} \cup absent \cup Unfit(e, noted))} :
          eng' = [eng EXCEPT ![e] = [Trying(e, list) EXCEPT
                                       !.tried = ToSet(list), !.before = fleet.now]]
    BY DEF Start
<1>1. PICK list :
        /\ list = Without(Candidates, {NoModel} \cup absent \cup Unfit(e, noted))
        /\ eng' = [eng EXCEPT ![e] = [Trying(e, list) EXCEPT
                                        !.tried = ToSet(list), !.before = fleet.now]]
    BY <1>0
<1> DEFINE run == [Trying(e, list) EXCEPT !.tried = ToSet(list), !.before = fleet.now]
<1>2. list \in Seq(AllModels) /\ IsInjective(list) /\ ToSet(list) \subseteq AllModels
    <2>1. <<fleet.now, Fallback, fleet.back>> \in Seq(AllModels \cup {NoModel})
        BY SelfHealingAssumption DEF SInv
    <2>2. /\ Candidates \in Seq(AllModels \cup {NoModel})
          /\ IsInjective(Candidates)
        BY <2>1, OnceKeeps DEF Candidates
    <2>3. /\ list \in Seq(AllModels \cup {NoModel}) /\ IsInjective(list)
          /\ ToSet(list) = ToSet(Candidates)
                            \ ({NoModel} \cup absent \cup Unfit(e, noted))
        BY <1>1, <2>2, WithoutKeeps
    <2>4. ToSet(Candidates) \subseteq AllModels \cup {NoModel}
        BY <2>2, ToSetIsFinite
    <2>5. \A i \in 1 .. Len(list) : list[i] \in AllModels
        BY <2>3, <2>4 DEF ToSet
    <2> QED BY <2>3, <2>4, <2>5 DEF ToSet
<1>3. /\ old \in Runs /\ ~old.trial /\ old.offer = <<>>
      /\ \A m \in AllModels : old.calls[m] = 0
      /\ fleet.now \in AllModels \cup {NoModel}
    BY DEF SInv, Sound, InTurn, Start
<1>4. RepairAttempts \in 0 .. RepairAttempts /\ {"discover", "try"} \subseteq Places
      /\ RepairAttempts \in Nat
    BY SelfHealingAssumption DEF Places
<1> HIDE DEF old
<1>5. /\ run \in Runs /\ run.offer = <<>> /\ ~run.trial /\ run.todo = list
      /\ run.tried = ToSet(list) /\ run.calls = old.calls
      /\ IF list = <<>> THEN run.pc = "discover"
         ELSE run.pc = "try" /\ run.left = RepairAttempts
    <2>1. CASE list = <<>>
        <3>1. Trying(e, list) = [old EXCEPT !.pc = "discover", !.todo = list]
            BY <2>1 DEF Trying, old
        <3> QED BY <1>2, <1>3, <1>4, <2>1, <3>1 DEF Runs
    <2>2. CASE list # <<>>
        <3>1. Trying(e, list) =
                [old EXCEPT !.pc = "try", !.todo = list, !.left = RepairAttempts]
            BY <2>2 DEF Trying, old
        <3> QED BY <1>2, <1>3, <1>4, <2>2, <3>1 DEF Runs
    <2> QED BY <2>1, <2>2
<1> HIDE DEF run
<1>6. InTurn(run)
    BY <1>5 DEF InTurn, Attempts, Gated, Gates
<1>7. ASSUME NEW m \in AllModels PROVE Load(run, m) <= Quota(run, m)
    <2>1. run.calls[m] = 0 /\ Quota(run, m) = IF m \in ToSet(list) THEN RepairAttempts + 1 ELSE 0
        BY <1>3, <1>5, NoWorth DEF Quota
    <2>2. CASE list = <<>>
        <3>1. Ahead(run) = <<>> /\ Due(run, m) = 0
            BY <1>5, <2>2 DEF Ahead, Due, Attempts, Gated, Gates
        <3> QED BY <1>4, <2>1, <3>1, NoWorth DEF Load
    <2>3. CASE list # <<>>
        <3>1. Ahead(run) = Tail(list)
            BY <1>5, <2>3 DEF Ahead, Attempts, Gated, Gates
        <3>2. Due(run, m) = IF Head(list) = m THEN RepairAttempts + 1 ELSE 0
            BY <1>4, <1>5, <2>3 DEF Due, Attempts
        <3>3. /\ Worth(m, Tail(list)) \in Nat
              /\ Worth(m, list) = Worth(m, Tail(list))
                                   + IF Head(list) = m THEN RepairAttempts + 1 ELSE 0
            BY <1>2, <2>3, WorthOfTail
        <3>4. Load(run, m) = Worth(m, list)
            BY <1>4, <2>1, <3>1, <3>2, <3>3 DEF Load
        <3>5. Worth(m, list) = IF m \in ToSet(list) THEN RepairAttempts + 1 ELSE 0
            BY <1>2, WorthOfInjective, WorthOfNone
        <3> QED BY <1>4, <2>1, <3>4, <3>5
    <2> QED BY <2>2, <2>3
<1>8. Sound(run)
    BY <1>6, <1>7 DEF Sound
<1> QED BY <1>1, <1>8, OneRun DEF SInv, Start, run

LEMMA InvokeSInv == SInv => \A e \in Engines : Invoke(e) => SInv'
<1> SUFFICES ASSUME SInv, NEW e \in Engines, Invoke(e) PROVE SInv'
    OBVIOUS
<1>1. Sound(eng[e]) /\ eng[e].pc = "try" /\ UNCHANGED <<late, blocked, fleet>>
    BY DEF SInv, Invoke
<1>2. CASE e \in late
    BY <1>1, <1>2, AbandonSound, OneRun DEF Invoke, SInv, Attempts
<1>3. CASE e \notin late
    <2> DEFINE old == eng[e]
               m == Model(e)
               n == IF old.calls[m] < CallsBound THEN old.calls[m] + 1 ELSE old.calls[m]
               new == [old EXCEPT !.pc = "invoking", !.calls[m] = n]
    <2>1. eng' = [eng EXCEPT ![e] = new]
        BY <1>3 DEF Invoke
    <2>2. /\ old \in Runs /\ m = Head(old.todo) /\ m \in AllModels
          /\ old.calls \in [AllModels -> 0 .. CallsBound]
          /\ old.left \in Nat /\ CallsBound \in Nat
        BY <1>1, SelfHealingAssumption DEF Sound, InTurn, Runs, Attempts, Model
    <2>3. n \in 0 .. CallsBound /\ n <= old.calls[m] + 1
        BY <2>2
    <2> HIDE DEF old, n, m
    <2>4. /\ new \in Runs /\ new.pc = "invoking" /\ new.todo = old.todo
          /\ new.trial = old.trial /\ new.tried = old.tried /\ new.left = old.left
          /\ new.offer = old.offer
          /\ \A k \in AllModels : new.calls[k] = IF k = m THEN n ELSE old.calls[k]
        BY <2>2, <2>3 DEF Runs, Places
    <2> HIDE DEF new
    <2>5. ASSUME NEW k \in AllModels
          PROVE  new.calls[k] + Due(new, k) <= old.calls[k] + Due(old, k)
        <3>1. old.pc = "try" /\ old.calls[k] \in Nat
            BY <1>1, <2>2 DEF old
        <3>2. CASE k = m
            <4>1. Due(new, k) = old.left /\ Due(old, k) = old.left + 1
                BY <2>2, <2>4, <3>1, <3>2 DEF Due, Attempts
            <4> QED BY <2>2, <2>3, <2>4, <3>1, <3>2, <4>1
        <3>3. CASE k # m
            <4>1. Due(new, k) = 0 /\ Due(old, k) = 0
                BY <2>2, <2>4, <3>3 DEF Due
            <4> QED BY <2>4, <3>1, <3>3, <4>1
        <3> QED BY <3>2, <3>3
    <2>6. Sound(new)
        BY <1>1, <2>4, <2>5, WithinAttempts DEF Attempts, old
    <2> QED BY <1>1, <2>1, <2>6, OneRun DEF SInv
<1> QED BY <1>2, <1>3

\* From one attempt to its validation, to the next, or to the store.
LEMMA AttemptSound ==
    ASSUME SInv, NEW e \in Engines, eng[e].pc \in Attempts \ {"try"},
           NEW STATE run, run \in Runs,
           run.todo = eng[e].todo, run.offer = eng[e].offer, run.calls = eng[e].calls,
           run.tried = eng[e].tried, run.trial = eng[e].trial,
           \/ run.pc \in Attempts \ {"try"} /\ run.left = eng[e].left
           \/ run.pc = "try" /\ run.left < eng[e].left
    PROVE  Sound(run)
<1>1. /\ eng[e].left \in Nat /\ run.left \in Nat /\ RepairAttempts \in Nat
      /\ \A m \in AllModels : eng[e].calls[m] \in Nat
    BY SelfHealingAssumption DEF SInv, Sound, InTurn, Runs
<1>2. ASSUME NEW m \in AllModels
      PROVE  run.calls[m] + Due(run, m) <= eng[e].calls[m] + Due(eng[e], m)
    <2>1. Due(run, m) \in Nat /\ Due(eng[e], m) \in Nat /\ Due(run, m) <= Due(eng[e], m)
        BY <1>1 DEF Due, Attempts
    <2> QED BY <1>1, <2>1
<1>3. run.pc \in Attempts
    BY DEF Attempts
<1> QED BY <1>2, <1>3, WithinAttempts

\* The run read the store, and holds its lock.
LEMMA ReadKeeps ==
    ASSUME SInv, NEW e \in Engines, NEW s \in Saving, ReadLocked(e, s)
    PROVE  \E run \in Runs :
             /\ eng' = [eng EXCEPT ![e] = run]
             /\ run.pc = s /\ run.todo = eng[e].todo /\ run.offer = eng[e].offer
             /\ run.calls = eng[e].calls /\ run.tried = eng[e].tried
             /\ run.trial = eng[e].trial /\ run.left = eng[e].left
             /\ run.before = eng[e].before /\ run.swapFailed = eng[e].swapFailed
             /\ run.data \in {blocked, {}} /\ run.read = (run.data = blocked)
<1>1. PICK data \in {blocked, {}} :
        eng' = [eng EXCEPT ![e].pc = s, ![e].data = data, ![e].read = (data = blocked)]
    BY DEF ReadLocked, Take
<1>2. eng[e] \in Runs /\ data \in SUBSET (Jobs \X AllModels) /\ s \in Places /\ DOMAIN eng = Engines
    BY DEF SInv, Sound, InTurn, Places, Saving
<1> DEFINE ok == (data = blocked)
           run == [eng[e] EXCEPT !.pc = s, !.data = data, !.read = ok]
<1>3. eng' = [eng EXCEPT ![e] = run]
    BY <1>1, <1>2
<1>4. ok \in BOOLEAN
    OBVIOUS
<1> HIDE DEF ok
<1>5. /\ run \in Runs /\ run.pc = s /\ run.todo = eng[e].todo /\ run.offer = eng[e].offer
      /\ run.calls = eng[e].calls /\ run.tried = eng[e].tried
      /\ run.trial = eng[e].trial /\ run.left = eng[e].left
      /\ run.before = eng[e].before /\ run.swapFailed = eng[e].swapFailed
      /\ run.data = data /\ run.read = ok
    BY <1>2, <1>4 DEF Runs
<1> QED BY <1>3, <1>5 DEF ok

LEMMA OutputSInv == SInv => \A e \in Engines : Output(e) => SInv'
<1> SUFFICES ASSUME SInv, NEW e \in Engines, Output(e) PROVE SInv'
    OBVIOUS
<1>1. /\ eng[e] \in Runs /\ eng[e].pc = "invoking" /\ UNCHANGED <<late, blocked, fleet>>
      /\ eng[e].pc \in Attempts \ {"try"}
    BY DEF SInv, Sound, InTurn, Output, Attempts
<1>2. CASE e \in late
    BY <1>1, <1>2, AbandonSound, OneRun DEF Output, SInv
<1>3. CASE e \notin late
    <2> DEFINE run == [eng[e] EXCEPT !.pc = "validating"]
    <2>1. eng' = [eng EXCEPT ![e] = run]
        BY <1>3 DEF Output
    <2>2. /\ run \in Runs /\ run.pc = "validating" /\ run.left = eng[e].left
          /\ run.todo = eng[e].todo /\ run.offer = eng[e].offer /\ run.calls = eng[e].calls
          /\ run.tried = eng[e].tried /\ run.trial = eng[e].trial
        BY <1>1 DEF Runs, Places
    <2> HIDE DEF run
    <2>3. Sound(run)
        BY <1>1, <2>2, AttemptSound DEF Attempts
    <2> QED BY <1>1, <2>1, <2>3, OneRun DEF SInv
<1> QED BY <1>2, <1>3

LEMMA RepairSInv == SInv => \A e \in Engines : Repair(e) => SInv'
<1> SUFFICES ASSUME SInv, NEW e \in Engines, Repair(e) PROVE SInv'
    OBVIOUS
<1>1. /\ eng[e] \in Runs /\ eng[e].pc \in Attempts \ {"try"} /\ eng[e].left > 0
      /\ UNCHANGED <<late, blocked, fleet>>
    BY DEF SInv, Sound, InTurn, Repair, Attempts
<1> DEFINE n == eng[e].left - 1
           run == [eng[e] EXCEPT !.pc = "try", !.left = n]
<1>2. eng' = [eng EXCEPT ![e] = run]
    BY DEF Repair, SInv
<1>3. n \in 0 .. RepairAttempts /\ n < eng[e].left
    BY <1>1, SelfHealingAssumption DEF Runs
<1> HIDE DEF n
<1>4. /\ run \in Runs /\ run.pc = "try" /\ run.left = n
      /\ run.todo = eng[e].todo /\ run.offer = eng[e].offer /\ run.calls = eng[e].calls
      /\ run.tried = eng[e].tried /\ run.trial = eng[e].trial
    BY <1>1, <1>3 DEF Runs, Places
<1> HIDE DEF run
<1>5. Sound(run)
    BY <1>1, <1>3, <1>4, AttemptSound
<1> QED BY <1>1, <1>2, <1>5, OneRun DEF SInv

LEMMA GiveUpSInv == SInv => \A e \in Engines : GiveUp(e) \/ Satisfy(e) => SInv'
<1> SUFFICES ASSUME SInv, NEW e \in Engines, GiveUp(e) \/ Satisfy(e) PROVE SInv'
    OBVIOUS
<1>1. /\ eng[e].pc \in Attempts \ {"try"} /\ UNCHANGED <<late, blocked, fleet>>
      /\ blocked \subseteq Jobs \X AllModels
    BY DEF SInv, GiveUp, Satisfy, Attempts
<1>2. ASSUME NEW s \in Saving \cap Attempts, ReadLocked(e, s) PROVE SInv'
    <2>1. PICK run \in Runs :
             /\ eng' = [eng EXCEPT ![e] = run]
             /\ run.pc = s /\ run.todo = eng[e].todo /\ run.offer = eng[e].offer
             /\ run.calls = eng[e].calls /\ run.tried = eng[e].tried
             /\ run.trial = eng[e].trial /\ run.left = eng[e].left
        BY <1>2, ReadKeeps
    <2>2. run.pc \in Attempts \ {"try"}
        BY <2>1 DEF Saving, Attempts
    <2>3. Sound(run)
        BY <1>1, <2>1, <2>2, AttemptSound
    <2> QED BY <1>1, <2>1, <2>3, OneRun DEF SInv
<1>3. CASE eng' = [eng EXCEPT ![e] = NextCandidate(e)]
    BY <1>1, <1>3, NextCandidateSound, OneRun DEF SInv
<1>4. {"blocking", "marking"} \subseteq Saving \cap Attempts
    BY DEF Saving, Attempts
<1> QED BY <1>2, <1>3, <1>4 DEF GiveUp, Satisfy

\* What a run saves are entries.
LEMMA SavedSInv ==
    SInv => \A e \in Engines :
              SaveFailure(e) \/ SaveSuccess(e) \/ SaveRejection(e) => SInv'
<1> SUFFICES ASSUME SInv, NEW e \in Engines,
                    SaveFailure(e) \/ SaveSuccess(e) \/ SaveRejection(e)
             PROVE  SInv'
    OBVIOUS
<1>1. /\ eng[e] \in Runs /\ eng[e].todo \in Seq(AllModels) /\ eng[e].todo # <<>>
      /\ eng[e].data \subseteq Jobs \X AllModels /\ blocked \subseteq Jobs \X AllModels
      /\ late' = late /\ fleet' = fleet
    BY DEF SInv, Sound, InTurn, Runs, SaveFailure, SaveSuccess, SaveRejection,
           Attempts, Gated
<1>2. Entry(e) \in Jobs \X AllModels
    BY <1>1, SelfHealingAssumption DEF Entry, Model
<1>3. blocked' \subseteq Jobs \X AllModels
    BY <1>1, <1>2 DEF SaveFailure, SaveSuccess, SaveRejection
<1>4. CASE SaveFailure(e)
    BY <1>1, <1>3, <1>4, NextCandidateSound, OneRun DEF SaveFailure, SInv, Attempts
<1>5. CASE SaveSuccess(e)
    <2> DEFINE done == Unlocked(eng[e])
               run == [done EXCEPT !.pc = "served"]
    <2>1. /\ done \in Runs /\ done.todo = eng[e].todo /\ done.offer = eng[e].offer
          /\ done.calls = eng[e].calls /\ done.tried = eng[e].tried
          /\ done.trial = eng[e].trial
        BY <1>1, UnlockedKeeps
    <2> HIDE DEF done
    <2>2. /\ run \in Runs /\ run.pc = "served" /\ run.todo = eng[e].todo
          /\ run.offer = eng[e].offer /\ run.calls = eng[e].calls
          /\ run.tried = eng[e].tried /\ run.trial = eng[e].trial
        BY <2>1 DEF Runs, Places, Over
    <2>3. eng' = [eng EXCEPT ![e] = run]
        BY <1>5 DEF SaveSuccess, done
    <2> HIDE DEF run
    <2>4. Sound(run)
        BY <2>2, MovedSound DEF Over, SInv
    <2> QED BY <1>1, <1>3, <2>3, <2>4, OneRun DEF SInv
<1>6. CASE SaveRejection(e)
    BY <1>1, <1>3, <1>6, LaterSound, OneRun DEF SaveRejection, SInv, Gated
<1> QED BY <1>4, <1>5, <1>6

\* A run goes to another place, and nothing else changes.
LEMMA MovedSInv ==
    ASSUME SInv, NEW e \in Engines, NEW s \in Places, Goto(e, s),
           UNCHANGED <<late, blocked, fleet>>,
           \/ s \in Over
           \/ s = "discovering" /\ eng[e].pc = "discover"
           \/ s \in Gates /\ eng[e].pc \in Gates
    PROVE  SInv'
<1> DEFINE run == [eng[e] EXCEPT !.pc = s]
<1>1. eng[e] \in Runs /\ Sound(eng[e]) /\ eng' = [eng EXCEPT ![e] = run]
    BY DEF SInv, Sound, InTurn, Goto
<1>2. /\ run \in Runs /\ run.pc = s /\ run.todo = eng[e].todo
      /\ run.offer = eng[e].offer /\ run.calls = eng[e].calls
      /\ run.tried = eng[e].tried /\ run.trial = eng[e].trial
    BY <1>1 DEF Runs
<1> HIDE DEF run
<1>3. Sound(run)
    BY <1>1, <1>2, MovedSound DEF Gated
<1> QED BY <1>1, <1>3, OneRun DEF SInv

LEMMA MovingSInv ==
    SInv => \A e \in Engines :
      Discover(e) \/ StopLate(e) \/ Pass(e) \/ StoreRaises(e) => SInv'
<1> SUFFICES ASSUME SInv, NEW e \in Engines,
                    Discover(e) \/ StopLate(e) \/ Pass(e) \/ StoreRaises(e)
             PROVE  SInv'
    OBVIOUS
<1>1. {"failed", "raised"} \subseteq Over /\ Over \cup Gates \cup {"discovering"} \subseteq Places
    BY DEF Over, Places
<1>2. CASE Discover(e)
    BY <1>1, <1>2, MovedSInv DEF Discover
<1>3. CASE StopLate(e)
    BY <1>1, <1>3, MovedSInv DEF StopLate
<1>4. CASE Pass(e)
    <2>1. \E s \in Gates : Goto(e, s) /\ eng[e].pc \in Gates
        BY <1>4 DEF Pass, Gates
    <2> QED BY <1>1, <1>4, <2>1, MovedSInv DEF Pass
<1>5. CASE StoreRaises(e)
    BY <1>1, <1>5, MovedSInv DEF StoreRaises
<1> QED BY <1>2, <1>3, <1>4, <1>5

LEMMA RefuseSInv ==
    SInv => \A e \in Engines : Refuse(e) \/ FailQuality(e) => SInv'
<1> SUFFICES ASSUME SInv, NEW e \in Engines, Refuse(e) \/ FailQuality(e) PROVE SInv'
    OBVIOUS
<1>1. Sound(eng[e]) /\ eng[e].pc \in Gates /\ UNCHANGED <<late, blocked, fleet>>
    BY DEF SInv, Refuse, FailQuality, Gates
<1>2. CASE Refuse(e)
    BY <1>1, <1>2, LaterSound, OneRun DEF Refuse, SInv, Gated
<1>3. CASE FailQuality(e)
    <2>1. "rejecting" \in Saving /\ "rejecting" \in Gated
        BY DEF Saving, Gated
    <2>2. PICK run \in Runs :
             /\ eng' = [eng EXCEPT ![e] = run]
             /\ run.pc = "rejecting" /\ run.todo = eng[e].todo /\ run.offer = eng[e].offer
             /\ run.calls = eng[e].calls /\ run.tried = eng[e].tried
             /\ run.trial = eng[e].trial
        BY <1>3, <2>1, ReadKeeps DEF FailQuality
    <2>3. Sound(run)
        BY <1>1, <2>1, <2>2, MovedSound
    <2> QED BY <1>1, <2>2, <2>3, OneRun DEF SInv
<1> QED BY <1>2, <1>3

\* Discovery offers, as often as it likes, what was not at the installed models'
\* turn.
LEMMA OfferedSInv == SInv => \A e \in Engines : Offered(e) => SInv'
<1> SUFFICES ASSUME SInv, NEW e \in Engines, Offered(e) PROVE SInv'
    OBVIOUS
<1> DEFINE old == eng[e]
<1>0. PICK o \in Offers \cup {<<>>}, noted \in SUBSET blocked :
        \E list \in {IF e \in late THEN <<>> ELSE Without(o, Unfit(e, noted) \cup Skip(e))} :
          eng' = [eng EXCEPT ![e] = [Discovered(e, list) EXCEPT !.offer = list]]
    BY DEF Offered
<1>1. PICK list :
        /\ list = IF e \in late THEN <<>> ELSE Without(o, Unfit(e, noted) \cup Skip(e))
        /\ eng' = [eng EXCEPT ![e] = [Discovered(e, list) EXCEPT !.offer = list]]
    BY <1>0
<1>2. list \in Seq(AllModels) /\ ToSet(list) \cap old.tried = {}
    <2>1. <<>> \in Seq(AllModels) /\ ToSet(<<>>) = {}
        BY DEF ToSet
    <2>2. o \in Seq(AllModels)
        BY <2>1, SelfHealingAssumption
    <2>3. /\ Without(o, Unfit(e, noted) \cup Skip(e)) \in Seq(AllModels)
          /\ ToSet(Without(o, Unfit(e, noted) \cup Skip(e)))
               = ToSet(o) \ (Unfit(e, noted) \cup Skip(e))
        BY <2>2, WithoutKeeps
    <2> QED BY <1>1, <2>1, <2>3 DEF Skip
<1>3. /\ old \in Runs /\ Sound(old) /\ InTurn(old)
      /\ old.pc = "discovering" /\ old.offer = <<>>
    BY DEF Offered, SInv, Sound, InTurn
<1> HIDE DEF old
<1> DEFINE p == IF list = <<>> THEN "failed" ELSE "fit"
           run == [old EXCEPT !.todo = list, !.trial = FALSE, !.pc = p, !.offer = list]
<1>4. p \in Places
    BY DEF Places, Over, Gates
<1>5. eng' = [eng EXCEPT ![e] = run]
    BY <1>1, <1>3 DEF Discovered, Runs, old
<1>6. /\ run \in Runs /\ run.pc = p /\ run.todo = list /\ run.offer = list
      /\ run.calls = old.calls /\ run.tried = old.tried
    BY <1>2, <1>3, <1>4 DEF Runs
<1> HIDE DEF run
<1>7. InTurn(run) /\ Ahead(run) = list /\ run.pc \notin Attempts
    BY <1>6 DEF InTurn, Ahead, Attempts, Gated, Gates
<1>8. ASSUME NEW m \in AllModels PROVE Load(run, m) <= Quota(run, m)
    <2>1. Ahead(old) = <<>> /\ Due(old, m) = 0 /\ Due(run, m) = 0
        BY <1>3, <1>7 DEF Ahead, Due, Attempts, Gated, Gates
    <2>2. /\ old.calls[m] \in Nat /\ Worth(m, list) \in Nat
          /\ Quota(old, m) = IF m \in old.tried THEN RepairAttempts + 1 ELSE 0
          /\ Load(old, m) = old.calls[m]
        BY <1>2, <1>3, <2>1, LoadsAreNat, NoWorth, WorthIsNat DEF Quota, Load
    <2>3. old.calls[m] <= Quota(old, m)
        BY <1>3, <2>2 DEF Sound
    <2>4. Load(run, m) = old.calls[m] + Worth(m, list)
        BY <1>6, <1>7, <2>1, <2>2 DEF Load
    <2>5. CASE m \in old.tried
        <3>1. Worth(m, list) = 0
            BY <1>2, <2>5, WorthOfNone
        <3> QED BY <1>6, <2>2, <2>3, <2>4, <2>5, <3>1 DEF Quota
    <2>6. CASE m \notin old.tried
        BY <1>6, <2>2, <2>3, <2>4, <2>6 DEF Quota
    <2> QED BY <2>5, <2>6
<1>9. Sound(run)
    BY <1>7, <1>8 DEF Sound
<1> QED BY <1>5, <1>9, OneRun DEF Offered, SInv

LEMMA PromoteSInv ==
    SInv => \A e \in Engines : Promote(e) \/ PromoteHalfway(e) => SInv'
<1> SUFFICES ASSUME SInv, NEW e \in Engines, Promote(e) \/ PromoteHalfway(e)
             PROVE  SInv'
    OBVIOUS
<1> DEFINE old == eng[e]
<1>1. /\ old.pc = "promote" /\ UNCHANGED <<late, blocked>> /\ fleet' = Promoted(Model(e))
      /\ Sound(old) /\ InTurn(old) /\ blocked \subseteq Jobs \X AllModels
    BY DEF Promote, PromoteHalfway, SInv, Sound
<1>2. old \in Runs /\ old.todo \in Seq(AllModels) /\ old.todo # <<>>
    BY <1>1 DEF InTurn, Gated, Gates, Runs
<1>3. fleet' \in [now : AllModels, back : AllModels \cup {NoModel}]
    BY <1>1, <1>2 DEF Promoted, Model, SInv
<1>4. CASE Promote(e)
    <2> DEFINE run == [old EXCEPT !.pc = "try", !.trial = TRUE, !.left = RepairAttempts]
    <2>1. eng' = [eng EXCEPT ![e] = run]
        BY <1>4 DEF Promote, SInv
    <2>2. RepairAttempts \in 0 .. RepairAttempts /\ "try" \in Places
        BY SelfHealingAssumption DEF Places
    <2> HIDE DEF old
    <2>3. /\ run \in Runs /\ run.pc = "try" /\ run.todo = old.todo /\ run.trial
          /\ run.offer = old.offer /\ run.calls = old.calls /\ run.tried = old.tried
          /\ run.left = RepairAttempts
        BY <1>2, <2>2 DEF Runs
    <2> HIDE DEF run
    <2>4. InTurn(run)
        BY <1>2, <2>3 DEF InTurn, Attempts, Gated, Gates
    <2>5. Ahead(old) = old.todo
        BY <1>1 DEF Ahead, Gated, Gates
    <2>6. Sound(run)
        BY <1>1, <2>3, <2>4, <2>5, TakesTurn
    <2> QED BY <1>1, <1>3, <2>1, <2>6, OneRun
<1>5. CASE PromoteHalfway(e)
    <2>1. old.pc \in Gated
        BY <1>1 DEF Gated, Gates
    <2> QED BY <1>1, <1>3, <1>5, <2>1, LaterSound, OneRun DEF PromoteHalfway
<1> QED BY <1>4, <1>5

LEMMA RollbackSInv == SInv => \A e \in Engines : Rollback(e) => SInv'
<1> SUFFICES ASSUME SInv, NEW e \in Engines, Rollback(e) PROVE SInv'
    OBVIOUS
<1>1. /\ UNCHANGED <<late, blocked>> /\ blocked \subseteq Jobs \X AllModels
      /\ fleet' \in [now : AllModels, back : AllModels \cup {NoModel}]
    BY DEF Rollback, RolledBack, SInv
<1> QED BY <1>1, LaterSound, OneRun DEF Rollback

\* No run took a step; what one has read of the store may have lost an entry.
LEMMA NoRun ==
    ASSUME SInv, late' \subseteq Engines, blocked' \subseteq blocked, fleet' = fleet,
           DOMAIN eng' = Engines,
           \A e \in Engines : eng'[e] = eng[e] \/ \E b : eng'[e] = [eng[e] EXCEPT !.data = @ \ {b}]
    PROVE  SInv'
<1>1. ASSUME NEW e \in Engines PROVE Sound(eng'[e])
    <2> DEFINE old == eng[e]
    <2>1. Sound(old) /\ InTurn(old) /\ old \in Runs
        BY DEF SInv, Sound, InTurn
    <2>2. CASE eng'[e] = old
        BY <2>1, <2>2
    <2>3. ASSUME NEW b, eng'[e] = [old EXCEPT !.data = @ \ {b}] PROVE Sound(eng'[e])
        <3> DEFINE rest == old.data \ {b}
                   run == [old EXCEPT !.data = rest]
        <3> HIDE DEF old
        <3>1. rest \in SUBSET (Jobs \X AllModels)
            BY <2>1 DEF Runs
        <3> HIDE DEF rest
        <3>2. /\ run \in Runs /\ run.pc = old.pc /\ run.todo = old.todo
              /\ run.offer = old.offer /\ run.calls = old.calls /\ run.tried = old.tried
              /\ run.trial = old.trial /\ run.left = old.left
            BY <2>1, <3>1 DEF Runs
        <3>3. eng'[e] = run
            BY <2>3 DEF rest
        <3> HIDE DEF run
        <3>4. InTurn(run) /\ Ahead(run) = Ahead(old)
            BY <2>1, <3>2 DEF InTurn, Ahead
        <3>5. \A m \in AllModels : Due(run, m) = Due(old, m)
            BY <3>2 DEF Due
        <3>6. ASSUME NEW m \in AllModels
              PROVE  run.calls[m] + Due(run, m) + Worth(m, Ahead(run))
                       <= old.calls[m] + Due(old, m) + Worth(m, Ahead(old))
            BY <2>1, <3>2, <3>4, <3>5, LoadsAreNat
        <3>7. Sound(run)
            BY <2>1, <3>2, <3>4, <3>6, LessLoad
        <3> QED BY <3>3, <3>7
    <2> QED BY <2>2, <2>3
<1>2. \A f \in Engines : Sound(eng[f])'
    BY <1>1 DEF Sound, InTurn, Load, Quota, Due, Runs, Ahead
<1> QED BY <1>2 DEF SInv

LEMMA NextSInv == SInv /\ [EngineNext]_enginevars => SInv'
<1>1. ASSUME SInv, NEW e \in Engines, DeadlinePasses(e) PROVE SInv'
    <2>1. late' \subseteq Engines /\ blocked' \subseteq blocked
        BY <1>1 DEF DeadlinePasses, SInv
    <2> QED BY <1>1, <2>1, NoRun DEF DeadlinePasses, SInv
<1>2. ASSUME SInv, NEW b \in blocked, Expires(b) PROVE SInv'
    <2>1. /\ late' \subseteq Engines /\ blocked' \subseteq blocked /\ DOMAIN eng' = Engines
          /\ \A e \in Engines : eng'[e] = [eng[e] EXCEPT !.data = @ \ {b}]
        BY <1>2 DEF Expires, SInv
    <2> QED BY <1>2, <2>1, NoRun DEF Expires
<1>3. ASSUME SInv, UNCHANGED enginevars PROVE SInv'
    <2>1. late' \subseteq Engines /\ blocked' \subseteq blocked
        BY <1>3 DEF enginevars, SInv
    <2> QED BY <1>3, <2>1, NoRun DEF enginevars, SInv
<1>4. ASSUME SInv, NEW e \in Engines, Step(e) PROVE SInv'
    BY <1>4, StartSInv, InvokeSInv, OutputSInv, RepairSInv, GiveUpSInv, SavedSInv,
       MovingSInv, OfferedSInv, RefuseSInv, PromoteSInv, RollbackSInv DEF Step
<1> QED BY <1>1, <1>2, <1>3, <1>4 DEF EngineNext

\* No run of the engine asks a model more often than the contract's repairs
\* allow: one of the role no more although it is discovered too, and another as
\* often as discovery offers it (self_healing.py:309, :317, :462).
THEOREM CallsBounded == EngineSpec => []BoundedCalls
<1>1. SInv => BoundedCalls
    <2> SUFFICES ASSUME SInv, NEW e \in Engines, NEW m \in AllModels
                 PROVE  eng[e].calls[m] <=
                          (RepairAttempts + 1) *
                            IF m \in eng[e].tried THEN 1 ELSE Times(m, eng[e].offer)
        BY DEF BoundedCalls
    <2>1. InTurn(eng[e]) /\ Load(eng[e], m) <= Quota(eng[e], m)
        BY DEF SInv, Sound
    <2>2. eng[e].calls[m] <= Quota(eng[e], m)
        BY <2>1, LoadsAreNat DEF Load
    <2>3. CASE m \in eng[e].tried
        BY <2>2, <2>3, SelfHealingAssumption DEF Quota
    <2>4. CASE m \notin eng[e].tried
        BY <2>2, <2>4 DEF Quota, Worth
    <2> QED BY <2>3, <2>4
<1> QED BY <1>1, InitSInv, NextSInv, PTL DEF EngineSpec

\* The runs take their models in turn in every reachable state
\* (self_healing.py:316, :458).
THEOREM Soundness == EngineSpec => []SInv
BY InitSInv, NextSInv, PTL DEF EngineSpec
-----------------------------------------------------------------------------
(***************************************************************************)
(* The store: one run at a time has read it and not yet saved it, and what *)
(* it has read is the whole store, or nothing.                             *)
(***************************************************************************)
Holding ==
    /\ \A e, f \in Engines : eng[e].pc \in Saving /\ eng[f].pc \in Saving => e = f
    /\ \A e \in Engines :
         eng[e].pc \in Saving =>
           eng[e].data = IF eng[e].read THEN blocked ELSE {}

LEMMA InitHolding == EngineInit => Holding
<1> SUFFICES ASSUME EngineInit PROVE Holding
    OBVIOUS
<1>1. \A e \in Engines : eng[e].pc = "idle"
    BY DEF EngineInit
<1> QED BY <1>1 DEF Holding, Saving

\* A step reads the store for a change, or leaves the run without its lock; only
\* a run that had it changes the store.
LEMMA ReadsOrLeaves ==
    ASSUME SInv, NEW e \in Engines, Step(e)
    PROVE  \/ \E s \in Saving : ReadLocked(e, s) /\ UNCHANGED blocked
           \/ /\ \A f \in Engines \ {e} : eng'[f] = eng[f]
              /\ eng'[e].pc \notin Saving
              /\ eng[e].pc \in Saving \/ UNCHANGED blocked
<1> DEFINE Leaves == /\ \A f \in Engines \ {e} : eng'[f] = eng[f]
                     /\ eng'[e].pc \notin Saving
           old == eng[e]
<1>1. old \in Runs /\ DOMAIN eng = Engines
    BY DEF SInv, Sound, InTurn
<1>2. {"blocking", "rejecting", "marking"} \subseteq Saving
    BY DEF Saving
<1>3. ASSUME NEW run, eng' = [eng EXCEPT ![e] = run], run.pc \notin Saving PROVE Leaves
    BY <1>1, <1>3
<1> HIDE DEF Leaves
<1>4. ASSUME NEW s, Goto(e, s), s \notin Saving PROVE Leaves
    <2> DEFINE run == [old EXCEPT !.pc = s]
    <2>1. eng' = [eng EXCEPT ![e] = run] /\ run.pc = s
        BY <1>1, <1>4 DEF Goto, Runs
    <2> HIDE DEF run
    <2> QED BY <1>3, <1>4, <2>1
<1>5. ASSUME NEW list PROVE Trying(e, list).pc \in {"discover", "try"}
    BY <1>1 DEF Trying, Runs
<1>6. ASSUME NEW list
      PROVE  /\ Discovered(e, list).pc \in {"failed", "fit"}
             /\ [Discovered(e, list) EXCEPT !.swapFailed = TRUE].pc \in {"failed", "fit"}
             /\ [Discovered(e, list) EXCEPT !.offer = list].pc \in {"failed", "fit"}
             /\ Unlocked(Discovered(e, list)).pc \in {"failed", "fit"}
    BY <1>1 DEF Discovered, Unlocked, Runs
<1>7. /\ Abandon(e).pc \in {"discover", "rollback"}
      /\ NextCandidate(e).pc \in {"discover", "try", "rollback"}
      /\ Unlocked(NextCandidate(e)).pc \in {"discover", "try", "rollback"}
    BY <1>1 DEF Abandon, NextCandidate, Trying, Unlocked, Runs
<1>8. {"discover", "try", "failed", "fit", "rollback", "served", "validating", "invoking",
       "discovering", "raised", "install", "evaluate", "promote"} \cap Saving = {}
    BY DEF Saving
<1>9. CASE Start(e)
    <2>1. PICK list : eng' = [eng EXCEPT ![e] = [Trying(e, list) EXCEPT
                                        !.tried = ToSet(list), !.before = fleet.now]]
        BY <1>9 DEF Start
    <2>2. [Trying(e, list) EXCEPT !.tried = ToSet(list), !.before = fleet.now].pc
            = Trying(e, list).pc
        BY <1>1 DEF Trying, Runs
    <2>3. Leaves
        BY <1>3, <1>5, <1>8, <2>1, <2>2
    <2> QED BY <1>9, <2>3 DEF Start, Leaves
<1>10. CASE Invoke(e)
    <2> DEFINE run == [old EXCEPT !.pc = "invoking", !.calls[Model(e)] =
                                    IF @ < CallsBound THEN @ + 1 ELSE @]
    <2>1. run.pc = "invoking"
        BY <1>1 DEF Runs
    <2>2. eng' = [eng EXCEPT ![e] = IF e \in late THEN Abandon(e) ELSE run]
        BY <1>10 DEF Invoke
    <2> HIDE DEF run
    <2>3. Leaves
        BY <1>3, <1>7, <1>8, <2>1, <2>2
    <2> QED BY <1>10, <2>3 DEF Invoke, Leaves
<1>11. CASE Output(e)
    <2> DEFINE run == [old EXCEPT !.pc = "validating"]
    <2>1. run.pc = "validating"
        BY <1>1 DEF Runs
    <2>2. eng' = [eng EXCEPT ![e] = IF e \in late THEN Abandon(e) ELSE run]
        BY <1>11 DEF Output
    <2> HIDE DEF run
    <2>3. Leaves
        BY <1>3, <1>7, <1>8, <2>1, <2>2
    <2> QED BY <1>11, <2>3 DEF Output, Leaves
<1>12. CASE Repair(e)
    <2> DEFINE run == [old EXCEPT !.pc = "try", !.left = @ - 1]
    <2>1. run.pc = "try" /\ eng' = [eng EXCEPT ![e] = run]
        BY <1>1, <1>12 DEF Repair, Runs
    <2> HIDE DEF run
    <2>2. Leaves
        BY <1>3, <1>8, <2>1
    <2> QED BY <1>12, <2>2 DEF Repair, Leaves
<1>13. CASE Satisfy(e) \/ FailQuality(e)
    BY <1>2, <1>13 DEF Satisfy, FailQuality
<1>14. CASE GiveUp(e)
    <2>1. CASE ReadLocked(e, "blocking")
        BY <1>2, <1>14, <2>1 DEF GiveUp
    <2>2. CASE eng' = [eng EXCEPT ![e] = NextCandidate(e)]
        <3>1. Leaves
            BY <1>3, <1>7, <1>8, <2>2
        <3> QED BY <1>14, <3>1 DEF GiveUp, Leaves
    <2> QED BY <1>14, <2>1, <2>2 DEF GiveUp
<1>15. CASE SaveSuccess(e)
    <2> DEFINE run == [Unlocked(old) EXCEPT !.pc = "served"]
    <2>1. run.pc = "served" /\ eng' = [eng EXCEPT ![e] = run]
        BY <1>1, <1>15 DEF SaveSuccess, Unlocked, Runs
    <2> HIDE DEF run
    <2>2. Leaves
        BY <1>3, <1>8, <2>1
    <2> QED BY <1>2, <1>15, <2>2 DEF SaveSuccess, Leaves
<1>16. CASE SaveFailure(e)
    <2>1. Leaves
        BY <1>3, <1>7, <1>8, <1>16 DEF SaveFailure
    <2> QED BY <1>2, <1>16, <2>1 DEF SaveFailure, Leaves
<1>17. CASE SaveRejection(e)
    <2>1. Leaves
        BY <1>3, <1>6, <1>8, <1>17 DEF SaveRejection
    <2> QED BY <1>2, <1>17, <2>1 DEF SaveRejection, Leaves
<1>18. CASE Discover(e) \/ StopLate(e) \/ Pass(e) \/ StoreRaises(e)
    <2>1. Leaves
        BY <1>4, <1>8, <1>18 DEF Discover, StopLate, Pass, StoreRaises
    <2> QED BY <1>18, <2>1 DEF Discover, StopLate, Pass, StoreRaises, Leaves
<1>19. CASE Offered(e)
    <2>1. PICK list : eng' = [eng EXCEPT ![e] = [Discovered(e, list) EXCEPT !.offer = list]]
        BY <1>19 DEF Offered
    <2>2. Leaves
        BY <1>3, <1>6, <1>8, <2>1
    <2> QED BY <1>19, <2>2 DEF Offered, Leaves
<1>20. CASE Refuse(e) \/ PromoteHalfway(e) \/ Rollback(e)
    <2> DEFINE later == Discovered(e, Tail(old.todo))
               failed == [later EXCEPT !.swapFailed = TRUE]
    <2>1. eng' = [eng EXCEPT ![e] = later] \/ eng' = [eng EXCEPT ![e] = failed]
        BY <1>20 DEF Refuse, PromoteHalfway, Rollback
    <2>2. later.pc \notin Saving /\ failed.pc \notin Saving
        BY <1>6, <1>8
    <2> HIDE DEF later, failed
    <2>3. Leaves
        BY <1>3, <2>1, <2>2
    <2> QED BY <1>20, <2>3 DEF Refuse, PromoteHalfway, Rollback, Leaves
<1>21. CASE Promote(e)
    <2> DEFINE run == [old EXCEPT !.pc = "try", !.trial = TRUE, !.left = RepairAttempts]
    <2>1. run.pc = "try" /\ eng' = [eng EXCEPT ![e] = run]
        BY <1>1, <1>21 DEF Promote, Runs
    <2> HIDE DEF run
    <2>2. Leaves
        BY <1>3, <1>8, <2>1
    <2> QED BY <1>21, <2>2 DEF Promote, Leaves
<1> QED BY <1>9, <1>10, <1>11, <1>12, <1>13, <1>14, <1>15, <1>16, <1>17, <1>18, <1>19,
           <1>20, <1>21 DEF Step

LEMMA StepHolding ==
    ASSUME SInv, Holding, NEW e \in Engines, Step(e)
    PROVE  Holding'
<1>1. CASE \E s \in Saving : ReadLocked(e, s) /\ UNCHANGED blocked
    <2>1. PICK s \in Saving : ReadLocked(e, s) /\ UNCHANGED blocked
        BY <1>1
    <2>2. PICK run \in Runs :
             /\ eng' = [eng EXCEPT ![e] = run]
             /\ run.data \in {blocked, {}} /\ run.read = (run.data = blocked)
        BY <2>1, ReadKeeps
    <2>3. \A f \in Engines : eng[f].pc \notin Saving
        BY <2>1 DEF ReadLocked, Free
    <2>4. \A f \in Engines : eng'[f] = IF f = e THEN run ELSE eng[f]
        BY <2>2 DEF SInv
    <2> QED BY <2>1, <2>2, <2>3, <2>4 DEF Holding
<1>2. CASE /\ \A f \in Engines \ {e} : eng'[f] = eng[f]
           /\ eng'[e].pc \notin Saving
           /\ eng[e].pc \in Saving \/ UNCHANGED blocked
    BY <1>2 DEF Holding
<1> QED BY <1>1, <1>2, ReadsOrLeaves

\* An entry expires in the store and in what was read of it.
LEMMA ExpiresData ==
    ASSUME SInv, NEW b \in blocked, Expires(b), NEW e \in Engines
    PROVE  /\ eng'[e].pc = eng[e].pc /\ eng'[e].read = eng[e].read
           /\ eng'[e].data = eng[e].data \ {b}
<1>1. eng'[e] = [eng[e] EXCEPT !.data = @ \ {b}] /\ eng[e] \in Runs
    BY DEF Expires, SInv, Sound, InTurn
<1> QED BY <1>1 DEF Runs

LEMMA NextHolding == SInv /\ Holding /\ [EngineNext]_enginevars => Holding'
<1>1. ASSUME SInv, Holding, NEW b \in blocked, Expires(b) PROVE Holding'
    <2>1. blocked' = blocked \ {b}
        BY <1>1 DEF Expires
    <2>2. \A e \in Engines : /\ eng'[e].pc = eng[e].pc /\ eng'[e].read = eng[e].read
                             /\ eng'[e].data = eng[e].data \ {b}
        BY <1>1, ExpiresData
    <2> QED BY <1>1, <2>1, <2>2 DEF Holding
<1>2. ASSUME Holding, UNCHANGED <<eng, blocked>> PROVE Holding'
    BY <1>2 DEF Holding
<1> QED BY <1>1, <1>2, StepHolding DEF EngineNext, DeadlinePasses, enginevars

\* What a step takes out of the store.
LEMMA StepBlockLasts == SInv /\ Holding /\ [EngineNext]_enginevars => BlockLasts
<1> SUFFICES ASSUME SInv, Holding, [EngineNext]_enginevars, NEW b \in blocked \ blocked'
             PROVE  \/ \A e \in Engines : eng'[e].pc = eng[e].pc
                    \/ \E e \in Engines :
                         /\ eng[e].pc \in Saving /\ eng'[e].pc # eng[e].pc
                         /\ IF eng[e].pc = "marking" THEN b = Entry(e) ELSE ~eng[e].read
    BY DEF BlockLasts
<1>1. ASSUME NEW c \in blocked, Expires(c) PROVE \A e \in Engines : eng'[e].pc = eng[e].pc
    BY <1>1, ExpiresData
<1>2. ASSUME NEW e \in Engines, Step(e)
      PROVE  /\ eng[e].pc \in Saving /\ eng'[e].pc # eng[e].pc
             /\ IF eng[e].pc = "marking" THEN b = Entry(e) ELSE ~eng[e].read
    <2>1. eng[e].pc \in Saving /\ eng'[e].pc \notin Saving
        BY <1>2, ReadsOrLeaves
    <2>2. eng[e].data = IF eng[e].read THEN blocked ELSE {}
        BY <2>1 DEF Holding
    <2>3. SaveFailure(e) \/ SaveSuccess(e) \/ SaveRejection(e)
        BY <1>2, <2>1 DEF Step, Saving, Gates, Start, Invoke, Output, Satisfy, Repair, GiveUp,
             Discover, Offered, StopLate, Refuse, Pass, FailQuality, Promote, PromoteHalfway,
             Rollback, StoreRaises
    <2>4. CASE SaveFailure(e) \/ SaveRejection(e)
        <3>1. eng[e].pc # "marking" /\ b \notin eng[e].data
            BY <2>4 DEF SaveFailure, SaveRejection
        <3> QED BY <2>1, <2>2, <3>1
    <2>5. CASE SaveSuccess(e)
        <3>1. eng[e].pc = "marking" /\ eng[e].data = blocked /\ b = Entry(e)
            BY <2>2, <2>5 DEF SaveSuccess
        <3> QED BY <2>1, <3>1
    <2> QED BY <2>3, <2>4, <2>5
<1> QED BY <1>1, <1>2 DEF EngineNext, DeadlinePasses, enginevars

\* An entry of the store is lost to its expiry, to its model's success, or to a
\* run that saves a store it could not read (self_healing.py:84); never to two
\* runs that change the store at the same time (self_healing.py:66).
THEOREM BlocksLast == EngineSpec => EveryBlockLasts
<1>1. SInv /\ Holding /\ [EngineNext]_enginevars => (SInv /\ Holding)'
    BY NextSInv, NextHolding
<1> QED BY InitSInv, InitHolding, <1>1, StepBlockLasts, PTL DEF EngineSpec, EveryBlockLasts
-----------------------------------------------------------------------------
\* At most one run has the adapters, and discovery offers challengers only.
Alone == /\ \A e, f \in Equipped : e = f
         /\ \A o \in Offers : Incumbent \notin ToSet(o)

\* A run with the adapters, when the role is as given: unless a swap failed, the
\* incumbent is in place, or it is the one to come back behind a challenger on
\* trial.  The incumbent itself is not offered.
Undoable(run, role) ==
    /\ run.before \in {NoModel, Incumbent}
    /\ run.trial => run.pc \in Attempts \cup {"rollback", "served", "raised"}
    /\ run.pc = "rollback" => run.trial
    /\ run.trial \/ run.pc \in Gated =>
         run.todo # <<>> /\ Incumbent \notin ToSet(run.todo)
    /\ run.pc = "idle" => ~run.swapFailed
    /\ \/ run.swapFailed
       \/ run.trial /\ role = [now |-> Head(run.todo), back |-> Incumbent]
       \/ ~run.trial /\ role.now = Incumbent

\* A run without the adapters never gets that far.
Bare(run) == ~run.trial /\ run.pc \notin Gated \cup {"discovering", "rollback"}

UInv == /\ \A e \in Equipped : Undoable(eng[e], fleet)
        /\ \A e \in Engines \ Equipped : Bare(eng[e])

LEMMA InitUInv == EngineInit => UInv
<1> SUFFICES ASSUME EngineInit PROVE UInv
    OBVIOUS
<1>1. /\ Equipped \subseteq Engines /\ fleet.now = Incumbent
      /\ \A e \in Engines : /\ eng[e].pc = "idle" /\ ~eng[e].trial /\ eng[e].before = NoModel
                             /\ ~eng[e].swapFailed
    BY SelfHealingAssumption DEF EngineInit
<1> QED BY <1>1 DEF UInv, Undoable, Bare, Gated, Gates, Attempts

\* Only a run with the adapters changes the role, and there is one of them.
LEMMA OneUInv ==
    ASSUME SInv, UInv, Alone, NEW e \in Engines, NEW STATE run,
           eng' = [eng EXCEPT ![e] = run],
           e \in Equipped => Undoable(run, fleet'),
           e \notin Equipped => Bare(run) /\ fleet' = fleet
    PROVE  UInv'
<1>1. /\ Equipped \subseteq Engines
      /\ \A f \in Engines : eng'[f] = IF f = e THEN run ELSE eng[f]
    BY SelfHealingAssumption DEF SInv
<1>2. ASSUME NEW f \in Equipped PROVE Undoable(eng'[f], fleet')
    BY <1>1 DEF UInv, Alone
<1>3. ASSUME NEW f \in Engines \ Equipped PROVE Bare(eng'[f])
    BY <1>1 DEF UInv
<1>4. \A f \in Equipped : Undoable(eng[f], fleet)'
    BY <1>2 DEF Undoable, Attempts, Gated, Gates
<1>5. \A f \in Engines \ Equipped : Bare(eng[f])'
    BY <1>3 DEF Bare, Gated, Gates
<1> QED BY <1>4, <1>5 DEF UInv

\* A step within the attempts, or one that ends them.
LEMMA AttemptUInv ==
    ASSUME SInv, UInv, Alone, NEW e \in Engines, NEW STATE run,
           eng' = [eng EXCEPT ![e] = run], fleet' = fleet,
           eng[e].pc \in Attempts \cup {"idle", "discover", "discovering"},
           run.before = eng[e].before, run.swapFailed = eng[e].swapFailed,
           run.trial = eng[e].trial, run.pc # "idle",
           IF eng[e].trial THEN /\ run.todo = eng[e].todo
                                /\ run.pc \in Attempts \cup {"rollback", "served", "raised"}
           ELSE run.pc \in Attempts \cup {"discover"} \cup Over
    PROVE  UInv'
<1>1. e \in Equipped => Undoable(eng[e], fleet)
    BY DEF UInv
<1>2. e \notin Equipped => Bare(eng[e])
    BY DEF UInv
<1>3. e \in Equipped => Undoable(run, fleet')
    BY <1>1 DEF Undoable, Attempts, Gated, Gates, Over
<1>4. e \notin Equipped => Bare(run)
    BY <1>2 DEF Bare, Attempts, Gated, Gates, Over
<1> QED BY <1>3, <1>4, OneUInv

\* Discovery goes on, with the incumbent in place.
LEMMA DiscoveredUInv ==
    ASSUME SInv, UInv, Alone, NEW e \in Equipped, NEW STATE run,
           eng' = [eng EXCEPT ![e] = run],
           NEW STATE list, list \in Seq(AllModels), Incumbent \notin ToSet(list),
           \/ /\ \/ run = Discovered(e, list)
                 \/ run = [Discovered(e, list) EXCEPT !.offer = list]
                 \/ run = Unlocked(Discovered(e, list))
              /\ eng[e].swapFailed \/ fleet'.now = Incumbent
           \/ run = [Discovered(e, list) EXCEPT !.swapFailed = TRUE]
    PROVE  UInv'
<1>1. e \in Engines /\ eng[e] \in Runs /\ Undoable(eng[e], fleet)
    BY SelfHealingAssumption DEF SInv, UInv, Sound, InTurn
<1>2. /\ run.before = eng[e].before /\ ~run.trial /\ run.todo = list
      /\ run.pc = IF list = <<>> THEN "failed" ELSE "fit"
      /\ run.swapFailed \/ fleet'.now = Incumbent
    BY <1>1 DEF Discovered, Unlocked, Runs
<1>3. Undoable(run, fleet')
    BY <1>1, <1>2 DEF Undoable, Attempts, Gated, Gates
<1> QED BY <1>1, <1>3, OneUInv

\* The models after the current one do not have the incumbent either.
LEMMA LaterUInv ==
    ASSUME SInv, UInv, NEW e \in Equipped, eng[e].pc \in Gated \cup {"rollback"}
    PROVE  /\ e \in Engines /\ eng[e] \in Runs
           /\ eng[e].todo \in Seq(AllModels) /\ eng[e].todo # <<>>
           /\ Head(eng[e].todo) \in ToSet(eng[e].todo)
           /\ Incumbent \notin ToSet(eng[e].todo)
           /\ Tail(eng[e].todo) \in Seq(AllModels)
           /\ Incumbent \notin ToSet(Tail(eng[e].todo))
<1>1. e \in Engines
    BY SelfHealingAssumption DEF SInv
<1>2. /\ eng[e] \in Runs /\ eng[e].todo \in Seq(AllModels) /\ eng[e].todo # <<>>
    BY <1>1 DEF SInv, Sound, InTurn, Runs
<1>3. Incumbent \notin ToSet(eng[e].todo)
    BY DEF UInv, Undoable
<1> QED BY <1>1, <1>2, <1>3, TailKeeps

\* While nothing is on trial the incumbent is in place, or a swap has failed.
LEMMA InPlace ==
    ASSUME SInv, UInv, NEW e \in Equipped,
           eng[e].pc \in Gated \cup {"discover", "discovering"}
    PROVE  eng[e].swapFailed \/ fleet.now = Incumbent
BY DEF UInv, Undoable, Attempts, Gated, Gates

\* Only a run with the adapters gets there.
LEMMA OnlyEquipped ==
    ASSUME UInv, NEW e \in Engines, eng[e].pc \in Gated \cup {"discovering", "rollback"}
    PROVE  e \in Equipped
BY DEF UInv, Bare

LEMMA StartUInv == SInv /\ UInv /\ Alone => \A e \in Engines : Start(e) => UInv'
<1> SUFFICES ASSUME SInv, UInv, Alone, NEW e \in Engines, Start(e) PROVE UInv'
    OBVIOUS
<1>1. PICK list :
        eng' = [eng EXCEPT ![e] = [Trying(e, list) EXCEPT
                                     !.tried = ToSet(list), !.before = fleet.now]]
    BY DEF Start
<1> DEFINE run == [Trying(e, list) EXCEPT !.tried = ToSet(list), !.before = fleet.now]
<1>2. /\ eng[e] \in Runs /\ eng[e].pc = "idle" /\ ~eng[e].trial /\ fleet' = fleet
    BY DEF SInv, Sound, InTurn, Start
<1>3. /\ run.pc \in {"discover", "try"} /\ ~run.trial /\ run.before = fleet.now
      /\ run.swapFailed = eng[e].swapFailed
    BY <1>2 DEF Trying, Runs
<1>4. e \in Equipped => Undoable(run, fleet')
    <2> SUFFICES ASSUME e \in Equipped PROVE Undoable(run, fleet)
        BY <1>2
    <2>1. fleet.now = Incumbent /\ ~eng[e].swapFailed
        BY <1>2 DEF UInv, Undoable
    <2> QED BY <1>3, <2>1 DEF Undoable, Attempts, Gated, Gates
<1>5. e \notin Equipped => Bare(run) /\ fleet' = fleet
    BY <1>2, <1>3 DEF Bare, Gated, Gates
<1> QED BY <1>1, <1>4, <1>5, OneUInv

LEMMA AttemptsUInv ==
    SInv /\ UInv /\ Alone =>
      \A e \in Engines :
        \/ Invoke(e) \/ Output(e) \/ Satisfy(e) \/ SaveSuccess(e)
        \/ Repair(e) \/ GiveUp(e) \/ SaveFailure(e)
        => UInv'
<1> SUFFICES ASSUME SInv, UInv, Alone, NEW e \in Engines,
                    \/ Invoke(e) \/ Output(e) \/ Satisfy(e) \/ SaveSuccess(e)
                    \/ Repair(e) \/ GiveUp(e) \/ SaveFailure(e)
             PROVE  UInv'
    OBVIOUS
<1>1. /\ eng[e] \in Runs /\ eng[e].trial \in BOOLEAN /\ eng[e].pc \in Attempts
      /\ fleet' = fleet /\ DOMAIN eng = Engines
    BY DEF SInv, Sound, InTurn, Runs, Invoke, Output, Satisfy, SaveSuccess,
           Repair, GiveUp, SaveFailure, Attempts
<1>2. PICK run : /\ eng' = [eng EXCEPT ![e] = run]
                 /\ run.before = eng[e].before /\ run.swapFailed = eng[e].swapFailed
                 /\ run.trial = eng[e].trial
                 /\ IF eng[e].trial
                    THEN /\ run.todo = eng[e].todo
                         /\ run.pc \in Attempts \cup {"rollback", "served"}
                    ELSE run.pc \in Attempts \cup {"discover", "served"}
    <2>1. CASE Invoke(e)
        <3> DEFINE left == Abandon(e)
                   went == [eng[e] EXCEPT !.pc = "invoking", !.calls[Model(e)] =
                                           IF @ < CallsBound THEN @ + 1 ELSE @]
        <3>1. eng' = [eng EXCEPT ![e] = IF e \in late THEN left ELSE went]
            BY <2>1 DEF Invoke
        <3>2. /\ left.before = eng[e].before /\ left.swapFailed = eng[e].swapFailed
              /\ left.trial = eng[e].trial /\ left.todo = eng[e].todo
              /\ left.pc = IF eng[e].trial THEN "rollback" ELSE "discover"
            BY <1>1 DEF Abandon, Runs
        <3>3. /\ went.before = eng[e].before /\ went.swapFailed = eng[e].swapFailed
              /\ went.trial = eng[e].trial /\ went.todo = eng[e].todo
              /\ went.pc = "invoking"
            BY <1>1 DEF Runs
        <3> HIDE DEF left, went
        <3> QED BY <1>1, <3>1, <3>2, <3>3 DEF Attempts
    <2>2. CASE Output(e)
        <3> DEFINE left == Abandon(e)
                   went == [eng[e] EXCEPT !.pc = "validating"]
        <3>1. eng' = [eng EXCEPT ![e] = IF e \in late THEN left ELSE went]
            BY <2>2 DEF Output
        <3>2. /\ left.before = eng[e].before /\ left.swapFailed = eng[e].swapFailed
              /\ left.trial = eng[e].trial /\ left.todo = eng[e].todo
              /\ left.pc = IF eng[e].trial THEN "rollback" ELSE "discover"
            BY <1>1 DEF Abandon, Runs
        <3>3. /\ went.before = eng[e].before /\ went.swapFailed = eng[e].swapFailed
              /\ went.trial = eng[e].trial /\ went.todo = eng[e].todo
              /\ went.pc = "validating"
            BY <1>1 DEF Runs
        <3> HIDE DEF left, went
        <3> QED BY <1>1, <3>1, <3>2, <3>3 DEF Attempts
    <2>3. ASSUME NEW s \in Saving \cap Attempts, ReadLocked(e, s)
          PROVE  \E run : /\ eng' = [eng EXCEPT ![e] = run]
                          /\ run.before = eng[e].before
                          /\ run.swapFailed = eng[e].swapFailed
                          /\ run.trial = eng[e].trial /\ run.todo = eng[e].todo
                          /\ run.pc \in Attempts
        BY <2>3, ReadKeeps
    <2>4. CASE Repair(e)
        <3> DEFINE went == [eng[e] EXCEPT !.pc = "try", !.left = @ - 1]
        <3>1. eng' = [eng EXCEPT ![e] = went]
            BY <1>1, <2>4 DEF Repair
        <3>2. /\ went.before = eng[e].before /\ went.swapFailed = eng[e].swapFailed
              /\ went.trial = eng[e].trial /\ went.todo = eng[e].todo
              /\ went.pc = "try"
            BY <1>1 DEF Runs
        <3> HIDE DEF went
        <3> QED BY <1>1, <3>1, <3>2 DEF Attempts
    <2>5. {"blocking", "marking"} \subseteq Saving \cap Attempts
        BY DEF Saving, Attempts
    <2>6. CASE Satisfy(e)
        BY <1>1, <2>3, <2>5, <2>6 DEF Satisfy
    <2>7. CASE SaveSuccess(e)
        <3> DEFINE went == [Unlocked(eng[e]) EXCEPT !.pc = "served"]
        <3>1. eng' = [eng EXCEPT ![e] = went]
            BY <2>7 DEF SaveSuccess
        <3>2. /\ went.before = eng[e].before /\ went.swapFailed = eng[e].swapFailed
              /\ went.trial = eng[e].trial /\ went.todo = eng[e].todo
              /\ went.pc = "served"
            BY <1>1 DEF Unlocked, Runs
        <3> HIDE DEF went
        <3> QED BY <1>1, <3>1, <3>2
    <2>8. ASSUME NEW STATE went, eng' = [eng EXCEPT ![e] = went],
                 went = NextCandidate(e) \/ went = Unlocked(NextCandidate(e))
          PROVE  /\ went.before = eng[e].before /\ went.swapFailed = eng[e].swapFailed
                 /\ went.trial = eng[e].trial
                 /\ eng[e].trial => went.todo = eng[e].todo /\ went.pc = "rollback"
                 /\ ~eng[e].trial => went.pc \in {"discover", "try"}
        BY <1>1, <2>8 DEF NextCandidate, Trying, Unlocked, Runs
    <2>9. CASE eng' = [eng EXCEPT ![e] = NextCandidate(e)]
        <3> DEFINE went == NextCandidate(e)
        <3>1. /\ went.before = eng[e].before /\ went.swapFailed = eng[e].swapFailed
              /\ went.trial = eng[e].trial
              /\ eng[e].trial => went.todo = eng[e].todo /\ went.pc = "rollback"
              /\ ~eng[e].trial => went.pc \in {"discover", "try"}
            BY <2>8, <2>9
        <3> HIDE DEF went
        <3> QED BY <1>1, <2>9, <3>1 DEF Attempts, went
    <2>10. CASE SaveFailure(e)
        <3> DEFINE went == Unlocked(NextCandidate(e))
        <3>1. eng' = [eng EXCEPT ![e] = went]
            BY <2>10 DEF SaveFailure
        <3>2. /\ went.before = eng[e].before /\ went.swapFailed = eng[e].swapFailed
              /\ went.trial = eng[e].trial
              /\ eng[e].trial => went.todo = eng[e].todo /\ went.pc = "rollback"
              /\ ~eng[e].trial => went.pc \in {"discover", "try"}
            BY <2>8, <3>1
        <3> HIDE DEF went
        <3> QED BY <1>1, <3>1, <3>2 DEF Attempts
    <2>11. CASE GiveUp(e)
        BY <1>1, <2>3, <2>5, <2>9, <2>11 DEF GiveUp
    <2> QED BY <2>1, <2>2, <2>4, <2>6, <2>7, <2>10, <2>11
<1>3. /\ run.pc # "idle"
      /\ "served" \in Over
    BY <1>1, <1>2 DEF Attempts, Over
<1> QED BY <1>1, <1>2, <1>3, AttemptUInv DEF Attempts

LEMMA MovingUInv ==
    SInv /\ UInv /\ Alone =>
      \A e \in Engines :
        \/ Discover(e) \/ StopLate(e)
        \/ Pass(e) \/ StoreRaises(e)
        => UInv'
<1> SUFFICES ASSUME SInv, UInv, Alone, NEW e \in Engines,
                    \/ Discover(e) \/ StopLate(e)
                    \/ Pass(e) \/ StoreRaises(e)
             PROVE  UInv'
    OBVIOUS
<1>1. PICK s : /\ Goto(e, s)
               /\ \/ s \in {"failed", "raised"}
                  \/ s = "discovering" /\ eng[e].pc = "discover" /\ e \in Equipped
                  \/ s \in Gates /\ eng[e].pc \in Gates
               /\ s = "failed" => eng[e].pc \in Gates \cup {"discover"}
    BY DEF Discover, StopLate, Pass, StoreRaises, Gated, Gates
<1> DEFINE run == [eng[e] EXCEPT !.pc = s]
<1>2. /\ eng[e] \in Runs /\ eng' = [eng EXCEPT ![e] = run] /\ fleet' = fleet
    BY <1>1 DEF SInv, Sound, InTurn, Goto, Discover, StopLate,
                Pass, StoreRaises
<1>3. /\ run.before = eng[e].before /\ run.swapFailed = eng[e].swapFailed
      /\ run.trial = eng[e].trial /\ run.todo = eng[e].todo /\ run.pc = s
    BY <1>2 DEF Runs
<1>4. e \in Equipped => Undoable(run, fleet')
    <2> SUFFICES ASSUME e \in Equipped PROVE Undoable(run, fleet)
        BY <1>2
    <2>1. Undoable(eng[e], fleet)
        BY DEF UInv
    <2> HIDE DEF run
    <2> QED BY <1>1, <1>3, <2>1 DEF Undoable, Attempts, Gated, Gates
<1>5. e \notin Equipped => Bare(run) /\ fleet' = fleet
    <2> SUFFICES ASSUME e \notin Equipped PROVE Bare(run)
        BY <1>2
    <2>1. Bare(eng[e])
        BY DEF UInv
    <2> HIDE DEF run
    <2> QED BY <1>1, <1>3, <2>1 DEF Bare, Gated, Gates
<1> QED BY <1>2, <1>4, <1>5, OneUInv

LEMMA OfferedUInv == SInv /\ UInv /\ Alone => \A e \in Engines : Offered(e) => UInv'
<1> SUFFICES ASSUME SInv, UInv, Alone, NEW e \in Engines, Offered(e) PROVE UInv'
    OBVIOUS
<1>0. PICK o \in Offers \cup {<<>>}, noted \in SUBSET blocked :
        \E list \in {IF e \in late THEN <<>> ELSE Without(o, Unfit(e, noted) \cup Skip(e))} :
          eng' = [eng EXCEPT ![e] = [Discovered(e, list) EXCEPT !.offer = list]]
    BY DEF Offered
<1>1. PICK list :
        /\ list = IF e \in late THEN <<>> ELSE Without(o, Unfit(e, noted) \cup Skip(e))
        /\ eng' = [eng EXCEPT ![e] = [Discovered(e, list) EXCEPT !.offer = list]]
    BY <1>0
<1> DEFINE rest == Without(o, Unfit(e, noted) \cup Skip(e))
<1>2. o \in Seq(AllModels) /\ Incumbent \notin ToSet(o)
    <2>1. <<>> \in Seq(AllModels) /\ ToSet(<<>>) = {}
        BY DEF ToSet
    <2>2. \A x \in Offers : x \in Seq(AllModels) /\ Incumbent \notin ToSet(x)
        BY SelfHealingAssumption DEF SInv, Alone
    <2> QED BY <2>1, <2>2
<1>3. rest \in Seq(AllModels) /\ Incumbent \notin ToSet(rest)
    BY <1>2, WithoutKeeps
<1>4. list \in Seq(AllModels) /\ Incumbent \notin ToSet(list)
    <2>1. <<>> \in Seq(AllModels) /\ ToSet(<<>>) = {}
        BY DEF ToSet
    <2> QED BY <1>1, <1>3, <2>1
<1>5. e \in Equipped /\ eng[e].pc \in Gated \cup {"discover", "discovering"}
      /\ fleet' = fleet
    BY OnlyEquipped DEF Offered
<1> QED BY <1>1, <1>4, <1>5, InPlace, DiscoveredUInv

LEMMA RefusedUInv ==
    SInv /\ UInv /\ Alone =>
      \A e \in Engines : Refuse(e) \/ FailQuality(e) \/ SaveRejection(e) => UInv'
<1> SUFFICES ASSUME SInv, UInv, Alone, NEW e \in Engines,
                    Refuse(e) \/ FailQuality(e) \/ SaveRejection(e)
             PROVE  UInv'
    OBVIOUS
<1>1. eng[e].pc \in Gated /\ fleet' = fleet
    BY DEF Refuse, FailQuality, SaveRejection, Gated, Gates
<1>2. e \in Equipped
    BY <1>1, OnlyEquipped
<1>3. CASE Refuse(e) \/ SaveRejection(e)
    BY <1>1, <1>2, <1>3, InPlace, LaterUInv, DiscoveredUInv DEF Refuse, SaveRejection
<1>4. CASE FailQuality(e)
    <2>1. PICK run \in Runs :
             /\ eng' = [eng EXCEPT ![e] = run]
             /\ run.pc = "rejecting" /\ run.todo = eng[e].todo /\ run.trial = eng[e].trial
             /\ run.before = eng[e].before /\ run.swapFailed = eng[e].swapFailed
        BY <1>4, ReadKeeps DEF FailQuality, Saving
    <2>2. Undoable(run, fleet')
        BY <1>1, <1>2, <2>1 DEF UInv, Undoable, Attempts, Gated, Gates
    <2> QED BY <1>2, <2>1, <2>2, OneUInv
<1> QED BY <1>3, <1>4

LEMMA PromotedUInv ==
    SInv /\ UInv /\ Alone =>
      \A e \in Engines : Promote(e) \/ PromoteHalfway(e) => UInv'
<1> SUFFICES ASSUME SInv, UInv, Alone, NEW e \in Engines,
                    Promote(e) \/ PromoteHalfway(e)
             PROVE  UInv'
    OBVIOUS
<1>1. /\ eng[e].pc = "promote" /\ eng[e].pc \in Gated
      /\ fleet' = Promoted(Model(e))
    BY DEF Promote, PromoteHalfway, Gated, Gates
<1>2. e \in Equipped
    BY <1>1, OnlyEquipped
<1>3. CASE Promote(e)
    <2> DEFINE run == [eng[e] EXCEPT !.pc = "try", !.trial = TRUE, !.left = RepairAttempts]
    <2>1. /\ eng[e] \in Runs /\ Incumbent \notin ToSet(eng[e].todo) /\ eng[e].todo # <<>>
          /\ Model(e) # Incumbent
        BY <1>1, <1>2, LaterUInv DEF Model
    <2>2. eng' = [eng EXCEPT ![e] = run]
        BY <1>3 DEF Promote, SInv
    <2>3. /\ run.before = eng[e].before /\ run.swapFailed = eng[e].swapFailed
          /\ run.trial /\ run.todo = eng[e].todo /\ run.pc = "try"
        BY <2>1 DEF Runs
    <2>4. eng[e].swapFailed \/ fleet' = [now |-> Head(run.todo), back |-> Incumbent]
        BY <1>1, <1>2, <2>1, <2>3, InPlace DEF Promoted, Model
    <2> HIDE DEF run
    <2>5. Undoable(run, fleet')
        BY <1>2, <2>1, <2>3, <2>4 DEF UInv, Undoable, Attempts
    <2> QED BY <1>2, <2>2, <2>5, OneUInv
<1>4. CASE PromoteHalfway(e)
    BY <1>1, <1>2, <1>4, LaterUInv, DiscoveredUInv DEF PromoteHalfway
<1> QED BY <1>3, <1>4

LEMMA RollbackUInv == SInv /\ UInv /\ Alone => \A e \in Engines : Rollback(e) => UInv'
<1> SUFFICES ASSUME SInv, UInv, Alone, NEW e \in Engines, Rollback(e) PROVE UInv'
    OBVIOUS
<1>1. eng[e].pc = "rollback" /\ e \in Equipped
    BY OnlyEquipped DEF Rollback
<1>2. eng[e].swapFailed \/ fleet.back = Incumbent
    BY <1>1 DEF UInv, Undoable
<1>3. Incumbent # NoModel
    BY SelfHealingAssumption DEF SInv
<1>4. /\ Tail(eng[e].todo) \in Seq(AllModels)
      /\ Incumbent \notin ToSet(Tail(eng[e].todo))
    BY <1>1, LaterUInv
<1>5. CASE /\ fleet' = RolledBack
           /\ eng' = [eng EXCEPT ![e] = Discovered(e, Tail(eng[e].todo))]
    <2>1. eng[e].swapFailed \/ fleet'.now = Incumbent
        BY <1>2, <1>3, <1>5 DEF RolledBack
    <2> QED BY <1>1, <1>4, <1>5, <2>1, DiscoveredUInv
<1>6. CASE eng' = [eng EXCEPT ![e] =
                     [Discovered(e, Tail(eng[e].todo)) EXCEPT !.swapFailed = TRUE]]
    BY <1>1, <1>4, <1>6, DiscoveredUInv
<1> QED BY <1>5, <1>6 DEF Rollback

LEMMA NextUInv == SInv /\ UInv /\ Alone /\ [EngineNext]_enginevars => UInv'
<1>1. ASSUME UInv, UNCHANGED <<eng, fleet>> PROVE UInv'
    BY <1>1 DEF UInv, Undoable, Bare
<1>2. ASSUME SInv, UInv, NEW b \in blocked, Expires(b) PROVE UInv'
    <2>1. ASSUME NEW e \in Engines
          PROVE  /\ eng'[e].pc = eng[e].pc /\ eng'[e].todo = eng[e].todo
                 /\ eng'[e].trial = eng[e].trial /\ eng'[e].before = eng[e].before
                 /\ eng'[e].swapFailed = eng[e].swapFailed
        <3>1. eng'[e] = [eng[e] EXCEPT !.data = @ \ {b}] /\ eng[e] \in Runs
            BY <1>2 DEF Expires, SInv, Sound, InTurn
        <3> QED BY <3>1 DEF Runs
    <2>2. Equipped \subseteq Engines /\ fleet' = fleet
        BY <1>2, SelfHealingAssumption DEF Expires
    <2>3. \A e \in Equipped : Undoable(eng[e], fleet)'
        BY <1>2, <2>1, <2>2 DEF UInv, Undoable
    <2>4. \A e \in Engines \ Equipped : Bare(eng[e])'
        BY <1>2, <2>1 DEF UInv, Bare
    <2> QED BY <2>3, <2>4 DEF UInv
<1> QED BY <1>1, <1>2, StartUInv, AttemptsUInv, MovingUInv, OfferedUInv, RefusedUInv,
           PromotedUInv, RollbackUInv
        DEF EngineNext, Step, DeadlinePasses, enginevars

\* A challenger that could not serve does not stay behind a failed run unless a
\* swap failed and the run says so (self_healing.py:400).  Neither part of Alone
\* can be left out.  A second run with adapters may promote its own challenger
\* before this one rolls back, which then undoes the other's promotion; and the
\* promotion of an incumbent that is offered as a challenger changes nothing, so
\* that its rollback undoes an earlier swap.
THEOREM ChallengersUndone ==
    Alone /\ EngineSpec => []FailedChallengerUndone
<1> DEFINE Both == SInv /\ UInv /\ Alone
<1>1. Alone /\ EngineInit => Both
    BY InitSInv, InitUInv
<1>2. Both /\ [EngineNext]_enginevars => Both'
    BY NextSInv, NextUInv DEF Alone
<1>3. Both => FailedChallengerUndone
    BY DEF UInv, Undoable, FailedChallengerUndone, Attempts
<1> QED BY <1>1, <1>2, <1>3, PTL DEF EngineSpec
====

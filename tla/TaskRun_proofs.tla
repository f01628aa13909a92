---- MODULE TaskRun_proofs ----
(***************************************************************************)
(* For any task types, dials, budgets, providers, candidates and numbers   *)
(* of runs: a class is never broken, no crossing of a threshold is put on  *)
(* record that was not reported (IInv), a result names its model and the   *)
(* receipts add up (TInv), and the cap of a user is respected (CInv).      *)
(***************************************************************************)
EXTENDS TaskRun, FoldLemmas

\* What the class of a task and its caller allow.
CloudAllowed(x) == x.type.listed = {} /\ ~x.private

LocalAllowed(x) ==
    /\ "never_local" \notin x.type.listed
    /\ ~(x.type.routed /\ x.type.listed = {} /\ x.type.base = "cloud-only")

\* What is so of a run at each place.
Lawful(x) ==
    /\ x.type \in Types \cup {None}
    /\ x.pc # "idle" => x.type \in Types
    /\ x.pc = "idle" => x.entry = None /\ ~x.asked /\ x.sent = {}
    /\ x.type = None => ~x.asked /\ x.sent = {}
    /\ x.pc \in {"govern", "saving", "dispatch"} => CloudAllowed(x) /\ ~x.asked
    /\ x.pc \in {"govern", "saving"} => x.sent = {}
    /\ x.pc \in {"local", "trying", "settle"} => LocalAllowed(x) /\ x.sent = {}
    /\ x.asked => LocalAllowed(x) /\ x.sent = {}
    /\ x.sent # {} => CloudAllowed(x)
    /\ \A p \in x.sent : p.enabled

Fields == DOMAIN NotStarted

\* What a run that saves has to put on record was reported.
Reported(r) ==
    run[r].pc = "saving" =>
        \A th \in run[r].memory \cup {run[r].threshold} : <<UserOf[r], th>> \in emitted

IInv == /\ DOMAIN run = Runs
        /\ DOMAIN fired = Users
        /\ \A r \in Runs : DOMAIN run[r] = Fields /\ Lawful(run[r]) /\ Reported(r)
        /\ CrossingReported

USE DEF Fields, NotStarted

-----------------------------------------------------------------------------
\* The route decision goes to the cloud only for a type of no class, and stays
\* local only for one that has a local option, at every dial.
LEMMA DecideAllows ==
    ASSUME NEW t \in TaskTypes, NEW d
    PROVE  /\ Decide(t, d) \in CloudRoutes => t.listed = {}
           /\ Decide(t, d) \in {"local", "unknown-task-type"} =>
                /\ "never_local" \notin t.listed
                /\ ~(t.routed /\ t.listed = {} /\ t.base = "cloud-only")
<1>1. CASE "never_local" \in t.listed
    BY <1>1 DEF Decide, Classify, CloudRoutes
<1>2. CASE "never_local" \notin t.listed /\ "never_cloud" \in t.listed
    BY <1>2 DEF Decide, Classify, CloudRoutes
<1>3. CASE t.listed = {}
    BY <1>3 DEF Decide, Classify, CloudRoutes
<1>4. t.listed \subseteq {"never_local", "never_cloud"}
    BY DEF TaskTypes
<1> QED BY <1>1, <1>2, <1>3, <1>4

LEMMA InitIInv == Init => IInv
<1> SUFFICES ASSUME Init PROVE IInv
    OBVIOUS
<1>1. ASSUME NEW r \in Runs PROVE DOMAIN run[r] = Fields /\ Lawful(run[r]) /\ Reported(r)
    BY DEF Init, Lawful, Reported
<1>2. DOMAIN run = Runs /\ DOMAIN fired = Users /\ CrossingReported
    BY DEF Init, CrossingReported
<1> QED BY <1>1, <1>2 DEF IInv

\* A run changes alone, to a lawful state, with the governor's records in order.
LEMMA Changes ==
    ASSUME IInv, NEW r \in Runs, NEW new, Become(r, new),
           DOMAIN new = Fields, Lawful(new),
           new.pc = "saving" =>
              \A th \in new.memory \cup {new.threshold} : <<UserOf[r], th>> \in emitted',
           emitted \subseteq emitted',
           DOMAIN fired' = Users,
           \A u \in Users : \A th \in fired'[u] : <<u, th>> \in emitted'
    PROVE  IInv'
<1>1. /\ DOMAIN run' = Runs /\ run'[r] = new
      /\ \A q \in Runs \ {r} : run'[q] = run[q]
    BY DEF IInv, Become
<1>2. ASSUME NEW q \in Runs
      PROVE  DOMAIN run'[q] = Fields /\ Lawful(run'[q]) /\ Reported(q)'
    BY <1>1 DEF IInv, Reported
<1>3. CrossingReported'
    BY DEF CrossingReported
<1> QED BY <1>1, <1>2, <1>3 DEF IInv
-----------------------------------------------------------------------------
LEMMA ServingEnabled ==
    ASSUME NEW setup, NEW p \in Serving(setup) PROVE p.enabled
  BY DEF Serving

\* The steps that have nothing to do with the governor's records.
LEMMA ChangesAlone ==
    ASSUME IInv, NEW r \in Runs, NEW new, Become(r, new),
           DOMAIN new = Fields, Lawful(new), new.pc # "saving",
           UNCHANGED <<fired, emitted>>
    PROVE  IInv'
  BY Changes DEF IInv, CrossingReported

LEMMA AbortedLawful ==
    ASSUME IInv, NEW r \in Runs, run[r].pc # "idle"
    PROVE  /\ DOMAIN Aborted(r) = Fields /\ Lawful(Aborted(r))
           /\ Aborted(r).pc = "aborted" /\ Aborted(r).sent = run[r].sent
           /\ Aborted(r).asked = run[r].asked /\ Aborted(r).type = run[r].type
           /\ Aborted(r).private = run[r].private
<1>1. DOMAIN run[r] = Fields /\ Lawful(run[r])
    BY DEF IInv
<1>2. /\ DOMAIN Aborted(r) = Fields
      /\ Aborted(r).pc = "aborted" /\ Aborted(r).sent = run[r].sent
      /\ Aborted(r).asked = run[r].asked /\ Aborted(r).type = run[r].type
      /\ Aborted(r).private = run[r].private
    BY <1>1 DEF Aborted
<1>3. Lawful(Aborted(r))
    BY <1>1, <1>2 DEF Lawful, LocalAllowed, CloudAllowed
<1> QED BY <1>2, <1>3

LEMMA StartIInv == ASSUME IInv, NEW r \in Runs, Start(r) PROVE IInv'
<1>1. PICK e \in Entries, t \in Types, x \in DialTexts, private \in BOOLEAN :
        /\ e = "router" => ~private
        /\ Become(r, [run[r] EXCEPT
             !.pc = AfterRoute(e, Decide(t, ParseDial(x[1], x[2])), private),
             !.entry = e, !.type = t, !.dial = ParseDial(x[1], x[2]),
             !.private = private, !.seen = TrueSpend(UserOf[r])])
    BY DEF Start
<1> DEFINE d == ParseDial(x[1], x[2])
           pc == AfterRoute(e, Decide(t, d), private)
           new == [run[r] EXCEPT !.pc = pc, !.entry = e, !.type = t, !.dial = d,
                                 !.private = private, !.seen = TrueSpend(UserOf[r])]
<1>2. DOMAIN run[r] = Fields /\ Lawful(run[r]) /\ run[r].pc = "idle"
    BY DEF IInv, Start
<1> HIDE DEF d, pc
<1>3. /\ DOMAIN new = Fields /\ new.pc = pc /\ new.type = t /\ new.private = private
      /\ new.sent = run[r].sent /\ new.asked = run[r].asked
    BY <1>2
<1>4. t \in TaskTypes
    BY TaskRunAssumption
<1>5. /\ pc \in {"local", "govern", "dispatch", "refused"}
      /\ pc = "local" => Decide(t, d) \in {"local", "unknown-task-type"}
      /\ pc \in {"govern", "dispatch"} => Decide(t, d) \in CloudRoutes /\ ~private
    BY <1>1, TaskRunAssumption DEF AfterRoute, pc
<1>6. ~new.asked /\ new.sent = {}
    BY <1>2, <1>3 DEF Lawful
<1> HIDE DEF new
<1>7. Lawful(new)
    BY <1>3, <1>4, <1>5, <1>6, DecideAllows DEF Lawful, LocalAllowed, CloudAllowed
<1>8. UNCHANGED <<fired, emitted>> /\ Become(r, new)
    BY <1>1 DEF Start, Unshared, new, d, pc
<1> QED BY <1>3, <1>5, <1>7, <1>8, ChangesAlone

\* What is left of run after the governor, which it asks for the cloud only.
LEMMA GovernedLawful ==
    ASSUME IInv, NEW r \in Runs, NEW d, run[r].pc \in {"govern", "saving"}
    PROVE  /\ DOMAIN Governed(r, d) = Fields /\ Lawful(Governed(r, d))
           /\ Governed(r, d).pc # "saving"
           /\ DOMAIN Ungoverned(r) = Fields /\ Lawful(Ungoverned(r))
           /\ Ungoverned(r).pc # "saving"
<1>1. DOMAIN run[r] = Fields /\ Lawful(run[r])
    BY DEF IInv
<1>2. run[r].type \in TaskTypes
    BY <1>1, TaskRunAssumption DEF Lawful
<1>3. /\ DOMAIN Ungoverned(r) = Fields /\ Ungoverned(r).pc = "dispatch"
      /\ Lawful(Ungoverned(r))
    BY <1>1 DEF Ungoverned, Lawful, LocalAllowed, CloudAllowed
<1>4. CASE Decide(run[r].type, d) = "local"
    <2>1. /\ DOMAIN Governed(r, d) = Fields /\ Governed(r, d).pc = "local"
          /\ Governed(r, d).type = run[r].type
          /\ Governed(r, d).private = run[r].private
          /\ Governed(r, d).asked = run[r].asked
          /\ Governed(r, d).sent = run[r].sent
        BY <1>1, <1>4 DEF Governed
    <2>2. Lawful(Governed(r, d))
        BY <1>1, <1>2, <1>4, <2>1, DecideAllows DEF Lawful, LocalAllowed, CloudAllowed
    <2> QED BY <1>3, <2>1, <2>2
<1>5. CASE Decide(run[r].type, d) # "local"
    BY <1>1, <1>3, <1>5 DEF Governed, Lawful, LocalAllowed, CloudAllowed
<1> QED BY <1>4, <1>5

LEMMA UserIsUser == ASSUME NEW r \in Runs PROVE UserOf[r] \in Users
  BY TaskRunAssumption DEF Users, Range

LEMMA GovernIInv == ASSUME IInv, NEW r \in Runs, Govern(r) PROVE IInv'
<1> DEFINE u == UserOf[r]
           th == Threshold(FileSpend(u), Budget[u])
           new == [run[r] EXCEPT !.pc = "saving", !.threshold = th, !.memory = fired[u]]
<1> HIDE DEF th
<1>1. run[r].pc = "govern" /\ UNCHANGED fired
    BY DEF Govern
<1>2. CASE Become(r, Governed(r, Target(th, run[r].dial))) /\ UNCHANGED emitted
    BY <1>1, <1>2, GovernedLawful, ChangesAlone
<1>3. CASE Become(r, new) /\ emitted' = emitted \cup {<<u, th>>}
    <2>1. DOMAIN run[r] = Fields /\ Lawful(run[r])
        BY DEF IInv
    <2>2. DOMAIN new = Fields /\ Lawful(new)
        BY <1>1, <2>1 DEF Lawful, LocalAllowed, CloudAllowed
    <2>3. new.memory = fired[u] /\ new.threshold = th
        BY <2>1
    <2>4. \A x \in new.memory \cup {new.threshold} : <<u, x>> \in emitted'
        BY <1>3, <2>3, UserIsUser DEF IInv, CrossingReported
    <2>5. DOMAIN fired' = Users /\ \A v \in Users : \A x \in fired'[v] : <<v, x>> \in emitted'
        BY <1>1, <1>3 DEF IInv, CrossingReported
    <2> HIDE DEF new
    <2> QED BY <1>3, <2>2, <2>4, <2>5, Changes
<1> QED BY <1>2, <1>3 DEF Govern, th

LEMMA TruncateIInv == ASSUME IInv, NEW r \in Runs, Truncate(r) PROVE IInv'
<1>1. /\ UNCHANGED <<run, emitted>>
      /\ fired' = [fired EXCEPT ![UserOf[r]] = {}]
    BY DEF Truncate
<1>2. DOMAIN fired' = Users /\ CrossingReported'
    BY <1>1, UserIsUser DEF IInv, CrossingReported
<1> QED BY <1>1, <1>2 DEF IInv, Reported

LEMMA SaveIInv == ASSUME IInv, NEW r \in Runs, Save(r) PROVE IInv'
<1> DEFINE new == Governed(r, Target(run[r].threshold, run[r].dial))
<1>1. /\ run[r].pc = "saving" /\ Become(r, new) /\ UNCHANGED emitted
      /\ fired' = [fired EXCEPT ![UserOf[r]] = run[r].memory \cup {run[r].threshold}]
    BY DEF Save
<1>2. DOMAIN new = Fields /\ Lawful(new) /\ new.pc # "saving"
    BY <1>1, GovernedLawful
<1>3. \A x \in run[r].memory \cup {run[r].threshold} : <<UserOf[r], x>> \in emitted
    BY <1>1 DEF IInv, Reported
<1>4. DOMAIN fired' = Users /\ \A v \in Users : \A x \in fired'[v] : <<v, x>> \in emitted'
    BY <1>1, <1>3, UserIsUser DEF IInv, CrossingReported
<1> HIDE DEF new
<1> QED BY <1>1, <1>2, <1>4, Changes

LEMMA GovernorRaisesIInv == ASSUME IInv, NEW r \in Runs, GovernorRaises(r) PROVE IInv'
  BY GovernedLawful, ChangesAlone DEF GovernorRaises, Unshared
-----------------------------------------------------------------------------
LEMMA DispatchRaisesIInv == ASSUME IInv, NEW r \in Runs, DispatchRaises(r) PROVE IInv'
<1> DEFINE base == IF run[r].entry = "router" THEN Aborted(r) ELSE run[r]
           new(setup) == [base EXCEPT
                !.sent = @ \cup Serving(setup),
                !.pc = IF run[r].entry = "router" THEN "unavailable" ELSE "done"]
<1>1. PICK setup \in Setups : Become(r, new(setup))
    BY DEF DispatchRaises
<1>2. /\ run[r].pc = "dispatch" /\ UNCHANGED <<fired, emitted>>
      /\ Lawful(run[r]) /\ DOMAIN run[r] = Fields
    BY DEF DispatchRaises, Unshared, IInv
<1>3. /\ DOMAIN base = Fields /\ base.sent = run[r].sent /\ base.asked = run[r].asked
      /\ base.type = run[r].type /\ base.private = run[r].private
    BY <1>2, AbortedLawful
<1> HIDE DEF base
<1>4. /\ DOMAIN new(setup) = Fields /\ new(setup).pc \in {"unavailable", "done"}
      /\ new(setup).sent = run[r].sent \cup Serving(setup)
      /\ new(setup).asked = run[r].asked /\ new(setup).type = run[r].type
      /\ new(setup).private = run[r].private
    BY <1>3
<1> HIDE DEF new
<1>5. Lawful(new(setup))
    BY <1>2, <1>4, ServingEnabled, TaskRunAssumption
       DEF Lawful, LocalAllowed, CloudAllowed
<1> QED BY <1>1, <1>2, <1>4, <1>5, ChangesAlone

LEMMA DispatchAnswersIInv == ASSUME IInv, NEW r \in Runs, DispatchAnswers(r) PROVE IInv'
<1>1. PICK setup \in Setups, accepted \in BOOLEAN :
        \E provider \in Serving(setup) : Become(r, Answered(r, provider, accepted))
    BY DEF DispatchAnswers
<1>2. PICK provider \in Serving(setup) : Become(r, Answered(r, provider, accepted))
    BY <1>1
<1>3. /\ run[r].pc = "dispatch" /\ UNCHANGED <<fired, emitted>>
      /\ Lawful(run[r]) /\ DOMAIN run[r] = Fields
    BY DEF DispatchAnswers, Unshared, IInv
<1> DEFINE new == Answered(r, provider, accepted)
<1>4. /\ DOMAIN new = Fields /\ new.pc \in {"dispatch", "done"}
      /\ new.sent = run[r].sent \cup {provider}
      /\ new.asked = run[r].asked /\ new.type = run[r].type
      /\ new.private = run[r].private
    BY <1>3 DEF Answered
<1> HIDE DEF new
<1>5. Lawful(new)
    BY <1>3, <1>4, ServingEnabled, TaskRunAssumption
       DEF Lawful, LocalAllowed, CloudAllowed
<1> QED BY <1>2, <1>3, <1>4, <1>5, ChangesAlone DEF new

LEMMA CloudVerifyRaisesIInv == ASSUME IInv, NEW r \in Runs, CloudVerifyRaises(r) PROVE IInv'
<1>1. PICK setup \in Setups : \E provider \in Serving(setup) :
        Become(r, [Aborted(r) EXCEPT !.sent = @ \cup {provider}])
    BY DEF CloudVerifyRaises
<1>2. PICK provider \in Serving(setup) :
        Become(r, [Aborted(r) EXCEPT !.sent = @ \cup {provider}])
    BY <1>1
<1>3. /\ run[r].pc = "dispatch" /\ UNCHANGED <<fired, emitted>> /\ Lawful(run[r])
    BY DEF CloudVerifyRaises, Unshared, IInv
<1> DEFINE new == [Aborted(r) EXCEPT !.sent = @ \cup {provider}]
<1>4. /\ DOMAIN new = Fields /\ new.pc = "aborted"
      /\ new.sent = run[r].sent \cup {provider}
      /\ new.asked = run[r].asked /\ new.type = run[r].type
      /\ new.private = run[r].private
    BY <1>3, AbortedLawful
<1> HIDE DEF new
<1>5. Lawful(new)
    BY <1>3, <1>4, ServingEnabled, TaskRunAssumption
       DEF Lawful, LocalAllowed, CloudAllowed
<1> QED BY <1>2, <1>3, <1>4, <1>5, ChangesAlone DEF new
-----------------------------------------------------------------------------
\* A run that stays local, or ends, may have asked a local model.
LEMMA StaysLocal ==
    ASSUME IInv, NEW r \in Runs, run[r].pc \in {"local", "trying", "settle"},
           NEW new, DOMAIN new = Fields,
           new.pc \in {"local", "trying", "settle"} \cup Ended,
           new.sent = run[r].sent, new.type = run[r].type,
           new.private = run[r].private, new.asked \in {run[r].asked, TRUE}
    PROVE  Lawful(new)
<1>1. Lawful(run[r])
    BY DEF IInv
<1> QED BY <1>1, TaskRunAssumption DEF Lawful, LocalAllowed, CloudAllowed, Ended

LEMMA TryingLocal ==
    ASSUME IInv, NEW r \in Runs, NEW list, run[r].pc \in {"local", "settle"}
    PROVE  /\ DOMAIN Trying(r, list) = Fields /\ Lawful(Trying(r, list))
           /\ Trying(r, list).pc = "trying"
<1>1. DOMAIN run[r] = Fields
    BY DEF IInv
<1>2. /\ DOMAIN Trying(r, list) = Fields /\ Trying(r, list).pc = "trying"
      /\ Trying(r, list).sent = run[r].sent /\ Trying(r, list).type = run[r].type
      /\ Trying(r, list).private = run[r].private
      /\ Trying(r, list).asked = run[r].asked
    BY <1>1 DEF Trying
<1> QED BY <1>2, StaysLocal

LEMMA StartLocalIInv == ASSUME IInv, NEW r \in Runs, StartLocal(r) PROVE IInv'
<1> DEFINE gone == [Aborted(r) EXCEPT !.pc = "unavailable"]
<1>1. run[r].pc = "local" /\ UNCHANGED <<fired, emitted>>
    BY DEF StartLocal, Unshared
<1>2. /\ DOMAIN gone = Fields /\ gone.pc = "unavailable" /\ gone.sent = run[r].sent
      /\ gone.type = run[r].type /\ gone.private = run[r].private
      /\ gone.asked = run[r].asked
    BY <1>1, AbortedLawful
<1> HIDE DEF gone
<1>3. Lawful(gone)
    BY <1>1, <1>2, StaysLocal DEF Ended
<1>4. Become(r, gone) \/ \E list : Become(r, Trying(r, list))
    BY DEF StartLocal, gone
<1>5. CASE Become(r, gone)
    BY <1>1, <1>2, <1>3, <1>5, ChangesAlone
<1>6. ASSUME NEW list, Become(r, Trying(r, list)) PROVE IInv'
    BY <1>1, <1>6, TryingLocal, ChangesAlone
<1> QED BY <1>4, <1>5, <1>6

\* An attempt of a local model, whatever it came to.
LEMMA AttemptIInv ==
    ASSUME IInv, NEW r \in Runs, run[r].pc = "trying", NEW state,
           DOMAIN state = Fields, state.asked = TRUE, state.pc = "trying",
           state.sent = run[r].sent, state.type = run[r].type,
           state.private = run[r].private,
           Become(r, Attempted(r, state)), UNCHANGED <<fired, emitted>>
    PROVE  IInv'
<1> DEFINE new == Attempted(r, state)
<1>1. /\ DOMAIN new = Fields /\ new.pc \in {"trying", "settle"}
      /\ new.sent = run[r].sent /\ new.type = run[r].type
      /\ new.private = run[r].private /\ new.asked = TRUE
    BY DEF Attempted
<1> HIDE DEF new
<1>2. Lawful(new)
    BY <1>1, StaysLocal
<1> QED BY <1>1, <1>2, ChangesAlone DEF new

LEMMA CompleteIInv ==
    ASSUME IInv, NEW r \in Runs, CompleteRaises(r) \/ CompleteAnswers(r) PROVE IInv'
<1>1. /\ run[r].pc = "trying" /\ UNCHANGED <<fired, emitted>> /\ DOMAIN run[r] = Fields
    BY DEF CompleteRaises, CompleteAnswers, Unshared, IInv
<1>2. CASE CompleteRaises(r)
    <2> DEFINE state == [run[r] EXCEPT !.asked = TRUE, !.rejected = FALSE]
    <2>1. /\ DOMAIN state = Fields /\ state.asked = TRUE /\ state.pc = "trying"
          /\ state.sent = run[r].sent /\ state.type = run[r].type
          /\ state.private = run[r].private
        BY <1>1
    <2>2. Become(r, Attempted(r, state))
        BY <1>2 DEF CompleteRaises
    <2> HIDE DEF state
    <2> QED BY <1>1, <2>1, <2>2, AttemptIInv
<1>3. CASE CompleteAnswers(r)
    <2>1. PICK accepted \in BOOLEAN :
            Become(r, Attempted(r, [run[r] EXCEPT !.asked = TRUE,
                                      !.output = run[r].model, !.ok = accepted,
                                      !.rejected = ~accepted]))
        BY <1>3 DEF CompleteAnswers
    <2> DEFINE state == [run[r] EXCEPT !.asked = TRUE, !.output = run[r].model,
                                       !.ok = accepted, !.rejected = ~accepted]
    <2>2. /\ DOMAIN state = Fields /\ state.asked = TRUE /\ state.pc = "trying"
          /\ state.sent = run[r].sent /\ state.type = run[r].type
          /\ state.private = run[r].private
        BY <1>1
    <2>3. Become(r, Attempted(r, state))
        BY <2>1
    <2> HIDE DEF state
    <2> QED BY <1>1, <2>2, <2>3, AttemptIInv
<1> QED BY <1>2, <1>3

LEMMA SettleIInv == ASSUME IInv, NEW r \in Runs, Settle(r) PROVE IInv'
<1> DEFINE ended == [run[r] EXCEPT !.pc = "done"]
<1>1. /\ run[r].pc = "settle" /\ UNCHANGED <<fired, emitted>> /\ DOMAIN run[r] = Fields
    BY DEF Settle, IInv
<1>2. /\ DOMAIN ended = Fields /\ ended.pc = "done" /\ ended.sent = run[r].sent
      /\ ended.type = run[r].type /\ ended.private = run[r].private
      /\ ended.asked = run[r].asked
    BY <1>1
<1>3. Become(r, ended) \/ Become(r, Trying(r, Tail(run[r].todo)))
    BY DEF Settle
<1> HIDE DEF ended
<1>4. Lawful(ended)
    BY <1>1, <1>2, StaysLocal DEF Ended
<1>5. CASE Become(r, ended)
    BY <1>1, <1>2, <1>4, <1>5, ChangesAlone
<1>6. CASE Become(r, Trying(r, Tail(run[r].todo)))
    BY <1>1, <1>6, TryingLocal, ChangesAlone
<1> QED BY <1>3, <1>5, <1>6

LEMMA ProxyIInv == ASSUME IInv, NEW r \in Runs, Proxy(r) PROVE IInv'
<1>1. run[r].pc = "local" /\ UNCHANGED <<fired, emitted>> /\ DOMAIN run[r] = Fields
    BY DEF Proxy, Unshared, IInv
<1>2. PICK new \in {[run[r] EXCEPT !.pc = "refused"]} \cup
            {[run[r] EXCEPT !.pc = "done", !.asked = TRUE, !.ok = ok] : ok \in BOOLEAN} :
        Become(r, new)
    BY DEF Proxy
<1>3. /\ DOMAIN new = Fields /\ new.pc \in {"refused", "done"}
      /\ new.sent = run[r].sent /\ new.type = run[r].type
      /\ new.private = run[r].private /\ new.asked \in {run[r].asked, TRUE}
    BY <1>1, <1>2
<1>4. Lawful(new)
    BY <1>1, <1>3, StaysLocal DEF Ended
<1> QED BY <1>1, <1>2, <1>3, <1>4, ChangesAlone

\* The ways to raise out of run.
LEMMA RaisesIInv ==
    ASSUME IInv, NEW r \in Runs, LocalVerifyRaises(r) \/ StoreRaises(r) \/ Crash(r)
    PROVE  IInv'
<1>1. run[r].pc # "idle" /\ UNCHANGED <<fired, emitted>>
    BY DEF LocalVerifyRaises, StoreRaises, Crash, Unshared
<1>2. CASE Become(r, Aborted(r))
    BY <1>1, <1>2, AbortedLawful, ChangesAlone
<1>3. CASE LocalVerifyRaises(r)
    <2> DEFINE new == [Aborted(r) EXCEPT !.asked = TRUE]
    <2>1. Become(r, new) /\ run[r].pc = "trying"
        BY <1>3 DEF LocalVerifyRaises
    <2>2. /\ DOMAIN new = Fields /\ new.pc = "aborted"
          /\ new.sent = run[r].sent /\ new.type = run[r].type
          /\ new.private = run[r].private /\ new.asked = TRUE
        BY <1>1, AbortedLawful
    <2> HIDE DEF new
    <2>3. Lawful(new)
        BY <2>1, <2>2, StaysLocal DEF Ended
    <2> QED BY <1>1, <2>1, <2>2, <2>3, ChangesAlone
<1> QED BY <1>2, <1>3 DEF StoreRaises, Crash
-----------------------------------------------------------------------------
LEMMA NextIInv == IInv /\ [Next]_vars => IInv'
<1> SUFFICES ASSUME IInv, [Next]_vars PROVE IInv'
    OBVIOUS
<1>1. CASE UNCHANGED vars
    BY <1>1 DEF vars, IInv, Reported, CrossingReported
<1>2. ASSUME NEW r \in Runs, Step(r) PROVE IInv'
    BY <1>2, StartIInv, GovernIInv, TruncateIInv, SaveIInv, GovernorRaisesIInv,
       DispatchRaisesIInv, DispatchAnswersIInv, CloudVerifyRaisesIInv,
       StartLocalIInv, CompleteIInv, SettleIInv, ProxyIInv, RaisesIInv DEF Step
<1>3. ASSUME NEW r \in Runs, Crash(r) PROVE IInv'
    BY <1>3, RaisesIInv
<1> QED BY <1>1, <1>2, <1>3 DEF Next, AllEnded

\* The inductive invariant holds in every reachable state.
THEOREM Invariance == Spec => []IInv
BY InitIInv, NextIInv, PTL DEF Spec

\* A task whose class or caller forbids the cloud never reaches a provider, and
\* one that must not or cannot be served here never reaches a local model, at
\* any dial, budget, number of retries and candidates (task.py:19).
THEOREM FailsClosed == Spec => []FailClosed
<1>1. ASSUME IInv, NEW r \in Runs, run[r].type # None
      PROVE  LET t == run[r].type
             IN  /\ "never_local" \in t.listed => ~run[r].asked /\ run[r].sent = {}
                 /\ "never_cloud" \in t.listed \/ run[r].private => run[r].sent = {}
                 /\ t.routed /\ t.listed = {} /\ t.base = "cloud-only" => ~run[r].asked
                 /\ run[r].asked => run[r].sent = {}
                 /\ \A p \in run[r].sent : p.enabled
    BY <1>1 DEF IInv, Lawful, LocalAllowed, CloudAllowed
<1>2. IInv => FailClosed
    BY <1>1 DEF FailClosed
<1> QED BY Invariance, <1>2, PTL

\* A threshold is on record as reported only if it was, whoever crashes, raises
\* or saves over whom (governor.py:243).
THEOREM CrossingsReported == Spec => []CrossingReported
<1>1. IInv => CrossingReported
    BY DEF IInv
<1> QED BY Invariance, <1>1, PTL
-----------------------------------------------------------------------------
(***************************************************************************)
(* What a run tells of itself: its output and its events.                  *)
(***************************************************************************)
Events == {e \in [route : {"local", "cloud", "refused"}, escalated : BOOLEAN,
                  cost : {0, 1}] : e.escalated => e.route = "local"}

Escalated(l) == {i \in DOMAIN l : l[i].escalated}

\* Of a run x with events l, at each place: the output is that of the model
\* that is tried, or none, and an escalated event is the last there will be.
Told(x, l) ==
    /\ l \in Seq(Events)
    /\ x.pc \in {"idle", "govern", "saving", "dispatch", "local", "trying"} =>
         x.ok = FALSE /\ Escalated(l) = {}
    /\ x.pc \in {"trying", "settle"} =>
         /\ x.todo \in Seq(Models) /\ x.todo # <<>>
         /\ x.model = Head(x.todo) /\ x.output \in {None, x.model}
    /\ x.pc = "settle" =>
         /\ x.ok \in BOOLEAN /\ (x.ok => x.output # None)
         /\ Escalated(l) = IF ~x.ok /\ Len(x.todo) = 1 THEN {Len(l)} ELSE {}
    /\ x.pc = "done" /\ x.entry = "router" =>
         /\ x.output \in {None, x.model} /\ (x.ok => x.output # None)
         /\ x.asked => Escalated(l) = IF x.ok THEN {} ELSE {Len(l)}

TInv == DOMAIN log = Runs /\ \A r \in Runs : Told(run[r], log[r])

\* One event more.
LEMMA OneEventMore ==
    ASSUME NEW l \in Seq(Events), NEW e \in Events
    PROVE  /\ Append(l, e) \in Seq(Events)
           /\ Len(Append(l, e)) = Len(l) + 1
           /\ Escalated(Append(l, e)) =
                Escalated(l) \cup (IF e.escalated THEN {Len(l) + 1} ELSE {})
<1>1. /\ Len(l) \in Nat /\ DOMAIN l = 1 .. Len(l)
      /\ DOMAIN Append(l, e) = (1 .. Len(l)) \cup {Len(l) + 1}
      /\ \A i \in 1 .. Len(l) : Append(l, e)[i] = l[i]
      /\ Append(l, e)[Len(l) + 1] = e
    OBVIOUS
<1> QED BY <1>1 DEF Escalated

LEMMA GenerationIsEvent ==
    ASSUME NEW route \in {"local", "cloud", "refused"}, NEW cost \in {0, 1},
           NEW escalated \in BOOLEAN, escalated => route = "local"
    PROVE  /\ Generation(route, escalated, cost) \in Events
           /\ Generation(route, escalated, cost).escalated = escalated
  BY DEF Generation, Events

\* A run changes alone and tells the truth, with an event or without.
LEMMA TellsAlone ==
    ASSUME IInv, TInv, NEW r \in Runs, NEW new, Become(r, new),
           \/ Silent /\ Told(new, log[r])
           \/ \E e \in Events : Log(r, e) /\ Told(new, Append(log[r], e))
    PROVE  TInv'
<1>1. run'[r] = new /\ \A q \in Runs \ {r} : run'[q] = run[q]
    BY DEF IInv, Become
<1>2. CASE Silent /\ Told(new, log[r])
    BY <1>1, <1>2 DEF TInv, Silent
<1>3. ASSUME NEW e \in Events, Log(r, e), Told(new, Append(log[r], e))
      PROVE  TInv'
    <2>1. log' = [log EXCEPT ![r] = Append(log[r], e)]
        BY <1>3 DEF Log
    <2>2. /\ DOMAIN log' = Runs /\ log'[r] = Append(log[r], e)
          /\ \A q \in Runs \ {r} : log'[q] = log[q]
        BY <2>1 DEF TInv
    <2> QED BY <1>1, <1>3, <2>2 DEF TInv
<1> QED BY <1>2, <1>3

\* A run that is over without a result has little to tell.
LEMMA OverTold ==
    ASSUME NEW x, NEW l \in Seq(Events), x.pc \in {"aborted", "refused", "unavailable"}
    PROVE  Told(x, l)
  BY DEF Told

LEMMA InitTInv == Init => TInv
<1> SUFFICES ASSUME Init PROVE TInv
    OBVIOUS
<1>1. ASSUME NEW r \in Runs PROVE Told(run[r], log[r])
    <2>1. run[r] = NotStarted /\ log[r] = <<>>
        BY DEF Init
    <2>2. <<>> \in Seq(Events) /\ Escalated(<<>>) = {}
        BY DEF Escalated
    <2> QED BY <2>1, <2>2 DEF Told
<1> QED BY <1>1 DEF TInv, Init

LEMMA StartTInv == ASSUME IInv, TInv, NEW r \in Runs, Start(r) PROVE TInv'
<1> DEFINE D(x) == ParseDial(x[1], x[2])
           P(e, t, x, private) == AfterRoute(e, Decide(t, D(x)), private)
           N(e, t, x, private) ==
               [run[r] EXCEPT !.pc = P(e, t, x, private), !.entry = e, !.type = t,
                              !.dial = D(x), !.private = private,
                              !.seen = TrueSpend(UserOf[r])]
<1>1. PICK e \in Entries, t \in Types, x \in DialTexts, private \in BOOLEAN :
        /\ Become(r, N(e, t, x, private))
        /\ IF e = "broker" /\ P(e, t, x, private) = "refused"
           THEN Log(r, Generation("refused", FALSE, 0))
           ELSE Silent
    <2> HIDE DEF D
    <2>1. \E e \in Entries, t \in Types, x \in DialTexts, private \in BOOLEAN :
            /\ e = "router" => ~private
            /\ Become(r, N(e, t, x, private))
            /\ IF e = "broker" /\ P(e, t, x, private) = "refused"
               THEN Log(r, Generation("refused", FALSE, 0))
               ELSE Silent
        BY Zenon DEF Start, D
    <2> HIDE DEF P, N
    <2> QED BY <2>1, Zenon
<1> DEFINE pc == P(e, t, x, private)
           new == N(e, t, x, private)
<1>2. DOMAIN run[r] = Fields /\ run[r].pc = "idle" /\ Told(run[r], log[r])
    BY DEF IInv, TInv, Start
<1>3. pc \in {"local", "govern", "dispatch", "refused"}
    BY DEF AfterRoute
<1> HIDE DEF D, P
<1>4. new.pc = pc /\ new.ok = run[r].ok
    BY <1>2
<1> HIDE DEF N
<1>5. Become(r, new)
    BY <1>1
<1> HIDE DEF new
<1>6. Told(new, log[r])
    BY <1>2, <1>3, <1>4 DEF Told
<1>7. CASE Silent
    BY <1>5, <1>6, <1>7, TellsAlone
<1>8. CASE pc = "refused" /\ Log(r, Generation("refused", FALSE, 0))
    <2>1. /\ Generation("refused", FALSE, 0) \in Events
          /\ Append(log[r], Generation("refused", FALSE, 0)) \in Seq(Events)
        BY <1>2, GenerationIsEvent, OneEventMore DEF Told
    <2>2. Told(new, Append(log[r], Generation("refused", FALSE, 0)))
        BY <1>4, <1>8, <2>1, OverTold
    <2> QED BY <1>5, <1>8, <2>1, <2>2, TellsAlone
<1> QED BY <1>1, <1>7, <1>8

LEMMA GovernorTInv ==
    ASSUME IInv, TInv, NEW r \in Runs,
           Govern(r) \/ Truncate(r) \/ Save(r) \/ GovernorRaises(r)
    PROVE  TInv'
<1>1. DOMAIN run[r] = Fields /\ Told(run[r], log[r]) /\ Silent
    BY DEF IInv, TInv, Govern, Truncate, Save, GovernorRaises
<1>2. CASE Truncate(r)
    BY <1>1, <1>2 DEF Truncate, TInv, Silent
<1>3. CASE ~Truncate(r)
    <2>1. run[r].pc \in {"govern", "saving"}
        BY <1>3 DEF Govern, Save, GovernorRaises
    <2>2. \E new : /\ Become(r, new)
                   /\ new.pc \in {"local", "dispatch", "saving"} /\ new.ok = run[r].ok
        <3>1. \A d : /\ Governed(r, d).pc \in {"local", "dispatch"}
                     /\ Governed(r, d).ok = run[r].ok
            BY <1>1 DEF Governed
        <3>2. Ungoverned(r).pc = "dispatch" /\ Ungoverned(r).ok = run[r].ok
            BY <1>1 DEF Ungoverned
        <3>3. \A th, m : LET new == [run[r] EXCEPT !.pc = "saving", !.threshold = th,
                                                   !.memory = m]
                         IN  new.pc = "saving" /\ new.ok = run[r].ok
            BY <1>1
        <3>4. CASE Govern(r)
            <4> DEFINE th == Threshold(FileSpend(UserOf[r]), Budget[UserOf[r]])
                       saving == [run[r] EXCEPT !.pc = "saving", !.threshold = th,
                                                !.memory = fired[UserOf[r]]]
            <4>1. \/ Become(r, Governed(r, Target(th, run[r].dial)))
                  \/ Become(r, saving)
                BY <3>4 DEF Govern
            <4>2. saving.pc = "saving" /\ saving.ok = run[r].ok
                BY <3>3
            <4> HIDE DEF saving, th
            <4> QED BY <3>1, <4>1, <4>2
        <3>5. CASE Save(r)
            BY <3>1, <3>5 DEF Save
        <3>6. CASE GovernorRaises(r)
            BY <3>2, <3>6 DEF GovernorRaises
        <3> QED BY <1>3, <3>4, <3>5, <3>6
    <2>3. PICK new : /\ Become(r, new)
                     /\ new.pc \in {"local", "dispatch", "saving"} /\ new.ok = run[r].ok
        BY <2>2
    <2>4. Told(new, log[r])
        BY <1>1, <2>1, <2>3 DEF Told
    <2> QED BY <1>1, <2>3, <2>4, TellsAlone
<1> QED BY <1>2, <1>3

LEMMA DispatchTInv ==
    ASSUME IInv, TInv, NEW r \in Runs,
           DispatchRaises(r) \/ DispatchAnswers(r) \/ CloudVerifyRaises(r)
    PROVE  TInv'
<1>1. /\ DOMAIN run[r] = Fields /\ Told(run[r], log[r]) /\ run[r].pc = "dispatch"
      /\ ~run[r].asked
    BY DEF IInv, TInv, DispatchRaises, DispatchAnswers, CloudVerifyRaises, Lawful
<1>2. /\ DOMAIN Aborted(r) = Fields /\ Aborted(r).pc = "aborted"
      /\ Aborted(r).entry = run[r].entry /\ Aborted(r).asked = run[r].asked
    BY <1>1 DEF Aborted
<1>3. \A cost \in {0, 1} : Generation("cloud", FALSE, cost) \in Events
    BY GenerationIsEvent
<1>4. \A e \in Events : ~e.escalated => /\ Append(log[r], e) \in Seq(Events)
                                         /\ Escalated(Append(log[r], e)) = {}
    BY <1>1, OneEventMore DEF Told
<1>5. \A cost : Generation("cloud", FALSE, cost).escalated = FALSE
    BY DEF Generation
<1>6. CASE DispatchRaises(r)
    <2> DEFINE base == IF run[r].entry = "router" THEN Aborted(r) ELSE run[r]
    <2>1. PICK setup \in Setups :
            Become(r, [base EXCEPT !.sent = @ \cup Serving(setup),
                         !.pc = IF run[r].entry = "router" THEN "unavailable" ELSE "done"])
        BY <1>6 DEF DispatchRaises
    <2> DEFINE new == [base EXCEPT !.sent = @ \cup Serving(setup),
                         !.pc = IF run[r].entry = "router" THEN "unavailable" ELSE "done"]
    <2>2. DOMAIN base = Fields /\ base.entry = run[r].entry
        BY <1>1, <1>2
    <2> HIDE DEF base
    <2>3. /\ new.pc = "unavailable" \/ (new.pc = "done" /\ new.entry # "router")
        BY <2>2
    <2> HIDE DEF new
    <2>4. Told(new, Append(log[r], Generation("cloud", FALSE, 0)))
        BY <1>3, <1>4, <1>5, <2>3 DEF Told
    <2>5. Log(r, Generation("cloud", FALSE, 0)) /\ Become(r, new)
        BY <1>6, <2>1 DEF DispatchRaises, new
    <2> QED BY <1>3, <2>4, <2>5, TellsAlone
<1>7. CASE DispatchAnswers(r)
    <2>1. PICK setup \in Setups, accepted \in BOOLEAN, cost \in {0, 1} :
            /\ \E provider \in Serving(setup) : Become(r, Answered(r, provider, accepted))
            /\ Log(r, Generation("cloud", FALSE, cost))
        BY <1>7 DEF DispatchAnswers
    <2>2. PICK provider \in Serving(setup) : Become(r, Answered(r, provider, accepted))
        BY <2>1
    <2> DEFINE new == Answered(r, provider, accepted)
    <2>3. /\ \/ new.pc = "dispatch" /\ ~accepted
             \/ new.pc = "done"
          /\ new.output = "cloud" /\ new.model = "cloud" /\ new.ok = accepted
          /\ ~new.asked
        BY <1>1 DEF Answered
    <2> HIDE DEF new
    <2>4. Told(new, Append(log[r], Generation("cloud", FALSE, cost)))
        BY <1>3, <1>4, <1>5, <2>3, TaskRunAssumption DEF Told
    <2> QED BY <1>3, <2>1, <2>2, <2>4, TellsAlone DEF new
<1>8. CASE CloudVerifyRaises(r)
    <2>1. PICK setup \in Setups : \E provider \in Serving(setup) :
            Become(r, [Aborted(r) EXCEPT !.sent = @ \cup {provider}])
        BY <1>8 DEF CloudVerifyRaises
    <2>2. PICK provider \in Serving(setup) :
            Become(r, [Aborted(r) EXCEPT !.sent = @ \cup {provider}])
        BY <2>1
    <2> DEFINE new == [Aborted(r) EXCEPT !.sent = @ \cup {provider}]
    <2>3. new.pc = "aborted"
        BY <1>2
    <2> HIDE DEF new
    <2>4. Told(new, log[r]) /\ Silent
        BY <1>1, <1>8, <2>3, OverTold DEF Told, CloudVerifyRaises
    <2> QED BY <2>2, <2>4, TellsAlone DEF new
<1> QED BY <1>6, <1>7, <1>8

\* Candidates are tried as long as there are any.
LEMMA TryingTold ==
    ASSUME IInv, NEW r \in Runs, NEW list \in Seq(Models), list # <<>>,
           run[r].ok = FALSE, NEW l \in Seq(Events), Escalated(l) = {}
    PROVE  Told(Trying(r, list), l)
<1>1. DOMAIN run[r] = Fields
    BY DEF IInv
<1>2. /\ Trying(r, list).pc = "trying" /\ Trying(r, list).ok = FALSE
      /\ Trying(r, list).todo = list /\ Trying(r, list).model = Head(list)
      /\ Trying(r, list).output = None
    BY <1>1 DEF Trying
<1> QED BY <1>2 DEF Told

LEMMA StartLocalTInv == ASSUME IInv, TInv, NEW r \in Runs, StartLocal(r) PROVE TInv'
<1> DEFINE list == Without(Candidates, {m \in Models : <<run[r].type, m>> \in blocked})
           gone == [Aborted(r) EXCEPT !.pc = "unavailable"]
<1>1. /\ DOMAIN run[r] = Fields /\ Told(run[r], log[r]) /\ run[r].pc = "local"
      /\ Silent
    BY DEF IInv, TInv, StartLocal
<1>2. list \in Seq(Models)
    <2>1. Candidates \in Seq(Models)
        BY TaskRunAssumption DEF Models, ToSet, Range
    <2> QED BY <2>1, WithoutKeeps
<1> HIDE DEF list
<1>3. Become(r, gone) \/ (list # <<>> /\ Become(r, Trying(r, list)))
    BY DEF StartLocal, list
<1>4. gone.pc = "unavailable"
    BY <1>1 DEF Aborted
<1> HIDE DEF gone
<1>5. CASE Become(r, gone)
    BY <1>1, <1>4, <1>5, OverTold, TellsAlone DEF Told
<1>6. CASE list # <<>> /\ Become(r, Trying(r, list))
    <2>1. run[r].ok = FALSE /\ log[r] \in Seq(Events) /\ Escalated(log[r]) = {}
        BY <1>1 DEF Told
    <2>2. Told(Trying(r, list), log[r])
        BY <1>2, <1>6, <2>1, TryingTold
    <2> QED BY <1>1, <1>6, <2>2, TellsAlone
<1> QED BY <1>3, <1>5, <1>6

\* An attempt: its event is escalated if it failed and was the last.
LEMMA AttemptTInv ==
    ASSUME IInv, TInv, NEW r \in Runs, run[r].pc = "trying", NEW state,
           DOMAIN state = Fields, state.pc = "trying", state.ok \in BOOLEAN,
           state.todo = run[r].todo, state.model = run[r].model,
           state.left = run[r].left,
           state.output \in {None, state.model}, state.ok => state.output # None,
           Become(r, Attempted(r, state)),
           Log(r, Generation("local", IsLast(r) /\ ~state.ok, 0))
    PROVE  TInv'
<1> DEFINE new == Attempted(r, state)
           last == IsLast(r) /\ ~state.ok
           e == Generation("local", last, 0)
           l == log[r]
<1>1. Told(run[r], l)
    BY DEF TInv
<1>2. /\ new.todo = run[r].todo /\ new.model = run[r].model
      /\ new.output \in {None, new.model} /\ new.ok = state.ok
      /\ new.ok => new.output # None
      /\ \/ new.pc = "settle" /\ (new.ok \/ run[r].left = 0)
         \/ new.pc = "trying" /\ ~new.ok /\ run[r].left # 0
    BY DEF Attempted
<1>3. last \in BOOLEAN /\ (last <=> Len(run[r].todo) = 1 /\ run[r].left = 0 /\ ~state.ok)
    BY DEF IsLast
<1> HIDE DEF last, new
<1>4. e \in Events /\ e.escalated = last
    BY <1>3, GenerationIsEvent
<1>5. /\ l \in Seq(Events) /\ Escalated(l) = {}
      /\ run[r].todo \in Seq(Models) /\ run[r].todo # <<>>
      /\ run[r].model = Head(run[r].todo)
    BY <1>1 DEF Told
<1> HIDE DEF e, l
<1>6. /\ Append(l, e) \in Seq(Events) /\ Len(Append(l, e)) = Len(l) + 1
      /\ Escalated(Append(l, e)) = IF last THEN {Len(l) + 1} ELSE {}
    BY <1>4, <1>5, OneEventMore
<1>7. Told(new, Append(l, e))
    <2>1. CASE new.pc = "settle"
        BY <1>2, <1>3, <1>5, <1>6, <2>1 DEF Told
    <2>2. CASE new.pc = "trying"
        BY <1>2, <1>3, <1>5, <1>6, <2>2 DEF Told
    <2> QED BY <1>2, <2>1, <2>2
<1>8. Become(r, new) /\ Log(r, e)
    BY DEF new, e, last
<1> QED BY <1>4, <1>7, <1>8, TellsAlone DEF l

LEMMA CompleteTInv ==
    ASSUME IInv, TInv, NEW r \in Runs, CompleteRaises(r) \/ CompleteAnswers(r)
    PROVE  TInv'
<1>1. /\ DOMAIN run[r] = Fields /\ Told(run[r], log[r]) /\ run[r].pc = "trying"
    BY DEF IInv, TInv, CompleteRaises, CompleteAnswers
<1>2. CASE CompleteRaises(r)
    <2> DEFINE state == [run[r] EXCEPT !.asked = TRUE, !.rejected = FALSE]
    <2>1. /\ DOMAIN state = Fields /\ state.pc = "trying" /\ state.ok = FALSE
          /\ state.todo = run[r].todo /\ state.model = run[r].model
          /\ state.left = run[r].left
          /\ state.output \in {None, state.model}
        BY <1>1 DEF Told
    <2>2. /\ Become(r, Attempted(r, state))
          /\ Log(r, Generation("local", IsLast(r), 0))
        BY <1>2 DEF CompleteRaises
    <2> HIDE DEF state
    <2>3. (IsLast(r) /\ ~state.ok) = IsLast(r)
        BY <2>1 DEF IsLast
    <2>4. Log(r, Generation("local", IsLast(r) /\ ~state.ok, 0))
        BY <2>2, <2>3
    <2> QED BY <1>1, <2>1, <2>2, <2>4, AttemptTInv
<1>3. CASE CompleteAnswers(r)
    <2>1. PICK accepted \in BOOLEAN :
            /\ Become(r, Attempted(r, [run[r] EXCEPT !.asked = TRUE,
                                      !.output = run[r].model, !.ok = accepted,
                                      !.rejected = ~accepted]))
            /\ Log(r, Generation("local", IsLast(r) /\ ~accepted, 0))
        BY <1>3 DEF CompleteAnswers
    <2> DEFINE state == [run[r] EXCEPT !.asked = TRUE, !.output = run[r].model,
                                       !.ok = accepted, !.rejected = ~accepted]
    <2>2. run[r].model \in Models
        BY <1>1 DEF Told
    <2>3. None \notin Models
        BY TaskRunAssumption DEF Models
    <2>4. /\ DOMAIN state = Fields /\ state.pc = "trying" /\ state.ok = accepted
          /\ state.todo = run[r].todo /\ state.model = run[r].model
          /\ state.left = run[r].left /\ state.output = run[r].model
        BY <1>1
    <2>5. Become(r, Attempted(r, state))
        BY <2>1
    <2> HIDE DEF state
    <2>6. Log(r, Generation("local", IsLast(r) /\ ~state.ok, 0))
        BY <2>1, <2>4
    <2> QED BY <1>1, <2>2, <2>3, <2>4, <2>5, <2>6, AttemptTInv
<1> QED BY <1>2, <1>3

LEMMA SettleTInv == ASSUME IInv, TInv, NEW r \in Runs, Settle(r) PROVE TInv'
<1> DEFINE ended == [run[r] EXCEPT !.pc = "done"]
           rest == Tail(run[r].todo)
<1>1. /\ DOMAIN run[r] = Fields /\ Told(run[r], log[r]) /\ run[r].pc = "settle"
      /\ Silent
    BY DEF IInv, TInv, Settle
<1>2. /\ ended.pc = "done" /\ ended.output = run[r].output /\ ended.ok = run[r].ok
      /\ ended.model = run[r].model
    BY <1>1
<1>3. \/ (run[r].ok \/ Len(run[r].todo) = 1) /\ Become(r, ended)
      \/ ~(run[r].ok \/ Len(run[r].todo) = 1) /\ Become(r, Trying(r, rest))
    BY DEF Settle
<1> HIDE DEF ended
<1>4. CASE (run[r].ok \/ Len(run[r].todo) = 1) /\ Become(r, ended)
    <2>1. Told(ended, log[r])
        BY <1>1, <1>2, <1>4 DEF Told
    <2> QED BY <1>1, <1>4, <2>1, TellsAlone
<1>5. CASE ~(run[r].ok \/ Len(run[r].todo) = 1) /\ Become(r, Trying(r, rest))
    <2>1. /\ run[r].todo \in Seq(Models) /\ run[r].todo # <<>> /\ run[r].ok \in BOOLEAN
          /\ log[r] \in Seq(Events) /\ Escalated(log[r]) = {}
        BY <1>1, <1>5 DEF Told
    <2>2. rest \in Seq(Models) /\ rest # <<>>
        <3> DEFINE q == run[r].todo
        <3>1. q \in Seq(Models) /\ q # <<>> /\ Len(q) # 1
            BY <1>5, <2>1
        <3> HIDE DEF q
        <3>2. Tail(q) \in Seq(Models) /\ Len(Tail(q)) = Len(q) - 1 /\ Len(Tail(q)) # 0
            BY <3>1
        <3>3. Len(<<>>) = 0
            OBVIOUS
        <3> QED BY <3>2, <3>3 DEF q
    <2>3. Told(Trying(r, rest), log[r])
        BY <1>5, <2>1, <2>2, TryingTold
    <2> QED BY <1>1, <1>5, <2>3, TellsAlone
<1> QED BY <1>3, <1>4, <1>5

LEMMA ProxyTInv == ASSUME IInv, TInv, NEW r \in Runs, Proxy(r) PROVE TInv'
<1>1. /\ DOMAIN run[r] = Fields /\ Told(run[r], log[r]) /\ run[r].entry = "broker"
    BY DEF IInv, TInv, Proxy
<1>2. CASE Become(r, [run[r] EXCEPT !.pc = "refused"]) /\ Silent
    <2>1. Told([run[r] EXCEPT !.pc = "refused"], log[r])
        BY <1>1, OverTold DEF Told
    <2> QED BY <1>2, <2>1, TellsAlone
<1>3. ASSUME NEW ok \in BOOLEAN,
             Become(r, [run[r] EXCEPT !.pc = "done", !.asked = TRUE, !.ok = ok]),
             Log(r, Generation("local", FALSE, 0))
      PROVE  TInv'
    <2> DEFINE new == [run[r] EXCEPT !.pc = "done", !.asked = TRUE, !.ok = ok]
               e == Generation("local", FALSE, 0)
    <2>1. new.pc = "done" /\ new.entry = "broker"
        BY <1>1
    <2>2. e \in Events
        BY GenerationIsEvent
    <2> HIDE DEF new, e
    <2>3. Append(log[r], e) \in Seq(Events)
        BY <1>1, <2>2, OneEventMore DEF Told
    <2>4. Told(new, Append(log[r], e))
        BY <2>1, <2>3 DEF Told
    <2> QED BY <1>3, <2>2, <2>4, TellsAlone DEF new, e
<1> QED BY <1>2, <1>3 DEF Proxy

LEMMA RaisesTInv ==
    ASSUME IInv, TInv, NEW r \in Runs, LocalVerifyRaises(r) \/ StoreRaises(r) \/ Crash(r)
    PROVE  TInv'
<1>1. DOMAIN run[r] = Fields /\ Told(run[r], log[r]) /\ Silent
    BY DEF IInv, TInv, LocalVerifyRaises, StoreRaises, Crash
<1>2. PICK new \in {Aborted(r), [Aborted(r) EXCEPT !.asked = TRUE]} : Become(r, new)
    BY DEF LocalVerifyRaises, StoreRaises, Crash
<1>3. new.pc = "aborted"
    BY <1>1, <1>2 DEF Aborted
<1>4. Told(new, log[r])
    BY <1>1, <1>3, OverTold DEF Told
<1> QED BY <1>1, <1>2, <1>4, TellsAlone

LEMMA NextTInv == IInv /\ TInv /\ [Next]_vars => TInv'
<1> SUFFICES ASSUME IInv, TInv, [Next]_vars PROVE TInv'
    OBVIOUS
<1>1. CASE UNCHANGED vars
    BY <1>1 DEF vars, TInv
<1>2. ASSUME NEW r \in Runs, Step(r) PROVE TInv'
    BY <1>2, StartTInv, GovernorTInv, DispatchTInv, StartLocalTInv, CompleteTInv,
       SettleTInv, ProxyTInv, RaisesTInv DEF Step
<1>3. ASSUME NEW r \in Runs, Crash(r) PROVE TInv'
    BY <1>3, RaisesTInv
<1> QED BY <1>1, <1>2, <1>3 DEF Next, AllEnded

\* Each run tells of itself what Told says, in every reachable state.
THEOREM TruthIsTold == Spec => []TInv
  BY Invariance, InitTInv, NextTInv, PTL DEF Spec

\* A result names the model that made its output (task.py:381).
THEOREM OutputsAttributed == Spec => []AttributedOutput
<1>1. TInv => AttributedOutput
    BY DEF TInv, Told, AttributedOutput
<1> QED BY TruthIsTold, <1>1, PTL
-----------------------------------------------------------------------------
(***************************************************************************)
(* Counting events.                                                        *)
(***************************************************************************)

\* Finitely many runs have finitely many events.
LEMMA EventsAreFinite ==
    ASSUME NEW l, \A r \in Runs : l[r] \in Seq(Events)
    PROVE  IsFiniteSet(UNION {{r} \X DOMAIN l[r] : r \in Runs})
<1> DEFINE f == [r \in Runs |-> {r} \X DOMAIN l[r]]
           parts == {{r} \X DOMAIN l[r] : r \in Runs}
<1>1. IsFiniteSet(parts)
    <2>1. f \in Surjection(Runs, parts)
        BY DEF Surjection
    <2> HIDE DEF f, parts
    <2> QED BY <2>1, TaskRunAssumption, FS_Surjection
<1>2. ASSUME NEW p \in parts PROVE IsFiniteSet(p)
    <2>1. PICK r \in Runs : p = {r} \X DOMAIN l[r]
        OBVIOUS
    <2>2. DOMAIN l[r] = 1 .. Len(l[r]) /\ Len(l[r]) \in Nat
        OBVIOUS
    <2>3. IsFiniteSet(1 .. Len(l[r]))
        <3>1. 1 \in Int /\ Len(l[r]) \in Int
            BY <2>2
        <3> QED BY <3>1, FS_Interval, Zenon
    <2> QED BY <2>1, <2>2, <2>3, FS_Singleton, FS_Product
<1> HIDE DEF parts
<1>3. IsFiniteSet(UNION parts)
    BY <1>1, <1>2, FS_UNION
<1> QED BY <1>3 DEF parts

\* There are finitely many events, and each is one.
LEMMA RecordedIsFinite ==
    ASSUME TInv
    PROVE  /\ IsFiniteSet(Recorded)
           /\ \A e \in Recorded : Event(e) \in Events
<1>1. \A r \in Runs : log[r] \in Seq(Events)
    BY DEF TInv, Told
<1>2. IsFiniteSet(Recorded)
    BY <1>1, EventsAreFinite DEF Recorded
<1>3. ASSUME NEW e \in Recorded PROVE Event(e) \in Events
    <2>1. PICK r \in Runs : e \in {r} \X DOMAIN log[r]
        BY DEF Recorded
    <2> QED BY <1>1, <2>1 DEF Event
<1> QED BY <1>2, <1>3

\* The receipts count an escalation where there was one, and never more runs
\* than there were (task.py:396, report.py:316).
THEOREM ReceiptsAreRight == Spec => []ReceiptsAddUp
<1>1. ASSUME TInv PROVE Saved(Stats(Recorded)) >= 0
    <2> DEFINE C == {e \in Recorded : Event(e).route = "cloud"}
               E == {e \in Recorded : Event(e).escalated /\ Event(e).route # "cloud"}
    <2>1. IsFiniteSet(Recorded) /\ IsFiniteSet(C) /\ IsFiniteSet(E)
          /\ C \cup E \in SUBSET Recorded /\ C \cap E = {}
        BY <1>1, RecordedIsFinite, FS_Subset
    <2>2. Saved(Stats(Recorded)) = Cardinality(Recorded) - (Cardinality(C) + Cardinality(E))
        BY DEF Saved, Stats
    <2> HIDE DEF C, E
    <2>3. Cardinality(C \cup E) = Cardinality(C) + Cardinality(E) - Cardinality(C \cap E)
        BY <2>1, FS_Union
    <2>4. Cardinality(C \cup E) <= Cardinality(Recorded)
        BY <2>1, FS_Subset
    <2>5. /\ Cardinality(C) \in Nat /\ Cardinality(E) \in Nat
          /\ Cardinality(Recorded) \in Nat /\ Cardinality(C \cap E) = 0
        BY <2>1, FS_CardinalityType, FS_EmptySet
    <2> QED BY <2>2, <2>3, <2>4, <2>5
<1>2. ASSUME TInv, NEW e \in Recorded, Event(e).escalated PROVE Event(e).route = "local"
    BY <1>2, RecordedIsFinite DEF Events
<1>3. ASSUME TInv, NEW r \in Runs, run[r].pc = "done", run[r].entry = "router", run[r].asked
      PROVE  {i \in DOMAIN log[r] : log[r][i].escalated}
                = IF run[r].ok THEN {} ELSE {Len(log[r])}
    BY <1>3 DEF TInv, Told, Escalated
<1>4. TInv => ReceiptsAddUp
    BY <1>1, <1>2, <1>3 DEF ReceiptsAddUp
<1> QED BY TruthIsTold, <1>4, PTL
-----------------------------------------------------------------------------
(***************************************************************************)
(* The cap.                                                                *)
(***************************************************************************)

\* What a run was told of its user's spend when it started is still spent, and
\* while nothing is rotated away the governor sees all of it: so it has not
\* let a run over its cap pass, and one whose crossing it puts on record is
\* forced local.
CInv == /\ earlier \in [Users -> Nat]
        /\ DOMAIN unread = Runs
        /\ ~rotated => \A r \in Runs : unread[r] = 0
        /\ \A r \in Runs : run[r].seen \in Nat /\ run[r].seen <= TrueSpend(UserOf[r])
        /\ \A r \in Runs : run[r].pc = "saving" /\ OverCap(r) =>
             rotated \/ run[r].threshold = "force-local"
        /\ CapRespected

LEMMA SpendIsNat ==
    ASSUME TInv, CInv, NEW u \in Users
    PROVE  CloudSpend(u, Recorded) \in Nat /\ TrueSpend(u) \in Nat
<1>1. CloudSpend(u, Recorded) \in Nat
    BY RecordedIsFinite, FS_Subset, FS_CardinalityType DEF CloudSpend
<1> QED BY <1>1 DEF TrueSpend, CInv

\* What was spent stays spent.
LEMMA SpendGrows ==
    ASSUME TInv, TInv', CInv, NEW u \in Users, earlier' = earlier,
           \/ Silent
           \/ \E r \in Runs, e \in Events : Log(r, e)
    PROVE  TrueSpend(u) <= TrueSpend(u)'
<1> DEFINE S == {e \in Recorded : /\ UserOf[e[1]] = u
                                  /\ Event(e).route = "cloud"
                                  /\ Event(e).cost > 0}
<1>1. S \subseteq S'
    <2> SUFFICES ASSUME NEW e \in S PROVE e \in S'
        OBVIOUS
    <2>1. PICK q \in Runs : e \in {q} \X DOMAIN log[q]
        BY DEF Recorded
    <2>2. log[q] \in Seq(Events) /\ DOMAIN log = Runs
        BY DEF TInv, Told
    <2>3. e[2] \in DOMAIN log'[q] /\ log'[q][e[2]] = log[q][e[2]]
        <3>1. CASE Silent
            BY <2>1, <3>1 DEF Silent
        <3>2. ASSUME NEW r \in Runs, NEW x \in Events, Log(r, x)
              PROVE  e[2] \in DOMAIN log'[q] /\ log'[q][e[2]] = log[q][e[2]]
            <4>1. log' = [log EXCEPT ![r] = Append(log[r], x)]
                BY <3>2 DEF Log
            <4>2. log'[q] = log[q] \/ log'[q] = Append(log[q], x)
                BY <2>2, <4>1
            <4> QED BY <2>1, <2>2, <4>2
        <3> QED BY <3>1, <3>2
    <2>4. e \in Recorded' /\ Event(e)' = Event(e)
        BY <2>1, <2>3 DEF Recorded, Event
    <2> QED BY <2>4
<1>2. IsFiniteSet(Recorded') /\ S' \in SUBSET Recorded'
    <2>1. \A r \in Runs : log'[r] \in Seq(Events)
        BY DEF TInv, Told
    <2>2. IsFiniteSet(Recorded')
        BY <2>1, EventsAreFinite DEF Recorded
    <2> QED BY <2>2
<1>3. Cardinality(S) \in Nat /\ Cardinality(S') \in Nat /\ Cardinality(S) <= Cardinality(S')
    <2> HIDE DEF S
    <2>1. IsFiniteSet(S')
        BY <1>2, FS_Subset
    <2>2. IsFiniteSet(S)
        BY <1>1, <2>1, FS_Subset
    <2> QED BY <1>1, <2>1, <2>2, FS_Subset, FS_CardinalityType
<1>4. TrueSpend(u) = Cardinality(S) + earlier[u] /\ TrueSpend(u)' = Cardinality(S') + earlier[u]
    BY DEF TrueSpend, CloudSpend
<1>5. earlier[u] \in Nat
    BY DEF CInv
<1> HIDE DEF S
<1> QED BY <1>3, <1>4, <1>5

\* OverCap, of a run of r's user that was told of some spend.
Over(r, seen) == LET budget == Budget[UserOf[r]]
                 IN  budget > 0 /\ 100 * seen >= 95 * budget

\* What CInv asks of a run x of r, besides what it was told.
Capped(r, x) ==
    /\ x.pc = "saving" /\ Over(r, x.seen) => rotated \/ x.threshold = "force-local"
    /\ /\ x.entry = "router" /\ (x.sent # {} \/ x.pc = "dispatch")
       /\ LocalCapable(x.type) /\ Over(r, x.seen)
       => rotated \/ x.ungoverned

LEMMA CInvCapped == CInv => \A r \in Runs : Capped(r, run[r])
  BY DEF CInv, Capped, CapRespected, GoneToCloud, OverCap, Over

\* A run changes alone and stays within its cap.
LEMMA CapsAlone ==
    ASSUME IInv, TInv, TInv', CInv, NEW r \in Runs, NEW new, Become(r, new),
           UNCHANGED earlier,
           Silent \/ \E e \in Events : Log(r, e),
           new.seen \in Nat, new.seen <= TrueSpend(UserOf[r]), Capped(r, new)
    PROVE  CInv'
<1>1. run'[r] = new /\ \A q \in Runs \ {r} : run'[q] = run[q]
    BY DEF IInv, Become
<1>2. earlier' \in [Users -> Nat]
    BY DEF CInv
<1>3. /\ DOMAIN unread' = Runs
      /\ rotated => rotated'
      /\ ~rotated' => \A q \in Runs : unread'[q] = 0
    BY DEF CInv, Silent, Log
<1>4. ASSUME NEW q \in Runs
      PROVE  run'[q].seen \in Nat /\ run'[q].seen <= TrueSpend(UserOf[q])'
    <2>1. run'[q].seen \in Nat /\ run'[q].seen <= TrueSpend(UserOf[q])
        BY <1>1 DEF CInv
    <2>2. TrueSpend(UserOf[q]) <= TrueSpend(UserOf[q])'
        BY UserIsUser, SpendGrows
    <2>3. TrueSpend(UserOf[q]) \in Nat
        BY UserIsUser, SpendIsNat
    <2>4. TrueSpend(UserOf[q])' \in Nat
        <3> DEFINE C == {e \in Recorded : /\ UserOf[e[1]] = UserOf[q]
                                          /\ Event(e).route = "cloud"
                                          /\ Event(e).cost > 0}
        <3>1. \A x \in Runs : log'[x] \in Seq(Events)
            BY DEF TInv, Told
        <3>2. IsFiniteSet(Recorded')
            BY <3>1, EventsAreFinite DEF Recorded
        <3>3. Cardinality(C') \in Nat
            BY <3>2, FS_Subset, FS_CardinalityType
        <3>4. earlier'[UserOf[q]] \in Nat
            BY <1>2, UserIsUser
        <3> QED BY <3>3, <3>4 DEF TrueSpend, CloudSpend
    <2> QED BY <2>1, <2>2, <2>3, <2>4
<1>5. \A q \in Runs : Capped(q, run'[q])
    BY <1>1, CInvCapped
<1>6. \A q \in Runs : Capped(q, run[q])'
    BY <1>3, <1>5 DEF Capped, Over
<1>7. CapRespected' /\ \A q \in Runs : run'[q].pc = "saving" /\ OverCap(q)' =>
                        rotated' \/ run'[q].threshold = "force-local"
    BY <1>6 DEF Capped, CapRespected, GoneToCloud, OverCap, Over
<1> QED BY <1>2, <1>3, <1>4, <1>7 DEF CInv

\* ... as it does when it goes no closer to the cloud than it was.
LEMMA NoCloser ==
    ASSUME IInv, TInv, TInv', CInv, NEW r \in Runs, NEW new, Become(r, new),
           UNCHANGED earlier,
           Silent \/ \E e \in Events : Log(r, e),
           new.entry = run[r].entry, new.type = run[r].type,
           new.seen = run[r].seen, new.ungoverned = run[r].ungoverned,
           new.pc # "saving",
           new.sent # {} \/ new.pc = "dispatch" => run[r].sent # {} \/ run[r].pc = "dispatch"
    PROVE  CInv'
<1>1. Capped(r, new)
    BY CInvCapped DEF Capped
<1>2. new.seen \in Nat /\ new.seen <= TrueSpend(UserOf[r])
    BY DEF CInv
<1> QED BY <1>1, <1>2, CapsAlone

LEMMA AbortedNoCloser ==
    ASSUME IInv, NEW r \in Runs
    PROVE  /\ DOMAIN Aborted(r) = Fields /\ Aborted(r).pc = "aborted"
           /\ Aborted(r).entry = run[r].entry /\ Aborted(r).type = run[r].type
           /\ Aborted(r).seen = run[r].seen /\ Aborted(r).ungoverned = run[r].ungoverned
           /\ Aborted(r).sent = run[r].sent
<1>1. DOMAIN run[r] = Fields
    BY DEF IInv
<1> QED BY <1>1 DEF Aborted

\* While nothing is rotated away the governor sees what was spent.
LEMMA FileIsTrue ==
    ASSUME TInv, CInv, ~rotated, NEW u
    PROVE  FileSpend(u) = TrueSpend(u)
<1>1. InFile = Recorded
    <2> SUFFICES ASSUME NEW e \in Recorded PROVE e[2] > unread[e[1]]
        BY DEF InFile
    <2>1. PICK q \in Runs : e \in {q} \X DOMAIN log[q]
        BY DEF Recorded
    <2>2. log[q] \in Seq(Events)
        BY DEF TInv, Told
    <2> QED BY <2>1, <2>2 DEF CInv
<1> QED BY <1>1 DEF FileSpend, TrueSpend

LEMMA StartCInv ==
    ASSUME IInv, TInv, TInv', CInv, NEW r \in Runs, Start(r) PROVE CInv'
<1>1. PICK e \in Entries, t \in Types, x \in DialTexts, private \in BOOLEAN :
        /\ Become(r, [run[r] EXCEPT
             !.pc = AfterRoute(e, Decide(t, ParseDial(x[1], x[2])), private),
             !.entry = e, !.type = t, !.dial = ParseDial(x[1], x[2]),
             !.private = private, !.seen = TrueSpend(UserOf[r])])
        /\ \/ Log(r, Generation("refused", FALSE, 0))
           \/ Silent
    BY Zenon DEF Start
<1> DEFINE d == ParseDial(x[1], x[2])
           pc == AfterRoute(e, Decide(t, d), private)
           new == [run[r] EXCEPT !.pc = pc, !.entry = e, !.type = t, !.dial = d,
                                 !.private = private, !.seen = TrueSpend(UserOf[r])]
<1>2. /\ DOMAIN run[r] = Fields /\ run[r].sent = {} /\ UNCHANGED earlier
    BY DEF IInv, Lawful, Start, Unshared
<1>3. /\ pc \in {"local", "govern", "dispatch", "refused"}
      /\ e = "router" => pc # "dispatch"
    BY DEF AfterRoute
<1> HIDE DEF d, pc
<1>4. /\ new.pc = pc /\ new.entry = e /\ new.sent = {}
      /\ new.seen = TrueSpend(UserOf[r])
    BY <1>2
<1>5. Become(r, new)
    BY <1>1 DEF d, pc
<1>6. Generation("refused", FALSE, 0) \in Events
    BY GenerationIsEvent
<1> HIDE DEF new
<1>7. Capped(r, new)
    BY <1>3, <1>4 DEF Capped
<1>8. new.seen \in Nat /\ new.seen <= TrueSpend(UserOf[r])
    BY <1>4, UserIsUser, SpendIsNat
<1> QED BY <1>1, <1>2, <1>5, <1>6, <1>7, <1>8, CapsAlone

\* A run that is over its cap and forced local does not go to the cloud.
LEMMA ForcedLocal ==
    ASSUME NEW t \in TaskTypes, LocalCapable(t), NEW d
    PROVE  Decide(t, Target("force-local", d)) = "local"
  BY DEF LocalCapable, Decide, Classify, LocalGate, Target, ForceLocal

LEMMA GovernedCapped ==
    ASSUME IInv, CInv, NEW r \in Runs, NEW th, run[r].pc \in {"govern", "saving"},
           Over(r, run[r].seen) => rotated \/ th = "force-local"
    PROVE  LET new == Governed(r, Target(th, run[r].dial))
           IN  Capped(r, new) /\ new.seen = run[r].seen
<1> DEFINE d == Target(th, run[r].dial)
           new == Governed(r, d)
<1>1. DOMAIN run[r] = Fields /\ Lawful(run[r]) /\ run[r].sent = {}
    BY DEF IInv, Lawful
<1>2. run[r].type \in TaskTypes
    BY <1>1, TaskRunAssumption DEF Lawful
<1>3. CASE LocalCapable(run[r].type) /\ th = "force-local"
    <2>1. Decide(run[r].type, d) = "local"
        BY <1>2, <1>3, ForcedLocal
    <2>2. new.pc = "local" /\ new.sent = {} /\ new.seen = run[r].seen
        <3> HIDE DEF d
        <3> QED BY <1>1, <2>1 DEF Governed
    <2> HIDE DEF new
    <2> QED BY <2>2 DEF Capped, new
<1>4. CASE ~(LocalCapable(run[r].type) /\ th = "force-local")
    <2>1. /\ new.pc \in {"local", "dispatch"} /\ new.type = run[r].type
          /\ new.seen = run[r].seen
        <3> HIDE DEF d
        <3> QED BY <1>1 DEF Governed
    <2> HIDE DEF new
    <2> QED BY <1>4, <2>1 DEF Capped, new
<1> QED BY <1>3, <1>4

LEMMA GovernCInv ==
    ASSUME IInv, TInv, TInv', CInv, NEW r \in Runs, Govern(r) PROVE CInv'
<1> DEFINE u == UserOf[r]
           th == Threshold(FileSpend(u), Budget[u])
           saving == [run[r] EXCEPT !.pc = "saving", !.threshold = th, !.memory = fired[u]]
           governed == Governed(r, Target(th, run[r].dial))
<1>1. /\ run[r].pc = "govern" /\ Silent /\ UNCHANGED earlier
      /\ DOMAIN run[r] = Fields /\ run[r].sent = {}
      /\ run[r].seen \in Nat /\ run[r].seen <= TrueSpend(u)
    BY DEF Govern, IInv, CInv, Lawful
<1>2. Over(r, run[r].seen) => rotated \/ th = "force-local"
    <2> SUFFICES ASSUME Over(r, run[r].seen), ~rotated PROVE th = "force-local"
        OBVIOUS
    <2>1. FileSpend(u) = TrueSpend(u) /\ TrueSpend(u) \in Nat
        BY FileIsTrue, UserIsUser, SpendIsNat
    <2>2. Budget[u] \in Nat
        BY UserIsUser, TaskRunAssumption DEF Users
    <2>3. Budget[u] > 0 /\ 100 * TrueSpend(u) >= 95 * Budget[u]
        <3> DEFINE a == run[r].seen
                   b == TrueSpend(u)
                   c == Budget[u]
        <3>1. a \in Nat /\ b \in Nat /\ c \in Nat /\ a <= b
            BY <1>1, <2>1, <2>2
        <3>2. c > 0 /\ 100 * a >= 95 * c
            BY DEF Over
        <3> HIDE DEF a, b, c
        <3>3. c > 0 /\ 100 * b >= 95 * c
            BY <3>1, <3>2
        <3> QED BY <3>3 DEF b, c
    <2> QED BY <2>1, <2>2, <2>3 DEF Threshold
<1> HIDE DEF th
<1>3. Become(r, governed) \/ Become(r, saving)
    BY DEF Govern, th
<1>4. CASE Become(r, governed)
    <2>1. Capped(r, governed) /\ governed.seen = run[r].seen
        BY <1>1, <1>2, GovernedCapped
    <2> HIDE DEF governed
    <2> QED BY <1>1, <1>4, <2>1, CapsAlone
<1>5. CASE Become(r, saving)
    <2>1. /\ saving.pc = "saving" /\ saving.threshold = th /\ saving.sent = {}
          /\ saving.seen = run[r].seen
        BY <1>1
    <2> HIDE DEF saving
    <2>2. Capped(r, saving)
        BY <1>2, <2>1 DEF Capped
    <2> QED BY <1>1, <1>5, <2>1, <2>2, CapsAlone
<1> QED BY <1>3, <1>4, <1>5

LEMMA SaveCInv ==
    ASSUME IInv, TInv, TInv', CInv, NEW r \in Runs,
           Truncate(r) \/ Save(r) \/ GovernorRaises(r)
    PROVE  CInv'
<1>1. Silent /\ UNCHANGED earlier /\ DOMAIN run[r] = Fields
      /\ run[r].seen \in Nat /\ run[r].seen <= TrueSpend(UserOf[r])
    BY DEF Truncate, Save, GovernorRaises, Unshared, IInv, CInv
<1>2. CASE Truncate(r)
    BY <1>1, <1>2 DEF Truncate, Silent, CInv, TrueSpend, CloudSpend, Recorded, Event,
       CapRespected, GoneToCloud, OverCap
<1>3. CASE Save(r)
    <2> DEFINE new == Governed(r, Target(run[r].threshold, run[r].dial))
    <2>1. run[r].pc = "saving" /\ Become(r, new)
        BY <1>3 DEF Save
    <2>2. Over(r, run[r].seen) => rotated \/ run[r].threshold = "force-local"
        BY <2>1, CInvCapped DEF Capped
    <2>3. Capped(r, new) /\ new.seen = run[r].seen
        BY <2>1, <2>2, GovernedCapped
    <2> HIDE DEF new
    <2> QED BY <1>1, <2>1, <2>3, CapsAlone
<1>4. CASE GovernorRaises(r)
    <2>1. Become(r, Ungoverned(r))
        BY <1>4 DEF GovernorRaises
    <2>2. /\ Ungoverned(r).pc = "dispatch" /\ Ungoverned(r).ungoverned
          /\ Ungoverned(r).seen = run[r].seen
        BY <1>1 DEF Ungoverned
    <2>3. Capped(r, Ungoverned(r))
        BY <2>2 DEF Capped
    <2> QED BY <1>1, <2>1, <2>2, <2>3, CapsAlone
<1> QED BY <1>2, <1>3, <1>4

\* The provider is asked only from where it could be before.
LEMMA DispatchCInv ==
    ASSUME IInv, TInv, TInv', CInv, NEW r \in Runs,
           DispatchRaises(r) \/ DispatchAnswers(r) \/ CloudVerifyRaises(r)
    PROVE  CInv'
<1>1. /\ run[r].pc = "dispatch" /\ DOMAIN run[r] = Fields /\ UNCHANGED earlier
    BY DEF DispatchRaises, DispatchAnswers, CloudVerifyRaises, Unshared, IInv
<1>2. Silent \/ \E e \in Events : Log(r, e)
    BY GenerationIsEvent DEF DispatchRaises, DispatchAnswers, CloudVerifyRaises
<1>3. \E new : /\ Become(r, new) /\ new.pc # "saving"
               /\ new.entry = run[r].entry /\ new.type = run[r].type
               /\ new.seen = run[r].seen /\ new.ungoverned = run[r].ungoverned
    <2>1. CASE DispatchRaises(r)
        <3> DEFINE x == IF run[r].entry = "router" THEN Aborted(r) ELSE run[r]
                   pc == IF run[r].entry = "router" THEN "unavailable" ELSE "done"
        <3>1. PICK setup \in Setups :
                Become(r, [[x EXCEPT !.sent = @ \cup Serving(setup)] EXCEPT !.pc = pc])
            BY <2>1 DEF DispatchRaises
        <3>2. /\ DOMAIN x = Fields /\ pc # "saving"
              /\ x.entry = run[r].entry /\ x.type = run[r].type
              /\ x.seen = run[r].seen /\ x.ungoverned = run[r].ungoverned
            BY <1>1, AbortedNoCloser
        <3> HIDE DEF x, pc
        <3> DEFINE new == [[x EXCEPT !.sent = @ \cup Serving(setup)] EXCEPT !.pc = pc]
        <3>3. /\ new.pc = pc /\ new.entry = x.entry /\ new.type = x.type
              /\ new.seen = x.seen /\ new.ungoverned = x.ungoverned
            BY <3>2
        <3>4. Become(r, new)
            BY <3>1
        <3> HIDE DEF new
        <3> QED BY <3>2, <3>3, <3>4
    <2>2. CASE DispatchAnswers(r)
        <3>1. PICK accepted \in BOOLEAN :
                \E provider : Become(r, Answered(r, provider, accepted))
            <4>1. PICK setup \in Setups, accepted \in BOOLEAN, cost \in {0, 1} :
                    \E provider \in Serving(setup) :
                        Become(r, Answered(r, provider, accepted))
                BY <2>2 DEF DispatchAnswers
            <4> QED BY <4>1
        <3>2. PICK provider : Become(r, Answered(r, provider, accepted))
            BY <3>1
        <3> DEFINE new == Answered(r, provider, accepted)
        <3>3. /\ new.pc \in {"dispatch", "done"}
              /\ new.entry = run[r].entry /\ new.type = run[r].type
              /\ new.seen = run[r].seen /\ new.ungoverned = run[r].ungoverned
            BY <1>1 DEF Answered
        <3> HIDE DEF new
        <3> QED BY <3>2, <3>3 DEF new
    <2>3. CASE CloudVerifyRaises(r)
        <3>1. PICK provider : Become(r, [Aborted(r) EXCEPT !.sent = @ \cup {provider}])
            BY <2>3 DEF CloudVerifyRaises
        <3> DEFINE new == [Aborted(r) EXCEPT !.sent = @ \cup {provider}]
        <3>2. /\ new.pc = "aborted"
              /\ new.entry = run[r].entry /\ new.type = run[r].type
              /\ new.seen = run[r].seen /\ new.ungoverned = run[r].ungoverned
            BY AbortedNoCloser
        <3> HIDE DEF new
        <3> QED BY <3>1, <3>2 DEF new
    <2> QED BY <2>1, <2>2, <2>3
<1> QED BY <1>1, <1>2, <1>3, NoCloser

\* A run that is served here has sent nothing, and sends nothing.
LEMMA LocalCInv ==
    ASSUME IInv, TInv, TInv', CInv, NEW r \in Runs,
           \/ StartLocal(r) \/ CompleteRaises(r) \/ CompleteAnswers(r)
           \/ LocalVerifyRaises(r) \/ Settle(r) \/ StoreRaises(r) \/ Proxy(r)
    PROVE  CInv'
<1>1. /\ run[r].pc \in {"local", "trying", "settle"} /\ DOMAIN run[r] = Fields
      /\ run[r].sent = {} /\ UNCHANGED earlier
    BY DEF StartLocal, CompleteRaises, CompleteAnswers, LocalVerifyRaises, Settle,
       StoreRaises, Proxy, Unshared, IInv, Lawful
<1>2. Silent \/ \E e \in Events : Log(r, e)
    <2>1. Generation("local", FALSE, 0) \in Events
        BY GenerationIsEvent
    <2>2. Generation("local", IsLast(r), 0) \in Events
        BY GenerationIsEvent DEF IsLast
    <2>3. ASSUME NEW accepted \in BOOLEAN
          PROVE  Generation("local", IsLast(r) /\ ~accepted, 0) \in Events
        BY GenerationIsEvent DEF IsLast
    <2> QED BY <2>1, <2>2, <2>3 DEF StartLocal, CompleteRaises, CompleteAnswers,
            LocalVerifyRaises, Settle, StoreRaises, Proxy
<1> DEFINE Here(new) == /\ new.pc \notin {"saving", "dispatch"} /\ new.sent = {}
                        /\ new.entry = run[r].entry /\ new.type = run[r].type
                        /\ new.seen = run[r].seen /\ new.ungoverned = run[r].ungoverned
<1>3. /\ DOMAIN Aborted(r) = Fields /\ Here(Aborted(r))
      /\ Here([Aborted(r) EXCEPT !.pc = "unavailable"])
      /\ Here([Aborted(r) EXCEPT !.asked = TRUE])
    BY <1>1, AbortedNoCloser
<1>4. ASSUME NEW list PROVE Here(Trying(r, list))
    BY <1>1 DEF Trying
<1>5. ASSUME NEW state, DOMAIN state = Fields, Here(state) PROVE Here(Attempted(r, state))
    BY <1>5 DEF Attempted
<1>6. \E new : Become(r, new) /\ Here(new)
    <2>1. CASE StartLocal(r)
        <3>1. \/ Become(r, [Aborted(r) EXCEPT !.pc = "unavailable"])
              \/ \E list : Become(r, Trying(r, list))
            BY <2>1 DEF StartLocal
        <3> HIDE DEF Here
        <3> QED BY <1>3, <1>4, <3>1
    <2>2. CASE CompleteRaises(r)
        <3> DEFINE state == [run[r] EXCEPT !.asked = TRUE, !.rejected = FALSE]
        <3>1. DOMAIN state = Fields /\ Here(state) /\ Become(r, Attempted(r, state))
            BY <1>1, <2>2 DEF CompleteRaises
        <3> HIDE DEF state, Here
        <3> QED BY <1>5, <3>1
    <2>3. CASE CompleteAnswers(r)
        <3>1. PICK accepted \in BOOLEAN :
                Become(r, Attempted(r, [run[r] EXCEPT !.asked = TRUE,
                             !.output = run[r].model, !.ok = accepted,
                             !.rejected = ~accepted]))
            BY <2>3 DEF CompleteAnswers
        <3> DEFINE state == [run[r] EXCEPT !.asked = TRUE, !.output = run[r].model,
                                           !.ok = accepted, !.rejected = ~accepted]
        <3>2. DOMAIN state = Fields /\ Here(state)
            BY <1>1
        <3> HIDE DEF Here
        <3> QED BY <1>5, <3>1, <3>2
    <2>4. CASE LocalVerifyRaises(r)
        <3> HIDE DEF Here
        <3> QED BY <1>3, <2>4 DEF LocalVerifyRaises
    <2>5. CASE Settle(r)
        <3> DEFINE ended == [run[r] EXCEPT !.pc = "done"]
        <3>1. Become(r, ended) \/ \E list : Become(r, Trying(r, list))
            BY <2>5 DEF Settle
        <3>2. Here(ended)
            BY <1>1
        <3> HIDE DEF ended, Here
        <3> QED BY <1>4, <3>1, <3>2
    <2>6. CASE StoreRaises(r)
        <3> HIDE DEF Here
        <3> QED BY <1>3, <2>6 DEF StoreRaises
    <2>7. CASE Proxy(r)
        <3>1. \/ Become(r, [run[r] EXCEPT !.pc = "refused"])
              \/ \E ok \in BOOLEAN :
                   Become(r, [run[r] EXCEPT !.pc = "done", !.asked = TRUE, !.ok = ok])
            BY <2>7 DEF Proxy
        <3>2. /\ Here([run[r] EXCEPT !.pc = "refused"])
              /\ \A ok : Here([run[r] EXCEPT !.pc = "done", !.asked = TRUE, !.ok = ok])
            BY <1>1
        <3> HIDE DEF Here
        <3> QED BY <3>1, <3>2
    <2> QED BY <2>1, <2>2, <2>3, <2>4, <2>5, <2>6, <2>7
<1> QED BY <1>1, <1>2, <1>6, NoCloser

LEMMA CrashCInv ==
    ASSUME IInv, TInv, TInv', CInv, NEW r \in Runs, Crash(r) PROVE CInv'
<1>1. Become(r, Aborted(r)) /\ Silent /\ UNCHANGED earlier
    BY DEF Crash, Unshared
<1> QED BY <1>1, AbortedNoCloser, NoCloser

LEMMA InitCInv == Init => CInv
<1> SUFFICES ASSUME Init PROVE CInv
    OBVIOUS
<1>1. TInv
    BY InitTInv
<1>2. earlier \in [Users -> Nat]
    BY TaskRunAssumption DEF Init
<1>3. ASSUME NEW r \in Runs
      PROVE  /\ run[r].seen = 0 /\ run[r].sent = {} /\ run[r].pc = "idle"
             /\ TrueSpend(UserOf[r]) \in Nat /\ unread[r] = 0
    <2>1. TrueSpend(UserOf[r]) \in Nat
        <3>1. CloudSpend(UserOf[r], Recorded) \in Nat
            BY <1>1, RecordedIsFinite, FS_Subset, FS_CardinalityType DEF CloudSpend
        <3>2. earlier[UserOf[r]] \in Nat
            BY <1>2, UserIsUser
        <3> QED BY <3>1, <3>2 DEF TrueSpend
    <2> QED BY <2>1 DEF Init
<1>4. DOMAIN unread = Runs
    BY DEF Init
<1> QED BY <1>2, <1>3, <1>4 DEF CInv, CapRespected, GoneToCloud

LEMMA NextCInv == IInv /\ TInv /\ TInv' /\ CInv /\ [Next]_vars => CInv'
<1> SUFFICES ASSUME IInv, TInv, TInv', CInv, [Next]_vars PROVE CInv'
    OBVIOUS
<1>1. CASE UNCHANGED vars
    <2>1. ASSUME NEW r \in Runs
          PROVE  run'[r].seen \in Nat /\ run'[r].seen <= TrueSpend(UserOf[r])'
        <3>1. TrueSpend(UserOf[r])' = TrueSpend(UserOf[r])
            BY <1>1 DEF vars, TrueSpend, CloudSpend, Recorded, Event
        <3> QED BY <1>1, <3>1 DEF vars, CInv
    <2>2. CapRespected'
        BY <1>1 DEF vars, CInv, CapRespected, GoneToCloud, OverCap
    <2>3. ASSUME NEW r \in Runs
          PROVE  run'[r].pc = "saving" /\ OverCap(r)' =>
                     rotated' \/ run'[r].threshold = "force-local"
        BY <1>1 DEF vars, CInv, OverCap
    <2>4. /\ earlier' \in [Users -> Nat] /\ DOMAIN unread' = Runs
          /\ ~rotated' => \A r \in Runs : unread'[r] = 0
        BY <1>1 DEF vars, CInv
    <2> QED BY <2>1, <2>2, <2>3, <2>4 DEF CInv
<1>2. ASSUME NEW r \in Runs, Step(r) PROVE CInv'
    BY <1>2, StartCInv, GovernCInv, SaveCInv, DispatchCInv, LocalCInv DEF Step
<1>3. ASSUME NEW r \in Runs, Crash(r) PROVE CInv'
    BY <1>3, CrashCInv
<1> QED BY <1>1, <1>2, <1>3 DEF Next, AllEnded

\* The cap of a user holds every supervised run back that could see it was
\* reached (task.py:233, governor.py:243), however many runs of however many
\* users read and save the governor's state at once.
THEOREM CapIsRespected == Spec => []CapRespected
<1>1. CInv => CapRespected
    BY DEF CInv
<1> QED BY Invariance, TruthIsTold, InitCInv, NextCInv, <1>1, PTL DEF Spec
====

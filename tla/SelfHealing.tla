---- MODULE SelfHealing ----
(***************************************************************************)
(* The recovery engine (self_healing.py): a job tries the models its role  *)
(* offers, repairs each a bounded number of times, and, where its caller   *)
(* supplies the adapters, discovers, installs, evaluates and promotes a    *)
(* challenger, which it must undo if the challenger then fails to serve.   *)
(*                                                                         *)
(* Engines of several processes share the compatibility store, a file.     *)
(* Each call of the store takes its lock and reads the file anew; a file   *)
(* that cannot be read counts as empty.  A call that writes is two steps,  *)
(* the reading and the saving.  A call may also raise, and changes nothing *)
(* then: the saving replaces the file as a whole.                          *)
(*                                                                         *)
(* An adapter's call may take any time, return or raise; the deadline      *)
(* passes at any moment.                                                   *)
(*                                                                         *)
(* A failed attempt counts as "contract" if its kind is one for which the  *)
(* model is blocked (schema, safety, quality, incompatible), else "other". *)
(***************************************************************************)
EXTENDS Lists, FiniteSets

CONSTANTS Engines,      \* one run of the engine each, all for one role
          Jobs, JobOf,  \* the job an engine runs
          Equipped,     \* the engines whose callers supply the adapters
          Deadlined,    \* the engines whose contracts have a deadline
          AllModels, Incumbent, Fallback,
          Suitable,     \* the models with the capabilities and the privacy
          Absent,       \* the models of the role that may not be installed
          Offers,       \* what discovery may return, best first
          RepairAttempts,
          CallsBound,   \* where the count of a model's calls stops
          NoModel

ASSUME SelfHealingAssumption ==
    /\ JobOf \in [Engines -> Jobs]
    /\ Equipped \cup Deadlined \subseteq Engines
    /\ {Incumbent, Fallback} \cup Suitable \cup Absent \subseteq AllModels
    /\ Offers \subseteq Seq(AllModels)
    /\ RepairAttempts \in Nat /\ CallsBound \in Nat
    /\ NoModel \notin AllModels

VARIABLES eng,          \* the state of each engine's run
          late,         \* the engines whose deadline and late window are over
          blocked,      \* the store: <<job, model>> with an entry not expired
          fleet         \* the role in the registry: its incumbent and rollback

enginevars == <<eng, late, blocked, fleet>>

\* Where an engine is; each gate is passed when its adapter is asked next.
\* While it saves it holds the store's lock.
Gates == {"fit", "install", "evaluate", "promote"}
Saving == {"blocking", "rejecting", "marking"}
Over == {"served", "failed", "raised"}
Places == {"idle", "try", "invoking", "validating", "discover", "discovering",
           "rollback"} \cup Gates \cup Saving \cup Over

\* offer is the list of discovery once it was filtered, calls counts the calls
\* of invoke per model.  swapFailed is set when promote or rollback failed, as
\* the report will say.  While an engine saves, data is what it read of the
\* store, and read says whether it could.
EngineInit ==
    /\ eng = [e \in Engines |->
                [pc |-> "idle", todo |-> <<>>, offer |-> <<>>, trial |-> FALSE,
                 left |-> RepairAttempts, tried |-> {}, before |-> NoModel,
                 calls |-> [m \in AllModels |-> 0], swapFailed |-> FALSE,
                 data |-> {}, read |-> TRUE]]
    /\ late = {}
    /\ blocked = {}
    /\ fleet = [now |-> Incumbent, back |-> NoModel]
-----------------------------------------------------------------------------
Model(e) == Head(eng[e].todo)

Goto(e, s) == eng' = [eng EXCEPT ![e].pc = s]

\* _eligible: the models it leaves out, if it could read the entries in seen.
Unfit(e, seen) == {m \in AllModels : m \notin Suitable \/ <<JobOf[e], m>> \in seen}

\* role_candidates: incumbent, fallback, retained rollback, each once.
Candidates == Once(<<fleet.now, Fallback, fleet.back>>)

\* The candidates of the loop, ready for the attempts of the first one.
Trying(e, list) ==
    IF list = <<>> THEN [eng[e] EXCEPT !.pc = "discover", !.todo = list]
    ELSE [eng[e] EXCEPT !.pc = "try", !.todo = list, !.left = RepairAttempts]

\* The current candidate of _try_candidates has used up its attempts, or the
\* deadline is over and the rest is not tried at all.
NextCandidate(e) ==
    IF eng[e].trial THEN [eng[e] EXCEPT !.pc = "rollback"]
    ELSE Trying(e, Tail(eng[e].todo))

AbandonTrial(e) == [eng[e] EXCEPT !.pc = "discover"]

Abandon(e) == [eng[e] EXCEPT !.pc = IF eng[e].trial THEN "rollback" ELSE "discover"]

\* The models of discovery that are passed over: the installed ones, tried
\* already.
SkipNone(e) == {}

Skip(e) == eng[e].tried

\* Discovery goes on with list, or the run has failed.
Discovered(e, list) ==
    [eng[e] EXCEPT !.todo = list, !.trial = FALSE,
                   !.pc = IF list = <<>> THEN "failed" ELSE "fit"]
-----------------------------------------------------------------------------
(***************************************************************************)
(* The store: block and mark_compatible, up to the saving.                 *)
(***************************************************************************)
Free == \A e \in Engines : eng[e].pc \notin Saving

Take(e, s) ==
    \E data \in {blocked, {}} :
        eng' = [eng EXCEPT ![e].pc = s, ![e].data = data, ![e].read = (data = blocked)]

ReadUnlocked(e, s) == Take(e, s)

ReadLocked(e, s) == Free /\ Take(e, s)

Entry(e) == <<JobOf[e], Model(e)>>

\* The lock is released; what was read is not used again.
Unlocked(run) == [run EXCEPT !.data = {}, !.read = TRUE]

\* run: the candidates are those of the role at this moment.
Start(e) ==
    /\ eng[e].pc = "idle"
    /\ Free
    /\ \E absent \in SUBSET Absent, seen \in SUBSET blocked :
         \E list \in {Without(Candidates, {NoModel} \cup absent \cup Unfit(e, seen))} :
           eng' = [eng EXCEPT ![e] = [Trying(e, list) EXCEPT
                                        !.tried = ToSet(list), !.before = fleet.now]]
    /\ UNCHANGED <<late, blocked, fleet>>

Invoke(e) ==
    /\ eng[e].pc = "try"
    /\ eng' = [eng EXCEPT ![e] =
                 IF e \in late THEN Abandon(e)
                 ELSE [eng[e] EXCEPT !.pc = "invoking", !.calls[Model(e)] =
                                           IF @ < CallsBound THEN @ + 1 ELSE @]]
    /\ UNCHANGED <<late, blocked, fleet>>

\* invoke returned an output.
Output(e) ==
    /\ eng[e].pc = "invoking"
    /\ eng' = [eng EXCEPT ![e] =
                 IF e \in late THEN Abandon(e) ELSE [eng[e] EXCEPT !.pc = "validating"]]
    /\ UNCHANGED <<late, blocked, fleet>>

\* The output satisfies the contract, and the store takes note of it.
Satisfy(e) ==
    /\ eng[e].pc = "validating"
    /\ ReadLocked(e, "marking")
    /\ UNCHANGED <<late, blocked, fleet>>

SaveSuccess(e) ==
    /\ eng[e].pc = "marking"
    /\ blocked' = IF Entry(e) \in eng[e].data THEN eng[e].data \ {Entry(e)} ELSE blocked
    /\ eng' = [eng EXCEPT ![e] = [Unlocked(eng[e]) EXCEPT !.pc = "served"]]
    /\ UNCHANGED <<late, fleet>>

\* invoke raised, validate raised or refused, or the store did not take the
\* note: the feedback goes into the next attempt, if there is one.
RepairForever(e) ==
    /\ eng[e].pc \in {"invoking", "validating"}
    /\ eng[e].left > 0
    /\ eng' = [eng EXCEPT ![e].pc = "try"]
    /\ UNCHANGED <<late, blocked, fleet>>

Repair(e) ==
    /\ eng[e].pc \in {"invoking", "validating"}
    /\ eng[e].left > 0
    /\ eng' = [eng EXCEPT ![e].pc = "try", ![e].left = @ - 1]
    /\ UNCHANGED <<late, blocked, fleet>>

GiveUp(e) ==
    /\ eng[e].pc \in {"invoking", "validating"}
    /\ eng[e].left = 0
    /\ \/ ReadLocked(e, "blocking")
       \/ eng' = [eng EXCEPT ![e] = NextCandidate(e)]
    /\ UNCHANGED <<late, blocked, fleet>>

SaveFailure(e) ==
    /\ eng[e].pc = "blocking"
    /\ blocked' = eng[e].data \cup {Entry(e)}
    /\ eng' = [eng EXCEPT ![e] = Unlocked(NextCandidate(e))]
    /\ UNCHANGED <<late, fleet>>
-----------------------------------------------------------------------------
\* The installed models are exhausted.
Discover(e) ==
    /\ eng[e].pc = "discover"
    /\ Goto(e, IF e \in Equipped \ late THEN "discovering" ELSE "failed")
    /\ UNCHANGED <<late, blocked, fleet>>

\* discover returned, or raised; what it returned too late is not looked at.
Offered(e) ==
    /\ eng[e].pc = "discovering"
    /\ e \in late \/ Free
    /\ \E o \in Offers \cup {<<>>}, seen \in SUBSET blocked :
         \E list \in {IF e \in late THEN <<>> ELSE Without(o, Unfit(e, seen) \cup Skip(e))} :
           eng' = [eng EXCEPT ![e] = [Discovered(e, list) EXCEPT !.offer = list]]
    /\ UNCHANGED <<late, blocked, fleet>>

\* The deadline is checked before each adapter is asked.
StopLate(e) ==
    /\ eng[e].pc \in Gates
    /\ e \in late
    /\ Goto(e, "failed")
    /\ UNCHANGED <<late, blocked, fleet>>

\* A gate's adapter refused or raised.
Refuse(e) ==
    /\ eng[e].pc \in Gates
    /\ e \notin late
    /\ eng' = [eng EXCEPT ![e] = Discovered(e, Tail(eng[e].todo))]
    /\ UNCHANGED <<late, blocked, fleet>>

Pass(e) ==
    /\ e \notin late
    /\ \/ eng[e].pc = "fit" /\ Goto(e, "install")
       \/ eng[e].pc = "install" /\ Goto(e, "evaluate")
       \/ eng[e].pc = "evaluate" /\ Goto(e, "promote")
    /\ UNCHANGED <<late, blocked, fleet>>

\* The evaluation found the quality below the floor.
FailQuality(e) ==
    /\ eng[e].pc = "promote"
    /\ e \notin late
    /\ ReadLocked(e, "rejecting")
    /\ UNCHANGED <<late, blocked, fleet>>

SaveRejection(e) ==
    /\ eng[e].pc = "rejecting"
    /\ blocked' = eng[e].data \cup {Entry(e)}
    /\ eng' = [eng EXCEPT ![e] = Unlocked(Discovered(e, Tail(eng[e].todo)))]
    /\ UNCHANGED <<late, fleet>>

\* What promote does to the role, and what rollback does (Registry).
Promoted(m) == IF fleet.now = m THEN fleet ELSE [now |-> m, back |-> fleet.now]
RolledBack == IF fleet.back = NoModel THEN fleet ELSE [now |-> fleet.back, back |-> fleet.now]

Promote(e) ==
    /\ eng[e].pc = "promote"
    /\ e \notin late
    /\ fleet' = Promoted(Model(e))
    /\ eng' = [eng EXCEPT ![e].pc = "try", ![e].trial = TRUE, ![e].left = RepairAttempts]
    /\ UNCHANGED <<late, blocked>>

\* promote raised after its effect: the engine takes it for not promoted.
PromoteHalfway(e) ==
    /\ eng[e].pc = "promote"
    /\ e \notin late
    /\ fleet' = Promoted(Model(e))
    /\ eng' = [eng EXCEPT ![e] = [Discovered(e, Tail(eng[e].todo)) EXCEPT !.swapFailed = TRUE]]
    /\ UNCHANGED <<late, blocked>>

\* _rollback: the adapter restores the incumbent, or fails to, and the
\* report will say so.
Rollback(e) ==
    /\ eng[e].pc = "rollback"
    /\ \/ /\ fleet' = RolledBack
          /\ eng' = [eng EXCEPT ![e] = Discovered(e, Tail(eng[e].todo))]
       \/ /\ fleet' \in {fleet, RolledBack}
          /\ eng' = [eng EXCEPT ![e] =
                       [Discovered(e, Tail(eng[e].todo)) EXCEPT !.swapFailed = TRUE]]
    /\ UNCHANGED <<late, blocked>>

\* The store raised where nothing catches it, and so does run.
StoreRaises(e) ==
    /\ \/ eng[e].pc = "idle"
       \/ eng[e].pc \in {"discovering", "promote"} /\ e \notin late
       \/ eng[e].pc \in {"invoking", "validating"} /\ eng[e].left = 0
    /\ Goto(e, "raised")
    /\ UNCHANGED <<late, blocked, fleet>>
-----------------------------------------------------------------------------
\* Time passes: a deadline, and the ttl of an entry of the store.
DeadlinePasses(e) ==
    /\ e \in Deadlined \ late
    /\ eng[e].pc \notin {"idle"} \cup Over
    /\ late' = late \cup {e}
    /\ UNCHANGED <<eng, blocked, fleet>>

Expires(b) ==
    /\ blocked' = blocked \ {b}
    /\ eng' = [e \in Engines |-> [eng[e] EXCEPT !.data = @ \ {b}]]
    /\ UNCHANGED <<late, fleet>>

Step(e) == \/ Start(e) \/ Invoke(e) \/ Output(e) \/ Satisfy(e) \/ SaveSuccess(e)
           \/ Repair(e) \/ GiveUp(e) \/ SaveFailure(e) \/ Discover(e) \/ Offered(e)
           \/ StopLate(e) \/ Refuse(e) \/ Pass(e) \/ FailQuality(e) \/ SaveRejection(e)
           \/ Promote(e) \/ PromoteHalfway(e) \/ Rollback(e) \/ StoreRaises(e)

EngineNext == \/ \E e \in Engines : Step(e) \/ DeadlinePasses(e)
              \/ \E b \in blocked : Expires(b)

\* Adapters own the time-outs of their calls, so each call returns or raises;
\* who holds the store's lock saves and releases it.
EngineSpec ==
    /\ EngineInit /\ [][EngineNext]_enginevars
    /\ \A e \in Engines : WF_enginevars(Step(e))
-----------------------------------------------------------------------------
\* The type invariant.
EngineTypeOK ==
    /\ eng \in [Engines -> [pc : Places, todo : Seq(AllModels),
                            offer : Seq(AllModels), trial : BOOLEAN,
                            left : 0 .. RepairAttempts, tried : SUBSET AllModels,
                            before : AllModels \cup {NoModel},
                            calls : [AllModels -> 0 .. CallsBound],
                            swapFailed : BOOLEAN,
                            data : SUBSET (Jobs \X AllModels), read : BOOLEAN]]
    /\ late \subseteq Engines
    /\ blocked \subseteq Jobs \X AllModels
    /\ fleet \in [now : AllModels, back : AllModels \cup {NoModel}]

\* A challenger that could not serve does not stay in place behind a run that
\* failed: the incumbent is the one the run found, unless its report says that
\* promote or rollback themselves failed; and where the store raised past the
\* rollback (self_healing.py:521), one rollback still brings it back.
FailedChallengerUndone ==
    \A e \in Equipped :
        (/\ eng[e].pc \in {"failed", "raised"}
         /\ eng[e].before # NoModel
         /\ ~eng[e].swapFailed) =>
            \/ fleet.now = eng[e].before
            \/ eng[e].pc = "raised" /\ eng[e].trial /\ fleet.back = eng[e].before

\* No model is asked more often in a run than the contract allows: a model of
\* the role one candidate's worth, even if it is discovered as well; any other
\* as often as discovery offers it, which may offer it twice.
Times(m, list) == Cardinality({i \in DOMAIN list : list[i] = m})

BoundedCalls ==
    \A e \in Engines, m \in AllModels :
        eng[e].calls[m] <=
            (RepairAttempts + 1) * IF m \in eng[e].tried THEN 1 ELSE Times(m, eng[e].offer)

\* An entry of the store disappears only when it has expired, when its model has
\* just served its job, or when a run that could not read the store saves it:
\* runs of several processes lose nothing of each other's.
BlockLasts ==
    \A b \in blocked \ blocked' :
        \/ \A e \in Engines : eng'[e].pc = eng[e].pc
        \/ \E e \in Engines :
             /\ eng[e].pc \in Saving /\ eng'[e].pc # eng[e].pc
             /\ IF eng[e].pc = "marking" THEN b = Entry(e) ELSE ~eng[e].read

EveryBlockLasts == [][BlockLasts]_enginevars

\* Every run ends, with an answer or with an error.
EveryRunEnds == \A e \in Engines : <>(eng[e].pc \in Over)
====

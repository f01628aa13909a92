---- MODULE TaskRun ----
(***************************************************************************)
(* Runs of supervised tasks (router/task.py) and task-typed requests to    *)
(* the broker (broker/app.py), each in a process or thread of its own.     *)
(* They share the telemetry, from which the budget governor                *)
(* (econ/governor.py) and the receipts (econ/report.py) read what was      *)
(* spent, the governor's state file and the compatibility store.           *)
(*                                                                         *)
(* One attempt, the model's call, its verification and its event, is one   *)
(* step: all it does to the shared state is to append the event.  Costs    *)
(* are counted in units of one cloud call; a provider that reports no      *)
(* usage is recorded at no cost.  All happens within one month, with the   *)
(* telemetry on and its file writable.                                     *)
(***************************************************************************)
EXTENDS Router, Lists, FiniteSets

CONSTANTS Runs, Entries,    \* "router" and "broker", the ways in
          UserOf, Budget,   \* the users' monthly caps, 0 is none
          Types,            \* the task types that are used
          DialTexts,        \* what the dial's state file may hold
          Setups,           \* the configured providers, in the order of names
          Candidates,       \* the models of the role, in the role's order
          MaxRetries,
          Earlier,          \* what each user may have spent before
          None

ASSUME TaskRunAssumption ==
    /\ Entries \subseteq {"router", "broker"}
    /\ IsFiniteSet(Runs) /\ DOMAIN UserOf = Runs
    /\ Budget \in [Range(UserOf) -> Nat]
    /\ Types \subseteq TaskTypes
    /\ DialTexts \subseteq Int \X (Subs \cup {NoSub})
    /\ \A s \in Setups : Range(s) \subseteq
         [enabled : BOOLEAN, mapped : BOOLEAN, ready : BOOLEAN]
    /\ Candidates \in Seq(Range(Candidates))
    /\ Candidates # <<>> /\ IsInjective(Candidates)
    /\ MaxRetries \in Nat
    /\ Earlier \subseteq Nat
    /\ None \notin ToSet(Candidates) \cup Types /\ None # "cloud"

VARIABLES run,        \* the state of each run; its output is the model
                      \* whose last answer it holds
          log,        \* the generation events of each run, all of them
          unread,     \* how many of them were rotated out of the file
          earlier,    \* the recorded spend of each user before the first run
          rotated,    \* the telemetry was rotated since
          fired,      \* the governor's state file of each user
          emitted,    \* the crossings reported: <<user, threshold>>
          blocked     \* the store: <<task type, model>>

vars == <<run, log, unread, earlier, rotated, fired, emitted, blocked>>

Ended == {"refused", "unavailable", "done", "aborted"}
Places == {"idle", "govern", "saving", "dispatch", "local", "trying", "settle"}
              \cup Ended

Users == Range(UserOf)
Models == ToSet(Candidates)
Crossings == {"tighten", "force-local"}

NotStarted ==
    [pc |-> "idle", entry |-> None, type |-> None, private |-> FALSE, seen |-> 0,
     ungoverned |-> FALSE, asked |-> FALSE, sent |-> {},
     dial |-> DefaultDial, threshold |-> "none", memory |-> {},
     todo |-> <<>>, left |-> MaxRetries, model |-> None, output |-> None,
     ok |-> FALSE, rejected |-> FALSE]

Init == /\ run = [r \in Runs |-> NotStarted]
        /\ log = [r \in Runs |-> <<>>]
        /\ unread = [r \in Runs |-> 0]
        /\ earlier \in [Users -> Earlier]
        /\ rotated = FALSE
        /\ fired = [u \in Users |-> {}]
        /\ emitted = {}
        /\ blocked = {}
-----------------------------------------------------------------------------
\* What is in the telemetry file now, and what ever was.
Recorded == UNION {{r} \X DOMAIN log[r] : r \in Runs}

InFile == {e \in Recorded : e[2] > unread[e[1]]}

Event(e) == log[e[1]][e[2]]

\* month_to_date_cloud_spend, of a user's events among some: those routed to
\* the cloud.  An escalated local attempt did not itself cost anything.
CloudSpend(u, events) ==
    Cardinality({e \in events : /\ UserOf[e[1]] = u
                                /\ Event(e).route = "cloud"
                                /\ Event(e).cost > 0})

FileSpend(u) == CloudSpend(u, InFile) + IF rotated THEN 0 ELSE earlier[u]

TrueSpend(u) == CloudSpend(u, Recorded) + earlier[u]

\* log_event, which first moves a file that is too large out of the way.
Log(r, event) ==
    /\ log' = [log EXCEPT ![r] = Append(@, event)]
    /\ \/ UNCHANGED <<unread, rotated>>
       \/ /\ ~rotated
          /\ rotated' = TRUE
          /\ unread' = [x \in Runs |-> Len(log[x])]

Silent == UNCHANGED <<log, unread, rotated>>

\* _emit_generation
Generation(route, escalated, cost) ==
    [route |-> route, escalated |-> escalated, cost |-> cost]

\* collect_stats and the part of compute_receipts that says what was saved.
Stats(events) ==
    [runs |-> Cardinality(events),
     cloud |-> Cardinality({e \in events : Event(e).route = "cloud"}),
     escalations |-> Cardinality({e \in events : /\ Event(e).escalated
                                                 /\ Event(e).route # "cloud"})]

Saved(stats) == stats.runs - (stats.cloud + stats.escalations)

Unshared == UNCHANGED <<earlier, fired, emitted, blocked>>

Become(r, new) == run' = [run EXCEPT ![r] = new]

\* A run that ends without a result: of its state only what happened to the
\* task is left.
Aborted(r) ==
    [run[r] EXCEPT !.pc = "aborted", !.dial = DefaultDial, !.threshold = "none",
                   !.memory = {}, !.todo = <<>>, !.left = MaxRetries,
                   !.model = None, !.output = None, !.ok = FALSE,
                   !.rejected = FALSE]
-----------------------------------------------------------------------------
\* run and _route_task_type: the dial's file is read, and the route decided.
AfterRoute(entry, route, private) ==
    IF entry = "router"
    THEN CASE route = "local"      -> "local"
           [] route \in CloudRoutes -> "govern"
           [] OTHER                 -> "refused"
    ELSE CASE route \in {"local", "unknown-task-type"} -> "local"
           [] route \in CloudRoutes /\ ~private          -> "dispatch"
           [] OTHER                                      -> "refused"

Start(r) ==
    /\ run[r].pc = "idle"
    /\ \E e \in Entries, t \in Types, x \in DialTexts, private \in BOOLEAN :
         LET d  == ParseDial(x[1], x[2])
             pc == AfterRoute(e, Decide(t, d), private)
         IN  /\ e = "router" => ~private
             /\ Become(r, [run[r] EXCEPT !.pc = pc, !.entry = e, !.type = t,
                                         !.dial = d, !.private = private,
                                         !.seen = TrueSpend(UserOf[r])])
             /\ IF e = "broker" /\ pc = "refused"
                THEN Log(r, Generation("refused", FALSE, 0))
                ELSE Silent
    /\ Unshared
-----------------------------------------------------------------------------
\* The rest of run once the governor has recommended a dial, or nothing.
Governed(r, d) ==
    IF Decide(run[r].type, d) = "local"
    THEN [run[r] EXCEPT !.pc = "local", !.dial = d]
    ELSE [run[r] EXCEPT !.pc = "dispatch"]

Ungoverned(r) == [run[r] EXCEPT !.pc = "dispatch", !.ungoverned = TRUE]

\* govern_user up to the event: spend, threshold, state, then the event.
GovernRecordingFirst(r) ==
    /\ run[r].pc = "govern"
    /\ LET u  == UserOf[r]
           th == Threshold(FileSpend(u), Budget[u])
       IN  IF th = "none" \/ th \in fired[u]
           THEN Become(r, Governed(r, Target(th, run[r].dial))) /\ UNCHANGED fired
           ELSE /\ Become(r, [run[r] EXCEPT !.pc = "saving", !.threshold = th,
                                            !.memory = fired[u]])
                /\ fired' = [fired EXCEPT ![u] = @ \cup {th}]
    /\ Silent
    /\ UNCHANGED <<earlier, emitted, blocked>>

Govern(r) ==
    /\ run[r].pc = "govern"
    /\ LET u  == UserOf[r]
           th == Threshold(FileSpend(u), Budget[u])
       IN  IF th = "none" \/ th \in fired[u]
           THEN Become(r, Governed(r, Target(th, run[r].dial))) /\ UNCHANGED emitted
           ELSE /\ Become(r, [run[r] EXCEPT !.pc = "saving", !.threshold = th,
                                            !.memory = fired[u]])
                /\ emitted' = emitted \cup {<<u, th>>}
    /\ Silent
    /\ UNCHANGED <<earlier, fired, blocked>>

\* _save_state: the file is emptied and then written; who reads it in between
\* finds no crossing in it.
Truncate(r) ==
    /\ run[r].pc = "saving"
    /\ fired[UserOf[r]] # {}
    /\ fired' = [fired EXCEPT ![UserOf[r]] = {}]
    /\ Silent
    /\ UNCHANGED <<run, earlier, emitted, blocked>>

Save(r) ==
    /\ run[r].pc = "saving"
    /\ fired' = [fired EXCEPT ![UserOf[r]] = run[r].memory \cup {run[r].threshold}]
    /\ Become(r, Governed(r, Target(run[r].threshold, run[r].dial)))
    /\ Silent
    /\ UNCHANGED <<earlier, emitted, blocked>>

\* The governor must never break a completion: if it raises, the run goes on
\* as if it had not been asked.
GovernorRaises(r) ==
    /\ run[r].pc \in {"govern", "saving"}
    /\ Become(r, Ungoverned(r))
    /\ Silent
    /\ Unshared
-----------------------------------------------------------------------------
\* dispatch_role: the first enabled provider that maps the role.  It is ready
\* if its kind is known, its SDK installed and its key set; a prompt is sent to
\* nobody else, and to nobody if it is not.
Serving(setup) ==
    LET able == {i \in DOMAIN setup : setup[i].enabled /\ setup[i].mapped}
    IN  {setup[i] : i \in {j \in able : setup[j].ready /\ \A k \in able : j <= k}}

\* _run_cloud and cloud_dispatch_openai: dispatch_role raises, before it has
\* sent the prompt or after, when the call failed or its answer had no text.
DispatchRaises(r) ==
    /\ run[r].pc = "dispatch"
    /\ \E setup \in Setups :
         LET new == [(IF run[r].entry = "router" THEN Aborted(r) ELSE run[r]) EXCEPT
                        !.sent = @ \cup Serving(setup)]
         IN  Become(r, [new EXCEPT !.pc = IF run[r].entry = "router"
                                          THEN "unavailable" ELSE "done"])
    /\ Log(r, Generation("cloud", FALSE, 0))
    /\ Unshared

Answered(r, provider, accepted) ==
    LET answer == [run[r] EXCEPT !.sent = @ \cup {provider}, !.model = "cloud",
                                 !.output = "cloud", !.ok = accepted]
    IN  IF accepted \/ run[r].left = 0 THEN [answer EXCEPT !.pc = "done"]
        ELSE [answer EXCEPT !.left = @ - 1]

DispatchAnswers(r) ==
    /\ run[r].pc = "dispatch"
    /\ \E setup \in Setups, accepted \in BOOLEAN, cost \in {0, 1} :
         /\ run[r].entry = "broker" => accepted
         /\ \E provider \in Serving(setup) : Become(r, Answered(r, provider, accepted))
         /\ Log(r, Generation("cloud", FALSE, cost))
    /\ Unshared

\* verify raised, after the call was paid for and before its event.
CloudVerifyRaises(r) ==
    /\ run[r].pc = "dispatch"
    /\ run[r].entry = "router"
    /\ \E setup \in Setups : \E provider \in Serving(setup) :
         Become(r, [Aborted(r) EXCEPT !.sent = @ \cup {provider}])
    /\ Silent
    /\ Unshared
-----------------------------------------------------------------------------
\* _run_local: the candidates of the role that the store does not block.
TryingKeepingOutput(r, list) ==
    [run[r] EXCEPT !.pc = "trying", !.todo = list, !.left = MaxRetries,
                   !.model = Head(list), !.rejected = FALSE]

Trying(r, list) ==
    [run[r] EXCEPT !.pc = "trying", !.todo = list, !.left = MaxRetries,
                   !.model = Head(list), !.output = None, !.rejected = FALSE]

StartLocal(r) ==
    /\ run[r].pc = "local"
    /\ run[r].entry = "router"
    /\ \E roleConfigured \in BOOLEAN :
         LET list == Without(Candidates, {m \in Models : <<run[r].type, m>> \in blocked})
         IN  Become(r, IF list = <<>> \/ ~roleConfigured
                       THEN [Aborted(r) EXCEPT !.pc = "unavailable"]
                       ELSE Trying(r, list))
    /\ Silent
    /\ Unshared

IsLastOfCandidate(r) == run[r].left = 0

IsLast(r) == Len(run[r].todo) = 1 /\ run[r].left = 0

Attempted(r, new) ==
    IF new.ok \/ run[r].left = 0 THEN [new EXCEPT !.pc = "settle"]
    ELSE [new EXCEPT !.left = @ - 1]

\* complete raised, or the broker served another model than it was asked for.
CompleteRaises(r) ==
    /\ run[r].pc = "trying"
    /\ Become(r, Attempted(r, [run[r] EXCEPT !.asked = TRUE, !.rejected = FALSE]))
    /\ Log(r, Generation("local", IsLast(r), 0))
    /\ Unshared

CompleteAnswers(r) ==
    /\ run[r].pc = "trying"
    /\ \E accepted \in BOOLEAN :
         /\ Become(r, Attempted(r, [run[r] EXCEPT !.asked = TRUE,
                                      !.output = run[r].model, !.ok = accepted,
                                      !.rejected = ~accepted]))
         /\ Log(r, Generation("local", IsLast(r) /\ ~accepted, 0))
    /\ Unshared

\* verify raised: neither an event nor a summary.
LocalVerifyRaises(r) ==
    /\ run[r].pc = "trying"
    /\ Become(r, [Aborted(r) EXCEPT !.asked = TRUE])
    /\ Silent
    /\ Unshared

\* A candidate was accepted, or has used up its attempts; it is blocked if
\* the last of them was rejected by verify.
Settle(r) ==
    /\ run[r].pc = "settle"
    /\ LET entry == <<run[r].type, run[r].model>>
       IN  blocked' = IF run[r].ok THEN blocked \ {entry}
                      ELSE IF run[r].rejected THEN blocked \cup {entry}
                      ELSE blocked
    /\ Become(r, IF run[r].ok \/ Len(run[r].todo) = 1
                 THEN [run[r] EXCEPT !.pc = "done"]
                 ELSE Trying(r, Tail(run[r].todo)))
    /\ Silent
    /\ UNCHANGED <<earlier, fired, emitted>>

StoreRaises(r) ==
    /\ run[r].pc = "settle"
    /\ run[r].ok \/ run[r].rejected
    /\ Become(r, Aborted(r))
    /\ Silent
    /\ Unshared

\* _proxy_generation as the end of a task-typed request (BrokerRequest has its
\* steps): refused without an event, or served or failed with one.
Proxy(r) ==
    /\ run[r].pc = "local"
    /\ run[r].entry = "broker"
    /\ \/ Become(r, [run[r] EXCEPT !.pc = "refused"]) /\ Silent
       \/ \E ok \in BOOLEAN :
            /\ Become(r, [run[r] EXCEPT !.pc = "done", !.asked = TRUE, !.ok = ok])
            /\ Log(r, Generation("local", FALSE, 0))
    /\ Unshared

Crash(r) ==
    /\ run[r].pc \notin Ended \cup {"idle"}
    /\ Become(r, Aborted(r))
    /\ Silent
    /\ Unshared
-----------------------------------------------------------------------------
Step(r) ==
    \/ Start(r) \/ Govern(r) \/ Truncate(r) \/ Save(r) \/ GovernorRaises(r)
    \/ DispatchRaises(r) \/ DispatchAnswers(r) \/ CloudVerifyRaises(r)
    \/ StartLocal(r) \/ CompleteRaises(r) \/ CompleteAnswers(r)
    \/ LocalVerifyRaises(r) \/ Settle(r) \/ StoreRaises(r) \/ Proxy(r)

AllEnded == /\ \A r \in Runs : run[r].pc \in Ended
            /\ UNCHANGED vars

Next == (\E r \in Runs : Step(r) \/ Crash(r)) \/ AllEnded

Spec == Init /\ [][Next]_vars
-----------------------------------------------------------------------------
\* What the variables may hold.
TypeOK ==
    /\ \A r \in Runs :
         /\ run[r].pc \in Places
         /\ run[r].entry \in Entries \cup {None}
         /\ run[r].type \in Types \cup {None}
         /\ run[r].dial \in Dials
         /\ run[r].left \in 0 .. MaxRetries
         /\ run[r].model \in Models \cup {"cloud", None}
         /\ run[r].output \in Models \cup {"cloud", None}
         /\ run[r].memory \cup {run[r].threshold} \subseteq Crossings \cup {"none"}
         /\ unread[r] <= Len(log[r])
    /\ earlier \in [Users -> Earlier]
    /\ rotated \in BOOLEAN
    /\ fired \in [Users -> SUBSET Crossings]
    /\ emitted \subseteq Users \X Crossings
    /\ blocked \subseteq Types \X Models

\* "Fail-closed, both directions, in the live path" (task.py:19): whatever the
\* dial, the governor, the retries and the failures do, a task whose class or
\* caller forbids the cloud is never sent there, and one that must not, or
\* cannot, be served here is never given to a local model.
FailClosed ==
    \A r \in Runs : run[r].type # None =>
        LET t == run[r].type
        IN  /\ "never_local" \in t.listed => ~run[r].asked /\ run[r].sent = {}
            /\ "never_cloud" \in t.listed \/ run[r].private => run[r].sent = {}
            /\ t.routed /\ t.listed = {} /\ t.base = "cloud-only" => ~run[r].asked
            /\ run[r].asked => run[r].sent = {}
            /\ \A p \in run[r].sent : p.enabled

\* A result names the model that made its output, through every repair and
\* every change of candidate (task.py:381): an accepted one has an answer, and
\* no candidate is given the output of the one before it.
AttributedOutput ==
    \A r \in Runs : (run[r].pc = "done" /\ run[r].entry = "router") =>
        /\ run[r].output \in {None, run[r].model}
        /\ run[r].ok => run[r].output # None

\* What the receipts count (task.py:396, report.py:316): a local run that
\* ended has one escalated event when it failed, its last, and none when it
\* did not; a cloud event is never escalated too; so the runs that reached the
\* cloud are never more than all the runs, and savings are not negative.
ReceiptsAddUp ==
    /\ \A r \in Runs :
         (run[r].pc = "done" /\ run[r].entry = "router" /\ run[r].asked) =>
            {i \in DOMAIN log[r] : log[r][i].escalated}
                = IF run[r].ok THEN {} ELSE {Len(log[r])}
    /\ \A e \in Recorded : Event(e).escalated => Event(e).route = "local"
    /\ Saved(Stats(Recorded)) >= 0

\* A task that could be served here goes to the cloud.
GoneToCloud(r) ==
    /\ run[r].sent # {} \/ run[r].pc = "dispatch"
    /\ LocalCapable(run[r].type)

OverCap(r) == LET budget == Budget[UserOf[r]]
              IN  budget > 0 /\ 100 * run[r].seen >= 95 * budget

\* The cap of a user holds a supervised run back from the cloud, once the
\* spend that was recorded when it started has reached it: unless the
\* telemetry was rotated or the governor could not be asked.
CapRespected ==
    \A r \in Runs : (run[r].entry = "router" /\ GoneToCloud(r) /\ OverCap(r)) =>
        rotated \/ run[r].ungoverned

\* A threshold is on record as reported only when it was, whenever a run
\* crashes and whatever the other runs of the user save over it
\* (governor.py:243); what the governor may do is to report it twice.
CrossingReported ==
    \A u \in Users : \A th \in fired[u] : <<u, th>> \in emitted

\* "An over-budget user's cloud-routable task runs local instead"
\* (task.py:233), for all the code that sends such a task to the cloud.
CapHolds == \A r \in Runs : ~(GoneToCloud(r) /\ OverCap(r))
====

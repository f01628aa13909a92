---- MODULE ModelAwareGate ----
(***************************************************************************)
(* The anti-thrash gate of the broker (broker/gates.py, ModelAwareGate).   *)
(* Its scheduler admits queued tickets, several at a time if it can, and   *)
(* keeps a ledger of the models it believes resident.                      *)
(*                                                                         *)
(* As in PriorityGate a step is the code between two awaits.  A ticket the *)
(* scheduler has admitted is not active yet: it becomes active when its    *)
(* own task resumes.                                                       *)
(*                                                                         *)
(* The clock is left out.  A time stamp matters in two ways only: which    *)
(* model was marked first (the order of g.resident) and whether a big one  *)
(* was marked less than min_residency_s ago (g.young).  The passing of     *)
(* time is Expire: residencies run out in the order they were marked.      *)
(* Inside a step it matters once: the clock is read when a swap is decided *)
(* and again when the timer is armed.                                      *)
(***************************************************************************)
EXTENDS Lists, Sequences, FiniteSetsExt

CONSTANTS Tickets,      \* the tasks; each asks for one generation
          Models,
          Size,         \* Size[m]: the footprint of m, in GB
          Exclusive,    \* the models served by MLX
          Budget,       \* the RAM budget, in GB
          BigGB         \* a model of this size or more is big

Priorities == {0, 1}
Interactive == 0

ASSUME ModelAwareGateAssumption ==
    /\ Models # {}
    /\ Size \in [Models -> Nat]
    /\ Exclusive \subseteq Models
    /\ Budget \in Nat /\ BigGB \in Nat

VARIABLES pc,           \* where each task is
          gate,         \* the gate's lists; a record, see TypeOK
          timer         \* _timer_armed; "slipped": not armed, the clock moved

vars == <<pc, gate, timer>>

Big == {m \in Models : Size[m] >= BigGB}
Active == {t \in Tickets : pc[t] = "active"}
Held(g) == ToSet(g.resident)
ModelOf(g, t) == g.want[t].model
GB(S) == MapThenSumSet(LAMBDA m : Size[m], S)

\* Forget models: pop them from the ledger.
Drop(g, S) == [g EXCEPT !.resident = Without(@, S), !.young = @ \ S]

\* _mark_resident: m is stamped anew and becomes the most recent.
MarkAlwaysYoung(g, m) ==
    [g EXCEPT !.resident = Append(Without(@, {m}), m),
              !.young = @ \cup {m}]

Mark(g, m) == [g EXCEPT !.resident = Append(Without(@, {m}), m),
                        !.young = IF m \in Big THEN @ \cup {m} ELSE @ \ {m}]
-----------------------------------------------------------------------------
(***************************************************************************)
(* _pick: which ticket to admit next and which models to evict for it.     *)
(***************************************************************************)

\* The pending ticket that goes first among those in S: by class, by arrival.
First(g, S) ==
    LET place(t) == CHOOSE i \in DOMAIN g.waiters : g.waiters[i] = t
    IN  CHOOSE w \in S : \A v \in S \ {w} :
            \/ g.want[w].prio < g.want[v].prio
            \/ g.want[w].prio = g.want[v].prio /\ place(w) < place(v)

\* PASS 1: an Ollama model that is resident, or fits beside the residents.
NoSwapNeeded(g, w) ==
    LET m == ModelOf(g, w)
    IN  /\ m \notin Exclusive
        /\ \/ m \in Held(g)
           \/ GB(Held(g)) + Size[m] <= Budget

\* _hysteresis_blocks: a young big model protects itself, unless w is
\* interactive and no pending ticket wants a young model.
NeverBlocks(g, w) == FALSE

HysteresisBlocks(g, w) ==
    /\ g.young # {}
    /\ \/ g.want[w].prio # Interactive
       \/ \E x \in ToSet(g.waiters) : ModelOf(g, x) \in g.young

\* PASS 2: an MLX model evicts everything; an Ollama model evicts the least
\* recent other models until it fits or none is left.
EvictTooFew(g, w) ==
    LET m      == ModelOf(g, w)
        others == Without(g.resident, {m})
    IN  IF m \in Exclusive THEN Held(g) ELSE {others[i] : i \in DOMAIN others \cap {1}}

EvictFor(g, w) ==
    LET m      == ModelOf(g, w)
        others == Without(g.resident, {m})
        fits(k) == \/ k = Len(others)
                   \/ GB({others[i] : i \in k+1 .. Len(others)}) + Size[m] <= Budget
        least  == CHOOSE k \in 0 .. Len(others) :
                      fits(k) /\ \A j \in 0 .. k-1 : ~fits(j)
    IN  IF m \in Exclusive THEN Held(g) ELSE {others[i] : i \in 1 .. least}

\* The tickets _pick returns: one, or none.
PickIgnoringActive(g, active) ==
    LET pending == ToSet(g.waiters)
        noswap  == {w \in pending : NoSwapNeeded(g, w)}
    IN  IF pending = {} \/ \E a \in active : ModelOf(g, a) \in Exclusive THEN {}
        ELSE IF noswap # {} THEN {First(g, noswap)}
        ELSE {w \in {First(g, pending)} : ~HysteresisBlocks(g, w)}

Pick(g, active) ==
    LET pending == ToSet(g.waiters)
        noswap  == {w \in pending : NoSwapNeeded(g, w)}
    IN  IF pending = {} \/ \E a \in active : ModelOf(g, a) \in Exclusive THEN {}
        ELSE IF noswap # {} THEN {First(g, noswap)}
        ELSE IF active # {} THEN {}
        ELSE {w \in {First(g, pending)} : ~HysteresisBlocks(g, w)}

\* The ledger and the lists after w is admitted: evict, mark, take w off.
Admit(g, w) ==
    LET evict == IF NoSwapNeeded(g, w) THEN {} ELSE EvictFor(g, w)
    IN  [Mark(Drop(g, evict), ModelOf(g, w)) EXCEPT
            !.admitted = @ \cup {w},
            !.waiters  = Without(@, {w})]

\* One turn of _schedule's loop, as the set of its outcome: a set, because
\* TLC evaluates the bound variable of a set once.
Turn(g, active) ==
    IF Pick(g, active) = {} THEN {g} ELSE {Admit(g, w) : w \in Pick(g, active)}

\* _schedule: turns as long as there is a pick; each takes one waiter.
Schedule(g, active) ==
    FoldLeft(LAMBDA S, w : UNION {Turn(h, active) : h \in S}, {g}, g.waiters)
-----------------------------------------------------------------------------
(***************************************************************************)
(* Every handler ends in _schedule: g becomes Schedule(g, active), all     *)
(* sleepers are notified if a ticket was admitted, and the timer is armed  *)
(* when a young big model may be what blocks the queue of an idle machine. *)
(***************************************************************************)
NeverArm(h, active, armed) ==
    /\ gate' = h
    /\ timer' = armed

\* h is what the scheduler leaves behind, armed the timer before it.  If the
\* last residency runs out between the two readings of the clock (lines 285
\* and 326), the decision was taken with it and the timer is not armed for it.
ArmTimer(h, active, armed) ==
    LET due == armed # "armed" /\ active = {} /\ h.waiters # <<>> /\ h.young # {}
    IN  \/ /\ gate' = h
           /\ timer' = IF due \/ armed = "armed" THEN "armed" ELSE "off"
        \/ /\ due
           /\ gate' = [h EXCEPT !.young = {}]
           /\ timer' = "slipped"

\* places: where the tasks are, before anybody is notified.
Notify(h, places) ==
    [t \in Tickets |->
        IF places[t] = "asleep" /\ h.admitted # gate.admitted
        THEN "awake" ELSE places[t]]

Reschedule(g, active, places) ==
    \E h \in Schedule(g, active) :
        /\ pc' = Notify(h, places)
        /\ ArmTimer(h, active, timer)

\* The task of ticket t runs on after the wait (or the first _schedule): it
\* is active if it was admitted, else it waits.  t itself is not on the
\* condition while the others are notified.
RunOrWait(g, t) ==
    \E h \in Schedule(g, Active) :
        /\ pc' = [Notify(h, pc) EXCEPT
                    ![t] = IF t \in h.admitted THEN "active" ELSE "asleep"]
        /\ ArmTimer(h, Active, timer)

Init == /\ pc = [t \in Tickets |-> "idle"]
        /\ gate = [want     |-> [t \in Tickets |-> [model |-> CHOOSE m \in Models : TRUE,
                                                   prio  |-> Interactive]],
                   waiters  |-> <<>>,
                   admitted |-> {},
                   resident |-> <<>>,
                   young    |-> {}]
        /\ timer = "off"

\* acquire_ticket, to its return or its first wait.
Acquire(t, m, p) ==
    /\ pc[t] = "idle"
    /\ RunOrWait([gate EXCEPT !.want[t] = [model |-> m, prio |-> p],
                              !.waiters = Append(@, t)], t)

\* The task of t resumes after a notify_all.
Wake(t) == /\ pc[t] = "awake"
           /\ RunOrWait(gate, t)

\* t is cancelled while it waits, or after it was admitted but before it
\* noticed: it withdraws from the waiters.
CancelKeepsTicket(t) ==
    /\ pc[t] \in {"asleep", "awake"}
    /\ Reschedule(gate, Active, [pc EXCEPT ![t] = "gone"])

Cancel(t) ==
    /\ pc[t] \in {"asleep", "awake"}
    /\ Reschedule([gate EXCEPT !.waiters = Without(@, {t})],
                  Active, [pc EXCEPT ![t] = "gone"])

\* The generation of t is over.
Release(t) ==
    /\ pc[t] = "active"
    /\ Reschedule(gate, Active \ {t}, [pc EXCEPT ![t] = "gone"])

\* _wake: the timer's callback.
TimerFires ==
    /\ timer = "armed"
    /\ \E h \in Schedule(gate, Active) :
         /\ pc' = Notify(h, pc)
         /\ ArmTimer(h, Active, "off")

\* Time passes: the residency of the young model marked first runs out.
Expire ==
    /\ gate.young # {}
    /\ LET old == Head(Without(gate.resident, Models \ gate.young))
       IN  gate' = [gate EXCEPT !.young = @ \ {old}]
    /\ UNCHANGED <<pc, timer>>

Next == \/ \E t \in Tickets :
             \/ \E m \in Models, p \in Priorities : Acquire(t, m, p)
             \/ Wake(t)
             \/ Cancel(t)
             \/ Release(t)
        \/ TimerFires
        \/ Expire

Spec == Init /\ [][Next]_vars

\* Notified tasks resume, generations end, the timer fires, time passes.
Fairness == /\ \A t \in Tickets : WF_vars(Wake(t)) /\ WF_vars(Release(t))
            /\ WF_vars(TimerFires)
            /\ WF_vars(Expire)

FairSpec == Spec /\ Fairness
-----------------------------------------------------------------------------
\* The type invariant.
TypeOK ==
    /\ pc \in [Tickets -> {"idle", "asleep", "awake", "active", "gone"}]
    /\ gate \in [want     : [Tickets -> [model : Models, prio : Priorities]],
                 waiters  : Seq(Tickets),
                 admitted : SUBSET Tickets,
                 resident : Seq(Models),
                 young    : SUBSET Big]
    /\ timer \in {"off", "armed", "slipped"}
    /\ IsInjective(gate.waiters) /\ IsInjective(gate.resident)
    /\ gate.young \subseteq Held(gate)

\* The ledger never plans for more than the budget, unless one model alone
\* is larger than the budget.
LedgerWithinBudget ==
    \/ GB(Held(gate)) <= Budget
    \/ Len(gate.resident) = 1

\* Every queued ticket is either on the waiters' list or admitted, and an
\* admitted one has been notified: none is forgotten, none is a ghost that
\* will be admitted after its task is gone, none sleeps through its turn.
QueueAccounts ==
    LET queued == {t \in Tickets : pc[t] \in {"asleep", "awake"}}
    IN  /\ ToSet(gate.waiters) = queued \ gate.admitted
        /\ \A t \in queued \cap gate.admitted : pc[t] = "awake"
        /\ Active \subseteq gate.admitted

\* A model is swapped out of the ledger only when nothing is generating,
\* counting a generation that ends with this very step as over.
SwapsOnlyWhenIdle ==
    [][~(Held(gate) \subseteq Held(gate')) => Active \cap Active' = {}]_vars

\* Min-residency: a young big model is swapped out only for an interactive
\* ticket, and only when no ticket waits for it.
YoungSwapsForInteractive ==
    [][\A m \in gate.young \ Held(gate') :
         /\ \A t \in ToSet(gate'.waiters) : ModelOf(gate', t) # m
         /\ \E t \in gate'.admitted \ gate.admitted :
              gate'.want[t].prio = Interactive]_vars

\* Every ticket that waits is served or withdrawn: batching and hysteresis
\* delay a swap, they strand nobody on a machine that becomes idle.  The one
\* exception is the instant in which the last residency runs out between the
\* two readings of the clock: until the next request nobody calls the scheduler.
EveryTicketSettles ==
    \A t \in Tickets :
        pc[t] \in {"asleep", "awake"} ~>
            pc[t] \in {"active", "gone"} \/ timer = "slipped"
====

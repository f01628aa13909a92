---- MODULE Client ----
(***************************************************************************)
(* One call of the Python client (client.py, complete and generate_json)   *)
(* through the broker, while other processes replace the registry.         *)
(*                                                                         *)
(* The client and the broker each resolve the model (backends/resolve.py)  *)
(* from the registry as it is when they look, and from a configuration of  *)
(* their own.  Of an endpoint only its side matters: "local", a loopback   *)
(* address, or "remote".  What the broker does with the request besides is *)
(* in BrokerRequest, how generate_json's engine orders and blocks the      *)
(* models in SelfHealing.                                                  *)
(***************************************************************************)
EXTENDS Lists

CONSTANTS Tables,       \* the registries that may be on file, by role
          Defaults,     \* the suggested roles
          Config,       \* of "client" and "broker": roles, and a side for
                        \* the default endpoint of each backend
          RoleOrder,    \* the order of a merged table
          Inferred,     \* the backend that infer_backend guesses for a model
          Retries,
          None

Sides == {"local", "remote"}
LocalBackends == {"ollama", "mlx", "mlx_vlm", "lmstudio"}
Models == DOMAIN Inferred

ASSUME ClientAssumption ==
    /\ \A who \in {"client", "broker"} :
         Range(Config[who].ends) \subseteq Sides
    /\ \A table \in Tables \cup {Defaults, Config["client"].roles} :
         \A r \in DOMAIN table : table[r].rollback \in Seq(Models)
    /\ Retries \in Nat

VARIABLES registry,   \* the roles on file
          hop,        \* the side of the broker's URL
          proxied,    \* the environment names a proxy
          call,       \* the client's call
          seen        \* the sides the prompt has reached

vars == <<registry, hop, proxied, call, seen>>
-----------------------------------------------------------------------------
\* _roles: the configuration wins over the registry, that over the defaults.
Roles(who) ==
    LET own == Config[who].roles
    IN  [r \in DOMAIN own \cup DOMAIN registry \cup DOMAIN Defaults |->
           IF r \in DOMAIN own THEN own[r]
           ELSE IF r \in DOMAIN registry THEN registry[r]
           ELSE Defaults[r]]

SpecOf(who, model, backend, side) ==
    LET end == IF backend = None THEN Inferred[model] ELSE backend
    IN  [model |-> model, backend |-> end,
         side |-> IF side = None THEN Config[who].ends[end] ELSE side]

\* resolve, of a model: what the first role that has it as its incumbent says
\* of it, else the first retained snapshot, else what its name suggests.
ResolveModel(who, m) ==
    LET roles == Roles(who)
        live == SelectSeq(RoleOrder, LAMBDA r : r \in DOMAIN roles
                                                  /\ roles[r].model = m)
        kept == SelectSeq(RoleOrder, LAMBDA r : r \in DOMAIN roles
                                                  /\ m \in DOMAIN roles[r].kept)
    IN  IF live # <<>>
        THEN SpecOf(who, m, roles[Head(live)].backend, roles[Head(live)].side)
        ELSE IF kept # <<>>
        THEN LET snapshot == roles[Head(kept)].kept[m]
             IN  SpecOf(who, m, snapshot.backend, snapshot.side)
        ELSE SpecOf(who, m, None, None)

\* resolve, of a role.
ResolveRole(who, r) ==
    LET entry == Roles(who)[r]
    IN  SpecOf(who, entry.model, entry.backend, entry.side)

\* role_candidates: incumbent, fallback and retained models, each once, but for
\* those in quarantine; <<>> stands for a role that is not configured as well.
Quarantine(r) == IF r \in DOMAIN Roles("client") THEN Roles("client")[r].quarantine
                 ELSE {}

Named(r) == LET entry == Roles("client")[r]
            IN  <<entry.model, entry.fallback>> \o entry.rollback

CandidatesInQuarantine(r) ==
    IF r \in DOMAIN Roles("client") THEN Without(Once(Named(r)), {None}) ELSE <<>>

RoleCandidates(r) ==
    IF r \in DOMAIN Roles("client")
    THEN Without(Once(Named(r)), {None} \cup Quarantine(r))
    ELSE <<>>

CandidateSpec(r, m) ==
    IF m = Roles("client")[r].model THEN ResolveRole("client", r)
    ELSE ResolveModel("client", m)

ServesLocally(spec) == spec.backend \in LocalBackends /\ spec.side = "local"

\* _never_cloud_route_is_local and _never_cloud_role_has_local_candidate
RouteIsLocal(m) == hop = "local" /\ ServesLocally(ResolveModel("client", m))

RoleHasLocal(r) ==
    /\ hop = "local"
    /\ \E i \in DOMAIN RoleCandidates(r) :
         ServesLocally(CandidateSpec(r, RoleCandidates(r)[i]))
-----------------------------------------------------------------------------
Init == /\ registry \in Tables
        /\ hop \in Sides
        /\ proxied \in BOOLEAN
        /\ call = [pc |-> "idle", json |-> FALSE, private |-> FALSE,
                   role |-> None, model |-> None, todo |-> <<>>,
                   left |-> Retries, allowed |-> {}, barred |-> {},
                   failed |-> {}, asked |-> {}, served |-> None]
        /\ seen = {}

Private == call.private
Exact == call.role = None

Silently == UNCHANGED <<registry, hop, proxied, seen>>

\* complete or generate_json is called, for a role or for a model.
Call ==
    /\ call.pc = "idle"
    /\ \E json, private \in BOOLEAN, to \in ToSet(RoleOrder) \cup Models :
         call' = [call EXCEPT !.pc = IF json /\ private THEN "prove" ELSE "read",
                              !.json = json, !.private = private,
                              !.role = IF to \in Models THEN None ELSE to,
                              !.model = IF to \in Models THEN to ELSE None]
    /\ Silently

\* generate_json refuses a private prompt that has no local route.
Prove ==
    /\ call.pc = "prove"
    /\ LET proved == IF Exact THEN RouteIsLocal(call.model) ELSE RoleHasLocal(call.role)
       IN  call' = [call EXCEPT !.pc = IF proved THEN "read" ELSE "unavailable"]
    /\ Silently

\* The models to try: of a role its candidates, for JSON those of them that
\* are installed, not blocked for the job and, for a private prompt, local.
Read ==
    /\ call.pc = "read"
    /\ \E out \in SUBSET Models :
         LET list  == RoleCandidates(call.role)
             unfit == IF ~call.json THEN {}
                      ELSE {m \in ToSet(list) :
                              \/ m \in out
                              \/ Private /\ ~ServesLocally(CandidateSpec(call.role, m))}
             todo  == IF Exact THEN <<call.model>> ELSE Without(list, unfit)
         IN  /\ Exact \/ ~call.json => out = {}
             /\ call' = [call EXCEPT
                           !.pc = IF todo = <<>> THEN "unavailable" ELSE "next",
                           !.todo = todo, !.allowed = ToSet(todo),
                           !.barred = IF Exact THEN {}
                                      ELSE Quarantine(call.role)]
    /\ Silently

\* One attempt failed: complete goes on to the next candidate; generate_json
\* asks the same one again, Retries times.
Failed(state) ==
    IF state.json /\ state.left > 0
    THEN [state EXCEPT !.pc = "next", !.left = @ - 1]
    ELSE LET rest == Tail(state.todo)
         IN  [state EXCEPT !.todo = rest, !.left = Retries,
                           !.failed = @ \cup {Head(state.todo)},
                           !.pc = IF rest = <<>> THEN "unavailable" ELSE "next"]

\* Before each attempt the route of a private prompt is proved again, but for
\* generate_json of a model.
Guard ==
    /\ call.pc = "next"
    /\ call' = IF Private /\ ~(Exact /\ call.json) /\ ~RouteIsLocal(Head(call.todo))
               THEN Failed(call)
               ELSE [call EXCEPT !.pc = "post"]
    /\ Silently

\* _post_chat: only a private prompt is kept from the environment's proxy.
HopTrustingEnvironment == IF proxied THEN "remote" ELSE hop

Hop == IF proxied /\ ~Private THEN "remote" ELSE hop

\* The prompt goes to the broker, which cannot be reached, or refuses the key
\* or the route, or has it queued.
Post ==
    /\ call.pc = "post"
    /\ seen' = seen \cup {Hop}
    /\ LET m == Head(call.todo)
           asking == [call EXCEPT !.asked = @ \cup {m}]
       IN  \/ call' = Failed(asking)
           \/ /\ Private => ServesLocally(ResolveModel("broker", m))
              /\ call' = [asking EXCEPT !.pc = "queued"]
    /\ UNCHANGED <<registry, hop, proxied>>

\* The broker resolves again to prepare the backend, and refuses a private
\* prompt if its base URL is remote now.
Base == LET side == ResolveModel("broker", Head(call.todo)).side
        IN  IF Private /\ side # "local" THEN {} ELSE {side}

\* The answer names the model that gave it, another, or none; generate_json
\* accepts it only from the model it asked.
AcceptsAnybody(served) == TRUE

Accepts(served) == call.json => served = Head(call.todo)

Serve ==
    /\ call.pc = "queued"
    /\ seen' = seen \cup Base
    /\ \/ call' = Failed(call)
       \/ /\ Base # {}
          /\ \E served \in Models \cup {None} :
               /\ Accepts(served)
               /\ call' = [call EXCEPT !.pc = "done", !.served = served,
                                       !.model = Head(call.todo)]
    /\ UNCHANGED <<registry, hop, proxied>>

\* Another process promotes, rolls back or quarantines (Registry).
Replaced ==
    /\ call.pc \notin {"done", "unavailable"}
    /\ registry' \in Tables \ {registry}
    /\ UNCHANGED <<hop, proxied, call, seen>>

Ended == call.pc \in {"done", "unavailable"} /\ UNCHANGED vars

Next == Call \/ Prove \/ Read \/ Guard \/ Post \/ Serve \/ Replaced \/ Ended

Spec == Init /\ [][Next]_vars
-----------------------------------------------------------------------------
\* What the variables may hold.
TypeOK ==
    /\ registry \in Tables
    /\ hop \in Sides /\ seen \subseteq Sides
    /\ call.pc \in {"idle", "prove", "read", "next", "post", "queued", "done",
                    "unavailable"}
    /\ call.left \in 0 .. Retries
    /\ call.role \in ToSet(RoleOrder) \cup {None}
    /\ call.served \in Models \cup {None}
    /\ call.asked \cup call.failed \cup ToSet(call.todo) \subseteq call.allowed

\* A private prompt stays on the machine, whatever the registry becomes
\* between the client's proof, the broker's check and the preparation of the
\* backend, and whatever the two configurations say (client.py:126, :337,
\* app.py:588).
PrivatePromptStaysLocal == Private => seen \subseteq {"local"}

\* A role's call never asks a model that the role had in quarantine when its
\* candidates were read, though the broker, which resolves what it is asked
\* for, ignores quarantine (client.py:194).
QuarantinedNotAsked == call.asked \cap call.barred = {}

\* An answer is attributed to the model that was asked, and a JSON answer was
\* given by it, through all candidates and retries (client.py:521, :566); a
\* call gives up only when each model it might ask was refused or has failed.
AnswerOrExhausted ==
    /\ call.pc = "done" => /\ call.model \in call.asked \ call.failed
                           /\ call.json => call.served = call.model
    /\ call.pc = "unavailable" => call.failed = call.allowed
====

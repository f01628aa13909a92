---- MODULE Registry ----
(***************************************************************************)
(* The model registry (registry/registry.py, with promote, rollback and    *)
(* prune_candidates of registry/currency.py): which model serves each      *)
(* role, and how to go back to the one before.                             *)
(*                                                                         *)
(* One process at a time loads the file, changes it and saves it; saving   *)
(* replaces the file at once, so a call that dies leaves the file as it    *)
(* was.  A call is therefore one step.  Models come and go on the disk:    *)
(* they are installed before they are promoted, and a job deletes some of  *)
(* those that prune_candidates returns.                                    *)
(*                                                                         *)
(* spec stands for the keys that describe the incumbent itself (backend,   *)
(* endpoint, size, options), fallback for the ones a role keeps when its   *)
(* incumbent changes (fallback, prune, managed_currency).                  *)
(***************************************************************************)
EXTENDS Naturals, Sequences

CONSTANTS Roles, Models,
          Specs,        \* the ways to serve a model
          Fallbacks,    \* the models that are named as a fallback
          Suspects,     \* the models that turn out to be bad
          Managed,      \* the models the currency engine may delete
          None

ASSUME RegistryAssumption ==
    /\ Fallbacks \cup Suspects \cup Managed \subseteq Models
    /\ None \notin Models \cup Specs

KEEP_ROLLBACK_N == 1

VARIABLES roles,        \* the file: the entry of each role
          installed,    \* the models on the disk
          known         \* history: what was ever quarantined, and for what

vars == <<roles, installed, known>>

\* What a snapshot of a role holds: everything but the rollback keys.
Config == [model      : Models \cup {None},
           spec       : Specs \cup {None},
           fallback   : Models \cup {None},
           quarantine : SUBSET Models]

ASSUME NoneAssumption == None \notin Config

\* A role nobody has registered.
Unregistered == [config   |-> [model |-> None, spec |-> None,
                               fallback |-> None, quarantine |-> {}],
                 rollback |-> <<>>,
                 snaps    |-> [m \in Models |-> None]]

\* The newest of the rollbacks, as many as are retained.
Trim(rolls) ==
    SubSeq(rolls, 1, IF Len(rolls) < KEEP_ROLLBACK_N THEN Len(rolls) ELSE KEEP_ROLLBACK_N)

Names(rolls) == {rolls[i] : i \in DOMAIN rolls}

Init == /\ roles = [r \in Roles |-> Unregistered]
        /\ installed = {}
        /\ known = {}
-----------------------------------------------------------------------------
(***************************************************************************)
(* Changes of one role's entry.                                            *)
(***************************************************************************)

\* The incumbent that gives way to m, if there is one.
DeposedUntested(e, m) == <<e.config.model>>

Deposed(e, m) ==
    IF e.config.model \in {None, m} THEN <<>> ELSE <<e.config.model>>

\* The entry with configuration c: the incumbent it replaces is the newest of
\* the rollbacks, history are the older ones.  Both the names and the snapshots
\* are trimmed to what is retained.
Newest(e, c, history) ==
    Trim(Deposed(e, c.model) \o history)

RetainEverySnapshot(e, c, history) ==
    [config   |-> c,
     rollback |-> Newest(e, c, history),
     snaps    |-> IF Deposed(e, c.model) = <<>> THEN e.snaps
                  ELSE [e.snaps EXCEPT ![e.config.model] = e.config]]

RetainNewConfig(e, c, history) ==
    [config   |-> c,
     rollback |-> Newest(e, c, history),
     snaps    |-> [m \in Models |->
                     IF m \notin Names(Newest(e, c, history)) THEN None
                     ELSE IF m \in Names(Deposed(e, c.model)) THEN [c EXCEPT !.model = m]
                     ELSE e.snaps[m]]]

Retain(e, c, history) ==
    [config   |-> c,
     rollback |-> Newest(e, c, history),
     snaps    |-> [m \in Models |->
                     IF m \notin Names(Newest(e, c, history)) THEN None
                     ELSE IF m \in Names(Deposed(e, c.model)) THEN e.config
                     ELSE e.snaps[m]]]

\* set_incumbent: a role that has a fallback keeps it unless told otherwise.
SetIncumbent(e, m, s, f) ==
    Retain(e, [e.config EXCEPT !.model = m, !.spec = s,
                               !.fallback = IF f = None THEN @ ELSE f],
           e.rollback)

\* rollback: the newest retained configuration, if it can be served.
CanRollback(e, disk) ==
    /\ e.rollback # <<>>
    /\ Head(e.rollback) \in disk
    /\ e.snaps[Head(e.rollback)] # None
    /\ e.snaps[Head(e.rollback)].spec # None

RolledBack(e) == Retain(e, e.snaps[Head(e.rollback)], Tail(e.rollback))
-----------------------------------------------------------------------------
\* promote (applied), and the registration of a new role.
Promote(r, m, s, f) ==
    /\ m \in installed /\ f \in installed \cup {None}
    /\ roles' = [roles EXCEPT ![r] = SetIncumbent(@, m, s, f)]
    /\ UNCHANGED <<installed, known>>

\* The target is verified installed; if not, nothing changes.
Rollback(r) ==
    /\ CanRollback(roles[r], installed)
    /\ roles' = [roles EXCEPT ![r] = RolledBack(@)]
    /\ UNCHANGED <<installed, known>>

Quarantine(r, m) ==
    /\ roles' = [roles EXCEPT ![r].config.quarantine = @ \cup {m}]
    /\ known' = known \cup {<<r, m>>}
    /\ UNCHANGED installed

\* protected_models: what serves a role, now, after a failure or a rollback.
ProtectedIncumbents == {roles[r].config.model : r \in Roles}

Protected ==
    UNION {{roles[r].config.model, roles[r].config.fallback}
             \cup Names(Trim(roles[r].rollback)) : r \in Roles}

\* prune_candidates, and the job that deletes one of them.
PruneCandidates == Managed \ Protected

Prune(m) == /\ m \in installed \cap PruneCandidates
            /\ installed' = installed \ {m}
            /\ UNCHANGED <<roles, known>>

Install(m) == /\ installed' = installed \cup {m}
              /\ UNCHANGED <<roles, known>>

Next == \/ \E r \in Roles :
             \/ \E m \in Models, s \in Specs, f \in Fallbacks \cup {None} :
                  Promote(r, m, s, f)
             \/ Rollback(r)
             \/ \E m \in Suspects : Quarantine(r, m)
        \/ \E m \in Models : Prune(m) \/ Install(m)

Spec == Init /\ [][Next]_vars
-----------------------------------------------------------------------------
\* The type invariant.
TypeOK ==
    /\ roles \in [Roles -> [config   : Config,
                            rollback : Seq(Models),
                            snaps    : [Models -> Config \cup {None}]]]
    /\ installed \subseteq Models
    /\ known \subseteq Roles \X Models

\* The rollback on offer is real: each retained name has a snapshot, and one of
\* that very model, no snapshot outlives its name, and no role offers to roll
\* back to the model it already serves.
RollbackIsRestorable ==
    \A r \in Roles :
        /\ {m \in Models : roles[r].snaps[m] # None} = Names(roles[r].rollback)
        /\ Len(roles[r].rollback) <= KEEP_ROLLBACK_N
        /\ \A m \in Names(roles[r].rollback) :
             /\ roles[r].snaps[m].model = m
             /\ roles[r].snaps[m].spec # None
             /\ m # roles[r].config.model

\* Whenever a role changes its model, by a promotion or by a rollback, a
\* rollback would restore the role as it was before, in every key, from a model
\* that is still on the disk.
SwapCanBeUndone ==
    \A r \in Roles :
        roles[r].config.model \notin {None, roles'[r].config.model}
          => /\ CanRollback(roles'[r], installed')
             /\ RolledBack(roles'[r]).config = roles[r].config

\* No step of the system swaps a model without a way back.
EverySwapCanBeUndone == [][SwapCanBeUndone]_vars

\* Pruning never takes away what a role is served by now or after a rollback,
\* be it another role that still needs the model.
IncumbentsSurvivePruning ==
    \A r \in Roles :
        {roles[r].config.model} \cup Names(roles[r].rollback) \subseteq installed \cup {None}

\* What quarantine promises (registry.py, quarantine): the model is never
\* promoted to again, so what was once quarantined for a role stays on its list.
QuarantineLasts ==
    \A r \in Roles, m \in Models : <<r, m>> \in known => m \in roles[r].config.quarantine
====

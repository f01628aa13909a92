---- MODULE Router ----
(***************************************************************************)
(* Where a task goes (router/routes.py, router/dial.py) and how the budget *)
(* governor moves the dial (econ/governor.py): functions of their          *)
(* arguments, the state they are applied to is in TaskRun.                 *)
(*                                                                         *)
(* A dial is a pair of a level, 0 (cloud first) to 3 (local only), and a   *)
(* sub-dial, which has a meaning at level 2 only.  A task type is a record *)
(* of what the configuration says of it.                                   *)
(***************************************************************************)
EXTENDS Integers

CONSTANTS DefaultLevel, DefaultSub    \* config.dial

Subs == {"lite", "std", "max"}
NoSub == "none"
Levels == 0 .. 3

ASSUME RouterAssumption == DefaultLevel \in Levels /\ DefaultSub \in Subs

Dials == Levels \X (Subs \cup {NoSub})

TaskTypes == [listed: SUBSET {"never_local", "never_cloud"}, routed: BOOLEAN,
              base: {"local-first", "cloud-only"}, tier: {"safe", "std"},
              floor: Levels]
-----------------------------------------------------------------------------
\* parse_dial, of the level and the sub-dial it finds in a text: junk, an
\* empty text and a level out of range are the configuration's default.
DefaultDial == <<DefaultLevel, IF DefaultLevel = 2 THEN DefaultSub ELSE NoSub>>

ParseDial(level, sub) ==
    IF level \notin Levels THEN DefaultDial
    ELSE <<level, IF level # 2 THEN NoSub
                  ELSE IF sub \in Subs THEN sub ELSE DefaultSub>>

\* _classify: never_local wins for a type that is in both lists.
ClassifyLeniently(t) ==
    IF "never_local" \in t.listed THEN "never_local"
    ELSE IF "never_cloud" \in t.listed /\ ~t.routed THEN "never_cloud"
    ELSE "none"

Classify(t) ==
    IF "never_local" \in t.listed THEN "never_local"
    ELSE IF "never_cloud" \in t.listed THEN "never_cloud"
    ELSE "none"

\* _local_gate
LocalGate(d, t) ==
    \/ d[1] = 3
    \/ /\ d[1] # 0
       /\ d[1] >= t.floor
       /\ d = <<2, "lite">> => t.tier = "safe"

\* route_decision
Decide(t, d) ==
    CASE Classify(t) = "never_local" -> "refuse-never-local"
      [] Classify(t) = "never_cloud" -> IF d[1] = 0 THEN "refuse-never-cloud"
                                        ELSE "local"
      [] Classify(t) = "none" ->
           IF ~t.routed THEN "unknown-task-type"
           ELSE IF t.base = "cloud-only" THEN "cloud"
           ELSE IF LocalGate(d, t) THEN "local"
           ELSE "cloud-downgraded"

CloudRoutes == {"cloud", "cloud-downgraded"}

\* A type that has a local option, and no class.
LocalCapable(t) == t.routed /\ t.base # "cloud-only" /\ t.listed = {}
-----------------------------------------------------------------------------
\* tighten_one_level and force_local_only.
Tighten(d) ==
    CASE d[1] < 2                       -> <<d[1] + 1, NoSub>>
      [] d[1] = 2 /\ d[2] \in {"max", "std", NoSub} ->
           <<2, IF d[2] = "max" THEN "std" ELSE "lite">>
      [] OTHER                          -> <<3, NoSub>>

ForceLocal(d) == <<3, NoSub>>

ThresholdTightenFirst(spend, budget) ==
    IF budget > 0 /\ 100 * spend >= 80 * budget THEN "tighten" ELSE "none"

\* govern_user: the threshold that a spend reaches in hundredths of a budget.
Threshold(spend, budget) ==
    IF budget <= 0 THEN "none"
    ELSE IF 100 * spend >= 95 * budget THEN "force-local"
    ELSE IF 100 * spend >= 80 * budget THEN "tighten"
    ELSE "none"

Target(threshold, d) ==
    CASE threshold = "force-local" -> ForceLocal(d)
      [] threshold = "tighten"     -> Tighten(d)
      [] OTHER                     -> d
====

---- MODULE MCTaskRun ----
(***************************************************************************)
(* Two tasks of one user, to the router or to the broker, who may spend 5  *)
(* calls a month: from 4 on the governor tightens, at 5 it forces local.   *)
(* The task types are one of each class and one that the dial and the      *)
(* governor move; the dial's file holds a level of either side, the        *)
(* lightest level 2, or junk.                                              *)
(***************************************************************************)
EXTENDS TaskRun, TLC

CONSTANTS ann, alpha, beta, r1, r2

MCUserOf == [r \in Runs |-> ann]
MCBudget == [u \in {ann} |-> 5]

Type(listed, routed, base, tier, floor) ==
    [listed |-> listed, routed |-> routed, base |-> base, tier |-> tier,
     floor |-> floor]

MCTypes == {Type({"never_cloud"}, TRUE, "cloud-only", "std", 2),
            Type({"never_local", "never_cloud"}, TRUE, "local-first", "safe", 1),
            Type({}, TRUE, "cloud-only", "std", 2),
            Type({}, TRUE, "local-first", "std", 2)}

MCDialTexts == {<<0, NoSub>>, <<2, "lite">>, <<9, NoSub>>}

Provider(enabled, mapped, ready) ==
    [enabled |-> enabled, mapped |-> mapped, ready |-> ready]

MCSetups == {<<Provider(FALSE, TRUE, TRUE), Provider(TRUE, TRUE, TRUE)>>,
             <<Provider(TRUE, FALSE, TRUE)>>}
MCCandidates == <<alpha, beta>>

MCSymmetry == Permutations({r1, r2})
====

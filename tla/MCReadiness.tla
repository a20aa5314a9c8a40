---------------------------- MODULE MCReadiness ----------------------------
(* Readiness with the rubrics under deploygrade/rubrics and the categories *)
(* discovery looks for.                                                    *)
EXTENDS Readiness, TLC

Dims == {"change_management", "privileged_access", "rollback_recovery",
         "verification", "observability", "evidence_governance"}

Rubric == <<"change_management", "privileged_access", "rollback_recovery",
            "verification", "observability", "evidence_governance">>

Sorted == <<"change_management", "evidence_governance", "observability",
            "privileged_access", "rollback_recovery", "verification">>

Place(order) == [d \in Dims |-> CHOOSE i \in DOMAIN order : order[i] = d]

InRubric == Place(Rubric)

InAlphabet == Place(Sorted)

Evidence == {"rollback", "tests", "ci", "iac", "cloud", "iam"}

JudgedBy ==
    [d \in Dims |->
        CASE d = "change_management" -> {"ci", "iac"}
          [] d = "privileged_access" -> {"iam"}
          [] d = "rollback_recovery" -> {"rollback"}
          [] d = "verification"      -> {"tests"}
          [] d = "observability"     -> {"cloud"}
          [] OTHER                   -> {}]

Costs ==
    [d \in Dims |->
        CASE d \in {"privileged_access", "rollback_recovery"} -> 4
          [] d \in {"change_management", "observability"}     -> 3
          [] OTHER                                            -> 2]

Baseline ==
    [d \in Dims |->
        CASE d \in {"change_management", "rollback_recovery"} -> 18
          [] d = "privileged_access"                          -> 17
          [] d = "observability"                              -> 15
          [] OTHER                                            -> 16]

Weights ==
    ("2026.07.0" :> Baseline)
        @@ ("2026.07.1" :> [Baseline EXCEPT !["change_management"] = 13,
                                            !["rollback_recovery"] = 23])
        @@ ("2026.07.2" :> [Baseline EXCEPT !["rollback_recovery"] = 23,
                                            !["evidence_governance"] = 11])

ASSUME RollbackWeighs /\ UnjudgedWeighs

\* Overrides of a budget of 3, tightening and not.
Packs == UNION {[1..n -> 1..4] : n \in 0..3}
=============================================================================

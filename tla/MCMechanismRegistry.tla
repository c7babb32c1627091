--------------------------- MODULE MCMechanismRegistry ---------------------------
(* A critical mechanism with a conflict, a later version of it of high risk, and a
   rival for that version, of low risk, that comes in two runs. *)
EXTENDS MechanismRegistry

CONSTANTS dose, redose, rival, ann, bob, cay, dan, limit, r1, r2, r3

Review(candidate, reviewer, role, decision, resolves) ==
    [candidate |-> candidate, reviewer |-> reviewer, role |-> role,
     decision |-> decision, resolves |-> resolves]

SameMechanism == [k \in Candidates |-> "dose"]
VersionNumbers == [k \in Candidates |-> IF k = dose THEN 1 ELSE 2]
RiskOf == [k \in Candidates |->
    IF k = dose THEN "CRITICAL" ELSE IF k = redose THEN "HIGH" ELSE "LOW"]
OneConflict == [k \in Candidates |-> IF k = dose THEN {limit} ELSE {}]
RunContents == [r \in Runs |->
    IF r = r1 THEN {dose} ELSE IF r = r2 THEN {redose, rival} ELSE {rival}]

FewReviews ==
    {Review(dose, ann, "DOMAIN_REVIEWER", "APPROVE", {limit}),
     Review(dose, ann, "SAFETY_REVIEWER", "APPROVE", {limit}),
     Review(dose, bob, "SAFETY_REVIEWER", "APPROVE", {limit}),
     Review(dose, cay, "EXECUTIVE_RISK_OWNER", "APPROVE", {limit}),
     Review(dose, dan, "SAFETY_REVIEWER", "REJECT", {}),
     Review(redose, ann, "DOMAIN_REVIEWER", "APPROVE", {}),
     Review(redose, bob, "SAFETY_REVIEWER", "APPROVE", {}),
     Review(rival, bob, "ANY", "APPROVE", {}),
     Review(rival, cay, "ANY", "REVISION_REQUIRED", {})}
=============================================================================

-------------------------- MODULE MCIncidentAdvice --------------------------
EXTENDS IncidentAdvice

With(f) == [k \in Kinds |-> IF k \in DOMAIN f THEN f[k] ELSE 0]

MCQueue == <<"build", "site", "attack">>
MCSource == [build |-> "deploy", site |-> "site", attack |-> "security"]
MCType == [build |-> "build_failed", site |-> "site_warning", attack |-> "security_attack"]
MCHosted == {"site"}

\* Diagnoses under failures; under failures beside an admin's requests; generations and plans.
MCBudgets ==
    {With([seen |-> 2, fault |-> 2, resolve |-> 1]),
     With([seen |-> 2, diagnose |-> 2, fault |-> 1, resolve |-> 1]),
     With([seen |-> 2, generate |-> 2, decide |-> 2]),
     With([generate |-> 2, fault |-> 1, decide |-> 1, plan |-> 1]),
     With([generate |-> 1, decide |-> 2, plan |-> 3, release |-> 1])}
=============================================================================

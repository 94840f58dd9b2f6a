------------------------- MODULE MCPremiseMinimality -------------------------
EXTENDS PremiseMinimality, FiniteSetsExt

CONSTANTS m1, m2

MCMechanisms == {m1, m2}

Flawless(profile) ==
    [profile |-> profile, adequacy |-> "adequate", faults |-> {}, rebound |-> {}]

Defects(c) ==
    Cardinality(c.faults) + Cardinality(c.rebound) + (IF c.adequacy = "adequate" THEN 0 ELSE 1)

Defective(profiles, n, rebinding) ==
    {c \in [profile : profiles, adequacy : AdequacyOutcomes,
            faults : UNION {kSubset(i, NamedFaults \cup Mechanisms) : i \in 0 .. n},
            rebound : UNION {kSubset(i, rebinding) : i \in 0 .. 1}] :
        Possible(c) /\ Defects(c) <= n}

\* Extensions with one defect or none against a base that runs a process of its
\* own, extensions with two, and bases with a defect that the premises may not show.
MCPairs ==
    ({Flawless("isolated")} \X Defective({"isolated"}, 1, Atoms \ {"A"}))
        \cup ({Flawless("audit_verifier")} \X Defective({"registered"}, 2, {}))
        \cup (Defective({"isolated"}, 1, Atoms \ {"A"}) \X {Flawless("audit_verifier")})
=============================================================================

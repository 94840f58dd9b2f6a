SPECIFICATION RunsSpec
CONSTANTS
    Runs = {r1, r2}
    MaxFaults = 2
    Scenarios <- MCScenarios
SYMMETRY RunSymmetry
CONSTRAINT OneExamined
CHECK_DEADLOCK FALSE
INVARIANTS
    HonestEvidenceVerifies
    AcceptedEvidenceIsWhole
    SettlementsAreReported
    ReplayIsFaithful

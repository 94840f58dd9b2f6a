SPECIFICATION LivesSpec
CONSTRAINT EitherLife
SYMMETRY ContentSymmetry
CONSTANTS
    Writers = {w1}
    Keys = {k1}
    InitialKey = k1
    Components = {"verifier_a", "verifier_b"}
    KindOf <- KindsOfComponents
    DependencyKinds = {"verifier"}
    BridgeKind = "bridge"
    Objects = {o1, o2}
    Evidence = {e1, e2}
    Bundles = {b1}
    Holds = {h1}
    Claims = {}
    ValidClaims = {}
    Times = {0, 1}
    None = None
    Auditors = {a1}
    Usable = {"verifier_a"}
    VerifierKind = "verifier"
INVARIANTS
    HeldEvidenceIsFound
    DependenciesSurvive
    ReadyIsOneSnapshot

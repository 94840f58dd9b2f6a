SPECIFICATION Spec
CONSTANTS
    Writers = {w1}
    Keys = {k1}
    InitialKey = k1
    Components = {"schema_a"}
    KindOf <- KindsOfComponents
    DependencyKinds = {"schema"}
    BridgeKind = "bridge"
    Objects = {o1}
    Evidence = {e1}
    Bundles = {}
    Holds = {}
    Claims = {c1, bad}
    ValidClaims = {c1}
    Times = {0}
    None = None
INVARIANTS
    RetirementKeepsHistory
CHECK_DEADLOCK FALSE

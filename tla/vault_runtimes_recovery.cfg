SPECIFICATION RuntimeSpec
SYMMETRY ContentSymmetry
CONSTANTS
    Writers = {python, rust}
    Keys = {k1}
    InitialKey = k1
    Components = {"schema_a"}
    KindOf <- KindsOfComponents
    DependencyKinds = {"schema"}
    BridgeKind = "bridge"
    Objects = {o1, o2}
    Evidence = {e1}
    Bundles = {}
    Holds = {}
    Claims = {}
    ValidClaims = {}
    Times = {0}
    None = None
    RustWriters = {rust}
INVARIANTS
    PendingCanBeRecovered

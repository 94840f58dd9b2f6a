SPECIFICATION Spec
CONSTANTS
    Writers = {w1}
    Keys = {k1}
    InitialKey = k1
    Components = {"schema_a", "schema_b", "bridge_a"}
    KindOf <- KindsOfComponents
    DependencyKinds = {"schema"}
    BridgeKind = "bridge"
    Objects = {o1, o2}
    Evidence = {e1, e2}
    Bundles = {}
    Holds = {h1}
    Claims = {}
    ValidClaims = {}
    Times = {0, 1}
    None = None
CONSTRAINT ManyComponentsFewObjects
SYMMETRY ContentSymmetry
INVARIANTS
    LiveObjectsRetained
    HoldsBlockDeletion
    CleanBeforeBody
    CapturesUseActiveComponents
    ReplacementsEnd
    JournalReplays
PROPERTIES
    TombstoneAfterBytes
    NoUnexplainedLoss

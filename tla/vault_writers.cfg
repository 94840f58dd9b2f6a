SPECIFICATION FairSpec
CONSTANTS
    Writers = {w1, w2}
    Keys = {k1, k2}
    InitialKey = k1
    Components = {"schema_a"}
    KindOf <- KindsOfComponents
    DependencyKinds = {"schema"}
    BridgeKind = "bridge"
    Objects = {o1}
    Evidence = {e1}
    Bundles = {b1}
    Holds = {h1}
    Claims = {}
    ValidClaims = {}
    Times = {0}
    None = None
PROPERTIES
    LockIsReleased

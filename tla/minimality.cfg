SPECIFICATION FairSpec
CONSTANTS
    m1 = m1
    m2 = m2
    Mechanisms <- MCMechanisms
    Pairs <- MCPairs
INVARIANTS
    SupportIsWarranted
    BlamedLayerIsFirst
    CertificatesNameTheCause
PROPERTIES
    CertificatesStand
    EveryCallReturns

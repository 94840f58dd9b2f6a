SPECIFICATION EnginesSpec
CONSTANTS
    Worlds <- MCWorlds
    Mechanisms <- MCMechanisms
    Requirements = {"bound"}
    Catalogues <- MCCatalogues
    MaxIterations = 2
    CompareAfter = {"all"}
    Claims <- MCClaims
    BaseOf <- MCBaseOf
    RowCount <- MCRowCount
    RowCountDomain = {0, 1, 2, 3}
    StateCaps <- MCStateCaps
    Channels <- MCChannels
    StateLimits = {4, 8}
    OtherClaims <- MCOtherClaims
    MaxTimeline = 3
    Followed <- MCFollowed
INVARIANTS
    CertificatesVerify

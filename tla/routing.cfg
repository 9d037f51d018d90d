CONSTANTS
    Matcher <- MCMatcher
    Config <- MCConfig
    Flow <- MCFlow
    Category <- MCCategory
    Resolve <- MCResolve
    LocalNetworkCIDRs <- MCLocal
    MaxTiers = 2
    MaxEntries = 3
SPECIFICATION Spec
CHECK_DEADLOCK FALSE
INVARIANTS
    StepsMeanTier
    
    
    DirectDialsHeld
    ResolversKeepToTheirNames

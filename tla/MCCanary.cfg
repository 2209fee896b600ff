SPECIFICATION FairSpec
CONSTANTS
    Full = 2
    Step = 2
    MinCalls = 2
    MaxErrorRate = 50
    Configured <- MCConfigured
    Reconfigured <- MCReconfigured
    MaxDeploys = 2
    MaxCalls = 3
    r1 = r1
    r2 = r2
    Requests <- MCRequests
INVARIANTS AlwaysWeighted WeightsAddUp
PROPERTIES RollbackHolds DecidesOnOwnCalls CanarySettles

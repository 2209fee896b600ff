SPECIFICATION FairSpec
CONSTANTS
    SLO = 0
    Cooling = 0
    Horizon = 1
    Window = 1
    MinSamples = 1
    Trials = 1
    MaxConcurrent = 1
    MaxQueue = 1
    Targets <- MCTargets
    Bridged <- MCBridged
    LoadBalancers = {"least_conn", "backpressure"}
    Loads = {0}
    MaxPenalty = 0
    MaxRetries = 2
    None = None
    r1 = r1
    r2 = r2
    t1 = t1
    t2 = t2
    Requests <- MCRequests
INVARIANTS UpstreamBounded
PROPERTIES RequestsEnd

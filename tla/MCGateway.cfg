SPECIFICATION Spec
CONSTANTS
    SLO = 0
    Cooling = 0
    Horizon = 1
    Window = 1
    MinSamples = 1
    Trials = 1
    MaxConcurrent = 2
    MaxQueue = 0
    Targets <- MCTargets
    Bridged <- MCBridged
    LoadBalancers = {"least_conn", "backpressure", "round_robin"}
    Loads <- MCLoads
    MaxPenalty = 2
    MaxRetries = 2
    None = None
    r1 = r1
    r2 = r2
    t1 = t1
    t2 = t2
    Requests <- MCRequests
SYMMETRY Symmetry
INVARIANTS IInv ConnAccounting ErrorsCountedOnce
PROPERTIES PicksLeastLoaded

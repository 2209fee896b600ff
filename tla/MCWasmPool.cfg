SPECIFICATION FairSpec
CONSTANTS
    PoolSize = 1
    MaxGen = 3
    Digests = {"a"}
    None = None
    g1 = g1
    g2 = g2
    i1 = i1
    i2 = i2
    i3 = i3
    Runs <- MCRuns
    Instances <- MCInstances
INVARIANTS IInv InstanceExclusive RightLogic NothingStranded
PROPERTIES RunsReturn

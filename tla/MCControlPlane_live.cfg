\* Every counter is bounded, so a run may come to an end.
CHECK_DEADLOCK FALSE
CONSTANTS
    n1 = n1
    n2 = n2
    Agent = {a1}
    Node = {n1, n2}
    NoAgent = NoAgent
    NoNode = NoNode
    Idle = Idle
    Sweeper = Sweeper
    Budgets = {1}
    Satisfies <- AllPairs
    CanRun <- BothOrSecond
    StuckMin = 1
    StuckMax = 1
    MaxEpoch = 1
    MaxFaults = 1
    MaxStops = 1
    MaxRestarts = 0
SPECIFICATION FairSpec
PROPERTIES
    EventuallyRuns
    
    

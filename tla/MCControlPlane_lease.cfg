\* One agent, failures of every kind, a restart of the control plane.
\* Every counter is bounded, so a run may come to an end.
CHECK_DEADLOCK FALSE
CONSTANTS
    n1 = n1
    n2 = n2
    Agent = {a1}
    Node = {n1, n2}
    NoAgent = NoAgent
    NoNode = NoNode
    Idle = Idle
    Sweeper = Sweeper
    Budgets = {1}
    Satisfies <- AllPairs
    CanRun <- BothCan
    StuckMin = 1
    StuckMax = 2
    MaxEpoch = 2
    MaxFaults = 1
    MaxStops = 1
    MaxRestarts = 1
SPECIFICATION Spec
PROPERTIES
    Leased

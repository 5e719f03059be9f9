\* Two agents compete for one place at a host; heartbeats overlap, and two calls,
\* pulls or processes fail or the host restarts.
CONSTANTS
    Agent = {a1, a2}
    Proc = {p1, p2, p3, p4, p5}
    Beat = {b1, b2}
    None = none
    Cached = {a2}
    MaxAgents = 1
    MaxFaults = 2
    MaxMoves = 1
SPECIFICATION FairSpec
INVARIANTS
    TypeOK
    MapIsRight
    WithinBudget
PROPERTIES
    WantedRuns
    UnwantedStops

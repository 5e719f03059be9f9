SPECIFICATION Spec
CONSTANTS
    a1 = a1
    a2 = a2
    a3 = a3
    o1 = o1
    o2 = o2
    s1 = s1
    s2 = s2
    n1 = n1
    n2 = n2
    None = None
    Agent = {a1, a2, a3}
    Node = {n1, n2}
    Owner = {o1, o2}
    Sha = {s1, s2}
    Root = {}
    Bundle <- Published
    Require <- Unrequired
    Strength <- Machines
    FirstParty <- Everybody
    MaxLives = 2
    MaxFaults = 1
    MaxOrders = 1
INVARIANTS
    TypeOK
    
    
    RunsWholeTree

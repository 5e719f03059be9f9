\* The clock and the counters are bounded, so a run may come to an end.
CHECK_DEADLOCK FALSE
CONSTANTS
    m1 = m1
    Mint = {m1}
    NoMint = NoMint
    Rule = {}
    NoRule = NoRule
    Slot = {s1, s2}
    Destroyer = {d1, d2}
    Policies <- Lives
    Sizes = {2, 3}
    StartTime = 3
    MaxTime = 4
    DayOf <- MCDayOf
    MaxWallet = 2
    MaxToken = 1
    MaxDeposit = 2
    MaxLost = 1
SPECIFICATION Spec
SYMMETRY Symmetry
INVARIANTS
    TypeOK
    OverspendBounded
    

    

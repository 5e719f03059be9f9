\* The clock and the counters are bounded, so a run may come to an end.
CHECK_DEADLOCK FALSE
CONSTANTS
    m1 = m1
    r1 = r1
    Mint = {m1}
    NoMint = NoMint
    Rule = {r1}
    NoRule = NoRule
    Agent = {a1}
    NoAgent = NoAgent
    Owner = {o1}
    NoOwner = NoOwner
    NotGiven = NotGiven
    RawPolicies <- MCRawPolicies
    Intents <- MCIntents
    StartTime = 2
    MaxTime = 4
    DayOf <- MCDayOf
    MaxAddress = 2
    MaxToken = 2
    MaxCrash = 1
    MaxDiskError = 1
SPECIFICATION Spec
INVARIANTS
    TypeOK
    SignerInv
    EpochsNameHolders
    PromisedWalletKept
PROPERTIES
    NewestHolderTrades
    DailyCapKept
    CooldownKept

\* A withdrawal and its retry, and as many endpoints.
\* A withdrawal that was answered is over, so a run may come to an end.
CHECK_DEADLOCK FALSE
CONSTANTS
    Request = {r1, r2}
    Amounts = {0, 1, 5}
    Endpoints = 2
    MaxPolls = 2
    MaxBalance = 4
    MaxBlock = 2
SPECIFICATION FairSpec
INVARIANTS
    TypeOK
    NeverPaidTwice
PROPERTIES
    Pays
    AlwaysAnswered

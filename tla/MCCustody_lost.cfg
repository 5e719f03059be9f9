\* Requests for one agent overlap, two of them hand-overs; its id may be used
\* again after a destroy; a call is lost. Every request is made once, so a run may
\* come to an end.
CHECK_DEADLOCK FALSE
CONSTANTS
    Id = {i1}
    Owner = {o1, o2}
    Creates = {c1, c2}
    Transfers = {t1, t2}
    Deletes = {d1}
    Withdrawals = {w1}
    None = none
    MaxFaults = 1
SPECIFICATION Spec
SYMMETRY Symmetry
INVARIANTS
    TypeOK
    
    FundedIsKnown
    OwnerIsPaid

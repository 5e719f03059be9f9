\* Every counter is bounded, so a run may come to an end.
CHECK_DEADLOCK FALSE
CONSTANTS
    MaxTime = 8
    Request <- MCRequest
    AuthMaxAge = 2
    NonceCap = 1
    RateWindow = 3
    Rate = 1
    MaxServed = 2
    MaxCpRestarts = 1
    None = None
    price = price
    mint = mint
    verdict = verdict
    Input = {price, mint, verdict}
    Rule <- MCRule
    TrustedData = {"api"}
    TrustedInference = {"mesh"}
    TrustedNotary = {}
    Proposal <- MCProposal
    EvidenceMaxAge = 3
    Ahead = 1
    NonceKeep = 4
    EvidenceCap = 2
    MaxUses = 2
    MaxSignerRestarts = 1
SPECIFICATION Spec
INVARIANTS
    ServedOnce
    EvidenceUsedOnce
    

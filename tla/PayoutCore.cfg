\* One payout, two workers, two attempts over NWC, two crashes or exceptions, a zero or a
\* positive commission and a budget that may be too small for it, under fairness.
SPECIFICATION FairSpec
CONSTANTS
    Payouts = {p1}
    Workers = {w1, w2}
    Commissions = {0, 2}
    FeeBps = 1000
    FeeMinSats = 1
    Rail = "nwc"
    SandboxEnabled = FALSE
    RelayAnswers = {TRUE, FALSE}
    ManualHashes = {h1}
    MaxAttempts = 2
    MaxFaults = 2
    DefaultBudget = 3
    Budgets = {2, 3}
    NoHash = NoHash
    None = None
INVARIANTS PaidAtMostOnce SentMoneyIsHeld WorkerOwnsItsAttempt UnresolvableHoldsNoMoney
    ProofHasEvidence ApprovedProofIsAccounted
PROPERTIES EvidenceIsFinal SendIsBacked ImplementsObligations
    CancelPendingResolves PaidIsPublished SentUnknownResolves ManualIsPublished

\* The comment of apply_reversal_to_payout about a paid payout, without any fault.
SPECIFICATION Spec
CONSTANTS
    Payouts = {p1}
    Workers = {w1, w2}
    Commissions = {2}
    FeeBps = 1000
    FeeMinSats = 1
    Rail = "nwc"
    SandboxEnabled = FALSE
    RelayAnswers = {TRUE, FALSE}
    ManualHashes = {h1}
    MaxAttempts = 2
    MaxFaults = 0
    DefaultBudget = 3
    Budgets = {3}
    NoHash = NoHash
    None = None
INVARIANTS ReversalOfPaidReleasesOnlyFee

\* The documented retry of a proof whose publication failed.
SPECIFICATION RetrySpec
CONSTANTS
    Payouts = {p1}
    Workers = {w1, w2}
    Commissions = {2}
    FeeBps = 1000
    FeeMinSats = 1
    Rail = "nwc"
    SandboxEnabled = FALSE
    RelayAnswers = {TRUE, FALSE}
    ManualHashes = {h1}
    MaxAttempts = 2
    MaxFaults = 1
    DefaultBudget = 3
    Budgets = {3}
    NoHash = NoHash
    None = None
PROPERTIES ProofIsRetried

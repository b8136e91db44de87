\* The documented resolution of a reversed payment that never reached the wallet, without
\* any crash or exception.
SPECIFICATION FairSpec
CONSTANTS
    Payouts = {p1}
    Workers = {w1, w2}
    Commissions = {2}
    FeeBps = 1000
    FeeMinSats = 1
    Rail = "nwc"
    SandboxEnabled = FALSE
    RelayAnswers = {TRUE, FALSE}
    ManualHashes = {h1}
    MaxAttempts = 1
    MaxFaults = 0
    DefaultBudget = 3
    Budgets = {3}
    NoHash = NoHash
    None = None
PROPERTIES CancellationIsReconciled

\* Two payouts competing for one budget and two workers, over the fake rail with the sandbox
\* route enabled: pending answers may carry no evidence, successes may not match, and
\* merchants attest hashes that may collide with an invoice in flight.
SPECIFICATION Spec
CONSTANTS
    Payouts = {p1, p2}
    Workers = {w1, w2}
    Commissions = {2}
    FeeBps = 1000
    FeeMinSats = 1
    Rail = "fake"
    SandboxEnabled = TRUE
    RelayAnswers = {TRUE}
    ManualHashes <- InvoiceHashes
    MaxAttempts = 1
    MaxFaults = 1
    DefaultBudget = 3
    Budgets = {6}
    NoHash = NoHash
    None = None
SYMMETRY Symmetry
CONSTRAINT FaultBound
INVARIANTS UniqueProofHash WithinBudget CommittedIsReserved LedgerConservation IInv

\* Two Shopify orders, attributed to two claims, or to a click and one claim; two workers,
\* one crash; a budget that does not fit both rewards and a maximum below the computed
\* reward.  An archived campaign whose orders are all processed has nothing left to do, so
\* deadlock is not checked.
SPECIFICATION Spec
CONSTANTS
    Claims = {c1, c2}
    Orders = {s1, s2}
    ApiOrders = {}
    Clicks = {k1}
    Workers = {w1, w2}
    Totals = {50}
    CashbackBps = 1000
    MaxReward = 4
    CashbackBudget = 7
    PaymentHashes = {h1}
    MaxFaults = 1
    None = None
SYMMETRY Symmetry
CONSTRAINT ClickBound
INVARIANTS OneObligationPerOrder OneRewardPerClaim CashbackBudgetIsExact ArchivedOwesNothing
PROPERTIES RewardsAreFinal
CHECK_DEADLOCK FALSE

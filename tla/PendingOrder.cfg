\* A Shopify order whose worker dies between the inbox row and the background task.  With one
\* order there is nothing left to do in the end, so deadlock is not checked.
SPECIFICATION FairSpec
CONSTANTS
    Claims = {}
    Orders = {s1}
    ApiOrders = {}
    Clicks = {k1}
    Workers = {w1, w2}
    Totals = {50}
    CashbackBps = 1000
    MaxReward = None
    CashbackBudget = None
    PaymentHashes = {h1}
    MaxFaults = 1
    None = None
PROPERTIES AcceptedIsProcessed
CHECK_DEADLOCK FALSE

\* Either a Shopify order and one of the merchant's API, two clicks they may be attributed
\* to, two workers and one crash; or one request and the outbox thread over three events, one
\* crash or database error, where the relays never take the first event and the thread reads
\* one row at a time.  When the bound on events is reached nothing is left to do.
SPECIFICATION MCSpec
CONSTANTS
    None = None
    MaxFaults = 1
    Claims = {}
    Orders = {s1, a1}
    ApiOrders = {a1}
    Clicks = {k1, k2}
    Workers = {w1, thread}
    Totals = {50}
    CashbackBps = 1000
    MaxReward = None
    CashbackBudget = None
    PaymentHashes = {h1}
    Program = program
    Enrollments = {e1}
    Thread = thread
    MaxEvents = 3
    MaxClock = 0
    BatchLimit = 1
    Refused = {1}
INVARIANTS AckedIsStored
PROPERTIES ProcessingResolves PendingIsPublished
CHECK_DEADLOCK FALSE

\* Two attempts over NWC; two requests for a rate while the wall clock is set at will; three
\* requests of two accounts to prepare one item (to the limiter a second item is but another
\* key, as the second account is); two runs of the archive script over two conversions and
\* two backup files.  An attempt that is answered and resolved has nothing left to do, so
\* deadlock is not checked.
SPECIFICATION MCSpec
CONSTANTS
    Attempts = {a1, a2}
    Amount = 2
    Amounts = {0, 1, 2, 3}
    Callers = {c1, c2}
    CacheTtl = 1
    MaxStale = 2
    MaxProviderAge = 2
    Skew = 1
    WallTimes <- MCWallTimes
    MaxTime = 2
    Accounts = {m1, m2}
    Items = {i1}
    Requests = {r1, r2, r3}
    Gap = 2
    Purge = 2
    Clock = 4
    NoInvoice = NoInvoice
    NoQuote = NoQuote
    NoAccount = NoAccount
    NoItem = NoItem
    Workers = {w1, w2}
    Processes = {p}
    Conversions = {s1, s2}
    Files = {f1, f2}
INVARIANTS ServedWithinBounds OnePreparationPerAccount ArchiveIsExact
PROPERTIES ImplementsRailContract EveryCallerIsAnswered
CHECK_DEADLOCK FALSE

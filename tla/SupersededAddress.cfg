\* One payout and one affiliate who changes its address while an execute request runs.
SPECIFICATION DestSpec
CONSTANTS
    Workers = {w1, w2}
    Processes = {p}
    Affiliates = {a1}
    Addresses = {x1, x2}
    Payouts = {p1}
    NoAddress = NoAddress
INVARIANTS AttemptsFollowThePayout

\* One identity, one challenge of each kind and one invitation; one affiliate with two
\* addresses and one payout; two requests, of one server process or of two.
SPECIFICATION MCSpec
CONSTANTS
    Workers = {w1, w2}
    Processes = {p, q}
    Identities = {i1}
    LoginChallenges = {c1}
    JoinChallenges = {j1}
    Invitations = {v1}
    Affiliates = {a1}
    Addresses = {x1, x2}
    Payouts = {p1}
    NoAddress = NoAddress
SYMMETRY Symmetry
INVARIANTS ErasedStaysOut ChallengeUsedOnce PayoutsFollowTheProfile
    NoCircularWaitInAProcess
PROPERTIES AdmittedByTheCampaign

-------------------------- MODULE CashbackExpress --------------------------
(***************************************************************************)
(* One Cashback Express campaign (app/main.py, app/cashback_archive.py):   *)
(* buyers take a claim, a paid order turns a claim into one pending        *)
(* reward, the merchant pays or declines it, an operator archives claims   *)
(* or the whole campaign.                                                  *)
(*                                                                         *)
(* Creating and declining a reward run under the advisory lock             *)
(* "cashback-campaign:<id>", and an archive takes the same lock, so each   *)
(* is one action.  Taking a claim is not: its check and its INSERT are     *)
(* separate statements, and a pause or an archive may come in between.     *)
(***************************************************************************)
EXTENDS Integers, FiniteSetsExt

CONSTANTS
    Claims,         \* identities of the claims buyers may take
    Orders,         \* keys of paid orders
    Totals,         \* what an order may be worth in sats when it is converted
    CashbackBps,    \* cashback_campaigns.cashback_bps
    MaxReward,      \* cashback_campaigns.max_reward_sats, or None
    CashbackBudget, \* cashback_campaigns.budget_sats, or None
    PaymentHashes,  \* hashes a merchant may attest
    None            \* SQL NULL

ASSUME CashbackAssumption ==
    /\ Totals \subseteq Nat
    /\ CashbackBps \in 0..10000
    /\ MaxReward \in Nat \cup {None}
    /\ CashbackBudget \in Nat \cup {None}
    /\ None \notin Nat \cup Claims \cup Orders \cup PaymentHashes

VARIABLES
    cashbackStatus,     \* cashback_campaigns.status
    cashbackArchived,   \* cashback_campaigns.archived_at is set
    cashbackCommitted,  \* cashback_campaigns.committed_sats
    claim,              \* cashback_claims, by claim
    reward              \* cashback_rewards, by order_key

cashbackVars ==
    <<cashbackStatus, cashbackArchived, cashbackCommitted, claim, reward>>
campaignRow == <<cashbackStatus, cashbackArchived, cashbackCommitted>>

-----------------------------------------------------------------------------
\* A claim's row is deleted some time after its status access has lapsed; "checked" is a
\* request that saw an active campaign and has not inserted its row yet.
ClaimStatuses == {"none", "checked", "open", "expired", "lapsed", "deleted"}
Stored == {"open", "expired", "lapsed"}

ClaimRow == [status : ClaimStatuses, consumedBy : Orders \cup {None}, archived : BOOLEAN]
RewardRow == [status : {"none", "pending", "paid", "declined"}, claim : Claims \cup {None},
              sats : Nat, hash : PaymentHashes \cup {None}]

CashbackTypeOK ==
    /\ cashbackStatus \in {"active", "paused"}
    /\ cashbackArchived \in BOOLEAN
    /\ cashbackCommitted \in Nat
    /\ claim \in [Claims -> ClaimRow]
    /\ reward \in [Orders -> RewardRow]

CashbackInit ==
    /\ cashbackStatus = "active"
    /\ cashbackArchived = FALSE
    /\ cashbackCommitted = 0
    /\ claim = [c \in Claims |-> [status |-> "none", consumedBy |-> None, archived |-> FALSE]]
    /\ reward = [o \in Orders |-> [status |-> "none", claim |-> None, sats |-> 0, hash |-> None]]

Rewarded(o) == reward[o].status # "none"
HasReward(c) == \E o \in Orders : Rewarded(o) /\ reward[o].claim = c

\* Basis points of the total, rounded half up, within the campaign's maximum.
RewardSats(total) ==
    LET sats == (total * CashbackBps + 5000) \div 10000
    IN IF MaxReward # None /\ MaxReward < sats THEN MaxReward ELSE sats

Fits(sats) == CashbackBudget # None => cashbackCommitted + sats <= CashbackBudget

-----------------------------------------------------------------------------
SetCashbackStatus(s) ==
    /\ ~cashbackArchived
    /\ cashbackStatus' = s
    /\ UNCHANGED <<cashbackArchived, cashbackCommitted, claim, reward>>

\* cashback_express_claim: the state is checked, then the row is inserted.
CheckClaim(c) ==
    /\ claim[c].status = "none"
    /\ cashbackStatus = "active" /\ ~cashbackArchived
    /\ claim' = [claim EXCEPT ![c].status = "checked"]
    /\ UNCHANGED <<campaignRow, reward>>

InsertClaim(c) ==
    /\ claim[c].status = "checked"
    /\ claim' = [claim EXCEPT ![c].status = "open"]
    /\ UNCHANGED <<campaignRow, reward>>

\* The claim's window ends, and later the buyer's access to its status.
ClaimAges(c) ==
    /\ \/ claim[c].status = "open" /\ claim' = [claim EXCEPT ![c].status = "expired"]
       \/ claim[c].status = "expired" /\ claim' = [claim EXCEPT ![c].status = "lapsed"]
    /\ UNCHANGED <<campaignRow, reward>>

Disposable(c) == claim[c].status = "lapsed" /\ ~claim[c].archived /\ ~HasReward(c)

\* Every start of the process.
CleanupExpiredClaims ==
    /\ \E c \in Claims : Disposable(c)
    /\ claim' = [c \in Claims |->
                   IF Disposable(c) THEN [claim[c] EXCEPT !.status = "deleted"] ELSE claim[c]]
    /\ UNCHANGED <<campaignRow, reward>>

\* What _process_cashback_reward_locked requires of the claim before it funds an order.
MFundableByAnyOrder(c) == claim[c].status = "open" /\ ~claim[c].archived

Fundable(c) ==
    /\ claim[c].status = "open"
    /\ claim[c].consumedBy = None
    /\ ~claim[c].archived

MCreatesWhileInactive(o, c, total) ==
    LET sats == RewardSats(total)
    IN /\ ~Rewarded(o) /\ Fundable(c) /\ sats > 0 /\ Fits(sats)
       /\ cashbackCommitted' = cashbackCommitted + sats
       /\ claim' = [claim EXCEPT ![c].consumedBy = o]
       /\ reward' = [reward EXCEPT ![o] = [status |-> "pending", claim |-> c,
                                           sats |-> sats, hash |-> None]]
       /\ UNCHANGED <<cashbackStatus, cashbackArchived>>

CreateReward(o, c, total) ==
    LET sats == RewardSats(total)
    IN /\ ~Rewarded(o)
       /\ Fundable(c)
       /\ cashbackStatus = "active" /\ ~cashbackArchived
       /\ sats > 0
       /\ Fits(sats)
       /\ cashbackCommitted' = cashbackCommitted + sats
       /\ claim' = [claim EXCEPT ![c].consumedBy = o]
       /\ reward' = [reward EXCEPT ![o] = [status |-> "pending", claim |-> c,
                                           sats |-> sats, hash |-> None]]
       /\ UNCHANGED <<cashbackStatus, cashbackArchived>>

\* The UPDATE is conditional on 'pending'; it does not take the campaign's lock.
MPaysDeclined(o, h) ==
    /\ reward[o].status \in {"pending", "declined"}
    /\ reward' = [reward EXCEPT ![o].status = "paid", ![o].hash = h]
    /\ UNCHANGED <<campaignRow, claim>>

MarkCashbackPaid(o, h) ==
    /\ reward[o].status = "pending"
    /\ reward' = [reward EXCEPT ![o].status = "paid", ![o].hash = h]
    /\ UNCHANGED <<campaignRow, claim>>

\* The reservation goes back to the budget; the claim stays consumed.
MDeclineKeepsCommitment(o) ==
    /\ reward[o].status = "pending"
    /\ reward' = [reward EXCEPT ![o].status = "declined"]
    /\ UNCHANGED <<campaignRow, claim>>

DeclineCashbackReward(o) ==
    /\ reward[o].status = "pending"
    /\ cashbackCommitted >= reward[o].sats
    /\ cashbackCommitted' = cashbackCommitted - reward[o].sats
    /\ reward' = [reward EXCEPT ![o].status = "declined"]
    /\ UNCHANGED <<cashbackStatus, cashbackArchived, claim>>

-----------------------------------------------------------------------------
(* apply_cashback_archive.  The operator's manifest must describe the rows as   *)
(* they are now, so only what the rows must satisfy at this moment is modelled. *)

Archived(S) == [c \in Claims |-> IF c \in S THEN [claim[c] EXCEPT !.archived = TRUE] ELSE claim[c]]

ArchiveClaims(S) ==
    /\ cashbackStatus = "active" /\ ~cashbackArchived
    /\ S # {}
    /\ \A c \in S : /\ claim[c].status \in Stored
                    /\ claim[c].consumedBy = None
                    /\ ~claim[c].archived
                    /\ ~HasReward(c)
    /\ claim' = Archived(S)
    /\ UNCHANGED <<campaignRow, reward>>

\* The UPDATE of the claims must touch every claim of the manifest, so it is refused
\* for ever once a claim has been archived alone.
ArchiveCampaign ==
    LET S == {c \in Claims : claim[c].status \in Stored}
    IN /\ cashbackStatus = "paused" /\ ~cashbackArchived
       /\ \A o \in Orders : Rewarded(o) => reward[o].status \in {"paid", "declined"}
       /\ \A c \in S : ~claim[c].archived
       /\ cashbackArchived' = TRUE
       /\ claim' = Archived(S)
       /\ UNCHANGED <<cashbackStatus, cashbackCommitted, reward>>

\* Everything but the creation of a reward, which is a step of an order's processing.
CashbackNext ==
    \/ \E s \in {"active", "paused"} : SetCashbackStatus(s)
    \/ \E c \in Claims : CheckClaim(c) \/ InsertClaim(c) \/ ClaimAges(c)
    \/ \E o \in Orders :
         \/ \E h \in PaymentHashes : MarkCashbackPaid(o, h)
         \/ DeclineCashbackReward(o)
    \/ CleanupExpiredClaims
    \/ \E S \in SUBSET Claims : ArchiveClaims(S)
    \/ ArchiveCampaign

-----------------------------------------------------------------------------
(* Properties. *)

\* A claim funds one order: whatever is redelivered, declined or retried, two rewards never
\* share a claim, and a claim is consumed exactly by the order whose reward it funded.
OneRewardPerClaim ==
    /\ \A o \in Orders : Rewarded(o) => claim[reward[o].claim].consumedBy = o
    /\ \A c \in Claims : claim[c].consumedBy # None => reward[claim[c].consumedBy].claim = c

\* The campaign's committed counter is exactly what its rewards that were not declined are
\* worth, so a decline never finds too little to release, and it stays within the budget.
CashbackBudgetIsExact ==
    /\ cashbackCommitted =
         MapThenSumSet(LAMBDA o : IF reward[o].status \in {"pending", "paid"}
                                  THEN reward[o].sats ELSE 0, Orders)
    /\ CashbackBudget # None => cashbackCommitted <= CashbackBudget

\* Nothing is still owed by an archived campaign, and nothing will be: an order processed
\* while the archive is applied cannot slip in a reward afterwards.
ArchivedOwesNothing ==
    cashbackArchived => \A o \in Orders : reward[o].status # "pending"

\* Paid and declined are final and their evidence never changes, although paying does not
\* take the lock that declining holds; and an archived claim is never consumed afterwards.
RewardsAreFinal ==
    [][/\ \A o \in Orders : reward[o].status \in {"paid", "declined"} => reward'[o] = reward[o]
       /\ \A c \in Claims : claim[c].archived => claim'[c].consumedBy = claim[c].consumedBy
      ]_cashbackVars

=============================================================================

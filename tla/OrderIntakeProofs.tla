------------------------- MODULE OrderIntakeProofs -------------------------
(***************************************************************************)
(* OrderInv is inductive, and what follows from it, for any number of      *)
(* orders, claims, clicks, workers and crashes and every budget.           *)
(***************************************************************************)
EXTENDS OrderInvariant, SetSums, TLAPS

-----------------------------------------------------------------------------
(* Types. *)

\* NULL is no identity, and a click is no claim.
LEMMA NoneIsNothing ==
    /\ None \notin Claims /\ None \notin Orders /\ None \notin Clicks /\ None \notin Workers
    /\ None \notin Sources
    /\ \A k \in Clicks : k \notin Claims
BY CashbackAssumption, IntakeAssumption DEF Sources

\* A reward is a natural number of sats, whatever the order's total.
LEMMA RewardIsNat == ASSUME NEW total \in Totals PROVE RewardSats(total) \in Nat
<1>1. total \in Nat /\ CashbackBps \in Nat
  BY CashbackAssumption
<1>2. total * CashbackBps + 5000 \in Nat
  BY <1>1
<1>3. ASSUME NEW n \in Nat PROVE n \div 10000 \in Nat
  OBVIOUS
<1>4. (total * CashbackBps + 5000) \div 10000 \in Nat
  BY <1>2, <1>3
<1>. QED
  BY <1>4, CashbackAssumption DEF RewardSats

LEMMA InitType == Init => TypeOK
<1>. SUFFICES ASSUME Init PROVE TypeOK
  OBVIOUS
<1>1. CashbackTypeOK
  BY DEF Init, CashbackInit, CashbackTypeOK, ClaimRow, RewardRow, ClaimStatuses
<1>2. InboxTypeOK
  BY IntakeAssumption DEF Init, InboxTypeOK, NoDelivery, Idle, DeliveryStatuses, Steps
<1>. QED
  BY <1>1, <1>2 DEF TypeOK

LEMMA CashbackType ==
    ASSUME CashbackTypeOK, CashbackNext PROVE CashbackTypeOK'
<1>. USE DEF CashbackTypeOK, campaignRow
<1>. DEFINE Row == [status : ClaimStatuses, consumedBy : Orders \cup {None}, archived : BOOLEAN]
<1>1. ASSUME NEW s \in {"active", "paused"}, SetCashbackStatus(s) PROVE CashbackTypeOK'
  BY <1>1 DEF SetCashbackStatus
<1>2. ASSUME NEW c \in Claims, CheckClaim(c) \/ InsertClaim(c) \/ ClaimAges(c) PROVE CashbackTypeOK'
  <2>1. \E s \in ClaimStatuses : claim' = [claim EXCEPT ![c].status = s]
    BY <1>2 DEF CheckClaim, InsertClaim, ClaimAges, ClaimStatuses
  <2>2. claim' \in [Claims -> ClaimRow]
    BY <2>1 DEF ClaimRow
  <2>. QED
    BY <1>2, <2>2 DEF CheckClaim, InsertClaim, ClaimAges
<1>3. ASSUME NEW o \in Orders, NEW h \in PaymentHashes, MarkCashbackPaid(o, h) PROVE CashbackTypeOK'
  <2>1. [reward[o] EXCEPT !.status = "paid", !.hash = h] \in RewardRow
    BY DEF RewardRow
  <2>2. reward' \in [Orders -> RewardRow]
    BY <1>3, <2>1 DEF MarkCashbackPaid
  <2>. QED
    BY <1>3, <2>2 DEF MarkCashbackPaid
<1>4. ASSUME NEW o \in Orders, DeclineCashbackReward(o) PROVE CashbackTypeOK'
  BY <1>4 DEF DeclineCashbackReward, RewardRow
<1>5. CASE CleanupExpiredClaims
  <2>1. \A c \in Claims : [claim[c] EXCEPT !.status = "deleted"] \in ClaimRow
    BY DEF ClaimRow, ClaimStatuses
  <2>. QED
    BY <1>5, <2>1 DEF CleanupExpiredClaims
<1>6. ASSUME NEW S \in SUBSET Claims, claim' = Archived(S) PROVE claim' \in [Claims -> ClaimRow]
  <2>1. \A c \in Claims : [claim[c] EXCEPT !.archived = TRUE] \in ClaimRow
    BY DEF ClaimRow
  <2>. QED
    BY <1>6, <2>1 DEF Archived
<1>7. ASSUME NEW S \in SUBSET Claims, ArchiveClaims(S) PROVE CashbackTypeOK'
  BY <1>6, <1>7 DEF ArchiveClaims
<1>8. CASE ArchiveCampaign
  <2>. DEFINE S == {c \in Claims : claim[c].status \in Stored}
  <2>1. claim' = Archived(S) /\ S \in SUBSET Claims
    BY <1>8 DEF ArchiveCampaign
  <2>2. claim' \in [Claims -> ClaimRow]
    BY <1>6, <2>1
  <2>. QED
    BY <1>8, <2>2 DEF ArchiveCampaign
<1>. QED
  BY <1>1, <1>2, <1>3, <1>4, <1>5, <1>7, <1>8 DEF CashbackNext

LEMMA CreateRewardType ==
    ASSUME CashbackTypeOK, NEW o \in Orders, NEW c \in Claims, NEW total \in Totals,
           CreateReward(o, c, total)
    PROVE  CashbackTypeOK'
<1>1. RewardSats(total) \in Nat
  BY RewardIsNat
<1>2. claim' \in [Claims -> ClaimRow]
  BY DEF CashbackTypeOK, CreateReward, ClaimRow
<1>3. reward' \in [Orders -> RewardRow]
  BY <1>1 DEF CashbackTypeOK, CreateReward, RewardRow
<1>. QED
  BY <1>1, <1>2, <1>3 DEF CashbackTypeOK, CreateReward

\* A conversion's click is none of the claims, so what a worker found for its own
\* attribution is a click.
LEMMA FoundClick ==
    ASSUME TypeOK, NEW w \in Workers, AnswerDuplicate(w), JobInv(w)
    PROVE  job[w].click \in Clicks
<1>1. PICK o \in Orders : o = job[w].order
  BY DEF TypeOK, InboxTypeOK, AnswerDuplicate
<1>2. conversion[o] \in Clicks \cup {None} /\ keyless[o] \in Clicks \cup {None}
  BY DEF TypeOK, InboxTypeOK
<1>3. job[w].click \in Sources
  BY DEF JobInv, AnswerDuplicate
<1>4. conversion[o] = job[w].click \/ keyless[o] = job[w].click
  BY <1>1 DEF AnswerDuplicate, FoundConversion
<1>. QED
  BY <1>2, <1>3, <1>4, NoneIsNothing

JobsTyped ==
    /\ job \in [Workers -> [step : Steps, order : Orders \cup {None}, click : Sources \cup {None}]]
    /\ \A w \in Workers : job[w].step # "idle" => job[w].order \in Orders

DeliveriesTyped ==
    delivery \in [Orders -> [status : DeliveryStatuses, source : Sources \cup {None}, stale : BOOLEAN]]

\* What a step may do to a worker's job keeps the jobs typed.
LEMMA JobMoves ==
    ASSUME TypeOK, NEW w \in Workers
    PROVE  /\ UNCHANGED job => JobsTyped'
           /\ EndJob(w) => JobsTyped'
           /\ \A s \in Steps : job[w].step # "idle" /\ GoTo(w, s) => JobsTyped'
           /\ \A s \in Steps, o \in Orders, k \in Sources : StartJob(w, s, o, k) => JobsTyped'
<1>1. JobsTyped
  BY DEF TypeOK, InboxTypeOK, JobsTyped
<1>2. ASSUME EndJob(w) PROVE JobsTyped'
  BY <1>1, <1>2 DEF JobsTyped, EndJob, Idle, Steps
<1>3. ASSUME NEW s \in Steps, job[w].step # "idle", GoTo(w, s) PROVE JobsTyped'
  BY <1>1, <1>3 DEF JobsTyped, GoTo
<1>4. ASSUME NEW s \in Steps, NEW o \in Orders, NEW k \in Sources, StartJob(w, s, o, k)
      PROVE JobsTyped'
  BY <1>1, <1>4 DEF JobsTyped, StartJob
<1>5. UNCHANGED job => JobsTyped'
  BY <1>1 DEF JobsTyped
<1>. QED
  BY <1>2, <1>3, <1>4, <1>5

\* The workers' own steps, and what the rows of the inbox do meanwhile.
LEMMA WorkerType ==
    ASSUME TypeOK, NEW w \in Workers, JobInv(w), StartRequest(w) \/ WorkerStep(w) \/ Crash(w)
    PROVE  TypeOK'
<1>0. ASSUME UNCHANGED cashbackVars PROVE CashbackTypeOK'
  BY <1>0 DEF cashbackVars, CashbackTypeOK, TypeOK
<1>1. Released(w) \in [Orders -> Workers \cup {None}]
  BY DEF Released, TypeOK, InboxTypeOK
<1>2. job[w].step # "idle" => job[w].order \in Orders
  BY DEF TypeOK, InboxTypeOK
<1>3. ASSUME NEW s \in {"pending", "processing", "processed", "failed"}, NEW o \in Orders,
             delivery' = [delivery EXCEPT ![o].status = s, ![o].stale = FALSE]
      PROVE  DeliveriesTyped'
  <2>1. DeliveriesTyped /\ s \in DeliveryStatuses
    BY DEF TypeOK, InboxTypeOK, DeliveriesTyped, DeliveryStatuses
  <2>2. [delivery[o] EXCEPT !.status = s, !.stale = FALSE]
        \in [status : DeliveryStatuses, source : Sources \cup {None}, stale : BOOLEAN]
    BY <2>1 DEF DeliveriesTyped
  <2>. QED
    BY <1>3, <2>1, <2>2 DEF DeliveriesTyped
<1>4. ASSUME UNCHANGED delivery PROVE DeliveriesTyped'
  BY <1>4 DEF TypeOK, InboxTypeOK, DeliveriesTyped
<1>5. ASSUME CashbackTypeOK', JobsTyped', DeliveriesTyped',
             UNCHANGED <<conversion, keyless, orderLock, acked, faults>>
      PROVE  TypeOK'
  BY <1>5 DEF TypeOK, InboxTypeOK, JobsTyped, DeliveriesTyped
<1>6. CASE StartRequest(w)
  <2>1. ASSUME NEW o \in Orders, NEW k \in Sources, ReceiveOrder(w, o, k) PROVE TypeOK'
    <3>1. DeliveriesTyped'
      BY <2>1 DEF ReceiveOrder, TypeOK, InboxTypeOK, DeliveriesTyped, DeliveryStatuses
    <3>. QED
      BY <1>0, <1>5, <2>1, <3>1, JobMoves DEF ReceiveOrder, Steps
  <2>2. ASSUME NEW o \in Orders, NEW k \in Sources, RedeliverOrder(w, o, k) PROVE TypeOK'
    BY <1>0, <1>4, <1>5, <2>2, JobMoves DEF RedeliverOrder, inboxVars, Steps
  <2>3. ASSUME NEW o \in Orders, NEW k \in Clicks, MerchantConversion(w, o, k) PROVE TypeOK'
    BY <1>0, <1>4, <1>5, <2>3, JobMoves DEF MerchantConversion, inboxVars, Steps, Sources
  <2>4. ShopifyOrders \subseteq Orders /\ ApiOrders \subseteq Orders
    BY IntakeAssumption DEF ShopifyOrders
  <2>. QED
    BY <1>6, <2>1, <2>2, <2>3, <2>4 DEF StartRequest
<1>7. CASE ResetDelivery(w)
  BY <1>0, <1>2, <1>3, <1>5, <1>7, JobMoves DEF ResetDelivery, Steps
<1>8. CASE ClaimDelivery(w)
  BY <1>0, <1>2, <1>3, <1>5, <1>8, JobMoves DEF ClaimDelivery, Steps
<1>9. CASE ClaimDeliveryRefused(w)
  BY <1>0, <1>4, <1>5, <1>9, JobMoves DEF ClaimDeliveryRefused, inboxVars
<1>10. CASE Dispatch(w)
  BY <1>0, <1>4, <1>5, <1>10, JobMoves DEF Dispatch, inboxVars, Steps
<1>11. CASE FundReward(w)
  <2>1. job[w].order \in Orders /\ job[w].click \in Claims
    BY <1>2, <1>11 DEF FundReward, JobInv
  <2>2. CashbackTypeOK'
    BY <1>0, <1>11, <2>1, CreateRewardType DEF FundReward, TypeOK
  <2>. QED
    BY <1>4, <1>5, <1>11, <2>2, JobMoves DEF FundReward, inboxVars, Steps
<1>12. ASSUME job[w].step # "idle", Respond(w), job[w].click \in Clicks
       PROVE  JobsTyped' /\ acked' \subseteq Orders \X Clicks
  <2>1. CASE Answer(w)
    BY <1>2, <1>12, <2>1, JobMoves DEF Answer, Steps, TypeOK, InboxTypeOK
  <2>2. CASE Fail(w)
    BY <1>12, <2>2, JobMoves DEF Fail, Steps, TypeOK, InboxTypeOK
  <2>. QED
    BY <1>12, <2>1, <2>2 DEF Respond
<1>13. CASE AnswerDuplicate(w)
  <2>1. job[w].click \in Clicks
    BY <1>13, FoundClick
  <2>2. conversion' \in [Orders -> Clicks \cup {None}] /\ keyless' \in [Orders -> Clicks \cup {None}]
    BY <1>13, <2>1 DEF AnswerDuplicate, FoundConversion, TypeOK, InboxTypeOK
  <2>3. JobsTyped' /\ acked' \subseteq Orders \X Clicks
    BY <1>12, <1>13, <2>1 DEF AnswerDuplicate
  <2>. QED
    BY <1>0, <1>4, <1>13, <2>2, <2>3 DEF AnswerDuplicate, TypeOK, InboxTypeOK, JobsTyped, DeliveriesTyped
<1>14. CASE LookUpNothing(w)
  <2>1. JobsTyped'
    BY <1>14, JobMoves DEF LookUpNothing, Steps
  <2>2. orderLock' \in [Orders -> Workers \cup {None}]
    BY <1>14 DEF LookUpNothing, TypeOK, InboxTypeOK
  <2>. QED
    BY <1>0, <1>4, <1>14, <2>1, <2>2 DEF LookUpNothing, TypeOK, InboxTypeOK, JobsTyped, DeliveriesTyped
<1>15. CASE CreateConversion(w)
  <2>1. JobsTyped' /\ acked' \subseteq Orders \X Clicks
    BY <1>12, <1>15 DEF CreateConversion
  <2>2. conversion' \in [Orders -> Clicks \cup {None}]
    BY <1>15 DEF CreateConversion, TypeOK, InboxTypeOK
  <2>. QED
    BY <1>0, <1>1, <1>4, <1>15, <2>1, <2>2
    DEF CreateConversion, TypeOK, InboxTypeOK, JobsTyped, DeliveriesTyped
<1>16. CASE ProcessingFails(w)
  <2>1. JobsTyped' /\ UNCHANGED acked
    BY <1>16, JobMoves DEF ProcessingFails, Fail, Steps
  <2>. QED
    BY <1>0, <1>1, <1>4, <1>16, <2>1
    DEF ProcessingFails, TypeOK, InboxTypeOK, JobsTyped, DeliveriesTyped
<1>17. CASE MarkProcessed(w)
  BY <1>0, <1>2, <1>3, <1>5, <1>17, JobMoves DEF MarkProcessed
<1>18. CASE MarkFailed(w)
  BY <1>0, <1>2, <1>3, <1>5, <1>18, JobMoves DEF MarkFailed
<1>19. CASE Crash(w)
  <2>1. JobsTyped'
    BY <1>19, JobMoves DEF Crash
  <2>2. faults' \in 0..MaxFaults
    BY <1>19, IntakeAssumption DEF Crash, TypeOK, InboxTypeOK
  <2>. QED
    BY <1>0, <1>1, <1>4, <1>19, <2>1, <2>2 DEF Crash, TypeOK, InboxTypeOK, JobsTyped, DeliveriesTyped
<1>. QED
  BY <1>6, <1>7, <1>8, <1>9, <1>10, <1>11, <1>13, <1>14, <1>15, <1>16, <1>17, <1>18, <1>19
  DEF WorkerStep

LEMMA NextType ==
    ASSUME TypeOK, \A w \in Workers : JobInv(w), [Next]_vars
    PROVE  TypeOK'
<1>1. CASE UNCHANGED vars
  BY <1>1 DEF vars, cashbackVars, inboxVars, TypeOK, CashbackTypeOK, InboxTypeOK
<1>2. CASE CashbackNext /\ UNCHANGED <<inboxVars, job, faults>>
  <2>1. CashbackTypeOK'
    BY <1>2, CashbackType DEF TypeOK
  <2>. QED
    BY <1>2, <2>1 DEF inboxVars, TypeOK, InboxTypeOK
<1>3. ASSUME NEW o \in ShopifyOrders, ProcessingGetsStale(o) PROVE TypeOK'
  <2>1. CashbackTypeOK'
    BY <1>3 DEF ProcessingGetsStale, cashbackVars, TypeOK, CashbackTypeOK
  <2>2. o \in Orders /\ delivery' = [delivery EXCEPT ![o].stale = TRUE]
    BY <1>3 DEF ProcessingGetsStale, ShopifyOrders
  <2>3. DeliveriesTyped'
    <3>1. DeliveriesTyped
      BY DEF TypeOK, InboxTypeOK, DeliveriesTyped
    <3>2. [delivery[o] EXCEPT !.stale = TRUE]
          \in [status : DeliveryStatuses, source : Sources \cup {None}, stale : BOOLEAN]
      BY <2>2, <3>1 DEF DeliveriesTyped
    <3>. QED
      BY <2>2, <3>1, <3>2 DEF DeliveriesTyped
  <2>4. UNCHANGED <<conversion, keyless, orderLock, acked, job, faults>>
    BY <1>3 DEF ProcessingGetsStale
  <2>. QED
    BY <2>1, <2>3, <2>4 DEF TypeOK, InboxTypeOK, DeliveriesTyped
<1>4. ASSUME NEW o \in ApiOrders, NEW k \in Clicks, PublicConversion(o, k) PROVE TypeOK'
  <2>1. CashbackTypeOK'
    BY <1>4 DEF PublicConversion, cashbackVars, TypeOK, CashbackTypeOK
  <2>. QED
    BY <1>4, <2>1 DEF PublicConversion, TypeOK, InboxTypeOK
<1>. QED
  BY <1>1, <1>2, <1>3, <1>4, WorkerType DEF Next

-----------------------------------------------------------------------------
(* The invariant. *)

LEMMA InitOrder == Init => OrderInv
<1>. SUFFICES ASSUME Init PROVE OrderInv
  OBVIOUS
<1>1. TypeOK
  BY InitType
<1>2. \A o \in Orders : ~Rewarded(o) /\ reward[o].claim = None /\ delivery[o] = NoDelivery
  BY DEF Init, CashbackInit, Rewarded
<1>3. \A o \in Orders : RowInv(o)
  BY <1>2 DEF RowInv, NoDelivery
<1>4. \A w \in Workers : job[w].step = "idle"
  BY DEF Init, Idle
<1>5. OneRewardPerClaim
  BY <1>2 DEF Init, CashbackInit, OneRewardPerClaim
<1>6. OneObligationPerOrder
  BY <1>2 DEF Init, OneObligationPerOrder, NoDelivery, ShopifyOrders
<1>. QED
  BY <1>1, <1>3, <1>4, <1>5, <1>6
  DEF OrderInv, JobInv, ArchivedOwesNothing, CreatorIsAlone, AckedIsStored, Init, CashbackInit

\* A step of the cashback campaign other than the creation of a reward changes neither who
\* is rewarded for which claim nor which order consumed a claim.
LEMMA CashbackKeeps ==
    ASSUME CashbackTypeOK, CashbackNext
    PROVE  /\ \A o \in Orders : reward'[o].claim = reward[o].claim /\ (Rewarded(o)' <=> Rewarded(o))
           /\ \A c \in Claims : claim'[c].consumedBy = claim[c].consumedBy
<1>. DEFINE Kept == /\ \A o \in Orders : /\ reward'[o].claim = reward[o].claim
                                         /\ Rewarded(o)' <=> Rewarded(o)
                    /\ \A c \in Claims : claim'[c].consumedBy = claim[c].consumedBy
<1>1. ASSUME NEW s \in {"active", "paused"}, SetCashbackStatus(s) PROVE Kept
  BY <1>1 DEF SetCashbackStatus, Rewarded
<1>2. ASSUME NEW c \in Claims, CheckClaim(c) \/ InsertClaim(c) \/ ClaimAges(c) PROVE Kept
  BY <1>2 DEF CheckClaim, InsertClaim, ClaimAges, Rewarded, CashbackTypeOK, ClaimRow
<1>3. ASSUME NEW o \in Orders, NEW h \in PaymentHashes, MarkCashbackPaid(o, h) PROVE Kept
  BY <1>3 DEF MarkCashbackPaid, Rewarded, CashbackTypeOK, RewardRow
<1>4. ASSUME NEW o \in Orders, DeclineCashbackReward(o) PROVE Kept
  BY <1>4 DEF DeclineCashbackReward, Rewarded, CashbackTypeOK, RewardRow
<1>5. CASE CleanupExpiredClaims
  BY <1>5 DEF CleanupExpiredClaims, Rewarded, CashbackTypeOK, ClaimRow
<1>6. ASSUME NEW S \in SUBSET Claims, ArchiveClaims(S) PROVE Kept
  BY <1>6 DEF ArchiveClaims, Archived, Rewarded, CashbackTypeOK, ClaimRow
<1>7. CASE ArchiveCampaign
  BY <1>7 DEF ArchiveCampaign, Archived, Rewarded, CashbackTypeOK, ClaimRow
<1>. QED
  BY <1>1, <1>2, <1>3, <1>4, <1>5, <1>6, <1>7 DEF CashbackNext

LEMMA CashbackArchive ==
    ASSUME CashbackTypeOK, ArchivedOwesNothing, CashbackNext
    PROVE  ArchivedOwesNothing'
<1>. USE DEF ArchivedOwesNothing, campaignRow
<1>1. ASSUME NEW s \in {"active", "paused"}, SetCashbackStatus(s) PROVE ArchivedOwesNothing'
  BY <1>1 DEF SetCashbackStatus
<1>2. ASSUME NEW c \in Claims, CheckClaim(c) \/ InsertClaim(c) \/ ClaimAges(c)
      PROVE  ArchivedOwesNothing'
  BY <1>2 DEF CheckClaim, InsertClaim, ClaimAges
<1>3. ASSUME NEW o \in Orders, NEW h \in PaymentHashes, MarkCashbackPaid(o, h)
      PROVE  ArchivedOwesNothing'
  BY <1>3 DEF MarkCashbackPaid, CashbackTypeOK, RewardRow
<1>4. ASSUME NEW o \in Orders, DeclineCashbackReward(o) PROVE ArchivedOwesNothing'
  BY <1>4 DEF DeclineCashbackReward, CashbackTypeOK, RewardRow
<1>5. CASE CleanupExpiredClaims
  BY <1>5 DEF CleanupExpiredClaims
<1>6. ASSUME NEW S \in SUBSET Claims, ArchiveClaims(S) PROVE ArchivedOwesNothing'
  BY <1>6 DEF ArchiveClaims
<1>7. CASE ArchiveCampaign
  BY <1>7 DEF ArchiveCampaign, Rewarded
<1>. QED
  BY <1>1, <1>2, <1>3, <1>4, <1>5, <1>6, <1>7 DEF CashbackNext

\* A worker that does not move keeps its invariant while obligations only come into being.
LEMMA JobKept ==
    ASSUME NEW v \in Workers, JobInv(v), job'[v] = job[v],
           job[v].step # "idle" =>
             /\ delivery'[job[v].order].source = delivery[job[v].order].source
             /\ Rewarded(job[v].order) => Rewarded(job[v].order)'
             /\ conversion[job[v].order] # None => conversion'[job[v].order] # None
    PROVE  JobInv(v)'
BY DEF JobInv

LEMMA CashbackStep ==
    ASSUME OrderInv, TypeOK', CashbackNext, UNCHANGED <<inboxVars, job, faults>>
    PROVE  OrderInv'
<1>1. /\ \A o \in Orders : reward'[o].claim = reward[o].claim /\ (Rewarded(o)' <=> Rewarded(o))
      /\ \A c \in Claims : claim'[c].consumedBy = claim[c].consumedBy
  BY CashbackKeeps DEF OrderInv, TypeOK
<1>2. ArchivedOwesNothing'
  BY CashbackArchive DEF OrderInv, TypeOK
<1>3. \A o \in Orders : RowInv(o)'
  BY <1>1 DEF OrderInv, RowInv, inboxVars
<1>4. \A v \in Workers : JobInv(v)'
  <2>. SUFFICES ASSUME NEW v \in Workers PROVE JobInv(v)'
    OBVIOUS
  <2>1. job[v].step # "idle" => job[v].order \in Orders
    BY DEF OrderInv, TypeOK, InboxTypeOK
  <2>. QED
    BY <1>1, <2>1, JobKept DEF OrderInv, inboxVars
<1>5. /\ \A o \in Orders : Rewarded(o) => reward[o].claim \in Claims
      /\ \A c \in Claims : claim[c].consumedBy \in Orders \cup {None}
  BY DEF OrderInv, RowInv, TypeOK, CashbackTypeOK, RewardRow, ClaimRow
<1>6. OneRewardPerClaim'
  <2>1. ASSUME NEW o \in Orders, Rewarded(o)' PROVE claim'[reward'[o].claim].consumedBy = o
    <3>1. Rewarded(o) /\ reward[o].claim \in Claims /\ reward'[o].claim = reward[o].claim
      BY <1>1, <1>5, <2>1
    <3>2. claim[reward[o].claim].consumedBy = o
      BY <3>1 DEF OrderInv, OneRewardPerClaim
    <3>. QED
      BY <1>1, <3>1, <3>2
  <2>2. ASSUME NEW c \in Claims, claim'[c].consumedBy # None
        PROVE  reward'[claim'[c].consumedBy].claim = c
    <3>1. PICK o \in Orders : claim[c].consumedBy = o /\ claim'[c].consumedBy = o
      BY <1>1, <1>5, <2>2
    <3>2. o # None
      BY CashbackAssumption
    <3>3. reward[o].claim = c
      BY <3>1, <3>2 DEF OrderInv, OneRewardPerClaim
    <3>4. reward'[o].claim = c
      BY <1>1, <3>3
    <3>. QED
      BY <3>1, <3>4
  <2>. QED
    BY <2>1, <2>2 DEF OneRewardPerClaim
<1>7. CreatorIsAlone' /\ AckedIsStored'
  BY DEF OrderInv, CreatorIsAlone, AckedIsStored, inboxVars
<1>8. OneObligationPerOrder'
  BY <1>1 DEF OrderInv, OneObligationPerOrder, inboxVars, ShopifyOrders
<1>. QED
  BY <1>2, <1>3, <1>4, <1>6, <1>7, <1>8 DEF OrderInv

\* Conversions and the campaign stay: only a delivery or the place of the workers in W
\* changes.
LEMMA InboxStep ==
    ASSUME OrderInv, TypeOK', NEW W \in SUBSET Workers,
           UNCHANGED <<cashbackVars, conversion, acked>>,
           \A v \in Workers \ W : job'[v] = job[v],
           \A w \in W : JobInv(w)',
           \A w \in W : job'[w].step = "create" =>
              orderLock'[job'[w].order] = w /\ conversion[job'[w].order] = None,
           \A o \in Orders : orderLock'[o] = orderLock[o] \/ orderLock[o] \in W \cup {None},
           \A o \in Orders : delivery'[o].source = delivery[o].source \/ delivery[o].status = "none",
           \A o \in Orders : RowInv(o)',
           \A o \in ShopifyOrders : delivery'[o].status = "processed" /\ delivery[o].status # "processed"
                                    => Rewarded(o) \/ conversion[o] # None
    PROVE  OrderInv'
<1>1. \A v \in Workers : job[v].step # "idle" => job[v].order \in Orders
  BY DEF OrderInv, TypeOK, InboxTypeOK
<1>2. \A o \in Orders : Rewarded(o)' <=> Rewarded(o)
  BY DEF Rewarded, cashbackVars
<1>3. ASSUME NEW o \in ShopifyOrders, delivery[o].status = "none"
      PROVE  delivery[o].source = None /\ ~Rewarded(o) /\ conversion[o] = None
  BY <1>3 DEF OrderInv, RowInv, OneObligationPerOrder, ShopifyOrders
<1>4. ASSUME NEW v \in Workers \ W PROVE JobInv(v)'
  <2>1. CASE job[v].step = "idle" \/ job[v].order \notin ShopifyOrders
    BY <2>1, <1>1, <1>2 DEF OrderInv, JobInv, ShopifyOrders
  <2>2. CASE job[v].step # "idle" /\ job[v].order \in ShopifyOrders
    <3>1. delivery[job[v].order].source # None
      <4>1. JobInv(v) /\ None \notin Sources
        BY NoneIsNothing DEF OrderInv
      <4>. QED
        BY <2>2, <4>1 DEF JobInv
    <3>2. delivery[job[v].order].status # "none"
      BY <1>3, <2>2, <3>1
    <3>. QED
      BY <1>1, <1>2, <2>2, <3>2, JobKept DEF OrderInv
  <2>. QED
    BY <2>1, <2>2
<1>5. \A v \in Workers : JobInv(v)'
  BY <1>4
<1>6. OneRewardPerClaim' /\ ArchivedOwesNothing'
  BY <1>2 DEF OrderInv, OneRewardPerClaim, ArchivedOwesNothing, cashbackVars
<1>7. CreatorIsAlone'
  <2>. SUFFICES ASSUME NEW v \in Workers, job'[v].step = "create"
                PROVE  orderLock'[job'[v].order] = v /\ conversion'[job'[v].order] = None
    BY DEF CreatorIsAlone
  <2>1. CASE v \in W
    BY <2>1
  <2>2. CASE v \notin W
    <3>1. job'[v] = job[v] /\ job[v].order \in Orders /\ v # None
      BY <1>1, <2>2, IntakeAssumption
    <3>2. orderLock[job[v].order] = v /\ conversion[job[v].order] = None
      BY <3>1 DEF OrderInv, CreatorIsAlone
    <3>. QED
      BY <2>2, <3>1, <3>2
  <2>. QED
    BY <2>1, <2>2
<1>8. AckedIsStored'
  BY DEF OrderInv, AckedIsStored
<1>9. OneObligationPerOrder'
  <2>. SUFFICES ASSUME NEW o \in ShopifyOrders
                PROVE  /\ Rewarded(o)' => conversion'[o] = None /\ reward'[o].claim = delivery'[o].source
                       /\ conversion'[o] # None => conversion'[o] = delivery'[o].source
                       /\ delivery'[o].status = "processed" => Rewarded(o)' \/ conversion'[o] # None
    BY DEF OneObligationPerOrder, ShopifyOrders
  <2>1. o \in Orders
    BY DEF ShopifyOrders
  <2>. QED
    BY <1>2, <1>3, <2>1 DEF OrderInv, OneObligationPerOrder, cashbackVars
<1>. QED
  BY <1>5, <1>6, <1>7, <1>8, <1>9 DEF OrderInv

\* A worker that holds the order's lock, or finds it free, stores its click as the order's
\* conversion, or finds that very click stored, and responds.
LEMMA ConversionStep ==
    ASSUME OrderInv, TypeOK', NEW w \in Workers, NEW o \in Orders, NEW k \in Clicks,
           job[w].step # "idle", job[w].order = o, job[w].click = k,
           UNCHANGED <<cashbackVars, delivery>>,
           conversion[o] \in {None, k}, conversion'[o] = k,
           \A q \in Orders \ {o} : conversion'[q] = conversion[q],
           orderLock[o] \in {None, w},
           \A q \in Orders : orderLock'[q] = orderLock[q] \/ orderLock[q] = w,
           Respond(w)
    PROVE  OrderInv'
<1>1. k # None /\ k \notin Claims
  BY IntakeAssumption
<1>2. /\ \A v \in Workers \ {w} : job'[v] = job[v]
      /\ \/ job'[w] = Idle
         \/ /\ o \in ShopifyOrders
            /\ \E s \in {"processed", "failed"} : job'[w] = [job[w] EXCEPT !.step = s]
      /\ acked' \subseteq acked \cup {<<o, k>>}
  BY DEF Respond, Answer, Fail, IsApi, EndJob, GoTo, ShopifyOrders, OrderInv, TypeOK, InboxTypeOK
<1>3. \A v \in Workers : job[v].step # "idle" => job[v].order \in Orders
  BY DEF OrderInv, TypeOK, InboxTypeOK
<1>4. \A q \in Orders : Rewarded(q)' <=> Rewarded(q)
  BY DEF Rewarded, cashbackVars
<1>5. \A q \in Orders : conversion[q] # None => conversion'[q] = conversion[q]
  BY <1>1
<1>6. \A q \in Orders : RowInv(q)'
  BY <1>4 DEF OrderInv, RowInv, cashbackVars
<1>7. ASSUME NEW v \in Workers \ {w} PROVE JobInv(v)'
  BY <1>2, <1>3, <1>4, <1>5, JobKept DEF OrderInv
<1>8. JobInv(w)'
  <2>1. CASE job'[w] = Idle
    BY <2>1 DEF JobInv, Idle
  <2>2. ASSUME NEW s \in {"processed", "failed"}, o \in ShopifyOrders,
               job'[w] = [job[w] EXCEPT !.step = s]
        PROVE  JobInv(w)'
    <3>1. job[w] \in [step : Steps, order : Orders \cup {None}, click : Sources \cup {None}]
      BY DEF OrderInv, TypeOK, InboxTypeOK
    <3>2. job'[w].step = s /\ job'[w].order = o /\ job'[w].click = k
      BY <2>2, <3>1
    <3>3. k = delivery[o].source /\ k \in Sources
      BY <2>2 DEF OrderInv, JobInv
    <3>. QED
      BY <1>1, <2>2, <3>2, <3>3 DEF JobInv
  <2>. QED
    BY <1>2, <2>1, <2>2
<1>9. OneRewardPerClaim' /\ ArchivedOwesNothing'
  BY <1>4 DEF OrderInv, OneRewardPerClaim, ArchivedOwesNothing, cashbackVars
<1>10. CreatorIsAlone'
  <2>. SUFFICES ASSUME NEW v \in Workers, job'[v].step = "create"
                PROVE  orderLock'[job'[v].order] = v /\ conversion'[job'[v].order] = None
    BY DEF CreatorIsAlone
  <2>1. job'[w].step # "create"
    BY <1>2 DEF Idle, OrderInv, TypeOK, InboxTypeOK
  <2>2. v # w /\ job'[v] = job[v] /\ job[v].order \in Orders
    BY <1>2, <1>3, <2>1
  <2>3. orderLock[job[v].order] = v /\ conversion[job[v].order] = None
    BY <2>2 DEF OrderInv, CreatorIsAlone
  <2>4. job[v].order # o
    BY <2>2, <2>3, IntakeAssumption
  <2>. QED
    BY <2>2, <2>3, <2>4
<1>11. AckedIsStored'
  <2>. SUFFICES ASSUME NEW a \in acked' PROVE conversion'[a[1]] = a[2]
    BY DEF AckedIsStored
  <2>1. CASE a \in acked
    <3>1. a[1] \in Orders /\ a[2] \in Clicks
      BY <2>1 DEF OrderInv, TypeOK, InboxTypeOK
    <3>2. conversion[a[1]] = a[2] /\ a[2] # None
      BY <2>1, <3>1, IntakeAssumption DEF OrderInv, AckedIsStored
    <3>. QED
      BY <1>5, <3>1, <3>2
  <2>2. CASE a = <<o, k>>
    BY <2>2
  <2>. QED
    BY <1>2, <2>1, <2>2
<1>12. OneObligationPerOrder'
  <2>. SUFFICES ASSUME NEW q \in ShopifyOrders
                PROVE  /\ Rewarded(q)' => conversion'[q] = None /\ reward'[q].claim = delivery'[q].source
                       /\ conversion'[q] # None => conversion'[q] = delivery'[q].source
                       /\ delivery'[q].status = "processed" => Rewarded(q)' \/ conversion'[q] # None
    BY DEF OneObligationPerOrder, ShopifyOrders
  <2>1. q \in Orders
    BY DEF ShopifyOrders
  <2>2. CASE q # o
    BY <1>4, <2>1, <2>2 DEF OrderInv, OneObligationPerOrder, cashbackVars
  <2>3. CASE q = o
    <3>1. k = delivery[o].source
      BY <2>3 DEF OrderInv, JobInv
    <3>2. Rewarded(o) => reward[o].claim \in Claims /\ reward[o].claim = delivery[o].source
      BY <2>3 DEF OrderInv, OneObligationPerOrder, RowInv, TypeOK, CashbackTypeOK, RewardRow
    <3>. QED
      BY <1>1, <1>4, <2>3, <3>1, <3>2
  <2>. QED
    BY <2>2, <2>3
<1>. QED
  BY <1>6, <1>7, <1>8, <1>9, <1>10, <1>11, <1>12 DEF OrderInv

\* The claim is consumed and the order rewarded in one transaction, and the claim is the
\* one the delivery was stored with.
LEMMA FundStep ==
    ASSUME OrderInv, TypeOK', NEW w \in Workers, FundReward(w), ~Rewarded(job[w].order)
    PROVE  OrderInv'
<1>1. PICK o \in Orders, c \in Claims :
        /\ o = job[w].order /\ c = job[w].click
        /\ o \in ShopifyOrders /\ c = delivery[o].source
        /\ job[w] \in [step : Steps, order : Orders \cup {None}, click : Sources \cup {None}]
  BY DEF OrderInv, JobInv, FundReward, ShopifyOrders, TypeOK, InboxTypeOK
<1>2. PICK total \in Totals : CreateReward(o, c, total)
  BY <1>1 DEF FundReward
<1>3. /\ ~Rewarded(o) /\ Fundable(c) /\ ~cashbackArchived
      /\ claim' = [claim EXCEPT ![c].consumedBy = o]
      /\ reward' = [reward EXCEPT ![o] = [status |-> "pending", claim |-> c,
                                          sats |-> RewardSats(total), hash |-> None]]
      /\ UNCHANGED cashbackArchived
  BY <1>2 DEF CreateReward
<1>4. UNCHANGED inboxVars /\ job' = [job EXCEPT ![w].step = "processed"]
  BY DEF FundReward, GoTo
<1>5. /\ Rewarded(o)' /\ reward'[o].claim = c /\ reward'[o].status = "pending"
      /\ \A q \in Orders \ {o} : reward'[q] = reward[q] /\ (Rewarded(q)' <=> Rewarded(q))
  <2>1. reward \in [Orders -> RewardRow]
    BY DEF OrderInv, TypeOK, CashbackTypeOK
  <2>2. reward'[o] = [status |-> "pending", claim |-> c, sats |-> RewardSats(total), hash |-> None]
    BY <1>1, <1>3, <2>1
  <2>3. \A q \in Orders \ {o} : reward'[q] = reward[q]
    BY <1>1, <1>3, <2>1
  <2>4. reward'[o].status = "pending" /\ reward'[o].claim = c
    BY <2>2
  <2>. QED
    BY <2>3, <2>4 DEF Rewarded
<1>6. /\ claim'[c].consumedBy = o
      /\ \A d \in Claims \ {c} : claim'[d] = claim[d]
  BY <1>1, <1>3 DEF OrderInv, TypeOK, CashbackTypeOK, ClaimRow
<1>7. claim[c].consumedBy = None
  BY <1>3 DEF Fundable
<1>8. conversion[o] = None
  <2>1. conversion[o] # None => conversion[o] = c /\ conversion[o] \in Clicks
    BY <1>1 DEF OrderInv, OneObligationPerOrder, TypeOK, InboxTypeOK
  <2>. QED
    BY <2>1, NoneIsNothing
<1>9. \A q \in Orders : RowInv(q)'
  <2>1. ASSUME NEW q \in Orders, q # o PROVE RowInv(q)'
    BY <1>4, <1>5, <2>1 DEF OrderInv, RowInv, inboxVars
  <2>2. RowInv(o)'
    BY <1>1, <1>4, <1>5, NoneIsNothing DEF OrderInv, RowInv, inboxVars
  <2>. QED
    BY <2>1, <2>2
<1>10. ASSUME NEW v \in Workers \ {w} PROVE JobInv(v)'
  <2>1. job'[v] = job[v] /\ (job[v].step # "idle" => job[v].order \in Orders)
    BY <1>4 DEF OrderInv, TypeOK, InboxTypeOK
  <2>. QED
    BY <1>4, <1>5, <2>1, JobKept DEF OrderInv, inboxVars
<1>11. JobInv(w)'
  <2>1. job'[w].step = "processed" /\ job'[w].order = o /\ job'[w].click = c
    BY <1>1, <1>4 DEF OrderInv, TypeOK, InboxTypeOK
  <2>. QED
    BY <1>1, <1>4, <1>5, <2>1 DEF JobInv, inboxVars, Sources
<1>12. OneRewardPerClaim'
  <2>1. ASSUME NEW q \in Orders, Rewarded(q)' PROVE claim'[reward'[q].claim].consumedBy = q
    <3>1. CASE q = o
      BY <1>5, <1>6, <3>1
    <3>2. CASE q # o
      <4>1. Rewarded(q) /\ reward'[q] = reward[q]
        BY <1>5, <2>1, <3>2
      <4>2. claim[reward[q].claim].consumedBy = q /\ reward[q].claim \in Claims
        BY <4>1 DEF OrderInv, OneRewardPerClaim, RowInv, TypeOK, CashbackTypeOK, RewardRow
      <4>3. reward[q].claim # c
        BY <1>7, <4>2, CashbackAssumption
      <4>. QED
        BY <1>6, <4>1, <4>2, <4>3
    <3>. QED
      BY <3>1, <3>2
  <2>2. ASSUME NEW d \in Claims, claim'[d].consumedBy # None
        PROVE  reward'[claim'[d].consumedBy].claim = d
    <3>1. CASE d = c
      BY <1>5, <1>6, <3>1
    <3>2. CASE d # c
      <4>1. PICK q \in Orders : claim[d].consumedBy = q /\ claim'[d].consumedBy = q
        <5>1. claim[d].consumedBy \in Orders \cup {None}
          BY DEF OrderInv, TypeOK, CashbackTypeOK, ClaimRow
        <5>. QED
          BY <1>6, <2>2, <3>2, <5>1
      <4>2. reward[q].claim = d
        BY <4>1, NoneIsNothing DEF OrderInv, OneRewardPerClaim
      <4>3. q # o
        <5>1. reward[o].claim = None
          BY <1>3 DEF OrderInv, RowInv
        <5>2. d # None
          BY CashbackAssumption
        <5>. QED
          BY <4>2, <5>1, <5>2
      <4>. QED
        BY <1>5, <4>1, <4>2, <4>3
    <3>. QED
      BY <3>1, <3>2
  <2>. QED
    BY <2>1, <2>2 DEF OneRewardPerClaim
<1>13. ArchivedOwesNothing'
  BY <1>3 DEF ArchivedOwesNothing
<1>14. CreatorIsAlone' /\ AckedIsStored'
  BY <1>4 DEF OrderInv, CreatorIsAlone, AckedIsStored, inboxVars, TypeOK, InboxTypeOK
<1>15. OneObligationPerOrder'
  <2>. SUFFICES ASSUME NEW q \in ShopifyOrders
                PROVE  /\ Rewarded(q)' => conversion'[q] = None /\ reward'[q].claim = delivery'[q].source
                       /\ conversion'[q] # None => conversion'[q] = delivery'[q].source
                       /\ delivery'[q].status = "processed" => Rewarded(q)' \/ conversion'[q] # None
    BY DEF OneObligationPerOrder, ShopifyOrders
  <2>1. q \in Orders
    BY DEF ShopifyOrders
  <2>2. CASE q = o
    BY <1>1, <1>4, <1>5, <1>8, <2>2 DEF inboxVars
  <2>3. CASE q # o
    BY <1>4, <1>5, <2>1, <2>3 DEF OrderInv, OneObligationPerOrder, inboxVars
  <2>. QED
    BY <2>2, <2>3
<1>. QED
  BY <1>9, <1>10, <1>11, <1>12, <1>13, <1>14, <1>15 DEF OrderInv

\* InboxStep for the worker w that moves.
LEMMA MoveStep ==
    ASSUME OrderInv, TypeOK', NEW w \in Workers,
           UNCHANGED <<cashbackVars, conversion, acked>>,
           \A v \in Workers \ {w} : job'[v] = job[v],
           JobInv(w)',
           job'[w].step = "create" =>
              orderLock'[job'[w].order] = w /\ conversion[job'[w].order] = None,
           \A o \in Orders : orderLock'[o] = orderLock[o] \/ orderLock[o] \in {w, None},
           \A o \in Orders : delivery'[o].source = delivery[o].source \/ delivery[o].status = "none",
           \A o \in Orders : RowInv(o)',
           \A o \in ShopifyOrders : delivery'[o].status = "processed" /\ delivery[o].status # "processed"
                                    => Rewarded(o) \/ conversion[o] # None
    PROVE  OrderInv'
<1>1. {w} \in SUBSET Workers
  OBVIOUS
<1>2. \A v \in {w} : JobInv(v)'
  OBVIOUS
<1>3. \A v \in {w} : job'[v].step = "create" =>
         orderLock'[job'[v].order] = v /\ conversion[job'[v].order] = None
  OBVIOUS
<1>4. \A o \in Orders : orderLock'[o] = orderLock[o] \/ orderLock[o] \in {w} \cup {None}
  OBVIOUS
<1>. QED
  BY <1>1, <1>2, <1>3, <1>4, InboxStep

\* InboxStep when no worker moves.
LEMMA IdleStep ==
    ASSUME OrderInv, TypeOK', UNCHANGED <<cashbackVars, conversion, acked, orderLock, job>>,
           \A o \in Orders : delivery'[o].source = delivery[o].source,
           \A o \in Orders : RowInv(o)',
           \A o \in ShopifyOrders : delivery'[o].status = delivery[o].status
    PROVE  OrderInv'
<1>. DEFINE W == {}
<1>1. W \in SUBSET Workers /\ \A w \in W : FALSE
  OBVIOUS
<1>2. /\ UNCHANGED <<cashbackVars, conversion, acked>>
      /\ \A v \in Workers \ W : job'[v] = job[v]
      /\ \A w \in W : JobInv(w)'
      /\ \A w \in W : job'[w].step = "create" =>
            orderLock'[job'[w].order] = w /\ conversion[job'[w].order] = None
      /\ \A o \in Orders : orderLock'[o] = orderLock[o] \/ orderLock[o] \in W \cup {None}
  BY <1>1
<1>. HIDE DEF W
<1>3. \A o \in Orders : delivery'[o].source = delivery[o].source \/ delivery[o].status = "none"
  OBVIOUS
<1>4. \A o \in ShopifyOrders : delivery'[o].status = "processed" /\ delivery[o].status # "processed"
                               => Rewarded(o) \/ conversion[o] # None
  OBVIOUS
<1>. QED
  BY <1>1, <1>2, <1>3, <1>4, InboxStep

\* The rows keep their invariant when the deliveries do not change.
LEMMA RowsKept ==
    ASSUME OrderInv, UNCHANGED <<cashbackVars, delivery>>
    PROVE  \A o \in Orders : RowInv(o)'
BY DEF OrderInv, RowInv, Rewarded, cashbackVars

Restamped(f, g, o, s) == g = [f EXCEPT ![o].status = s, ![o].stale = FALSE]

LEMMA StatusRow ==
    ASSUME NEW f \in [Orders -> [status : DeliveryStatuses, source : Sources \cup {None}, stale : BOOLEAN]],
           NEW g, NEW o \in Orders, NEW s, Restamped(f, g, o, s)
    PROVE  /\ g[o].status = s /\ g[o].source = f[o].source
           /\ \A q \in Orders \ {o} : g[q] = f[q]
<1>1. g[o] = [f[o] EXCEPT !.status = s, !.stale = FALSE]
  BY DEF Restamped
<1>2. f[o] \in [status : DeliveryStatuses, source : Sources \cup {None}, stale : BOOLEAN]
  OBVIOUS
<1>3. g[o].status = s /\ g[o].source = f[o].source
  BY SMTT(30), <1>1, <1>2
<1>. QED
  BY <1>3 DEF Restamped

\* A worker of the background task writes the status of its delivery.
LEMMA StatusStep ==
    ASSUME OrderInv, TypeOK', NEW w \in Workers, NEW o \in Orders, o = job[w].order,
           NEW s \in {"pending", "processing", "processed", "failed"},
           NEW t \in {"claim", "dispatch"},
           job[w].step \notin {"idle", "lookup", "create"},
           delivery' = [delivery EXCEPT ![o].status = s, ![o].stale = FALSE],
           s = "processed" => job[w].step = "processed",
           UNCHANGED <<cashbackVars, conversion, acked, orderLock>>,
           EndJob(w) \/ GoTo(w, t)
    PROVE  OrderInv'
<1>1. /\ o \in ShopifyOrders /\ job[w].click \in Sources /\ job[w].click = delivery[o].source
      /\ job[w].step = "processed" => Rewarded(o) \/ conversion[o] # None
  BY DEF OrderInv, JobInv
<1>2. /\ delivery \in [Orders -> [status : DeliveryStatuses, source : Sources \cup {None}, stale : BOOLEAN]]
      /\ job \in [Workers -> [step : Steps, order : Orders \cup {None}, click : Sources \cup {None}]]
  BY DEF OrderInv, TypeOK, InboxTypeOK
<1>3. /\ delivery'[o].status = s /\ delivery'[o].source = delivery[o].source
      /\ \A q \in Orders \ {o} : delivery'[q] = delivery[q]
  <2>1. Restamped(delivery, delivery', o, s)
    BY DEF Restamped
  <2>. QED
    BY <1>2, <2>1, StatusRow
<1>4. delivery[o].source # None
  BY <1>1, NoneIsNothing
<1>5. \A q \in Orders : RowInv(q)'
  BY <1>3, <1>4 DEF OrderInv, RowInv, Rewarded, cashbackVars
<1>6. \A v \in Workers \ {w} : job'[v] = job[v]
  BY <1>2 DEF EndJob, GoTo
<1>7. JobInv(w)' /\ job'[w].step # "create"
  <2>1. CASE EndJob(w)
    BY <1>2, <2>1 DEF EndJob, Idle, JobInv
  <2>2. CASE GoTo(w, t)
    <3>1. job'[w].step = t /\ job'[w].order = o /\ job'[w].click = job[w].click
      BY <1>2, <2>2 DEF GoTo
    <3>. QED
      BY <1>1, <1>3, <3>1 DEF JobInv
  <2>. QED
    BY <2>1, <2>2
<1>8. \A q \in ShopifyOrders : delivery'[q].status = "processed" /\ delivery[q].status # "processed"
                               => Rewarded(q) \/ conversion[q] # None
  BY <1>1, <1>3 DEF ShopifyOrders
<1>. QED
  BY <1>3, <1>5, <1>6, <1>7, <1>8, MoveStep

LEMMA NextOrder == OrderInv /\ [Next]_vars => OrderInv'
<1>. SUFFICES ASSUME OrderInv, [Next]_vars PROVE OrderInv'
  OBVIOUS
<1>1. TypeOK'
  BY NextType DEF OrderInv
<1>2. TypeOK /\ (\A o \in Orders : RowInv(o)) /\ \A w \in Workers : JobInv(w)
  BY DEF OrderInv
<1>3. \A w \in Workers : /\ job[w] \in [step : Steps, order : Orders \cup {None}, click : Sources \cup {None}]
                         /\ job[w].step # "idle" => job[w].order \in Orders
  BY <1>2 DEF TypeOK, InboxTypeOK
<1>5. ASSUME UNCHANGED <<cashbackVars, delivery>> PROVE \A q \in Orders : RowInv(q)'
  BY <1>2, <1>5 DEF RowInv, cashbackVars, Rewarded
<1>6. CASE UNCHANGED vars
  <2>1. UNCHANGED <<cashbackVars, delivery, conversion, acked, orderLock, job>>
    BY <1>6 DEF vars, inboxVars
  <2>2. \A o \in Orders : RowInv(o)'
    BY <1>5, <2>1
  <2>3. \A w \in Workers : JobInv(w)'
    BY <1>2, <2>1 DEF JobInv, cashbackVars, Rewarded
  <2>. QED
    BY <1>1, <2>1, <2>2, <2>3
    DEF OrderInv, OneRewardPerClaim, ArchivedOwesNothing, CreatorIsAlone, AckedIsStored,
        OneObligationPerOrder, cashbackVars, Rewarded
<1>7. CASE CashbackNext /\ UNCHANGED <<inboxVars, job, faults>>
  BY <1>1, <1>7, CashbackStep
<1>8. \A o \in ShopifyOrders : o \in Orders
  BY DEF ShopifyOrders
<1>9. ASSUME NEW o \in ShopifyOrders, ProcessingGetsStale(o) PROVE OrderInv'
  <2>1. \A q \in Orders : delivery'[q].status = delivery[q].status /\ delivery'[q].source = delivery[q].source
    BY <1>2, <1>9 DEF ProcessingGetsStale, TypeOK, InboxTypeOK
  <2>2. UNCHANGED <<cashbackVars, conversion, acked, orderLock, job>>
    BY <1>9 DEF ProcessingGetsStale
  <2>3. \A q \in Orders : RowInv(q)'
    BY <1>2, <2>1, <2>2 DEF RowInv, Rewarded, cashbackVars
  <2>. QED
    BY <1>1, <1>8, <2>1, <2>2, <2>3, IdleStep
<1>10. ASSUME NEW o \in ApiOrders, NEW k \in Clicks, PublicConversion(o, k) PROVE OrderInv'
  <2>1. UNCHANGED <<cashbackVars, delivery, conversion, acked, orderLock, job>>
    BY <1>10 DEF PublicConversion
  <2>. QED
    BY <1>1, <1>8, <2>1, RowsKept, IdleStep
<1>11. ASSUME NEW w \in Workers, StartRequest(w) PROVE OrderInv'
  <2>1. ASSUME NEW o \in ShopifyOrders, NEW k \in Sources, ReceiveOrder(w, o, k) PROVE OrderInv'
    <3>1. UNCHANGED <<cashbackVars, conversion, acked, orderLock>> /\ o \in Orders
      BY <1>8, <2>1 DEF ReceiveOrder
    <3>2. /\ delivery[o].status = "none"
          /\ delivery'[o].status = "pending" /\ delivery'[o].source = k
          /\ \A q \in Orders \ {o} : delivery'[q] = delivery[q]
      BY <1>2, <2>1, <3>1 DEF ReceiveOrder, TypeOK, InboxTypeOK
    <3>3. k # None
      BY IntakeAssumption, CashbackAssumption DEF Sources
    <3>4. \A q \in Orders : RowInv(q)'
      BY <1>2, <3>1, <3>2, <3>3 DEF RowInv, Rewarded, cashbackVars
    <3>5. job'[w] = [step |-> "claim", order |-> o, click |-> k] /\ \A v \in Workers \ {w} : job'[v] = job[v]
      BY <1>2, <2>1 DEF ReceiveOrder, StartJob, TypeOK, InboxTypeOK
    <3>6. JobInv(w)' /\ job'[w].step # "create"
      BY <3>2, <3>5 DEF JobInv
    <3>. QED
      BY <1>1, <1>8, <3>1, <3>2, <3>4, <3>5, <3>6, MoveStep
  <2>2. ASSUME NEW o \in ShopifyOrders, NEW k \in Sources, RedeliverOrder(w, o, k) PROVE OrderInv'
    <3>1. UNCHANGED <<cashbackVars, delivery, conversion, acked, orderLock>> /\ delivery[o].source = k
      BY <2>2 DEF RedeliverOrder, inboxVars
    <3>2. job'[w] = [step |-> "reset", order |-> o, click |-> k] /\ \A v \in Workers \ {w} : job'[v] = job[v]
      BY <1>2, <2>2 DEF RedeliverOrder, StartJob, TypeOK, InboxTypeOK
    <3>3. JobInv(w)' /\ job'[w].step # "create"
      BY <3>1, <3>2 DEF JobInv
    <3>. QED
      BY <1>1, <1>8, <3>1, <3>2, <3>3, RowsKept, MoveStep
  <2>3. ASSUME NEW o \in ApiOrders, NEW k \in Clicks, MerchantConversion(w, o, k) PROVE OrderInv'
    <3>1. UNCHANGED <<cashbackVars, delivery, conversion, acked, orderLock>> /\ o \notin ShopifyOrders
      BY <2>3 DEF MerchantConversion, inboxVars, ShopifyOrders
    <3>2. job'[w] = [step |-> "lookup", order |-> o, click |-> k] /\ \A v \in Workers \ {w} : job'[v] = job[v]
      BY <1>2, <2>3 DEF MerchantConversion, StartJob, TypeOK, InboxTypeOK
    <3>3. JobInv(w)' /\ job'[w].step # "create"
      BY <3>1, <3>2 DEF JobInv, Sources
    <3>. QED
      BY <1>1, <1>8, <3>1, <3>2, <3>3, RowsKept, MoveStep
  <2>. QED
    BY <1>11, <2>1, <2>2, <2>3 DEF StartRequest
<1>12. ASSUME NEW w \in Workers, ResetDelivery(w) PROVE OrderInv'
  BY <1>1, <1>3, <1>12, StatusStep DEF ResetDelivery
<1>13. ASSUME NEW w \in Workers, ClaimDelivery(w) PROVE OrderInv'
  BY <1>1, <1>3, <1>13, StatusStep DEF ClaimDelivery
<1>14. ASSUME NEW w \in Workers, MarkProcessed(w) PROVE OrderInv'
  BY <1>1, <1>3, <1>14, StatusStep DEF MarkProcessed
<1>15. ASSUME NEW w \in Workers, MarkFailed(w) PROVE OrderInv'
  BY <1>1, <1>3, <1>15, StatusStep DEF MarkFailed
<1>16. ASSUME NEW w \in Workers, NEW s \in Steps, job[w].step # "idle", GoTo(w, s)
       PROVE  /\ job'[w].step = s /\ job'[w].order = job[w].order /\ job'[w].click = job[w].click
              /\ \A v \in Workers \ {w} : job'[v] = job[v]
  BY <1>2, <1>16 DEF GoTo, TypeOK, InboxTypeOK
<1>17. ASSUME NEW w \in Workers, EndJob(w)
       PROVE  /\ JobInv(w)' /\ job'[w].step = "idle"
              /\ \A v \in Workers \ {w} : job'[v] = job[v]
  BY <1>2, <1>17 DEF EndJob, Idle, JobInv, TypeOK, InboxTypeOK
<1>18. ASSUME NEW w \in Workers, ClaimDeliveryRefused(w) PROVE OrderInv'
  <2>1. UNCHANGED <<cashbackVars, delivery, conversion, acked, orderLock>> /\ EndJob(w)
    BY <1>18 DEF ClaimDeliveryRefused, inboxVars
  <2>. QED
    BY <1>1, <1>8, <1>17, <2>1, RowsKept, MoveStep
<1>19. ASSUME NEW w \in Workers, Dispatch(w) PROVE OrderInv'
  <2>1. UNCHANGED <<cashbackVars, delivery, conversion, acked, orderLock>> /\ job[w].step = "dispatch"
    BY <1>19 DEF Dispatch, inboxVars
  <2>2. PICK s \in {"reward", "lookup"} :
          GoTo(w, s) /\ (s = "reward" => delivery[job[w].order].source \in Claims)
    BY <1>19 DEF Dispatch
  <2>3. /\ job'[w].step = s /\ job'[w].order = job[w].order /\ job'[w].click = job[w].click
        /\ \A v \in Workers \ {w} : job'[v] = job[v]
    BY <1>16, <2>1, <2>2 DEF Steps
  <2>4. JobInv(w)' /\ job'[w].step # "create"
    BY <1>2, <2>1, <2>2, <2>3 DEF JobInv
  <2>. QED
    BY <1>1, <1>8, <2>1, <2>3, <2>4, RowsKept, MoveStep
<1>20. ASSUME NEW w \in Workers, FundReward(w) PROVE OrderInv'
  <2>1. CASE Rewarded(job[w].order)
    <3>1. UNCHANGED <<cashbackVars, delivery, conversion, acked, orderLock>> /\ job[w].step = "reward"
      BY <1>20, <2>1 DEF FundReward, CreateReward, inboxVars
    <3>2. /\ job'[w].step = "processed" /\ job'[w].order = job[w].order /\ job'[w].click = job[w].click
          /\ \A v \in Workers \ {w} : job'[v] = job[v]
      BY <1>16, <1>20, <3>1 DEF FundReward, Steps
    <3>3. Rewarded(job[w].order)'
      BY <2>1, <3>1, <3>2 DEF Rewarded, cashbackVars
    <3>4. JobInv(w)'
      BY <1>2, <3>1, <3>2, <3>3 DEF JobInv
    <3>. QED
      BY <1>1, <1>8, <3>1, <3>2, <3>4, RowsKept, MoveStep
  <2>2. CASE ~Rewarded(job[w].order)
    BY <1>1, <1>20, <2>2, FundStep
  <2>. QED
    BY <2>1, <2>2
<1>21. ASSUME NEW w \in Workers, AnswerDuplicate(w) PROVE OrderInv'
  <2>1. PICK o \in Orders, k \in Clicks : o = job[w].order /\ k = job[w].click
    BY <1>2, <1>3, <1>21, FoundClick DEF AnswerDuplicate
  <2>2. /\ UNCHANGED <<cashbackVars, delivery, orderLock>> /\ job[w].step # "idle"
        /\ orderLock[o] = None /\ FoundConversion(o, k) /\ Respond(w)
    BY <1>21, <2>1 DEF AnswerDuplicate
  <2>3. /\ conversion[o] \in {None, k} /\ conversion'[o] = k
        /\ \A q \in Orders \ {o} : conversion'[q] = conversion[q]
    BY <1>2, <2>2 DEF FoundConversion, TypeOK, InboxTypeOK
  <2>. QED
    BY <1>1, <2>1, <2>2, <2>3, ConversionStep
<1>22. ASSUME NEW w \in Workers, NEW q \in Orders
       PROVE  Released(w)[q] = orderLock[q] \/ orderLock[q] = w
  BY DEF Released
<1>23. ASSUME NEW w \in Workers, CreateConversion(w) PROVE OrderInv'
  <2>1. PICK o \in Orders, k \in Clicks : o = job[w].order /\ k = job[w].click
    BY <1>3, <1>23 DEF CreateConversion
  <2>2. /\ UNCHANGED <<cashbackVars, delivery>> /\ job[w].step = "create"
        /\ orderLock' = Released(w) /\ conversion' = [conversion EXCEPT ![o] = k] /\ Respond(w)
    BY <1>23, <2>1 DEF CreateConversion
  <2>3. orderLock[o] = w /\ conversion[o] = None
    BY <2>1, <2>2 DEF OrderInv, CreatorIsAlone
  <2>4. conversion'[o] = k /\ \A q \in Orders \ {o} : conversion'[q] = conversion[q]
    BY <1>2, <2>2 DEF TypeOK, InboxTypeOK
  <2>. QED
    BY <1>1, <1>22, <2>1, <2>2, <2>3, <2>4, ConversionStep
<1>24. ASSUME NEW w \in Workers, LookUpNothing(w) PROVE OrderInv'
  <2>1. PICK o \in Orders : o = job[w].order
    BY <1>3, <1>24 DEF LookUpNothing
  <2>2. /\ UNCHANGED <<cashbackVars, delivery, conversion, acked>> /\ job[w].step = "lookup"
        /\ orderLock[o] = None /\ conversion[o] = None /\ orderLock' = [orderLock EXCEPT ![o] = w]
        /\ GoTo(w, "create")
    BY <1>24, <2>1 DEF LookUpNothing
  <2>3. /\ job'[w].step = "create" /\ job'[w].order = o /\ job'[w].click = job[w].click
        /\ \A v \in Workers \ {w} : job'[v] = job[v]
    BY <1>16, <2>1, <2>2 DEF Steps
  <2>4. orderLock'[o] = w /\ \A q \in Orders \ {o} : orderLock'[q] = orderLock[q]
    BY <1>2, <2>2 DEF TypeOK, InboxTypeOK
  <2>5. JobInv(w)'
    BY <1>2, <2>1, <2>2, <2>3 DEF JobInv
  <2>. QED
    BY <1>1, <1>8, <2>2, <2>3, <2>4, <2>5, RowsKept, MoveStep
<1>25. ASSUME NEW w \in Workers, ProcessingFails(w) \/ Crash(w) PROVE OrderInv'
  <2>1. /\ UNCHANGED <<cashbackVars, delivery, conversion, acked>> /\ job[w].step # "idle"
        /\ orderLock' = Released(w)
    BY <1>25 DEF ProcessingFails, Fail, Crash
  <2>2. CASE EndJob(w)
    BY <1>1, <1>8, <1>17, <1>22, <2>1, <2>2, RowsKept, MoveStep
  <2>3. CASE ~IsApi(w) /\ GoTo(w, "failed")
    <3>1. /\ job'[w].step = "failed" /\ job'[w].order = job[w].order /\ job'[w].click = job[w].click
          /\ \A v \in Workers \ {w} : job'[v] = job[v]
      BY <1>16, <2>1, <2>3 DEF Steps
    <3>2. job[w].order \in ShopifyOrders
      BY <1>3, <2>1, <2>3 DEF IsApi, ShopifyOrders
    <3>3. JobInv(w)'
      BY <1>2, <2>1, <3>1, <3>2 DEF JobInv
    <3>. QED
      BY <1>1, <1>8, <1>22, <2>1, <3>1, <3>3, RowsKept, MoveStep
  <2>. QED
    BY <1>25, <2>2, <2>3 DEF ProcessingFails, Fail, Crash
<1>. QED
  BY <1>6, <1>7, <1>9, <1>10, <1>11, <1>12, <1>13, <1>14, <1>15, <1>18, <1>19, <1>20, <1>21,
     <1>23, <1>24, <1>25
  DEF Next, WorkerStep

-----------------------------------------------------------------------------
(* What follows. *)

\* The orders' invariant holds in every reachable state: no crash, redelivery, stale takeover
\* or archive breaks any of its parts.
THEOREM OrderInductive == Spec => []OrderInv
<1>1. Init => OrderInv
  BY InitOrder
<1>2. OrderInv /\ [Next]_vars => OrderInv'
  BY NextOrder
<1>. QED
  BY <1>1, <1>2, PTL DEF Spec

\* Two rewards never share a claim (the check under the campaign's advisory lock).
THEOREM ClaimsFundOnce == Spec => []OneRewardPerClaim
<1>1. OrderInv => OneRewardPerClaim
  BY DEF OrderInv
<1>. QED
  BY <1>1, OrderInductive, PTL

\* An order funds the one obligation it was delivered with, and a delivery marked processed
\* has it (process_shopify_delivery and its redeliveries).
THEOREM OrdersFundOnce == Spec => []OneObligationPerOrder
<1>1. OrderInv => OneObligationPerOrder
  BY DEF OrderInv
<1>. QED
  BY <1>1, OrderInductive, PTL

\* merchant_conversion_lock makes look-up and creation one step.
THEOREM LockExcludes == Spec => []CreatorIsAlone
<1>1. OrderInv => CreatorIsAlone
  BY DEF OrderInv
<1>. QED
  BY <1>1, OrderInductive, PTL

\* What the merchant's API acknowledged stays stored (process_merchant_conversion).
THEOREM AnswersAreKept == Spec => []AckedIsStored
<1>1. OrderInv => AckedIsStored
  BY DEF OrderInv
<1>. QED
  BY <1>1, OrderInductive, PTL

\* apply_cashback_archive leaves nothing that is still owed, and nothing follows.
THEOREM ArchivesAreClean == Spec => []ArchivedOwesNothing
<1>1. OrderInv => ArchivedOwesNothing
  BY DEF OrderInv
<1>. QED
  BY <1>1, OrderInductive, PTL

\* What RewardsAreFinal says of a step.
KeepsFinal ==
    /\ \A o \in Orders : reward[o].status \in {"paid", "declined"} => reward'[o] = reward[o]
    /\ \A c \in Claims : claim[c].archived => claim'[c].consumedBy = claim[c].consumedBy

LEMMA CashbackFinal ==
    ASSUME CashbackTypeOK, CashbackNext
    PROVE  KeepsFinal
<1>1. \A c \in Claims : claim'[c].consumedBy = claim[c].consumedBy
  BY CashbackKeeps
<1>. DEFINE Final == \A o \in Orders : reward[o].status \in {"paid", "declined"} => reward'[o] = reward[o]
<1>2. ASSUME NEW s \in {"active", "paused"}, SetCashbackStatus(s) PROVE Final
  BY <1>2 DEF SetCashbackStatus
<1>3. ASSUME NEW c \in Claims, CheckClaim(c) \/ InsertClaim(c) \/ ClaimAges(c) PROVE Final
  BY <1>3 DEF CheckClaim, InsertClaim, ClaimAges
<1>4. ASSUME NEW o \in Orders, NEW h \in PaymentHashes, MarkCashbackPaid(o, h) PROVE Final
  BY <1>4 DEF MarkCashbackPaid, CashbackTypeOK
<1>5. ASSUME NEW o \in Orders, DeclineCashbackReward(o) PROVE Final
  BY <1>5 DEF DeclineCashbackReward, CashbackTypeOK
<1>6. ASSUME CleanupExpiredClaims PROVE Final
  BY <1>6 DEF CleanupExpiredClaims
<1>7. ASSUME NEW S \in SUBSET Claims, ArchiveClaims(S) PROVE Final
  BY <1>7 DEF ArchiveClaims
<1>8. ASSUME ArchiveCampaign PROVE Final
  BY <1>8 DEF ArchiveCampaign
<1>9. Final
  BY <1>2, <1>3, <1>4, <1>5, <1>6, <1>7, <1>8 DEF CashbackNext
<1>. QED
  BY <1>1, <1>9 DEF KeepsFinal

\* Outside the campaign's own steps, only the funding of a reward touches the campaign.
LEMMA OnlyRewardsTouch ==
    ASSUME Next
    PROVE  CashbackNext \/ UNCHANGED cashbackVars \/ \E w \in Workers : FundReward(w)
<1>1. ASSUME NEW w \in Workers, StartRequest(w) \/ Crash(w) PROVE UNCHANGED cashbackVars
  BY SMTT(30), <1>1 DEF StartRequest, ReceiveOrder, RedeliverOrder, MerchantConversion, Crash
<1>2. ASSUME NEW w \in Workers, WorkerStep(w), ~FundReward(w) PROVE UNCHANGED cashbackVars
  BY <1>2 DEF WorkerStep, ResetDelivery, ClaimDelivery, ClaimDeliveryRefused, Dispatch, AnswerDuplicate,
              LookUpNothing, CreateConversion, ProcessingFails, MarkProcessed, MarkFailed
<1>3. (\E o \in ShopifyOrders : ProcessingGetsStale(o)) \/ (\E o \in ApiOrders, k \in Clicks : PublicConversion(o, k))
      => UNCHANGED cashbackVars
  BY DEF ProcessingGetsStale, PublicConversion
<1>. QED
  BY <1>1, <1>2, <1>3 DEF Next

LEMMA NextFinal ==
    ASSUME OrderInv, Next
    PROVE  KeepsFinal \/ UNCHANGED cashbackVars
<1>1. CashbackTypeOK /\ \A w \in Workers : JobInv(w)
  BY DEF OrderInv, TypeOK
<1>2. CASE CashbackNext
  BY <1>1, <1>2, CashbackFinal
<1>3. ASSUME NEW w \in Workers, FundReward(w) PROVE KeepsFinal \/ UNCHANGED cashbackVars
  <2>1. PICK o \in Orders, c \in Claims : o = job[w].order /\ c = job[w].click
    BY <1>1, <1>3 DEF FundReward, JobInv, OrderInv, TypeOK, InboxTypeOK
  <2>2. CASE UNCHANGED cashbackVars
    BY <2>2
  <2>3. ASSUME NEW total \in Totals, CreateReward(o, c, total) PROVE KeepsFinal
    <3>1. ~Rewarded(o) /\ ~claim[c].archived
      BY <2>3 DEF CreateReward, Fundable
    <3>2. \A q \in Orders \ {o} : reward'[q] = reward[q]
      BY <1>1, <2>3 DEF CreateReward, CashbackTypeOK
    <3>3. \A d \in Claims \ {c} : claim'[d] = claim[d]
      BY <1>1, <2>3 DEF CreateReward, CashbackTypeOK
    <3>. QED
      BY <3>1, <3>2, <3>3 DEF KeepsFinal, Rewarded
  <2>. QED
    BY <1>3, <2>1, <2>2, <2>3 DEF FundReward
<1>. QED
  BY <1>2, <1>3, OnlyRewardsTouch

\* Paid and declined rewards never change again and an archived claim is never consumed,
\* although merchant_mark_cashback_paid takes no lock.
THEOREM PaidAndDeclinedAreFinal == Spec => RewardsAreFinal
<1>1. OrderInv /\ [Next]_vars => [KeepsFinal]_cashbackVars
  BY NextFinal DEF vars
<1>. QED
  BY <1>1, OrderInductive, PTL DEF Spec, RewardsAreFinal, KeepsFinal

-----------------------------------------------------------------------------
(* The cashback budget.  Every step moves the committed counter by exactly  *)
(* what it changes of one reward, and so does the sum of the rewards.       *)

Due == [o \in Orders |-> IF reward[o].status \in {"pending", "paid"} THEN reward[o].sats ELSE 0]

DueIsNat == Due \in [Orders -> Nat]

WithinCashback == CashbackBudget # None => cashbackCommitted <= CashbackBudget

DueStays == cashbackCommitted' = cashbackCommitted /\ \A o \in Orders : Due'[o] = Due[o]

DueMoves(o) ==
    /\ cashbackCommitted' = cashbackCommitted + (Due'[o] - Due[o])
    /\ \A q \in Orders \ {o} : Due'[q] = Due[q]

LEMMA DueType == ASSUME CashbackTypeOK PROVE DueIsNat
<1>1. \A o \in Orders : reward[o].sats \in Nat
  BY DEF CashbackTypeOK, RewardRow
<1>. QED
  BY <1>1 DEF DueIsNat, Due

LEMMA CreateMovesDue ==
    ASSUME CashbackTypeOK, NEW o \in Orders, NEW c \in Claims, NEW total \in Totals,
           CreateReward(o, c, total)
    PROVE  DueMoves(o) /\ WithinCashback'
<1>1. /\ RewardSats(total) \in Nat /\ cashbackCommitted \in Nat
      /\ cashbackCommitted' = cashbackCommitted + RewardSats(total)
      /\ reward[o].status = "none" /\ Fits(RewardSats(total))
  BY RewardIsNat DEF CreateReward, CashbackTypeOK, Rewarded
<1>2. /\ reward'[o].status = "pending" /\ reward'[o].sats = RewardSats(total)
      /\ \A q \in Orders \ {o} : reward'[q] = reward[q]
  BY DEF CreateReward, CashbackTypeOK
<1>3. Due[o] = 0 /\ Due'[o] = RewardSats(total) /\ \A q \in Orders \ {o} : Due'[q] = Due[q]
  BY <1>1, <1>2 DEF Due
<1>. QED
  BY <1>1, <1>3 DEF DueMoves, WithinCashback, Fits

LEMMA DeclineMovesDue ==
    ASSUME CashbackTypeOK, WithinCashback, NEW o \in Orders, DeclineCashbackReward(o)
    PROVE  DueMoves(o) /\ WithinCashback'
<1>1. /\ reward[o].sats \in Nat /\ cashbackCommitted \in Nat
      /\ cashbackCommitted' = cashbackCommitted - reward[o].sats
      /\ reward[o].status = "pending" /\ cashbackCommitted >= reward[o].sats
  BY DEF DeclineCashbackReward, CashbackTypeOK, RewardRow
<1>2. /\ reward'[o].status = "declined"
      /\ \A q \in Orders \ {o} : reward'[q] = reward[q]
  BY DEF DeclineCashbackReward, CashbackTypeOK
<1>3. Due[o] = reward[o].sats /\ Due'[o] = 0 /\ \A q \in Orders \ {o} : Due'[q] = Due[q]
  BY <1>1, <1>2 DEF Due
<1>4. CashbackBudget # None => CashbackBudget \in Nat
  BY CashbackAssumption
<1>. QED
  BY <1>1, <1>3, <1>4 DEF DueMoves, WithinCashback

LEMMA CashbackMovesDue ==
    ASSUME CashbackTypeOK, WithinCashback, CashbackNext
    PROVE  (DueStays \/ \E o \in Orders : DueMoves(o)) /\ WithinCashback'
<1>1. CASE UNCHANGED <<cashbackCommitted, reward>>
  BY <1>1 DEF DueStays, Due, WithinCashback
<1>2. ASSUME NEW o \in Orders, NEW h \in PaymentHashes, MarkCashbackPaid(o, h)
      PROVE  DueStays /\ WithinCashback'
  <2>1. /\ reward[o].status = "pending" /\ reward'[o].status = "paid" /\ reward'[o].sats = reward[o].sats
        /\ \A q \in Orders \ {o} : reward'[q] = reward[q]
        /\ cashbackCommitted' = cashbackCommitted
    BY <1>2 DEF MarkCashbackPaid, CashbackTypeOK, RewardRow, campaignRow
  <2>. QED
    BY <2>1 DEF DueStays, Due, WithinCashback
<1>3. ASSUME NEW o \in Orders, DeclineCashbackReward(o) PROVE DueMoves(o) /\ WithinCashback'
  BY <1>3, DeclineMovesDue
<1>4. ASSUME \/ \E s \in {"active", "paused"} : SetCashbackStatus(s)
             \/ \E c \in Claims : CheckClaim(c) \/ InsertClaim(c) \/ ClaimAges(c)
             \/ CleanupExpiredClaims
             \/ \E S \in SUBSET Claims : ArchiveClaims(S)
             \/ ArchiveCampaign
      PROVE  UNCHANGED <<cashbackCommitted, reward>>
  BY <1>4 DEF SetCashbackStatus, CheckClaim, InsertClaim, ClaimAges, CleanupExpiredClaims, ArchiveClaims,
              ArchiveCampaign, campaignRow
<1>. QED
  BY <1>1, <1>2, <1>3, <1>4 DEF CashbackNext

LEMMA NextMovesDue ==
    ASSUME OrderInv, WithinCashback, [Next]_vars
    PROVE  (DueStays \/ \E o \in Orders : DueMoves(o)) /\ WithinCashback'
<1>1. CashbackTypeOK /\ \A w \in Workers : JobInv(w)
  BY DEF OrderInv, TypeOK
<1>2. CASE UNCHANGED cashbackVars
  BY <1>2 DEF cashbackVars, DueStays, Due, WithinCashback
<1>3. CASE CashbackNext
  BY <1>1, <1>3, CashbackMovesDue
<1>4. ASSUME NEW w \in Workers, FundReward(w), ~UNCHANGED cashbackVars
      PROVE  (\E o \in Orders : DueMoves(o)) /\ WithinCashback'
  <2>1. PICK o \in Orders, c \in Claims : o = job[w].order /\ c = job[w].click
    BY <1>1, <1>4 DEF FundReward, JobInv, OrderInv, TypeOK, InboxTypeOK
  <2>2. \E total \in Totals : CreateReward(o, c, total)
    BY <1>4, <2>1 DEF FundReward
  <2>. QED
    BY <1>1, <2>2, CreateMovesDue
<1>5. CASE UNCHANGED vars
  BY <1>2, <1>5 DEF vars
<1>6. CASE Next
  BY <1>2, <1>3, <1>4, <1>6, OnlyRewardsTouch
<1>. QED
  BY <1>5, <1>6

\* The sum of the invariant is one that SetSums speaks about.
SumsDue ==
    \E h : /\ Tabulates(h, Due, Orders)
           /\ CashbackBudgetIsExact <=> (cashbackCommitted = h[Orders] /\ WithinCashback)

LEMMA SumOfDue == ASSUME IsFiniteSet(Orders), CashbackTypeOK PROVE SumsDue
<1>. DEFINE Owed(o) == IF reward[o].status \in {"pending", "paid"} THEN reward[o].sats ELSE 0
            IsSum(h) == h = [s \in SUBSET Orders |-> IF s = {} THEN 0 ELSE Owed(Pick(s)) + h[Rest(s)]]
            sum == CHOOSE h : IsSum(h)
<1>1. Due \in [Orders -> Nat]
  BY DueType DEF DueIsNat
<1>2. ASSUME NEW h PROVE Adds(h, Due, Orders) <=> IsSum(h)
  <2>1. \A s \in SUBSET Orders : s # {} => Due[Pick(s)] = Owed(Pick(s))
    BY PickIsIn DEF Due
  <2>. QED
    BY <2>1 DEF Adds
<1>3. IsSum(sum)
  <2>1. \E h : IsSum(h)
    BY <1>1, <1>2, SumExists
  <2>. QED
    BY <2>1, Zenon
<1>4. CashbackBudgetIsExact <=> (cashbackCommitted = sum[Orders] /\ WithinCashback)
  BY Zenon DEF CashbackBudgetIsExact, WithinCashback, MapThenSumSet, MapThenFoldSet, Pick, Rest
<1>. HIDE DEF sum
<1>5. Tabulates(sum, Due, Orders)
  BY <1>1, <1>2, <1>3, SumIsTable
<1>. QED
  BY <1>4, <1>5 DEF SumsDue

\* The committed counter of a cashback campaign is exactly what its rewards that were not
\* declined are worth, and within the budget, for any finite set of orders: whatever
\* deliveries, attestations, declines and archives do, a decline always finds its sats.
THEOREM CashbackIsExact == ASSUME IsFiniteSet(Orders) PROVE Spec => []CashbackBudgetIsExact
<1>1. Init => CashbackBudgetIsExact
  <2>. SUFFICES ASSUME Init PROVE CashbackBudgetIsExact
    OBVIOUS
  <2>1. CashbackTypeOK /\ cashbackCommitted = 0 /\ WithinCashback
    BY InitType, CashbackAssumption DEF Init, CashbackInit, TypeOK, WithinCashback
  <2>2. \A o \in Orders : Due[o] = 0
    BY DEF Init, CashbackInit, Due
  <2>3. Due \in [Orders -> Nat]
    BY <2>1, DueType DEF DueIsNat
  <2>. QED
    BY <2>1, <2>2, <2>3, SumOfDue, SumOfZeros DEF SumsDue
<1>2. CashbackTypeOK => SumsDue /\ DueIsNat
  BY SumOfDue, DueType
<1>3. CashbackTypeOK' => SumsDue' /\ DueIsNat'
  BY <1>2, PTL
<1>4. OrderInv /\ OrderInv' /\ CashbackBudgetIsExact /\ [Next]_vars => CashbackBudgetIsExact'
  <2>. SUFFICES ASSUME OrderInv, OrderInv', CashbackBudgetIsExact, [Next]_vars
                PROVE  CashbackBudgetIsExact'
    OBVIOUS
  <2>. CashbackTypeOK /\ CashbackTypeOK'
    BY DEF OrderInv, TypeOK
  <2>1. PICK h : Tabulates(h, Due, Orders) /\ cashbackCommitted = h[Orders] /\ WithinCashback
    BY SumOfDue DEF SumsDue
  <2>2. PICK k : /\ Tabulates(k, Due', Orders)
                 /\ CashbackBudgetIsExact' <=> (cashbackCommitted' = k[Orders] /\ WithinCashback')
    BY <1>3 DEF SumsDue
  <2>3. Due \in [Orders -> Nat] /\ Due' \in [Orders -> Nat]
    BY <1>3, DueType DEF DueIsNat
  <2>. HIDE DEF Due
  <2>4. k[Orders] \in Nat /\ h[Orders] \in Nat
    BY <2>1, <2>2 DEF Tabulates
  <2>5. (DueStays \/ \E o \in Orders : DueMoves(o)) /\ WithinCashback'
    BY <2>1, NextMovesDue
  <2>6. CASE DueStays
    <3>1. Due' = Due
      BY <2>3, <2>6 DEF DueStays
    <3>2. k[Orders] = h[Orders]
      BY <2>1, <2>2, <3>1, TablesAgree
    <3>. QED
      BY <2>1, <2>2, <2>5, <2>6, <3>2 DEF DueStays
  <2>7. ASSUME NEW o \in Orders, DueMoves(o) PROVE CashbackBudgetIsExact'
    <3>1. k[Orders] + Due[o] = h[Orders] + Due'[o]
      BY <2>1, <2>2, <2>3, <2>7, SumMoves DEF DueMoves
    <3>2. Due[o] \in Nat /\ Due'[o] \in Nat
      BY <2>3
    <3>3. cashbackCommitted' = k[Orders]
      BY <2>1, <2>4, <2>7, <3>1, <3>2 DEF DueMoves
    <3>. QED
      BY <2>2, <2>5, <3>3
  <2>. QED
    BY <2>5, <2>6, <2>7
<1>. QED
  BY <1>1, <1>4, OrderInductive, PTL DEF Spec

=============================================================================

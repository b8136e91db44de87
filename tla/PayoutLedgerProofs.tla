------------------------- MODULE PayoutLedgerProofs -------------------------
(***************************************************************************)
(* Theorems about PayoutLedger for every value of its constants.           *)
(***************************************************************************)
EXTENDS PayoutLedger, TLAPS

-----------------------------------------------------------------------------
(* Lemmas about the helpers. *)

\* The fee charged on a commission is a natural number.
LEMMA FeeType == ASSUME NEW c \in Nat PROVE CalculateFeeSats(c) \in Nat
<1>1. FeeBps \in Nat /\ FeeMinSats \in Nat
  BY PayoutAssumption
<1>2. c * FeeBps \in Nat
  BY <1>1
<1>3. \A x \in Nat : x \div 10000 \in Nat
  OBVIOUS
<1>4. (c * FeeBps) \div 10000 \in Nat
  <2>. DEFINE x == c * FeeBps
  <2>1. x \in Nat
    BY <1>2
  <2>. HIDE DEF x
  <2>2. x \div 10000 \in Nat
    BY <2>1, <1>3
  <2>. QED
    BY <2>2 DEF x
<1>. QED
  BY <1>1, <1>4 DEF CalculateFeeSats, LargerOf

\* The hashes the handlers store are typed.
LEMMA HashType ==
    /\ NoHash \in Hashes
    /\ ManualHashes \subseteq Hashes
    /\ \A p \in Payouts, n \in AttemptNumbers : InvoiceHash(p, n) \in Hashes
BY DEF Hashes, InvoiceHash

LEMMA InitType == Init => TypeOK
<1>. SUFFICES ASSUME Init PROVE TypeOK
  OBVIOUS
<1>1. BudgetTypeOK
  BY BudgetAssumption DEF Init, BudgetInit, BudgetTypeOK
<1>2. RowTypeOK
  <2>1. NoPayout \in PayoutRow
    BY HashType DEF NoPayout, PayoutRow, PayoutStates, PayoutStatuses, Providers
  <2>. QED
    BY <2>1 DEF Init, RowTypeOK
<1>3. AttemptTypeOK
  <2>1. NoAttempt \in AttemptRow /\ "none" \in WalletStates /\ 0 \in 0..MaxAttempts
    BY HashType, PayoutAssumption DEF NoAttempt, AttemptRow, AttemptStatuses, Providers, WalletStates
  <2>. QED
    BY <2>1 DEF Init, AttemptTypeOK
<1>4. JobTypeOK
  <2>1. Idle \in Job /\ Idle.step = "idle" /\ 0 \in 0..MaxFaults
    BY HashType, PayoutAssumption DEF Idle, Job, Steps, Providers
  <2>. QED
    BY <2>1 DEF Init, JobTypeOK
<1>. QED
  BY <1>1, <1>2, <1>3, <1>4 DEF TypeOK

\* The budget movements keep the types of the counters and of the ledger.
LEMMA LedgerType ==
    ASSUME BudgetTypeOK, NEW p \in Payouts, NEW a \in Nat, NEW m \in Movements,
           RecordLedgerTransaction(p, m, a)
    PROVE  ledger' \in [Payouts -> [Movements -> Nat]]
BY DEF BudgetTypeOK, RecordLedgerTransaction

LEMMA ReserveType ==
    ASSUME BudgetTypeOK, NEW p \in Payouts, NEW a \in Nat, ReserveCampaignBudget(p, a)
    PROVE  BudgetTypeOK'
<1>1. ledger' \in [Payouts -> [Movements -> Nat]]
  <2>1. RecordLedgerTransaction(p, "reserve", a) /\ "reserve" \in Movements
    BY DEF ReserveCampaignBudget, Movements
  <2>. QED
    BY <2>1, LedgerType
<1>. QED
  BY <1>1 DEF BudgetTypeOK, ReserveCampaignBudget

LEMMA SettleType ==
    ASSUME BudgetTypeOK, NEW p \in Payouts, NEW a \in Nat, SettleCampaignBudget(p, a)
    PROVE  BudgetTypeOK'
<1>1. CASE UNCHANGED budgetVars
  BY <1>1 DEF BudgetTypeOK, budgetVars
<1>2. CASE ~UNCHANGED budgetVars
  <2>1. RecordLedgerTransaction(p, "commission_settled", a) /\ "commission_settled" \in Movements
    BY <1>2 DEF SettleCampaignBudget, Movements
  <2>2. ledger' \in [Payouts -> [Movements -> Nat]]
    BY <2>1, LedgerType
  <2>. QED
    BY <1>2, <2>2 DEF BudgetTypeOK, SettleCampaignBudget
<1>. QED
  BY <1>1, <1>2

LEMMA ReleaseType ==
    ASSUME BudgetTypeOK, NEW p \in Payouts, NEW a \in Nat, NEW m \in Releases,
           ReleaseCampaignBudget(p, a, m)
    PROVE  BudgetTypeOK'
<1>1. CASE UNCHANGED budgetVars
  BY <1>1 DEF BudgetTypeOK, budgetVars
<1>2. CASE ~UNCHANGED budgetVars
  <2>1. RecordLedgerTransaction(p, m, a) /\ m \in Movements
    BY <1>2 DEF ReleaseCampaignBudget, Movements
  <2>2. ledger' \in [Payouts -> [Movements -> Nat]]
    BY <2>1, LedgerType
  <2>. QED
    BY <1>2, <2>2 DEF BudgetTypeOK, ReleaseCampaignBudget
<1>. QED
  BY <1>1, <1>2

-----------------------------------------------------------------------------
(* Rows that the UPDATE statements produce are rows. *)

LEMMA PayableType == ASSUME NEW r \in PayoutRow PROVE PayableRow(r) \in PayoutRow
<1>1. r.amount + r.fee \in Nat
  BY DEF PayoutRow
<1>2. \A k \in Nat : [r EXCEPT !.status = "pending", !.state = "PAYABLE", !.reserved = k] \in PayoutRow
  BY DEF PayoutRow, PayoutStates, PayoutStatuses
<1>. QED
  BY <1>1, <1>2 DEF PayableRow

LEMMA HeldType == ASSUME NEW r \in PayoutRow PROVE HeldRow(r) \in PayoutRow
BY DEF PayoutRow, PayoutStates, PayoutStatuses, HeldRow

LEMMA CancelledType == ASSUME NEW r \in PayoutRow PROVE CancelledRow(r) \in PayoutRow
BY DEF PayoutRow, PayoutStates, PayoutStatuses, CancelledRow

LEMMA ClaimedType == ASSUME NEW r \in PayoutRow PROVE ClaimedRow(r) \in PayoutRow
<1>1. Rail \in Providers
  BY PayoutAssumption DEF Providers
<1>. QED
  BY <1>1 DEF PayoutRow, PayoutStates, PayoutStatuses, ClaimedRow

LEMMA FailedType == ASSUME NEW r \in PayoutRow PROVE FailedRow(r) \in PayoutRow
BY DEF PayoutRow, PayoutStates, PayoutStatuses, FailedRow

LEMMA SettledType ==
    ASSUME NEW r \in PayoutRow, NEW h \in Hashes, NEW q \in Providers
    PROVE  SettledRow(r, h, q) \in PayoutRow
BY DEF PayoutRow, PayoutStates, PayoutStatuses, SettledRow

\* The fields of a row that reserve, evidence and proof change.
LEMMA HashedType ==
    ASSUME NEW r \in PayoutRow, NEW h \in Hashes
    PROVE  [r EXCEPT !.hash = h] \in PayoutRow
BY DEF PayoutRow

LEMMA UnknownType ==
    ASSUME NEW r \in PayoutRow, NEW h \in Hashes
    PROVE  [r EXCEPT !.status = "payment_unknown", !.hash = IF h = NoHash THEN @ ELSE h] \in PayoutRow
BY DEF PayoutRow, PayoutStatuses

LEMMA ProvedType ==
    ASSUME NEW r \in PayoutRow, NEW h \in Hashes, NEW q \in Providers, NEW k \in Nat
    PROVE  [SettledRow(r, h, q) EXCEPT !.event = TRUE, !.reserved = k] \in PayoutRow
<1>1. SettledRow(r, h, q) \in PayoutRow
  BY SettledType
<1>2. \A y \in PayoutRow : [y EXCEPT !.event = TRUE, !.reserved = k] \in PayoutRow
  BY DEF PayoutRow
<1>. QED
  BY <1>1, <1>2

LEMMA AttemptRowType ==
    ASSUME NEW s \in AttemptStatuses, NEW q \in Providers, NEW h \in Hashes, NEW k \in Hashes,
           NEW r \in AttemptRow
    PROVE  /\ [r EXCEPT !.status = s] \in AttemptRow
           /\ [r EXCEPT !.hash = h] \in AttemptRow
           /\ [r EXCEPT !.ref = k] \in AttemptRow
           /\ [r EXCEPT !.status = s, !.hash = h, !.ref = k] \in AttemptRow
           /\ [NoAttempt EXCEPT !.status = s, !.rail = q] \in AttemptRow
           /\ [NoAttempt EXCEPT !.status = s, !.rail = q, !.hash = h] \in AttemptRow
BY HashType DEF AttemptRow, NoAttempt

-----------------------------------------------------------------------------
(* Steps of a job keep it a job. *)

LEMMA IdleType == Idle \in Job
<1>1. 0 \in 0..MaxAttempts
  BY PayoutAssumption
<1>. QED
  BY <1>1, HashType DEF Idle, Job, Steps, Providers

LEMMA EndJobType ==
    ASSUME JobTypeOK, NEW w \in Workers, EndJob(w), faults' \in 0..MaxFaults
    PROVE  JobTypeOK'
<1>1. Idle.step = "idle"
  BY DEF Idle
<1>. QED
  BY <1>1, IdleType DEF JobTypeOK, EndJob

LEMMA GoToType ==
    ASSUME JobTypeOK, NEW w \in Workers, NEW s \in Steps, GoTo(w, s), UNCHANGED faults,
           job[w].step # "idle",
           s \in {"prepare", "send", "await", "lookup"} => job[w].attempt > 0
    PROVE  JobTypeOK'
BY DEF JobTypeOK, GoTo, Job

LEMMA StartJobType ==
    ASSUME JobTypeOK, NEW w \in Workers, NEW p \in Payouts, StartJob(w, "claim", p), UNCHANGED faults
    PROVE  JobTypeOK'
<1>1. [Idle EXCEPT !.step = "claim", !.payout = p] \in Job
  BY IdleType DEF Job, Steps
<1>. QED
  BY <1>1 DEF JobTypeOK, StartJob, Idle

LEMMA ToFinalizeType ==
    ASSUME JobTypeOK, NEW w \in Workers, NEW p \in Payouts, NEW h \in Hashes, NEW q \in Providers,
           NEW b \in BOOLEAN, ToFinalize(w, p, h, q, b), UNCHANGED faults
    PROVE  JobTypeOK'
<1>1. [Idle EXCEPT !.step = "finalize", !.payout = p, !.hash = h, !.provider = q, !.reapply = b] \in Job
  BY IdleType DEF Job, Steps
<1>. QED
  BY <1>1 DEF JobTypeOK, ToFinalize, Idle

LEMMA AfterFinalizeType ==
    ASSUME JobTypeOK, NEW w \in Workers, AfterFinalize(w), UNCHANGED faults, job[w].step # "idle"
    PROVE  JobTypeOK'
<1>1. [job[w] EXCEPT !.step = "reapply"] \in Job
  BY DEF JobTypeOK, Job, Steps
<1>2. Idle.step = "idle"
  BY DEF Idle
<1>3. [job[w] EXCEPT !.step = "reapply"].step = "reapply"
      /\ [job[w] EXCEPT !.step = "reapply"].payout = job[w].payout
  BY DEF JobTypeOK, Job
<1>. QED
  BY <1>1, <1>2, <1>3, IdleType DEF JobTypeOK, AfterFinalize

\* What a busy worker's job refers to exists.
LEMMA JobFacts ==
    ASSUME TypeOK, NEW w \in Workers, job[w].step # "idle"
    PROVE  /\ job[w].payout \in Payouts
           /\ job[w].hash \in Hashes
           /\ job[w].provider \in Providers
           /\ job[w].reapply \in BOOLEAN
           /\ payout[job[w].payout] \in PayoutRow
           /\ lastAttempt[job[w].payout] \in 0..MaxAttempts
           /\ job[w].step \in {"prepare", "send", "await", "lookup"} =>
                /\ job[w].attempt \in AttemptNumbers
                /\ attempts[job[w].payout][job[w].attempt] \in AttemptRow
<1>1. job[w] \in Job /\ job[w].payout \in Payouts
  BY DEF TypeOK, JobTypeOK
<1>2. /\ job[w].hash \in Hashes
      /\ job[w].provider \in Providers
      /\ job[w].reapply \in BOOLEAN
      /\ job[w].attempt \in 0..MaxAttempts
  BY <1>1 DEF Job
<1>3. payout[job[w].payout] \in PayoutRow /\ lastAttempt[job[w].payout] \in 0..MaxAttempts
  BY <1>1 DEF TypeOK, RowTypeOK, AttemptTypeOK
<1>4. ASSUME job[w].step \in {"prepare", "send", "await", "lookup"}
      PROVE  /\ job[w].attempt \in AttemptNumbers
             /\ attempts[job[w].payout][job[w].attempt] \in AttemptRow
  <2>1. job[w].attempt > 0
    BY <1>4 DEF TypeOK, JobTypeOK
  <2>2. job[w].attempt \in AttemptNumbers
    BY <1>2, <2>1, PayoutAssumption DEF AttemptNumbers
  <2>. QED
    BY <1>1, <2>2 DEF TypeOK, AttemptTypeOK
<1>. QED
  BY <1>1, <1>2, <1>3, <1>4

LEMMA SetPayoutType ==
    ASSUME RowTypeOK, NEW p \in Payouts, NEW row \in PayoutRow, SetPayout(p, row),
           UNCHANGED <<campaignStatus, ready>>,
           conversion' \in [Payouts -> {"none", "approved", "reversed"}]
    PROVE  RowTypeOK'
BY DEF RowTypeOK, SetPayout

LEMMA SetAttemptType ==
    ASSUME AttemptTypeOK, NEW p \in Payouts, NEW n \in AttemptNumbers, NEW row \in AttemptRow,
           SetAttempt(p, n, row), UNCHANGED wallet, lastAttempt' \in [Payouts -> 0..MaxAttempts]
    PROVE  AttemptTypeOK'
BY DEF AttemptTypeOK, SetAttempt

\* A reversal keeps budget and rows typed.
LEMMA ReversalType ==
    ASSUME TypeOK, NEW p \in Payouts, ApplyReversalToPayout(p),
           UNCHANGED <<campaignStatus, ready>>,
           conversion' \in [Payouts -> {"none", "approved", "reversed"}]
    PROVE  BudgetTypeOK' /\ RowTypeOK'
<1>1. /\ BudgetTypeOK /\ RowTypeOK /\ payout[p] \in PayoutRow
  BY DEF TypeOK, RowTypeOK
<1>2. payout[p].reserved \in Nat
  BY <1>1 DEF PayoutRow
<1>3. CASE CancelUnpaid(p)
  <2>1. "reversal_release" \in Releases
    BY DEF Releases
  <2>2. BudgetTypeOK'
    BY <1>1, <1>2, <1>3, <2>1, ReleaseType DEF CancelUnpaid
  <2>3. RowTypeOK'
    BY <1>1, <1>3, CancelledType, SetPayoutType DEF CancelUnpaid
  <2>. QED
    BY <2>2, <2>3
<1>4. CASE CancelInFlight(p)
  <2>1. BudgetTypeOK'
    BY <1>1, <1>4 DEF CancelInFlight, BudgetTypeOK, budgetVars
  <2>2. [payout[p] EXCEPT !.state = "CANCEL_PENDING", !.feeState = "CANCELLED"] \in PayoutRow
    BY <1>1 DEF PayoutRow, PayoutStates
  <2>3. RowTypeOK'
    BY <1>1, <1>4, <2>2, SetPayoutType DEF CancelInFlight
  <2>. QED
    BY <2>1, <2>3
<1>5. CASE CancelFee(p)
  <2>1. "reversal_fee_release" \in Releases
    BY DEF Releases
  <2>2. BudgetTypeOK'
    BY <1>1, <1>2, <1>5, <2>1, ReleaseType DEF CancelFee
  <2>3. [payout[p] EXCEPT !.feeState = "CANCELLED", !.reserved = 0] \in PayoutRow
    BY <1>1 DEF PayoutRow
  <2>4. RowTypeOK'
    BY <1>1, <1>5, <2>3, SetPayoutType DEF CancelFee
  <2>. QED
    BY <2>2, <2>4
<1>6. CASE NothingToReverse(p)
  BY <1>1, <1>6 DEF NothingToReverse, BudgetTypeOK, RowTypeOK, budgetVars
<1>. QED
  BY <1>3, <1>4, <1>5, <1>6 DEF ApplyReversalToPayout

-----------------------------------------------------------------------------
(* Type correctness, one lemma per group of actions. *)

LEMMA AdminType == TypeOK /\ Admin => TypeOK'
<1>. SUFFICES ASSUME TypeOK, Admin PROVE TypeOK'
  OBVIOUS
<1>. USE DEF TypeOK
<1>1. ASSUME NEW b \in Budgets, UpdateCampaignBudget(b) PROVE TypeOK'
  <2>1. b \in Nat
    BY BudgetAssumption
  <2>2. BudgetTypeOK'
    BY <1>1, <2>1 DEF UpdateCampaignBudget, SetCampaignBudget, BudgetTypeOK, counterVars
  <2>. QED
    BY <1>1, <2>2 DEF UpdateCampaignBudget, RowTypeOK, AttemptTypeOK, JobTypeOK, rowVars, attemptVars
<1>2. ASSUME NEW s \in {"active", "paused"}, UpdateCampaignStatus(s) PROVE TypeOK'
  BY <1>2 DEF UpdateCampaignStatus, BudgetTypeOK, RowTypeOK, AttemptTypeOK, JobTypeOK, budgetVars, attemptVars
<1>3. CASE HoldUnreservedPayouts
  <2>1. \A p \in Payouts : payout[p] \in PayoutRow /\ HeldRow(payout[p]) \in PayoutRow
    BY HeldType DEF RowTypeOK
  <2>2. payout' \in [Payouts -> PayoutRow]
    BY <1>3, <2>1 DEF HoldUnreservedPayouts
  <2>. QED
    BY <1>3, <2>2 DEF HoldUnreservedPayouts, BudgetTypeOK, RowTypeOK, AttemptTypeOK, JobTypeOK, budgetVars, attemptVars
<1>4. ASSUME NEW p \in Payouts, CreateConversion(p) PROVE TypeOK'
  <2>1. AttemptTypeOK' /\ JobTypeOK'
    BY <1>4 DEF CreateConversion, AttemptTypeOK, JobTypeOK, attemptVars
  <2>2. conversion' \in [Payouts -> {"none", "approved", "reversed"}] /\ ready' \subseteq Payouts
    BY <1>4 DEF CreateConversion, RowTypeOK
  <2>3. PICK c \in Commissions :
          LET fee == CalculateFeeSats(c)
              row == [NoPayout EXCEPT !.amount = c, !.fee = fee]
          IN \/ /\ ReserveCampaignBudget(p, c + fee)
                /\ SetPayout(p, PayableRow(row))
                /\ UNCHANGED campaignStatus
             \/ /\ ~CanReserve(p, c + fee)
                /\ SetPayout(p, HeldRow(row))
                /\ campaignStatus' = "paused"
                /\ UNCHANGED budgetVars
    BY <1>4 DEF CreateConversion
  <2>. DEFINE fee == CalculateFeeSats(c)
              row == [NoPayout EXCEPT !.amount = c, !.fee = fee]
  <2>4. c \in Nat /\ fee \in Nat
    BY FeeType, PayoutAssumption
  <2>5. c + fee \in Nat
    BY <2>4
  <2>6. row \in PayoutRow
    <3>1. NoPayout \in PayoutRow
      BY HashType DEF NoPayout, PayoutRow, PayoutStates, PayoutStatuses, Providers
    <3>. QED
      BY <3>1, <2>4 DEF PayoutRow
  <2>7. PayableRow(row) \in PayoutRow /\ HeldRow(row) \in PayoutRow
    BY <2>6, PayableType, HeldType
  <2>. HIDE DEF fee, row
  <2>8. BudgetTypeOK'
    BY <2>3, <2>5, ReserveType DEF fee, row, BudgetTypeOK, budgetVars
  <2>9. payout' \in [Payouts -> PayoutRow] /\ campaignStatus' \in {"active", "paused"}
    BY <2>3, <2>7 DEF fee, row, RowTypeOK, SetPayout
  <2>. QED
    BY <2>1, <2>2, <2>8, <2>9 DEF RowTypeOK
<1>5. ASSUME NEW p \in Payouts, BecomeReady(p) PROVE TypeOK'
  BY <1>5 DEF BecomeReady, BudgetTypeOK, RowTypeOK, AttemptTypeOK, JobTypeOK, budgetVars, attemptVars
<1>6. ASSUME NEW p \in Payouts, ReleasePayoutHold(p) PROVE TypeOK'
  <2>1. payout[p] \in PayoutRow
    BY DEF RowTypeOK
  <2>2. Obligation(p) \in Nat
    BY <2>1 DEF Obligation, PayoutRow
  <2>3. BudgetTypeOK'
    BY <1>6, <2>2, ReserveType DEF ReleasePayoutHold
  <2>4. RowTypeOK'
    BY <1>6, <2>1, PayableType, SetPayoutType DEF ReleasePayoutHold, RowTypeOK
  <2>. QED
    BY <1>6, <2>3, <2>4 DEF ReleasePayoutHold, AttemptTypeOK, JobTypeOK, attemptVars
<1>7. ASSUME NEW p \in Payouts, ReverseConversion(p) PROVE TypeOK'
  <2>1. conversion' \in [Payouts -> {"none", "approved", "reversed"}]
    BY <1>7 DEF ReverseConversion, RowTypeOK
  <2>2. BudgetTypeOK' /\ RowTypeOK'
    BY <1>7, <2>1, ReversalType DEF ReverseConversion
  <2>. QED
    BY <1>7, <2>2 DEF ReverseConversion, AttemptTypeOK, JobTypeOK, attemptVars
<1>. QED
  BY <1>1, <1>2, <1>3, <1>4, <1>5, <1>6, <1>7 DEF Admin

LEMMA WalletType == TypeOK /\ Wallet => TypeOK'
<1>. SUFFICES ASSUME TypeOK, NEW p \in Payouts, NEW n \in AttemptNumbers,
                     WalletTakes(p, n) \/ WalletSettles(p, n) \/ WalletFails(p, n)
              PROVE  TypeOK'
  BY DEF Wallet, WalletDecides
<1>1. wallet' \in [Payouts -> [AttemptNumbers -> WalletStates]]
  <2>1. PICK o \in WalletStates : wallet' = [wallet EXCEPT ![p][n] = o]
    BY DEF WalletTakes, WalletSettles, WalletFails, WalletStates
  <2>2. wallet \in [Payouts -> [AttemptNumbers -> WalletStates]]
    BY DEF TypeOK, AttemptTypeOK
  <2>. QED
    BY <2>1, <2>2
<1>. QED
  BY <1>1 DEF WalletTakes, WalletSettles, WalletFails, TypeOK, BudgetTypeOK, RowTypeOK, AttemptTypeOK, JobTypeOK, budgetVars, rowVars, attemptVars

LEMMA SettledEvidenceType ==
    ASSUME TypeOK, NEW p \in Payouts, NEW n \in AttemptNumbers, NEW ref \in Hashes,
           StoreSettledEvidence(p, n, ref),
           UNCHANGED <<campaignStatus, conversion, ready, lastAttempt, wallet>>
    PROVE  RowTypeOK' /\ AttemptTypeOK'
<1>1. payout[p] \in PayoutRow /\ attempts[p][n] \in AttemptRow /\ InvoiceHash(p, n) \in Hashes
  BY HashType DEF TypeOK, RowTypeOK, AttemptTypeOK
<1>2. SettledRow(payout[p], InvoiceHash(p, n), payout[p].provider) \in PayoutRow
  <2>1. payout[p].provider \in Providers
    BY <1>1 DEF PayoutRow
  <2>. QED
    BY <1>1, <2>1, SettledType
<1>3. [attempts[p][n] EXCEPT !.status = "SETTLED", !.hash = InvoiceHash(p, n), !.ref = ref] \in AttemptRow
  BY <1>1 DEF AttemptRow, AttemptStatuses
<1>4. RowTypeOK'
  BY <1>2, SetPayoutType DEF StoreSettledEvidence, TypeOK, RowTypeOK
<1>. QED
  BY <1>3, <1>4, SetAttemptType DEF StoreSettledEvidence, TypeOK, AttemptTypeOK

LEMMA UnknownMarkType ==
    ASSUME TypeOK, NEW p \in Payouts, NEW n \in AttemptNumbers, NEW h \in Hashes, NEW ref \in Hashes,
           NEW k \in Hashes, MarkAttemptUnknown(p, n, h, ref), MarkPayoutUnknown(p, k),
           UNCHANGED <<campaignStatus, conversion, ready, lastAttempt, wallet>>
    PROVE  RowTypeOK' /\ AttemptTypeOK'
<1>1. payout[p] \in PayoutRow /\ attempts[p][n] \in AttemptRow
  BY DEF TypeOK, RowTypeOK, AttemptTypeOK
<1>2. [attempts[p][n] EXCEPT !.status = "UNKNOWN", !.hash = h, !.ref = ref] \in AttemptRow
  BY <1>1 DEF AttemptRow, AttemptStatuses
<1>3. [payout[p] EXCEPT !.status = "payment_unknown", !.hash = IF k = NoHash THEN @ ELSE k] \in PayoutRow
  BY <1>1, UnknownType
<1>4. RowTypeOK'
  BY <1>3 DEF MarkPayoutUnknown, SetPayout, TypeOK, RowTypeOK
<1>5. AttemptTypeOK'
  <2>1. CASE UNCHANGED attempts
    BY <2>1 DEF TypeOK, AttemptTypeOK
  <2>2. CASE SetAttempt(p, n, [attempts[p][n] EXCEPT !.status = "UNKNOWN", !.hash = h, !.ref = ref])
    BY <1>2, <2>2, SetAttemptType DEF TypeOK, AttemptTypeOK
  <2>. QED
    BY <2>1, <2>2 DEF MarkAttemptUnknown
<1>. QED
  BY <1>4, <1>5

LEMMA ManualType ==
    ASSUME TypeOK, NEW p \in Payouts, NEW h \in Hashes, NEW q \in Providers,
           SettledWithoutRail(p, h, q), UNCHANGED <<campaignStatus, conversion, ready, wallet>>
    PROVE  RowTypeOK' /\ AttemptTypeOK'
<1>. DEFINE n == lastAttempt[p] + 1
<1>1. payout[p] \in PayoutRow /\ lastAttempt[p] \in 0..MaxAttempts
  BY DEF TypeOK, RowTypeOK, AttemptTypeOK
<1>2. n \in AttemptNumbers /\ n \in 0..MaxAttempts
  BY <1>1, PayoutAssumption DEF SettledWithoutRail, AttemptNumbers
<1>3. [NoAttempt EXCEPT !.status = "SETTLED", !.rail = q, !.hash = h] \in AttemptRow
  BY HashType DEF NoAttempt, AttemptRow, AttemptStatuses
<1>4. lastAttempt' \in [Payouts -> 0..MaxAttempts]
  BY <1>2 DEF SettledWithoutRail, TypeOK, AttemptTypeOK
<1>5. SettledRow(payout[p], h, q) \in PayoutRow
  BY <1>1, SettledType
<1>6. RowTypeOK'
  BY <1>5, SetPayoutType DEF SettledWithoutRail, TypeOK, RowTypeOK
<1>7. AttemptTypeOK'
  <2>1. SetAttempt(p, n, [NoAttempt EXCEPT !.status = "SETTLED", !.rail = q, !.hash = h])
    BY DEF SettledWithoutRail
  <2>. QED
    BY <1>2, <1>3, <1>4, <2>1, SetAttemptType DEF TypeOK
<1>. QED
  BY <1>6, <1>7

LEMMA StartType == ASSUME NEW w \in Workers PROVE TypeOK /\ StartHandler(w) => TypeOK'
<1>. SUFFICES ASSUME TypeOK, StartHandler(w) PROVE TypeOK'
  OBVIOUS
<1>0. \A p \in Payouts : payout[p].hash \in Hashes /\ payout[p].provider \in Providers
  <2>1. \A p \in Payouts : payout[p] \in PayoutRow
    BY DEF TypeOK, RowTypeOK
  <2>. QED
    BY <2>1 DEF PayoutRow
<1>1. ASSUME NEW p \in Payouts, StartExecute(w, p) PROVE TypeOK'
  <2>1. JobTypeOK'
    BY <1>1, StartJobType DEF StartExecute, TypeOK
  <2>. QED
    BY <1>1, <2>1 DEF StartExecute, TypeOK, BudgetTypeOK, RowTypeOK, AttemptTypeOK, budgetVars, rowVars, attemptVars
<1>2. ASSUME NEW p \in Payouts, RetryProof(w, p) PROVE TypeOK'
  <2>1. JobTypeOK'
    BY <1>0, <1>2, ToFinalizeType DEF RetryProof, TypeOK
  <2>. QED
    BY <1>2, <2>1 DEF RetryProof, TypeOK, BudgetTypeOK, RowTypeOK, AttemptTypeOK, budgetVars, rowVars, attemptVars
<1>3. ASSUME NEW p \in Payouts, ManualSettlementAgain(w, p) PROVE TypeOK'
  <2>1. "manual" \in Providers
    BY DEF Providers
  <2>2. JobTypeOK'
    BY <1>0, <1>3, <2>1, ToFinalizeType DEF ManualSettlementAgain, TypeOK
  <2>. QED
    BY <1>3, <2>2 DEF ManualSettlementAgain, TypeOK, BudgetTypeOK, RowTypeOK, AttemptTypeOK, budgetVars, rowVars, attemptVars
<1>4. ASSUME NEW p \in Payouts, NEW h \in ManualHashes, ManualSettlement(w, p, h) PROVE TypeOK'
  <2>1. "manual" \in Providers /\ h \in Hashes
    BY HashType DEF Providers
  <2>2. JobTypeOK'
    BY <1>4, <2>1, ToFinalizeType DEF ManualSettlement, TypeOK
  <2>3. RowTypeOK' /\ AttemptTypeOK'
    BY <1>4, <2>1, ManualType DEF ManualSettlement
  <2>. QED
    BY <1>4, <2>2, <2>3 DEF ManualSettlement, TypeOK, BudgetTypeOK, budgetVars
<1>5. ASSUME NEW p \in Payouts, NEW h \in ManualHashes, MarkPaid(w, p, h) PROVE TypeOK'
  <2>1. "sandbox" \in Providers /\ h \in Hashes
    BY HashType DEF Providers
  <2>2. JobTypeOK'
    BY <1>5, <2>1, ToFinalizeType DEF MarkPaid, TypeOK
  <2>3. RowTypeOK' /\ AttemptTypeOK'
    <3>1. CASE SettledWithoutRail(p, h, "sandbox")
      BY <1>5, <2>1, <3>1, ManualType DEF MarkPaid
    <3>2. CASE UNCHANGED <<payout, attemptVars>>
      BY <1>5, <3>2 DEF MarkPaid, TypeOK, RowTypeOK, AttemptTypeOK, attemptVars
    <3>. QED
      BY <1>5, <3>1, <3>2 DEF MarkPaid
  <2>. QED
    BY <1>5, <2>2, <2>3 DEF MarkPaid, TypeOK, BudgetTypeOK, budgetVars
<1>6. ASSUME NEW p \in Payouts, NEW n \in AttemptNumbers, StartRefresh(w, p, n) PROVE TypeOK'
  <2>1. attempts[p][n] \in AttemptRow
    BY DEF TypeOK, AttemptTypeOK
  <2>2. Reference(p, n) \in Hashes
    BY <2>1 DEF Reference, AttemptRow
  <2>3. [attempts[p][n] EXCEPT !.ref = Reference(p, n)] \in AttemptRow
    BY <2>1, <2>2 DEF AttemptRow
  <2>4. AttemptTypeOK'
    BY <1>6, <2>3, SetAttemptType DEF StartRefresh, TypeOK, AttemptTypeOK
  <2>5. n \in 0..MaxAttempts /\ n > 0
    BY PayoutAssumption DEF AttemptNumbers
  <2>6. [Idle EXCEPT !.step = "lookup", !.payout = p, !.attempt = n] \in Job
    BY <2>5, IdleType DEF Job, Steps
  <2>7. JobTypeOK'
    BY <1>6, <2>5, <2>6 DEF StartRefresh, TypeOK, JobTypeOK, Idle
  <2>. QED
    BY <1>6, <2>4, <2>7 DEF StartRefresh, TypeOK, BudgetTypeOK, RowTypeOK, budgetVars, rowVars
<1>7. ASSUME NEW p \in Payouts, NEW n \in AttemptNumbers, ReconcileAttempt(w, p, n) PROVE TypeOK'
  <2>1. attempts[p][n].ref \in Hashes /\ attempts[p][n].hash \in Hashes /\ attempts[p][n].rail \in Providers
    BY DEF TypeOK, AttemptTypeOK, AttemptRow
  <2>2. RowTypeOK' /\ AttemptTypeOK'
    BY <1>7, <2>1, SettledEvidenceType DEF ReconcileAttempt
  <2>3. (conversion[p] = "reversed") \in BOOLEAN
    OBVIOUS
  <2>4. JobTypeOK'
    BY <1>7, <2>1, <2>3, ToFinalizeType DEF ReconcileAttempt, TypeOK
  <2>. QED
    BY <1>7, <2>2, <2>4 DEF ReconcileAttempt, TypeOK, BudgetTypeOK, budgetVars
<1>. QED
  BY <1>1, <1>2, <1>3, <1>4, <1>5, <1>6, <1>7 DEF StartHandler

LEMMA ExecuteType == ASSUME NEW w \in Workers PROVE TypeOK /\ (ExecuteStep(w) \/ RecordException(w)) => TypeOK'
<1>. SUFFICES ASSUME TypeOK, ExecuteStep(w) \/ RecordException(w) PROVE TypeOK'
  OBVIOUS
<1>. DEFINE p == job[w].payout
            n == job[w].attempt
<1>a. job[w].step # "idle"
  BY DEF ExecuteStep, ClaimPayout, ClaimRefused, RecordPreparedEvidence, SendPayment, RecordAmbiguous,
     RecordPending, FailsBeforeSending, RecordFailure, RecordMismatch, RecordSuccess, RecordException
<1>b. p \in Payouts /\ payout[p] \in PayoutRow /\ lastAttempt[p] \in 0..MaxAttempts
  BY <1>a, JobFacts
<1>c. ASSUME job[w].step \in {"prepare", "send", "await", "lookup"}
      PROVE  /\ n \in AttemptNumbers
             /\ attempts[p][n] \in AttemptRow
             /\ attempts[p][n].hash \in Hashes /\ attempts[p][n].ref \in Hashes
             /\ InvoiceHash(p, n) \in Hashes
  <2>1. n \in AttemptNumbers /\ attempts[p][n] \in AttemptRow
    BY <1>a, <1>c, JobFacts
  <2>. QED
    BY <1>b, <2>1, HashType DEF AttemptRow
<1>1. CASE ClaimPayout(w)
  <2>. DEFINE m == lastAttempt[p] + 1
  <2>0. MaxAttempts \in Nat
    BY PayoutAssumption
  <2>1. m \in AttemptNumbers /\ m \in 0..MaxAttempts /\ m > 0
    BY <1>1, <1>b, <2>0 DEF ClaimPayout, AttemptNumbers
  <2>2. RowTypeOK'
    BY <1>1, <1>b, ClaimedType, SetPayoutType DEF ClaimPayout, TypeOK, RowTypeOK
  <2>3. [NoAttempt EXCEPT !.status = "PAYING", !.rail = Rail] \in AttemptRow
    <3>1. Rail \in Providers
      BY PayoutAssumption DEF Providers
    <3>. QED
      BY <3>1, HashType DEF NoAttempt, AttemptRow, AttemptStatuses
  <2>4. SetAttempt(p, m, [NoAttempt EXCEPT !.status = "PAYING", !.rail = Rail])
    BY <1>1 DEF ClaimPayout
  <2>5. lastAttempt' \in [Payouts -> 0..MaxAttempts]
    BY <1>1, <2>1 DEF ClaimPayout, TypeOK, AttemptTypeOK
  <2>6. AttemptTypeOK'
    BY <1>1, <1>b, <2>1, <2>3, <2>4, <2>5, SetAttemptType DEF ClaimPayout, TypeOK
  <2>7. PICK s \in {"prepare", "send"} : job' = [job EXCEPT ![w] = [@ EXCEPT !.attempt = m, !.step = s]]
    BY <1>1 DEF ClaimPayout
  <2>8. job[w] \in Job
    BY DEF TypeOK, JobTypeOK
  <2>9. /\ [job[w] EXCEPT !.attempt = m, !.step = s] \in Job
        /\ [job[w] EXCEPT !.attempt = m, !.step = s].payout = p
        /\ [job[w] EXCEPT !.attempt = m, !.step = s].attempt = m
    BY <2>1, <2>8 DEF Job, Steps
  <2>10. JobTypeOK'
    BY <1>1, <1>b, <2>1, <2>7, <2>9 DEF ClaimPayout, TypeOK, JobTypeOK
  <2>. QED
    BY <1>1, <2>2, <2>6, <2>10 DEF ClaimPayout, TypeOK, BudgetTypeOK, budgetVars
<1>2. CASE ClaimRefused(w)
  <2>1. JobTypeOK'
    BY <1>2, EndJobType DEF ClaimRefused, TypeOK, JobTypeOK
  <2>. QED
    BY <1>2, <2>1 DEF ClaimRefused, TypeOK, BudgetTypeOK, RowTypeOK, AttemptTypeOK, budgetVars, rowVars, attemptVars
<1>3. CASE RecordPreparedEvidence(w)
  <2>1. [attempts[p][n] EXCEPT !.hash = InvoiceHash(p, n)] \in AttemptRow
    BY <1>3, <1>c DEF RecordPreparedEvidence, AttemptRow
  <2>2. [payout[p] EXCEPT !.hash = InvoiceHash(p, n)] \in PayoutRow
    BY <1>3, <1>b, <1>c, HashedType DEF RecordPreparedEvidence
  <2>3. RowTypeOK'
    BY SMTT(30), <1>3, <1>b, <2>2, SetPayoutType DEF RecordPreparedEvidence, TypeOK, RowTypeOK
  <2>4. AttemptTypeOK'
    BY <1>3, <1>b, <1>c, <2>1, SetAttemptType DEF RecordPreparedEvidence, TypeOK, AttemptTypeOK
  <2>5. "send" \in Steps /\ job[w].attempt > 0
    BY <1>3 DEF RecordPreparedEvidence, TypeOK, JobTypeOK, Steps
  <2>6. JobTypeOK'
    BY <1>3, <2>5, GoToType DEF RecordPreparedEvidence, TypeOK
  <2>. QED
    BY SMTT(30), <1>3, <2>3, <2>4, <2>6 DEF RecordPreparedEvidence, TypeOK, BudgetTypeOK, budgetVars
<1>4. CASE SendPayment(w)
  <2>1. wallet' \in [Payouts -> [AttemptNumbers -> WalletStates]]
    BY <1>4, <1>b, <1>c DEF SendPayment, TypeOK, AttemptTypeOK, WalletStates
  <2>2. "await" \in Steps /\ job[w].attempt > 0
    BY <1>4 DEF SendPayment, TypeOK, JobTypeOK, Steps
  <2>3. JobTypeOK'
    BY <1>4, <2>2, GoToType DEF SendPayment, TypeOK
  <2>. QED
    BY <1>4, <2>1, <2>3 DEF SendPayment, TypeOK, BudgetTypeOK, RowTypeOK, AttemptTypeOK, budgetVars, rowVars, attemptVars
<1>5. CASE RecordAmbiguous(w)
  <2>1. RowTypeOK' /\ AttemptTypeOK'
    BY <1>5, <1>b, <1>c, UnknownMarkType DEF RecordAmbiguous
  <2>2. JobTypeOK'
    BY <1>5, EndJobType DEF RecordAmbiguous, TypeOK, JobTypeOK
  <2>. QED
    BY <1>5, <2>1, <2>2 DEF RecordAmbiguous, TypeOK, BudgetTypeOK, budgetVars
<1>6. CASE RecordPending(w)
  <2>1. RowTypeOK' /\ AttemptTypeOK'
    <3>1. PICK h \in {NoHash, InvoiceHash(p, n)}, ref \in {NoHash, InvoiceHash(p, n)} :
            MarkAttemptUnknown(p, n, h, ref) /\ MarkPayoutUnknown(p, h)
      BY <1>6 DEF RecordPending
    <3>2. h \in Hashes /\ ref \in Hashes
      BY <1>6, <1>c, HashType DEF RecordPending
    <3>. QED
      BY <1>6, <1>b, <1>c, <3>1, <3>2, UnknownMarkType DEF RecordPending
  <2>2. JobTypeOK'
    BY <1>6, EndJobType DEF RecordPending, TypeOK, JobTypeOK
  <2>. QED
    BY <1>6, <2>1, <2>2 DEF RecordPending, TypeOK, BudgetTypeOK, budgetVars
<1>7. CASE RecordFailure(w)
  <2>1. job[w].step \in {"prepare", "send"}
    BY <1>7 DEF RecordFailure, FailsBeforeSending
  <2>2. AttemptTypeOK'
    <3>1. [attempts[p][n] EXCEPT !.status = "FAILED"] \in AttemptRow
      BY <1>c, <2>1 DEF AttemptRow, AttemptStatuses
    <3>2. CASE UNCHANGED attempts
      BY <1>7, <3>2 DEF RecordFailure, TypeOK, AttemptTypeOK
    <3>3. CASE SetAttempt(p, n, [attempts[p][n] EXCEPT !.status = "FAILED"])
      BY <1>7, <1>b, <1>c, <2>1, <3>1, <3>3, SetAttemptType DEF RecordFailure, TypeOK, AttemptTypeOK
    <3>. QED
      BY <1>7, <3>2, <3>3 DEF RecordFailure
  <2>3. BudgetTypeOK' /\ RowTypeOK'
    <3>1. CASE payout[p].state = "CANCEL_PENDING" /\ conversion[p] = "reversed"
      <4>1. "inflight_reversal_release" \in Releases /\ payout[p].reserved \in Nat
        BY <1>b DEF Releases, PayoutRow
      <4>2. BudgetTypeOK'
        BY <1>7, <1>b, <3>1, <4>1, ReleaseType DEF RecordFailure, TypeOK
      <4>3. RowTypeOK'
        BY <1>7, <1>b, <3>1, CancelledType, SetPayoutType DEF RecordFailure, TypeOK, RowTypeOK
      <4>. QED
        BY <4>2, <4>3
    <3>2. CASE ~(payout[p].state = "CANCEL_PENDING" /\ conversion[p] = "reversed")
      <4>1. BudgetTypeOK'
        BY <1>7, <3>2 DEF RecordFailure, TypeOK, BudgetTypeOK, budgetVars
      <4>2. CASE UNCHANGED payout
        BY <1>7, <4>1, <4>2 DEF RecordFailure, TypeOK, RowTypeOK
      <4>3. CASE SetPayout(p, FailedRow(payout[p]))
        BY <1>7, <1>b, <4>1, <4>3, FailedType, SetPayoutType DEF RecordFailure, TypeOK, RowTypeOK
      <4>. QED
        BY <1>7, <3>2, <4>2, <4>3 DEF RecordFailure
    <3>. QED
      BY <3>1, <3>2
  <2>4. JobTypeOK'
    BY <1>7, EndJobType DEF RecordFailure, TypeOK, JobTypeOK
  <2>. QED
    BY <2>2, <2>3, <2>4 DEF TypeOK
<1>8. CASE RecordMismatch(w)
  <2>1. RowTypeOK' /\ AttemptTypeOK'
    <3>1. CASE UNCHANGED <<attempts, payout>>
      BY SMTT(30), <1>8, <3>1 DEF RecordMismatch, TypeOK, RowTypeOK, AttemptTypeOK
    <3>2. CASE /\ MarkAttemptUnknown(p, n, attempts[p][n].hash, attempts[p][n].ref)
               /\ MarkPayoutUnknown(p, NoHash)
      BY <1>8, <1>b, <1>c, <3>2, HashType, UnknownMarkType DEF RecordMismatch
    <3>. QED
      BY <1>8, <3>1, <3>2 DEF RecordMismatch
  <2>2. JobTypeOK'
    BY <1>8, EndJobType DEF RecordMismatch, TypeOK, JobTypeOK
  <2>. QED
    BY <1>8, <2>1, <2>2 DEF RecordMismatch, TypeOK, BudgetTypeOK, budgetVars
<1>9. CASE RecordSuccess(w)
  <2>1. RowTypeOK' /\ AttemptTypeOK'
    BY <1>9, <1>b, <1>c, SettledEvidenceType DEF RecordSuccess
  <2>2. Rail \in Providers
    BY PayoutAssumption DEF Providers
  <2>3. JobTypeOK'
    BY <1>9, <1>b, <1>c, <2>2, ToFinalizeType DEF RecordSuccess, TypeOK
  <2>. QED
    BY <1>9, <2>1, <2>3 DEF RecordSuccess, TypeOK, BudgetTypeOK, budgetVars
<1>10. CASE RecordException(w)
  <2>1. RowTypeOK' /\ AttemptTypeOK'
    BY <1>10, <1>b, <1>c, HashType, UnknownMarkType DEF RecordException
  <2>2. faults' \in 0..MaxFaults
    <3>1. faults \in 0..MaxFaults /\ faults < MaxFaults /\ faults' = faults + 1
      BY <1>10 DEF RecordException, TypeOK, JobTypeOK
    <3>. QED
      BY <3>1, PayoutAssumption
  <2>3. JobTypeOK'
    BY <1>10, <2>2, EndJobType DEF RecordException, TypeOK
  <2>. QED
    BY <1>10, <2>1, <2>3 DEF RecordException, TypeOK, BudgetTypeOK, budgetVars
<1>. QED
  BY <1>1, <1>2, <1>3, <1>4, <1>5, <1>6, <1>7, <1>8, <1>9, <1>10 DEF ExecuteStep

LEMMA FinalizeType == ASSUME NEW w \in Workers PROVE TypeOK /\ FinalizeStep(w) => TypeOK'
<1>. SUFFICES ASSUME TypeOK, FinalizeStep(w) PROVE TypeOK'
  OBVIOUS
<1>. DEFINE p == job[w].payout
<1>a. job[w].step # "idle"
  BY DEF FinalizeStep, FinalizeRefused, FinalizeDuplicate, FinalizePayoutPaid, PublishProof, PublishAnswered, ApplyExistingReversal
<1>b. /\ p \in Payouts /\ payout[p] \in PayoutRow
      /\ job[w].hash \in Hashes /\ job[w].provider \in Providers
  BY <1>a, JobFacts
<1>1. CASE FinalizeRefused(w)
  <2>1. JobTypeOK'
    BY <1>1, EndJobType DEF FinalizeRefused, TypeOK, JobTypeOK
  <2>. QED
    BY <1>1, <2>1 DEF FinalizeRefused, TypeOK, BudgetTypeOK, RowTypeOK, AttemptTypeOK, budgetVars, rowVars, attemptVars
<1>2. CASE FinalizeDuplicate(w)
  <2>1. "publish" \in Steps
    BY DEF Steps
  <2>2. JobTypeOK'
    BY <1>2, <1>a, <2>1, GoToType, AfterFinalizeType DEF FinalizeDuplicate, TypeOK
  <2>. QED
    BY <1>2, <2>2 DEF FinalizeDuplicate, TypeOK, BudgetTypeOK, RowTypeOK, AttemptTypeOK, budgetVars, rowVars, attemptVars
<1>3. CASE FinalizePayoutPaid(w)
  <2>. DEFINE covered == payout[p].reserved >= payout[p].amount
              rest == IF covered THEN payout[p].reserved - payout[p].amount ELSE payout[p].reserved
              proved == [SettledRow(payout[p], job[w].hash, job[w].provider)
                           EXCEPT !.event = TRUE, !.reserved = rest]
  <2>1. payout[p].reserved \in Nat /\ payout[p].amount \in Nat
    BY <1>b DEF PayoutRow
  <2>2. rest \in Nat
    BY <2>1
  <2>3. BudgetTypeOK'
    BY <1>3, <1>b, <2>1, SettleType DEF FinalizePayoutPaid, TypeOK, BudgetTypeOK, budgetVars
  <2>4. proved \in PayoutRow
    BY <1>b, <2>2, ProvedType
  <2>5. SettledRow(payout[p], job[w].hash, job[w].provider).reserved = payout[p].reserved
    BY <1>b DEF SettledRow, PayoutRow
  <2>6. SetPayout(p, proved)
    BY <1>3, <2>5 DEF FinalizePayoutPaid
  <2>7. RowTypeOK'
    BY <1>3, <1>b, <2>4, <2>6, SetPayoutType DEF FinalizePayoutPaid, TypeOK, RowTypeOK
  <2>8. "publish" \in Steps
    BY DEF Steps
  <2>9. JobTypeOK'
    BY <1>3, <1>a, <2>8, GoToType DEF FinalizePayoutPaid, TypeOK
  <2>. QED
    BY <1>3, <2>3, <2>7, <2>9 DEF FinalizePayoutPaid, TypeOK, AttemptTypeOK, attemptVars
<1>4. CASE PublishProof(w)
  <2>. PICK acked \in RelayAnswers : PublishAnswered(w, acked)
    BY <1>4 DEF PublishProof
  <2>0. acked \in BOOLEAN
    BY PayoutAssumption
  <2>1. \A s \in {"PUBLISHED", payout[p].state} :
          [payout[p] EXCEPT !.state = s, !.relayed = @ \/ acked] \in PayoutRow
    BY <1>b, <2>0 DEF PayoutRow, PayoutStates
  <2>2. RowTypeOK'
    BY <1>b, <2>1 DEF PublishAnswered, SetPayout, TypeOK, RowTypeOK
  <2>3. JobTypeOK'
    BY <1>a, AfterFinalizeType DEF PublishAnswered, TypeOK
  <2>. QED
    BY <2>2, <2>3 DEF PublishAnswered, TypeOK, BudgetTypeOK, AttemptTypeOK, budgetVars, attemptVars
<1>5. CASE ApplyExistingReversal(w)
  <2>1. BudgetTypeOK' /\ RowTypeOK'
    <3>1. CASE ApplyReversalToPayout(p)
      BY <1>5, <1>b, <3>1, ReversalType DEF ApplyExistingReversal, TypeOK, RowTypeOK
    <3>2. CASE UNCHANGED <<budgetVars, payout>>
      BY <1>5, <3>2 DEF ApplyExistingReversal, TypeOK, BudgetTypeOK, RowTypeOK, budgetVars
    <3>. QED
      BY <1>5, <3>1, <3>2 DEF ApplyExistingReversal
  <2>2. JobTypeOK'
    BY <1>5, EndJobType DEF ApplyExistingReversal, TypeOK, JobTypeOK
  <2>. QED
    BY <1>5, <2>1, <2>2 DEF ApplyExistingReversal, TypeOK, AttemptTypeOK, attemptVars
<1>. QED
  BY <1>1, <1>2, <1>3, <1>4, <1>5 DEF FinalizeStep

LEMMA RefreshType == ASSUME NEW w \in Workers PROVE TypeOK /\ RefreshStep(w) => TypeOK'
<1>. SUFFICES ASSUME TypeOK, RefreshStep(w) PROVE TypeOK'
  OBVIOUS
<1>. DEFINE p == job[w].payout
            n == job[w].attempt
<1>a. job[w].step = "lookup"
  BY DEF RefreshStep, RefreshUnresolved, RefreshFailed, RefreshSettled
<1>b. /\ p \in Payouts /\ n \in AttemptNumbers
      /\ payout[p] \in PayoutRow /\ attempts[p][n] \in AttemptRow
  BY <1>a, JobFacts
<1>c. /\ attempts[p][n].ref \in Hashes /\ attempts[p][n].rail \in Providers
      /\ InvoiceHash(p, n) \in Hashes /\ payout[p].reserved \in Nat
  BY <1>b, HashType DEF AttemptRow, PayoutRow
<1>1. CASE RefreshUnresolved(w)
  <2>1. JobTypeOK'
    BY <1>1, EndJobType DEF RefreshUnresolved, TypeOK, JobTypeOK
  <2>. QED
    BY <1>1, <2>1 DEF RefreshUnresolved, TypeOK, BudgetTypeOK, RowTypeOK, AttemptTypeOK, budgetVars, rowVars, attemptVars
<1>2. CASE RefreshFailed(w)
  <2>1. [attempts[p][n] EXCEPT !.status = "FAILED"] \in AttemptRow
    BY <1>b DEF AttemptRow, AttemptStatuses
  <2>2. AttemptTypeOK'
    BY <1>2, <1>b, <2>1, SetAttemptType DEF RefreshFailed, TypeOK, AttemptTypeOK
  <2>3. BudgetTypeOK' /\ RowTypeOK'
    <3>1. CASE /\ ReleaseCampaignBudget(p, payout[p].reserved, "provider_reconciled_reversal_release")
               /\ SetPayout(p, CancelledRow(payout[p]))
      <4>1. "provider_reconciled_reversal_release" \in Releases
        BY DEF Releases
      <4>2. BudgetTypeOK'
        BY <1>b, <1>c, <3>1, <4>1, ReleaseType DEF TypeOK
      <4>. QED
        BY <1>2, <1>b, <3>1, <4>2, CancelledType, SetPayoutType DEF RefreshFailed, TypeOK, RowTypeOK
    <3>2. CASE SetPayout(p, FailedRow(payout[p])) /\ UNCHANGED budgetVars
      <4>1. BudgetTypeOK'
        BY <3>2 DEF TypeOK, BudgetTypeOK, budgetVars
      <4>. QED
        BY <1>2, <1>b, <3>2, <4>1, FailedType, SetPayoutType DEF RefreshFailed, TypeOK, RowTypeOK
    <3>. QED
      BY <1>2, <3>1, <3>2 DEF RefreshFailed
  <2>4. JobTypeOK'
    BY SMTT(30), <1>2, EndJobType DEF RefreshFailed, TypeOK, JobTypeOK
  <2>. QED
    BY <2>2, <2>3, <2>4 DEF TypeOK
<1>3. CASE RefreshSettled(w)
  <2>1. RowTypeOK' /\ AttemptTypeOK'
    BY SMTT(30), <1>3, <1>b, <1>c, SettledEvidenceType DEF RefreshSettled
  <2>2. JobTypeOK'
    BY <1>3, <1>b, <1>c, ToFinalizeType DEF RefreshSettled, TypeOK
  <2>. QED
    BY SMTT(30), <1>3, <2>1, <2>2 DEF RefreshSettled, TypeOK, BudgetTypeOK, budgetVars
<1>. QED
  BY <1>1, <1>2, <1>3 DEF RefreshStep

LEMMA CrashType == ASSUME NEW w \in Workers PROVE TypeOK /\ Crash(w) => TypeOK'
<1>. SUFFICES ASSUME TypeOK, Crash(w) PROVE TypeOK'
  OBVIOUS
<1>1. faults' \in 0..MaxFaults
  BY PayoutAssumption DEF Crash, TypeOK, JobTypeOK
<1>2. JobTypeOK'
  BY <1>1, EndJobType DEF Crash, TypeOK
<1>. QED
  BY <1>2 DEF Crash, TypeOK, BudgetTypeOK, RowTypeOK, AttemptTypeOK, budgetVars, rowVars, attemptVars

LEMMA NextType == TypeOK /\ [Next]_vars => TypeOK'
<1>. SUFFICES ASSUME TypeOK, [Next]_vars PROVE TypeOK'
  OBVIOUS
<1>1. CASE UNCHANGED vars
  BY <1>1 DEF vars, TypeOK, BudgetTypeOK, RowTypeOK, AttemptTypeOK, JobTypeOK, budgetVars, rowVars, attemptVars
<1>2. ASSUME NEW w \in Workers, StartHandler(w) \/ HandlerStep(w) \/ RecordException(w) \/ Crash(w)
      PROVE  TypeOK'
  BY <1>2, StartType, ExecuteType, FinalizeType, RefreshType, CrashType DEF HandlerStep
<1>. QED
  BY <1>1, <1>2, AdminType, WalletType DEF Next

\* Every variable keeps its type, for every set of payouts and workers, every rail, every
\* budget and fee: in particular no counter, reservation or ledger amount goes negative.
THEOREM TypeCorrect == Spec => []TypeOK
<1>1. Init => TypeOK
  BY InitType
<1>2. TypeOK /\ [Next]_vars => TypeOK'
  BY NextType
<1>. QED
  BY <1>1, <1>2, PTL DEF Spec

-----------------------------------------------------------------------------
(* The campaign's cap.  Each movement of the budget keeps it; the actions   *)
(* only combine movements.                                                  *)

LEMMA ReserveKeepsCap ==
    ASSUME TypeOK, WithinBudget, NEW p \in Payouts, NEW amount \in Nat,
           ReserveCampaignBudget(p, amount)
    PROVE  WithinBudget'
BY DEF TypeOK, BudgetTypeOK, WithinBudget, ReserveCampaignBudget, CanReserve

LEMMA SettleKeepsCap ==
    ASSUME TypeOK, WithinBudget, NEW p \in Payouts, NEW amount \in Nat,
           SettleCampaignBudget(p, amount)
    PROVE  WithinBudget'
BY DEF TypeOK, BudgetTypeOK, WithinBudget, SettleCampaignBudget, budgetVars

LEMMA ReleaseKeepsCap ==
    ASSUME TypeOK, WithinBudget, NEW p \in Payouts, NEW amount \in Nat, NEW m,
           ReleaseCampaignBudget(p, amount, m)
    PROVE  WithinBudget'
BY DEF TypeOK, BudgetTypeOK, WithinBudget, ReleaseCampaignBudget, budgetVars

LEMMA ReversalKeepsCap ==
    ASSUME TypeOK, WithinBudget, NEW p \in Payouts, ApplyReversalToPayout(p)
    PROVE  WithinBudget'
<1>1. payout[p].reserved \in Nat
  BY DEF TypeOK, RowTypeOK, PayoutRow
<1>2. CASE UNCHANGED budgetVars
  BY <1>2 DEF budgetVars, WithinBudget
<1>. QED
  BY <1>1, <1>2, ReleaseKeepsCap
     DEF ApplyReversalToPayout, CancelUnpaid, CancelInFlight, CancelFee, NothingToReverse

LEMMA NextKeepsCap == TypeOK /\ WithinBudget /\ [Next]_vars => WithinBudget'
<1>. SUFFICES ASSUME TypeOK, WithinBudget, [Next]_vars PROVE WithinBudget'
  OBVIOUS
<1>a. ASSUME NEW p \in Payouts
      PROVE  /\ payout[p].reserved \in Nat /\ payout[p].amount \in Nat /\ Obligation(p) \in Nat
             /\ \A c \in Commissions : c + CalculateFeeSats(c) \in Nat
  <2>1. payout[p] \in PayoutRow
    BY DEF TypeOK, RowTypeOK
  <2>2. \A c \in Commissions : c \in Nat /\ CalculateFeeSats(c) \in Nat
    BY FeeType, PayoutAssumption
  <2>. QED
    BY <2>1, <2>2 DEF PayoutRow, Obligation
<1>b. ASSUME NEW w \in Workers, job[w].step # "idle" PROVE job[w].payout \in Payouts
  BY <1>b DEF TypeOK, JobTypeOK
<1>1. CASE UNCHANGED budgetVars
  BY <1>1 DEF budgetVars, WithinBudget
<1>2. CASE Admin
  <2>1. ASSUME NEW b \in Budgets, UpdateCampaignBudget(b) PROVE WithinBudget'
    BY <2>1, BudgetAssumption
       DEF UpdateCampaignBudget, SetCampaignBudget, counterVars, WithinBudget, TypeOK, BudgetTypeOK
  <2>2. ASSUME NEW p \in Payouts, CreateConversion(p) PROVE WithinBudget'
    BY <1>1, <1>a, <2>2, ReserveKeepsCap DEF CreateConversion
  <2>3. ASSUME NEW p \in Payouts, ReleasePayoutHold(p) PROVE WithinBudget'
    BY <1>a, <2>3, ReserveKeepsCap DEF ReleasePayoutHold
  <2>4. ASSUME NEW p \in Payouts, ReverseConversion(p) PROVE WithinBudget'
    BY <2>4, ReversalKeepsCap DEF ReverseConversion
  <2>5. ASSUME \/ \E s \in {"active", "paused"} : UpdateCampaignStatus(s)
               \/ HoldUnreservedPayouts
               \/ \E p \in Payouts : BecomeReady(p)
        PROVE  WithinBudget'
    BY <1>1, <2>5 DEF UpdateCampaignStatus, HoldUnreservedPayouts, BecomeReady
  <2>. QED
    BY <1>2, <2>1, <2>2, <2>3, <2>4, <2>5 DEF Admin
<1>3. CASE Wallet
  BY <1>1, <1>3 DEF Wallet, WalletDecides, WalletTakes, WalletSettles, WalletFails
<1>4. ASSUME NEW w \in Workers, StartHandler(w) \/ RecordException(w) \/ Crash(w) PROVE WithinBudget'
  BY ZenonT(30), <1>1, <1>4
    DEF StartHandler, StartExecute, RetryProof, ManualSettlementAgain, ManualSettlement,
     MarkPaid, StartRefresh, ReconcileAttempt, RecordException, Crash
<1>5. ASSUME NEW w \in Workers, ExecuteStep(w) PROVE WithinBudget'
  <2>1. CASE RecordFailure(w)
    <3>1. job[w].step # "idle"
      BY <2>1 DEF RecordFailure, FailsBeforeSending
    <3>. QED
      BY <1>1, <1>a, <1>b, <2>1, <3>1, ReleaseKeepsCap DEF RecordFailure
  <2>. QED
    BY <1>1, <1>5, <2>1 DEF ExecuteStep, ClaimPayout, ClaimRefused, RecordPreparedEvidence, SendPayment,
       RecordAmbiguous, RecordPending, RecordMismatch, RecordSuccess
<1>6. ASSUME NEW w \in Workers, FinalizeStep(w) PROVE WithinBudget'
  <2>1. CASE FinalizePayoutPaid(w)
    <3>1. job[w].payout \in Payouts
      BY <1>b, <2>1 DEF FinalizePayoutPaid
    <3>2. SettleCampaignBudget(job[w].payout, payout[job[w].payout].amount) \/ UNCHANGED budgetVars
      BY <2>1 DEF FinalizePayoutPaid
    <3>. QED
      BY <1>1, <1>a, <3>1, <3>2, SettleKeepsCap
  <2>2. CASE ApplyExistingReversal(w)
    <3>1. job[w].payout \in Payouts
      BY <1>b, <2>2 DEF ApplyExistingReversal
    <3>2. ApplyReversalToPayout(job[w].payout) \/ UNCHANGED budgetVars
      BY <2>2 DEF ApplyExistingReversal, budgetVars
    <3>. QED
      BY <1>1, <3>1, <3>2, ReversalKeepsCap
  <2>. QED
    BY <1>1, <1>6, <2>1, <2>2 DEF FinalizeStep, FinalizeRefused, FinalizeDuplicate, PublishProof, PublishAnswered
<1>7. ASSUME NEW w \in Workers, RefreshStep(w) PROVE WithinBudget'
  <2>1. CASE RefreshFailed(w)
    <3>1. job[w].payout \in Payouts
      BY <1>b, <2>1 DEF RefreshFailed
    <3>. QED
      BY <1>1, <1>a, <2>1, <3>1, ReleaseKeepsCap DEF RefreshFailed
  <2>. QED
    BY <1>1, <1>7, <2>1 DEF RefreshStep, RefreshUnresolved, RefreshSettled
<1>8. CASE UNCHANGED vars
  BY <1>1, <1>8 DEF vars
<1>. QED
  BY <1>2, <1>3, <1>4, <1>5, <1>6, <1>7, <1>8 DEF Next, HandlerStep

\* Reservations and settled commissions together never exceed the cap an administrator
\* set, whatever cap, commissions and fees: lowering the cap, concurrent reservations,
\* settlements and reversals included.
THEOREM CapHolds == Spec => []WithinBudget
<1>1. Init => WithinBudget
  BY BudgetAssumption DEF Init, BudgetInit, WithinBudget
<1>2. TypeOK /\ WithinBudget /\ [Next]_vars => WithinBudget'
  BY NextKeepsCap
<1>. QED
  BY <1>1, <1>2, TypeCorrect, PTL DEF Spec

=============================================================================

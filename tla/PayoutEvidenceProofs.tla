------------------------ MODULE PayoutEvidenceProofs ------------------------
(***************************************************************************)
(* EInv is inductive, and what follows from it: the books of a payout      *)
(* balance, its evidence is final, its proofs are unique, money leaves     *)
(* only when it may, and the handlers implement the obligations.           *)
(*                                                                         *)
(* All of this is proved from one classification of the steps: whatever    *)
(* handler takes it, a step holds some unreserved payouts, or does to one  *)
(* payout one of the fifteen things below and leaves the others alone      *)
(* (StepIsClassified).  The results then need no action of PayoutLedger,   *)
(* only these.                                                             *)
(***************************************************************************)
EXTENDS PayoutSafetyProofs, PayoutRefinement, SetSums

Untouched(p) == Same(p) /\ ledger'[p] = ledger[p]

SameAmounts(p) ==
    /\ payout'[p].amount = payout[p].amount
    /\ payout'[p].fee = payout[p].fee
    /\ payout'[p].event = payout[p].event

\* Nothing of the campaign's money moves.
SameMoney(p) ==
    /\ SameAmounts(p)
    /\ payout'[p].reserved = payout[p].reserved
    /\ ledger'[p] = ledger[p] /\ committed' = committed

\* Only attempt n of p changes, into one with status s, hash h and the same rail.
AttemptBecomes(p, n, s, h) ==
    /\ attempts'[p][n].status = s
    /\ attempts'[p][n].hash = h
    /\ \A m \in AttemptNumbers \ {n} : attempts'[p][m] = attempts[p][m]
    /\ wallet'[p] = wallet[p]

SameRail(p, n) == attempts'[p][n].rail = attempts[p][n].rail /\ lastAttempt'[p] = lastAttempt[p]

\* A new attempt n of p, which was not there.
Opens(p, n, rail) ==
    /\ n = lastAttempt[p] + 1 /\ lastAttempt'[p] = n
    /\ attempts[p][n] = NoAttempt /\ wallet[p][n] = "none"
    /\ attempts'[p][n].rail = rail

ReleasesAll(p) ==
    /\ \E m \in Releases : ReleaseCampaignBudget(p, payout[p].reserved, m)
    /\ payout'[p].reserved = 0
    /\ SameAmounts(p)

OwedStates == {"PAYABLE", "FAILED"}

Created(p) ==
    /\ payout[p].state = "NONE" /\ conversion[p] = "none" /\ conversion'[p] = "approved"
    /\ ~payout'[p].event
    /\ \/ /\ payout'[p].state = "PAYABLE"
          /\ payout'[p].reserved = payout'[p].amount + payout'[p].fee
          /\ ReserveCampaignBudget(p, payout'[p].amount + payout'[p].fee)
       \/ /\ payout'[p].state = "ON_HOLD" /\ payout'[p].reserved = 0
          /\ UNCHANGED budgetVars
    /\ SameAttempts(p)

Held(p) ==
    /\ payout[p].state \in OwedStates /\ payout'[p].state = "ON_HOLD"
    /\ payout[p].reserved = 0 /\ ledger[p]["reserve"] = 0
    /\ conversion'[p] = conversion[p]
    /\ SameMoney(p) /\ SameAttempts(p)

Unheld(p) ==
    /\ payout[p].state = "ON_HOLD" /\ payout'[p].state = "PAYABLE"
    /\ conversion[p] # "reversed" /\ conversion'[p] = conversion[p]
    /\ payout'[p].reserved = Obligation(p)
    /\ ReserveCampaignBudget(p, Obligation(p))
    /\ SameAmounts(p) /\ SameAttempts(p)

\* The four ways of a reversal.
Voided(p) ==
    /\ payout[p].state \in OwedStates \cup {"ON_HOLD"} /\ payout'[p].state = "CANCELLED"
    /\ conversion'[p] = "reversed"
    /\ ReleasesAll(p) /\ SameAttempts(p)

Doomed(p) ==
    /\ payout[p].state = "PAYING" /\ payout'[p].state = "CANCEL_PENDING"
    /\ conversion'[p] = "reversed"
    /\ SameMoney(p) /\ SameAttempts(p)

FeeVoided(p) ==
    /\ payout[p].state \in PaidStates /\ payout'[p].state = payout[p].state
    /\ payout'[p].hash = payout[p].hash
    /\ conversion'[p] = "reversed"
    /\ ReleasesAll(p) /\ SameAttempts(p)

ReversedAgain(p) ==
    /\ payout[p].state \in {"CANCEL_PENDING", "CANCELLED"} \cup PaidStates
    /\ payout'[p] = payout[p]
    /\ conversion'[p] = "reversed"
    /\ SameMoney(p) /\ SameAttempts(p)

\* The life of an attempt over the rail.
Claimed(p) ==
    /\ payout[p].state \in OwedStates /\ payout'[p].state = "PAYING"
    /\ conversion[p] # "reversed" /\ conversion'[p] = conversion[p]
    /\ p \in ready
    /\ SameMoney(p)
    /\ \E n \in AttemptNumbers : Opens(p, n, Rail) /\ AttemptBecomes(p, n, "PAYING", NoHash)

Marked(p) ==
    /\ payout[p].state \in InFlightStates /\ payout'[p].state = payout[p].state
    /\ conversion'[p] = conversion[p]
    /\ SameMoney(p)
    /\ \E n \in AttemptNumbers, s \in LiveStatuses, h \in {NoHash, InvoiceHash(p, lastAttempt[p])} :
         /\ n = lastAttempt[p] /\ attempts[p][n].status \in LiveStatuses
         /\ AttemptBecomes(p, n, s, h) /\ SameRail(p, n)
         /\ Rail = "nwc" => h \in {attempts[p][n].hash, InvoiceHash(p, n)}

SentOut(p) ==
    /\ payout'[p] = payout[p] /\ conversion'[p] = conversion[p] /\ SameMoney(p)
    /\ attempts'[p] = attempts[p] /\ lastAttempt'[p] = lastAttempt[p]
    /\ \E n \in AttemptNumbers :
         /\ n = lastAttempt[p] /\ attempts[p][n].status = "PAYING"
         /\ Rail = "nwc" => attempts[p][n].hash = InvoiceHash(p, n)
         /\ wallet[p][n] = "none"
         /\ \E o \in {"queued", "inflight"} : wallet'[p] = [wallet[p] EXCEPT ![n] = o]

Answered(p) ==
    /\ payout'[p] = payout[p] /\ conversion'[p] = conversion[p] /\ SameMoney(p)
    /\ attempts'[p] = attempts[p] /\ lastAttempt'[p] = lastAttempt[p]
    /\ \E n \in AttemptNumbers, a \in {"inflight", "settled", "failed"} :
         wallet[p][n] \in {"queued", "inflight"} /\ wallet'[p] = [wallet[p] EXCEPT ![n] = a]

Failed(p) ==
    /\ conversion'[p] = conversion[p]
    /\ \/ /\ payout[p].state = "PAYING" /\ payout'[p].state = "FAILED"
          /\ SameMoney(p)
       \/ /\ payout[p].state = "CANCEL_PENDING" /\ payout'[p].state = "CANCELLED"
          /\ conversion[p] = "reversed"
          /\ ReleasesAll(p)
    /\ \E n \in AttemptNumbers :
         /\ n = lastAttempt[p] /\ attempts[p][n].status \in LiveStatuses
         /\ wallet[p][n] \in {"none", "failed"}
         /\ AttemptBecomes(p, n, "FAILED", attempts[p][n].hash) /\ SameRail(p, n)

SettledBy(p) ==
    /\ payout[p].state \in InFlightStates /\ payout'[p].state = "SETTLED"
    /\ conversion'[p] = conversion[p]
    /\ SameMoney(p)
    /\ \E n \in AttemptNumbers :
         /\ n = lastAttempt[p] /\ attempts[p][n].status \in LiveStatuses
         /\ wallet[p][n] = "settled"
         /\ payout'[p].hash = InvoiceHash(p, n)
         /\ AttemptBecomes(p, n, "SETTLED", InvoiceHash(p, n)) /\ SameRail(p, n)

\* A payment outside the rail, and the proof of a payment.
PaidOutside(p) ==
    /\ payout[p].state \in OwedStates /\ payout'[p].state = "SETTLED"
    /\ conversion[p] # "reversed" /\ conversion'[p] = conversion[p]
    /\ SameMoney(p)
    /\ \E n \in AttemptNumbers, rail \in {"manual", "sandbox"} :
         Opens(p, n, rail) /\ AttemptBecomes(p, n, "SETTLED", payout'[p].hash)

Proved(p) ==
    /\ payout[p].state = "SETTLED" /\ payout'[p].state = "SETTLED"
    /\ ~payout[p].event /\ payout'[p].event
    /\ conversion'[p] = conversion[p]
    /\ payout'[p].amount = payout[p].amount /\ payout'[p].fee = payout[p].fee
    /\ \/ /\ payout[p].reserved >= payout[p].amount
          /\ payout'[p].reserved = payout[p].reserved - payout[p].amount
          /\ SettleCampaignBudget(p, payout[p].amount)
       \/ /\ payout[p].reserved < payout[p].amount
          /\ payout'[p].reserved = payout[p].reserved
          /\ UNCHANGED budgetVars
    /\ \A q \in Payouts \ {p} : payout[q].hash # payout'[p].hash
    /\ ~SandboxEnabled => payout'[p].hash = payout[p].hash
    /\ SameAttempts(p)

\* A publication, the first or a repeated one.
Published(p) ==
    /\ payout[p].state \in PaidStates
    /\ \/ payout'[p].state = payout[p].state
       \/ payout'[p].state = "PUBLISHED" /\ payout[p].event
    /\ payout'[p].hash = payout[p].hash
    /\ conversion'[p] = conversion[p]
    /\ SameMoney(p) /\ SameAttempts(p)

Changed(p) ==
    \/ Created(p) \/ Unheld(p)
    \/ Voided(p) \/ Doomed(p) \/ FeeVoided(p) \/ ReversedAgain(p)
    \/ Claimed(p) \/ Marked(p) \/ SentOut(p) \/ Answered(p) \/ Failed(p) \/ SettledBy(p)
    \/ PaidOutside(p) \/ Proved(p) \/ Published(p)

Others(p) == \A q \in Payouts \ {p} : Untouched(q)

NothingButHolds == (\A q \in Payouts : Untouched(q) \/ Held(q)) /\ committed' = committed

OneChanged == \E p \in Payouts : Others(p) /\ Changed(p)

Classified == (NothingButHolds \/ OneChanged) /\ ready \subseteq ready'

-----------------------------------------------------------------------------
(* The rows that the handlers write. *)

LEMMA RowMoney ==
    ASSUME NEW r \in PayoutRow, NEW h, NEW q
    PROVE  /\ \A x \in {HeldRow(r), ClaimedRow(r), FailedRow(r), SettledRow(r, h, q)} :
                x.amount = r.amount /\ x.fee = r.fee /\ x.reserved = r.reserved /\ x.event = r.event
           /\ PayableRow(r).amount = r.amount /\ PayableRow(r).fee = r.fee
           /\ PayableRow(r).reserved = r.amount + r.fee
           /\ CancelledRow(r).amount = r.amount /\ CancelledRow(r).fee = r.fee
           /\ CancelledRow(r).reserved = 0
           /\ SettledRow(r, h, q).hash = h
BY DEF PayoutRow, PayableRow, HeldRow, CancelledRow, ClaimedRow, FailedRow, SettledRow

LEMMA SetPayoutFacts ==
    ASSUME TypeOK, NEW p \in Payouts, NEW x, SetPayout(p, x)
    PROVE  payout'[p] = x /\ \A q \in Payouts \ {p} : payout'[q] = payout[q]
BY DEF TypeOK, RowTypeOK, SetPayout

LEMMA SetAttemptFacts ==
    ASSUME TypeOK, NEW p \in Payouts, NEW n \in AttemptNumbers, NEW x, SetAttempt(p, n, x)
    PROVE  /\ attempts'[p][n] = x
           /\ \A m \in AttemptNumbers \ {n} : attempts'[p][m] = attempts[p][m]
           /\ \A q \in Payouts \ {p} : attempts'[q] = attempts[q]
BY DEF TypeOK, AttemptTypeOK, SetAttempt

\* A movement of the budget touches the entries of its payout only.
LEMMA BudgetOthers ==
    ASSUME TypeOK, NEW p \in Payouts, NEW a,
           \/ ReserveCampaignBudget(p, a) \/ SettleCampaignBudget(p, a)
           \/ \E m \in Releases : ReleaseCampaignBudget(p, a, m)
           \/ UNCHANGED budgetVars
    PROVE  \A q \in Payouts \ {p} : ledger'[q] = ledger[q]
BY DEF TypeOK, BudgetTypeOK, ReserveCampaignBudget, SettleCampaignBudget, ReleaseCampaignBudget,
       RecordLedgerTransaction, budgetVars

\* What an action has to show to leave the other payouts alone.
LEMMA OthersUntouched ==
    ASSUME NEW p \in Payouts,
           \A q \in Payouts \ {p} : ledger'[q] = ledger[q],
           \A q \in Payouts \ {p} : payout'[q] = payout[q],
           \A q \in Payouts \ {p} : conversion'[q] = conversion[q],
           \A q \in Payouts \ {p} : SameAttempts(q)
    PROVE  Others(p)
BY DEF Others, Untouched, Same

LEMMA AllUntouched ==
    ASSUME UNCHANGED <<committed, ledger, payout, conversion, attempts, lastAttempt, wallet>>
    PROVE  NothingButHolds
BY DEF NothingButHolds, Untouched, Same, SameAttempts

-----------------------------------------------------------------------------
(* The steps of the campaign: conversions, holds and reversals. *)

\* A reversal of a payout that exists.
LEMMA ReversalIs ==
    ASSUME TypeOK, NEW p \in Payouts, StateInv(p), payout[p].state # "NONE",
           ApplyReversalToPayout(p), conversion'[p] = "reversed", SameAttempts(p)
    PROVE  /\ Voided(p) \/ Doomed(p) \/ FeeVoided(p) \/ ReversedAgain(p)
           /\ \A q \in Payouts \ {p} : payout'[q] = payout[q] /\ ledger'[q] = ledger[q]
<1>. DEFINE r == payout[p]
<1>1. r \in PayoutRow /\ {"reversal_release", "reversal_fee_release"} \subseteq Releases
  BY DEF TypeOK, RowTypeOK, Releases
<1>2. CASE CancelUnpaid(p)
  <2>1. /\ SetPayout(p, CancelledRow(r)) /\ ReleaseCampaignBudget(p, r.reserved, "reversal_release")
        /\ r.state \in OwedStates \cup {"ON_HOLD"}
    BY <1>2 DEF CancelUnpaid, OwedStates
  <2>2. payout'[p] = CancelledRow(r) /\ \A q \in Payouts \ {p} : payout'[q] = payout[q]
    BY <2>1, SetPayoutFacts
  <2>3. /\ payout'[p].state = "CANCELLED" /\ payout'[p].reserved = 0 /\ SameAmounts(p)
    BY <1>1, <2>2, RowFields, RowMoney DEF SameAmounts
  <2>4. Voided(p)
    BY <1>1, <2>1, <2>3 DEF Voided, ReleasesAll
  <2>. QED
    BY <1>1, <2>1, <2>2, <2>4, BudgetOthers
<1>3. CASE CancelInFlight(p)
  <2>. DEFINE x == [r EXCEPT !.state = "CANCEL_PENDING", !.feeState = "CANCELLED"]
  <2>1. SetPayout(p, x) /\ UNCHANGED budgetVars /\ r.state = "PAYING"
    BY <1>3 DEF CancelInFlight
  <2>2. /\ x.state = "CANCEL_PENDING" /\ x.amount = r.amount /\ x.fee = r.fee
        /\ x.reserved = r.reserved /\ x.event = r.event
    BY <1>1 DEF PayoutRow
  <2>. HIDE DEF x
  <2>3. payout'[p] = x /\ \A q \in Payouts \ {p} : payout'[q] = payout[q]
    BY <2>1, SetPayoutFacts
  <2>4. Doomed(p)
    BY <2>1, <2>2, <2>3 DEF Doomed, SameMoney, SameAmounts, budgetVars
  <2>. QED
    BY <2>1, <2>3, <2>4 DEF budgetVars
<1>4. CASE CancelFee(p)
  <2>. DEFINE x == [r EXCEPT !.feeState = "CANCELLED", !.reserved = 0]
  <2>1. /\ SetPayout(p, x) /\ ReleaseCampaignBudget(p, r.reserved, "reversal_fee_release")
        /\ r.state \in PaidStates
    BY <1>4 DEF CancelFee, PaidStates
  <2>2. /\ x.state = r.state /\ x.amount = r.amount /\ x.fee = r.fee
        /\ x.reserved = 0 /\ x.event = r.event /\ x.hash = r.hash
    BY <1>1 DEF PayoutRow
  <2>. HIDE DEF x
  <2>3. payout'[p] = x /\ \A q \in Payouts \ {p} : payout'[q] = payout[q]
    BY <2>1, SetPayoutFacts
  <2>4. FeeVoided(p)
    BY <1>1, <2>1, <2>2, <2>3 DEF FeeVoided, ReleasesAll, SameAmounts
  <2>. QED
    BY <1>1, <2>1, <2>3, <2>4, BudgetOthers
<1>5. CASE NothingToReverse(p)
  <2>1. UNCHANGED <<budgetVars, payout>> /\ r.state \in {"CANCEL_PENDING", "CANCELLED"} \cup PaidStates
    BY <1>5 DEF NothingToReverse, PaidStates
  <2>. QED
    BY <2>1 DEF ReversedAgain, SameMoney, SameAmounts, budgetVars
<1>. QED
  BY <1>2, <1>3, <1>4, <1>5 DEF ApplyReversalToPayout

LEMMA CreateIs ==
    ASSUME EInv, NEW p \in Payouts, CreateConversion(p)
    PROVE  OneChanged
<1>. TypeOK /\ StateInv(p)
  BY DEF EInv, IInv
<1>1. SameAttempts(p) /\ \A q \in Payouts \ {p} : SameAttempts(q) /\ conversion'[q] = conversion[q]
  BY DEF CreateConversion, attemptVars, SameAttempts, TypeOK, RowTypeOK
<1>2. conversion[p] = "none" /\ conversion'[p] = "approved" /\ payout[p].state = "NONE"
  BY DEF CreateConversion, StateInv, TypeOK, RowTypeOK
<1>3. PICK c \in Commissions :
        LET fee == CalculateFeeSats(c)
            row == [NoPayout EXCEPT !.amount = c, !.fee = fee]
        IN \/ /\ ReserveCampaignBudget(p, c + fee)
              /\ SetPayout(p, PayableRow(row))
           \/ /\ SetPayout(p, HeldRow(row))
              /\ UNCHANGED budgetVars
  BY DEF CreateConversion
<1>. DEFINE fee == CalculateFeeSats(c)
            row == [NoPayout EXCEPT !.amount = c, !.fee = fee]
<1>4. c \in Nat /\ fee \in Nat
  BY FeeType, PayoutAssumption
<1>5. NoPayout \in PayoutRow
  BY HashType DEF NoPayout, PayoutRow, PayoutStates, PayoutStatuses, Providers
<1>6. /\ row \in PayoutRow /\ row.amount = c /\ row.fee = fee /\ row.reserved = 0 /\ ~row.event
  <2>. HIDE DEF fee
  <2>1. NoPayout.reserved = 0 /\ NoPayout.event = FALSE
    BY DEF NoPayout
  <2>2. /\ row \in PayoutRow /\ row.amount = c /\ row.fee = fee
        /\ row.reserved = NoPayout.reserved /\ row.event = NoPayout.event
    BY <1>4, <1>5 DEF PayoutRow
  <2>. HIDE DEF row
  <2>. QED
    BY <2>1, <2>2
<1>7. \/ ReserveCampaignBudget(p, c + fee) /\ SetPayout(p, PayableRow(row))
      \/ SetPayout(p, HeldRow(row)) /\ UNCHANGED budgetVars
  BY <1>3
<1>. HIDE DEF row, fee
<1>8. CASE ReserveCampaignBudget(p, c + fee) /\ SetPayout(p, PayableRow(row))
  <2>1. payout'[p] = PayableRow(row) /\ \A q \in Payouts \ {p} : payout'[q] = payout[q]
    BY <1>8, SetPayoutFacts
  <2>2. \A q \in Payouts \ {p} : ledger'[q] = ledger[q]
    BY <1>8, BudgetOthers
  <2>3. /\ payout'[p].state = "PAYABLE" /\ payout'[p].reserved = c + fee
        /\ payout'[p].amount = c /\ payout'[p].fee = fee /\ payout'[p].event = FALSE
    BY <1>6, <2>1, RowFields, RowMoney
  <2>4. Created(p)
    BY <1>1, <1>2, <1>8, <2>3 DEF Created
  <2>. QED
    BY <1>1, <2>1, <2>2, <2>4, OthersUntouched DEF OneChanged, Changed
<1>9. CASE SetPayout(p, HeldRow(row)) /\ UNCHANGED budgetVars
  <2>1. payout'[p] = HeldRow(row) /\ \A q \in Payouts \ {p} : payout'[q] = payout[q]
    BY <1>9, SetPayoutFacts
  <2>2. /\ payout'[p].state = "ON_HOLD" /\ payout'[p].reserved = 0 /\ payout'[p].event = FALSE
    BY <1>6, <2>1, RowFields, RowMoney
  <2>3. Created(p)
    BY <1>1, <1>2, <1>9, <2>2 DEF Created
  <2>. QED
    BY <1>1, <1>9, <2>1, <2>3, OthersUntouched DEF OneChanged, Changed, budgetVars
<1>. QED
  BY <1>7, <1>8, <1>9

LEMMA AdminIs == EInv /\ Admin => Classified
<1>. SUFFICES ASSUME EInv, Admin PROVE Classified
  OBVIOUS
<1>. TypeOK /\ \A q \in Payouts : StateInv(q) /\ EvidenceInv(q)
  BY DEF EInv, IInv
<1>1. ASSUME NEW b \in Budgets, UpdateCampaignBudget(b) PROVE Classified
  BY <1>1, AllUntouched
     DEF UpdateCampaignBudget, SetCampaignBudget, counterVars, rowVars, attemptVars, Classified
<1>2. ASSUME NEW s, UpdateCampaignStatus(s) PROVE Classified
  BY <1>2, AllUntouched DEF UpdateCampaignStatus, budgetVars, attemptVars, Classified
<1>3. CASE HoldUnreservedPayouts
  <2>1. UNCHANGED <<budgetVars, conversion, ready, attemptVars, wallet>>
    BY <1>3 DEF HoldUnreservedPayouts
  <2>2. ASSUME NEW q \in Payouts PROVE Untouched(q) \/ Held(q)
    <3>1. payout'[q] = IF UnreservedWithoutLedger(q) THEN HeldRow(payout[q]) ELSE payout[q]
      BY <1>3 DEF HoldUnreservedPayouts
    <3>2. SameAttempts(q) /\ conversion'[q] = conversion[q] /\ ledger'[q] = ledger[q]
          /\ committed' = committed
      BY <2>1 DEF SameAttempts, attemptVars, budgetVars
    <3>3. CASE UnreservedWithoutLedger(q)
      <4>1. payout[q] \in PayoutRow /\ ledger[q]["reserve"] \in Nat
        BY DEF TypeOK, RowTypeOK, BudgetTypeOK, Movements
      <4>2. payout'[q] = HeldRow(payout[q])
        BY <3>1, <3>3
      <4>3. /\ payout[q].state \in OwedStates /\ payout[q].reserved = 0 /\ ledger[q]["reserve"] = 0
        BY <3>3, <4>1 DEF UnreservedWithoutLedger, OwedStates, HasEntry
      <4>4. /\ payout'[q].state = "ON_HOLD" /\ SameAmounts(q)
            /\ payout'[q].reserved = payout[q].reserved
        BY <4>1, <4>2, RowFields, RowMoney DEF SameAmounts
      <4>. QED
        BY <3>2, <4>3, <4>4 DEF Held, SameMoney
    <3>4. CASE ~UnreservedWithoutLedger(q)
      BY <3>1, <3>2, <3>4 DEF Untouched, Same
    <3>. QED
      BY <3>3, <3>4
  <2>. QED
    BY <2>1, <2>2 DEF Classified, NothingButHolds, budgetVars
<1>4. ASSUME NEW p \in Payouts, CreateConversion(p) PROVE Classified
  <2>1. ready \subseteq ready'
    BY <1>4 DEF CreateConversion
  <2>. QED
    BY <1>4, <2>1, CreateIs DEF Classified
<1>5. ASSUME NEW p \in Payouts, BecomeReady(p) PROVE Classified
  BY <1>5, AllUntouched DEF BecomeReady, budgetVars, attemptVars, Classified
<1>6. ASSUME NEW p \in Payouts, ReleasePayoutHold(p) PROVE Classified
  <2>1. /\ payout[p].state = "ON_HOLD" /\ conversion[p] # "reversed"
        /\ ReserveCampaignBudget(p, Obligation(p)) /\ SetPayout(p, PayableRow(payout[p]))
        /\ UNCHANGED <<conversion, ready, attempts, lastAttempt, wallet>>
    BY <1>6 DEF ReleasePayoutHold, attemptVars
  <2>2. payout'[p] = PayableRow(payout[p]) /\ \A q \in Payouts \ {p} : payout'[q] = payout[q]
    BY <2>1, SetPayoutFacts
  <2>3. payout[p] \in PayoutRow
    BY DEF TypeOK, RowTypeOK
  <2>4. payout'[p].state = "PAYABLE" /\ payout'[p].reserved = Obligation(p) /\ SameAmounts(p)
    BY <2>2, <2>3, RowFields, RowMoney DEF SameAmounts, Obligation
  <2>5. Unheld(p)
    BY <2>1, <2>4 DEF Unheld, SameAttempts
  <2>6. \A q \in Payouts \ {p} : ledger'[q] = ledger[q]
    BY <2>1, BudgetOthers
  <2>. QED
    BY <2>1, <2>2, <2>5, <2>6, OthersUntouched DEF Classified, OneChanged, Changed, SameAttempts
<1>7. ASSUME NEW p \in Payouts, ReverseConversion(p) PROVE Classified
  <2>1. /\ conversion[p] # "none" /\ conversion' = [conversion EXCEPT ![p] = "reversed"]
        /\ ApplyReversalToPayout(p) /\ UNCHANGED <<ready, attempts, lastAttempt, wallet>>
    BY <1>7 DEF ReverseConversion, attemptVars
  <2>2. conversion'[p] = "reversed" /\ \A q \in Payouts \ {p} : conversion'[q] = conversion[q]
    BY <2>1 DEF TypeOK, RowTypeOK
  <2>3. payout[p].state # "NONE" /\ StateInv(p) /\ \A q \in Payouts : SameAttempts(q)
    BY <2>1 DEF EvidenceInv, SameAttempts
  <2>4. /\ Voided(p) \/ Doomed(p) \/ FeeVoided(p) \/ ReversedAgain(p)
        /\ \A q \in Payouts \ {p} : payout'[q] = payout[q] /\ ledger'[q] = ledger[q]
    BY <2>1, <2>2, <2>3, ReversalIs
  <2>. QED
    BY <2>1, <2>2, <2>3, <2>4, OthersUntouched DEF Classified, OneChanged, Changed
<1>. QED
  BY <1>1, <1>2, <1>3, <1>4, <1>5, <1>6, <1>7 DEF Admin

-----------------------------------------------------------------------------
(* The steps that several handlers share. *)

LEMMA OutsideIs ==
    ASSUME EInv, NEW p \in Payouts, NEW h, NEW rail \in {"manual", "sandbox"},
           SettledWithoutRail(p, h, rail), payout[p].state \in OwedStates,
           conversion[p] # "reversed", UNCHANGED <<budgetVars, conversion, wallet>>
    PROVE  OneChanged
<1>. DEFINE n == lastAttempt[p] + 1
            x == SettledRow(payout[p], h, rail)
            row == [NoAttempt EXCEPT !.status = "SETTLED", !.rail = rail, !.hash = h]
<1>. TypeOK /\ AttemptsInv(p)
  BY DEF EInv, IInv
<1>1. /\ SetPayout(p, x) /\ SetAttempt(p, n, row)
      /\ n <= MaxAttempts /\ lastAttempt' = [lastAttempt EXCEPT ![p] = n]
  BY DEF SettledWithoutRail
<1>2. payout[p] \in PayoutRow /\ lastAttempt[p] \in 0..MaxAttempts
  BY DEF TypeOK, RowTypeOK, AttemptTypeOK
<1>3. n \in AttemptNumbers /\ n > lastAttempt[p]
  BY <1>1, <1>2, PayoutAssumption DEF AttemptNumbers
<1>4. attempts[p][n] = NoAttempt /\ wallet[p][n] = "none"
  BY <1>3 DEF AttemptsInv
<1>5. row.status = "SETTLED" /\ row.hash = h /\ row.rail = rail
  BY DEF NoAttempt
<1>6. x.state = "SETTLED" /\ x.hash = h
  BY <1>2, RowFields, RowMoney
<1>7. x.amount = payout[p].amount /\ x.fee = payout[p].fee /\ x.event = payout[p].event
      /\ x.reserved = payout[p].reserved
  BY <1>2, RowMoney
<1>8. lastAttempt'[p] = n /\ \A q \in Payouts \ {p} : lastAttempt'[q] = lastAttempt[q]
  BY <1>1 DEF TypeOK, AttemptTypeOK
<1>. HIDE DEF x, row
<1>9. payout'[p] = x /\ \A q \in Payouts \ {p} : payout'[q] = payout[q]
  BY <1>1, SetPayoutFacts
<1>. HIDE DEF n
<1>10. /\ attempts'[p][n] = row
       /\ \A m \in AttemptNumbers \ {n} : attempts'[p][m] = attempts[p][m]
       /\ \A q \in Payouts \ {p} : attempts'[q] = attempts[q]
  BY <1>1, <1>3, SetAttemptFacts
<1>11. SameMoney(p)
  BY <1>7, <1>9 DEF SameMoney, SameAmounts, budgetVars
<1>12. Opens(p, n, rail) /\ AttemptBecomes(p, n, "SETTLED", payout'[p].hash)
  <2>1. n = lastAttempt[p] + 1
    BY DEF n
  <2>. QED
    BY <1>4, <1>5, <1>6, <1>8, <1>9, <1>10, <2>1 DEF Opens, AttemptBecomes
<1>13. PaidOutside(p)
  BY <1>3, <1>6, <1>9, <1>11, <1>12 DEF PaidOutside
<1>14. \A q \in Payouts \ {p} : SameAttempts(q)
  BY <1>8, <1>10 DEF SameAttempts
<1>. QED
  BY <1>9, <1>13, <1>14, OthersUntouched DEF OneChanged, Changed, budgetVars

\* An unresolved attempt gets another row, its payout keeps its money.
LEMMA AttemptStep ==
    ASSUME TypeOK, NEW p \in Payouts, NEW n \in AttemptNumbers, NEW row, SetAttempt(p, n, row),
           UNCHANGED <<lastAttempt, wallet>>
    PROVE  /\ AttemptBecomes(p, n, row.status, row.hash)
           /\ row.rail = attempts[p][n].rail => SameRail(p, n)
           /\ \A q \in Payouts \ {p} : SameAttempts(q)
BY SetAttemptFacts DEF AttemptBecomes, SameRail, SameAttempts

LEMMA EvidenceStored ==
    ASSUME EInv, NEW p \in Payouts, NEW n \in AttemptNumbers, NEW ref,
           StoreSettledEvidence(p, n, ref), attempts[p][n].status \in LiveStatuses,
           wallet[p][n] = "settled",
           UNCHANGED <<budgetVars, conversion, lastAttempt, wallet>>
    PROVE  OneChanged
<1>. DEFINE x == SettledRow(payout[p], InvoiceHash(p, n), payout[p].provider)
            row == [attempts[p][n] EXCEPT !.status = "SETTLED", !.hash = InvoiceHash(p, n), !.ref = ref]
<1>. TypeOK /\ PayoutInv(p)
  BY DEF EInv, IInv, PayoutInv
<1>1. SetPayout(p, x) /\ SetAttempt(p, n, row)
  BY DEF StoreSettledEvidence
<1>2. payout[p] \in PayoutRow /\ attempts[p][n] \in AttemptRow
  BY DEF TypeOK, RowTypeOK, AttemptTypeOK
<1>3. row.status = "SETTLED" /\ row.hash = InvoiceHash(p, n) /\ row.rail = attempts[p][n].rail
  BY <1>2 DEF AttemptRow
<1>4. /\ x.state = "SETTLED" /\ x.hash = InvoiceHash(p, n)
      /\ x.amount = payout[p].amount /\ x.fee = payout[p].fee
      /\ x.event = payout[p].event /\ x.reserved = payout[p].reserved
  BY <1>2, RowFields, RowMoney
<1>5. n = lastAttempt[p] /\ payout[p].state \in InFlightStates
  BY LiveIsLast
<1>. HIDE DEF x, row
<1>6. payout'[p] = x /\ \A q \in Payouts \ {p} : payout'[q] = payout[q]
  BY <1>1, SetPayoutFacts
<1>7. /\ AttemptBecomes(p, n, "SETTLED", InvoiceHash(p, n)) /\ SameRail(p, n)
      /\ \A q \in Payouts \ {p} : SameAttempts(q)
  BY <1>1, <1>3, AttemptStep
<1>8. SameMoney(p)
  BY <1>4, <1>6 DEF SameMoney, SameAmounts, budgetVars
<1>9. SettledBy(p)
  BY <1>4, <1>5, <1>6, <1>7, <1>8 DEF SettledBy
<1>. QED
  BY <1>6, <1>7, <1>9, OthersUntouched DEF OneChanged, Changed, budgetVars

\* The attempt stays unresolved.
LEMMA MarkedStep ==
    ASSUME EInv, NEW p \in Payouts, NEW n \in AttemptNumbers, NEW row, SetAttempt(p, n, row),
           attempts[p][n].status \in LiveStatuses, row.status \in LiveStatuses,
           row.hash \in {NoHash, InvoiceHash(p, n)}, row.rail = attempts[p][n].rail,
           Rail = "nwc" => row.hash \in {attempts[p][n].hash, InvoiceHash(p, n)},
           UNCHANGED <<budgetVars, conversion, lastAttempt, wallet>>,
           payout'[p].state = payout[p].state, payout'[p].reserved = payout[p].reserved,
           SameAmounts(p), \A q \in Payouts \ {p} : payout'[q] = payout[q]
    PROVE  OneChanged
<1>. TypeOK /\ PayoutInv(p)
  BY DEF EInv, IInv, PayoutInv
<1>1. n = lastAttempt[p] /\ payout[p].state \in InFlightStates
  BY LiveIsLast
<1>2. /\ AttemptBecomes(p, n, row.status, row.hash) /\ SameRail(p, n)
      /\ \A q \in Payouts \ {p} : SameAttempts(q)
  BY AttemptStep
<1>3. SameMoney(p)
  BY DEF SameMoney, budgetVars
<1>4. Marked(p)
  BY <1>1, <1>2, <1>3 DEF Marked
<1>. QED
  BY <1>2, <1>4, OthersUntouched DEF OneChanged, Changed, budgetVars

LEMMA UnknownIs ==
    ASSUME EInv, NEW p \in Payouts, NEW n \in AttemptNumbers, NEW h, NEW ref, NEW k,
           attempts[p][n].status = "PAYING",
           MarkAttemptUnknown(p, n, h, ref), MarkPayoutUnknown(p, k),
           h \in {NoHash, InvoiceHash(p, n)},
           Rail = "nwc" => h \in {attempts[p][n].hash, InvoiceHash(p, n)},
           UNCHANGED <<budgetVars, conversion, lastAttempt, wallet>>
    PROVE  OneChanged
<1>. DEFINE row == [attempts[p][n] EXCEPT !.status = "UNKNOWN", !.hash = h, !.ref = ref]
            x == [payout[p] EXCEPT !.status = "payment_unknown", !.hash = IF k = NoHash THEN @ ELSE k]
<1>. TypeOK
  BY DEF EInv, IInv
<1>1. payout[p] \in PayoutRow /\ attempts[p][n] \in AttemptRow
  BY DEF TypeOK, RowTypeOK, AttemptTypeOK
<1>2. SetAttempt(p, n, row)
  BY DEF MarkAttemptUnknown
<1>3. row.status = "UNKNOWN" /\ row.hash = h /\ row.rail = attempts[p][n].rail
  BY <1>1 DEF AttemptRow
<1>4. /\ x.state = payout[p].state /\ x.amount = payout[p].amount /\ x.fee = payout[p].fee
      /\ x.event = payout[p].event /\ x.reserved = payout[p].reserved
  BY <1>1 DEF PayoutRow
<1>5. payout' = payout \/ SetPayout(p, x)
  BY DEF MarkPayoutUnknown
<1>. HIDE DEF row, x
<1>6. /\ payout'[p].state = payout[p].state /\ payout'[p].reserved = payout[p].reserved
      /\ SameAmounts(p) /\ \A q \in Payouts \ {p} : payout'[q] = payout[q]
  BY <1>4, <1>5, SetPayoutFacts DEF SameAmounts
<1>. QED
  BY <1>2, <1>3, <1>6, MarkedStep DEF LiveStatuses

-----------------------------------------------------------------------------
(* The wallet, and the starts of handlers. *)

LEMMA WalletIs == EInv /\ Wallet => Classified
<1>. SUFFICES ASSUME EInv, NEW p \in Payouts, NEW n \in AttemptNumbers,
                     WalletTakes(p, n) \/ WalletSettles(p, n) \/ WalletFails(p, n)
              PROVE  Classified
  BY DEF Wallet, WalletDecides
<1>. TypeOK
  BY DEF EInv, IInv
<1>1. UNCHANGED <<budgetVars, ready, payout, conversion, attempts, lastAttempt>>
  BY DEF WalletTakes, WalletSettles, WalletFails, rowVars, attemptVars
<1>2. PICK a \in {"inflight", "settled", "failed"} :
        wallet[p][n] \in {"queued", "inflight"} /\ wallet' = [wallet EXCEPT ![p][n] = a]
  BY DEF WalletTakes, WalletSettles, WalletFails
<1>3. wallet'[p] = [wallet[p] EXCEPT ![n] = a] /\ \A q \in Payouts \ {p} : wallet'[q] = wallet[q]
  BY <1>2 DEF TypeOK, AttemptTypeOK
<1>4. Answered(p)
  BY <1>1, <1>2, <1>3 DEF Answered, SameMoney, SameAmounts, budgetVars
<1>. QED
  BY <1>1, <1>3, <1>4, OthersUntouched DEF Classified, OneChanged, Changed, SameAttempts, budgetVars

LEMMA StartIs == ASSUME NEW w \in Workers PROVE EInv /\ StartHandler(w) => Classified
<1>. SUFFICES ASSUME EInv, NEW p \in Payouts,
                     \/ StartExecute(w, p) \/ RetryProof(w, p) \/ ManualSettlementAgain(w, p)
                     \/ \E h \in ManualHashes : ManualSettlement(w, p, h) \/ MarkPaid(w, p, h)
                     \/ \E n \in AttemptNumbers : StartRefresh(w, p, n) \/ ReconcileAttempt(w, p, n)
              PROVE  Classified
  BY DEF StartHandler
<1>. TypeOK /\ EvidenceInv(p)
  BY DEF EInv, IInv
<1>1. CASE StartExecute(w, p) \/ RetryProof(w, p) \/ ManualSettlementAgain(w, p)
  BY <1>1, AllUntouched
     DEF StartExecute, RetryProof, ManualSettlementAgain, budgetVars, rowVars, attemptVars, Classified
<1>2. ASSUME NEW h \in ManualHashes, ManualSettlement(w, p, h) PROVE Classified
  <2>1. /\ SettledWithoutRail(p, h, "manual") /\ payout[p].state \in OwedStates
        /\ conversion[p] # "reversed" /\ UNCHANGED <<budgetVars, conversion, ready, wallet>>
    BY <1>2 DEF ManualSettlement, ManuallyPayable, OwedStates
  <2>. QED
    BY <2>1, OutsideIs DEF Classified
<1>3. ASSUME NEW h \in ManualHashes, MarkPaid(w, p, h) PROVE Classified
  <2>1. UNCHANGED <<budgetVars, conversion, ready, wallet>>
    BY <1>3 DEF MarkPaid
  <2>2. CASE Claimable(p) /\ SettledWithoutRail(p, h, "sandbox")
    <3>1. payout[p].state \in OwedStates /\ conversion[p] # "reversed"
      BY <2>2 DEF Claimable, OwedStates
    <3>. QED
      BY <2>1, <2>2, <3>1, OutsideIs DEF Classified
  <2>3. CASE UNCHANGED <<payout, attemptVars>>
    BY <2>1, <2>3, AllUntouched DEF Classified, budgetVars, attemptVars
  <2>. QED
    BY <1>3, <2>2, <2>3 DEF MarkPaid
<1>4. ASSUME NEW n \in AttemptNumbers, StartRefresh(w, p, n) PROVE Classified
  <2>. DEFINE row == [attempts[p][n] EXCEPT !.ref = Reference(p, n)]
  <2>1. /\ SetAttempt(p, n, row) /\ attempts[p][n].status = "UNKNOWN"
        /\ UNCHANGED <<budgetVars, payout, conversion, ready, lastAttempt, wallet>>
    BY <1>4 DEF StartRefresh, rowVars
  <2>2. attempts[p][n] \in AttemptRow
    BY DEF TypeOK, AttemptTypeOK
  <2>3. row.status = "UNKNOWN" /\ row.hash = attempts[p][n].hash /\ row.rail = attempts[p][n].rail
    BY <2>1, <2>2 DEF AttemptRow
  <2>. HIDE DEF row
  <2>4. attempts[p][n].status \in LiveStatuses /\ row.status \in LiveStatuses
    BY <2>1, <2>3 DEF LiveStatuses
  <2>5. row.hash \in {NoHash, InvoiceHash(p, n)}
    BY <2>3, <2>4 DEF EvidenceInv
  <2>6. SameAmounts(p)
    BY <2>1 DEF SameAmounts
  <2>. QED
    BY <2>1, <2>3, <2>4, <2>5, <2>6, MarkedStep DEF Classified
<1>5. ASSUME NEW n \in AttemptNumbers, ReconcileAttempt(w, p, n) PROVE Classified
  <2>1. /\ StoreSettledEvidence(p, n, attempts[p][n].ref) /\ wallet[p][n] = "settled"
        /\ attempts[p][n].status \in LiveStatuses
        /\ UNCHANGED <<budgetVars, conversion, ready, lastAttempt, wallet>>
    BY <1>5 DEF ReconcileAttempt, LiveStatuses
  <2>. QED
    BY <2>1, EvidenceStored DEF Classified
<1>. QED
  BY <1>1, <1>2, <1>3, <1>4, <1>5

-----------------------------------------------------------------------------
(* The steps of execute_payout. *)

LEMMA FailedIs ==
    ASSUME EInv, NEW p \in Payouts, NEW n \in AttemptNumbers,
           SetAttempt(p, n, [attempts[p][n] EXCEPT !.status = "FAILED"]),
           attempts[p][n].status \in LiveStatuses, wallet[p][n] \in {"none", "failed"},
           \/ /\ payout[p].state = "CANCEL_PENDING" /\ conversion[p] = "reversed"
              /\ \E m \in Releases : ReleaseCampaignBudget(p, payout[p].reserved, m)
              /\ SetPayout(p, CancelledRow(payout[p]))
           \/ /\ payout[p].state = "PAYING"
              /\ SetPayout(p, FailedRow(payout[p]))
              /\ UNCHANGED budgetVars,
           UNCHANGED <<conversion, lastAttempt, wallet>>
    PROVE  OneChanged
<1>. DEFINE row == [attempts[p][n] EXCEPT !.status = "FAILED"]
<1>. TypeOK /\ PayoutInv(p)
  BY DEF EInv, IInv, PayoutInv
<1>1. payout[p] \in PayoutRow /\ attempts[p][n] \in AttemptRow /\ n = lastAttempt[p]
  BY LiveIsLast DEF TypeOK, RowTypeOK, AttemptTypeOK
<1>2. row.status = "FAILED" /\ row.hash = attempts[p][n].hash /\ row.rail = attempts[p][n].rail
  BY <1>1 DEF AttemptRow
<1>3. SetAttempt(p, n, row)
  OBVIOUS
<1>. HIDE DEF row
<1>4. /\ AttemptBecomes(p, n, "FAILED", attempts[p][n].hash) /\ SameRail(p, n)
      /\ \A q \in Payouts \ {p} : SameAttempts(q)
  BY <1>2, <1>3, AttemptStep
<1>5. CASE /\ payout[p].state = "CANCEL_PENDING" /\ conversion[p] = "reversed"
           /\ \E m \in Releases : ReleaseCampaignBudget(p, payout[p].reserved, m)
           /\ SetPayout(p, CancelledRow(payout[p]))
  <2>1. payout'[p] = CancelledRow(payout[p]) /\ \A q \in Payouts \ {p} : payout'[q] = payout[q]
    BY <1>5, SetPayoutFacts
  <2>2. payout'[p].state = "CANCELLED" /\ payout'[p].reserved = 0 /\ SameAmounts(p)
    BY <1>1, <2>1, RowFields, RowMoney DEF SameAmounts
  <2>3. Failed(p)
    BY <1>1, <1>4, <1>5, <2>2 DEF Failed, ReleasesAll
  <2>4. \A q \in Payouts \ {p} : ledger'[q] = ledger[q]
    BY <1>5, BudgetOthers
  <2>. QED
    BY <1>4, <2>1, <2>3, <2>4, OthersUntouched DEF OneChanged, Changed
<1>6. CASE /\ payout[p].state = "PAYING"
           /\ SetPayout(p, FailedRow(payout[p])) /\ UNCHANGED budgetVars
  <2>1. payout'[p] = FailedRow(payout[p]) /\ \A q \in Payouts \ {p} : payout'[q] = payout[q]
    BY <1>6, SetPayoutFacts
  <2>2. payout'[p].state = "FAILED" /\ payout'[p].reserved = payout[p].reserved /\ SameAmounts(p)
    BY <1>1, <2>1, RowFields, RowMoney DEF SameAmounts
  <2>3. Failed(p)
    BY <1>1, <1>4, <1>6, <2>2 DEF Failed, SameMoney, budgetVars
  <2>. QED
    BY <1>4, <1>6, <2>1, <2>3, OthersUntouched DEF OneChanged, Changed, budgetVars
<1>. QED
  BY <1>5, <1>6

LEMMA ClaimIs ==
    ASSUME EInv, NEW w \in Workers, ClaimPayout(w)
    PROVE  OneChanged
<1>. TypeOK
  BY DEF EInv, IInv
<1>p. PICK p : p = job[w].payout
  OBVIOUS
<1>. DEFINE n == lastAttempt[p] + 1
            x == ClaimedRow(payout[p])
            row == [NoAttempt EXCEPT !.status = "PAYING", !.rail = Rail]
<1>1. /\ SetPayout(p, x) /\ SetAttempt(p, n, row) /\ job[w].step = "claim" /\ Claimable(p)
      /\ n <= MaxAttempts /\ lastAttempt' = [lastAttempt EXCEPT ![p] = n]
      /\ UNCHANGED <<budgetVars, conversion, wallet>>
  BY <1>p DEF ClaimPayout
<1>2. p \in Payouts /\ p \in ready
  BY <1>1, <1>p, JobFacts DEF EInv, HandlerInv
<1>3. /\ payout[p] \in PayoutRow /\ lastAttempt[p] \in 0..MaxAttempts /\ AttemptsInv(p)
      /\ payout[p].state \in OwedStates /\ conversion[p] # "reversed"
  BY <1>1, <1>2 DEF EInv, IInv, TypeOK, RowTypeOK, AttemptTypeOK, Claimable, OwedStates
<1>4. n \in AttemptNumbers /\ n > lastAttempt[p]
  BY <1>1, <1>3, PayoutAssumption DEF AttemptNumbers
<1>5. attempts[p][n] = NoAttempt /\ wallet[p][n] = "none"
  BY <1>3, <1>4 DEF AttemptsInv
<1>6. row.status = "PAYING" /\ row.hash = NoHash /\ row.rail = Rail
  BY DEF NoAttempt
<1>7. /\ x.state = "PAYING" /\ x.amount = payout[p].amount /\ x.fee = payout[p].fee
      /\ x.event = payout[p].event /\ x.reserved = payout[p].reserved
  BY <1>3, RowFields, RowMoney
<1>8. lastAttempt'[p] = n /\ \A q \in Payouts \ {p} : lastAttempt'[q] = lastAttempt[q]
  BY <1>1, <1>2 DEF TypeOK, AttemptTypeOK
<1>9. n = lastAttempt[p] + 1
  OBVIOUS
<1>. HIDE DEF x, row, n
<1>10. payout'[p] = x /\ \A q \in Payouts \ {p} : payout'[q] = payout[q]
  BY <1>1, <1>2, SetPayoutFacts
<1>11. /\ attempts'[p][n] = row
       /\ \A m \in AttemptNumbers \ {n} : attempts'[p][m] = attempts[p][m]
       /\ \A q \in Payouts \ {p} : attempts'[q] = attempts[q]
  BY <1>1, <1>2, <1>4, SetAttemptFacts
<1>12. SameMoney(p)
  BY <1>1, <1>7, <1>10 DEF SameMoney, SameAmounts, budgetVars
<1>13. Opens(p, n, Rail) /\ AttemptBecomes(p, n, "PAYING", NoHash)
  BY <1>1, <1>5, <1>6, <1>8, <1>9, <1>11 DEF Opens, AttemptBecomes
<1>14. Claimed(p)
  BY <1>1, <1>2, <1>3, <1>4, <1>7, <1>10, <1>12, <1>13 DEF Claimed
<1>15. \A q \in Payouts \ {p} : SameAttempts(q)
  BY <1>1, <1>8, <1>11 DEF SameAttempts
<1>. QED
  BY <1>1, <1>2, <1>10, <1>14, <1>15, OthersUntouched DEF OneChanged, Changed, budgetVars

LEMMA PreparedIs ==
    ASSUME EInv, NEW w \in Workers, RecordPreparedEvidence(w)
    PROVE  OneChanged
<1>p. PICK p, n : p = job[w].payout /\ n = job[w].attempt
  OBVIOUS
<1>. DEFINE row == [attempts[p][n] EXCEPT !.hash = InvoiceHash(p, n)]
            x == [payout[p] EXCEPT !.hash = InvoiceHash(p, n)]
<1>1. /\ SetAttempt(p, n, row) /\ SetPayout(p, x) /\ job[w].step \in PayingSteps
      /\ UNCHANGED <<budgetVars, conversion, lastAttempt, wallet>>
  BY SMTT(30), <1>p DEF RecordPreparedEvidence, PayingSteps
<1>. TypeOK
  BY DEF EInv, IInv
<1>2. /\ p \in Payouts /\ n \in AttemptNumbers /\ payout[p] \in PayoutRow
      /\ attempts[p][n] \in AttemptRow /\ attempts[p][n].status \in LiveStatuses
  BY <1>p, <1>1, PayingFacts DEF EInv
<1>3. row.status = attempts[p][n].status /\ row.hash = InvoiceHash(p, n) /\ row.rail = attempts[p][n].rail
  BY <1>2 DEF AttemptRow
<1>4. /\ x.state = payout[p].state /\ x.amount = payout[p].amount /\ x.fee = payout[p].fee
      /\ x.event = payout[p].event /\ x.reserved = payout[p].reserved
  BY <1>2 DEF PayoutRow
<1>. HIDE DEF row, x
<1>5. payout'[p] = x /\ \A q \in Payouts \ {p} : payout'[q] = payout[q]
  BY <1>1, <1>2, SetPayoutFacts
<1>6. SameAmounts(p)
  BY <1>4, <1>5 DEF SameAmounts
<1>. QED
  BY <1>1, <1>2, <1>3, <1>4, <1>5, <1>6, MarkedStep

LEMMA SendIs ==
    ASSUME EInv, NEW w \in Workers, SendPayment(w)
    PROVE  OneChanged
<1>p. PICK p, n : p = job[w].payout /\ n = job[w].attempt
  OBVIOUS
<1>. TypeOK
  BY DEF EInv, IInv
<1>1. /\ job[w].step = "send" /\ job[w].step \in PayingSteps
      /\ wallet' = [wallet EXCEPT ![p][n] = IF Rail = "nwc" THEN "queued" ELSE "inflight"]
      /\ UNCHANGED <<budgetVars, payout, conversion, attempts, lastAttempt>>
  BY <1>p DEF SendPayment, rowVars, attemptVars, PayingSteps
<1>2. /\ p \in Payouts /\ n \in AttemptNumbers /\ n = lastAttempt[p]
      /\ attempts[p][n].status = "PAYING"
  BY <1>p, <1>1, PayingFacts DEF EInv
<1>3. wallet[p][n] = "none" /\ (Rail = "nwc" => attempts[p][n].hash = InvoiceHash(p, n))
  BY <1>p, <1>1 DEF EInv, IInv, WorkerInv, HandlerInv
<1>4. /\ \E o \in {"queued", "inflight"} : wallet'[p] = [wallet[p] EXCEPT ![n] = o]
      /\ \A q \in Payouts \ {p} : wallet'[q] = wallet[q]
  BY <1>1, <1>2 DEF TypeOK, AttemptTypeOK
<1>5. SentOut(p)
  BY <1>1, <1>2, <1>3, <1>4 DEF SentOut, SameMoney, SameAmounts, budgetVars
<1>. QED
  BY <1>1, <1>2, <1>4, <1>5, OthersUntouched DEF OneChanged, Changed, SameAttempts, budgetVars

LEMMA ExecuteIs ==
    ASSUME NEW w \in Workers
    PROVE  EInv /\ (ExecuteStep(w) \/ RecordException(w)) => Classified
<1>. SUFFICES ASSUME EInv, ExecuteStep(w) \/ RecordException(w) PROVE Classified
  OBVIOUS
<1>p. PICK p, n : p = job[w].payout /\ n = job[w].attempt
  OBVIOUS
<1>r. ready \subseteq ready'
  BY DEF ExecuteStep, ClaimPayout, ClaimRefused, RecordPreparedEvidence, SendPayment, RecordAmbiguous,
         RecordPending, RecordFailure, RecordMismatch, RecordSuccess, RecordException, rowVars
<1>. TypeOK
  BY DEF EInv, IInv
<1>u. ASSUME job[w].step \in PayingSteps
      PROVE  /\ p \in Payouts /\ n \in AttemptNumbers /\ PayoutInv(p)
             /\ attempts[p][n].status = "PAYING" /\ attempts[p][n].status \in LiveStatuses
             /\ attempts[p][n].hash \in {NoHash, InvoiceHash(p, n)}
             /\ payout[p].state \in InFlightStates
  <2>1. /\ p \in Payouts /\ n \in AttemptNumbers /\ PayoutInv(p)
        /\ attempts[p][n].status = "PAYING" /\ attempts[p][n].status \in LiveStatuses
        /\ payout[p].state \in InFlightStates
    BY <1>p, <1>u, PayingFacts DEF EInv
  <2>. QED
    BY <2>1 DEF EInv, EvidenceInv
<1>1. CASE ClaimRefused(w)
  BY <1>1, <1>r, AllUntouched DEF ClaimRefused, Classified, budgetVars, rowVars, attemptVars
<1>2. CASE RecordAmbiguous(w)
  <2>1. /\ MarkAttemptUnknown(p, n, InvoiceHash(p, n), InvoiceHash(p, n))
        /\ MarkPayoutUnknown(p, InvoiceHash(p, n)) /\ job[w].step \in PayingSteps
        /\ UNCHANGED <<budgetVars, conversion, lastAttempt, wallet>>
    BY <1>p, <1>2 DEF RecordAmbiguous, PayingSteps
  <2>. QED
    BY <1>r, <1>u, <2>1, UnknownIs DEF Classified
<1>3. CASE RecordException(w)
  <2>1. /\ MarkAttemptUnknown(p, n, attempts[p][n].hash, attempts[p][n].ref)
        /\ MarkPayoutUnknown(p, NoHash) /\ job[w].step \in PayingSteps
        /\ UNCHANGED <<budgetVars, conversion, lastAttempt, wallet>>
    BY <1>p, <1>3 DEF RecordException, PayingSteps
  <2>. QED
    BY <1>r, <1>u, <2>1, UnknownIs DEF Classified
<1>4. CASE RecordPending(w)
  <2>1. PICK h \in {NoHash, InvoiceHash(p, n)}, ref \in {NoHash, InvoiceHash(p, n)} :
          MarkAttemptUnknown(p, n, h, ref) /\ MarkPayoutUnknown(p, h)
    BY <1>p, <1>4 DEF RecordPending
  <2>2. /\ job[w].step \in PayingSteps /\ Rail # "nwc"
        /\ UNCHANGED <<budgetVars, conversion, lastAttempt, wallet>>
    BY <1>4 DEF RecordPending, PayingSteps
  <2>. QED
    BY <1>r, <1>u, <2>1, <2>2, UnknownIs DEF Classified
<1>5. CASE RecordMismatch(w)
  <2>1. job[w].step \in PayingSteps /\ UNCHANGED <<budgetVars, conversion, lastAttempt, wallet>>
    BY <1>5 DEF RecordMismatch, PayingSteps
  <2>2. CASE /\ MarkAttemptUnknown(p, n, attempts[p][n].hash, attempts[p][n].ref)
             /\ MarkPayoutUnknown(p, NoHash)
    BY <1>r, <1>u, <2>1, <2>2, UnknownIs DEF Classified
  <2>3. CASE UNCHANGED <<attempts, payout>>
    BY <1>r, <2>1, <2>3, AllUntouched DEF Classified, budgetVars
  <2>. QED
    BY <1>p, <1>5, <2>2, <2>3 DEF RecordMismatch
<1>6. CASE RecordFailure(w)
  <2>1. /\ job[w].step \in PayingSteps /\ wallet[p][n] = "none"
        /\ UNCHANGED <<conversion, lastAttempt, wallet>>
    BY <1>p, <1>6 DEF RecordFailure, FailsBeforeSending, PayingSteps, EInv, IInv, WorkerInv
  <2>2. SetAttempt(p, n, [attempts[p][n] EXCEPT !.status = "FAILED"])
    BY <1>p, <1>6, <1>u, <2>1 DEF RecordFailure
  <2>3. \/ /\ payout[p].state = "CANCEL_PENDING" /\ conversion[p] = "reversed"
           /\ \E m \in Releases : ReleaseCampaignBudget(p, payout[p].reserved, m)
           /\ SetPayout(p, CancelledRow(payout[p]))
        \/ /\ payout[p].state = "PAYING"
           /\ SetPayout(p, FailedRow(payout[p]))
           /\ UNCHANGED budgetVars
    <3>1. CASE payout[p].state = "CANCEL_PENDING"
      <4>1. conversion[p] = "reversed" /\ "inflight_reversal_release" \in Releases
        BY <1>u, <2>1, <3>1 DEF PayoutInv, StateInv, Releases
      <4>. QED
        BY <1>p, <1>6, <3>1, <4>1 DEF RecordFailure
    <3>2. CASE payout[p].state = "PAYING"
      BY <1>p, <1>6, <3>2 DEF RecordFailure
    <3>. QED
      BY <1>u, <2>1, <3>1, <3>2 DEF InFlightStates
  <2>. QED
    BY <1>r, <1>u, <2>1, <2>2, <2>3, FailedIs DEF Classified
<1>7. CASE RecordSuccess(w)
  <2>1. /\ StoreSettledEvidence(p, n, InvoiceHash(p, n)) /\ wallet[p][n] = "settled"
        /\ job[w].step \in PayingSteps /\ UNCHANGED <<budgetVars, conversion, lastAttempt, wallet>>
    BY <1>p, <1>7 DEF RecordSuccess, PayingSteps
  <2>. QED
    BY <1>r, <1>u, <2>1, EvidenceStored DEF Classified
<1>. QED
  BY <1>r, <1>1, <1>2, <1>3, <1>4, <1>5, <1>6, <1>7, ClaimIs, PreparedIs, SendIs DEF ExecuteStep, Classified

-----------------------------------------------------------------------------
(* The steps of finalize_payout_paid and of the refresh, and every step. *)

LEMMA FinalizeIs == ASSUME NEW w \in Workers PROVE EInv /\ FinalizeStep(w) => Classified
<1>. SUFFICES ASSUME EInv, FinalizeStep(w) PROVE Classified
  OBVIOUS
<1>p. PICK p : p = job[w].payout
  OBVIOUS
<1>. TypeOK
  BY DEF EInv, IInv
<1>s. job[w].step \in ProvingSteps
  BY DEF FinalizeStep, FinalizeRefused, FinalizeDuplicate, FinalizePayoutPaid, PublishProof, PublishAnswered,
         ApplyExistingReversal, ProvingSteps
<1>a. /\ p \in Payouts /\ payout[p] \in PayoutRow /\ StateInv(p) /\ EvidenceInv(p)
      /\ payout[p].state \in PaidStates /\ payout[p].status = "paid"
  <2>1. p \in Payouts /\ payout[p] \in PayoutRow
    BY <1>p, <1>s, JobFacts DEF ProvingSteps
  <2>2. StateInv(p) /\ EvidenceInv(p) /\ payout[p].state \in PaidStates
    BY <1>p, <1>s, <2>1 DEF EInv, IInv, WorkerInv
  <2>. QED
    BY <2>1, <2>2 DEF StateInv
<1>r. ready \subseteq ready' /\ UNCHANGED <<conversion, attempts, lastAttempt, wallet>>
  BY DEF FinalizeStep, FinalizeRefused, FinalizeDuplicate, FinalizePayoutPaid, PublishProof, PublishAnswered,
         ApplyExistingReversal, rowVars, attemptVars
<1>1. CASE UNCHANGED <<budgetVars, payout>>
  BY <1>r, <1>1, AllUntouched DEF Classified, budgetVars
<1>2. CASE FinalizePayoutPaid(w)
  <2>. DEFINE r == payout[p]
              h == job[w].hash
              y == SettledRow(r, h, job[w].provider)
              k == IF r.reserved >= r.amount THEN r.reserved - r.amount ELSE r.reserved
              x == [y EXCEPT !.event = TRUE,
                      !.reserved = IF r.reserved >= r.amount THEN @ - r.amount ELSE @]
  <2>1. /\ SetPayout(p, x) /\ ~HashUsedElsewhere(p, h) /\ ~HasProof(p) /\ job[w].step = "finalize"
        /\ IF r.reserved >= r.amount THEN SettleCampaignBudget(p, r.amount) ELSE UNCHANGED budgetVars
    BY <1>p, <1>2 DEF FinalizePayoutPaid
  <2>2. h \in Hashes /\ job[w].provider \in Providers
    BY <1>p, <1>s, JobFacts DEF ProvingSteps
  <2>3. /\ y \in PayoutRow /\ y.state = "SETTLED" /\ y.hash = h
        /\ y.amount = r.amount /\ y.fee = r.fee /\ y.reserved = r.reserved
    BY <1>a, <2>2, SettledType, RowFields, RowMoney
  <2>. HIDE DEF y
  <2>4. /\ x.state = "SETTLED" /\ x.hash = h /\ x.amount = r.amount /\ x.fee = r.fee
        /\ x.event = TRUE /\ x.reserved = k
    BY <2>3 DEF PayoutRow
  <2>. HIDE DEF x
  <2>5. payout'[p] = x /\ \A q \in Payouts \ {p} : payout'[q] = payout[q]
    BY <1>a, <2>1, SetPayoutFacts
  <2>6. ~r.event
    BY <1>a, <2>1 DEF HasProof
  <2>7. r.state = "SETTLED"
    BY <1>a, <2>6 DEF EvidenceInv, PaidStates
  <2>8. \A q \in Payouts \ {p} : payout[q].hash # h
    BY <2>1 DEF HashUsedElsewhere
  <2>9. ~SandboxEnabled => h = r.hash
    BY <1>p, <2>1 DEF EInv, HandlerInv
  <2>10. r.reserved \in Nat /\ r.amount \in Nat
    BY <1>a DEF PayoutRow
  <2>11. \/ /\ r.reserved >= r.amount /\ x.reserved = r.reserved - r.amount
            /\ SettleCampaignBudget(p, r.amount)
         \/ /\ r.reserved < r.amount /\ x.reserved = r.reserved /\ UNCHANGED budgetVars
    BY <2>1, <2>4, <2>10
  <2>12. Proved(p)
    BY <1>r, <2>4, <2>5, <2>6, <2>7, <2>8, <2>9, <2>11 DEF Proved, SameAttempts
  <2>13. \A q \in Payouts \ {p} : ledger'[q] = ledger[q]
    BY <1>a, <2>11, BudgetOthers
  <2>. QED
    BY <1>a, <1>r, <2>5, <2>12, <2>13, OthersUntouched DEF Classified, OneChanged, Changed, SameAttempts
<1>3. CASE PublishProof(w)
  <2>. PICK acked \in RelayAnswers : PublishAnswered(w, acked)
    BY <1>3 DEF PublishProof
  <2>1. UNCHANGED budgetVars
    BY DEF PublishAnswered
  <2>2. PICK s \in {"PUBLISHED", payout[p].state} :
          /\ SetPayout(p, [payout[p] EXCEPT !.state = s, !.relayed = @ \/ acked])
          /\ s = payout[p].state \/ payout[p].event
    BY <1>p DEF PublishAnswered
  <2>. DEFINE x == [payout[p] EXCEPT !.state = s, !.relayed = @ \/ acked]
  <2>3. /\ x.state = s /\ x.hash = payout[p].hash /\ x.amount = payout[p].amount
        /\ x.fee = payout[p].fee /\ x.event = payout[p].event /\ x.reserved = payout[p].reserved
    BY <1>a DEF PayoutRow
  <2>. HIDE DEF x
  <2>4. payout'[p] = x /\ \A q \in Payouts \ {p} : payout'[q] = payout[q]
    BY <1>a, <2>2, SetPayoutFacts DEF x
  <2>5. Published(p)
    BY <1>a, <1>r, <2>1, <2>2, <2>3, <2>4 DEF Published, SameMoney, SameAmounts, SameAttempts, budgetVars
  <2>. QED
    BY <1>a, <1>r, <2>1, <2>4, <2>5, OthersUntouched
       DEF Classified, OneChanged, Changed, SameAttempts, budgetVars
<1>4. CASE ApplyExistingReversal(w)
  <2>1. CASE conversion[p] = "reversed" /\ ApplyReversalToPayout(p)
    <3>1. conversion'[p] = "reversed" /\ payout[p].state # "NONE" /\ \A q \in Payouts : SameAttempts(q)
      BY <1>a, <1>r, <2>1 DEF SameAttempts, PaidStates
    <3>2. /\ Voided(p) \/ Doomed(p) \/ FeeVoided(p) \/ ReversedAgain(p)
          /\ \A q \in Payouts \ {p} : payout'[q] = payout[q] /\ ledger'[q] = ledger[q]
      BY <1>a, <2>1, <3>1, ReversalIs
    <3>. QED
      BY <1>a, <1>r, <3>1, <3>2, OthersUntouched DEF Classified, OneChanged, Changed
  <2>. QED
    BY <1>p, <1>1, <1>4, <2>1 DEF ApplyExistingReversal
<1>. QED
  BY <1>1, <1>2, <1>3, <1>4 DEF FinalizeStep, FinalizeRefused, FinalizeDuplicate, rowVars

LEMMA RefreshIs == ASSUME NEW w \in Workers PROVE EInv /\ RefreshStep(w) => Classified
<1>. SUFFICES ASSUME EInv, RefreshStep(w) PROVE Classified
  OBVIOUS
<1>p. PICK p, n : p = job[w].payout /\ n = job[w].attempt
  OBVIOUS
<1>. TypeOK
  BY DEF EInv, IInv
<1>1. p \in Payouts /\ n \in AttemptNumbers
  BY <1>p, JobFacts DEF RefreshStep, RefreshUnresolved, RefreshFailed, RefreshSettled
<1>2. CASE RefreshUnresolved(w)
  BY <1>2, AllUntouched DEF RefreshUnresolved, Classified, budgetVars, rowVars, attemptVars
<1>3. CASE RefreshFailed(w)
  <2>1. /\ attempts[p][n].status \in LiveStatuses /\ wallet[p][n] \in {"none", "failed"}
        /\ SetAttempt(p, n, [attempts[p][n] EXCEPT !.status = "FAILED"])
        /\ UNCHANGED <<conversion, ready, lastAttempt, wallet>>
    BY <1>p, <1>3 DEF RefreshFailed, Refreshable, LiveStatuses
  <2>2. "provider_reconciled_reversal_release" \in Releases
    BY DEF Releases
  <2>3. \/ /\ payout[p].state = "CANCEL_PENDING" /\ conversion[p] = "reversed"
           /\ \E m \in Releases : ReleaseCampaignBudget(p, payout[p].reserved, m)
           /\ SetPayout(p, CancelledRow(payout[p]))
        \/ /\ payout[p].state = "PAYING"
           /\ SetPayout(p, FailedRow(payout[p]))
           /\ UNCHANGED budgetVars
    BY <1>p, <1>3, <2>2 DEF RefreshFailed
  <2>. QED
    BY <1>1, <2>1, <2>3, FailedIs DEF Classified
<1>4. CASE RefreshSettled(w)
  <2>1. /\ attempts[p][n].status \in LiveStatuses /\ wallet[p][n] = "settled"
        /\ StoreSettledEvidence(p, n, attempts[p][n].ref)
        /\ UNCHANGED <<budgetVars, conversion, ready, lastAttempt, wallet>>
    BY <1>p, <1>4 DEF RefreshSettled, Refreshable, LiveStatuses
  <2>. QED
    BY SMTT(30), <1>1, <2>1, EvidenceStored DEF Classified
<1>. QED
  BY <1>2, <1>3, <1>4 DEF RefreshStep

LEMMA StepIsClassified == EInv /\ [Next]_vars => Classified
<1>. SUFFICES ASSUME EInv, [Next]_vars PROVE Classified
  OBVIOUS
<1>1. CASE UNCHANGED vars
  BY <1>1, AllUntouched DEF vars, budgetVars, rowVars, attemptVars, Classified
<1>2. ASSUME NEW w \in Workers, Crash(w) PROVE Classified
  BY <1>2, AllUntouched DEF Crash, budgetVars, rowVars, attemptVars, Classified
<1>3. ASSUME NEW w \in Workers, StartHandler(w) \/ HandlerStep(w) \/ RecordException(w) \/ Crash(w)
      PROVE  Classified
  BY <1>2, <1>3, StartIs, ExecuteIs, FinalizeIs, RefreshIs DEF HandlerStep
<1>. QED
  BY <1>1, <1>3, AdminIs, WalletIs DEF Next

-----------------------------------------------------------------------------
(* The books of a payout. *)

LEMMA LedgerTypes ==
    ASSUME TypeOK, NEW p \in Payouts
    PROVE  /\ \A m \in Movements : ledger[p][m] \in Nat
           /\ Releases \subseteq Movements /\ {"reserve", "commission_settled"} \subseteq Movements
           /\ "reserve" \notin Releases /\ "commission_settled" \notin Releases
           /\ Released(p) \in Nat /\ ledger[p]["reserve"] \in Nat
           /\ ledger[p]["commission_settled"] \in Nat /\ committed \in Nat
           /\ payout[p] \in PayoutRow /\ payout[p].amount \in Nat /\ payout[p].fee \in Nat
           /\ payout[p].reserved \in Nat /\ Obligation(p) \in Nat
<1>1. payout[p] \in PayoutRow /\ \A m \in Movements : ledger[p][m] \in Nat
  BY DEF TypeOK, RowTypeOK, BudgetTypeOK
<1>2. committed \in Nat
  BY DEF TypeOK, BudgetTypeOK
<1>. QED
  BY <1>1, <1>2 DEF Movements, Releases, Released, PayoutRow, Obligation

LEMMA ReserveEffect ==
    ASSUME TypeOK, NEW p \in Payouts, NEW a \in Nat, ledger[p]["reserve"] = 0,
           ReserveCampaignBudget(p, a)
    PROVE  /\ ledger'[p]["reserve"] = a /\ committed' = committed + a
           /\ ledger'[p]["commission_settled"] = ledger[p]["commission_settled"]
           /\ Released(p)' = Released(p)
<1>1. ledger' = [ledger EXCEPT ![p]["reserve"] = a] /\ committed' = committed + a
  BY DEF ReserveCampaignBudget, RecordLedgerTransaction, HasEntry
<1>. QED
  BY <1>1 DEF TypeOK, BudgetTypeOK, Movements, Releases, Released

LEMMA SettleEffect ==
    ASSUME TypeOK, NEW p \in Payouts, NEW a \in Nat, ledger[p]["commission_settled"] = 0,
           SettleCampaignBudget(p, a)
    PROVE  /\ ledger'[p]["commission_settled"] = a /\ committed' = committed - a
           /\ ledger'[p]["reserve"] = ledger[p]["reserve"]
           /\ Released(p)' = Released(p)
<1>1. ledger' = [ledger EXCEPT ![p]["commission_settled"] = a] /\ committed' = committed - a
  BY DEF SettleCampaignBudget, RecordLedgerTransaction, HasEntry
<1>. QED
  BY <1>1 DEF TypeOK, BudgetTypeOK, Movements, Releases, Released

\* A payout that still holds something has released nothing, so no release is ever taken
\* for one that was already made.
LEMMA ReleaseEffect ==
    ASSUME TypeOK, NEW p \in Payouts, NEW a \in Nat, Released(p) > 0 => a = 0,
           NEW m \in Releases, ReleaseCampaignBudget(p, a, m)
    PROVE  /\ Released(p)' = Released(p) + a /\ committed' = committed - a
           /\ ledger'[p]["reserve"] = ledger[p]["reserve"]
           /\ ledger'[p]["commission_settled"] = ledger[p]["commission_settled"]
<1>1. /\ ledger \in [Payouts -> [Movements -> Nat]] /\ committed \in Nat
      /\ \A k \in Releases : ledger[p][k] \in Nat
  BY DEF TypeOK, BudgetTypeOK, Movements
<1>2. CASE a = 0
  <2>1. UNCHANGED budgetVars
    BY <1>2 DEF ReleaseCampaignBudget
  <2>2. Released(p)' = Released(p) /\ Released(p) \in Nat
    BY <2>1, LedgerTypes DEF Released, budgetVars
  <2>. QED
    BY <1>1, <1>2, <2>1, <2>2 DEF budgetVars
<1>3. CASE a > 0
  <2>1. ledger[p][m] = 0
    <3>1. Released(p) = 0
      BY <1>3, LedgerTypes
    <3>. DEFINE r1 == ledger[p]["reversal_release"]
                r2 == ledger[p]["reversal_fee_release"]
                r3 == ledger[p]["inflight_reversal_release"]
                r4 == ledger[p]["provider_reconciled_reversal_release"]
    <3>2. r1 \in Nat /\ r2 \in Nat /\ r3 \in Nat /\ r4 \in Nat
      BY <1>1 DEF Releases
    <3>3. r1 + r2 + r3 + r4 = 0
      BY <3>1 DEF Released
    <3>. HIDE DEF r1, r2, r3, r4
    <3>4. r1 = 0 /\ r2 = 0 /\ r3 = 0 /\ r4 = 0
      BY <3>2, <3>3
    <3>. QED
      BY <3>4 DEF Releases, r1, r2, r3, r4
  <2>2. ledger' = [ledger EXCEPT ![p][m] = a] /\ committed' = committed - a
    BY <1>3, <2>1 DEF ReleaseCampaignBudget, RecordLedgerTransaction, HasEntry
  <2>3. /\ ledger'[p][m] = a /\ \A k \in Movements \ {m} : ledger'[p][k] = ledger[p][k]
    BY <1>1, <2>2, LedgerTypes
  <2>4. Released(p)' = Released(p) + a
    BY <1>1, <2>1, <2>3 DEF Released, Releases, Movements
  <2>. QED
    BY <2>2, <2>3, <2>4, LedgerTypes
<1>. QED
  BY <1>2, <1>3

ReleasedAll(p) ==
    /\ Released(p)' = Released(p) + payout[p].reserved /\ payout'[p].reserved = 0
    /\ committed' = committed - payout[p].reserved
    /\ ledger'[p]["reserve"] = ledger[p]["reserve"]
    /\ ledger'[p]["commission_settled"] = ledger[p]["commission_settled"]
    /\ SameAmounts(p)

LEMMA ReleasesAllEffect ==
    ASSUME TypeOK, NEW p \in Payouts, LedgerInv(p), ReleasesAll(p)
    PROVE  ReleasedAll(p)
BY ReleaseEffect, LedgerTypes DEF ReleasesAll, ReleasedAll, LedgerInv

LEMMA LedgerKept ==
    ASSUME NEW p \in Payouts, LedgerInv(p), ledger'[p] = ledger[p],
           payout'[p].amount = payout[p].amount, payout'[p].fee = payout[p].fee,
           payout'[p].event = payout[p].event, payout'[p].reserved = payout[p].reserved,
           \/ payout'[p].state = payout[p].state
           \/ payout[p].state \in OwedStates \cup InFlightStates /\
              payout'[p].state \in OwedStates \cup InFlightStates
           \/ payout[p].state \in PaidStates /\ payout'[p].state = "PUBLISHED",
           conversion'[p] \in {conversion[p], "reversed"}
    PROVE  LedgerInv(p)'
<1>1. Released(p)' = Released(p) /\ Obligation(p)' = Obligation(p)
  BY DEF Released, Obligation
<1>. QED
  BY <1>1 DEF LedgerInv, OwedStates, InFlightStates, PaidStates

LEMMA LedgerStep ==
    ASSUME EInv, TypeOK', NEW p \in Payouts, Changed(p)
    PROVE  LedgerInv(p)'
<1>. TypeOK /\ LedgerInv(p) /\ StateInv(p)
  BY DEF EInv, IInv
<1>. DEFINE r == payout[p]
            reserve == ledger[p]["reserve"]
            commission == ledger[p]["commission_settled"]
<1>t. /\ r.amount \in Nat /\ r.fee \in Nat /\ r.reserved \in Nat /\ Released(p) \in Nat
      /\ reserve \in Nat /\ commission \in Nat /\ Obligation(p) = r.amount + r.fee
  BY LedgerTypes DEF Obligation
<1>u. /\ payout'[p].amount \in Nat /\ payout'[p].fee \in Nat /\ payout'[p].reserved \in Nat
      /\ Obligation(p)' = payout'[p].amount + payout'[p].fee
  BY DEF TypeOK, RowTypeOK, PayoutRow, Obligation
<1>e. r.event => r.state \in PaidStates
  BY DEF StateInv
<1>1. CASE Created(p)
  <2>1. reserve = 0 /\ commission = 0 /\ Released(p) = 0
    BY <1>1, <1>t DEF Created, LedgerInv
  <2>2. CASE /\ payout'[p].state = "PAYABLE"
             /\ payout'[p].reserved = payout'[p].amount + payout'[p].fee
             /\ ReserveCampaignBudget(p, payout'[p].amount + payout'[p].fee)
    <3>1. /\ ledger'[p]["reserve"] = payout'[p].amount + payout'[p].fee
          /\ ledger'[p]["commission_settled"] = 0 /\ Released(p)' = 0
      BY <1>u, <2>1, <2>2, ReserveEffect
    <3>. QED
      BY <1>u, <2>2, <3>1 DEF LedgerInv, InFlightStates, PaidStates
  <2>3. CASE payout'[p].state = "ON_HOLD" /\ payout'[p].reserved = 0 /\ UNCHANGED budgetVars
    <3>1. ledger'[p] = ledger[p] /\ Released(p)' = 0
      BY <2>1, <2>3 DEF Released, budgetVars
    <3>. QED
      BY <2>1, <2>3, <3>1 DEF LedgerInv, InFlightStates, PaidStates
  <2>. QED
    BY <1>1, <2>2, <2>3 DEF Created
<1>2. CASE Unheld(p)
  <2>1. reserve = 0 /\ commission = 0 /\ Released(p) = 0
    BY <1>2, <1>t DEF Unheld, LedgerInv
  <2>2. /\ ledger'[p]["reserve"] = Obligation(p)
        /\ ledger'[p]["commission_settled"] = 0 /\ Released(p)' = 0
    BY <1>2, <1>t, <2>1, ReserveEffect DEF Unheld
  <2>. QED
    BY <1>2, <1>t, <1>u, <2>2 DEF Unheld, SameAmounts, LedgerInv, InFlightStates, PaidStates
<1>3. CASE Voided(p)
  <2>1. r.event = payout'[p].event /\ ~r.event
    BY <1>3, <1>e DEF Voided, ReleasesAll, SameAmounts, OwedStates, PaidStates
  <2>2. ReleasedAll(p)
    BY <1>3, ReleasesAllEffect DEF Voided
  <2>3. payout'[p].state = "CANCELLED"
    BY <1>3 DEF Voided
  <2>. QED
    BY <1>t, <1>u, <2>1, <2>2, <2>3
       DEF ReleasedAll, LedgerInv, SameAmounts, InFlightStates, PaidStates
<1>4. CASE Doomed(p)
  BY <1>4, LedgerKept DEF Doomed, SameMoney, SameAmounts, InFlightStates
<1>5. CASE FeeVoided(p)
  <2>1. ReleasedAll(p)
    BY <1>5, ReleasesAllEffect DEF FeeVoided
  <2>2. r.state \in PaidStates /\ payout'[p].state = r.state /\ conversion'[p] = "reversed"
    BY <1>5 DEF FeeVoided
  <2>. QED
    BY <1>t, <1>u, <2>1, <2>2
       DEF ReleasedAll, LedgerInv, SameAmounts, InFlightStates, PaidStates
<1>6. CASE ReversedAgain(p)
  BY <1>6, LedgerKept DEF ReversedAgain, SameMoney, SameAmounts
<1>7. CASE Claimed(p)
  BY <1>7, LedgerKept DEF Claimed, SameMoney, SameAmounts, InFlightStates
<1>8. CASE Marked(p)
  BY <1>8, LedgerKept DEF Marked, SameMoney, SameAmounts
<1>9. CASE SentOut(p) \/ Answered(p)
  BY <1>9, LedgerKept DEF SentOut, Answered, SameMoney, SameAmounts
<1>10. CASE Failed(p)
  <2>1. CASE payout[p].state = "PAYING" /\ payout'[p].state = "FAILED" /\ SameMoney(p)
    BY <1>10, <2>1, LedgerKept DEF Failed, SameMoney, SameAmounts, InFlightStates, OwedStates
  <2>2. CASE payout[p].state = "CANCEL_PENDING" /\ payout'[p].state = "CANCELLED" /\ ReleasesAll(p)
    <3>1. r.event = payout'[p].event /\ ~r.event
      BY <2>2, <1>e DEF ReleasesAll, SameAmounts, PaidStates
    <3>. QED
      BY <2>2, <1>t, <1>u, <3>1, ReleasesAllEffect
         DEF ReleasedAll, LedgerInv, SameAmounts, InFlightStates, PaidStates
  <2>. QED
    BY <1>10, <2>1, <2>2 DEF Failed
<1>11. CASE SettledBy(p) \/ PaidOutside(p)
  <2>1. /\ r.state \in OwedStates \cup InFlightStates /\ payout'[p].state = "SETTLED"
        /\ SameMoney(p)
    BY <1>11 DEF SettledBy, PaidOutside
  <2>2. ~r.event
    BY <1>e, <2>1 DEF OwedStates, InFlightStates, PaidStates
  <2>3. Released(p)' = Released(p)
    BY <2>1 DEF SameMoney, Released
  <2>. QED
    BY <1>t, <1>u, <2>1, <2>2, <2>3
       DEF SameMoney, SameAmounts, LedgerInv, OwedStates, InFlightStates, PaidStates
<1>12. CASE Proved(p)
  <2>1. commission = 0
    BY <1>12 DEF Proved, LedgerInv
  <2>2. CASE /\ r.reserved >= r.amount
             /\ payout'[p].reserved = r.reserved - r.amount
             /\ SettleCampaignBudget(p, r.amount)
    <3>1. /\ ledger'[p]["commission_settled"] = r.amount
          /\ ledger'[p]["reserve"] = reserve /\ Released(p)' = Released(p)
      BY <1>t, <2>1, <2>2, SettleEffect
    <3>. QED
      BY <1>12, <1>t, <1>u, <2>1, <2>2, <3>1 DEF Proved, LedgerInv, InFlightStates, PaidStates
  <2>3. CASE r.reserved < r.amount /\ payout'[p].reserved = r.reserved /\ UNCHANGED budgetVars
    <3>1. ledger'[p] = ledger[p] /\ Released(p)' = Released(p)
      BY <2>3 DEF Released, budgetVars
    <3>. QED
      BY <1>12, <1>t, <1>u, <2>1, <2>3, <3>1 DEF Proved, LedgerInv, InFlightStates, PaidStates
  <2>. QED
    BY <1>12, <2>2, <2>3 DEF Proved
<1>13. CASE Published(p)
  BY <1>13, LedgerKept DEF Published, SameMoney, SameAmounts
<1>. QED
  BY <1>1, <1>2, <1>3, <1>4, <1>5, <1>6, <1>7, <1>8, <1>9, <1>10, <1>11, <1>12, <1>13 DEF Changed

LEMMA LedgerHeld ==
    ASSUME EInv, NEW p \in Payouts, Untouched(p) \/ Held(p)
    PROVE  LedgerInv(p)'
<1>. TypeOK /\ LedgerInv(p) /\ StateInv(p)
  BY DEF EInv, IInv
<1>1. CASE Untouched(p)
  BY <1>1, LedgerKept DEF Untouched, Same
<1>2. CASE Held(p)
  <2>1. Released(p)' = Released(p) /\ Released(p) \in Nat /\ ledger[p]["commission_settled"] \in Nat
    BY <1>2, LedgerTypes DEF Held, SameMoney, Released
  <2>. QED
    BY <1>2, <2>1 DEF Held, SameMoney, SameAmounts, LedgerInv, InFlightStates, PaidStates
<1>. QED
  BY <1>1, <1>2

-----------------------------------------------------------------------------
(* The evidence of a payment. *)

LEMMA EvidenceKept ==
    ASSUME NEW p \in Payouts, EvidenceInv(p), SameAttempts(p), ready \subseteq ready',
           payout'[p].state = "NONE" => payout[p].state = "NONE" /\ conversion'[p] = conversion[p],
           payout'[p].state = "PUBLISHED" => payout'[p].event,
           payout'[p].state \in InFlightStates => payout[p].state \in InFlightStates,
           ~SandboxEnabled /\ payout'[p].state \in PaidStates =>
               payout[p].state \in PaidStates /\ payout'[p].hash = payout[p].hash
    PROVE  EvidenceInv(p)'
BY DEF EvidenceInv, SameAttempts

\* The part of the evidence that is about the attempts.
UnresolvedInv(p) ==
    \A n \in AttemptNumbers :
        attempts[p][n].status \in LiveStatuses =>
           /\ attempts[p][n].hash \in {NoHash, InvoiceHash(p, n)}
           /\ attempts[p][n].rail = "nwc" /\ attempts[p][n].hash = NoHash => wallet[p][n] = "none"

LEMMA EvidenceStep ==
    ASSUME EInv, NEW p \in Payouts, Changed(p), ready \subseteq ready'
    PROVE  EvidenceInv(p)'
<1>. TypeOK /\ EvidenceInv(p) /\ PayoutInv(p)
  BY DEF EInv, IInv, PayoutInv
<1>e. payout[p].event => payout[p].state \in PaidStates
  BY DEF PayoutInv, StateInv
<1>1. CASE Created(p)
  BY <1>1, EvidenceKept DEF Created, InFlightStates, PaidStates
<1>2. CASE Unheld(p)
  BY <1>2, EvidenceKept DEF Unheld, InFlightStates, PaidStates
<1>3. CASE Voided(p)
  BY <1>3, EvidenceKept DEF Voided, InFlightStates, PaidStates
<1>4. CASE Doomed(p)
  BY <1>4, EvidenceKept DEF Doomed, InFlightStates, PaidStates
<1>5. CASE FeeVoided(p)
  BY <1>5, EvidenceKept DEF FeeVoided, ReleasesAll, SameAmounts, EvidenceInv, InFlightStates, PaidStates
<1>6. CASE ReversedAgain(p)
  BY <1>6, EvidenceKept DEF ReversedAgain, EvidenceInv, InFlightStates, PaidStates
<1>7. CASE Proved(p)
  BY <1>7, EvidenceKept DEF Proved, InFlightStates, PaidStates
<1>8. CASE Published(p)
  <2>1. /\ payout'[p].state \in PaidStates /\ payout'[p].hash = payout[p].hash
        /\ payout'[p].event = payout[p].event /\ SameAttempts(p)
        /\ payout'[p].state = "PUBLISHED" => payout[p].event
    BY <1>8 DEF Published, SameMoney, SameAmounts, EvidenceInv, PaidStates
  <2>. QED
    BY <1>8, <2>1, EvidenceKept DEF Published, InFlightStates, PaidStates
<1>9. CASE Claimed(p)
  <2>1. PICK n \in AttemptNumbers : Opens(p, n, Rail) /\ AttemptBecomes(p, n, "PAYING", NoHash)
    BY <1>9 DEF Claimed
  <2>2. UnresolvedInv(p)'
    BY <2>1 DEF UnresolvedInv, EvidenceInv, Opens, AttemptBecomes
  <2>. QED
    BY <1>9, <2>2 DEF Claimed, EvidenceInv, UnresolvedInv, PaidStates
<1>10. CASE Marked(p)
  <2>1. PICK n \in AttemptNumbers, s \in LiveStatuses, h \in {NoHash, InvoiceHash(p, lastAttempt[p])} :
          /\ n = lastAttempt[p] /\ attempts[p][n].status \in LiveStatuses
          /\ AttemptBecomes(p, n, s, h) /\ SameRail(p, n)
          /\ Rail = "nwc" => h \in {attempts[p][n].hash, InvoiceHash(p, n)}
    BY <1>10 DEF Marked
  <2>2. attempts[p][n].rail = Rail
    BY <2>1, LiveIsLast
  <2>3. InvoiceHash(p, n) # NoHash
    BY PayoutAssumption DEF InvoiceHash, AttemptNumbers
  <2>4. UnresolvedInv(p)'
    BY <2>1, <2>2, <2>3 DEF UnresolvedInv, EvidenceInv, AttemptBecomes, SameRail
  <2>. QED
    BY <1>10, <2>4 DEF Marked, EvidenceInv, UnresolvedInv, InFlightStates, PaidStates
<1>11. CASE SentOut(p)
  <2>1. PICK n \in AttemptNumbers :
          /\ n = lastAttempt[p] /\ attempts[p][n].status = "PAYING"
          /\ Rail = "nwc" => attempts[p][n].hash = InvoiceHash(p, n)
          /\ \E o \in {"queued", "inflight"} : wallet'[p] = [wallet[p] EXCEPT ![n] = o]
    BY <1>11 DEF SentOut
  <2>2. /\ attempts[p][n].rail = Rail /\ payout[p].state \in InFlightStates
        /\ payout[p].state \notin PaidStates
    BY <2>1, LiveIsLast DEF LiveStatuses
  <2>3. InvoiceHash(p, n) # NoHash
    BY PayoutAssumption DEF InvoiceHash, AttemptNumbers
  <2>4. wallet[p] \in [AttemptNumbers -> WalletStates]
    BY DEF TypeOK, AttemptTypeOK
  <2>5. UnresolvedInv(p)'
    BY <1>11, <2>1, <2>2, <2>3, <2>4 DEF SentOut, UnresolvedInv, EvidenceInv
  <2>. QED
    BY <1>11, <2>2, <2>5 DEF SentOut, EvidenceInv, UnresolvedInv
<1>12. CASE Answered(p)
  <2>1. PICK n \in AttemptNumbers, a \in {"inflight", "settled", "failed"} :
          wallet[p][n] \in {"queued", "inflight"} /\ wallet'[p] = [wallet[p] EXCEPT ![n] = a]
    BY <1>12 DEF Answered
  <2>2. wallet[p] \in [AttemptNumbers -> WalletStates]
    BY DEF TypeOK, AttemptTypeOK
  <2>3. UnresolvedInv(p)'
    BY <1>12, <2>1, <2>2 DEF Answered, UnresolvedInv, EvidenceInv
  <2>. QED
    BY <1>12, <2>3 DEF Answered, EvidenceInv, UnresolvedInv
<1>13. CASE Failed(p)
  <2>1. PICK n \in AttemptNumbers : AttemptBecomes(p, n, "FAILED", attempts[p][n].hash)
    BY <1>13 DEF Failed
  <2>2. UnresolvedInv(p)'
    BY <2>1 DEF UnresolvedInv, EvidenceInv, AttemptBecomes, LiveStatuses
  <2>3. payout'[p].state \in {"FAILED", "CANCELLED"}
    BY <1>13 DEF Failed
  <2>. QED
    BY <2>2, <2>3 DEF EvidenceInv, UnresolvedInv, InFlightStates, PaidStates
<1>14. CASE SettledBy(p)
  <2>1. PICK n \in AttemptNumbers :
          /\ n = lastAttempt[p] /\ payout'[p].hash = InvoiceHash(p, n)
          /\ AttemptBecomes(p, n, "SETTLED", InvoiceHash(p, n)) /\ SameRail(p, n)
    BY <1>14 DEF SettledBy
  <2>2. UnresolvedInv(p)'
    BY <2>1 DEF UnresolvedInv, EvidenceInv, AttemptBecomes, LiveStatuses
  <2>3. attempts'[p][lastAttempt'[p]].hash = payout'[p].hash /\ payout'[p].state = "SETTLED"
    BY <1>14, <2>1 DEF SettledBy, AttemptBecomes, SameRail
  <2>. QED
    BY <2>2, <2>3 DEF EvidenceInv, UnresolvedInv, InFlightStates
<1>15. CASE PaidOutside(p)
  <2>1. PICK n \in AttemptNumbers, rail \in {"manual", "sandbox"} :
          Opens(p, n, rail) /\ AttemptBecomes(p, n, "SETTLED", payout'[p].hash)
    BY <1>15 DEF PaidOutside
  <2>2. UnresolvedInv(p)'
    BY <2>1 DEF UnresolvedInv, EvidenceInv, AttemptBecomes, LiveStatuses
  <2>3. attempts'[p][lastAttempt'[p]].hash = payout'[p].hash /\ payout'[p].state = "SETTLED"
    BY <1>15, <2>1 DEF PaidOutside, AttemptBecomes, Opens
  <2>. QED
    BY <2>2, <2>3 DEF EvidenceInv, UnresolvedInv, InFlightStates
<1>. QED
  BY <1>1, <1>2, <1>3, <1>4, <1>5, <1>6, <1>7, <1>8, <1>9, <1>10, <1>11, <1>12, <1>13, <1>14, <1>15
     DEF Changed

\* What a step leaves to a handler: the hash it prepared, and the hash of a paid payout.
KeepsEvidence(q) ==
    /\ \A n \in AttemptNumbers :
         Rail = "nwc" /\ attempts[q][n].hash = InvoiceHash(q, n) =>
             attempts'[q][n].hash = InvoiceHash(q, n)
    /\ ~SandboxEnabled /\ payout[q].state \in PaidStates => payout'[q].hash = payout[q].hash

LEMMA EvidenceStays ==
    ASSUME EInv, Classified, NEW q \in Payouts
    PROVE  KeepsEvidence(q)
<1>. TypeOK /\ PayoutInv(q)
  BY DEF EInv, IInv, PayoutInv
<1>1. CASE Untouched(q) \/ Held(q)
  BY <1>1 DEF KeepsEvidence, Untouched, Held, Same, SameAttempts, OwedStates, PaidStates
<1>2. CASE Changed(q)
  <2>1. CASE Created(q) \/ Unheld(q) \/ Voided(q) \/ Doomed(q) \/ FeeVoided(q) \/ ReversedAgain(q)
                \/ Proved(q) \/ Published(q)
    <3>1. SameAttempts(q)
      BY <2>1 DEF Created, Unheld, Voided, Doomed, FeeVoided, ReversedAgain, Proved, Published
    <3>2. ~SandboxEnabled /\ payout[q].state \in PaidStates => payout'[q].hash = payout[q].hash
      BY <2>1 DEF Created, Unheld, Voided, Doomed, FeeVoided, ReversedAgain, Proved, Published,
                  OwedStates, PaidStates
    <3>. QED
      BY <3>1, <3>2 DEF KeepsEvidence, SameAttempts
  <2>2. CASE SentOut(q) \/ Answered(q)
    BY <2>2 DEF SentOut, Answered, KeepsEvidence
  <2>3. CASE Claimed(q) \/ PaidOutside(q)
    <3>1. PICK n \in AttemptNumbers :
            attempts[q][n] = NoAttempt /\ \A m \in AttemptNumbers \ {n} : attempts'[q][m] = attempts[q][m]
      BY <2>3 DEF Claimed, PaidOutside, Opens, AttemptBecomes
    <3>2. NoAttempt.hash = NoHash /\ InvoiceHash(q, n) # NoHash
      BY PayoutAssumption DEF NoAttempt, InvoiceHash, AttemptNumbers
    <3>3. payout[q].state \notin PaidStates
      BY <2>3 DEF Claimed, PaidOutside, OwedStates, PaidStates
    <3>. QED
      BY <3>1, <3>2, <3>3 DEF KeepsEvidence
  <2>4. CASE Marked(q) \/ Failed(q) \/ SettledBy(q)
    <3>1. PICK n \in AttemptNumbers :
            /\ \A m \in AttemptNumbers \ {n} : attempts'[q][m] = attempts[q][m]
            /\ Rail = "nwc" => attempts'[q][n].hash \in {attempts[q][n].hash, InvoiceHash(q, n)}
      BY <2>4 DEF Marked, Failed, SettledBy, AttemptBecomes
    <3>2. payout[q].state \notin PaidStates
      BY <2>4 DEF Marked, Failed, SettledBy, InFlightStates, PaidStates
    <3>. QED
      BY <3>1, <3>2 DEF KeepsEvidence
  <2>. QED
    BY <1>2, <2>1, <2>2, <2>3, <2>4 DEF Changed
<1>. QED
  BY <1>1, <1>2 DEF Classified, NothingButHolds, OneChanged, Others

-----------------------------------------------------------------------------
(* The handlers. *)

OtherJobs(w) == \A v \in Workers \ {w} : job'[v] = job[v]

\* A job that is over, or at a step that relies on no evidence.
LEMMA JobRests ==
    ASSUME TypeOK, NEW w \in Workers, NEW p, NEW n,
           \/ EndJob(w) \/ AfterFinalize(w) \/ \E s \in {"await", "publish"} : GoTo(w, s)
           \/ job' = [job EXCEPT ![w] = [Idle EXCEPT !.step = "lookup", !.payout = p, !.attempt = n]]
    PROVE  OtherJobs(w) /\ job'[w].step \notin {"claim", "send", "finalize"}
<1>1. job \in [Workers -> Job]
  BY DEF TypeOK, JobTypeOK
<1>2. CASE EndJob(w)
  BY <1>1, <1>2 DEF EndJob, OtherJobs, Idle
<1>3. CASE AfterFinalize(w)
  BY <1>1, <1>3 DEF AfterFinalize, OtherJobs, Idle, Job
<1>4. ASSUME NEW s \in {"await", "publish"}, GoTo(w, s)
      PROVE  OtherJobs(w) /\ job'[w].step \notin {"claim", "send", "finalize"}
  BY <1>1, <1>4 DEF GoTo, OtherJobs, Job
<1>5. CASE job' = [job EXCEPT ![w] = [Idle EXCEPT !.step = "lookup", !.payout = p, !.attempt = n]]
  BY <1>1, <1>5 DEF OtherJobs, Idle
<1>. QED
  BY <1>2, <1>3, <1>4, <1>5

LEMMA JobFinalizes ==
    ASSUME TypeOK, NEW w \in Workers, NEW p, NEW h, NEW q, NEW b, ToFinalize(w, p, h, q, b)
    PROVE  OtherJobs(w) /\ job'[w].step = "finalize" /\ job'[w].payout = p /\ job'[w].hash = h
BY DEF TypeOK, JobTypeOK, ToFinalize, OtherJobs, Idle

LEMMA HandlerKept ==
    ASSUME EInv, Classified, NEW v \in Workers, job'[v] = job[v]
    PROVE  HandlerInv(v)'
<1>. DEFINE p == job[v].payout
            n == job[v].attempt
<1>. TypeOK
  BY DEF EInv, IInv
<1>1. CASE job[v].step = "claim"
  <2>1. p \in ready /\ ready \subseteq ready'
    BY <1>1 DEF EInv, HandlerInv, Classified
  <2>. QED
    BY <1>1, <2>1 DEF HandlerInv
<1>2. CASE job[v].step = "send"
  <2>1. p \in Payouts /\ n \in AttemptNumbers
    BY <1>2, JobFacts
  <2>2. Rail = "nwc" => attempts[p][n].hash = InvoiceHash(p, n)
    BY <1>2 DEF EInv, HandlerInv
  <2>3. Rail = "nwc" => attempts'[p][n].hash = InvoiceHash(p, n)
    BY <2>1, <2>2, EvidenceStays DEF KeepsEvidence
  <2>. QED
    BY <1>2, <2>3 DEF HandlerInv
<1>3. CASE job[v].step = "finalize"
  <2>1. p \in Payouts
    BY <1>3, JobFacts
  <2>2. payout[p].state \in PaidStates /\ (~SandboxEnabled => job[v].hash = payout[p].hash)
    BY <1>3 DEF EInv, IInv, WorkerInv, ProvingSteps, HandlerInv
  <2>3. ~SandboxEnabled => payout'[p].hash = payout[p].hash
    BY <2>1, <2>2, EvidenceStays DEF KeepsEvidence
  <2>. QED
    BY <1>3, <2>2, <2>3 DEF HandlerInv
<1>4. CASE job[v].step \notin {"claim", "send", "finalize"}
  BY <1>4 DEF HandlerInv
<1>. QED
  BY <1>1, <1>2, <1>3, <1>4

\* The handler that takes a step.
LEMMA ActorStep ==
    ASSUME EInv, NEW w \in Workers,
           StartHandler(w) \/ HandlerStep(w) \/ RecordException(w) \/ Crash(w)
    PROVE  OtherJobs(w) /\ HandlerInv(w)'
<1>. TypeOK
  BY DEF EInv, IInv
<1>r. ASSUME NEW p, NEW n,
             \/ EndJob(w) \/ AfterFinalize(w) \/ \E s \in {"await", "publish"} : GoTo(w, s)
             \/ job' = [job EXCEPT ![w] = [Idle EXCEPT !.step = "lookup", !.payout = p, !.attempt = n]]
      PROVE  OtherJobs(w) /\ HandlerInv(w)'
  BY <1>r, JobRests DEF HandlerInv
<1>f. ASSUME NEW p, NEW h, NEW q, NEW b, ToFinalize(w, p, h, q, b),
             ~SandboxEnabled => payout'[p].hash = h
      PROVE  OtherJobs(w) /\ HandlerInv(w)'
  BY <1>f, JobFinalizes DEF HandlerInv
<1>e. ASSUME NEW p \in Payouts, NEW n, NEW ref, StoreSettledEvidence(p, n, ref)
      PROVE  payout'[p].hash = InvoiceHash(p, n)
  <2>1. payout'[p] = SettledRow(payout[p], InvoiceHash(p, n), payout[p].provider)
        /\ payout[p] \in PayoutRow
    BY <1>e, SetPayoutFacts DEF StoreSettledEvidence, TypeOK, RowTypeOK
  <2>. QED
    BY <2>1, RowMoney
<1>1. ASSUME NEW p \in Payouts, StartExecute(w, p) PROVE OtherJobs(w) /\ HandlerInv(w)'
  <2>1. StartJob(w, "claim", p) /\ p \in ready /\ ready' = ready
    BY <1>1 DEF StartExecute, rowVars
  <2>2. OtherJobs(w) /\ job'[w].step = "claim" /\ job'[w].payout = p
    BY <2>1 DEF StartJob, OtherJobs, Idle, TypeOK, JobTypeOK
  <2>. QED
    BY <2>1, <2>2 DEF HandlerInv
<1>2. ASSUME NEW p \in Payouts, RetryProof(w, p) \/ ManualSettlementAgain(w, p)
      PROVE  OtherJobs(w) /\ HandlerInv(w)'
  BY <1>2, <1>f DEF RetryProof, ManualSettlementAgain, rowVars
<1>3. ASSUME NEW p \in Payouts, NEW h, ManualSettlement(w, p, h) \/ MarkPaid(w, p, h)
      PROVE  OtherJobs(w) /\ HandlerInv(w)'
  <2>1. CASE ManualSettlement(w, p, h)
    <3>1. /\ SetPayout(p, SettledRow(payout[p], h, "manual")) /\ payout[p] \in PayoutRow
          /\ ToFinalize(w, p, h, "manual", FALSE)
      BY <2>1 DEF ManualSettlement, SettledWithoutRail, TypeOK, RowTypeOK
    <3>2. payout'[p].hash = h
      BY <3>1, SetPayoutFacts, RowMoney
    <3>. QED
      BY <3>1, <3>2, <1>f
  <2>2. CASE MarkPaid(w, p, h)
    <3>1. SandboxEnabled /\ ToFinalize(w, p, h, "sandbox", FALSE)
      BY <2>2 DEF MarkPaid
    <3>. QED
      BY <3>1, <1>f
  <2>. QED
    BY <1>3, <2>1, <2>2
<1>4. ASSUME NEW p \in Payouts, NEW n \in AttemptNumbers, StartRefresh(w, p, n)
      PROVE  OtherJobs(w) /\ HandlerInv(w)'
  BY <1>4, <1>r DEF StartRefresh
<1>5. ASSUME NEW p \in Payouts, NEW n \in AttemptNumbers, ReconcileAttempt(w, p, n)
      PROVE  OtherJobs(w) /\ HandlerInv(w)'
  <2>1. /\ ToFinalize(w, p, attempts[p][n].hash, attempts[p][n].rail, conversion[p] = "reversed")
        /\ StoreSettledEvidence(p, n, attempts[p][n].ref) /\ attempts[p][n].hash # NoHash
        /\ attempts[p][n].status \in LiveStatuses
    BY <1>5 DEF ReconcileAttempt, LiveStatuses
  <2>2. attempts[p][n].hash = InvoiceHash(p, n)
    BY <2>1 DEF EInv, EvidenceInv
  <2>3. payout'[p].hash = attempts[p][n].hash
    BY <2>1, <2>2, <1>e
  <2>. QED
    BY <2>1, <2>3, <1>f
<1>6. CASE ClaimPayout(w)
  <2>1. PICK n, s : s \in {"prepare", "send"} /\ (Rail = "nwc" => s = "prepare")
                    /\ job' = [job EXCEPT ![w] = [@ EXCEPT !.attempt = n, !.step = s]]
    BY <1>6 DEF ClaimPayout
  <2>2. job \in [Workers -> Job]
    BY DEF TypeOK, JobTypeOK
  <2>3. OtherJobs(w) /\ job'[w].step = s
    BY <2>1, <2>2 DEF OtherJobs, Job
  <2>. QED
    BY <2>1, <2>3 DEF HandlerInv
<1>7. CASE RecordPreparedEvidence(w)
  <2>. DEFINE p == job[w].payout
              n == job[w].attempt
              row == [attempts[p][n] EXCEPT !.hash = InvoiceHash(p, n)]
  <2>1. SetAttempt(p, n, row) /\ GoTo(w, "send") /\ job[w].step = "prepare"
    BY <1>7 DEF RecordPreparedEvidence
  <2>2. /\ p \in Payouts /\ n \in AttemptNumbers /\ attempts[p][n] \in AttemptRow
        /\ job \in [Workers -> Job]
    BY <2>1, JobFacts DEF TypeOK, JobTypeOK
  <2>3. row.hash = InvoiceHash(p, n)
    BY <2>2 DEF AttemptRow
  <2>. HIDE DEF row
  <2>4. attempts'[p][n].hash = InvoiceHash(p, n)
    BY <2>1, <2>2, <2>3, SetAttemptFacts
  <2>5. OtherJobs(w) /\ job'[w].step = "send" /\ job'[w].payout = p /\ job'[w].attempt = n
    BY <2>1, <2>2 DEF GoTo, OtherJobs, Job
  <2>. QED
    BY <2>4, <2>5 DEF HandlerInv
<1>8. CASE RecordSuccess(w) \/ RefreshSettled(w)
  <2>. DEFINE p == job[w].payout
              n == job[w].attempt
  <2>1. PICK ref, q : StoreSettledEvidence(p, n, ref) /\ ToFinalize(w, p, InvoiceHash(p, n), q, TRUE)
    BY <1>8 DEF RecordSuccess, RefreshSettled
  <2>2. p \in Payouts
    BY <1>8, JobFacts DEF RecordSuccess, RefreshSettled
  <2>3. payout'[p].hash = InvoiceHash(p, n)
    BY <2>1, <2>2, <1>e
  <2>. QED
    BY <2>1, <2>3, <1>f
<1>9. CASE \/ ClaimRefused(w) \/ RecordAmbiguous(w) \/ RecordPending(w) \/ RecordFailure(w)
           \/ RecordMismatch(w) \/ RecordException(w) \/ FinalizeRefused(w)
           \/ ApplyExistingReversal(w) \/ RefreshUnresolved(w) \/ RefreshFailed(w) \/ Crash(w)
  <2>1. EndJob(w)
    BY <1>9 DEF ClaimRefused, RecordAmbiguous, RecordPending, RecordFailure, RecordMismatch,
                RecordException, FinalizeRefused, ApplyExistingReversal, RefreshUnresolved,
                RefreshFailed, Crash
  <2>. QED
    BY <2>1, <1>r
<1>10. CASE \/ SendPayment(w) \/ FinalizeDuplicate(w) \/ FinalizePayoutPaid(w) \/ PublishProof(w)
  <2>1. AfterFinalize(w) \/ \E s \in {"await", "publish"} : GoTo(w, s)
    BY <1>10 DEF SendPayment, FinalizeDuplicate, FinalizePayoutPaid, PublishProof, PublishAnswered
  <2>. QED
    BY <2>1, <1>r
<1>. QED
  BY <1>1, <1>2, <1>3, <1>4, <1>5, <1>6, <1>7, <1>8, <1>9, <1>10
     DEF StartHandler, HandlerStep, ExecuteStep, FinalizeStep, RefreshStep

LEMMA HandlersKept ==
    ASSUME EInv, Classified, [Next]_vars, NEW v \in Workers
    PROVE  HandlerInv(v)'
<1>1. CASE job' = job
  BY <1>1, HandlerKept
<1>2. ASSUME NEW w \in Workers, StartHandler(w) \/ HandlerStep(w) \/ RecordException(w) \/ Crash(w)
      PROVE  HandlerInv(v)'
  BY <1>2, ActorStep, HandlerKept DEF OtherJobs
<1>3. CASE Admin \/ Wallet
  <2>1. UNCHANGED job
    BY <1>3 DEF Admin, Wallet, UpdateCampaignBudget, UpdateCampaignStatus, HoldUnreservedPayouts,
                CreateConversion, BecomeReady, ReleasePayoutHold, ReverseConversion,
                WalletDecides, WalletTakes, WalletSettles, WalletFails
  <2>. QED
    BY <1>1, <2>1
<1>. QED
  BY <1>1, <1>2, <1>3 DEF Next, vars

LEMMA InitEvidence == Init => EInv
<1>. SUFFICES ASSUME Init PROVE EInv
  OBVIOUS
<1>1. IInv
  BY InitInv
<1>2. ASSUME NEW p \in Payouts PROVE LedgerInv(p) /\ EvidenceInv(p)
  <2>1. /\ payout[p] = NoPayout /\ conversion[p] = "none" /\ ledger[p] = [m \in Movements |-> 0]
        /\ \A n \in AttemptNumbers : attempts[p][n] = NoAttempt
    BY DEF Init, BudgetInit
  <2>2. /\ payout[p].state = "NONE" /\ payout[p].reserved = 0 /\ payout[p].event = FALSE
        /\ \A n \in AttemptNumbers : attempts[p][n].status = "NONE"
    BY <2>1 DEF NoPayout, NoAttempt
  <2>3. LedgerInv(p)
    BY <2>1, <2>2 DEF LedgerInv, Released, Movements, Releases, InFlightStates, PaidStates
  <2>. QED
    BY <2>1, <2>2, <2>3 DEF EvidenceInv, InFlightStates, PaidStates, LiveStatuses
<1>3. ASSUME NEW w \in Workers PROVE HandlerInv(w)
  BY DEF Init, Idle, HandlerInv
<1>. QED
  BY <1>1, <1>2, <1>3 DEF EInv

LEMMA NextEvidence == EInv /\ [Next]_vars => EInv'
<1>. SUFFICES ASSUME EInv, [Next]_vars PROVE EInv'
  OBVIOUS
<1>1. IInv' /\ TypeOK' /\ Classified
  BY NextInv, StepIsClassified DEF EInv, IInv
<1>2. ASSUME NEW q \in Payouts PROVE LedgerInv(q)' /\ EvidenceInv(q)'
  <2>1. CASE Untouched(q) \/ Held(q)
    <3>1. EvidenceInv(q)'
      BY <1>1, <2>1, EvidenceKept
         DEF EInv, EvidenceInv, Classified, Untouched, Held, Same, InFlightStates, PaidStates
    <3>. QED
      BY <2>1, <3>1, LedgerHeld
  <2>2. CASE Changed(q)
    BY <1>1, <2>2, LedgerStep, EvidenceStep DEF Classified
  <2>. QED
    BY <1>1, <2>1, <2>2 DEF Classified, NothingButHolds, OneChanged, Others
<1>3. ASSUME NEW v \in Workers PROVE HandlerInv(v)'
  BY <1>1, HandlersKept
<1>. QED
  BY <1>1, <1>2, <1>3 DEF EInv

\* The books, the evidence and the handlers agree in every reachable state.
THEOREM EvidenceInductive == Spec => []EInv
<1>1. Init => EInv
  BY InitEvidence
<1>2. EInv /\ [Next]_vars => EInv'
  BY NextEvidence
<1>. QED
  BY <1>1, <1>2, PTL DEF Spec

-----------------------------------------------------------------------------
(* What follows for the books and the evidence. *)

\* A payout's ledger entries balance in every reachable state: what was reserved is
\* settled, released or still held.
THEOREM BooksBalance == Spec => []LedgerConservation
<1>1. EInv => LedgerConservation
  <2>. SUFFICES ASSUME EInv, NEW p \in Payouts
                PROVE  ledger[p]["reserve"] =
                         ledger[p]["commission_settled"] + ledger[p]["reversal_release"]
                         + ledger[p]["reversal_fee_release"] + ledger[p]["inflight_reversal_release"]
                         + ledger[p]["provider_reconciled_reversal_release"] + payout[p].reserved
    BY DEF LedgerConservation
  <2>. DEFINE c == ledger[p]["commission_settled"]
              r1 == ledger[p]["reversal_release"]
              r2 == ledger[p]["reversal_fee_release"]
              r3 == ledger[p]["inflight_reversal_release"]
              r4 == ledger[p]["provider_reconciled_reversal_release"]
              held == payout[p].reserved
  <2>1. ledger[p]["reserve"] = c + (r1 + r2 + r3 + r4) + held
    BY DEF EInv, LedgerInv, Released
  <2>2. c \in Nat /\ r1 \in Nat /\ r2 \in Nat /\ r3 \in Nat /\ r4 \in Nat /\ held \in Nat
    BY LedgerTypes DEF EInv, IInv, Movements, Releases
  <2>. HIDE DEF c, r1, r2, r3, r4, held
  <2>3. ledger[p]["reserve"] = c + r1 + r2 + r3 + r4 + held
    BY <2>1, <2>2
  <2>. QED
    BY <2>3 DEF c, r1, r2, r3, r4, held
<1>. QED
  BY <1>1, EvidenceInductive, PTL

\* The proof of an approved conversion settled its whole commission, and only the fee is
\* still reserved.
THEOREM ProofsAreAccounted == Spec => []ApprovedProofIsAccounted
<1>1. EInv => ApprovedProofIsAccounted
  BY DEF EInv, IInv, StateInv, LedgerInv, ApprovedProofIsAccounted
<1>. QED
  BY <1>1, EvidenceInductive, PTL

\* Over NWC an unresolved attempt that knows no hash never sent anything.
THEOREM NoMoneyIsStranded == Spec => []UnresolvableHoldsNoMoney
<1>1. EInv => UnresolvableHoldsNoMoney
  BY DEF EInv, EvidenceInv, UnresolvableHoldsNoMoney
<1>. QED
  BY <1>1, EvidenceInductive, PTL

\* Without the sandbox route every signed proof cites the hash of a settled attempt, and of
\* a completed payment if the rail made it.
THEOREM ProofsHaveEvidence == ASSUME ~SandboxEnabled PROVE Spec => []ProofHasEvidence
<1>1. EInv => ProofHasEvidence
  <2>. SUFFICES ASSUME EInv, NEW p \in Payouts, payout[p].event
                PROVE  \E n \in AttemptNumbers :
                          /\ attempts[p][n].status = "SETTLED"
                          /\ attempts[p][n].hash = payout[p].hash
                          /\ attempts[p][n].rail = Rail => wallet[p][n] = "settled"
    BY DEF ProofHasEvidence
  <2>1. TypeOK /\ AttemptsInv(p) /\ StateInv(p) /\ EvidenceInv(p)
    BY DEF EInv, IInv
  <2>. DEFINE n == lastAttempt[p]
  <2>2. payout[p].state \in PaidStates /\ n > 0 /\ attempts[p][n].status = "SETTLED"
    BY <2>1 DEF StateInv
  <2>3. n \in AttemptNumbers
    BY <2>1, <2>2, PayoutAssumption DEF TypeOK, AttemptTypeOK, AttemptNumbers
  <2>4. attempts[p][n].hash = payout[p].hash
    BY SMTT(30), <2>1, <2>2 DEF EvidenceInv
  <2>5. attempts[p][n].rail = Rail => wallet[p][n] = "settled"
    BY <2>1, <2>2, <2>3, PayoutAssumption DEF AttemptsInv
  <2>. QED
    BY <2>2, <2>3, <2>4, <2>5
<1>. QED
  BY <1>1, EvidenceInductive, PTL

-----------------------------------------------------------------------------
(* What a step may never do. *)

\* A payout's proof, once signed, keeps its hash, on every route.
KeepsProof(q) ==
    payout[q].event => payout'[q].event /\ payout'[q].hash = payout[q].hash

LEMMA ProofStays ==
    ASSUME EInv, NEW q \in Payouts, Untouched(q) \/ Held(q) \/ Changed(q)
    PROVE  /\ KeepsProof(q)
           /\ payout'[q].event => payout[q].event \/ Proved(q)
           /\ payout[q].state \in PaidStates => payout'[q].state \in PaidStates
<1>e. payout[q].event => payout[q].state \in PaidStates
  BY DEF EInv, IInv, StateInv
<1>1. CASE Untouched(q)
  BY <1>1 DEF KeepsProof, Untouched, Same
<1>2. CASE Held(q) \/ Created(q) \/ Unheld(q) \/ Voided(q) \/ Doomed(q) \/ Claimed(q)
             \/ Marked(q) \/ Failed(q) \/ SettledBy(q) \/ PaidOutside(q)
  <2>1. payout[q].state \notin PaidStates
    BY <1>2 DEF Held, Created, Unheld, Voided, Doomed, Claimed, Marked, Failed, SettledBy,
                PaidOutside, OwedStates, InFlightStates, PaidStates
  <2>2. payout'[q].event => payout[q].event
    BY <1>2 DEF Held, Created, Unheld, Voided, Doomed, Claimed, Marked, Failed, SettledBy,
                PaidOutside, SameMoney, SameAmounts, ReleasesAll
  <2>. QED
    BY <1>e, <2>1, <2>2 DEF KeepsProof
<1>3. CASE FeeVoided(q) \/ ReversedAgain(q) \/ SentOut(q) \/ Answered(q) \/ Published(q)
  BY <1>3 DEF KeepsProof, FeeVoided, ReversedAgain, SentOut, Answered, Published,
              ReleasesAll, SameMoney, SameAmounts, PaidStates
<1>4. CASE Proved(q)
  BY <1>4 DEF KeepsProof, Proved, PaidStates
<1>. QED
  BY <1>1, <1>2, <1>3, <1>4 DEF Changed

\* Two proofs never cite the same payment: the hash check and the signature are one
\* transaction, and no later step touches a signed hash.
THEOREM ProofsAreUnique == Spec => []UniqueProofHash
<1>1. Init => UniqueProofHash
  BY DEF Init, NoPayout, UniqueProofHash
<1>2. EInv /\ UniqueProofHash /\ [Next]_vars => UniqueProofHash'
  <2>. SUFFICES ASSUME EInv, UniqueProofHash, [Next]_vars,
                       NEW p \in Payouts, NEW q \in Payouts,
                       payout'[p].event, payout'[q].event, payout'[p].hash = payout'[q].hash, p # q
                PROVE  FALSE
    BY DEF UniqueProofHash
  <2>1. Classified
    BY StepIsClassified
  <2>2. \A r \in Payouts : Untouched(r) \/ Held(r) \/ Changed(r)
    BY <2>1 DEF Classified, NothingButHolds, OneChanged, Others
  <2>3. CASE payout[p].event /\ payout[q].event
    BY <2>2, <2>3, ProofStays DEF KeepsProof, UniqueProofHash
  <2>4. ASSUME NEW a \in Payouts, NEW b \in Payouts, a # b, payout'[a].hash = payout'[b].hash,
               ~payout[a].event, payout'[a].event, payout'[b].event
        PROVE  FALSE
    <3>1. Proved(a) /\ ~Held(a) /\ ~Untouched(a)
      <4>1. Proved(a)
        BY <2>2, <2>4, ProofStays
      <4>. QED
        BY <2>4, <4>1 DEF Proved, Held, Untouched, Same, OwedStates
    <3>2. Untouched(b)
      <4>1. PICK r \in Payouts : Others(r)
        BY <2>1, <3>1 DEF Classified, NothingButHolds, OneChanged
      <4>2. r = a
        BY <3>1, <4>1 DEF Others
      <4>. QED
        BY <2>4, <4>1, <4>2 DEF Others
    <3>. QED
      BY <2>4, <3>1, <3>2 DEF Proved, Untouched, Same
  <2>. QED
    BY <2>3, <2>4
<1>. QED
  BY <1>1, <1>2, EvidenceInductive, PTL DEF Spec

\* Without the sandbox route nothing un-pays a payout or changes the hash it was paid by.
THEOREM PaymentsAreFinal == ASSUME ~SandboxEnabled PROVE Spec => EvidenceIsFinal
<1>1. EInv /\ EInv' /\ [Next]_vars =>
        [\A p \in Payouts : Paid(p) => /\ Paid(p)'
                                       /\ payout'[p].hash = payout[p].hash
                                       /\ payout[p].event => payout'[p].event]_vars
  <2>. SUFFICES ASSUME EInv, EInv', [Next]_vars, NEW p \in Payouts, Paid(p)
                PROVE  /\ Paid(p)'
                       /\ payout'[p].hash = payout[p].hash
                       /\ payout[p].event => payout'[p].event
    OBVIOUS
  <2>1. Classified
    BY StepIsClassified
  <2>2. Untouched(p) \/ Held(p) \/ Changed(p)
    BY <2>1 DEF Classified, NothingButHolds, OneChanged, Others
  <2>3. payout[p].state \in PaidStates
    BY DEF Paid, PaidStates
  <2>4. payout'[p].state \in PaidStates /\ (payout[p].event => payout'[p].event)
    BY <2>2, <2>3, ProofStays DEF KeepsProof
  <2>5. payout'[p].status = "paid"
    BY <2>4 DEF EInv, IInv, StateInv
  <2>6. payout'[p].hash = payout[p].hash
    BY <2>1, <2>3, EvidenceStays DEF KeepsEvidence
  <2>. QED
    BY <2>4, <2>5, <2>6 DEF Paid, PaidStates
<1>. QED
  BY <1>1, EvidenceInductive, PTL DEF Spec, EvidenceIsFinal

\* Money leaves only for the latest attempt of a payout that is claimed, ready and fully
\* reserved, and over NWC only with its hash recorded.
THEOREM MoneyLeavesBacked == Spec => SendIsBacked
<1>1. EInv /\ [Next]_vars =>
        [\A p \in Payouts, n \in AttemptNumbers :
           wallet[p][n] = "none" /\ wallet'[p][n] # "none" =>
              /\ lastAttempt[p] = n /\ attempts[p][n].status = "PAYING"
              /\ payout[p].state \in {"PAYING", "CANCEL_PENDING"}
              /\ payout[p].reserved = Obligation(p)
              /\ p \in ready
              /\ Rail = "nwc" => attempts[p][n].hash = InvoiceHash(p, n)]_vars
  <2>. SUFFICES ASSUME EInv, [Next]_vars, NEW p \in Payouts, NEW n \in AttemptNumbers,
                       wallet[p][n] = "none", wallet'[p][n] # "none"
                PROVE  /\ lastAttempt[p] = n /\ attempts[p][n].status = "PAYING"
                       /\ payout[p].state \in {"PAYING", "CANCEL_PENDING"}
                       /\ payout[p].reserved = Obligation(p)
                       /\ p \in ready
                       /\ Rail = "nwc" => attempts[p][n].hash = InvoiceHash(p, n)
    OBVIOUS
  <2>1. Untouched(p) \/ Held(p) \/ Changed(p)
    BY StepIsClassified DEF Classified, NothingButHolds, OneChanged, Others
  <2>2. wallet'[p] # wallet[p]
    OBVIOUS
  <2>3. SentOut(p) \/ Answered(p)
    BY <2>1, <2>2 DEF Untouched, Same, Held, Changed, Created, Unheld, Voided, Doomed, FeeVoided,
       ReversedAgain, Claimed, Marked, Failed, SettledBy, PaidOutside, Proved, Published,
       SameAttempts, AttemptBecomes
  <2>4. TypeOK /\ PayoutInv(p) /\ LedgerInv(p) /\ EvidenceInv(p)
    BY DEF EInv, IInv, PayoutInv
  <2>5. wallet[p] \in [AttemptNumbers -> WalletStates]
    BY <2>4 DEF TypeOK, AttemptTypeOK
  <2>6. /\ n = lastAttempt[p] /\ attempts[p][n].status = "PAYING"
        /\ Rail = "nwc" => attempts[p][n].hash = InvoiceHash(p, n)
    BY <2>3, <2>5 DEF SentOut, Answered
  <2>7. payout[p].state \in InFlightStates
    BY <2>4, <2>6, LiveIsLast DEF LiveStatuses
  <2>. QED
    BY <2>4, <2>6, <2>7 DEF LedgerInv, EvidenceInv, InFlightStates
<1>. QED
  BY <1>1, EvidenceInductive, PTL DEF Spec, SendIsBacked

-----------------------------------------------------------------------------
(* The counter of the budget.  Every step moves it by exactly what it changes of *)
(* one payout's reservation, and so does the sum of the reservations.            *)

LEMMA CommittedStep ==
    ASSUME EInv, NEW p \in Payouts, Changed(p), TypeOK'
    PROVE  committed' = committed + (payout'[p].reserved - payout[p].reserved)
<1>. TypeOK /\ LedgerInv(p) /\ StateInv(p)
  BY DEF EInv, IInv
<1>t. /\ committed \in Nat /\ payout[p].reserved \in Nat /\ payout[p].amount \in Nat
      /\ Released(p) \in Nat /\ ledger[p]["commission_settled"] \in Nat /\ Obligation(p) \in Nat
      /\ ledger[p]["reserve"] \in Nat
  BY LedgerTypes
<1>u. payout'[p].reserved \in Nat /\ payout'[p].amount \in Nat /\ payout'[p].fee \in Nat
  BY DEF TypeOK, RowTypeOK, PayoutRow
<1>1. CASE SameMoney(p)
  BY <1>1, <1>t DEF SameMoney
<1>2. CASE Created(p) \/ Unheld(p)
  <2>1. ledger[p]["reserve"] = 0 /\ payout[p].reserved = 0
    BY <1>2, <1>t DEF Created, Unheld, LedgerInv
  <2>2. \/ ReserveCampaignBudget(p, payout'[p].reserved)
        \/ UNCHANGED budgetVars /\ payout'[p].reserved = 0
    BY <1>2 DEF Created, Unheld
  <2>3. ReserveCampaignBudget(p, payout'[p].reserved) => committed' = committed + payout'[p].reserved
    BY <1>u, <2>1, ReserveEffect
  <2>. QED
    BY <1>t, <1>u, <2>1, <2>2, <2>3 DEF budgetVars
<1>3. CASE ReleasesAll(p)
  BY <1>3, <1>t, ReleasesAllEffect DEF ReleasedAll
<1>4. CASE Proved(p)
  <2>1. ledger[p]["commission_settled"] = 0
    BY <1>4 DEF Proved, LedgerInv
  <2>2. CASE /\ payout'[p].reserved = payout[p].reserved - payout[p].amount
             /\ SettleCampaignBudget(p, payout[p].amount)
    <3>1. committed' = committed - payout[p].amount
      BY <1>t, <2>1, <2>2, SettleEffect
    <3>. QED
      BY <1>t, <2>2, <3>1
  <2>3. CASE payout'[p].reserved = payout[p].reserved /\ UNCHANGED budgetVars
    BY <1>t, <2>3 DEF budgetVars
  <2>. QED
    BY <1>4, <2>2, <2>3 DEF Proved
<1>. QED
  BY <1>1, <1>2, <1>3, <1>4
     DEF Changed, Voided, Doomed, FeeVoided, ReversedAgain, Claimed, Marked, SentOut, Answered,
         Failed, SettledBy, PaidOutside, Published

LEMMA ReservationsMove ==
    ASSUME EInv, TypeOK', [Next]_vars
    PROVE  \/ /\ committed' = committed
              /\ \A q \in Payouts : payout'[q].reserved = payout[q].reserved
           \/ \E p \in Payouts :
                /\ committed' = committed + (payout'[p].reserved - payout[p].reserved)
                /\ \A q \in Payouts \ {p} : payout'[q].reserved = payout[q].reserved
<1>1. Classified
  BY StepIsClassified
<1>2. CASE NothingButHolds
  BY <1>2 DEF NothingButHolds, Untouched, Same, Held, SameMoney
<1>3. CASE OneChanged
  BY <1>3, CommittedStep DEF OneChanged, Others, Untouched, Same
<1>. QED
  BY <1>1, <1>2, <1>3 DEF Classified

Reserved == [p \in Payouts |-> payout[p].reserved]

\* The sum of the invariant is one that SetSums speaks about.
SumsReserved ==
    \E h : Tabulates(h, Reserved, Payouts) /\ (CommittedIsReserved <=> committed = h[Payouts])

LEMMA SumOfReserved == ASSUME IsFiniteSet(Payouts), TypeOK PROVE SumsReserved
<1>. DEFINE IsSum(h) == h = [s \in SUBSET Payouts |->
                              IF s = {} THEN 0 ELSE payout[Pick(s)].reserved + h[Rest(s)]]
            sum == CHOOSE h : IsSum(h)
<1>1. Reserved \in [Payouts -> Nat]
  BY DEF TypeOK, RowTypeOK, PayoutRow, Reserved
<1>2. ASSUME NEW h PROVE Adds(h, Reserved, Payouts) <=> IsSum(h)
  <2>1. \A s \in SUBSET Payouts : s # {} => Reserved[Pick(s)] = payout[Pick(s)].reserved
    BY PickIsIn DEF Reserved
  <2>. QED
    BY <2>1 DEF Adds
<1>3. IsSum(sum)
  <2>1. \E h : IsSum(h)
    BY <1>1, <1>2, SumExists
  <2>. QED
    BY <2>1, Zenon
<1>4. CommittedIsReserved <=> committed = sum[Payouts]
  BY Zenon DEF CommittedIsReserved, MapThenSumSet, MapThenFoldSet, Pick, Rest
<1>. HIDE DEF sum
<1>5. Tabulates(sum, Reserved, Payouts)
  BY <1>1, <1>2, <1>3, SumIsTable
<1>. QED
  BY <1>4, <1>5 DEF SumsReserved

\* The committed counter of the budget is exactly what the payouts hold, so no settlement and
\* no release ever meets a counter that is too small, for any finite set of payouts.
THEOREM CommittedIsHeld == ASSUME IsFiniteSet(Payouts) PROVE Spec => []CommittedIsReserved
<1>1. Init => CommittedIsReserved
  <2>. SUFFICES ASSUME Init PROVE CommittedIsReserved
    OBVIOUS
  <2>1. TypeOK /\ committed = 0 /\ \A p \in Payouts : Reserved[p] = 0
    BY InitType DEF Init, BudgetInit, NoPayout, Reserved
  <2>2. Reserved \in [Payouts -> Nat]
    BY <2>1 DEF TypeOK, RowTypeOK, PayoutRow, Reserved
  <2>. QED
    BY <2>1, <2>2, SumOfReserved, SumOfZeros DEF SumsReserved
<1>2. TypeOK => SumsReserved
  BY SumOfReserved
<1>3. TypeOK' => SumsReserved'
  BY <1>2, PTL
<1>4. EInv /\ TypeOK' /\ CommittedIsReserved /\ [Next]_vars => CommittedIsReserved'
  <2>. SUFFICES ASSUME EInv, TypeOK', CommittedIsReserved, [Next]_vars PROVE CommittedIsReserved'
    OBVIOUS
  <2>. TypeOK
    BY DEF EInv, IInv
  <2>1. PICK h : Tabulates(h, Reserved, Payouts) /\ committed = h[Payouts]
    BY SumOfReserved DEF SumsReserved
  <2>2. PICK k : Tabulates(k, Reserved', Payouts) /\ (CommittedIsReserved' <=> committed' = k[Payouts])
    BY <1>3 DEF SumsReserved
  <2>3. /\ Reserved \in [Payouts -> Nat] /\ Reserved' \in [Payouts -> Nat]
        /\ \A p \in Payouts : Reserved[p] = payout[p].reserved /\ Reserved'[p] = payout'[p].reserved
    BY DEF TypeOK, RowTypeOK, PayoutRow, Reserved
  <2>. HIDE DEF Reserved
  <2>4. k[Payouts] \in Nat /\ h[Payouts] \in Nat
    BY <2>1, <2>2 DEF Tabulates
  <2>5. CASE committed' = committed /\ \A q \in Payouts : Reserved'[q] = Reserved[q]
    <3>1. Reserved' = Reserved
      BY <2>3, <2>5
    <3>2. k[Payouts] = h[Payouts]
      BY <2>1, <2>2, <3>1, TablesAgree
    <3>. QED
      BY <2>1, <2>2, <2>5, <3>2
  <2>6. ASSUME NEW p \in Payouts,
               committed' = committed + (Reserved'[p] - Reserved[p]),
               \A q \in Payouts \ {p} : Reserved'[q] = Reserved[q]
        PROVE  CommittedIsReserved'
    <3>1. k[Payouts] + Reserved[p] = h[Payouts] + Reserved'[p]
      BY <2>1, <2>2, <2>3, <2>6, SumMoves
    <3>2. Reserved[p] \in Nat /\ Reserved'[p] \in Nat
      BY <2>3
    <3>. QED
      BY <2>1, <2>2, <2>4, <2>6, <3>1, <3>2
  <2>. QED
    BY <2>3, <2>5, <2>6, ReservationsMove
<1>. QED
  BY <1>1, <1>4, EvidenceInductive, TypeCorrect, PTL DEF Spec

-----------------------------------------------------------------------------
(* The handlers implement the obligations. *)

Phase(s) ==
    CASE s = "NONE"                              -> "absent"
      [] s = "ON_HOLD"                           -> "held"
      [] s \in {"PAYABLE", "FAILED"}             -> "owed"
      [] s \in {"PAYING", "CANCEL_PENDING"}      -> "inflight"
      [] s = "SETTLED"                           -> "paid"
      [] s = "PUBLISHED"                         -> "proved"
      [] s = "CANCELLED"                         -> "void"

LEMMA Phases ==
    /\ Phase("NONE") = "absent" /\ Phase("ON_HOLD") = "held"
    /\ Phase("PAYABLE") = "owed" /\ Phase("FAILED") = "owed"
    /\ Phase("PAYING") = "inflight" /\ Phase("CANCEL_PENDING") = "inflight"
    /\ Phase("SETTLED") = "paid" /\ Phase("PUBLISHED") = "proved" /\ Phase("CANCELLED") = "void"
<1>1. Phase("NONE") = "absent"
  BY Zenon DEF Phase
<1>2. Phase("ON_HOLD") = "held"
  BY Zenon DEF Phase
<1>3. Phase("PAYABLE") = "owed"
  BY Zenon DEF Phase
<1>4. Phase("FAILED") = "owed"
  BY Zenon DEF Phase
<1>5. Phase("PAYING") = "inflight"
  BY Zenon DEF Phase
<1>6. Phase("CANCEL_PENDING") = "inflight"
  BY Zenon DEF Phase
<1>7. Phase("SETTLED") = "paid"
  BY Zenon DEF Phase
<1>8. Phase("PUBLISHED") = "proved"
  BY Zenon DEF Phase
<1>9. Phase("CANCELLED") = "void"
  BY Zenon DEF Phase
<1>. QED
  BY <1>1, <1>2, <1>3, <1>4, <1>5, <1>6, <1>7, <1>8, <1>9

\* The obligations' view of the rows.
AbsState == [p \in Payouts |-> ObligationState(p)]
AbsMoved == {p \in Payouts : \E n \in AttemptNumbers : Pays(p, n)}
AbsReversed == {p \in Payouts : conversion[p] = "reversed"}

LEMMA PhaseOfRow ==
    ASSUME NEW p \in Payouts
    PROVE  AbsState[p] = Phase(payout[p].state) /\ AbsState'[p] = Phase(payout'[p].state)
<1>1. ObligationState(p) = Phase(payout[p].state)
  BY Zenon DEF ObligationState, Phase
<1>2. ObligationState(p)' = Phase(payout'[p].state)
  BY Zenon DEF ObligationState, Phase
<1>. QED
  BY <1>1, <1>2 DEF AbsState

Moves(p) == \E n \in AttemptNumbers : Pays(p, n)

LEMMA SameMoves ==
    ASSUME NEW p \in Payouts, SameAttempts(p)
    PROVE  Moves(p)' <=> Moves(p)
BY DEF SameAttempts, Moves, Pays, Sent, Attested

\* The view changes at p only.
LEMMA ViewOf ==
    ASSUME NEW p \in Payouts, Others(p)
    PROVE  /\ AbsState' = [AbsState EXCEPT ![p] = Phase(payout'[p].state)]
           /\ Moves(p)' => AbsMoved' = AbsMoved \cup {p}
           /\ ~Moves(p)' => AbsMoved' = AbsMoved \ {p}
           /\ (Moves(p)' <=> Moves(p)) => AbsMoved' = AbsMoved
           /\ conversion'[p] = "reversed" => AbsReversed' = AbsReversed \cup {p}
           /\ conversion'[p] = conversion[p] => AbsReversed' = AbsReversed
           /\ (conversion[p] # "reversed" /\ conversion'[p] # "reversed") => AbsReversed' = AbsReversed
<1>1. \A q \in Payouts \ {p} : AbsState'[q] = AbsState[q]
  BY PhaseOfRow DEF Others, Untouched, Same
<1>2. \A q \in Payouts \ {p} : Moves(q)' <=> Moves(q)
  BY SameMoves DEF Others, Untouched, Same
<1>3. AbsState' = [q \in Payouts |-> AbsState'[q]] /\ AbsState = [q \in Payouts |-> AbsState[q]]
  BY Zenon DEF AbsState
<1>4. AbsState' = [AbsState EXCEPT ![p] = Phase(payout'[p].state)]
  <2>1. AbsState'[p] = Phase(payout'[p].state)
    BY PhaseOfRow
  <2>. HIDE DEF AbsState
  <2>2. PICK f, g : f = AbsState' /\ g = AbsState
    OBVIOUS
  <2>3. f = [g EXCEPT ![p] = Phase(payout'[p].state)]
    BY <1>1, <1>3, <2>1, <2>2
  <2>. QED
    BY <2>2, <2>3
<1>5. AbsMoved = {q \in Payouts : Moves(q)} /\ AbsMoved' = {q \in Payouts : Moves(q)'}
  BY DEF AbsMoved, Moves
<1>6. /\ Moves(p)' => AbsMoved' = AbsMoved \cup {p}
      /\ ~Moves(p)' => AbsMoved' = AbsMoved \ {p}
      /\ (Moves(p)' <=> Moves(p)) => AbsMoved' = AbsMoved
  BY <1>2, <1>5
<1>7. \A q \in Payouts \ {p} : conversion'[q] = conversion[q]
  BY DEF Others, Untouched, Same
<1>8. /\ conversion'[p] = "reversed" => AbsReversed' = AbsReversed \cup {p}
      /\ conversion'[p] = conversion[p] => AbsReversed' = AbsReversed
      /\ (conversion[p] # "reversed" /\ conversion'[p] # "reversed") => AbsReversed' = AbsReversed
  BY <1>7 DEF AbsReversed
<1>. QED
  BY <1>4, <1>6, <1>8

\* The actions of the obligations, said of the view.
LEMMA ViewStep ==
    ASSUME NEW p \in Payouts,
           \/ /\ AbsState[p] = "absent"
              /\ \E s \in {"held", "owed"} : AbsState' = [AbsState EXCEPT ![p] = s]
              /\ AbsMoved' = AbsMoved /\ AbsReversed' = AbsReversed
           \/ /\ AbsState[p] = "held" /\ p \notin AbsReversed
              /\ AbsState' = [AbsState EXCEPT ![p] = "owed"]
              /\ AbsMoved' = AbsMoved /\ AbsReversed' = AbsReversed
           \/ /\ AbsState[p] = "owed" /\ p \notin AbsReversed
              /\ AbsState' = [AbsState EXCEPT ![p] = "inflight"]
              /\ AbsMoved' = AbsMoved /\ AbsReversed' = AbsReversed
           \/ /\ AbsState[p] = "inflight" /\ AbsMoved' \in {AbsMoved \cup {p}, AbsMoved \ {p}}
              /\ AbsState' = AbsState /\ AbsReversed' = AbsReversed
           \/ /\ AbsState[p] = "inflight" /\ p \notin AbsMoved
              /\ AbsState' = [AbsState EXCEPT ![p] = IF p \in AbsReversed THEN "void" ELSE "owed"]
              /\ AbsMoved' = AbsMoved /\ AbsReversed' = AbsReversed
           \/ /\ AbsState[p] = "inflight" /\ p \in AbsMoved
              /\ AbsState' = [AbsState EXCEPT ![p] = "paid"]
              /\ AbsMoved' = AbsMoved /\ AbsReversed' = AbsReversed
           \/ /\ AbsState[p] = "owed" /\ p \notin AbsReversed
              /\ AbsState' = [AbsState EXCEPT ![p] = "paid"]
              /\ AbsMoved' = AbsMoved \cup {p} /\ AbsReversed' = AbsReversed
           \/ /\ AbsState[p] = "paid"
              /\ AbsState' = [AbsState EXCEPT ![p] = "proved"]
              /\ AbsMoved' = AbsMoved /\ AbsReversed' = AbsReversed
           \/ /\ AbsState[p] # "absent" /\ AbsReversed' = AbsReversed \cup {p}
              /\ AbsState' = IF AbsState[p] \in {"held", "owed"}
                             THEN [AbsState EXCEPT ![p] = "void"] ELSE AbsState
              /\ AbsMoved' = AbsMoved
    PROVE  Obligations!Next
BY DEF Obligations!Next, Obligations!Create, Obligations!Unhold, Obligations!Claim, Obligations!Send,
       Obligations!Bounce, Obligations!Fail, Obligations!Settle, Obligations!SettleOutside,
       Obligations!Prove, Obligations!Reverse, Obligations!Becomes, AbsState, AbsMoved, AbsReversed

\* Which money moved, of what kind of row.
LEMMA MovesWhere ==
    ASSUME EInv, NEW p \in Payouts
    PROVE  /\ Moves(p) => payout[p].state \in InFlightStates \cup PaidStates
           /\ \A n \in AttemptNumbers :
                attempts[p][n].status \in LiveStatuses => (Moves(p) <=> Sent(p, n))
<1>. IInv /\ PayoutInv(p) /\ TypeOK
  BY DEF EInv, IInv, PayoutInv
<1>1. Moves(p) => payout[p].state \in InFlightStates \cup PaidStates
  BY PaysIsLast DEF Moves
<1>2. ASSUME NEW n \in AttemptNumbers, attempts[p][n].status \in LiveStatuses
      PROVE  Moves(p) <=> Sent(p, n)
  <2>1. ~Attested(p, n)
    BY <1>2 DEF Attested, LiveStatuses
  <2>2. ASSUME NEW m \in AttemptNumbers, Pays(p, m) PROVE m = n
    BY <1>2, <2>2, LiveIsLast, PaysIsLast
  <2>. QED
    BY <2>1, <2>2 DEF Moves, Pays
<1>. QED
  BY <1>1, <1>2

\* An attempt whose row changes without being settled outside the rail pays as it did.
LEMMA RowMoves ==
    ASSUME NEW p \in Payouts, NEW n \in AttemptNumbers,
           \A m \in AttemptNumbers \ {n} : attempts'[p][m] = attempts[p][m],
           wallet'[p] = wallet[p], ~Attested(p, n), ~Attested(p, n)'
    PROVE  Moves(p)' <=> Moves(p)
<1>1. \A m \in AttemptNumbers \ {n} : Pays(p, m)' <=> Pays(p, m)
  BY DEF Pays, Sent, Attested
<1>2. Pays(p, n)' <=> Pays(p, n)
  BY DEF Pays, Sent
<1>. QED
  BY <1>1, <1>2 DEF Moves

ViewStays == AbsState' = AbsState /\ AbsMoved' = AbsMoved /\ AbsReversed' = AbsReversed

LEMMA ViewFacts ==
    ASSUME NEW p \in Payouts
    PROVE  (p \in AbsMoved <=> Moves(p)) /\ (p \in AbsReversed <=> conversion[p] = "reversed")
BY DEF AbsMoved, AbsReversed, Moves

\* A row whose phase stays shows the same state.
LEMMA PhaseStays ==
    ASSUME NEW p \in Payouts, Others(p), Phase(payout'[p].state) = Phase(payout[p].state)
    PROVE  AbsState' = AbsState
<1>1. AbsState' = [AbsState EXCEPT ![p] = AbsState[p]]
  BY ViewOf, PhaseOfRow
<1>2. AbsState = [q \in Payouts |-> AbsState[q]]
  BY Zenon DEF AbsState
<1>. QED
  BY <1>1, <1>2

\* A payout is created, let go of its hold, or reversed.
LEMMA CampaignView ==
    ASSUME EInv, NEW p \in Payouts, Others(p),
           \/ Created(p) \/ Unheld(p) \/ Voided(p) \/ Doomed(p) \/ FeeVoided(p) \/ ReversedAgain(p)
    PROVE  Obligations!Next
<1>1. SameAttempts(p)
  BY DEF Created, Unheld, Voided, Doomed, FeeVoided, ReversedAgain
<1>2. AbsMoved' = AbsMoved
  BY <1>1, SameMoves, ViewOf
<1>3. CASE Created(p)
  <2>1. AbsState[p] = "absent" /\ AbsReversed' = AbsReversed
    BY <1>3, Phases, PhaseOfRow, ViewOf DEF Created
  <2>2. \E s \in {"held", "owed"} : AbsState' = [AbsState EXCEPT ![p] = s]
    BY <1>3, Phases, ViewOf DEF Created
  <2>. QED
    BY <1>2, <2>1, <2>2, ViewStep
<1>4. CASE Unheld(p)
  <2>1. /\ AbsState[p] = "held" /\ p \notin AbsReversed
        /\ AbsState' = [AbsState EXCEPT ![p] = "owed"] /\ AbsReversed' = AbsReversed
    BY <1>4, Phases, PhaseOfRow, ViewFacts, ViewOf DEF Unheld
  <2>. QED
    BY <1>2, <2>1, ViewStep
<1>5. CASE Voided(p)
  <2>1. AbsState[p] \in {"held", "owed"} /\ AbsReversed' = AbsReversed \cup {p}
    BY <1>5, Phases, PhaseOfRow, ViewOf DEF Voided, OwedStates
  <2>2. AbsState' = [AbsState EXCEPT ![p] = "void"]
    BY <1>5, Phases, ViewOf DEF Voided
  <2>. QED
    BY <1>2, <2>1, <2>2, ViewStep
<1>6. CASE Doomed(p) \/ FeeVoided(p) \/ ReversedAgain(p)
  <2>1. Phase(payout[p].state) \in {"inflight", "paid", "proved", "void"}
    BY <1>6, Phases DEF Doomed, FeeVoided, ReversedAgain, PaidStates
  <2>2. AbsState[p] \notin {"absent", "held", "owed"}
    BY <2>1, PhaseOfRow
  <2>3. AbsReversed' = AbsReversed \cup {p}
    BY <1>6, ViewOf DEF Doomed, FeeVoided, ReversedAgain
  <2>4. AbsState' = AbsState
    BY <1>6, Phases, PhaseStays DEF Doomed, FeeVoided, ReversedAgain
  <2>. QED
    BY <1>2, <2>2, <2>3, <2>4, ViewStep
<1>. QED
  BY <1>3, <1>4, <1>5, <1>6

\* An attempt is opened, sent, answered, and fails or settles.
LEMMA ClaimedView ==
    ASSUME NEW p \in Payouts, Others(p), Claimed(p)
    PROVE  Obligations!Next
<1>1. PICK n \in AttemptNumbers : Opens(p, n, Rail) /\ AttemptBecomes(p, n, "PAYING", NoHash)
  BY DEF Claimed
<1>2. ~Attested(p, n) /\ ~Attested(p, n)'
  BY <1>1 DEF Opens, AttemptBecomes, Attested, NoAttempt
<1>3. AbsMoved' = AbsMoved
  BY <1>1, <1>2, RowMoves, ViewOf DEF AttemptBecomes
<1>4. /\ AbsState[p] = "owed" /\ p \notin AbsReversed
      /\ AbsState' = [AbsState EXCEPT ![p] = "inflight"] /\ AbsReversed' = AbsReversed
  BY Phases, PhaseOfRow, ViewFacts, ViewOf DEF Claimed, OwedStates
<1>. QED
  BY <1>3, <1>4, ViewStep

LEMMA MarkedView ==
    ASSUME NEW p \in Payouts, Others(p), Marked(p)
    PROVE  ViewStays
<1>1. PICK n \in AttemptNumbers, s \in LiveStatuses, h \in {NoHash, InvoiceHash(p, lastAttempt[p])} :
         attempts[p][n].status \in LiveStatuses /\ AttemptBecomes(p, n, s, h)
  BY DEF Marked
<1>2. ~Attested(p, n) /\ ~Attested(p, n)'
  BY <1>1 DEF AttemptBecomes, Attested, LiveStatuses
<1>3. AbsMoved' = AbsMoved
  BY <1>1, <1>2, RowMoves, ViewOf DEF AttemptBecomes
<1>4. AbsState' = AbsState /\ AbsReversed' = AbsReversed
  BY PhaseStays, ViewOf DEF Marked
<1>. QED
  BY <1>3, <1>4 DEF ViewStays

LEMMA SentOutView ==
    ASSUME EInv, NEW p \in Payouts, Others(p), SentOut(p)
    PROVE  Obligations!Next
<1>. TypeOK /\ PayoutInv(p)
  BY DEF EInv, IInv, PayoutInv
<1>1. PICK n \in AttemptNumbers :
            /\ attempts[p][n].status = "PAYING"
            /\ \E o \in {"queued", "inflight"} : wallet'[p] = [wallet[p] EXCEPT ![n] = o]
  BY DEF SentOut
<1>2. payout[p].state \in InFlightStates
  BY <1>1, LiveIsLast DEF LiveStatuses
<1>3. Sent(p, n)'
  BY <1>1 DEF TypeOK, AttemptTypeOK, Sent
<1>4. AbsMoved' = AbsMoved \cup {p}
  BY <1>3, ViewOf DEF Moves, Pays
<1>5. AbsState' = AbsState /\ AbsReversed' = AbsReversed /\ AbsState[p] = "inflight"
  BY <1>2, Phases, PhaseOfRow, PhaseStays, ViewOf DEF SentOut, InFlightStates
<1>. QED
  BY <1>4, <1>5, ViewStep

LEMMA AnsweredView ==
    ASSUME EInv, NEW p \in Payouts, Others(p), Answered(p)
    PROVE  Obligations!Next \/ ViewStays
<1>. TypeOK /\ PayoutInv(p) /\ IInv
  BY DEF EInv, IInv, PayoutInv
<1>1. PICK n \in AttemptNumbers, a \in {"inflight", "settled", "failed"} :
         wallet[p][n] \in {"queued", "inflight"} /\ wallet'[p] = [wallet[p] EXCEPT ![n] = a]
  BY DEF Answered
<1>2. Pays(p, n)
  BY <1>1 DEF Pays, Sent
<1>3. attempts[p][n].status \in LiveStatuses
  BY <1>1, <1>2, PaysIsLast DEF PayoutInv, AttemptsInv, LiveStatuses
<1>4. payout[p].state \in InFlightStates
  BY <1>3, LiveIsLast
<1>5. AbsState' = AbsState /\ AbsReversed' = AbsReversed /\ AbsState[p] = "inflight"
  BY <1>4, Phases, PhaseOfRow, PhaseStays, ViewOf DEF Answered, InFlightStates
<1>6. wallet'[p][n] = a /\ \A m \in AttemptNumbers \ {n} : wallet'[p][m] = wallet[p][m]
  BY <1>1 DEF TypeOK, AttemptTypeOK
<1>7. CASE a \in {"inflight", "settled"}
  <2>1. Moves(p)' /\ Moves(p)
    BY <1>2, <1>6, <1>7 DEF Moves, Pays, Sent
  <2>. QED
    BY <1>5, <2>1, ViewOf DEF ViewStays
<1>8. CASE a = "failed"
  <2>1. \A m \in AttemptNumbers \ {n} : ~Pays(p, m)
    BY <1>2, PaysIsLast
  <2>2. \A m \in AttemptNumbers \ {n} : ~Pays(p, m)'
    BY <1>6, <2>1 DEF Answered, Pays, Sent, Attested
  <2>3. ~Pays(p, n)'
    BY <1>3, <1>6, <1>8 DEF Answered, Pays, Sent, Attested, LiveStatuses
  <2>4. AbsMoved' = AbsMoved \ {p}
    BY <2>2, <2>3, ViewOf DEF Moves
  <2>. QED
    BY <1>5, <2>4, ViewStep
<1>. QED
  BY <1>7, <1>8

LEMMA FailedView ==
    ASSUME EInv, NEW p \in Payouts, Others(p), Failed(p)
    PROVE  Obligations!Next
<1>. TypeOK /\ PayoutInv(p)
  BY DEF EInv, IInv, PayoutInv
<1>1. PICK n \in AttemptNumbers :
         /\ attempts[p][n].status \in LiveStatuses /\ wallet[p][n] \in {"none", "failed"}
         /\ AttemptBecomes(p, n, "FAILED", attempts[p][n].hash)
  BY DEF Failed
<1>2. ~Attested(p, n) /\ ~Attested(p, n)' /\ ~Sent(p, n)
  BY <1>1 DEF AttemptBecomes, Attested, Sent, LiveStatuses
<1>3. p \notin AbsMoved
  BY <1>1, <1>2, MovesWhere, ViewFacts
<1>4. AbsMoved' = AbsMoved /\ AbsReversed' = AbsReversed
  BY <1>1, <1>2, RowMoves, ViewOf DEF AttemptBecomes, Failed
<1>5. AbsState[p] = "inflight"
  BY Phases, PhaseOfRow DEF Failed
<1>6. AbsState' = [AbsState EXCEPT ![p] = IF p \in AbsReversed THEN "void" ELSE "owed"]
  <2>1. CASE payout[p].state = "PAYING"
    <3>1. conversion[p] # "reversed"
      BY <2>1 DEF PayoutInv, StateInv
    <3>. QED
      BY <2>1, <3>1, Phases, ViewFacts, ViewOf DEF Failed
  <2>2. CASE payout[p].state = "CANCEL_PENDING"
    BY <2>2, Phases, ViewFacts, ViewOf DEF Failed
  <2>. QED
    BY <2>1, <2>2 DEF Failed
<1>. QED
  BY <1>3, <1>4, <1>5, <1>6, ViewStep

LEMMA SettledByView ==
    ASSUME EInv, NEW p \in Payouts, Others(p), SettledBy(p)
    PROVE  Obligations!Next
<1>. TypeOK /\ PayoutInv(p)
  BY DEF EInv, IInv, PayoutInv
<1>1. PICK n \in AttemptNumbers :
         /\ attempts[p][n].status \in LiveStatuses /\ wallet[p][n] = "settled"
         /\ AttemptBecomes(p, n, "SETTLED", InvoiceHash(p, n))
  BY DEF SettledBy
<1>2. Moves(p) /\ Moves(p)'
  BY <1>1 DEF AttemptBecomes, Moves, Pays, Sent
<1>3. /\ AbsState[p] = "inflight" /\ p \in AbsMoved
      /\ AbsState' = [AbsState EXCEPT ![p] = "paid"]
      /\ AbsMoved' = AbsMoved /\ AbsReversed' = AbsReversed
  BY <1>2, Phases, PhaseOfRow, ViewFacts, ViewOf DEF SettledBy, InFlightStates
<1>. QED
  BY <1>3, ViewStep

LEMMA PaidOutsideView ==
    ASSUME NEW p \in Payouts, Others(p), PaidOutside(p)
    PROVE  Obligations!Next
<1>1. PICK n \in AttemptNumbers, rail \in {"manual", "sandbox"} :
         Opens(p, n, rail) /\ AttemptBecomes(p, n, "SETTLED", payout'[p].hash)
  BY DEF PaidOutside
<1>2. Attested(p, n)'
  BY <1>1 DEF Opens, AttemptBecomes, Attested
<1>3. /\ AbsState[p] = "owed" /\ p \notin AbsReversed
      /\ AbsState' = [AbsState EXCEPT ![p] = "paid"]
      /\ AbsMoved' = AbsMoved \cup {p} /\ AbsReversed' = AbsReversed
  BY <1>2, Phases, PhaseOfRow, ViewFacts, ViewOf DEF PaidOutside, OwedStates, Moves, Pays
<1>. QED
  BY <1>3, ViewStep

LEMMA ProofView ==
    ASSUME NEW p \in Payouts, Others(p), Proved(p) \/ Published(p)
    PROVE  Obligations!Next \/ ViewStays
<1>1. AbsMoved' = AbsMoved /\ AbsReversed' = AbsReversed
  BY SameMoves, ViewOf DEF Proved, Published
<1>2. CASE Proved(p)
  BY <1>1, <1>2, PhaseStays DEF Proved, ViewStays
<1>3. CASE Published(p) /\ payout'[p].state = payout[p].state
  BY <1>1, <1>3, PhaseStays DEF ViewStays
<1>4. CASE Published(p) /\ payout[p].state = "SETTLED" /\ payout'[p].state = "PUBLISHED"
  <2>1. AbsState[p] = "paid" /\ AbsState' = [AbsState EXCEPT ![p] = "proved"]
    BY <1>4, Phases, PhaseOfRow, ViewOf
  <2>. QED
    BY <1>1, <2>1, ViewStep
<1>. QED
  BY <1>2, <1>3, <1>4 DEF Published, PaidStates

\* A reconciliation holds the payouts it could not reserve, and no other.
LEMMA HoldsView ==
    ASSUME NothingButHolds
    PROVE  Obligations!Next
<1>. DEFINE S == {p \in Payouts : ~Untouched(p)}
<1>1. \A p \in S : AbsState[p] = "owed" /\ AbsState'[p] = "held"
  BY Phases, PhaseOfRow DEF NothingButHolds, Held, OwedStates
<1>2. \A p \in Payouts \ S : AbsState'[p] = AbsState[p]
  BY PhaseOfRow DEF Untouched, Same
<1>3. AbsState' = [p \in Payouts |-> IF p \in S THEN "held" ELSE AbsState[p]]
  <2>1. AbsState' = [p \in Payouts |-> AbsState'[p]]
    BY Zenon DEF AbsState
  <2>2. \A p \in Payouts : AbsState'[p] = IF p \in S THEN "held" ELSE AbsState[p]
    BY <1>1, <1>2
  <2>. HIDE DEF S
  <2>3. PICK f : f = AbsState'
    OBVIOUS
  <2>. HIDE DEF AbsState
  <2>4. f = [p \in Payouts |-> IF p \in S THEN "held" ELSE AbsState[p]]
    BY <2>1, <2>2, <2>3
  <2>. QED
    BY <2>3, <2>4
<1>4. \A p \in Payouts : SameAttempts(p) /\ conversion'[p] = conversion[p]
  BY DEF NothingButHolds, Untouched, Same, Held
<1>5. AbsMoved' = AbsMoved
  <2>1. \A p \in Payouts : Moves(p)' <=> Moves(p)
    BY <1>4, SameMoves
  <2>. QED
    BY <2>1 DEF AbsMoved, Moves
<1>6. AbsReversed' = AbsReversed
  BY <1>4 DEF AbsReversed
<1>7. Obligations!Hold(S)
  <2>. HIDE DEF S
  <2>. QED
    BY <1>1, <1>3, <1>5, <1>6 DEF Obligations!Hold, AbsState, AbsMoved, AbsReversed
<1>. QED
  BY <1>7 DEF Obligations!Next

\* The handlers, with their crashes, races and ambiguous answers, do to the obligations of a
\* campaign what PayoutObligation allows and nothing else: a payout counts as paid exactly
\* if its money moved, is owed again or void only if it did not, and what was in flight when
\* its conversion was reversed is never owed again.
THEOREM HandlersImplementObligations == Spec => ImplementsObligations
<1>1. Init => Obligations!Init
  <2>. SUFFICES ASSUME Init PROVE Obligations!Init
    OBVIOUS
  <2>1. ASSUME NEW p \in Payouts
        PROVE  ObligationState(p) = "absent" /\ ~Moves(p) /\ conversion[p] # "reversed"
    <3>1. ObligationState(p) = "absent"
      BY Phases, PhaseOfRow DEF Init, NoPayout, AbsState
    <3>2. ~Moves(p) /\ conversion[p] # "reversed"
      BY DEF Init, NoAttempt, Moves, Pays, Sent, Attested
    <3>. QED
      BY <3>1, <3>2
  <2>. QED
    BY <2>1 DEF Obligations!Init, Moves
<1>2. EInv /\ [Next]_vars => [Obligations!Next]_Obligations!obligationVars
  <2>. SUFFICES ASSUME EInv, [Next]_vars
                PROVE  Obligations!Next \/ UNCHANGED Obligations!obligationVars
    OBVIOUS
  <2>1. ASSUME NEW p \in Payouts, Others(p), Changed(p)
        PROVE  Obligations!Next \/ ViewStays
    BY <2>1, CampaignView, ClaimedView, MarkedView, SentOutView, AnsweredView, FailedView,
       SettledByView, PaidOutsideView, ProofView DEF Changed
  <2>2. Obligations!Next \/ ViewStays
    BY <2>1, StepIsClassified, HoldsView DEF Classified, OneChanged
  <2>3. ViewStays => UNCHANGED Obligations!obligationVars
    BY DEF ViewStays, AbsState, AbsMoved, AbsReversed, Obligations!obligationVars
  <2>. QED
    BY <2>2, <2>3
<1>. QED
  BY <1>1, <1>2, EvidenceInductive, PTL DEF Spec, ImplementsObligations, Obligations!Spec

=============================================================================

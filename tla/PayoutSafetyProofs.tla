------------------------- MODULE PayoutSafetyProofs -------------------------
(***************************************************************************)
(* IInv is inductive, and what follows from it, for every value of the     *)
(* constants.  Most actions touch one payout and one worker: Preserve      *)
(* reduces the preservation of IInv to that payout, that worker, and the   *)
(* other workers of that payout.                                           *)
(***************************************************************************)
EXTENDS PayoutInvariant, PayoutLedgerProofs

PayoutInv(p) == AttemptsInv(p) /\ StateInv(p)

SameAttempts(p) ==
    /\ attempts'[p] = attempts[p]
    /\ lastAttempt'[p] = lastAttempt[p]
    /\ wallet'[p] = wallet[p]

Same(p) == SameAttempts(p) /\ payout'[p] = payout[p] /\ conversion'[p] = conversion[p]

StaysPaid(p) == payout[p].state \in PaidStates => payout'[p].state \in PaidStates

\* An untouched payout keeps its invariant.
LEMMA SameInv ==
    ASSUME NEW p \in Payouts, PayoutInv(p), Same(p)
    PROVE  PayoutInv(p)'
BY DEF PayoutInv, AttemptsInv, StateInv, Same, SameAttempts

\* A worker keeps its invariant when nothing it relies on changes.
LEMMA WorkerKept ==
    ASSUME NEW v \in Workers, WorkerInv(v), job'[v] = job[v],
           job[v].step # "idle" => SameAttempts(job[v].payout) /\ StaysPaid(job[v].payout)
    PROVE  WorkerInv(v)'
BY DEF WorkerInv, SameAttempts, StaysPaid, PayingSteps, ProvingSteps

LEMMA InitInv == Init => IInv
<1>. SUFFICES ASSUME Init PROVE IInv
  OBVIOUS
<1>1. TypeOK
  BY InitType
<1>2. ASSUME NEW p \in Payouts PROVE AttemptsInv(p) /\ StateInv(p)
  BY PayoutAssumption DEF Init, AttemptsInv, StateInv, NoPayout, NoAttempt, InFlightStates, PaidStates, AttemptNumbers
<1>3. ASSUME NEW w \in Workers PROVE WorkerInv(w) /\ \A v \in Workers : Exclusive(v, w)
  BY DEF Init, Idle, WorkerInv, Exclusive, PayingSteps, ProvingSteps
<1>. QED
  BY <1>1, <1>2, <1>3 DEF IInv

\* One payout p and the workers in A change.
LEMMA Preserve ==
    ASSUME IInv, TypeOK', NEW p \in Payouts, NEW A \in SUBSET Workers,
           \A q \in Payouts \ {p} : Same(q),
           PayoutInv(p)',
           \A v \in Workers \ A : job'[v] = job[v] /\ (job[v].step # "idle" /\ job[v].payout = p => WorkerInv(v)'),
           \A v \in A : WorkerInv(v)' /\ \A u \in Workers : Exclusive(u, v)' /\ Exclusive(v, u)'
    PROVE  IInv'
<1>1. ASSUME NEW q \in Payouts PROVE PayoutInv(q)'
  <2>1. CASE q = p
    BY <2>1
  <2>2. CASE q # p
    BY <2>2, SameInv DEF IInv, PayoutInv
  <2>. QED
    BY <2>1, <2>2
<1>2. ASSUME NEW v \in Workers \ A PROVE WorkerInv(v)'
  <2>1. CASE job[v].step # "idle" /\ job[v].payout = p
    BY <2>1
  <2>2. CASE ~(job[v].step # "idle" /\ job[v].payout = p)
    <3>1. job[v].step # "idle" => job[v].payout \in Payouts \ {p}
      BY <2>2 DEF IInv, TypeOK, JobTypeOK
    <3>. QED
      BY <3>1, WorkerKept DEF IInv, Same, StaysPaid
  <2>. QED
    BY <2>1, <2>2
<1>3. ASSUME NEW v \in Workers \ A, NEW u \in Workers \ A PROVE Exclusive(v, u)'
  BY DEF IInv, Exclusive
<1>. QED
  BY <1>1, <1>2, <1>3 DEF IInv, PayoutInv

\* The case of a change to rows only: attempts, wallet and jobs stay.
LEMMA PreserveRows ==
    ASSUME IInv, TypeOK', UNCHANGED job,
           \A q \in Payouts : SameAttempts(q) /\ StaysPaid(q) /\ PayoutInv(q)'
    PROVE  IInv'
<1>1. ASSUME NEW v \in Workers PROVE WorkerInv(v)'
  BY WorkerKept DEF IInv, TypeOK, JobTypeOK
<1>2. ASSUME NEW v \in Workers, NEW u \in Workers PROVE Exclusive(v, u)'
  BY DEF IInv, Exclusive
<1>. QED
  BY <1>1, <1>2 DEF IInv, PayoutInv

-----------------------------------------------------------------------------
(* What the row operators set. *)

LEMMA RowFields ==
    ASSUME NEW r \in PayoutRow, NEW h, NEW q, NEW k, NEW s
    PROVE  /\ PayableRow(r).state = "PAYABLE" /\ PayableRow(r).status = "pending"
           /\ PayableRow(r).event = r.event
           /\ HeldRow(r).state = "ON_HOLD" /\ HeldRow(r).status = "on_hold"
           /\ HeldRow(r).event = r.event
           /\ CancelledRow(r).state = "CANCELLED" /\ CancelledRow(r).status = "reversed"
           /\ CancelledRow(r).event = r.event
           /\ ClaimedRow(r).state = "PAYING" /\ ClaimedRow(r).status = "processing"
           /\ ClaimedRow(r).event = r.event /\ ClaimedRow(r).provider = Rail
           /\ FailedRow(r).state = "FAILED" /\ FailedRow(r).status = "failed"
           /\ FailedRow(r).event = r.event
           /\ SettledRow(r, h, q).state = "SETTLED" /\ SettledRow(r, h, q).status = "paid"
BY DEF PayoutRow, PayableRow, HeldRow, CancelledRow, ClaimedRow, FailedRow, SettledRow

\* A change of a payout row that keeps it in or out of flight and paid or unpaid.
LEMMA RowStep ==
    ASSUME NEW p \in Payouts, PayoutInv(p), SameAttempts(p),
           payout'[p].state \in InFlightStates <=> payout[p].state \in InFlightStates,
           payout'[p].state \in PaidStates <=> payout[p].state \in PaidStates,
           payout[p].state \in InFlightStates => payout'[p].provider = payout[p].provider,
           payout'[p].status = "paid" <=> payout'[p].state \in PaidStates,
           payout'[p].event => payout'[p].status = "paid",
           payout'[p].state = "CANCEL_PENDING" => conversion'[p] = "reversed",
           payout'[p].state = "PAYING" => conversion'[p] # "reversed",
           conversion'[p] = "none" => payout'[p].state = "NONE"
    PROVE  PayoutInv(p)'
BY DEF PayoutInv, AttemptsInv, StateInv, SameAttempts

\* A reversal of a conversion that exists.
LEMMA ReversalStep ==
    ASSUME TypeOK, NEW p \in Payouts, PayoutInv(p), SameAttempts(p),
           ApplyReversalToPayout(p), conversion'[p] = "reversed"
    PROVE  /\ PayoutInv(p)'
           /\ StaysPaid(p)
           /\ \A q \in Payouts \ {p} : payout'[q] = payout[q]
<1>. DEFINE r == payout[p]
<1>1. r \in PayoutRow
  BY DEF TypeOK, RowTypeOK
<1>2. payout \in [Payouts -> PayoutRow]
  BY DEF TypeOK, RowTypeOK
<1>3. CASE CancelUnpaid(p)
  <2>1. payout' = [payout EXCEPT ![p] = CancelledRow(r)]
    BY <1>3 DEF CancelUnpaid, SetPayout
  <2>2. r.state \notin InFlightStates /\ r.state \notin PaidStates
    BY <1>3 DEF CancelUnpaid, InFlightStates, PaidStates
  <2>3. ~r.event
    BY <2>2 DEF PayoutInv, StateInv
  <2>4. /\ payout'[p].state = "CANCELLED" /\ payout'[p].status = "reversed"
        /\ payout'[p].event = r.event
    BY <1>1, <1>2, <2>1, RowFields
  <2>5. PayoutInv(p)'
    BY <2>2, <2>3, <2>4, RowStep DEF InFlightStates, PaidStates
  <2>. QED
    BY <1>2, <2>1, <2>2, <2>5 DEF StaysPaid
<1>4. CASE CancelInFlight(p)
  <2>. DEFINE x == [r EXCEPT !.state = "CANCEL_PENDING", !.feeState = "CANCELLED"]
  <2>1. payout' = [payout EXCEPT ![p] = x]
    BY <1>4 DEF CancelInFlight, SetPayout
  <2>2. r.state = "PAYING" /\ r.status # "paid" /\ ~r.event
    BY <1>4 DEF CancelInFlight, PayoutInv, StateInv, PaidStates
  <2>3. /\ x.state = "CANCEL_PENDING" /\ x.status = r.status
        /\ x.event = r.event /\ x.provider = r.provider
    BY <1>1 DEF PayoutRow
  <2>4. payout'[p] = x
    BY <1>2, <2>1
  <2>. HIDE DEF x
  <2>5. PayoutInv(p)'
    BY <2>2, <2>3, <2>4, RowStep DEF InFlightStates, PaidStates
  <2>. QED
    BY <1>2, <2>1, <2>2, <2>5 DEF StaysPaid, PaidStates
<1>5. CASE CancelFee(p)
  <2>. DEFINE x == [r EXCEPT !.feeState = "CANCELLED", !.reserved = 0]
  <2>1. payout' = [payout EXCEPT ![p] = x]
    BY <1>5 DEF CancelFee, SetPayout
  <2>2. r.state \in PaidStates /\ r.state \notin InFlightStates /\ r.status = "paid"
    BY <1>5 DEF CancelFee, PayoutInv, StateInv, PaidStates, InFlightStates
  <2>3. x.state = r.state /\ x.status = r.status
    BY <1>1 DEF PayoutRow
  <2>4. payout'[p] = x
    BY <1>2, <2>1
  <2>. HIDE DEF x
  <2>5. PayoutInv(p)'
    BY <2>2, <2>3, <2>4, RowStep DEF InFlightStates, PaidStates
  <2>. QED
    BY <1>2, <2>1, <2>3, <2>4, <2>5 DEF StaysPaid
<1>6. CASE NothingToReverse(p)
  <2>1. payout' = payout
    BY <1>6 DEF NothingToReverse
  <2>2. payout[p].state # "PAYING"
    BY <1>6 DEF NothingToReverse
  <2>3. PayoutInv(p)'
    BY <2>1, <2>2, RowStep DEF PayoutInv, StateInv
  <2>. QED
    BY <2>1, <2>3 DEF StaysPaid
<1>. QED
  BY <1>3, <1>4, <1>5, <1>6 DEF ApplyReversalToPayout

LEMMA AdminInv == IInv /\ Admin => IInv'
<1>. SUFFICES ASSUME IInv, Admin PROVE IInv'
  OBVIOUS
<1>a. TypeOK /\ TypeOK'
  BY AdminType DEF IInv
<1>b. \A q \in Payouts : PayoutInv(q) /\ payout[q] \in PayoutRow
  BY DEF IInv, PayoutInv, TypeOK, RowTypeOK
<1>c. payout \in [Payouts -> PayoutRow] /\ conversion \in [Payouts -> {"none", "approved", "reversed"}]
  BY DEF IInv, TypeOK, RowTypeOK
<1>1. ASSUME UNCHANGED <<payout, conversion, attemptVars, wallet, job>> PROVE IInv'
  <2>1. \A q \in Payouts : Same(q)
    BY <1>1 DEF Same, SameAttempts, attemptVars
  <2>2. \A q \in Payouts : PayoutInv(q)'
    BY <1>b, <2>1, SameInv
  <2>. QED
    BY <1>1, <1>a, <2>1, <2>2, PreserveRows DEF Same, StaysPaid
<1>2. ASSUME NEW b \in Budgets, UpdateCampaignBudget(b) PROVE IInv'
  BY <1>1, <1>2 DEF UpdateCampaignBudget, rowVars
<1>3. ASSUME NEW s \in {"active", "paused"}, UpdateCampaignStatus(s) PROVE IInv'
  BY <1>1, <1>3 DEF UpdateCampaignStatus
<1>4. ASSUME NEW p \in Payouts, BecomeReady(p) PROVE IInv'
  BY <1>1, <1>4 DEF BecomeReady
<1>5. CASE HoldUnreservedPayouts
  <2>1. \A q \in Payouts : SameAttempts(q) /\ conversion'[q] = conversion[q]
    BY <1>5 DEF HoldUnreservedPayouts, SameAttempts, attemptVars
  <2>2. ASSUME NEW q \in Payouts PROVE StaysPaid(q) /\ PayoutInv(q)'
    <3>1. CASE UnreservedWithoutLedger(q)
      <4>1. payout'[q] = HeldRow(payout[q])
        BY <1>5, <3>1 DEF HoldUnreservedPayouts
      <4>2. payout[q].state \in {"PAYABLE", "FAILED"}
        BY <3>1 DEF UnreservedWithoutLedger
      <4>3. ~payout[q].event /\ conversion[q] # "none"
        BY <1>b, <4>2 DEF PayoutInv, StateInv, PaidStates
      <4>4. /\ payout'[q].state = "ON_HOLD" /\ payout'[q].status = "on_hold"
            /\ payout'[q].event = payout[q].event
        BY <1>b, <4>1, RowFields
      <4>5. PayoutInv(q)'
        BY <1>b, <2>1, <4>2, <4>3, <4>4, RowStep DEF InFlightStates, PaidStates
      <4>. QED
        BY <4>2, <4>5 DEF StaysPaid, PaidStates
    <3>2. CASE ~UnreservedWithoutLedger(q)
      <4>1. payout'[q] = payout[q]
        BY <1>5, <3>2 DEF HoldUnreservedPayouts
      <4>. QED
        BY <1>b, <2>1, <4>1, SameInv DEF Same, StaysPaid
    <3>. QED
      BY <3>1, <3>2
  <2>. QED
    BY <1>5, <1>a, <2>1, <2>2, PreserveRows DEF HoldUnreservedPayouts
<1>6. ASSUME NEW p \in Payouts, CreateConversion(p) PROVE IInv'
  <2>1. UNCHANGED <<attemptVars, wallet, job>> /\ conversion[p] = "none"
        /\ conversion' = [conversion EXCEPT ![p] = "approved"]
    BY <1>6 DEF CreateConversion
  <2>2. \A q \in Payouts : SameAttempts(q)
    BY <2>1 DEF SameAttempts, attemptVars
  <2>3. payout[p].state = "NONE"
    BY <1>b, <2>1 DEF PayoutInv, StateInv
  <2>4. PICK c \in Commissions :
          LET row == [NoPayout EXCEPT !.amount = c, !.fee = CalculateFeeSats(c)]
          IN SetPayout(p, PayableRow(row)) \/ SetPayout(p, HeldRow(row))
    BY <1>6 DEF CreateConversion
  <2>. DEFINE row == [NoPayout EXCEPT !.amount = c, !.fee = CalculateFeeSats(c)]
  <2>5. NoPayout \in PayoutRow /\ c \in Nat /\ CalculateFeeSats(c) \in Nat
    BY HashType, FeeType, PayoutAssumption DEF NoPayout, PayoutRow, PayoutStates, PayoutStatuses, Providers
  <2>6. row \in PayoutRow /\ row.event = NoPayout.event
    BY <2>5 DEF PayoutRow
  <2>7. row.event = FALSE
    BY <2>6 DEF NoPayout
  <2>8. payout' = [payout EXCEPT ![p] = PayableRow(row)] \/ payout' = [payout EXCEPT ![p] = HeldRow(row)]
    BY <2>4 DEF SetPayout
  <2>. HIDE DEF row
  <2>9. /\ payout'[p].state \in {"PAYABLE", "ON_HOLD"} /\ payout'[p].status # "paid"
        /\ payout'[p].event = FALSE
    <3>1. CASE payout' = [payout EXCEPT ![p] = PayableRow(row)]
      BY <1>c, <2>6, <2>7, <3>1, RowFields
    <3>2. CASE payout' = [payout EXCEPT ![p] = HeldRow(row)]
      BY <1>c, <2>6, <2>7, <3>2, RowFields
    <3>. QED
      BY <2>8, <3>1, <3>2
  <2>10. PayoutInv(p)' /\ StaysPaid(p)
    <3>1. conversion'[p] = "approved"
      BY <1>c, <2>1
    <3>2. PayoutInv(p)'
      BY <1>b, <2>2, <2>3, <2>9, <3>1, RowStep DEF InFlightStates, PaidStates
    <3>. QED
      BY <2>3, <3>2 DEF StaysPaid, PaidStates
  <2>11. \A q \in Payouts \ {p} : Same(q)
    BY <1>c, <2>1, <2>2, <2>8 DEF Same
  <2>12. \A q \in Payouts : StaysPaid(q) /\ PayoutInv(q)'
    BY <1>b, <2>10, <2>11, SameInv DEF Same, StaysPaid
  <2>. QED
    BY <1>a, <2>1, <2>2, <2>12, PreserveRows
<1>7. ASSUME NEW p \in Payouts, ReleasePayoutHold(p) PROVE IInv'
  <2>1. /\ UNCHANGED <<attemptVars, wallet, job, conversion>> /\ payout[p].state = "ON_HOLD"
        /\ payout' = [payout EXCEPT ![p] = PayableRow(payout[p])]
    BY <1>7 DEF ReleasePayoutHold, SetPayout
  <2>2. \A q \in Payouts : SameAttempts(q)
    BY <2>1 DEF SameAttempts, attemptVars
  <2>3. /\ payout'[p].state = "PAYABLE" /\ payout'[p].status = "pending"
        /\ payout'[p].event = payout[p].event
    BY <1>b, <1>c, <2>1, RowFields
  <2>4. ~payout[p].event /\ conversion[p] # "none"
    BY <1>b, <2>1 DEF PayoutInv, StateInv, PaidStates
  <2>5. PayoutInv(p)' /\ StaysPaid(p)
    <3>1. PayoutInv(p)'
      BY <1>b, <2>1, <2>2, <2>3, <2>4, RowStep DEF InFlightStates, PaidStates
    <3>. QED
      BY <2>1, <3>1 DEF StaysPaid, PaidStates
  <2>6. \A q \in Payouts \ {p} : Same(q)
    BY <1>c, <2>1, <2>2 DEF Same
  <2>7. \A q \in Payouts : StaysPaid(q) /\ PayoutInv(q)'
    BY <1>b, <2>5, <2>6, SameInv DEF Same, StaysPaid
  <2>. QED
    BY <1>a, <2>1, <2>2, <2>7, PreserveRows
<1>8. ASSUME NEW p \in Payouts, ReverseConversion(p) PROVE IInv'
  <2>1. /\ UNCHANGED <<attemptVars, wallet, job>> /\ ApplyReversalToPayout(p)
        /\ conversion' = [conversion EXCEPT ![p] = "reversed"]
    BY <1>8 DEF ReverseConversion
  <2>2. \A q \in Payouts : SameAttempts(q)
    BY <2>1 DEF SameAttempts, attemptVars
  <2>3. conversion'[p] = "reversed"
    BY <1>c, <2>1
  <2>4. /\ PayoutInv(p)' /\ StaysPaid(p)
        /\ \A q \in Payouts \ {p} : payout'[q] = payout[q]
    BY <1>a, <1>b, <2>1, <2>2, <2>3, ReversalStep
  <2>5. \A q \in Payouts \ {p} : Same(q)
    BY <1>c, <2>1, <2>2, <2>4 DEF Same
  <2>6. \A q \in Payouts : StaysPaid(q) /\ PayoutInv(q)'
    BY <1>b, <2>4, <2>5, SameInv DEF Same, StaysPaid
  <2>. QED
    BY <1>a, <2>1, <2>2, <2>6, PreserveRows
<1>. QED
  BY <1>2, <1>3, <1>4, <1>5, <1>6, <1>7, <1>8 DEF Admin

-----------------------------------------------------------------------------
(* One payout p and one worker w. *)

LEMMA PreserveWorker ==
    ASSUME IInv, TypeOK', NEW p \in Payouts, NEW w \in Workers,
           \A q \in Payouts \ {p} : Same(q),
           PayoutInv(p)',
           \A v \in Workers \ {w} : job'[v] = job[v] /\ (job[v].step # "idle" /\ job[v].payout = p => WorkerInv(v)'),
           WorkerInv(w)',
           job'[w].step \in PayingSteps =>
               \A v \in Workers \ {w} : job[v].step \in PayingSteps => job[v].payout # job'[w].payout
    PROVE  IInv'
<1>1. \A u \in Workers : Exclusive(u, w)' /\ Exclusive(w, u)'
  BY DEF Exclusive
<1>. QED
  BY <1>1, Preserve

\* The other workers of p when neither its attempts nor its being paid are disturbed.
LEMMA OthersKept ==
    ASSUME IInv, NEW p \in Payouts, NEW w \in Workers, SameAttempts(p), StaysPaid(p),
           \A v \in Workers \ {w} : job'[v] = job[v]
    PROVE  \A v \in Workers \ {w} : job'[v] = job[v] /\ (job[v].step # "idle" /\ job[v].payout = p => WorkerInv(v)')
BY WorkerKept DEF IInv

\* Only the latest attempt can be unresolved, and its payout is then in flight.
LEMMA LiveIsLast ==
    ASSUME TypeOK, NEW p \in Payouts, NEW n \in AttemptNumbers, PayoutInv(p),
           attempts[p][n].status \in LiveStatuses
    PROVE  /\ n = lastAttempt[p] /\ n > 0
           /\ payout[p].state \in InFlightStates /\ payout[p].state \notin PaidStates
           /\ attempts[p][n].rail = Rail /\ payout[p].provider = Rail
           /\ payout[p].status # "paid" /\ ~payout[p].event
<1>1. lastAttempt[p] \in Nat /\ n \in Nat /\ n > 0
  BY PayoutAssumption DEF TypeOK, AttemptTypeOK, AttemptNumbers
<1>2. n = lastAttempt[p]
  BY <1>1 DEF PayoutInv, AttemptsInv, NoAttempt, LiveStatuses
<1>3. payout[p].state \in InFlightStates
  BY <1>1, <1>2 DEF PayoutInv, StateInv
<1>4. payout[p].state \notin PaidStates
  BY <1>3 DEF InFlightStates, PaidStates
<1>. QED
  BY <1>1, <1>2, <1>3, <1>4 DEF PayoutInv, StateInv

\* A change of the latest, unresolved attempt of p.
LEMMA ResolveOthers ==
    ASSUME IInv, NEW p \in Payouts, NEW n \in AttemptNumbers, NEW w \in Workers,
           NEW row \in AttemptRow, SetAttempt(p, n, row),
           attempts[p][n].status \in LiveStatuses,
           row.status \in {"UNKNOWN", "FAILED", "SETTLED"}
               \/ (row.status = "PAYING" /\ attempts[p][n].status = "PAYING"),
           attempts[p][n].status = "UNKNOWN" \/ (job[w].step \in PayingSteps /\ job[w].payout = p),
           UNCHANGED <<lastAttempt, wallet>>,
           \A v \in Workers \ {w} : job'[v] = job[v]
    PROVE  /\ \A v \in Workers \ {w} : job'[v] = job[v] /\ (job[v].step # "idle" /\ job[v].payout = p => WorkerInv(v)')
           /\ \A v \in Workers \ {w} : job[v].step \in PayingSteps => job[v].payout # p
<1>1. PayoutInv(p) /\ TypeOK
  BY DEF IInv, PayoutInv
<1>2. n = lastAttempt[p] /\ payout[p].state \notin PaidStates
  BY <1>1, LiveIsLast
<1>3. attempts' = [attempts EXCEPT ![p][n] = row]
  BY DEF SetAttempt
<1>4. attempts \in [Payouts -> [AttemptNumbers -> AttemptRow]]
  BY <1>1 DEF TypeOK, AttemptTypeOK
<1>5. attempts'[p] = [attempts[p] EXCEPT ![n] = row]
  BY <1>3, <1>4
<1>6. \A v \in Workers \ {w} : job[v].step \in PayingSteps => job[v].payout # p
  <2>1. CASE attempts[p][n].status = "UNKNOWN"
    BY <1>2, <2>1 DEF IInv, WorkerInv
  <2>2. CASE job[w].step \in PayingSteps /\ job[w].payout = p
    BY <2>2 DEF IInv, Exclusive
  <2>. QED
    BY <2>1, <2>2
<1>7. ASSUME NEW v \in Workers \ {w}, job[v].step # "idle", job[v].payout = p
      PROVE  WorkerInv(v)'
  <2>1. WorkerInv(v) /\ job'[v] = job[v] /\ job[v].step \notin PayingSteps
    BY <1>6, <1>7 DEF IInv
  <2>2. job[v].step \notin ProvingSteps
    BY <1>2, <1>7, <2>1 DEF WorkerInv
  <2>3. ASSUME job[v].step = "lookup"
        PROVE  attempts'[p][job[v].attempt].status \in {"UNKNOWN", "FAILED", "SETTLED"}
    <3>1. job[v].attempt \in AttemptNumbers
      BY <1>1, <2>3, JobFacts
    <3>2. attempts[p][job[v].attempt].status \in {"UNKNOWN", "FAILED", "SETTLED"}
      BY <1>7, <2>1, <2>3 DEF WorkerInv
    <3>. QED
      BY <1>4, <1>5, <3>1, <3>2
  <2>. QED
    BY <1>7, <2>1, <2>2, <2>3 DEF WorkerInv, PayingSteps
<1>. QED
  BY <1>6, <1>7

LEMMA ResolvedInv ==
    ASSUME TypeOK, NEW p \in Payouts, NEW n \in AttemptNumbers, PayoutInv(p),
           attempts[p][n].status \in LiveStatuses,
           NEW row \in AttemptRow, SetAttempt(p, n, row), row.rail = attempts[p][n].rail,
           UNCHANGED <<lastAttempt, wallet, conversion>>,
           \/ /\ row.status \in LiveStatuses
              /\ payout'[p].state = payout[p].state /\ payout'[p].provider = payout[p].provider
              /\ payout'[p].status # "paid" /\ payout'[p].event = payout[p].event
           \/ /\ row.status = "FAILED" /\ wallet[p][n] \in {"none", "failed"}
              /\ payout'[p].state \in {"FAILED", "CANCELLED"}
              /\ payout'[p].status # "paid" /\ payout'[p].event = payout[p].event
           \/ /\ row.status = "SETTLED" /\ wallet[p][n] = "settled"
              /\ payout'[p].state = "SETTLED" /\ payout'[p].status = "paid"
    PROVE  PayoutInv(p)'
<1>1. /\ n = lastAttempt[p] /\ n > 0
      /\ payout[p].state \in InFlightStates /\ payout[p].state \notin PaidStates
      /\ row.rail = Rail /\ payout[p].provider = Rail /\ ~payout[p].event
  BY LiveIsLast
<1>2. attempts \in [Payouts -> [AttemptNumbers -> AttemptRow]]
  BY DEF TypeOK, AttemptTypeOK
<1>3. attempts'[p] = [attempts[p] EXCEPT ![n] = row]
  BY <1>2 DEF SetAttempt
<1>4. Rail \notin {"manual", "sandbox"}
  BY PayoutAssumption
<1>5. AttemptsInv(p)'
  <2>. SUFFICES ASSUME NEW k \in AttemptNumbers
                PROVE  /\ k > lastAttempt[p] => attempts'[p][k] = NoAttempt /\ wallet[p][k] = "none"
                       /\ k <= lastAttempt[p] => attempts'[p][k].status # "NONE"
                       /\ k < lastAttempt[p] => attempts'[p][k].status = "FAILED"
                       /\ attempts'[p][k].status = "FAILED" => wallet[p][k] \in {"none", "failed"}
                       /\ attempts'[p][k].status = "SETTLED" =>
                            IF attempts'[p][k].rail \in {"manual", "sandbox"}
                            THEN wallet[p][k] = "none" ELSE wallet[p][k] = "settled"
    BY DEF AttemptsInv
  <2>1. CASE k = n
    <3>1. attempts'[p][k] = row
      BY <1>2, <1>3, <2>1
    <3>2. ~(k > lastAttempt[p]) /\ ~(k < lastAttempt[p])
      BY <1>1, <2>1 DEF AttemptNumbers
    <3>. QED
      BY <1>1, <1>4, <2>1, <3>1, <3>2 DEF LiveStatuses
  <2>2. CASE k # n
    <3>1. attempts'[p][k] = attempts[p][k]
      BY <1>2, <1>3, <2>2
    <3>. QED
      BY <3>1 DEF PayoutInv, AttemptsInv
  <2>. QED
    BY <2>1, <2>2
<1>6. attempts'[p][lastAttempt'[p]] = row
  BY <1>1, <1>2, <1>3
<1>7. StateInv(p)'
  <2>. DEFINE s == payout'[p].state
  <2>1. conversion[p] # "none"
    BY <1>1 DEF PayoutInv, StateInv, InFlightStates
  <2>2. CASE row.status \in LiveStatuses
    <3>1. s = payout[p].state /\ payout'[p].provider = Rail /\ ~payout'[p].event /\ payout'[p].status # "paid"
      BY <1>1, <2>2 DEF LiveStatuses
    <3>2. /\ s = "CANCEL_PENDING" => conversion[p] = "reversed"
          /\ s = "PAYING" => conversion[p] # "reversed"
      BY <3>1 DEF PayoutInv, StateInv
    <3>. QED
      BY <1>1, <1>6, <2>1, <2>2, <3>1, <3>2 DEF StateInv, LiveStatuses
  <2>3. CASE row.status = "FAILED"
    BY <1>1, <1>6, <2>1, <2>3 DEF StateInv, LiveStatuses, InFlightStates, PaidStates
  <2>4. CASE row.status = "SETTLED"
    BY <1>1, <1>6, <2>1, <2>4 DEF StateInv, LiveStatuses, InFlightStates, PaidStates
  <2>. QED
    BY <2>2, <2>3, <2>4
<1>. QED
  BY <1>5, <1>7 DEF PayoutInv

SetLast(p, m) == lastAttempt' = [lastAttempt EXCEPT ![p] = m]

\* The number of a new attempt of an unpaid payout that has none unresolved.
LEMMA NewAttemptFacts ==
    ASSUME IInv, NEW p \in Payouts, NEW row \in AttemptRow,
           NEW m \in AttemptNumbers, m = lastAttempt[p] + 1, SetAttempt(p, m, row),
           SetLast(p, m)
    PROVE  /\ attempts[p][m] = NoAttempt
           /\ attempts'[p] = [attempts[p] EXCEPT ![m] = row]
           /\ attempts'[p][m] = row
           /\ lastAttempt'[p] = m
<1>1. TypeOK /\ AttemptsInv(p)
  BY DEF IInv
<1>2. /\ attempts \in [Payouts -> [AttemptNumbers -> AttemptRow]]
      /\ lastAttempt \in [Payouts -> 0..MaxAttempts] /\ lastAttempt[p] \in 0..MaxAttempts
  BY <1>1 DEF TypeOK, AttemptTypeOK
<1>3. m > lastAttempt[p]
  BY <1>2, PayoutAssumption DEF AttemptNumbers
<1>4. attempts'[p] = [attempts[p] EXCEPT ![m] = row] /\ lastAttempt'[p] = m
  BY <1>2 DEF SetAttempt, SetLast
<1>5. attempts'[p][m] = row
  BY <1>2, <1>3, <1>4
<1>. QED
  BY <1>1, <1>3, <1>4, <1>5 DEF AttemptsInv

LEMMA NewAttemptInv ==
    ASSUME IInv, NEW p \in Payouts, NEW row \in AttemptRow,
           payout[p].state \notin InFlightStates, payout[p].state \notin PaidStates,
           payout[p].state # "NONE", conversion[p] # "reversed",
           NEW m \in AttemptNumbers, m = lastAttempt[p] + 1,
           SetAttempt(p, m, row), SetLast(p, m),
           wallet' = wallet, conversion' = conversion,
           \/ /\ row.status = "PAYING" /\ row.rail = Rail
              /\ payout'[p].state = "PAYING" /\ payout'[p].provider = Rail
              /\ payout'[p].status # "paid" /\ payout'[p].event = payout[p].event
           \/ /\ row.status = "SETTLED" /\ row.rail \in {"manual", "sandbox"}
              /\ payout'[p].state = "SETTLED" /\ payout'[p].status = "paid"
    PROVE  PayoutInv(p)'
<1>. DEFINE l == lastAttempt[p]
<1>1. PayoutInv(p) /\ TypeOK
  BY DEF IInv, PayoutInv
<1>2. /\ attempts \in [Payouts -> [AttemptNumbers -> AttemptRow]]
      /\ lastAttempt \in [Payouts -> 0..MaxAttempts] /\ l \in 0..MaxAttempts
  BY <1>1 DEF TypeOK, AttemptTypeOK
<1>3. l \in Nat /\ m \in Nat /\ m > l
  BY <1>2, PayoutAssumption DEF AttemptNumbers
<1>4. attempts'[p] = [attempts[p] EXCEPT ![m] = row] /\ lastAttempt'[p] = m
  BY NewAttemptFacts
<1>5. wallet[p][m] = "none"
  BY <1>1, <1>3 DEF PayoutInv, AttemptsInv
<1>6. l > 0 => l \in AttemptNumbers /\ attempts[p][l].status = "FAILED"
  <2>. SUFFICES ASSUME l > 0 PROVE l \in AttemptNumbers /\ attempts[p][l].status = "FAILED"
    OBVIOUS
  <2>1. l \in AttemptNumbers
    BY <1>2, <1>3, PayoutAssumption DEF AttemptNumbers
  <2>2. attempts[p][l].status # "NONE" /\ attempts[p][l] \in AttemptRow
    BY <1>1, <1>2, <1>3, <2>1 DEF PayoutInv, AttemptsInv
  <2>3. attempts[p][l].status \notin LiveStatuses /\ attempts[p][l].status # "SETTLED"
    BY <1>1 DEF PayoutInv, StateInv
  <2>. QED
    BY <2>1, <2>2, <2>3 DEF AttemptRow, AttemptStatuses, LiveStatuses
<1>7. AttemptsInv(p)'
  <2>. SUFFICES ASSUME NEW k \in AttemptNumbers
                PROVE  /\ k > m => attempts'[p][k] = NoAttempt /\ wallet[p][k] = "none"
                       /\ k <= m => attempts'[p][k].status # "NONE"
                       /\ k < m => attempts'[p][k].status = "FAILED"
                       /\ attempts'[p][k].status = "FAILED" => wallet[p][k] \in {"none", "failed"}
                       /\ attempts'[p][k].status = "SETTLED" =>
                            IF attempts'[p][k].rail \in {"manual", "sandbox"}
                            THEN wallet[p][k] = "none" ELSE wallet[p][k] = "settled"
    BY <1>4 DEF AttemptsInv
  <2>0. k \in Nat
    BY DEF AttemptNumbers
  <2>1. CASE k = m
    <3>1. attempts'[p][k] = row
      BY <1>2, <1>4, <2>1
    <3>. QED
      BY <1>3, <1>5, <2>1, <3>1
  <2>2. CASE k # m
    <3>1. attempts'[p][k] = attempts[p][k]
      BY <1>2, <1>4, <2>2
    <3>2. k < m => k < l \/ (k = l /\ l > 0)
      BY <1>3, <2>0, PayoutAssumption DEF AttemptNumbers
    <3>3. k <= m => k < m
      BY <1>3, <2>0, <2>2
    <3>4. k > m => k > l
      BY <1>3, <2>0
    <3>5. k < m => attempts[p][k].status = "FAILED"
      BY <1>1, <1>6, <3>2 DEF PayoutInv, AttemptsInv
    <3>6. attempts[p][k].status = "FAILED" => wallet[p][k] \in {"none", "failed"}
      BY <1>1 DEF PayoutInv, AttemptsInv
    <3>7. attempts[p][k].status = "SETTLED" =>
            IF attempts[p][k].rail \in {"manual", "sandbox"}
            THEN wallet[p][k] = "none" ELSE wallet[p][k] = "settled"
      BY <1>1 DEF PayoutInv, AttemptsInv
    <3>8. k > m => attempts[p][k] = NoAttempt /\ wallet[p][k] = "none"
      BY <1>1, <3>4 DEF PayoutInv, AttemptsInv
    <3>. QED
      BY <3>1, <3>3, <3>5, <3>6, <3>7, <3>8
  <2>. QED
    BY <2>1, <2>2
<1>8. StateInv(p)'
  <2>1. attempts'[p][lastAttempt'[p]] = row /\ lastAttempt'[p] > 0
    BY <1>2, <1>3, <1>4
  <2>2. conversion[p] # "none" /\ ~payout[p].event
    BY <1>1 DEF PayoutInv, StateInv
  <2>3. CASE row.status = "PAYING"
    BY <2>1, <2>2, <2>3 DEF StateInv, LiveStatuses, InFlightStates, PaidStates
  <2>4. CASE row.status = "SETTLED"
    BY <2>1, <2>2, <2>4 DEF StateInv, LiveStatuses, InFlightStates, PaidStates
  <2>. QED
    BY <2>3, <2>4
<1>. QED
  BY <1>7, <1>8 DEF PayoutInv

\* No worker is paying or proving a payout that is neither in flight nor paid.
LEMMA NewAttemptOthers ==
    ASSUME IInv, NEW p \in Payouts, NEW w \in Workers, NEW row \in AttemptRow,
           payout[p].state \notin InFlightStates, payout[p].state \notin PaidStates,
           NEW m \in AttemptNumbers, m = lastAttempt[p] + 1,
           SetAttempt(p, m, row), SetLast(p, m),
           \A v \in Workers \ {w} : job'[v] = job[v]
    PROVE  /\ \A v \in Workers \ {w} : job'[v] = job[v] /\ (job[v].step # "idle" /\ job[v].payout = p => WorkerInv(v)')
           /\ \A v \in Workers : job[v].step \in PayingSteps => job[v].payout # p
<1>1. PayoutInv(p) /\ TypeOK
  BY DEF IInv, PayoutInv
<1>2. attempts \in [Payouts -> [AttemptNumbers -> AttemptRow]]
  BY <1>1 DEF TypeOK, AttemptTypeOK
<1>4. attempts'[p] = [attempts[p] EXCEPT ![m] = row] /\ attempts[p][m] = NoAttempt
  BY NewAttemptFacts
<1>9. ASSUME NEW v \in Workers, job[v].step \in PayingSteps PROVE job[v].payout # p
  <2>1. job[v].attempt \in AttemptNumbers
    BY <1>1, <1>9, JobFacts DEF PayingSteps
  <2>. QED
    BY ZenonT(30), <1>1, <1>9, <2>1, LiveIsLast DEF IInv, WorkerInv, LiveStatuses
<1>10. ASSUME NEW v \in Workers \ {w}, job[v].step # "idle", job[v].payout = p
       PROVE  WorkerInv(v)'
  <2>1. WorkerInv(v) /\ job'[v] = job[v] /\ job[v].step \notin PayingSteps
    BY <1>9, <1>10 DEF IInv
  <2>2. job[v].step \notin ProvingSteps
    BY <1>10, <2>1 DEF WorkerInv
  <2>3. ASSUME job[v].step = "lookup"
        PROVE  attempts'[p][job[v].attempt].status \in {"UNKNOWN", "FAILED", "SETTLED"}
    <3>1. job[v].attempt \in AttemptNumbers
      BY <1>1, <2>3, JobFacts
    <3>2. attempts[p][job[v].attempt].status \in {"UNKNOWN", "FAILED", "SETTLED"}
      BY <1>10, <2>1, <2>3 DEF WorkerInv
    <3>4. job[v].attempt # m
      BY <1>4, <3>2 DEF NoAttempt
    <3>. QED
      BY <1>2, <1>4, <3>1, <3>2, <3>4
  <2>. QED
    BY <1>10, <2>1, <2>2, <2>3 DEF WorkerInv, PayingSteps
<1>. QED
  BY <1>9, <1>10

-----------------------------------------------------------------------------
(* The actions. *)

LEMMA WalletInv == IInv /\ Wallet => IInv'
<1>. SUFFICES ASSUME IInv, NEW p \in Payouts, NEW n \in AttemptNumbers,
                     WalletTakes(p, n) \/ WalletSettles(p, n) \/ WalletFails(p, n)
              PROVE  IInv'
  BY DEF Wallet, WalletDecides
<1>1. TypeOK /\ TypeOK'
  BY WalletType DEF IInv, Wallet, WalletDecides
<1>2. /\ wallet[p][n] \in {"queued", "inflight"}
      /\ UNCHANGED <<payout, conversion, attempts, lastAttempt, job>>
  BY DEF WalletTakes, WalletSettles, WalletFails, rowVars, attemptVars
<1>3. PICK o \in {"inflight", "settled", "failed"} : wallet' = [wallet EXCEPT ![p][n] = o]
  BY DEF WalletTakes, WalletSettles, WalletFails
<1>4. wallet \in [Payouts -> [AttemptNumbers -> WalletStates]]
  BY <1>1 DEF TypeOK, AttemptTypeOK
<1>5. /\ wallet'[p] = [wallet[p] EXCEPT ![n] = o]
      /\ \A q \in Payouts \ {p} : wallet'[q] = wallet[q]
  BY <1>3, <1>4
<1>6. PayoutInv(p)'
  <2>1. AttemptsInv(p)'
    BY <1>2, <1>4, <1>5 DEF IInv, AttemptsInv
  <2>. QED
    BY <1>2, <2>1 DEF IInv, PayoutInv, StateInv
<1>7. \A q \in Payouts \ {p} : Same(q)
  BY <1>2, <1>5 DEF Same, SameAttempts
<1>8. ASSUME NEW v \in Workers, job[v].step # "idle", job[v].payout = p PROVE WorkerInv(v)'
  <2>1. WorkerInv(v) /\ job'[v] = job[v]
    BY <1>2 DEF IInv
  <2>2. job[v].step \in {"prepare", "send"} => job[v].attempt # n
    BY <1>2, <1>8, <2>1 DEF WorkerInv
  <2>3. job[v].step \in {"prepare", "send"} => wallet'[p][job[v].attempt] = wallet[p][job[v].attempt]
    <3>1. job[v].step \in {"prepare", "send"} => job[v].attempt \in AttemptNumbers
      BY <1>1, <1>8, JobFacts
    <3>. QED
      BY <1>4, <1>5, <2>2, <3>1
  <2>. QED
    BY <1>2, <1>8, <2>1, <2>3 DEF WorkerInv
<1>9. /\ {} \in SUBSET Workers
      /\ \A v \in Workers \ {} : job'[v] = job[v] /\ (job[v].step # "idle" /\ job[v].payout = p => WorkerInv(v)')
      /\ \A v \in {} : WorkerInv(v)' /\ \A u \in Workers : Exclusive(u, v)' /\ Exclusive(v, u)'
  BY <1>2, <1>8
<1>. QED
  BY <1>1, <1>6, <1>7, <1>9, Preserve

\* A settled attempt, with the job handed to finalize_payout_paid.
LEMMA SettledEvidenceInv ==
    ASSUME IInv, TypeOK', NEW p \in Payouts, NEW n \in AttemptNumbers, NEW w \in Workers,
           NEW ref \in Hashes, StoreSettledEvidence(p, n, ref), wallet[p][n] = "settled",
           attempts[p][n].status \in LiveStatuses,
           attempts[p][n].status = "UNKNOWN" \/ (job[w].step \in PayingSteps /\ job[w].payout = p),
           UNCHANGED <<lastAttempt, wallet, conversion>>,
           NEW h, NEW q, NEW b, ToFinalize(w, p, h, q, b)
    PROVE  IInv'
<1>. DEFINE row == [attempts[p][n] EXCEPT !.status = "SETTLED", !.hash = InvoiceHash(p, n), !.ref = ref]
<1>1. TypeOK /\ PayoutInv(p) /\ payout[p] \in PayoutRow /\ job \in [Workers -> Job]
  BY DEF IInv, PayoutInv, TypeOK, RowTypeOK, JobTypeOK
<1>2. /\ attempts \in [Payouts -> [AttemptNumbers -> AttemptRow]] /\ attempts[p][n] \in AttemptRow
      /\ payout \in [Payouts -> PayoutRow]
  BY <1>1 DEF TypeOK, AttemptTypeOK, RowTypeOK
<1>3. row \in AttemptRow /\ row.status = "SETTLED" /\ row.rail = attempts[p][n].rail
  BY <1>2, HashType DEF AttemptRow, AttemptStatuses
<1>4. /\ SetAttempt(p, n, row)
      /\ payout' = [payout EXCEPT ![p] = SettledRow(payout[p], InvoiceHash(p, n), payout[p].provider)]
  BY DEF StoreSettledEvidence, SetPayout
<1>. HIDE DEF row
<1>5. payout'[p].state = "SETTLED" /\ payout'[p].status = "paid"
  BY <1>1, <1>2, <1>4, RowFields
<1>6. PayoutInv(p)'
  BY <1>1, <1>3, <1>4, <1>5, ResolvedInv
<1>7. /\ job'[w].step = "finalize" /\ job'[w].payout = p
      /\ \A v \in Workers \ {w} : job'[v] = job[v]
  BY <1>1 DEF ToFinalize, Idle
<1>8. \A v \in Workers \ {w} : job'[v] = job[v] /\ (job[v].step # "idle" /\ job[v].payout = p => WorkerInv(v)')
  <2>1. row.status \in {"UNKNOWN", "FAILED", "SETTLED"} /\ UNCHANGED <<lastAttempt, wallet>>
    BY <1>3
  <2>. QED
    BY <1>3, <1>4, <1>7, <2>1, ResolveOthers
<1>9. WorkerInv(w)' /\ job'[w].step \notin PayingSteps
  BY <1>5, <1>7 DEF WorkerInv, PayingSteps, ProvingSteps, PaidStates
<1>10. \A r \in Payouts \ {p} : Same(r)
  BY <1>2, <1>4 DEF Same, SameAttempts, SetAttempt
<1>. QED
  BY <1>6, <1>8, <1>9, <1>10, PreserveWorker

LEMMA StartInv == ASSUME NEW w \in Workers PROVE IInv /\ StartHandler(w) => IInv'
<1>. SUFFICES ASSUME IInv, StartHandler(w) PROVE IInv'
  OBVIOUS
<1>a. TypeOK /\ TypeOK' /\ job \in [Workers -> Job]
  BY StartType DEF IInv, TypeOK, JobTypeOK
<1>b. \A q \in Payouts : PayoutInv(q) /\ payout[q] \in PayoutRow
  BY <1>a DEF IInv, PayoutInv, TypeOK, RowTypeOK
<1>1. ASSUME NEW p \in Payouts, UNCHANGED <<attempts, lastAttempt, wallet, payout, conversion>>,
             NEW j, job' = [job EXCEPT ![w] = j],
             j.step = "claim" \/ (j.step = "finalize" /\ j.payout = p /\ payout[p].state \in PaidStates)
      PROVE  IInv'
  <2>1. \A q \in Payouts : Same(q) /\ StaysPaid(q)
    BY <1>1 DEF Same, SameAttempts, StaysPaid
  <2>2. PayoutInv(p)'
    BY <1>b, <2>1, SameInv
  <2>3. job'[w] = j /\ \A v \in Workers \ {w} : job'[v] = job[v]
    BY <1>1, <1>a
  <2>4. WorkerInv(w)' /\ job'[w].step \notin PayingSteps
    BY <1>1, <2>3 DEF WorkerInv, PayingSteps, ProvingSteps
  <2>5. \A v \in Workers \ {w} : job'[v] = job[v] /\ (job[v].step # "idle" /\ job[v].payout = p => WorkerInv(v)')
    BY <2>1, <2>3, OthersKept DEF Same
  <2>. QED
    BY <1>a, <2>1, <2>2, <2>4, <2>5, PreserveWorker
<1>2. ASSUME NEW p \in Payouts, NEW h \in Hashes, NEW q, q \in {"manual", "sandbox"},
             payout[p].state \in {"PAYABLE", "FAILED"}, conversion[p] # "reversed",
             SettledWithoutRail(p, h, q), ToFinalize(w, p, h, q, FALSE), UNCHANGED <<wallet, conversion>>
      PROVE  IInv'
  <2>m. PICK m : m = lastAttempt[p] + 1
    OBVIOUS
  <2>. DEFINE row == [NoAttempt EXCEPT !.status = "SETTLED", !.rail = q, !.hash = h]
  <2>1. /\ m \in AttemptNumbers /\ SetAttempt(p, m, row)
        /\ lastAttempt' = [lastAttempt EXCEPT ![p] = m] /\ SetLast(p, m)
        /\ payout' = [payout EXCEPT ![p] = SettledRow(payout[p], h, q)]
    <3>1. lastAttempt[p] \in 0..MaxAttempts
      BY <1>a DEF TypeOK, AttemptTypeOK
    <3>. QED
      BY <1>2, <2>m, <3>1, PayoutAssumption DEF SettledWithoutRail, SetPayout, SetLast, AttemptNumbers
  <2>2. row \in AttemptRow /\ row.status = "SETTLED" /\ row.rail = q
    BY <1>2, HashType DEF NoAttempt, AttemptRow, AttemptStatuses, Providers
  <2>. HIDE DEF row
  <2>3. payout \in [Payouts -> PayoutRow]
    BY <1>a DEF TypeOK, RowTypeOK
  <2>4. payout'[p].state = "SETTLED" /\ payout'[p].status = "paid"
    BY <1>b, <2>1, <2>3, RowFields
  <2>5. job' = [job EXCEPT ![w] = [Idle EXCEPT !.step = "finalize", !.payout = p, !.hash = h,
                                              !.provider = q, !.reapply = FALSE]]
    BY <1>2 DEF ToFinalize
  <2>6. /\ job'[w].step = "finalize" /\ job'[w].payout = p
        /\ \A v \in Workers \ {w} : job'[v] = job[v]
    BY <1>a, <2>5 DEF Idle
  <2>7. payout[p].state \notin InFlightStates /\ payout[p].state \notin PaidStates /\ payout[p].state # "NONE"
    BY <1>2 DEF InFlightStates, PaidStates
  <2>8. /\ PayoutInv(p)'
        /\ \A v \in Workers \ {w} : job'[v] = job[v] /\ (job[v].step # "idle" /\ job[v].payout = p => WorkerInv(v)')
    <3>1. row.rail \in {"manual", "sandbox"} /\ wallet' = wallet /\ conversion' = conversion
      BY <1>2, <2>2
    <3>2. PayoutInv(p)'
      BY <1>2, <2>m, <2>1, <2>2, <2>4, <2>7, <3>1, NewAttemptInv
    <3>. QED
      BY <2>m, <2>1, <2>2, <2>6, <2>7, <3>2, NewAttemptOthers
  <2>9. WorkerInv(w)' /\ job'[w].step \notin PayingSteps
    BY <2>4, <2>6 DEF WorkerInv, PayingSteps, ProvingSteps, PaidStates
  <2>10. \A r \in Payouts \ {p} : Same(r)
    <3>1. attempts \in [Payouts -> [AttemptNumbers -> AttemptRow]] /\ lastAttempt \in [Payouts -> 0..MaxAttempts]
      BY <1>a DEF TypeOK, AttemptTypeOK
    <3>. QED
      BY <1>2, <2>1, <2>3, <3>1 DEF Same, SameAttempts, SetAttempt
  <2>. QED
    BY <1>a, <2>8, <2>9, <2>10, PreserveWorker
<1>3. ASSUME NEW p \in Payouts, StartExecute(w, p) PROVE IInv'
  <2>. DEFINE j == [Idle EXCEPT !.step = "claim", !.payout = p]
  <2>1. job' = [job EXCEPT ![w] = j] /\ UNCHANGED <<attempts, lastAttempt, wallet, payout, conversion>>
    BY <1>3 DEF StartExecute, StartJob, rowVars, attemptVars
  <2>2. j.step = "claim" \/ (j.step = "finalize" /\ j.payout = p /\ payout[p].state \in PaidStates)
    BY DEF Idle
  <2>. HIDE DEF j
  <2>. QED
    BY <2>1, <2>2, <1>1
<1>4. ASSUME NEW p \in Payouts, NEW h, NEW q, NEW b, ToFinalize(w, p, h, q, b), payout[p].status = "paid",
             UNCHANGED <<attempts, lastAttempt, wallet, payout, conversion>>
      PROVE  IInv'
  <2>. DEFINE j == [Idle EXCEPT !.step = "finalize", !.payout = p, !.hash = h, !.provider = q, !.reapply = b]
  <2>1. job' = [job EXCEPT ![w] = j]
    BY <1>4 DEF ToFinalize
  <2>2. j.step = "finalize" /\ j.payout = p
    BY DEF Idle
  <2>3. payout[p].state \in PaidStates
    BY <1>b, <1>4 DEF PayoutInv, StateInv
  <2>. HIDE DEF j
  <2>. QED
    BY <1>4, <2>1, <2>2, <2>3, <1>1
<1>5. ASSUME NEW p \in Payouts, RetryProof(w, p) PROVE IInv'
  BY <1>4, <1>5 DEF RetryProof, rowVars, attemptVars
<1>6. ASSUME NEW p \in Payouts, ManualSettlementAgain(w, p) PROVE IInv'
  <2>1. payout[p].status = "paid"
    BY <1>b, <1>6 DEF ManualSettlementAgain, PayoutInv, StateInv, PaidStates
  <2>. QED
    BY <1>4, <1>6, <2>1 DEF ManualSettlementAgain, rowVars, attemptVars
<1>7. ASSUME NEW p \in Payouts, NEW h \in ManualHashes, ManualSettlement(w, p, h) PROVE IInv'
  <2>1. h \in Hashes
    BY HashType
  <2>2. /\ payout[p].state \in {"PAYABLE", "FAILED"} /\ conversion[p] # "reversed"
        /\ SettledWithoutRail(p, h, "manual") /\ ToFinalize(w, p, h, "manual", FALSE)
        /\ UNCHANGED <<wallet, conversion>> /\ "manual" \in {"manual", "sandbox"}
    BY <1>7 DEF ManualSettlement, ManuallyPayable
  <2>. QED
    BY <1>2, <2>1, <2>2
<1>8. ASSUME NEW p \in Payouts, NEW h \in ManualHashes, MarkPaid(w, p, h) PROVE IInv'
  <2>1. h \in Hashes
    BY HashType
  <2>2. CASE payout[p].status = "paid" /\ UNCHANGED <<payout, attemptVars>>
    BY <1>4, <1>8, <2>2 DEF MarkPaid, attemptVars
  <2>3. CASE Claimable(p) /\ SettledWithoutRail(p, h, "sandbox")
    <3>1. /\ payout[p].state \in {"PAYABLE", "FAILED"} /\ conversion[p] # "reversed"
          /\ SettledWithoutRail(p, h, "sandbox") /\ ToFinalize(w, p, h, "sandbox", FALSE)
          /\ UNCHANGED <<wallet, conversion>> /\ "sandbox" \in {"manual", "sandbox"}
      BY <1>8, <2>3 DEF MarkPaid, Claimable
    <3>. QED
      BY <1>2, <2>1, <3>1
  <2>. QED
    BY <1>8, <2>2, <2>3 DEF MarkPaid
<1>9. ASSUME NEW p \in Payouts, NEW n \in AttemptNumbers, StartRefresh(w, p, n) PROVE IInv'
  <2>. DEFINE row == [attempts[p][n] EXCEPT !.ref = Reference(p, n)]
  <2>1. attempts \in [Payouts -> [AttemptNumbers -> AttemptRow]] /\ attempts[p][n] \in AttemptRow
    BY <1>a DEF TypeOK, AttemptTypeOK
  <2>2. Reference(p, n) \in Hashes
    BY <2>1 DEF Reference, AttemptRow
  <2>3. row \in AttemptRow /\ row.status = attempts[p][n].status /\ row.rail = attempts[p][n].rail
    BY <2>1, <2>2 DEF AttemptRow
  <2>4. /\ SetAttempt(p, n, row) /\ attempts[p][n].status = "UNKNOWN"
        /\ UNCHANGED <<lastAttempt, wallet, payout, conversion>>
        /\ job' = [job EXCEPT ![w] = [Idle EXCEPT !.step = "lookup", !.payout = p, !.attempt = n]]
    BY <1>9 DEF StartRefresh, rowVars
  <2>. HIDE DEF row
  <2>5. job'[w].step = "lookup" /\ job'[w].payout = p /\ job'[w].attempt = n
        /\ \A v \in Workers \ {w} : job'[v] = job[v]
    BY <1>a, <2>4 DEF Idle
  <2>6. attempts[p][n].status \in LiveStatuses /\ row.status \in LiveStatuses
    BY <2>3, <2>4 DEF LiveStatuses
  <2>7. payout[p].status # "paid"
    BY <1>a, <1>b, <2>6, LiveIsLast
  <2>8. PayoutInv(p)'
    BY <1>a, <1>b, <2>3, <2>4, <2>6, <2>7, ResolvedInv
  <2>9. \A v \in Workers \ {w} : job'[v] = job[v] /\ (job[v].step # "idle" /\ job[v].payout = p => WorkerInv(v)')
    <3>1. /\ row.status \in {"UNKNOWN", "FAILED", "SETTLED"}
          /\ UNCHANGED <<lastAttempt, wallet>>
          /\ \A v \in Workers \ {w} : job'[v] = job[v]
      BY <2>3, <2>4, <2>5
    <3>. QED
      BY <2>3, <2>4, <2>6, <3>1, ResolveOthers
  <2>10. attempts'[p][n] = row
    BY <2>1, <2>4 DEF SetAttempt
  <2>11. WorkerInv(w)' /\ job'[w].step \notin PayingSteps
    BY <2>3, <2>4, <2>5, <2>10 DEF WorkerInv, PayingSteps, ProvingSteps
  <2>12. \A q \in Payouts \ {p} : Same(q)
    BY <2>1, <2>4 DEF Same, SameAttempts, SetAttempt
  <2>. QED
    BY <1>a, <2>8, <2>9, <2>11, <2>12, PreserveWorker
<1>10. ASSUME NEW p \in Payouts, NEW n \in AttemptNumbers, ReconcileAttempt(w, p, n) PROVE IInv'
  <2>1. attempts[p][n].ref \in Hashes
    BY <1>a DEF TypeOK, AttemptTypeOK, AttemptRow
  <2>2. /\ StoreSettledEvidence(p, n, attempts[p][n].ref) /\ wallet[p][n] = "settled"
        /\ attempts[p][n].status = "UNKNOWN"
        /\ ToFinalize(w, p, attempts[p][n].hash, attempts[p][n].rail, conversion[p] = "reversed")
        /\ UNCHANGED <<lastAttempt, wallet, conversion>>
    BY <1>10 DEF ReconcileAttempt
  <2>. QED
    BY <1>a, <2>1, <2>2, SettledEvidenceInv DEF LiveStatuses
<1>. QED
  BY <1>3, <1>5, <1>6, <1>7, <1>8, <1>9, <1>10 DEF StartHandler

-----------------------------------------------------------------------------
(* The steps of execute_payout. *)

\* What a worker at the wallet knows.
LEMMA PayingFacts ==
    ASSUME IInv, NEW w \in Workers, job[w].step \in PayingSteps
    PROVE  LET p == job[w].payout
               n == job[w].attempt
           IN /\ p \in Payouts /\ n \in AttemptNumbers /\ n = lastAttempt[p]
              /\ PayoutInv(p) /\ payout[p] \in PayoutRow /\ attempts[p][n] \in AttemptRow
              /\ attempts[p][n].status = "PAYING" /\ attempts[p][n].status \in LiveStatuses
              /\ attempts[p][n].hash \in Hashes /\ attempts[p][n].ref \in Hashes
              /\ InvoiceHash(p, n) \in Hashes
              /\ payout[p].state \in InFlightStates /\ payout[p].state \notin PaidStates
              /\ payout[p].provider = Rail /\ payout[p].status # "paid" /\ ~payout[p].event
<1>. DEFINE p == job[w].payout
            n == job[w].attempt
<1>1. TypeOK /\ WorkerInv(w)
  BY DEF IInv
<1>2. /\ p \in Payouts /\ n \in AttemptNumbers
      /\ payout[p] \in PayoutRow /\ attempts[p][n] \in AttemptRow
  BY <1>1, JobFacts DEF PayingSteps
<1>3. PayoutInv(p) /\ attempts[p][n].status = "PAYING"
  BY <1>1, <1>2 DEF IInv, PayoutInv, WorkerInv
<1>4. attempts[p][n].hash \in Hashes /\ attempts[p][n].ref \in Hashes /\ InvoiceHash(p, n) \in Hashes
  BY <1>2, HashType DEF AttemptRow
<1>. QED
  BY <1>1, <1>2, <1>3, <1>4, LiveIsLast DEF LiveStatuses

\* A step that changes one payout row, no attempt, and takes the worker off the wallet.
LEMMA RowWorker ==
    ASSUME IInv, TypeOK', NEW p \in Payouts, NEW w \in Workers,
           \A q \in Payouts \ {p} : Same(q),
           SameAttempts(p), StaysPaid(p), PayoutInv(p)',
           NEW j, job' = [job EXCEPT ![w] = j],
           j.step = "idle" \/ (j.step \in ProvingSteps /\ j.payout = p /\ payout'[p].state \in PaidStates)
    PROVE  IInv'
<1>1. job \in [Workers -> Job]
  BY DEF IInv, TypeOK, JobTypeOK
<1>2. job'[w] = j /\ \A v \in Workers \ {w} : job'[v] = job[v]
  BY <1>1
<1>3. WorkerInv(w)' /\ job'[w].step \notin PayingSteps
  BY <1>2 DEF WorkerInv, PayingSteps, ProvingSteps
<1>4. \A v \in Workers \ {w} : job'[v] = job[v] /\ (job[v].step # "idle" /\ job[v].payout = p => WorkerInv(v)')
  BY <1>2, OthersKept
<1>. QED
  BY <1>3, <1>4, PreserveWorker

\* A worker at the wallet that resolves or marks its attempt and ends.
LEMMA AttemptEnds ==
    ASSUME IInv, TypeOK', NEW w \in Workers, job[w].step \in PayingSteps, EndJob(w),
           NEW p, p = job[w].payout, NEW n, n = job[w].attempt,
           NEW row \in AttemptRow, SetAttempt(p, n, row),
           row.status \in {"UNKNOWN", "FAILED"}, PayoutInv(p)',
           UNCHANGED <<lastAttempt, wallet, conversion>>,
           \A q \in Payouts \ {p} : payout'[q] = payout[q]
    PROVE  IInv'
<1>1. /\ p \in Payouts /\ n \in AttemptNumbers
      /\ attempts[p][n].status \in LiveStatuses
  BY PayingFacts
<1>2. job \in [Workers -> Job] /\ attempts \in [Payouts -> [AttemptNumbers -> AttemptRow]]
  BY DEF IInv, TypeOK, JobTypeOK, AttemptTypeOK
<1>3. job'[w].step = "idle" /\ \A v \in Workers \ {w} : job'[v] = job[v]
  BY <1>2 DEF EndJob, Idle
<1>4. \A v \in Workers \ {w} : job'[v] = job[v] /\ (job[v].step # "idle" /\ job[v].payout = p => WorkerInv(v)')
  <2>1. row.status \in {"UNKNOWN", "FAILED", "SETTLED"} /\ UNCHANGED <<lastAttempt, wallet>>
    OBVIOUS
  <2>. QED
    BY <1>1, <1>3, <2>1, ResolveOthers
<1>5. WorkerInv(w)' /\ job'[w].step \notin PayingSteps
  BY <1>3 DEF WorkerInv, PayingSteps, ProvingSteps
<1>6. \A r \in Payouts \ {p} : Same(r)
  BY <1>2 DEF Same, SameAttempts, SetAttempt
<1>. QED
  BY <1>1, <1>4, <1>5, <1>6, PreserveWorker

LEMMA UnknownInv ==
    ASSUME IInv, TypeOK', NEW w \in Workers, job[w].step \in PayingSteps, EndJob(w),
           NEW p, p = job[w].payout, NEW n, n = job[w].attempt,
           NEW h \in Hashes, NEW ref \in Hashes, NEW k \in Hashes,
           MarkAttemptUnknown(p, n, h, ref), MarkPayoutUnknown(p, k),
           UNCHANGED <<lastAttempt, wallet, conversion>>
    PROVE  IInv'
<1>. DEFINE row == [attempts[p][n] EXCEPT !.status = "UNKNOWN", !.hash = h, !.ref = ref]
            x == [payout[p] EXCEPT !.status = "payment_unknown", !.hash = IF k = NoHash THEN @ ELSE k]
<1>1. /\ p \in Payouts /\ n \in AttemptNumbers /\ PayoutInv(p)
      /\ payout[p] \in PayoutRow /\ attempts[p][n] \in AttemptRow
      /\ attempts[p][n].status = "PAYING" /\ attempts[p][n].status \in LiveStatuses
      /\ payout[p].status # "paid"
  BY PayingFacts
<1>2. row \in AttemptRow /\ row.status = "UNKNOWN" /\ row.rail = attempts[p][n].rail
  BY <1>1 DEF AttemptRow, AttemptStatuses
<1>3. SetAttempt(p, n, row)
  BY <1>1 DEF MarkAttemptUnknown
<1>4. TypeOK /\ payout \in [Payouts -> PayoutRow]
  BY DEF IInv, TypeOK, RowTypeOK
<1>5. x.state = payout[p].state /\ x.provider = payout[p].provider
      /\ x.event = payout[p].event /\ x.status = "payment_unknown"
  BY <1>1 DEF PayoutRow
<1>6. payout' = payout \/ payout' = [payout EXCEPT ![p] = x]
  BY DEF MarkPayoutUnknown, SetPayout
<1>. HIDE DEF row, x
<1>7. /\ payout'[p].state = payout[p].state /\ payout'[p].provider = payout[p].provider
      /\ payout'[p].event = payout[p].event /\ payout'[p].status # "paid"
      /\ \A q \in Payouts \ {p} : payout'[q] = payout[q]
  BY <1>1, <1>4, <1>5, <1>6
<1>8. PayoutInv(p)'
  <2>1. row.status \in LiveStatuses
    BY <1>2 DEF LiveStatuses
  <2>. QED
    BY <1>1, <1>2, <1>3, <1>4, <1>7, <2>1, ResolvedInv
<1>9. row.status \in {"UNKNOWN", "FAILED"}
  BY <1>2
<1>. QED
  BY <1>2, <1>3, <1>7, <1>8, <1>9, AttemptEnds

LEMMA ClaimInv == ASSUME NEW w \in Workers PROVE IInv /\ TypeOK' /\ ClaimPayout(w) => IInv'
<1>. SUFFICES ASSUME IInv, TypeOK', ClaimPayout(w) PROVE IInv'
  OBVIOUS
<1>p. PICK p, m : p = job[w].payout /\ m = lastAttempt[p] + 1
  OBVIOUS
<1>. DEFINE row == [NoAttempt EXCEPT !.status = "PAYING", !.rail = Rail]
            j == [job[w] EXCEPT !.attempt = m, !.step = IF Rail = "nwc" THEN "prepare" ELSE "send"]
<1>1. TypeOK /\ job[w] \in Job /\ job \in [Workers -> Job] /\ job[w].step = "claim"
  BY DEF IInv, TypeOK, JobTypeOK, ClaimPayout
<1>2. p \in Payouts /\ payout[p] \in PayoutRow /\ PayoutInv(p)
  BY <1>1, <1>p, JobFacts DEF IInv, PayoutInv
<1>3. /\ payout \in [Payouts -> PayoutRow] /\ attempts \in [Payouts -> [AttemptNumbers -> AttemptRow]]
      /\ lastAttempt \in [Payouts -> 0..MaxAttempts]
  BY <1>1 DEF TypeOK, RowTypeOK, AttemptTypeOK
<1>4. /\ payout[p].state \in {"PAYABLE", "FAILED"} /\ conversion[p] # "reversed"
      /\ m \in AttemptNumbers
      /\ payout' = [payout EXCEPT ![p] = ClaimedRow(payout[p])]
      /\ SetAttempt(p, m, row)
      /\ lastAttempt' = [lastAttempt EXCEPT ![p] = m] /\ SetLast(p, m)
      /\ job' = [job EXCEPT ![w] = j]
      /\ UNCHANGED <<wallet, conversion>>
  <2>1. m \in AttemptNumbers
    <3>1. m <= MaxAttempts
      BY <1>p DEF ClaimPayout
    <3>2. lastAttempt[p] \in 0..MaxAttempts
      BY <1>2, <1>3
    <3>. QED
      BY <1>p, <3>1, <3>2, PayoutAssumption DEF AttemptNumbers
  <2>2. payout[p].state \in {"PAYABLE", "FAILED"} /\ conversion[p] # "reversed"
    BY <1>p DEF ClaimPayout, Claimable
  <2>3. payout' = [payout EXCEPT ![p] = ClaimedRow(payout[p])] /\ UNCHANGED <<wallet, conversion>>
    BY <1>p DEF ClaimPayout, SetPayout
  <2>4. SetAttempt(p, m, row) /\ SetLast(p, m) /\ job' = [job EXCEPT ![w] = j]
    BY <1>p DEF ClaimPayout, SetLast
  <2>. QED
    BY <2>1, <2>2, <2>3, <2>4 DEF SetLast
<1>5. row \in AttemptRow /\ row.status = "PAYING" /\ row.rail = Rail
  <2>1. Rail \in Providers
    BY PayoutAssumption DEF Providers
  <2>. QED
    BY <2>1, HashType DEF NoAttempt, AttemptRow, AttemptStatuses
<1>6. j.step \in PayingSteps /\ j.step \in {"prepare", "send"} /\ j.payout = p /\ j.attempt = m
  BY <1>1, <1>p DEF Job, PayingSteps
<1>. HIDE DEF row, j
<1>7. /\ payout'[p].state = "PAYING" /\ payout'[p].provider = Rail
      /\ payout'[p].status # "paid" /\ payout'[p].event = payout[p].event
  BY <1>2, <1>3, <1>4, RowFields
<1>8. job'[w] = j /\ \A v \in Workers \ {w} : job'[v] = job[v]
  BY <1>1, <1>4
<1>9. payout[p].state \notin InFlightStates /\ payout[p].state \notin PaidStates /\ payout[p].state # "NONE"
  BY <1>4 DEF InFlightStates, PaidStates
<1>10. /\ PayoutInv(p)'
       /\ \A v \in Workers \ {w} : job'[v] = job[v] /\ (job[v].step # "idle" /\ job[v].payout = p => WorkerInv(v)')
       /\ \A v \in Workers : job[v].step \in PayingSteps => job[v].payout # p
       /\ attempts'[p][m] = row /\ lastAttempt'[p] = m /\ wallet[p][m] = "none"
  <2>1. PayoutInv(p)'
    BY <1>2, <1>p, <1>4, <1>5, <1>7, <1>9, NewAttemptInv
  <2>2. /\ \A v \in Workers \ {w} : job'[v] = job[v] /\ (job[v].step # "idle" /\ job[v].payout = p => WorkerInv(v)')
        /\ \A v \in Workers : job[v].step \in PayingSteps => job[v].payout # p
    BY <1>2, <1>p, <1>4, <1>5, <1>8, <1>9, NewAttemptOthers
  <2>3. attempts'[p][m] = row /\ lastAttempt'[p] = m
    BY <1>2, <1>3, <1>4 DEF SetAttempt
  <2>4. wallet[p][m] = "none"
    <3>1. m > lastAttempt[p]
      BY <1>2, <1>3, <1>p
    <3>. QED
      BY <1>2, <1>4, <3>1 DEF PayoutInv, AttemptsInv
  <2>. QED
    BY <2>1, <2>2, <2>3, <2>4
<1>11. WorkerInv(w)'
  <2>1. wallet'[p][m] = "none"
    BY <1>4, <1>10
  <2>. QED
    BY <1>5, <1>6, <1>8, <1>10, <2>1 DEF WorkerInv, ProvingSteps
<1>12. \A q \in Payouts \ {p} : Same(q)
  BY <1>3, <1>4 DEF Same, SameAttempts, SetAttempt
<1>13. \A v \in Workers \ {w} : job[v].step \in PayingSteps => job[v].payout # job'[w].payout
  BY <1>6, <1>8, <1>10
<1>. QED
  BY <1>2, <1>10, <1>11, <1>12, <1>13, PreserveWorker

LEMMA PreparedInv == ASSUME NEW w \in Workers PROVE IInv /\ TypeOK' /\ RecordPreparedEvidence(w) => IInv'
<1>. SUFFICES ASSUME IInv, TypeOK', RecordPreparedEvidence(w) PROVE IInv'
  OBVIOUS
<1>p. PICK p, n : p = job[w].payout /\ n = job[w].attempt
  OBVIOUS
<1>. DEFINE row == [attempts[p][n] EXCEPT !.hash = InvoiceHash(p, n)]
            x == [payout[p] EXCEPT !.hash = InvoiceHash(p, n)]
<1>1. job[w].step = "prepare" /\ job[w].step \in PayingSteps
  BY DEF RecordPreparedEvidence, PayingSteps
<1>2. /\ p \in Payouts /\ n \in AttemptNumbers /\ n = lastAttempt[p] /\ PayoutInv(p)
      /\ payout[p] \in PayoutRow /\ attempts[p][n] \in AttemptRow
      /\ attempts[p][n].status = "PAYING" /\ attempts[p][n].status \in LiveStatuses
      /\ InvoiceHash(p, n) \in Hashes /\ payout[p].status # "paid"
  BY <1>1, <1>p, PayingFacts
<1>3. /\ job \in [Workers -> Job] /\ job[w] \in Job /\ TypeOK /\ WorkerInv(w)
      /\ payout \in [Payouts -> PayoutRow] /\ attempts \in [Payouts -> [AttemptNumbers -> AttemptRow]]
  BY DEF IInv, TypeOK, JobTypeOK, RowTypeOK, AttemptTypeOK
<1>4. row \in AttemptRow /\ row.status = "PAYING" /\ row.rail = attempts[p][n].rail
  BY <1>2 DEF AttemptRow
<1>5. /\ x.state = payout[p].state /\ x.provider = payout[p].provider
      /\ x.status = payout[p].status /\ x.event = payout[p].event
  BY <1>2 DEF PayoutRow
<1>6. /\ SetAttempt(p, n, row) /\ payout' = [payout EXCEPT ![p] = x]
      /\ job' = [job EXCEPT ![w].step = "send"] /\ UNCHANGED <<lastAttempt, wallet, conversion>>
  BY <1>p DEF RecordPreparedEvidence, SetPayout, GoTo
<1>. HIDE DEF row, x
<1>7. /\ job'[w].step = "send" /\ job'[w].payout = p /\ job'[w].attempt = n
      /\ \A v \in Workers \ {w} : job'[v] = job[v]
  BY <1>3, <1>6, <1>p DEF Job
<1>8. payout'[p] = x
  BY <1>2, <1>3, <1>6
<1>9. PayoutInv(p)'
  <2>1. row.status \in LiveStatuses
    BY <1>4 DEF LiveStatuses
  <2>. QED
    BY <1>2, <1>3, <1>4, <1>5, <1>6, <1>8, <2>1, ResolvedInv
<1>10. /\ \A v \in Workers \ {w} : job'[v] = job[v] /\ (job[v].step # "idle" /\ job[v].payout = p => WorkerInv(v)')
       /\ \A v \in Workers \ {w} : job[v].step \in PayingSteps => job[v].payout # p
  <2>1. UNCHANGED <<lastAttempt, wallet>>
    BY <1>6
  <2>. QED
    BY <1>1, <1>p, <1>2, <1>4, <1>6, <1>7, <2>1, ResolveOthers
<1>11. WorkerInv(w)'
  <2>1. attempts'[p][n] = row
    BY <1>2, <1>3, <1>6 DEF SetAttempt
  <2>2. wallet[p][n] = "none"
    BY <1>1, <1>3, <1>p DEF WorkerInv
  <2>. QED
    BY <1>2, <1>4, <1>6, <1>7, <2>1, <2>2 DEF WorkerInv, ProvingSteps
<1>12. \A q \in Payouts \ {p} : Same(q)
  BY <1>3, <1>6 DEF Same, SameAttempts, SetAttempt
<1>13. \A v \in Workers \ {w} : job[v].step \in PayingSteps => job[v].payout # job'[w].payout
  BY <1>7, <1>10
<1>. QED
  BY <1>2, <1>9, <1>10, <1>11, <1>12, <1>13, PreserveWorker

LEMMA SendInv == ASSUME NEW w \in Workers PROVE IInv /\ TypeOK' /\ SendPayment(w) => IInv'
<1>. SUFFICES ASSUME IInv, TypeOK', SendPayment(w) PROVE IInv'
  OBVIOUS
<1>p. PICK p, n : p = job[w].payout /\ n = job[w].attempt
  OBVIOUS
<1>1. job[w].step = "send" /\ job[w].step \in PayingSteps
  BY DEF SendPayment, PayingSteps
<1>2. /\ p \in Payouts /\ n \in AttemptNumbers /\ n = lastAttempt[p] /\ PayoutInv(p)
      /\ attempts[p][n].status = "PAYING"
  BY <1>1, <1>p, PayingFacts
<1>3. /\ job \in [Workers -> Job] /\ job[w] \in Job
      /\ wallet \in [Payouts -> [AttemptNumbers -> WalletStates]]
  BY DEF IInv, TypeOK, JobTypeOK, AttemptTypeOK
<1>4. /\ \E o \in {"queued", "inflight"} : wallet' = [wallet EXCEPT ![p][n] = o]
      /\ job' = [job EXCEPT ![w].step = "await"]
      /\ UNCHANGED <<payout, conversion, attempts, lastAttempt>>
  BY <1>p DEF SendPayment, GoTo, rowVars, attemptVars
<1>5. /\ job'[w].step = "await" /\ job'[w].payout = p /\ job'[w].attempt = n
      /\ \A v \in Workers \ {w} : job'[v] = job[v]
  BY <1>3, <1>4, <1>p DEF Job
<1>6. PayoutInv(p)'
  <2>1. \A k \in AttemptNumbers : k # n => wallet'[p][k] = wallet[p][k]
    BY <1>2, <1>3, <1>4
  <2>2. ~(n > lastAttempt[p])
    BY <1>2 DEF AttemptNumbers
  <2>3. AttemptsInv(p)'
    BY <1>2, <1>4, <2>1, <2>2 DEF PayoutInv, AttemptsInv
  <2>. QED
    BY <1>2, <1>4, <2>3 DEF PayoutInv, StateInv
<1>7. \A v \in Workers \ {w} : job[v].step \in PayingSteps => job[v].payout # p
  BY <1>1, <1>p DEF IInv, Exclusive
<1>8. ASSUME NEW v \in Workers \ {w}, job[v].step # "idle", job[v].payout = p PROVE WorkerInv(v)'
  BY <1>4, <1>5, <1>7, <1>8 DEF IInv, WorkerInv, PayingSteps
<1>9. WorkerInv(w)'
  BY <1>2, <1>4, <1>5 DEF WorkerInv, ProvingSteps
<1>10. \A q \in Payouts \ {p} : Same(q)
  BY <1>3, <1>4 DEF Same, SameAttempts
<1>11. \A v \in Workers \ {w} : job[v].step \in PayingSteps => job[v].payout # job'[w].payout
  BY <1>5, <1>7
<1>. QED
  BY <1>2, <1>5, <1>6, <1>8, <1>9, <1>10, <1>11, PreserveWorker

LEMMA FailureInv == ASSUME NEW w \in Workers PROVE IInv /\ TypeOK' /\ RecordFailure(w) => IInv'
<1>. SUFFICES ASSUME IInv, TypeOK', RecordFailure(w) PROVE IInv'
  OBVIOUS
<1>p. PICK p, n : p = job[w].payout /\ n = job[w].attempt
  OBVIOUS
<1>. DEFINE row == [attempts[p][n] EXCEPT !.status = "FAILED"]
<1>1. job[w].step \in {"prepare", "send"} /\ job[w].step \in PayingSteps
  BY DEF RecordFailure, FailsBeforeSending, PayingSteps
<1>2. /\ p \in Payouts /\ n \in AttemptNumbers /\ PayoutInv(p)
      /\ payout[p] \in PayoutRow /\ attempts[p][n] \in AttemptRow
      /\ attempts[p][n].status = "PAYING" /\ attempts[p][n].status \in LiveStatuses
      /\ payout[p].state \in InFlightStates /\ payout[p].status # "paid"
  BY <1>1, <1>p, PayingFacts
<1>3. TypeOK /\ WorkerInv(w) /\ payout \in [Payouts -> PayoutRow]
  BY DEF IInv, TypeOK, RowTypeOK
<1>4. row \in AttemptRow /\ row.status = "FAILED" /\ row.rail = attempts[p][n].rail
  BY <1>2 DEF AttemptRow, AttemptStatuses
<1>5. SetAttempt(p, n, row) /\ EndJob(w) /\ UNCHANGED <<lastAttempt, wallet, conversion>>
  BY <1>2, <1>p DEF RecordFailure
<1>6. SetPayout(p, CancelledRow(payout[p])) \/ SetPayout(p, FailedRow(payout[p]))
  BY <1>2, <1>p DEF RecordFailure, InFlightStates, PayoutInv, StateInv
<1>. HIDE DEF row
<1>7. /\ payout'[p].state \in {"FAILED", "CANCELLED"} /\ payout'[p].status # "paid"
      /\ payout'[p].event = payout[p].event
      /\ \A q \in Payouts \ {p} : payout'[q] = payout[q]
  BY <1>2, <1>3, <1>6, RowFields DEF SetPayout
<1>8. wallet[p][n] = "none"
  BY <1>1, <1>3, <1>p DEF WorkerInv
<1>9. PayoutInv(p)'
  BY <1>2, <1>3, <1>4, <1>5, <1>7, <1>8, ResolvedInv
<1>10. row.status \in {"UNKNOWN", "FAILED"}
  BY <1>4
<1>. QED
  BY <1>1, <1>p, <1>4, <1>5, <1>7, <1>9, <1>10, AttemptEnds

\* A step that only moves or ends a worker.
LEMMA JobOnlyInv ==
    ASSUME IInv, TypeOK', NEW p \in Payouts, NEW w \in Workers,
           UNCHANGED <<attempts, lastAttempt, wallet, payout, conversion>>,
           NEW j, job' = [job EXCEPT ![w] = j],
           j.step = "idle" \/ (j.step \in ProvingSteps /\ j.payout = p /\ payout[p].state \in PaidStates)
    PROVE  IInv'
<1>1. \A q \in Payouts : Same(q) /\ StaysPaid(q)
  BY DEF Same, SameAttempts, StaysPaid
<1>2. PayoutInv(p)'
  BY <1>1, SameInv DEF IInv, PayoutInv
<1>. QED
  BY <1>1, <1>2, RowWorker DEF Same

\* The job a finished handler leaves, and the one that goes on to its next step.
LEMMA EndedJob ==
    ASSUME NEW w \in Workers, EndJob(w), NEW p
    PROVE  \E j : /\ job' = [job EXCEPT ![w] = j]
                  /\ j.step = "idle" \/ (j.step \in ProvingSteps /\ j.payout = p /\ payout'[p].state \in PaidStates)
<1>1. job' = [job EXCEPT ![w] = Idle] /\ Idle.step = "idle"
  BY DEF EndJob, Idle
<1>. QED
  BY <1>1

LEMMA MovedJob ==
    ASSUME IInv, NEW w \in Workers, NEW s \in ProvingSteps, NEW p, p = job[w].payout,
           payout'[p].state \in PaidStates, GoTo(w, s) \/ (s = "reapply" /\ AfterFinalize(w))
    PROVE  \E j : /\ job' = [job EXCEPT ![w] = j]
                  /\ j.step = "idle" \/ (j.step \in ProvingSteps /\ j.payout = p /\ payout'[p].state \in PaidStates)
<1>. DEFINE j == [job[w] EXCEPT !.step = s]
<1>1. job[w] \in Job
  BY DEF IInv, TypeOK, JobTypeOK
<1>2. j.step \in ProvingSteps /\ j.payout = p
  BY <1>1 DEF Job
<1>3. job' = [job EXCEPT ![w] = j] \/ job' = [job EXCEPT ![w] = Idle]
  BY <1>1 DEF GoTo, AfterFinalize
<1>4. Idle.step = "idle"
  BY DEF Idle
<1>. HIDE DEF j
<1>. QED
  BY <1>2, <1>3, <1>4

LEMMA ExecuteInv == ASSUME NEW w \in Workers PROVE IInv /\ (ExecuteStep(w) \/ RecordException(w)) => IInv'
<1>. SUFFICES ASSUME IInv, ExecuteStep(w) \/ RecordException(w) PROVE IInv'
  OBVIOUS
<1>a. TypeOK'
  BY ExecuteType DEF IInv
<1>p. PICK p, n : p = job[w].payout /\ n = job[w].attempt
  OBVIOUS
<1>u. ASSUME job[w].step \in PayingSteps
      PROVE  /\ p \in Payouts /\ n \in AttemptNumbers
             /\ attempts[p][n].hash \in Hashes /\ attempts[p][n].ref \in Hashes
             /\ InvoiceHash(p, n) \in Hashes /\ NoHash \in Hashes
             /\ attempts[p][n].status = "PAYING" /\ attempts[p][n].status \in LiveStatuses
  BY <1>u, <1>p, PayingFacts, HashType
<1>1. CASE ClaimRefused(w)
  <2>1. p \in Payouts /\ EndJob(w) /\ UNCHANGED <<attempts, lastAttempt, wallet, payout, conversion>>
    BY <1>1, <1>p, JobFacts DEF ClaimRefused, IInv, rowVars, attemptVars
  <2>2. PICK j : /\ job' = [job EXCEPT ![w] = j]
                 /\ j.step = "idle" \/ (j.step \in ProvingSteps /\ j.payout = p /\ payout'[p].state \in PaidStates)
    BY <2>1, EndedJob
  <2>. QED
    BY <1>a, <2>1, <2>2, JobOnlyInv
<1>2. CASE RecordAmbiguous(w)
  <2>1. /\ job[w].step \in PayingSteps /\ EndJob(w)
        /\ MarkAttemptUnknown(p, n, InvoiceHash(p, n), InvoiceHash(p, n))
        /\ MarkPayoutUnknown(p, InvoiceHash(p, n))
        /\ UNCHANGED <<lastAttempt, wallet, conversion>>
    BY SMTT(30), <1>2, <1>p DEF RecordAmbiguous, PayingSteps
  <2>. QED
    BY <1>a, <1>p, <1>u, <2>1, UnknownInv
<1>3. CASE RecordException(w)
  <2>1. /\ job[w].step \in PayingSteps /\ EndJob(w)
        /\ MarkAttemptUnknown(p, n, attempts[p][n].hash, attempts[p][n].ref)
        /\ MarkPayoutUnknown(p, NoHash)
        /\ UNCHANGED <<lastAttempt, wallet, conversion>>
    BY <1>3, <1>p DEF RecordException, PayingSteps
  <2>. QED
    BY <1>a, <1>p, <1>u, <2>1, UnknownInv
<1>4. CASE RecordPending(w)
  <2>1. /\ job[w].step \in PayingSteps /\ EndJob(w)
        /\ UNCHANGED <<lastAttempt, wallet, conversion>>
    BY <1>4 DEF RecordPending, PayingSteps
  <2>2. PICK h, ref \in {NoHash, InvoiceHash(p, n)} :
            MarkAttemptUnknown(p, n, h, ref) /\ MarkPayoutUnknown(p, h)
    BY <1>4, <1>p DEF RecordPending
  <2>3. h \in Hashes /\ ref \in Hashes
    BY <1>u, <2>1, <2>2
  <2>. QED
    BY <1>a, <1>p, <2>1, <2>2, <2>3, UnknownInv
<1>5. CASE RecordMismatch(w)
  <2>1. /\ job[w].step \in PayingSteps /\ EndJob(w)
        /\ UNCHANGED <<lastAttempt, wallet, conversion>>
    BY SMTT(30), <1>5 DEF RecordMismatch, PayingSteps
  <2>2. CASE MarkAttemptUnknown(p, n, attempts[p][n].hash, attempts[p][n].ref) /\ MarkPayoutUnknown(p, NoHash)
    BY <1>a, <1>p, <1>u, <2>1, <2>2, UnknownInv
  <2>3. CASE UNCHANGED <<attempts, payout>>
    <3>1. p \in Payouts /\ UNCHANGED <<attempts, lastAttempt, wallet, payout, conversion>>
      BY <1>u, <2>1, <2>3
    <3>2. PICK j : /\ job' = [job EXCEPT ![w] = j]
                   /\ j.step = "idle" \/ (j.step \in ProvingSteps /\ j.payout = p /\ payout'[p].state \in PaidStates)
      BY <2>1, EndedJob
    <3>. QED
      BY <1>a, <3>1, <3>2, JobOnlyInv
  <2>. QED
    BY <1>5, <1>p, <2>2, <2>3 DEF RecordMismatch
<1>6. CASE RecordSuccess(w)
  <2>1. /\ job[w].step \in PayingSteps /\ wallet[p][n] = "settled"
        /\ StoreSettledEvidence(p, n, InvoiceHash(p, n))
        /\ ToFinalize(w, p, InvoiceHash(p, n), Rail, TRUE)
        /\ UNCHANGED <<lastAttempt, wallet, conversion>>
    BY <1>6, <1>p DEF RecordSuccess, PayingSteps
  <2>2. /\ p \in Payouts /\ n \in AttemptNumbers /\ attempts[p][n].status \in LiveStatuses
        /\ InvoiceHash(p, n) \in Hashes
    BY <1>u, <2>1
  <2>. QED
    BY <1>a, <1>p, <2>1, <2>2, SettledEvidenceInv
<1>. QED
  BY <1>a, <1>1, <1>2, <1>3, <1>4, <1>5, <1>6, ClaimInv, PreparedInv, SendInv, FailureInv DEF ExecuteStep

-----------------------------------------------------------------------------
(* The steps of finalize_payout_paid, of the refresh, and a crash. *)

LEMMA FinalizeInv == ASSUME NEW w \in Workers PROVE IInv /\ FinalizeStep(w) => IInv'
<1>. SUFFICES ASSUME IInv, FinalizeStep(w) PROVE IInv'
  OBVIOUS
<1>a. TypeOK /\ TypeOK'
  BY FinalizeType DEF IInv
<1>p. PICK p : p = job[w].payout
  OBVIOUS
<1>b. job[w].step \in ProvingSteps
  BY DEF FinalizeStep, FinalizeRefused, FinalizeDuplicate, FinalizePayoutPaid, PublishProof, PublishAnswered,
         ApplyExistingReversal, ProvingSteps
<1>c. p \in Payouts /\ payout[p] \in PayoutRow /\ payout \in [Payouts -> PayoutRow]
  BY <1>a, <1>b, <1>p, JobFacts DEF ProvingSteps, TypeOK, RowTypeOK
<1>d. PayoutInv(p) /\ payout[p].state \in PaidStates /\ payout[p].state \notin InFlightStates
      /\ payout[p].status = "paid" /\ conversion[p] # "none"
  BY <1>b, <1>c, <1>p DEF IInv, PayoutInv, WorkerInv, StateInv, PaidStates, InFlightStates
<1>1. ASSUME UNCHANGED <<attempts, lastAttempt, wallet, payout, conversion>>,
             EndJob(w) \/ (\E s \in ProvingSteps : GoTo(w, s)) \/ AfterFinalize(w)
      PROVE  IInv'
  <2>1. payout'[p].state \in PaidStates /\ "reapply" \in ProvingSteps
    BY <1>1, <1>d DEF ProvingSteps
  <2>2. PICK j : /\ job' = [job EXCEPT ![w] = j]
                 /\ j.step = "idle" \/ (j.step \in ProvingSteps /\ j.payout = p /\ payout'[p].state \in PaidStates)
    BY <1>1, <1>p, <2>1, EndedJob, MovedJob
  <2>. QED
    BY <1>1, <1>a, <1>c, <2>2, JobOnlyInv
<1>2. ASSUME NEW x, payout' = [payout EXCEPT ![p] = x], x.state \in PaidStates, x.status = "paid",
             UNCHANGED <<attempts, lastAttempt, wallet, conversion>>,
             (\E s \in ProvingSteps : GoTo(w, s)) \/ AfterFinalize(w)
      PROVE  IInv'
  <2>1. payout'[p] = x /\ \A q \in Payouts \ {p} : Same(q)
    BY <1>2, <1>c DEF Same, SameAttempts
  <2>2. SameAttempts(p) /\ StaysPaid(p) /\ conversion'[p] = conversion[p]
    BY <1>2, <2>1 DEF SameAttempts, StaysPaid
  <2>3. x.state \notin InFlightStates /\ x.state # "NONE"
    BY <1>2 DEF PaidStates, InFlightStates
  <2>4. PayoutInv(p)'
    BY <1>2, <1>c, <1>d, <2>1, <2>2, <2>3, RowStep DEF InFlightStates
  <2>5. payout'[p].state \in PaidStates /\ "reapply" \in ProvingSteps
    BY <1>2, <2>1 DEF ProvingSteps
  <2>6. PICK j : /\ job' = [job EXCEPT ![w] = j]
                 /\ j.step = "idle" \/ (j.step \in ProvingSteps /\ j.payout = p /\ payout'[p].state \in PaidStates)
    BY <1>2, <1>p, <2>5, MovedJob
  <2>. QED
    BY <1>a, <1>c, <2>1, <2>2, <2>4, <2>6, RowWorker
<1>3. CASE FinalizeRefused(w)
  BY <1>1, <1>3 DEF FinalizeRefused, rowVars, attemptVars
<1>4. CASE FinalizeDuplicate(w)
  <2>1. "publish" \in ProvingSteps
    BY DEF ProvingSteps
  <2>. QED
    BY <1>1, <1>4, <2>1 DEF FinalizeDuplicate, rowVars, attemptVars
<1>5. CASE FinalizePayoutPaid(w)
  <2>. DEFINE k == IF payout[p].reserved >= payout[p].amount
                   THEN payout[p].reserved - payout[p].amount ELSE payout[p].reserved
              y == SettledRow(payout[p], job[w].hash, job[w].provider)
              x == [y EXCEPT !.event = TRUE,
                      !.reserved = IF payout[p].reserved >= payout[p].amount THEN @ - payout[p].amount ELSE @]
  <2>1. payout' = [payout EXCEPT ![p] = x] /\ UNCHANGED <<attempts, lastAttempt, wallet, conversion>>
    BY <1>5, <1>p DEF FinalizePayoutPaid, SetPayout, attemptVars
  <2>2. job[w].hash \in Hashes /\ job[w].provider \in Providers
    BY <1>a, <1>b, JobFacts DEF ProvingSteps
  <2>3. y \in PayoutRow /\ y.state = "SETTLED" /\ y.status = "paid"
    BY <1>c, <2>2, SettledType, RowFields
  <2>. HIDE DEF y
  <2>4. x.state = "SETTLED" /\ x.status = "paid"
    BY <2>3 DEF PayoutRow
  <2>. HIDE DEF x
  <2>5. x.state \in PaidStates
    BY <2>4 DEF PaidStates
  <2>6. \E s \in ProvingSteps : GoTo(w, s)
    BY <1>5 DEF FinalizePayoutPaid, ProvingSteps
  <2>. QED
    BY <1>2, <2>1, <2>4, <2>5, <2>6
<1>6. CASE PublishProof(w)
  <2>. PICK acked \in RelayAnswers : PublishAnswered(w, acked)
    BY <1>6 DEF PublishProof
  <2>1. UNCHANGED <<attempts, lastAttempt, wallet, conversion>> /\ AfterFinalize(w)
    BY DEF PublishAnswered, attemptVars
  <2>2. PICK s \in {"PUBLISHED", payout[p].state} :
          SetPayout(p, [payout[p] EXCEPT !.state = s, !.relayed = @ \/ acked])
    BY <1>p DEF PublishAnswered
  <2>. DEFINE x == [payout[p] EXCEPT !.state = s, !.relayed = @ \/ acked]
  <2>3. payout' = [payout EXCEPT ![p] = x]
    BY <2>2 DEF SetPayout
  <2>4. x.state \in PaidStates /\ x.status = payout[p].status /\ x.event = payout[p].event
    BY <1>c, <1>d DEF PayoutRow, PaidStates
  <2>. HIDE DEF x
  <2>. QED
    BY <1>2, <1>d, <2>1, <2>3, <2>4
<1>7. CASE ApplyExistingReversal(w)
  <2>1. UNCHANGED <<attempts, lastAttempt, wallet, conversion>> /\ EndJob(w)
    BY <1>7 DEF ApplyExistingReversal, attemptVars
  <2>2. CASE UNCHANGED payout
    BY <1>1, <2>1, <2>2
  <2>3. CASE conversion[p] = "reversed" /\ ApplyReversalToPayout(p)
    <3>1. SameAttempts(p) /\ conversion'[p] = "reversed"
      BY <2>1, <2>3 DEF SameAttempts
    <3>2. /\ PayoutInv(p)' /\ StaysPaid(p)
          /\ \A q \in Payouts \ {p} : payout'[q] = payout[q]
      BY <1>a, <1>c, <1>d, <2>3, <3>1, ReversalStep
    <3>3. \A q \in Payouts \ {p} : Same(q)
      BY <2>1, <3>2 DEF Same, SameAttempts
    <3>4. PICK j : /\ job' = [job EXCEPT ![w] = j]
                   /\ j.step = "idle" \/ (j.step \in ProvingSteps /\ j.payout = p /\ payout'[p].state \in PaidStates)
      BY <2>1, EndedJob
    <3>. QED
      BY <1>a, <1>c, <3>1, <3>2, <3>3, <3>4, RowWorker
  <2>. QED
    BY <1>7, <1>p, <2>2, <2>3 DEF ApplyExistingReversal
<1>. QED
  BY <1>3, <1>4, <1>5, <1>6, <1>7 DEF FinalizeStep

LEMMA RefreshInv == ASSUME NEW w \in Workers PROVE IInv /\ RefreshStep(w) => IInv'
<1>. SUFFICES ASSUME IInv, RefreshStep(w) PROVE IInv'
  OBVIOUS
<1>a. TypeOK /\ TypeOK'
  BY RefreshType DEF IInv
<1>p. PICK p, n : p = job[w].payout /\ n = job[w].attempt
  OBVIOUS
<1>b. job[w].step = "lookup"
  BY DEF RefreshStep, RefreshUnresolved, RefreshFailed, RefreshSettled
<1>c. p \in Payouts /\ n \in AttemptNumbers /\ payout[p] \in PayoutRow /\ attempts[p][n] \in AttemptRow
  BY <1>a, <1>b, <1>p, JobFacts
<1>d. /\ PayoutInv(p) /\ payout \in [Payouts -> PayoutRow] /\ job \in [Workers -> Job]
      /\ attempts \in [Payouts -> [AttemptNumbers -> AttemptRow]]
  BY <1>a, <1>c DEF IInv, PayoutInv, TypeOK, RowTypeOK, JobTypeOK, AttemptTypeOK
<1>1. CASE RefreshUnresolved(w)
  <2>1. EndJob(w) /\ UNCHANGED <<attempts, lastAttempt, wallet, payout, conversion>>
    BY <1>1 DEF RefreshUnresolved, rowVars, attemptVars
  <2>2. PICK j : /\ job' = [job EXCEPT ![w] = j]
                 /\ j.step = "idle" \/ (j.step \in ProvingSteps /\ j.payout = p /\ payout'[p].state \in PaidStates)
    BY <2>1, EndedJob
  <2>. QED
    BY <1>a, <1>c, <2>1, <2>2, JobOnlyInv
<1>2. CASE RefreshFailed(w)
  <2>. DEFINE row == [attempts[p][n] EXCEPT !.status = "FAILED"]
  <2>1. /\ attempts[p][n].status = "UNKNOWN" /\ attempts[p][n].status \in LiveStatuses
        /\ wallet[p][n] = "failed"
    BY <1>2, <1>p DEF RefreshFailed, Refreshable, LiveStatuses
  <2>2. row \in AttemptRow /\ row.status = "FAILED" /\ row.rail = attempts[p][n].rail
    BY <1>c DEF AttemptRow, AttemptStatuses
  <2>3. SetAttempt(p, n, row) /\ EndJob(w) /\ UNCHANGED <<lastAttempt, wallet, conversion>>
    BY <1>2, <1>p DEF RefreshFailed
  <2>3a. SetPayout(p, CancelledRow(payout[p])) \/ SetPayout(p, FailedRow(payout[p]))
    BY <1>2, <1>p DEF RefreshFailed
  <2>. HIDE DEF row
  <2>4. payout[p].status # "paid"
    BY <1>a, <1>c, <1>d, <2>1, LiveIsLast
  <2>5. /\ payout'[p].state \in {"FAILED", "CANCELLED"} /\ payout'[p].status # "paid"
        /\ payout'[p].event = payout[p].event
        /\ \A q \in Payouts \ {p} : payout'[q] = payout[q]
    <3>1. payout \in [Payouts -> PayoutRow] /\ payout[p] \in PayoutRow
      BY <1>c, <1>d
    <3>2. CASE SetPayout(p, CancelledRow(payout[p]))
      BY <1>c, <2>4, <3>1, <3>2, RowFields DEF SetPayout
    <3>3. CASE SetPayout(p, FailedRow(payout[p]))
      BY <1>c, <2>4, <3>1, <3>3, RowFields DEF SetPayout
    <3>. QED
      BY <2>3a, <3>2, <3>3
  <2>6. PayoutInv(p)'
    BY <1>a, <1>c, <1>d, <2>1, <2>2, <2>3, <2>5, ResolvedInv
  <2>7. /\ job'[w].step = "idle" /\ \A v \in Workers \ {w} : job'[v] = job[v]
    BY <1>d, <2>3 DEF EndJob, Idle
  <2>8. \A v \in Workers \ {w} : job'[v] = job[v] /\ (job[v].step # "idle" /\ job[v].payout = p => WorkerInv(v)')
    <3>1. row.status \in {"UNKNOWN", "FAILED", "SETTLED"} /\ UNCHANGED <<lastAttempt, wallet>>
      BY <2>2, <2>3
    <3>. QED
      BY <1>c, <2>1, <2>2, <2>3, <2>7, <3>1, ResolveOthers
  <2>9. WorkerInv(w)' /\ job'[w].step \notin PayingSteps
    BY <2>7 DEF WorkerInv, PayingSteps, ProvingSteps
  <2>10. \A r \in Payouts \ {p} : Same(r)
    BY <1>d, <2>3, <2>5 DEF Same, SameAttempts, SetAttempt
  <2>. QED
    BY <1>a, <1>c, <2>6, <2>8, <2>9, <2>10, PreserveWorker
<1>3. CASE RefreshSettled(w)
  <2>1. /\ attempts[p][n].status = "UNKNOWN" /\ attempts[p][n].status \in LiveStatuses
        /\ wallet[p][n] = "settled" /\ StoreSettledEvidence(p, n, attempts[p][n].ref)
        /\ ToFinalize(w, p, InvoiceHash(p, n), attempts[p][n].rail, TRUE)
        /\ UNCHANGED <<lastAttempt, wallet, conversion>>
    BY <1>3, <1>p DEF RefreshSettled, Refreshable, LiveStatuses
  <2>2. attempts[p][n].ref \in Hashes
    BY <1>c DEF AttemptRow
  <2>. QED
    BY <1>a, <1>c, <2>1, <2>2, SettledEvidenceInv
<1>. QED
  BY <1>1, <1>2, <1>3 DEF RefreshStep

LEMMA CrashInv == ASSUME NEW w \in Workers PROVE IInv /\ Crash(w) => IInv'
<1>. SUFFICES ASSUME IInv, Crash(w) PROVE IInv'
  OBVIOUS
<1>1. TypeOK /\ TypeOK'
  BY CrashType DEF IInv
<1>2. PICK p : p \in Payouts
  BY <1>1 DEF Crash, TypeOK, JobTypeOK
<1>3. EndJob(w) /\ UNCHANGED <<attempts, lastAttempt, wallet, payout, conversion>>
  BY DEF Crash, rowVars, attemptVars
<1>4. PICK j : /\ job' = [job EXCEPT ![w] = j]
               /\ j.step = "idle" \/ (j.step \in ProvingSteps /\ j.payout = p /\ payout'[p].state \in PaidStates)
  BY <1>3, EndedJob
<1>. QED
  BY <1>1, <1>2, <1>3, <1>4, JobOnlyInv

LEMMA NextInv == IInv /\ [Next]_vars => IInv'
<1>. SUFFICES ASSUME IInv, [Next]_vars PROVE IInv'
  OBVIOUS
<1>1. CASE UNCHANGED vars
  <2>1. TypeOK'
    BY <1>1, NextType DEF IInv
  <2>2. \A q \in Payouts : Same(q)
    BY <1>1 DEF vars, rowVars, attemptVars, Same, SameAttempts
  <2>3. \A q \in Payouts : SameAttempts(q) /\ StaysPaid(q) /\ PayoutInv(q)'
    BY <2>2, SameInv DEF IInv, PayoutInv, Same, StaysPaid
  <2>. QED
    BY <1>1, <2>1, <2>3, PreserveRows DEF vars
<1>2. ASSUME NEW w \in Workers, StartHandler(w) \/ HandlerStep(w) \/ RecordException(w) \/ Crash(w)
      PROVE  IInv'
  BY <1>2, StartInv, ExecuteInv, FinalizeInv, RefreshInv, CrashInv DEF HandlerStep
<1>. QED
  BY <1>1, <1>2, AdminInv, WalletInv DEF Next

-----------------------------------------------------------------------------
(* The theorems. *)

\* The database and the wallet agree in every reachable state: which attempt is the
\* latest, what it may still become, and what its payout says of it.
THEOREM Inductive == Spec => []IInv
<1>1. Init => IInv
  BY InitInv
<1>2. IInv /\ [Next]_vars => IInv'
  BY NextInv
<1>. QED
  BY <1>1, <1>2, PTL DEF Spec

LEMMA PaysIsLast ==
    ASSUME IInv, NEW p \in Payouts, NEW n \in AttemptNumbers, Pays(p, n)
    PROVE  /\ n = lastAttempt[p] /\ attempts[p][n].status \in {"PAYING", "UNKNOWN", "SETTLED"}
           /\ payout[p].state \in InFlightStates \cup PaidStates
<1>1. /\ lastAttempt[p] \in 0..MaxAttempts /\ attempts[p][n] \in AttemptRow
      /\ AttemptsInv(p) /\ StateInv(p) /\ n \in Nat /\ n > 0 /\ lastAttempt[p] \in Nat
  BY PayoutAssumption DEF IInv, TypeOK, AttemptTypeOK, AttemptNumbers
<1>2. ~(n > lastAttempt[p])
  BY <1>1 DEF Pays, Sent, Attested, AttemptsInv, NoAttempt
<1>3. ~(n < lastAttempt[p])
  BY <1>1 DEF Pays, Sent, Attested, AttemptsInv
<1>4. n = lastAttempt[p]
  BY <1>1, <1>2, <1>3
<1>5. attempts[p][n].status \in {"PAYING", "UNKNOWN", "SETTLED"}
  BY <1>1, <1>4 DEF Pays, Sent, Attested, AttemptsInv, AttemptRow, AttemptStatuses
<1>. QED
  BY <1>1, <1>4, <1>5 DEF StateInv, LiveStatuses

\* No conversion is ever paid twice, for any number of payouts, workers, attempts, crashes
\* and exceptions, on either rail, with the sandbox route on or off.
THEOREM NeverPaidTwice == Spec => []PaidAtMostOnce
<1>1. IInv => PaidAtMostOnce
  BY PaysIsLast DEF PaidAtMostOnce
<1>. QED
  BY <1>1, Inductive, PTL

\* Money that left is never in a payout that could be retried, held or cancelled.
THEOREM SentIsNeverForgotten == Spec => []SentMoneyIsHeld
<1>1. IInv => SentMoneyIsHeld
  BY PaysIsLast DEF SentMoneyIsHeld, Pays, InFlightStates, PaidStates
<1>. QED
  BY <1>1, Inductive, PTL

\* The partial unique index on live attempts is never what keeps a second one out.
THEOREM AtMostOneLiveAttempt == Spec => []OneLiveAttempt
<1>1. IInv => OneLiveAttempt
  BY LiveIsLast DEF IInv, PayoutInv, OneLiveAttempt
<1>. QED
  BY <1>1, Inductive, PTL

\* The worker at the wallet is the owner of the attempt it is paying.
THEOREM OwnershipIsNeverLost == Spec => []WorkerOwnsItsAttempt
<1>1. IInv => WorkerOwnsItsAttempt
  <2>. SUFFICES ASSUME IInv, NEW w \in Workers, job[w].step \in {"prepare", "send", "await"}
                PROVE  LET p == job[w].payout
                           n == job[w].attempt
                       IN /\ lastAttempt[p] = n
                          /\ attempts[p][n].status = "PAYING"
                          /\ payout[p].state \in {"PAYING", "CANCEL_PENDING"}
                          /\ payout[p].provider = attempts[p][n].rail
    BY DEF WorkerOwnsItsAttempt
  <2>1. job[w].step \in PayingSteps
    BY DEF PayingSteps
  <2>. QED
    BY <2>1, PayingFacts, LiveIsLast DEF InFlightStates, IInv
<1>. QED
  BY <1>1, Inductive, PTL

=============================================================================

-------------------------- MODULE PayoutInvariant ---------------------------
(***************************************************************************)
(* The inductive invariant that ties what the database says of a payout to *)
(* what the wallet did.  It is checked by TLC here and proved to be        *)
(* inductive in PayoutSafetyProofs.                                        *)
(***************************************************************************)
EXTENDS PayoutLedger

PaidStates == {"SETTLED", "PUBLISHED"}
InFlightStates == {"PAYING", "CANCEL_PENDING"}
PayingSteps == {"prepare", "send", "await"}
ProvingSteps == {"finalize", "publish", "reapply"}

\* Attempts are numbered without holes and only the latest one may be unresolved; a
\* failed one did not pay, and a settled one did.
AttemptsInv(p) ==
    \A n \in AttemptNumbers :
        /\ n > lastAttempt[p] => attempts[p][n] = NoAttempt /\ wallet[p][n] = "none"
        /\ n <= lastAttempt[p] => attempts[p][n].status # "NONE"
        /\ n < lastAttempt[p] => attempts[p][n].status = "FAILED"
        /\ attempts[p][n].status = "FAILED" => wallet[p][n] \in {"none", "failed"}
        /\ attempts[p][n].status = "SETTLED" =>
             IF attempts[p][n].rail \in {"manual", "sandbox"}
             THEN wallet[p][n] = "none" ELSE wallet[p][n] = "settled"

\* A payout is in flight exactly while its latest attempt is unresolved, and paid exactly
\* when that attempt is settled.
StateInv(p) ==
    LET n == lastAttempt[p]
        live == n > 0 /\ attempts[p][n].status \in LiveStatuses
        settledAttempt == n > 0 /\ attempts[p][n].status = "SETTLED"
    IN /\ payout[p].state \in InFlightStates <=> live
       /\ payout[p].state \in PaidStates <=> settledAttempt
       /\ live => attempts[p][n].rail = payout[p].provider /\ payout[p].provider = Rail
       /\ payout[p].status = "paid" <=> payout[p].state \in PaidStates
       /\ payout[p].event => payout[p].status = "paid"
       /\ payout[p].state = "CANCEL_PENDING" => conversion[p] = "reversed"
       /\ payout[p].state = "PAYING" => conversion[p] # "reversed"
       /\ conversion[p] = "none" => payout[p].state = "NONE"

\* A worker at the wallet works on the latest, unresolved attempt, and has not sent
\* anything before its send step; a worker that proves a payment has one to prove.
WorkerInv(w) ==
    LET p == job[w].payout
        n == job[w].attempt
    IN /\ job[w].step \in PayingSteps =>
            /\ lastAttempt[p] = n
            /\ attempts[p][n].status = "PAYING"
       /\ job[w].step \in {"prepare", "send"} => wallet[p][n] = "none"
       /\ job[w].step = "lookup" => attempts[p][n].status \in {"UNKNOWN", "FAILED", "SETTLED"}
       /\ job[w].step \in ProvingSteps => payout[p].state \in PaidStates

\* Two workers are never at the wallet for the same payout.
Exclusive(v, w) ==
    job[v].step \in PayingSteps /\ job[w].step \in PayingSteps
        /\ job[v].payout = job[w].payout => v = w

\* One unresolved attempt per payout: the partial unique index on live attempts never
\* has to refuse a claim.
OneLiveAttempt ==
    \A p \in Payouts : \A m, n \in AttemptNumbers :
        attempts[p][m].status \in LiveStatuses /\ attempts[p][n].status \in LiveStatuses => m = n

\* The database and the wallet agree: the inductive strengthening of PaidAtMostOnce,
\* SentMoneyIsHeld, OneLiveAttempt and WorkerOwnsItsAttempt.
IInv ==
    /\ TypeOK
    /\ \A p \in Payouts : AttemptsInv(p) /\ StateInv(p)
    /\ \A w \in Workers : WorkerInv(w)
    /\ \A v, w \in Workers : Exclusive(v, w)

-----------------------------------------------------------------------------
(* The second inductive invariant: the money of a payout in the campaign's *)
(* ledger, and the evidence of its payment.  PayoutEvidenceProofs proves   *)
(* it from the first.                                                      *)

Released(p) ==
    ledger[p]["reversal_release"] + ledger[p]["reversal_fee_release"]
    + ledger[p]["inflight_reversal_release"] + ledger[p]["provider_reconciled_reversal_release"]

\* Until it is paid or cancelled a payout holds all it reserved or has reserved nothing, it
\* settles its commission with its proof and never before, and it releases what it holds at
\* once.
LedgerInv(p) ==
    LET r == payout[p]
        reserve == ledger[p]["reserve"]
        commission == ledger[p]["commission_settled"]
    IN /\ reserve = commission + Released(p) + r.reserved
       /\ r.state \in {"NONE", "ON_HOLD"} => reserve = 0
       /\ r.state \in {"PAYABLE", "FAILED"} \cup InFlightStates =>
            r.reserved = Obligation(p) /\ reserve = Obligation(p)
       /\ Released(p) > 0 => r.reserved = 0
       /\ ~r.event => commission = 0
       /\ r.state \in PaidStates /\ conversion[p] # "reversed" =>
            IF r.event THEN commission = r.amount /\ r.reserved = r.fee
                       ELSE r.reserved = Obligation(p)

\* An unresolved attempt knows no hash but its invoice's, and over NWC it knows it before
\* money leaves; the hash of a payment is the payout's from the time it is settled.
EvidenceInv(p) ==
    /\ payout[p].state = "NONE" => conversion[p] = "none"
    /\ payout[p].state = "PUBLISHED" => payout[p].event
    /\ payout[p].state \in InFlightStates => p \in ready
    /\ \A n \in AttemptNumbers :
         attempts[p][n].status \in LiveStatuses =>
           /\ attempts[p][n].hash \in {NoHash, InvoiceHash(p, n)}
           /\ attempts[p][n].rail = "nwc" /\ attempts[p][n].hash = NoHash => wallet[p][n] = "none"
    /\ ~SandboxEnabled /\ payout[p].state \in PaidStates =>
         attempts[p][lastAttempt[p]].hash = payout[p].hash

\* A handler claims a payout past its return window, sends over NWC what it has prepared,
\* and proves a payment by the payout's hash.
HandlerInv(w) ==
    LET p == job[w].payout
        n == job[w].attempt
    IN /\ job[w].step = "claim" => p \in ready
       /\ job[w].step = "send" /\ Rail = "nwc" => attempts[p][n].hash = InvoiceHash(p, n)
       /\ ~SandboxEnabled /\ job[w].step = "finalize" => job[w].hash = payout[p].hash

EInv ==
    /\ IInv
    /\ \A p \in Payouts : LedgerInv(p) /\ EvidenceInv(p)
    /\ \A w \in Workers : HandlerInv(w)

=============================================================================

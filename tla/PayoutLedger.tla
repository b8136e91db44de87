---------------------------- MODULE PayoutLedger ----------------------------
(***************************************************************************)
(* Conversions, payouts, payment attempts and the handlers that move them  *)
(* (app/main.py), for one campaign.  A handler that calls a payment        *)
(* provider or a relay is not one transaction: it reads, commits, waits    *)
(* for the network and commits again, and other handlers run in between.   *)
(* Each such handler is a worker whose job remembers where it is; every    *)
(* action below is one database transaction (or one read) of the code.     *)
(*                                                                         *)
(* The wallet is the external Lightning provider: what really happened to  *)
(* the money of an attempt, whatever the database believes.  A request to  *)
(* pay over NWC travels through the SDK and a relay and is queued until    *)
(* the wallet takes it, late or never; the sender is told the same.        *)
(***************************************************************************)
EXTENDS CampaignBudget, FiniteSetsExt

CONSTANTS
    Workers,        \* request threads executing payout handlers
    Commissions,    \* commission amounts a conversion may produce, in sats
    FeeBps,         \* MEERAT_FEE_BPS
    FeeMinSats,     \* FEE_MIN_SATS
    Rail,           \* PAYMENT_RAIL: "nwc" or "fake"
    SandboxEnabled, \* SANDBOX_PAYOUT_MARK_PAID_ENABLED
    RelayAnswers,   \* whether some relay acknowledges a proof: TRUE, FALSE or either
    ManualHashes,   \* payment hashes a merchant or a sandbox operator submits
    MaxAttempts,    \* bound on payment attempts per payout
    MaxFaults,      \* bound on worker crashes and unexpected exceptions
    NoHash,         \* SQL NULL in a payment_hash or provider_reference column
    None            \* SQL NULL elsewhere, and the payout of an idle worker

ASSUME PayoutAssumption ==
    /\ Commissions \subseteq Nat
    /\ FeeBps \in 0..10000
    /\ FeeMinSats \in Nat
    /\ Rail \in {"nwc", "fake"}
    /\ SandboxEnabled \in BOOLEAN
    /\ RelayAnswers \subseteq BOOLEAN /\ RelayAnswers # {}
    /\ MaxAttempts \in Nat \ {0}
    /\ MaxFaults \in Nat
    /\ None \notin Payouts
    /\ NoHash \notin (Payouts \X (1..MaxAttempts)) \cup ManualHashes

VARIABLES
    campaignStatus, \* campaigns.status
    conversion,     \* conversions.status of the payout's conversion, "none" before it exists
    ready,          \* payouts past their return window with a payable destination
    payout,         \* payouts rows
    attempts,       \* payment_attempts rows by payout and attempt number
    lastAttempt,    \* COUNT(*) of a payout's payment_attempts
    wallet,         \* what the provider really did with each attempt
    job,            \* the handler each worker is executing
    faults          \* crashes and unexpected exceptions so far

rowVars == <<campaignStatus, conversion, ready, payout>>
attemptVars == <<attempts, lastAttempt>>
vars == <<budgetVars, rowVars, attemptVars, wallet, job, faults>>

-----------------------------------------------------------------------------
AttemptNumbers == 1..MaxAttempts

\* The hash of the invoice prepared for an attempt: invoices are never reused.
InvoiceHash(p, n) == <<p, n>>

Hashes == (Payouts \X AttemptNumbers) \cup ManualHashes \cup {NoHash}

PayoutStates == {"NONE", "PAYABLE", "PAYING", "SETTLED", "PUBLISHED", "FAILED",
                 "ON_HOLD", "CANCEL_PENDING", "CANCELLED"}
PayoutStatuses == {"none", "pending", "processing", "payment_unknown", "paid",
                   "failed", "on_hold", "reversed"}
Providers == {None, "nwc", "fake", "manual", "sandbox"}
AttemptStatuses == {"NONE", "PAYING", "UNKNOWN", "FAILED", "SETTLED"}
LiveStatuses == {"PAYING", "UNKNOWN"}
WalletStates == {"none", "queued", "inflight", "settled", "failed"}

\* event and relayed: the signed proof in nostr_events, and its relay_status 'published'.
PayoutRow == [state : PayoutStates, status : PayoutStatuses, amount : Nat, fee : Nat,
              feeState : {"FEE_PENDING", "CANCELLED"}, reserved : Nat,
              hash : Hashes, provider : Providers, event : BOOLEAN, relayed : BOOLEAN]
AttemptRow == [status : AttemptStatuses, rail : Providers, hash : Hashes, ref : Hashes]

Steps == {"idle", "claim", "prepare", "send", "await", "lookup",
          "finalize", "publish", "reapply"}
Job == [step : Steps, payout : Payouts \cup {None}, attempt : 0..MaxAttempts,
        hash : Hashes, provider : Providers, reapply : BOOLEAN]

NoPayout == [state |-> "NONE", status |-> "none", amount |-> 0, fee |-> 0,
             feeState |-> "FEE_PENDING", reserved |-> 0, hash |-> NoHash,
             provider |-> None, event |-> FALSE, relayed |-> FALSE]
NoAttempt == [status |-> "NONE", rail |-> None, hash |-> NoHash, ref |-> NoHash]
Idle == [step |-> "idle", payout |-> None, attempt |-> 0, hash |-> NoHash,
         provider |-> None, reapply |-> FALSE]

RowTypeOK ==
    /\ campaignStatus \in {"active", "paused"}
    /\ conversion \in [Payouts -> {"none", "approved", "reversed"}]
    /\ ready \subseteq Payouts
    /\ payout \in [Payouts -> PayoutRow]

AttemptTypeOK ==
    /\ attempts \in [Payouts -> [AttemptNumbers -> AttemptRow]]
    /\ lastAttempt \in [Payouts -> 0..MaxAttempts]
    /\ wallet \in [Payouts -> [AttemptNumbers -> WalletStates]]

\* A job that names an attempt names a payout too.
JobTypeOK ==
    /\ job \in [Workers -> Job]
    /\ \A w \in Workers :
         /\ job[w].step # "idle" => job[w].payout \in Payouts
         /\ job[w].step \in {"prepare", "send", "await", "lookup"} => job[w].attempt > 0
    /\ faults \in 0..MaxFaults

TypeOK == BudgetTypeOK /\ RowTypeOK /\ AttemptTypeOK /\ JobTypeOK

Init ==
    /\ BudgetInit
    /\ campaignStatus = "active"
    /\ conversion = [p \in Payouts |-> "none"]
    /\ ready = {}
    /\ payout = [p \in Payouts |-> NoPayout]
    /\ attempts = [p \in Payouts |-> [n \in AttemptNumbers |-> NoAttempt]]
    /\ lastAttempt = [p \in Payouts |-> 0]
    /\ wallet = [p \in Payouts |-> [n \in AttemptNumbers |-> "none"]]
    /\ job = [w \in Workers |-> Idle]
    /\ faults = 0

-----------------------------------------------------------------------------
(* Helpers shared by the handlers. *)

LargerOf(a, b) == IF a > b THEN a ELSE b

CalculateFeeSats(commission) ==
    IF commission = 0 \/ FeeBps = 0 THEN 0
    ELSE LargerOf((commission * FeeBps) \div 10000, FeeMinSats)

Obligation(p) == payout[p].amount + payout[p].fee

FullyReserved(p) == payout[p].reserved >= Obligation(p)

\* payouts.payment_hash or payment_attempts.payment_hash of another payout.
HashUsedElsewhere(p, h) ==
    \E q \in Payouts \ {p} :
        \/ payout[q].hash = h
        \/ \E n \in AttemptNumbers : attempts[q][n].hash = h

EndJob(w) == job' = [job EXCEPT ![w] = Idle]
GoTo(w, s) == job' = [job EXCEPT ![w].step = s]
StartJob(w, s, p) == job' = [job EXCEPT ![w] = [Idle EXCEPT !.step = s, !.payout = p]]

\* Hand the job to finalize_payout_paid, with the evidence the caller passes.
MForgetsToFinalize(w, p, h, provider, reapply) == EndJob(w)

ToFinalize(w, p, h, provider, reapply) ==
    job' = [job EXCEPT ![w] = [Idle EXCEPT !.step = "finalize", !.payout = p, !.hash = h,
                                           !.provider = provider, !.reapply = reapply]]

\* What the UPDATE statements do to a payout row.
PayableRow(r) == [r EXCEPT !.status = "pending", !.state = "PAYABLE", !.reserved = r.amount + r.fee]
HeldRow(r) == [r EXCEPT !.status = "on_hold", !.state = "ON_HOLD"]
CancelledRow(r) == [r EXCEPT !.status = "reversed", !.state = "CANCELLED",
                             !.feeState = "CANCELLED", !.reserved = 0]
ClaimedRow(r) == [r EXCEPT !.status = "processing", !.state = "PAYING", !.provider = Rail]
FailedRow(r) == [r EXCEPT !.status = "failed", !.state = "FAILED"]
SettledRow(r, h, provider) == [r EXCEPT !.status = "paid", !.state = "SETTLED",
                                        !.hash = h, !.provider = provider]

SetPayout(p, row) == payout' = [payout EXCEPT ![p] = row]
SetAttempt(p, n, row) == attempts' = [attempts EXCEPT ![p][n] = row]

-----------------------------------------------------------------------------
(* Conversions, campaign budget and holds. *)

\* _create_conversion: the conversion, its payout and the reservation commit
\* together; a refused reservation puts the payout on hold and pauses the campaign.
CreateConversion(p) ==
    /\ conversion[p] = "none"
    /\ campaignStatus = "active"
    /\ conversion' = [conversion EXCEPT ![p] = "approved"]
    /\ \E ended \in BOOLEAN : ready' = IF ended THEN ready \cup {p} ELSE ready
    /\ \E c \in Commissions :
         LET fee == CalculateFeeSats(c)
             row == [NoPayout EXCEPT !.amount = c, !.fee = fee]
         IN \/ /\ ReserveCampaignBudget(p, c + fee)
               /\ SetPayout(p, PayableRow(row))
               /\ UNCHANGED campaignStatus
            \/ /\ ~CanReserve(p, c + fee)
               /\ SetPayout(p, HeldRow(row))
               /\ campaignStatus' = "paused"
               /\ UNCHANGED budgetVars
    /\ UNCHANGED <<attemptVars, wallet, job, faults>>

\* The return window of a payout ends and its affiliate has a Lightning Address.
BecomeReady(p) ==
    /\ payout[p].state # "NONE" /\ p \notin ready
    /\ ready' = ready \cup {p}
    /\ UNCHANGED <<budgetVars, campaignStatus, conversion, payout, attemptVars, wallet, job, faults>>

UpdateCampaignBudget(b) ==
    /\ SetCampaignBudget(b)
    /\ UNCHANGED <<rowVars, attemptVars, wallet, job, faults>>

UpdateCampaignStatus(s) ==
    /\ campaignStatus # s
    /\ campaignStatus' = s
    /\ UNCHANGED <<budgetVars, conversion, ready, payout, attemptVars, wallet, job, faults>>

MReleaseHoldWithoutReserve(p) ==
    /\ payout[p].state = "ON_HOLD"
    /\ conversion[p] # "reversed"
    /\ SetPayout(p, PayableRow(payout[p]))
    /\ UNCHANGED <<budgetVars, campaignStatus, conversion, ready, attemptVars, wallet, job, faults>>

\* release_payout_hold: a hold is lifted only together with the full reservation.
ReleasePayoutHold(p) ==
    /\ payout[p].state = "ON_HOLD"
    /\ conversion[p] # "reversed"
    /\ ReserveCampaignBudget(p, Obligation(p))
    /\ SetPayout(p, PayableRow(payout[p]))
    /\ UNCHANGED <<campaignStatus, conversion, ready, attemptVars, wallet, job, faults>>

\* The backfill statements of _init_db_unlocked that touch live rows; every request
\* runs them first, in a transaction of their own.
UnreservedWithoutLedger(p) ==
    /\ payout[p].state \in {"PAYABLE", "FAILED"}
    /\ payout[p].status \in {"pending", "failed"}
    /\ payout[p].reserved = 0
    /\ ~HasEntry(p, "reserve")

HoldUnreservedPayouts ==
    /\ \E p \in Payouts : UnreservedWithoutLedger(p)
    /\ payout' = [p \in Payouts |->
                    IF UnreservedWithoutLedger(p)
                    THEN HeldRow(payout[p]) ELSE payout[p]]
    /\ UNCHANGED <<budgetVars, campaignStatus, conversion, ready, attemptVars, wallet, job, faults>>

-----------------------------------------------------------------------------
(* Reversal. *)

\* apply_reversal_to_payout, inside the caller's transaction.
MCancelUnpaidOrPaid(p) ==
    /\ payout[p].state \in {"PAYABLE", "FAILED", "ON_HOLD", "SETTLED"}
    /\ ReleaseCampaignBudget(p, payout[p].reserved, "reversal_release")
    /\ SetPayout(p, CancelledRow(payout[p]))

CancelUnpaid(p) ==
    /\ payout[p].state \in {"PAYABLE", "FAILED", "ON_HOLD"}
    /\ ReleaseCampaignBudget(p, payout[p].reserved, "reversal_release")
    /\ SetPayout(p, CancelledRow(payout[p]))

MCancelInFlightNow(p) ==
    /\ payout[p].state = "PAYING"
    /\ ReleaseCampaignBudget(p, payout[p].reserved, "reversal_release")
    /\ SetPayout(p, CancelledRow(payout[p]))

CancelInFlight(p) ==
    /\ payout[p].state = "PAYING"
    /\ SetPayout(p, [payout[p] EXCEPT !.state = "CANCEL_PENDING", !.feeState = "CANCELLED"])
    /\ UNCHANGED budgetVars

CancelFee(p) ==
    /\ payout[p].state \in {"SETTLED", "PUBLISHED"}
    /\ payout[p].reserved > 0
    /\ ReleaseCampaignBudget(p, payout[p].reserved, "reversal_fee_release")
    /\ SetPayout(p, [payout[p] EXCEPT !.feeState = "CANCELLED", !.reserved = 0])

NothingToReverse(p) ==
    /\ \/ payout[p].state \in {"NONE", "CANCEL_PENDING", "CANCELLED"}
       \/ payout[p].state \in {"SETTLED", "PUBLISHED"} /\ payout[p].reserved = 0
    /\ UNCHANGED <<budgetVars, payout>>

ApplyReversalToPayout(p) ==
    CancelUnpaid(p) \/ CancelInFlight(p) \/ CancelFee(p) \/ NothingToReverse(p)

\* reverse_conversion; a repeated call applies the reversal to the payout again.
ReverseConversion(p) ==
    /\ conversion[p] # "none"
    /\ conversion' = [conversion EXCEPT ![p] = "reversed"]
    /\ ApplyReversalToPayout(p)
    /\ UNCHANGED <<campaignStatus, ready, attemptVars, wallet, job, faults>>

-----------------------------------------------------------------------------
(* execute_payout. *)

\* The guards read on a first connection: nothing is locked until ClaimPayout.
StartExecute(w, p) ==
    /\ job[w].step = "idle"
    /\ conversion[p] = "approved"
    /\ payout[p].status \notin {"paid", "processing", "payment_unknown"}
    /\ payout[p].state \notin {"PAYING", "SETTLED", "ON_HOLD", "CANCEL_PENDING", "CANCELLED"}
    /\ FullyReserved(p)
    /\ p \in ready
    /\ StartJob(w, "claim", p)
    /\ UNCHANGED <<budgetVars, rowVars, attemptVars, wallet, faults>>

\* A paid payout whose proof was never built: publish the proof, never pay again.
RetryProof(w, p) ==
    /\ job[w].step = "idle"
    /\ conversion[p] = "approved"
    /\ payout[p].status = "paid" /\ ~payout[p].event
    /\ ToFinalize(w, p, payout[p].hash, payout[p].provider, FALSE)
    /\ UNCHANGED <<budgetVars, rowVars, attemptVars, wallet, faults>>

MClaimableOnReadState(p) ==
    /\ payout[p].state \in {"PAYABLE", "FAILED", "PAYING"}
    /\ FullyReserved(p)
    /\ conversion[p] # "reversed"

Claimable(p) ==
    /\ payout[p].state \in {"PAYABLE", "FAILED"}
    /\ FullyReserved(p)
    /\ conversion[p] # "reversed"

\* The conditional UPDATE of the payout and the attempt row commit together.
ClaimPayout(w) ==
    LET p == job[w].payout
        n == lastAttempt[p] + 1
    IN /\ job[w].step = "claim"
       /\ Claimable(p)
       /\ n <= MaxAttempts
       /\ SetPayout(p, ClaimedRow(payout[p]))
       /\ SetAttempt(p, n, [NoAttempt EXCEPT !.status = "PAYING", !.rail = Rail])
       /\ lastAttempt' = [lastAttempt EXCEPT ![p] = n]
       /\ job' = [job EXCEPT ![w] = [@ EXCEPT !.attempt = n,
                                 !.step = IF Rail = "nwc" THEN "prepare" ELSE "send"]]
       /\ UNCHANGED <<budgetVars, campaignStatus, conversion, ready, wallet, faults>>

ClaimRefused(w) ==
    /\ job[w].step = "claim"
    /\ ~Claimable(job[w].payout) \/ lastAttempt[job[w].payout] = MaxAttempts
    /\ EndJob(w)
    /\ UNCHANGED <<budgetVars, rowVars, attemptVars, wallet, faults>>

MSkipEvidence(w) ==
    /\ job[w].step = "prepare"
    /\ GoTo(w, "send")
    /\ UNCHANGED <<budgetVars, rowVars, attemptVars, wallet, faults>>

\* record_prepared_evidence: the invoice hash is durable before the wallet is asked
\* to pay, and only if the attempt still owns a reserved, unreversed payout.
RecordPreparedEvidence(w) ==
    LET p == job[w].payout
        n == job[w].attempt
    IN /\ job[w].step = "prepare"
       /\ lastAttempt[p] = n
       /\ attempts[p][n].status = "PAYING"
       /\ payout[p].state = "PAYING" /\ payout[p].status = "processing"
       /\ payout[p].provider = "nwc" /\ FullyReserved(p)
       /\ conversion[p] # "reversed"
       /\ SetAttempt(p, n, [attempts[p][n] EXCEPT !.hash = InvoiceHash(p, n)])
       /\ SetPayout(p, [payout[p] EXCEPT !.hash = InvoiceHash(p, n)])
       /\ GoTo(w, "send")
       /\ UNCHANGED <<budgetVars, campaignStatus, conversion, ready, lastAttempt, wallet, faults>>

\* The request to pay is handed on: to the SDK over NWC, to the fake provider in the same
\* process; what becomes of it is up to the relay and the wallet.
SendPayment(w) ==
    /\ job[w].step = "send"
    /\ wallet' = [wallet EXCEPT ![job[w].payout][job[w].attempt] =
                      IF Rail = "nwc" THEN "queued" ELSE "inflight"]
    /\ GoTo(w, "await")
    /\ UNCHANGED <<budgetVars, rowVars, attemptVars, faults>>

\* The request arrives at the wallet, which may be long after its sender gave up.
WalletTakes(p, n) ==
    /\ wallet[p][n] = "queued"
    /\ wallet' = [wallet EXCEPT ![p][n] = "inflight"]
    /\ UNCHANGED <<budgetVars, rowVars, attemptVars, job, faults>>

WalletSettles(p, n) ==
    /\ wallet[p][n] = "inflight"
    /\ wallet' = [wallet EXCEPT ![p][n] = "settled"]
    /\ UNCHANGED <<budgetVars, rowVars, attemptVars, job, faults>>

WalletFails(p, n) ==
    /\ wallet[p][n] = "inflight"
    /\ wallet' = [wallet EXCEPT ![p][n] = "failed"]
    /\ UNCHANGED <<budgetVars, rowVars, attemptVars, job, faults>>

\* UPDATE payouts SET status='payment_unknown' ... WHERE state='PAYING', with
\* COALESCE(:payment_hash, payment_hash).
MarkPayoutUnknown(p, h) ==
    IF payout[p].state # "PAYING" THEN UNCHANGED payout
    ELSE SetPayout(p, [payout[p] EXCEPT !.status = "payment_unknown",
                                        !.hash = IF h = NoHash THEN @ ELSE h])

\* The attempt row an unresolved call leaves behind, with its evidence.
MarkAttemptUnknown(p, n, h, ref) ==
    IF attempts[p][n].status # "PAYING" THEN UNCHANGED attempts
    ELSE SetAttempt(p, n, [attempts[p][n] EXCEPT !.status = "UNKNOWN", !.hash = h, !.ref = ref])

\* PaymentRailAmbiguousError: the request may not have reached the NWC wallet, and if it
\* did the wallet may or may not have paid.
RecordAmbiguous(w) ==
    LET p == job[w].payout
        n == job[w].attempt
    IN /\ job[w].step = "await" /\ Rail = "nwc"
       /\ MarkAttemptUnknown(p, n, InvoiceHash(p, n), InvoiceHash(p, n))
       /\ MarkPayoutUnknown(p, InvoiceHash(p, n))
       /\ EndJob(w)
       /\ UNCHANGED <<budgetVars, campaignStatus, conversion, ready, lastAttempt, wallet, faults>>

\* Any other exception out of the rail, before or after the money was sent: the
\* evidence already on the attempt is kept and none is added.
RecordException(w) ==
    LET p == job[w].payout
        n == job[w].attempt
    IN /\ job[w].step \in {"prepare", "send", "await"}
       /\ faults < MaxFaults
       /\ MarkAttemptUnknown(p, n, attempts[p][n].hash, attempts[p][n].ref)
       /\ MarkPayoutUnknown(p, NoHash)
       /\ EndJob(w)
       /\ faults' = faults + 1
       /\ UNCHANGED <<budgetVars, campaignStatus, conversion, ready, lastAttempt, wallet>>

\* PaymentStatus.PENDING, with whatever evidence the rail could give.
RecordPending(w) ==
    LET p == job[w].payout
        n == job[w].attempt
    IN /\ job[w].step = "await" /\ Rail = "fake"
       /\ \E h, ref \in {NoHash, InvoiceHash(p, n)} :
            /\ MarkAttemptUnknown(p, n, h, ref)
            /\ MarkPayoutUnknown(p, h)
       /\ EndJob(w)
       /\ UNCHANGED <<budgetVars, campaignStatus, conversion, ready, lastAttempt, wallet, faults>>

MFailureAlsoWhenSent(w) == job[w].step \in {"prepare", "send", "await"}

\* PaymentStatus.FAILURE is returned before the payment leaves: LNURL preparation
\* failed, record_prepared_evidence refused, the client is not configured or the
\* request was invalid.
FailsBeforeSending(w) == job[w].step \in {"prepare", "send"}

RecordFailure(w) ==
    LET p == job[w].payout
        n == job[w].attempt
    IN /\ FailsBeforeSending(w)
       /\ IF attempts[p][n].status # "PAYING" THEN UNCHANGED attempts
          ELSE SetAttempt(p, n, [attempts[p][n] EXCEPT !.status = "FAILED"])
       /\ IF payout[p].state = "CANCEL_PENDING" /\ conversion[p] = "reversed"
          THEN /\ ReleaseCampaignBudget(p, payout[p].reserved, "inflight_reversal_release")
               /\ SetPayout(p, CancelledRow(payout[p]))
          ELSE /\ IF payout[p].state # "PAYING" THEN UNCHANGED payout
                  ELSE SetPayout(p, FailedRow(payout[p]))
               /\ UNCHANGED budgetVars
       /\ EndJob(w)
       /\ UNCHANGED <<campaignStatus, conversion, ready, lastAttempt, wallet, faults>>

\* SUCCESS without a valid hash.  The 409 of a payout that left PAYING rolls back
\* both updates and leaves the attempt PAYING.
RecordMismatch(w) ==
    LET p == job[w].payout
        n == job[w].attempt
    IN /\ job[w].step = "await" /\ Rail = "fake"
       /\ wallet[p][n] = "settled"
       /\ \/ /\ attempts[p][n].status = "PAYING"
             /\ payout[p].state = "PAYING" /\ payout[p].provider = Rail
             /\ MarkAttemptUnknown(p, n, attempts[p][n].hash, attempts[p][n].ref)
             /\ MarkPayoutUnknown(p, NoHash)
          \/ /\ attempts[p][n].status # "PAYING"
                  \/ payout[p].state # "PAYING" \/ payout[p].provider # Rail
             /\ UNCHANGED <<attempts, payout>>
       /\ EndJob(w)
       /\ UNCHANGED <<budgetVars, campaignStatus, conversion, ready, lastAttempt, wallet, faults>>

\* SETTLED evidence of attempt n: attempt and payout commit together, before any
\* proof is built.
StoreSettledEvidence(p, n, ref) ==
    /\ payout[p].state \in {"PAYING", "CANCEL_PENDING"}
    /\ payout[p].provider = attempts[p][n].rail
    /\ SetAttempt(p, n, [attempts[p][n] EXCEPT !.status = "SETTLED",
                                               !.hash = InvoiceHash(p, n), !.ref = ref])
    /\ SetPayout(p, SettledRow(payout[p], InvoiceHash(p, n), payout[p].provider))

MSucceedsUnconfirmed(w) ==
    LET p == job[w].payout
        n == job[w].attempt
    IN /\ job[w].step = "await"
       /\ attempts[p][n].status = "PAYING"
       /\ StoreSettledEvidence(p, n, InvoiceHash(p, n))
       /\ ToFinalize(w, p, InvoiceHash(p, n), Rail, TRUE)
       /\ UNCHANGED <<budgetVars, campaignStatus, conversion, ready, lastAttempt, wallet, faults>>

RecordSuccess(w) ==
    LET p == job[w].payout
        n == job[w].attempt
    IN /\ job[w].step = "await"
       /\ wallet[p][n] = "settled"
       /\ attempts[p][n].status = "PAYING"
       /\ StoreSettledEvidence(p, n, InvoiceHash(p, n))
       /\ ToFinalize(w, p, InvoiceHash(p, n), Rail, TRUE)
       /\ UNCHANGED <<budgetVars, campaignStatus, conversion, ready, lastAttempt, wallet, faults>>

-----------------------------------------------------------------------------
(* finalize_payout_paid, and apply_existing_reversal_for_payout after it. *)

\* After finalize returns, execute and refresh re-apply a reversal that arrived
\* meanwhile; reconcile does so only if it had already seen it.
AfterFinalize(w) ==
    job' = [job EXCEPT ![w] = IF @.reapply THEN [@ EXCEPT !.step = "reapply"] ELSE Idle]

HasProof(p) == payout[p].status = "paid" /\ payout[p].event

FinalizeRefused(w) ==
    LET p == job[w].payout
    IN /\ job[w].step = "finalize"
       /\ \/ HashUsedElsewhere(p, job[w].hash)
          \/ HasProof(p) /\ payout[p].hash # job[w].hash
       /\ EndJob(w)
       /\ UNCHANGED <<budgetVars, rowVars, attemptVars, wallet, faults>>

FinalizeDuplicate(w) ==
    LET p == job[w].payout
    IN /\ job[w].step = "finalize"
       /\ ~HashUsedElsewhere(p, job[w].hash)
       /\ HasProof(p) /\ payout[p].hash = job[w].hash
       /\ IF payout[p].state = "PUBLISHED" THEN AfterFinalize(w) ELSE GoTo(w, "publish")
       /\ UNCHANGED <<budgetVars, rowVars, attemptVars, wallet, faults>>

MFinalizeBeforeHashCheck(w) ==
    LET p == job[w].payout
    IN /\ job[w].step = "finalize"
       /\ ~HasProof(p)
       /\ IF payout[p].reserved >= payout[p].amount
          THEN SettleCampaignBudget(p, payout[p].amount)
          ELSE UNCHANGED budgetVars
       /\ SetPayout(p, [SettledRow(payout[p], job[w].hash, job[w].provider) EXCEPT !.event = TRUE,
                        !.reserved = IF @ >= payout[p].amount THEN @ - payout[p].amount ELSE @])
       /\ GoTo(w, "publish")
       /\ UNCHANGED <<campaignStatus, conversion, ready, attemptVars, wallet, faults>>

MFinalizeKeepsReservation(w) ==
    LET p == job[w].payout
    IN /\ job[w].step = "finalize"
       /\ ~HashUsedElsewhere(p, job[w].hash)
       /\ ~HasProof(p)
       /\ IF payout[p].reserved >= payout[p].amount
          THEN SettleCampaignBudget(p, payout[p].amount)
          ELSE UNCHANGED budgetVars
       /\ SetPayout(p, [SettledRow(payout[p], job[w].hash, job[w].provider) EXCEPT !.event = TRUE])
       /\ GoTo(w, "publish")
       /\ UNCHANGED <<campaignStatus, conversion, ready, attemptVars, wallet, faults>>

\* The commission leaves the reservation and the signed proof becomes durable in
\* one transaction, before any relay is contacted.
FinalizePayoutPaid(w) ==
    LET p == job[w].payout
        covered == payout[p].reserved >= payout[p].amount
    IN /\ job[w].step = "finalize"
       /\ ~HashUsedElsewhere(p, job[w].hash)
       /\ ~HasProof(p)
       /\ IF covered THEN SettleCampaignBudget(p, payout[p].amount) ELSE UNCHANGED budgetVars
       /\ SetPayout(p, [SettledRow(payout[p], job[w].hash, job[w].provider) EXCEPT !.event = TRUE,
                        !.reserved = IF covered THEN @ - payout[p].amount ELSE @])
       /\ GoTo(w, "publish")
       /\ UNCHANGED <<campaignStatus, conversion, ready, attemptVars, wallet, faults>>

\* publish_event, then the second transaction: whether any relay acknowledged the proof
\* goes to nostr_events, where an earlier acknowledgement stays, and the payout becomes
\* PUBLISHED (its UPDATE is conditional) whatever the relays answered.
PublishAnswered(w, acked) ==
    LET p == job[w].payout
        matches == /\ payout[p].state = "SETTLED" /\ payout[p].status = "paid"
                   /\ payout[p].event /\ payout[p].hash = job[w].hash
    IN /\ job[w].step = "publish"
       /\ SetPayout(p, [payout[p] EXCEPT !.state = IF matches THEN "PUBLISHED" ELSE @,
                                         !.relayed = @ \/ acked])
       /\ AfterFinalize(w)
       /\ UNCHANGED <<budgetVars, campaignStatus, conversion, ready, attemptVars, wallet, faults>>

PublishProof(w) == \E acked \in RelayAnswers : PublishAnswered(w, acked)

ApplyExistingReversal(w) ==
    LET p == job[w].payout
    IN /\ job[w].step = "reapply"
       /\ \/ conversion[p] = "reversed" /\ ApplyReversalToPayout(p)
          \/ conversion[p] # "reversed" /\ UNCHANGED <<budgetVars, payout>>
       /\ EndJob(w)
       /\ UNCHANGED <<campaignStatus, conversion, ready, attemptVars, wallet, faults>>

-----------------------------------------------------------------------------
(* refresh_payment_attempt and reconcile_payment_attempt. *)

\* An UNKNOWN attempt is looked up by its provider reference; an NWC attempt
\* without one borrows its prepared hash, and the reference is stored first.
Reference(p, n) ==
    IF attempts[p][n].ref = NoHash /\ attempts[p][n].rail = "nwc"
    THEN attempts[p][n].hash ELSE attempts[p][n].ref

StartRefresh(w, p, n) ==
    /\ job[w].step = "idle"
    /\ attempts[p][n].status = "UNKNOWN"
    /\ attempts[p][n].rail = Rail
    /\ Reference(p, n) # NoHash
    /\ SetAttempt(p, n, [attempts[p][n] EXCEPT !.ref = Reference(p, n)])
    /\ job' = [job EXCEPT ![w] = [Idle EXCEPT !.step = "lookup", !.payout = p, !.attempt = n]]
    /\ UNCHANGED <<budgetVars, rowVars, lastAttempt, wallet, faults>>

\* _apply_provider_refresh_result re-reads both rows under lock.
MRefreshableIfPaying(p, n) ==
    /\ attempts[p][n].status = "UNKNOWN"
    /\ lastAttempt[p] = n
    /\ payout[p].provider = attempts[p][n].rail
    /\ payout[p].state = "PAYING"

Refreshable(p, n) ==
    /\ attempts[p][n].status = "UNKNOWN"
    /\ lastAttempt[p] = n
    /\ payout[p].provider = attempts[p][n].rail
    /\ payout[p].state \in {"PAYING", "CANCEL_PENDING"}

\* PENDING, or unknown to the wallet (the lookup raises and nothing is written), or another
\* handler resolved it meanwhile.
RefreshUnresolved(w) ==
    LET p == job[w].payout
        n == job[w].attempt
    IN /\ job[w].step = "lookup"
       /\ wallet[p][n] \in {"none", "queued", "inflight"} \/ ~Refreshable(p, n)
       /\ EndJob(w)
       /\ UNCHANGED <<budgetVars, rowVars, attemptVars, wallet, faults>>

RefreshFailed(w) ==
    LET p == job[w].payout
        n == job[w].attempt
    IN /\ job[w].step = "lookup"
       /\ wallet[p][n] = "failed"
       /\ Refreshable(p, n)
       /\ SetAttempt(p, n, [attempts[p][n] EXCEPT !.status = "FAILED"])
       /\ \/ /\ payout[p].state = "CANCEL_PENDING" /\ conversion[p] = "reversed"
             /\ ReleaseCampaignBudget(p, payout[p].reserved, "provider_reconciled_reversal_release")
             /\ SetPayout(p, CancelledRow(payout[p]))
          \/ /\ payout[p].state = "PAYING"
             /\ SetPayout(p, FailedRow(payout[p]))
             /\ UNCHANGED budgetVars
       /\ EndJob(w)
       /\ UNCHANGED <<campaignStatus, conversion, ready, lastAttempt, wallet, faults>>

RefreshSettled(w) ==
    LET p == job[w].payout
        n == job[w].attempt
    IN /\ job[w].step = "lookup"
       /\ wallet[p][n] = "settled"
       /\ Refreshable(p, n)
       /\ attempts[p][n].hash \in {NoHash, InvoiceHash(p, n)}
       /\ StoreSettledEvidence(p, n, attempts[p][n].ref)
       /\ ToFinalize(w, p, InvoiceHash(p, n), attempts[p][n].rail, TRUE)
       /\ UNCHANGED <<budgetVars, campaignStatus, conversion, ready, lastAttempt, wallet, faults>>

\* An administrator attests SETTLED, repeating the prepared hash; the attestation is
\* assumed true.  FAILED is rejected by the endpoint.
ReconcileAttempt(w, p, n) ==
    /\ job[w].step = "idle"
    /\ wallet[p][n] = "settled"
    /\ attempts[p][n].status = "UNKNOWN"
    /\ lastAttempt[p] = n
    /\ attempts[p][n].hash # NoHash
    /\ attempts[p][n].rail = "fake" => attempts[p][n].ref # NoHash
    /\ StoreSettledEvidence(p, n, attempts[p][n].ref)
    /\ ToFinalize(w, p, attempts[p][n].hash, attempts[p][n].rail, conversion[p] = "reversed")
    /\ UNCHANGED <<budgetVars, campaignStatus, conversion, ready, lastAttempt, wallet, faults>>

-----------------------------------------------------------------------------
(* Settlement without the rail: merchant attestation and the sandbox route. *)

SettledWithoutRail(p, h, provider) ==
    LET n == lastAttempt[p] + 1
    IN /\ n <= MaxAttempts
       /\ SetAttempt(p, n, [NoAttempt EXCEPT !.status = "SETTLED", !.rail = provider, !.hash = h])
       /\ lastAttempt' = [lastAttempt EXCEPT ![p] = n]
       /\ SetPayout(p, SettledRow(payout[p], h, provider))

MManuallyPayableAnyUnpaid(p) ==
    /\ payout[p].state \in {"PAYABLE", "PAYING"}
    /\ conversion[p] # "reversed"
    /\ p \in ready
    /\ FullyReserved(p)

\* _require_unsettled_manual_payout.
ManuallyPayable(p) ==
    /\ payout[p].state = "PAYABLE" /\ payout[p].status = "pending"
    /\ conversion[p] # "reversed"
    /\ p \in ready
    /\ payout[p].provider = None
    /\ FullyReserved(p)
    /\ lastAttempt[p] = 0

ManualSettlement(w, p, h) ==
    /\ job[w].step = "idle"
    /\ ManuallyPayable(p)
    /\ ~HashUsedElsewhere(p, h)
    /\ SettledWithoutRail(p, h, "manual")
    /\ ToFinalize(w, p, h, "manual", FALSE)
    /\ UNCHANGED <<budgetVars, campaignStatus, conversion, ready, wallet, faults>>

MRepeatsOnlyPublished(w, p) ==
    /\ job[w].step = "idle"
    /\ payout[p].state = "PUBLISHED"
    /\ payout[p].provider = "manual"
    /\ ToFinalize(w, p, payout[p].hash, "manual", FALSE)
    /\ UNCHANGED <<budgetVars, rowVars, attemptVars, wallet, faults>>

\* The merchant repeats the request: only the proof is retried.
ManualSettlementAgain(w, p) ==
    /\ job[w].step = "idle"
    /\ payout[p].state \in {"SETTLED", "PUBLISHED"}
    /\ payout[p].provider = "manual"
    /\ ToFinalize(w, p, payout[p].hash, "manual", FALSE)
    /\ UNCHANGED <<budgetVars, rowVars, attemptVars, wallet, faults>>

\* mark_payout_paid; a payout that is already paid skips the claim, whoever paid it
\* unless that was NWC.
MarkPaid(w, p, h) ==
    /\ SandboxEnabled
    /\ job[w].step = "idle"
    /\ payout[p].provider # "nwc"
    /\ \/ /\ payout[p].status \in {"pending", "failed"}
          /\ Claimable(p)
          /\ payout[p].provider \in {None, "sandbox"}
          /\ SettledWithoutRail(p, h, "sandbox")
       \/ /\ payout[p].status = "paid"
          /\ UNCHANGED <<payout, attemptVars>>
    /\ ToFinalize(w, p, h, "sandbox", FALSE)
    /\ UNCHANGED <<budgetVars, campaignStatus, conversion, ready, wallet, faults>>

-----------------------------------------------------------------------------
\* The process dies: committed rows stay, the handler is gone.
Crash(w) ==
    /\ job[w].step # "idle"
    /\ faults < MaxFaults
    /\ EndJob(w)
    /\ faults' = faults + 1
    /\ UNCHANGED <<budgetVars, rowVars, attemptVars, wallet>>

Admin ==
    \/ \E b \in Budgets : UpdateCampaignBudget(b)
    \/ \E s \in {"active", "paused"} : UpdateCampaignStatus(s)
    \/ HoldUnreservedPayouts
    \/ \E p \in Payouts :
         \/ CreateConversion(p) \/ BecomeReady(p)
         \/ ReleasePayoutHold(p) \/ ReverseConversion(p)

StartHandler(w) ==
    \E p \in Payouts :
        \/ StartExecute(w, p) \/ RetryProof(w, p) \/ ManualSettlementAgain(w, p)
        \/ \E h \in ManualHashes : ManualSettlement(w, p, h) \/ MarkPaid(w, p, h)
        \/ \E n \in AttemptNumbers : StartRefresh(w, p, n) \/ ReconcileAttempt(w, p, n)

ExecuteStep(w) ==
    \/ ClaimPayout(w) \/ ClaimRefused(w)
    \/ RecordPreparedEvidence(w) \/ SendPayment(w)
    \/ RecordAmbiguous(w) \/ RecordPending(w)
    \/ RecordFailure(w) \/ RecordMismatch(w) \/ RecordSuccess(w)

FinalizeStep(w) ==
    \/ FinalizeRefused(w) \/ FinalizeDuplicate(w) \/ FinalizePayoutPaid(w)
    \/ PublishProof(w) \/ ApplyExistingReversal(w)

RefreshStep(w) == RefreshUnresolved(w) \/ RefreshFailed(w) \/ RefreshSettled(w)

HandlerStep(w) == ExecuteStep(w) \/ FinalizeStep(w) \/ RefreshStep(w)

WalletDecides ==
    \E p \in Payouts, n \in AttemptNumbers : WalletSettles(p, n) \/ WalletFails(p, n)

Wallet == WalletDecides \/ \E p \in Payouts, n \in AttemptNumbers : WalletTakes(p, n)

Next ==
    \/ Admin
    \/ Wallet
    \/ \E w \in Workers :
         StartHandler(w) \/ HandlerStep(w) \/ RecordException(w) \/ Crash(w)

Spec == Init /\ [][Next]_vars

-----------------------------------------------------------------------------
(* Safety properties. *)

\* The money of attempt n left or may still leave: over the rail, or attested outside it.
Sent(p, n) == wallet[p][n] \in {"queued", "inflight", "settled"}
Attested(p, n) == attempts[p][n].status = "SETTLED" /\ attempts[p][n].rail \in {"manual", "sandbox"}
Pays(p, n) == Sent(p, n) \/ Attested(p, n)

\* An affiliate is never paid twice for one conversion: whatever workers, operators and
\* merchants do, and whatever the wallet answers, at most one attempt of a payout has
\* a request to pay under way, money in flight or delivered, or a payment attested.
PaidAtMostOnce ==
    \A p \in Payouts : \A m, n \in AttemptNumbers : Pays(p, m) /\ Pays(p, n) => m = n

\* Money that left, or may yet leave, is never forgotten: its payout is in flight or
\* settled, never back in a state from which it would be retried, held or cancelled.
SentMoneyIsHeld ==
    \A p \in Payouts : \A n \in AttemptNumbers :
        Sent(p, n) => payout[p].state \in {"PAYING", "CANCEL_PENDING", "SETTLED", "PUBLISHED"}

\* The endpoints that resolve an unresolved attempt look its payment up by its hash, so one
\* that has none stays as it is for ever; over NWC no money was sent for such an attempt,
\* however the worker that made it ended.
UnresolvableHoldsNoMoney ==
    \A p \in Payouts : \A n \in AttemptNumbers :
        /\ attempts[p][n].rail = "nwc"
        /\ attempts[p][n].status \in LiveStatuses
        /\ attempts[p][n].hash = NoHash
        => wallet[p][n] = "none"

\* A worker that is talking to the wallet still owns its attempt when the answer comes,
\* so execute_payout never has to refuse evidence of a payment it made ("current attempt
\* ownership was lost").
WorkerOwnsItsAttempt ==
    \A w \in Workers : job[w].step \in {"prepare", "send", "await"} =>
        LET p == job[w].payout
            n == job[w].attempt
        IN /\ lastAttempt[p] = n
           /\ attempts[p][n].status = "PAYING"
           /\ payout[p].state \in {"PAYING", "CANCEL_PENDING"}
           /\ payout[p].provider = attempts[p][n].rail

\* A signed payment proof carries the hash of an attempt recorded as settled and, if a
\* rail made it, of a payment the wallet did complete.
ProofHasEvidence ==
    \A p \in Payouts : payout[p].event =>
        \E n \in AttemptNumbers :
            /\ attempts[p][n].status = "SETTLED"
            /\ attempts[p][n].hash = payout[p].hash
            /\ attempts[p][n].rail = Rail => wallet[p][n] = "settled"

\* Two proofs never cite the same payment.
UniqueProofHash ==
    \A p, q \in Payouts :
        payout[p].event /\ payout[q].event /\ payout[p].hash = payout[q].hash => p = q

\* Outstanding reservations and settled commissions never exceed the campaign's cap.
WithinBudget == committed + settled <= budget

\* The budget's committed counter is exactly what the payouts hold, so neither settling
\* nor releasing ever meets a counter that is too small (409 "accounting mismatch").
CommittedIsReserved ==
    committed = MapThenSumSet(LAMBDA p : payout[p].reserved, Payouts)

\* What a payout reserved is what it settled, released or still holds.
LedgerConservation ==
    \A p \in Payouts :
        ledger[p]["reserve"] =
            ledger[p]["commission_settled"] + ledger[p]["reversal_release"]
            + ledger[p]["reversal_fee_release"] + ledger[p]["inflight_reversal_release"]
            + ledger[p]["provider_reconciled_reversal_release"] + payout[p].reserved

\* A proof of an approved conversion is backed by a ledger entry of exactly its
\* commission, and leaves exactly Meerat's fee reserved.
ApprovedProofIsAccounted ==
    \A p \in Payouts : payout[p].event /\ conversion[p] = "approved" =>
        /\ ledger[p]["commission_settled"] = payout[p].amount
        /\ payout[p].reserved = payout[p].fee

-----------------------------------------------------------------------------
(* Action properties. *)

\* Nothing un-pays a payout, and no proof changes once it is signed (without the sandbox
\* route, whose repeated calls may carry another hash).
Paid(p) == payout[p].status = "paid" /\ payout[p].state \in {"SETTLED", "PUBLISHED"}

EvidenceIsFinal ==
    [][\A p \in Payouts : Paid(p) => /\ Paid(p)'
                                     /\ payout'[p].hash = payout[p].hash
                                     /\ payout[p].event => payout'[p].event]_vars

\* Money leaves only for the latest attempt of a payout that is claimed, past its return
\* window and fully reserved, and over NWC only after the invoice hash is durable.
SendIsBacked ==
    [][\A p \in Payouts, n \in AttemptNumbers :
          wallet[p][n] = "none" /\ wallet'[p][n] # "none" =>
              /\ lastAttempt[p] = n /\ attempts[p][n].status = "PAYING"
              /\ payout[p].state \in {"PAYING", "CANCEL_PENDING"}
              /\ payout[p].reserved = Obligation(p)
              /\ p \in ready
              /\ Rail = "nwc" => attempts[p][n].hash = InvoiceHash(p, n)]_vars

-----------------------------------------------------------------------------
(* Liveness.  A request thread that started runs to its end, the wallet decides *)
(* what it took (that it takes a request is not assumed), and the people who    *)
(* own the retries (the operator with the recovery list, the merchant with an   *)
(* attested payment) keep repeating them.  Repeats compete with other requests  *)
(* for a worker, hence strong fairness.                                         *)
Fairness ==
    /\ \A w \in Workers : WF_vars(HandlerStep(w))
    /\ WF_vars(WalletDecides)
    /\ \A p \in Payouts :
         /\ SF_vars(\E w \in Workers : RetryProof(w, p))
         /\ SF_vars(\E w \in Workers : ManualSettlementAgain(w, p))
         /\ \A n \in AttemptNumbers :
              /\ SF_vars(\E w \in Workers : StartRefresh(w, p, n))
              /\ SF_vars(\E w \in Workers : ReconcileAttempt(w, p, n))

FairSpec == Spec /\ Fairness

\* The wallet has not taken a request to pay: it never knew of it, and no lookup answers.
Undelivered(p) == \E n \in AttemptNumbers : wallet[p][n] = "queued"

\* Unless a crash or an exception intervenes, a reversal of a payment in flight is
\* resolved, cancelled with its reservation released or settled because the money left,
\* provided the wallet takes the request it was sent; a request that is taken late is
\* resolved too.
CancelPendingResolves ==
    \A p \in Payouts :
        payout[p].state = "CANCEL_PENDING" ~>
            \/ payout[p].state \in {"CANCELLED", "SETTLED", "PUBLISHED"}
            \/ Undelivered(p) \/ faults > 0

\* Unless a crash or an exception intervenes, a settled payout gets its signed proof and is
\* recorded as PUBLISHED, however reversals and repeated requests interfere.  (The record
\* says that the relays were asked, not what they answered: see ProofIsRetried.)
PaidIsPublished ==
    \A p \in Payouts :
        payout[p].state = "SETTLED" ~> payout[p].state = "PUBLISHED" \/ faults > 0

\* Even with crashes, an ambiguous payment whose request the wallet took and whose hash is
\* recorded is resolved by the operator's refresh.
SentUnknownResolves ==
    \A p \in Payouts : \A n \in AttemptNumbers :
        (/\ attempts[p][n].status = "UNKNOWN" /\ attempts[p][n].hash # NoHash
         /\ wallet[p][n] \in {"inflight", "settled", "failed"})
            ~> attempts[p][n].status \in {"SETTLED", "FAILED"}

\* Even with crashes, a manual settlement that the merchant repeats is recorded as
\* PUBLISHED, whatever the relays answered.
ManualIsPublished ==
    \A p \in Payouts :
        payout[p].state = "SETTLED" /\ payout[p].provider = "manual"
            ~> payout[p].state = "PUBLISHED"

-----------------------------------------------------------------------------
(* What the repository says and the code does not do: see the README. *)

\* "reverse only the still-unpaid Meerat fee" (comment in apply_reversal_to_payout).
ReversalOfPaidReleasesOnlyFee ==
    \A p \in Payouts : ledger[p]["reversal_fee_release"] <= payout[p].fee

\* "If proof publication fails, retry publishes the proof only": a signed proof is
\* acknowledged by some relay in the end, if the requests that publish it are repeated and a
\* relay that is asked again and again accepts it.  It is not: see the README.
ProofIsRetried ==
    \A p \in Payouts : payout[p].event ~> payout[p].relayed

RelaysAccept ==
    \A p \in Payouts : SF_vars(\E w \in Workers : job[w].payout = p /\ PublishAnswered(w, TRUE))

RetrySpec == FairSpec /\ RelaysAccept

\* "reconcile FAILED -> CANCELLED + release full reservation": a payment in flight when its
\* conversion is reversed, which did not happen, is cancelled in the end.
CancellationIsReconciled ==
    \A p \in Payouts :
        payout[p].state = "CANCEL_PENDING" ~>
            payout[p].state \in {"CANCELLED", "SETTLED", "PUBLISHED"}

=============================================================================

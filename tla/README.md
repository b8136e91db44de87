# Meerat: a verification development

Meerat (`app/`) is an affiliate network that pays commissions over Lightning and
proves them with signed Nostr events. A merchant opens a campaign with a budget in
sats; affiliates enrol; an order becomes a *conversion*, which reserves its commission
and Meerat's fee in the budget and creates a *payout*; the payout is paid over a
Lightning rail (or attested by the merchant, or marked by the sandbox route); a signed
event that cites the payment hash is the proof. One FastAPI process (or several) serves
all requests over PostgreSQL at READ COMMITTED (or SQLite).

This directory holds TLA+ models of the parts of that program that are hard to test,
the TLC configurations that check them on small instances, and theorems about them
that TLAPS proves for every value of the constants.

## 1. Inventory

| Component | State | Operations | What makes it correct |
|---|---|---|---|
| Campaign budget and ledger (`main.py` 1976-2127, 4607-4641) | `campaign_budgets` row: cap, committed, settled; `ledger_entries` keyed by payout and movement | reserve, settle, four releases, set the cap | committed + settled <= cap; committed is the sum of what payouts hold; each movement happens once; what was reserved is settled, released or held |
| Conversions and reversals (3101-3414) | `conversions` | create, reverse, repeat the reversal | conversion, payout and reservation commit together; a reversal releases exactly what was not paid |
| Payouts and payment attempts (4644-5528, 7633-7779, `payment_state.py`) | `payouts`, `payment_attempts` | hold, release, execute, refresh, reconcile, manual settlement, sandbox mark-paid, finalize, publish | never paid twice; money that left is never forgotten; proofs have evidence; what can be resolved is |
| Payment rails (`payment_rails.py`, `lightning.py`) | none of their own; the wallet's | prepare, pay, look up | a failure is reported only when no money left; a lookup speaks of this payment |
| Invoices of manual payments (`main.py` 7604-7779) | who prepares what, since when (memory of the process) | prepare a payout's or a reward's invoice | an account prepares an item once at a time; nothing stays blocked |
| Nostr events and outbox (772-1185) | `nostr_events`, publication locks | sign, persist, publish, finalize after commit, retry | published is never downgraded; rows say so only when it is true; campaign events are ordered; what is pending is published |
| Campaign, enrollment, invitation lifecycle (2750-3098, 7253-8532) | `campaigns`, `enrollments`, `invitations` | create, pause, decide, invite, accept, archive | enrollments are what the campaign admits; payouts go to the affiliate's present address; no wait is for ever |
| Shopify inbox and merchant orders (3709-3854, 4029-4455) | `shopify_webhook_deliveries`, order locks | receive, enqueue, process, redeliver | an order funds one obligation, whatever is redelivered or dies |
| Cashback Express (4131-4236, 6612-7055, 2130, `cashback_archive.py`) | `cashback_campaigns`, `cashback_claims`, `cashback_rewards` | create, pause, claim, reward, pay, decline, archive, clean up | a claim funds one reward; committed is the sum of live rewards; paid and declined are final |
| Accounts, challenges, sessions (2507-2747, `account_auth.py`, `account_erasure.py`) | `auth_challenges`, `account_sessions`, roles | challenge, verify, log out, erase | a challenge is used once; an erased identity stays out |
| BTC/USD rates (`rates.py`) | one cached quote | get a quote, convert | a served quote is never older than its bound |
| Operational archive (`operational_archive.py`, `scripts/archive_merchant_activity.py`) | `operational_archive_batches`, marks on conversions, clicks and events, backup files | preview, apply | exactly the approved rows are marked, backed up and final |
| Read models, pages, receipts, probes | rows others wrote | - | not modelled (section 11) |

How they interact. Handlers share the database and nothing else that matters: a
handler is a sequence of transactions with network calls (wallet, relays, rate
providers) in between, and another handler may run at each of those points. Row locks
(`FOR UPDATE`), conditional `UPDATE ... WHERE state = ...`, advisory locks and
unique indexes are the only synchronisation. `init_db()` runs first in every request
and executes backfill statements on live rows. A crash keeps what was committed and
loses the rest. Background work (the Shopify task, the outbox thread) belongs to the
process that started it.

What is hard: the wallet is called between two transactions and may time out after
paying; a reversal may arrive at any of those points; a worker may die between any two
of them; the operator's recovery endpoints race with the worker they recover from; the
merchant attests payments of which the rail knows nothing; the same reservation is
settled, released and partly released by different handlers; an affiliate changes its
address while copies of it are being made; an identity is erased, or a campaign closed,
while requests that read them wait for locks. `PROJECT.json` lists every such hazard with
the line where it bites and the property that covers it.

## 2. Modules

| Module | What it is |
|---|---|
| `CampaignBudget` | the budget row and the ledger, as operators that are pieces of a caller's transaction |
| `PayoutLedger` | the core: conversions, payouts, attempts, the workers that execute the handlers, the wallet; properties and fairness |
| `PayoutInvariant` | the inductive invariants `IInv` and, over it, `EInv` |
| `PayoutObligation` | the abstract specification: an obligation is owed, in flight, paid, proved or void, and its money moved or did not |
| `PayoutRefinement` | the refinement mapping from `PayoutLedger` to `PayoutObligation` |
| `MCPayoutLedger` | instances for TLC: symmetry, colliding hashes |
| `CashbackExpress` | a cashback campaign, its claims and rewards |
| `OrderIntake` | the order inbox and the merchant's API, over `CashbackExpress` |
| `OrderInvariant` | the inductive invariant `OrderInv` |
| `MCOrderIntake` | symmetry for TLC |
| `NostrOutbox` | a campaign and its enrollments: their status changes, the events these sign, the outbox, its thread and the relays |
| `OutboxInvariant` | the inductive invariant `OutboxInv` |
| `MCNostrOutbox` | symmetry for TLC |
| `MCRecovery` | the sum of `OrderIntake` and `NostrOutbox` for TLC, under the fairness of both |
| `RequestLocks` | the locks of the handlers: one of each process, the others of the database, taken one by one |
| `AffiliateAccess` | challenges, logins, sessions, public enrollment, invitations, erasure, over `RequestLocks` |
| `PayoutDestination` | an affiliate's address and its copies in enrollments, payouts and attempts, over `RequestLocks` |
| `AccessInvariants` | the inductive invariants `AccessInv` and `DestInv` |
| `MCAccess` | the sum of these two for TLC |
| `RailContract` | what the payout ledger may assume of a payment rail (abstract) |
| `LightningRail` | the NWC rail, its relay and wallet, and the mapping to `RailContract` |
| `RateQuotes` | the cached BTC/USD quote, two providers, two clocks, one lock |
| `InvoicePreparation` | the limiter around the invoices of manual payments |
| `OperationalArchive` | the archive script beside the store and the payouts, over `RequestLocks` |
| `EdgeInvariants` | the inductive invariants of these four |
| `MCEdges` | the sum of these four for TLC |
| `SetSums` | lemmas: induction over the subsets of a finite set, and sums over it |
| `PayoutLedgerProofs` | type correctness, and the cap holds |
| `PayoutSafetyProofs` | `IInv` is inductive, and what follows from it |
| `PayoutEvidenceProofs` | `EInv` is inductive, and what follows from it; the counter of the budget; the refinement of `PayoutObligation` |
| `OrderIntakeProofs` | `OrderInv` is inductive, and what follows from it |
| `NostrOutboxProofs` | `OutboxInv` is inductive, and what follows from it |
| `AccessProofs` | `AccessInv` and `DestInv` are inductive, and what follows from them |
| `EdgeProofs` | the rail's refinement of `RailContract`, and the safety of rates, preparations and archives |

### How the core corresponds to the code

A row is a record, a table a function: `payout[p]` has the columns of `payouts` that
decide anything (`state`, `status`, the amounts, `reserved_sats`, the hash, the
provider, whether `nostr_event_id` is set) and `relayed`, the `relay_status` of that event
in `nostr_events`; `attempts[p][n]` those of
`payment_attempts`, `ledger[p][m]` the amount stored under the idempotency key
`<p>:<m>`. `wallet[p][n]` is not in the database: it is what became of an attempt's
request to pay (`none`, `queued`, `inflight`, `settled`, `failed`).

`SendPayment` hands a request over NWC to the SDK and a relay, where it is `queued`;
`WalletTakes` is its arrival, soon, late or never. The sender is told the same whether the
request is lost, under way, or taken and unanswered: `pay_nwc_invoice` turns each of them
into one error (`lightning.py:374`), which is `RecordAmbiguous`. A queued request counts as
money that may still leave, so the safety properties cover the late arrival. The lookup of
a payment the wallet never heard of raises and changes nothing (`RefreshUnresolved`). The fake
rail answers in the same process and has no queue.

`PublishProof` asks the relays, which acknowledge the proof or do not (`RelayAnswers`); the
code records the answer in `relayed` and the state PUBLISHED whatever it was. What the
properties call published is that record, except in `ProofIsRetried`.

A request that makes network calls is a *worker*: `job[w]` holds the handler's local
variables and `job[w].step` where it is. One action is one transaction.

| Code | Actions |
|---|---|
| `_create_conversion` | `CreateConversion` (reserves, or holds and pauses) |
| `execute_payout` | `StartExecute` (the unlocked reads), `ClaimPayout`/`ClaimRefused`, `RecordPreparedEvidence`, `SendPayment`, then one of `RecordAmbiguous`, `RecordException`, `RecordPending`, `RecordFailure`, `RecordMismatch`, `RecordSuccess`; `RetryProof` for a paid payout without a proof |
| `finalize_payout_paid` | `FinalizeRefused`, `FinalizeDuplicate`, `FinalizePayoutPaid`, then `PublishProof` |
| `apply_reversal_to_payout` | `ApplyReversalToPayout`, inside `ReverseConversion` and `ApplyExistingReversal` |
| `refresh_payment_attempt` | `StartRefresh`, then `RefreshUnresolved`, `RefreshFailed` or `RefreshSettled` |
| `reconcile_payment_attempt` | `ReconcileAttempt` |
| manual settlement | `ManualSettlement`, `ManualSettlementAgain` |
| sandbox `mark_payout_paid` | `MarkPaid` |
| `release_payout_hold`, the `init_db` backfill | `ReleasePayoutHold`, `HoldUnreservedPayouts` |
| process death | `Crash` |

Two handlers that hold the same row lock cannot interleave, so a transaction that locks
what it reads is one action; `StartExecute` reads on a connection of its own and is
separate from `ClaimPayout`, whose conditional `UPDATE` re-checks only part of what
was read. A 409 that rolls a transaction back is a guard, or an action that ends the job
without changing rows where the handler's disappearance matters. Time is abstracted:
`ready` holds the payouts past their return window with a payable destination.

Environment assumptions, all in actions marked external: a relay delivers a request at most
once, and perhaps never; the wallet eventually settles or fails what it took; what it
reports as failed it never pays afterwards (`lightning.py` treats an expired lookup as a
failure, which is sound only if the wallet never completes an expired invoice); an
operator who attests SETTLED tells the truth.

## 3. Runs

| Run | Instance | What it shows |
|---|---|---|
| `payout_core` | 1 payout, 2 workers, 2 attempts, 2 faults, NWC with requests that may be lost, relays that may refuse, commission 0 or 2, cap 2 or 3, fairness | `PaidAtMostOnce`, `SentMoneyIsHeld`, `WorkerOwnsItsAttempt`, `UnresolvableHoldsNoMoney`, `ProofHasEvidence`, `ApprovedProofIsAccounted`; `EvidenceIsFinal`, `SendIsBacked`; that the handlers implement `PayoutObligation`; `CancelPendingResolves` (for requests the wallet takes) and `PaidIsPublished` until a fault, `SentUnknownResolves` and `ManualIsPublished` despite faults |
| `payout_pair` | 2 payouts, 2 workers, 1 fault after which they take turns, a cap that holds one and may be raised for both, the fake rail with the sandbox route, attested hashes that collide with invoices | `UniqueProofHash`, `WithinBudget`, `CommittedIsReserved`, `LedgerConservation`, and the inductive invariant `IInv` |
| `reversal_release`, `proof_retry`, `undelivered_payment` | 1 payout as above, with 1 fault, with relays that accept in the end, or with 1 attempt and no fault; expected violations | findings 1, 2 and 3 |
| `cashback_orders` | 2 Shopify orders, 2 claims or a click and a claim, 2 workers, 1 crash, a budget for one reward | `OneRewardPerClaim`, `CashbackBudgetIsExact`, `ArchivedOwesNothing`, `OneObligationPerOrder`, `RewardsAreFinal` |
| `pending_order` | 1 order, 1 crash, fairness, expected violation | finding 4 |
| `nostr_outbox` | 1 campaign, 1 enrollment, 2 workers and the thread, 3 events, or 2 and 1 fault, a clock of 2 seconds | `ShownIsPublished`, `CampaignIsOrdered`, `CampaignIsShown`, `NeverDowngraded` |
| `recovery` | a Shopify order or an API order, 2 clicks, 2 workers, 1 crash; or 1 worker and the outbox thread, 3 events of which one is refused for ever, batches of one row, 1 fault; fairness | `AckedIsStored`, `ProcessingResolves`; `PendingIsPublished` |
| `access` | 1 identity, 1 challenge of each kind, 1 invitation; 1 affiliate, 2 addresses, 1 payout; 2 requests of one process or of two | `ErasedStaysOut`, `ChallengeUsedOnce`, `AdmittedByTheCampaign`, `PayoutsFollowTheProfile`, `NoCircularWaitInAProcess` |
| `superseded_address` | `PayoutDestination` alone, expected violation | finding 5 |
| `edges` | 2 attempts over NWC; 2 requests for a rate; 1 item, 2 accounts and 3 preparations; 2 runs of the archive script, 2 conversions, 2 backup files; fairness for the rates | `ImplementsRailContract`; `ServedWithinBounds`, `EveryCallerIsAnswered`; `OnePreparationPerAccount`; `ArchiveIsExact` |

Bounds. `MaxAttempts = 2` allows a failed attempt and its retry, the shortest history in
which an older attempt can be confused with the current one. `MaxFaults = 2` lets a fault
hit the worker and the one that recovers from it. Two workers are enough for every race the
code guards with a conditional `UPDATE`, since each guard compares one worker's read with
one other write; the theorems have no such bound. In `payout_pair` one fault is enough to
strand an attempt of one payout beside the other; after it one request is served at a time
(`FaultBound`), which keeps the run at two thirds of a million states. The cap is chosen so
that a reservation both fits and does not fit. A commission of 2 with a fee of 1 keeps
commission, fee and obligation distinct; 0 is the boundary `record_ledger_transaction`
treats specially. Symmetry (payouts, workers, processes) is used only where no liveness
property is checked. Deadlock is checked in the runs of the core and in `access`, where the
merchant can always change the campaign or a request begin, so that it says little. Two
modules of a sum share no state (or only `RequestLocks`, which each part starts afresh): a
behaviour of `MCAccess`, `MCEdges` or `MCRecovery` chooses one part at the beginning and
stays in it, so each part is checked alone, at the cost of one run.

Fairness. `WF` on a worker's own steps: a request thread that started runs to its end
unless the process dies. `WF` on the wallet: it decides what it took. Nothing makes it take
a request, so `CancelPendingResolves` leaves out payouts whose request is still queued, and
`SentUnknownResolves` is about requests that were taken. `SF` on `RetryProof`,
`ManualSettlementAgain`, `StartRefresh` and `ReconcileAttempt`: the code schedules none of
these; they are the operator working through the recovery list and the merchant repeating a
request, and they compete with other requests for a worker, hence strong fairness. Nothing
is assumed of conversions, reversals, releases or new executes. `RetrySpec`, which only
`proof_retry` uses, adds that a relay which is asked for a proof again and again takes it:
the run shows that it is not asked again.

## 4. Proofs

Every invariant and every action property that a passing run checks, and both refinements,
are theorems: they hold for any number of payouts, workers, requests, attempts, events and
faults and every value of the other constants.

**Payouts.** `PayoutLedgerProofs` proves `Spec => []TypeOK`, one step per action, and
`Spec => []WithinBudget` (`CapHolds`): the cap holds for every cap, commission and fee,
because every movement either checks it under the row lock or does not increase the sum.

`PayoutSafetyProofs` proves `Spec => []IInv`. None of the safety properties is inductive
alone: that a claim cannot overlap a payment needs the payout's state to be in flight
exactly while its latest attempt is unresolved (`StateInv`), which needs attempts to be
numbered without holes with only the last unresolved (`AttemptsInv`), which in turn needs
a worker at the wallet to own the last attempt (`WorkerInv`) and to be alone there
(`Exclusive`). A wallet fact is tied to each: a failed attempt did not pay, a settled one
did, a worker before its send step has sent nothing. From `IInv` follow
`NeverPaidTwice`, `SentIsNeverForgotten`, `AtMostOneLiveAttempt` and
`OwnershipIsNeverLost`.

`PayoutEvidenceProofs` proves `Spec => []EInv`, which adds to `IInv` what a payout has in
the ledger and what is known of its payment. The books alone (`LedgerConservation`) are not
inductive: a release is stored only if its idempotency key is new, so it must be known that
what still holds a reservation has released nothing, and that each state determines what is
reserved (`LedgerInv`); a proof must settle the commission the first time, so before it
nothing is settled. The evidence needs the hash of an unresolved attempt to be its own
invoice's or none (`EvidenceInv`) and a handler that sends or proves to hold the hash the row
holds (`HandlerInv`). The module first proves that every step, whichever handler takes it,
holds some payouts without a reservation or does one of fifteen things to one payout and
leaves the others alone (`StepIsClassified`); what follows is proved from these and no longer
from the actions: `BooksBalance`, `ProofsAreAccounted`, `NoMoneyIsStranded`,
`ProofsHaveEvidence`, `ProofsAreUnique`, and as properties of steps `PaymentsAreFinal` and
`MoneyLeavesBacked`.

`HandlersImplementObligations` proves that `PayoutLedger` implements `PayoutObligation`: each
of the fifteen maps to a step of the obligations or changes nothing in their view. That the
state of the row and the movement of the money agree is what `EInv` gives: an attempt that
fails did not pay, one that settles did, an answer of the wallet concerns a payout in flight.

`CommittedIsHeld` proves `CommittedIsReserved` for finite sets of payouts. The sum is a fold,
a recursive function over the subsets of the set. The induction theorems of the library take
an operator, which the provers here cannot instantiate; `SetSums` therefore states induction
over subsets with a set in its place (`SubsetInduction`, from the well-foundedness of strict
inclusion), proves that the fold exists (`SumExists`) and that it changes by what one term
changes (`SumMoves`). Every step moves the counter of the budget by what it changes of one
reservation (`CommittedStep`), and so by what it changes of the sum.

**Orders and cashback.** `OrderIntakeProofs` proves `Spec => []OrderInv`. The order's safety
needs, besides its own parts, that a worker's attribution is the one its delivery was stored
with, that only the background task's own steps work on Shopify orders, that a worker about
to write `processed` has an obligation (`JobInv`), and that a row names an attribution exactly
when it has one (`RowInv`): without them `OneObligationPerOrder` is lost when a stale worker
comes back. It is also what makes the types inductive: an API order is answered with a
click, never with a claim. From `OrderInv` follow `OneRewardPerClaim`,
`OneObligationPerOrder`, `CreatorIsAlone`, `AckedIsStored`, `ArchivedOwesNothing` and, as a
property of steps, `RewardsAreFinal`; with `SetSums`, for finite sets of orders,
`CashbackBudgetIsExact`.

**Events.** `NostrOutboxProofs` proves `Spec => []OutboxInv`. That the campaign's events are
ordered (`OrderInv` of `OutboxInvariant`) survives a change that publishes before it commits
only because such a change either carries the campaign's first event or holds its lock with an
event later than the row's (`ChangeInv`); that a late result stores nothing wrong needs what a
job still has to finalize to be committed (`JobInv`) and events not yet signed to be nowhere
(`EventInv`); and that the relays show the row's state needs every event of the campaign to be
committed or in somebody's hands until a transaction is lost (`NothingLost`). From it follow
`ShownIsPublished`, `CampaignIsOrdered`, `CampaignIsShown` and, as a property of steps,
`NeverDowngraded`, for any clock and any relays.

**Access and destinations.** `AccessProofs` proves `Spec => []Inv` for `AccessInv` and
`DestInv`. Both rest on the same facts about `RequestLocks` (`LockInv`): no lock has two
holders, and the locks a request holds and the ones it still asks for (`Planned`) never change
while it runs, so what a handler needs at its commit was decided when it began. A request that
goes on to its writes therefore holds the lock of every row it has read, and what it read
still holds (`RequestInv`, `TaskInv`): `ErasedStaysOut`, `ChallengeUsedOnce`,
`AdmittedByTheCampaign` and `PayoutsFollowTheProfile`. No circle of waiting requests in one
process exists because a request that takes more than one lock takes its process's first
(`InOrder`): whoever waits for another lock already holds the process's, and there is only one
such request.

**Edges.** `EdgeProofs` proves that `LightningRail` implements `RailContract`
(`RailKeepsItsContract`): a request leaves only from the send step and only for an invoice of
exactly the amount, and a call that saw it leave never answers FAILURE (`PaymentInv`). Of the
rates the property is almost inductive by itself; that of the preparations
(`PreparationsAreAlone`) rests on the limiter's set being the keys of those that run. `ArchiveIsExact` needs
that a run holds the campaign's lock from the time it reads (`RunInv`), so that what it
compared with the approval is still so when it marks it, and that a final payout with no fee
due is never active again.

Assumptions are those on the constants (`BudgetAssumption`, `PayoutAssumption`,
`CashbackAssumption`, `IntakeAssumption`, `OutboxAssumption`, `DestinationAssumption` and
those of the edges): natural amounts, rates of at most 100 %, one of the two rails, clicks
that are no claims, a thread that is no request, and NULL (`NoHash`, `None`, `NoAddress`) that
is nothing else. Three theorems say more. `CommittedIsHeld` and `CashbackIsExact` assume a
finite set, without which there is no sum. `ProofsHaveEvidence` and `PaymentsAreFinal` assume
that the sandbox route is off, as it is by default (`main.py:5115`): a repeated sandbox call may carry
another hash than the settled attempt, and the row takes it.

TLC evaluated each inductive invariant on the instances of the runs before it was proved;
`IInv` is an invariant of `payout_pair`. Only model-checked: liveness (`CancelPendingResolves`,
`PaidIsPublished`, `SentUnknownResolves`, `ManualIsPublished`, `ProcessingResolves`,
`PendingIsPublished`, `EveryCallerIsAnswered`), which is out of the prover's reach because
fairness is, and the five expected violations, which are behaviours.

## 5. Orders and cashback

`CashbackExpress` is one cashback campaign with its claims and rewards; `OrderIntake`
extends it with the inbox, the merchant's API and the workers that serve both.

| Code | Actions |
|---|---|
| `merchant_set_cashback_express_status` | `SetCashbackStatus` |
| `cashback_express_claim` | `CheckClaim`, then `InsertClaim`; `ClaimAges` is the passing of its windows |
| `cleanup_expired_cashback_claims` | `CleanupExpiredClaims` |
| `_process_cashback_reward_locked` | `CreateReward`, as a step of `FundReward` |
| `merchant_mark_cashback_paid`, `merchant_decline_cashback_reward` | `MarkCashbackPaid`, `DeclineCashbackReward` |
| `apply_cashback_archive` (`cashback_archive.py`) | `ArchiveClaims`, `ArchiveCampaign` |
| `enqueue_shopify_paid_order` | `ReceiveOrder`, or `RedeliverOrder` (unlocked read) and `ResetDelivery` (unconditional `UPDATE`) |
| `process_shopify_delivery` | `ClaimDelivery` or `ClaimDeliveryRefused`, `Dispatch`, then `FundReward` or the merchant steps, `ProcessingFails`, `MarkProcessed`, `MarkFailed` |
| `process_merchant_conversion` | `MerchantConversion`, then `AnswerDuplicate`, or `LookUpNothing` and `CreateConversion`; both `Respond`: the answer, or an error from the publication that follows the commit |
| `POST /conversions` without a key | `PublicConversion` |
| process death | `Crash` |

What is one action. Creating and declining a reward and both archives run under the
advisory lock `cashback-campaign:<id>`, so each is atomic; paying a reward does not take
that lock, but is a single conditional `UPDATE`. `FundReward` reads the claim twice, once
without the lock; only the locked read decides. Look-up and creation of a conversion are
separate transactions under an advisory lock of the order, which is modelled
(`orderLock`) and lost with the process. The background task of a webhook runs after the
response in the same process: it is the same worker, and `Crash` kills both.

`cashback_orders` has two Shopify orders, two workers and one crash. Two claims and two
orders are what it takes to reuse a claim and to exhaust a budget; the budget (7) holds one
reward (4, the maximum, below the computed 5) and not two. A click is there beside one
claim at a time (`ClickBound`): an order attributed to it can only be confused with an order
of a claim, and takes nothing from a budget. Deadlock
is not checked: an archived campaign with processed orders is finished. The part of
`recovery` about orders has no claims but two clicks and an order of each source, so that an
order can be repeated with another payload; two conversions' orders share no row and no lock,
so a behaviour is about one of them. `ProcessingResolves` says that a delivery in progress ends processed
or failed unless a further crash strands it; with one crash both cases occur, the crash
that leaves a delivery to a redelivery and the run without a second one. An order of a
merchant is answered with one attribution, and a conversion is never deleted, hence
`AckedIsStored` is about every moment after the answer.
`AcceptedIsProcessed` is refuted with one order, one click and one crash.

Fairness. `SF` on each worker's next step (a request runs to its end, waiting for an order
lock that others keep giving back), `WF` on the passing of five minutes, and `SF` on the
redelivery of a delivery that failed or hangs. The last is an assumption about the shop
or its operator: nothing in the code schedules a retry.

Two behaviours of the code that the model keeps and no property speaks of: a slow worker
may write `failed` over the `processed` of the worker that took its delivery over, and
archiving a claim alone makes the archive of its campaign impossible for ever (the
`UPDATE` skips the claim, the row count differs), although the preview calls it safe.

## 6. Nostr events

`NostrOutbox` is one campaign, its enrollments, and the events their changes sign. Some
handlers commit the row and a pending event first and publish afterwards
(`finalize_committed_nostr_event`), some publish inside the transaction, and accepting an
invitation publishes after its commit without the publication lock; a thread retries what
is pending. A request is a worker again; `job[w].how` is which of the three it does.

| Code | Actions |
|---|---|
| `create_campaign`; `merchant_bootstrap` and `merchant_complete_onboarding` | `CreateCampaign`; `OnboardMerchant`, `OnboardMerchantAgain` |
| commission and enrollment mode of a campaign | `UpdateCampaign` |
| `update_campaign_status`, `archive_campaign_preserving_history` | `UpdateCampaignStatus`, then `CommitChange` |
| `_create_conversion` out of budget; `retry_conversion_outbox` | `PauseForBudget`; `RetryConversion` |
| `_create_enrollment_record`, `update_enrollment_status` | `CreateEnrollment`, `UpdateEnrollmentStatus`, then `CommitChange` |
| `campaign_join`, `merchant_decide_enrollment` | `JoinOpen`, `JoinPending`, `ApproveEnrollment`, `RejectEnrollment` |
| `accept_affiliate_invitation` | `AcceptInvitation` or `AcceptInvitationAgain`, then `PersistAccepted` |
| `retry_pending_nostr_outbox` | `ReadBatch` |
| `finalize_committed_nostr_event` | `SkipPublished` or `TakeEvent`, then `PersistResult` or `PersistFails` |
| `publish_event` | `Publish` |
| process death, rolled back transaction | `Crash` |

The state is the row's (`status`, `current` for `nostr_event_id`, `shown` for the
`relay_status` inside `nostr_event_json`), the outbox's (`outbox`, and `queue`, the order
of `updated_at` among the pending rows), the locks, and `relay`, what the relays took.
Relays may take an event and their answer be lost. They keep the event with the latest
`created_at` of each campaign or enrollment. The clock is read at each signature and may
be set back.

`CampaignIsShown` is what the order is for: finalizations run without the campaign-state
lock and in any order, and still what the relays keep is the state of the row, once no
change is in progress. It is stated while no transaction was lost: `update_campaign_status`
and the archive publish before they commit, and after a rollback the relays hold an event
that no row knows; such a rollback is outside what the property says. Nothing of the kind
holds of enrollments, whose events are not ordered within a second.

Simplifications. A campaign created by `POST /campaigns` has a random id, so the
onboarding of a merchant never repeats it; the model allows it, which only adds behaviours.
`inactive` stands for every status but `active`, `closed` for rejected and terminated. A
conversion's event takes the campaign's way and is never replaced, so only the pause it
may cause is there. Publication is switched on.

Bounds. Three events are the fewest with a campaign's event, a later one and a third in
flight. Two workers and the thread cover every pair of publishers. In `nostr_outbox` the
clock has two readings, which is what it takes to stand still, advance and go back. A
behaviour with a crash or a database error signs two events there (`FaultBound`), the one
the fault hits and its successor; in `recovery` it signs three, which carry rising times
because the clock stands still. There the refused event is the first, which in a batch of
one row hides the others unless it goes behind them. Deadlock is not checked: when all
events are signed and published the system stops.

Fairness. `WF` on the thread reading the outbox (it loops every 60 s); `SF` on each actor's
next publication step (a lock that others keep giving back is obtained in the end); and, as
an assumption about relays, an event they do not refuse for ever is taken and acknowledged
if it is sent again and again.

## 7. Access and destinations

`RequestLocks` has the locks a handler takes around its transaction:
`_INVITATION_ACCEPT_LOCK`, a `threading.Lock` of each process, and PostgreSQL's advisory
locks of an identity, a destination, an invitation, the campaign and an enrollment. A
request takes those of its handler in the handler's order, one per step, and gives all of
them back at the end. PostgreSQL aborts one of the transactions that wait in a circle; that
is `RollBack` and `Abort`, which also stand for refusals, exceptions and stopped processes.

| Code | Actions |
|---|---|
| `create_auth_challenge`, `campaign_join_challenge` | `IssueChallenge`, `DeleteLateChallenges`; `Expire` is the passing of its window |
| `verify_auth_login` | `BeginVerify` (reads the challenge), `ReadIdentity` (under the identity's lock), `OpenLoginSession` |
| `campaign_join` | `BeginJoin`, `ReadPublicCampaign`, `JoinCampaign` |
| `merchant_create_invitation`, `accept_affiliate_invitation` | `BeginInvite`, `CreateInvitation`; `BeginAccept`, `ReadPendingInvitation`, `ReadPrivateCampaign`, `AcceptInvitation`, or `RecoverInvitation` |
| `merchant_update_enrollment_mode`, `update_campaign_status`, the archive | `UpdateEnrollmentMode`, `UpdateCampaignStatus`, `ArchiveCampaign` |
| `merchant_decide_enrollment`, `update_enrollment_status`, logout | `DecideEnrollment`, `UpdateEnrollmentStatus`, `EndSession` |
| erasure, by an operator (external: the code only reads its tombstones) | `EraseIdentity` |
| the same handlers, as far as they copy addresses | `CopyOnAccept`, `CopyOnRecover`, `Join`, `EnrollDirectly`, `Decide`, `Approve`, `CloseEnrollment` |
| `redirect_click`, `_create_conversion` | `RedirectClick`; `StartConvert`, `ReadEnrollment`, `CreateConversion` |
| `affiliate_update_lightning_address` | `StartUpdateAddress` (the address is verified with its server), `UpdateLightningAddress` |
| `execute_payout` | `ReadPayout`, `ClaimPayout` |

`ErasedStaysOut` and `AdmittedByTheCampaign` need the identity's and the campaign's lock;
their mutants leave one of them out. `PayoutsFollowTheProfile` is what the page of the
affiliate promises about a change of address, for all copies that may be in flight.
`NoCircularWaitInAProcess` is about the one circle nothing breaks: PostgreSQL does not see
the process's own lock. `_create_conversion` and the acceptance of an invitation take the
campaign's and the destination's locks in opposite orders, and only the process's lock,
which both take first, keeps two requests of one process from waiting for each other with
it held; two processes may, and PostgreSQL then aborts one.

Bounds. One identity, one challenge of each kind and one invitation are enough for two
requests to meet at each of them; two addresses distinguish the old from the new. In the
part about access the two requests belong to two processes, whose behaviours include those
of one process except for waits at its lock; the part about destinations has both.

The demonstration (`POST /demo`, off unless the environment switches it on) enrolls its own
affiliate through `_create_enrollment_record` (`main.py:2955`), which takes no lock of the
identity or the campaign. It is `EnrollDirectly` where addresses are concerned and not part of
`AffiliateAccess`: `ErasedStaysOut` and `AdmittedByTheCampaign` say nothing of it.

What the model keeps and no property forbids: an invitation created without any lock may
survive the revocation that a change of mode makes, and then cannot be accepted until the
campaign is private again; `update_campaign_status` can make an archived campaign active;
`affiliate_update_lightning_address` does not look at the erased identities again, so a
change in flight may store a profile for an erased one; a public enrollment never copies an
address and earns only after the affiliate has set one.

## 8. Edges and the archive

`LightningRail` is one attempt over NWC after another: the address becomes an invoice, its
hash is stored, a request goes through a relay to the wallet, which may take it after the
SDK gave up. `ImplementsRailContract` shows that what `execute_payout` and the refresh are
told is what `RailContract`, and with it `PayoutLedger`, assumes: FAILURE means that nothing
left or will leave, SUCCESS and each applied lookup are true of this payment. The wallet is
assumed truthful about the invoice it is asked for, and to report FAILED or EXPIRED only for
an invoice it will never pay; a relay delivers a request at most once.

`RateQuotes` reads both clocks where the code does, at the caller's turn and before any
provider is asked. The wall clock may be set at will, which is why the cache judges its own
age by the monotonic one. Fairness: a provider's answer or timeout comes (`WF`), and a
thread that waits for the lock obtains it although others keep taking it (`SF`; CPython's
lock has no queue, but the holder leaves it for the length of two network calls at most).

`InvoicePreparation` is the limiter `_INVOICE_PREPARE_ACTIVE` with its two exits. Its key is
the account and the item (`main.py:7678`, `6929`), so two accounts linked to one merchant may
prepare one item at the same time, and the model lets them; what is excluded is a second
request of the same account. A key that was forgotten, or never seen, counts as begun at 0
(`.get(rate_key, 0)`). The clock runs in seconds, of which the pacing and the purge take 2
instead of 5 and 60: only their order matters. One item is enough beside two accounts, since
to the limiter another item is another key.

`OperationalArchive`: `StartArchive` is the operator approving a preview; `CheckPreview` the
script's own one; `LockSales` and `LockDues` the second reading under the campaign's lock,
conversions first and payouts after, as their queries run; then `WriteBackup` and
`CommitArchive`, or `AnswerDuplicate` for a batch that exists. `StopRun` is a refusal or a
dead process anywhere, with a file written, half written or not. The store and the payouts
go on: handlers that update a payout wait for the rows a run has locked, those that create
or reverse a conversion for the campaign's lock. Two conversions, one with a fee of Meerat
and one without, and two files: what a run after a crash needs. Two things to know of the
code: nothing ever settles a fee (`FEE_SETTLED` has no writer), so a paid conversion with a
fee can be archived only after a reversal cancelled the fee; and a payment that was in
flight when its conversion was reversed counts as final between its evidence and its proof,
because its fee is cancelled, although its sats are still reserved.

## 9. Findings

1. `reversal_release` (bug, `main.py:3311`): `execute_payout` and the manual settlement
   commit SETTLED before `finalize_payout_paid` settles the commission. A reversal in
   between releases the whole reservation as an "unpaid fee"; the commission was paid and
   the budget never counts it.
2. `proof_retry` (`main.py:5239`): a signed proof that no relay acknowledged is recorded as
   PUBLISHED all the same (`main.py:5091`-`5098`), and a repeated request returns at
   `main.py:5035`; after a crash between signing and publishing, retries answer "duplicate" and
   publish nothing, unless the payment was manual. The Sprint 2 document says that a retry
   publishes the proof. TLC shows one of the two ways.
3. `undelivered_payment` (`main.py:4884`): a request to pay that never reached the wallet is
   reported as ambiguous. If its conversion is reversed, the payout stays CANCEL_PENDING with
   its reservation for ever, without any crash: the lookup raises, and the reconciliation as
   FAILED that the README and the Sprint 2 document describe is answered with 400.
4. `pending_order` (`main.py:4121`): a process that stops between committing the inbox row
   and its background task leaves the delivery `pending`; redeliveries are answered as
   duplicates and nothing else reads the inbox.
5. `superseded_address` (bug, `main.py:5314`): `execute_payout` claims a payout by its state
   and pays the address of an earlier read; an affiliate who changed it in between is told
   that its open payouts were updated, and the money goes to the old one.

More that the models contain and no run repeats. An attempt whose worker died during the
provider call stays PAYING: the recovery list names it, and the endpoints that resolve
attempts (`main.py:4826`, `4895`) accept UNKNOWN only. An exception before the invoice hash
is stored leaves an UNKNOWN attempt that can be neither settled (no hash) nor failed
(`reconcile_payment_attempt` rejects FAILED, `main.py:4884`), which is why
`SentUnknownResolves` assumes a recorded hash; `UnresolvableHoldsNoMoney` shows that no NWC
payment is ever left in one. A payout of zero sats, whose reservation is complete and stores
no ledger entry, is mistaken for one without a reservation and put on hold by the backfill
that every request runs (`main.py:1909`). Two enrollment events signed within a second carry
the same time, and relays may keep either (`main.py:841`).

## 10. Plan

1. A statement of what `EInv` says of the sandbox route, which `ProofsHaveEvidence` leaves out:
   which hashes a repeated call can leave in a proof.
2. The refinement of one more abstract specification: an order and its one obligation, of
   which `OneObligationPerOrder` and `RewardsAreFinal` are the two halves.
3. Progress facts that are not liveness: from every state that `PaidIsPublished` and
   `SentUnknownResolves` speak of, the enabling conditions of the step that leaves it.

## 11. Not modelled

- Read models, pages, tracking, receipts and telemetry: they change nothing the
  properties are about.
- Signature and key handling (BIP-340, NIP-04, NWC framing): pure functions of their
  inputs, out of reach of a state model.
- Blink: its execution is disabled in the code (503).
- The wallet, the relays and the rate providers: external, modelled by what the code
  assumes of them.
- Shopify installation and OAuth: exchange of credentials, no state the orders depend on
  except the store's owner, whose change is one reason of `ProcessingFails`.
- Return windows, currencies and rounding of the merchant's commission: abstracted to the
  amounts of the instance.
- Commission versions, onboarding beyond its event, branding, the roles of merchants and
  operators (read from the environment at every request).
- Exhaustion of the connection pool: `merchant_conversion_lock` holds one connection while
  the handler takes others.
- SQLite: the locks above are PostgreSQL's; SQLite serialises writers and is for tests.

---------------------------- MODULE OrderIntake ----------------------------
(***************************************************************************)
(* How a paid order becomes one obligation (app/main.py): the Shopify      *)
(* webhook with its inbox table, the background task that processes a      *)
(* delivery, and the merchant's own POST /merchant/conversions, which      *)
(* share process_merchant_conversion and its per-order lock.  An order     *)
(* attributed to a cashback claim funds a reward (CashbackExpress), one    *)
(* attributed to an affiliate's click a conversion.                        *)
(*                                                                         *)
(* A request is a worker.  The background task of a webhook runs in the    *)
(* request that accepted it, after the response, so it is the same         *)
(* worker and dies with it.  job[w].order identifies the row; a Shopify    *)
(* order and an order of the merchant's API never share a key.             *)
(***************************************************************************)
EXTENDS CashbackExpress

CONSTANTS
    Workers,    \* requests being served
    Clicks,     \* affiliate clicks an order may be attributed to
    ApiOrders,  \* orders reported by POST /merchant/conversions
    MaxFaults   \* bound on crashes

ShopifyOrders == Orders \ ApiOrders
Sources == Clicks \cup Claims

ASSUME IntakeAssumption ==
    /\ Clicks \cap Claims = {}
    /\ ApiOrders \subseteq Orders
    /\ MaxFaults \in Nat
    /\ None \notin Clicks \cup Workers

VARIABLES
    delivery,   \* shopify_webhook_deliveries, by order_key
    conversion, \* the click of the conversion with this merchant_order_key, or None
    keyless,    \* the click of a conversion of this order without a key, or None
    orderLock,  \* who holds the order's advisory lock
    acked,      \* history: order and click of each merchant request answered "ok"
    job,        \* where each worker is
    faults      \* crashes so far

inboxVars == <<delivery, conversion, keyless, orderLock, acked>>
vars == <<cashbackVars, inboxVars, job, faults>>

-----------------------------------------------------------------------------
DeliveryStatuses == {"none", "pending", "processing", "processed", "failed"}
Steps == {"idle", "reset", "claim", "dispatch", "reward", "lookup", "create",
          "processed", "failed"}

NoDelivery == [status |-> "none", source |-> None, stale |-> FALSE]
Idle == [step |-> "idle", order |-> None, click |-> None]

InboxTypeOK ==
    /\ delivery \in [Orders -> [status : DeliveryStatuses, source : Sources \cup {None},
                                stale : BOOLEAN]]
    /\ conversion \in [Orders -> Clicks \cup {None}]
    /\ keyless \in [Orders -> Clicks \cup {None}]
    /\ orderLock \in [Orders -> Workers \cup {None}]
    /\ acked \subseteq Orders \X Clicks
    /\ job \in [Workers -> [step : Steps, order : Orders \cup {None}, click : Sources \cup {None}]]
    /\ \A w \in Workers : job[w].step # "idle" => job[w].order \in Orders
    /\ faults \in 0..MaxFaults

TypeOK == CashbackTypeOK /\ InboxTypeOK

Init ==
    /\ CashbackInit
    /\ delivery = [o \in Orders |-> NoDelivery]
    /\ conversion = [o \in Orders |-> None]
    /\ keyless = [o \in Orders |-> None]
    /\ orderLock = [o \in Orders |-> None]
    /\ acked = {}
    /\ job = [w \in Workers |-> Idle]
    /\ faults = 0

GoTo(w, s) == job' = [job EXCEPT ![w].step = s]
EndJob(w) == job' = [job EXCEPT ![w] = Idle]
StartJob(w, s, o, k) == job' = [job EXCEPT ![w] = [step |-> s, order |-> o, click |-> k]]

-----------------------------------------------------------------------------
(* The webhook: enqueue_shopify_paid_order.  A redelivery that disagrees with   *)
(* the stored row is answered as a conflict and changes nothing.                *)

\* The order names a click or a claim that was given to a buyer; a claim whose row is gone
\* is taken for a click.
ReceiveOrder(w, o, k) ==
    /\ job[w].step = "idle"
    /\ delivery[o].status = "none"
    /\ k \in Claims => claim[k].status \in Stored \cup {"deleted"}
    /\ delivery' = [delivery EXCEPT ![o] = [status |-> "pending", source |-> k, stale |-> FALSE]]
    /\ StartJob(w, "claim", o, k)
    /\ UNCHANGED <<cashbackVars, conversion, keyless, orderLock, acked, faults>>

MRetriesAnything(w, o, k) ==
    /\ job[w].step = "idle"
    /\ delivery[o].status # "none"
    /\ delivery' = [delivery EXCEPT ![o].source = k]
    /\ StartJob(w, "reset", o, k)
    /\ UNCHANGED <<cashbackVars, conversion, keyless, orderLock, acked, faults>>

MRetriesFailedOnly(w, o, k) ==
    /\ job[w].step = "idle"
    /\ delivery[o].source = k
    /\ delivery[o].status = "failed"
    /\ StartJob(w, "reset", o, k)
    /\ UNCHANGED <<cashbackVars, inboxVars, faults>>

\* The row is read without a lock; the UPDATE that follows is unconditional.
RedeliverOrder(w, o, k) ==
    /\ job[w].step = "idle"
    /\ delivery[o].source = k
    /\ delivery[o].status = "failed" \/ (delivery[o].status = "processing" /\ delivery[o].stale)
    /\ StartJob(w, "reset", o, k)
    /\ UNCHANGED <<cashbackVars, inboxVars, faults>>

ResetDelivery(w) ==
    LET o == job[w].order
    IN /\ job[w].step = "reset"
       /\ delivery' = [delivery EXCEPT ![o].status = "pending", ![o].stale = FALSE]
       /\ GoTo(w, "claim")
       /\ UNCHANGED <<cashbackVars, conversion, keyless, orderLock, acked, faults>>

\* Five minutes pass while a delivery is being processed, or after its worker died.
ProcessingGetsStale(o) ==
    /\ delivery[o].status = "processing" /\ ~delivery[o].stale
    /\ delivery' = [delivery EXCEPT ![o].stale = TRUE]
    /\ UNCHANGED <<cashbackVars, conversion, keyless, orderLock, acked, job, faults>>

-----------------------------------------------------------------------------
(* The background task: process_shopify_delivery. *)

Processable(o) ==
    delivery[o].status = "pending" \/ (delivery[o].status = "processing" /\ delivery[o].stale)

ClaimDelivery(w) ==
    LET o == job[w].order
    IN /\ job[w].step = "claim"
       /\ Processable(o)
       /\ delivery' = [delivery EXCEPT ![o].status = "processing", ![o].stale = FALSE]
       /\ GoTo(w, "dispatch")
       /\ UNCHANGED <<cashbackVars, conversion, keyless, orderLock, acked, faults>>

ClaimDeliveryRefused(w) ==
    /\ job[w].step = "claim"
    /\ ~Processable(job[w].order)
    /\ EndJob(w)
    /\ UNCHANGED <<cashbackVars, inboxVars, faults>>

Dispatch(w) ==
    LET k == delivery[job[w].order].source
    IN /\ job[w].step = "dispatch"
       /\ GoTo(w, IF k \in Claims /\ claim[k].status \in Stored THEN "reward" ELSE "lookup")
       /\ UNCHANGED <<cashbackVars, inboxVars, faults>>

\* process_cashback_reward: the order's reward if it has one, else a new one.
FundReward(w) ==
    LET o == job[w].order
    IN /\ job[w].step = "reward"
       /\ \/ Rewarded(o) /\ UNCHANGED cashbackVars
          \/ \E total \in Totals : CreateReward(o, job[w].click, total)
       /\ GoTo(w, "processed")
       /\ UNCHANGED <<inboxVars, faults>>

MarkProcessed(w) ==
    LET o == job[w].order
    IN /\ job[w].step = "processed"
       /\ delivery' = [delivery EXCEPT ![o].status = "processed", ![o].stale = FALSE]
       /\ EndJob(w)
       /\ UNCHANGED <<cashbackVars, conversion, keyless, orderLock, acked, faults>>

MarkFailed(w) ==
    LET o == job[w].order
    IN /\ job[w].step = "failed"
       /\ delivery' = [delivery EXCEPT ![o].status = "failed", ![o].stale = FALSE]
       /\ EndJob(w)
       /\ UNCHANGED <<cashbackVars, conversion, keyless, orderLock, acked, faults>>

-----------------------------------------------------------------------------
(* process_merchant_conversion, for both callers. *)

MerchantConversion(w, o, k) ==
    /\ job[w].step = "idle"
    /\ StartJob(w, "lookup", o, k)
    /\ UNCHANGED <<cashbackVars, inboxVars, faults>>

\* A conversion that POST /conversions created without a key.
PublicConversion(o, k) ==
    /\ keyless[o] = None
    /\ keyless' = [keyless EXCEPT ![o] = k]
    /\ UNCHANGED <<cashbackVars, delivery, conversion, orderLock, acked, job, faults>>

IsApi(w) == job[w].order \in ApiOrders

\* The answer to the caller: an HTTP response, or the next step of the task.
Answer(w) ==
    IF IsApi(w) THEN EndJob(w) /\ acked' = acked \cup {<<job[w].order, job[w].click>>}
    ELSE GoTo(w, "processed") /\ UNCHANGED acked

Fail(w) == (IF IsApi(w) THEN EndJob(w) ELSE GoTo(w, "failed")) /\ UNCHANGED acked

\* The proof is published after the conversion is committed; what raises there is answered
\* as an error although the conversion is stored.
Respond(w) == Answer(w) \/ Fail(w)

\* The keyed conversion, else one without a key that the lookup adopts.
MFoundWhateverItsPayload(o, k) ==
    \/ conversion[o] # None /\ UNCHANGED <<conversion, keyless>>
    \/ /\ conversion[o] = None /\ keyless[o] = k
       /\ conversion' = [conversion EXCEPT ![o] = k]
       /\ keyless' = [keyless EXCEPT ![o] = None]

FoundConversion(o, k) ==
    \/ conversion[o] = k /\ UNCHANGED <<conversion, keyless>>
    \/ /\ conversion[o] = None /\ keyless[o] = k
       /\ conversion' = [conversion EXCEPT ![o] = k]
       /\ keyless' = [keyless EXCEPT ![o] = None]

\* The lock is taken, an existing conversion with this payload is found and answered,
\* and the lock is given back.
AnswerDuplicate(w) ==
    /\ job[w].step = "lookup"
    /\ orderLock[job[w].order] = None
    /\ FoundConversion(job[w].order, job[w].click)
    /\ Respond(w)
    /\ UNCHANGED <<cashbackVars, delivery, orderLock, faults>>

\* Nothing is found: the lock is kept until the conversion is there.
LookUpNothing(w) ==
    LET o == job[w].order
    IN /\ job[w].step = "lookup"
       /\ orderLock[o] = None
       /\ conversion[o] = None /\ keyless[o] = None
       /\ orderLock' = [orderLock EXCEPT ![o] = w]
       /\ GoTo(w, "create")
       /\ UNCHANGED <<cashbackVars, delivery, conversion, keyless, acked, faults>>

Released(w) == [o \in Orders |-> IF orderLock[o] = w THEN None ELSE orderLock[o]]

\* _create_conversion, for a click the database knows.
CreateConversion(w) ==
    LET o == job[w].order
    IN /\ job[w].step = "create"
       /\ job[w].click \in Clicks
       /\ conversion' = [conversion EXCEPT ![o] = job[w].click]
       /\ orderLock' = Released(w)
       /\ Respond(w)
       /\ UNCHANGED <<cashbackVars, delivery, keyless, faults>>

\* An exception: an idempotency conflict, no quote, an inactive campaign, an unknown
\* click, a claim that cannot be funded, a store that belongs to someone else now.
ProcessingFails(w) ==
    /\ job[w].step \in {"dispatch", "reward", "lookup", "create"}
    /\ orderLock' = Released(w)
    /\ Fail(w)
    /\ UNCHANGED <<cashbackVars, delivery, conversion, keyless, faults>>

-----------------------------------------------------------------------------
\* The process dies; its database connections and their locks go with it.
Crash(w) ==
    /\ job[w].step # "idle"
    /\ faults < MaxFaults
    /\ faults' = faults + 1
    /\ orderLock' = Released(w)
    /\ EndJob(w)
    /\ UNCHANGED <<cashbackVars, delivery, conversion, keyless, acked>>

StartRequest(w) ==
    \/ \E o \in ShopifyOrders, k \in Sources : ReceiveOrder(w, o, k) \/ RedeliverOrder(w, o, k)
    \/ \E o \in ApiOrders, k \in Clicks : MerchantConversion(w, o, k)

WorkerStep(w) ==
    \/ ResetDelivery(w) \/ ClaimDelivery(w) \/ ClaimDeliveryRefused(w)
    \/ Dispatch(w) \/ FundReward(w)
    \/ AnswerDuplicate(w) \/ LookUpNothing(w) \/ CreateConversion(w)
    \/ ProcessingFails(w) \/ MarkProcessed(w) \/ MarkFailed(w)

Next ==
    \/ CashbackNext /\ UNCHANGED <<inboxVars, job, faults>>
    \/ \E o \in ShopifyOrders : ProcessingGetsStale(o)
    \/ \E o \in ApiOrders, k \in Clicks : PublicConversion(o, k)
    \/ \E w \in Workers : StartRequest(w) \/ WorkerStep(w) \/ Crash(w)

Spec == Init /\ [][Next]_vars

-----------------------------------------------------------------------------
(* Safety. *)

\* The order lock makes look-up and creation one step: a worker that creates a conversion
\* still holds the lock and nobody created it meanwhile, so the unique index on
\* merchant_order_key never refuses what the code decided to insert.
CreatorIsAlone ==
    \A w \in Workers : job[w].step = "create" =>
        orderLock[job[w].order] = w /\ conversion[job[w].order] = None

\* A merchant whose request was answered "ok" finds that very attribution stored: a reused
\* idempotency key with another payload is never acknowledged.
AckedIsStored == \A a \in acked : conversion[a[1]] = a[2]

\* An order funds at most one obligation, the one its delivery was stored with, and a
\* delivery marked processed has it, whoever processed it and however often it was retried.
OneObligationPerOrder ==
    \A o \in ShopifyOrders :
        /\ Rewarded(o) => conversion[o] = None /\ reward[o].claim = delivery[o].source
        /\ conversion[o] # None => conversion[o] = delivery[o].source
        /\ delivery[o].status = "processed" => Rewarded(o) \/ conversion[o] # None

-----------------------------------------------------------------------------
(* Liveness.  A worker runs to its end, waiting for an order lock that others   *)
(* keep giving back; five minutes pass; the shop or its operator sends again    *)
(* what has failed or hangs.                                                    *)
Fairness ==
    /\ \A w \in Workers : SF_vars(WorkerStep(w))
    /\ \A o \in ShopifyOrders :
         /\ WF_vars(ProcessingGetsStale(o))
         /\ SF_vars(\E w \in Workers, k \in Sources : RedeliverOrder(w, o, k))

FairSpec == Spec /\ Fairness

\* A delivery that is being processed ends processed or failed, by a redelivery when its
\* worker died; only another crash in the redelivery may strand it.
ProcessingResolves ==
    \A o \in ShopifyOrders, n \in 0..MaxFaults :
        delivery[o].status = "processing" /\ faults = n
            ~> delivery[o].status \in {"processed", "failed"} \/ faults > n

-----------------------------------------------------------------------------
(* What the repository says and the code does not do: see the README. *)

\* "Attributed paid orders use the same authoritative conversion ... flow": every order the
\* webhook accepted is processed, or fails and says so.
AcceptedIsProcessed ==
    \A o \in ShopifyOrders :
        delivery[o].status # "none" ~> delivery[o].status \in {"processed", "failed"}

=============================================================================

----------------------------- MODULE MCRecovery -----------------------------
(***************************************************************************)
(* What the server takes up again after a crash: the deliveries of the     *)
(* shop, which a redelivery finishes, and the outbox of Nostr proofs,      *)
(* which a thread works off.  The two share no state, so a behaviour of    *)
(* the run exercises one of them.                                          *)
(***************************************************************************)
EXTENDS OrderIntake

CONSTANTS
    Program, Enrollments, Thread, MaxEvents, MaxClock, BatchLimit, Refused

VARIABLES
    signed, event, outbox, queue, status, current, shown, relay, campaignLock, pubLock,
    publisher,  \* NostrOutbox's job
    outages,    \* its faults
    part        \* which of the two this behaviour exercises

\* One of the workers is the thread.
Outbox == INSTANCE NostrOutbox
            WITH Workers <- Workers \ {Thread}, job <- publisher, faults <- outages

outboxVars ==
    <<signed, event, outbox, queue, status, current, shown, relay, campaignLock, pubLock,
      publisher, outages>>
allVars == <<vars, outboxVars, part>>

\* Orders share no row and no lock, so a behaviour is about one of them.
Untouched(o) ==
    /\ delivery[o] = NoDelivery /\ conversion[o] = None /\ keyless[o] = None
    /\ \A w \in Workers : job[w].order # o
OrdersBound == \E o \in Orders : \A other \in Orders \ {o} : Untouched(other)

MCInit == Init /\ Outbox!Init /\ part \in {"orders", "outbox"}

MCNext ==
    /\ UNCHANGED part
    /\ \/ part = "orders" /\ Next /\ OrdersBound' /\ UNCHANGED outboxVars
       \/ part = "outbox" /\ Outbox!Next /\ UNCHANGED vars

\* The fairness of both modules; a worker's steps belong to the part that is exercised.
OfOrders(A) == part = "orders" /\ A /\ UNCHANGED <<outboxVars, part>>
OfOutbox(A) == part = "outbox" /\ A /\ UNCHANGED <<vars, part>>

MCFairness ==
    /\ \A w \in Workers :
         SF_allVars(OfOrders(WorkerStep(w)) \/ OfOutbox(Outbox!PublicationStep(w)))
    /\ \A o \in ShopifyOrders :
         /\ WF_allVars(OfOrders(ProcessingGetsStale(o)))
         /\ SF_allVars(OfOrders(\E w \in Workers, k \in Sources : RedeliverOrder(w, o, k)))
    /\ WF_allVars(OfOutbox(Outbox!ReadBatch))
    /\ \A i \in Outbox!Events \ Refused :
         SF_allVars(OfOutbox(\E w \in Workers : Outbox!Delivers(w, i)))

MCSpec == MCInit /\ [][MCNext]_allVars /\ MCFairness

\* Every pending proof the relays do not refuse for ever is published in the end, by the
\* thread of retry_pending_nostr_outbox when the request that committed it died or failed.
PendingIsPublished == Outbox!PendingIsPublished

=============================================================================

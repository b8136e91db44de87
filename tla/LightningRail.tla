----------------------------- MODULE LightningRail -----------------------------
(***************************************************************************)
(* The NWC rail of app/payment_rails.py over app/lightning.py: a Lightning *)
(* Address becomes a BOLT11 invoice, its hash is made durable, and a       *)
(* request to pay it travels through a relay to the wallet, which may take *)
(* it after the SDK gave up waiting.  Later a lookup asks the wallet what  *)
(* became of the invoice.                                                  *)
(*                                                                         *)
(* Preimages, hashes and JSON are reduced to what the code compares: an    *)
(* answer either matches the prepared invoice or does not.                 *)
(***************************************************************************)
EXTENDS Integers

CONSTANTS
    Attempts, \* payment attempts, each with an invoice of its own
    Amount,   \* the sats of the payout
    Amounts,  \* the sats an LNURL server may put in an invoice or in its limits
    NoInvoice      \* no invoice, and an invoice without an amount

ASSUME RailAssumption ==
    /\ Amount \in Nat \ {0}
    /\ Amounts \subseteq Nat
    /\ NoInvoice \notin Nat

VARIABLES
    step,     \* where pay_to_lightning_address is
    invoice,  \* the invoice it prepared
    recorded, \* its hash is in payment_attempts
    request,  \* the pay_invoice request, and what the wallet made of it
    answer,   \* what the payment call returned or raised
    lookup,   \* a lookup's result on its way to the refresh
    verdict   \* the definitive result a refresh applied

railVars == <<step, invoice, recorded, request, answer, lookup, verdict>>

Invoices == [mainnet : BOOLEAN, sats : Amounts \cup {NoInvoice}, expiresIn : {0, 60, 61}]

RailTypeOK ==
    /\ step \in [Attempts -> {"idle", "record", "send", "await", "done"}]
    /\ invoice \in [Attempts -> Invoices \cup {NoInvoice}]
    /\ recorded \in [Attempts -> BOOLEAN]
    /\ request \in [Attempts -> {"none", "queued", "paying", "settled", "failed"}]
    /\ answer \in [Attempts -> {"none", "SUCCESS", "FAILURE", "ambiguous", "raised", "lost"}]
    /\ lookup \in [Attempts -> {"none", "SUCCESS", "FAILURE"}]
    /\ verdict \in [Attempts -> {"none", "SUCCESS", "FAILURE"}]

RailInit ==
    /\ step = [a \in Attempts |-> "idle"]
    /\ invoice = [a \in Attempts |-> NoInvoice]
    /\ recorded = [a \in Attempts |-> FALSE]
    /\ request = [a \in Attempts |-> "none"]
    /\ answer = [a \in Attempts |-> "none"]
    /\ lookup = [a \in Attempts |-> "none"]
    /\ verdict = [a \in Attempts |-> "none"]

GoTo(a, s) == step' = [step EXCEPT ![a] = s]

Return(a, r) ==
    /\ answer' = [answer EXCEPT ![a] = r]
    /\ GoTo(a, "done")

-----------------------------------------------------------------------------
(* prepare_lnurl_payment and the evidence recorder. *)

\* validate_lightning_address and request_lnurl_invoice: the descriptor's limits.
WithinLimits(low, high) == low > 0 /\ low <= high /\ low <= Amount /\ Amount <= high

\* validate_bolt11_invoice.
ValidInvoice(i) ==
    /\ i.mainnet
    /\ i.sats = Amount
    /\ i.expiresIn > 60

PrepareInvoice(a) ==
    /\ step[a] = "idle"
    /\ \E low, high \in Amounts, i \in Invoices :
         /\ WithinLimits(low, high)
         /\ ValidInvoice(i)
         /\ invoice' = [invoice EXCEPT ![a] = i]
    /\ GoTo(a, "record")
    /\ UNCHANGED <<recorded, request, answer, lookup, verdict>>

\* A server that cannot be reached, refuses, or sends limits or an invoice that do not
\* fit the payout: LightningPaymentError, nothing was sent.
PreparationFails(a) ==
    /\ step[a] = "idle"
    /\ Return(a, "FAILURE")
    /\ UNCHANGED <<invoice, recorded, request, lookup, verdict>>

RecordEvidence(a) ==
    /\ step[a] = "record"
    /\ recorded' = [recorded EXCEPT ![a] = TRUE]
    /\ GoTo(a, "send")
    /\ UNCHANGED <<invoice, request, answer, lookup, verdict>>

\* The recorder refuses with a LightningPaymentError; anything else it raises (a lost
\* connection, committed or not) goes through to execute_payout.
EvidenceRefused(a) ==
    /\ step[a] = "record"
    /\ Return(a, "FAILURE")
    /\ UNCHANGED <<invoice, recorded, request, lookup, verdict>>

EvidenceRaises(a) ==
    /\ step[a] = "record"
    /\ \E committed \in BOOLEAN : recorded' = [recorded EXCEPT ![a] = committed]
    /\ Return(a, "raised")
    /\ UNCHANGED <<invoice, request, lookup, verdict>>

-----------------------------------------------------------------------------
(* pay_nwc_invoice and the wallet behind the relay. *)

\* _nwc_client raises before anything is sent.
ClientUnavailable(a) ==
    /\ step[a] = "send"
    /\ Return(a, "FAILURE")
    /\ UNCHANGED <<invoice, recorded, request, lookup, verdict>>

SendRequest(a) ==
    /\ step[a] = "send"
    /\ request' = [request EXCEPT ![a] = "queued"]
    /\ GoTo(a, "await")
    /\ UNCHANGED <<invoice, recorded, answer, lookup, verdict>>

\* The relay may deliver a request after its sender timed out, or never.
WalletTakes(a) ==
    /\ request[a] = "queued"
    /\ \E r \in {"paying", "failed"} : request' = [request EXCEPT ![a] = r]
    /\ UNCHANGED <<step, invoice, recorded, answer, lookup, verdict>>

WalletEnds(a) ==
    /\ request[a] = "paying"
    /\ \E r \in {"settled", "failed"} : request' = [request EXCEPT ![a] = r]
    /\ UNCHANGED <<step, invoice, recorded, answer, lookup, verdict>>

\* What may come back: a timeout or an error whatever happened, an answer that proves
\* nothing, or the preimage of a payment that was delivered.
PaymentReplies(a) ==
    {"error", "shortPreimage", "otherPreimage"}
        \cup (IF request[a] = "settled" THEN {"preimage"} ELSE {})

MTimeoutIsFailure(reply) ==
    CASE reply = "preimage" -> "SUCCESS" [] reply = "error" -> "FAILURE" [] OTHER -> "ambiguous"

PaymentAnswer(reply) == IF reply = "preimage" THEN "SUCCESS" ELSE "ambiguous"

PayInvoiceReturns(a) ==
    /\ step[a] = "await"
    /\ \E reply \in PaymentReplies(a) : Return(a, PaymentAnswer(reply))
    /\ UNCHANGED <<invoice, recorded, request, lookup, verdict>>

\* The process dies in the middle of the call.
CallerDies(a) ==
    /\ step[a] \in {"record", "send", "await"}
    /\ Return(a, "lost")
    /\ UNCHANGED <<invoice, recorded, request, lookup, verdict>>

-----------------------------------------------------------------------------
(* lookup_nwc_payment, and the refresh that applies its result later. *)

States == {"SETTLED", "FAILED", "EXPIRED", "PENDING"}
Matches == {"none", "same", "other"}
LookupReply == [hash : Matches, preimage : Matches, state : States]

\* The wallet is truthful about the invoice it was asked for; a reply about another
\* invoice, or with another's preimage, may say anything.
Truthful(a, reply) ==
    reply.hash = "same" /\ reply.preimage # "other" =>
        /\ reply.state = "SETTLED" <=> request[a] = "settled"
        /\ reply.state \in {"FAILED", "EXPIRED"} <=> request[a] = "failed"

LookupStatus(reply) ==
    IF reply.hash # "same" \/ reply.preimage = "other" THEN "none"
    ELSE CASE reply.state = "SETTLED" -> "SUCCESS"
           [] reply.state \in {"FAILED", "EXPIRED"} -> "FAILURE"
           [] OTHER -> "none"

\* An error, a wallet that does not know the invoice, or PENDING leave the attempt
\* unresolved: only a definitive result goes on.
LookUpPayment(a) ==
    /\ answer[a] \in {"ambiguous", "raised", "lost"} /\ recorded[a]
    /\ lookup[a] = "none" /\ verdict[a] = "none"
    /\ request[a] \in {"paying", "settled", "failed"}
    /\ \E reply \in LookupReply :
         /\ Truthful(a, reply)
         /\ LookupStatus(reply) # "none"
         /\ lookup' = [lookup EXCEPT ![a] = LookupStatus(reply)]
    /\ UNCHANGED <<step, invoice, recorded, request, answer, verdict>>

ApplyLookup(a) ==
    /\ lookup[a] # "none"
    /\ verdict' = [verdict EXCEPT ![a] = lookup[a]]
    /\ lookup' = [lookup EXCEPT ![a] = "none"]
    /\ UNCHANGED <<step, invoice, recorded, request, answer>>

-----------------------------------------------------------------------------
PayStep(a) ==
    \/ PrepareInvoice(a) \/ PreparationFails(a)
    \/ RecordEvidence(a) \/ EvidenceRefused(a) \/ EvidenceRaises(a)
    \/ ClientUnavailable(a) \/ SendRequest(a) \/ PayInvoiceReturns(a)

RailStep(a) ==
    \/ PayStep(a) \/ CallerDies(a)
    \/ WalletTakes(a) \/ WalletEnds(a)
    \/ LookUpPayment(a) \/ ApplyLookup(a)

RailNext == \E a \in Attempts : RailStep(a)

RailSpec == RailInit /\ [][RailNext]_railVars

-----------------------------------------------------------------------------
\* A payment is under way from the moment its request is handed to the relay: the sender
\* cannot tell a request that is late from one that was lost.
Contract == INSTANCE RailContract WITH
    money <- [a \in Attempts |->
                IF request[a] \in {"queued", "paying"} THEN "inflight" ELSE request[a]],
    sats <- [a \in Attempts |-> IF request[a] = "none" THEN 0 ELSE invoice[a].sats]

\* The rail keeps what PayoutLedger assumes of it: a FAILURE answer means that no sat left
\* or will leave, SUCCESS and every applied lookup tell the truth about this payment, and
\* exactly the payout's amount leaves, once.
ImplementsRailContract == Contract!Spec

=============================================================================

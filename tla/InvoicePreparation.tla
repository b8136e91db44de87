-------------------------- MODULE InvoicePreparation --------------------------
(***************************************************************************)
(* A merchant asks for the Lightning invoice of a payout or of a cashback  *)
(* reward it will pay from its own wallet (merchant_prepare_payout_invoice *)
(* and merchant_prepare_cashback_invoice, app/main.py): the row is read,   *)
(* the LNURL server is asked without any lock, and the row is read again.  *)
(* The server process remembers which preparations run and when the last   *)
(* began, by the account that asks and the item: two accounts linked to    *)
(* one merchant may prepare one item at the same time.                     *)
(***************************************************************************)
EXTENDS Naturals

CONSTANTS
    Accounts, \* merchant accounts linked to the merchant who owes the items
    Items,    \* payouts and rewards waiting to be paid by hand
    Requests, \* preparation requests being served
    Gap,      \* seconds between two preparations under one key: 5
    Purge,    \* seconds after which a beginning is forgotten: 60
    Clock,    \* bound on the monotonic clock
    NoAccount, NoItem

ASSUME PreparationAssumption ==
    /\ Gap \in Nat /\ Purge \in Nat /\ Clock \in Nat
    /\ Gap <= Purge
    /\ NoAccount \notin Accounts /\ NoItem \notin Items

VARIABLES
    open,   \* items still unpaid and payable by hand
    terms,  \* destination and amount of each item
    active, \* _INVOICE_PREPARE_ACTIVE: keys of preparations that run
    last,   \* _INVOICE_PREPARE_LAST: when the last one of a key began, 0 if forgotten
    prep,   \* what each request is doing
    seconds \* time.monotonic()

prepVars == <<open, terms, active, last, prep, seconds>>

Terms == {"old", "new"}
IdleRequest == [step |-> "idle", account |-> NoAccount, item |-> NoItem, terms |-> "old"]

\* What the limiter distinguishes: rate_key, of the account and the item.
Keys == Accounts \X Items
RateKey(r) == <<prep[r].account, prep[r].item>>

PrepTypeOK ==
    /\ open \subseteq Items
    /\ terms \in [Items -> Terms]
    /\ active \subseteq Keys
    /\ last \in [Keys -> 0..Clock]
    /\ prep \in [Requests -> [step : {"idle", "read", "await", "handed"},
                              account : Accounts \cup {NoAccount},
                              item : Items \cup {NoItem}, terms : Terms]]
    /\ seconds \in 0..Clock

PrepInit ==
    /\ open = Items
    /\ terms = [i \in Items |-> "old"]
    /\ active = {}
    /\ last = [k \in Keys |-> 0]
    /\ prep = [r \in Requests |-> IdleRequest]
    /\ seconds \in 0..Clock

Running(r) == prep[r].step \in {"await", "handed"}

-----------------------------------------------------------------------------
ReadItem(r, a, i) ==
    /\ prep[r].step = "idle"
    /\ i \in open
    /\ prep' = [prep EXCEPT ![r] =
                    [step |-> "read", account |-> a, item |-> i, terms |-> terms[i]]]
    /\ UNCHANGED <<open, terms, active, last, seconds>>

\* What the limiter still remembers when a request arrives.
Remembered == [k \in Keys |-> IF seconds - last[k] > Purge THEN 0 ELSE last[k]]

TooSoon(k) == seconds - Remembered[k] < Gap

\* The limiter's answer alone: the preparation is admitted.
Admit(r) ==
    /\ active' = active \cup {RateKey(r)}
    /\ last' = [Remembered EXCEPT ![RateKey(r)] = seconds]
    /\ prep' = [prep EXCEPT ![r].step = "await"]
    /\ UNCHANGED <<open, terms, seconds>>

MPacedOnly(r) == prep[r].step = "read" /\ ~TooSoon(RateKey(r)) /\ Admit(r)

\* Under _INVOICE_PREPARE_LOCK.
BeginPreparation(r) ==
    /\ prep[r].step = "read"
    /\ RateKey(r) \notin active /\ ~TooSoon(RateKey(r))
    /\ Admit(r)

RefuseTooSoon(r) ==
    /\ prep[r].step = "read"
    /\ RateKey(r) \in active \/ TooSoon(RateKey(r))
    /\ last' = Remembered
    /\ prep' = [prep EXCEPT ![r] = IdleRequest]
    /\ UNCHANGED <<open, terms, active, seconds>>

\* Whatever the outcome, the finally clause frees the key.
Finish(r) ==
    /\ active' = active \ {RateKey(r)}
    /\ prep' = [prep EXCEPT ![r] = IdleRequest]

\* The LNURL server fails, the client goes away, or the row changed meanwhile.
PreparationRefused(r) ==
    /\ prep[r].step = "await"
    /\ Finish(r)
    /\ UNCHANGED <<open, terms, last, seconds>>

\* The row read again is still unpaid and still says what the invoice was made for.
InvoiceAccepted(r) ==
    LET i == prep[r].item
    IN /\ prep[r].step = "await"
       /\ i \in open /\ terms[i] = prep[r].terms
       /\ prep' = [prep EXCEPT ![r].step = "handed"]
       /\ UNCHANGED <<open, terms, active, last, seconds>>

\* The QR code is drawn in another thread before the invoice is answered.
AnswerInvoice(r) ==
    /\ prep[r].step = "handed"
    /\ Finish(r)
    /\ UNCHANGED <<open, terms, last, seconds>>

\* Meanwhile the affiliate changes its address, the item is paid, reversed or declined.
ChangeTerms(i) ==
    /\ i \in open /\ terms[i] = "old"
    /\ terms' = [terms EXCEPT ![i] = "new"]
    /\ UNCHANGED <<open, active, last, prep, seconds>>

CloseItem(i) ==
    /\ i \in open
    /\ open' = open \ {i}
    /\ UNCHANGED <<terms, active, last, prep, seconds>>

SecondPasses ==
    /\ seconds < Clock
    /\ seconds' = seconds + 1
    /\ UNCHANGED <<open, terms, active, last, prep>>

PrepNext ==
    \/ \E r \in Requests :
         \/ \E a \in Accounts, i \in Items : ReadItem(r, a, i)
         \/ BeginPreparation(r) \/ RefuseTooSoon(r)
         \/ PreparationRefused(r) \/ InvoiceAccepted(r) \/ AnswerInvoice(r)
    \/ \E i \in Items : ChangeTerms(i) \/ CloseItem(i)
    \/ SecondPasses

PrepSpec == PrepInit /\ [][PrepNext]_prepVars

-----------------------------------------------------------------------------
\* An account prepares an item by one request at a time, and is refused only while one
\* runs: no failure, refusal or disconnection leaves the key in the set of the running,
\* and none takes it out for a second invoice while the first is still being prepared.
\* (Two accounts of the merchant are not kept apart: their keys differ.)
OnePreparationPerAccount ==
    /\ \A r, s \in Requests : Running(r) /\ Running(s) /\ RateKey(r) = RateKey(s) => r = s
    /\ active = {RateKey(r) : r \in {s \in Requests : Running(s)}}

=============================================================================

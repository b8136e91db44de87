------------------------------ MODULE EdgeProofs ------------------------------
(***************************************************************************)
(* What the server's edges guarantee, for every value of the constants:    *)
(* the NWC rail implements the contract PayoutLedger relies on, rates are  *)
(* served within their bounds, invoices are prepared one at a time, and an *)
(* archive is what its operator approved.  The four share no state.        *)
(***************************************************************************)
EXTENDS EdgeInvariants, TLAPS

-----------------------------------------------------------------------------
(* LightningRail. *)

LEMMA RailStarts == RailInit => RailInv
BY DEF RailInit, RailInv, RailTypeOK, PaymentInv, LookupInv

\* What an attempt's row holds, of everything the steps below compare.
LEMMA RailStepType ==
    ASSUME RailTypeOK, NEW a \in Attempts, RailStep(a)
    PROVE  RailTypeOK'
<1>1. CASE PrepareInvoice(a)
  BY <1>1 DEF PrepareInvoice, RailTypeOK, GoTo
<1>2. CASE PreparationFails(a) \/ EvidenceRefused(a) \/ EvidenceRaises(a) \/ ClientUnavailable(a) \/ CallerDies(a)
  BY <1>2 DEF PreparationFails, EvidenceRefused, EvidenceRaises, ClientUnavailable, CallerDies, Return, GoTo, RailTypeOK
<1>3. CASE RecordEvidence(a) \/ SendRequest(a)
  BY <1>3 DEF RecordEvidence, SendRequest, GoTo, RailTypeOK
<1>6. CASE WalletTakes(a) \/ WalletEnds(a)
  <2>1. \E r \in {"paying", "settled", "failed"} : request' = [request EXCEPT ![a] = r]
    BY <1>6 DEF WalletTakes, WalletEnds
  <2>2. UNCHANGED <<step, invoice, recorded, answer, lookup, verdict>>
    BY <1>6 DEF WalletTakes, WalletEnds
  <2>. QED
    BY <2>1, <2>2 DEF RailTypeOK
<1>4. CASE PayInvoiceReturns(a)
  BY <1>4 DEF PayInvoiceReturns, PaymentAnswer, Return, GoTo, RailTypeOK
<1>5. CASE LookUpPayment(a) \/ ApplyLookup(a)
  BY <1>5 DEF LookUpPayment, ApplyLookup, LookupStatus, RailTypeOK
<1>. QED
  BY <1>1, <1>2, <1>3, <1>4, <1>5, <1>6 DEF RailStep, PayStep

\* One step of attempt a leaves the rows of the others alone.
LEMMA RailStepFrame ==
    ASSUME RailTypeOK, NEW a \in Attempts, RailStep(a), NEW b \in Attempts \ {a}
    PROVE  /\ step'[b] = step[b] /\ invoice'[b] = invoice[b] /\ request'[b] = request[b]
           /\ answer'[b] = answer[b] /\ lookup'[b] = lookup[b] /\ verdict'[b] = verdict[b]
BY DEF RailStep, PayStep, PrepareInvoice, PreparationFails, RecordEvidence, EvidenceRefused,
       EvidenceRaises, ClientUnavailable, SendRequest, PayInvoiceReturns, CallerDies, WalletTakes,
       WalletEnds, LookUpPayment, ApplyLookup, Return, GoTo, RailTypeOK

LEMMA RailStepInv ==
    ASSUME RailInv, NEW a \in Attempts, RailStep(a)
    PROVE  PaymentInv(a)' /\ LookupInv(a)'
<1>. USE DEF RailInv, RailTypeOK, PaymentInv, LookupInv, OpenAnswers
<1>1. CASE PrepareInvoice(a)
  BY <1>1 DEF PrepareInvoice, ValidInvoice, GoTo
<1>2. CASE PreparationFails(a) \/ EvidenceRefused(a) \/ EvidenceRaises(a) \/ ClientUnavailable(a) \/ CallerDies(a)
  BY <1>2 DEF PreparationFails, EvidenceRefused, EvidenceRaises, ClientUnavailable, CallerDies, Return, GoTo
<1>3. CASE RecordEvidence(a) \/ SendRequest(a)
  BY <1>3 DEF RecordEvidence, SendRequest, GoTo
<1>4. CASE WalletTakes(a) \/ WalletEnds(a)
  BY <1>4 DEF WalletTakes, WalletEnds
<1>5. CASE PayInvoiceReturns(a)
  BY <1>5 DEF PayInvoiceReturns, PaymentReplies, PaymentAnswer, Return, GoTo
<1>6. CASE LookUpPayment(a)
  BY <1>6 DEF LookUpPayment, LookupStatus, LookupReply, States, Truthful
<1>7. CASE ApplyLookup(a)
  BY <1>7 DEF ApplyLookup
<1>. QED
  BY <1>1, <1>2, <1>3, <1>4, <1>5, <1>6, <1>7 DEF RailStep, PayStep

LEMMA RailNextInv == RailInv /\ [RailNext]_railVars => RailInv'
<1>. SUFFICES ASSUME RailInv, [RailNext]_railVars PROVE RailInv'
  OBVIOUS
<1>1. ASSUME NEW a \in Attempts, RailStep(a) PROVE RailInv'
  <2>1. \A b \in Attempts \ {a} : PaymentInv(b)' /\ LookupInv(b)'
    BY <1>1, RailStepFrame DEF RailInv, PaymentInv, LookupInv
  <2>. QED
    BY <1>1, <2>1, RailStepInv, RailStepType DEF RailInv
<1>2. CASE UNCHANGED railVars
  BY <1>2 DEF railVars, RailInv, RailTypeOK, PaymentInv, LookupInv
<1>. QED
  BY <1>1, <1>2 DEF RailNext

\* Requests leave only for invoices of the payout's amount, definitive answers are given
\* only when they are true, and a lookup's result stays true until it is applied.
THEOREM RailInductive == RailSpec => []RailInv
BY RailStarts, RailNextInv, PTL DEF RailSpec

\* The contract's view of an attempt.
Money(a) == IF request[a] \in {"queued", "paying"} THEN "inflight" ELSE request[a]
Sats(a) == IF request[a] = "none" THEN 0 ELSE invoice[a].sats

\* Preparing, recording and looking up are invisible to the contract.
LEMMA RailStutters ==
    ASSUME RailInv, NEW a \in Attempts,
           \/ PrepareInvoice(a) \/ RecordEvidence(a) \/ LookUpPayment(a)
           \/ WalletTakes(a) /\ request'[a] = "paying"
    PROVE  UNCHANGED Contract!contractVars
<1>1. /\ answer' = answer /\ verdict' = verdict
      /\ \A b \in Attempts : Money(b)' = Money(b) /\ Sats(b)' = Sats(b)
  <2>1. CASE PrepareInvoice(a)
    BY <2>1 DEF PrepareInvoice, RailInv, RailTypeOK, PaymentInv, Money, Sats
  <2>2. CASE RecordEvidence(a) \/ LookUpPayment(a)
    BY <2>2 DEF RecordEvidence, LookUpPayment, Money, Sats
  <2>3. CASE WalletTakes(a) /\ request'[a] = "paying"
    BY <2>3 DEF WalletTakes, RailInv, RailTypeOK, Money, Sats
  <2>. QED
    BY <2>1, <2>2, <2>3
<1>. QED
  BY <1>1, Zenon DEF Contract!contractVars, Money, Sats

LEMMA SendRequestLeaves ==
    ASSUME RailInv, NEW a \in Attempts, SendRequest(a)
    PROVE  Contract!Leaves(a)
BY DEF SendRequest, RailInv, RailTypeOK, PaymentInv, Contract!Leaves

\* The wallet refuses a request it took, or brings a payment to its end.
LEMMA WalletEndsPayment ==
    ASSUME RailInv, NEW a \in Attempts, WalletTakes(a) \/ WalletEnds(a), request'[a] # "paying"
    PROVE  Contract!Ends(a)
<1>1. /\ request[a] \in {"queued", "paying"} /\ UNCHANGED <<invoice, answer, verdict>>
      /\ \E r \in {"settled", "failed"} : request' = [request EXCEPT ![a] = r]
  BY DEF WalletTakes, WalletEnds, RailInv, RailTypeOK
<1>. QED
  BY ZenonT(30), <1>1 DEF RailInv, RailTypeOK, Contract!Ends

LEMMA ReturnAnswers ==
    ASSUME RailInv, NEW a \in Attempts,
           \/ PreparationFails(a) \/ EvidenceRefused(a) \/ EvidenceRaises(a)
           \/ ClientUnavailable(a) \/ CallerDies(a) \/ PayInvoiceReturns(a)
    PROVE  Contract!Answers(a)
<1>1. \E r \in {"SUCCESS", "FAILURE", "ambiguous", "raised", "lost"} :
        /\ answer[a] = "none" /\ answer' = [answer EXCEPT ![a] = r]
        /\ r = "SUCCESS" => request[a] = "settled"
        /\ r = "FAILURE" => request[a] = "none"
  <2>1. CASE PayInvoiceReturns(a)
    BY <2>1 DEF PayInvoiceReturns, PaymentReplies, PaymentAnswer, Return, RailInv, PaymentInv
  <2>2. CASE ~PayInvoiceReturns(a)
    BY <2>2 DEF PreparationFails, EvidenceRefused, EvidenceRaises, ClientUnavailable, CallerDies,
                Return, RailInv, PaymentInv
  <2>. QED
    BY <2>1, <2>2
<1>2. UNCHANGED <<request, invoice, verdict>>
  BY DEF PreparationFails, EvidenceRefused, EvidenceRaises, ClientUnavailable, CallerDies,
         PayInvoiceReturns, RailInv, PaymentInv
<1>. QED
  BY <1>1, <1>2 DEF Contract!Answers

LEMMA ApplyLookupResolves ==
    ASSUME RailInv, NEW a \in Attempts, ApplyLookup(a)
    PROVE  Contract!Resolves(a)
BY DEF ApplyLookup, RailInv, RailTypeOK, LookupInv, OpenAnswers, Contract!Resolves

\* PayoutLedger's wallet is what the NWC rail really gives it: money leaves once, in full
\* and for a caller that waits; FAILURE means that nothing left or will leave, SUCCESS and
\* every applied lookup tell the truth, whatever LNURL servers, relays and wallets answer,
\* however late, and wherever the caller dies.
THEOREM RailKeepsItsContract == RailSpec => ImplementsRailContract
<1>1. RailInit => Contract!Init
  BY DEF RailInit, Contract!Init
<1>2. RailInv /\ [RailNext]_railVars => [Contract!Next]_Contract!contractVars
  <2>. SUFFICES ASSUME RailInv, [RailNext]_railVars
                PROVE  Contract!Next \/ UNCHANGED Contract!contractVars
    OBVIOUS
  <2>1. ASSUME NEW a \in Attempts, RailStep(a)
        PROVE  Contract!Next \/ UNCHANGED Contract!contractVars
    <3>1. CASE \/ PrepareInvoice(a) \/ RecordEvidence(a) \/ LookUpPayment(a)
               \/ WalletTakes(a) /\ request'[a] = "paying"
      BY <3>1, RailStutters
    <3>2. CASE SendRequest(a)
      BY <3>2, SendRequestLeaves DEF Contract!Next
    <3>3. CASE (WalletTakes(a) \/ WalletEnds(a)) /\ request'[a] # "paying"
      BY <3>3, WalletEndsPayment DEF Contract!Next
    <3>4. CASE \/ PreparationFails(a) \/ EvidenceRefused(a) \/ EvidenceRaises(a)
               \/ ClientUnavailable(a) \/ CallerDies(a) \/ PayInvoiceReturns(a)
      BY <3>4, ReturnAnswers DEF Contract!Next
    <3>5. CASE ApplyLookup(a)
      BY <3>5, ApplyLookupResolves DEF Contract!Next
    <3>6. WalletEnds(a) => request'[a] # "paying"
      BY DEF WalletEnds, RailInv, RailTypeOK
    <3>. QED
      BY <2>1, <3>1, <3>2, <3>3, <3>4, <3>5, <3>6 DEF RailStep, PayStep
  <2>2. CASE UNCHANGED railVars
    BY <2>2 DEF railVars, Contract!contractVars
  <2>. QED
    BY <2>1, <2>2 DEF RailNext
<1>. QED
  BY <1>1, <1>2, RailInductive, PTL DEF RailSpec, ImplementsRailContract, Contract!Spec

-----------------------------------------------------------------------------
(* RateQuotes. *)

\* The bounds hold of what a caller was given, so they are lost only when it is given more.
LEMMA RateAnswerInv ==
    ASSUME RateInv, NEW c \in Callers, NEW q \in Quote, NEW stale \in BOOLEAN,
           NEW w \in Int, NEW m \in Int,
           ~stale => 0 <= m - q.since /\ m - q.since < CacheTtl,
           Within(w - q.observed, IF stale THEN MaxStale ELSE MaxProviderAge),
           Serve(c, q, stale, w, m),
           wall' = wall, mono' = mono, cached' \in Quote \cup {NoQuote}
    PROVE  RateInv'
<1>. DEFINE row == [step |-> "served", wall |-> w, mono |-> m, quote |-> q, stale |-> stale]
<1>1. /\ row \in Caller /\ row.quote = q /\ row.stale = stale /\ row.wall = w /\ row.mono = m
      /\ caller' = [caller EXCEPT ![c] = row] /\ holder' = NoQuote
  BY DEF Serve, Answer, Caller
<1>. HIDE DEF row
<1>2. RateTypeOK'
  BY <1>1 DEF RateInv, RateTypeOK
<1>3. ASSUME NEW d \in Callers, caller'[d].step = "served"
      PROVE  LET r == caller'[d].quote
             IN /\ ~caller'[d].stale => 0 <= caller'[d].mono - r.since
                                        /\ caller'[d].mono - r.since < CacheTtl
                /\ Within(caller'[d].wall - r.observed,
                          IF caller'[d].stale THEN MaxStale ELSE MaxProviderAge)
  <2>1. CASE d = c
    BY <1>1, <2>1 DEF RateInv, RateTypeOK
  <2>2. CASE d # c
    <3>1. caller'[d] = caller[d]
      BY <1>1, <2>2 DEF RateInv, RateTypeOK
    <3>. QED
      BY <1>3, <3>1 DEF RateInv, ServedWithinBounds
  <2>. QED
    BY <2>1, <2>2
<1>. QED
  BY <1>2, <1>3 DEF RateInv, ServedWithinBounds, Within

\* A caller that is not answered yet has nothing that could be out of bounds.
LEMMA RateWaitInv ==
    ASSUME RateInv, NEW c \in Callers, NEW row \in Caller, row.step # "served",
           caller' = [caller EXCEPT ![c] = row],
           holder' \in Callers \cup {NoQuote},
           UNCHANGED <<wall, mono, cached>>
    PROVE  RateInv'
<1>1. RateTypeOK'
  BY DEF RateInv, RateTypeOK
<1>2. \A d \in Callers : caller'[d].step = "served" => caller'[d] = caller[d]
  BY DEF RateInv, RateTypeOK
<1>. QED
  BY <1>1, <1>2 DEF RateInv, ServedWithinBounds, Within

LEMMA RateNextInv == RateInv /\ [RateNext]_rateVars => RateInv'
<1>. SUFFICES ASSUME RateInv, [RateNext]_rateVars PROVE RateInv'
  OBVIOUS
<1>a. \A c \in Callers : caller[c] \in Caller
  BY DEF RateInv, RateTypeOK
<1>b. wall \in Int /\ mono \in Int /\ cached \in Quote \cup {NoQuote} /\ holder \in Callers \cup {NoQuote}
  BY DEF RateInv, RateTypeOK
<1>1. ASSUME NEW c \in Callers, Request(c) PROVE RateInv'
  <2>. DEFINE row == [IdleCaller EXCEPT !.step = "waiting"]
  <2>3. IdleCaller \in Caller
    BY DEF IdleCaller, Caller
  <2>1. row \in Caller /\ row.step = "waiting"
    BY <2>3 DEF Caller
  <2>2. caller' = [caller EXCEPT ![c] = row] /\ UNCHANGED <<wall, mono, cached, holder>>
    BY <1>1 DEF Request
  <2>. HIDE DEF row
  <2>. QED
    BY <1>b, <2>1, <2>2, RateWaitInv
<1>2. ASSUME NEW c \in Callers, TakeCached(c) PROVE RateInv'
  <2>1. cached \in Quote /\ Within(wall - cached.observed, MaxProviderAge)
        /\ 0 <= mono - cached.since /\ mono - cached.since < CacheTtl
    BY <1>2, <1>b DEF TakeCached, Usable
  <2>. QED
    BY <1>2, <1>b, <2>1, RateAnswerInv DEF TakeCached
<1>3. ASSUME NEW c \in Callers, StartFetch(c) PROVE RateInv'
  <2>. DEFINE row == [caller[c] EXCEPT !.step = "coingecko", !.wall = wall, !.mono = mono]
  <2>1. row \in Caller /\ row.step = "coingecko" /\ caller' = [caller EXCEPT ![c] = row]
    BY <1>3, <1>a, <1>b DEF StartFetch, Caller, RateInv, RateTypeOK
  <2>. QED
    BY <1>3, <2>1, RateWaitInv DEF StartFetch
<1>4. ASSUME NEW c \in Callers, NEW observed \in WallTimes, FetchSucceeds(c, observed) PROVE RateInv'
  <2>1. observed \in Int /\ caller[c].mono \in Int /\ caller[c].wall \in Int
    BY <1>a, RateAssumption DEF Caller
  <2>2. /\ cached' \in Quote /\ cached'.observed = observed /\ cached'.since = caller[c].mono
        /\ 0 <= caller[c].mono - cached'.since /\ caller[c].mono - cached'.since < CacheTtl
        /\ Within(caller[c].wall - cached'.observed, MaxProviderAge)
    BY <1>4, <2>1, RateAssumption DEF FetchSucceeds, Quote
  <2>. QED
    BY <1>4, <2>1, <2>2, RateAnswerInv DEF FetchSucceeds
<1>5. ASSUME NEW c \in Callers, FirstProviderFails(c) PROVE RateInv'
  <2>1. [caller[c] EXCEPT !.step = "yadio"] \in Caller /\ [caller[c] EXCEPT !.step = "yadio"].step = "yadio"
    BY <1>a DEF Caller
  <2>2. caller' = [caller EXCEPT ![c] = [caller[c] EXCEPT !.step = "yadio"]]
    BY <1>5 DEF FirstProviderFails
  <2>. QED
    BY <1>5, <1>b, <2>1, <2>2, RateWaitInv DEF FirstProviderFails
<1>6. ASSUME NEW c \in Callers, SecondProviderFails(c) PROVE RateInv'
  <2>1. CASE FallsBack(caller[c].wall, caller[c].mono)
    <3>1. cached \in Quote /\ Within(caller[c].wall - cached.observed, MaxStale)
      BY <1>b, <2>1 DEF FallsBack
    <3>2. caller[c].mono \in Int /\ caller[c].wall \in Int
      BY <1>a DEF Caller
    <3>. QED
      BY <1>6, <1>b, <2>1, <3>1, <3>2, RateAnswerInv DEF SecondProviderFails
  <2>2. CASE ~FallsBack(caller[c].wall, caller[c].mono)
    <3>1. /\ [caller[c] EXCEPT !.step = "unavailable"] \in Caller
          /\ [caller[c] EXCEPT !.step = "unavailable"].step = "unavailable"
      BY <1>a DEF Caller
    <3>. QED
      BY <1>6, <2>2, <3>1, RateWaitInv DEF SecondProviderFails, Answer
  <2>. QED
    BY <2>1, <2>2
<1>7. CASE TimePasses \/ (\E t \in WallTimes : SetWallClock(t)) \/ UNCHANGED rateVars
  <2>1. caller' = caller /\ holder' = holder /\ cached' = cached /\ wall' \in Int /\ mono' \in Int
    BY <1>7, <1>b, RateAssumption DEF TimePasses, SetWallClock, rateVars
  <2>. QED
    BY <2>1 DEF RateInv, RateTypeOK, ServedWithinBounds, Within
<1>. QED
  BY <1>1, <1>2, <1>3, <1>4, <1>5, <1>6, <1>7 DEF RateNext, Fetch

\* No rate is served past its bounds, for any bounds and any number of requests, and however
\* the wall clock jumps between the reading of the clocks and the answer.
THEOREM RatesAreInBounds == RateSpec => []ServedWithinBounds
<1>1. RateInit => RateInv
  <2>. SUFFICES ASSUME RateInit PROVE RateInv
    OBVIOUS
  <2>1. IdleCaller \in Caller /\ IdleCaller.step = "idle"
    BY DEF IdleCaller, Caller
  <2>. QED
    BY <2>1, RateAssumption DEF RateInit, RateInv, RateTypeOK, ServedWithinBounds
<1>2. RateInv /\ [RateNext]_rateVars => RateInv'
  BY RateNextInv
<1>3. RateInv => ServedWithinBounds
  BY DEF RateInv
<1>. QED
  BY <1>1, <1>2, <1>3, PTL DEF RateSpec

-----------------------------------------------------------------------------
(* InvoicePreparation. *)

LEMMA RememberedType ==
    ASSUME PrepTypeOK
    PROVE  Remembered \in [Keys -> 0..Clock]
BY PreparationAssumption DEF Remembered, PrepTypeOK

\* A step that changes one request which runs neither before nor after it.
LEMMA PrepNotRunning ==
    ASSUME PrepInv, PrepTypeOK', NEW r \in Requests, NEW row,
           prep' = [prep EXCEPT ![r] = row], active' = active,
           row.step \in {"idle", "read"}, row.step # "idle" => <<row.account, row.item>> \in Keys,
           ~Running(r)
    PROVE  PrepInv'
<1>1. /\ \A s \in Requests \ {r} : prep'[s] = prep[s]
      /\ prep'[r] = row
  BY DEF PrepInv, PrepTypeOK
<1>2. /\ \A s \in Requests : Running(s)' <=> Running(s)
      /\ \A s \in Requests : Running(s) => RateKey(s)' = RateKey(s)
  BY <1>1 DEF Running, RateKey
<1>3. \A s \in Requests : prep'[s].step # "idle" => RateKey(s)' \in Keys
  BY <1>1 DEF PrepInv, RateKey, Keys
<1>. QED
  BY <1>2, <1>3 DEF PrepInv, OnePreparationPerAccount

\* A request that ends frees its key and nobody else's.
LEMMA PrepFinishes ==
    ASSUME PrepInv, PrepTypeOK', NEW r \in Requests, Running(r), Finish(r)
    PROVE  PrepInv'
<1>1. IdleRequest.step = "idle" /\ prep'[r] = IdleRequest /\ \A s \in Requests \ {r} : prep'[s] = prep[s]
  BY DEF Finish, IdleRequest, PrepInv, PrepTypeOK
<1>a. \A s \in Requests \ {r} : RateKey(s)' = RateKey(s)
  BY <1>1 DEF RateKey
<1>2. \A s \in Requests : prep'[s].step # "idle" => RateKey(s)' \in Keys
  BY <1>1, <1>a DEF PrepInv, Keys
<1>3. \A s \in Requests : Running(s)' <=> s # r /\ Running(s)
  BY <1>1 DEF Running
<1>4. active' = {RateKey(q)' : q \in {s \in Requests : Running(s)'}}
  <2>1. active' = active \ {RateKey(r)}
    BY DEF Finish
  <2>2. \A k \in active : \E s \in Requests : Running(s) /\ RateKey(s) = k
    BY DEF PrepInv, OnePreparationPerAccount
  <2>3. \A s \in Requests : Running(s) => RateKey(s) \in active
    BY DEF PrepInv, OnePreparationPerAccount
  <2>4. \A s \in Requests : Running(s) /\ RateKey(s) = RateKey(r) => s = r
    BY DEF PrepInv, OnePreparationPerAccount
  <2>5. \A k \in active' : \E s \in Requests : Running(s)' /\ RateKey(s)' = k
    BY <1>a, <1>3, <2>1, <2>2
  <2>6. \A s \in Requests : Running(s)' => RateKey(s)' \in active'
    BY <1>a, <1>3, <2>1, <2>3, <2>4
  <2>. QED
    BY <2>5, <2>6
<1>5. \A p, q \in Requests : Running(p)' /\ Running(q)' /\ RateKey(p)' = RateKey(q)' => p = q
  BY <1>a, <1>3 DEF PrepInv, OnePreparationPerAccount
<1>. QED
  BY <1>2, <1>4, <1>5 DEF PrepInv, OnePreparationPerAccount

LEMMA PrepNextType == PrepInv /\ [PrepNext]_prepVars => PrepTypeOK'
<1>. SUFFICES ASSUME PrepInv, [PrepNext]_prepVars PROVE PrepTypeOK'
  OBVIOUS
<1>a. PrepTypeOK /\ Remembered \in [Keys -> 0..Clock]
  BY RememberedType DEF PrepInv
<1>1. ASSUME NEW r \in Requests, NEW a \in Accounts, NEW i \in Items, ReadItem(r, a, i) PROVE PrepTypeOK'
  BY <1>1, <1>a DEF ReadItem, PrepTypeOK
<1>2. ASSUME NEW r \in Requests, BeginPreparation(r) PROVE PrepTypeOK'
  <2>1. RateKey(r) \in Keys
    BY <1>2 DEF BeginPreparation, PrepInv
  <2>. QED
    BY <1>2, <1>a, <2>1 DEF BeginPreparation, Admit, PrepTypeOK
<1>3. ASSUME NEW r \in Requests, RefuseTooSoon(r) PROVE PrepTypeOK'
  BY <1>3, <1>a DEF RefuseTooSoon, IdleRequest, PrepTypeOK, Terms
<1>4. ASSUME NEW r \in Requests, PreparationRefused(r) \/ AnswerInvoice(r) PROVE PrepTypeOK'
  BY <1>4, <1>a DEF PreparationRefused, AnswerInvoice, Finish, IdleRequest, PrepTypeOK, Terms
<1>5. ASSUME NEW r \in Requests, InvoiceAccepted(r) PROVE PrepTypeOK'
  BY <1>5, <1>a DEF InvoiceAccepted, PrepTypeOK
<1>6. ASSUME NEW i \in Items, ChangeTerms(i) \/ CloseItem(i) PROVE PrepTypeOK'
  BY <1>6, <1>a DEF ChangeTerms, CloseItem, PrepTypeOK, Terms
<1>7. CASE SecondPasses
  BY <1>7, <1>a, PreparationAssumption DEF SecondPasses, PrepTypeOK
<1>8. CASE UNCHANGED prepVars
  BY <1>8, <1>a DEF prepVars, PrepTypeOK
<1>. QED
  BY <1>1, <1>2, <1>3, <1>4, <1>5, <1>6, <1>7, <1>8 DEF PrepNext

LEMMA PrepNextInv == PrepInv /\ [PrepNext]_prepVars => PrepInv'
<1>. SUFFICES ASSUME PrepInv, [PrepNext]_prepVars PROVE PrepInv'
  OBVIOUS
<1>a. PrepTypeOK /\ PrepTypeOK'
  BY PrepNextType DEF PrepInv
<1>1. ASSUME NEW r \in Requests, NEW a \in Accounts, NEW i \in Items, ReadItem(r, a, i) PROVE PrepInv'
  <2>. DEFINE row == [step |-> "read", account |-> a, item |-> i, terms |-> terms[i]]
  <2>1. row.step = "read" /\ <<row.account, row.item>> \in Keys /\ prep' = [prep EXCEPT ![r] = row] /\ active' = active /\ ~Running(r)
    BY <1>1 DEF ReadItem, Running, Keys
  <2>. HIDE DEF row
  <2>. QED
    BY <1>a, <2>1, PrepNotRunning
<1>2. ASSUME NEW r \in Requests, BeginPreparation(r) PROVE PrepInv'
  <2>. DEFINE k == RateKey(r)
  <2>1. k \in Keys /\ k \notin active /\ ~Running(r) /\ active' = active \cup {k}
    BY <1>2 DEF BeginPreparation, Admit, PrepInv, Running
  <2>2. /\ prep'[r].step = "await" /\ RateKey(r)' = k
        /\ \A s \in Requests \ {r} : prep'[s] = prep[s]
    BY <1>2, <1>a DEF BeginPreparation, Admit, PrepTypeOK, RateKey
  <2>3. /\ \A s \in Requests : Running(s)' <=> s = r \/ Running(s)
        /\ \A s \in Requests \ {r} : RateKey(s)' = RateKey(s)
    BY <2>2 DEF Running, RateKey
  <2>4. \A s \in Requests : prep'[s].step # "idle" => RateKey(s)' \in Keys
    BY <2>1, <2>2, <2>3 DEF PrepInv
  <2>. HIDE DEF k
  <2>5. /\ \A s \in Requests : Running(s) => RateKey(s) \in active
        /\ \A x \in active : \E s \in Requests : Running(s) /\ RateKey(s) = x
        /\ \A s, t \in Requests : Running(s) /\ Running(t) /\ RateKey(s) = RateKey(t) => s = t
    BY DEF PrepInv, OnePreparationPerAccount
  <2>6. \A s, t \in Requests : Running(s)' /\ Running(t)' /\ RateKey(s)' = RateKey(t)' => s = t
    BY <2>1, <2>2, <2>3, <2>5
  <2>7. active' = {RateKey(q)' : q \in {s \in Requests : Running(s)'}}
    <3>1. \A s \in Requests : Running(s)' => RateKey(s)' \in active'
      BY <2>1, <2>2, <2>3, <2>5
    <3>2. \A x \in active' : \E s \in Requests : Running(s)' /\ RateKey(s)' = x
      BY <2>1, <2>2, <2>3, <2>5
    <3>. QED
      BY <3>1, <3>2
  <2>. QED
    BY <1>a, <2>4, <2>6, <2>7 DEF PrepInv, OnePreparationPerAccount
<1>3. ASSUME NEW r \in Requests, RefuseTooSoon(r) PROVE PrepInv'
  BY <1>3, <1>a, PrepNotRunning DEF RefuseTooSoon, Running, IdleRequest
<1>4. ASSUME NEW r \in Requests, PreparationRefused(r) \/ AnswerInvoice(r) PROVE PrepInv'
  BY <1>4, <1>a, PrepFinishes DEF PreparationRefused, AnswerInvoice, Running
<1>5. ASSUME NEW r \in Requests, InvoiceAccepted(r) PROVE PrepInv'
  <2>1. /\ prep'[r].step = "handed" /\ RateKey(r)' = RateKey(r) /\ Running(r) /\ active' = active
        /\ RateKey(r) \in Keys /\ \A s \in Requests \ {r} : prep'[s] = prep[s]
    BY <1>5, <1>a DEF InvoiceAccepted, PrepTypeOK, Running, PrepInv, RateKey
  <2>2. \A s \in Requests : (Running(s)' <=> Running(s)) /\ RateKey(s)' = RateKey(s)
    BY <2>1 DEF Running, RateKey
  <2>. QED
    BY <1>a, <2>1, <2>2 DEF PrepInv, OnePreparationPerAccount
<1>6. CASE (\E i \in Items : ChangeTerms(i) \/ CloseItem(i)) \/ SecondPasses \/ UNCHANGED prepVars
  <2>1. prep' = prep /\ active' = active
    BY <1>6 DEF ChangeTerms, CloseItem, SecondPasses, prepVars
  <2>. QED
    BY <1>a, <2>1 DEF PrepInv, OnePreparationPerAccount, Running, RateKey
<1>. QED
  BY <1>1, <1>2, <1>3, <1>4, <1>5, <1>6 DEF PrepNext

\* No two requests of one account ever prepare an invoice of one item together, and a key is
\* refused as running exactly while one does, for any number of accounts, items, requests
\* and seconds.  (The key of the limiter is account and item; see InvoicePreparation.)
THEOREM PreparationsAreAlone == PrepSpec => []OnePreparationPerAccount
<1>1. PrepInit => PrepInv
  <2>. SUFFICES ASSUME PrepInit PROVE PrepInv
    OBVIOUS
  <2>1. PrepTypeOK
    BY PreparationAssumption DEF PrepInit, PrepTypeOK, IdleRequest, Terms, Keys
  <2>2. \A r \in Requests : prep[r].step = "idle"
    BY DEF PrepInit, IdleRequest
  <2>. QED
    BY <2>1, <2>2 DEF PrepInit, PrepInv, OnePreparationPerAccount, Running
<1>2. PrepInv /\ [PrepNext]_prepVars => PrepInv'
  BY PrepNextInv
<1>3. PrepInv => OnePreparationPerAccount
  BY DEF PrepInv
<1>. QED
  BY <1>1, <1>2, <1>3, PTL DEF PrepSpec

-----------------------------------------------------------------------------
(* OperationalArchive. *)

LEMMA RowsType ==
    ASSUME ArchiveTypeOK, NEW S \in SUBSET Conversions
    PROVE  Rows(S) \in SUBSET Row
BY DEF ArchiveTypeOK, Rows, Row

\* A conversion that owes nothing owes nothing after any step of the store.
ActivityStep(c) ==
    \/ \E fee \in BOOLEAN : CreateSale(c, fee)
    \/ ClaimForPayment(c) \/ RecordSuccess(c) \/ RecordFailure(c)
    \/ FinalizePayout(c) \/ ReverseConversion(c)

LEMMA ActivityType ==
    ASSUME ArchiveTypeOK, NEW c \in Conversions, ActivityStep(c)
    PROVE  /\ ArchiveTypeOK'
           /\ \A d \in Conversions \ {c} : sale'[d] = sale[d] /\ due'[d] = due[d]
           /\ UNCHANGED <<archived, batch, file, run, lockVars>>
<1>1. PICK s \in Sale, d \in Due : Activity(c, s, d)
  <2>1. sale[c] \in Sale /\ due[c] \in Due
    BY DEF ArchiveTypeOK
  <2>2. Cancelled \in Due
    BY DEF Cancelled, Due
  <2>3. ASSUME NEW fee \in BOOLEAN, CreateSale(c, fee) PROVE \E s \in Sale, d \in Due : Activity(c, s, d)
    BY <2>3 DEF CreateSale, Sale, Due
  <2>4. ASSUME NEW x \in {"PAYING", "SETTLED", "PAYABLE", "PUBLISHED"}
        PROVE  [due[c] EXCEPT !.state = x] \in Due
    BY <2>1 DEF Due
  <2>5. CASE ClaimForPayment(c) \/ RecordSuccess(c) \/ RecordFailure(c)
    BY <2>1, <2>2, <2>4, <2>5 DEF ClaimForPayment, RecordSuccess, RecordFailure
  <2>6. CASE FinalizePayout(c)
    <3>1. [due[c] EXCEPT !.reserved = @ /\ sale[c].fee] \in Due
      BY <2>1 DEF Due, Sale
    <3>. QED
      BY <2>1, <2>4, <2>6, <3>1 DEF FinalizePayout
  <2>7. CASE ReverseConversion(c)
    <3>1. [sale[c] EXCEPT !.status = "reversed"] \in Sale
      BY <2>1 DEF Sale
    <3>2. /\ [due[c] EXCEPT !.state = "CANCEL_PENDING", !.cancelled = TRUE] \in Due
          /\ [due[c] EXCEPT !.cancelled = TRUE, !.reserved = FALSE] \in Due
      BY <2>1 DEF Due
    <3>. DEFINE d == CASE due[c].state = "PAYABLE" -> Cancelled
                  [] due[c].state = "PAYING" ->
                       [due[c] EXCEPT !.state = "CANCEL_PENDING", !.cancelled = TRUE]
                  [] due[c].state \in {"SETTLED", "PUBLISHED"} /\ due[c].reserved ->
                       [due[c] EXCEPT !.cancelled = TRUE, !.reserved = FALSE]
                  [] OTHER -> due[c]
    <3>3. d \in {Cancelled, [due[c] EXCEPT !.state = "CANCEL_PENDING", !.cancelled = TRUE],
                 [due[c] EXCEPT !.cancelled = TRUE, !.reserved = FALSE], due[c]}
      OBVIOUS
    <3>4. d \in Due
      BY <2>1, <2>2, <3>2, <3>3, Zenon
    <3>. QED
      BY <2>7, <3>1, <3>4, Zenon DEF ReverseConversion
  <2>. QED
    BY <2>3, <2>5, <2>6, <2>7 DEF ActivityStep
<1>. QED
  BY <1>1 DEF Activity, ArchiveTypeOK, lockVars

LEMMA FinalStaysFinal ==
    ASSUME ArchiveTypeOK, NEW c \in Conversions, ActivityStep(c),
           sale[c].status # "none", ~Blocking(c)
    PROVE  sale'[c].status # "none" /\ ~Blocking(c)'
<1>. DEFINE final == {"SETTLED", "PUBLISHED", "CANCELLED"}
<1>1. /\ sale[c] \in Sale /\ due[c] \in Due /\ due[c].state \in final
      /\ (sale[c].fee \/ due[c].reserved) => due[c].cancelled
  BY DEF ArchiveTypeOK, Blocking
<1>2. ASSUME NEW s, NEW d, Activity(c, s, d) PROVE sale'[c] = s /\ due'[c] = d
  BY <1>2 DEF Activity, ArchiveTypeOK
<1>3. CASE FinalizePayout(c)
  <2>1. CASE Activity(c, sale[c], [due[c] EXCEPT !.reserved = @ /\ sale[c].fee])
    <3>. DEFINE d == [due[c] EXCEPT !.reserved = due[c].reserved /\ sale[c].fee]
    <3>1. d.state = due[c].state /\ d.cancelled = due[c].cancelled /\ d.reserved = (due[c].reserved /\ sale[c].fee)
      BY <1>1 DEF Due
    <3>2. sale'[c] = sale[c] /\ due'[c] = d
      BY <1>2, <2>1
    <3>. QED
      BY <1>1, <3>1, <3>2 DEF Blocking, Due, Sale
  <2>2. CASE Activity(c, sale[c], [due[c] EXCEPT !.state = "PUBLISHED"])
    <3>. DEFINE d == [due[c] EXCEPT !.state = "PUBLISHED"]
    <3>1. d.state = "PUBLISHED" /\ d.cancelled = due[c].cancelled /\ d.reserved = due[c].reserved
      BY <1>1 DEF Due
    <3>2. sale'[c] = sale[c] /\ due'[c] = d
      BY <1>2, <2>2
    <3>. QED
      BY <1>1, <3>1, <3>2 DEF Blocking
  <2>. QED
    BY <1>3, <2>1, <2>2 DEF FinalizePayout
<1>4. CASE ReverseConversion(c)
  <2>. DEFINE s == [sale[c] EXCEPT !.status = "reversed"]
              d == [due[c] EXCEPT !.cancelled = TRUE, !.reserved = FALSE]
              reserved == due[c].state \in {"SETTLED", "PUBLISHED"} /\ due[c].reserved
  <2>1. /\ s.status = "reversed" /\ s.fee = sale[c].fee
        /\ d.state = due[c].state /\ d.cancelled = TRUE /\ d.reserved = FALSE
    BY <1>1 DEF Due, Sale
  <2>2. Activity(c, s, d) \/ Activity(c, s, due[c])
    <3>1. CASE reserved
      BY <1>4, <3>1 DEF ReverseConversion
    <3>2. CASE ~reserved
      BY <1>1, <1>4, <3>2 DEF ReverseConversion
    <3>. QED
      BY <3>1, <3>2
  <2>. HIDE DEF s, d
  <2>3. sale'[c] = s /\ due'[c] \in {d, due[c]}
    BY <1>2, <2>2
  <2>. QED
    BY <1>1, <2>1, <2>3 DEF Blocking
<1>. QED
  BY <1>1, <1>3, <1>4 DEF ActivityStep, CreateSale, ClaimForPayment, RecordSuccess, RecordFailure

\* A step that moves neither sales, payouts, archived conversions nor batches, keeps every
\* written file and moves one run to a state that is fine by itself.
LEMMA OneRunMoves ==
    ASSUME ArchiveInv, ArchiveTypeOK', NEW w \in Workers,
           UNCHANGED <<sale, due, archived, batch>>,
           \A f \in Files : file[f].exists => file'[f] = file[f],
           \A v \in Workers \ {w} : run'[v] = run[v] /\ todo'[v] = todo[v] /\ held'[v] = held[v],
           RunInv(w)'
    PROVE  ArchiveInv'
<1>1. \A rows : Backed(rows) => Backed(rows)'
  BY DEF Backed
<1>2. \A c : Blocking(c)' <=> Blocking(c)
  BY DEF Blocking
<1>3. ASSUME NEW v \in Workers \ {w} PROVE RunInv(v)'
  <2>1. Rows(run[v].sales)' = Rows(run[v].sales)
    BY DEF Rows
  <2>2. RunInv(v)
    BY DEF ArchiveInv
  <2>3. run'[v] = run[v] /\ todo'[v] = todo[v] /\ held'[v] = held[v] /\ sale' = sale
    OBVIOUS
  <2>4. run[v].step = "commit" => Backed(run[v].approved)'
    BY <1>1, <2>2 DEF RunInv
  <2>. QED
    BY <1>2, <2>1, <2>2, <2>3, <2>4 DEF RunInv
<1>. QED
  BY <1>1, <1>2, <1>3 DEF ArchiveInv

LEMMA ActivityInv ==
    ASSUME ArchiveInv, NEW c \in Conversions, ActivityStep(c)
    PROVE  ArchiveInv'
<1>1. /\ ArchiveTypeOK /\ ArchiveTypeOK'
      /\ \A d \in Conversions \ {c} : sale'[d] = sale[d] /\ due'[d] = due[d]
      /\ UNCHANGED <<archived, batch, file, run, lockVars>>
  BY ActivityType DEF ArchiveInv
<1>2. \A d \in Conversions : sale[d].status # "none" => sale'[d].status # "none"
  <2>1. sale[c].status # "none" => sale'[c].status # "none"
    BY <1>1 DEF ActivityStep, CreateSale, ClaimForPayment, RecordSuccess, RecordFailure,
                FinalizePayout, ReverseConversion, Activity, ArchiveTypeOK, Sale
  <2>. QED
    BY <1>1, <2>1
<1>3. \A d \in Conversions : sale[d].status # "none" /\ ~Blocking(d) => ~Blocking(d)'
  BY <1>1, FinalStaysFinal DEF Blocking
<1>4. ASSUME NEW w \in Workers PROVE RunInv(w)'
  <2>1. run'[w] = run[w] /\ run[w].sales \in SUBSET Conversions /\ held' = held /\ todo' = todo /\ file' = file
    BY <1>1 DEF ArchiveTypeOK, lockVars
  <2>2. CASE run[w].step \in CheckedSteps
    <3>1. CampaignState \in held[w]
      BY <2>2 DEF ArchiveInv, RunInv, LockedSteps, CheckedSteps
    <3>2. c \notin run[w].sales
      <4>1. ASSUME c \in run[w].sales PROVE FALSE
        <5>1. DueLocked(c) /\ ~CampaignLockIsFree
          BY <2>2, <3>1, <4>1 DEF DueLocked, CampaignLockIsFree, CheckedSteps
        <5>. QED
          BY <5>1 DEF ActivityStep, CreateSale, ClaimForPayment, RecordSuccess, RecordFailure,
                      FinalizePayout, ReverseConversion
      <4>. QED
        BY <4>1
    <3>3. \A d \in run[w].sales : sale'[d] = sale[d] /\ due'[d] = due[d]
      BY <1>1, <2>1, <3>2
    <3>4. Rows(run[w].sales)' = Rows(run[w].sales)
      BY <2>1, <3>3 DEF Rows
    <3>. QED
      BY <1>2, <2>1, <3>3, <3>4 DEF ArchiveInv, RunInv, Backed, Blocking
  <2>3. CASE run[w].step \notin CheckedSteps
    BY <1>2, <2>1, <2>3 DEF ArchiveInv, RunInv, CheckedSteps
  <2>. QED
    BY <2>2, <2>3
<1>. QED
  BY <1>1, <1>2, <1>3, <1>4 DEF ArchiveInv, ArchiveTypeOK, Backed

\* What a run's record may become, and what its locks and file may.
LEMMA RunType ==
    ASSUME ArchiveTypeOK, NEW w \in Workers,
           UNCHANGED <<sale, due>>,
           NEW row \in [step : {"idle", "check", "sales", "dues", "backup", "commit"},
                        approved : SUBSET Row, sales : SUBSET Conversions],
           run' = [run EXCEPT ![w] = row],
           archived' \subseteq Conversions,
           batch' \subseteq [approved : SUBSET Row, marked : SUBSET Row],
           file' \in [Files -> [exists : BOOLEAN, rows : SUBSET Row]],
           todo' \in [Workers -> Seq({CampaignState})],
           held' \in [Workers -> SUBSET {CampaignState}]
    PROVE  ArchiveTypeOK' /\ run'[w] = row /\ \A v \in Workers \ {w} : run'[v] = run[v]
BY DEF ArchiveTypeOK

RunRow == [step : {"idle", "check", "sales", "dues", "backup", "commit"},
           approved : SUBSET Row, sales : SUBSET Conversions]

LEMMA NoRunFields == NoRun \in RunRow /\ NoRun.step = "idle" /\ NoRun.sales = {}
BY DEF NoRun, RunRow

LEMMA EndRunInv ==
    ASSUME ArchiveInv, NEW w \in Workers, EndRun(w),
           UNCHANGED <<sale, due, archived, batch>>,
           file' \in [Files -> [exists : BOOLEAN, rows : SUBSET Row]],
           \A f \in Files : file[f].exists => file'[f] = file[f]
    PROVE  ArchiveInv'
<1>1. /\ run' = [run EXCEPT ![w] = NoRun]
      /\ todo' = [todo EXCEPT ![w] = <<>>] /\ held' = [held EXCEPT ![w] = {}]
  BY DEF EndRun, GiveBack
<1>2. /\ todo' \in [Workers -> Seq({CampaignState})] /\ held' \in [Workers -> SUBSET {CampaignState}]
      /\ \A v \in Workers \ {w} : todo'[v] = todo[v] /\ held'[v] = held[v]
  BY <1>1 DEF ArchiveInv, ArchiveTypeOK
<1>3. ArchiveTypeOK' /\ run'[w] = NoRun /\ \A v \in Workers \ {w} : run'[v] = run[v]
  BY <1>1, <1>2, NoRunFields, RunType DEF ArchiveInv, RunRow, ArchiveTypeOK
<1>4. RunInv(w)'
  BY <1>3, NoRunFields DEF RunInv, LockedSteps, CheckedSteps
<1>. QED
  BY <1>2, <1>3, <1>4, OneRunMoves

LEMMA ApprovalStarts ==
    ASSUME ArchiveInv, NEW w \in Workers, StartArchive(w) \/ CheckPreview(w)
    PROVE  ArchiveInv'
<1>a. ArchiveTypeOK /\ run[w] \in RunRow
  BY DEF ArchiveInv, ArchiveTypeOK, RunRow
<1>1. CASE StartArchive(w)
  <2>1. PICK rows \in {Rows(Candidates)} \cup {b.approved : b \in batch} \cup {file[g].rows : g \in Files} :
          run' = [run EXCEPT ![w] = [NoRun EXCEPT !.step = "check", !.approved = rows]]
    BY <1>1 DEF StartArchive
  <2>2. rows \in SUBSET Row
    <3>1. Rows(Candidates) \in SUBSET Row
      BY <1>a, RowsType DEF Candidates
    <3>2. \A b \in batch : b.approved \in SUBSET Row
      BY <1>a DEF ArchiveTypeOK
    <3>3. \A g \in Files : file[g].rows \in SUBSET Row
      BY <1>a DEF ArchiveTypeOK
    <3>. QED
      BY <2>1, <3>1, <3>2, <3>3
  <2>. DEFINE row == [NoRun EXCEPT !.step = "check", !.approved = rows]
  <2>3. row \in RunRow /\ row.step = "check" /\ row.sales = {}
    BY <2>2, NoRunFields DEF RunRow
  <2>4. run' = [run EXCEPT ![w] = row] /\ UNCHANGED <<sale, due, archived, batch, file, todo, held>>
    BY <1>1, <2>1 DEF StartArchive, activityVars, lockVars
  <2>. HIDE DEF row
  <2>5. ArchiveTypeOK' /\ run'[w] = row /\ \A v \in Workers \ {w} : run'[v] = run[v]
    BY <1>a, <2>3, <2>4, RunType DEF RunRow, ArchiveTypeOK
  <2>6. RunInv(w)'
    BY <2>3, <2>5 DEF RunInv, LockedSteps, CheckedSteps
  <2>. QED
    BY <2>4, <2>5, <2>6, OneRunMoves
<1>2. CASE CheckPreview(w)
  <2>. DEFINE row == [run[w] EXCEPT !.step = "sales"]
  <2>1. row \in RunRow /\ row.step = "sales" /\ row.sales = run[w].sales
    BY <1>a DEF RunRow
  <2>2. /\ run' = [run EXCEPT ![w] = row] /\ UNCHANGED <<sale, due, archived, batch, file, held>>
        /\ todo' = [todo EXCEPT ![w] = <<CampaignState>>]
    BY <1>2 DEF CheckPreview, Goes, WillTake, activityVars
  <2>3. <<CampaignState>> \in Seq({CampaignState}) /\ <<CampaignState>> # <<>>
    OBVIOUS
  <2>4. todo' \in [Workers -> Seq({CampaignState})] /\ todo'[w] # <<>> /\ \A v \in Workers \ {w} : todo'[v] = todo[v]
    BY <1>a, <2>2, <2>3 DEF ArchiveTypeOK
  <2>. HIDE DEF row
  <2>5. ArchiveTypeOK' /\ run'[w] = row /\ \A v \in Workers \ {w} : run'[v] = run[v]
    BY <1>a, <2>1, <2>2, <2>4, RunType DEF RunRow, ArchiveTypeOK
  <2>6. RunInv(w)'
    BY <2>1, <2>2, <2>4, <2>5 DEF ArchiveInv, RunInv, LockedSteps, CheckedSteps
  <2>. QED
    BY <2>2, <2>4, <2>5, <2>6, OneRunMoves
<1>. QED
  BY <1>1, <1>2

LEMMA RowsAreLocked ==
    ASSUME ArchiveInv, NEW w \in Workers, LockSales(w) \/ LockDues(w)
    PROVE  ArchiveInv'
<1>a. ArchiveTypeOK /\ run[w] \in RunRow
  BY DEF ArchiveInv, ArchiveTypeOK, RunRow
<1>b. UNCHANGED <<sale, due, archived, batch, file, todo, held>>
  BY DEF LockSales, LockDues, activityVars, lockVars
<1>1. CASE LockSales(w)
  <2>. DEFINE row == [run[w] EXCEPT !.step = "dues", !.sales = Candidates]
  <2>1. row \in RunRow /\ row.step = "dues" /\ row.sales = Candidates
    BY <1>a DEF RunRow, Candidates
  <2>2. run' = [run EXCEPT ![w] = row] /\ CampaignState \in held[w]
    BY <1>1 DEF LockSales, HasItsLocks, ArchiveInv, RunInv
  <2>. HIDE DEF row
  <2>3. ArchiveTypeOK' /\ run'[w] = row /\ \A v \in Workers \ {w} : run'[v] = run[v]
    BY <1>a, <1>b, <2>1, <2>2, RunType DEF RunRow, ArchiveTypeOK
  <2>4. RunInv(w)'
    BY <1>b, <2>1, <2>2, <2>3 DEF RunInv, Candidates, CheckedSteps
  <2>. QED
    BY SMTT(30), <1>b, <2>3, <2>4, OneRunMoves
<1>2. CASE LockDues(w)
  <2>. DEFINE row == [run[w] EXCEPT !.step = "backup"]
  <2>1. row \in RunRow /\ row.step = "backup" /\ row.sales = run[w].sales /\ row.approved = run[w].approved
    BY <1>a DEF RunRow
  <2>2. run' = [run EXCEPT ![w] = row] /\ Rows(run[w].sales) = run[w].approved
        /\ (\A c \in run[w].sales : ~Blocking(c)) /\ CampaignState \in held[w]
    BY <1>2 DEF LockDues, Goes, ArchiveInv, RunInv, LockedSteps
  <2>. HIDE DEF row
  <2>3. ArchiveTypeOK' /\ run'[w] = row /\ \A v \in Workers \ {w} : run'[v] = run[v]
    BY <1>a, <1>b, <2>1, <2>2, RunType DEF RunRow, ArchiveTypeOK
  <2>4. Rows(run[w].sales)' = Rows(run'[w].sales)
    BY <1>b, <2>1, <2>3 DEF Rows
  <2>5. RunInv(w)'
    BY <1>b, <2>1, <2>2, <2>3, <2>4 DEF ArchiveInv, RunInv, Rows, Blocking
  <2>. QED
    BY <1>b, <2>3, <2>5, OneRunMoves
<1>. QED
  BY <1>1, <1>2

LEMMA CampaignLockIsTaken ==
    ASSUME ArchiveInv, NEW w \in Workers, TakeLock(w),
           UNCHANGED <<activityVars, archived, batch, file, run>>
    PROVE  ArchiveInv'
<1>1. /\ ArchiveTypeOK /\ UNCHANGED <<sale, due, archived, batch, file, run>>
      /\ todo[w] \in Seq({CampaignState}) /\ todo[w] # <<>>
      /\ held' = [held EXCEPT ![w] = @ \cup {Head(todo[w])}] /\ todo' = [todo EXCEPT ![w] = Tail(@)]
  BY DEF ArchiveInv, ArchiveTypeOK, TakeLock, activityVars
<1>2. Head(todo[w]) = CampaignState /\ Tail(todo[w]) \in Seq({CampaignState})
  <2>1. Head(todo[w]) \in {CampaignState} /\ Tail(todo[w]) \in Seq({CampaignState})
    BY <1>1
  <2>. QED
    BY <2>1
<1>3. /\ todo' \in [Workers -> Seq({CampaignState})] /\ held' \in [Workers -> SUBSET {CampaignState}]
      /\ \A v \in Workers \ {w} : todo'[v] = todo[v] /\ held'[v] = held[v]
      /\ CampaignState \in held'[w]
  BY <1>1, <1>2 DEF ArchiveTypeOK
<1>4. ArchiveTypeOK'
  BY <1>1, <1>3 DEF ArchiveTypeOK
<1>5. RunInv(w)'
  <2>1. RunInv(w)
    BY DEF ArchiveInv
  <2>2. Rows(run[w].sales)' = Rows(run[w].sales) /\ \A c : Blocking(c)' <=> Blocking(c)
    BY <1>1 DEF Rows, Blocking
  <2>. QED
    BY <1>1, <1>3, <2>1, <2>2 DEF RunInv, Backed
<1>. QED
  BY <1>1, <1>3, <1>4, <1>5, OneRunMoves

LEMMA BackupIsWritten ==
    ASSUME ArchiveInv, NEW w \in Workers, NEW f \in Files, WriteBackup(w, f)
    PROVE  ArchiveInv'
<1>. DEFINE row == [run[w] EXCEPT !.step = "commit"]
<1>1. ArchiveTypeOK /\ run[w] \in RunRow /\ run[w].step = "backup" /\ RunInv(w)
  BY DEF ArchiveInv, ArchiveTypeOK, RunRow, WriteBackup
<1>2. row \in RunRow /\ row.step = "commit" /\ row.sales = run[w].sales /\ row.approved = run[w].approved
  BY <1>1 DEF RunRow
<1>3. /\ run' = [run EXCEPT ![w] = row]
      /\ UNCHANGED <<sale, due, archived, batch, todo, held>>
      /\ file' = [file EXCEPT ![f] = [exists |-> TRUE, rows |-> Rows(run[w].sales)]] /\ ~file[f].exists
  BY DEF WriteBackup, Goes, activityVars, lockVars
<1>. HIDE DEF row
<1>4. Rows(run[w].sales) = run[w].approved /\ run[w].approved \in SUBSET Row
  BY <1>1 DEF RunInv, CheckedSteps, RunRow
<1>5. /\ file' \in [Files -> [exists : BOOLEAN, rows : SUBSET Row]]
      /\ file'[f].exists /\ file'[f].rows = run[w].approved
      /\ \A g \in Files : file[g].exists => file'[g] = file[g]
  BY <1>1, <1>3, <1>4 DEF ArchiveTypeOK
<1>6. ArchiveTypeOK' /\ run'[w] = row /\ \A v \in Workers \ {w} : run'[v] = run[v]
  BY <1>1, <1>2, <1>3, <1>5, RunType DEF RunRow, ArchiveTypeOK
<1>7. RunInv(w)'
  <2>1. Rows(run[w].sales)' = Rows(run'[w].sales) /\ \A c : Blocking(c)' <=> Blocking(c)
    BY <1>2, <1>3, <1>6 DEF Rows, Blocking
  <2>2. Backed(run[w].approved)'
    BY <1>2, <1>5, <1>6 DEF Backed
  <2>3. Rows(run[w].sales)' = run'[w].approved /\ run'[w].sales = run[w].sales
    BY <1>2, <1>3, <1>4, <1>6 DEF Rows
  <2>. QED
    BY <1>1, <1>2, <1>3, <1>6, <2>1, <2>2, <2>3 DEF RunInv, LockedSteps, CheckedSteps
<1>. QED
  BY <1>3, <1>5, <1>6, <1>7, OneRunMoves

LEMMA ArchiveCommits ==
    ASSUME ArchiveInv, NEW w \in Workers, CommitArchive(w)
    PROVE  ArchiveInv'
<1>. DEFINE entry == [approved |-> run[w].approved, marked |-> Rows(run[w].sales)]
<1>1. /\ ArchiveTypeOK /\ RunInv(w) /\ run[w] \in RunRow /\ run[w].step = "commit"
      /\ archived' = archived \cup run[w].sales /\ batch' = batch \cup {entry}
      /\ UNCHANGED <<sale, due, file>> /\ run' = [run EXCEPT ![w] = NoRun]
      /\ todo' = [todo EXCEPT ![w] = <<>>] /\ held' = [held EXCEPT ![w] = {}]
  BY DEF ArchiveInv, ArchiveTypeOK, RunRow, CommitArchive, EndRun, GiveBack, activityVars
<1>2. /\ entry.marked = entry.approved /\ Backed(entry.marked)
      /\ \A c \in run[w].sales : sale[c].status # "none" /\ ~Blocking(c)
  BY <1>1 DEF RunInv, CheckedSteps
<1>3. entry \in [approved : SUBSET Row, marked : SUBSET Row]
  <2>1. Rows(run[w].sales) \in SUBSET Row
    BY <1>1, RowsType DEF RunRow
  <2>. QED
    BY <1>1, <2>1 DEF RunRow
<1>. HIDE DEF entry
<1>4. /\ archived' \subseteq Conversions
      /\ batch' \subseteq [approved : SUBSET Row, marked : SUBSET Row]
      /\ file' \in [Files -> [exists : BOOLEAN, rows : SUBSET Row]]
      /\ todo' \in [Workers -> Seq({CampaignState})] /\ held' \in [Workers -> SUBSET {CampaignState}]
      /\ \A v \in Workers \ {w} : todo'[v] = todo[v] /\ held'[v] = held[v]
  BY <1>1, <1>3 DEF ArchiveTypeOK, RunRow
<1>5. ArchiveTypeOK' /\ run'[w] = NoRun /\ \A v \in Workers \ {w} : run'[v] = run[v]
  BY <1>1, <1>4, NoRunFields, RunType DEF RunRow
<1>6. (\A c : Blocking(c)' <=> Blocking(c)) /\ \A rows : Backed(rows)' <=> Backed(rows)
  BY <1>1 DEF Blocking, Backed
<1>7. ASSUME NEW v \in Workers PROVE RunInv(v)'
  <2>1. CASE v = w
    BY <1>5, <2>1, NoRunFields DEF RunInv, LockedSteps, CheckedSteps
  <2>2. CASE v # w
    <3>1. RunInv(v) /\ run'[v] = run[v] /\ todo'[v] = todo[v] /\ held'[v] = held[v]
      BY <1>4, <1>5, <2>2 DEF ArchiveInv
    <3>2. Rows(run[v].sales)' = Rows(run[v].sales)
      BY <1>1, <3>1 DEF Rows
    <3>. QED
      BY <1>1, <1>6, <3>1, <3>2 DEF RunInv
  <2>. QED
    BY <2>1, <2>2
<1>. QED
  BY <1>1, <1>2, <1>5, <1>6, <1>7 DEF ArchiveInv

LEMMA RunStops ==
    ASSUME ArchiveInv, NEW w \in Workers, AnswerDuplicate(w) \/ StopRun(w)
    PROVE  ArchiveInv'
<1>1. ArchiveTypeOK /\ EndRun(w) /\ UNCHANGED <<sale, due, archived, batch>>
  BY DEF ArchiveInv, AnswerDuplicate, StopRun, activityVars
<1>2. /\ file' \in [Files -> [exists : BOOLEAN, rows : SUBSET Row]]
      /\ \A g \in Files : file[g].exists => file'[g] = file[g]
  <2>1. CASE file' = file
    BY <1>1, <2>1 DEF ArchiveTypeOK
  <2>2. ASSUME NEW f \in Files, ~file[f].exists, file' = [file EXCEPT ![f].exists = TRUE]
        PROVE  /\ file' \in [Files -> [exists : BOOLEAN, rows : SUBSET Row]]
               /\ \A g \in Files : file[g].exists => file'[g] = file[g]
    BY <1>1, <2>2 DEF ArchiveTypeOK
  <2>. QED
    BY <2>1, <2>2 DEF AnswerDuplicate, StopRun
<1>. QED
  BY <1>1, <1>2, EndRunInv

LEMMA ArchiveNextInv == ArchiveInv /\ [ArchiveNext]_archiveVars => ArchiveInv'
<1>. SUFFICES ASSUME ArchiveInv, [ArchiveNext]_archiveVars PROVE ArchiveInv'
  OBVIOUS
<1>1. CASE UNCHANGED archiveVars
  <2>1. (\A c : Blocking(c)' <=> Blocking(c)) /\ (\A rows : Backed(rows)' <=> Backed(rows))
        /\ UNCHANGED <<sale, due, archived, batch, file, run, todo, held>>
    BY <1>1 DEF archiveVars, activityVars, lockVars, Blocking, Backed
  <2>2. \A w \in Workers : Rows(run[w].sales)' = Rows(run[w].sales)
    BY <2>1 DEF Rows
  <2>3. ArchiveTypeOK'
    BY <2>1 DEF ArchiveInv, ArchiveTypeOK
  <2>4. \A w \in Workers : RunInv(w)'
    BY <2>1, <2>2 DEF ArchiveInv, RunInv
  <2>. QED
    BY <2>1, <2>3, <2>4 DEF ArchiveInv
<1>2. ASSUME NEW c \in Conversions, ActivityStep(c) PROVE ArchiveInv'
  BY <1>2, ActivityInv
<1>3. ASSUME NEW w \in Workers,
             \/ TakeLock(w) /\ UNCHANGED <<activityVars, archived, batch, file, run>>
             \/ StartArchive(w) \/ CheckPreview(w) \/ AnswerDuplicate(w) \/ LockSales(w) \/ LockDues(w)
             \/ \E f \in Files : WriteBackup(w, f)
             \/ CommitArchive(w) \/ StopRun(w)
      PROVE  ArchiveInv'
  BY <1>3, CampaignLockIsTaken, ApprovalStarts, RunStops, RowsAreLocked, BackupIsWritten, ArchiveCommits
<1>. QED
  BY <1>1, <1>2, <1>3 DEF ArchiveNext, ActivityStep

\* Whatever the store and other runs do meanwhile, and wherever runs stop, a batch marks the
\* rows that were approved, a backup shows them, and nothing archived is or becomes owed.
THEOREM ArchivesAreExact == ArchiveSpec => []ArchiveIsExact
<1>1. ArchiveInit => ArchiveInv
  <2>. SUFFICES ASSUME ArchiveInit PROVE ArchiveInv
    OBVIOUS
  <2>1. NoSale \in Sale /\ NoDue \in Due /\ NoFile \in [exists : BOOLEAN, rows : SUBSET Row]
    BY DEF NoSale, NoDue, NoFile, Sale, Due
  <2>2. \A w \in Workers : run[w] = NoRun
    BY DEF ArchiveInit
  <2>3. ArchiveTypeOK
    <3>1. run \in [Workers -> RunRow]
      BY NoRunFields DEF ArchiveInit
    <3>. QED
      BY <2>1, <3>1 DEF ArchiveInit, LocksInit, ArchiveTypeOK, RunRow
  <2>4. \A w \in Workers : RunInv(w)
    BY <2>2, NoRunFields DEF RunInv, LockedSteps, CheckedSteps
  <2>. QED
    BY <2>3, <2>4 DEF ArchiveInit, ArchiveInv
<1>2. ArchiveInv /\ [ArchiveNext]_archiveVars => ArchiveInv'
  BY ArchiveNextInv
<1>3. ArchiveInv => ArchiveIsExact
  BY DEF ArchiveInv, ArchiveIsExact, Backed
<1>. QED
  BY <1>1, <1>2, <1>3, PTL DEF ArchiveSpec

=============================================================================

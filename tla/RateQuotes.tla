------------------------------ MODULE RateQuotes ------------------------------
(***************************************************************************)
(* BtcUsdRateService (app/rates.py): one quote cached for all requests of  *)
(* the process, fetched from two providers in turn under one lock, judged  *)
(* by two clocks: the monotonic one for how long it was cached, the wall   *)
(* clock (which an operator or NTP may set) for how old it is.             *)
(*                                                                         *)
(* Times are integers in one unit; the constants keep the order of the     *)
(* code's defaults, not their size.                                        *)
(***************************************************************************)
EXTENDS Integers

CONSTANTS
    Callers,        \* requests that need a BTC/USD rate
    CacheTtl,       \* cache_ttl_seconds
    MaxStale,       \* max_stale_seconds
    MaxProviderAge, \* max_provider_age_seconds
    Skew,           \* how far ahead a provider's clock may be: 300 in the code
    WallTimes,      \* readings of the wall clock
    MaxTime,        \* bound on the monotonic clock
    NoQuote            \* no quote

ASSUME RateAssumption ==
    /\ CacheTtl \in Nat \ {0} /\ MaxStale \in Nat /\ MaxProviderAge \in Nat
    /\ Skew \in Nat /\ MaxTime \in Nat
    /\ CacheTtl <= MaxStale
    /\ WallTimes \subseteq Int
    /\ NoQuote \notin [observed : Int, since : Int]

VARIABLES
    wall,   \* time.time()
    mono,   \* time.monotonic()
    cached, \* _cached_quote and _cached_at_monotonic
    holder, \* the caller that holds _lock
    caller  \* where each caller is, the clocks it read, and what it was given

rateVars == <<wall, mono, cached, holder, caller>>

Quote == [observed : Int, since : Int]
Caller == [step : {"idle", "waiting", "coingecko", "yadio", "served", "unavailable"},
           wall : Int, mono : Int, quote : Quote \cup {NoQuote}, stale : BOOLEAN]

RateTypeOK ==
    /\ wall \in Int /\ mono \in Int
    /\ cached \in Quote \cup {NoQuote}
    /\ holder \in Callers \cup {NoQuote}
    /\ caller \in [Callers -> Caller]

IdleCaller == [step |-> "idle", wall |-> 0, mono |-> 0, quote |-> NoQuote, stale |-> FALSE]

RateInit ==
    /\ wall \in WallTimes /\ mono = 0
    /\ cached = NoQuote
    /\ holder = NoQuote
    /\ caller = [c \in Callers |-> IdleCaller]

Fetching(c) == caller[c].step \in {"coingecko", "yadio"}

\* The lock is released with the answer.
Answer(c, row) ==
    /\ caller' = [caller EXCEPT ![c] = row]
    /\ holder' = NoQuote

Serve(c, quote, stale, w, m) ==
    Answer(c, [step |-> "served", wall |-> w, mono |-> m, quote |-> quote, stale |-> stale])

Within(age, most) == -Skew <= age /\ age <= most

-----------------------------------------------------------------------------
Request(c) ==
    /\ caller[c].step \in {"idle", "served", "unavailable"}
    /\ caller' = [caller EXCEPT ![c] = [IdleCaller EXCEPT !.step = "waiting"]]
    /\ UNCHANGED <<wall, mono, cached, holder>>

MUsableByTheWallClock(w, m) ==
    /\ cached # NoQuote
    /\ w - cached.observed < CacheTtl
    /\ Within(w - cached.observed, MaxProviderAge)

\* A cached quote is fresh by the monotonic clock and recent by the wall clock.
Usable(w, m) ==
    /\ cached # NoQuote
    /\ 0 <= m - cached.since /\ m - cached.since < CacheTtl
    /\ Within(w - cached.observed, MaxProviderAge)

\* The clocks are read once the lock is taken, and before any provider is asked.
TakeCached(c) ==
    /\ caller[c].step = "waiting" /\ holder = NoQuote
    /\ Usable(wall, mono)
    /\ Serve(c, cached, FALSE, wall, mono)
    /\ UNCHANGED <<wall, mono, cached>>

StartFetch(c) ==
    /\ caller[c].step = "waiting" /\ holder = NoQuote
    /\ ~Usable(wall, mono)
    /\ holder' = c
    /\ caller' = [caller EXCEPT ![c].step = "coingecko", ![c].wall = wall, ![c].mono = mono]
    /\ UNCHANGED <<wall, mono, cached>>

\* _validated_quote accepts a price whose timestamp fits the clock read before the fetch.
FetchSucceeds(c, observed) ==
    /\ Fetching(c)
    /\ Within(caller[c].wall - observed, MaxProviderAge)
    /\ cached' = [observed |-> observed, since |-> caller[c].mono]
    /\ Serve(c, cached', FALSE, caller[c].wall, caller[c].mono)
    /\ UNCHANGED <<wall, mono>>

\* A provider fails, or its payload is refused; the second one is asked next.
FirstProviderFails(c) ==
    /\ caller[c].step = "coingecko"
    /\ caller' = [caller EXCEPT ![c].step = "yadio"]
    /\ UNCHANGED <<wall, mono, cached, holder>>

FallsBack(w, m) ==
    /\ cached # NoQuote
    /\ m - cached.since >= 0
    /\ Within(w - cached.observed, MaxStale)

MUnavailableKeepsTheLock(c) ==
    /\ caller[c].step = "yadio"
    /\ caller' = [caller EXCEPT ![c].step = "unavailable"]
    /\ UNCHANGED <<wall, mono, cached, holder>>

\* Both failed: the cached quote, marked stale, or RateUnavailableError.
SecondProviderFails(c) ==
    /\ caller[c].step = "yadio"
    /\ IF FallsBack(caller[c].wall, caller[c].mono)
       THEN Serve(c, cached, TRUE, caller[c].wall, caller[c].mono)
       ELSE Answer(c, [caller[c] EXCEPT !.step = "unavailable"])
    /\ UNCHANGED <<wall, mono, cached>>

TimePasses ==
    /\ mono < MaxTime
    /\ mono' = mono + 1
    /\ wall' = wall + 1
    /\ UNCHANGED <<cached, holder, caller>>

SetWallClock(t) ==
    /\ wall' = t
    /\ UNCHANGED <<mono, cached, holder, caller>>

Fetch(c) ==
    \/ \E observed \in WallTimes : FetchSucceeds(c, observed)
    \/ FirstProviderFails(c) \/ SecondProviderFails(c)

RateNext ==
    \/ \E c \in Callers : Request(c) \/ TakeCached(c) \/ StartFetch(c) \/ Fetch(c)
    \/ TimePasses
    \/ \E t \in WallTimes : SetWallClock(t)

RateSpec == RateInit /\ [][RateNext]_rateVars

\* Requests to a provider time out, and a waiting thread gets the lock in its turn.
RateFairness ==
    \A c \in Callers :
        /\ WF_rateVars(Fetch(c))
        /\ SF_rateVars(TakeCached(c) \/ StartFetch(c))

-----------------------------------------------------------------------------
\* However the wall clock is set, between the requests or during a fetch, a rate served as
\* current left its provider's answer less than CacheTtl of real time before the caller's
\* turn, and no rate, current or stale, is older than its bound by the clock the caller
\* read in its turn.
ServedWithinBounds ==
    \A c \in Callers : caller[c].step = "served" =>
        LET q == caller[c].quote
        IN /\ ~caller[c].stale => 0 <= caller[c].mono - q.since
                                  /\ caller[c].mono - q.since < CacheTtl
           /\ Within(caller[c].wall - q.observed,
                     IF caller[c].stale THEN MaxStale ELSE MaxProviderAge)

\* Every request for a rate is answered, even while providers fail and others queue for
\* the lock.
EveryCallerIsAnswered ==
    \A c \in Callers : caller[c].step = "waiting" ~> caller[c].step \in {"served", "unavailable"}

=============================================================================

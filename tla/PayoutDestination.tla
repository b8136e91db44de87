-------------------------- MODULE PayoutDestination --------------------------
(***************************************************************************)
(* Where an affiliate's commission is sent (app/main.py): its verified     *)
(* Lightning Address, the copy each enrollment keeps, the copy a payout    *)
(* takes when the conversion is created, and the one execute_payout reads. *)
(* The affiliate may change the address while any of them is copied.  One  *)
(* campaign; several requests, of several processes.                       *)
(***************************************************************************)
EXTENDS RequestLocks

CONSTANTS
    Affiliates, \* Nostr identities
    Addresses,  \* Lightning Addresses
    Payouts,    \* payouts of the campaign's conversions
    NoAddress   \* an address that is not set

ASSUME DestinationAssumption == NoAddress \notin Addresses

VARIABLES
    profile,    \* affiliate_profiles.lightning_address, verified whenever it is set
    enrolled,   \* the affiliate's enrollment in the campaign
    clicked,    \* affiliates whose link was followed
    payout,     \* payouts: whether they were attempted, for whom, and where they go
    attempt,    \* payment_attempts.destination of a payout's first attempt
    task        \* what each worker serves, and the address it read

rowVars == <<profile, enrolled, clicked, payout, attempt>>
destVars == <<rowVars, task, lockVars>>

MaybeAddress == Addresses \cup {NoAddress}
NotEnrolled == [status |-> "none", address |-> NoAddress, verified |-> "no"]
NoPayout(a) == [state |-> "none", who |-> a, address |-> NoAddress]
NoTask(a) == [kind |-> "idle", who |-> a, read |-> FALSE, address |-> NoAddress, payout |-> {}]

Kinds == {"idle", "accept", "recover", "join", "enroll", "decide", "approve", "redirect",
          "convert", "address", "execute", "campaign"}

DestTypeOK ==
    /\ profile \in [Affiliates -> MaybeAddress]
    /\ enrolled \in [Affiliates ->
         [status : {"none", "pending", "approved", "closed"}, address : MaybeAddress,
          verified : {"no", "legacy", "yes"}]]
    /\ clicked \subseteq Affiliates
    /\ payout \in [Payouts ->
         [state : {"none", "open", "attempted"}, who : Affiliates, address : MaybeAddress]]
    /\ attempt \in [Payouts -> MaybeAddress]
    /\ task \in [Workers ->
         [kind : Kinds, who : Affiliates, read : BOOLEAN, address : MaybeAddress,
          payout : SUBSET Payouts]]

\* An enrollment of before the profiles existed keeps its address without one.
Legacy(x) == [status |-> "approved", address |-> x, verified |-> "legacy"]

DestInit ==
    /\ LocksInit
    /\ profile = [a \in Affiliates |-> NoAddress]
    /\ enrolled \in [Affiliates -> {NotEnrolled} \cup {Legacy(x) : x \in Addresses}]
    /\ clicked = {}
    /\ \E a \in Affiliates : payout = [p \in Payouts |-> NoPayout(a)]
    /\ attempt = [p \in Payouts |-> NoAddress]
    /\ \E a \in Affiliates : task = [w \in Workers |-> NoTask(a)]

-----------------------------------------------------------------------------
Does(w, kind) == task[w].kind = kind /\ HasItsLocks(w)

Start(w, kind, a, locks) ==
    /\ task[w].kind = "idle"
    /\ task' = [task EXCEPT ![w] = [NoTask(a) EXCEPT !.kind = kind]]
    /\ WillTake(w, locks)
    /\ UNCHANGED rowVars

\* The transaction ends, whether it changed a row or not.
Finish(w) ==
    /\ task' = [task EXCEPT ![w] = NoTask(task[w].who)]
    /\ GiveBack(w)

Reads(w, address) ==
    /\ ~task[w].read
    /\ task' = [task EXCEPT ![w].read = TRUE, ![w].address = address]
    /\ UNCHANGED <<rowVars, lockVars>>

\* A refused request, an exception, a lost connection, a stopped process, and the victim
\* PostgreSQL picks from a circle of waits: nothing of the transaction stays.
Abort(w) ==
    /\ task[w].kind # "idle"
    /\ Finish(w)
    /\ UNCHANGED rowVars

-----------------------------------------------------------------------------
StartAccept(w, a, v) ==
    Start(w, "accept", a,
          <<Process(w), Identity(a), Destination(a), Invitation(v), CampaignState,
            EnrollmentOf(a)>>)

\* An invitation that is already accepted is answered again without the campaign's lock.
StartRecover(w, a, v) ==
    Start(w, "recover", a, <<Process(w), Identity(a), Destination(a), Invitation(v)>>)

ReadVerified(w) ==
    /\ Does(w, "accept") \/ Does(w, "recover")
    /\ Reads(w, profile[task[w].who])

WithVerified(e, address) ==
    IF address = NoAddress THEN e ELSE [e EXCEPT !.address = address, !.verified = "yes"]

CopyOnAccept(w) ==
    LET a == task[w].who
        new == [NotEnrolled EXCEPT !.status = "approved"]
    IN /\ Does(w, "accept") /\ task[w].read
       /\ enrolled[a].status \in {"none", "approved"}
       /\ enrolled' = [enrolled EXCEPT
            ![a] = WithVerified(IF @.status = "none" THEN new ELSE @, task[w].address)]
       /\ Finish(w)
       /\ UNCHANGED <<profile, clicked, payout, attempt>>

CopyOnRecover(w) ==
    LET a == task[w].who
    IN /\ Does(w, "recover") /\ task[w].read
       /\ enrolled[a].status = "approved"
       /\ enrolled' = [enrolled EXCEPT ![a] = WithVerified(@, task[w].address)]
       /\ Finish(w)
       /\ UNCHANGED <<profile, clicked, payout, attempt>>

StartJoin(w, a) ==
    Start(w, "join", a, <<Process(w), Identity(a), CampaignState, EnrollmentOf(a)>>)

\* A public enrollment starts without an address, verified or not.
Join(w, status) ==
    LET a == task[w].who
    IN /\ Does(w, "join")
       /\ enrolled[a].status = "none"
       /\ status \in {"approved", "pending"}
       /\ enrolled' = [enrolled EXCEPT ![a] = [NotEnrolled EXCEPT !.status = status]]
       /\ Finish(w)
       /\ UNCHANGED <<profile, clicked, payout, attempt>>

\* The demonstration enrolls its affiliate with an address nobody verified, unless it has one.
StartEnroll(w, a) == Start(w, "enroll", a, <<Destination(a)>>)

EnrollDirectly(w, x) ==
    LET a == task[w].who
        new == [status |-> "approved", address |-> x, verified |-> "no"]
    IN /\ Does(w, "enroll")
       /\ enrolled[a].status = "none"
       /\ enrolled' = [enrolled EXCEPT ![a] = WithVerified(new, profile[a])]
       /\ Finish(w)
       /\ UNCHANGED <<profile, clicked, payout, attempt>>

StartDecide(w, a) == Start(w, "decide", a, <<Process(w)>>)

Decide(w, status) ==
    LET a == task[w].who
    IN /\ Does(w, "decide")
       /\ enrolled[a].status = "pending"
       /\ status \in {"approved", "closed"}
       /\ enrolled' = [enrolled EXCEPT ![a].status = status]
       /\ Finish(w)
       /\ UNCHANGED <<profile, clicked, payout, attempt>>

\* update_enrollment_status reads the enrollment before it waits for the lock.
StartApprove(w, a) ==
    /\ task[w].kind = "idle"
    /\ enrolled[a].status # "none"
    /\ task' = [task EXCEPT ![w] =
         [NoTask(a) EXCEPT !.kind = "approve", !.read = enrolled[a].verified # "no",
                         !.address = enrolled[a].address]]
    /\ WillTake(w, <<Destination(a)>>)
    /\ UNCHANGED rowVars

Approve(w) ==
    LET a == task[w].who
        copied == task[w].read /\ task[w].address = profile[a]
    IN /\ Does(w, "approve")
       /\ enrolled' = [enrolled EXCEPT ![a] =
            [(IF copied THEN @ ELSE WithVerified(@, profile[a])) EXCEPT !.status = "approved"]]
       /\ Finish(w)
       /\ UNCHANGED <<profile, clicked, payout, attempt>>

\* Any other status takes no lock.
CloseEnrollment(a) ==
    /\ enrolled[a].status # "none"
    /\ enrolled' = [enrolled EXCEPT ![a].status = "closed"]
    /\ UNCHANGED <<profile, clicked, payout, attempt, task, lockVars>>

-----------------------------------------------------------------------------
DestinationReady(a) ==
    LET e == enrolled[a]
    IN /\ e.address # NoAddress
       /\ IF profile[a] = NoAddress
            THEN e.verified = "legacy"
            ELSE e.verified # "no" /\ e.address = profile[a]

StartRedirect(w, a) == Start(w, "redirect", a, <<CampaignState>>)

RedirectClick(w) ==
    LET a == task[w].who
    IN /\ Does(w, "redirect")
       /\ enrolled[a].status = "approved" /\ DestinationReady(a)
       /\ clicked' = clicked \cup {a}
       /\ Finish(w)
       /\ UNCHANGED <<profile, enrolled, payout, attempt>>

MConvertsBesideTheAffiliate(w, a) ==
    /\ a \in clicked
    /\ Start(w, "convert", a, <<Process(w), CampaignState>>)

MConvertsBesideItsProcess(w, a) ==
    /\ a \in clicked
    /\ Start(w, "convert", a, <<CampaignState, Destination(a)>>)

StartConvert(w, a) ==
    /\ a \in clicked
    /\ Start(w, "convert", a, <<Process(w), CampaignState, Destination(a)>>)

ReadEnrollment(w) ==
    /\ Does(w, "convert")
    /\ enrolled[task[w].who].status = "approved"
    /\ Reads(w, enrolled[task[w].who].address)

CreateConversion(w, p) ==
    /\ Does(w, "convert") /\ task[w].read
    /\ payout[p].state = "none"
    /\ payout' = [payout EXCEPT ![p] =
         [state |-> "open", who |-> task[w].who, address |-> task[w].address]]
    /\ Finish(w)
    /\ UNCHANGED <<profile, enrolled, clicked, attempt>>

\* The session is checked, and the address verified with its server, before the transaction.
StartUpdateAddress(w, a, x) ==
    /\ task[w].kind = "idle"
    /\ enrolled[a].status = "approved"
    /\ task' = [task EXCEPT ![w] = [NoTask(a) EXCEPT !.kind = "address", !.address = x]]
    /\ WillTake(w, <<Destination(a)>>)
    /\ UNCHANGED rowVars

UpdateLightningAddress(w) ==
    LET a == task[w].who
        x == task[w].address
    IN /\ Does(w, "address")
       /\ profile' = [profile EXCEPT ![a] = x]
       /\ enrolled' = [enrolled EXCEPT ![a] = IF @.status = "none" THEN @ ELSE WithVerified(@, x)]
       /\ payout' = [p \in Payouts |->
            IF payout[p].state = "open" /\ payout[p].who = a
              THEN [payout[p] EXCEPT !.address = x] ELSE payout[p]]
       /\ Finish(w)
       /\ UNCHANGED <<clicked, attempt>>

\* execute_payout checks the payout it read, address included, and then claims it.
ReadPayout(w, p) ==
    /\ task[w].kind = "idle"
    /\ payout[p].state = "open" /\ payout[p].address # NoAddress
    /\ task' = [task EXCEPT ![w] =
         [NoTask(payout[p].who) EXCEPT !.kind = "execute", !.address = payout[p].address,
                                     !.payout = {p}]]
    /\ UNCHANGED <<rowVars, lockVars>>

ClaimPayout(w, p) ==
    /\ Does(w, "execute") /\ p \in task[w].payout
    /\ payout[p].state = "open"
    /\ payout' = [payout EXCEPT ![p].state = "attempted"]
    /\ attempt' = [attempt EXCEPT ![p] = task[w].address]
    /\ Finish(w)
    /\ UNCHANGED <<profile, enrolled, clicked>>

\* The merchant's changes of the campaign touch no row of this module, only its locks.
StartCampaignChange(w, a) == Start(w, "campaign", a, <<Process(w), CampaignState>>)

ChangeCampaign(w) ==
    /\ Does(w, "campaign")
    /\ Finish(w)
    /\ UNCHANGED rowVars

-----------------------------------------------------------------------------
DestNext ==
    \/ \E w \in Workers :
         \/ TakeLock(w) /\ UNCHANGED <<rowVars, task>>
         \/ Abort(w)
         \/ \E a \in Affiliates :
              \/ StartAccept(w, a, "token") \/ StartRecover(w, a, "token")
              \/ StartJoin(w, a) \/ StartEnroll(w, a) \/ StartDecide(w, a) \/ StartApprove(w, a)
              \/ StartRedirect(w, a) \/ StartConvert(w, a) \/ StartCampaignChange(w, a)
              \/ \E x \in Addresses : StartUpdateAddress(w, a, x)
         \/ \E x \in Addresses : EnrollDirectly(w, x)
         \/ ReadVerified(w) \/ CopyOnAccept(w) \/ CopyOnRecover(w)
         \/ Join(w, "approved") \/ Join(w, "pending")
         \/ Decide(w, "approved") \/ Decide(w, "closed") \/ Approve(w)
         \/ RedirectClick(w) \/ ReadEnrollment(w) \/ UpdateLightningAddress(w) \/ ChangeCampaign(w)
         \/ \E p \in Payouts : CreateConversion(w, p) \/ ReadPayout(w, p) \/ ClaimPayout(w, p)
    \/ \E a \in Affiliates : CloseEnrollment(a)

DestSpec == DestInit /\ [][DestNext]_destVars

-----------------------------------------------------------------------------
\* A payout that was not attempted yet goes where its affiliate is paid now: whatever
\* requests overlap, none leaves it without an address or with one the affiliate replaced
\* (the affiliate's page promises that a change reaches the payouts not yet attempted).
PayoutsFollowTheProfile ==
    \A p \in Payouts :
        payout[p].state = "open" =>
            /\ payout[p].address # NoAddress
            /\ profile[payout[p].who] \in {NoAddress, payout[p].address}

\* The money of a payout is sent to the address the payout holds.  execute_payout claims
\* the payout by its state alone, so an address that was changed between its read and its
\* claim is not the one it pays.
AttemptsFollowThePayout ==
    \A p \in Payouts : payout[p].state = "attempted" => attempt[p] = payout[p].address

=============================================================================

----------------------------- MODULE NostrOutbox -----------------------------
(***************************************************************************)
(* The Nostr proofs of one affiliate program (app/main.py): its campaign   *)
(* and enrollments sign events, keep them in the table nostr_events, and   *)
(* hand them to the relays.  Some handlers commit first and finalize       *)
(* afterwards, some publish before they commit, and a thread retries what  *)
(* is pending.  Relays keep, per campaign and enrollment, the event with   *)
(* the latest created_at.  A conversion's event goes the campaign's way    *)
(* and is never replaced; only the pause it may cause is modelled.         *)
(*                                                                         *)
(* Publication is enabled.  The relays are one: the code counts an event   *)
(* as published as soon as any of them acknowledges it.                    *)
(***************************************************************************)
EXTENDS Integers, FiniteSets

CONSTANTS
    Program,      \* the campaign
    Enrollments,
    Workers,      \* requests being served
    Thread,       \* nostr_outbox_retry_worker
    None,
    MaxEvents,    \* bound on the events signed
    MaxClock,     \* bound on what the clock reads, in seconds
    MaxFaults,    \* bound on crashes and database errors
    BatchLimit,   \* rows the thread reads at a time
    Refused       \* events no relay ever takes

Events == 1..MaxEvents
Entities == {Program} \cup Enrollments
Actors == Workers \cup {Thread}

ASSUME OutboxAssumption ==
    /\ MaxEvents \in Nat /\ MaxClock \in Nat /\ MaxFaults \in Nat
    /\ BatchLimit \in Nat \ {0}
    /\ Refused \subseteq Events
    /\ Program \notin Enrollments
    /\ Thread \notin Workers
    /\ None \notin Entities \cup Actors \cup Events

VARIABLES
    signed,       \* events signed so far, 1..signed
    event,        \* what they are about, when they were created and what they say
    outbox,       \* nostr_events.relay_status, by event
    queue,        \* the place of each pending event in the order of updated_at, from 1
    status,       \* the status column of each entity's row
    current,      \* its nostr_event_id
    shown,        \* whether its nostr_event_json says "published"
    relay,        \* the events the relays took
    campaignLock, \* who holds the advisory lock campaign-state
    pubLock,      \* who holds each event's publication lock
    job,          \* where each actor is
    faults        \* crashes and database errors so far

rowVars == <<outbox, queue, status, current, shown>>
lockVars == <<campaignLock, pubLock>>
vars == <<signed, event, rowVars, relay, lockVars, job, faults>>

-----------------------------------------------------------------------------
Statuses == {"none", "active", "inactive", "pending", "approved", "closed"}
NoEvent == [of |-> None, at |-> 0, says |-> "none"]

\* how: finalize after the commit; as accept, after the commit but without the publication
\* lock; or change, before the commit.  todo: events still to finalize; id: the event in
\* hand; acked: what the relays answered.
Idle == [step |-> "idle", how |-> "finalize", id |-> None, todo |-> {}, acked |-> FALSE]
Jobs == [step : {"idle", "next", "publish", "persist"}, how : {"finalize", "accept", "change"},
         id : Events \cup {None}, todo : SUBSET Events, acked : BOOLEAN]

TypeOK ==
    /\ signed \in 0..MaxEvents
    /\ event \in [Events -> [of : Entities \cup {None}, at : Nat, says : Statuses]]
    /\ outbox \in [Events -> {"none", "pending", "published"}]
    /\ queue \in [Events -> Nat]
    /\ status \in [Entities -> Statuses]
    /\ current \in [Entities -> Events \cup {None}]
    /\ shown \in [Entities -> BOOLEAN]
    /\ relay \subseteq Events
    /\ campaignLock \in Actors \cup {None}
    /\ pubLock \in [Events -> Actors \cup {None}]
    /\ job \in [Actors -> Jobs]
    /\ faults \in 0..MaxFaults

Init ==
    /\ signed = 0
    /\ event = [i \in Events |-> NoEvent]
    /\ outbox = [i \in Events |-> "none"]
    /\ queue = [i \in Events |-> 0]
    /\ status = [e \in Entities |-> "none"]
    /\ current = [e \in Entities |-> None]
    /\ shown = [e \in Entities |-> FALSE]
    /\ relay = {}
    /\ campaignLock = None
    /\ pubLock = [i \in Events |-> None]
    /\ job = [w \in Actors |-> Idle]
    /\ faults = 0

-----------------------------------------------------------------------------
(* Signing: build_nostr_event, build_campaign_event, build_enrollment_event. *)

MTimeNow(e, t) == t

\* Seconds are read off a clock that may be set back.  A campaign's event is later than the
\* one it replaces all the same.
TimeFor(e, t) ==
    IF e # Program \/ current[e] = None THEN t
    ELSE LET after == event[current[e]].at + 1 IN IF t > after THEN t ELSE after

\* "inactive" is paused or ended, "closed" rejected or terminated: they may follow themselves.
Changes(e, s) == s # status[e] \/ s \in {"inactive", "closed"}

Unused(e) == \A i \in Events : event[i].of # e

Signed(e, s, t) == [of |-> e, at |-> TimeFor(e, t), says |-> s]

Sign(e, s) ==
    /\ signed < MaxEvents
    /\ signed' = signed + 1
    /\ \E t \in 0..MaxClock : event' = [event EXCEPT ![signed + 1] = Signed(e, s, t)]

Pending == {i \in Events : outbox[i] = "pending"}

MKeepsItsPlace(i, stays) ==
    [j \in Events |-> IF j = i /\ ~stays THEN 0
                      ELSE IF j = i /\ queue[i] = 0 THEN Cardinality(Pending) + 1
                      ELSE IF ~stays /\ 0 < queue[i] /\ queue[i] < queue[j] THEN queue[j] - 1
                      ELSE queue[j]]

\* What an UPDATE of updated_at does to the order of the pending rows.
Requeued(i, stays) ==
    [j \in Events |-> IF j = i THEN IF stays THEN Cardinality(Pending \ {i}) + 1 ELSE 0
                      ELSE IF 0 < queue[i] /\ queue[i] < queue[j] THEN queue[j] - 1
                      ELSE queue[j]]

MOverwrites(i, acked) == [outbox EXCEPT ![i] = IF acked THEN "published" ELSE "pending"]

\* persist_nostr_event: INSERT, or an UPDATE that never takes "published" back.
Persisted(i, acked) ==
    [outbox EXCEPT ![i] = IF acked \/ @ = "published" THEN "published" ELSE "pending"]

Persist(i, acked) ==
    /\ outbox' = Persisted(i, acked)
    /\ queue' = Requeued(i, Persisted(i, acked)[i] = "pending")

Start(w, how, i) ==
    job' = [job EXCEPT ![w] = [step |-> "publish", how |-> how, id |-> i, todo |-> {}, acked |-> FALSE]]
Finalize(w, S) == job' = [job EXCEPT ![w] = [Idle EXCEPT !.step = "next", !.todo = S]]

\* The row is written with its new event, which is still pending, in one transaction.
CommitPending(e, s) ==
    /\ Sign(e, s)
    /\ Persist(signed + 1, FALSE)
    /\ status' = [status EXCEPT ![e] = s]
    /\ current' = [current EXCEPT ![e] = signed + 1]
    /\ shown' = [shown EXCEPT ![e] = FALSE]

-----------------------------------------------------------------------------
(* The campaign. *)

\* POST /campaigns: published, then inserted.
CreateCampaign(w) ==
    /\ job[w].step = "idle" /\ Unused(Program)
    /\ Sign(Program, "active")
    /\ Start(w, "change", signed + 1)
    /\ UNCHANGED <<rowVars, relay, lockVars, faults>>

\* The bootstrap and the onboarding of a merchant: inserted, then finalized.
OnboardMerchant(w) ==
    /\ job[w].step = "idle" /\ Unused(Program)
    /\ CommitPending(Program, "active")
    /\ Finalize(w, {signed + 1})
    /\ UNCHANGED <<relay, lockVars, faults>>

\* Both again, for a campaign that exists.
OnboardMerchantAgain(w) ==
    /\ job[w].step = "idle"
    /\ current[Program] # None /\ ~shown[Program]
    /\ Finalize(w, {current[Program]})
    /\ UNCHANGED <<signed, event, rowVars, relay, lockVars, faults>>

\* A new commission or enrollment mode, under the campaign-state lock.
UpdateCampaign(w) ==
    /\ job[w].step = "idle" /\ campaignLock = None
    /\ current[Program] # None /\ status[Program] = "active"
    /\ CommitPending(Program, "active")
    /\ Finalize(w, {signed + 1})
    /\ UNCHANGED <<relay, lockVars, faults>>

MUpdateStatusUnlocked(w) ==
    /\ job[w].step = "idle"
    /\ current[Program] # None
    /\ \E s \in {"active", "inactive"} : Changes(Program, s) /\ Sign(Program, s)
    /\ Start(w, "change", signed + 1)
    /\ UNCHANGED <<rowVars, relay, lockVars, faults>>

\* A new status, or the archive: published under the lock, before the commit.
UpdateCampaignStatus(w) ==
    /\ job[w].step = "idle" /\ campaignLock = None
    /\ current[Program] # None
    /\ \E s \in {"active", "inactive"} : Changes(Program, s) /\ Sign(Program, s)
    /\ campaignLock' = w
    /\ Start(w, "change", signed + 1)
    /\ UNCHANGED <<rowVars, relay, pubLock, faults>>

\* _create_conversion, when a conversion of an approved affiliate exhausts the budget.
PauseForBudget(w) ==
    /\ job[w].step = "idle" /\ campaignLock = None
    /\ status[Program] = "active" /\ \E e \in Enrollments : status[e] = "approved"
    /\ CommitPending(Program, "inactive")
    /\ Finalize(w, {signed + 1})
    /\ UNCHANGED <<relay, lockVars, faults>>

\* retry_conversion_outbox: a merchant repeats an order of this campaign.
RetryConversion(w) ==
    LET S == {i \in Pending : event[i].of = Program}
    IN /\ job[w].step = "idle" /\ S # {} /\ \E e \in Enrollments : current[e] # None
       /\ Finalize(w, S)
       /\ UNCHANGED <<signed, event, rowVars, relay, lockVars, faults>>

-----------------------------------------------------------------------------
(* The enrollments.  Their events carry the clock's second. *)

\* _create_enrollment_record: published, then inserted.
CreateEnrollment(w, e) ==
    /\ job[w].step = "idle" /\ Unused(e) /\ current[Program] # None
    /\ Sign(e, "approved")
    /\ Start(w, "change", signed + 1)
    /\ UNCHANGED <<rowVars, relay, lockVars, faults>>

\* campaign_join of an open campaign.
JoinOpen(w, e) ==
    /\ job[w].step = "idle" /\ campaignLock = None /\ Unused(e) /\ status[Program] = "active"
    /\ CommitPending(e, "approved")
    /\ Finalize(w, {signed + 1})
    /\ UNCHANGED <<relay, lockVars, faults>>

\* The row of an enrollment changes with an event that nobody publishes.
CommitUnpublished(e, s) ==
    /\ Sign(e, s)
    /\ status' = [status EXCEPT ![e] = s]
    /\ current' = [current EXCEPT ![e] = signed + 1]
    /\ shown' = [shown EXCEPT ![e] = FALSE]
    /\ UNCHANGED <<outbox, queue, relay, lockVars, job, faults>>

\* campaign_join of a campaign that reviews its affiliates.
JoinPending(w, e) ==
    /\ job[w].step = "idle" /\ campaignLock = None /\ Unused(e) /\ status[Program] = "active"
    /\ CommitUnpublished(e, "pending")

\* merchant_decide_enrollment
ApproveEnrollment(w, e) ==
    /\ job[w].step = "idle" /\ status[e] = "pending"
    /\ CommitPending(e, "approved")
    /\ Finalize(w, {signed + 1})
    /\ UNCHANGED <<relay, lockVars, faults>>

RejectEnrollment(w, e) ==
    /\ job[w].step = "idle" /\ status[e] = "pending"
    /\ CommitUnpublished(e, "closed")

\* update_enrollment_status: no lock; published before the commit.
UpdateEnrollmentStatus(w, e) ==
    /\ job[w].step = "idle" /\ current[e] # None
    /\ \E s \in {"pending", "approved", "closed"} : Changes(e, s) /\ Sign(e, s)
    /\ Start(w, "change", signed + 1)
    /\ UNCHANGED <<rowVars, relay, lockVars, faults>>

\* accept_affiliate_invitation, and its repetition when the proof is still missing.
AcceptInvitation(w, e) ==
    /\ job[w].step = "idle" /\ campaignLock = None /\ Unused(e) /\ status[Program] = "active"
    /\ CommitPending(e, "approved")
    /\ Start(w, "accept", signed + 1)
    /\ UNCHANGED <<relay, lockVars, faults>>

AcceptInvitationAgain(w, e) ==
    /\ job[w].step = "idle"
    /\ status[e] = "approved" /\ outbox[current[e]] # "published"
    /\ Start(w, "accept", current[e])
    /\ UNCHANGED <<signed, event, rowVars, relay, lockVars, faults>>

-----------------------------------------------------------------------------
(* Publication. *)

EndJob(w) == job' = [job EXCEPT ![w] = Idle]

\* An event of the list is done with.
Done(w, i) ==
    LET left == job[w].todo \ {i}
    IN job' = [job EXCEPT ![w] = IF left = {} THEN Idle
                                ELSE [Idle EXCEPT !.step = "next", !.todo = left]]

\* retry_pending_nostr_outbox reads the rows that were touched longest ago.
ReadBatch ==
    /\ job[Thread].step = "idle" /\ Pending # {}
    /\ Finalize(Thread, {i \in Pending : queue[i] <= BatchLimit})
    /\ UNCHANGED <<signed, event, rowVars, relay, lockVars, faults>>

\* finalize_committed_nostr_event: under the lock the row is read again.
SkipPublished(w, i) ==
    /\ job[w].step = "next" /\ i \in job[w].todo /\ pubLock[i] = None
    /\ outbox[i] = "published"
    /\ Done(w, i)
    /\ UNCHANGED <<signed, event, rowVars, relay, lockVars, faults>>

TakeEvent(w, i) ==
    /\ job[w].step = "next" /\ i \in job[w].todo /\ pubLock[i] = None
    /\ outbox[i] # "published"
    /\ pubLock' = [pubLock EXCEPT ![i] = w]
    /\ job' = [job EXCEPT ![w].step = "publish", ![w].id = i]
    /\ UNCHANGED <<signed, event, rowVars, relay, campaignLock, faults>>

\* publish_event: the relays take the event and say so, take it and stay silent until the
\* timeout, or do not take it.
Publish(w) ==
    LET i == job[w].id
    IN /\ job[w].step = "publish"
       /\ \E taken, acked \in BOOLEAN :
            /\ acked => taken
            /\ taken => i \notin Refused
            /\ relay' = IF taken THEN relay \cup {i} ELSE relay
            /\ job' = [job EXCEPT ![w].step = "persist", ![w].acked = acked]
       /\ UNCHANGED <<signed, event, rowVars, lockVars, faults>>

MCopiesItsOwnResult(w) ==
    LET i == job[w].id
        e == event[i].of
    IN /\ job[w].step = "persist" /\ job[w].how = "finalize"
       /\ Persist(i, job[w].acked)
       /\ shown' = [shown EXCEPT ![e] = job[w].acked]
       /\ Done(w, i)
       /\ pubLock' = [pubLock EXCEPT ![i] = None]
       /\ UNCHANGED <<signed, event, status, current, relay, campaignLock, faults>>

\* _finalize_committed_nostr_event_unlocked: the entity's row copies the result when the
\* event is still its own and the outbox agrees.
PersistResult(w) ==
    LET i == job[w].id
        e == event[i].of
        acked == job[w].acked
        mine == IF acked THEN "published" ELSE "pending"
    IN /\ job[w].step = "persist" /\ job[w].how = "finalize"
       /\ Persist(i, acked)
       /\ shown' = [shown EXCEPT ![e] =
                      IF current[e] = i /\ Persisted(i, acked)[i] = mine THEN acked ELSE @]
       /\ Done(w, i)
       /\ pubLock' = [pubLock EXCEPT ![i] = None]
       /\ UNCHANGED <<signed, event, status, current, relay, campaignLock, faults>>

\* The database refuses: the event stays pending.
PersistFails(w) ==
    /\ job[w].step = "persist" /\ job[w].how = "finalize"
    /\ faults < MaxFaults /\ faults' = faults + 1
    /\ Done(w, job[w].id)
    /\ pubLock' = [pubLock EXCEPT ![job[w].id] = None]
    /\ UNCHANGED <<signed, event, rowVars, relay, campaignLock>>

PersistAccepted(w) ==
    /\ job[w].step = "persist" /\ job[w].how = "accept"
    /\ Persist(job[w].id, job[w].acked)
    /\ EndJob(w)
    /\ UNCHANGED <<signed, event, status, current, shown, relay, lockVars, faults>>

ReleasedLock(w) == IF campaignLock = w THEN None ELSE campaignLock

\* The transaction that published commits.
CommitChange(w) ==
    LET i == job[w].id
        e == event[i].of
    IN /\ job[w].step = "persist" /\ job[w].how = "change"
       /\ Persist(i, job[w].acked)
       /\ status' = [status EXCEPT ![e] = event[i].says]
       /\ current' = [current EXCEPT ![e] = i]
       /\ shown' = [shown EXCEPT ![e] = job[w].acked]
       /\ campaignLock' = ReleasedLock(w)
       /\ EndJob(w)
       /\ UNCHANGED <<signed, event, relay, pubLock, faults>>

-----------------------------------------------------------------------------
\* A process dies, or a transaction is rolled back, and its locks are free again.
Crash(w) ==
    /\ job[w].step # "idle"
    /\ faults < MaxFaults /\ faults' = faults + 1
    /\ campaignLock' = ReleasedLock(w)
    /\ pubLock' = [i \in Events |-> IF pubLock[i] = w THEN None ELSE pubLock[i]]
    /\ EndJob(w)
    /\ UNCHANGED <<signed, event, rowVars, relay>>

CampaignRequest(w) ==
    \/ CreateCampaign(w) \/ OnboardMerchant(w) \/ OnboardMerchantAgain(w)
    \/ UpdateCampaign(w) \/ UpdateCampaignStatus(w)
    \/ PauseForBudget(w) \/ RetryConversion(w)

EnrollmentRequest(w, e) ==
    \/ CreateEnrollment(w, e) \/ JoinOpen(w, e) \/ JoinPending(w, e)
    \/ ApproveEnrollment(w, e) \/ RejectEnrollment(w, e) \/ UpdateEnrollmentStatus(w, e)
    \/ AcceptInvitation(w, e) \/ AcceptInvitationAgain(w, e)

PublicationStep(w) ==
    \/ \E i \in Events : SkipPublished(w, i) \/ TakeEvent(w, i)
    \/ Publish(w)
    \/ PersistResult(w) \/ PersistFails(w) \/ PersistAccepted(w) \/ CommitChange(w)

Next ==
    \/ ReadBatch
    \/ \E w \in Workers : CampaignRequest(w) \/ (\E e \in Enrollments : EnrollmentRequest(w, e))
    \/ \E w \in Actors : PublicationStep(w) \/ Crash(w)

Spec == Init /\ [][Next]_vars

-----------------------------------------------------------------------------
(* Safety. *)

\* What was published stays published, although requests, the thread and an accepted
\* invitation may persist the same event in any order with different results.
NeverDowngraded ==
    [][\A i \in Events : outbox[i] = "published" => outbox'[i] = "published"]_outbox

\* A row that says its event is published tells the truth; the bootstrap trusts it and
\* sends nothing again.
ShownIsPublished ==
    \A e \in Entities : shown[e] => outbox[current[e]] = "published" /\ current[e] \in relay

\* Committed events of the campaign have rising times, whoever committed them and however
\* the clock moved: a late publication of an old one replaces nothing.
CampaignIsOrdered ==
    \A i \in Events : event[i].of = Program /\ outbox[i] # "none" /\ i # current[Program]
        => event[i].at < event[current[Program]].at

\* When no status change is in progress and none was lost, a campaign whose event was
\* published is what the relays show.
CampaignIsShown ==
    faults = 0 /\ campaignLock = None /\ current[Program] \in relay =>
        /\ event[current[Program]].says = status[Program]
        /\ \A i \in relay \ {current[Program]} :
             event[i].of = Program => event[i].at < event[current[Program]].at

-----------------------------------------------------------------------------
(* Liveness.  Requests and the thread go on, the thread gets a lock that others *)
(* keep giving back, and relays that do not refuse an event for ever take it.   *)

Delivers(w, i) == job[w].id = i /\ Publish(w) /\ job'[w].acked

Fairness ==
    /\ WF_vars(ReadBatch)
    /\ \A w \in Actors : SF_vars(PublicationStep(w))
    /\ \A i \in Events \ Refused : SF_vars(\E w \in Actors : Delivers(w, i))

FairSpec == Spec /\ Fairness

\* The thread publishes every pending event, also behind events that no relay takes.
PendingIsPublished ==
    \A i \in Events \ Refused : outbox[i] = "pending" ~> outbox[i] = "published"

=============================================================================

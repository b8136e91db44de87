------------------------- MODULE NostrOutboxProofs -------------------------
(***************************************************************************)
(* OutboxInv is inductive, and what follows from it, for any number of     *)
(* enrollments, requests, events and faults, any clock and any relays.     *)
(***************************************************************************)
EXTENDS OutboxInvariant, FiniteSetTheorems, TLAPS

EventRow == [of : Entities \cup {None}, at : Nat, says : Statuses]

-----------------------------------------------------------------------------
(* What the pieces of an action do. *)

\* NULL is no campaign, no event and no request.
LEMMA NoneIsNothing ==
    None \notin Entities /\ None \notin Actors /\ None \notin Events
BY OutboxAssumption

\* A signature adds one event, which is new; a campaign's is later than its row's.
LEMMA SignDoes ==
    ASSUME TypeOK, NEW e \in Entities, NEW s \in Statuses, Sign(e, s)
    PROVE  /\ signed' = signed + 1 /\ signed + 1 \in Events /\ signed' \in 0..MaxEvents
           /\ event' \in [Events -> EventRow]
           /\ event'[signed + 1].of = e /\ event'[signed + 1].says = s
           /\ e = Program /\ current[e] # None => event'[signed + 1].at > event[current[e]].at
           /\ \A i \in Events \ {signed + 1} : event'[i] = event[i]
<1>1. PICK t \in 0..MaxClock : event' = [event EXCEPT ![signed + 1] = Signed(e, s, t)]
  BY DEF Sign
<1>2. signed \in Nat /\ MaxEvents \in Nat /\ signed < MaxEvents /\ signed' = signed + 1
  BY OutboxAssumption DEF TypeOK, Sign
<1>3. signed + 1 \in Events /\ signed' \in 0..MaxEvents
  BY <1>2 DEF Events
<1>4. t \in Nat
  BY <1>1, OutboxAssumption
<1>5. ASSUME current[e] # None PROVE event[current[e]].at \in Nat
  BY <1>5 DEF TypeOK
<1>6. TimeFor(e, t) \in Nat /\ (e = Program /\ current[e] # None => TimeFor(e, t) > event[current[e]].at)
  BY <1>4, <1>5 DEF TimeFor
<1>7. Signed(e, s, t) \in EventRow /\ Signed(e, s, t).of = e /\ Signed(e, s, t).says = s
      /\ Signed(e, s, t).at = TimeFor(e, t)
  BY <1>6 DEF Signed, EventRow
<1>8. event \in [Events -> EventRow]
  BY DEF TypeOK, EventRow
<1>. HIDE DEF EventRow
<1>9. event' \in [Events -> EventRow] /\ event'[signed + 1] = Signed(e, s, t)
      /\ \A i \in Events \ {signed + 1} : event'[i] = event[i]
  BY <1>1, <1>3, <1>7, <1>8
<1>. QED
  BY <1>2, <1>3, <1>6, <1>7, <1>9

\* What is persisted is published or pending, and stays published; the queue keeps its type.
LEMMA PersistDoes ==
    ASSUME TypeOK, NEW i \in Events, NEW acked \in BOOLEAN, Persist(i, acked)
    PROVE  /\ outbox' \in [Events -> {"none", "pending", "published"}]
           /\ queue' \in [Events -> Nat]
           /\ outbox'[i] = IF acked \/ outbox[i] = "published" THEN "published" ELSE "pending"
           /\ Persisted(i, acked)[i] = outbox'[i]
           /\ \A j \in Events \ {i} : outbox'[j] = outbox[j]
<1>1. outbox \in [Events -> {"none", "pending", "published"}] /\ queue \in [Events -> Nat]
  BY DEF TypeOK
<1>2. outbox' = Persisted(i, acked) /\ queue' = Requeued(i, Persisted(i, acked)[i] = "pending")
  BY DEF Persist
<1>3. IsFiniteSet(Pending \ {i})
  <2>1. IsFiniteSet(1..MaxEvents)
    BY FS_Interval, OutboxAssumption
  <2>2. Pending \ {i} \subseteq 1..MaxEvents
    BY DEF Pending, Events
  <2>. QED
    BY <2>1, <2>2, FS_Subset
<1>4. Cardinality(Pending \ {i}) + 1 \in Nat
  BY <1>3, FS_CardinalityType
<1>5. queue' \in [Events -> Nat]
  <2>1. ASSUME NEW j \in Events, 0 < queue[i], queue[i] < queue[j] PROVE queue[j] - 1 \in Nat
    BY <2>1, <1>1
  <2>. QED
    BY <1>1, <1>2, <1>4, <2>1 DEF Requeued
<1>. QED
  BY <1>1, <1>2, <1>5 DEF Persisted

\* A job that starts keeps its type.
LEMMA StartType ==
    ASSUME TypeOK, NEW w \in Actors, NEW how \in {"finalize", "accept", "change"},
           NEW i \in Events, Start(w, how, i)
    PROVE  job' \in [Actors -> Jobs]
BY DEF TypeOK, Start, Jobs

\* A hand-over of events to publish keeps the types of jobs.
LEMMA FinalizeType ==
    ASSUME TypeOK, NEW w \in Actors, NEW S \in SUBSET Events, Finalize(w, S)
    PROVE  job' \in [Actors -> Jobs]
BY DEF TypeOK, Finalize, Jobs, Idle

\* So does the end of a job.
LEMMA EndType ==
    ASSUME TypeOK, NEW w \in Actors, (\E i \in Events : Done(w, i)) \/ EndJob(w)
    PROVE  job' \in [Actors -> Jobs]
<1>1. ASSUME NEW i \in Events, Done(w, i) PROVE job' \in [Actors -> Jobs]
  <2>1. job[w].todo \ {i} \in SUBSET Events
    BY DEF TypeOK, Jobs
  <2>. DEFINE next == IF job[w].todo \ {i} = {} THEN Idle
                      ELSE [Idle EXCEPT !.step = "next", !.todo = job[w].todo \ {i}]
  <2>2. next \in Jobs
    BY <2>1 DEF Jobs, Idle
  <2>3. job' = [job EXCEPT ![w] = next]
    BY <1>1 DEF Done
  <2>. QED
    BY <2>2, <2>3 DEF TypeOK
<1>2. ASSUME EndJob(w) PROVE job' \in [Actors -> Jobs]
  BY <1>2 DEF TypeOK, EndJob, Idle, Jobs
<1>. QED
  BY <1>1, <1>2

-----------------------------------------------------------------------------
(* Types. *)

\* A row that is committed with a pending event keeps its type.
LEMMA CommitPendingType ==
    ASSUME TypeOK, NEW e \in Entities, NEW s \in Statuses, CommitPending(e, s)
    PROVE  /\ signed + 1 \in Events /\ signed' \in 0..MaxEvents
           /\ event' \in [Events -> EventRow]
           /\ outbox' \in [Events -> {"none", "pending", "published"}]
           /\ queue' \in [Events -> Nat]
           /\ status' \in [Entities -> Statuses]
           /\ current' \in [Entities -> Events \cup {None}]
           /\ shown' \in [Entities -> BOOLEAN]
<1>1. Sign(e, s) /\ Persist(signed + 1, FALSE)
  BY DEF CommitPending
<1>2. signed + 1 \in Events /\ signed' \in 0..MaxEvents /\ event' \in [Events -> EventRow]
  BY <1>1, SignDoes
<1>3. outbox' \in [Events -> {"none", "pending", "published"}] /\ queue' \in [Events -> Nat]
  BY <1>1, <1>2, PersistDoes
<1>. QED
  BY <1>2, <1>3 DEF CommitPending, TypeOK

\* So does one whose event is not published.
LEMMA CommitUnpublishedType ==
    ASSUME TypeOK, NEW e \in Entities, NEW s \in Statuses, CommitUnpublished(e, s)
    PROVE  TypeOK'
<1>1. Sign(e, s)
  BY DEF CommitUnpublished
<1>2. signed + 1 \in Events /\ signed' \in 0..MaxEvents /\ event' \in [Events -> EventRow]
  BY <1>1, SignDoes
<1>. QED
  BY <1>2 DEF CommitUnpublished, TypeOK, EventRow, lockVars

\* Every action of a request about the campaign keeps the types.
LEMMA CampaignType ==
    ASSUME TypeOK, NEW w \in Workers, CampaignRequest(w)
    PROVE  TypeOK'
<1>0. w \in Actors /\ Program \in Entities /\ {"active", "inactive"} \subseteq Statuses
  BY DEF Actors, Entities, Statuses
<1>1. CASE CreateCampaign(w)
  <2>1. Sign(Program, "active") /\ Start(w, "change", signed + 1)
    BY <1>1 DEF CreateCampaign
  <2>2. signed + 1 \in Events /\ signed' \in 0..MaxEvents /\ event' \in [Events -> EventRow]
    BY <1>0, <2>1, SignDoes
  <2>3. job' \in [Actors -> Jobs]
    BY <1>0, <2>1, <2>2, StartType
  <2>. QED
    BY <1>1, <2>2, <2>3 DEF CreateCampaign, TypeOK, rowVars, lockVars, EventRow
<1>2. ASSUME NEW s \in {"active", "inactive"}, CommitPending(Program, s), Finalize(w, {signed + 1}),
             UNCHANGED <<relay, lockVars, faults>>
      PROVE  TypeOK'
  <2>1. signed + 1 \in Events
    BY <1>0, <1>2, CommitPendingType
  <2>2. job' \in [Actors -> Jobs]
    BY <1>0, <1>2, <2>1, FinalizeType
  <2>. QED
    BY <1>0, <1>2, <2>2, CommitPendingType DEF TypeOK, lockVars, EventRow
<1>3. CASE OnboardMerchant(w) \/ UpdateCampaign(w) \/ PauseForBudget(w)
  BY <1>2, <1>3 DEF OnboardMerchant, UpdateCampaign, PauseForBudget
<1>4. CASE OnboardMerchantAgain(w)
  <2>1. current[Program] \in Events /\ Finalize(w, {current[Program]})
    BY <1>0, <1>4 DEF OnboardMerchantAgain, TypeOK
  <2>2. job' \in [Actors -> Jobs]
    BY <1>0, <2>1, FinalizeType
  <2>. QED
    BY <1>4, <2>2 DEF OnboardMerchantAgain, TypeOK, rowVars, lockVars
<1>5. CASE UpdateCampaignStatus(w)
  <2>1. PICK s \in {"active", "inactive"} : Sign(Program, s)
    BY <1>5 DEF UpdateCampaignStatus
  <2>2. signed + 1 \in Events /\ signed' \in 0..MaxEvents /\ event' \in [Events -> EventRow]
    BY <1>0, <2>1, SignDoes
  <2>3. job' \in [Actors -> Jobs]
    BY <1>0, <1>5, <2>2, StartType DEF UpdateCampaignStatus
  <2>. QED
    BY <1>0, <1>5, <2>2, <2>3 DEF UpdateCampaignStatus, TypeOK, rowVars, EventRow
<1>6. CASE RetryConversion(w)
  <2>1. \E S \in SUBSET Events : Finalize(w, S)
    BY <1>6 DEF RetryConversion, Pending
  <2>2. job' \in [Actors -> Jobs]
    BY <1>0, <2>1, FinalizeType
  <2>. QED
    BY <1>6, <2>2 DEF RetryConversion, TypeOK, rowVars, lockVars
<1>. QED
  BY <1>1, <1>3, <1>4, <1>5, <1>6 DEF CampaignRequest

\* So does every action of a request about an enrollment.
LEMMA EnrollmentType ==
    ASSUME TypeOK, RowInv, NEW w \in Workers, NEW e \in Enrollments, EnrollmentRequest(w, e)
    PROVE  TypeOK'
<1>0. w \in Actors /\ e \in Entities /\ {"pending", "approved", "closed"} \subseteq Statuses
  BY DEF Actors, Entities, Statuses
<1>1. ASSUME NEW s \in {"pending", "approved", "closed"}, Sign(e, s), Start(w, "change", signed + 1),
             UNCHANGED <<rowVars, relay, lockVars, faults>>
      PROVE  TypeOK'
  <2>1. signed + 1 \in Events /\ signed' \in 0..MaxEvents /\ event' \in [Events -> EventRow]
    BY <1>0, <1>1, SignDoes
  <2>2. job' \in [Actors -> Jobs]
    BY <1>0, <1>1, <2>1, StartType
  <2>. QED
    BY <1>1, <2>1, <2>2 DEF TypeOK, rowVars, lockVars, EventRow
<1>2. CASE CreateEnrollment(w, e) \/ UpdateEnrollmentStatus(w, e)
  BY <1>1, <1>2 DEF CreateEnrollment, UpdateEnrollmentStatus
<1>3. ASSUME CommitPending(e, "approved"),
             Finalize(w, {signed + 1}) \/ Start(w, "accept", signed + 1),
             UNCHANGED <<relay, lockVars, faults>>
      PROVE  TypeOK'
  <2>1. signed + 1 \in Events
    BY <1>0, <1>3, CommitPendingType
  <2>2. job' \in [Actors -> Jobs]
    BY <1>0, <1>3, <2>1, FinalizeType, StartType
  <2>. QED
    BY <1>0, <1>3, <2>2, CommitPendingType DEF TypeOK, lockVars, EventRow
<1>4. CASE JoinOpen(w, e) \/ ApproveEnrollment(w, e) \/ AcceptInvitation(w, e)
  BY <1>3, <1>4 DEF JoinOpen, ApproveEnrollment, AcceptInvitation
<1>5. CASE JoinPending(w, e) \/ RejectEnrollment(w, e)
  BY <1>0, <1>5, CommitUnpublishedType DEF JoinPending, RejectEnrollment
<1>6. CASE AcceptInvitationAgain(w, e)
  <2>1. Start(w, "accept", current[e])
    BY <1>6 DEF AcceptInvitationAgain
  <2>2. current[e] \in Events
    BY <1>0, <1>6 DEF AcceptInvitationAgain, TypeOK, RowInv
  <2>3. job' \in [Actors -> Jobs]
    BY <1>0, <2>1, <2>2, StartType
  <2>. QED
    BY <1>6, <2>3 DEF AcceptInvitationAgain, TypeOK, rowVars, lockVars
<1>. QED
  BY <1>2, <1>4, <1>5, <1>6 DEF EnrollmentRequest

\* The steps of a publication keep the types: the event in hand exists.
LEMMA PublicationType ==
    ASSUME TypeOK, JobInv, NEW w \in Actors, PublicationStep(w)
    PROVE  TypeOK'
<1>1. ASSUME job[w].step \in {"publish", "persist"} PROVE job[w].id \in Events /\ job[w].acked \in BOOLEAN
  BY <1>1, OutboxAssumption DEF JobInv, TypeOK, Events, Jobs
<1>2. ASSUME NEW i \in Events, SkipPublished(w, i) PROVE TypeOK'
  <2>1. job' \in [Actors -> Jobs]
    BY <1>2, EndType DEF SkipPublished
  <2>. QED
    BY <1>2, <2>1 DEF SkipPublished, TypeOK, rowVars, lockVars
<1>3. ASSUME NEW i \in Events, TakeEvent(w, i) PROVE TypeOK'
  <2>1. [job[w] EXCEPT !.step = "publish", !.id = i] \in Jobs
    BY DEF TypeOK, Jobs
  <2>2. job' = [job EXCEPT ![w] = [job[w] EXCEPT !.step = "publish", !.id = i]]
    BY <1>3 DEF TakeEvent, TypeOK, Jobs
  <2>3. job' \in [Actors -> Jobs]
    BY <2>1, <2>2 DEF TypeOK
  <2>. QED
    BY <1>3, <2>3 DEF TakeEvent, TypeOK, rowVars
<1>4. ASSUME Publish(w) PROVE TypeOK'
  <2>1. PICK acked \in BOOLEAN : job' = [job EXCEPT ![w].step = "persist", ![w].acked = acked]
    BY <1>4 DEF Publish
  <2>2. [job[w] EXCEPT !.step = "persist", !.acked = acked] \in Jobs
    BY ZenonT(30) DEF TypeOK, Jobs
  <2>3. job' = [job EXCEPT ![w] = [job[w] EXCEPT !.step = "persist", !.acked = acked]]
    BY <2>1 DEF TypeOK, Jobs
  <2>4. job' \in [Actors -> Jobs]
    BY <2>2, <2>3 DEF TypeOK
  <2>5. relay' \subseteq Events
    BY <1>1, <1>4 DEF Publish, TypeOK
  <2>. QED
    BY <1>4, <2>4, <2>5 DEF Publish, TypeOK, rowVars, lockVars
<1>5. ASSUME PersistResult(w) PROVE TypeOK'
  <2>1. job[w].id \in Events /\ job[w].acked \in BOOLEAN /\ Persist(job[w].id, job[w].acked) /\ Done(w, job[w].id)
    BY <1>1, <1>5 DEF PersistResult
  <2>2. job' \in [Actors -> Jobs]
    BY <2>1, EndType
  <2>3. outbox' \in [Events -> {"none", "pending", "published"}] /\ queue' \in [Events -> Nat]
    BY <2>1, PersistDoes
  <2>. QED
    BY <1>5, <2>1, <2>2, <2>3 DEF PersistResult, TypeOK
<1>6. ASSUME PersistFails(w) PROVE TypeOK'
  <2>1. job[w].id \in Events /\ Done(w, job[w].id)
    BY <1>1, <1>6 DEF PersistFails
  <2>2. job' \in [Actors -> Jobs]
    BY <2>1, EndType
  <2>3. faults' \in 0..MaxFaults
    BY <1>6, OutboxAssumption DEF PersistFails, TypeOK
  <2>. QED
    BY <1>6, <2>2, <2>3 DEF PersistFails, TypeOK, rowVars
<1>7. ASSUME PersistAccepted(w) PROVE TypeOK'
  <2>1. job[w].id \in Events /\ job[w].acked \in BOOLEAN /\ Persist(job[w].id, job[w].acked) /\ EndJob(w)
    BY <1>1, <1>7 DEF PersistAccepted
  <2>2. job' \in [Actors -> Jobs]
    BY <2>1, EndType
  <2>3. outbox' \in [Events -> {"none", "pending", "published"}] /\ queue' \in [Events -> Nat]
    BY <2>1, PersistDoes
  <2>. QED
    BY <1>7, <2>2, <2>3 DEF PersistAccepted, TypeOK, lockVars
<1>8. ASSUME CommitChange(w) PROVE TypeOK'
  <2>1. job[w].id \in Events /\ job[w].acked \in BOOLEAN /\ Persist(job[w].id, job[w].acked) /\ EndJob(w)
    BY <1>1, <1>8 DEF CommitChange
  <2>2. job' \in [Actors -> Jobs]
    BY <2>1, EndType
  <2>3. outbox' \in [Events -> {"none", "pending", "published"}] /\ queue' \in [Events -> Nat]
    BY <2>1, PersistDoes
  <2>4. event[job[w].id].says \in Statuses
    BY <2>1 DEF TypeOK
  <2>5. status' \in [Entities -> Statuses] /\ current' \in [Entities -> Events \cup {None}]
        /\ shown' \in [Entities -> BOOLEAN]
    BY <1>8, <2>1, <2>4 DEF CommitChange, TypeOK
  <2>6. campaignLock' \in Actors \cup {None}
    BY <1>8 DEF CommitChange, TypeOK, ReleasedLock
  <2>. QED
    BY <1>8, <2>2, <2>3, <2>5, <2>6 DEF CommitChange, TypeOK
<1>. QED
  BY <1>2, <1>3, <1>4, <1>5, <1>6, <1>7, <1>8 DEF PublicationStep

\* The types are inductive together with what rows and requests know of events.
LEMMA TypeStep ==
    ASSUME TypeOK, RowInv, JobInv, [Next]_vars
    PROVE  TypeOK'
<1>1. CASE ReadBatch
  <2>1. Finalize(Thread, {i \in Pending : queue[i] <= BatchLimit})
    BY <1>1 DEF ReadBatch
  <2>2. {i \in Pending : queue[i] <= BatchLimit} \in SUBSET Events /\ Thread \in Actors
    BY DEF Pending, Actors
  <2>3. job' \in [Actors -> Jobs]
    BY <2>1, <2>2, FinalizeType
  <2>. QED
    BY <1>1, <2>3 DEF ReadBatch, TypeOK, rowVars, lockVars
<1>2. ASSUME NEW w \in Workers, CampaignRequest(w) PROVE TypeOK'
  BY <1>2, CampaignType
<1>3. ASSUME NEW w \in Workers, NEW e \in Enrollments, EnrollmentRequest(w, e) PROVE TypeOK'
  BY <1>3, EnrollmentType
<1>4. ASSUME NEW w \in Actors, PublicationStep(w) PROVE TypeOK'
  BY <1>4, PublicationType
<1>5. ASSUME NEW w \in Actors, Crash(w) PROVE TypeOK'
  <2>1. job' \in [Actors -> Jobs]
    BY <1>5, EndType DEF Crash
  <2>2. faults' \in 0..MaxFaults
    BY <1>5, OutboxAssumption DEF Crash, TypeOK
  <2>3. campaignLock' \in Actors \cup {None} /\ pubLock' \in [Events -> Actors \cup {None}]
    BY <1>5 DEF Crash, TypeOK, ReleasedLock
  <2>. QED
    BY <1>5, <2>1, <2>2, <2>3 DEF Crash, TypeOK, rowVars
<1>6. CASE UNCHANGED vars
  BY <1>6 DEF vars, rowVars, lockVars, TypeOK
<1>. QED
  BY <1>1, <1>2, <1>3, <1>4, <1>5, <1>6 DEF Next

-----------------------------------------------------------------------------
(* The invariant, by what a step does to events and rows. *)

RestInv == EventInv /\ RowInv /\ ShownIsPublished /\ OrderInv /\ JobInv /\ ChangeInv /\ NothingLost

\* The event that comes next is not signed, stored or published, and nobody names it.
LEMMA NextIsFresh ==
    ASSUME TypeOK, RestInv, signed + 1 \in Events
    PROVE  /\ event[signed + 1].of = None /\ outbox[signed + 1] = "none" /\ signed + 1 \notin relay
           /\ \A f \in Entities : current[f] # signed + 1
           /\ \A w \in Actors : job[w].step \in {"publish", "persist"} => job[w].id # signed + 1
           /\ \A w \in Actors : signed + 1 \notin job[w].todo
<1>1. signed \in Nat /\ signed + 1 > signed /\ signed + 1 \notin 1..signed
  BY OutboxAssumption DEF TypeOK
<1>2. event[signed + 1].of = None /\ outbox[signed + 1] = "none" /\ signed + 1 \notin relay
  BY <1>1 DEF RestInv, EventInv
<1>3. \A f \in Entities : current[f] # signed + 1
  BY <1>2, NoneIsNothing DEF RestInv, RowInv
<1>4. \A w \in Actors : job[w].step \in {"publish", "persist"} => job[w].id # signed + 1
  BY <1>1 DEF RestInv, JobInv
<1>5. \A w \in Actors : signed + 1 \notin job[w].todo
  BY <1>2 DEF RestInv, JobInv
<1>. QED
  BY <1>2, <1>3, <1>4, <1>5

\* A job that holds only committed events, or none.
Harmless(j) ==
    /\ \A i \in j.todo : outbox'[i] # "none"
    /\ j.step = "next" => j.how = "finalize"
    /\ j.step \in {"publish", "persist"} =>
          j.how # "change" /\ j.id \in 1..signed' /\ outbox'[j.id] # "none"
    /\ j.step = "persist" /\ j.acked => j.id \in relay'

\* Steps that change a job only: a request that finalizes what is committed, the thread
\* reading, a database error, a crash.
LEMMA QuietStep ==
    ASSUME TypeOK, RestInv, NEW w \in Actors,
           UNCHANGED <<signed, event, rowVars, relay>>,
           \A v \in Actors \ {w} : job'[v] = job[v],
           Harmless(job'[w]),
           campaignLock' = campaignLock \/ campaignLock = w,
           (faults' = faults /\ ~Changing(w)) \/ faults' # 0
    PROVE  RestInv'
<1>. USE DEF rowVars
<1>1. EventInv' /\ RowInv' /\ ShownIsPublished' /\ OrderInv'
  BY DEF RestInv, EventInv, RowInv, ShownIsPublished, OrderInv
<1>2. JobInv'
  BY DEF RestInv, JobInv, Harmless
<1>3. ~Changing(w)' /\ \A v \in Actors \ {w} : Changing(v)' <=> Changing(v)
  BY DEF Changing, Harmless
<1>4. ChangeInv'
  BY <1>3 DEF RestInv, ChangeInv
<1>5. NothingLost'
  BY <1>3 DEF RestInv, NothingLost
<1>. QED
  BY <1>1, <1>2, <1>4, <1>5 DEF RestInv

\* A row and its pending event are committed, and the event is handed over.
LEMMA CommitPendingStep ==
    ASSUME TypeOK, RestInv, NEW w \in Actors, NEW e \in Entities,
           NEW s \in {"active", "inactive", "approved"},
           job[w].step = "idle", CommitPending(e, s),
           Finalize(w, {signed + 1}) \/ Start(w, "accept", signed + 1),
           UNCHANGED <<relay, lockVars, faults>>,
           e = Program => Unused(Program) \/ (campaignLock = None /\ current[Program] # None)
    PROVE  RestInv'
<1>. DEFINE n == signed + 1
<1>0. s \in Statuses /\ signed \in Nat /\ campaignLock' = campaignLock
  BY OutboxAssumption DEF Statuses, TypeOK, lockVars
<1>1. /\ signed' = n /\ n \in Events /\ event' \in [Events -> EventRow]
      /\ event'[n].of = e /\ event'[n].says = s
      /\ e = Program /\ current[e] # None => event'[n].at > event[current[e]].at
      /\ \A i \in Events \ {n} : event'[i] = event[i]
  BY <1>0, SignDoes DEF CommitPending
<1>2. /\ event[n].of = None /\ outbox[n] = "none" /\ n \notin relay
      /\ \A f \in Entities : current[f] # n
      /\ \A v \in Actors : job[v].step \in {"publish", "persist"} => job[v].id # n
      /\ \A v \in Actors : n \notin job[v].todo
  BY <1>1, NextIsFresh
<1>3. outbox'[n] = "pending" /\ \A i \in Events \ {n} : outbox'[i] = outbox[i]
  BY <1>1, <1>2, PersistDoes DEF CommitPending
<1>4. /\ status'[e] = s /\ current'[e] = n /\ ~shown'[e]
      /\ \A f \in Entities \ {e} : status'[f] = status[f] /\ current'[f] = current[f] /\ shown'[f] = shown[f]
  BY DEF CommitPending, TypeOK
<1>5. \A v \in Actors \ {w} : job'[v] = job[v]
  BY DEF TypeOK, Finalize, Start
<1>6. Harmless(job'[w])
  <2>1. n \in 1..signed' /\ relay' = relay
    BY <1>0, <1>1
  <2>2. CASE Finalize(w, {n})
    BY <1>3, <2>2 DEF TypeOK, Finalize, Harmless, Idle
  <2>3. CASE Start(w, "accept", n)
    BY <1>3, <2>1, <2>3 DEF TypeOK, Start, Harmless
  <2>. QED
    BY <2>2, <2>3
<1>7. ~Changing(w)' /\ ~Changing(w) /\ \A v \in Actors \ {w} : Changing(v)' <=> Changing(v)
  BY <1>5, <1>6 DEF Changing, Harmless
<1>8. \A i \in Events : i # n => (i > n <=> i > signed /\ i # n) /\ (i <= n <=> i <= signed)
  BY <1>0, OutboxAssumption DEF Events
<1>9. \A f \in Entities : current[f] # None => current[f] \in Events /\ current[f] # n
  BY <1>2 DEF TypeOK
<1>. HIDE DEF n
<1>10. EventInv'
  <2>. SUFFICES ASSUME NEW i \in Events
               PROVE /\ i > signed' => event'[i].of = None /\ outbox'[i] = "none" /\ i \notin relay'
                     /\ i <= signed' => event'[i].of \in Entities
                     /\ outbox'[i] = "published" => i \in relay'
    BY DEF EventInv
  <2>1. CASE i = n
    BY <1>1, <1>3, <2>1, OutboxAssumption DEF Events
  <2>2. CASE i # n
    BY <1>1, <1>3, <1>8, <2>2 DEF RestInv, EventInv
  <2>. QED
    BY <2>1, <2>2
<1>11. RowInv'
  BY <1>1, <1>3, <1>4, <1>9, NoneIsNothing DEF RestInv, RowInv
<1>12. ShownIsPublished'
  BY <1>1, <1>3, <1>4, <1>9 DEF RestInv, RowInv, ShownIsPublished
<1>13. OrderInv'
  <2>. SUFFICES ASSUME NEW i \in Events, event'[i].of = Program, outbox'[i] # "none"
               PROVE /\ current'[Program] # None
                     /\ i # current'[Program] => event'[i].at < event'[current'[Program]].at
    BY DEF OrderInv
  <2>0. Program \in Entities /\ n # None
    BY <1>1, NoneIsNothing DEF Entities
  <2>1. CASE e = Program
    <3>1. CASE i = n
      BY <1>4, <2>0, <2>1, <3>1
    <3>2. CASE i # n
      <4>1. event[i].of = Program /\ outbox[i] # "none" /\ event'[i] = event[i]
        BY <1>1, <1>3, <3>2
      <4>2. current[Program] # None /\ (i # current[Program] => event[i].at < event[current[Program]].at)
        BY <4>1 DEF RestInv, OrderInv
      <4>3. event[current[Program]].at \in Nat /\ event[i].at \in Nat /\ event'[n].at \in Nat
        BY <1>1, <1>9, <2>0, <4>2 DEF TypeOK, EventRow
      <4>4. event[i].at < event'[n].at
        BY <1>1, <2>1, <4>2, <4>3
      <4>. QED
        BY <1>4, <2>0, <2>1, <4>1, <4>4
    <3>. QED
      BY <3>1, <3>2
  <2>2. CASE e # Program
    <3>1. i # n
      BY <1>1, <2>2
    <3>2. event[i].of = Program /\ outbox[i] # "none" /\ event'[i] = event[i]
      BY <1>1, <1>3, <3>1
    <3>3. current[Program] # None /\ (i # current[Program] => event[i].at < event[current[Program]].at)
      BY <3>2 DEF RestInv, OrderInv
    <3>. QED
      BY <1>1, <1>4, <1>9, <2>0, <2>2, <3>2, <3>3
  <2>. QED
    BY <2>1, <2>2
<1>14. JobInv'
  <2>. SUFFICES ASSUME NEW v \in Actors
               PROVE /\ \A i \in job'[v].todo : outbox'[i] # "none"
                     /\ job'[v].step = "next" => job'[v].how = "finalize"
                     /\ job'[v].step \in {"publish", "persist"} => job'[v].id \in 1..signed'
                     /\ job'[v].step \in {"publish", "persist"} /\ job'[v].how # "change"
                            => outbox'[job'[v].id] # "none"
                     /\ job'[v].step = "persist" /\ job'[v].acked => job'[v].id \in relay'
    BY DEF JobInv
  <2>1. CASE v = w
    BY <1>6, <2>1 DEF Harmless
  <2>2. CASE v # w
    <3>1. job[v].todo \subseteq Events /\ (job[v].step \in {"publish", "persist"} => job[v].id \in Events)
      BY <1>0, <1>1, OutboxAssumption DEF TypeOK, Jobs, RestInv, JobInv, Events
    <3>2. \A k \in 1..signed : k \in 1..signed'
      BY <1>0, <1>1 DEF n
    <3>. QED
      BY <1>2, <1>3, <1>5, <2>2, <3>1, <3>2 DEF RestInv, JobInv
  <2>. QED
    BY <2>1, <2>2
<1>15. ChangeInv'
  <2>. SUFFICES ASSUME NEW v \in Actors, Changing(v)'
               PROVE /\ outbox'[job'[v].id] = "none"
                     /\ \A u \in Actors \ {v} : Changing(u)' => job'[u].id # job'[v].id
                     /\ event'[job'[v].id].of = Program =>
                            IF current'[Program] = None
                            THEN \A i \in Events : event'[i].of = Program => i = job'[v].id
                            ELSE campaignLock' = v /\ event'[job'[v].id].at > event'[current'[Program]].at
    BY DEF ChangeInv
  <2>0. Program \in Entities
    BY DEF Entities
  <2>1. v # w /\ Changing(v) /\ job'[v] = job[v]
    BY <1>5, <1>7
  <2>2. job[v].id \in Events /\ job[v].id # n
    <3>1. job[v].id \in 1..signed
      BY <2>1 DEF RestInv, JobInv, Changing
    <3>. QED
      BY <1>0, <1>2, <2>1, <3>1, OutboxAssumption DEF TypeOK, Events, Changing
  <2>3. outbox'[job'[v].id] = "none"
    BY <1>3, <2>1, <2>2 DEF RestInv, ChangeInv
  <2>4. \A u \in Actors \ {v} : Changing(u)' => job'[u].id # job'[v].id
    BY <1>5, <1>7, <2>1 DEF RestInv, ChangeInv
  <2>5. ASSUME event'[job'[v].id].of = Program
        PROVE  IF current'[Program] = None
               THEN \A i \in Events : event'[i].of = Program => i = job'[v].id
               ELSE campaignLock' = v /\ event'[job'[v].id].at > event'[current'[Program]].at
    <3>1. event[job[v].id].of = Program /\ event'[job[v].id] = event[job[v].id]
      BY <1>1, <2>1, <2>2, <2>5
    <3>2. IF current[Program] = None
          THEN \A i \in Events : event[i].of = Program => i = job[v].id
          ELSE campaignLock = v /\ event[job[v].id].at > event[current[Program]].at
      BY <2>1, <3>1 DEF RestInv, ChangeInv
    <3>3. e # Program
      BY <2>2, <3>1, <3>2, NoneIsNothing DEF Unused
    <3>. QED
      BY <1>0, <1>1, <1>4, <1>9, <2>0, <2>1, <3>1, <3>2, <3>3
  <2>. QED
    BY <2>3, <2>4, <2>5
<1>16. NothingLost'
  BY <1>1, <1>3, <1>5, <1>7 DEF RestInv, NothingLost
<1>. QED
  BY <1>10, <1>11, <1>12, <1>13, <1>14, <1>15, <1>16 DEF RestInv

\* A change is signed and goes to the relays before it is committed.
LEMMA SignStep ==
    ASSUME TypeOK, RestInv, NEW w \in Actors, NEW e \in Entities, NEW s \in Statuses,
           job[w].step = "idle", Sign(e, s), Start(w, "change", signed + 1),
           UNCHANGED <<rowVars, relay, faults>>,
           campaignLock' = campaignLock \/ campaignLock = None,
           e = Program => \/ Unused(Program)
                          \/ campaignLock = None /\ campaignLock' = w /\ current[Program] # None
    PROVE  RestInv'
<1>. DEFINE n == signed + 1
<1>0. signed \in Nat /\ outbox' = outbox /\ status' = status /\ current' = current /\ shown' = shown
  BY OutboxAssumption DEF TypeOK, rowVars
<1>1. /\ signed' = n /\ n \in Events /\ event' \in [Events -> EventRow]
      /\ event'[n].of = e /\ event'[n].says = s
      /\ e = Program /\ current[e] # None => event'[n].at > event[current[e]].at
      /\ \A i \in Events \ {n} : event'[i] = event[i]
  BY SignDoes
<1>2. /\ event[n].of = None /\ outbox[n] = "none" /\ n \notin relay
      /\ \A f \in Entities : current[f] # n
      /\ \A v \in Actors : job[v].step \in {"publish", "persist"} => job[v].id # n
      /\ \A v \in Actors : n \notin job[v].todo
  BY <1>1, NextIsFresh
<1>3. \A v \in Actors \ {w} : job'[v] = job[v]
  BY DEF TypeOK, Start
<1>4. job'[w] = [step |-> "publish", how |-> "change", id |-> n, todo |-> {}, acked |-> FALSE]
  BY DEF TypeOK, Start
<1>5. Changing(w)' /\ ~Changing(w) /\ \A v \in Actors \ {w} : Changing(v)' <=> Changing(v)
  BY <1>3, <1>4 DEF Changing
<1>6. \A i \in Events : i # n => (i > n <=> i > signed /\ i # n) /\ (i <= n <=> i <= signed)
  BY <1>0, OutboxAssumption DEF Events
<1>7. n \in 1..signed' /\ \A k \in 1..signed : k \in 1..signed'
  BY <1>0, <1>1
<1>8. \A f \in Entities : current[f] # None => current[f] \in Events /\ current[f] # n
  BY <1>2 DEF TypeOK
<1>9. Program \in Entities
  BY DEF Entities
<1>. HIDE DEF n
<1>10. EventInv'
  <2>. SUFFICES ASSUME NEW i \in Events
               PROVE /\ i > signed' => event'[i].of = None /\ outbox'[i] = "none" /\ i \notin relay'
                     /\ i <= signed' => event'[i].of \in Entities
                     /\ outbox'[i] = "published" => i \in relay'
    BY DEF EventInv
  <2>1. CASE i = n
    BY <1>0, <1>1, <1>2, <2>1, OutboxAssumption DEF Events
  <2>2. CASE i # n
    BY <1>0, <1>1, <1>6, <2>2 DEF RestInv, EventInv
  <2>. QED
    BY <2>1, <2>2
<1>11. RowInv' /\ ShownIsPublished'
  BY <1>0, <1>1, <1>8 DEF RestInv, RowInv, ShownIsPublished
<1>12. OrderInv'
  <2>. SUFFICES ASSUME NEW i \in Events, event'[i].of = Program, outbox'[i] # "none"
               PROVE /\ current'[Program] # None
                     /\ i # current'[Program] => event'[i].at < event'[current'[Program]].at
    BY DEF OrderInv
  <2>1. i # n /\ event'[i] = event[i]
    BY <1>0, <1>1, <1>2
  <2>2. current[Program] # None /\ (i # current[Program] => event[i].at < event[current[Program]].at)
    BY <1>0, <2>1 DEF RestInv, OrderInv
  <2>. QED
    BY <1>0, <1>1, <1>8, <1>9, <2>1, <2>2
<1>13. JobInv'
  BY <1>0, <1>3, <1>4, <1>7 DEF RestInv, JobInv
<1>14. ChangeInv'
  <2>. SUFFICES ASSUME NEW v \in Actors, Changing(v)'
               PROVE /\ outbox'[job'[v].id] = "none"
                     /\ \A u \in Actors \ {v} : Changing(u)' => job'[u].id # job'[v].id
                     /\ event'[job'[v].id].of = Program =>
                            IF current'[Program] = None
                            THEN \A i \in Events : event'[i].of = Program => i = job'[v].id
                            ELSE campaignLock' = v /\ event'[job'[v].id].at > event'[current'[Program]].at
    BY DEF ChangeInv
  <2>0. \A u \in Actors \ {w} : Changing(u) => job'[u] = job[u] /\ job[u].id \in Events /\ job[u].id # n
    <3>. TAKE u \in Actors \ {w}
    <3>. HAVE Changing(u)
    <3>1. job[u].id \in 1..signed
      BY DEF RestInv, JobInv, Changing
    <3>. QED
      BY <1>0, <1>2, <1>3, <3>1, OutboxAssumption DEF TypeOK, Events, Changing
  <2>1. CASE v = w
    <3>1. outbox'[job'[v].id] = "none" /\ \A u \in Actors \ {v} : Changing(u)' => job'[u].id # job'[v].id
      BY <1>0, <1>2, <1>4, <1>5, <2>0, <2>1
    <3>2. ASSUME e = Program
          PROVE  IF current'[Program] = None
                 THEN \A i \in Events : event'[i].of = Program => i = n
                 ELSE campaignLock' = w /\ event'[n].at > event'[current'[Program]].at
      <4>1. CASE Unused(Program)
        <5>1. current[Program] = None
          BY <1>9, <4>1 DEF Unused, RestInv, RowInv, TypeOK
        <5>. QED
          BY <1>0, <1>1, <4>1, <5>1 DEF Unused
      <4>2. CASE campaignLock' = w /\ current[Program] # None
        BY <1>0, <1>1, <1>8, <1>9, <3>2, <4>2
      <4>. QED
        BY <3>2, <4>1, <4>2
    <3>. QED
      BY <1>1, <1>4, <2>1, <3>1, <3>2
  <2>2. CASE v # w
    <3>1. Changing(v) /\ job'[v] = job[v] /\ job[v].id \in Events /\ job[v].id # n
      BY <1>5, <2>0, <2>2
    <3>2. outbox'[job'[v].id] = "none"
      BY <1>0, <3>1 DEF RestInv, ChangeInv
    <3>3. ASSUME NEW u \in Actors \ {v}, Changing(u)' PROVE job'[u].id # job'[v].id
      <4>1. CASE u = w
        BY <1>4, <3>1, <4>1
      <4>2. CASE u # w
        BY <1>5, <2>0, <3>1, <3>3, <4>2 DEF RestInv, ChangeInv
      <4>. QED
        BY <4>1, <4>2
    <3>4. ASSUME event'[job'[v].id].of = Program
          PROVE  IF current'[Program] = None
                 THEN \A i \in Events : event'[i].of = Program => i = job'[v].id
                 ELSE campaignLock' = v /\ event'[job'[v].id].at > event'[current'[Program]].at
      <4>1. event[job[v].id].of = Program /\ event'[job[v].id] = event[job[v].id]
        BY <1>1, <3>1, <3>4
      <4>2. IF current[Program] = None
            THEN \A i \in Events : event[i].of = Program => i = job[v].id
            ELSE campaignLock = v /\ event[job[v].id].at > event[current[Program]].at
        BY <3>1, <4>1 DEF RestInv, ChangeInv
      <4>3. e # Program
        BY <3>1, <4>1, <4>2, NoneIsNothing DEF Unused
      <4>. QED
        BY <1>0, <1>1, <1>8, <1>9, <3>1, <4>1, <4>2, <4>3, NoneIsNothing
    <3>. QED
      BY <3>2, <3>3, <3>4
  <2>. QED
    BY <2>1, <2>2
<1>15. NothingLost'
  <2>. SUFFICES ASSUME faults' = 0, NEW i \in Events, event'[i].of = Program, outbox'[i] = "none"
               PROVE \E v \in Actors : Changing(v)' /\ job'[v].id = i
    BY DEF NothingLost
  <2>1. CASE i = n
    BY <1>4, <1>5, <2>1
  <2>2. CASE i # n
    <3>1. PICK v \in Actors : Changing(v) /\ job[v].id = i
      BY <1>0, <1>1, <2>2 DEF RestInv, NothingLost
    <3>. QED
      BY <1>3, <1>5, <3>1
  <2>. QED
    BY <2>1, <2>2
<1>. QED
  BY <1>10, <1>11, <1>12, <1>13, <1>14, <1>15 DEF RestInv

\* An enrollment's row changes with an event that nobody publishes.
LEMMA CommitUnpublishedStep ==
    ASSUME TypeOK, RestInv, NEW e \in Enrollments, NEW s \in {"pending", "closed"},
           CommitUnpublished(e, s)
    PROVE  RestInv'
<1>. DEFINE n == signed + 1
<1>0. /\ signed \in Nat /\ outbox' = outbox /\ relay' = relay /\ job' = job
      /\ campaignLock' = campaignLock /\ faults' = faults
      /\ e \in Entities /\ e # Program /\ Program \in Entities /\ s \in Statuses
  BY OutboxAssumption DEF TypeOK, CommitUnpublished, lockVars, Entities, Statuses
<1>1. /\ signed' = n /\ n \in Events /\ event' \in [Events -> EventRow]
      /\ event'[n].of = e /\ event'[n].says = s
      /\ \A i \in Events \ {n} : event'[i] = event[i]
  BY <1>0, SignDoes DEF CommitUnpublished
<1>2. /\ event[n].of = None /\ outbox[n] = "none" /\ n \notin relay
      /\ \A f \in Entities : current[f] # n
      /\ \A v \in Actors : job[v].step \in {"publish", "persist"} => job[v].id # n
  BY <1>1, NextIsFresh
<1>3. /\ status'[e] = s /\ current'[e] = n /\ ~shown'[e]
      /\ \A f \in Entities \ {e} : status'[f] = status[f] /\ current'[f] = current[f] /\ shown'[f] = shown[f]
  BY <1>0 DEF CommitUnpublished, TypeOK
<1>4. \A i \in Events : i # n => (i > n <=> i > signed /\ i # n) /\ (i <= n <=> i <= signed)
  BY <1>0, OutboxAssumption DEF Events
<1>5. \A k \in 1..signed : k \in 1..signed'
  BY <1>0, <1>1
<1>6. \A f \in Entities : current[f] # None => current[f] \in Events /\ current[f] # n
  BY <1>2 DEF TypeOK
<1>7. \A v \in Actors : Changing(v)' <=> Changing(v)
  BY <1>0 DEF Changing
<1>. HIDE DEF n
<1>8. EventInv'
  <2>. SUFFICES ASSUME NEW i \in Events
               PROVE /\ i > signed' => event'[i].of = None /\ outbox'[i] = "none" /\ i \notin relay'
                     /\ i <= signed' => event'[i].of \in Entities
                     /\ outbox'[i] = "published" => i \in relay'
    BY DEF EventInv
  <2>1. CASE i = n
    BY <1>0, <1>1, <1>2, <2>1, OutboxAssumption DEF Events
  <2>2. CASE i # n
    BY <1>0, <1>1, <1>4, <2>2 DEF RestInv, EventInv
  <2>. QED
    BY <2>1, <2>2
<1>9. RowInv'
  BY <1>0, <1>1, <1>3, <1>6, NoneIsNothing DEF RestInv, RowInv
<1>10. ShownIsPublished'
  BY <1>0, <1>3, <1>6 DEF RestInv, ShownIsPublished
<1>11. OrderInv'
  <2>. SUFFICES ASSUME NEW i \in Events, event'[i].of = Program, outbox'[i] # "none"
               PROVE /\ current'[Program] # None
                     /\ i # current'[Program] => event'[i].at < event'[current'[Program]].at
    BY DEF OrderInv
  <2>1. i # n /\ event'[i] = event[i]
    BY <1>0, <1>1, <1>2
  <2>2. current[Program] # None /\ (i # current[Program] => event[i].at < event[current[Program]].at)
    BY <1>0, <2>1 DEF RestInv, OrderInv
  <2>. QED
    BY <1>0, <1>1, <1>3, <1>6, <2>1, <2>2
<1>12. JobInv'
  BY <1>0, <1>5 DEF RestInv, JobInv
<1>13. ChangeInv'
  <2>. SUFFICES ASSUME NEW v \in Actors, Changing(v)'
               PROVE /\ outbox'[job'[v].id] = "none"
                     /\ \A u \in Actors \ {v} : Changing(u)' => job'[u].id # job'[v].id
                     /\ event'[job'[v].id].of = Program =>
                            IF current'[Program] = None
                            THEN \A i \in Events : event'[i].of = Program => i = job'[v].id
                            ELSE campaignLock' = v /\ event'[job'[v].id].at > event'[current'[Program]].at
    BY DEF ChangeInv
  <2>1. Changing(v) /\ job[v].id \in Events /\ job[v].id # n
    <3>1. Changing(v) /\ job[v].id \in 1..signed
      BY <1>7 DEF RestInv, JobInv, Changing
    <3>. QED
      BY <1>0, <1>2, <3>1, OutboxAssumption DEF TypeOK, Events, Changing
  <2>2. event'[job[v].id] = event[job[v].id]
    BY <1>1, <2>1
  <2>. QED
    BY <1>0, <1>1, <1>3, <1>6, <1>7, <2>1, <2>2 DEF RestInv, ChangeInv
<1>14. NothingLost'
  BY <1>0, <1>1, <1>7 DEF RestInv, NothingLost
<1>. QED
  BY <1>8, <1>9, <1>10, <1>11, <1>12, <1>13, <1>14 DEF RestInv

\* A job that does not move keeps its part of JobInv.
LEMMA JobKept ==
    ASSUME TypeOK, RestInv, NEW v \in Actors, job'[v] = job[v], signed' = signed,
           \A k \in Events : outbox[k] # "none" => outbox'[k] # "none",
           relay \subseteq relay'
    PROVE  /\ \A k \in job'[v].todo : outbox'[k] # "none"
           /\ job'[v].step = "next" => job'[v].how = "finalize"
           /\ job'[v].step \in {"publish", "persist"} => job'[v].id \in 1..signed'
           /\ job'[v].step \in {"publish", "persist"} /\ job'[v].how # "change"
                  => outbox'[job'[v].id] # "none"
           /\ job'[v].step = "persist" /\ job'[v].acked => job'[v].id \in relay'
<1>1. /\ \A k \in job[v].todo : outbox[k] # "none"
      /\ job[v].step = "next" => job[v].how = "finalize"
      /\ job[v].step \in {"publish", "persist"} => job[v].id \in 1..signed
      /\ job[v].step \in {"publish", "persist"} /\ job[v].how # "change" => outbox[job[v].id] # "none"
      /\ job[v].step = "persist" /\ job[v].acked => job[v].id \in relay
  BY DEF RestInv, JobInv
<1>2. job[v].todo \subseteq Events /\ job[v].id \in Events \cup {None}
  BY DEF TypeOK, Jobs
<1>3. job[v].id \in 1..signed => job[v].id \in Events
  BY OutboxAssumption DEF TypeOK, Events
<1>. QED
  BY <1>1, <1>2, <1>3

\* The relays answer.
LEMMA PublishStep ==
    ASSUME TypeOK, RestInv, NEW w \in Actors, Publish(w)
    PROVE  RestInv'
<1>1. PICK taken \in BOOLEAN, acked \in BOOLEAN :
         /\ acked => taken
         /\ relay' = IF taken THEN relay \cup {job[w].id} ELSE relay
         /\ job' = [job EXCEPT ![w].step = "persist", ![w].acked = acked]
  BY DEF Publish
<1>2. /\ job[w].step = "publish" /\ signed' = signed /\ event' = event /\ outbox' = outbox
      /\ status' = status /\ current' = current /\ shown' = shown
      /\ campaignLock' = campaignLock /\ faults' = faults
  BY DEF Publish, rowVars, lockVars
<1>3. /\ job'[w].step = "persist" /\ job'[w].how = job[w].how /\ job'[w].id = job[w].id
      /\ job'[w].todo = job[w].todo /\ job'[w].acked = acked
      /\ \A v \in Actors \ {w} : job'[v] = job[v]
  BY <1>1 DEF TypeOK, Jobs
<1>4. \A v \in Actors : Changing(v)' <=> Changing(v)
  BY <1>2, <1>3 DEF Changing
<1>5. \A v \in Actors : job'[v].id = job[v].id
  BY <1>3
<1>6. \A i \in relay' : i \in relay \/ i = job[w].id
  BY <1>1
<1>7. job[w].id \in 1..signed
  BY <1>2 DEF RestInv, JobInv
<1>8. EventInv'
  <2>1. \A i \in Events : i > signed => i \notin relay'
    BY <1>6, <1>7, OutboxAssumption DEF RestInv, EventInv, TypeOK, Events
  <2>2. relay \subseteq relay'
    BY <1>1
  <2>. QED
    BY <1>2, <2>1, <2>2 DEF RestInv, EventInv
<1>9. RowInv' /\ OrderInv'
  BY <1>2 DEF RestInv, RowInv, OrderInv
<1>10. ShownIsPublished'
  BY <1>1, <1>2 DEF RestInv, ShownIsPublished
<1>11. JobInv'
  <2>. SUFFICES ASSUME NEW v \in Actors
               PROVE /\ \A i \in job'[v].todo : outbox'[i] # "none"
                     /\ job'[v].step = "next" => job'[v].how = "finalize"
                     /\ job'[v].step \in {"publish", "persist"} => job'[v].id \in 1..signed'
                     /\ job'[v].step \in {"publish", "persist"} /\ job'[v].how # "change"
                            => outbox'[job'[v].id] # "none"
                     /\ job'[v].step = "persist" /\ job'[v].acked => job'[v].id \in relay'
    BY DEF JobInv
  <2>1. CASE v = w
    <3>1. acked => job[w].id \in relay'
      BY <1>1
    <3>. QED
      BY <1>2, <1>3, <1>7, <2>1, <3>1 DEF RestInv, JobInv
  <2>2. CASE v # w
    BY <1>1, <1>2, <1>3, <2>2, JobKept
  <2>. QED
    BY <2>1, <2>2
<1>12. ChangeInv'
  BY <1>2, <1>4, <1>5 DEF RestInv, ChangeInv
<1>13. NothingLost'
  BY <1>2, <1>4, <1>5 DEF RestInv, NothingLost
<1>. QED
  BY <1>8, <1>9, <1>10, <1>11, <1>12, <1>13 DEF RestInv

\* The result of a publication after the commit is stored.
LEMMA PersistStep ==
    ASSUME TypeOK, RestInv, NEW w \in Actors, PersistResult(w) \/ PersistAccepted(w)
    PROVE  RestInv'
<1>. DEFINE i == job[w].id
            e == event[i].of
            acked == job[w].acked
<1>1. job[w].step = "persist" /\ job[w].how # "change" /\ Persist(i, acked)
  BY DEF PersistResult, PersistAccepted
<1>2. i \in Events /\ i \in 1..signed /\ acked \in BOOLEAN /\ outbox[i] # "none" /\ (acked => i \in relay)
  <2>1. i \in 1..signed /\ outbox[i] # "none" /\ (acked => i \in relay)
    BY <1>1 DEF RestInv, JobInv
  <2>. QED
    BY <2>1, OutboxAssumption DEF TypeOK, Events, Jobs
<1>3. /\ signed' = signed /\ event' = event /\ status' = status /\ current' = current
      /\ relay' = relay /\ campaignLock' = campaignLock /\ faults' = faults
  BY DEF PersistResult, PersistAccepted, lockVars
<1>4. /\ outbox'[i] = IF acked \/ outbox[i] = "published" THEN "published" ELSE "pending"
      /\ Persisted(i, acked)[i] = outbox'[i]
      /\ \A j \in Events \ {i} : outbox'[j] = outbox[j]
  BY <1>1, <1>2, PersistDoes
<1>5. \A j \in Events : /\ outbox'[j] = "none" <=> outbox[j] = "none"
                        /\ outbox[j] = "published" => outbox'[j] = "published"
                        /\ outbox'[j] = "published" => outbox[j] = "published" \/ (j = i /\ acked)
  BY <1>2, <1>4
<1>6. \A f \in Entities : shown'[f] => shown[f] \/ (current[f] = i /\ acked)
  <2>1. CASE PersistResult(w)
    <3>1. shown' = [shown EXCEPT ![e] =
                      IF current[e] = i /\ Persisted(i, acked)[i] = (IF acked THEN "published" ELSE "pending")
                      THEN acked ELSE @]
      BY <2>1 DEF PersistResult
    <3>. QED
      BY <3>1, <1>2 DEF TypeOK
  <2>2. CASE PersistAccepted(w)
    BY <2>2 DEF PersistAccepted
  <2>. QED
    BY <2>1, <2>2
<1>7. \A v \in Actors \ {w} : job'[v] = job[v]
  BY DEF PersistResult, PersistAccepted, Done, EndJob, TypeOK
<1>8. Harmless(job'[w])
  <2>1. CASE PersistResult(w)
    <3>1. job'[w] = IF job[w].todo \ {i} = {} THEN Idle
                    ELSE [Idle EXCEPT !.step = "next", !.todo = job[w].todo \ {i}]
      BY <2>1 DEF PersistResult, Done, TypeOK
    <3>2. \A k \in job[w].todo : outbox[k] # "none" /\ k \in Events
      BY DEF RestInv, JobInv, TypeOK, Jobs
    <3>. QED
      BY <1>5, <3>1, <3>2 DEF Harmless, Idle
  <2>2. CASE PersistAccepted(w)
    BY <2>2 DEF PersistAccepted, EndJob, TypeOK, Harmless, Idle
  <2>. QED
    BY <2>1, <2>2
<1>9. ~Changing(w)' /\ ~Changing(w) /\ \A v \in Actors \ {w} : Changing(v)' <=> Changing(v)
  BY <1>1, <1>7, <1>8 DEF Changing, Harmless
<1>10. \A f \in Entities : current[f] # None => current[f] \in Events
  BY DEF TypeOK
<1>11. \A v \in Actors : /\ job[v].todo \subseteq Events
                         /\ job[v].step \in {"publish", "persist"} => job[v].id \in Events
  BY OutboxAssumption DEF TypeOK, Jobs, RestInv, JobInv, Events
<1>. HIDE DEF i, e, acked
<1>12. EventInv'
  BY <1>2, <1>3, <1>5 DEF RestInv, EventInv
<1>13. RowInv'
  BY <1>3, <1>5, <1>6, <1>10, <1>2, NoneIsNothing, TypeOK DEF RestInv, RowInv, TypeOK
<1>14. ShownIsPublished'
  <2>. SUFFICES ASSUME NEW f \in Entities, shown'[f]
               PROVE outbox'[current'[f]] = "published" /\ current'[f] \in relay'
    BY DEF ShownIsPublished
  <2>1. CASE shown[f]
    <3>1. outbox[current[f]] = "published" /\ current[f] \in relay /\ current[f] \in Events
      BY <2>1 DEF RestInv, ShownIsPublished, TypeOK
    <3>. QED
      BY <1>3, <1>5, <3>1
  <2>2. CASE current[f] = i /\ acked
    BY <1>2, <1>3, <1>4, <2>2
  <2>. QED
    BY <1>6, <2>1, <2>2
<1>15. OrderInv'
  BY <1>3, <1>5 DEF RestInv, OrderInv
<1>16. JobInv'
  <2>. SUFFICES ASSUME NEW v \in Actors
               PROVE /\ \A k \in job'[v].todo : outbox'[k] # "none"
                     /\ job'[v].step = "next" => job'[v].how = "finalize"
                     /\ job'[v].step \in {"publish", "persist"} => job'[v].id \in 1..signed'
                     /\ job'[v].step \in {"publish", "persist"} /\ job'[v].how # "change"
                            => outbox'[job'[v].id] # "none"
                     /\ job'[v].step = "persist" /\ job'[v].acked => job'[v].id \in relay'
    BY DEF JobInv
  <2>1. CASE v = w
    BY <1>8, <2>1 DEF Harmless
  <2>2. CASE v # w
    BY <1>3, <1>5, <1>7, <2>2, JobKept
  <2>. QED
    BY <2>1, <2>2
<1>17. ChangeInv'
  <2>. SUFFICES ASSUME NEW v \in Actors, Changing(v)'
               PROVE /\ outbox'[job'[v].id] = "none"
                     /\ \A u \in Actors \ {v} : Changing(u)' => job'[u].id # job'[v].id
                     /\ event'[job'[v].id].of = Program =>
                            IF current'[Program] = None
                            THEN \A k \in Events : event'[k].of = Program => k = job'[v].id
                            ELSE campaignLock' = v /\ event'[job'[v].id].at > event'[current'[Program]].at
    BY DEF ChangeInv
  <2>1. Changing(v) /\ job'[v] = job[v] /\ job[v].id \in Events
    <3>1. v # w /\ Changing(v) /\ job'[v] = job[v]
      BY <1>7, <1>9
    <3>2. job[v].step \in {"publish", "persist"}
      BY <3>1 DEF Changing
    <3>3. job[v].id \in Events
      BY <1>11, <3>2
    <3>. QED
      BY <3>1, <3>3
  <2>2. outbox'[job'[v].id] = "none"
    BY <1>5, <2>1 DEF RestInv, ChangeInv
  <2>3. \A u \in Actors \ {v} : Changing(u)' => job'[u].id # job'[v].id
    BY <1>7, <1>9, <2>1 DEF RestInv, ChangeInv
  <2>. QED
    BY <1>3, <2>1, <2>2, <2>3 DEF RestInv, ChangeInv
<1>18. NothingLost'
  BY <1>3, <1>5, <1>7, <1>9 DEF RestInv, NothingLost
<1>. QED
  BY <1>12, <1>13, <1>14, <1>15, <1>16, <1>17, <1>18 DEF RestInv

\* A change that was published is committed: its event becomes the row's, and the latest.
LEMMA CommitChangeStep ==
    ASSUME TypeOK, RestInv, NEW w \in Actors, CommitChange(w)
    PROVE  RestInv'
<1>. DEFINE i == job[w].id
            e == event[i].of
            acked == job[w].acked
<1>1. job[w].step = "persist" /\ job[w].how = "change" /\ Persist(i, acked) /\ Changing(w)
  BY DEF CommitChange, Changing
<1>2. /\ i \in Events /\ i \in 1..signed /\ acked \in BOOLEAN /\ (acked => i \in relay)
      /\ outbox[i] = "none" /\ e \in Entities
      /\ \A v \in Actors \ {w} : Changing(v) => job[v].id # i
      /\ e = Program => IF current[Program] = None
                        THEN \A j \in Events : event[j].of = Program => j = i
                        ELSE campaignLock = w /\ event[i].at > event[current[Program]].at
  <2>1. i \in 1..signed /\ (acked => i \in relay)
    BY <1>1 DEF RestInv, JobInv
  <2>2. i \in Events /\ i <= signed /\ acked \in BOOLEAN
    BY <2>1, OutboxAssumption DEF TypeOK, Events, Jobs
  <2>. QED
    BY <1>1, <2>1, <2>2 DEF RestInv, EventInv, ChangeInv
<1>3. /\ signed' = signed /\ event' = event /\ relay' = relay /\ faults' = faults
      /\ campaignLock' = IF campaignLock = w THEN None ELSE campaignLock
  BY DEF CommitChange, ReleasedLock
<1>4. /\ outbox'[i] = IF acked THEN "published" ELSE "pending"
      /\ \A j \in Events \ {i} : outbox'[j] = outbox[j]
  BY <1>1, <1>2, PersistDoes
<1>5. /\ status'[e] = event[i].says /\ current'[e] = i /\ shown'[e] = acked
      /\ \A f \in Entities \ {e} : status'[f] = status[f] /\ current'[f] = current[f] /\ shown'[f] = shown[f]
  BY <1>2 DEF CommitChange, TypeOK
<1>6. job'[w] = Idle /\ \A v \in Actors \ {w} : job'[v] = job[v]
  BY DEF CommitChange, EndJob, TypeOK
<1>7. ~Changing(w)' /\ \A v \in Actors \ {w} : Changing(v)' <=> Changing(v)
  BY <1>6 DEF Changing, Idle
<1>8. \A f \in Entities \ {e} : current[f] # None => current[f] \in Events /\ current[f] # i
  BY <1>2 DEF TypeOK, RestInv, RowInv
<1>9. \A v \in Actors : /\ job[v].todo \subseteq Events
                        /\ job[v].step \in {"publish", "persist"} => job[v].id \in Events
  BY OutboxAssumption DEF TypeOK, Jobs, RestInv, JobInv, Events
<1>10. Program \in Entities /\ i # None
  BY <1>2, NoneIsNothing DEF Entities
<1>. HIDE DEF i, e, acked
<1>11. EventInv'
  BY <1>2, <1>3, <1>4, OutboxAssumption DEF RestInv, EventInv, TypeOK, Events
<1>12. RowInv'
  <2>. SUFFICES ASSUME NEW f \in Entities
               PROVE IF current'[f] = None THEN status'[f] = "none" /\ ~shown'[f]
                     ELSE /\ event'[current'[f]].of = f /\ event'[current'[f]].says = status'[f]
                          /\ f = Program \/ status'[f] = "approved" => outbox'[current'[f]] # "none"
    BY DEF RowInv
  <2>1. CASE f = e
    BY <1>3, <1>4, <1>5, <1>10, <2>1 DEF e
  <2>2. CASE f # e
    BY <1>3, <1>4, <1>5, <1>8, <2>2 DEF RestInv, RowInv
  <2>. QED
    BY <2>1, <2>2
<1>13. ShownIsPublished'
  <2>. SUFFICES ASSUME NEW f \in Entities, shown'[f]
               PROVE outbox'[current'[f]] = "published" /\ current'[f] \in relay'
    BY DEF ShownIsPublished
  <2>1. CASE f = e
    BY <1>2, <1>3, <1>4, <1>5, <2>1
  <2>2. CASE f # e
    <3>1. shown[f] /\ current'[f] = current[f]
      BY <1>5, <2>2
    <3>2. current[f] # None /\ outbox[current[f]] = "published" /\ current[f] \in relay
      BY <3>1 DEF RestInv, RowInv, ShownIsPublished
    <3>. QED
      BY <1>3, <1>4, <1>8, <2>2, <3>1, <3>2
  <2>. QED
    BY <2>1, <2>2
<1>14. OrderInv'
  <2>. SUFFICES ASSUME NEW j \in Events, event'[j].of = Program, outbox'[j] # "none"
               PROVE /\ current'[Program] # None
                     /\ j # current'[Program] => event'[j].at < event'[current'[Program]].at
    BY DEF OrderInv
  <2>1. CASE e = Program
    <3>1. current'[Program] = i
      BY <1>5, <2>1
    <3>2. ASSUME j # i PROVE event[j].at < event[i].at
      <4>1. outbox[j] # "none" /\ event[j].of = Program
        BY <1>3, <1>4, <3>2
      <4>2. current[Program] # None /\ (j # current[Program] => event[j].at < event[current[Program]].at)
        BY <4>1 DEF RestInv, OrderInv
      <4>3. event[j].at \in Nat /\ event[i].at \in Nat /\ event[current[Program]].at \in Nat
        BY <1>2, <1>10, <4>2 DEF TypeOK
      <4>. QED
        BY <1>2, <2>1, <4>2, <4>3
    <3>. QED
      BY <1>3, <1>10, <3>1, <3>2
  <2>2. CASE e # Program
    <3>1. j # i /\ outbox[j] # "none" /\ event[j].of = Program
      BY <1>3, <1>4, <2>2 DEF e
    <3>. QED
      BY <1>3, <1>5, <1>10, <2>2, <3>1 DEF RestInv, OrderInv
  <2>. QED
    BY <2>1, <2>2
<1>15. JobInv'
  <2>. SUFFICES ASSUME NEW v \in Actors
               PROVE /\ \A k \in job'[v].todo : outbox'[k] # "none"
                     /\ job'[v].step = "next" => job'[v].how = "finalize"
                     /\ job'[v].step \in {"publish", "persist"} => job'[v].id \in 1..signed'
                     /\ job'[v].step \in {"publish", "persist"} /\ job'[v].how # "change"
                            => outbox'[job'[v].id] # "none"
                     /\ job'[v].step = "persist" /\ job'[v].acked => job'[v].id \in relay'
    BY DEF JobInv
  <2>1. CASE v = w
    BY <1>6, <2>1 DEF Idle
  <2>2. CASE v # w
    BY <1>2, <1>3, <1>4, <1>6, <2>2, JobKept
  <2>. QED
    BY <2>1, <2>2
<1>16. ChangeInv'
  <2>. SUFFICES ASSUME NEW v \in Actors, Changing(v)'
               PROVE /\ outbox'[job'[v].id] = "none"
                     /\ \A u \in Actors \ {v} : Changing(u)' => job'[u].id # job'[v].id
                     /\ event'[job'[v].id].of = Program =>
                            IF current'[Program] = None
                            THEN \A j \in Events : event'[j].of = Program => j = job'[v].id
                            ELSE campaignLock' = v /\ event'[job'[v].id].at > event'[current'[Program]].at
    BY DEF ChangeInv
  <2>1. v # w /\ Changing(v) /\ job'[v] = job[v] /\ job[v].id \in Events /\ job[v].id # i
    <3>0. v # w
      BY <1>7
    <3>1. v # w /\ Changing(v) /\ job'[v] = job[v]
      BY <1>6, <1>7, <3>0
    <3>2. job[v].step \in {"publish", "persist"}
      BY <3>1 DEF Changing
    <3>3. job[v].id \in Events
      BY <1>9, <3>2
    <3>4. job[v].id # i
      BY <1>2, <3>1
    <3>. QED
      BY <3>1, <3>3, <3>4
  <2>2. outbox'[job'[v].id] = "none"
    BY <1>4, <2>1 DEF RestInv, ChangeInv
  <2>3. \A u \in Actors \ {v} : Changing(u)' => job'[u].id # job'[v].id
    BY <1>6, <1>7, <2>1 DEF RestInv, ChangeInv
  <2>4. ASSUME event'[job'[v].id].of = Program
        PROVE  IF current'[Program] = None
               THEN \A j \in Events : event'[j].of = Program => j = job'[v].id
               ELSE campaignLock' = v /\ event'[job'[v].id].at > event'[current'[Program]].at
    <3>1. event[job[v].id].of = Program
      BY <1>3, <2>1, <2>4
    <3>2. IF current[Program] = None
          THEN \A j \in Events : event[j].of = Program => j = job[v].id
          ELSE campaignLock = v /\ event[job[v].id].at > event[current[Program]].at
      BY <2>1, <3>1 DEF RestInv, ChangeInv
    <3>3. e # Program
      BY <1>2, <2>1, <3>1, <3>2
    <3>. QED
      BY <1>3, <1>5, <1>10, <2>1, <3>2, <3>3
  <2>. QED
    BY <2>2, <2>3, <2>4
<1>17. NothingLost'
  <2>. SUFFICES ASSUME faults' = 0, NEW j \in Events, event'[j].of = Program, outbox'[j] = "none"
               PROVE \E v \in Actors : Changing(v)' /\ job'[v].id = j
    BY DEF NothingLost
  <2>1. j # i
    BY <1>4
  <2>2. PICK v \in Actors : Changing(v) /\ job[v].id = j
    BY <1>3, <1>4, <2>1 DEF RestInv, NothingLost
  <2>3. v # w
    BY <2>1, <2>2 DEF i
  <2>. QED
    BY <1>6, <1>7, <2>2, <2>3
<1>. QED
  BY <1>11, <1>12, <1>13, <1>14, <1>15, <1>16, <1>17 DEF RestInv

-----------------------------------------------------------------------------
(* The invariant, action by action. *)

\* An empty database, an empty outbox and idle requests.
LEMMA InitInv == Init => OutboxInv
<1>. SUFFICES ASSUME Init PROVE OutboxInv
  OBVIOUS
<1>1. TypeOK
  BY OutboxAssumption DEF Init, TypeOK, NoEvent, Statuses, Jobs, Idle
<1>2. \A i \in Events : i > 0
  BY OutboxAssumption DEF Events
<1>3. \A w \in Actors : job[w] = Idle
  BY DEF Init
<1>4. EventInv /\ RowInv /\ ShownIsPublished /\ OrderInv /\ NothingLost
  BY <1>2, NoneIsNothing, OutboxAssumption
     DEF Init, EventInv, RowInv, ShownIsPublished, OrderInv, NothingLost, NoEvent, Events, Entities
<1>5. JobInv /\ ChangeInv
  BY <1>3 DEF JobInv, ChangeInv, Changing, Idle
<1>. QED
  BY <1>1, <1>4, <1>5 DEF OutboxInv

\* A request about the campaign.
LEMMA CampaignKeepsInv ==
    ASSUME TypeOK, RestInv, NEW w \in Workers, CampaignRequest(w)
    PROVE  RestInv'
<1>0. /\ w \in Actors /\ Program \in Entities /\ {"active", "inactive"} \subseteq Statuses
      /\ \A v \in Actors \ {w} : \A S \in SUBSET Events : Finalize(w, S) => job'[v] = job[v]
  BY DEF Actors, Entities, Statuses, Finalize, TypeOK
<1>1. CASE CreateCampaign(w)
  <2>1. /\ job[w].step = "idle" /\ Unused(Program) /\ Sign(Program, "active")
        /\ Start(w, "change", signed + 1) /\ UNCHANGED <<rowVars, relay, faults>>
        /\ campaignLock' = campaignLock
    BY <1>1 DEF CreateCampaign, lockVars
  <2>. QED
    BY <1>0, <2>1, SignStep
<1>2. CASE OnboardMerchant(w)
  <2>1. /\ job[w].step = "idle" /\ Unused(Program) /\ CommitPending(Program, "active")
        /\ Finalize(w, {signed + 1}) /\ UNCHANGED <<relay, lockVars, faults>>
    BY <1>2 DEF OnboardMerchant
  <2>. QED
    BY <1>0, <2>1, CommitPendingStep
<1>3. CASE UpdateCampaign(w)
  <2>1. /\ job[w].step = "idle" /\ campaignLock = None /\ current[Program] # None
        /\ CommitPending(Program, "active")
        /\ Finalize(w, {signed + 1}) /\ UNCHANGED <<relay, lockVars, faults>>
    BY <1>3 DEF UpdateCampaign
  <2>. QED
    BY <1>0, <2>1, CommitPendingStep
<1>4. CASE PauseForBudget(w)
  <2>1. /\ job[w].step = "idle" /\ campaignLock = None /\ status[Program] = "active"
        /\ CommitPending(Program, "inactive")
        /\ Finalize(w, {signed + 1}) /\ UNCHANGED <<relay, lockVars, faults>>
    BY <1>4 DEF PauseForBudget
  <2>2. current[Program] # None
    BY <1>0, <2>1 DEF RestInv, RowInv
  <2>. QED
    BY <1>0, <2>1, <2>2, CommitPendingStep
<1>5. CASE UpdateCampaignStatus(w)
  <2>1. PICK s \in {"active", "inactive"} : Sign(Program, s)
    BY <1>5 DEF UpdateCampaignStatus
  <2>2. /\ job[w].step = "idle" /\ campaignLock = None /\ current[Program] # None
        /\ Start(w, "change", signed + 1) /\ UNCHANGED <<rowVars, relay, faults>>
        /\ campaignLock' = w
    BY <1>5 DEF UpdateCampaignStatus
  <2>. QED
    BY <1>0, <2>1, <2>2, SignStep
<1>6. ASSUME job[w].step = "idle", UNCHANGED <<signed, event, rowVars, relay, lockVars, faults>>,
             NEW S \in SUBSET Events, \A i \in S : outbox[i] # "none", Finalize(w, S)
      PROVE  RestInv'
  <2>1. outbox' = outbox /\ campaignLock' = campaignLock /\ UNCHANGED <<signed, event, rowVars, relay>>
    BY <1>6 DEF rowVars, lockVars
  <2>2. Harmless(job'[w])
    BY <1>0, <1>6, <2>1 DEF Harmless, Finalize, TypeOK, Idle
  <2>3. ~Changing(w)
    BY <1>6 DEF Changing
  <2>. QED
    BY <1>0, <1>6, <2>1, <2>2, <2>3, QuietStep
<1>7. CASE OnboardMerchantAgain(w)
  <2>1. current[Program] \in Events /\ outbox[current[Program]] # "none"
    BY <1>0, <1>7 DEF OnboardMerchantAgain, TypeOK, RestInv, RowInv
  <2>2. {current[Program]} \in SUBSET Events /\ \A i \in {current[Program]} : outbox[i] # "none"
    BY <2>1
  <2>. QED
    BY <1>6, <1>7, <2>2 DEF OnboardMerchantAgain
<1>8. CASE RetryConversion(w)
  <2>. DEFINE S == {i \in Pending : event[i].of = Program}
  <2>1. S \in SUBSET Events /\ \A i \in S : outbox[i] # "none"
    BY DEF Pending
  <2>2. job[w].step = "idle" /\ Finalize(w, S) /\ UNCHANGED <<signed, event, rowVars, relay, lockVars, faults>>
    BY <1>8 DEF RetryConversion
  <2>. QED
    BY <1>6, <2>1, <2>2
<1>. QED
  BY <1>1, <1>2, <1>3, <1>4, <1>5, <1>7, <1>8 DEF CampaignRequest

\* A request about an enrollment.
LEMMA EnrollmentKeepsInv ==
    ASSUME TypeOK, RestInv, NEW w \in Workers, NEW e \in Enrollments, EnrollmentRequest(w, e)
    PROVE  RestInv'
<1>0. w \in Actors /\ e \in Entities /\ e # Program /\ {"pending", "approved", "closed"} \subseteq Statuses
  BY OutboxAssumption DEF Actors, Entities, Statuses
<1>1. ASSUME NEW s \in {"pending", "approved", "closed"}, job[w].step = "idle", Sign(e, s),
             Start(w, "change", signed + 1), UNCHANGED <<rowVars, relay, lockVars, faults>>
      PROVE  RestInv'
  <2>1. UNCHANGED <<rowVars, relay, faults>> /\ campaignLock' = campaignLock
    BY <1>1 DEF lockVars
  <2>. QED
    BY <1>0, <1>1, <2>1, SignStep
<1>2. CASE CreateEnrollment(w, e) \/ UpdateEnrollmentStatus(w, e)
  BY <1>1, <1>2 DEF CreateEnrollment, UpdateEnrollmentStatus
<1>3. ASSUME job[w].step = "idle", CommitPending(e, "approved"),
             Finalize(w, {signed + 1}) \/ Start(w, "accept", signed + 1),
             UNCHANGED <<relay, lockVars, faults>>
      PROVE  RestInv'
  BY <1>0, <1>3, CommitPendingStep
<1>4. CASE JoinOpen(w, e) \/ ApproveEnrollment(w, e) \/ AcceptInvitation(w, e)
  BY <1>3, <1>4 DEF JoinOpen, ApproveEnrollment, AcceptInvitation
<1>5. CASE JoinPending(w, e) \/ RejectEnrollment(w, e)
  BY <1>5, CommitUnpublishedStep DEF JoinPending, RejectEnrollment
<1>6. CASE AcceptInvitationAgain(w, e)
  <2>1. /\ job[w].step = "idle" /\ Start(w, "accept", current[e])
        /\ UNCHANGED <<signed, event, rowVars, relay>> /\ outbox' = outbox
        /\ campaignLock' = campaignLock /\ faults' = faults
    BY <1>6 DEF AcceptInvitationAgain, rowVars, lockVars
  <2>2. current[e] \in Events /\ outbox[current[e]] # "none" /\ event[current[e]].of = e
    BY <1>0, <1>6 DEF AcceptInvitationAgain, TypeOK, RestInv, RowInv
  <2>3. current[e] \in 1..signed'
    <3>1. ~(current[e] > signed)
      BY <1>0, <2>2, NoneIsNothing DEF RestInv, EventInv
    <3>. QED
      BY <2>1, <2>2, <3>1, OutboxAssumption DEF Events, TypeOK
  <2>4. Harmless(job'[w]) /\ \A v \in Actors \ {w} : job'[v] = job[v]
    BY <1>0, <2>1, <2>2, <2>3 DEF Harmless, Start, TypeOK
  <2>5. ~Changing(w)
    BY <2>1 DEF Changing
  <2>. QED
    BY <1>0, <2>1, <2>4, <2>5, QuietStep
<1>. QED
  BY <1>2, <1>4, <1>5, <1>6 DEF EnrollmentRequest

\* What a job still has to finalize is committed.
LEMMA DoneIsHarmless ==
    ASSUME TypeOK, RestInv, NEW w \in Actors, NEW i \in Events, Done(w, i), outbox' = outbox
    PROVE  Harmless(job'[w]) /\ \A v \in Actors \ {w} : job'[v] = job[v]
<1>1. job'[w] = IF job[w].todo \ {i} = {} THEN Idle
                ELSE [Idle EXCEPT !.step = "next", !.todo = job[w].todo \ {i}]
  BY DEF Done, TypeOK
<1>2. \A k \in job[w].todo : outbox[k] # "none"
  BY DEF RestInv, JobInv
<1>3. \A v \in Actors \ {w} : job'[v] = job[v]
  BY DEF Done, TypeOK
<1>. QED
  BY <1>1, <1>2, <1>3 DEF Harmless, Idle

\* A step of a publication.
LEMMA PublicationKeepsInv ==
    ASSUME TypeOK, RestInv, NEW w \in Actors, PublicationStep(w)
    PROVE  RestInv'
<1>1. ASSUME NEW i \in Events, SkipPublished(w, i) PROVE RestInv'
  <2>1. /\ Done(w, i) /\ outbox' = outbox /\ UNCHANGED <<signed, event, rowVars, relay>>
        /\ campaignLock' = campaignLock /\ faults' = faults /\ ~Changing(w)
    BY <1>1 DEF SkipPublished, rowVars, lockVars, Changing
  <2>. QED
    BY <2>1, DoneIsHarmless, QuietStep
<1>2. ASSUME NEW i \in Events, TakeEvent(w, i) PROVE RestInv'
  <2>1. /\ outbox' = outbox /\ UNCHANGED <<signed, event, rowVars, relay>> /\ signed' = signed
        /\ campaignLock' = campaignLock /\ faults' = faults /\ ~Changing(w)
        /\ job[w].step = "next" /\ i \in job[w].todo
    BY <1>2 DEF TakeEvent, rowVars, Changing
  <2>2. job' = [job EXCEPT ![w] = [job[w] EXCEPT !.step = "publish", !.id = i]]
    BY <1>2 DEF TakeEvent, TypeOK, Jobs
  <2>3. /\ \A k \in job[w].todo : outbox[k] # "none"
        /\ job[w].how = "finalize" /\ outbox[i] # "none"
    BY <2>1 DEF RestInv, JobInv
  <2>4. i \in 1..signed
    <3>1. ~(i > signed)
      BY <2>3 DEF RestInv, EventInv
    <3>. QED
      BY <3>1, OutboxAssumption DEF Events, TypeOK
  <2>5. /\ job'[w].step = "publish" /\ job'[w].how = "finalize" /\ job'[w].id = i
        /\ job'[w].todo = job[w].todo
        /\ \A v \in Actors \ {w} : job'[v] = job[v]
    BY <2>2, <2>3 DEF TypeOK, Jobs
  <2>6. Harmless(job'[w])
    BY <2>1, <2>3, <2>4, <2>5 DEF Harmless
  <2>. QED
    BY <2>1, <2>5, <2>6, QuietStep
<1>3. ASSUME PersistFails(w) PROVE RestInv'
  <2>1. /\ Done(w, job[w].id) /\ outbox' = outbox /\ UNCHANGED <<signed, event, rowVars, relay>>
        /\ campaignLock' = campaignLock /\ faults' = faults + 1 /\ job[w].step = "persist"
    BY <1>3 DEF PersistFails, rowVars
  <2>2. job[w].id \in Events
    BY <2>1, OutboxAssumption DEF RestInv, JobInv, TypeOK, Events
  <2>3. faults' # 0
    BY <2>1, OutboxAssumption DEF TypeOK
  <2>4. Harmless(job'[w]) /\ \A v \in Actors \ {w} : job'[v] = job[v]
    BY <2>1, <2>2, DoneIsHarmless
  <2>. QED
    BY <2>1, <2>3, <2>4, QuietStep
<1>. QED
  BY <1>1, <1>2, <1>3, PublishStep, PersistStep, CommitChangeStep DEF PublicationStep

\* Every step keeps the invariant.
LEMMA InvStep ==
    ASSUME OutboxInv, [Next]_vars
    PROVE  OutboxInv'
<1>0. TypeOK /\ RestInv /\ RowInv /\ JobInv
  BY DEF OutboxInv, RestInv
<1>1. TypeOK'
  BY <1>0, TypeStep
<1>2. ASSUME ReadBatch PROVE RestInv'
  <2>1. /\ job[Thread].step = "idle" /\ outbox' = outbox /\ UNCHANGED <<signed, event, rowVars, relay>>
        /\ campaignLock' = campaignLock /\ faults' = faults
        /\ Finalize(Thread, {i \in Pending : queue[i] <= BatchLimit})
    BY <1>2 DEF ReadBatch, rowVars, lockVars
  <2>2. Thread \in Actors /\ ~Changing(Thread)
    BY <2>1 DEF Actors, Changing
  <2>3. Harmless(job'[Thread]) /\ \A v \in Actors \ {Thread} : job'[v] = job[v]
    BY <1>0, <2>1, <2>2 DEF Harmless, Finalize, TypeOK, Idle, Pending
  <2>. QED
    BY <1>0, <2>1, <2>2, <2>3, QuietStep
<1>3. ASSUME NEW w \in Workers, CampaignRequest(w) PROVE RestInv'
  BY <1>0, <1>3, CampaignKeepsInv
<1>4. ASSUME NEW w \in Workers, NEW e \in Enrollments, EnrollmentRequest(w, e) PROVE RestInv'
  BY <1>0, <1>4, EnrollmentKeepsInv
<1>5. ASSUME NEW w \in Actors, PublicationStep(w) PROVE RestInv'
  BY <1>0, <1>5, PublicationKeepsInv
<1>6. ASSUME NEW w \in Actors, Crash(w) PROVE RestInv'
  <2>1. /\ outbox' = outbox /\ UNCHANGED <<signed, event, rowVars, relay>>
        /\ faults' = faults + 1 /\ EndJob(w)
        /\ campaignLock' = campaignLock \/ campaignLock = w
    BY <1>6 DEF Crash, rowVars, ReleasedLock
  <2>2. faults' # 0
    BY <1>0, <2>1, OutboxAssumption DEF TypeOK
  <2>3. Harmless(job'[w]) /\ \A v \in Actors \ {w} : job'[v] = job[v]
    BY <1>0, <2>1 DEF Harmless, EndJob, TypeOK, Idle
  <2>. QED
    BY <1>0, <2>1, <2>2, <2>3, QuietStep
<1>7. ASSUME UNCHANGED vars PROVE RestInv'
  <2>1. signed' = signed /\ event' = event /\ outbox' = outbox /\ status' = status
        /\ current' = current /\ shown' = shown /\ relay' = relay /\ job' = job
        /\ campaignLock' = campaignLock /\ faults' = faults
    BY <1>7 DEF vars, rowVars, lockVars
  <2>. QED
    BY <1>0, <2>1 DEF RestInv, EventInv, RowInv, ShownIsPublished, OrderInv, JobInv, ChangeInv,
                     NothingLost, Changing
<1>8. RestInv'
  BY <1>2, <1>3, <1>4, <1>5, <1>6, <1>7 DEF Next
<1>. QED
  BY <1>1, <1>8 DEF OutboxInv, RestInv

-----------------------------------------------------------------------------
(* Theorems. *)

\* What requests remember of events, the rows and the relays agree in every reachable state.
THEOREM OutboxInductive == Spec => []OutboxInv
<1>1. Init => OutboxInv
  BY InitInv
<1>2. OutboxInv /\ [Next]_vars => OutboxInv'
  BY InvStep
<1>. QED
  BY <1>1, <1>2, PTL DEF Spec

\* Every variable keeps its type.
THEOREM OutboxTypeCorrect == Spec => []TypeOK
<1>1. OutboxInv => TypeOK
  BY DEF OutboxInv
<1>. QED
  BY <1>1, OutboxInductive, PTL

\* A row that says its event is published tells the truth.
THEOREM RowsTellTheTruth == Spec => []ShownIsPublished
<1>1. OutboxInv => ShownIsPublished
  BY DEF OutboxInv
<1>. QED
  BY <1>1, OutboxInductive, PTL

\* Committed events of the campaign have rising times, whatever the clock reads.
THEOREM TimesRise == Spec => []CampaignIsOrdered
<1>1. OutboxInv => CampaignIsOrdered
  BY DEF OutboxInv, OrderInv, CampaignIsOrdered
<1>. QED
  BY <1>1, OutboxInductive, PTL

\* Relays show the campaign's own state once no change is in progress and none was lost.
THEOREM RelaysShowTheCampaign == Spec => []CampaignIsShown
<1>1. ASSUME OutboxInv PROVE CampaignIsShown
  <2>. SUFFICES ASSUME faults = 0, campaignLock = None, current[Program] \in relay
               PROVE /\ event[current[Program]].says = status[Program]
                     /\ \A i \in relay \ {current[Program]} :
                          event[i].of = Program => event[i].at < event[current[Program]].at
    BY DEF CampaignIsShown
  <2>0. Program \in Entities /\ current[Program] # None /\ relay \subseteq Events
    BY <1>1, NoneIsNothing DEF OutboxInv, TypeOK, Entities
  <2>1. event[current[Program]].says = status[Program]
    BY <1>1, <2>0 DEF OutboxInv, RowInv
  <2>2. ASSUME NEW i \in relay \ {current[Program]}, event[i].of = Program
        PROVE  event[i].at < event[current[Program]].at
    <3>1. outbox[i] # "none"
      <4>. SUFFICES ASSUME outbox[i] = "none" PROVE FALSE
        OBVIOUS
      <4>1. PICK w \in Actors : Changing(w) /\ job[w].id = i
        BY <1>1, <2>0, <2>2 DEF OutboxInv, NothingLost
      <4>2. campaignLock = w
        BY <1>1, <2>0, <2>2, <4>1 DEF OutboxInv, ChangeInv
      <4>. QED
        BY <4>2, NoneIsNothing
    <3>. QED
      BY <1>1, <2>0, <2>2, <3>1 DEF OutboxInv, OrderInv
  <2>. QED
    BY <2>1, <2>2
<1>. QED
  BY <1>1, OutboxInductive, PTL

\* An event that was counted as published stays so, whoever persists it again.
THEOREM PublishedIsFinal == Spec => NeverDowngraded
<1>. DEFINE Kept == \A i \in Events : outbox[i] = "published" => outbox'[i] = "published"
<1>1. ASSUME OutboxInv, [Next]_vars PROVE [Kept]_outbox
  <2>0. TypeOK /\ RestInv
    BY <1>1 DEF OutboxInv, RestInv
  <2>1. ASSUME NEW i \in Events, NEW acked \in BOOLEAN, Persist(i, acked) PROVE Kept
    BY <2>0, <2>1, PersistDoes
  <2>2. ASSUME NEW e \in Entities, NEW s \in Statuses, CommitPending(e, s) PROVE Kept
    <3>1. signed + 1 \in Events /\ Persist(signed + 1, FALSE)
      BY <2>0, <2>2, SignDoes DEF CommitPending
    <3>. QED
      BY <2>1, <3>1
  <2>3. ASSUME NEW w \in Workers, CampaignRequest(w) PROVE Kept \/ outbox' = outbox
    <3>1. Program \in Entities /\ "active" \in Statuses /\ "inactive" \in Statuses
      BY DEF Entities, Statuses
    <3>. QED
      BY <2>2, <2>3, <3>1 DEF CampaignRequest, CreateCampaign, OnboardMerchant, OnboardMerchantAgain,
         UpdateCampaign, UpdateCampaignStatus, PauseForBudget, RetryConversion, rowVars
  <2>4. ASSUME NEW w \in Workers, NEW e \in Enrollments, EnrollmentRequest(w, e)
        PROVE  Kept \/ outbox' = outbox
    <3>1. e \in Entities /\ "approved" \in Statuses
      BY DEF Entities, Statuses
    <3>. QED
      BY <2>2, <2>4, <3>1 DEF EnrollmentRequest, CreateEnrollment, JoinOpen, JoinPending, CommitUnpublished,
         ApproveEnrollment, RejectEnrollment, UpdateEnrollmentStatus, AcceptInvitation,
         AcceptInvitationAgain, rowVars
  <2>5. ASSUME NEW w \in Actors, PublicationStep(w) PROVE Kept \/ outbox' = outbox
    <3>1. CASE PersistResult(w) \/ PersistAccepted(w) \/ CommitChange(w)
      <4>1. job[w].step = "persist" /\ Persist(job[w].id, job[w].acked)
        BY <3>1 DEF PersistResult, PersistAccepted, CommitChange
      <4>2. job[w].id \in Events /\ job[w].acked \in BOOLEAN
        BY <2>0, <4>1, OutboxAssumption DEF RestInv, JobInv, TypeOK, Events, Jobs
      <4>. QED
        BY <2>1, <4>1, <4>2
    <3>2. CASE PersistFails(w) \/ Publish(w) \/ (\E i \in Events : SkipPublished(w, i) \/ TakeEvent(w, i))
      BY <3>2 DEF PersistFails, Publish, SkipPublished, TakeEvent, rowVars
    <3>. QED
      BY <2>5, <3>1, <3>2 DEF PublicationStep
  <2>6. CASE ReadBatch \/ UNCHANGED vars \/ \E w \in Actors : Crash(w)
    BY <2>6 DEF ReadBatch, Crash, vars, rowVars
  <2>. QED
    BY <1>1, <2>3, <2>4, <2>5, <2>6 DEF Next
<1>. QED
  BY <1>1, OutboxInductive, PTL DEF Spec, NeverDowngraded

=============================================================================

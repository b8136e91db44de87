--------------------------- MODULE AffiliateAccess ---------------------------
(***************************************************************************)
(* How a Nostr identity becomes an affiliate and gets a session            *)
(* (app/main.py, app/account_erasure.py): the login with a single-use      *)
(* challenge, the public enrollment in a campaign with another, and the    *)
(* acceptance of an invitation, while the merchant changes the campaign's  *)
(* enrollment mode or its status and an operator erases identities.  One   *)
(* campaign; the role that logs in is the affiliate's.                     *)
(* The demonstration, which the environment has to switch on, enrolls its  *)
(* own affiliate without any of these locks (_create_enrollment_record);   *)
(* it is not part of this module, and nothing below is said of it.         *)
(***************************************************************************)
EXTENDS RequestLocks, Naturals

CONSTANTS
    Identities,      \* Nostr keys
    LoginChallenges, \* challenges of POST /auth/nostr/challenge
    JoinChallenges,  \* challenges of POST /campaigns/{id}/join/challenge
    Invitations      \* invitation tokens

Challenges == LoginChallenges \cup JoinChallenges

VARIABLES
    challenge,  \* auth_challenges
    invitation, \* affiliate_invitations
    late,       \* challenges and invitations whose expires_at has passed
    uses,       \* sessions and enrollments made with each challenge
    account,    \* identities with a row in accounts
    live,       \* identities with a session that is neither revoked nor expired
    erased,     \* erased_nostr_identities
    enrollment, \* the status of each identity's enrollment
    campaign,   \* enrollment_mode, status and archived_at
    request     \* what each worker serves

credentialVars == <<challenge, invitation, late, uses>>
peopleVars == <<account, live, erased, enrollment>>
accessVars == <<credentialVars, peopleVars, campaign, request, lockVars>>

Modes == {"private", "open", "approval"}
Idle(i) == [kind |-> "idle", who |-> i, by |-> "none", step |-> "locks", mode |-> "private",
            found |-> "none"]

AccessTypeOK ==
    /\ challenge \in [Challenges -> {"none", "issued", "used", "deleted"}]
    /\ invitation \in [Invitations -> [status : {"none", "pending", "accepted", "revoked"},
                                       by : SUBSET Identities]]
    /\ late \subseteq Challenges \cup Invitations
    /\ uses \in [Challenges -> Nat]
    /\ account \subseteq Identities /\ live \subseteq account
    /\ erased \subseteq Identities
    /\ enrollment \in [Identities -> {"none", "pending", "approved", "closed"}]
    /\ campaign \in [mode : Modes, active : BOOLEAN, archived : BOOLEAN]
    /\ request \in [Workers ->
         [kind : {"idle", "verify", "join", "accept", "invite"},
          who : Identities, by : Challenges \cup Invitations \cup {"none"},
          step : {"locks", "commit"}, mode : Modes,
          found : {"none", "pending", "approved", "closed"}]]

AccessInit ==
    /\ LocksInit
    /\ challenge = [h \in Challenges |-> "none"]
    /\ invitation = [v \in Invitations |-> [status |-> "none", by |-> {}]]
    /\ late = {} /\ uses = [h \in Challenges |-> 0]
    /\ account = {} /\ live = {} /\ erased = {}
    /\ enrollment = [i \in Identities |-> "none"]
    /\ campaign \in [mode : Modes, active : {TRUE}, archived : {FALSE}]
    /\ \E i \in Identities : request = [w \in Workers |-> Idle(i)]

-----------------------------------------------------------------------------
Serves(w, kind, step) ==
    request[w].kind = kind /\ request[w].step = step /\ HasItsLocks(w)

Begin(w, kind, i, by, locks) ==
    /\ request[w].kind = "idle"
    /\ request' = [request EXCEPT ![w] = [Idle(i) EXCEPT !.kind = kind, !.by = by]]
    /\ WillTake(w, locks)
    /\ UNCHANGED <<credentialVars, peopleVars, campaign>>

\* What the handler has read is good: it goes on to its writes.
GoOn(w, found) ==
    /\ request' = [request EXCEPT ![w].step = "commit", ![w].mode = campaign.mode,
                                  ![w].found = found]
    /\ UNCHANGED <<credentialVars, peopleVars, campaign>>

End(w) ==
    /\ request' = [request EXCEPT ![w] = Idle(request[w].who)]
    /\ GiveBack(w)

\* A refused request, an exception, a stopped process, or PostgreSQL's choice among
\* requests that wait in a circle.
RollBack(w) ==
    /\ request[w].kind # "idle"
    /\ End(w)
    /\ UNCHANGED <<credentialVars, peopleVars, campaign>>

OpenSession(i) ==
    /\ account' = account \cup {i}
    /\ live' = live \cup {i}

-----------------------------------------------------------------------------
IssueChallenge(h) ==
    /\ challenge[h] = "none"
    /\ h \in JoinChallenges =>
         campaign.active /\ ~campaign.archived /\ campaign.mode # "private"
    /\ challenge' = [challenge EXCEPT ![h] = "issued"]
    /\ UNCHANGED <<invitation, late, uses, peopleVars, campaign, request, lockVars>>

\* Whoever asks for a challenge deletes the expired ones.
DeleteLateChallenges ==
    /\ \E h \in Challenges : h \in late /\ challenge[h] # "deleted"
    /\ challenge' = [h \in Challenges |-> IF h \in late THEN "deleted" ELSE challenge[h]]
    /\ UNCHANGED <<invitation, late, uses, peopleVars, campaign, request, lockVars>>

Expire(x) ==
    /\ x \notin late
    /\ \/ x \in Challenges /\ challenge[x] = "issued"
       \/ x \in Invitations /\ invitation[x].status = "pending"
    /\ late' = late \cup {x}
    /\ UNCHANGED <<challenge, invitation, uses, peopleVars, campaign, request, lockVars>>

Presented(h) == challenge[h] = "issued" /\ h \notin late

MConsumesAgain(h) ==
    /\ challenge' = [challenge EXCEPT ![h] = "used"]
    /\ uses' = [uses EXCEPT ![h] = @ + 1]
    /\ UNCHANGED <<invitation, late>>

Consume(h) ==
    /\ challenge[h] = "issued"
    /\ challenge' = [challenge EXCEPT ![h] = "used"]
    /\ uses' = [uses EXCEPT ![h] = @ + 1]
    /\ UNCHANGED <<invitation, late>>

\* The challenge is read before the identity's lock and consumed after it.
BeginVerify(w, i, h) ==
    /\ Presented(h)
    /\ Begin(w, "verify", i, h, <<Identity(i)>>)

RejectErased(w, kind) ==
    /\ Serves(w, kind, "locks")
    /\ request[w].who \notin erased

ReadIdentity(w) ==
    /\ RejectErased(w, "verify")
    /\ GoOn(w, enrollment[request[w].who])
    /\ UNCHANGED lockVars

\* verify_auth_login rolls the consumption back when the role is not granted.
OpenLoginSession(w) ==
    /\ Serves(w, "verify", "commit")
    /\ Consume(request[w].by)
    /\ enrollment[request[w].who] = "approved"
    /\ OpenSession(request[w].who)
    /\ End(w)
    /\ UNCHANGED <<erased, enrollment, campaign>>

MJoinsBesideTheEraser(w, i, h) ==
    /\ Presented(h)
    /\ Begin(w, "join", i, h, <<Process(w), CampaignState, EnrollmentOf(i)>>)

MJoinsBesideTheMerchant(w, i, h) ==
    /\ Presented(h)
    /\ Begin(w, "join", i, h, <<Process(w), Identity(i), EnrollmentOf(i)>>)

BeginJoin(w, i, h) ==
    /\ Presented(h)
    /\ Begin(w, "join", i, h, <<Process(w), Identity(i), CampaignState, EnrollmentOf(i)>>)

ReadPublicCampaign(w) ==
    /\ RejectErased(w, "join")
    /\ campaign.active /\ ~campaign.archived /\ campaign.mode # "private"
    /\ enrollment[request[w].who] # "closed"
    /\ GoOn(w, enrollment[request[w].who])
    /\ UNCHANGED lockVars

\* A new enrollment is approved at once in an open campaign; only an approved one gets a session.
JoinCampaign(w) ==
    LET i == request[w].who
        status == IF request[w].found # "none" THEN request[w].found
                  ELSE IF request[w].mode = "open" THEN "approved" ELSE "pending"
    IN /\ Serves(w, "join", "commit")
       /\ Consume(request[w].by)
       /\ enrollment' = IF request[w].found = "none"
                          THEN [enrollment EXCEPT ![i] = status] ELSE enrollment
       /\ IF status = "approved" THEN OpenSession(i) ELSE UNCHANGED <<account, live>>
       /\ End(w)
       /\ UNCHANGED <<erased, campaign>>

-----------------------------------------------------------------------------
BeginInvite(w, i, v) ==
    /\ invitation[v].status = "none"
    /\ campaign.active /\ campaign.mode = "private"
    /\ Begin(w, "invite", i, v, <<>>)

\* merchant_create_invitation takes no lock: the campaign may have changed meanwhile.
CreateInvitation(w) ==
    LET v == request[w].by
    IN /\ Serves(w, "invite", "locks")
       /\ invitation[v].status = "none"
       /\ invitation' = [invitation EXCEPT ![v].status = "pending"]
       /\ End(w)
       /\ UNCHANGED <<challenge, late, uses, peopleVars, campaign>>

BeginAccept(w, i, v) ==
    Begin(w, "accept", i, v, <<Process(w), Identity(i), Destination(i), Invitation(v)>>)

\* The token is read under its lock; a pending one needs the campaign's locks as well.
ReadPendingInvitation(w) ==
    LET v == request[w].by
    IN /\ RejectErased(w, "accept")
       /\ CampaignState \notin held[w]
       /\ invitation[v].status = "pending" /\ v \notin late
       /\ WillTake(w, <<CampaignState, EnrollmentOf(request[w].who)>>)
       /\ UNCHANGED <<credentialVars, peopleVars, campaign, request>>

ReadPrivateCampaign(w) ==
    /\ RejectErased(w, "accept")
    /\ CampaignState \in held[w]
    /\ campaign.active /\ campaign.mode = "private"
    /\ enrollment[request[w].who] \in {"none", "approved"}
    /\ GoOn(w, enrollment[request[w].who])
    /\ UNCHANGED lockVars

AcceptInvitation(w) ==
    LET i == request[w].who
        v == request[w].by
    IN /\ Serves(w, "accept", "commit")
       /\ enrollment' = IF request[w].found = "none"
                          THEN [enrollment EXCEPT ![i] = "approved"] ELSE enrollment
       /\ invitation[v].status = "pending"
       /\ invitation' = [invitation EXCEPT ![v] = [status |-> "accepted", by |-> {i}]]
       /\ OpenSession(i)
       /\ End(w)
       /\ UNCHANGED <<challenge, late, uses, erased, campaign>>

\* The identity that accepted a token may present it again for a new session.
RecoverInvitation(w) ==
    LET i == request[w].who
        v == request[w].by
    IN /\ RejectErased(w, "accept")
       /\ CampaignState \notin held[w]
       /\ invitation[v].status = "accepted" /\ i \in invitation[v].by
       /\ enrollment[i] = "approved"
       /\ OpenSession(i)
       /\ End(w)
       /\ UNCHANGED <<credentialVars, erased, enrollment, campaign>>

-----------------------------------------------------------------------------
\* The merchant's changes read and write the campaign under its lock alone, so each is one
\* step, taken while no request holds that lock or every process's.
ProcessIsFree == \E q \in Processes : \A w \in Workers : <<"process", q>> \notin held[w]
CampaignIsFree == ProcessIsFree /\ \A w \in Workers : CampaignState \notin held[w]

\* A public campaign revokes the invitations nobody has accepted.
UpdateEnrollmentMode(mode) ==
    /\ CampaignIsFree
    /\ campaign.active /\ mode # campaign.mode
    /\ campaign' = [campaign EXCEPT !.mode = mode]
    /\ invitation' = IF mode = "private" THEN invitation
                     ELSE [v \in Invitations |->
                             IF invitation[v].status = "pending"
                               THEN [invitation[v] EXCEPT !.status = "revoked"]
                               ELSE invitation[v]]
    /\ UNCHANGED <<challenge, late, uses, peopleVars, request, lockVars>>

UpdateCampaignStatus(active) ==
    /\ CampaignIsFree
    /\ campaign.active # active
    /\ campaign' = [campaign EXCEPT !.active = active]
    /\ UNCHANGED <<credentialVars, peopleVars, request, lockVars>>

ArchiveCampaign ==
    /\ CampaignIsFree
    /\ ~campaign.archived
    /\ campaign' = [campaign EXCEPT !.active = FALSE, !.archived = TRUE]
    /\ UNCHANGED <<credentialVars, peopleVars, request, lockVars>>

\* One conditional update.
DecideEnrollment(i, status) ==
    /\ ProcessIsFree
    /\ enrollment[i] = "pending"
    /\ status \in {"approved", "closed"}
    /\ enrollment' = [enrollment EXCEPT ![i] = status]
    /\ UNCHANGED <<credentialVars, account, live, erased, campaign, request, lockVars>>

\* The merchant's API sets a status with no lock of the identity or the campaign.
UpdateEnrollmentStatus(i, status) ==
    /\ enrollment[i] \notin {"none", status}
    /\ status \in {"approved", "closed"}
    /\ enrollment' = [enrollment EXCEPT ![i] = status]
    /\ UNCHANGED <<credentialVars, account, live, erased, campaign, request, lockVars>>

\* Logout, twelve hours, or a request whose role is no longer granted.
EndSession(i) ==
    /\ i \in live
    /\ live' = live \ {i}
    /\ UNCHANGED <<credentialVars, account, erased, enrollment, campaign, request, lockVars>>

\* An operator deletes the account and gives the identity's rows to an anonymous key.
EraseIdentity(i) ==
    /\ i \notin erased
    /\ \A w \in Workers : Identity(i) \notin held[w]
    /\ erased' = erased \cup {i}
    /\ account' = account \ {i} /\ live' = live \ {i}
    /\ enrollment' = [enrollment EXCEPT ![i] = "none"]
    /\ UNCHANGED <<credentialVars, campaign, request, lockVars>>

-----------------------------------------------------------------------------
AccessNext ==
    \/ \E w \in Workers :
         \/ TakeLock(w) /\ UNCHANGED <<credentialVars, peopleVars, campaign, request>>
         \/ RollBack(w)
         \/ \E i \in Identities :
              \/ \E h \in LoginChallenges : BeginVerify(w, i, h)
              \/ \E h \in JoinChallenges : BeginJoin(w, i, h)
              \/ \E v \in Invitations : BeginInvite(w, i, v) \/ BeginAccept(w, i, v)
         \/ ReadIdentity(w) \/ OpenLoginSession(w)
         \/ ReadPublicCampaign(w) \/ JoinCampaign(w)
         \/ CreateInvitation(w) \/ ReadPendingInvitation(w) \/ ReadPrivateCampaign(w)
         \/ AcceptInvitation(w) \/ RecoverInvitation(w)
    \/ \E i \in Identities :
         \/ \E status \in {"approved", "closed"} :
              DecideEnrollment(i, status) \/ UpdateEnrollmentStatus(i, status)
         \/ EndSession(i) \/ EraseIdentity(i)
    \/ \E h \in Challenges : IssueChallenge(h)
    \/ DeleteLateChallenges \/ ArchiveCampaign
    \/ \E mode \in Modes : UpdateEnrollmentMode(mode)
    \/ \E active \in BOOLEAN : UpdateCampaignStatus(active)
    \/ \E x \in Challenges \cup Invitations : Expire(x)

AccessSpec == AccessInit /\ [][AccessNext]_accessVars

-----------------------------------------------------------------------------
\* An identity that was erased has no account, no session and no enrollment again, although
\* a login, an enrollment or an acceptance of it may be in flight when it is erased.
ErasedStaysOut ==
    \A i \in erased : i \notin account /\ i \notin live /\ enrollment[i] = "none"

\* One challenge makes one session or one enrollment, however many requests present it
\* while it is still unused, and although expired ones are deleted in between.
ChallengeUsedOnce == \A h \in Challenges : uses[h] <= 1

\* An identity is enrolled only as the campaign admits it at that moment: by an invitation
\* while it is private, at once while it is open, as a request while it asks for approval,
\* and never while it is not active, whatever the merchant changes during the request.
AdmittedByTheCampaign ==
    [][\A i \in Identities :
         enrollment[i] = "none" /\ enrollment'[i] # "none" =>
           /\ campaign.active
           /\ enrollment'[i] = "approved" => campaign.mode \in {"open", "private"}
           /\ enrollment'[i] = "pending" => campaign.mode = "approval"]_accessVars

=============================================================================

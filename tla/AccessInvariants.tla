--------------------------- MODULE AccessInvariants ---------------------------
(***************************************************************************)
(* The inductive invariants of the requests of affiliates and merchants:   *)
(* what their locks protect.  TLC checked them on the instances of         *)
(* MCAccess, AccessProofs proves them.                                     *)
(***************************************************************************)
EXTENDS AffiliateAccess, PayoutDestination

LocksOf(I, V) ==
    {<<"process", q>> : q \in Processes} \cup {CampaignState} \cup {Invitation(v) : v \in V}
      \cup UNION {{Identity(i), Destination(i), EnrollmentOf(i)} : i \in I}

Listed(locks) == {locks[k] : k \in 1 .. Len(locks)}

\* The locks a request holds when it has all those of its handler.
Planned(w) == held[w] \cup Listed(todo[w])

\* A request asks for no lock twice, and takes its process's before any other if it takes
\* more than one.
InOrder(w) ==
    /\ \A k \in 1 .. Len(todo[w]) : todo[w][k] \notin held[w]
    /\ \A j, k \in 1 .. Len(todo[w]) : j # k => todo[w][j] # todo[w][k]
    /\ \/ todo[w] = <<>>
       \/ Process(w) \in held[w]
       \/ held[w] = {} /\ (Len(todo[w]) = 1 \/ todo[w][1] = Process(w))

LockInv(Locks) ==
    /\ server \in [Workers -> Processes]
    /\ todo \in [Workers -> Seq(Locks)]
    /\ held \in [Workers -> SUBSET Locks]
    /\ \A v, w \in Workers : v # w => held[v] \cap held[w] = {}
    /\ \A w \in Workers : InOrder(w)

-----------------------------------------------------------------------------
AccessLocks == LocksOf(Identities, Invitations)

\* The identity of a login, an enrollment or an acceptance is locked from its first read to
\* its end, and so is the campaign of an enrollment: when one goes on to its writes, neither
\* can change.
RequestInv(w) ==
    LET r == request[w]
    IN /\ r.kind = "idle" => Planned(w) = {}
       /\ r.kind \in {"verify", "join"} => r.by \in Challenges
       /\ r.kind \in {"accept", "invite"} => r.by \in Invitations
       /\ r.kind \in {"verify", "join", "accept"} => Identity(r.who) \in Planned(w)
       /\ r.kind = "join" => CampaignState \in Planned(w)
       /\ r.kind = "accept" =>
            /\ Process(w) \in Planned(w)
            /\ \/ CampaignState \in Planned(w)
               \/ Planned(w) \subseteq {Process(w), Identity(r.who), Destination(r.who), Invitation(r.by)}
       /\ r.kind # "idle" /\ r.step = "commit" =>
            /\ HasItsLocks(w) /\ r.kind # "invite"
            /\ r.who \notin erased
            /\ r.kind \in {"join", "accept"} =>
                 /\ CampaignState \in held[w]
                 /\ campaign.active /\ r.mode = campaign.mode
                 /\ r.kind = "accept" <=> campaign.mode = "private"

AccessInv ==
    /\ AccessTypeOK /\ LockInv(AccessLocks)
    /\ \A w \in Workers : RequestInv(w)
    /\ ErasedStaysOut
    /\ \A h \in Challenges :
         uses[h] <= 1 /\ (challenge[h] \in {"none", "issued"} => uses[h] = 0)

-----------------------------------------------------------------------------
DestLocks == LocksOf(Affiliates, {"token"})

\* The address a request has read is the affiliate's as long as it holds the destination's
\* lock, which is until its end.
TaskInv(w) ==
    LET t == task[w]
    IN /\ t.kind = "idle" => Planned(w) = {}
       /\ t.kind \in {"accept", "recover", "convert", "address"} => Destination(t.who) \in Planned(w)
       /\ t.kind \in {"accept", "recover"} /\ t.read => HasItsLocks(w) /\ t.address = profile[t.who]
       /\ t.kind = "address" => t.address \in Addresses
       /\ t.kind = "convert" =>
            /\ t.who \in clicked
            /\ t.read => /\ HasItsLocks(w)
                         /\ t.address # NoAddress /\ profile[t.who] \in {NoAddress, t.address}

\* Whoever is paid for clicks is enrolled with an address, which follows the profile.
ClickedInv(a) ==
    LET e == enrolled[a]
    IN e.status # "none" /\ e.address # NoAddress /\ profile[a] \in {NoAddress, e.address}

DestInv ==
    /\ DestTypeOK /\ LockInv(DestLocks)
    /\ \A w \in Workers : TaskInv(w)
    /\ \A a \in clicked : ClickedInv(a)
    /\ PayoutsFollowTheProfile

=============================================================================

----------------------------- MODULE AccessProofs -----------------------------
(***************************************************************************)
(* What the locks of app/main.py give the requests of affiliates and       *)
(* merchants, proved for any number of them: no circle of waits within a   *)
(* process, who gets in, and where commissions go.                         *)
(***************************************************************************)
EXTENDS AccessInvariants, SequenceTheorems, TLAPS

-----------------------------------------------------------------------------
(* RequestLocks. *)

LEMMA NothingListed ==
    ASSUME NEW Locks, NEW locks \in Seq(Locks)
    PROVE  /\ Listed(locks) = {} => locks = <<>>
           /\ Len(locks) = 0 => locks = <<>>
<1>1. Len(locks) = 0 => locks = <<>>
  BY EmptySeq
<1>2. Len(locks) # 0 => locks[1] \in Listed(locks)
  BY DEF Listed
<1>. QED
  BY <1>1, <1>2

LEMMA PlannedType ==
    ASSUME NEW Locks, LockInv(Locks), NEW w \in Workers
    PROVE  /\ todo[w] \in Seq(Locks) /\ held[w] \subseteq Locks /\ Planned(w) \subseteq Locks
           /\ HasItsLocks(w) => Planned(w) = held[w]
BY DEF LockInv, Planned, Listed, HasItsLocks

\* One lock more is held and one less to take: what is planned stays, and so does what the
\* locks promise.
LEMMA LockIsTaken ==
    ASSUME NEW Locks, LockInv(Locks), NEW w \in Workers, TakeLock(w)
    PROVE  /\ LockInv(Locks)'
           /\ \A v \in Workers : Planned(v)' = Planned(v)
           /\ \A v \in Workers \ {w} : todo'[v] = todo[v] /\ held'[v] = held[v]
           /\ held[w] \subseteq held'[w] /\ ~HasItsLocks(w)
<1>. DEFINE t == todo[w]
            h == Head(t)
<1>1. /\ t \in Seq(Locks) /\ t # <<>> /\ h = t[1] /\ h \in Locks /\ 1 \in 1 .. Len(t)
      /\ Len(Tail(t)) = Len(t) - 1 /\ \A k \in 1 .. Len(Tail(t)) : Tail(t)[k] = t[k + 1]
      /\ Tail(t) \in Seq(Locks) /\ Len(t) \in Nat
  BY DEF LockInv, TakeLock
<1>2. /\ held' = [held EXCEPT ![w] = held[w] \cup {h}] /\ todo' = [todo EXCEPT ![w] = Tail(t)]
      /\ server' = server /\ \A v \in Workers : h \notin held[v]
  BY DEF TakeLock
<1>3. /\ \A v \in Workers \ {w} : todo'[v] = todo[v] /\ held'[v] = held[v]
      /\ todo'[w] = Tail(t) /\ held'[w] = held[w] \cup {h}
  BY <1>2 DEF LockInv
<1>4. Listed(t) = {h} \cup Listed(Tail(t))
  <2>1. ASSUME NEW x \in Listed(t) PROVE x \in {h} \cup Listed(Tail(t))
    <3>1. PICK k \in 1 .. Len(t) : x = t[k]
      BY <2>1 DEF Listed
    <3>2. CASE k = 1
      BY <1>1, <3>1, <3>2
    <3>3. CASE k # 1
      <4>1. k - 1 \in 1 .. Len(Tail(t)) /\ x = Tail(t)[k - 1]
        BY <1>1, <3>1, <3>3
      <4>. QED
        BY <4>1 DEF Listed
    <3>. QED
      BY <3>2, <3>3
  <2>2. ASSUME NEW k \in 1 .. Len(Tail(t)) PROVE Tail(t)[k] \in Listed(t)
    <3>1. k + 1 \in 1 .. Len(t) /\ Tail(t)[k] = t[k + 1]
      BY <1>1
    <3>. QED
      BY <3>1 DEF Listed
  <2>3. h \in Listed(t)
    BY <1>1 DEF Listed
  <2>. QED
    BY <2>1, <2>2, <2>3 DEF Listed
<1>5. \A v \in Workers : Planned(v)' = Planned(v)
  BY <1>3, <1>4 DEF Planned
<1>6. InOrder(w)'
  <2>. USE <1>1, <1>2, <1>3
  <2>1. InOrder(w)
    BY DEF LockInv
  <2>2. ASSUME NEW k \in 1 .. Len(Tail(t))
        PROVE  Tail(t)[k] \notin held[w] \cup {h}
    <3>1. k + 1 \in 1 .. Len(t) /\ Tail(t)[k] = t[k + 1] /\ k + 1 # 1
      OBVIOUS
    <3>. QED
      BY <2>1, <3>1 DEF InOrder
  <2>3. ASSUME NEW j \in 1 .. Len(Tail(t)), NEW k \in 1 .. Len(Tail(t)), j # k
        PROVE  Tail(t)[j] # Tail(t)[k]
    <3>1. /\ k + 1 \in 1 .. Len(t) /\ Tail(t)[k] = t[k + 1]
          /\ j + 1 \in 1 .. Len(t) /\ Tail(t)[j] = t[j + 1] /\ j + 1 # k + 1
      BY <2>3
    <3>. QED
      BY <2>1, <3>1 DEF InOrder
  <2>4. Tail(t) = <<>> \/ Process(w) \in held[w] \cup {h}
    BY <2>1 DEF InOrder
  <2>5. todo'[w] = <<>> \/ Process(w)' \in held'[w]
    BY <2>4 DEF Process
  <2>6. \A k \in 1 .. Len(todo'[w]) : todo'[w][k] \notin held'[w]
    BY ONLY <1>3, <2>2, Zenon
  <2>7. \A j, k \in 1 .. Len(todo'[w]) : j # k => todo'[w][j] # todo'[w][k]
    BY ONLY <1>3, <2>3, Zenon
  <2>. QED
    BY ONLY <2>5, <2>6, <2>7, Zenon DEF InOrder
<1>7. LockInv(Locks)'
  <2>1. /\ server' \in [Workers -> Processes] /\ todo' \in [Workers -> Seq(Locks)]
        /\ held' \in [Workers -> SUBSET Locks]
    BY <1>1, <1>2 DEF LockInv
  <2>2. \A v, u \in Workers : v # u => held'[v] \cap held'[u] = {}
    BY <1>2, <1>3 DEF LockInv
  <2>3. \A v \in Workers \ {w} : InOrder(v)'
    BY <1>2, <1>3 DEF LockInv, InOrder, Process
  <2>. QED
    BY <1>6, <2>1, <2>2, <2>3 DEF LockInv
<1>. QED
  BY <1>1, <1>3, <1>5, <1>7, <1>2 DEF HasItsLocks

LEMMA LocksAreGivenBack ==
    ASSUME NEW Locks, LockInv(Locks), NEW w \in Workers, GiveBack(w)
    PROVE  /\ LockInv(Locks)'
           /\ Planned(w)' = {}
           /\ \A v \in Workers \ {w} : todo'[v] = todo[v] /\ held'[v] = held[v] /\ Planned(v)' = Planned(v)
           /\ server' = server
<1>1. /\ todo' = [todo EXCEPT ![w] = <<>>] /\ held' = [held EXCEPT ![w] = {}] /\ server' = server
  BY DEF GiveBack
<1>2. /\ todo'[w] = <<>> /\ held'[w] = {}
      /\ \A v \in Workers \ {w} : todo'[v] = todo[v] /\ held'[v] = held[v] /\ Planned(v)' = Planned(v)
  BY <1>1 DEF LockInv, Planned
<1>3. LockInv(Locks)'
  <2>1. /\ server' \in [Workers -> Processes] /\ todo' \in [Workers -> Seq(Locks)]
        /\ held' \in [Workers -> SUBSET Locks]
    BY <1>1 DEF LockInv
  <2>2. \A v, u \in Workers : v # u => held'[v] \cap held'[u] = {}
    BY <1>2 DEF LockInv
  <2>3. \A v \in Workers : InOrder(v)'
    BY <1>1, <1>2 DEF LockInv, InOrder, Process
  <2>. QED
    BY <2>1, <2>2, <2>3 DEF LockInv
<1>. QED
  BY <1>1, <1>2, <1>3 DEF Planned, Listed

\* A request that has what it asked for may ask for more.
LEMMA LocksArePlanned ==
    ASSUME NEW Locks, LockInv(Locks), NEW w \in Workers, HasItsLocks(w),
           NEW locks \in Seq(Locks), WillTake(w, locks),
           \A k \in 1 .. Len(locks) : locks[k] \notin held[w],
           \A j, k \in 1 .. Len(locks) : j # k => locks[j] # locks[k],
           \/ locks = <<>>
           \/ Process(w) \in held[w]
           \/ held[w] = {} /\ (Len(locks) = 1 \/ locks[1] = Process(w))
    PROVE  /\ LockInv(Locks)'
           /\ Planned(w)' = Planned(w) \cup Listed(locks)
           /\ \A v \in Workers \ {w} : todo'[v] = todo[v] /\ Planned(v)' = Planned(v)
           /\ todo'[w] = locks /\ UNCHANGED <<held, server>>
<1>1. /\ todo' = [todo EXCEPT ![w] = locks] /\ held' = held /\ server' = server
  BY DEF WillTake
<1>2. todo'[w] = locks /\ \A v \in Workers \ {w} : todo'[v] = todo[v]
  BY <1>1 DEF LockInv
<1>3. LockInv(Locks)'
  <2>1. todo' \in [Workers -> Seq(Locks)]
    BY <1>1 DEF LockInv
  <2>2. InOrder(w)'
    BY <1>1, <1>2 DEF InOrder, Process
  <2>3. \A v \in Workers \ {w} : InOrder(v)'
    BY <1>1, <1>2 DEF LockInv, InOrder, Process
  <2>. QED
    BY <1>1, <2>1, <2>2, <2>3 DEF LockInv
<1>4. Planned(w) = held[w]
  BY PlannedType
<1>. QED
  BY <1>1, <1>2, <1>3, <1>4 DEF Planned

LEMMA LocksUnchanged ==
    ASSUME NEW Locks, LockInv(Locks), UNCHANGED lockVars
    PROVE  LockInv(Locks)' /\ \A v \in Workers : Planned(v)' = Planned(v)
BY DEF LockInv, lockVars, InOrder, Process, Planned

\* The argument: a request that others wait for and that waits itself holds its process's
\* lock, two requests of one process do not, and none waits for itself.
LEMMA NoCircle ==
    ASSUME NEW Locks, LockInv(Locks)
    PROVE  NoCircularWaitInAProcess
<1>. SUFFICES ASSUME NEW S \in SUBSET Workers, CircularWait(S),
                     \A w, v \in S : server[w] = server[v]
              PROVE  FALSE
  BY DEF NoCircularWaitInAProcess
<1>1. PICK w \in S : TRUE
  BY DEF CircularWait
<1>2. PICK v \in S : WaitsFor(w, v)
  BY <1>1 DEF CircularWait
<1>3. PICK u \in S : WaitsFor(v, u)
  BY <1>2 DEF CircularWait
<1>4. PICK x \in S : WaitsFor(u, x)
  BY <1>3 DEF CircularWait
<1>5. Process(v) \in held[v] /\ Process(u) \in held[u]
  BY <1>2, <1>3, <1>4 DEF WaitsFor, LockInv, InOrder
<1>6. v = u
  <2>1. Process(v) = Process(u)
    BY DEF Process
  <2>. QED
    BY <1>5, <2>1 DEF LockInv
<1>7. todo[v] \in Seq(Locks) /\ todo[v] # <<>> /\ Head(todo[v]) \in held[v]
  BY <1>3, <1>6 DEF WaitsFor, LockInv
<1>8. Head(todo[v]) = todo[v][1] /\ 1 \in 1 .. Len(todo[v])
  BY <1>7
<1>. QED
  BY <1>7, <1>8 DEF LockInv, InOrder

LEMMA LocksStart == ASSUME NEW Locks, LocksInit PROVE LockInv(Locks) /\ \A w \in Workers : Planned(w) = {}
<1>1. \A w \in Workers : todo[w] = <<>> /\ held[w] = {} /\ Len(todo[w]) = 0
  BY DEF LocksInit
<1>. QED
  BY <1>1 DEF LocksInit, LockInv, InOrder, Planned, Listed

-----------------------------------------------------------------------------
(* AffiliateAccess: what a step of one request, or of the merchant, leaves alone. *)

RequestRow == [kind : {"idle", "verify", "join", "accept", "invite"},
               who : Identities, by : Challenges \cup Invitations \cup {"none"},
               step : {"locks", "commit"}, mode : Modes,
               found : {"none", "pending", "approved", "closed"}]

\* The facts about the locks' names that the handlers rely on.
LEMMA LockNames ==
    ASSUME NEW w \in Workers, NEW i, NEW j, NEW v
    PROVE  /\ Process(w) \notin {Identity(i), Destination(i), EnrollmentOf(i), Invitation(v), CampaignState}
           /\ CampaignState \notin {Identity(i), Destination(i), EnrollmentOf(i), Invitation(v)}
           /\ Identity(i) \notin {Destination(j), EnrollmentOf(j), Invitation(v)}
           /\ Destination(i) \notin {EnrollmentOf(j), Invitation(v)}
           /\ EnrollmentOf(i) # Invitation(v)
BY DEF Process, Identity, Destination, EnrollmentOf, Invitation, CampaignState

\* What a request promises depends on its own record and locks, on who is erased, and, once
\* it holds the campaign's lock, on the campaign.
LEMMA RequestKeeps ==
    ASSUME NEW w \in Workers, RequestInv(w),
           request'[w] = request[w], Planned(w)' = Planned(w), server' = server,
           HasItsLocks(w) => HasItsLocks(w)' /\ held'[w] = held[w],
           HasItsLocks(w) /\ request[w].kind # "idle" /\ request[w].step = "commit"
             => (request[w].who \in erased' => request[w].who \in erased),
           HasItsLocks(w) /\ CampaignState \in held[w] => campaign' = campaign
    PROVE  RequestInv(w)'
BY DEF RequestInv, Process

\* A request that is done has given its locks back.
LEMMA RequestEnds ==
    ASSUME AccessInv, NEW w \in Workers, End(w), erased' = erased, campaign' = campaign
    PROVE  /\ request' \in [Workers -> RequestRow]
           /\ LockInv(AccessLocks)' /\ \A v \in Workers : RequestInv(v)'
<1>. DEFINE row == Idle(request[w].who)
<1>1. request \in [Workers -> RequestRow] /\ request' = [request EXCEPT ![w] = row] /\ GiveBack(w)
  BY DEF AccessInv, AccessTypeOK, RequestRow, End
<1>2. row \in RequestRow /\ row.kind = "idle"
  BY <1>1 DEF Idle, RequestRow, Modes
<1>. HIDE DEF row
<1>3. request' \in [Workers -> RequestRow] /\ request'[w] = row /\ \A v \in Workers \ {w} : request'[v] = request[v]
  BY <1>1, <1>2
<1>4. /\ LockInv(AccessLocks)' /\ Planned(w)' = {} /\ server' = server
      /\ \A v \in Workers \ {w} : todo'[v] = todo[v] /\ held'[v] = held[v] /\ Planned(v)' = Planned(v)
  BY <1>1, LocksAreGivenBack DEF AccessInv
<1>5. RequestInv(w)'
  BY <1>2, <1>3, <1>4 DEF RequestInv
<1>6. ASSUME NEW v \in Workers \ {w} PROVE RequestInv(v)'
  BY <1>3, <1>4, <1>6, RequestKeeps DEF AccessInv, HasItsLocks
<1>. QED
  BY <1>3, <1>4, <1>5, <1>6

\* A request that begins promises nothing yet but the order of its locks.
LEMMA RequestBegins ==
    ASSUME AccessInv, NEW w \in Workers, NEW kind \in {"verify", "join", "accept", "invite"},
           NEW i \in Identities, NEW by \in Challenges \cup Invitations,
           NEW locks \in Seq(AccessLocks), Begin(w, kind, i, by, locks),
           \A j, k \in 1 .. Len(locks) : j # k => locks[j] # locks[k],
           Len(locks) \in {0, 1} \/ locks[1] = Process(w),
           kind \in {"verify", "join"} => by \in Challenges,
           kind \in {"accept", "invite"} => by \in Invitations,
           kind # "invite" => Identity(i) \in Listed(locks),
           kind = "join" => CampaignState \in Listed(locks),
           kind = "accept" => /\ Process(w) \in Listed(locks)
                              /\ Listed(locks) \subseteq {Process(w), Identity(i), Destination(i), Invitation(by)}
    PROVE  AccessInv'
<1>. DEFINE row == [Idle(i) EXCEPT !.kind = kind, !.by = by]
<1>1. /\ request \in [Workers -> RequestRow] /\ request' = [request EXCEPT ![w] = row]
      /\ WillTake(w, locks) /\ request[w].kind = "idle"
      /\ UNCHANGED <<credentialVars, peopleVars, campaign>>
  BY DEF AccessInv, AccessTypeOK, RequestRow, Begin
<1>2. row \in RequestRow /\ row.kind = kind /\ row.who = i /\ row.by = by /\ row.step = "locks"
  BY DEF Idle, RequestRow, Modes
<1>. HIDE DEF row
<1>3. request' \in [Workers -> RequestRow] /\ request'[w] = row /\ \A v \in Workers \ {w} : request'[v] = request[v]
  BY <1>1, <1>2
<1>4. /\ Planned(w) = {} /\ held[w] = {} /\ HasItsLocks(w) /\ LockInv(AccessLocks)
  <2>1. Planned(w) = {} /\ held[w] = {} /\ LockInv(AccessLocks) /\ Listed(todo[w]) = {} /\ todo[w] \in Seq(AccessLocks)
    BY <1>1 DEF AccessInv, RequestInv, Planned, LockInv
  <2>. QED
    BY <2>1, NothingListed DEF HasItsLocks
<1>5. \/ locks = <<>>
      \/ held[w] = {} /\ (Len(locks) = 1 \/ locks[1] = Process(w))
  BY <1>4, NothingListed
<1>6. /\ LockInv(AccessLocks)' /\ Planned(w)' = Listed(locks) /\ server' = server /\ held' = held
      /\ \A v \in Workers \ {w} : todo'[v] = todo[v] /\ Planned(v)' = Planned(v)
  <2>1. /\ \A k \in 1 .. Len(locks) : locks[k] \notin held[w]
        /\ \/ locks = <<>>
           \/ Process(w) \in held[w]
           \/ held[w] = {} /\ (Len(locks) = 1 \/ locks[1] = Process(w))
    BY <1>4, <1>5
  <2>2. /\ LockInv(AccessLocks)' /\ Planned(w)' = Planned(w) \cup Listed(locks)
        /\ \A v \in Workers \ {w} : todo'[v] = todo[v] /\ Planned(v)' = Planned(v)
        /\ UNCHANGED <<held, server>>
    BY <1>1, <1>4, <2>1, LocksArePlanned
  <2>. QED
    BY <1>4, <2>2
<1>7. RequestInv(w)'
  <2>1. Process(w)' = Process(w)
    BY <1>6 DEF Process
  <2>. QED
    BY <1>2, <1>3, <1>6, <2>1 DEF RequestInv
<1>8. ASSUME NEW v \in Workers \ {w} PROVE RequestInv(v)'
  BY <1>1, <1>3, <1>6, <1>8, RequestKeeps DEF AccessInv, HasItsLocks, peopleVars
<1>9. AccessTypeOK'
  BY <1>1, <1>3 DEF AccessInv, AccessTypeOK, RequestRow, credentialVars, peopleVars
<1>10. ErasedStaysOut' /\ \A h \in Challenges :
         uses'[h] <= 1 /\ (challenge'[h] \in {"none", "issued"} => uses'[h] = 0)
  BY <1>1 DEF AccessInv, ErasedStaysOut, credentialVars, peopleVars
<1>. QED
  BY <1>6, <1>7, <1>8, <1>9, <1>10 DEF AccessInv

\* The handler goes on to its writes with what it has read under its locks.
LEMMA RequestGoesOn ==
    ASSUME AccessInv, NEW w \in Workers,
           ReadIdentity(w) \/ ReadPublicCampaign(w) \/ ReadPrivateCampaign(w)
    PROVE  AccessInv'
<1>. DEFINE row == [request[w] EXCEPT !.step = "commit", !.mode = campaign.mode,
                                      !.found = enrollment[request[w].who]]
<1>1. /\ request \in [Workers -> RequestRow] /\ request[w] \in RequestRow
      /\ request' = [request EXCEPT ![w] = row]
      /\ UNCHANGED <<credentialVars, peopleVars, campaign, lockVars>>
  BY DEF AccessInv, AccessTypeOK, RequestRow, ReadIdentity, ReadPublicCampaign, ReadPrivateCampaign, GoOn
<1>2. /\ row \in RequestRow /\ row.kind = request[w].kind /\ row.who = request[w].who
      /\ row.by = request[w].by /\ row.step = "commit" /\ row.mode = campaign.mode
  <2>1. enrollment[request[w].who] \in {"none", "pending", "approved", "closed"} /\ campaign.mode \in Modes
    BY <1>1 DEF AccessInv, AccessTypeOK, RequestRow
  <2>. QED
    BY <1>1, <2>1 DEF RequestRow
<1>. HIDE DEF row
<1>3. request' \in [Workers -> RequestRow] /\ request'[w] = row /\ \A v \in Workers \ {w} : request'[v] = request[v]
  BY <1>1, <1>2
<1>4. LockInv(AccessLocks)' /\ (\A v \in Workers : Planned(v)' = Planned(v)) /\ server' = server /\ todo' = todo /\ held' = held
  BY <1>1, LocksUnchanged DEF AccessInv, lockVars
<1>5. RequestInv(w)'
  <2>1. /\ RequestInv(w) /\ HasItsLocks(w) /\ request[w].who \notin erased /\ Planned(w) = held[w]
        /\ request[w].kind \in {"verify", "join", "accept"}
    BY PlannedType DEF AccessInv, ReadIdentity, ReadPublicCampaign, ReadPrivateCampaign, RejectErased, Serves
  <2>2. request[w].kind \in {"join", "accept"} =>
          /\ CampaignState \in held[w] /\ campaign.active
          /\ request[w].kind = "accept" <=> campaign.mode = "private"
    BY <2>1 DEF ReadIdentity, ReadPublicCampaign, ReadPrivateCampaign, RejectErased, Serves, RequestInv
  <2>3. Process(w)' = Process(w) /\ erased' = erased /\ campaign' = campaign /\ HasItsLocks(w)'
    BY <1>1, <1>4, <2>1 DEF Process, peopleVars, HasItsLocks
  <2>. QED
    BY <1>2, <1>3, <1>4, <2>1, <2>2, <2>3 DEF RequestInv
<1>6. ASSUME NEW v \in Workers \ {w} PROVE RequestInv(v)'
  BY <1>1, <1>3, <1>4, <1>6, RequestKeeps DEF AccessInv, HasItsLocks, peopleVars
<1>7. AccessTypeOK'
  BY <1>1, <1>3 DEF AccessInv, AccessTypeOK, RequestRow, credentialVars, peopleVars
<1>8. ErasedStaysOut' /\ \A h \in Challenges :
         uses'[h] <= 1 /\ (challenge'[h] \in {"none", "issued"} => uses'[h] = 0)
  BY <1>1 DEF AccessInv, ErasedStaysOut, credentialVars, peopleVars
<1>. QED
  BY <1>4, <1>5, <1>6, <1>7, <1>8 DEF AccessInv

\* An acceptance that needs the campaign's lock plans it after its others.
LEMMA AcceptancePlansMore ==
    ASSUME AccessInv, NEW w \in Workers, ReadPendingInvitation(w)
    PROVE  AccessInv'
<1>. DEFINE i == request[w].who
            locks == <<CampaignState, EnrollmentOf(i)>>
<1>1. /\ UNCHANGED <<credentialVars, peopleVars, campaign, request>>
      /\ WillTake(w, locks) /\ HasItsLocks(w) /\ CampaignState \notin held[w]
      /\ request[w].kind = "accept" /\ request[w].step = "locks"
  BY DEF ReadPendingInvitation, RejectErased, Serves
<1>2. /\ RequestInv(w) /\ Planned(w) = held[w] /\ LockInv(AccessLocks) /\ i \in Identities
  BY <1>1, PlannedType DEF AccessInv, AccessTypeOK
<1>3. Process(w) \in held[w] /\ EnrollmentOf(i) \notin held[w]
  BY <1>1, <1>2, LockNames DEF RequestInv
<1>4. /\ locks \in Seq(AccessLocks) /\ locks[1] = CampaignState /\ locks[2] = EnrollmentOf(i) /\ Len(locks) = 2
      /\ locks[1] # locks[2]
  <2>1. CampaignState \in AccessLocks /\ EnrollmentOf(i) \in AccessLocks
    BY <1>2 DEF AccessLocks, LocksOf
  <2>2. CampaignState # EnrollmentOf(i)
    BY LockNames
  <2>. QED
    BY <2>1, <2>2
<1>. HIDE DEF locks
<1>5. /\ \A k \in 1 .. Len(locks) : locks[k] \notin held[w]
      /\ \A j, k \in 1 .. Len(locks) : j # k => locks[j] # locks[k]
  BY <1>1, <1>3, <1>4
<1>6. /\ LockInv(AccessLocks)' /\ Planned(w)' = Planned(w) \cup Listed(locks)
      /\ \A v \in Workers \ {w} : todo'[v] = todo[v] /\ Planned(v)' = Planned(v)
      /\ held' = held /\ server' = server
  BY <1>1, <1>2, <1>3, <1>4, <1>5, LocksArePlanned
<1>7. RequestInv(w)'
  <2>1. CampaignState \in Listed(locks)
    BY <1>4 DEF Listed
  <2>2. Process(w)' = Process(w) /\ request' = request
    BY <1>1, <1>6 DEF Process
  <2>. QED
    BY <1>1, <1>2, <1>6, <2>1, <2>2 DEF RequestInv
<1>8. ASSUME NEW v \in Workers \ {w} PROVE RequestInv(v)'
  BY <1>1, <1>6, <1>8, RequestKeeps DEF AccessInv, HasItsLocks, peopleVars
<1>9. AccessTypeOK'
  BY <1>1 DEF AccessInv, AccessTypeOK, credentialVars, peopleVars
<1>10. ErasedStaysOut' /\ \A h \in Challenges :
         uses'[h] <= 1 /\ (challenge'[h] \in {"none", "issued"} => uses'[h] = 0)
  BY <1>1 DEF AccessInv, ErasedStaysOut, credentialVars, peopleVars
<1>. QED
  BY <1>6, <1>7, <1>8, <1>9, <1>10 DEF AccessInv

\* What a request or the server writes beside the requests' records and locks.
RowsInv ==
    /\ challenge \in [Challenges -> {"none", "issued", "used", "deleted"}]
    /\ invitation \in [Invitations -> [status : {"none", "pending", "accepted", "revoked"},
                                       by : SUBSET Identities]]
    /\ late \subseteq Challenges \cup Invitations
    /\ uses \in [Challenges -> Nat]
    /\ account \subseteq Identities /\ live \subseteq account
    /\ erased \subseteq Identities
    /\ enrollment \in [Identities -> {"none", "pending", "approved", "closed"}]
    /\ campaign \in [mode : Modes, active : BOOLEAN, archived : BOOLEAN]
    /\ ErasedStaysOut
    /\ \A h \in Challenges :
         uses[h] <= 1 /\ (challenge[h] \in {"none", "issued"} => uses[h] = 0)

LEMMA AccessParts ==
    AccessInv <=> /\ RowsInv /\ request \in [Workers -> RequestRow]
                  /\ LockInv(AccessLocks) /\ \A w \in Workers : RequestInv(w)
BY DEF AccessInv, AccessTypeOK, RowsInv, RequestRow

LEMMA ConsumeOnce ==
    ASSUME RowsInv, NEW h \in Challenges, Consume(h)
    PROVE  /\ challenge' \in [Challenges -> {"none", "issued", "used", "deleted"}]
           /\ uses' \in [Challenges -> Nat] /\ UNCHANGED <<invitation, late>>
           /\ \A g \in Challenges :
                uses'[g] <= 1 /\ (challenge'[g] \in {"none", "issued"} => uses'[g] = 0)
<1>1. /\ challenge' = [challenge EXCEPT ![h] = "used"] /\ uses' = [uses EXCEPT ![h] = uses[h] + 1]
      /\ uses[h] = 0 /\ UNCHANGED <<invitation, late>>
  BY DEF RowsInv, Consume
<1>2. \A g \in Challenges : IF g = h THEN uses'[g] = 1 /\ challenge'[g] = "used"
                            ELSE uses'[g] = uses[g] /\ challenge'[g] = challenge[g]
  BY <1>1 DEF RowsInv
<1>. QED
  BY <1>1, <1>2 DEF RowsInv

\* The last step of a request writes for an identity that is not erased.
LEMMA RequestWrites ==
    ASSUME AccessInv, NEW w \in Workers,
           \/ RollBack(w) \/ OpenLoginSession(w) \/ JoinCampaign(w)
           \/ CreateInvitation(w) \/ AcceptInvitation(w) \/ RecoverInvitation(w)
    PROVE  AccessInv'
<1>. DEFINE i == request[w].who
            by == request[w].by
<1>1. End(w) /\ erased' = erased /\ campaign' = campaign
  BY DEF RollBack, OpenLoginSession, JoinCampaign, CreateInvitation, AcceptInvitation,
         RecoverInvitation, peopleVars
<1>2. /\ RowsInv /\ RequestInv(w) /\ request[w] \in RequestRow /\ i \in Identities
  BY AccessParts DEF RequestRow
<1>3. RowsInv'
  <2>1. CASE RollBack(w)
    BY <1>2, <2>1 DEF RollBack, RowsInv, ErasedStaysOut, credentialVars, peopleVars
  <2>2. CASE OpenLoginSession(w)
    <3>1. i \notin erased /\ by \in Challenges
      BY <1>2, <2>2 DEF OpenLoginSession, Serves, RequestInv
    <3>2. /\ Consume(by) /\ account' = account \cup {i} /\ live' = live \cup {i}
          /\ UNCHANGED <<erased, enrollment, campaign>>
      BY <2>2 DEF OpenLoginSession, OpenSession
    <3>. QED
      BY <1>2, <3>1, <3>2, ConsumeOnce DEF RowsInv, ErasedStaysOut
  <2>3. CASE JoinCampaign(w)
    <3>. DEFINE status == IF request[w].found # "none" THEN request[w].found
                          ELSE IF request[w].mode = "open" THEN "approved" ELSE "pending"
    <3>1. i \notin erased /\ by \in Challenges /\ status \in {"none", "pending", "approved", "closed"}
      BY <1>2, <2>3 DEF JoinCampaign, Serves, RequestInv, RequestRow
    <3>2. /\ Consume(by) /\ UNCHANGED <<erased, campaign>>
          /\ enrollment' \in {[enrollment EXCEPT ![i] = status], enrollment}
          /\ \/ account' = account \cup {i} /\ live' = live \cup {i}
             \/ account' = account /\ live' = live
      BY <2>3 DEF JoinCampaign, OpenSession
    <3>. HIDE DEF status
    <3>3. /\ enrollment' \in [Identities -> {"none", "pending", "approved", "closed"}]
          /\ \A j \in Identities \ {i} : enrollment'[j] = enrollment[j]
      BY <1>2, <3>1, <3>2 DEF RowsInv
    <3>4. ErasedStaysOut'
      BY <1>2, <3>1, <3>2, <3>3 DEF RowsInv, ErasedStaysOut
    <3>5. account' \subseteq Identities /\ live' \subseteq account'
      BY <1>2, <3>2 DEF RowsInv
    <3>6. /\ challenge' \in [Challenges -> {"none", "issued", "used", "deleted"}]
          /\ uses' \in [Challenges -> Nat] /\ UNCHANGED <<invitation, late>>
          /\ \A g \in Challenges :
               uses'[g] <= 1 /\ (challenge'[g] \in {"none", "issued"} => uses'[g] = 0)
      BY <1>2, <3>1, <3>2, ConsumeOnce
    <3>. QED
      BY <1>2, <3>2, <3>3, <3>4, <3>5, <3>6 DEF RowsInv
  <2>4. CASE CreateInvitation(w)
    <3>1. invitation' = [invitation EXCEPT ![by].status = "pending"] /\ UNCHANGED <<challenge, late, uses, peopleVars, campaign>>
      BY <2>4 DEF CreateInvitation
    <3>. DEFINE T == [status : {"none", "pending", "accepted", "revoked"}, by : SUBSET Identities]
    <3>2. invitation' \in [Invitations -> T]
      <4>1. invitation \in [Invitations -> T] /\ by \in Invitations
        BY <1>2, <2>4 DEF RowsInv, CreateInvitation, Serves, RequestInv
      <4>2. [invitation[by] EXCEPT !.status = "pending"] \in T
        <5>1. invitation[by] \in T
          BY <4>1
        <5>. QED
          BY <5>1
      <4>. HIDE DEF T
      <4>. QED
        BY <3>1, <4>1, <4>2
    <3>3. challenge' = challenge /\ late' = late /\ uses' = uses /\ UNCHANGED <<account, live, erased, enrollment, campaign>>
      BY <3>1 DEF peopleVars
    <3>. QED
      BY <1>2, <3>2, <3>3 DEF RowsInv, ErasedStaysOut
  <2>5. CASE AcceptInvitation(w)
    <3>1. i \notin erased
      BY <1>2, <2>5 DEF AcceptInvitation, Serves, RequestInv
    <3>2. /\ invitation' = [invitation EXCEPT ![by] = [status |-> "accepted", by |-> {i}]]
          /\ enrollment' \in {[enrollment EXCEPT ![i] = "approved"], enrollment}
          /\ account' = account \cup {i} /\ live' = live \cup {i}
          /\ UNCHANGED <<challenge, late, uses, erased, campaign>>
      BY <2>5 DEF AcceptInvitation, OpenSession
    <3>3. /\ enrollment' \in [Identities -> {"none", "pending", "approved", "closed"}]
          /\ \A j \in Identities \ {i} : enrollment'[j] = enrollment[j]
      BY <1>2, <3>2 DEF RowsInv
    <3>4. ErasedStaysOut'
      BY <1>2, <3>1, <3>2, <3>3 DEF RowsInv, ErasedStaysOut
    <3>5. invitation' \in [Invitations -> [status : {"none", "pending", "accepted", "revoked"},
                                            by : SUBSET Identities]]
      BY <1>2, <3>2 DEF RowsInv
    <3>6. account' \subseteq Identities /\ live' \subseteq account'
      BY <1>2, <3>2 DEF RowsInv
    <3>. QED
      BY <1>2, <3>2, <3>3, <3>4, <3>5, <3>6 DEF RowsInv
  <2>6. CASE RecoverInvitation(w)
    <3>1. /\ i \notin erased /\ account' = account \cup {i} /\ live' = live \cup {i}
          /\ UNCHANGED <<credentialVars, erased, enrollment, campaign>>
      BY <2>6 DEF RecoverInvitation, RejectErased, OpenSession
    <3>. QED
      BY <1>2, <3>1 DEF RowsInv, ErasedStaysOut, credentialVars
  <2>. QED
    BY <2>1, <2>2, <2>3, <2>4, <2>5, <2>6
<1>4. /\ request' \in [Workers -> RequestRow] /\ LockInv(AccessLocks)'
      /\ \A v \in Workers : RequestInv(v)'
  BY <1>1, RequestEnds
<1>. QED
  BY <1>3, <1>4 DEF AccessInv, AccessTypeOK, RowsInv, RequestRow

\* The server, the merchant and the operator change no request; the campaign only while no
\* request holds its lock, and who is erased only while none holds the identity's.
LEMMA ServerWrites ==
    ASSUME AccessInv, RowsInv', UNCHANGED <<request, lockVars>>,
           campaign' = campaign \/ CampaignIsFree,
           \A i \in erased' \ erased : \A w \in Workers : Identity(i) \notin held[w]
    PROVE  AccessInv'
<1>1. LockInv(AccessLocks)' /\ (\A v \in Workers : Planned(v)' = Planned(v)) /\ server' = server /\ todo' = todo /\ held' = held
  BY LocksUnchanged DEF AccessInv, lockVars
<1>2. ASSUME NEW w \in Workers PROVE RequestInv(w)'
  <2>1. RequestInv(w) /\ HasItsLocks(w)' = HasItsLocks(w) /\ (HasItsLocks(w) => Planned(w) = held[w])
    BY <1>1, PlannedType DEF AccessInv, HasItsLocks
  <2>2. HasItsLocks(w) /\ CampaignState \in held[w] => campaign' = campaign
    BY DEF CampaignIsFree
  <2>3. HasItsLocks(w) /\ request[w].kind # "idle" /\ request[w].step = "commit"
          => (request[w].who \in erased' => request[w].who \in erased)
    <3>1. request[w].kind \in {"idle", "verify", "join", "accept", "invite"}
      BY DEF AccessInv, AccessTypeOK
    <3>. QED
      BY <2>1, <3>1 DEF RequestInv
  <2>. QED
    BY <1>1, <2>1, <2>2, <2>3, RequestKeeps
<1>. QED
  BY <1>1, <1>2 DEF AccessInv, AccessTypeOK, RowsInv

ServerStep ==
    \/ \E i \in Identities :
         \/ \E status \in {"approved", "closed"} :
              DecideEnrollment(i, status) \/ UpdateEnrollmentStatus(i, status)
         \/ EndSession(i) \/ EraseIdentity(i)
    \/ \E h \in Challenges : IssueChallenge(h)
    \/ DeleteLateChallenges \/ ArchiveCampaign
    \/ \E mode \in Modes : UpdateEnrollmentMode(mode)
    \/ \E active \in BOOLEAN : UpdateCampaignStatus(active)
    \/ \E x \in Challenges \cup Invitations : Expire(x)

LEMMA ServerStepInv == ASSUME AccessInv, ServerStep PROVE AccessInv'
<1>. RowsInv
  BY AccessParts
<1>1. ASSUME NEW i \in Identities, NEW status \in {"approved", "closed"},
             DecideEnrollment(i, status) \/ UpdateEnrollmentStatus(i, status)
      PROVE  AccessInv'
  <2>1. /\ enrollment[i] # "none" /\ enrollment' = [enrollment EXCEPT ![i] = status]
        /\ UNCHANGED <<credentialVars, account, live, erased, campaign, request, lockVars>>
    BY <1>1 DEF DecideEnrollment, UpdateEnrollmentStatus
  <2>2. RowsInv'
    BY <2>1 DEF RowsInv, ErasedStaysOut, credentialVars
  <2>. QED
    BY <2>1, <2>2, ServerWrites
<1>2. ASSUME NEW i \in Identities, EndSession(i) PROVE AccessInv'
  <2>1. RowsInv'
    BY <1>2 DEF EndSession, RowsInv, ErasedStaysOut, credentialVars
  <2>. QED
    BY <1>2, <2>1, ServerWrites DEF EndSession
<1>3. ASSUME NEW i \in Identities, EraseIdentity(i) PROVE AccessInv'
  <2>1. RowsInv'
    BY <1>3 DEF EraseIdentity, RowsInv, ErasedStaysOut, credentialVars
  <2>. QED
    BY <1>3, <2>1, ServerWrites DEF EraseIdentity
<1>4. ASSUME NEW h \in Challenges, IssueChallenge(h) PROVE AccessInv'
  <2>1. RowsInv'
    BY <1>4 DEF IssueChallenge, RowsInv, ErasedStaysOut, peopleVars
  <2>. QED
    BY <1>4, <2>1, ServerWrites DEF IssueChallenge, peopleVars
<1>5. CASE DeleteLateChallenges
  <2>1. RowsInv'
    BY <1>5 DEF DeleteLateChallenges, RowsInv, ErasedStaysOut, peopleVars
  <2>. QED
    BY <1>5, <2>1, ServerWrites DEF DeleteLateChallenges, peopleVars
<1>6. ASSUME NEW x \in Challenges \cup Invitations, Expire(x) PROVE AccessInv'
  <2>1. RowsInv'
    BY <1>6 DEF Expire, RowsInv, ErasedStaysOut, peopleVars
  <2>. QED
    BY <1>6, <2>1, ServerWrites DEF Expire, peopleVars
<1>7. CASE ArchiveCampaign
  <2>1. RowsInv'
    BY <1>7 DEF ArchiveCampaign, RowsInv, ErasedStaysOut, credentialVars, peopleVars
  <2>. QED
    BY <1>7, <2>1, ServerWrites DEF ArchiveCampaign, peopleVars
<1>8. ASSUME NEW active \in BOOLEAN, UpdateCampaignStatus(active) PROVE AccessInv'
  <2>1. RowsInv'
    BY <1>8 DEF UpdateCampaignStatus, RowsInv, ErasedStaysOut, credentialVars, peopleVars
  <2>. QED
    BY <1>8, <2>1, ServerWrites DEF UpdateCampaignStatus, peopleVars
<1>9. ASSUME NEW mode \in Modes, UpdateEnrollmentMode(mode) PROVE AccessInv'
  <2>. DEFINE T == [status : {"none", "pending", "accepted", "revoked"}, by : SUBSET Identities]
  <2>1. invitation' \in [Invitations -> T]
    <3>1. \A v \in Invitations : invitation[v] \in T /\ [invitation[v] EXCEPT !.status = "revoked"] \in T
      BY DEF RowsInv
    <3>. HIDE DEF T
    <3>2. invitation \in [Invitations -> T]
      BY DEF RowsInv, T
    <3>. QED
      BY <1>9, <3>1, <3>2 DEF UpdateEnrollmentMode
  <2>2. /\ campaign' = [campaign EXCEPT !.mode = mode] /\ CampaignIsFree
        /\ UNCHANGED <<challenge, late, uses, peopleVars, request, lockVars>>
    BY <1>9 DEF UpdateEnrollmentMode
  <2>3. RowsInv'
    BY <2>1, <2>2 DEF RowsInv, ErasedStaysOut, peopleVars
  <2>. QED
    BY <2>2, <2>3, ServerWrites DEF peopleVars
<1>. QED
  BY <1>1, <1>2, <1>3, <1>4, <1>5, <1>6, <1>7, <1>8, <1>9 DEF ServerStep

LEMMA AccessLockIsTaken ==
    ASSUME AccessInv, NEW w \in Workers, TakeLock(w),
           UNCHANGED <<credentialVars, peopleVars, campaign, request>>
    PROVE  AccessInv'
<1>1. /\ LockInv(AccessLocks)' /\ (\A v \in Workers : Planned(v)' = Planned(v)) /\ server' = server
      /\ ~HasItsLocks(w) /\ \A v \in Workers \ {w} : todo'[v] = todo[v] /\ held'[v] = held[v]
  BY LockIsTaken DEF AccessInv, TakeLock
<1>2. ASSUME NEW v \in Workers PROVE RequestInv(v)'
  BY <1>1, RequestKeeps DEF AccessInv, HasItsLocks, peopleVars
<1>. QED
  BY <1>1, <1>2 DEF AccessInv, AccessTypeOK, ErasedStaysOut, credentialVars, peopleVars

\* Every handler's list of locks is in order.
LEMMA HandlerBegins ==
    ASSUME AccessInv, NEW w \in Workers, NEW i \in Identities,
           \/ \E h \in LoginChallenges : BeginVerify(w, i, h)
           \/ \E h \in JoinChallenges : BeginJoin(w, i, h)
           \/ \E v \in Invitations : BeginInvite(w, i, v) \/ BeginAccept(w, i, v)
    PROVE  AccessInv'
<1>1. /\ Process(w) \in AccessLocks /\ CampaignState \in AccessLocks
      /\ {Identity(i), Destination(i), EnrollmentOf(i)} \subseteq AccessLocks
      /\ \A v \in Invitations : Invitation(v) \in AccessLocks
  <2>1. server[w] \in Processes
    BY DEF AccessInv, LockInv
  <2>. QED
    BY <2>1 DEF AccessLocks, LocksOf, Process
<1>2. ASSUME NEW h \in LoginChallenges, BeginVerify(w, i, h) PROVE AccessInv'
  <2>. DEFINE locks == <<Identity(i)>>
  <2>1. locks \in Seq(AccessLocks) /\ Len(locks) = 1 /\ locks[1] = Identity(i)
    BY <1>1
  <2>2. Begin(w, "verify", i, h, locks) /\ h \in Challenges
    BY <1>2 DEF BeginVerify, Challenges
  <2>. HIDE DEF locks
  <2>3. Identity(i) \in Listed(locks) /\ \A j, k \in 1 .. Len(locks) : j # k => locks[j] # locks[k]
    BY <2>1 DEF Listed
  <2>. QED
    BY <2>1, <2>2, <2>3, RequestBegins
<1>3. ASSUME NEW h \in JoinChallenges, BeginJoin(w, i, h) PROVE AccessInv'
  <2>. DEFINE locks == <<Process(w), Identity(i), CampaignState, EnrollmentOf(i)>>
  <2>1. /\ locks \in Seq(AccessLocks) /\ Len(locks) = 4 /\ locks[1] = Process(w) /\ locks[2] = Identity(i)
        /\ locks[3] = CampaignState /\ locks[4] = EnrollmentOf(i)
    BY <1>1
  <2>2. Begin(w, "join", i, h, locks) /\ h \in Challenges
    BY <1>3 DEF BeginJoin, Challenges
  <2>. HIDE DEF locks
  <2>3. Identity(i) \in Listed(locks) /\ CampaignState \in Listed(locks)
    BY <2>1 DEF Listed
  <2>4. \A j, k \in 1 .. Len(locks) : j # k => locks[j] # locks[k]
    BY <2>1, LockNames
  <2>. QED
    BY <2>1, <2>2, <2>3, <2>4, RequestBegins
<1>4. ASSUME NEW v \in Invitations, BeginInvite(w, i, v) PROVE AccessInv'
  <2>. DEFINE locks == <<>>
  <2>1. locks \in Seq(AccessLocks) /\ Len(locks) = 0
    OBVIOUS
  <2>2. Begin(w, "invite", i, v, locks)
    BY <1>4 DEF BeginInvite
  <2>. HIDE DEF locks
  <2>3. \A j, k \in 1 .. Len(locks) : j # k => locks[j] # locks[k]
    BY <2>1
  <2>. QED
    BY <2>1, <2>2, <2>3, RequestBegins
<1>5. ASSUME NEW v \in Invitations, BeginAccept(w, i, v) PROVE AccessInv'
  <2>. DEFINE locks == <<Process(w), Identity(i), Destination(i), Invitation(v)>>
  <2>1. /\ locks \in Seq(AccessLocks) /\ Len(locks) = 4 /\ locks[1] = Process(w) /\ locks[2] = Identity(i)
        /\ locks[3] = Destination(i) /\ locks[4] = Invitation(v)
    BY <1>1
  <2>2. Begin(w, "accept", i, v, locks)
    BY <1>5 DEF BeginAccept
  <2>. HIDE DEF locks
  <2>3. /\ Identity(i) \in Listed(locks) /\ Process(w) \in Listed(locks)
        /\ Listed(locks) \subseteq {Process(w), Identity(i), Destination(i), Invitation(v)}
    BY <2>1 DEF Listed
  <2>4. \A j, k \in 1 .. Len(locks) : j # k => locks[j] # locks[k]
    BY <2>1, LockNames
  <2>. QED
    BY <2>1, <2>2, <2>3, <2>4, RequestBegins
<1>. QED
  BY <1>2, <1>3, <1>4, <1>5

LEMMA AccessNextInv == AccessInv /\ [AccessNext]_accessVars => AccessInv'
<1>. SUFFICES ASSUME AccessInv, [AccessNext]_accessVars PROVE AccessInv'
  OBVIOUS
<1>1. CASE UNCHANGED accessVars
  <2>1. RowsInv
    BY AccessParts
  <2>2. RowsInv'
    BY <1>1, <2>1 DEF RowsInv, ErasedStaysOut, accessVars, credentialVars, peopleVars
  <2>. QED
    BY <1>1, <2>2, ServerWrites DEF accessVars, peopleVars
<1>2. ASSUME NEW w \in Workers,
             TakeLock(w) /\ UNCHANGED <<credentialVars, peopleVars, campaign, request>>
      PROVE  AccessInv'
  BY <1>2, AccessLockIsTaken
<1>3. ASSUME NEW w \in Workers,
             \/ RollBack(w)
             \/ \E i \in Identities :
                  \/ \E h \in LoginChallenges : BeginVerify(w, i, h)
                  \/ \E h \in JoinChallenges : BeginJoin(w, i, h)
                  \/ \E v \in Invitations : BeginInvite(w, i, v) \/ BeginAccept(w, i, v)
             \/ ReadIdentity(w) \/ OpenLoginSession(w)
             \/ ReadPublicCampaign(w) \/ JoinCampaign(w)
             \/ CreateInvitation(w) \/ ReadPendingInvitation(w) \/ ReadPrivateCampaign(w)
             \/ AcceptInvitation(w) \/ RecoverInvitation(w)
      PROVE  AccessInv'
  BY <1>3, HandlerBegins, RequestGoesOn, AcceptancePlansMore, RequestWrites
<1>4. ServerStep => AccessInv'
  BY ServerStepInv
<1>. QED
  BY <1>1, <1>2, <1>3, <1>4 DEF AccessNext, ServerStep

LEMMA AccessStarts == AccessInit => AccessInv
<1>. SUFFICES ASSUME AccessInit PROVE AccessInv
  OBVIOUS
<1>1. LockInv(AccessLocks) /\ \A w \in Workers : Planned(w) = {}
  BY LocksStart DEF AccessInit
<1>2. PICK i \in Identities : request = [w \in Workers |-> Idle(i)]
  BY DEF AccessInit
<1>3. Idle(i) \in RequestRow /\ Idle(i).kind = "idle"
  BY DEF Idle, RequestRow, Modes
<1>4. \A w \in Workers : RequestInv(w)
  BY <1>1, <1>2, <1>3 DEF RequestInv
<1>5. RowsInv
  <2>. DEFINE none == [status |-> "none", by |-> {}]
              T == [status : {"none", "pending", "accepted", "revoked"}, by : SUBSET Identities]
  <2>1. none \in T
    OBVIOUS
  <2>2. invitation = [v \in Invitations |-> none]
    BY DEF AccessInit
  <2>. HIDE DEF none, T
  <2>3. invitation \in [Invitations -> T]
    BY <2>1, <2>2
  <2>4. campaign \in [mode : Modes, active : BOOLEAN, archived : BOOLEAN]
    BY DEF AccessInit
  <2>5. /\ challenge \in [Challenges -> {"none", "issued", "used", "deleted"}]
        /\ uses \in [Challenges -> Nat] /\ \A h \in Challenges : uses[h] = 0
        /\ enrollment \in [Identities -> {"none", "pending", "approved", "closed"}]
        /\ late = {} /\ account = {} /\ live = {} /\ erased = {}
    BY DEF AccessInit
  <2>. QED
    BY <2>3, <2>4, <2>5 DEF RowsInv, ErasedStaysOut, T
<1>. QED
  BY <1>1, <1>2, <1>3, <1>4, <1>5, AccessParts

THEOREM AccessInductive == AccessSpec => []AccessInv
BY AccessStarts, AccessNextInv, PTL DEF AccessSpec

\* However many logins, enrollments and acceptances of an identity are in flight when it is
\* erased, none of them lets it in again.
THEOREM ErasedIdentitiesStayOut == AccessSpec => []ErasedStaysOut
<1>1. AccessInv => ErasedStaysOut
  BY DEF AccessInv
<1>. QED
  BY <1>1, AccessInductive, PTL

\* A challenge that any number of requests present makes one session or one enrollment.
THEOREM ChallengesAreUsedOnce == AccessSpec => []ChallengeUsedOnce
<1>1. AccessInv => ChallengeUsedOnce
  BY DEF AccessInv, ChallengeUsedOnce
<1>. QED
  BY <1>1, AccessInductive, PTL

\* Whatever the merchant changes while an enrollment or an acceptance runs, it enrolls as
\* the campaign admits at the moment it is stored.
THEOREM EnrollmentIsAdmitted == AccessSpec => AdmittedByTheCampaign
<1>. DEFINE Admits ==
       \A i \in Identities :
         enrollment[i] = "none" /\ enrollment'[i] # "none" =>
           /\ campaign.active
           /\ enrollment'[i] = "approved" => campaign.mode \in {"open", "private"}
           /\ enrollment'[i] = "pending" => campaign.mode = "approval"
<1>1. AccessInv /\ [AccessNext]_accessVars => [Admits]_accessVars
  <2>. SUFFICES ASSUME AccessInv, AccessNext,
                       NEW i \in Identities, enrollment[i] = "none", enrollment'[i] # "none"
                PROVE  /\ campaign.active
                       /\ enrollment'[i] = "approved" => campaign.mode \in {"open", "private"}
                       /\ enrollment'[i] = "pending" => campaign.mode = "approval"
    BY DEF Admits
  <2>1. enrollment \in [Identities -> {"none", "pending", "approved", "closed"}] /\ enrollment' # enrollment
    BY DEF AccessInv, AccessTypeOK
  <2>2. PICK w \in Workers : JoinCampaign(w) \/ AcceptInvitation(w)
    BY ZenonT(30), <2>1
      DEF AccessNext, RollBack, BeginVerify, BeginJoin, BeginInvite, BeginAccept, Begin,
         ReadIdentity, ReadPublicCampaign, ReadPrivateCampaign, GoOn, OpenLoginSession,
         CreateInvitation, ReadPendingInvitation, RecoverInvitation, DecideEnrollment,
         UpdateEnrollmentStatus, EndSession, EraseIdentity, IssueChallenge, DeleteLateChallenges,
         ArchiveCampaign, UpdateEnrollmentMode, UpdateCampaignStatus, Expire, peopleVars
  <2>3. RequestInv(w) /\ request[w] \in RequestRow
    BY DEF AccessInv, AccessTypeOK, RequestRow
  <2>4. CASE JoinCampaign(w)
    <3>1. /\ request[w].kind = "join" /\ request[w].step = "commit" /\ request[w].found = "none"
          /\ enrollment' = [enrollment EXCEPT ![request[w].who] =
               IF request[w].mode = "open" THEN "approved" ELSE "pending"]
      BY <2>1, <2>4 DEF JoinCampaign, Serves
    <3>2. campaign.active /\ request[w].mode = campaign.mode /\ campaign.mode # "private"
      BY <2>3, <3>1 DEF RequestInv
    <3>3. campaign.mode \in {"private", "open", "approval"}
      BY DEF AccessInv, AccessTypeOK, Modes
    <3>. QED
      BY <2>1, <3>1, <3>2, <3>3
  <2>5. CASE AcceptInvitation(w)
    <3>1. /\ request[w].kind = "accept" /\ request[w].step = "commit"
          /\ enrollment' = [enrollment EXCEPT ![request[w].who] = "approved"]
      BY <2>1, <2>5 DEF AcceptInvitation, Serves
    <3>. QED
      BY <2>1, <2>3, <3>1 DEF RequestInv
  <2>. QED
    BY <2>2, <2>4, <2>5
<1>. QED
  BY <1>1, AccessInductive, PTL DEF AccessSpec, AdmittedByTheCampaign

\* Two logins, enrollments or acceptances of one process never wait for each other.
THEOREM AccessDoesNotCircle == AccessSpec => []NoCircularWaitInAProcess
<1>1. AccessInv => NoCircularWaitInAProcess
  BY NoCircle DEF AccessInv
<1>. QED
  BY <1>1, AccessInductive, PTL

-----------------------------------------------------------------------------
(* PayoutDestination. *)

TaskRow == [kind : Kinds, who : Affiliates, read : BOOLEAN, address : MaybeAddress,
            payout : SUBSET Payouts]
EnrolledRow == [status : {"none", "pending", "approved", "closed"}, address : MaybeAddress,
                verified : {"no", "legacy", "yes"}]
PayoutRow == [state : {"none", "open", "attempted"}, who : Affiliates, address : MaybeAddress]

\* The rows the requests write.
DestRows ==
    /\ profile \in [Affiliates -> MaybeAddress]
    /\ enrolled \in [Affiliates -> EnrolledRow]
    /\ clicked \subseteq Affiliates
    /\ payout \in [Payouts -> PayoutRow]
    /\ attempt \in [Payouts -> MaybeAddress]
    /\ \A a \in clicked : ClickedInv(a)
    /\ PayoutsFollowTheProfile

LEMMA DestParts ==
    DestInv <=> /\ DestRows /\ task \in [Workers -> TaskRow]
                /\ LockInv(DestLocks) /\ \A w \in Workers : TaskInv(w)
BY DEF DestInv, DestTypeOK, DestRows, TaskRow, EnrolledRow, PayoutRow

\* What a request promises depends on its record and locks, and on its affiliate's address
\* as long as it may use what it read of it.
LEMMA TaskKeeps ==
    ASSUME NEW w \in Workers, TaskInv(w),
           task'[w] = task[w], Planned(w)' = Planned(w),
           HasItsLocks(w) => HasItsLocks(w)',
           clicked \subseteq clicked',
           HasItsLocks(w) /\ task[w].kind \in {"accept", "recover", "convert"}
             => profile'[task[w].who] = profile[task[w].who]
    PROVE  TaskInv(w)'
BY DEF TaskInv

\* A request that ends gives its locks back.  It may have changed the address of an
\* affiliate whose destination it had locked.
LEMMA TaskEnds ==
    ASSUME DestInv, NEW w \in Workers, Finish(w), clicked \subseteq clicked',
           \A a \in Affiliates : Destination(a) \notin held[w] => profile'[a] = profile[a]
    PROVE  /\ task' \in [Workers -> TaskRow]
           /\ LockInv(DestLocks)' /\ \A v \in Workers : TaskInv(v)'
<1>. DEFINE row == NoTask(task[w].who)
<1>1. task \in [Workers -> TaskRow] /\ task' = [task EXCEPT ![w] = row] /\ GiveBack(w)
  BY DestParts DEF Finish
<1>2. row \in TaskRow /\ row.kind = "idle"
  BY <1>1 DEF NoTask, TaskRow, Kinds, MaybeAddress
<1>. HIDE DEF row
<1>3. task' \in [Workers -> TaskRow] /\ task'[w] = row /\ \A v \in Workers \ {w} : task'[v] = task[v]
  BY <1>1, <1>2
<1>4. /\ LockInv(DestLocks)' /\ Planned(w)' = {}
      /\ \A v \in Workers \ {w} : todo'[v] = todo[v] /\ held'[v] = held[v] /\ Planned(v)' = Planned(v)
  BY <1>1, LocksAreGivenBack DEF DestInv
<1>5. TaskInv(w)'
  BY <1>2, <1>3, <1>4 DEF TaskInv
<1>6. ASSUME NEW v \in Workers \ {w} PROVE TaskInv(v)'
  <2>1. HasItsLocks(v) /\ task[v].kind \in {"accept", "recover", "convert"}
          => profile'[task[v].who] = profile[task[v].who]
    <3>. SUFFICES ASSUME HasItsLocks(v), task[v].kind \in {"accept", "recover", "convert"}
                  PROVE  profile'[task[v].who] = profile[task[v].who]
      OBVIOUS
    <3>1. Destination(task[v].who) \in held[v] /\ task[v].who \in Affiliates
      BY <1>1, PlannedType DEF DestInv, TaskInv, TaskRow
    <3>2. Destination(task[v].who) \notin held[w]
      BY <3>1 DEF DestInv, LockInv
    <3>. QED
      BY <3>1, <3>2
  <2>. QED
    BY <1>3, <1>4, <2>1, TaskKeeps DEF DestInv, HasItsLocks
<1>. QED
  BY <1>3, <1>4, <1>5, <1>6

LEMMA TaskBegins ==
    ASSUME DestInv, NEW w \in Workers, NEW row \in TaskRow, NEW locks \in Seq(DestLocks),
           task[w].kind = "idle", task' = [task EXCEPT ![w] = row],
           WillTake(w, locks), UNCHANGED rowVars,
           \A j, k \in 1 .. Len(locks) : j # k => locks[j] # locks[k],
           Len(locks) = 1 \/ locks[1] = Process(w),
           row.kind # "idle",
           row.kind \in {"accept", "recover", "convert"} => ~row.read,
           row.kind \in {"accept", "recover", "convert", "address"} => Destination(row.who) \in Listed(locks),
           row.kind = "address" => row.address \in Addresses,
           row.kind = "convert" => row.who \in clicked
    PROVE  DestInv'
<1>1. task \in [Workers -> TaskRow] /\ DestRows
  BY DestParts
<1>3. task' \in [Workers -> TaskRow] /\ task'[w] = row /\ \A v \in Workers \ {w} : task'[v] = task[v]
  BY <1>1
<1>4. /\ Planned(w) = {} /\ held[w] = {} /\ HasItsLocks(w) /\ LockInv(DestLocks)
  <2>1. Planned(w) = {} /\ held[w] = {} /\ LockInv(DestLocks) /\ Listed(todo[w]) = {} /\ todo[w] \in Seq(DestLocks)
    BY DEF DestInv, TaskInv, Planned, LockInv
  <2>. QED
    BY <2>1, NothingListed DEF HasItsLocks
<1>6. /\ LockInv(DestLocks)' /\ Planned(w)' = Listed(locks)
      /\ \A v \in Workers \ {w} : todo'[v] = todo[v] /\ Planned(v)' = Planned(v)
  <2>1. /\ \A k \in 1 .. Len(locks) : locks[k] \notin held[w]
        /\ \/ locks = <<>>
           \/ Process(w) \in held[w]
           \/ held[w] = {} /\ (Len(locks) = 1 \/ locks[1] = Process(w))
    BY <1>4
  <2>2. /\ LockInv(DestLocks)' /\ Planned(w)' = Planned(w) \cup Listed(locks)
        /\ \A v \in Workers \ {w} : todo'[v] = todo[v] /\ Planned(v)' = Planned(v)
    BY ZenonT(30), <1>4, <2>1, LocksArePlanned
  <2>. QED
    BY <1>4, <2>2
<1>7. TaskInv(w)'
  <2>1. clicked' = clicked
    BY DEF rowVars
  <2>. QED
    BY <1>3, <1>6, <2>1 DEF TaskInv
<1>8. ASSUME NEW v \in Workers \ {w} PROVE TaskInv(v)'
  BY <1>3, <1>6, <1>8, TaskKeeps DEF DestInv, HasItsLocks, rowVars
<1>9. DestRows'
  BY <1>1 DEF DestRows, rowVars, ClickedInv, PayoutsFollowTheProfile
<1>. QED
  BY <1>3, <1>6, <1>7, <1>8, <1>9 DEF DestInv, DestTypeOK, DestRows, TaskRow, EnrolledRow, PayoutRow

\* The handlers that only take their locks first.
LEMMA TaskStarts ==
    ASSUME DestInv, NEW w \in Workers, NEW a \in Affiliates,
           NEW kind \in Kinds \ {"idle", "address"}, NEW locks \in Seq(DestLocks),
           Start(w, kind, a, locks),
           \A j, k \in 1 .. Len(locks) : j # k => locks[j] # locks[k],
           Len(locks) = 1 \/ locks[1] = Process(w),
           kind \in {"accept", "recover", "convert"} => Destination(a) \in Listed(locks),
           kind = "convert" => a \in clicked
    PROVE  DestInv'
<1>. DEFINE row == [NoTask(a) EXCEPT !.kind = kind]
<1>1. row \in TaskRow /\ row.kind = kind /\ row.who = a /\ ~row.read
  BY DEF NoTask, TaskRow, MaybeAddress
<1>2. /\ task[w].kind = "idle" /\ task' = [task EXCEPT ![w] = row]
      /\ WillTake(w, locks) /\ UNCHANGED rowVars
  BY DEF Start
<1>. HIDE DEF row
<1>. QED
  BY <1>1, <1>2, TaskBegins

LEMMA DestHandlerBegins ==
    ASSUME DestInv, NEW w \in Workers, NEW a \in Affiliates,
           \/ StartAccept(w, a, "token") \/ StartRecover(w, a, "token")
           \/ StartJoin(w, a) \/ StartEnroll(w, a) \/ StartDecide(w, a) \/ StartApprove(w, a)
           \/ StartRedirect(w, a) \/ StartConvert(w, a) \/ StartCampaignChange(w, a)
           \/ \E x \in Addresses : StartUpdateAddress(w, a, x)
    PROVE  DestInv'
<1>. DEFINE P == Process(w)
            L == DestLocks
<1>1. /\ P \in L /\ CampaignState \in L /\ Invitation("token") \in L
      /\ Identity(a) \in L /\ Destination(a) \in L /\ EnrollmentOf(a) \in L
  <2>1. server[w] \in Processes
    BY DEF DestInv, LockInv
  <2>. QED
    BY <2>1 DEF DestLocks, LocksOf, Process
<1>2. CASE StartAccept(w, a, "token")
  <2>. DEFINE locks == <<P, Identity(a), Destination(a), Invitation("token"), CampaignState, EnrollmentOf(a)>>
  <2>1. /\ locks \in Seq(L) /\ Len(locks) = 6 /\ locks[1] = P /\ locks[2] = Identity(a)
        /\ locks[3] = Destination(a) /\ locks[4] = Invitation("token") /\ locks[5] = CampaignState
        /\ locks[6] = EnrollmentOf(a)
    BY <1>1
  <2>2. Start(w, "accept", a, locks)
    BY <1>2 DEF StartAccept
  <2>. HIDE DEF locks
  <2>3. \A j, k \in 1 .. Len(locks) : j # k => locks[j] # locks[k]
    BY <2>1, LockNames
  <2>4. Destination(a) \in Listed(locks)
    BY <2>1 DEF Listed
  <2>. QED
    BY <2>1, <2>2, <2>3, <2>4, TaskStarts DEF Kinds
<1>3. CASE StartRecover(w, a, "token")
  <2>. DEFINE locks == <<P, Identity(a), Destination(a), Invitation("token")>>
  <2>1. /\ locks \in Seq(L) /\ Len(locks) = 4 /\ locks[1] = P /\ locks[2] = Identity(a)
        /\ locks[3] = Destination(a) /\ locks[4] = Invitation("token")
    BY <1>1
  <2>2. Start(w, "recover", a, locks)
    BY <1>3 DEF StartRecover
  <2>. HIDE DEF locks
  <2>3. \A j, k \in 1 .. Len(locks) : j # k => locks[j] # locks[k]
    BY <2>1, LockNames
  <2>4. Destination(a) \in Listed(locks)
    BY <2>1 DEF Listed
  <2>. QED
    BY <2>1, <2>2, <2>3, <2>4, TaskStarts DEF Kinds
<1>4. CASE StartJoin(w, a)
  <2>. DEFINE locks == <<P, Identity(a), CampaignState, EnrollmentOf(a)>>
  <2>1. /\ locks \in Seq(L) /\ Len(locks) = 4 /\ locks[1] = P /\ locks[2] = Identity(a)
        /\ locks[3] = CampaignState /\ locks[4] = EnrollmentOf(a)
    BY <1>1
  <2>2. Start(w, "join", a, locks)
    BY <1>4 DEF StartJoin
  <2>. HIDE DEF locks
  <2>3. \A j, k \in 1 .. Len(locks) : j # k => locks[j] # locks[k]
    BY <2>1, LockNames
  <2>. QED
    BY <2>1, <2>2, <2>3, TaskStarts DEF Kinds
<1>5. CASE StartConvert(w, a)
  <2>. DEFINE locks == <<P, CampaignState, Destination(a)>>
  <2>1. /\ locks \in Seq(L) /\ Len(locks) = 3 /\ locks[1] = P /\ locks[2] = CampaignState
        /\ locks[3] = Destination(a)
    BY <1>1
  <2>2. Start(w, "convert", a, locks) /\ a \in clicked
    BY <1>5 DEF StartConvert
  <2>. HIDE DEF locks
  <2>3. \A j, k \in 1 .. Len(locks) : j # k => locks[j] # locks[k]
    BY <2>1, LockNames
  <2>4. Destination(a) \in Listed(locks)
    BY <2>1 DEF Listed
  <2>. QED
    BY <2>1, <2>2, <2>3, <2>4, TaskStarts DEF Kinds
<1>6. CASE StartCampaignChange(w, a)
  <2>. DEFINE locks == <<P, CampaignState>>
  <2>1. locks \in Seq(L) /\ Len(locks) = 2 /\ locks[1] = P /\ locks[2] = CampaignState
    BY <1>1
  <2>2. Start(w, "campaign", a, locks)
    BY <1>6 DEF StartCampaignChange
  <2>. HIDE DEF locks
  <2>3. \A j, k \in 1 .. Len(locks) : j # k => locks[j] # locks[k]
    BY <2>1, LockNames
  <2>. QED
    BY <2>1, <2>2, <2>3, TaskStarts DEF Kinds
<1>7. ASSUME NEW x \in L PROVE /\ <<x>> \in Seq(L) /\ Len(<<x>>) = 1 /\ x \in Listed(<<x>>)
                               /\ \A j, k \in 1 .. Len(<<x>>) : j # k => <<x>>[j] # <<x>>[k]
  <2>1. <<x>> \in Seq(L) /\ Len(<<x>>) = 1 /\ <<x>>[1] = x
    OBVIOUS
  <2>. QED
    BY <2>1 DEF Listed
<1>8. CASE StartEnroll(w, a) \/ StartDecide(w, a) \/ StartRedirect(w, a)
  <2>1. \/ Start(w, "enroll", a, <<Destination(a)>>) \/ Start(w, "decide", a, <<P>>)
        \/ Start(w, "redirect", a, <<CampaignState>>)
    BY <1>8 DEF StartEnroll, StartDecide, StartRedirect
  <2>2. {"enroll", "decide", "redirect"} \subseteq Kinds \ {"idle", "address", "accept", "recover", "convert"}
    BY DEF Kinds
  <2>. HIDE DEF L
  <2>3. ASSUME NEW x \in L, NEW kind \in {"enroll", "decide", "redirect"}, Start(w, kind, a, <<x>>) PROVE DestInv'
    <3>. DEFINE locks == <<x>>
    <3>1. /\ locks \in Seq(L) /\ Len(locks) = 1
          /\ \A j, k \in 1 .. Len(locks) : j # k => locks[j] # locks[k]
      BY <1>7
    <3>2. Start(w, kind, a, locks)
      BY <2>3
    <3>. HIDE DEF locks
    <3>. QED
      BY <2>2, <3>1, <3>2, TaskStarts DEF L
  <2>. QED
    BY <1>1, <2>1, <2>3
<1>9. ASSUME NEW row \in TaskRow, row.kind \in {"approve", "address"}, row.who = a,
             row.kind = "address" => row.address \in Addresses,
             task[w].kind = "idle", task' = [task EXCEPT ![w] = row],
             WillTake(w, <<Destination(a)>>), UNCHANGED rowVars
      PROVE  DestInv'
  <2>. DEFINE locks == <<Destination(a)>>
  <2>1. /\ locks \in Seq(L) /\ Len(locks) = 1 /\ Destination(a) \in Listed(locks)
        /\ \A j, k \in 1 .. Len(locks) : j # k => locks[j] # locks[k]
    BY <1>1, <1>7
  <2>2. WillTake(w, locks)
    BY <1>9
  <2>. HIDE DEF locks
  <2>. QED
    BY <1>9, <2>1, <2>2, TaskBegins
<1>10. CASE StartApprove(w, a)
  <2>. DEFINE row == [NoTask(a) EXCEPT !.kind = "approve", !.read = enrolled[a].verified # "no",
                                       !.address = enrolled[a].address]
  <2>1. enrolled[a].address \in MaybeAddress
    BY DestParts DEF DestRows, EnrolledRow
  <2>2. row \in TaskRow /\ row.kind = "approve" /\ row.who = a
    BY <2>1 DEF NoTask, TaskRow, Kinds
  <2>3. /\ task[w].kind = "idle" /\ task' = [task EXCEPT ![w] = row]
        /\ WillTake(w, <<Destination(a)>>) /\ UNCHANGED rowVars
    BY <1>10 DEF StartApprove
  <2>. HIDE DEF row
  <2>. QED
    BY <1>9, <2>2, <2>3
<1>11. ASSUME NEW x \in Addresses, StartUpdateAddress(w, a, x) PROVE DestInv'
  <2>. DEFINE row == [NoTask(a) EXCEPT !.kind = "address", !.address = x]
  <2>1. row \in TaskRow /\ row.kind = "address" /\ row.who = a /\ row.address = x
    BY DEF NoTask, TaskRow, Kinds, MaybeAddress
  <2>2. /\ task[w].kind = "idle" /\ task' = [task EXCEPT ![w] = row]
        /\ WillTake(w, <<Destination(a)>>) /\ UNCHANGED rowVars
    BY <1>11 DEF StartUpdateAddress
  <2>. HIDE DEF row
  <2>. QED
    BY <1>9, <2>1, <2>2
<1>. QED
  BY <1>2, <1>3, <1>4, <1>5, <1>6, <1>8, <1>10, <1>11

\* What a request reads of its affiliate's address is read under the destination's lock.
LEMMA TaskReads ==
    ASSUME DestInv, NEW w \in Workers, ReadVerified(w) \/ ReadEnrollment(w)
    PROVE  DestInv'
<1>. DEFINE a == task[w].who
            x == IF task[w].kind = "convert" THEN enrolled[a].address ELSE profile[a]
            row == [task[w] EXCEPT !.read = TRUE, !.address = x]
<1>1. /\ DestRows /\ task \in [Workers -> TaskRow] /\ task[w] \in TaskRow /\ a \in Affiliates /\ TaskInv(w)
  BY DestParts DEF TaskRow
<1>2. /\ HasItsLocks(w) /\ task[w].kind \in {"accept", "recover", "convert"}
      /\ task' = [task EXCEPT ![w] = row] /\ UNCHANGED <<rowVars, lockVars>>
  BY DEF ReadVerified, ReadEnrollment, Reads, Does
<1>3. x \in MaybeAddress
  BY <1>1 DEF DestRows, EnrolledRow
<1>4. task[w].kind = "convert" => x # NoAddress /\ profile[a] \in {NoAddress, x}
  BY <1>1 DEF TaskInv, DestRows, ClickedInv
<1>5. task[w].kind # "convert" => x = profile[a]
  OBVIOUS
<1>. HIDE DEF x
<1>6. /\ row \in TaskRow /\ row.kind = task[w].kind /\ row.who = a /\ row.address = x
  BY <1>1, <1>3 DEF TaskRow
<1>. HIDE DEF row
<1>7. task' \in [Workers -> TaskRow] /\ task'[w] = row /\ \A v \in Workers \ {w} : task'[v] = task[v]
  BY <1>1, <1>2, <1>6
<1>8. /\ LockInv(DestLocks)' /\ (\A v \in Workers : Planned(v)' = Planned(v)) /\ todo' = todo
      /\ UNCHANGED <<profile, enrolled, clicked, payout, attempt>>
  BY <1>2, LocksUnchanged DEF DestInv, lockVars, rowVars
<1>9. TaskInv(w)'
  BY <1>1, <1>2, <1>4, <1>5, <1>6, <1>7, <1>8 DEF TaskInv, HasItsLocks
<1>10. ASSUME NEW v \in Workers \ {w} PROVE TaskInv(v)'
  BY <1>7, <1>8, <1>10, TaskKeeps DEF DestInv, HasItsLocks
<1>11. DestRows'
  BY <1>1, <1>8 DEF DestRows, ClickedInv, PayoutsFollowTheProfile
<1>. QED
  BY <1>7, <1>8, <1>9, <1>10, <1>11 DEF DestInv, DestTypeOK, DestRows, TaskRow, EnrolledRow, PayoutRow

LEMMA PayoutIsRead ==
    ASSUME DestInv, NEW w \in Workers, NEW p \in Payouts, ReadPayout(w, p)
    PROVE  DestInv'
<1>. DEFINE row == [NoTask(payout[p].who) EXCEPT !.kind = "execute", !.address = payout[p].address,
                                                 !.payout = {p}]
<1>1. DestRows /\ task \in [Workers -> TaskRow] /\ payout[p].who \in Affiliates /\ payout[p].address \in MaybeAddress
  BY DestParts DEF DestRows, PayoutRow
<1>2. row \in TaskRow /\ row.kind = "execute"
  BY <1>1 DEF NoTask, TaskRow, Kinds
<1>3. task' = [task EXCEPT ![w] = row] /\ UNCHANGED <<rowVars, lockVars>>
  BY DEF ReadPayout
<1>. HIDE DEF row
<1>4. task' \in [Workers -> TaskRow] /\ task'[w] = row /\ \A v \in Workers \ {w} : task'[v] = task[v]
  BY <1>1, <1>2, <1>3
<1>5. /\ LockInv(DestLocks)' /\ (\A v \in Workers : Planned(v)' = Planned(v)) /\ todo' = todo
      /\ UNCHANGED <<profile, enrolled, clicked, payout, attempt>>
  BY <1>3, LocksUnchanged DEF DestInv, lockVars, rowVars
<1>6. TaskInv(w)'
  BY <1>2, <1>4 DEF TaskInv
<1>7. ASSUME NEW v \in Workers \ {w} PROVE TaskInv(v)'
  BY <1>4, <1>5, <1>7, TaskKeeps DEF DestInv, HasItsLocks
<1>8. DestRows'
  BY <1>1, <1>5 DEF DestRows, ClickedInv, PayoutsFollowTheProfile
<1>. QED
  BY <1>4, <1>5, <1>6, <1>7, <1>8 DEF DestInv, DestTypeOK, DestRows, TaskRow, EnrolledRow, PayoutRow

LEMMA VerifiedAddress ==
    ASSUME NEW e \in EnrolledRow, NEW x \in MaybeAddress
    PROVE  /\ WithVerified(e, x) \in EnrolledRow
           /\ WithVerified(e, x).status = e.status
           /\ WithVerified(e, x).address = IF x = NoAddress THEN e.address ELSE x
BY DEF WithVerified, EnrolledRow

\* An enrollment that changes keeps what whoever is paid for clicks relies on.
LEMMA EnrollmentChanges ==
    ASSUME DestRows, NEW a \in Affiliates, NEW e \in EnrolledRow,
           enrolled' = [enrolled EXCEPT ![a] = e],
           UNCHANGED <<profile, clicked, payout, attempt>>,
           a \in clicked => e.status # "none" /\ e.address # NoAddress /\ profile[a] \in {NoAddress, e.address}
    PROVE  DestRows'
<1>1. enrolled' \in [Affiliates -> EnrolledRow] /\ enrolled'[a] = e
      /\ \A b \in Affiliates \ {a} : enrolled'[b] = enrolled[b]
  BY DEF DestRows
<1>2. \A b \in clicked : ClickedInv(b)'
  BY <1>1 DEF DestRows, ClickedInv
<1>. QED
  BY <1>1, <1>2 DEF DestRows, PayoutsFollowTheProfile

LEMMA EnrollmentIsWritten ==
    ASSUME DestInv, NEW w \in Workers,
           \/ \E x \in Addresses : EnrollDirectly(w, x)
           \/ CopyOnAccept(w) \/ CopyOnRecover(w)
           \/ Join(w, "approved") \/ Join(w, "pending")
           \/ Decide(w, "approved") \/ Decide(w, "closed") \/ Approve(w)
    PROVE  DestRows'
<1>. DEFINE a == task[w].who
            old == enrolled[a]
            new(status) == [NotEnrolled EXCEPT !.status = status]
<1>1. DestRows /\ a \in Affiliates /\ TaskInv(w) /\ task[w].address \in MaybeAddress
      /\ old \in EnrolledRow /\ profile[a] \in MaybeAddress
  BY DestParts DEF TaskRow, DestRows
<1>2. a \in clicked => old.status # "none" /\ old.address # NoAddress /\ profile[a] \in {NoAddress, old.address}
  BY <1>1 DEF DestRows, ClickedInv
<1>3. \A status \in {"approved", "pending"} : new(status) \in EnrolledRow /\ new(status).status = status
  BY DEF NotEnrolled, EnrolledRow, MaybeAddress
<1>4. UNCHANGED <<profile, clicked, payout, attempt>>
  BY DEF EnrollDirectly, CopyOnAccept, CopyOnRecover, Join, Decide, Approve
<1>5. CASE CopyOnAccept(w) \/ CopyOnRecover(w)
  <2>. DEFINE from == IF old.status = "none" THEN new("approved") ELSE old
              e == WithVerified(from, task[w].address)
  <2>1. /\ task[w].address = profile[a] /\ old.status \in {"none", "approved"}
        /\ enrolled' = [enrolled EXCEPT ![a] = e]
    BY <1>1, <1>5 DEF CopyOnAccept, CopyOnRecover, Does, TaskInv
  <2>2. from \in EnrolledRow /\ from.status # "none" /\ (a \in clicked => from = old)
    BY <1>1, <1>2, <1>3
  <2>. HIDE DEF from
  <2>3. /\ e \in EnrolledRow /\ e.status = from.status
        /\ e.address = IF task[w].address = NoAddress THEN from.address ELSE task[w].address
    BY <1>1, <2>2, VerifiedAddress
  <2>. HIDE DEF e
  <2>. QED
    BY <1>1, <1>2, <1>4, <2>1, <2>2, <2>3, EnrollmentChanges
<1>6. CASE \E x \in Addresses : EnrollDirectly(w, x)
  <2>1. PICK x \in Addresses : EnrollDirectly(w, x)
    BY <1>6
  <2>. DEFINE from == [status |-> "approved", address |-> x, verified |-> "no"]
              e == WithVerified(from, profile[a])
  <2>2. from \in EnrolledRow
    BY DEF EnrolledRow, MaybeAddress
  <2>3. old.status = "none" /\ enrolled' = [enrolled EXCEPT ![a] = e]
    BY <2>1 DEF EnrollDirectly
  <2>. HIDE DEF from
  <2>4. e \in EnrolledRow
    BY <1>1, <2>2, VerifiedAddress
  <2>. HIDE DEF e
  <2>. QED
    BY <1>1, <1>2, <1>4, <2>3, <2>4, EnrollmentChanges
<1>7. ASSUME NEW status \in {"approved", "pending"}, Join(w, status) PROVE DestRows'
  <2>. DEFINE e == new(status)
  <2>1. old.status = "none" /\ enrolled' = [enrolled EXCEPT ![a] = e] /\ e \in EnrolledRow
    BY <1>3, <1>7 DEF Join
  <2>. HIDE DEF e
  <2>. QED
    BY <1>1, <1>2, <1>4, <2>1, EnrollmentChanges
<1>8. ASSUME NEW status \in {"approved", "closed"}, Decide(w, status) PROVE DestRows'
  <2>. DEFINE e == [old EXCEPT !.status = status]
  <2>1. e \in EnrolledRow /\ e.status = status /\ e.address = old.address
    BY <1>1 DEF EnrolledRow
  <2>2. enrolled' = [enrolled EXCEPT ![a] = e]
    BY <1>8 DEF Decide
  <2>. HIDE DEF e
  <2>. QED
    BY <1>1, <1>2, <1>4, <2>1, <2>2, EnrollmentChanges
<1>9. CASE Approve(w)
  <2>. DEFINE copied == task[w].read /\ task[w].address = profile[a]
              from == IF copied THEN old ELSE WithVerified(old, profile[a])
              e == [from EXCEPT !.status = "approved"]
  <2>1. enrolled' = [enrolled EXCEPT ![a] = e]
    BY <1>9 DEF Approve
  <2>2. from \in EnrolledRow /\ (a \in clicked => from.address # NoAddress /\ profile[a] \in {NoAddress, from.address})
    BY <1>1, <1>2, VerifiedAddress
  <2>. HIDE DEF from
  <2>3. e \in EnrolledRow /\ e.status = "approved" /\ e.address = from.address
    BY <2>2 DEF EnrolledRow
  <2>. HIDE DEF e
  <2>. QED
    BY <1>1, <1>4, <2>1, <2>2, <2>3, EnrollmentChanges
<1>. QED
  BY <1>5, <1>6, <1>7, <1>8, <1>9

\* A new address reaches the enrollment and every payout that was not attempted.
LEMMA AddressIsWritten ==
    ASSUME DestInv, NEW w \in Workers, UpdateLightningAddress(w)
    PROVE  /\ DestRows' /\ clicked' = clicked
           /\ \A a \in Affiliates : Destination(a) \notin held[w] => profile'[a] = profile[a]
<1>. DEFINE a == task[w].who
            x == task[w].address
            e == IF enrolled[a].status = "none" THEN enrolled[a] ELSE WithVerified(enrolled[a], x)
<1>1. /\ DestRows /\ a \in Affiliates /\ x \in Addresses /\ Destination(a) \in held[w]
  BY DestParts, PlannedType DEF TaskRow, TaskInv, UpdateLightningAddress, Does, DestInv
<1>2. x \in MaybeAddress /\ x # NoAddress
  BY <1>1, DestinationAssumption DEF MaybeAddress
<1>3. /\ profile' = [profile EXCEPT ![a] = x] /\ enrolled' = [enrolled EXCEPT ![a] = e]
      /\ payout' = [p \in Payouts |->
            IF payout[p].state = "open" /\ payout[p].who = a
              THEN [payout[p] EXCEPT !.address = x] ELSE payout[p]]
      /\ clicked' = clicked /\ attempt' = attempt
  BY DEF UpdateLightningAddress
<1>4. e \in EnrolledRow /\ (a \in clicked => e.status # "none" /\ e.address = x)
  <2>1. enrolled[a] \in EnrolledRow
    BY <1>1 DEF DestRows
  <2>. QED
    BY <1>1, <1>2, <2>1, VerifiedAddress DEF DestRows, ClickedInv
<1>. HIDE DEF e
<1>5. /\ profile' \in [Affiliates -> MaybeAddress] /\ profile'[a] = x
      /\ \A b \in Affiliates \ {a} : profile'[b] = profile[b]
      /\ enrolled' \in [Affiliates -> EnrolledRow] /\ enrolled'[a] = e
      /\ \A b \in Affiliates \ {a} : enrolled'[b] = enrolled[b]
  BY <1>1, <1>2, <1>3, <1>4 DEF DestRows
<1>6. ASSUME NEW p \in Payouts
      PROVE  /\ payout'[p] \in PayoutRow /\ payout'[p].state = payout[p].state /\ payout'[p].who = payout[p].who
             /\ payout'[p].address = IF payout[p].state = "open" /\ payout[p].who = a THEN x ELSE payout[p].address
  <2>1. payout[p] \in PayoutRow
    BY <1>1 DEF DestRows
  <2>2. payout'[p] = IF payout[p].state = "open" /\ payout[p].who = a
                       THEN [payout[p] EXCEPT !.address = x] ELSE payout[p]
    BY <1>3
  <2>. QED
    BY <1>2, <2>1, <2>2 DEF PayoutRow
<1>7. payout' \in [Payouts -> PayoutRow]
  BY <1>3, <1>6
<1>8. \A b \in clicked : ClickedInv(b)'
  BY <1>1, <1>2, <1>4, <1>5 DEF DestRows, ClickedInv
<1>9. PayoutsFollowTheProfile'
  <2>. SUFFICES ASSUME NEW p \in Payouts, payout'[p].state = "open"
                PROVE  payout'[p].address # NoAddress /\ profile'[payout'[p].who] \in {NoAddress, payout'[p].address}
    BY DEF PayoutsFollowTheProfile
  <2>1. payout[p].state = "open" /\ payout[p].who \in Affiliates
    BY <1>1, <1>6 DEF DestRows, PayoutRow
  <2>. QED
    BY <1>1, <1>2, <1>5, <1>6, <2>1 DEF DestRows, PayoutsFollowTheProfile
<1>. QED
  BY <1>1, <1>3, <1>5, <1>7, <1>8, <1>9 DEF DestRows

LEMMA ClickIsWritten ==
    ASSUME DestInv, NEW w \in Workers, RedirectClick(w)
    PROVE  DestRows'
<1>. DEFINE a == task[w].who
<1>1. /\ DestRows /\ a \in Affiliates /\ enrolled[a].status = "approved" /\ DestinationReady(a)
      /\ clicked' = clicked \cup {a} /\ UNCHANGED <<profile, enrolled, payout, attempt>>
  BY DestParts DEF TaskRow, RedirectClick
<1>2. ClickedInv(a)
  BY <1>1 DEF ClickedInv, DestinationReady
<1>3. \A b \in clicked' : ClickedInv(b)'
  BY <1>1, <1>2 DEF DestRows, ClickedInv
<1>. QED
  BY <1>1, <1>3 DEF DestRows, PayoutsFollowTheProfile

\* A payout takes the address its conversion read under the destination's lock; one that is
\* attempted is out of the property's reach.
LEMMA PayoutIsWritten ==
    ASSUME DestInv, NEW w \in Workers, NEW p \in Payouts, CreateConversion(w, p) \/ ClaimPayout(w, p)
    PROVE  DestRows'
<1>. DEFINE new == [state |-> "open", who |-> task[w].who, address |-> task[w].address]
            claimed == [payout[p] EXCEPT !.state = "attempted"]
<1>1. /\ DestRows /\ task[w].who \in Affiliates /\ task[w].address \in MaybeAddress /\ TaskInv(w)
      /\ payout[p] \in PayoutRow
  BY DestParts DEF TaskRow, DestRows
<1>2. new \in PayoutRow /\ claimed \in PayoutRow /\ claimed.state = "attempted"
  BY <1>1 DEF PayoutRow
<1>3. CASE CreateConversion(w, p)
  <2>1. /\ payout' = [payout EXCEPT ![p] = new] /\ UNCHANGED <<profile, enrolled, clicked, attempt>>
        /\ new.address # NoAddress /\ profile[new.who] \in {NoAddress, new.address}
    BY <1>1, <1>3 DEF CreateConversion, Does, TaskInv
  <2>. HIDE DEF new
  <2>2. payout' \in [Payouts -> PayoutRow] /\ payout'[p] = new /\ \A q \in Payouts \ {p} : payout'[q] = payout[q]
    BY <1>1, <1>2, <2>1 DEF DestRows
  <2>. QED
    BY <1>1, <2>1, <2>2 DEF DestRows, ClickedInv, PayoutsFollowTheProfile
<1>4. CASE ClaimPayout(w, p)
  <2>1. /\ payout' = [payout EXCEPT ![p] = claimed] /\ UNCHANGED <<profile, enrolled, clicked>>
        /\ attempt' = [attempt EXCEPT ![p] = task[w].address]
    BY <1>4 DEF ClaimPayout
  <2>. HIDE DEF claimed
  <2>2. /\ payout' \in [Payouts -> PayoutRow] /\ payout'[p] = claimed
        /\ \A q \in Payouts \ {p} : payout'[q] = payout[q]
        /\ attempt' \in [Payouts -> MaybeAddress]
    BY <1>1, <1>2, <2>1 DEF DestRows
  <2>. QED
    BY <1>1, <1>2, <2>1, <2>2 DEF DestRows, ClickedInv, PayoutsFollowTheProfile
<1>. QED
  BY <1>3, <1>4

LEMMA TaskWrites ==
    ASSUME DestInv, NEW w \in Workers,
           \/ Abort(w) \/ ChangeCampaign(w) \/ RedirectClick(w) \/ UpdateLightningAddress(w)
           \/ \E x \in Addresses : EnrollDirectly(w, x)
           \/ CopyOnAccept(w) \/ CopyOnRecover(w)
           \/ Join(w, "approved") \/ Join(w, "pending")
           \/ Decide(w, "approved") \/ Decide(w, "closed") \/ Approve(w)
           \/ \E p \in Payouts : CreateConversion(w, p) \/ ClaimPayout(w, p)
    PROVE  DestInv'
<1>1. Finish(w)
  BY DEF Abort, ChangeCampaign, RedirectClick, UpdateLightningAddress, EnrollDirectly, CopyOnAccept,
         CopyOnRecover, Join, Decide, Approve, CreateConversion, ClaimPayout
<1>2. DestRows' /\ clicked \subseteq clicked'
      /\ \A a \in Affiliates : Destination(a) \notin held[w] => profile'[a] = profile[a]
  <2>1. CASE Abort(w) \/ ChangeCampaign(w)
    <3>1. DestRows /\ UNCHANGED <<profile, enrolled, clicked, payout, attempt>>
      BY <2>1, DestParts DEF Abort, ChangeCampaign, rowVars
    <3>. QED
      BY <3>1 DEF DestRows, ClickedInv, PayoutsFollowTheProfile
  <2>2. CASE RedirectClick(w)
    BY <2>2, ClickIsWritten DEF RedirectClick
  <2>3. CASE UpdateLightningAddress(w)
    BY <2>3, AddressIsWritten
  <2>4. CASE \/ \E x \in Addresses : EnrollDirectly(w, x)
             \/ CopyOnAccept(w) \/ CopyOnRecover(w)
             \/ Join(w, "approved") \/ Join(w, "pending")
             \/ Decide(w, "approved") \/ Decide(w, "closed") \/ Approve(w)
    <3>1. profile' = profile /\ clicked' = clicked
      BY <2>4 DEF EnrollDirectly, CopyOnAccept, CopyOnRecover, Join, Decide, Approve
    <3>. QED
      BY <2>4, <3>1, EnrollmentIsWritten
  <2>5. ASSUME NEW p \in Payouts, CreateConversion(w, p) \/ ClaimPayout(w, p)
        PROVE  DestRows' /\ profile' = profile /\ clicked' = clicked
    BY <2>5, PayoutIsWritten DEF CreateConversion, ClaimPayout
  <2>. QED
    BY <2>1, <2>2, <2>3, <2>4, <2>5
<1>3. /\ task' \in [Workers -> TaskRow]
      /\ LockInv(DestLocks)' /\ \A v \in Workers : TaskInv(v)'
  BY <1>1, <1>2, TaskEnds
<1>. QED
  BY SMTT(30), <1>2, <1>3 DEF DestInv, DestTypeOK, DestRows, TaskRow, EnrolledRow, PayoutRow

LEMMA DestFrame ==
    ASSUME DestInv, DestRows', task' = task, clicked' = clicked, profile' = profile,
           \/ UNCHANGED lockVars
           \/ \E w \in Workers : TakeLock(w)
    PROVE  DestInv'
<1>1. /\ LockInv(DestLocks)' /\ (\A v \in Workers : Planned(v)' = Planned(v))
      /\ \A v \in Workers : HasItsLocks(v) => HasItsLocks(v)'
  <2>1. CASE UNCHANGED lockVars
    BY <2>1, LocksUnchanged DEF DestInv, lockVars, HasItsLocks
  <2>2. ASSUME NEW w \in Workers, TakeLock(w)
        PROVE  /\ LockInv(DestLocks)' /\ (\A v \in Workers : Planned(v)' = Planned(v))
               /\ \A v \in Workers : HasItsLocks(v) => HasItsLocks(v)'
    BY <2>2, LockIsTaken DEF DestInv, HasItsLocks
  <2>. QED
    BY <2>1, <2>2
<1>2. ASSUME NEW v \in Workers PROVE TaskInv(v)'
  BY <1>1, TaskKeeps DEF DestInv
<1>. QED
  BY <1>1, <1>2 DEF DestInv, DestTypeOK, DestRows, TaskRow, EnrolledRow, PayoutRow

LEMMA DestNextInv == DestInv /\ [DestNext]_destVars => DestInv'
<1>. SUFFICES ASSUME DestInv, [DestNext]_destVars PROVE DestInv'
  OBVIOUS
<1>0. ASSUME UNCHANGED rowVars PROVE DestRows' /\ clicked' = clicked /\ profile' = profile
  <2>1. DestRows
    BY DestParts
  <2>. QED
    BY <1>0, <2>1 DEF DestRows, ClickedInv, PayoutsFollowTheProfile, rowVars
<1>1. CASE UNCHANGED destVars
  BY <1>0, <1>1, DestFrame DEF destVars
<1>2. ASSUME NEW w \in Workers, TakeLock(w) /\ UNCHANGED <<rowVars, task>> PROVE DestInv'
  BY <1>0, <1>2, DestFrame
<1>3. ASSUME NEW a \in Affiliates, CloseEnrollment(a) PROVE DestInv'
  <2>. DEFINE e == [enrolled[a] EXCEPT !.status = "closed"]
  <2>1. DestRows /\ enrolled[a] \in EnrolledRow /\ (a \in clicked => ClickedInv(a))
    BY DestParts DEF DestRows
  <2>2. e \in EnrolledRow /\ e.status = "closed" /\ e.address = enrolled[a].address
    BY <2>1 DEF EnrolledRow
  <2>3. enrolled' = [enrolled EXCEPT ![a] = e] /\ UNCHANGED <<profile, clicked, payout, attempt, task, lockVars>>
    BY <1>3 DEF CloseEnrollment
  <2>. HIDE DEF e
  <2>4. DestRows'
    BY <2>1, <2>2, <2>3, EnrollmentChanges DEF ClickedInv
  <2>. QED
    BY <2>3, <2>4, DestFrame
<1>4. ASSUME NEW w \in Workers,
             \/ Abort(w) \/ ChangeCampaign(w) \/ RedirectClick(w) \/ UpdateLightningAddress(w)
             \/ \E x \in Addresses : EnrollDirectly(w, x)
             \/ CopyOnAccept(w) \/ CopyOnRecover(w)
             \/ Join(w, "approved") \/ Join(w, "pending")
             \/ Decide(w, "approved") \/ Decide(w, "closed") \/ Approve(w)
             \/ \E p \in Payouts : CreateConversion(w, p) \/ ClaimPayout(w, p)
      PROVE  DestInv'
  BY <1>4, TaskWrites
<1>5. ASSUME NEW w \in Workers,
             \/ \E a \in Affiliates :
                  \/ StartAccept(w, a, "token") \/ StartRecover(w, a, "token")
                  \/ StartJoin(w, a) \/ StartEnroll(w, a) \/ StartDecide(w, a) \/ StartApprove(w, a)
                  \/ StartRedirect(w, a) \/ StartConvert(w, a) \/ StartCampaignChange(w, a)
                  \/ \E x \in Addresses : StartUpdateAddress(w, a, x)
             \/ ReadVerified(w) \/ ReadEnrollment(w)
             \/ \E p \in Payouts : ReadPayout(w, p)
      PROVE  DestInv'
  BY <1>5, DestHandlerBegins, TaskReads, PayoutIsRead
<1>. QED
  BY <1>1, <1>2, <1>3, <1>4, <1>5 DEF DestNext

LEMMA DestStarts == DestInit => DestInv
<1>. SUFFICES ASSUME DestInit PROVE DestInv
  OBVIOUS
<1>1. LockInv(DestLocks) /\ \A w \in Workers : Planned(w) = {}
  BY LocksStart DEF DestInit
<1>2. PICK a \in Affiliates : task = [w \in Workers |-> NoTask(a)]
  BY DEF DestInit
<1>3. NoTask(a) \in TaskRow /\ NoTask(a).kind = "idle"
  BY DEF NoTask, TaskRow, Kinds, MaybeAddress
<1>4. task \in [Workers -> TaskRow] /\ \A w \in Workers : TaskInv(w)
  BY <1>1, <1>2, <1>3 DEF TaskInv
<1>5. DestRows
  <2>1. \A b \in Affiliates : NoPayout(b) \in PayoutRow /\ NoPayout(b).state = "none"
    BY DEF NoPayout, PayoutRow, MaybeAddress
  <2>2. NotEnrolled \in EnrolledRow /\ \A x \in Addresses : Legacy(x) \in EnrolledRow
    BY DEF NotEnrolled, Legacy, EnrolledRow, MaybeAddress
  <2>3. enrolled \in [Affiliates -> EnrolledRow]
    BY <2>2 DEF DestInit
  <2>4. payout \in [Payouts -> PayoutRow] /\ \A p \in Payouts : payout[p].state = "none"
    BY <2>1 DEF DestInit
  <2>5. NoAddress \in MaybeAddress
    BY DEF MaybeAddress
  <2>. QED
    BY <2>3, <2>4, <2>5 DEF DestInit, DestRows, PayoutsFollowTheProfile
<1>. QED
  BY <1>1, <1>4, <1>5, DestParts

THEOREM DestInductive == DestSpec => []DestInv
BY DestStarts, DestNextInv, PTL DEF DestSpec

\* Whatever requests of the affiliate, the merchant and the store overlap, a payout that was
\* not attempted goes where its affiliate is paid now.
THEOREM PayoutsFollow == DestSpec => []PayoutsFollowTheProfile
<1>1. DestInv => PayoutsFollowTheProfile
  BY DEF DestInv
<1>. QED
  BY <1>1, DestInductive, PTL

\* Nor do the requests that read or change where commissions go wait for each other in a
\* circle within a process.
THEOREM DestinationsDoNotCircle == DestSpec => []NoCircularWaitInAProcess
<1>1. DestInv => NoCircularWaitInAProcess
  BY NoCircle DEF DestInv
<1>. QED
  BY <1>1, DestInductive, PTL

=============================================================================

----------------------------- MODULE RequestLocks -----------------------------
(***************************************************************************)
(* The locks the handlers of app/main.py take around a transaction on      *)
(* PostgreSQL: _INVITATION_ACCEPT_LOCK, a threading.Lock of each server    *)
(* process, and advisory transaction locks, which every process sees.  A   *)
(* request takes the locks of its handler one by one, in the handler's     *)
(* order, and gives all of them back when its transaction ends.            *)
(***************************************************************************)
EXTENDS Sequences

CONSTANTS
    Workers,  \* requests served at the same time
    Processes \* server processes

VARIABLES
    server, \* the process that serves each request
    todo,   \* the locks each request has still to take, in order
    held    \* the locks it holds

lockVars == <<server, todo, held>>

Process(w) == <<"process", server[w]>>
Identity(i) == <<"nostr-identity", i>>
Destination(i) == <<"affiliate-destination", i>>
Invitation(v) == <<"affiliate-invitation", v>>
CampaignState == <<"campaign-state", "campaign">>
EnrollmentOf(i) == <<"affiliate-enrollment", i>>

LocksInit ==
    /\ server \in [Workers -> Processes]
    /\ todo = [w \in Workers |-> <<>>]
    /\ held = [w \in Workers |-> {}]

WillTake(w, locks) ==
    /\ todo' = [todo EXCEPT ![w] = locks]
    /\ UNCHANGED <<server, held>>

TakeLock(w) ==
    /\ todo[w] # <<>>
    /\ \A v \in Workers : Head(todo[w]) \notin held[v]
    /\ held' = [held EXCEPT ![w] = @ \cup {Head(todo[w])}]
    /\ todo' = [todo EXCEPT ![w] = Tail(@)]
    /\ UNCHANGED server

HasItsLocks(w) == todo[w] = <<>>

GiveBack(w) ==
    /\ todo' = [todo EXCEPT ![w] = <<>>]
    /\ held' = [held EXCEPT ![w] = {}]
    /\ UNCHANGED server

WaitsFor(w, v) == todo[w] # <<>> /\ Head(todo[w]) \in held[v]

CircularWait(S) == S # {} /\ \A w \in S : \E v \in S : WaitsFor(w, v)

\* Requests of one process never wait for each other in a circle: PostgreSQL breaks a
\* circle of advisory locks, but nothing breaks one that includes the process's own lock,
\* which accept_affiliate_invitation and _create_conversion both take first because they
\* take the destination's and the campaign's locks in opposite orders.
NoCircularWaitInAProcess ==
    \A S \in SUBSET Workers :
        CircularWait(S) => \E w, v \in S : server[w] # server[v]

=============================================================================

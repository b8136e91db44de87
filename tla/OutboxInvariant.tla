-------------------------- MODULE OutboxInvariant --------------------------
(***************************************************************************)
(* The inductive invariant of NostrOutbox: what a request remembers of an  *)
(* event, what the rows say of it and what the relays took agree.  Its     *)
(* parts say why the order of the campaign's events survives finalizations *)
(* that run without its lock, and changes that publish before they commit. *)
(***************************************************************************)
EXTENDS NostrOutbox

Changing(w) == job[w].step \in {"publish", "persist"} /\ job[w].how = "change"

\* Events are signed in order, and none is counted as published that no relay took.
EventInv ==
    \A i \in Events :
        /\ i > signed => event[i].of = None /\ outbox[i] = "none" /\ i \notin relay
        /\ i <= signed => event[i].of \in Entities
        /\ outbox[i] = "published" => i \in relay

\* A row names its own event, which says what the row says.
RowInv ==
    \A e \in Entities :
        IF current[e] = None THEN status[e] = "none" /\ ~shown[e]
        ELSE /\ event[current[e]].of = e /\ event[current[e]].says = status[e]
             /\ e = Program \/ status[e] = "approved" => outbox[current[e]] # "none"

\* Committed events of the campaign are older than its row's.
OrderInv ==
    \A i \in Events :
        event[i].of = Program /\ outbox[i] # "none" =>
            /\ current[Program] # None
            /\ i # current[Program] => event[i].at < event[current[Program]].at

\* What is to be finalized was committed.
JobInv ==
    \A w \in Actors :
        /\ \A i \in job[w].todo : outbox[i] # "none"
        /\ job[w].step = "next" => job[w].how = "finalize"
        /\ job[w].step \in {"publish", "persist"} => job[w].id \in 1..signed
        /\ job[w].step \in {"publish", "persist"} /\ job[w].how # "change"
               => outbox[job[w].id] # "none"
        /\ job[w].step = "persist" /\ job[w].acked => job[w].id \in relay

\* A change that is being published is known to nobody else; one of the campaign is its
\* first event, or it is made under the lock and later than the row's event.
ChangeInv ==
    \A w \in Actors : Changing(w) =>
        /\ outbox[job[w].id] = "none"
        /\ \A v \in Actors \ {w} : Changing(v) => job[v].id # job[w].id
        /\ event[job[w].id].of = Program =>
               IF current[Program] = None
               THEN \A i \in Events : event[i].of = Program => i = job[w].id
               ELSE campaignLock = w /\ event[job[w].id].at > event[current[Program]].at

\* Until a transaction is lost, every event of the campaign is committed or about to be.
NothingLost ==
    faults = 0 => \A i \in Events : event[i].of = Program /\ outbox[i] = "none" =>
                      \E w \in Actors : Changing(w) /\ job[w].id = i

OutboxInv ==
    TypeOK /\ EventInv /\ RowInv /\ ShownIsPublished /\ OrderInv /\ JobInv /\ ChangeInv /\ NothingLost

=============================================================================

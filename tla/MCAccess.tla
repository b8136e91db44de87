------------------------------ MODULE MCAccess ------------------------------
(***************************************************************************)
(* The requests of affiliates beside those of merchants: who gets in, and  *)
(* where commissions go.  The two parts share the locks and nothing else,  *)
(* so a behaviour of the run exercises one of them.                        *)
(***************************************************************************)
EXTENDS AffiliateAccess, PayoutDestination, TLC

VARIABLE part \* what this behaviour exercises

allVars == <<accessVars, profile, enrolled, clicked, payout, attempt, task, part>>

accessOnly == <<credentialVars, peopleVars, campaign, request>>
destOnly == <<rowVars, task>>

\* In the part about access the requests are of different processes, whose behaviours
\* include those of one process except for the waits at its own lock.
MCInit ==
    /\ AccessInit /\ DestInit
    /\ part \in {"access", "destination"}
    /\ part = "access" =>
         /\ \A v, w \in Workers : v # w => server[v] # server[w]
         /\ \A a \in Affiliates : enrolled[a] = NotEnrolled
    /\ part = "destination" => campaign.mode = "private"

MCNext ==
    /\ UNCHANGED part
    /\ \/ part = "access" /\ AccessNext /\ UNCHANGED destOnly
       \/ part = "destination" /\ DestNext /\ UNCHANGED accessOnly

MCSpec == MCInit /\ [][MCNext]_allVars

Symmetry == Permutations(Workers) \cup Permutations(Processes)

=============================================================================

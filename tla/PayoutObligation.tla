-------------------------- MODULE PayoutObligation --------------------------
(***************************************************************************)
(* What the payout machinery promises about one campaign's obligations,    *)
(* without budget, workers, attempts or invoices.  An obligation is owed,  *)
(* paid and proved; whether its money left, or may still leave on a        *)
(* request that is under way, is a fact of its own, and the state may      *)
(* claim nothing that contradicts it:                                      *)
(*   - money is sent only while its obligation is in flight (or with the   *)
(*     very step that records it, for a payment made outside the rail);    *)
(*   - an obligation is retried or voided only if its money was not sent   *)
(*     or came back, and counted as paid only if it was sent;              *)
(*   - nothing new starts for a reversed conversion, and what was in       *)
(*     flight when it was reversed is never owed again.                    *)
(***************************************************************************)
CONSTANT Payouts

VARIABLES
    state,      \* the obligation's state
    moved,      \* payouts whose money left, or may still leave, and did not come back
    reversed    \* payouts whose conversion was reversed

obligationVars == <<state, moved, reversed>>

States == {"absent", "held", "owed", "inflight", "paid", "proved", "void"}

ObligationTypeOK ==
    /\ state \in [Payouts -> States]
    /\ moved \subseteq Payouts
    /\ reversed \subseteq Payouts

Init ==
    /\ state = [p \in Payouts |-> "absent"]
    /\ moved = {}
    /\ reversed = {}

Becomes(p, s) == state' = [state EXCEPT ![p] = s]

Create(p) ==
    /\ state[p] = "absent"
    /\ \E s \in {"held", "owed"} : Becomes(p, s)
    /\ UNCHANGED <<moved, reversed>>

Hold(S) ==
    /\ \A p \in S : state[p] = "owed"
    /\ state' = [p \in Payouts |-> IF p \in S THEN "held" ELSE state[p]]
    /\ UNCHANGED <<moved, reversed>>

Unhold(p) ==
    /\ state[p] = "held" /\ p \notin reversed
    /\ Becomes(p, "owed")
    /\ UNCHANGED <<moved, reversed>>

Claim(p) ==
    /\ state[p] = "owed" /\ p \notin reversed
    /\ Becomes(p, "inflight")
    /\ UNCHANGED <<moved, reversed>>

Send(p) ==
    /\ state[p] = "inflight"
    /\ moved' = moved \cup {p}
    /\ UNCHANGED <<state, reversed>>

Bounce(p) ==
    /\ state[p] = "inflight"
    /\ moved' = moved \ {p}
    /\ UNCHANGED <<state, reversed>>

\* An attempt ends without a payment.
Fail(p) ==
    /\ state[p] = "inflight" /\ p \notin moved
    /\ Becomes(p, IF p \in reversed THEN "void" ELSE "owed")
    /\ UNCHANGED <<moved, reversed>>

Settle(p) ==
    /\ state[p] = "inflight" /\ p \in moved
    /\ Becomes(p, "paid")
    /\ UNCHANGED <<moved, reversed>>

SettleOutside(p) ==
    /\ state[p] = "owed" /\ p \notin reversed
    /\ Becomes(p, "paid")
    /\ moved' = moved \cup {p}
    /\ UNCHANGED reversed

Prove(p) ==
    /\ state[p] = "paid"
    /\ Becomes(p, "proved")
    /\ UNCHANGED <<moved, reversed>>

Reverse(p) ==
    /\ state[p] # "absent"
    /\ reversed' = reversed \cup {p}
    /\ state' = IF state[p] \in {"held", "owed"} THEN [state EXCEPT ![p] = "void"] ELSE state
    /\ UNCHANGED moved

Next ==
    \/ \E S \in SUBSET Payouts : Hold(S)
    \/ \E p \in Payouts :
         \/ Create(p) \/ Unhold(p) \/ Claim(p) \/ Send(p) \/ Bounce(p)
         \/ Fail(p) \/ Settle(p) \/ SettleOutside(p) \/ Prove(p) \/ Reverse(p)

Spec == Init /\ [][Next]_obligationVars

=============================================================================

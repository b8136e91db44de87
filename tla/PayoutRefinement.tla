-------------------------- MODULE PayoutRefinement --------------------------
(***************************************************************************)
(* PayoutLedger implements PayoutObligation.                               *)
(***************************************************************************)
EXTENDS PayoutLedger

ObligationState(p) ==
    CASE payout[p].state = "NONE"                            -> "absent"
      [] payout[p].state = "ON_HOLD"                         -> "held"
      [] payout[p].state \in {"PAYABLE", "FAILED"}           -> "owed"
      [] payout[p].state \in {"PAYING", "CANCEL_PENDING"}    -> "inflight"
      [] payout[p].state = "SETTLED"                         -> "paid"
      [] payout[p].state = "PUBLISHED"                       -> "proved"
      [] payout[p].state = "CANCELLED"                       -> "void"

Obligations == INSTANCE PayoutObligation WITH
    state <- [p \in Payouts |-> ObligationState(p)],
    moved <- {p \in Payouts : \E n \in AttemptNumbers : Pays(p, n)},
    reversed <- {p \in Payouts : conversion[p] = "reversed"}

\* Every behaviour of the handlers, with their crashes, races and ambiguous answers, is a
\* behaviour of the obligations: a payout is paid only if its money was sent, is retried or
\* voided only if none left or may still leave, and a reversed one is never owed again.
ImplementsObligations == Obligations!Spec

=============================================================================

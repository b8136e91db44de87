----------------------------- MODULE RailContract -----------------------------
(***************************************************************************)
(* What execute_payout and the refresh may rely on when they talk to a     *)
(* payment rail, and what PayoutLedger assumes of its wallet: money moves   *)
(* for an attempt only while nobody was told that it did not, it moves at   *)
(* most once, and a definitive answer tells what really happened.           *)
(***************************************************************************)
EXTENDS Naturals

CONSTANTS
    Attempts, \* payment attempts
    Amount    \* the sats an attempt owes its affiliate

VARIABLES
    money,   \* what happened to the money of each attempt
    sats,    \* how much of it left
    answer,  \* what the payment call told execute_payout
    verdict  \* what a later lookup told the refresh

contractVars == <<money, sats, answer, verdict>>

Init ==
    /\ money = [a \in Attempts |-> "none"]
    /\ sats = [a \in Attempts |-> 0]
    /\ answer = [a \in Attempts |-> "none"]
    /\ verdict = [a \in Attempts |-> "none"]

\* The payment leaves, once, in full, for a caller that is still waiting.
Leaves(a) ==
    /\ money[a] = "none" /\ answer[a] = "none"
    /\ money' = [money EXCEPT ![a] = "inflight"]
    /\ sats' = [sats EXCEPT ![a] = Amount]
    /\ UNCHANGED <<answer, verdict>>

Ends(a) ==
    /\ money[a] = "inflight"
    /\ \E m \in {"settled", "failed"} : money' = [money EXCEPT ![a] = m]
    /\ UNCHANGED <<sats, answer, verdict>>

\* SUCCESS means delivered and FAILURE means never sent; only an ambiguous answer, an
\* exception or a dead caller leaves the question open.
Answers(a) ==
    /\ answer[a] = "none"
    /\ \E r \in {"SUCCESS", "FAILURE", "ambiguous", "raised", "lost"} :
         /\ r = "SUCCESS" => money[a] = "settled"
         /\ r = "FAILURE" => money[a] = "none"
         /\ answer' = [answer EXCEPT ![a] = r]
    /\ UNCHANGED <<money, sats, verdict>>

\* A lookup is asked of an open question, and settles it truthfully.
Resolves(a) ==
    /\ answer[a] \in {"ambiguous", "raised", "lost"} /\ verdict[a] = "none"
    /\ \E v \in {"SUCCESS", "FAILURE"} :
         /\ money[a] = IF v = "SUCCESS" THEN "settled" ELSE "failed"
         /\ verdict' = [verdict EXCEPT ![a] = v]
    /\ UNCHANGED <<money, sats, answer>>

Next == \E a \in Attempts : Leaves(a) \/ Ends(a) \/ Answers(a) \/ Resolves(a)

Spec == Init /\ [][Next]_contractVars

=============================================================================

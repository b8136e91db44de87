--------------------------- MODULE CampaignBudget ---------------------------
(***************************************************************************)
(* The budget row of one campaign (table campaign_budgets) and the ledger  *)
(* entries of its payouts (table ledger_entries), with the three movements *)
(* of app/main.py that change them.  Each operator below is the part of a  *)
(* database transaction that runs under the row lock taken by              *)
(* locked_campaign_budget, so it is an atomic piece of the action that     *)
(* calls it.                                                               *)
(*                                                                         *)
(* ledger[p][m] is the amount of the balanced debit/credit pair stored     *)
(* under the idempotency key "<p>:<m>"; 0 stands for "no such pair", which *)
(* is exact because record_ledger_transaction stores nothing for an amount *)
(* that is not positive.                                                   *)
(*                                                                         *)
(* The 409 raised when a counter would go below zero rolls the caller's    *)
(* transaction back, so here it is a guard.                                *)
(***************************************************************************)
EXTENDS Integers

CONSTANTS
    Payouts,        \* identities of the payouts the campaign can ever have
    DefaultBudget,  \* DEFAULT_CAMPAIGN_BUDGET_SATS
    Budgets         \* the caps an administrator may set

ASSUME BudgetAssumption ==
    /\ DefaultBudget \in Nat
    /\ Budgets \subseteq Nat

VARIABLES
    budget,         \* campaign_budgets.budget_sats
    committed,      \* campaign_budgets.committed_sats
    settled,        \* campaign_budgets.settled_sats
    ledger          \* ledger_entries, by payout and movement

budgetVars == <<budget, committed, settled, ledger>>
counterVars == <<committed, settled, ledger>>

Releases ==
    {"reversal_release", "reversal_fee_release",
     "inflight_reversal_release", "provider_reconciled_reversal_release"}

Movements == {"reserve", "commission_settled"} \cup Releases

BudgetTypeOK ==
    /\ budget \in Nat
    /\ committed \in Nat
    /\ settled \in Nat
    /\ ledger \in [Payouts -> [Movements -> Nat]]

BudgetInit ==
    /\ budget = DefaultBudget
    /\ committed = 0
    /\ settled = 0
    /\ ledger = [p \in Payouts |-> [m \in Movements |-> 0]]

(***************************************************************************)
(* One balanced pair per idempotency key; nothing for a zero amount.       *)
(***************************************************************************)
HasEntry(p, m) == ledger[p][m] > 0

RecordLedgerTransaction(p, m, amount) ==
    ledger' = IF HasEntry(p, m) THEN ledger
              ELSE [ledger EXCEPT ![p][m] = amount]

(***************************************************************************)
(* reserve_campaign_budget: idempotent per payout, refused (False) when    *)
(* the cap would be exceeded.                                              *)
(***************************************************************************)
MReservesPastTheCap(p, amount) ==
    HasEntry(p, "reserve") \/ committed + amount <= budget

CanReserve(p, amount) ==
    HasEntry(p, "reserve") \/ committed + settled + amount <= budget

ReserveCampaignBudget(p, amount) ==
    /\ CanReserve(p, amount)
    /\ committed' = IF HasEntry(p, "reserve") THEN committed ELSE committed + amount
    /\ RecordLedgerTransaction(p, "reserve", amount)
    /\ UNCHANGED <<budget, settled>>

(***************************************************************************)
(* settle_campaign_budget: moves the commission from committed to settled, *)
(* once per payout.                                                        *)
(***************************************************************************)
SettleCampaignBudget(p, amount) ==
    \/ /\ HasEntry(p, "commission_settled")
       /\ UNCHANGED budgetVars
    \/ /\ ~HasEntry(p, "commission_settled")
       /\ committed >= amount
       /\ committed' = committed - amount
       /\ settled' = settled + amount
       /\ RecordLedgerTransaction(p, "commission_settled", amount)
       /\ UNCHANGED budget

(***************************************************************************)
(* release_campaign_budget: hands a reservation back, once per payout and  *)
(* movement.                                                               *)
(***************************************************************************)
ReleaseCampaignBudget(p, amount, movement) ==
    \/ /\ amount = 0 \/ HasEntry(p, movement)
       /\ UNCHANGED budgetVars
    \/ /\ amount > 0 /\ ~HasEntry(p, movement)
       /\ committed >= amount
       /\ committed' = committed - amount
       /\ RecordLedgerTransaction(p, movement, amount)
       /\ UNCHANGED <<budget, settled>>

(***************************************************************************)
(* PUT /admin/campaigns/{id}/budget.                                       *)
(***************************************************************************)
SetCampaignBudget(b) ==
    /\ b >= committed + settled
    /\ budget' = b
    /\ UNCHANGED counterVars

=============================================================================

--------------------------- MODULE OrderInvariant ---------------------------
(***************************************************************************)
(* The inductive invariant that ties what a worker remembers of an order   *)
(* to the rows of that order.  It is checked by TLC here and proved to be  *)
(* inductive in OrderIntakeProofs.                                         *)
(***************************************************************************)
EXTENDS OrderIntake

\* A row names its attribution once there is one, and only then.
RowInv(o) ==
    /\ Rewarded(o) <=> reward[o].claim # None
    /\ o \in ShopifyOrders => (delivery[o].status = "none" <=> delivery[o].source = None)

\* A worker works for the attribution the delivery was stored with, is inside the
\* task's own steps for a Shopify order only, and marks processed what has an obligation.
JobInv(w) ==
    LET o == job[w].order
    IN job[w].step # "idle" =>
         /\ job[w].click \in Sources
         /\ o \in ShopifyOrders => job[w].click = delivery[o].source
         /\ job[w].step \notin {"lookup", "create"} => o \in ShopifyOrders
         /\ job[w].step = "reward" => job[w].click \in Claims
         /\ job[w].step = "processed" => Rewarded(o) \/ conversion[o] # None

\* Every part of the orders' safety, strong enough to be kept by each step.
OrderInv ==
    /\ TypeOK
    /\ \A o \in Orders : RowInv(o)
    /\ \A w \in Workers : JobInv(w)
    /\ OneRewardPerClaim
    /\ ArchivedOwesNothing
    /\ CreatorIsAlone
    /\ AckedIsStored
    /\ OneObligationPerOrder

=============================================================================

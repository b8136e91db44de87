--------------------------- MODULE MCOrderIntake ---------------------------
(***************************************************************************)
(* Instances of OrderIntake for TLC.                                       *)
(***************************************************************************)
EXTENDS OrderInvariant, TLC

Symmetry == Permutations(Orders) \cup Permutations(Claims) \cup Permutations(Workers)

\* When an order is attributed to a click, one buyer's claim is enough.
ClickBound ==
    (\E o \in Orders : delivery[o].source \in Clicks) =>
        \E c \in Claims : claim[c].status = "none"

=============================================================================

--------------------------- MODULE MCPayoutLedger ---------------------------
(***************************************************************************)
(* Instances of PayoutLedger for TLC.  Payouts and workers are symmetric   *)
(* in every formula of the specification; the permutations are used by     *)
(* the runs that check no liveness property.                               *)
(***************************************************************************)
EXTENDS PayoutInvariant, PayoutRefinement, TLC

Symmetry == Permutations(Payouts) \cup Permutations(Workers)

\* After a fault one request is served at a time.
FaultBound == faults = 0 \/ \E w \in Workers : job[w].step = "idle"

\* The hash a merchant attests may be the one of an invoice the rail has prepared.
InvoiceHashes == {InvoiceHash(p, 1) : p \in Payouts}

=============================================================================

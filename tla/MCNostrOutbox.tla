--------------------------- MODULE MCNostrOutbox ---------------------------
(***************************************************************************)
(* Instances of NostrOutbox.                                               *)
(***************************************************************************)
EXTENDS OutboxInvariant, TLC

WorkerSymmetry == Permutations(Workers)

\* A behaviour with a fault signs one event less.
FaultBound == faults = 0 \/ signed < MaxEvents

=============================================================================

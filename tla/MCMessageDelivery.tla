------------------------- MODULE MCMessageDelivery -------------------------
(* Instances of MessageDelivery for TLC. *)
EXTENDS MessageDelivery, TLC

\* Worker processes run the same code and share nothing but the stores.
WorkerSymmetry == Permutations(Workers)
============================================================================

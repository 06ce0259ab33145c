----------------------------- MODULE MCDelivery -----------------------------
(***************************************************************************)
(* Instances of Delivery for TLC: nothing tells bundles, branches or       *)
(* request threads apart but their names.                                  *)
(***************************************************************************)
EXTENDS Delivery, TLC

Alike == Permutations(BundleIds) \cup Permutations(Branches) \cup Permutations(Threads)
=============================================================================

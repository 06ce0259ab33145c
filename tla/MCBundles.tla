------------------------------ MODULE MCBundles ------------------------------
(***************************************************************************)
(* Instances of Bundles for TLC: the action sets the cfgs choose from.     *)
(* The last three are those that refute the statements at the end of       *)
(* Bundles.                                                                *)
(***************************************************************************)
EXTENDS Bundles, TLC

StakeActs == {"discard", "retry", "take-over", "release", "reopen"}
RetryActs == {"take-over", "verify", "accept", "reject", "retry", "discard-requests"}

VerifyActs == {"verify", "accept", "retry"}
LoneActs == {"retry"}
HandBackActs == {"retry", "take-over"}

Siblings == Permutations(BundleIds)
===============================================================================

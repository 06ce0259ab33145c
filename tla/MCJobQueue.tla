------------------------------ MODULE MCJobQueue ------------------------------
(***************************************************************************)
(* Instances of JobQueue for TLC: two triages of one origin, the patch job *)
(* one of them hands off to, and a verify job.                             *)
(***************************************************************************)
EXTENDS JobQueue

CONSTANTS t1, t2, p1, v1

KindOf ==
  [j \in Jobs |-> CASE j \in {t1, t2} -> "triage" [] j = p1 -> "patch" [] j = v1 -> "verify"]

OneOrigin == [j \in Jobs |-> "origin"]
===============================================================================

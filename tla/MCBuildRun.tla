------------------------------ MODULE MCBuildRun ------------------------------
(***************************************************************************)
(* Two builders of one target, one port, two runs.                         *)
(***************************************************************************)
EXTENDS BuildRun, TLC
===============================================================================

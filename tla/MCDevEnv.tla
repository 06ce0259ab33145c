------------------------------ MODULE MCDevEnv ------------------------------
(***************************************************************************)
(* One env, one shell, the runner's job and one create or rebase at a      *)
(* time; a destroy and one failure.                                        *)
(***************************************************************************)
EXTENDS DevEnv, TLC
=============================================================================

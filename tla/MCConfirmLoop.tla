---------------------------- MODULE MCConfirmLoop ----------------------------
(***************************************************************************)
(* Instances of ConfirmLoop for TLC: the action sets the cfgs choose       *)
(* from.  A configuration without a kind of action says what holds as long *)
(* as no operator takes it.  The last three are those that refute the      *)
(* statements at the end of ConfirmLoop.                                   *)
(***************************************************************************)
EXTENDS ConfirmLoop

AllActs == Action

AcceptOnly == {"accept"}
AcceptAndCancel == {"accept", "build", "cancel-build"}
AcceptAndReopen == {"accept", "reopen"}
===============================================================================

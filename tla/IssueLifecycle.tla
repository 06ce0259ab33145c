---------------------------- MODULE IssueLifecycle ----------------------------
(***************************************************************************)
(* What build-confirmed resolution promises, without generations, markers, *)
(* queues, retries or crashes: operators move an issue wherever they like, *)
(* except that accepting a fix cannot wake a muted issue; the build oracle *)
(* only settles an issue that is resolving, and resolves it only when the  *)
(* last Threshold verdicts were green.  A verdict is a rise of confirmed.  *)
(***************************************************************************)
EXTENDS Integers

CONSTANTS Issues, Threshold

VARIABLES
  state,      \* the stored resolution of each issue
  confirmed,  \* the newest build generation with a verdict
  streak      \* green verdicts since the last red one, counted up to Threshold

lifecycleVars == <<state, confirmed, streak>>

Init ==
  /\ state = [i \in Issues |-> "unresolved"]
  /\ confirmed = [i \in Issues |-> 0]
  /\ streak = [i \in Issues |-> 0]

Nominate(i) ==
  /\ state[i] # "muted"
  /\ state' = [state EXCEPT ![i] = "resolving"]
  /\ UNCHANGED <<confirmed, streak>>

\* Resolved, reopened or muted by an operator or a merge, or handed back
\* because its confirm build cannot run.
Move(i) ==
  /\ \E s \in {"unresolved", "resolved", "muted"} : state' = [state EXCEPT ![i] = s]
  /\ UNCHANGED <<confirmed, streak>>

Advance(i) ==
  /\ confirmed'[i] > confirmed[i]
  /\ confirmed' = [confirmed EXCEPT ![i] = confirmed'[i]]

Green(i) ==
  /\ Advance(i)
  /\ streak' = [streak EXCEPT ![i] = IF @ < Threshold THEN @ + 1 ELSE Threshold]
  /\ \/ UNCHANGED state
     \/ /\ state[i] = "resolving" /\ streak'[i] = Threshold
        /\ state' = [state EXCEPT ![i] = "resolved"]

Red(i) ==
  /\ Advance(i)
  /\ streak' = [streak EXCEPT ![i] = 0]
  /\ state' = [state EXCEPT ![i] = IF @ = "resolving" THEN "unresolved" ELSE @]

Next == \E i \in Issues : Nominate(i) \/ Move(i) \/ Green(i) \/ Red(i)

Spec == Init /\ [][Next]_lifecycleVars
===============================================================================

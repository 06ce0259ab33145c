-------------------------- MODULE ConfirmLoopProofs --------------------------
(***************************************************************************)
(* Proofs about ConfirmLoop, for every set of issues, bundles and          *)
(* operators and every value of the thresholds and bounds.                 *)
(***************************************************************************)
EXTENDS ConfirmLoop, SequenceTheorems, TLAPS

USE DEF intent, pacing, lifecycle, queue, history, IssueState, Location

\* The runner has a job in its hands exactly where its code holds one.
JobInHand == job # NoJob <=> pc \in {"enqueue", "noenqueue", "build", "nobuild"}

LEMMA Knobs ==
  /\ Threshold \in Nat /\ Threshold >= 1 /\ MaxFailures \in Nat /\ MaxFailures >= 1
  /\ MaxCrashes \in Nat /\ MaxDbFaults \in Nat
  BY ConfirmLoopAssumption

LEMMA InitType == Init => TypeOK
<1> SUFFICES ASSUME Init PROVE TypeOK
  OBVIOUS
<1>1. /\ greens \in [Issues -> 0..(Threshold - 1)]
      /\ failures \in [Issues -> 0..(MaxFailures - 1)]
      /\ run \in [Issues -> 0..Threshold] /\ fresh \in [Issues -> 0..Threshold]
      /\ crashes \in 0..MaxCrashes /\ faults \in 0..MaxDbFaults
  BY Knobs DEF Init
<1>2. /\ state \in [Issues -> IssueState]
      /\ delivery \in [Issues -> Bundles \cup {NoBundle}]
      /\ requested \in [Issues -> Nat] /\ confirmed \in [Issues -> Nat]
      /\ building \in [Issues -> Nat]
  BY DEF Init
<1>3. /\ waiting \in [Issues -> BOOLEAN] /\ withdrawn \subseteq Issues
      /\ resolvedAt \in [Issues -> BOOLEAN] /\ past \in [Issues -> BOOLEAN]
      /\ req \in [Operators -> Request \cup {NoReq}]
  BY DEF Init
<1>4. pc \in Location /\ scan \subseteq Row /\ job \in Job \cup {NoJob}
  BY DEF Init
<1>5. pending \in Seq(Job)
  BY DEF Init
<1> QED
  BY <1>1, <1>2, <1>3, <1>4, <1>5 DEF TypeOK

LEMMA RemoveAtType ==
  ASSUME NEW S, NEW s \in Seq(S), NEW k \in 1..Len(s)
  PROVE  RemoveAt(s, k) \in Seq(S)
  BY DEF RemoveAt

LEMMA OpenType ==
  ASSUME TypeOK, NEW o \in Operators, NEW i \in Issues, NEW a \in Action,
         NEW b \in Bundles \cup {NoBundle}, OpenRequest(o, i, a, b)
  PROVE  TypeOK'
  BY DEF TypeOK, OpenRequest, Request

LEMMA CommitType ==
  ASSUME TypeOK, NEW o \in Operators, Commit(o)
  PROVE  TypeOK'
<1> USE DEF Requested, Done
<1>0. /\ req[o] \in Request /\ req[o].issue \in Issues
      /\ req[o].bundle \in Bundles \cup {NoBundle}
      /\ req' \in [Operators -> Request \cup {NoReq}]
  BY DEF TypeOK, Commit, Accept, Mute, Unmute, Resolve, Reopen, RequestBuild, CancelBuild,
         Request
<1>1. CASE Accept(o)
  <2>1. requested' \in [Issues -> Nat]
    <3>1. \/ requested' = [requested EXCEPT ![req[o].issue] = @ + 1]
          \/ UNCHANGED requested
      BY <1>1 DEF Accept
    <3> QED
      <4>1. CASE requested' = [requested EXCEPT ![req[o].issue] = @ + 1]
        BY <1>0, <4>1 DEF TypeOK
      <4>2. CASE UNCHANGED requested
        BY <4>2 DEF TypeOK
      <4> QED
        BY <3>1, <4>1, <4>2
  <2>4. withdrawn' \subseteq Issues
    BY <1>0, <1>1 DEF TypeOK, Accept
  <2>5. fresh' \in [Issues -> 0..Threshold]
    <3>1. \/ fresh' = [fresh EXCEPT ![req[o].issue] = 0]
          \/ fresh' = [fresh EXCEPT ![req[o].issue] = @]
          \/ UNCHANGED fresh
      BY <1>1 DEF Accept
    <3> QED
      <4>1. CASE fresh' = [fresh EXCEPT ![req[o].issue] = 0]
        BY <1>0, <4>1, Knobs DEF TypeOK
      <4>2. CASE fresh' = [fresh EXCEPT ![req[o].issue] = @]
        BY <1>0, <4>2, Knobs DEF TypeOK
      <4> QED
        BY <3>1, <4>1, <4>2 DEF TypeOK
  <2>2. /\ state' \in [Issues -> IssueState]
        /\ delivery' \in [Issues -> Bundles \cup {NoBundle}]
    BY <1>0, <1>1 DEF TypeOK, Accept
  <2>3. UNCHANGED <<confirmed, building, greens, pacing, resolvedAt, past, queue, crashes,
                    faults, run>>
    BY <1>1 DEF Accept
  <2> QED
    BY <1>0, <2>1, <2>2, <2>3, <2>4, <2>5 DEF TypeOK
<1>2. CASE Mute(o)
  BY <1>0, <1>2 DEF TypeOK, Mute
<1>3. CASE Unmute(o)
  BY <1>0, <1>3 DEF TypeOK, Unmute
<1>4. CASE Resolve(o)
  BY <1>0, <1>4 DEF TypeOK, Resolve, MarkResolved
<1>5. CASE Reopen(o)
  BY <1>0, <1>5 DEF TypeOK, Reopen, MarkUnresolved
<1>6. CASE RequestBuild(o)
  <2>1. requested' \in [Issues -> Nat]
    BY <1>0, <1>6 DEF TypeOK, RequestBuild
  <2>2. withdrawn' \subseteq Issues
    BY <1>6 DEF TypeOK, RequestBuild
  <2>3. UNCHANGED <<lifecycle, confirmed, building, greens, pacing, queue, crashes, faults,
                    run, fresh>>
    BY <1>6 DEF RequestBuild
  <2> QED
    BY <1>0, <2>1, <2>2, <2>3 DEF TypeOK
<1>7. CASE CancelBuild(o)
  BY <1>0, <1>7 DEF TypeOK, CancelBuild
<1> QED
  BY <1>1, <1>2, <1>3, <1>4, <1>5, <1>6, <1>7 DEF Commit

LEMMA WorldType ==
  ASSUME TypeOK, NEW i \in Issues, Merge(i) \/ Recur(i) \/ Elapse(i)
  PROVE  TypeOK'
<1>1. CASE Merge(i)
  BY <1>1 DEF TypeOK, Merge, MarkResolved
<1>2. CASE Recur(i)
  BY <1>2 DEF TypeOK, Recur
<1>3. CASE Elapse(i)
  BY <1>3 DEF TypeOK, Elapse
<1> QED
  BY <1>1, <1>2, <1>3

LEMMA LandType ==
  ASSUME TypeOK, NEW i \in Issues, NEW g \in Nat, Land(i, g)
  PROVE  /\ confirmed' \in [Issues -> Nat] /\ building' \in [Issues -> Nat]
         /\ failures' \in [Issues -> 0..(MaxFailures - 1)]
         /\ waiting' \in [Issues -> BOOLEAN]
  BY Knobs DEF TypeOK, Land

LEMMA GreenType ==
  ASSUME TypeOK, NEW i \in Issues, GreenSeen(i)
  PROVE  run' \in [Issues -> 0..Threshold] /\ fresh' \in [Issues -> 0..Threshold]
  BY Knobs DEF TypeOK, GreenSeen, AtMost

LEMMA SettleType ==
  ASSUME TypeOK, NEW i \in Issues,
         MarkResolved(i) \/ MarkUnresolved(i) \/ UNCHANGED lifecycle
  PROVE  /\ state' \in [Issues -> IssueState]
         /\ delivery' \in [Issues -> Bundles \cup {NoBundle}]
         /\ resolvedAt' \in [Issues -> BOOLEAN] /\ past' \in [Issues -> BOOLEAN]
  BY DEF TypeOK, MarkResolved, MarkUnresolved

LEMMA BoundType ==
  ASSUME TypeOK
  PROVE  /\ DbFault => faults' \in 0..MaxDbFaults
         /\ Crash => crashes' \in 0..MaxCrashes
  BY Knobs DEF TypeOK, DbFault, Crash

LEMMA CountType ==
  ASSUME TypeOK, NEW i \in Issues, CountFailure(i)
  PROVE  /\ building' \in [Issues -> Nat]
         /\ failures' \in [Issues -> 0..(MaxFailures - 1)]
         /\ waiting' \in [Issues -> BOOLEAN]
<1>1. building' \in [Issues -> Nat]
  BY DEF TypeOK, CountFailure
<1>2. failures' \in [Issues -> 0..(MaxFailures - 1)]
  <2>1. CASE failures[i] + 1 >= MaxFailures
    <3>1. failures' = [failures EXCEPT ![i] = 0]
      BY <2>1 DEF CountFailure
    <3> QED
      BY <3>1, Knobs DEF TypeOK
  <2>2. CASE ~(failures[i] + 1 >= MaxFailures)
    <3>1. failures' = [failures EXCEPT ![i] = @ + 1]
      BY <2>2 DEF CountFailure
    <3> QED
      BY <2>2, <3>1, Knobs DEF TypeOK
  <2> QED
    BY <2>1, <2>2
<1>3. waiting' \in [Issues -> BOOLEAN]
  BY DEF TypeOK, CountFailure
<1> QED
  BY <1>1, <1>2, <1>3

LEMMA JobType ==
  ASSUME TypeOK, JobInHand, pc \in {"enqueue", "noenqueue", "build", "nobuild"}
  PROVE  job \in Job /\ job.issue \in Issues /\ job.gen \in Nat
  BY DEF TypeOK, JobInHand, Job

LEMMA RunnerType ==
  ASSUME TypeOK, JobInHand, Runner
  PROVE  TypeOK'
<1>1. CASE Start
  BY <1>1 DEF TypeOK, Start
<1>2. CASE DiscardQueued
  BY <1>2 DEF TypeOK, DiscardQueued
<1>3. CASE ClearMarkers
  <2>1. building' \in [Issues -> Nat] /\ faults' \in 0..MaxDbFaults
    <3>1. CASE building' = [i \in Issues |-> 0] /\ UNCHANGED faults
      BY <3>1 DEF TypeOK
    <3>2. CASE DbFault /\ UNCHANGED building
      BY <3>2, BoundType DEF TypeOK
    <3> QED
      BY <1>3, <3>1, <3>2 DEF ClearMarkers
  <2> QED
    BY <1>3, <2>1 DEF TypeOK, ClearMarkers
<1>4. CASE ReadFeed
  BY <1>4 DEF TypeOK, ReadFeed, Row
<1>5. CASE Enqueue
  <2>1. /\ pc = "enqueue" /\ pending' = Append(pending, job) /\ job' = NoJob
        /\ pc' = "scan"
        /\ UNCHANGED <<lifecycle, intent, building, greens, pacing, scan, req, crashes,
                       faults, history>>
    BY <1>5 DEF Enqueue
  <2>2. pending' \in Seq(Job)
    BY <2>1, JobType DEF TypeOK
  <2> QED
    BY <2>1, <2>2 DEF TypeOK
<1>6. CASE ScanDone
  BY <1>6 DEF TypeOK, ScanDone
<1>7. ASSUME NEW r \in scan, SkipRow(r) PROVE TypeOK'
  BY <1>7 DEF TypeOK, SkipRow
<1>8. ASSUME NEW r \in scan, ClaimBuild(r) PROVE TypeOK'
  BY <1>8 DEF TypeOK, ClaimBuild, Row, Job
<1>9. ASSUME NEW k \in 1..Len(pending), StartBuild(k) PROVE TypeOK'
  BY <1>9, RemoveAtType DEF TypeOK, StartBuild
<1>10. CASE OtherWork
  BY <1>10 DEF TypeOK, OtherWork
<1>11. CASE Raise
  BY <1>11 DEF TypeOK, Raise
<1>12. CASE VerdictLost
  BY <1>12, BoundType DEF TypeOK, VerdictLost
<1>13. CASE RecordFailure
  <2>1. pc \in {"noenqueue", "nobuild"} /\ job.issue \in Issues
    BY <1>13, JobType DEF RecordFailure
  <2>2. CASE CountFailure(job.issue) /\ UNCHANGED faults
    <3>1. \/ MarkUnresolved(job.issue)
          \/ UNCHANGED lifecycle
      BY <2>2 DEF CountFailure
    <3> QED
      BY <1>13, <2>1, <2>2, <3>1, CountType, SettleType DEF TypeOK, RecordFailure
  <2>3. CASE DbFault /\ UNCHANGED <<building, pacing, lifecycle>>
    BY <1>13, <2>3, BoundType DEF TypeOK, RecordFailure
  <2> QED
    BY <1>13, <2>2, <2>3 DEF RecordFailure
<1>14. CASE StaleVerdict
  BY <1>14 DEF TypeOK, StaleVerdict, BuildEnds
<1>15. CASE ProvisionalGreen
  <2>1. Land(job.issue, job.gen) /\ GreenSeen(job.issue) /\ BuildEnds
    BY <1>15 DEF ProvisionalGreen
  <2>2. job.issue \in Issues /\ job.gen \in Nat
    BY <2>1, JobType DEF BuildEnds
  <2>3. greens' \in [Issues -> 0..(Threshold - 1)]
    <3>1. /\ greens[job.issue] + 1 < Threshold
          /\ greens' = [greens EXCEPT ![job.issue] = @ + 1]
      BY <1>15 DEF ProvisionalGreen
    <3> QED
      BY <2>2, <3>1, Knobs DEF TypeOK
  <2>4. requested' \in [Issues -> Nat]
    BY <1>15, <2>2 DEF TypeOK, ProvisionalGreen
  <2>5. UNCHANGED <<lifecycle, pending, scan, req, crashes, faults>>
    BY <1>15 DEF ProvisionalGreen
  <2> QED
    BY <2>1, <2>2, <2>3, <2>4, <2>5, LandType, GreenType DEF TypeOK, BuildEnds
<1>16. CASE ConfirmingGreen
  <2>1. Land(job.issue, job.gen) /\ GreenSeen(job.issue) /\ BuildEnds
    BY <1>16 DEF ConfirmingGreen
  <2>2. job.issue \in Issues /\ job.gen \in Nat
    BY <2>1, JobType DEF BuildEnds
  <2>3. MarkResolved(job.issue) \/ UNCHANGED lifecycle
    BY <1>16 DEF ConfirmingGreen, ResolveConfirmed
  <2>4. greens' \in [Issues -> 0..(Threshold - 1)]
    <3>1. greens' = [greens EXCEPT ![job.issue] = 0]
      BY <1>16 DEF ConfirmingGreen
    <3> QED
      BY <2>2, <3>1, Knobs DEF TypeOK
  <2>5. UNCHANGED <<requested, pending, scan, req, crashes, faults>>
    BY <1>16 DEF ConfirmingGreen
  <2> QED
    BY <2>1, <2>2, <2>3, <2>4, <2>5, LandType, GreenType, SettleType DEF TypeOK, BuildEnds
<1>17. CASE Red
  <2>1. Land(job.issue, job.gen) /\ BuildEnds
    BY <1>17 DEF Red
  <2>2. job.issue \in Issues /\ job.gen \in Nat
    BY <2>1, JobType DEF BuildEnds
  <2>3. MarkUnresolved(job.issue) \/ UNCHANGED lifecycle
    BY <1>17 DEF Red, ReopenFailed
  <2>4. /\ greens' \in [Issues -> 0..(Threshold - 1)]
        /\ run' \in [Issues -> 0..Threshold] /\ fresh' = fresh
    <3>1. /\ greens \in [Issues -> 0..(Threshold - 1)] /\ run \in [Issues -> 0..Threshold]
      BY DEF TypeOK
    <3>2. /\ greens' = [greens EXCEPT ![job.issue] = 0]
          /\ run' = [run EXCEPT ![job.issue] = 0] /\ fresh' = fresh
      BY <1>17 DEF Red
    <3> QED
      BY <2>2, <3>1, <3>2, Knobs
  <2>5. UNCHANGED <<requested, pending, scan, req, crashes, faults>>
    BY <1>17 DEF Red
  <2> QED
    BY <2>1, <2>2, <2>3, <2>4, <2>5, LandType, SettleType DEF TypeOK, BuildEnds
<1> QED
  BY <1>1, <1>2, <1>3, <1>4, <1>5, <1>6, <1>7, <1>8, <1>9, <1>10, <1>11, <1>12, <1>13,
     <1>14, <1>15, <1>16, <1>17 DEF Runner

LEMMA HandStep == TypeOK /\ JobInHand /\ [Next]_vars => JobInHand'
<1> SUFFICES ASSUME TypeOK, JobInHand, [Next]_vars PROVE JobInHand'
  OBVIOUS
<1> USE ConfirmLoopAssumption DEF JobInHand
<1>1. CASE Runner
  <2>1. ASSUME NEW r \in scan, ClaimBuild(r) PROVE JobInHand'
    <3>1. r \in Job
      BY <2>1 DEF TypeOK, ClaimBuild, Row, Job
    <3> QED
      BY <2>1, <3>1 DEF ClaimBuild, Job
  <2>2. ASSUME NEW k \in 1..Len(pending), StartBuild(k) PROVE JobInHand'
    <3>1. pending[k] \in Job
      BY DEF TypeOK
    <3> QED
      BY <2>2, <3>1 DEF StartBuild, Job
  <2> QED
    BY <1>1, <2>1, <2>2
    DEF Runner, Start, DiscardQueued, ClearMarkers, ReadFeed, Enqueue, ScanDone, SkipRow,
        OtherWork, Raise, VerdictLost, RecordFailure, StaleVerdict, ProvisionalGreen,
        ConfirmingGreen, Red, BuildEnds
<1>2. CASE Tracker
  BY <1>2 DEF Tracker, OpenRequest, Commit, Accept, Mute, Unmute, Resolve, Reopen,
              RequestBuild, CancelBuild
<1>3. CASE World
  BY <1>3 DEF World, Merge, Recur, Elapse
<1>4. CASE Crash
  BY <1>4 DEF Crash
<1>5. CASE UNCHANGED vars
  BY <1>5 DEF vars
<1> QED
  BY <1>1, <1>2, <1>3, <1>4, <1>5 DEF Next

LEMMA TypeStep == TypeOK /\ JobInHand /\ [Next]_vars => TypeOK'
<1> SUFFICES ASSUME TypeOK, JobInHand, [Next]_vars PROVE TypeOK'
  OBVIOUS
<1>1. CASE Runner
  BY <1>1, RunnerType
<1>2. CASE Tracker
  BY <1>2, OpenType, CommitType DEF Tracker
<1>3. CASE World
  BY <1>3, WorldType DEF World
<1>4. CASE Crash
  BY <1>4, BoundType DEF TypeOK, Crash
<1>5. CASE UNCHANGED vars
  BY <1>5 DEF TypeOK, vars
<1> QED
  BY <1>1, <1>2, <1>3, <1>4, <1>5 DEF Next

\* Every column of every issue keeps its type, and neither tally ever rests at
\* the bound that should have reset it.
THEOREM TypeCorrect == Spec => []TypeOK
<1>1. Init => JobInHand
  BY DEF Init, JobInHand
<1> QED
  BY <1>1, InitType, TypeStep, HandStep, PTL DEF Spec

(***************************************************************************)
(* Verdicts.  Only the end of a build moves the confirmed generation.      *)
(***************************************************************************)
LEMMA OnlyVerdictsConfirm ==
  ASSUME [Next]_vars
  PROVE  \/ UNCHANGED confirmed
         \/ pc = "build" /\ Land(job.issue, job.gen)
<1>1. CASE Runner
  BY <1>1
  DEF Runner, Start, DiscardQueued, ClearMarkers, ReadFeed, Enqueue, ScanDone, SkipRow,
      ClaimBuild, StartBuild, OtherWork, Raise, VerdictLost, RecordFailure, StaleVerdict,
      ProvisionalGreen, ConfirmingGreen, Red, BuildEnds
<1>2. CASE Tracker
  BY <1>2 DEF Tracker, OpenRequest, Commit, Accept, Mute, Unmute, Resolve, Reopen,
              RequestBuild, CancelBuild
<1>3. CASE World
  BY <1>3 DEF World, Merge, Recur, Elapse
<1>4. CASE Crash
  BY <1>4 DEF Crash
<1>5. CASE UNCHANGED vars
  BY <1>5 DEF vars
<1> QED
  BY <1>1, <1>2, <1>3, <1>4, <1>5 DEF Next

LEMMA InvariantHand == Spec => [](TypeOK /\ JobInHand)
<1>1. Init => JobInHand
  BY DEF Init, JobInHand
<1> QED
  BY <1>1, InitType, TypeStep, HandStep, PTL DEF Spec

\* However many jobs of one issue are queued, and in whatever order they were
\* claimed, the confirmed generation of an issue never walks backwards.
THEOREM MonotoneConfirmed == Spec => ConfirmedMonotone
<1>1. ASSUME TypeOK, JobInHand, [Next]_vars
      PROVE  [\A i \in Issues : confirmed'[i] >= confirmed[i]]_vars
  <2>1. confirmed \in [Issues -> Nat]
    BY <1>1 DEF TypeOK
  <2>2. CASE UNCHANGED confirmed
    BY <2>1, <2>2
  <2>3. CASE pc = "build" /\ Land(job.issue, job.gen)
    <3>1. job.issue \in Issues /\ job.gen \in Nat
      BY <1>1, <2>3, JobType
    <3>2. /\ job.gen > confirmed[job.issue]
          /\ confirmed' = [confirmed EXCEPT ![job.issue] = job.gen]
      BY <2>3 DEF Land
    <3> QED
      BY <2>1, <3>1, <3>2
  <2> QED
    BY <1>1, <2>2, <2>3, OnlyVerdictsConfirm
<1> QED
  BY <1>1, InvariantHand, PTL DEF Spec, ConfirmedMonotone

(***************************************************************************)
(* Refinement.  The green tally never counts more than the verdicts since  *)
(* the last red one, so that the tally that resolves is a streak.          *)
(***************************************************************************)
GreensCounted == \A i \in Issues : greens[i] <= run[i]

LEMMA CountedStep ==
  ASSUME TypeOK, JobInHand, GreensCounted, [Next]_vars
  PROVE  GreensCounted'
<1>0. greens \in [Issues -> 0..(Threshold - 1)] /\ run \in [Issues -> 0..Threshold]
  BY DEF TypeOK
<1>1. CASE UNCHANGED <<greens, run>>
  BY <1>1 DEF GreensCounted
<1>2. CASE ProvisionalGreen
  <2>1. job.issue \in Issues
    BY <1>2, JobType DEF ProvisionalGreen, BuildEnds
  <2>2. /\ greens[job.issue] + 1 < Threshold
        /\ greens' = [greens EXCEPT ![job.issue] = @ + 1]
        /\ run' = [run EXCEPT ![job.issue] = AtMost(@ + 1)]
    BY <1>2 DEF ProvisionalGreen, GreenSeen
  <2> QED
    BY <1>0, <2>1, <2>2, Knobs DEF GreensCounted, AtMost
<1>3. CASE ConfirmingGreen
  <2>1. job.issue \in Issues
    BY <1>3, JobType DEF ConfirmingGreen, BuildEnds
  <2>2. /\ greens' = [greens EXCEPT ![job.issue] = 0]
        /\ run' = [run EXCEPT ![job.issue] = AtMost(@ + 1)]
    BY <1>3 DEF ConfirmingGreen, GreenSeen
  <2> QED
    BY <1>0, <2>1, <2>2, Knobs DEF GreensCounted, AtMost
<1>4. CASE Red
  <2>1. job.issue \in Issues
    BY <1>4, JobType DEF Red, BuildEnds
  <2>2. /\ greens' = [greens EXCEPT ![job.issue] = 0]
        /\ run' = [run EXCEPT ![job.issue] = 0]
    BY <1>4 DEF Red
  <2> QED
    BY <1>0, <2>1, <2>2 DEF GreensCounted
<1>5. CASE Runner
  BY <1>1, <1>2, <1>3, <1>4, <1>5
  DEF Runner, Start, DiscardQueued, ClearMarkers, ReadFeed, Enqueue, ScanDone, SkipRow,
      ClaimBuild, StartBuild, OtherWork, Raise, VerdictLost, RecordFailure, StaleVerdict
<1>6. CASE Tracker
  BY <1>1, <1>6 DEF Tracker, OpenRequest, Commit, Accept, Mute, Unmute, Resolve, Reopen,
                    RequestBuild, CancelBuild
<1>7. CASE World \/ Crash \/ UNCHANGED vars
  BY <1>1, <1>7 DEF World, Merge, Recur, Elapse, Crash, vars
<1> QED
  BY <1>5, <1>6, <1>7 DEF Next

LEMMA InvariantCounted == Spec => [](TypeOK /\ JobInHand /\ GreensCounted)
<1>1. Init => GreensCounted
  BY DEF Init, GreensCounted
<1> QED
  BY <1>1, InvariantHand, CountedStep, PTL DEF Spec

LEMMA MoveStep ==
  ASSUME NEW i \in Issues, UNCHANGED <<confirmed, run>>,
         NEW s \in {"unresolved", "resolved", "muted"},
         state' = [state EXCEPT ![i] = s]
  PROVE  Lifecycle!Next
  BY DEF Lifecycle!Next, Lifecycle!Move

LEMMA CommitRefines ==
  ASSUME TypeOK, NEW o \in Operators, Commit(o)
  PROVE  Lifecycle!Next \/ UNCHANGED <<state, confirmed, run>>
<1>0. req[o].issue \in Issues /\ UNCHANGED <<confirmed, run>>
  BY DEF TypeOK, Commit, Accept, Mute, Unmute, Resolve, Reopen, RequestBuild, CancelBuild,
         Request, Requested
<1>1. CASE Accept(o)
  <2>1. \/ UNCHANGED state
        \/ /\ state[req[o].issue] # "muted"
           /\ state' = [state EXCEPT ![req[o].issue] = "resolving"]
    BY <1>1 DEF Accept, Nominable
  <2> QED
    BY <1>0, <2>1 DEF Lifecycle!Next, Lifecycle!Nominate
<1>2. CASE Mute(o)
  BY <1>0, <1>2, MoveStep DEF Mute
<1>3. CASE Unmute(o)
  <2>1. \/ state' = [state EXCEPT ![req[o].issue] = "resolved"]
        \/ state' = [state EXCEPT ![req[o].issue] = "unresolved"]
    BY <1>3 DEF Unmute
  <2> QED
    BY <1>0, <2>1, MoveStep
<1>4. CASE Resolve(o)
  BY <1>0, <1>4, MoveStep DEF Resolve, MarkResolved
<1>5. CASE Reopen(o)
  BY <1>0, <1>5, MoveStep DEF Reopen, MarkUnresolved
<1>6. CASE RequestBuild(o) \/ CancelBuild(o)
  BY <1>6 DEF RequestBuild, CancelBuild
<1> QED
  BY <1>1, <1>2, <1>3, <1>4, <1>5, <1>6 DEF Commit

LEMMA LandAdvances ==
  ASSUME TypeOK, JobInHand, pc = "build", Land(job.issue, job.gen)
  PROVE  job.issue \in Issues /\ Lifecycle!Advance(job.issue)
<1>1. job.issue \in Issues /\ job.gen \in Nat
  BY JobType
<1>2. /\ confirmed \in [Issues -> Nat] /\ job.gen > confirmed[job.issue]
      /\ confirmed' = [confirmed EXCEPT ![job.issue] = job.gen]
  BY DEF TypeOK, Land
<1>3. confirmed'[job.issue] = job.gen
  BY <1>1, <1>2
<1> QED
  BY <1>1, <1>2, <1>3 DEF Lifecycle!Advance

LEMMA SeenStreak ==
  ASSUME TypeOK, NEW i \in Issues, GreenSeen(i)
  PROVE  /\ run' = [run EXCEPT ![i] = IF @ < Threshold THEN @ + 1 ELSE Threshold]
         /\ run'[i] = Threshold <=> run[i] + 1 >= Threshold
<1>1. run \in [Issues -> 0..Threshold] /\ run' = [run EXCEPT ![i] = AtMost(@ + 1)]
  BY DEF TypeOK, GreenSeen
<1>2. run[i] \in 0..Threshold
  BY <1>1
<1>3. AtMost(run[i] + 1) = IF run[i] < Threshold THEN run[i] + 1 ELSE Threshold
  BY <1>2, Knobs DEF AtMost
<1>4. run' = [run EXCEPT ![i] = IF @ < Threshold THEN @ + 1 ELSE Threshold]
  BY <1>1, <1>3
<1>5. run'[i] = IF run[i] < Threshold THEN run[i] + 1 ELSE Threshold
  BY <1>1, <1>4
<1> QED
  BY <1>2, <1>4, <1>5, Knobs

LEMMA RunnerRefines ==
  ASSUME TypeOK, JobInHand, GreensCounted, Runner
  PROVE  Lifecycle!Next \/ UNCHANGED <<state, confirmed, run>>
<1>1. CASE RecordFailure
  <2>1. job.issue \in Issues /\ UNCHANGED <<confirmed, run>>
    BY <1>1, JobType DEF RecordFailure
  <2>2. \/ UNCHANGED state
        \/ state' = [state EXCEPT ![job.issue] = "unresolved"]
    BY <1>1 DEF RecordFailure, CountFailure, MarkUnresolved
  <2> QED
    BY <2>1, <2>2, MoveStep
<1>2. CASE ProvisionalGreen
  <2>1. /\ pc = "build" /\ Land(job.issue, job.gen) /\ GreenSeen(job.issue)
        /\ UNCHANGED state
    BY <1>2 DEF ProvisionalGreen, BuildEnds
  <2> QED
    BY <2>1, LandAdvances, SeenStreak DEF Lifecycle!Next, Lifecycle!Green
<1>3. CASE ConfirmingGreen
  <2>1. /\ pc = "build" /\ Land(job.issue, job.gen) /\ GreenSeen(job.issue)
        /\ greens[job.issue] + 1 >= Threshold
    BY <1>3 DEF ConfirmingGreen, BuildEnds
  <2>2. job.issue \in Issues /\ Lifecycle!Advance(job.issue)
    BY <2>1, LandAdvances
  <2>3. run'[job.issue] = Threshold
    <3>1. run[job.issue] + 1 >= Threshold
      BY <2>1, <2>2, Knobs DEF GreensCounted, TypeOK
    <3> QED
      BY <2>1, <2>2, <3>1, SeenStreak
  <2>4. \/ UNCHANGED state
        \/ /\ state[job.issue] = "resolving"
           /\ state' = [state EXCEPT ![job.issue] = "resolved"]
    BY <1>3 DEF ConfirmingGreen, ResolveConfirmed, MarkResolved
  <2>5. Lifecycle!Green(job.issue)
    BY <2>1, <2>2, <2>3, <2>4, SeenStreak DEF Lifecycle!Green
  <2> QED
    BY <2>2, <2>5 DEF Lifecycle!Next
<1>4. CASE Red
  <2>1. /\ pc = "build" /\ Land(job.issue, job.gen)
        /\ run' = [run EXCEPT ![job.issue] = 0]
    BY <1>4 DEF Red, BuildEnds
  <2>2. job.issue \in Issues /\ Lifecycle!Advance(job.issue)
    BY <2>1, LandAdvances
  <2>3. state' = [state EXCEPT ![job.issue] = IF @ = "resolving" THEN "unresolved" ELSE @]
    <3>1. CASE state[job.issue] = "resolving"
      BY <1>4, <3>1 DEF Red, ReopenFailed, MarkUnresolved
    <3>2. CASE state[job.issue] # "resolving"
      <4>1. UNCHANGED state
        BY <1>4, <3>2 DEF Red, ReopenFailed
      <4> QED
        BY <2>2, <3>2, <4>1 DEF TypeOK
    <3> QED
      BY <3>1, <3>2
  <2>4. Lifecycle!Red(job.issue)
    BY <2>1, <2>2, <2>3 DEF Lifecycle!Red
  <2> QED
    BY <2>2, <2>4 DEF Lifecycle!Next
<1> QED
  BY <1>1, <1>2, <1>3, <1>4
  DEF Runner, Start, DiscardQueued, ClearMarkers, ReadFeed, Enqueue, ScanDone, SkipRow,
      ClaimBuild, StartBuild, OtherWork, Raise, VerdictLost, StaleVerdict

LEMMA StepRefines ==
  ASSUME TypeOK, JobInHand, GreensCounted, [Next]_vars
  PROVE  Lifecycle!Next \/ UNCHANGED <<state, confirmed, run>>
<1>1. CASE Tracker
  BY <1>1, CommitRefines DEF Tracker, OpenRequest
<1>2. CASE World
  <2>1. PICK i \in Issues : Merge(i) \/ Recur(i) \/ Elapse(i)
    BY <1>2 DEF World
  <2>2. CASE Merge(i)
    BY <2>2, MoveStep DEF Merge, MarkResolved
  <2> QED
    BY <2>1, <2>2 DEF Recur, Elapse
<1>3. CASE Crash \/ UNCHANGED vars
  BY <1>3 DEF Crash, vars
<1> QED
  BY <1>1, <1>2, <1>3, RunnerRefines DEF Next

\* For every number of issues, operators, retries and crashes, whatever the
\* confirm loop does to an issue is a step of its lifecycle: a build settles an
\* issue only from resolving and resolves it only on a streak of greens.
THEOREM ImplementsLifecycle == Spec => RefinesLifecycle
<1>1. Init => Lifecycle!Init
  BY DEF Init, Lifecycle!Init
<1>2. TypeOK /\ JobInHand /\ GreensCounted /\ [Next]_vars
        => [Lifecycle!Next]_(Lifecycle!lifecycleVars)
  BY StepRefines DEF Lifecycle!lifecycleVars
<1> QED
  BY <1>1, <1>2, InvariantCounted, PTL DEF Spec, RefinesLifecycle, Lifecycle!Spec

(***************************************************************************)
(* Markers.  A row of the feed is ahead of what is confirmed when it is    *)
(* claimed, because the runner records no verdict during a pass.           *)
(***************************************************************************)
ScanFresh ==
  /\ scan # {} => pc \in {"scan", "enqueue", "noenqueue"}
  /\ \A r \in scan : r.gen > confirmed[r.issue]

MarkerAhead == \A i \in Issues : building[i] # 0 => building[i] > confirmed[i]

Queued(i, g) == \E k \in 1..Len(pending) : pending[k].issue = i /\ pending[k].gen = g
InHand(i, g) == job # NoJob /\ job.issue = i /\ job.gen = g

MarkerBacked ==
  pc \notin {"down", "recover"} /\ faults = 0 =>
    \A i \in Issues : building[i] # 0 => Queued(i, building[i]) \/ InHand(i, building[i])

LEMMA FreshStep ==
  ASSUME TypeOK, JobInHand, ScanFresh, [Next]_vars
  PROVE  ScanFresh'
<1>1. CASE ReadFeed
  BY <1>1 DEF ReadFeed, ScanFresh, NeedsBuild, TypeOK
<1>2. ASSUME NEW r \in scan, SkipRow(r) \/ ClaimBuild(r) PROVE ScanFresh'
  BY <1>2 DEF SkipRow, ClaimBuild, ScanFresh
<1>3. CASE Crash
  BY <1>3 DEF Crash, ScanFresh
<1>4. CASE StaleVerdict \/ ProvisionalGreen \/ ConfirmingGreen \/ Red
  BY <1>4 DEF StaleVerdict, ProvisionalGreen, ConfirmingGreen, Red, BuildEnds, ScanFresh
<1>5. CASE Runner
  BY <1>1, <1>2, <1>4, <1>5
  DEF Runner, Start, DiscardQueued, ClearMarkers, Enqueue, ScanDone, StartBuild, OtherWork,
      Raise, VerdictLost, RecordFailure, ScanFresh
<1>6. CASE Tracker
  BY <1>6 DEF Tracker, OpenRequest, Commit, Accept, Mute, Unmute, Resolve, Reopen,
              RequestBuild, CancelBuild, ScanFresh
<1>7. CASE World \/ UNCHANGED vars
  BY <1>7 DEF World, Merge, Recur, Elapse, vars, ScanFresh
<1> QED
  BY <1>3, <1>5, <1>6, <1>7 DEF Next

LEMMA LandMarker ==
  ASSUME TypeOK, NEW g \in Nat, NEW i \in Issues, Land(i, g), NEW k \in Issues,
         building'[k] # 0
  PROVE  /\ building'[k] = building[k]
         /\ k # i => confirmed'[k] = confirmed[k]
         /\ k = i => building[k] > g /\ confirmed'[k] = g
  BY DEF TypeOK, Land

LEMMA AheadStep ==
  ASSUME TypeOK, JobInHand, ScanFresh, MarkerAhead, [Next]_vars
  PROVE  MarkerAhead'
<1>1. CASE UNCHANGED confirmed
  <2> SUFFICES ASSUME NEW i \in Issues, building'[i] # 0 PROVE building'[i] > confirmed[i]
    BY <1>1 DEF MarkerAhead
  <2>1. CASE building'[i] = building[i]
    BY <2>1 DEF MarkerAhead
  <2>2. ASSUME NEW r \in scan, ClaimBuild(r) PROVE building'[i] > confirmed[i]
    <3>1. r.issue \in Issues /\ r.gen > confirmed[r.issue]
          /\ building' = [building EXCEPT ![r.issue] = r.gen]
      BY <2>2 DEF TypeOK, Row, ScanFresh, ClaimBuild
    <3> QED
      BY <2>1, <3>1 DEF TypeOK
  <2>3. CASE \E k : building' = [building EXCEPT ![k] = 0]
    BY <2>1, <2>3 DEF TypeOK
  <2>4. CASE Runner
    <3>1. CASE RecordFailure
      BY <2>1, <2>3, <3>1 DEF RecordFailure, CountFailure
    <3>2. CASE ClearMarkers
      BY <2>1, <3>2 DEF ClearMarkers
    <3>3. CASE ProvisionalGreen \/ ConfirmingGreen \/ Red
      <4>1. Land(job.issue, job.gen) /\ pc = "build"
        BY <3>3 DEF ProvisionalGreen, ConfirmingGreen, Red, BuildEnds
      <4> QED
        BY <2>1, <4>1, LandMarker, JobType
    <3> QED
      BY <2>1, <2>2, <2>4, <3>1, <3>2, <3>3
      DEF Runner, Start, DiscardQueued, ReadFeed, Enqueue, ScanDone, SkipRow, StartBuild,
          OtherWork, Raise, VerdictLost, StaleVerdict
  <2>5. CASE Tracker
    BY <2>1, <2>3, <2>5 DEF Tracker, OpenRequest, Commit, Accept, Mute, Unmute, Resolve,
                            Reopen, RequestBuild, CancelBuild
  <2>6. CASE World \/ Crash \/ UNCHANGED vars
    BY <2>1, <2>6 DEF World, Merge, Recur, Elapse, Crash, vars
  <2> QED
    BY <2>4, <2>5, <2>6 DEF Next
<1>2. CASE pc = "build" /\ Land(job.issue, job.gen)
  <2> SUFFICES ASSUME NEW i \in Issues, building'[i] # 0 PROVE building'[i] > confirmed'[i]
    BY DEF MarkerAhead
  <2>1. job.issue \in Issues /\ job.gen \in Nat
    BY <1>2, JobType
  <2> QED
    BY <1>2, <2>1, LandMarker DEF MarkerAhead
<1> QED
  BY <1>1, <1>2, OnlyVerdictsConfirm

LEMMA AppendKeeps ==
  ASSUME TypeOK, NEW j \in Job, pending' = Append(pending, j), NEW i, NEW g
  PROVE  /\ Queued(i, g) => Queued(i, g)'
         /\ j.issue = i /\ j.gen = g => Queued(i, g)'
<1>1. /\ pending \in Seq(Job) /\ Len(pending') = Len(pending) + 1
      /\ \A k \in 1..Len(pending) : pending'[k] = pending[k]
      /\ pending'[Len(pending) + 1] = j
  BY DEF TypeOK
<1>2. \A k \in 1..Len(pending) : k \in 1..Len(pending')
  BY <1>1
<1>3. Len(pending) + 1 \in 1..Len(pending')
  BY <1>1
<1> QED
  BY <1>1, <1>2, <1>3 DEF Queued

\* Removing one element of a sequence leaves every other one in it.
LEMMA RemoveAtOthers ==
  ASSUME NEW S, NEW s \in Seq(S), NEW k \in 1..Len(s), NEW m \in 1..Len(s), m # k
  PROVE  \E n \in 1..Len(RemoveAt(s, k)) : RemoveAt(s, k)[n] = s[m]
<1> DEFINE low == SubSeq(s, 1, k - 1)
           high == SubSeq(s, k + 1, Len(s))
<1>1. /\ low \in Seq(S) /\ Len(low) = k - 1
      /\ \A n \in 1..(k - 1) : low[n] = s[n]
  OBVIOUS
<1>2. /\ high \in Seq(S) /\ Len(high) = Len(s) - k
      /\ \A n \in 1..(Len(s) - k) : high[n] = s[k + n]
  OBVIOUS
<1>3. RemoveAt(s, k) = low \o high
  BY DEF RemoveAt
<1> HIDE DEF low, high
<1>4. /\ Len(low \o high) = Len(low) + Len(high)
      /\ \A n \in 1..(Len(low) + Len(high)) :
           (low \o high)[n] = IF n <= Len(low) THEN low[n] ELSE high[n - Len(low)]
  BY <1>1, <1>2, ConcatProperties
<1>5. CASE m < k
  <2>1. m \in 1..(k - 1) /\ m \in 1..(Len(low) + Len(high)) /\ m <= Len(low)
    BY <1>1, <1>2, <1>5
  <2>2. (low \o high)[m] = s[m]
    BY <1>1, <1>4, <2>1
  <2> QED
    BY <1>3, <1>4, <2>1, <2>2
<1>6. CASE m > k
  <2>1. /\ m - 1 \in 1..(Len(low) + Len(high)) /\ ~(m - 1 <= Len(low))
        /\ m - 1 - Len(low) = m - k /\ m - k \in 1..(Len(s) - k) /\ k + (m - k) = m
    BY <1>1, <1>2, <1>6
  <2>2. (low \o high)[m - 1] = high[m - 1 - Len(low)]
    BY <1>4, <2>1
  <2>3. high[m - k] = s[k + (m - k)]
    BY <1>2, <2>1
  <2>4. (low \o high)[m - 1] = s[m]
    BY <2>1, <2>2, <2>3
  <2> QED
    BY <1>3, <1>4, <2>1, <2>4
<1> QED
  BY <1>5, <1>6

LEMMA RemoveAtKeeps ==
  ASSUME TypeOK, NEW k \in 1..Len(pending), pending' = RemoveAt(pending, k), NEW i, NEW g,
         Queued(i, g), ~(pending[k].issue = i /\ pending[k].gen = g)
  PROVE  Queued(i, g)'
<1>1. PICK m \in 1..Len(pending) : pending[m].issue = i /\ pending[m].gen = g
  BY DEF Queued
<1>2. PICK n \in 1..Len(pending') : pending'[n] = pending[m]
  BY <1>1, RemoveAtOthers DEF TypeOK
<1> QED
  BY <1>1, <1>2 DEF Queued

LEMMA BackedStep ==
  ASSUME TypeOK, JobInHand, ScanFresh, MarkerAhead, MarkerBacked, [Next]_vars
  PROVE  MarkerBacked'
<1> SUFFICES ASSUME pc' \notin {"down", "recover"}, faults' = 0,
                    NEW i \in Issues, building'[i] # 0
             PROVE  Queued(i, building[i])' \/ InHand(i, building[i])'
  BY DEF MarkerBacked
<1> DEFINE Before == Queued(i, building[i]) \/ InHand(i, building[i])
           After == Queued(i, building[i])' \/ InHand(i, building[i])'
<1>1. CASE ClearMarkers
  BY <1>1 DEF ClearMarkers, DbFault, TypeOK
<1>2. pc \notin {"down", "recover"} /\ faults = 0 /\ building[i] # 0 => Before
  BY DEF MarkerBacked
<1> HIDE DEF Before, After
<1>3. ASSUME UNCHANGED <<pending, job, building>>, pc \notin {"down", "recover"}, faults = 0
      PROVE  After
  BY <1>2, <1>3 DEF Queued, InHand, Before, After
<1>4. ASSUME NEW r \in scan, ClaimBuild(r) PROVE After
  <2>1. /\ r \in Job /\ job' = r /\ pending' = pending /\ pc = "scan" /\ faults = 0
        /\ building' = [building EXCEPT ![r.issue] = r.gen] /\ job = NoJob
    BY <1>4 DEF ClaimBuild, TypeOK, Row, Job, JobInHand
  <2>2. CASE i = r.issue
    BY <2>1, <2>2, ConfirmLoopAssumption DEF InHand, After, TypeOK, Job
  <2>3. CASE i # r.issue
    <3>1. building'[i] = building[i]
      BY <2>1, <2>3 DEF TypeOK
    <3> QED
      BY <1>2, <2>1, <3>1 DEF Before, After, Queued, InHand
  <2> QED
    BY <2>2, <2>3
<1>5. CASE Enqueue
  <2>1. /\ job \in Job /\ pending' = Append(pending, job) /\ building' = building
        /\ pc = "enqueue" /\ faults = 0
    BY <1>5, JobType DEF Enqueue
  <2>2. Before
    BY <1>2, <2>1
  <2> QED
    BY <2>1, <2>2, AppendKeeps DEF Before, After, InHand, Queued
<1>6. ASSUME NEW k \in 1..Len(pending), StartBuild(k) PROVE After
  <2>1. /\ pending' = RemoveAt(pending, k) /\ job' = pending[k] /\ building' = building
        /\ pc = "claim" /\ faults = 0 /\ pending[k] \in Job /\ job = NoJob
    BY <1>6 DEF StartBuild, TypeOK, JobInHand
  <2>2. Queued(i, building[i])
    BY <1>2, <2>1 DEF Before, InHand
  <2>3. CASE pending[k].issue = i /\ pending[k].gen = building[i]
    BY <2>1, <2>3, ConfirmLoopAssumption DEF After, InHand, Job
  <2>4. CASE ~(pending[k].issue = i /\ pending[k].gen = building[i])
    <3>1. Queued(i, building[i])'
      BY <2>1, <2>2, <2>4, RemoveAtKeeps DEF Queued
    <3> QED
      BY <3>1 DEF After
  <2> QED
    BY <2>3, <2>4
<1>7. CASE RecordFailure
  <2>1. /\ faults = 0 /\ CountFailure(job.issue) /\ pending' = pending
        /\ pc \in {"noenqueue", "nobuild"} /\ job.issue \in Issues
    <3>1. ~DbFault /\ faults \in Nat
      BY DEF DbFault, TypeOK
    <3> QED
      BY <1>7, <3>1, JobType DEF RecordFailure
  <2>2. i # job.issue /\ building'[i] = building[i]
    BY <2>1 DEF CountFailure, TypeOK
  <2> QED
    BY <1>2, <2>1, <2>2 DEF Before, After, Queued, InHand
<1>8. CASE StaleVerdict
  <2>1. /\ pc = "build" /\ job.gen <= confirmed[job.issue] /\ faults = 0
        /\ UNCHANGED <<pending, building>> /\ job \in Job /\ job.issue \in Issues
        /\ job.gen \in Nat
    BY <1>8, JobType DEF StaleVerdict, BuildEnds
  <2>2. ~InHand(i, building[i])
    BY <2>1 DEF MarkerAhead, InHand, TypeOK
  <2> QED
    BY <1>2, <2>1, <2>2 DEF Before, After, Queued
<1>9. CASE ProvisionalGreen \/ ConfirmingGreen \/ Red
  <2>1. /\ pc = "build" /\ Land(job.issue, job.gen) /\ faults = 0 /\ pending' = pending
    BY <1>9 DEF ProvisionalGreen, ConfirmingGreen, Red, BuildEnds
  <2>2. job.issue \in Issues /\ job.gen \in Nat
    BY <2>1, JobType
  <2>3. building'[i] = building[i] /\ (i = job.issue => building[i] > job.gen)
    BY <2>1, <2>2, LandMarker
  <2>4. ~InHand(i, building[i])
    BY <2>2, <2>3 DEF InHand, TypeOK
  <2> QED
    BY <1>2, <2>1, <2>3, <2>4 DEF Before, After, Queued
<1>10. CASE Runner
  BY <1>1, <1>3, <1>4, <1>5, <1>6, <1>7, <1>8, <1>9, <1>10
  DEF Runner, Start, DiscardQueued, ReadFeed, ScanDone, SkipRow, OtherWork, Raise,
      VerdictLost, DbFault, After, TypeOK
<1>11. ASSUME NEW o \in Operators, CancelBuild(o) PROVE After
  <2>1. /\ faults = 0 /\ UNCHANGED <<pending, job, pc>>
        /\ building' = [building EXCEPT ![req[o].issue] = 0]
    BY <1>11 DEF CancelBuild
  <2>2. building'[i] = building[i]
    BY <2>1 DEF TypeOK
  <2> QED
    BY <1>2, <2>1, <2>2 DEF Before, After, Queued, InHand
<1>12. CASE Tracker
  BY <1>3, <1>11, <1>12
  DEF Tracker, OpenRequest, Commit, Accept, Mute, Unmute, Resolve, Reopen, RequestBuild, After
<1>13. CASE World \/ UNCHANGED vars
  BY <1>3, <1>13 DEF World, Merge, Recur, Elapse, vars, After
<1>14. CASE Crash
  BY <1>14 DEF Crash
<1> QED
  BY <1>10, <1>12, <1>13, <1>14 DEF Next, After

MarkerInvariant == ScanFresh /\ MarkerAhead /\ MarkerBacked

LEMMA MarkerCovers == TypeOK /\ JobInHand /\ MarkerInvariant => MarkerHasBuild
<1> SUFFICES ASSUME TypeOK, JobInHand, MarkerInvariant, NEW i \in Issues, building[i] # 0
             PROVE  /\ building[i] > confirmed[i]
                    /\ pc \notin {"down", "recover"} /\ faults = 0
                         => \E j \in Jobs(i) : j.gen = building[i]
  BY DEF MarkerHasBuild
<1>1. building[i] > confirmed[i]
  BY DEF MarkerInvariant, MarkerAhead
<1>2. CASE Queued(i, building[i])
  <2>1. PICK k \in 1..Len(pending) : pending[k].issue = i /\ pending[k].gen = building[i]
    BY <1>2 DEF Queued
  <2>2. pending[k] \in Jobs(i)
    BY <2>1 DEF Jobs
  <2> QED
    BY <1>1, <2>1, <2>2
<1>3. CASE InHand(i, building[i])
  <2>1. job \in Jobs(i) /\ job.gen = building[i]
    BY <1>3 DEF InHand, Jobs
  <2> QED
    BY <1>1, <2>1
<1> QED
  BY <1>1, <1>2, <1>3 DEF MarkerInvariant, MarkerBacked

\* A single-flight marker always stands for a verdict still to come, through
\* crashes, recoveries, cancellations and superseded jobs: without a lost write,
\* no marker is left behind that would hide its issue from the feed.
THEOREM MarkersAreBacked == Spec => []MarkerHasBuild
<1>1. Init => MarkerInvariant
  BY DEF Init, MarkerInvariant, ScanFresh, MarkerAhead, MarkerBacked
<1>2. TypeOK /\ JobInHand /\ MarkerInvariant /\ [Next]_vars => MarkerInvariant'
  BY FreshStep, AheadStep, BackedStep DEF MarkerInvariant
<1> QED
  BY <1>1, <1>2, MarkerCovers, InvariantHand, PTL DEF Spec

(***************************************************************************)
(* Intent.  Where no operator cancels, the requested generation only grows *)
(* and covers everything that was ever claimed or confirmed.               *)
(***************************************************************************)
IntentCovers ==
  /\ \A i \in Issues : confirmed[i] <= requested[i]
  /\ \A k \in 1..Len(pending) : pending[k].gen <= requested[pending[k].issue]
  /\ job # NoJob => job.gen <= requested[job.issue]
  /\ \A r \in scan : r.gen <= requested[r.issue]

AskedInActs ==
  \A o \in Operators : req[o] # NoReq =>
    req[o].act \in Acts /\ (req[o].act = "accept" => req[o].bundle \in Bundles)

LEMMA AskedStep ==
  ASSUME TypeOK, AskedInActs, [Next]_vars
  PROVE  AskedInActs'
<1>0. req \in [Operators -> Request \cup {NoReq}]
  BY DEF TypeOK
<1>1. CASE UNCHANGED req
  BY <1>1 DEF AskedInActs
<1>2. ASSUME NEW o \in Operators, NEW i \in Issues, NEW a \in Action,
             NEW b \in Bundles \cup {NoBundle}, OpenRequest(o, i, a, b)
      PROVE  AskedInActs'
  BY <1>0, <1>2 DEF OpenRequest, AskedInActs
<1>3. ASSUME NEW o \in Operators, Commit(o) PROVE AskedInActs'
  <2>1. req' = [req EXCEPT ![o] = NoReq]
    BY <1>3 DEF Commit, Accept, Mute, Unmute, Resolve, Reopen, RequestBuild, CancelBuild, Done
  <2> QED
    BY <1>0, <2>1 DEF AskedInActs
<1>4. CASE Tracker
  BY <1>2, <1>3, <1>4 DEF Tracker
<1>5. CASE Runner \/ World \/ Crash \/ UNCHANGED vars
  BY <1>1, <1>5
  DEF Runner, Start, DiscardQueued, ClearMarkers, ReadFeed, Enqueue, ScanDone, SkipRow,
      ClaimBuild, StartBuild, OtherWork, Raise, VerdictLost, RecordFailure, StaleVerdict,
      ProvisionalGreen, ConfirmingGreen, Red, World, Merge, Recur, Elapse, Crash, vars
<1> QED
  BY <1>4, <1>5 DEF Next

LEMMA RequestedGrows ==
  ASSUME TypeOK, JobInHand, AskedInActs, "cancel-build" \notin Acts, [Next]_vars
  PROVE  requested' \in [Issues -> Nat] /\ \A i \in Issues : requested[i] <= requested'[i]
<1>0. requested \in [Issues -> Nat]
  BY DEF TypeOK
<1>1. CASE UNCHANGED requested
  BY <1>0, <1>1
<1>2. ASSUME NEW i \in Issues, requested' = [requested EXCEPT ![i] = @ + 1]
      PROVE  requested' \in [Issues -> Nat]
             /\ \A k \in Issues : requested[k] <= requested'[k]
  BY <1>0, <1>2
<1>3. CASE Runner
  <2>1. CASE ProvisionalGreen
    <3>1. job.issue \in Issues
      BY <2>1, JobType DEF ProvisionalGreen, BuildEnds
    <3>2. \/ requested' = [requested EXCEPT ![job.issue] = @ + 1]
          \/ requested' = [requested EXCEPT ![job.issue] = @]
      BY <2>1 DEF ProvisionalGreen
    <3> QED
      BY <1>0, <1>1, <1>2, <3>1, <3>2
  <2> QED
    BY <1>1, <1>3, <2>1
    DEF Runner, Start, DiscardQueued, ClearMarkers, ReadFeed, Enqueue, ScanDone, SkipRow,
        ClaimBuild, StartBuild, OtherWork, Raise, VerdictLost, RecordFailure, StaleVerdict,
        ConfirmingGreen, Red
<1>4. ASSUME NEW o \in Operators, Commit(o)
      PROVE  requested' \in [Issues -> Nat]
             /\ \A k \in Issues : requested[k] <= requested'[k]
  <2>1. ~CancelBuild(o)
    BY DEF CancelBuild, Requested, AskedInActs
  <2>2. CASE Accept(o) \/ RequestBuild(o)
    <3>1. req[o].issue \in Issues
      BY <2>2 DEF Accept, RequestBuild, Requested, TypeOK, Request
    <3>2. requested' = [requested EXCEPT ![req[o].issue] = @ + 1] \/ UNCHANGED requested
      BY <2>2 DEF Accept, RequestBuild
    <3> QED
      BY <1>1, <1>2, <3>1, <3>2
  <2> QED
    BY <1>1, <1>4, <2>1, <2>2 DEF Commit, Mute, Unmute, Resolve, Reopen
<1>5. CASE Tracker
  BY <1>1, <1>4, <1>5 DEF Tracker, OpenRequest
<1>6. CASE World \/ Crash \/ UNCHANGED vars
  BY <1>1, <1>6 DEF World, Merge, Recur, Elapse, Crash, vars
<1> QED
  BY <1>3, <1>5, <1>6 DEF Next

LEMMA QueueStep ==
  ASSUME TypeOK, JobInHand, [Next]_vars, NEW k \in 1..Len(pending')
  PROVE  \/ \E m \in 1..Len(pending) : pending'[k] = pending[m]
         \/ pending'[k] = job /\ job # NoJob
<1>0. pending \in Seq(Job)
  BY DEF TypeOK
<1>1. CASE UNCHANGED pending
  BY <1>1
<1>2. CASE DiscardQueued
  <2>1. pending # <<>> /\ pending' = Tail(pending)
    BY <1>2 DEF DiscardQueued
  <2>2. k + 1 \in 1..Len(pending) /\ pending'[k] = pending[k + 1]
    BY <1>0, <2>1
  <2> QED
    BY <2>2
<1>3. CASE Enqueue
  <2>1. pending' = Append(pending, job) /\ job \in Job /\ job # NoJob
    BY <1>3, JobType DEF Enqueue, JobInHand
  <2>2. CASE k = Len(pending) + 1
    BY <1>0, <2>1, <2>2
  <2>3. CASE k # Len(pending) + 1
    BY <1>0, <2>1, <2>3
  <2> QED
    BY <2>2, <2>3
<1>4. ASSUME NEW n \in 1..Len(pending), StartBuild(n)
      PROVE  \E m \in 1..Len(pending) : pending'[k] = pending[m]
  <2> DEFINE Held == {pending[m] : m \in 1..Len(pending)}
  <2>1. pending \in Seq(Held)
    BY <1>0
  <2>2. pending' \in Seq(Held)
    BY <1>4, <2>1, RemoveAtType DEF StartBuild
  <2>3. pending'[k] \in Held
    BY <2>2
  <2> QED
    BY <2>3
<1>5. CASE Runner
  BY <1>1, <1>2, <1>3, <1>4, <1>5
  DEF Runner, Start, ClearMarkers, ReadFeed, ScanDone, SkipRow, ClaimBuild, OtherWork, Raise,
      VerdictLost, RecordFailure, StaleVerdict, ProvisionalGreen, ConfirmingGreen, Red
<1>6. CASE Tracker
  BY <1>1, <1>6 DEF Tracker, OpenRequest, Commit, Accept, Mute, Unmute, Resolve, Reopen,
                    RequestBuild, CancelBuild
<1>7. CASE World \/ Crash \/ UNCHANGED vars
  BY <1>1, <1>7 DEF World, Merge, Recur, Elapse, Crash, vars
<1> QED
  BY <1>5, <1>6, <1>7 DEF Next

LEMMA HandsStep ==
  ASSUME [Next]_vars, job' # NoJob
  PROVE  job' = job \/ job' \in scan \/ \E k \in 1..Len(pending) : job' = pending[k]
<1>1. CASE Runner
  BY <1>1
  DEF Runner, Start, DiscardQueued, ClearMarkers, ReadFeed, Enqueue, ScanDone, SkipRow,
      ClaimBuild, StartBuild, OtherWork, Raise, VerdictLost, RecordFailure, StaleVerdict,
      ProvisionalGreen, ConfirmingGreen, Red, BuildEnds
<1>2. CASE Tracker
  BY <1>2 DEF Tracker, OpenRequest, Commit, Accept, Mute, Unmute, Resolve, Reopen,
              RequestBuild, CancelBuild, queue
<1>3. CASE World \/ Crash \/ UNCHANGED vars
  BY <1>3 DEF World, Merge, Recur, Elapse, Crash, vars
<1> QED
  BY <1>1, <1>2, <1>3 DEF Next

LEMMA RowsStep ==
  ASSUME [Next]_vars, NEW r \in scan'
  PROVE  \/ r \in scan
         \/ /\ UNCHANGED requested
            /\ \E i \in Issues : r = [issue |-> i, bundle |-> delivery[i], gen |-> requested[i]]
<1>1. CASE Runner
  BY <1>1
  DEF Runner, Start, DiscardQueued, ClearMarkers, ReadFeed, Enqueue, ScanDone, SkipRow,
      ClaimBuild, StartBuild, OtherWork, Raise, VerdictLost, RecordFailure, StaleVerdict,
      ProvisionalGreen, ConfirmingGreen, Red, BuildEnds
<1>2. CASE Tracker
  BY <1>2 DEF Tracker, OpenRequest, Commit, Accept, Mute, Unmute, Resolve, Reopen,
              RequestBuild, CancelBuild
<1>3. CASE World \/ Crash \/ UNCHANGED vars
  BY <1>3 DEF World, Merge, Recur, Elapse, Crash, vars
<1> QED
  BY <1>1, <1>2, <1>3 DEF Next

LEMMA CoversStep ==
  ASSUME TypeOK, JobInHand, AskedInActs, "cancel-build" \notin Acts, IntentCovers, [Next]_vars
  PROVE  IntentCovers'
<1>0. /\ requested \in [Issues -> Nat] /\ requested' \in [Issues -> Nat]
      /\ confirmed \in [Issues -> Nat] /\ pending \in Seq(Job) /\ scan \subseteq Row
      /\ \A i \in Issues : requested[i] <= requested'[i]
  BY RequestedGrows DEF TypeOK
<1>1. \A j \in Job \cup Row : j.gen \in Nat /\ j.issue \in Issues
  BY DEF Job, Row
<1>2. job # NoJob => job \in Job
  BY DEF TypeOK
<1>3. \A m \in 1..Len(pending) :
        pending[m] \in Job /\ pending[m].gen <= requested'[pending[m].issue]
  <2> SUFFICES ASSUME NEW m \in 1..Len(pending)
               PROVE  pending[m] \in Job /\ pending[m].gen <= requested'[pending[m].issue]
    OBVIOUS
  <2>1. pending[m] \in Job /\ pending[m].gen <= requested[pending[m].issue]
    BY <1>0 DEF IntentCovers
  <2> QED
    BY <1>0, <1>1, <2>1
<1>4. job # NoJob => job.gen <= requested'[job.issue]
  BY <1>0, <1>1, <1>2 DEF IntentCovers
<1>5. \A r \in scan : r.gen <= requested'[r.issue]
  BY <1>0, <1>1 DEF IntentCovers
<1>6. \A i \in Issues : confirmed'[i] <= requested'[i]
  <2>1. CASE UNCHANGED confirmed
    BY <1>0, <2>1 DEF IntentCovers
  <2>2. CASE pc = "build" /\ Land(job.issue, job.gen)
    <3>1. /\ job # NoJob /\ job.issue \in Issues
          /\ confirmed' = [confirmed EXCEPT ![job.issue] = job.gen]
      BY <2>2, JobType DEF Land, JobInHand
    <3> QED
      BY <1>0, <1>4, <3>1 DEF IntentCovers
  <2> QED
    BY <2>1, <2>2, OnlyVerdictsConfirm
<1>7. \A k \in 1..Len(pending') : pending'[k].gen <= requested'[pending'[k].issue]
  BY <1>3, <1>4, QueueStep
<1>8. job' # NoJob => job'.gen <= requested'[job'.issue]
  BY <1>3, <1>4, <1>5, HandsStep
<1>9. \A r \in scan' : r.gen <= requested'[r.issue]
  <2> SUFFICES ASSUME NEW r \in scan' PROVE r.gen <= requested'[r.issue]
    OBVIOUS
  <2>1. CASE r \in scan
    BY <1>5, <2>1
  <2>2. ASSUME UNCHANGED requested, NEW i \in Issues,
               r = [issue |-> i, bundle |-> delivery[i], gen |-> requested[i]]
        PROVE  r.gen <= requested'[r.issue]
    BY <1>0, <2>2
  <2> QED
    BY <2>1, <2>2, RowsStep
<1> QED
  BY <1>6, <1>7, <1>8, <1>9 DEF IntentCovers

LEMMA BuildableStep ==
  ASSUME TypeOK, JobInHand, AskedInActs, "cancel-build" \notin Acts, IntentCovers,
         ResolvingIsBuildable, [Next]_vars
  PROVE  ResolvingIsBuildable'
<1> SUFFICES ASSUME NEW i \in Issues, state'[i] = "resolving"
             PROVE  delivery'[i] # NoBundle /\ requested'[i] > confirmed'[i]
  BY DEF ResolvingIsBuildable
<1>0. /\ requested \in [Issues -> Nat] /\ requested' \in [Issues -> Nat]
      /\ confirmed \in [Issues -> Nat] /\ requested[i] <= requested'[i]
      /\ state \in [Issues -> IssueState]
      /\ delivery \in [Issues -> Bundles \cup {NoBundle}]
      /\ confirmed[i] <= requested[i]
      /\ req \in [Operators -> Request \cup {NoReq}]
  BY RequestedGrows DEF TypeOK, IntentCovers
<1>1. ASSUME state[i] = "resolving", delivery'[i] = delivery[i], confirmed'[i] = confirmed[i]
      PROVE  delivery'[i] # NoBundle /\ requested'[i] > confirmed'[i]
  BY <1>0, <1>1 DEF ResolvingIsBuildable
<1>2. ASSUME NEW k \in Issues, UNCHANGED confirmed,
             MarkResolved(k) \/ MarkUnresolved(k) \/ UNCHANGED lifecycle
      PROVE  delivery'[i] # NoBundle /\ requested'[i] > confirmed'[i]
  <2>1. state[i] = "resolving" /\ delivery'[i] = delivery[i]
    BY <1>0, <1>2 DEF MarkResolved, MarkUnresolved
  <2> QED
    BY <1>1, <1>2, <2>1
<1>3. ASSUME pc = "build", Land(job.issue, job.gen)
      PROVE  /\ job.issue \in Issues /\ job.gen \in Nat /\ job.gen <= requested[job.issue]
             /\ confirmed' = [confirmed EXCEPT ![job.issue] = job.gen]
  BY <1>3, JobType DEF Land, IntentCovers, JobInHand
<1>4. CASE ProvisionalGreen
  <2>1. /\ pc = "build" /\ Land(job.issue, job.gen) /\ UNCHANGED lifecycle
        /\ requested' = [requested EXCEPT ![job.issue] =
                            IF state[job.issue] = "resolving" THEN @ + 1 ELSE @]
    BY <1>4 DEF ProvisionalGreen, BuildEnds
  <2>2. CASE i = job.issue
    <3>1. requested'[i] = requested[i] + 1 /\ confirmed'[i] = job.gen
      BY <1>0, <1>3, <2>1, <2>2
    <3> QED
      BY <1>0, <1>3, <2>1, <2>2, <3>1 DEF ResolvingIsBuildable
  <2>3. CASE i # job.issue
    BY <1>0, <1>1, <1>3, <2>1, <2>3
  <2> QED
    BY <2>2, <2>3
<1>5. CASE ConfirmingGreen \/ Red
  <2>1. /\ pc = "build" /\ Land(job.issue, job.gen)
        /\ \/ MarkResolved(job.issue) \/ MarkUnresolved(job.issue)
           \/ UNCHANGED lifecycle /\ state[job.issue] # "resolving"
    BY <1>5 DEF ConfirmingGreen, Red, BuildEnds, ResolveConfirmed, ReopenFailed
  <2>2. i # job.issue /\ state[i] = "resolving" /\ delivery'[i] = delivery[i]
    BY <1>0, <1>3, <2>1 DEF MarkResolved, MarkUnresolved
  <2> QED
    BY <1>0, <1>1, <1>3, <2>1, <2>2
<1>6. CASE RecordFailure
  <2>1. /\ job.issue \in Issues /\ UNCHANGED confirmed
        /\ MarkUnresolved(job.issue) \/ UNCHANGED lifecycle
    BY <1>6, JobType DEF RecordFailure, CountFailure
  <2> QED
    BY <1>2, <2>1
<1>7. CASE UNCHANGED <<lifecycle, confirmed>>
  BY <1>1, <1>7
<1>8. CASE Runner
  BY <1>4, <1>5, <1>6, <1>7, <1>8
  DEF Runner, Start, DiscardQueued, ClearMarkers, ReadFeed, Enqueue, ScanDone, SkipRow,
      ClaimBuild, StartBuild, OtherWork, Raise, VerdictLost, StaleVerdict
<1>9. ASSUME NEW o \in Operators, Commit(o)
      PROVE  delivery'[i] # NoBundle /\ requested'[i] > confirmed'[i]
  <2>1. /\ req[o] # NoReq /\ req[o].issue \in Issues /\ UNCHANGED confirmed
    BY <1>0, <1>9 DEF Commit, Accept, Mute, Unmute, Resolve, Reopen, RequestBuild,
                      CancelBuild, Requested, Request
  <2>2. CASE Accept(o)
    <3>1. req[o].bundle \in Bundles
      BY <2>1, <2>2 DEF Accept, Requested, AskedInActs
    <3>2. CASE UNCHANGED <<state, delivery>>
      BY <1>1, <2>1, <3>2
    <3>3. CASE /\ state' = [state EXCEPT ![req[o].issue] = "resolving"]
               /\ delivery' = [delivery EXCEPT ![req[o].issue] = req[o].bundle]
               /\ requested' = [requested EXCEPT ![req[o].issue] = @ + 1]
      <4>1. CASE i = req[o].issue
        <5>1. delivery'[i] \in Bundles
          BY <1>0, <3>1, <3>3, <4>1
        <5>2. requested'[i] = requested[i] + 1 /\ confirmed'[i] = confirmed[i]
          BY <1>0, <2>1, <3>3, <4>1
        <5> QED
          BY <1>0, <5>1, <5>2, ConfirmLoopAssumption
      <4>2. CASE i # req[o].issue
        <5>1. /\ state[i] = "resolving" /\ delivery'[i] = delivery[i]
              /\ confirmed'[i] = confirmed[i]
          BY <1>0, <2>1, <3>3, <4>2
        <5> QED
          BY <1>1, <5>1
      <4> QED
        BY <4>1, <4>2
    <3> QED
      BY <2>2, <3>2, <3>3 DEF Accept
  <2>3. CASE Mute(o) \/ Unmute(o)
    <3>1. state[i] = "resolving" /\ delivery' = delivery
      BY <1>0, <2>1, <2>3 DEF Mute, Unmute
    <3> QED
      BY <1>1, <2>1, <3>1
  <2>4. CASE Resolve(o) \/ Reopen(o)
    BY <1>2, <2>1, <2>4 DEF Resolve, Reopen
  <2>5. CASE RequestBuild(o) \/ CancelBuild(o)
    BY <1>7, <2>1, <2>5 DEF RequestBuild, CancelBuild
  <2> QED
    BY <1>9, <2>2, <2>3, <2>4, <2>5 DEF Commit
<1>10. CASE Tracker
  BY <1>7, <1>9, <1>10 DEF Tracker, OpenRequest
<1>11. CASE World
  <2>1. PICK k \in Issues : Merge(k) \/ Recur(k) \/ Elapse(k)
    BY <1>11 DEF World
  <2>2. CASE Merge(k)
    BY <1>2, <2>2 DEF Merge
  <2>3. CASE Recur(k) \/ Elapse(k)
    BY <1>1, <1>0, <2>3 DEF Recur, Elapse
  <2> QED
    BY <2>1, <2>2, <2>3
<1>12. CASE Crash \/ UNCHANGED vars
  BY <1>7, <1>12 DEF Crash, vars
<1> QED
  BY <1>8, <1>10, <1>11, <1>12 DEF Next

\* Where nobody cancels a build, an issue in resolving always has a fix to build
\* and a request that the feed sees: it never waits for a build nobody will run.
THEOREM BuildableWhileResolving ==
  ASSUME "cancel-build" \notin Acts
  PROVE  Spec => []ResolvingIsBuildable
<1>1. Init => AskedInActs /\ IntentCovers /\ ResolvingIsBuildable
  BY DEF Init, AskedInActs, IntentCovers, ResolvingIsBuildable
<1>2. /\ TypeOK /\ JobInHand /\ AskedInActs /\ IntentCovers /\ ResolvingIsBuildable
      /\ [Next]_vars
      => AskedInActs' /\ IntentCovers' /\ ResolvingIsBuildable'
  BY AskedStep, CoversStep, BuildableStep
<1> QED
  BY <1>1, <1>2, InvariantHand, PTL DEF Spec
===============================================================================

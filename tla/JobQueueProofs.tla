---------------------------- MODULE JobQueueProofs ----------------------------
(***************************************************************************)
(* Proofs about JobQueue, for every set of jobs, every assignment of kinds *)
(* and groups to them and every value of the budgets and bounds.           *)
(***************************************************************************)
EXTENDS JobQueue, FiniteSetTheorems, SequenceTheorems, TLAPS

USE DEF jobfile, runner

(***************************************************************************)
(* The transition table.                                                   *)
(***************************************************************************)
LEMMA EventNames ==
  Event = {"HOOK_ENQUEUED", "CLAIM", "TRIAGE_START", "TRIAGE_OK", "TRIAGE_HANDOFF",
           "TRIAGE_FAIL", "PATCH_START", "PATCH_OK", "PATCH_GAVE_UP", "PATCH_BUDGET_OUT",
           "VERIFY_OK", "ESCALATE_MANUAL", "VERIFY_FIX_START", "VERIFY_FIX_OK",
           "VERIFY_FIX_GAVE_UP", "PROVIDER_UNAVAILABLE", "ENV_BROKEN", "ENV_TARGET_MISMATCH",
           "WORKTREE_UNAVAILABLE", "SKIP_ORIGIN_LOCKED", "SKIP_ISSUE_MUTED", "REAP_ORPHAN",
           "ABANDON"}
  BY DEF Event, Transition

\* Every event leads to a state a row can be in.
LEMMA EventLeads == \A e \in Event : Transition[e].to \in RowState
  BY EventNames DEF Transition, From, RowState, InFlight, Terminal

\* Only a claim takes a row into flight.
LEMMA OnlyClaimTakesOff ==
  ASSUME NEW e \in Event, NEW s \in Transition[e].from,
         Transition[e].to \in InFlight, s \notin InFlight
  PROVE  e = "CLAIM"
  BY EventNames DEF Transition, From, InFlight

LEMMA AfterType ==
  ASSUME NEW s \in RowState, NEW e \in Event
  PROVE  After(s, e) \in RowState
  BY EventLeads DEF After

(***************************************************************************)
(* Sequences of steps.                                                     *)
(***************************************************************************)
\* SetToSeq lists every element of a finite set.
LEMMA SetToSeqLists ==
  ASSUME NEW S, IsFiniteSet(S)
  PROVE  /\ SetToSeq(S) \in Seq(S)
         /\ \A x \in S : \E n \in 1..Len(SetToSeq(S)) : SetToSeq(S)[n] = x
<1> DEFINE C == Cardinality(S)  D == 1..C
<1>1. C \in Nat /\ ExistsBijection(D, S)
  BY FS_CardinalityType
<1>2. PICK b \in Bijection(D, S) : TRUE
  BY <1>1 DEF ExistsBijection
<1>3. b \in [D -> S] /\ IsInjective(b)
  BY <1>2 DEF Bijection, Injection, IsInjective
<1>4. SetToSeq(S) \in [D -> S] /\ IsInjective(SetToSeq(S))
  BY <1>3 DEF SetToSeq
<1>5. IsFiniteSet(D) /\ Cardinality(D) = C
  BY <1>1, FS_Interval
<1>6. SetToSeq(S) \in Injection(D, S)
  BY <1>4 DEF Injection, IsInjective
<1>7. SetToSeq(S) \in Surjection(D, S)
  BY <1>5, <1>6, FS_Injection
<1>8. SetToSeq(S) \in Seq(S) /\ Len(SetToSeq(S)) = C
  BY <1>1, <1>4
<1> QED
  BY <1>7, <1>8 DEF Surjection

LEMMA DoTypes ==
  /\ \A e \in Event : Fire(e) \in Doing
  /\ Reap \in Doing /\ ReapStale \in Doing /\ DbClaim \in Doing /\ Count \in Doing
  /\ \A d \in Directory : Move(d) \in Doing /\ Create(d) \in Doing
  BY EventNames DEF Doing, Fire, Reap, ReapStale, DbClaim, Count, Move, Create, Step

\* Every element of S is given the step d.
LEMMA EachSteps ==
  ASSUME NEW S \in SUBSET Jobs, NEW d \in Doing
  PROVE  /\ Each(S, d) \in Seq(Task)
         /\ \A n \in 1..Len(Each(S, d)) : Each(S, d)[n].do = d
         /\ \A j \in S : \E n \in 1..Len(Each(S, d)) : Each(S, d)[n].job = j
<1> DEFINE q == SetToSeq(S)
<1>1. IsFiniteSet(S)
  BY JobQueueAssumption, FS_Subset
<1>2. q \in Seq(S) /\ \A x \in S : \E n \in 1..Len(q) : q[n] = x
  BY <1>1, SetToSeqLists
<1>3. Each(S, d) = [n \in 1..Len(q) |-> [job |-> q[n], do |-> d]]
  BY DEF Each
<1> HIDE DEF q
<1>4. Len(q) \in Nat /\ \A n \in 1..Len(q) : q[n] \in S
  BY <1>2
<1> QED
  BY <1>2, <1>3, <1>4 DEF Task

\* The steps for one job.
LEMMA ForSteps ==
  ASSUME NEW j \in Jobs, NEW steps \in Seq(Doing)
  PROVE  /\ For(j, steps) \in Seq(Task) /\ Len(For(j, steps)) = Len(steps)
         /\ \A n \in 1..Len(steps) : For(j, steps)[n] = [job |-> j, do |-> steps[n]]
  BY DEF For, Task

LEMMA ForOne ==
  ASSUME NEW j \in Jobs, NEW d \in Doing
  PROVE  /\ For(j, <<d>>) \in Seq(Task) /\ Len(For(j, <<d>>)) = 1
         /\ For(j, <<d>>)[1] = [job |-> j, do |-> d]
<1> DEFINE steps == <<d>>
<1>1. steps \in Seq(Doing) /\ Len(steps) = 1 /\ steps[1] = d
  OBVIOUS
<1> HIDE DEF steps
<1>2. /\ For(j, steps) \in Seq(Task) /\ Len(For(j, steps)) = 1
      /\ For(j, steps)[1] = [job |-> j, do |-> steps[1]]
  BY <1>1, ForSteps
<1> QED
  BY <1>1, <1>2 DEF steps

\* A plan of one step is given to each member of the batch.
LEMMA RoundsOfOne ==
  ASSUME NEW b \in Seq(Jobs), NEW d \in Doing
  PROVE  /\ Rounds(b, <<d>>) \in Seq(Task) /\ Len(Rounds(b, <<d>>)) = Len(b)
         /\ \A n \in 1..Len(b) : Rounds(b, <<d>>)[n] = [job |-> b[n], do |-> d]
<1> DEFINE s == [n \in 1..Len(b) |-> [job |-> b[n], do |-> d]]
<1>1. Rounds(b, <<d>>) = s
  BY DEF Rounds
<1>2. s \in [1..Len(b) -> Task]
  BY DEF Task
<1>3. s \in Seq(Task) /\ Len(s) = Len(b)
  <2> HIDE DEF s
  <2> QED
    BY <1>2
<1> QED
  BY <1>1, <1>3

\* A plan of two steps is given to each member in turn.
LEMMA RoundsOfTwo ==
  ASSUME NEW b \in Seq(Jobs), NEW c \in Doing, NEW d \in Doing
  PROVE  /\ Rounds(b, <<c, d>>) \in Seq(Task) /\ Len(Rounds(b, <<c, d>>)) = 2 * Len(b)
         /\ \A n \in 1..Len(b) :
              /\ Rounds(b, <<c, d>>)[2 * n - 1] = [job |-> b[n], do |-> c]
              /\ Rounds(b, <<c, d>>)[2 * n] = [job |-> b[n], do |-> d]
         /\ \A m \in 1..(2 * Len(b)) : \E n \in 1..Len(b) : m = 2 * n - 1 \/ m = 2 * n
<1> DEFINE at(m) == ((m - 1) \div 2) + 1
           s == [m \in 1..(Len(b) * 2) |->
                   [job |-> b[at(m)], do |-> <<c, d>>[((m - 1) % 2) + 1]]]
<1>1. Rounds(b, <<c, d>>) = s
  BY DEF Rounds
<1>2. \A m \in 1..(2 * Len(b)) :
        at(m) \in 1..Len(b) /\ (m = 2 * at(m) - 1 \/ m = 2 * at(m))
  OBVIOUS
<1>3. \A m \in 1..(2 * Len(b)) : <<c, d>>[((m - 1) % 2) + 1] \in {c, d}
  OBVIOUS
<1>4. \A n \in 1..Len(b) :
        /\ at(2 * n - 1) = n /\ ((2 * n - 1 - 1) % 2) + 1 = 1 /\ 2 * n - 1 \in 1..(Len(b) * 2)
        /\ at(2 * n) = n /\ ((2 * n - 1) % 2) + 1 = 2 /\ 2 * n \in 1..(Len(b) * 2)
  OBVIOUS
<1>5. \A m \in 1..(Len(b) * 2) : s[m] \in Task
  BY <1>2, <1>3 DEF Task
<1>6. s \in Seq(Task) /\ Len(s) = 2 * Len(b)
  <2>1. s \in [1..(Len(b) * 2) -> Task]
    BY <1>5
  <2> HIDE DEF s
  <2> QED
    BY <2>1
<1>7. \A n \in 1..Len(b) : s[2 * n - 1] = [job |-> b[n], do |-> c]
                           /\ s[2 * n] = [job |-> b[n], do |-> d]
  <2> TAKE n \in 1..Len(b)
  <2>1. s[2 * n - 1] = [job |-> b[at(2 * n - 1)], do |-> <<c, d>>[((2 * n - 1 - 1) % 2) + 1]]
    BY <1>4
  <2>2. s[2 * n] = [job |-> b[at(2 * n)], do |-> <<c, d>>[((2 * n - 1) % 2) + 1]]
    BY <1>4
  <2> QED
    BY <1>4, <2>1, <2>2
<1> QED
  BY <1>1, <1>2, <1>6, <1>7

(***************************************************************************)
(* Type correctness.                                                       *)
(***************************************************************************)
\* A batch has a lead from its claim to its report.
LeadInHand == pc \in {"claim", "start", "report"} => batch # <<>>

LEMMA Budgets == MaxRetry \in Nat /\ MaxRetry >= 1 /\ MaxCrashes \in Nat /\ MaxDbFaults \in Nat
  BY JobQueueAssumption

LEMMA InitType == Init => TypeOK
<1> SUFFICES ASSUME Init PROVE TypeOK
  OBVIOUS
<1>1. tally \in [Jobs -> 0..MaxRetry] /\ crashes \in 0..MaxCrashes /\ faults \in 0..MaxDbFaults
  BY Budgets DEF Init
<1>2. /\ file \in [Jobs -> Directory] /\ row \in [Jobs -> RowState]
      /\ hook \in [Jobs -> {"idle", "posting", "posted"}] /\ pc \in Phase
  BY DEF Init, Directory, RowState, Phase
<1>3. held \in [Jobs -> BOOLEAN] /\ success \in BOOLEAN
  BY DEF Init
<1>4. batch \in Seq(Jobs) /\ todo \in Seq(Task)
  BY EmptySeq DEF Init
<1> QED
  BY <1>1, <1>2, <1>3, <1>4 DEF TypeOK

LEMMA LeadType ==
  ASSUME TypeOK, batch # <<>>
  PROVE  /\ Lead \in Jobs /\ Kind[Lead] \in {"triage", "patch", "verify"}
         /\ Tail(batch) \in Seq(Jobs)
<1>1. Lead \in Jobs
  BY EmptySeq, ElementOfSeq DEF TypeOK, Lead
<1>2. Tail(batch) \in Seq(Jobs)
  BY HeadTailProperties DEF TypeOK
<1> QED
  BY <1>1, <1>2, JobQueueAssumption

\* The step at the head of todo.
LEMMA HeadType ==
  ASSUME TypeOK, todo # <<>>
  PROVE  /\ Next1 \in Jobs /\ Head(todo) \in Task /\ Tail(todo) \in Seq(Task)
         /\ Head(todo) = todo[1] /\ Len(Tail(todo)) = Len(todo) - 1 /\ Len(todo) >= 1
         /\ \A n \in 1..Len(Tail(todo)) : n + 1 \in 1..Len(todo) /\ Tail(todo)[n] = todo[n + 1]
         /\ Head(todo).do.op \in {"fire", "reap", "stale", "dbclaim"} => Head(todo).do.arg \in Event
         /\ Head(todo).do.op \in {"move", "create"} => Head(todo).do.arg \in Directory
<1>1. /\ Head(todo) \in Task /\ Tail(todo) \in Seq(Task)
      /\ Len(Tail(todo)) = Len(todo) - 1 /\ Len(todo) \in Nat /\ Len(todo) >= 1
  BY HeadTailProperties, EmptySeq DEF TypeOK
<1>2. Head(todo) = todo[1]
  OBVIOUS
<1>3. \A n \in 1..Len(Tail(todo)) : n + 1 \in 1..Len(todo) /\ Tail(todo)[n] = todo[n + 1]
  BY <1>1 DEF TypeOK
<1> QED
  BY <1>1, <1>2, <1>3 DEF Task, Doing, Next1

LEMMA WorldType ==
  ASSUME TypeOK, NEW j \in Jobs,
         HookWrites(j) \/ HookPosts(j) \/ HookPostLost(j) \/ Abandon(j) \/ Elapse(j)
  PROVE  TypeOK'
<1>1. CASE HookWrites(j)
  BY <1>1, Budgets DEF TypeOK, HookWrites, WriteFile, Directory
<1>2. CASE HookPosts(j)
  <2>1. row' \in [Jobs -> RowState]
    BY <1>2, AfterType, EventNames DEF TypeOK, HookPosts
  <2> QED
    BY <1>2, <2>1 DEF TypeOK, HookPosts
<1>3. CASE HookPostLost(j)
  <2>1. faults' \in 0..MaxDbFaults
    BY <1>3, Budgets DEF TypeOK, HookPostLost
  <2> QED
    BY <1>3, <2>1 DEF TypeOK, HookPostLost
<1>4. CASE Abandon(j)
  <2>1. row' \in [Jobs -> RowState]
    BY <1>4, AfterType, EventNames DEF TypeOK, Abandon
  <2> QED
    BY <1>4, <2>1 DEF TypeOK, Abandon
<1>5. CASE Elapse(j)
  BY <1>5 DEF TypeOK, Elapse
<1> QED
  BY <1>1, <1>2, <1>3, <1>4, <1>5

\* Counting a failure never goes past the budget.
LEMMA CountType ==
  ASSUME TypeOK, NEW j \in Jobs, CountFailure(j)
  PROVE  tally' \in [Jobs -> 0..MaxRetry] /\ held' \in [Jobs -> BOOLEAN]
<1>1. tally' \in [Jobs -> 0..MaxRetry]
  BY Budgets DEF TypeOK, CountFailure, RetriesLeft
<1>2. held' \in [Jobs -> BOOLEAN]
  BY DEF TypeOK, CountFailure
<1> QED
  BY <1>1, <1>2

\* The plans of a runner that starts, takes a request or retires a batch.
LEMMA StartPlan ==
  ASSUME TypeOK, NEW old \in SUBSET Stale
  PROVE  /\ Each(Orphans, Reap) \in Seq(Task)
         /\ Each(Stranded, Move("failed")) \in Seq(Task) /\ Each(old, ReapStale) \in Seq(Task)
  BY EachSteps, DoTypes DEF Orphans, Stranded, Stale, Directory

LEMMA RequestPlan ==
  ASSUME NEW j \in Jobs
  PROVE  LET s == For(j, <<Create("pending"), Fire("HOOK_ENQUEUED")>>) IN
           /\ s \in Seq(Task) /\ Len(s) = 2
           /\ s[1] = [job |-> j, do |-> Create("pending")]
           /\ s[2] = [job |-> j, do |-> Fire("HOOK_ENQUEUED")]
<1>1. Create("pending") \in Doing /\ Fire("HOOK_ENQUEUED") \in Doing
  BY DoTypes, EventNames DEF Directory
<1> DEFINE steps == <<Create("pending"), Fire("HOOK_ENQUEUED")>>
<1>2. steps \in Seq(Doing) /\ Len(steps) = 2
  BY <1>1
<1>3. steps[1] = Create("pending") /\ steps[2] = Fire("HOOK_ENQUEUED")
  OBVIOUS
<1> HIDE DEF steps
<1>4. /\ For(j, steps) \in Seq(Task) /\ Len(For(j, steps)) = 2
      /\ \A n \in 1..2 : For(j, steps)[n] = [job |-> j, do |-> steps[n]]
  BY <1>2, ForSteps
<1> QED
  BY <1>3, <1>4 DEF steps

\* A requeued batch: the lead moves back, each sibling is counted and moved.
LEMMA RequeueType ==
  ASSUME TypeOK, batch # <<>>
  PROVE  Requeue \in Seq(Task)
<1>1. Move("pending") \in Doing /\ Count \in Doing
  BY DoTypes DEF Directory
<1>2. For(Lead, <<Move("pending")>>) \in Seq(Task)
  BY <1>1, LeadType, ForOne
<1>3. Rounds(Tail(batch), <<Count, Move("pending")>>) \in Seq(Task)
  BY <1>1, LeadType, RoundsOfTwo
<1> QED
  BY <1>2, <1>3, ConcatProperties DEF Requeue

\* The siblings a claim finds are finitely many, so it can list them.
LEMMA BatchType ==
  ASSUME NEW j \in Jobs, NEW S \in SUBSET Jobs
  PROVE  /\ <<j>> \o SetToSeq(S) \in Seq(Jobs) /\ <<j>> \o SetToSeq(S) # <<>>
         /\ Len(<<j>> \o SetToSeq(S)) >= 1
<1>1. SetToSeq(S) \in Seq(Jobs)
  <2>1. IsFiniteSet(S)
    BY JobQueueAssumption, FS_Subset
  <2> QED
    BY <2>1, SetToSeqLists, SeqMonotonic
<1>2. <<j>> \in Seq(Jobs) /\ Len(<<j>>) = 1
  OBVIOUS
<1>3. /\ <<j>> \o SetToSeq(S) \in Seq(Jobs)
      /\ Len(<<j>> \o SetToSeq(S)) = 1 + Len(SetToSeq(S)) /\ Len(SetToSeq(S)) \in Nat
  BY <1>1, <1>2, ConcatProperties
<1> QED
  BY <1>3

LEMMA AppendType ==
  ASSUME NEW s \in Seq(Jobs), NEW j \in Jobs
  PROVE  /\ Append(s, j) \in Seq(Jobs) /\ Append(s, j) # <<>>
         /\ Len(Append(s, j)) = Len(s) + 1 /\ Append(s, j)[Len(s) + 1] = j
         /\ \A n \in 1..Len(s) : Append(s, j)[n] = s[n]
<1>1. Len(s) \in Nat
  OBVIOUS
<1>2. Append(s, j) \in Seq(Jobs) /\ Len(Append(s, j)) = Len(s) + 1
  BY AppendProperties
<1>3. Append(s, j) # <<>>
  BY <1>1, <1>2
<1> QED
  BY <1>1, <1>2, <1>3, AppendProperties

LEMMA ClaimDoes ==
  /\ Move("inflight") \in Doing /\ Create("inflight") \in Doing /\ Fire("CLAIM") \in Doing
  /\ Move("failed") \in Doing /\ Move("done") \in Doing
  BY DoTypes, EventNames DEF Directory

LEMMA CreateInflight ==
  ASSUME NEW j \in Jobs
  PROVE  LET s == For(j, <<Create("inflight")>>) IN
           s \in Seq(Task) /\ Len(s) = 1 /\ s[1] = [job |-> j, do |-> Create("inflight")]
  BY ClaimDoes, ForOne

LEMMA ClaimFileType ==
  ASSUME TypeOK, NEW j \in Jobs, ClaimFile(j)
  PROVE  TypeOK' /\ batch' # <<>>
<1> DEFINE S == {k \in Jobs : Sibling(k, j) /\ Ready(k)}
<1>1. batch' \in Seq(Jobs) /\ batch' # <<>>
  <2>1. batch' = <<j>> \o SetToSeq(S)
    BY DEF ClaimFile
  <2> HIDE DEF S
  <2>2. S \in SUBSET Jobs
    BY DEF S
  <2> QED
    BY <2>1, <2>2, BatchType
<1>2. todo' \in Seq(Task)
  <2>1. todo' = Rounds(batch', <<Move("inflight"), Fire("CLAIM")>>)
    BY DEF ClaimFile
  <2> QED
    BY <1>1, <2>1, ClaimDoes, RoundsOfTwo
<1>3. pc' \in Phase /\ UNCHANGED <<file, row, hook, tally, held, success, crashes, faults>>
  BY DEF ClaimFile, Phase
<1> QED
  BY <1>1, <1>2, <1>3 DEF TypeOK

LEMMA ClaimRowPlan ==
  ASSUME TypeOK, NEW j \in Jobs, ClaimRow(j)
  PROVE  /\ batch' \in Seq(Jobs) /\ batch' = <<j>> /\ todo' \in Seq(Task)
         /\ \A n \in 1..Len(todo') : todo'[n].do \in {Create("inflight"), DbClaim}
<1> DEFINE S == {k \in Jobs : Sibling(k, j) /\ Unseen(k)}
           f == For(j, <<Create("inflight")>>)
           g == Each(S, DbClaim)
<1>1. todo' = f \o g /\ batch' = <<j>>
  BY DEF ClaimRow
<1>2. f \in Seq(Task) /\ Len(f) = 1 /\ f[1].do = Create("inflight")
  <2>1. f \in Seq(Task) /\ Len(f) = 1 /\ f[1] = [job |-> j, do |-> Create("inflight")]
    BY CreateInflight
  <2> HIDE DEF f
  <2> QED
    BY <2>1
<1>3. g \in Seq(Task) /\ \A n \in 1..Len(g) : g[n].do = DbClaim
  <2> HIDE DEF S
  <2>1. S \in SUBSET Jobs
    BY DEF S
  <2> QED
    BY <2>1, DoTypes, EachSteps
<1> HIDE DEF f, g
<1>4. /\ f \o g \in Seq(Task) /\ Len(f \o g) = Len(f) + Len(g) /\ Len(g) \in Nat
      /\ \A n \in 1..(Len(f) + Len(g)) : (f \o g)[n] = IF n <= Len(f) THEN f[n] ELSE g[n - Len(f)]
  BY <1>2, <1>3, ConcatProperties, LenProperties
<1> QED
  BY <1>1, <1>2, <1>3, <1>4

LEMMA ClaimRowType ==
  ASSUME TypeOK, NEW j \in Jobs, ClaimRow(j)
  PROVE  TypeOK' /\ batch' # <<>>
<1>1. row' \in [Jobs -> RowState]
  BY AfterType, EventNames DEF TypeOK, ClaimRow
<1>2. pc' \in Phase /\ UNCHANGED <<file, hook, tally, held, success, crashes, faults>>
  BY DEF ClaimRow, Phase
<1>3. batch' \in Seq(Jobs) /\ todo' \in Seq(Task) /\ batch' = <<j>>
  BY ClaimRowPlan
<1> QED
  BY <1>1, <1>2, <1>3 DEF TypeOK

LEMMA StepType ==
  ASSUME TypeOK, Transit \/ TransitLost \/ MoveFile \/ CreateFile \/ CountSibling \/ ClaimSibling
  PROVE  TypeOK' /\ pc' = pc /\ (batch # <<>> => batch' # <<>>)
<1>0. todo # <<>>
  BY DEF Transit, TransitLost, MoveFile, CreateFile, CountSibling, ClaimSibling, Does
<1>1. CASE Transit
  <2>1. row' \in [Jobs -> RowState]
    <3>1. Head(todo).do.arg \in Event /\ Next1 \in Jobs
      BY <1>0, <1>1, HeadType DEF Transit, Does
    <3>2. row' = [row EXCEPT ![Next1] = After(@, Head(todo).do.arg)]
      BY <1>1 DEF Transit
    <3> QED
      BY <3>1, <3>2, AfterType DEF TypeOK
  <2>2. /\ todo' \in Seq(Task)
        /\ UNCHANGED <<file, hook, tally, held, pc, batch, success, crashes, faults>>
    BY <1>0, <1>1, HeadType DEF Transit, Pops
  <2> QED
    BY <2>1, <2>2 DEF TypeOK
<1>2. CASE TransitLost
  <2>1. todo' \in Seq(Task)
    <3>1. ASSUME NEW n \in 2..(Len(todo) + 1), todo' = SubSeq(todo, n, Len(todo))
          PROVE  todo' \in Seq(Task)
      <4>1. n \in Int /\ Len(todo) \in Int /\ \A k \in n..Len(todo) : todo[k] \in Task
        BY <3>1, LenProperties, ElementOfSeq DEF TypeOK
      <4> QED
        BY <3>1, <4>1, SubSeqProperties
    <3>2. CASE todo' = Tail(todo)
      BY <1>0, <3>2, HeadType
    <3> QED
      BY <1>2, <3>1, <3>2 DEF TransitLost
  <2>2. faults' \in 0..MaxDbFaults
    BY <1>2, Budgets DEF TypeOK, TransitLost
  <2>3. UNCHANGED <<file, tally, held, row, hook, pc, batch, success, crashes>>
    BY <1>2 DEF TransitLost
  <2> QED
    BY <2>1, <2>2, <2>3 DEF TypeOK
<1>3. CASE MoveFile
  <2>1. file' \in [Jobs -> Directory]
    BY <1>0, <1>3, HeadType DEF TypeOK, MoveFile, Does
  <2>2. /\ todo' \in Seq(Task)
        /\ UNCHANGED <<row, hook, tally, held, pc, batch, success, crashes, faults>>
    BY <1>0, <1>3, HeadType DEF MoveFile, Pops
  <2> QED
    BY <2>1, <2>2 DEF TypeOK
<1>4. CASE CreateFile
  <2>1. file' \in [Jobs -> Directory]
    BY <1>0, <1>4, HeadType DEF TypeOK, CreateFile, WriteFile, Does
  <2>2. tally' \in [Jobs -> 0..MaxRetry]
    <3>1. tally' = [tally EXCEPT ![Next1] = 0] /\ 0 \in 0..MaxRetry
      BY <1>4, Budgets DEF CreateFile, WriteFile
    <3> QED
      BY <3>1 DEF TypeOK
  <2>3. held' \in [Jobs -> BOOLEAN]
    BY <1>4 DEF TypeOK, CreateFile, WriteFile
  <2>4. /\ todo' \in Seq(Task)
        /\ UNCHANGED <<row, hook, pc, batch, success, crashes, faults>>
    BY <1>0, <1>4, HeadType DEF CreateFile, Pops
  <2> QED
    BY <2>1, <2>2, <2>3, <2>4 DEF TypeOK
<1>5. CASE CountSibling
  <2>1. tally' \in [Jobs -> 0..MaxRetry] /\ held' \in [Jobs -> BOOLEAN]
    BY <1>0, <1>5, HeadType, CountType DEF CountSibling
  <2>2. todo' \in Seq(Task) /\ UNCHANGED <<file, row, hook, pc, batch, success, crashes, faults>>
    BY <1>0, <1>5, HeadType DEF CountSibling, Pops
  <2> QED
    BY <2>1, <2>2 DEF TypeOK
<1>6. CASE ClaimSibling
  <2>1. row' \in [Jobs -> RowState]
    BY <1>6, AfterType, EventNames DEF TypeOK, ClaimSibling
  <2>2. batch' \in Seq(Jobs) /\ (batch # <<>> => batch' # <<>>)
    <3>1. batch' = batch \/ batch' = Append(batch, Next1)
      BY <1>6 DEF ClaimSibling
    <3>2. batch \in Seq(Jobs) /\ Next1 \in Jobs
      BY <1>0, HeadType DEF TypeOK
    <3>3. Append(batch, Next1) \in Seq(Jobs) /\ Append(batch, Next1) # <<>>
      BY <3>2, AppendType
    <3> QED
      BY <3>1, <3>2, <3>3
  <2>3. todo' \in Seq(Task)
    <3>1. todo' = Tail(todo) \/ todo' = For(Next1, <<Create("inflight")>>) \o Tail(todo)
      BY <1>6 DEF ClaimSibling
    <3> QED
      BY <1>0, <3>1, HeadType, CreateInflight, ConcatProperties
  <2>4. UNCHANGED <<file, hook, tally, held, pc, success, crashes, faults>>
    BY <1>6 DEF ClaimSibling
  <2> QED
    BY <2>1, <2>2, <2>3, <2>4 DEF TypeOK
<1> QED
  BY <1>1, <1>2, <1>3, <1>4, <1>5, <1>6

\* The state a start event leads to.
Started(kind) == Transition[StartEvent(kind)].to

\* Takes a row out of state s for good, as far as flight goes.
Lands(e, s) ==
  e \in Event \ {"CLAIM"} /\ s \in Transition[e].from /\ Transition[e].to \notin InFlight

\* Takes a row out of state s to a waypoint.
Passes(e, s) ==
  e \in Event \ {"CLAIM"} /\ s \in Transition[e].from /\ Transition[e].to \in InFlight

LEMMA SingleEvents ==
  /\ \A e \in {"SKIP_ORIGIN_LOCKED", "SKIP_ISSUE_MUTED", "ENV_TARGET_MISMATCH", "ENV_BROKEN",
               "TRIAGE_FAIL", "PROVIDER_UNAVAILABLE"} : Lands(e, Started("triage"))
  /\ \A e \in {"SKIP_ORIGIN_LOCKED", "SKIP_ISSUE_MUTED", "ENV_TARGET_MISMATCH", "ENV_BROKEN",
               "WORKTREE_UNAVAILABLE", "ESCALATE_MANUAL", "PATCH_BUDGET_OUT", "PATCH_GAVE_UP",
               "PROVIDER_UNAVAILABLE"} : Lands(e, Started("patch"))
  /\ \A e \in {"VERIFY_FIX_OK", "VERIFY_FIX_GAVE_UP"} : Lands(e, Started("verify"))
  BY EventNames DEF Lands, Started, StartEvent, Transition, From, InFlight

LEMMA WaypointEvents ==
  /\ Passes("TRIAGE_OK", Started("triage"))
  /\ Lands("TRIAGE_HANDOFF", Transition["TRIAGE_OK"].to)
  /\ Lands("ESCALATE_MANUAL", Transition["TRIAGE_OK"].to)
  /\ Passes("PATCH_OK", Started("patch")) /\ Lands("VERIFY_OK", Transition["PATCH_OK"].to)
  BY EventNames DEF Lands, Passes, Started, StartEvent, Transition, From, InFlight

\* The events of a report take the batch's rows out of flight: at once, or by
\* way of a waypoint.
Reported(events, s) ==
  \/ \E e \in Event : events = <<e>> /\ Lands(e, s)
  \/ \E e \in Event, f \in Event :
       events = <<e, f>> /\ Passes(e, s) /\ Lands(f, Transition[e].to)

LEMMA OutcomeEvents ==
  ASSUME NEW kind \in {"triage", "patch", "verify"}, NEW o \in Outcomes(kind)
  PROVE  o.ok \in BOOLEAN /\ Reported(o.events, Started(kind))
<1>1. ASSUME NEW e, NEW ok \in BOOLEAN, o = Outcome(<<e>>, ok), Lands(e, Started(kind))
      PROVE  o.ok \in BOOLEAN /\ Reported(o.events, Started(kind))
  BY <1>1 DEF Outcome, Reported, Lands
<1>2. ASSUME NEW e, NEW f, NEW ok \in BOOLEAN, o = Outcome(<<e, f>>, ok),
             Passes(e, Started(kind)), Lands(f, Transition[e].to)
      PROVE  o.ok \in BOOLEAN /\ Reported(o.events, Started(kind))
  BY <1>2 DEF Outcome, Reported, Lands, Passes
<1>3. CASE kind = "triage"
  <2>1. o \in Outcomes("triage")
    BY <1>3
  <2>2. \/ o = Outcome(<<"SKIP_ORIGIN_LOCKED">>, TRUE) \/ o = Outcome(<<"SKIP_ISSUE_MUTED">>, TRUE)
        \/ o = Outcome(<<"ENV_TARGET_MISMATCH">>, FALSE) \/ o = Outcome(<<"ENV_BROKEN">>, TRUE)
        \/ o = Outcome(<<"TRIAGE_FAIL">>, FALSE)
        \/ o = Outcome(<<"TRIAGE_OK", "ESCALATE_MANUAL">>, TRUE)
    BY <2>1 DEF Outcomes
  <2> QED
    BY <1>1, <1>2, <1>3, <2>2, SingleEvents, WaypointEvents
<1>4. CASE kind = "patch"
  <2>1. o \in Outcomes("patch")
    BY <1>4
  <2>2. \/ o = Outcome(<<"SKIP_ORIGIN_LOCKED">>, TRUE) \/ o = Outcome(<<"SKIP_ISSUE_MUTED">>, TRUE)
        \/ o = Outcome(<<"ENV_TARGET_MISMATCH">>, FALSE) \/ o = Outcome(<<"ENV_BROKEN">>, TRUE)
        \/ o = Outcome(<<"WORKTREE_UNAVAILABLE">>, FALSE)
        \/ o = Outcome(<<"PATCH_OK", "VERIFY_OK">>, TRUE)
        \/ o = Outcome(<<"ESCALATE_MANUAL">>, TRUE) \/ o = Outcome(<<"PATCH_BUDGET_OUT">>, TRUE)
        \/ o = Outcome(<<"PATCH_GAVE_UP">>, TRUE) \/ o = Outcome(<<"PATCH_GAVE_UP">>, FALSE)
    BY <2>1 DEF Outcomes
  <2> QED
    BY <1>1, <1>2, <1>4, <2>2, SingleEvents, WaypointEvents
<1>5. CASE kind = "verify"
  <2>1. o \in Outcomes("verify")
    BY <1>5
  <2>2. o = Outcome(<<"VERIFY_FIX_OK">>, TRUE) \/ o = Outcome(<<"VERIFY_FIX_GAVE_UP">>, FALSE)
    BY <2>1 DEF Outcomes
  <2> QED
    BY <1>1, <1>5, <2>2, SingleEvents
<1> QED
  BY <1>3, <1>4, <1>5

\* The report of a batch, one or two events each.
LEMMA ReportOfOne ==
  ASSUME TypeOK, batch # <<>>, NEW e \in Event
  PROVE  Rounds(batch, Fires(<<e>>)) = Rounds(batch, <<Fire(e)>>) /\ Fire(e) \in Doing
<1>1. Fires(<<e>>) = <<Fire(e)>>
  BY DEF Fires
<1> QED
  BY <1>1, DoTypes

LEMMA ReportOfTwo ==
  ASSUME TypeOK, batch # <<>>, NEW e \in Event, NEW f \in Event
  PROVE  /\ Rounds(batch, Fires(<<e, f>>)) = Rounds(batch, <<Fire(e), Fire(f)>>)
         /\ Fire(e) \in Doing /\ Fire(f) \in Doing
<1>1. Fires(<<e, f>>) = <<Fire(e), Fire(f)>>
  BY DEF Fires
<1> QED
  BY <1>1, DoTypes

LEMMA ReportType ==
  ASSUME TypeOK, batch # <<>>, NEW events,
         \/ \E e \in Event : events = <<e>>
         \/ \E e \in Event, f \in Event : events = <<e, f>>
  PROVE  Rounds(batch, Fires(events)) \in Seq(Task)
<1>1. ASSUME NEW e \in Event, events = <<e>>
      PROVE  Rounds(batch, Fires(events)) \in Seq(Task)
  BY <1>1, ReportOfOne, RoundsOfOne DEF TypeOK
<1>2. ASSUME NEW e \in Event, NEW f \in Event, events = <<e, f>>
      PROVE  Rounds(batch, Fires(events)) \in Seq(Task)
  BY <1>2, ReportOfTwo, RoundsOfTwo DEF TypeOK
<1> QED
  BY <1>1, <1>2

\* The event the lead reports when the provider failed.
ProviderEvent ==
  IF RetriesLeft(Lead) THEN "PROVIDER_UNAVAILABLE"
  ELSE IF Kind[Lead] = "triage" THEN "TRIAGE_FAIL" ELSE "PATCH_GAVE_UP"

LEMMA ProviderPlan ==
  ASSUME ProviderFails
  PROVE  /\ ProviderEvent \in Event
         /\ todo' = <<>> \o Rounds(batch, Fires(<<ProviderEvent>>)) /\ success' = FALSE
<1>1. ProviderEvent \in Event
  BY EventNames DEF ProviderEvent
<1>2. /\ todo' = <<>> \o Rounds(batch, Fires(Outcome(<<ProviderEvent>>, FALSE).events))
      /\ success' = Outcome(<<ProviderEvent>>, FALSE).ok
  BY DEF ProviderFails, Reports, ProviderEvent
<1> QED
  BY <1>1, <1>2 DEF Outcome

LEMMA PhaseType ==
  ASSUME TypeOK, LeadInHand, Start \/ Begin \/ Finish \/ ProviderFails \/ Retire \/ Idle
  PROVE  TypeOK'
<1>1. CASE Start
  <2>1. PICK old \in SUBSET Stale :
          todo' = Each(Orphans, Reap) \o Each(Stranded, Move("failed")) \o Each(old, ReapStale)
    BY <1>1 DEF Start
  <2>2. todo' \in Seq(Task)
    BY <2>1, StartPlan, ConcatProperties
  <2>3. pc' \in Phase /\ UNCHANGED <<file, row, hook, tally, held, batch, success, crashes, faults>>
    BY <1>1 DEF Start, Phase
  <2> QED
    BY <2>2, <2>3 DEF TypeOK
<1>2. CASE Begin
  <2>1. batch # <<>>
    BY <1>2 DEF LeadInHand, Begin
  <2>2. StartEvent(Kind[Lead]) \in Event
    BY <2>1, LeadType, EventNames DEF StartEvent
  <2>3. todo' \in Seq(Task)
    BY <1>2, <2>1, <2>2, ReportType DEF Begin
  <2>4. pc' \in Phase /\ UNCHANGED <<file, row, hook, tally, held, batch, success, crashes, faults>>
    BY <1>2 DEF Begin, Phase
  <2> QED
    BY <2>3, <2>4 DEF TypeOK
<1>3. CASE Finish
  <2>1. batch # <<>>
    BY <1>3 DEF LeadInHand, Finish, Running
  <2>2. PICK o \in Outcomes(Kind[Lead]) : Reports(<<>>, o)
    BY <1>3 DEF Finish
  <2>3. success' \in BOOLEAN
    BY <2>1, <2>2, LeadType, OutcomeEvents DEF Reports
  <2>4. todo' \in Seq(Task)
    <3>1. Rounds(batch, Fires(o.events)) \in Seq(Task)
      <4>1. Reported(o.events, Started(Kind[Lead]))
        BY <2>1, LeadType, OutcomeEvents
      <4> QED
        BY <2>1, <4>1, ReportType DEF Reported
    <3> QED
      BY <2>2, <3>1, ConcatEmptySeq DEF Reports
  <2>5. pc' \in Phase /\ UNCHANGED <<file, row, hook, tally, held, batch, crashes, faults>>
    BY <1>3, <2>2 DEF Finish, Reports, Phase
  <2> QED
    BY <2>3, <2>4, <2>5 DEF TypeOK
<1>4. CASE ProviderFails
  <2>1. batch # <<>>
    BY <1>4 DEF LeadInHand, ProviderFails, Running
  <2>2. todo' \in Seq(Task)
    <3>1. Rounds(batch, Fires(<<ProviderEvent>>)) \in Seq(Task)
      BY <1>4, <2>1, ProviderPlan, ReportType
    <3> QED
      BY <1>4, <3>1, ProviderPlan, ConcatEmptySeq
  <2>3. tally' \in [Jobs -> 0..MaxRetry] /\ held' \in [Jobs -> BOOLEAN]
    BY <1>4, <2>1, LeadType, CountType DEF ProviderFails
  <2>4. success' \in BOOLEAN
    BY <1>4, ProviderPlan
  <2>5. pc' \in Phase /\ UNCHANGED <<file, row, hook, batch, crashes, faults>>
    BY <1>4 DEF ProviderFails, Reports, Phase
  <2> QED
    BY <2>2, <2>3, <2>4, <2>5 DEF TypeOK
<1>5. CASE Retire
  <2>1. batch # <<>>
    BY <1>5 DEF LeadInHand, Retire
  <2>2. \/ todo' = Rounds(batch, <<Move("done")>>) \/ todo' = Requeue
        \/ todo' = Rounds(batch, <<Move("failed")>>)
    BY <1>5 DEF Retire
  <2>3. todo' \in Seq(Task)
    BY <2>1, <2>2, ClaimDoes, RequeueType, RoundsOfOne DEF TypeOK
  <2>4. pc' \in Phase /\ UNCHANGED <<file, row, hook, tally, held, batch, success, crashes, faults>>
    BY <1>5 DEF Retire, Phase
  <2> QED
    BY <2>3, <2>4 DEF TypeOK
<1>6. CASE Idle
  <2>1. batch' \in Seq(Jobs)
    BY <1>6, EmptySeq DEF Idle
  <2>2. pc' \in Phase /\ success' \in BOOLEAN
    BY <1>6 DEF Idle, Phase
  <2> QED
    BY <1>6, <2>1, <2>2 DEF TypeOK, Idle
<1> QED
  BY <1>1, <1>2, <1>3, <1>4, <1>5, <1>6

\* Triage enqueues the patch job and then reports.
LEMMA HandoffPlan ==
  ASSUME TypeOK, LeadInHand, NEW p \in Jobs, Handoff(p)
  PROVE  LET s == For(p, <<Create("pending"), Fire("HOOK_ENQUEUED")>>)
             t == Rounds(batch, <<Fire("TRIAGE_OK"), Fire("TRIAGE_HANDOFF")>>) IN
         /\ batch # <<>> /\ todo' = s \o t /\ s \in Seq(Task) /\ t \in Seq(Task)
<1> DEFINE s == For(p, <<Create("pending"), Fire("HOOK_ENQUEUED")>>)
           t == Rounds(batch, <<Fire("TRIAGE_OK"), Fire("TRIAGE_HANDOFF")>>)
<1>1. batch # <<>>
  BY DEF LeadInHand, Handoff, Running
<1>2. todo' = s \o Rounds(batch, Fires(<<"TRIAGE_OK", "TRIAGE_HANDOFF">>))
  BY DEF Handoff, Reports, HandedOff, Outcome
<1>3. "TRIAGE_OK" \in Event /\ "TRIAGE_HANDOFF" \in Event
  BY EventNames
<1>4. /\ Rounds(batch, Fires(<<"TRIAGE_OK", "TRIAGE_HANDOFF">>)) = t
      /\ Fire("TRIAGE_OK") \in Doing /\ Fire("TRIAGE_HANDOFF") \in Doing
  BY <1>1, <1>3, ReportOfTwo
<1>5. t \in Seq(Task)
  BY <1>4, RoundsOfTwo DEF TypeOK
<1>6. s \in Seq(Task)
  BY RequestPlan
<1> QED
  BY <1>1, <1>2, <1>4, <1>5, <1>6

LEMMA HandoffType ==
  ASSUME TypeOK, LeadInHand, NEW p \in Jobs, Handoff(p)
  PROVE  TypeOK'
<1>1. todo' \in Seq(Task)
  BY HandoffPlan, ConcatProperties
<1>2. success' \in BOOLEAN
  BY DEF Handoff, Reports, HandedOff, Outcome
<1>3. pc' \in Phase /\ UNCHANGED <<file, row, hook, tally, held, batch, crashes, faults>>
  BY DEF Handoff, Reports, Phase
<1> QED
  BY <1>1, <1>2, <1>3 DEF TypeOK

LEMMA RequestType ==
  ASSUME TypeOK, NEW j \in Jobs, Request(j)
  PROVE  TypeOK'
<1>1. todo' \in Seq(Task)
  BY RequestPlan DEF Request
<1>2. hook' \in [Jobs -> {"idle", "posting", "posted"}]
  BY DEF TypeOK, Request
<1>3. pc' \in Phase /\ UNCHANGED <<file, row, tally, held, batch, success, crashes, faults>>
  BY DEF Request, Phase
<1> QED
  BY <1>1, <1>2, <1>3 DEF TypeOK

LEMMA CrashType ==
  ASSUME TypeOK, Crash
  PROVE  TypeOK'
<1>1. crashes' \in 0..MaxCrashes
  BY Budgets DEF TypeOK, Crash
<1>2. batch' \in Seq(Jobs) /\ todo' \in Seq(Task)
  BY EmptySeq DEF Crash
<1>3. pc' \in Phase /\ success' \in BOOLEAN
  BY DEF Crash, Phase
<1>4. UNCHANGED <<file, row, hook, tally, held, faults>>
  BY DEF Crash
<1> QED
  BY <1>1, <1>2, <1>3, <1>4 DEF TypeOK

LEMMA TypeStep ==
  ASSUME TypeOK, LeadInHand, [Next]_vars
  PROVE  TypeOK' /\ LeadInHand'
<1>1. CASE Start \/ Begin \/ Finish \/ ProviderFails \/ Retire \/ Idle
  <2>1. LeadInHand'
    BY <1>1 DEF LeadInHand, Start, Begin, Finish, Running, Reports, ProviderFails, Retire, Idle
  <2> QED
    BY <1>1, <2>1, PhaseType
<1>2. CASE Transit \/ TransitLost \/ MoveFile \/ CreateFile \/ CountSibling \/ ClaimSibling
  BY <1>2, StepType DEF LeadInHand
<1>3. ASSUME NEW j \in Jobs, ClaimFile(j) \/ ClaimRow(j)
      PROVE  TypeOK' /\ LeadInHand'
  BY <1>3, ClaimFileType, ClaimRowType DEF LeadInHand
<1>4. ASSUME NEW p \in Jobs, Handoff(p)
      PROVE  TypeOK' /\ LeadInHand'
  <2>1. LeadInHand'
    BY <1>4 DEF LeadInHand, Handoff, Running, Reports
  <2> QED
    BY <1>4, <2>1, HandoffType
<1>5. ASSUME NEW j \in Jobs,
             HookWrites(j) \/ HookPosts(j) \/ HookPostLost(j) \/ Abandon(j) \/ Elapse(j)
      PROVE  TypeOK' /\ LeadInHand'
  <2>1. LeadInHand'
    BY <1>5 DEF LeadInHand, HookWrites, HookPosts, HookPostLost, Abandon, Elapse
  <2> QED
    BY <1>5, <2>1, WorldType
<1>6. ASSUME NEW j \in Jobs, Request(j)
      PROVE  TypeOK' /\ LeadInHand'
  <2>1. LeadInHand'
    BY <1>6 DEF LeadInHand, Request
  <2> QED
    BY <1>6, <2>1, RequestType
<1>7. CASE Crash
  <2>1. LeadInHand'
    BY <1>7 DEF LeadInHand, Crash
  <2> QED
    BY <1>7, <2>1, CrashType
<1>8. CASE UNCHANGED vars
  BY <1>8 DEF TypeOK, LeadInHand, vars
<1> QED
  BY <1>1, <1>2, <1>3, <1>4, <1>5, <1>6, <1>7, <1>8 DEF Next, Runner, World

\* Every variable keeps its type, and no job is counted past its retry budget.
THEOREM QueueTypeCorrect == Spec => []TypeOK
<1>1. Init => TypeOK /\ LeadInHand
  BY InitType DEF Init, LeadInHand
<1>2. TypeOK /\ LeadInHand /\ [Next]_vars => (TypeOK /\ LeadInHand)'
  BY TypeStep
<1> QED
  BY <1>1, <1>2, PTL DEF Spec

(***************************************************************************)
(* Rows in flight are held.  The strengthening says which steps each phase *)
(* has, that a waypoint is followed by an event that leaves it, and where  *)
(* every row in flight stands in its phase.                                *)
(***************************************************************************)
Allowed(t) ==
  /\ pc \notin {"down", "idle"}
  /\ pc = "recover" => t.do \in {Reap, ReapStale} \/ t.do.op = "move"
  /\ pc = "enqueue" => t.do = Fire("HOOK_ENQUEUED") \/ t.do.op = "create"
  /\ pc = "claim" => \/ t.do = Fire("CLAIM") /\ InBatch(t.job)
                     \/ t.do.op \in {"move", "create", "dbclaim"}
  /\ pc = "start" => t.do = Fire(StartEvent(Kind[Lead]))
  /\ pc = "report" => (t.do.op = "fire" /\ t.do.arg # "CLAIM") \/ t.do.op = "create"
  /\ pc = "retire" => t.do.op \in {"move", "count"}

StepsOfPhase == \A n \in 1..Len(todo) : Allowed(todo[n])

\* The step t takes job j out of state s.
Leaves(t, j, s) == t.job = j /\ t.do.op = "fire" /\ s \in Transition[t.do.arg].from

PassesOn(seq) ==
  \A m \in 1..Len(seq) :
    seq[m].do.op = "fire" /\ Transition[seq[m].do.arg].to \in InFlight =>
      \E n \in (m + 1)..Len(seq) : Leaves(seq[n], seq[m].job, Transition[seq[m].do.arg].to)

WaypointsPass == pc = "report" => PassesOn(todo)

\* Where the row of j stands, when it is in flight.
RowOfPhase(j) ==
  /\ pc \in {"down", "recover"} \/ (pc \in {"claim", "start", "report"} /\ InBatch(j))
  /\ pc = "recover" => \E n \in 1..Len(todo) : todo[n].job = j /\ todo[n].do = Reap
  /\ pc = "claim" => row[j] = "claimed"
  /\ pc = "start" => \/ row[j] = Started(Kind[Lead])
                     \/ row[j] = "claimed" /\ \E n \in 1..Len(todo) : todo[n].job = j
  /\ pc = "report" => \E n \in 1..Len(todo) : Leaves(todo[n], j, row[j])

RowsOfPhase == faults = 0 => \A j \in Jobs : row[j] \in InFlight => RowOfPhase(j)

FlightInvariant == LeadInHand /\ StepsOfPhase /\ WaypointsPass /\ RowsOfPhase

\* todo lost its first k steps.
Drops(k) ==
  /\ k \in 1..Len(todo) /\ Len(todo') = Len(todo) - k
  /\ \A n \in 1..Len(todo') : n + k \in 1..Len(todo) /\ todo'[n] = todo[n + k]

LEMMA PopDrops ==
  ASSUME TypeOK, todo # <<>>, todo' = Tail(todo)
  PROVE  Drops(1)
<1>1. Len(todo) \in Nat
  BY DEF TypeOK
<1> QED
  BY <1>1, HeadType DEF Drops

LEMMA SubSeqDrops ==
  ASSUME TypeOK, todo # <<>>, NEW n \in 2..(Len(todo) + 1), todo' = SubSeq(todo, n, Len(todo))
  PROVE  Drops(n - 1)
<1>1. Len(todo) \in Nat /\ Len(todo) >= 1
  BY HeadType DEF TypeOK
<1>2. \A k \in n..Len(todo) : todo[k] \in Task
  BY <1>1, ElementOfSeq DEF TypeOK
<1>3. /\ Len(todo') = (IF n <= Len(todo) THEN Len(todo) - n + 1 ELSE 0)
      /\ \A k \in 1..(Len(todo) - n + 1) : todo'[k] = todo[n + k - 1]
  BY <1>1, <1>2, SubSeqProperties
<1> QED
  BY <1>1, <1>3 DEF Drops

\* Every step of todo that is taken or lost.
LEMMA StepDrops ==
  ASSUME TypeOK, Transit \/ TransitLost \/ MoveFile \/ CreateFile \/ CountSibling
  PROVE  /\ todo # <<>> /\ UNCHANGED <<pc, batch>>
         /\ \E k \in 1..Len(todo) : Drops(k)
         /\ ~TransitLost => Drops(1)
<1>1. todo # <<>> /\ UNCHANGED <<pc, batch>>
  BY DEF Transit, TransitLost, MoveFile, CreateFile, CountSibling, Does, Pops
<1>2. Len(todo) >= 1 /\ Len(todo) \in Nat
  BY <1>1, HeadType DEF TypeOK
<1>3. CASE todo' = Tail(todo)
  BY <1>1, <1>2, <1>3, PopDrops
<1>4. ASSUME NEW n \in 2..(Len(todo) + 1), todo' = SubSeq(todo, n, Len(todo)), TransitLost
      PROVE  \E k \in 1..Len(todo) : Drops(k)
  <2>1. Drops(n - 1) /\ n - 1 \in 1..Len(todo)
    BY <1>1, <1>2, <1>4, SubSeqDrops
  <2> QED
    BY <2>1
<1>5. \/ todo' = Tail(todo)
      \/ TransitLost /\ \E n \in 2..(Len(todo) + 1) : todo' = SubSeq(todo, n, Len(todo))
  BY DEF Transit, TransitLost, MoveFile, CreateFile, CountSibling, Pops
<1> QED
  BY <1>1, <1>3, <1>4, <1>5

LEMMA FireFields == \A e : Fire(e).op = "fire" /\ Fire(e).arg = e
  BY DEF Fire, Step

\* The report of a batch leaves no row in flight behind.
LEMMA ReportRounds ==
  ASSUME TypeOK, batch # <<>>, NEW events, NEW s, Reported(events, s), NEW t,
         t = Rounds(batch, Fires(events))
  PROVE  /\ t \in Seq(Task) /\ PassesOn(t)
         /\ \A m \in 1..Len(t) : t[m].do.op = "fire" /\ t[m].do.arg # "CLAIM"
         /\ \A i \in 1..Len(batch) : \E n \in 1..Len(t) : Leaves(t[n], batch[i], s)
<1>0. batch \in Seq(Jobs) /\ Len(batch) \in Nat
  BY DEF TypeOK
<1>1. ASSUME NEW e \in Event, events = <<e>>, Lands(e, s)
      PROVE  /\ t \in Seq(Task) /\ PassesOn(t)
             /\ \A m \in 1..Len(t) : t[m].do.op = "fire" /\ t[m].do.arg # "CLAIM"
             /\ \A i \in 1..Len(batch) : \E n \in 1..Len(t) : Leaves(t[n], batch[i], s)
  <2>0. t = Rounds(batch, <<Fire(e)>>) /\ Fire(e) \in Doing
    BY <1>1, ReportOfOne
  <2>1. /\ t \in Seq(Task) /\ Len(t) = Len(batch)
        /\ \A n \in 1..Len(batch) : t[n] = [job |-> batch[n], do |-> Fire(e)]
    BY <1>0, <2>0, RoundsOfOne
  <2>2. \A n \in 1..Len(batch) :
          t[n].job = batch[n] /\ t[n].do.op = "fire" /\ t[n].do.arg = e
    <3> TAKE n \in 1..Len(batch)
    <3>1. t[n] = [job |-> batch[n], do |-> Fire(e)]
      BY <2>1
    <3> QED
      BY <3>1, FireFields
  <2> QED
    BY <1>1, <2>1, <2>2 DEF PassesOn, Leaves, Lands
<1>2. ASSUME NEW e \in Event, NEW f \in Event, events = <<e, f>>,
             Passes(e, s), Lands(f, Transition[e].to)
      PROVE  /\ t \in Seq(Task) /\ PassesOn(t)
             /\ \A m \in 1..Len(t) : t[m].do.op = "fire" /\ t[m].do.arg # "CLAIM"
             /\ \A i \in 1..Len(batch) : \E n \in 1..Len(t) : Leaves(t[n], batch[i], s)
  <2>1. t = Rounds(batch, <<Fire(e), Fire(f)>>) /\ Fire(e) \in Doing /\ Fire(f) \in Doing
    BY <1>2, ReportOfTwo
  <2>2. /\ t \in Seq(Task) /\ Len(t) = 2 * Len(batch)
        /\ \A n \in 1..Len(batch) :
             /\ t[2 * n - 1] = [job |-> batch[n], do |-> Fire(e)]
             /\ t[2 * n] = [job |-> batch[n], do |-> Fire(f)]
        /\ \A m \in 1..(2 * Len(batch)) : \E n \in 1..Len(batch) : m = 2 * n - 1 \/ m = 2 * n
    BY <1>0, <2>1, RoundsOfTwo
  <2>3. \A n \in 1..Len(batch) :
          /\ t[2 * n - 1].job = batch[n] /\ t[2 * n].job = batch[n]
          /\ t[2 * n - 1].do.op = "fire" /\ t[2 * n - 1].do.arg = e
          /\ t[2 * n].do.op = "fire" /\ t[2 * n].do.arg = f
    <3> TAKE n \in 1..Len(batch)
    <3>1. /\ t[2 * n - 1] = [job |-> batch[n], do |-> Fire(e)]
          /\ t[2 * n] = [job |-> batch[n], do |-> Fire(f)]
      BY <2>2
    <3> QED
      BY <3>1, FireFields
  <2>4. \A m \in 1..Len(t) : t[m].do.op = "fire" /\ t[m].do.arg # "CLAIM"
    <3> TAKE m \in 1..Len(t)
    <3>1. PICK n \in 1..Len(batch) : m = 2 * n - 1 \/ m = 2 * n
      BY <2>2
    <3> QED
      BY <1>2, <2>3, <3>1 DEF Passes, Lands
  <2>5. \A i \in 1..Len(batch) : \E n \in 1..Len(t) : Leaves(t[n], batch[i], s)
    <3> TAKE i \in 1..Len(batch)
    <3>1. 2 * i - 1 \in 1..Len(t)
      BY <1>0, <2>2
    <3>2. Leaves(t[2 * i - 1], batch[i], s)
      BY <1>2, <2>3 DEF Leaves, Passes
    <3> QED
      BY <3>1, <3>2
  <2>6. PassesOn(t)
    <3> SUFFICES ASSUME NEW m \in 1..Len(t), t[m].do.op = "fire",
                        Transition[t[m].do.arg].to \in InFlight
                 PROVE  \E n \in (m + 1)..Len(t) :
                          Leaves(t[n], t[m].job, Transition[t[m].do.arg].to)
      BY DEF PassesOn
    <3>1. PICK i \in 1..Len(batch) : m = 2 * i - 1 \/ m = 2 * i
      BY <2>2
    <3>2. m = 2 * i - 1
      BY <1>2, <2>3, <3>1 DEF Lands
    <3>3. 2 * i \in (m + 1)..Len(t)
      BY <1>0, <2>2, <3>2
    <3>4. Leaves(t[2 * i], t[m].job, Transition[t[m].do.arg].to)
      BY <1>2, <2>3, <3>2 DEF Leaves, Lands
    <3> QED
      BY <3>3, <3>4
  <2> QED
    BY <2>2, <2>4, <2>5, <2>6
<1> QED
  BY <1>1, <1>2 DEF Reported

(***************************************************************************)
(* The steps of a phase.                                                   *)
(***************************************************************************)
LEMMA EventFacts ==
  /\ Transition["REAP_ORPHAN"].to \notin InFlight
  /\ InFlight \subseteq Transition["REAP_ORPHAN"].from
  /\ Transition["HOOK_ENQUEUED"].to \notin InFlight
  /\ Transition["ABANDON"].to \notin InFlight
  /\ Transition["CLAIM"].to = "claimed" /\ "claimed" \in InFlight
  /\ "queued" \in Transition["CLAIM"].from /\ "queued" \notin InFlight
  BY DEF Transition, From, InFlight

LEMMA StartFacts ==
  ASSUME NEW kind \in {"triage", "patch", "verify"}
  PROVE  /\ StartEvent(kind) \in Event /\ "claimed" \in Transition[StartEvent(kind)].from
         /\ Transition[StartEvent(kind)].from \subseteq InFlight
         /\ Started(kind) \notin Transition[StartEvent(kind)].from
  BY EventNames DEF Started, StartEvent, Transition, From, InFlight

LEMMA DoFields ==
  /\ Reap.op = "reap" /\ Reap.arg = "REAP_ORPHAN" /\ ReapStale.op = "stale"
  /\ ReapStale.arg = "REAP_ORPHAN" /\ DbClaim.op = "dbclaim" /\ Count.op = "count"
  /\ \A d : Move(d).op = "move" /\ Create(d).op = "create"
  BY DEF Reap, ReapStale, DbClaim, Count, Move, Create, Step

\* What the head of todo is, in the phase the runner is in.
LEMMA HeadAllowed ==
  ASSUME TypeOK, StepsOfPhase, todo # <<>>
  PROVE  Allowed(Head(todo)) /\ Head(todo) = todo[1] /\ 1 \in 1..Len(todo)
<1>1. Head(todo) = todo[1] /\ Len(todo) >= 1 /\ Len(todo) \in Nat
  BY HeadType DEF TypeOK
<1> QED
  BY <1>1 DEF StepsOfPhase

LEMMA ClaimSiblingPlan ==
  ASSUME TypeOK, StepsOfPhase, ClaimSibling, NEW k, k = Next1
  PROVE  /\ pc = "claim" /\ pc' = "claim" /\ todo # <<>>
         /\ \A j \in Jobs : InBatch(j) => InBatch(j)'
         /\ row[k] = "queued" => InBatch(k)'
         /\ \A n \in 1..Len(todo') :
              \/ todo'[n].do = Create("inflight") /\ todo'[n].job = k
              \/ \E m \in 1..Len(todo) : todo'[n] = todo[m]
<1>1. todo # <<>> /\ Head(todo).do.op = "dbclaim" /\ pc' = pc
  BY DEF ClaimSibling, Does
<1>2. Allowed(Head(todo))
  BY <1>1, HeadAllowed
<1>3. pc = "claim"
  <2>1. pc \in Phase
    BY DEF TypeOK
  <2>2. Fire("HOOK_ENQUEUED").op = "fire" /\ Fire(StartEvent(Kind[Lead])).op = "fire"
    BY FireFields
  <2> QED
    BY <1>1, <1>2, <2>1, <2>2, DoFields DEF Allowed, Phase
<1>4. Next1 \in Jobs /\ batch \in Seq(Jobs) /\ Len(batch) \in Nat
  BY <1>1, HeadType DEF TypeOK
<1>5. \/ batch' = batch /\ row[Next1] # "queued" /\ todo' = Tail(todo)
      \/ batch' = Append(batch, Next1) /\ todo' = For(Next1, <<Create("inflight")>>) \o Tail(todo)
  BY DEF ClaimSibling
<1>6. /\ \A j \in Jobs : InBatch(j) => InBatch(j)'
      /\ row[k] = "queued" => InBatch(k)'
  <2>1. CASE batch' = batch /\ row[Next1] # "queued"
    BY <2>1 DEF InBatch
  <2>2. CASE batch' = Append(batch, Next1)
    <3>1. /\ Len(batch') = Len(batch) + 1 /\ batch'[Len(batch) + 1] = Next1
          /\ \A n \in 1..Len(batch) : batch'[n] = batch[n]
      BY <1>4, <2>2, AppendType
    <3>2. InBatch(k)'
      BY <1>4, <3>1 DEF InBatch
    <3>3. ASSUME NEW j \in Jobs, InBatch(j) PROVE InBatch(j)'
      BY <1>4, <3>1, <3>3 DEF InBatch
    <3> QED
      BY <3>2, <3>3
  <2> QED
    BY <1>5, <2>1, <2>2
<1>7. ASSUME NEW n \in 1..Len(todo')
      PROVE  \/ todo'[n].do = Create("inflight") /\ todo'[n].job = k
             \/ \E m \in 1..Len(todo) : todo'[n] = todo[m]
  <2>0. /\ Tail(todo) \in Seq(Task) /\ Len(Tail(todo)) \in Nat
        /\ \A m \in 1..Len(Tail(todo)) : m + 1 \in 1..Len(todo) /\ Tail(todo)[m] = todo[m + 1]
    BY <1>1, HeadType, LenProperties
  <2>1. CASE todo' = Tail(todo)
    BY <1>7, <2>0, <2>1
  <2>2. CASE todo' = For(Next1, <<Create("inflight")>>) \o Tail(todo)
    <3> DEFINE f == For(Next1, <<Create("inflight")>>)
               g == Tail(todo)
    <3>0. g \in Seq(Task)
      BY <2>0
    <3>1. /\ f \in Seq(Task) /\ Len(f) = 1
          /\ f[1] = [job |-> Next1, do |-> Create("inflight")]
      BY <1>4, CreateInflight
    <3> HIDE DEF f, g
    <3>2. f[1].do = Create("inflight") /\ f[1].job = k
      BY <3>1
    <3>3. /\ Len(f \o g) = Len(f) + Len(g)
          /\ \A m \in 1..(Len(f) + Len(g)) :
               (f \o g)[m] = IF m <= Len(f) THEN f[m] ELSE g[m - Len(f)]
      BY <3>0, <3>1, ConcatProperties
    <3>4. todo' = f \o g
      BY <2>2 DEF f, g
    <3>5. CASE n = 1
      BY <2>0, <3>1, <3>2, <3>3, <3>4, <3>5 DEF g
    <3>6. CASE n # 1
      <4>1. n - 1 \in 1..Len(Tail(todo)) /\ todo'[n] = Tail(todo)[n - 1]
        BY <1>7, <2>0, <3>1, <3>3, <3>4, <3>6 DEF g
      <4> QED
        BY <2>0, <4>1
    <3> QED
      BY <3>5, <3>6
  <2> QED
    BY <1>5, <2>1, <2>2
<1> QED
  BY <1>1, <1>3, <1>6, <1>7

LEMMA StepsKept ==
  ASSUME TypeOK, StepsOfPhase,
         Transit \/ TransitLost \/ MoveFile \/ CreateFile \/ CountSibling \/ ClaimSibling
  PROVE  StepsOfPhase'
<1>1. CASE Transit \/ TransitLost \/ MoveFile \/ CreateFile \/ CountSibling
  <2>1. PICK k \in 1..Len(todo) : Drops(k)
    BY <1>1, StepDrops
  <2>2. UNCHANGED <<pc, batch>>
    BY <1>1, StepDrops
  <2>3. ASSUME NEW n \in 1..Len(todo') PROVE Allowed(todo[n])'
    <3>1. Allowed(todo[n + k]) /\ todo'[n] = todo[n + k]
      BY <2>1, <2>3 DEF Drops, StepsOfPhase
    <3> QED
      BY <2>2, <3>1 DEF Allowed, InBatch, Lead
  <2> QED
    BY <2>3 DEF StepsOfPhase
<1>2. CASE ClaimSibling
  <2> SUFFICES ASSUME NEW n \in 1..Len(todo') PROVE Allowed(todo[n])'
    BY DEF StepsOfPhase
  <2>0. pc = "claim" /\ pc' = "claim" /\ todo # <<>>
    BY <1>2, ClaimSiblingPlan
  <2>1. CASE todo'[n].do = Create("inflight")
    BY <2>0, <2>1, DoFields DEF Allowed
  <2>2. ASSUME NEW m \in 1..Len(todo), todo'[n] = todo[m]
        PROVE  Allowed(todo[n])'
    <3> DEFINE j == todo[m].job
    <3>1. Allowed(todo[m]) /\ j \in Jobs
      <4>1. todo[m] \in Task
        BY ElementOfSeq DEF TypeOK
      <4> QED
        BY <4>1 DEF StepsOfPhase, Task
    <3>2. \/ todo[m].do = Fire("CLAIM") /\ InBatch(j)
          \/ todo[m].do.op \in {"move", "create", "dbclaim"}
      BY <2>0, <3>1 DEF Allowed
    <3>3. InBatch(j) => \E i \in 1..Len(batch') : batch'[i] = j
      BY <1>2, <3>1, ClaimSiblingPlan DEF InBatch
    <3> QED
      BY <2>0, <2>2, <3>2, <3>3 DEF Allowed, InBatch
  <2> QED
    BY <1>2, <2>1, <2>2, ClaimSiblingPlan
<1> QED
  BY <1>1, <1>2

(***************************************************************************)
(* The plans.                                                              *)
(***************************************************************************)
\* Outside a batch and outside recovery no row is in flight.
LEMMA Grounded ==
  ASSUME FlightInvariant, faults = 0, pc \notin {"down", "recover", "claim", "start", "report"},
         NEW j \in Jobs
  PROVE  row[j] \notin InFlight
  BY DEF FlightInvariant, RowsOfPhase, RowOfPhase

LEMMA StartFlight ==
  ASSUME TypeOK, FlightInvariant, Start
  PROVE  FlightInvariant'
<1> DEFINE f == Each(Orphans, Reap)
           g == Each(Stranded, Move("failed"))
<1>1. PICK old \in SUBSET Stale : todo' = f \o g \o Each(old, ReapStale)
  BY DEF Start
<1> DEFINE h == Each(old, ReapStale)
<1>2. /\ Orphans \in SUBSET Jobs /\ Stranded \in SUBSET Jobs /\ old \in SUBSET Jobs
      /\ Reap \in Doing /\ Move("failed") \in Doing /\ ReapStale \in Doing
  BY DoTypes DEF Orphans, Stranded, Stale, Directory
<1>3. /\ f \in Seq(Task) /\ \A n \in 1..Len(f) : f[n].do = Reap
      /\ \A j \in Orphans : \E n \in 1..Len(f) : f[n].job = j
  BY <1>2, EachSteps
<1>4. g \in Seq(Task) /\ \A n \in 1..Len(g) : g[n].do = Move("failed")
  BY <1>2, EachSteps
<1>5. h \in Seq(Task) /\ \A n \in 1..Len(h) : h[n].do = ReapStale
  BY <1>2, EachSteps
<1> HIDE DEF f, g, h
<1>6. /\ f \o g \in Seq(Task) /\ Len(f \o g) = Len(f) + Len(g)
      /\ \A n \in 1..(Len(f) + Len(g)) : (f \o g)[n] = IF n <= Len(f) THEN f[n] ELSE g[n - Len(f)]
  BY <1>3, <1>4, ConcatProperties
<1> DEFINE u == f \o g
<1>7. Len(f) \in Nat /\ Len(g) \in Nat /\ Len(h) \in Nat
  BY <1>3, <1>4, <1>5, LenProperties
<1>8. \A n \in 1..Len(u) : u[n].do \in {Reap, Move("failed")}
  BY <1>3, <1>4, <1>6, <1>7
<1>9. \A j \in Orphans : \E n \in 1..Len(u) : u[n].job = j /\ u[n].do = Reap
  BY <1>3, <1>6, <1>7
<1>10. u \in Seq(Task) /\ Len(u) \in Nat
  BY <1>6, <1>7
<1> HIDE DEF u
<1>11. /\ Len(u \o h) = Len(u) + Len(h)
       /\ \A n \in 1..(Len(u) + Len(h)) : (u \o h)[n] = IF n <= Len(u) THEN u[n] ELSE h[n - Len(u)]
  BY <1>5, <1>10, ConcatProperties
<1>12. todo' = u \o h
  BY <1>1 DEF u, h
<1>13. \A n \in 1..Len(todo') : todo'[n].do \in {Reap, Move("failed"), ReapStale}
  BY <1>5, <1>7, <1>8, <1>10, <1>11, <1>12
<1>14. \A j \in Orphans : \E n \in 1..Len(todo') : todo'[n].job = j /\ todo'[n].do = Reap
  BY <1>7, <1>9, <1>10, <1>11, <1>12
<1>15. pc' = "recover" /\ UNCHANGED <<row, faults>>
  BY DEF Start
<1>16. StepsOfPhase'
  BY <1>13, <1>15, DoFields DEF StepsOfPhase, Allowed
<1>17. RowsOfPhase'
  BY <1>14, <1>15 DEF RowsOfPhase, RowOfPhase, Orphans
<1> QED
  BY <1>15, <1>16, <1>17 DEF FlightInvariant, LeadInHand, WaypointsPass

LEMMA ClaimFileFlight ==
  ASSUME TypeOK, FlightInvariant, NEW j \in Jobs, ClaimFile(j)
  PROVE  FlightInvariant'
<1>1. batch' # <<>> /\ batch' \in Seq(Jobs)
  BY ClaimFileType DEF TypeOK
<1>2. todo' = Rounds(batch', <<Move("inflight"), Fire("CLAIM")>>)
  BY DEF ClaimFile
<1>3. /\ \A m \in 1..Len(todo') : \E n \in 1..Len(batch') : m = 2 * n - 1 \/ m = 2 * n
      /\ \A n \in 1..Len(batch') :
           /\ todo'[2 * n - 1] = [job |-> batch'[n], do |-> Move("inflight")]
           /\ todo'[2 * n] = [job |-> batch'[n], do |-> Fire("CLAIM")]
  BY <1>1, <1>2, ClaimDoes, RoundsOfTwo
<1>4. pc' = "claim" /\ pc = "idle" /\ UNCHANGED <<row, faults>>
  BY DEF ClaimFile
<1>5. StepsOfPhase'
  <2> SUFFICES ASSUME NEW m \in 1..Len(todo') PROVE Allowed(todo[m])'
    BY DEF StepsOfPhase
  <2>1. PICK n \in 1..Len(batch') : m = 2 * n - 1 \/ m = 2 * n
    BY <1>3
  <2>2. \/ todo'[m].do = Move("inflight")
        \/ todo'[m].job = batch'[n] /\ todo'[m].do = Fire("CLAIM")
    <3>1. \/ todo'[m] = [job |-> batch'[n], do |-> Move("inflight")]
          \/ todo'[m] = [job |-> batch'[n], do |-> Fire("CLAIM")]
      BY <1>3, <2>1
    <3> QED
      BY <3>1
  <2> QED
    BY <1>4, <2>2, DoFields DEF Allowed, InBatch
<1>6. RowsOfPhase'
  BY <1>4, Grounded DEF RowsOfPhase, RowOfPhase
<1> QED
  BY <1>1, <1>4, <1>5, <1>6 DEF FlightInvariant, LeadInHand, WaypointsPass

LEMMA ClaimRowFlight ==
  ASSUME TypeOK, FlightInvariant, NEW j \in Jobs, ClaimRow(j)
  PROVE  FlightInvariant'
<1>1. /\ batch' = <<j>> /\ batch' # <<>>
      /\ \A n \in 1..Len(todo') : todo'[n].do \in {Create("inflight"), DbClaim}
  <2>1. batch' # <<>>
    BY ClaimRowType
  <2>2. \A n \in 1..Len(todo') : todo'[n].do \in {Create("inflight"), DbClaim}
    BY ClaimRowPlan
  <2> QED
    BY <2>1, <2>2, ClaimRowPlan
<1>2. /\ pc' = "claim" /\ pc = "idle" /\ faults' = faults
      /\ row' = [row EXCEPT ![j] = After(@, "CLAIM")]
  BY DEF ClaimRow
<1>3. StepsOfPhase'
  BY <1>1, <1>2, DoFields DEF StepsOfPhase, Allowed
<1>4. RowsOfPhase'
  <2> SUFFICES ASSUME faults = 0, NEW k \in Jobs, row'[k] \in InFlight
               PROVE  InBatch(k)' /\ row'[k] = "claimed"
    BY <1>2 DEF RowsOfPhase, RowOfPhase
  <2>1. row[k] \notin InFlight
    BY <1>2, Grounded
  <2>2. k = j
    BY <1>2, <2>1 DEF TypeOK
  <2>3. row'[k] = "claimed"
    BY <1>2, <2>1, <2>2, EventFacts DEF TypeOK, After
  <2>4. InBatch(k)'
    BY <1>1, <2>2 DEF InBatch
  <2> QED
    BY <2>3, <2>4
<1> QED
  BY <1>1, <1>2, <1>3, <1>4 DEF FlightInvariant, LeadInHand, WaypointsPass

LEMMA BeginFlight ==
  ASSUME TypeOK, FlightInvariant, Begin
  PROVE  FlightInvariant'
<1> DEFINE d == Fire(StartEvent(Kind[Lead]))
<1>1. /\ pc = "claim" /\ pc' = "start" /\ UNCHANGED <<row, batch, faults>>
      /\ todo' = Rounds(batch, Fires(<<StartEvent(Kind[Lead])>>))
  BY DEF Begin
<1>2. batch # <<>> /\ batch \in Seq(Jobs)
  BY <1>1 DEF FlightInvariant, LeadInHand, TypeOK
<1>3. StartEvent(Kind[Lead]) \in Event
  BY <1>2, LeadType, StartFacts
<1>4. todo' = Rounds(batch, <<d>>) /\ d \in Doing
  BY <1>1, <1>2, <1>3, ReportOfOne
<1> HIDE DEF d
<1>5. /\ Len(todo') = Len(batch)
      /\ \A n \in 1..Len(batch) : todo'[n] = [job |-> batch[n], do |-> d]
  BY <1>2, <1>4, RoundsOfOne
<1>6. \A n \in 1..Len(todo') : todo'[n].do = d /\ todo'[n].job = batch[n]
  <2> TAKE n \in 1..Len(todo')
  <2>1. todo'[n] = [job |-> batch[n], do |-> d]
    BY <1>5
  <2> QED
    BY <2>1
<1>7. StepsOfPhase'
  BY <1>1, <1>6 DEF StepsOfPhase, Allowed, Lead, d
<1>8. RowsOfPhase'
  <2> SUFFICES ASSUME faults = 0, NEW j \in Jobs, row[j] \in InFlight
               PROVE  /\ InBatch(j) /\ row[j] = "claimed"
                      /\ \E n \in 1..Len(todo') : todo'[n].job = j
    BY <1>1 DEF RowsOfPhase, RowOfPhase, InBatch, Lead
  <2>1. InBatch(j) /\ row[j] = "claimed"
    BY <1>1 DEF FlightInvariant, RowsOfPhase, RowOfPhase
  <2> QED
    BY <1>5, <1>6, <2>1 DEF InBatch
<1> QED
  BY <1>1, <1>2, <1>7, <1>8 DEF FlightInvariant, LeadInHand, WaypointsPass

\* A batch that is done with its job reports: first the steps of pre, that touch
\* no row in flight, then the events.
LEMMA ReportFlight ==
  ASSUME TypeOK, FlightInvariant, pc = "start", todo = <<>>,
         pc' = "report", UNCHANGED <<row, batch, faults>>,
         NEW events, Reported(events, Started(Kind[Lead])),
         NEW pre \in Seq(Task), todo' = pre \o Rounds(batch, Fires(events)),
         \A n \in 1..Len(pre) : pre[n].do.op = "create" \/ pre[n].do = Fire("HOOK_ENQUEUED")
  PROVE  FlightInvariant'
<1> DEFINE t == Rounds(batch, Fires(events))
<1>1. batch # <<>>
  BY DEF FlightInvariant, LeadInHand
<1>2. /\ t \in Seq(Task) /\ PassesOn(t)
      /\ \A m \in 1..Len(t) : t[m].do.op = "fire" /\ t[m].do.arg # "CLAIM"
      /\ \A i \in 1..Len(batch) : \E n \in 1..Len(t) : Leaves(t[n], batch[i], Started(Kind[Lead]))
  BY <1>1, ReportRounds
<1> HIDE DEF t
<1>3. /\ Len(pre \o t) = Len(pre) + Len(t)
      /\ \A n \in 1..(Len(pre) + Len(t)) :
           (pre \o t)[n] = IF n <= Len(pre) THEN pre[n] ELSE t[n - Len(pre)]
  BY <1>2, ConcatProperties
<1>4. Len(pre) \in Nat /\ Len(t) \in Nat
  BY <1>2, LenProperties
<1>5. todo' = pre \o t
  BY DEF t
<1>6. /\ \A n \in 1..Len(pre) : n \in 1..Len(todo') /\ todo'[n] = pre[n]
      /\ \A n \in 1..Len(t) : n + Len(pre) \in 1..Len(todo') /\ todo'[n + Len(pre)] = t[n]
      /\ \A m \in 1..Len(todo') : m \in 1..Len(pre) \/ m - Len(pre) \in 1..Len(t)
      /\ Len(todo') = Len(pre) + Len(t)
  BY <1>3, <1>4, <1>5
<1>7. StepsOfPhase'
  <2> SUFFICES ASSUME NEW m \in 1..Len(todo') PROVE Allowed(todo[m])'
    BY DEF StepsOfPhase
  <2>1. CASE m \in 1..Len(pre)
    <3>1. Fire("HOOK_ENQUEUED").op = "fire" /\ Fire("HOOK_ENQUEUED").arg = "HOOK_ENQUEUED"
      BY FireFields
    <3> QED
      BY <1>6, <2>1, <3>1 DEF Allowed
  <2>2. CASE m - Len(pre) \in 1..Len(t)
    <3>1. todo'[m] = t[m - Len(pre)]
      BY <1>4, <1>6, <2>2
    <3> QED
      BY <1>2, <2>2, <3>1 DEF Allowed
  <2> QED
    BY <1>6, <2>1, <2>2
<1>8. PassesOn(todo')
  <2> SUFFICES ASSUME NEW m \in 1..Len(todo'), todo'[m].do.op = "fire",
                      Transition[todo'[m].do.arg].to \in InFlight
               PROVE  \E n \in (m + 1)..Len(todo') :
                        Leaves(todo'[n], todo'[m].job, Transition[todo'[m].do.arg].to)
    BY DEF PassesOn
  <2>1. m \notin 1..Len(pre)
    BY <1>6, EventFacts, FireFields
  <2>2. m - Len(pre) \in 1..Len(t) /\ todo'[m] = t[m - Len(pre)]
    <3> DEFINE i == m - Len(pre)
    <3>1. i \in 1..Len(t)
      BY <1>6, <2>1
    <3>2. todo'[i + Len(pre)] = t[i]
      BY <1>6, <3>1
    <3>3. i + Len(pre) = m
      BY <1>4, <1>6
    <3> QED
      BY <3>1, <3>2, <3>3
  <2>3. PICK n \in (m - Len(pre) + 1)..Len(t) :
          Leaves(t[n], t[m - Len(pre)].job, Transition[t[m - Len(pre)].do.arg].to)
    BY <1>2, <2>2 DEF PassesOn
  <2>4. n \in 1..Len(t) /\ n + Len(pre) \in (m + 1)..Len(todo')
    BY <1>4, <1>6, <2>2
  <2>5. todo'[n + Len(pre)] = t[n]
    BY <1>6, <2>4
  <2> QED
    BY <2>2, <2>3, <2>4, <2>5
<1>9. RowsOfPhase'
  <2> SUFFICES ASSUME faults = 0, NEW j \in Jobs, row[j] \in InFlight
               PROVE  InBatch(j) /\ \E n \in 1..Len(todo') : Leaves(todo'[n], j, row[j])
    BY DEF RowsOfPhase, RowOfPhase, InBatch
  <2>1. InBatch(j) /\ row[j] = Started(Kind[Lead])
    BY DEF FlightInvariant, RowsOfPhase, RowOfPhase
  <2>2. PICK i \in 1..Len(batch) : batch[i] = j
    BY <2>1 DEF InBatch
  <2>3. PICK n \in 1..Len(t) : Leaves(t[n], j, Started(Kind[Lead]))
    BY <1>2, <2>2
  <2> QED
    BY <1>6, <2>1, <2>3
<1> QED
  BY <1>1, <1>7, <1>8, <1>9 DEF FlightInvariant, LeadInHand, WaypointsPass

LEMMA ReportAtOnce ==
  ASSUME TypeOK, FlightInvariant, pc = "start", todo = <<>>,
         pc' = "report", UNCHANGED <<row, batch, faults>>,
         NEW events, Reported(events, Started(Kind[Lead])),
         todo' = <<>> \o Rounds(batch, Fires(events))
  PROVE  FlightInvariant'
<1> DEFINE pre == <<>>
<1>1. pre \in Seq(Task) /\ Len(pre) = 0
  BY EmptySeq
<1>2. todo' = pre \o Rounds(batch, Fires(events))
  OBVIOUS
<1> HIDE DEF pre
<1>3. \A n \in 1..Len(pre) : pre[n].do.op = "create" \/ pre[n].do = Fire("HOOK_ENQUEUED")
  BY <1>1
<1> QED
  BY <1>1, <1>2, <1>3, ReportFlight

LEMMA FinishFlight ==
  ASSUME TypeOK, FlightInvariant, Finish
  PROVE  FlightInvariant'
<1>1. pc = "start" /\ todo = <<>>
  BY DEF Finish, Running
<1>2. batch # <<>>
  BY <1>1 DEF FlightInvariant, LeadInHand
<1>3. PICK o \in Outcomes(Kind[Lead]) : Reports(<<>>, o)
  BY DEF Finish
<1>4. Reported(o.events, Started(Kind[Lead]))
  BY <1>2, LeadType, OutcomeEvents
<1>5. /\ pc' = "report" /\ UNCHANGED <<row, batch, faults>>
      /\ todo' = <<>> \o Rounds(batch, Fires(o.events))
  BY <1>3 DEF Reports
<1> QED
  BY <1>1, <1>4, <1>5, ReportAtOnce

LEMMA ProviderFlight ==
  ASSUME TypeOK, FlightInvariant, ProviderFails
  PROVE  FlightInvariant'
<1>1. pc = "start" /\ todo = <<>> /\ Kind[Lead] \in {"triage", "patch"}
  BY DEF ProviderFails, Running
<1>2. Lands(ProviderEvent, Started(Kind[Lead]))
  BY <1>1, SingleEvents DEF ProviderEvent
<1>3. Reported(<<ProviderEvent>>, Started(Kind[Lead]))
  BY <1>2, ProviderPlan DEF Reported
<1>4. pc' = "report" /\ UNCHANGED <<row, batch, faults>>
  BY DEF ProviderFails, Reports
<1> QED
  BY <1>1, <1>3, <1>4, ProviderPlan, ReportAtOnce

LEMMA HandoffFlight ==
  ASSUME TypeOK, FlightInvariant, NEW p \in Jobs, Handoff(p)
  PROVE  FlightInvariant'
<1> DEFINE pre == For(p, <<Create("pending"), Fire("HOOK_ENQUEUED")>>)
           events == <<"TRIAGE_OK", "TRIAGE_HANDOFF">>
<1>1. pc = "start" /\ todo = <<>> /\ Kind[Lead] = "triage"
  BY DEF Handoff, Running
<1>2. /\ pc' = "report" /\ UNCHANGED <<row, batch, faults>>
      /\ todo' = pre \o Rounds(batch, Fires(events))
  BY DEF Handoff, Reports, HandedOff, Outcome
<1>3. Reported(events, Started(Kind[Lead]))
  BY <1>1, WaypointEvents DEF Reported, Passes, Lands
<1>4. /\ pre \in Seq(Task) /\ Len(pre) = 2
      /\ pre[1] = [job |-> p, do |-> Create("pending")]
      /\ pre[2] = [job |-> p, do |-> Fire("HOOK_ENQUEUED")]
  BY RequestPlan
<1> HIDE DEF pre, events
<1>5. pre[1].do.op = "create" /\ pre[2].do = Fire("HOOK_ENQUEUED")
  BY <1>4, DoFields
<1>6. \A n \in 1..Len(pre) : pre[n].do.op = "create" \/ pre[n].do = Fire("HOOK_ENQUEUED")
  BY <1>4, <1>5
<1> QED
  BY <1>1, <1>2, <1>3, <1>4, <1>6, ReportFlight

LEMMA RetireFlight ==
  ASSUME TypeOK, FlightInvariant, Retire
  PROVE  FlightInvariant'
<1>1. pc = "report" /\ todo = <<>> /\ pc' = "retire" /\ UNCHANGED <<row, batch, faults>>
  BY DEF Retire
<1>2. batch # <<>> /\ batch \in Seq(Jobs)
  BY <1>1 DEF FlightInvariant, LeadInHand, TypeOK
<1>3. \A n \in 1..Len(todo') : todo'[n].do.op \in {"move", "count"}
  <2>1. ASSUME NEW d \in {Move("done"), Move("failed")}, todo' = Rounds(batch, <<d>>)
        PROVE  \A n \in 1..Len(todo') : todo'[n].do.op \in {"move", "count"}
    <3>1. d \in Doing /\ d.op = "move"
      BY ClaimDoes, DoFields
    <3>2. /\ Len(todo') = Len(batch)
          /\ \A n \in 1..Len(batch) : todo'[n] = [job |-> batch[n], do |-> d]
      BY <1>2, <2>1, <3>1, RoundsOfOne
    <3> TAKE n \in 1..Len(todo')
    <3>3. todo'[n] = [job |-> batch[n], do |-> d]
      BY <3>2
    <3> QED
      BY <3>1, <3>3
  <2>2. CASE todo' = Requeue
    <3> DEFINE d == Move("pending")
               b == Tail(batch)
               f == For(Lead, <<d>>)
               g == Rounds(b, <<Count, d>>)
    <3>1. d \in Doing /\ d.op = "move" /\ Count \in Doing /\ Count.op = "count"
      BY DoTypes, DoFields DEF Directory
    <3>2. f \in Seq(Task) /\ Len(f) = 1 /\ f[1] = [job |-> Lead, do |-> d]
      BY <1>2, <3>1, LeadType, ForOne
    <3>3. b \in Seq(Jobs)
      BY <1>2, LeadType
    <3> HIDE DEF b, d
    <3>4. /\ g \in Seq(Task)
          /\ \A m \in 1..Len(g) : \E n \in 1..Len(b) : m = 2 * n - 1 \/ m = 2 * n
          /\ \A n \in 1..Len(b) : /\ g[2 * n - 1] = [job |-> b[n], do |-> Count]
                                  /\ g[2 * n] = [job |-> b[n], do |-> d]
      BY <3>1, <3>3, RoundsOfTwo
    <3> HIDE DEF f, g
    <3>5. \A m \in 1..Len(g) : g[m].do.op \in {"move", "count"}
      <4> TAKE m \in 1..Len(g)
      <4>1. PICK n \in 1..Len(b) : m = 2 * n - 1 \/ m = 2 * n
        BY <3>4
      <4>2. g[m] = [job |-> b[n], do |-> Count] \/ g[m] = [job |-> b[n], do |-> d]
        BY <3>4, <4>1
      <4> QED
        BY <3>1, <4>2
    <3>6. /\ Len(f \o g) = Len(f) + Len(g) /\ Len(g) \in Nat
          /\ \A n \in 1..(Len(f) + Len(g)) :
               (f \o g)[n] = IF n <= Len(f) THEN f[n] ELSE g[n - Len(f)]
      BY <3>2, <3>4, ConcatProperties, LenProperties
    <3>7. todo' = f \o g
      BY <2>2 DEF b, d, f, g, Requeue
    <3>8. f[1].do.op = "move"
      BY <3>1, <3>2
    <3> TAKE n \in 1..Len(todo')
    <3>9. CASE n = 1
      BY <3>2, <3>6, <3>7, <3>8, <3>9
    <3>10. CASE n # 1
      <4>1. n - 1 \in 1..Len(g) /\ todo'[n] = g[n - 1]
        BY <3>2, <3>6, <3>7, <3>10
      <4> QED
        BY <3>5, <4>1
    <3> QED
      BY <3>9, <3>10
  <2> QED
    BY <2>1, <2>2 DEF Retire
<1>4. StepsOfPhase'
  BY <1>1, <1>3 DEF StepsOfPhase, Allowed
<1>5. RowsOfPhase'
  BY <1>1 DEF FlightInvariant, RowsOfPhase, RowOfPhase
<1> QED
  BY <1>1, <1>4, <1>5 DEF FlightInvariant, LeadInHand, WaypointsPass

LEMMA IdleFlight ==
  ASSUME TypeOK, FlightInvariant, Idle
  PROVE  FlightInvariant'
<1>1. /\ pc \in {"recover", "enqueue", "retire"} /\ todo = <<>> /\ todo' = <<>> /\ pc' = "idle"
      /\ UNCHANGED <<row, faults>>
  BY DEF Idle
<1>2. RowsOfPhase'
  BY <1>1 DEF FlightInvariant, RowsOfPhase, RowOfPhase
<1> QED
  BY <1>1, <1>2 DEF FlightInvariant, LeadInHand, StepsOfPhase, WaypointsPass

LEMMA RequestFlight ==
  ASSUME TypeOK, FlightInvariant, NEW j \in Jobs, Request(j)
  PROVE  FlightInvariant'
<1> DEFINE t == For(j, <<Create("pending"), Fire("HOOK_ENQUEUED")>>)
<1>1. pc = "idle" /\ pc' = "enqueue" /\ todo' = t /\ UNCHANGED <<row, faults>>
  BY DEF Request
<1>2. /\ Len(t) = 2 /\ t[1] = [job |-> j, do |-> Create("pending")]
      /\ t[2] = [job |-> j, do |-> Fire("HOOK_ENQUEUED")]
  BY RequestPlan
<1> HIDE DEF t
<1>3. t[1].do.op = "create" /\ t[2].do = Fire("HOOK_ENQUEUED")
  BY <1>2, DoFields
<1>4. StepsOfPhase'
  BY <1>1, <1>2, <1>3 DEF StepsOfPhase, Allowed
<1>5. RowsOfPhase'
  BY <1>1, Grounded DEF RowsOfPhase, RowOfPhase
<1> QED
  BY <1>1, <1>4, <1>5 DEF FlightInvariant, LeadInHand, WaypointsPass

LEMMA CrashFlight ==
  ASSUME TypeOK, FlightInvariant, Crash
  PROVE  FlightInvariant'
<1>1. pc' = "down" /\ todo' = <<>> /\ UNCHANGED <<row, faults>>
  BY DEF Crash
<1> QED
  BY <1>1 DEF FlightInvariant, LeadInHand, StepsOfPhase, WaypointsPass, RowsOfPhase, RowOfPhase

\* No hook and no operator puts a row into flight.
LEMMA WorldFlight ==
  ASSUME TypeOK, FlightInvariant, NEW j \in Jobs,
         HookWrites(j) \/ HookPosts(j) \/ HookPostLost(j) \/ Abandon(j) \/ Elapse(j)
  PROVE  FlightInvariant'
<1>1. UNCHANGED <<pc, batch, todo>>
  BY DEF HookWrites, HookPosts, HookPostLost, Abandon, Elapse
<1>2. LeadInHand' /\ StepsOfPhase' /\ WaypointsPass'
  BY <1>1 DEF FlightInvariant, LeadInHand, StepsOfPhase, Allowed, InBatch, Lead, WaypointsPass,
              PassesOn
<1>3. RowsOfPhase'
  <2>1. faults' = 0 => faults = 0
    BY Budgets DEF TypeOK, HookWrites, HookPosts, HookPostLost, Abandon, Elapse
  <2>2. ASSUME NEW k \in Jobs, row'[k] \in InFlight PROVE row'[k] = row[k]
    <3>1. CASE row' = row
      BY <3>1
    <3>2. ASSUME NEW e \in {"HOOK_ENQUEUED", "ABANDON"}, row' = [row EXCEPT ![j] = After(@, e)]
          PROVE  row'[k] = row[k]
      BY <2>2, <3>2, EventFacts DEF TypeOK, After
    <3> QED
      BY <3>1, <3>2 DEF HookWrites, HookPosts, HookPostLost, Abandon, Elapse
  <2> QED
    BY <1>1, <2>1, <2>2 DEF FlightInvariant, RowsOfPhase, RowOfPhase, InBatch, Lead
<1> QED
  BY <1>2, <1>3 DEF FlightInvariant
(***************************************************************************)
(* The steps.                                                              *)
(***************************************************************************)
\* The step at the head of todo is taken, or not: what is left of a row's
\* standing when the head is not the step it waits for.
LEMMA RowShifts ==
  ASSUME TypeOK, Drops(1), UNCHANGED <<pc, batch>>, NEW j \in Jobs, row'[j] = row[j],
         RowOfPhase(j), pc = "recover" => todo[1].job # j \/ todo[1].do # Reap,
         pc = "start" => todo[1].job # j, pc = "report" => ~Leaves(todo[1], j, row[j])
  PROVE  RowOfPhase(j)'
<1>0. Len(todo) \in Nat
  BY LenProperties DEF TypeOK
<1>1. \A n \in 1..Len(todo) : n # 1 => n - 1 \in 1..Len(todo') /\ todo'[n - 1] = todo[n]
  BY <1>0 DEF Drops
<1>2. pc = "recover" => \E n \in 1..Len(todo') : todo'[n].job = j /\ todo'[n].do = Reap
  <2> HAVE pc = "recover"
  <2>1. PICK n \in 1..Len(todo) : todo[n].job = j /\ todo[n].do = Reap
    BY DEF RowOfPhase
  <2>2. n - 1 \in 1..Len(todo') /\ todo'[n - 1] = todo[n]
    BY <1>1, <2>1
  <2> QED
    BY <2>1, <2>2
<1>3. pc = "start" => \/ row[j] = Started(Kind[Lead])
                      \/ row[j] = "claimed" /\ \E n \in 1..Len(todo') : todo'[n].job = j
  <2> SUFFICES ASSUME pc = "start", row[j] = "claimed",
                      NEW n \in 1..Len(todo), todo[n].job = j
               PROVE  \E m \in 1..Len(todo') : todo'[m].job = j
    BY DEF RowOfPhase
  <2>1. n - 1 \in 1..Len(todo') /\ todo'[n - 1] = todo[n]
    BY <1>1
  <2> QED
    BY <2>1
<1>4. pc = "report" => \E n \in 1..Len(todo') : Leaves(todo'[n], j, row[j])
  <2> HAVE pc = "report"
  <2>1. PICK n \in 1..Len(todo) : Leaves(todo[n], j, row[j])
    BY DEF RowOfPhase
  <2>2. n - 1 \in 1..Len(todo') /\ todo'[n - 1] = todo[n]
    BY <1>1, <2>1
  <2> QED
    BY <2>1, <2>2
<1> QED
  BY <1>2, <1>3, <1>4 DEF RowOfPhase, InBatch, Lead

LEMMA WaypointsKept ==
  ASSUME TypeOK, StepsOfPhase, WaypointsPass,
         Transit \/ TransitLost \/ MoveFile \/ CreateFile \/ CountSibling \/ ClaimSibling
  PROVE  WaypointsPass'
<1>1. CASE Transit \/ TransitLost \/ MoveFile \/ CreateFile \/ CountSibling
  <2>1. PICK k \in 1..Len(todo) : Drops(k)
    BY <1>1, StepDrops
  <2>2. pc' = pc /\ Len(todo) \in Nat /\ Len(todo') \in Nat
    BY <1>1, <2>1, StepDrops, LenProperties DEF TypeOK, Drops
  <2> SUFFICES ASSUME pc = "report", NEW m \in 1..Len(todo'), todo'[m].do.op = "fire",
                      Transition[todo'[m].do.arg].to \in InFlight
               PROVE  \E n \in (m + 1)..Len(todo') :
                        Leaves(todo'[n], todo'[m].job, Transition[todo'[m].do.arg].to)
    BY <2>2 DEF WaypointsPass, PassesOn
  <2>3. m + k \in 1..Len(todo) /\ todo'[m] = todo[m + k]
    BY <2>1 DEF Drops
  <2>4. PICK n \in (m + k + 1)..Len(todo) :
          Leaves(todo[n], todo[m + k].job, Transition[todo[m + k].do.arg].to)
    BY <2>3 DEF WaypointsPass, PassesOn
  <2>5. n - k \in 1..Len(todo') /\ n - k \in (m + 1)..Len(todo') /\ (n - k) + k = n
    BY <2>1, <2>2, <2>4 DEF Drops
  <2>6. todo'[n - k] = todo[n]
    BY <2>1, <2>5 DEF Drops
  <2> QED
    BY <2>3, <2>4, <2>5, <2>6
<1>2. CASE ClaimSibling
  BY <1>2, ClaimSiblingPlan DEF WaypointsPass
<1> QED
  BY <1>1, <1>2

\* A step that is about files leaves every row where it stands.
LEMMA FileStepRows ==
  ASSUME TypeOK, StepsOfPhase, RowsOfPhase, MoveFile \/ CreateFile \/ CountSibling
  PROVE  RowsOfPhase'
<1>1. /\ todo # <<>> /\ UNCHANGED <<pc, batch, row, faults>> /\ Drops(1)
      /\ Head(todo).do.op \in {"move", "create", "count"}
  <2>1. ~TransitLost
    BY DEF TransitLost, MoveFile, CreateFile, CountSibling, Does
  <2>2. /\ UNCHANGED <<row, faults>>
        /\ Head(todo).do.op \in {"move", "create", "count"}
    BY DEF MoveFile, CreateFile, CountSibling, Does
  <2> QED
    BY <2>1, <2>2, StepDrops
<1>2. Allowed(todo[1]) /\ todo[1].do.op \in {"move", "create", "count"}
  BY <1>1, HeadAllowed
<1>3. todo[1].do # Reap /\ todo[1].do.op # "fire"
  BY <1>2, DoFields
<1>4. pc # "start"
  BY <1>2, <1>3, FireFields DEF Allowed
<1> SUFFICES ASSUME faults = 0, NEW j \in Jobs, row[j] \in InFlight
             PROVE  RowOfPhase(j)'
  BY <1>1 DEF RowsOfPhase
<1>5. RowOfPhase(j)
  BY DEF RowsOfPhase
<1>6. ~Leaves(todo[1], j, row[j])
  BY <1>3 DEF Leaves
<1> QED
  BY <1>1, <1>3, <1>4, <1>5, <1>6, RowShifts

LEMMA ClaimSiblingRows ==
  ASSUME TypeOK, StepsOfPhase, RowsOfPhase, ClaimSibling
  PROVE  RowsOfPhase'
<1>0. PICK k : k = Next1
  OBVIOUS
<1>1. /\ row' = [row EXCEPT ![k] = After(@, "CLAIM")] \/ UNCHANGED row
      /\ row[k] # "queued" => UNCHANGED row
      /\ UNCHANGED <<pc, faults>>
  BY <1>0 DEF ClaimSibling
<1>2. k \in Jobs
  BY <1>0, HeadType DEF ClaimSibling, Does
<1>3. /\ pc = "claim" /\ \A j \in Jobs : InBatch(j) => InBatch(j)'
      /\ row[k] = "queued" => InBatch(k)'
  BY <1>0, ClaimSiblingPlan
<1> SUFFICES ASSUME faults = 0, NEW j \in Jobs, row'[j] \in InFlight
             PROVE  RowOfPhase(j)'
  BY <1>1 DEF RowsOfPhase
<1>4. CASE row'[j] = row[j]
  <2>1. row[j] = "claimed" /\ InBatch(j)
    BY <1>3, <1>4 DEF RowsOfPhase, RowOfPhase
  <2> QED
    BY <1>1, <1>3, <1>4, <2>1 DEF RowOfPhase
<1>5. CASE row'[j] # row[j]
  <2>1. j = k /\ row[k] = "queued"
    BY <1>1, <1>5 DEF TypeOK
  <2>2. row'[j] = After("queued", "CLAIM")
    BY <1>1, <1>2, <1>5, <2>1 DEF TypeOK
  <2>3. row'[j] = "claimed"
    BY <2>2, EventFacts DEF After
  <2> QED
    BY <1>1, <1>3, <2>1, <2>3 DEF RowOfPhase
<1> QED
  BY <1>4, <1>5

\* A transition is applied to the row it is about or refused, and leaves that
\* row where the phase wants it.
LEMMA TransitRows ==
  ASSUME TypeOK, LeadInHand, StepsOfPhase, WaypointsPass, RowsOfPhase, Transit
  PROVE  RowsOfPhase'
<1> DEFINE k == todo[1].job  e == todo[1].do.arg
<1>1. /\ todo # <<>> /\ UNCHANGED <<pc, batch, faults>> /\ Drops(1)
      /\ Head(todo).do.op \in {"fire", "reap", "stale"}
      /\ row' = [row EXCEPT ![Head(todo).job] = After(@, Head(todo).do.arg)]
  <2>1. /\ faults' = faults /\ todo # <<>> /\ todo' = Tail(todo)
        /\ Head(todo).do.op \in {"fire", "reap", "stale"}
        /\ row' = [row EXCEPT ![Head(todo).job] = After(@, Head(todo).do.arg)]
    BY DEF Transit, Does, Pops, Next1
  <2> QED
    BY <2>1, PopDrops, StepDrops
<1>2. /\ Allowed(todo[1]) /\ 1 \in 1..Len(todo) /\ todo[1].do.op \in {"fire", "reap", "stale"}
      /\ row' = [row EXCEPT ![k] = After(@, e)]
  BY <1>1, HeadAllowed
<1>3. k \in Jobs /\ e \in Event
  BY <1>1, HeadAllowed, HeadType DEF Next1
<1> SUFFICES ASSUME faults = 0, NEW j \in Jobs, row'[j] \in InFlight
             PROVE  RowOfPhase(j)'
  BY <1>1 DEF RowsOfPhase
<1>4. CASE j # k
  <2>1. row'[j] = row[j]
    BY <1>2, <1>4 DEF TypeOK
  <2>2. RowOfPhase(j) /\ ~Leaves(todo[1], j, row[j])
    BY <1>4, <2>1 DEF RowsOfPhase, Leaves
  <2> QED
    BY <1>1, <1>4, <2>1, <2>2, RowShifts
<1>5. CASE j = k
  <2> HIDE DEF k, e
  <2>1. row'[j] = After(row[j], e)
    BY <1>2, <1>5 DEF TypeOK
  <2>2. \/ row[j] \in Transition[e].from /\ row'[j] = Transition[e].to
        \/ row[j] \notin Transition[e].from /\ row'[j] = row[j]
    BY <2>1 DEF After
  <2>3. row[j] \in InFlight => RowOfPhase(j)
    BY DEF RowsOfPhase
  <2>4. CASE pc = "recover"
    <3>1. todo[1].do \in {Reap, ReapStale}
      BY <1>2, <2>4 DEF Allowed
    <3>2. e = "REAP_ORPHAN"
      BY <3>1, DoFields DEF e
    <3> QED
      BY <2>2, <3>2, EventFacts
  <2>5. CASE pc = "enqueue"
    <3>1. todo[1].do = Fire("HOOK_ENQUEUED")
      BY <1>2, <2>5 DEF Allowed
    <3>2. e = "HOOK_ENQUEUED"
      BY <3>1, FireFields DEF e
    <3> QED
      BY <2>2, <2>3, <2>5, <3>2, EventFacts DEF RowOfPhase
  <2>6. CASE pc = "claim"
    <3>1. todo[1].do = Fire("CLAIM") /\ InBatch(k)
      BY <1>2, <2>6 DEF Allowed, k
    <3>2. e = "CLAIM"
      BY <3>1, FireFields DEF e
    <3>3. row'[j] = "claimed"
      BY <2>2, <2>3, <2>6, <3>2, EventFacts DEF RowOfPhase
    <3> QED
      BY <1>1, <1>5, <2>6, <3>1, <3>3 DEF RowOfPhase, InBatch
  <2>7. CASE pc = "start"
    <3> DEFINE kind == Kind[Lead]
    <3>0. kind \in {"triage", "patch", "verify"}
      BY <2>7, LeadType DEF LeadInHand
    <3>1. todo[1].do = Fire(StartEvent(kind))
      BY <1>2, <2>7 DEF Allowed
    <3>2. e = StartEvent(kind)
      BY <3>1, FireFields DEF e
    <3> HIDE DEF kind
    <3>3. row[j] \in InFlight
      BY <2>2, <3>0, <3>2, StartFacts
    <3>4. InBatch(j) /\ (row[j] = Started(kind) \/ row[j] = "claimed")
      BY <2>3, <2>7, <3>3 DEF RowOfPhase, kind
    <3>5. row'[j] = Started(kind)
      BY <2>2, <3>0, <3>2, <3>4, StartFacts DEF Started
    <3> QED
      BY <1>1, <2>7, <3>4, <3>5 DEF RowOfPhase, InBatch, Lead, kind
  <2>8. CASE pc = "report"
    <3>1. todo[1].do.op = "fire" /\ e # "CLAIM"
      BY <1>2, <2>8 DEF Allowed, e
    <3>2. CASE row[j] \in Transition[e].from /\ row'[j] = Transition[e].to
      <4>1. InBatch(j)
        BY <1>3, <2>3, <2>8, <3>1, <3>2, OnlyClaimTakesOff DEF RowOfPhase
      <4>2. PICK n \in 2..Len(todo) : Leaves(todo[n], j, row'[j])
        BY <1>2, <1>5, <2>8, <3>1, <3>2 DEF WaypointsPass, PassesOn, k, e
      <4>3. Len(todo) \in Nat
        BY LenProperties DEF TypeOK
      <4>4. n - 1 \in 1..Len(todo') /\ todo'[n - 1] = todo[n]
        BY <1>1, <4>2, <4>3 DEF Drops
      <4> QED
        BY <1>1, <2>8, <4>1, <4>2, <4>4 DEF RowOfPhase, InBatch
    <3>3. CASE row[j] \notin Transition[e].from /\ row'[j] = row[j]
      <4>1. RowOfPhase(j) /\ ~Leaves(todo[1], j, row[j])
        BY <2>3, <3>3 DEF Leaves, e
      <4> QED
        BY <1>1, <2>8, <3>3, <4>1, RowShifts
    <3> QED
      BY <2>2, <3>2, <3>3
  <2>9. pc \in {"recover", "enqueue", "claim", "start", "report"}
    BY <1>2 DEF Allowed, TypeOK, Phase
  <2> QED
    BY <2>4, <2>5, <2>6, <2>7, <2>8, <2>9
<1> QED
  BY <1>4, <1>5

LEMMA StepFlight ==
  ASSUME TypeOK, FlightInvariant,
         Transit \/ TransitLost \/ MoveFile \/ CreateFile \/ CountSibling \/ ClaimSibling
  PROVE  FlightInvariant'
<1>1. StepsOfPhase' /\ WaypointsPass'
  BY StepsKept, WaypointsKept DEF FlightInvariant
<1>2. LeadInHand'
  BY StepType DEF FlightInvariant, LeadInHand
<1>3. RowsOfPhase'
  <2>1. CASE TransitLost
    <3>1. faults' # 0
      BY <2>1, Budgets DEF TransitLost, TypeOK
    <3> QED
      BY <3>1 DEF RowsOfPhase
  <2>2. CASE Transit
    BY <2>2, TransitRows DEF FlightInvariant
  <2>3. CASE MoveFile \/ CreateFile \/ CountSibling
    BY <2>3, FileStepRows DEF FlightInvariant
  <2>4. CASE ClaimSibling
    BY <2>4, ClaimSiblingRows DEF FlightInvariant
  <2> QED
    BY <2>1, <2>2, <2>3, <2>4
<1> QED
  BY <1>1, <1>2, <1>3 DEF FlightInvariant

LEMMA FlightStep ==
  ASSUME TypeOK, FlightInvariant, [Next]_vars
  PROVE  FlightInvariant'
<1>1. CASE Start \/ Begin \/ Finish \/ ProviderFails \/ Retire \/ Idle
  BY <1>1, StartFlight, BeginFlight, FinishFlight, ProviderFlight, RetireFlight, IdleFlight
<1>2. CASE Transit \/ TransitLost \/ MoveFile \/ CreateFile \/ CountSibling \/ ClaimSibling
  BY <1>2, StepFlight
<1>3. ASSUME NEW j \in Jobs, ClaimFile(j) \/ ClaimRow(j) \/ Handoff(j)
      PROVE  FlightInvariant'
  BY <1>3, ClaimFileFlight, ClaimRowFlight, HandoffFlight
<1>4. ASSUME NEW j \in Jobs,
             HookWrites(j) \/ HookPosts(j) \/ HookPostLost(j) \/ Abandon(j) \/ Elapse(j)
      PROVE  FlightInvariant'
  BY <1>4, WorldFlight
<1>5. ASSUME NEW j \in Jobs, Request(j)
      PROVE  FlightInvariant'
  BY <1>5, RequestFlight
<1>6. CASE Crash
  BY <1>6, CrashFlight
<1>7. CASE UNCHANGED vars
  BY <1>7 DEF vars, FlightInvariant, LeadInHand, StepsOfPhase, Allowed, WaypointsPass, PassesOn,
              RowsOfPhase, RowOfPhase, InBatch, Lead
<1> QED
  BY <1>1, <1>2, <1>3, <1>4, <1>5, <1>6, <1>7 DEF Next, Runner, World

\* Unless a transition was lost, a row in an in-flight state is a job the
\* runner has in hand, or an orphan that recovery is about to reap.
THEOREM NoRowStranded == Spec => []InFlightIsHeld
<1>1. Init => TypeOK /\ FlightInvariant
  <2> SUFFICES ASSUME Init PROVE TypeOK /\ FlightInvariant
    OBVIOUS
  <2>1. pc = "down" /\ todo = <<>>
    BY DEF Init
  <2> QED
    BY <2>1, InitType
       DEF FlightInvariant, LeadInHand, StepsOfPhase, WaypointsPass, RowsOfPhase, RowOfPhase
<1>2. TypeOK /\ FlightInvariant /\ [Next]_vars => (TypeOK /\ FlightInvariant)'
  BY TypeStep, FlightStep DEF FlightInvariant
<1>3. FlightInvariant => InFlightIsHeld
  BY DEF FlightInvariant, RowsOfPhase, RowOfPhase, InFlightIsHeld
<1> QED
  BY <1>1, <1>2, <1>3, PTL DEF Spec

(***************************************************************************)
(* Queued rows are claimable.  The strengthening is about the jobs that no *)
(* claim through the row can take: which steps each phase has for them,    *)
(* that their file is in pending/ before their row is queued, and where a  *)
(* queued row stands in its phase.                                         *)
(***************************************************************************)
Plain == {j \in Jobs : Kind[j] # "triage"}
Smooth == crashes = 0 /\ faults = 0

\* The lead's failure is one a retry may answer, and its backoff still runs.
Unserved == ~success /\ held[Lead]

Fits(t) ==
  /\ pc # "recover"
  /\ pc = "claim" => InBatch(t.job) /\ t.do \in {Move("inflight"), Fire("CLAIM")}
  /\ pc \in {"enqueue", "report"} /\ t.do.op = "create" => t.do = Create("pending")
  /\ pc = "report" /\ t.do.op = "create" => ~InBatch(t.job)
  /\ pc = "report" /\ t.do = Fire("HOOK_ENQUEUED") => ~InBatch(t.job)
  /\ pc = "report" /\ t.do = Fire("PROVIDER_UNAVAILABLE") => InBatch(t.job) /\ Unserved
  /\ pc = "retire" => InBatch(t.job)
  /\ pc = "retire" /\ t.do.op = "move" /\ row[t.job] = "queued" => t.do = Move("pending")

PlainSteps == \A n \in 1..Len(todo) : todo[n].job \in Plain => Fits(todo[n])

\* A sibling is claimed through its row for a triage only.
DbClaims ==
  \A n \in 1..Len(todo) :
    todo[n].do.op = "dbclaim" => Kind[todo[n].job] = "triage" /\ Kind[Lead] = "triage"

\* The file is written before the row is queued.
Announced ==
  \A n \in 1..Len(todo) :
    pc \in {"enqueue", "report"} /\ todo[n].job \in Plain /\ todo[n].do = Fire("HOOK_ENQUEUED") =>
      \/ file[todo[n].job] = "pending"
      \/ \E m \in 1..(n - 1) : todo[m].job = todo[n].job /\ todo[m].do = Create("pending")

\* Where the row of j stands, when it is queued.
QueuedOfPhase(j) ==
  IF InBatch(j)
  THEN /\ pc # "start"
       /\ pc = "claim" => \E n \in 1..Len(todo) : todo[n].job = j /\ todo[n].do = Fire("CLAIM")
       /\ pc = "report" => Unserved
       /\ pc = "retire" => \/ file[j] = "pending"
                           \/ \E n \in 1..Len(todo) :
                                todo[n].job = j /\ todo[n].do = Move("pending")
  ELSE file[j] = "pending"

QueuedRows == \A j \in Plain : row[j] = "queued" => QueuedOfPhase(j)

\* A batch is of one kind, and there is none between the jobs; nothing was queued
\* before the first start, and no hook posts the row of a plain job.
PlainAtRest ==
  /\ pc \in {"down", "recover", "idle", "enqueue"} => batch = <<>>
  /\ pc = "down" => \A j \in Plain : row[j] = "none" /\ file[j] = "none"
  /\ \A j \in Plain : hook[j] # "posting" /\ (InBatch(j) => Kind[Lead] # "triage")

QueuedParts == PlainSteps /\ DbClaims /\ Announced /\ QueuedRows /\ PlainAtRest

QueuedInvariant == Smooth => QueuedParts

LEMMA StepArgs ==
  /\ \A c, d : (Move(c) = Move(d) <=> c = d) /\ (Create(c) = Create(d) <=> c = d)
               /\ (Fire(c) = Fire(d) <=> c = d)
  /\ \A c, d : Move(c) # Fire(d) /\ Create(c) # Fire(d) /\ Create(c) # Move(d)
               /\ Count # Move(c) /\ DbClaim # Move(c) /\ Move(c).arg = c /\ Create(c).arg = c
               /\ Count # Fire(c) /\ DbClaim # Fire(c)
  BY DEF Move, Create, Fire, Count, DbClaim, Step

LEMMA QueueingEvents ==
  /\ \A e \in Event : Transition[e].to = "queued" => e \in {"HOOK_ENQUEUED", "PROVIDER_UNAVAILABLE"}
  /\ "queued" \in Transition["CLAIM"].from /\ Transition["CLAIM"].to # "queued"
  /\ Transition["ABANDON"].to # "queued"
  BY EventNames DEF Transition, From

LEMMA PlainJobs == \A j \in Jobs : (j \in Plain <=> Kind[j] # "triage")
  BY DEF Plain

LEMMA LeadInBatch == ASSUME TypeOK, batch # <<>> PROVE InBatch(Lead) /\ Lead \in Jobs
<1>1. Lead \in Jobs
  BY LeadType
<1>2. 1 \in 1..Len(batch)
  BY EmptySeq, LenProperties DEF TypeOK
<1> QED
  BY <1>1, <1>2 DEF InBatch, Lead

\* A step of todo is taken: what is left is a shift.
LEMMA TakesHead ==
  ASSUME TypeOK, FlightInvariant, Transit \/ MoveFile \/ CreateFile \/ CountSibling
  PROVE  /\ UNCHANGED <<pc, batch, hook, success, crashes, faults>> /\ Drops(1)
         /\ Allowed(todo[1]) /\ todo[1].job \in Jobs /\ 1 \in 1..Len(todo) /\ todo[1].job = Next1
         /\ Head(todo) = todo[1] /\ Len(todo) \in Nat
         /\ \A n \in 1..Len(todo') : n + 1 \in 1..Len(todo) /\ todo'[n] = todo[n + 1]
         /\ \A n \in 1..Len(todo) : n # 1 => n - 1 \in 1..Len(todo') /\ todo'[n - 1] = todo[n]
<1>1. todo # <<>> /\ todo' = Tail(todo) /\ UNCHANGED <<pc, batch, hook, success, crashes, faults>>
  BY DEF Transit, MoveFile, CreateFile, CountSibling, Does, Pops
<1>2. /\ Allowed(todo[1]) /\ Head(todo) = todo[1] /\ 1 \in 1..Len(todo) /\ Next1 \in Jobs
      /\ todo[1].job = Next1
  BY <1>1, HeadAllowed, HeadType DEF FlightInvariant, Next1
<1>3. Drops(1) /\ Len(todo) \in Nat
  BY <1>1, PopDrops, LenProperties DEF TypeOK
<1> QED
  BY <1>1, <1>2, <1>3 DEF Drops

LEMMA FitsKept ==
  ASSUME NEW t, Fits(t), UNCHANGED <<pc, batch>>,
         row'[t.job] = "queued" => row[t.job] = "queued" \/ pc # "retire",
         pc = "report" /\ InBatch(t.job) /\ Unserved => Unserved'
  PROVE  /\ pc # "recover"
         /\ pc = "claim" => InBatch(t.job)' /\ t.do \in {Move("inflight"), Fire("CLAIM")}
         /\ pc \in {"enqueue", "report"} /\ t.do.op = "create" => t.do = Create("pending")
         /\ pc = "report" /\ t.do.op = "create" => ~InBatch(t.job)'
         /\ pc = "report" /\ t.do = Fire("HOOK_ENQUEUED") => ~InBatch(t.job)'
         /\ pc = "report" /\ t.do = Fire("PROVIDER_UNAVAILABLE") => InBatch(t.job)' /\ Unserved'
         /\ pc = "retire" => InBatch(t.job)'
         /\ pc = "retire" /\ t.do.op = "move" /\ row'[t.job] = "queued" => t.do = Move("pending")
  BY DEF Fits, InBatch

(***************************************************************************)
(* A step that is taken leaves the others as they were.                    *)
(***************************************************************************)
LEMMA UnservedKept ==
  ASSUME TypeOK, FlightInvariant, PlainSteps, PlainAtRest,
         Transit \/ MoveFile \/ CreateFile \/ CountSibling,
         NEW j \in Plain, InBatch(j), pc = "report", Unserved
  PROVE  Unserved'
<1>1. /\ UNCHANGED <<pc, batch, success>> /\ Allowed(todo[1]) /\ 1 \in 1..Len(todo)
      /\ todo[1].job = Next1 /\ Head(todo) = todo[1]
  BY TakesHead
<1>2. batch # <<>>
  BY DEF FlightInvariant, LeadInHand
<1>3. InBatch(Lead) /\ Lead \in Plain
  BY <1>2, LeadInBatch, LeadType DEF PlainAtRest, Plain
<1>4. Lead' = Lead
  BY <1>1 DEF Lead
<1>5. CASE Transit \/ MoveFile
  BY <1>1, <1>4, <1>5 DEF Unserved, Transit, MoveFile
<1>6. CASE CreateFile
  <2>1. todo[1].do.op = "create"
    BY <1>1, <1>6 DEF CreateFile, Does
  <2>2. Next1 # Lead
    BY <1>1, <1>3, <2>1 DEF PlainSteps, Fits
  <2>3. held'[Lead] = held[Lead]
    BY <1>3, <1>6, <2>2 DEF CreateFile, WriteFile, TypeOK, Plain
  <2> QED
    BY <1>1, <1>4, <2>3 DEF Unserved
<1>7. CASE CountSibling
  <2>1. todo[1].do.op = "count"
    BY <1>1, <1>7 DEF CountSibling, Does
  <2> QED
    BY <1>1, <2>1 DEF Allowed
<1> QED
  BY <1>5, <1>6, <1>7

LEMMA PlainStepsKept ==
  ASSUME TypeOK, FlightInvariant, PlainSteps, PlainAtRest,
         Transit \/ MoveFile \/ CreateFile \/ CountSibling
  PROVE  PlainSteps'
<1> SUFFICES ASSUME NEW n \in 1..Len(todo'), todo'[n].job \in Plain
             PROVE  Fits(todo[n])'
  BY DEF PlainSteps, Plain
<1>1. /\ UNCHANGED <<pc, batch, success>> /\ Allowed(todo[1])
      /\ n + 1 \in 1..Len(todo) /\ todo'[n] = todo[n + 1] /\ Head(todo) = todo[1]
  BY TakesHead
<1>0. PICK t : t = todo[n + 1]
  OBVIOUS
<1>2. Fits(t) /\ t.job \in Plain
  BY <1>0, <1>1 DEF PlainSteps
<1>3. pc = "retire" => row' = row
  <2>1. CASE Transit
    <3>1. todo[1].do.op \in {"fire", "reap", "stale"}
      BY <1>1, <2>1 DEF Transit, Does
    <3> QED
      BY <1>1, <3>1 DEF Allowed
  <2> QED
    BY <2>1 DEF MoveFile, CreateFile, CountSibling
<1>4. pc = "report" /\ InBatch(t.job) /\ Unserved => Unserved'
  BY <1>2, UnservedKept
<1>5. row'[t.job] = "queued" => row[t.job] = "queued" \/ pc # "retire"
  BY <1>3
<1>6. todo'[n] = t /\ pc' = pc /\ batch' = batch
  BY <1>0, <1>1
<1>7. /\ pc # "recover"
      /\ pc = "claim" => InBatch(t.job)' /\ t.do \in {Move("inflight"), Fire("CLAIM")}
      /\ pc \in {"enqueue", "report"} /\ t.do.op = "create" => t.do = Create("pending")
      /\ pc = "report" /\ t.do.op = "create" => ~InBatch(t.job)'
      /\ pc = "report" /\ t.do = Fire("HOOK_ENQUEUED") => ~InBatch(t.job)'
      /\ pc = "report" /\ t.do = Fire("PROVIDER_UNAVAILABLE") => InBatch(t.job)' /\ Unserved'
      /\ pc = "retire" => InBatch(t.job)'
      /\ pc = "retire" /\ t.do.op = "move" /\ row'[t.job] = "queued" => t.do = Move("pending")
  BY <1>2, <1>4, <1>5, <1>6, FitsKept
<1> QED
  BY <1>6, <1>7 DEF Fits, InBatch

LEMMA DbClaimsKept ==
  ASSUME TypeOK, FlightInvariant, DbClaims, Transit \/ MoveFile \/ CreateFile \/ CountSibling
  PROVE  DbClaims'
<1> SUFFICES ASSUME NEW n \in 1..Len(todo'), todo'[n].do.op = "dbclaim"
             PROVE  Kind[todo'[n].job] = "triage" /\ Kind[Lead'] = "triage"
  BY DEF DbClaims
<1>1. n + 1 \in 1..Len(todo) /\ todo'[n] = todo[n + 1] /\ batch' = batch
  BY TakesHead
<1> QED
  BY <1>1 DEF DbClaims, Lead

LEMMA AnnouncedKept ==
  ASSUME TypeOK, FlightInvariant, PlainSteps, Announced,
         Transit \/ MoveFile \/ CreateFile \/ CountSibling
  PROVE  Announced'
<1> SUFFICES ASSUME NEW n \in 1..Len(todo'), pc' \in {"enqueue", "report"},
                    todo'[n].job \in Plain, todo'[n].do = Fire("HOOK_ENQUEUED")
             PROVE  \/ file'[todo'[n].job] = "pending"
                    \/ \E m \in 1..(n - 1) : /\ todo'[m].job = todo'[n].job
                                             /\ todo'[m].do = Create("pending")
  BY DEF Announced, Plain
<1>0. Len(todo) \in Nat /\ Len(todo') \in Nat
  BY TakesHead DEF Drops
<1>1. /\ pc' = pc /\ n + 1 \in 1..Len(todo) /\ todo'[n] = todo[n + 1]
      /\ Allowed(todo[1]) /\ 1 \in 1..Len(todo) /\ Head(todo) = todo[1] /\ todo[1].job = Next1
      /\ \A m \in 1..Len(todo) : m # 1 => m - 1 \in 1..Len(todo') /\ todo'[m - 1] = todo[m]
  BY TakesHead
<1> DEFINE j == todo'[n].job
<1>2. j \in Plain /\ j \in Jobs
  BY DEF Plain
<1>3. \/ file[j] = "pending"
      \/ \E m \in 1..n : todo[m].job = j /\ todo[m].do = Create("pending")
  <2>1. \/ file[todo[n + 1].job] = "pending"
        \/ \E m \in 1..(n + 1 - 1) : /\ todo[m].job = todo[n + 1].job
                                     /\ todo[m].do = Create("pending")
    BY <1>1 DEF Announced
  <2>2. n + 1 - 1 = n
    OBVIOUS
  <2> QED
    BY <1>1, <2>1, <2>2
<1>4. \/ file' = file
      \/ /\ CreateFile /\ todo[1].do.op = "create"
         /\ file' = [file EXCEPT ![todo[1].job] = todo[1].do.arg]
  <2>1. CASE Transit \/ CountSibling
    BY <2>1 DEF Transit, CountSibling
  <2>2. CASE MoveFile
    <3>1. todo[1].do.op = "move"
      BY <1>1, <2>2 DEF MoveFile, Does
    <3> QED
      BY <1>1, <3>1, FireFields DEF Allowed
  <2>3. CASE CreateFile
    BY <1>1, <2>3 DEF CreateFile, Does, WriteFile
  <2> QED
    BY <2>1, <2>2, <2>3
<1>5. file[j] = "pending" => file'[j] = "pending"
  <2> HAVE file[j] = "pending"
  <2>1. CASE file' = file
    BY <2>1
  <2>2. CASE todo[1].do.op = "create" /\ file' = [file EXCEPT ![todo[1].job] = todo[1].do.arg]
    <3>1. CASE todo[1].job = j
      <4>1. todo[1].do = Create("pending")
        BY <1>1, <1>2, <2>2, <3>1 DEF PlainSteps, Fits
      <4>2. todo[1].do.arg = "pending"
        BY <4>1, StepArgs
      <4> QED
        BY <1>2, <2>2, <3>1, <4>2 DEF TypeOK
    <3>2. CASE todo[1].job # j
      BY <1>2, <2>2, <3>2 DEF TypeOK
    <3> QED
      BY <3>1, <3>2
  <2> QED
    BY <1>4, <2>1, <2>2
<1>6. todo[1].job = j /\ todo[1].do = Create("pending") => file'[j] = "pending"
  <2> HAVE todo[1].job = j /\ todo[1].do = Create("pending")
  <2>1. todo[1].do.op = "create" /\ todo[1].do.arg = "pending"
    BY StepArgs, DoFields
  <2>2. CreateFile
    <3>1. ~Transit /\ ~MoveFile /\ ~CountSibling
      BY <1>1, <2>1 DEF Transit, MoveFile, CountSibling, Does
    <3> QED
      BY <3>1
  <2>3. file' = [file EXCEPT ![j] = "pending"]
    BY <1>1, <2>1, <2>2 DEF CreateFile, WriteFile
  <2> QED
    BY <1>2, <2>3 DEF TypeOK
<1>7. ASSUME NEW m \in 1..n, todo[m].job = j, todo[m].do = Create("pending")
      PROVE  \/ file'[j] = "pending"
             \/ \E i \in 1..(n - 1) : todo'[i].job = j /\ todo'[i].do = Create("pending")
  <2>1. CASE m = 1
    BY <1>6, <1>7, <2>1
  <2>2. CASE m # 1
    <3>1. m \in 1..Len(todo) /\ m - 1 \in 1..(n - 1)
      BY <1>0, <1>1, <2>2
    <3>2. todo'[m - 1] = todo[m]
      BY <1>1, <2>2, <3>1
    <3> QED
      BY <1>7, <3>1, <3>2
  <2> QED
    BY <2>1, <2>2
<1> QED
  BY <1>3, <1>5, <1>7

\* What is left of a queued row's standing when the head of todo is not the
\* step it waits for.
LEMMA QueuedShifts ==
  ASSUME TypeOK, FlightInvariant, Transit \/ MoveFile \/ CreateFile \/ CountSibling,
         NEW j \in Jobs, QueuedOfPhase(j), file'[j] = file[j],
         pc = "report" /\ InBatch(j) => Unserved',
         \/ todo[1].job # j
         \/ todo[1].do # Fire("CLAIM") /\ todo[1].do # Move("pending")
  PROVE  QueuedOfPhase(j)'
<1>1. /\ pc' = pc /\ batch' = batch
      /\ \A n \in 1..Len(todo) : n # 1 => n - 1 \in 1..Len(todo') /\ todo'[n - 1] = todo[n]
  BY TakesHead
<1>2. InBatch(j)' <=> InBatch(j)
  BY <1>1 DEF InBatch
<1>3. ASSUME NEW d \in {Fire("CLAIM"), Move("pending")},
             \E n \in 1..Len(todo) : todo[n].job = j /\ todo[n].do = d
      PROVE  \E n \in 1..Len(todo') : todo'[n].job = j /\ todo'[n].do = d
  <2>1. PICK n \in 1..Len(todo) : todo[n].job = j /\ todo[n].do = d
    BY <1>3
  <2>2. n # 1
    BY <1>3, <2>1
  <2> QED
    BY <1>1, <2>1, <2>2
<1> QED
  BY <1>1, <1>2, <1>3 DEF QueuedOfPhase

(***************************************************************************)
(* The steps keep the strengthening.                                       *)
(***************************************************************************)
LEMMA FireOf == ASSUME NEW d \in Doing, d.op = "fire" PROVE d = Fire(d.arg)
  BY DEF Doing, Fire, Step

LEMMA QuietStarts ==
  ASSUME NEW kind \in {"triage", "patch", "verify"}
  PROVE  StartEvent(kind) # "CLAIM" /\ Started(kind) # "queued"
  BY StartFacts DEF StartEvent, Started, Transition, From

LEMMA TransitQueued ==
  ASSUME TypeOK, FlightInvariant, QueuedParts, Transit
  PROVE  QueuedParts'
<1>1. /\ UNCHANGED <<pc, batch, hook, success>> /\ Allowed(todo[1]) /\ 1 \in 1..Len(todo)
      /\ todo[1].job \in Jobs /\ Head(todo) = todo[1] /\ todo[1].job = Next1
  BY TakesHead
<1>2. UNCHANGED <<file, tally, held>> /\ Unserved' = Unserved
  BY <1>1 DEF Transit, Unserved, Lead
<1>3. PlainSteps' /\ DbClaims' /\ Announced'
  BY PlainStepsKept, DbClaimsKept, AnnouncedKept DEF QueuedParts
<1>4. PlainAtRest'
  BY <1>1 DEF QueuedParts, PlainAtRest, Allowed, InBatch, Lead
<1> DEFINE e == todo[1].do.arg
<1>5. /\ todo[1].do.op \in {"fire", "reap", "stale"} /\ e \in Event
      /\ row' = [row EXCEPT ![todo[1].job] = After(@, e)]
  <2>1. todo # <<>>
    BY DEF Transit, Does
  <2> QED
    BY <1>1, <2>1, HeadType DEF Transit, Does
<1>6. todo[1].do.op = "fire" => todo[1].do = Fire(e)
  <2>1. todo[1] \in Task
    BY <1>1, ElementOfSeq DEF TypeOK
  <2> QED
    BY <2>1, FireOf DEF Task
<1> SUFFICES ASSUME NEW j \in Plain, row'[j] = "queued" PROVE QueuedOfPhase(j)'
  BY <1>3, <1>4 DEF QueuedParts, QueuedRows, Plain
<1>7. j \in Jobs
  BY DEF Plain
<1>8. row[j] = "queued" => QueuedOfPhase(j)
  BY DEF QueuedParts, QueuedRows
<1>9. CASE j # todo[1].job
  <2>1. row[j] = "queued"
    BY <1>5, <1>7, <1>9 DEF TypeOK
  <2>2. pc = "report" /\ InBatch(j) => Unserved'
    BY <1>2, <1>8, <2>1 DEF QueuedOfPhase
  <2> QED
    BY <1>2, <1>7, <1>8, <1>9, <2>1, <2>2, QueuedShifts
<1>10. CASE j = todo[1].job
  <2>1. Fits(todo[1])
    BY <1>1, <1>10 DEF QueuedParts, PlainSteps
  <2>2. row'[j] = After(row[j], e)
    BY <1>5, <1>7, <1>10 DEF TypeOK
  <2>3. \/ row[j] \in Transition[e].from /\ Transition[e].to = "queued"
        \/ row[j] \notin Transition[e].from /\ row[j] = "queued"
    BY <2>2 DEF After
  <2> HIDE DEF e
  <2>4. CASE pc = "enqueue"
    <3>1. todo[1].do = Fire("HOOK_ENQUEUED")
      BY <1>1, <1>5, <2>4, DoFields DEF Allowed
    <3>2. file[j] = "pending"
      BY <1>1, <1>10, <2>4, <3>1 DEF QueuedParts, Announced
    <3> QED
      BY <1>1, <1>2, <2>4, <3>2 DEF QueuedOfPhase
  <2>5. CASE pc = "claim"
    <3>1. todo[1].do = Fire("CLAIM")
      BY <1>5, <2>1, <2>5, DoFields DEF Fits
    <3>2. e = "CLAIM"
      BY <3>1, FireFields DEF e
    <3> QED
      BY <2>3, <3>2, QueueingEvents
  <2>6. CASE pc = "start"
    <3>1. Kind[Lead] \in {"triage", "patch", "verify"}
      BY <2>6, LeadType DEF FlightInvariant, LeadInHand
    <3>2. todo[1].do = Fire(StartEvent(Kind[Lead]))
      BY <1>1, <2>6 DEF Allowed
    <3>3. e = StartEvent(Kind[Lead])
      BY <3>2, FireFields DEF e
    <3>4. row[j] = "queued" /\ e # "CLAIM"
      BY <2>3, <3>1, <3>3, QuietStarts DEF Started
    <3>5. todo[1].do # Fire("CLAIM") /\ todo[1].do # Move("pending")
      BY <3>2, <3>3, <3>4, StepArgs
    <3> QED
      BY <1>2, <1>7, <1>8, <2>6, <3>4, <3>5, QueuedShifts
  <2>7. CASE pc = "report"
    <3>1. todo[1].do.op = "fire" /\ e # "CLAIM"
      BY <1>1, <1>5, <2>7, DoFields DEF Allowed, e
    <3>2. todo[1].do = Fire(e)
      BY <1>6, <3>1
    <3>3. CASE e = "HOOK_ENQUEUED"
      <4>1. ~InBatch(j)
        BY <1>10, <2>1, <2>7, <3>2, <3>3 DEF Fits
      <4>2. file[j] = "pending"
        BY <1>1, <1>10, <2>7, <3>2, <3>3 DEF QueuedParts, Announced
      <4> QED
        BY <1>1, <1>2, <4>1, <4>2 DEF QueuedOfPhase, InBatch
    <3>4. CASE e = "PROVIDER_UNAVAILABLE"
      <4>1. InBatch(j) /\ Unserved
        BY <1>10, <2>1, <2>7, <3>2, <3>4 DEF Fits
      <4> QED
        BY <1>1, <1>2, <2>7, <4>1 DEF QueuedOfPhase, InBatch
    <3>5. CASE row[j] = "queued"
      <4>1. todo[1].do # Fire("CLAIM") /\ todo[1].do # Move("pending")
        BY <3>1, <3>2, StepArgs
      <4>2. pc = "report" /\ InBatch(j) => Unserved'
        BY <1>2, <1>8, <3>5 DEF QueuedOfPhase
      <4> QED
        BY <1>2, <1>7, <1>8, <3>5, <4>1, <4>2, QueuedShifts
    <3> QED
      BY <1>5, <2>3, <3>3, <3>4, <3>5, QueueingEvents
  <2>8. pc \in {"enqueue", "claim", "start", "report"}
    BY <1>1, <1>5, <2>1, DoFields DEF Allowed, Fits, TypeOK, Phase
  <2> QED
    BY <2>4, <2>5, <2>6, <2>7, <2>8
<1> QED
  BY <1>9, <1>10

LEMMA FileStepQueued ==
  ASSUME TypeOK, FlightInvariant, QueuedParts, MoveFile \/ CreateFile \/ CountSibling
  PROVE  QueuedParts'
<1>1. /\ UNCHANGED <<pc, batch, hook, success, row>> /\ Allowed(todo[1]) /\ 1 \in 1..Len(todo)
      /\ todo[1].job \in Jobs /\ Head(todo) = todo[1] /\ todo[1].job = Next1
      /\ \A n \in 1..Len(todo) : n # 1 => n - 1 \in 1..Len(todo') /\ todo'[n - 1] = todo[n]
  BY TakesHead DEF MoveFile, CreateFile, CountSibling
<1>2. PlainSteps' /\ DbClaims' /\ Announced'
  BY PlainStepsKept, DbClaimsKept, AnnouncedKept DEF QueuedParts
<1>3. PlainAtRest'
  BY <1>1 DEF QueuedParts, PlainAtRest, Allowed, InBatch, Lead
<1> SUFFICES ASSUME NEW j \in Plain, row[j] = "queued" PROVE QueuedOfPhase(j)'
  BY <1>1, <1>2, <1>3 DEF QueuedParts, QueuedRows, Plain
<1>4. j \in Jobs /\ QueuedOfPhase(j)
  BY DEF Plain, QueuedParts, QueuedRows
<1>5. pc = "report" /\ InBatch(j) => Unserved'
  BY <1>4, UnservedKept DEF QueuedParts, QueuedOfPhase
<1>6. CASE CountSibling
  <2>1. todo[1].do.op = "count" /\ file' = file
    BY <1>1, <1>6 DEF CountSibling, Does
  <2>2. todo[1].do # Fire("CLAIM") /\ todo[1].do # Move("pending")
    BY <2>1, FireFields, DoFields
  <2> QED
    BY <1>4, <1>5, <1>6, <2>1, <2>2, QueuedShifts
<1>7. CASE todo[1].job # j
  <2>1. file'[j] = file[j]
    BY <1>1, <1>4, <1>7 DEF MoveFile, CreateFile, CountSibling, WriteFile, TypeOK
  <2> QED
    BY <1>4, <1>5, <1>7, <2>1, QueuedShifts
<1>8. CASE todo[1].job = j /\ MoveFile
  <2>1. /\ todo[1].do.op = "move" /\ file' = [file EXCEPT ![j] = todo[1].do.arg]
        /\ Fits(todo[1])
    BY <1>1, <1>8 DEF MoveFile, Does, QueuedParts, PlainSteps
  <2>2. pc \in {"claim", "retire"} /\ InBatch(j)
    BY <1>1, <1>8, <2>1, DoFields, FireFields DEF Allowed, Fits, TypeOK, Phase
  <2>3. CASE pc = "claim"
    <3>1. PICK n \in 1..Len(todo) : todo[n].job = j /\ todo[n].do = Fire("CLAIM")
      BY <1>4, <2>2, <2>3 DEF QueuedOfPhase
    <3>2. n # 1
      BY <2>1, <3>1, FireFields
    <3>3. \E m \in 1..Len(todo') : todo'[m].job = j /\ todo'[m].do = Fire("CLAIM")
      BY <1>1, <3>1, <3>2
    <3> QED
      BY <1>1, <2>2, <2>3, <3>3 DEF QueuedOfPhase, InBatch
  <2>4. CASE pc = "retire"
    <3>1. todo[1].do = Move("pending")
      BY <1>8, <2>1, <2>4 DEF Fits
    <3>2. file'[j] = "pending"
      BY <1>4, <2>1, <3>1, StepArgs DEF TypeOK
    <3> QED
      BY <1>1, <2>2, <2>4, <3>2 DEF QueuedOfPhase, InBatch
  <2> QED
    BY <2>2, <2>3, <2>4
<1>9. CASE todo[1].job = j /\ CreateFile
  <2>1. /\ todo[1].do.op = "create" /\ file' = [file EXCEPT ![j] = todo[1].do.arg]
        /\ Fits(todo[1])
    BY <1>1, <1>9 DEF CreateFile, WriteFile, Does, QueuedParts, PlainSteps
  <2>2. pc \in {"enqueue", "report"} /\ (pc = "report" => ~InBatch(j))
    BY <1>1, <1>9, <2>1, DoFields, FireFields DEF Allowed, Fits, TypeOK, Phase
  <2>3. file'[j] = "pending"
    BY <1>4, <2>1, <2>2, StepArgs DEF TypeOK, Fits
  <2> QED
    BY <1>1, <2>2, <2>3 DEF QueuedOfPhase, InBatch
<1> QED
  BY <1>6, <1>7, <1>8, <1>9

LEMMA ClaimSiblingQueued ==
  ASSUME TypeOK, FlightInvariant, QueuedParts, ClaimSibling
  PROVE  QueuedParts'
<1>0. PICK k : k = Next1
  OBVIOUS
<1>1. /\ pc = "claim" /\ pc' = "claim" /\ todo # <<>>
      /\ \A n \in 1..Len(todo') :
           \/ todo'[n].do = Create("inflight") /\ todo'[n].job = k
           \/ \E m \in 1..Len(todo) : todo'[n] = todo[m]
  BY <1>0, ClaimSiblingPlan DEF FlightInvariant
<1>2. /\ k \in Jobs /\ Kind[k] = "triage" /\ Kind[Lead] = "triage"
  <2>1. Next1 \in Jobs /\ Head(todo) = todo[1] /\ 1 \in 1..Len(todo)
    BY <1>1, HeadType, HeadAllowed DEF FlightInvariant
  <2>2. todo[1].do.op = "dbclaim" /\ todo[1].job = k
    BY <1>0, <2>1 DEF ClaimSibling, Does, Next1
  <2> QED
    BY <1>0, <2>1, <2>2 DEF QueuedParts, DbClaims
<1>3. /\ UNCHANGED <<file, held, hook, success>>
      /\ \A j \in Jobs : j # k => row'[j] = row[j]
  BY <1>0 DEF ClaimSibling, TypeOK
<1>4. batch # <<>> /\ batch \in Seq(Jobs)
  BY <1>1 DEF FlightInvariant, LeadInHand, TypeOK
<1>5. Lead' = Lead /\ \A j : InBatch(j)' => InBatch(j) \/ j = k
  <2>1. CASE batch' = batch
    BY <2>1 DEF Lead, InBatch
  <2>2. CASE batch' = Append(batch, k)
    <3>1. /\ Len(batch') = Len(batch) + 1 /\ batch'[Len(batch) + 1] = k
          /\ \A n \in 1..Len(batch) : batch'[n] = batch[n]
      BY <1>2, <1>4, <2>2, AppendType
    <3>2. Len(batch) \in Nat /\ Len(batch) >= 1
      BY <1>4, EmptySeq, LenProperties
    <3> QED
      BY <3>1, <3>2 DEF Lead, InBatch
  <2> QED
    BY <1>0, <2>1, <2>2 DEF ClaimSibling
<1>6. \A j \in Plain : j \in Jobs /\ j # k /\ ~InBatch(j) /\ ~InBatch(j)'
  BY <1>2, <1>5 DEF QueuedParts, PlainAtRest, Plain
<1>7. \A n \in 1..Len(todo) : todo[n].job \notin Plain
  BY <1>1, <1>6 DEF QueuedParts, PlainSteps, Fits
<1>8. \A n \in 1..Len(todo') : todo'[n].job \notin Plain
  BY <1>1, <1>6, <1>7
<1>9. PlainSteps' /\ Announced'
  BY <1>8 DEF PlainSteps, Announced, Plain
<1>10. DbClaims'
  <2> SUFFICES ASSUME NEW n \in 1..Len(todo'), todo'[n].do.op = "dbclaim"
               PROVE  Kind[todo'[n].job] = "triage"
    BY <1>2, <1>5 DEF DbClaims
  <2>1. CASE todo'[n].do = Create("inflight")
    BY <2>1, DoFields
  <2>2. CASE \E m \in 1..Len(todo) : todo'[n] = todo[m]
    BY <2>2 DEF QueuedParts, DbClaims
  <2> QED
    BY <1>1, <2>1, <2>2
<1>11. QueuedRows'
  <2> SUFFICES ASSUME NEW j \in Plain, row'[j] = "queued" PROVE QueuedOfPhase(j)'
    BY DEF QueuedRows, Plain
  <2>1. file[j] = "pending"
    BY <1>3, <1>6 DEF QueuedParts, QueuedRows, QueuedOfPhase
  <2> QED
    BY <1>3, <1>6, <2>1 DEF QueuedOfPhase
<1>12. PlainAtRest'
  BY <1>1, <1>3, <1>6 DEF QueuedParts, PlainAtRest, Plain
<1> QED
  BY <1>9, <1>10, <1>11, <1>12 DEF QueuedParts

(***************************************************************************)
(* The plans keep it.                                                      *)
(***************************************************************************)
\* Each is given to members of its set only.
LEMMA EachJobs ==
  ASSUME NEW S \in SUBSET Jobs, NEW d \in Doing
  PROVE  /\ Each(S, d) \in Seq(Task)
         /\ \A n \in 1..Len(Each(S, d)) : Each(S, d)[n].do = d /\ Each(S, d)[n].job \in S
<1> DEFINE q == SetToSeq(S)
<1>1. IsFiniteSet(S)
  BY JobQueueAssumption, FS_Subset
<1>2. q \in Seq(S)
  BY <1>1, SetToSeqLists
<1>3. Each(S, d) = [n \in 1..Len(q) |-> [job |-> q[n], do |-> d]]
  BY DEF Each
<1>4. Each(S, d) \in Seq(Task)
  BY EachSteps
<1> HIDE DEF q
<1>5. Len(q) \in Nat /\ \A n \in 1..Len(q) : q[n] \in S
  BY <1>2
<1> QED
  BY <1>3, <1>4, <1>5

\* A step of two plans in a row is a step of one of them.
LEMMA ConcatItems ==
  ASSUME NEW f \in Seq(Task), NEW g \in Seq(Task)
  PROVE  /\ f \o g \in Seq(Task) /\ Len(f \o g) = Len(f) + Len(g)
         /\ \A n \in 1..Len(f \o g) : \/ n \in 1..Len(f) /\ (f \o g)[n] = f[n]
                                      \/ n - Len(f) \in 1..Len(g) /\ (f \o g)[n] = g[n - Len(f)]
         /\ \A n \in 1..Len(f) : n \in 1..Len(f \o g) /\ (f \o g)[n] = f[n]
         /\ \A n \in 1..Len(g) : n + Len(f) \in 1..Len(f \o g) /\ (f \o g)[n + Len(f)] = g[n]
<1>1. /\ f \o g \in Seq(Task) /\ Len(f \o g) = Len(f) + Len(g)
      /\ \A n \in 1..(Len(f) + Len(g)) : (f \o g)[n] = IF n <= Len(f) THEN f[n] ELSE g[n - Len(f)]
  BY ConcatProperties
<1>2. Len(f) \in Nat /\ Len(g) \in Nat
  BY LenProperties
<1> QED
  BY <1>1, <1>2

\* Before the first start no plain job has a row or a file to clear.
LEMMA StartQueued ==
  ASSUME TypeOK, FlightInvariant, QueuedParts, Start
  PROVE  QueuedParts'
<1> DEFINE f == Each(Orphans, Reap)
           g == Each(Stranded, Move("failed"))
<1>1. PICK old \in SUBSET Stale : todo' = f \o g \o Each(old, ReapStale)
  BY DEF Start
<1> DEFINE h == Each(old, ReapStale)
<1>2. /\ Orphans \in SUBSET Jobs /\ Stranded \in SUBSET Jobs /\ old \in SUBSET Jobs
      /\ Reap \in Doing /\ Move("failed") \in Doing /\ ReapStale \in Doing
  BY DoTypes DEF Orphans, Stranded, Stale, Directory
<1>3. /\ pc = "down" /\ pc' = "recover" /\ batch = <<>>
      /\ UNCHANGED <<file, row, hook, batch>>
  BY DEF Start, QueuedParts, PlainAtRest
<1>4. \A j \in Plain : row[j] = "none" /\ file[j] = "none"
  BY <1>3 DEF QueuedParts, PlainAtRest
<1>5. \A j \in Plain : j \notin Orphans /\ j \notin Stranded /\ j \notin old
  BY <1>4 DEF Orphans, Stranded, Stale, InFlight
<1>6. f \in Seq(Task) /\ \A n \in 1..Len(f) : f[n].do = Reap /\ f[n].job \notin Plain
  BY <1>2, <1>5, EachJobs
<1>7. g \in Seq(Task) /\ \A n \in 1..Len(g) : g[n].do = Move("failed") /\ g[n].job \notin Plain
  BY <1>2, <1>5, EachJobs
<1>8. h \in Seq(Task) /\ \A n \in 1..Len(h) : h[n].do = ReapStale /\ h[n].job \notin Plain
  BY <1>2, <1>5, EachJobs
<1> HIDE DEF f, g, h
<1> DEFINE u == f \o g
<1>9. /\ u \in Seq(Task)
      /\ \A n \in 1..Len(u) : u[n].do \in {Reap, Move("failed")} /\ u[n].job \notin Plain
  BY <1>6, <1>7, ConcatItems
<1>10. todo' = u \o h
  BY <1>1 DEF u, h
<1> HIDE DEF u
<1>11. \A n \in 1..Len(todo') : /\ todo'[n].do \in {Reap, Move("failed"), ReapStale}
                                /\ todo'[n].job \notin Plain
  BY <1>8, <1>9, <1>10, ConcatItems
<1>12. PlainSteps' /\ Announced'
  BY <1>11 DEF PlainSteps, Announced, Plain
<1>13. DbClaims'
  BY <1>11, DoFields DEF DbClaims
<1>14. QueuedRows' /\ PlainAtRest'
  BY <1>3, <1>4 DEF QueuedRows, QueuedParts, PlainAtRest, Plain, InBatch
<1> QED
  BY <1>12, <1>13, <1>14 DEF QueuedParts

LEMMA RequestQueued ==
  ASSUME TypeOK, FlightInvariant, QueuedParts, NEW j \in Jobs, Request(j)
  PROVE  QueuedParts'
<1> DEFINE t == For(j, <<Create("pending"), Fire("HOOK_ENQUEUED")>>)
<1>1. /\ pc = "idle" /\ pc' = "enqueue" /\ todo' = t /\ UNCHANGED <<file, row, batch>>
      /\ hook' = [hook EXCEPT ![j] = "posted"]
  BY DEF Request
<1>2. /\ Len(t) = 2 /\ t[1] = [job |-> j, do |-> Create("pending")]
      /\ t[2] = [job |-> j, do |-> Fire("HOOK_ENQUEUED")]
  BY RequestPlan
<1> HIDE DEF t
<1>3. /\ t[1].job = j /\ t[1].do = Create("pending") /\ t[2].job = j
      /\ t[2].do = Fire("HOOK_ENQUEUED")
  BY <1>2
<1>4. batch = <<>> /\ \A k : ~InBatch(k) /\ ~InBatch(k)'
  BY <1>1 DEF QueuedParts, PlainAtRest, InBatch
<1>5. PlainSteps'
  <2> SUFFICES ASSUME NEW n \in 1..Len(todo') PROVE Fits(todo[n])'
    BY DEF PlainSteps
  <2>1. todo'[n].do \in {Create("pending"), Fire("HOOK_ENQUEUED")}
    BY <1>1, <1>2, <1>3
  <2> QED
    BY <1>1, <2>1, FireFields DEF Fits
<1>6. DbClaims'
  BY <1>1, <1>2, <1>3, DoFields, FireFields DEF DbClaims
<1>7. Announced'
  <2> SUFFICES ASSUME NEW n \in 1..Len(todo'), todo'[n].do = Fire("HOOK_ENQUEUED")
               PROVE  \E m \in 1..(n - 1) : /\ todo'[m].job = todo'[n].job
                                            /\ todo'[m].do = Create("pending")
    BY DEF Announced
  <2>1. n = 2
    BY <1>1, <1>2, <1>3, StepArgs
  <2> QED
    BY <1>1, <1>3, <2>1
<1>8. QueuedRows'
  BY <1>1, <1>4 DEF QueuedParts, QueuedRows, QueuedOfPhase, Plain
<1>9. PlainAtRest'
  BY <1>1, <1>4 DEF QueuedParts, PlainAtRest, Plain, TypeOK
<1> QED
  BY <1>5, <1>6, <1>7, <1>8, <1>9 DEF QueuedParts

\* Between the jobs there is no batch.
LEMMA NoBatchAtRest ==
  ASSUME PlainAtRest, pc = "idle"
  PROVE  \A k : ~InBatch(k)
  BY DEF PlainAtRest, InBatch

LEMMA ClaimFileQueued ==
  ASSUME TypeOK, FlightInvariant, QueuedParts, NEW j \in Jobs, ClaimFile(j)
  PROVE  QueuedParts'
<1>0. \A k : ~InBatch(k)
  BY NoBatchAtRest DEF ClaimFile, QueuedParts
<1> DEFINE S == {k \in Jobs : Sibling(k, j) /\ Ready(k)}
           q == SetToSeq(S)
<1>1. /\ pc = "idle" /\ pc' = "claim" /\ batch' = <<j>> \o q /\ UNCHANGED <<file, row, hook>>
      /\ todo' = Rounds(batch', <<Move("inflight"), Fire("CLAIM")>>)
  BY DEF ClaimFile
<1>2. q \in Seq(S) /\ S \in SUBSET Jobs
  <2>1. IsFiniteSet(S)
    BY JobQueueAssumption, FS_Subset
  <2> QED
    BY <2>1, SetToSeqLists
<1>3. \A k \in S : Kind[k] = Kind[j]
  BY DEF Sibling
<1> HIDE DEF S, q
<1>4. batch' \in Seq(Jobs) /\ batch' # <<>>
  BY ClaimFileType DEF TypeOK
<1>5. /\ Len(batch') = 1 + Len(q) /\ batch'[1] = j /\ Len(q) \in Nat
      /\ \A n \in 1..Len(batch') : n # 1 => n - 1 \in 1..Len(q) /\ batch'[n] = q[n - 1]
  <2>1. q \in Seq(Jobs) /\ <<j>> \in Seq(Jobs) /\ Len(<<j>>) = 1 /\ <<j>>[1] = j
    BY <1>2, SeqMonotonic
  <2>2. /\ Len(batch') = Len(<<j>>) + Len(q) /\ Len(q) \in Nat
        /\ \A n \in 1..(Len(<<j>>) + Len(q)) :
             batch'[n] = IF n <= Len(<<j>>) THEN <<j>>[n] ELSE q[n - Len(<<j>>)]
    BY <1>1, <2>1, ConcatProperties
  <2> QED
    BY <2>1, <2>2
<1>6. \A n \in 1..Len(q) : q[n] \in S
  BY <1>2
<1>7. Lead' = j /\ \A k : InBatch(k)' => Kind[k] = Kind[j]
  BY <1>3, <1>5, <1>6 DEF Lead, InBatch
<1>8. /\ Len(todo') = 2 * Len(batch')
      /\ \A m \in 1..(2 * Len(batch')) : \E n \in 1..Len(batch') : m = 2 * n - 1 \/ m = 2 * n
      /\ \A n \in 1..Len(batch') :
           /\ todo'[2 * n - 1] = [job |-> batch'[n], do |-> Move("inflight")]
           /\ todo'[2 * n] = [job |-> batch'[n], do |-> Fire("CLAIM")]
  <2>1. PICK b \in Seq(Jobs) : b = batch'
    BY <1>4
  <2>2. PICK t : t = Rounds(b, <<Move("inflight"), Fire("CLAIM")>>)
    OBVIOUS
  <2>3. /\ Len(t) = 2 * Len(b)
        /\ \A m \in 1..(2 * Len(b)) : \E n \in 1..Len(b) : m = 2 * n - 1 \/ m = 2 * n
        /\ \A n \in 1..Len(b) : /\ t[2 * n - 1] = [job |-> b[n], do |-> Move("inflight")]
                               /\ t[2 * n] = [job |-> b[n], do |-> Fire("CLAIM")]
    BY <2>2, ClaimDoes, RoundsOfTwo
  <2>4. todo' = t
    BY <1>1, <2>1, <2>2
  <2> QED
    BY <2>1, <2>3, <2>4
<1>9. \A n \in 1..Len(batch') :
        /\ todo'[2 * n - 1].job = batch'[n] /\ todo'[2 * n - 1].do = Move("inflight")
        /\ todo'[2 * n].job = batch'[n] /\ todo'[2 * n].do = Fire("CLAIM")
  <2> TAKE n \in 1..Len(batch')
  <2>1. /\ todo'[2 * n - 1] = [job |-> batch'[n], do |-> Move("inflight")]
        /\ todo'[2 * n] = [job |-> batch'[n], do |-> Fire("CLAIM")]
    BY <1>8
  <2> QED
    BY <2>1
<1>10. \A m \in 1..Len(todo') : /\ InBatch(todo[m].job)'
                                /\ todo'[m].do \in {Move("inflight"), Fire("CLAIM")}
  <2> TAKE m \in 1..Len(todo')
  <2>1. PICK n \in 1..Len(batch') : m = 2 * n - 1 \/ m = 2 * n
    BY <1>8
  <2> QED
    BY <1>9, <2>1 DEF InBatch
<1>11. PlainSteps'
  BY <1>1, <1>10 DEF PlainSteps, Fits
<1>12. DbClaims'
  BY <1>10, DoFields, FireFields DEF DbClaims
<1>13. Announced'
  BY <1>1 DEF Announced
<1>14. QueuedRows'
  <2> SUFFICES ASSUME NEW k \in Plain, row[k] = "queued" PROVE QueuedOfPhase(k)'
    BY <1>1 DEF QueuedRows, Plain
  <2>1. file[k] = "pending"
    BY <1>0 DEF QueuedParts, QueuedRows, QueuedOfPhase
  <2>2. InBatch(k)' => \E m \in 1..Len(todo') : todo'[m].job = k /\ todo'[m].do = Fire("CLAIM")
    <3> SUFFICES ASSUME NEW n \in 1..Len(batch'), batch'[n] = k
                 PROVE  \E m \in 1..Len(todo') : todo'[m].job = k /\ todo'[m].do = Fire("CLAIM")
      BY DEF InBatch
    <3>1. 2 * n \in 1..Len(todo')
      BY <1>5, <1>8
    <3> QED
      BY <1>9, <3>1
  <2> QED
    BY <1>1, <2>1, <2>2 DEF QueuedOfPhase
<1>15. PlainAtRest'
  BY <1>1, <1>7 DEF QueuedParts, PlainAtRest, Plain
<1> QED
  BY <1>11, <1>12, <1>13, <1>14, <1>15 DEF QueuedParts

LEMMA ClaimRowQueued ==
  ASSUME TypeOK, FlightInvariant, QueuedParts, NEW j \in Jobs, ClaimRow(j)
  PROVE  QueuedParts'
<1>0. \A k : ~InBatch(k)
  BY NoBatchAtRest DEF ClaimRow, QueuedParts
<1> DEFINE S == {k \in Jobs : Sibling(k, j) /\ Unseen(k)}
           f == For(j, <<Create("inflight")>>)
           g == Each(S, DbClaim)
<1>1. /\ pc = "idle" /\ pc' = "claim" /\ batch' = <<j>> /\ todo' = f \o g
      /\ UNCHANGED <<file, hook>> /\ Kind[j] = "triage"
      /\ \A k \in Jobs : k # j => row'[k] = row[k]
  BY DEF ClaimRow, Unseen, TypeOK
<1>2. f \in Seq(Task) /\ Len(f) = 1 /\ f[1].do = Create("inflight") /\ f[1].job = j
  <2>1. f \in Seq(Task) /\ Len(f) = 1 /\ f[1] = [job |-> j, do |-> Create("inflight")]
    BY CreateInflight
  <2> HIDE DEF f
  <2> QED
    BY <2>1
<1>3. S \in SUBSET Jobs /\ \A k \in S : Kind[k] = "triage"
  BY DEF Unseen
<1>4. g \in Seq(Task) /\ \A n \in 1..Len(g) : g[n].do = DbClaim /\ g[n].job \in S
  <2> HIDE DEF S
  <2> QED
    BY <1>3, DoTypes, EachJobs
<1> HIDE DEF f, g, S
<1>5. \A n \in 1..Len(todo') : Kind[todo'[n].job] = "triage"
  <2> SUFFICES ASSUME NEW n \in 1..Len(f \o g) PROVE Kind[(f \o g)[n].job] = "triage"
    BY <1>1
  <2>1. \/ n \in 1..Len(f) /\ (f \o g)[n] = f[n]
        \/ n - Len(f) \in 1..Len(g) /\ (f \o g)[n] = g[n - Len(f)]
    BY <1>2, <1>4, ConcatItems
  <2>2. CASE n \in 1..Len(f) /\ (f \o g)[n] = f[n]
    BY <1>1, <1>2, <2>2
  <2>3. CASE n - Len(f) \in 1..Len(g) /\ (f \o g)[n] = g[n - Len(f)]
    BY <1>3, <1>4, <2>3
  <2> QED
    BY <2>1, <2>2, <2>3
<1>6. Lead' = j /\ \A k : InBatch(k)' => k = j
  <2>1. Len(batch') = 1 /\ batch'[1] = j
    BY <1>1
  <2> QED
    BY <2>1 DEF Lead, InBatch
<1>7. \A k \in Plain : k \in Jobs /\ k # j /\ ~InBatch(k)'
  BY <1>1, <1>6 DEF Plain
<1>8. PlainSteps' /\ Announced' /\ DbClaims'
  BY <1>1, <1>5, <1>6 DEF PlainSteps, Announced, DbClaims, Plain
<1>9. QueuedRows'
  <2> SUFFICES ASSUME NEW k \in Plain, row'[k] = "queued" PROVE QueuedOfPhase(k)'
    BY DEF QueuedRows, Plain
  <2>1. row[k] = "queued" /\ ~InBatch(k)
    BY <1>0, <1>1, <1>7
  <2>2. file[k] = "pending"
    BY <1>7, <2>1 DEF QueuedParts, QueuedRows, QueuedOfPhase
  <2> QED
    BY <1>1, <1>7, <2>2 DEF QueuedOfPhase
<1>10. PlainAtRest'
  BY <1>1, <1>7 DEF QueuedParts, PlainAtRest, Plain
<1> QED
  BY <1>8, <1>9, <1>10 DEF QueuedParts

\* The events a batch reports are about its members, and are those of the outcome.
LEMMA RoundsFire ==
  ASSUME TypeOK, batch # <<>>, NEW E \in SUBSET Event, NEW events,
         \/ \E e \in E : events = <<e>>
         \/ \E e \in E, f \in E : events = <<e, f>>
  PROVE  /\ Rounds(batch, Fires(events)) \in Seq(Task)
         /\ \A n \in 1..Len(Rounds(batch, Fires(events))) :
              /\ InBatch(Rounds(batch, Fires(events))[n].job)
              /\ \E e \in E : Rounds(batch, Fires(events))[n].do = Fire(e)
<1>0. batch \in Seq(Jobs) /\ Len(batch) \in Nat
  BY DEF TypeOK
<1>1. PICK t : t = Rounds(batch, Fires(events))
  OBVIOUS
<1>2. ASSUME NEW e \in E, events = <<e>>
      PROVE  t \in Seq(Task) /\ \A n \in 1..Len(t) : InBatch(t[n].job) /\ t[n].do = Fire(e)
  <2>0. e \in Event
    OBVIOUS
  <2>1. t = Rounds(batch, <<Fire(e)>>) /\ Fire(e) \in Doing
    BY <1>1, <1>2, <2>0, ReportOfOne
  <2>2. /\ t \in Seq(Task) /\ Len(t) = Len(batch)
        /\ \A n \in 1..Len(batch) : t[n] = [job |-> batch[n], do |-> Fire(e)]
    BY <1>0, <2>1, RoundsOfOne
  <2>3. \A n \in 1..Len(t) : t[n].job = batch[n] /\ t[n].do = Fire(e)
    <3> TAKE n \in 1..Len(t)
    <3>1. t[n] = [job |-> batch[n], do |-> Fire(e)]
      BY <2>2
    <3> QED
      BY <3>1
  <2> QED
    BY <2>2, <2>3 DEF InBatch
<1>3. ASSUME NEW e \in E, NEW f \in E, events = <<e, f>>
      PROVE  t \in Seq(Task)
             /\ \A n \in 1..Len(t) : InBatch(t[n].job) /\ t[n].do \in {Fire(e), Fire(f)}
  <2>0. e \in Event /\ f \in Event
    OBVIOUS
  <2>1. t = Rounds(batch, <<Fire(e), Fire(f)>>) /\ Fire(e) \in Doing /\ Fire(f) \in Doing
    BY <1>1, <1>3, <2>0, ReportOfTwo
  <2>2. /\ t \in Seq(Task) /\ Len(t) = 2 * Len(batch)
        /\ \A n \in 1..Len(batch) :
             /\ t[2 * n - 1] = [job |-> batch[n], do |-> Fire(e)]
             /\ t[2 * n] = [job |-> batch[n], do |-> Fire(f)]
        /\ \A m \in 1..(2 * Len(batch)) : \E n \in 1..Len(batch) : m = 2 * n - 1 \/ m = 2 * n
    BY <1>0, <2>1, RoundsOfTwo
  <2>3. ASSUME NEW m \in 1..Len(t) PROVE InBatch(t[m].job) /\ t[m].do \in {Fire(e), Fire(f)}
    <3>1. PICK n \in 1..Len(batch) : m = 2 * n - 1 \/ m = 2 * n
      BY <2>2, <2>3
    <3>2. \/ t[m] = [job |-> batch[n], do |-> Fire(e)]
          \/ t[m] = [job |-> batch[n], do |-> Fire(f)]
      BY <2>2, <3>1
    <3>3. t[m].job = batch[n] /\ t[m].do \in {Fire(e), Fire(f)}
      BY <3>2
    <3> QED
      BY <3>3 DEF InBatch
  <2> QED
    BY <2>2, <2>3
<1>4. t \in Seq(Task) /\ \A n \in 1..Len(t) : InBatch(t[n].job) /\ \E e \in E : t[n].do = Fire(e)
  <2>1. CASE \E e \in E : events = <<e>>
    <3>1. PICK e \in E : events = <<e>>
      BY <2>1
    <3>2. t \in Seq(Task) /\ \A n \in 1..Len(t) : InBatch(t[n].job) /\ t[n].do = Fire(e)
      BY <1>2, <3>1
    <3> QED
      BY <3>2
  <2>2. CASE \E e \in E, f \in E : events = <<e, f>>
    <3>1. PICK e \in E, f \in E : events = <<e, f>>
      BY <2>2
    <3>2. t \in Seq(Task)
          /\ \A n \in 1..Len(t) : InBatch(t[n].job) /\ t[n].do \in {Fire(e), Fire(f)}
      BY <1>3, <3>1
    <3> QED
      BY <3>2
  <2> QED
    BY <2>1, <2>2
<1> QED
  BY <1>1, <1>4

\* The events that do not queue a row.
Quiet == Event \ {"HOOK_ENQUEUED", "PROVIDER_UNAVAILABLE"}

LEMMA OutcomesAreQuiet ==
  ASSUME NEW kind \in {"triage", "patch", "verify"}, NEW o \in Outcomes(kind)
  PROVE  \/ \E e \in Quiet : o.events = <<e>>
         \/ \E e \in Quiet, f \in Quiet : o.events = <<e, f>>
<1>1. ASSUME NEW e \in Quiet, NEW ok, o = Outcome(<<e>>, ok)
      PROVE  \E x \in Quiet : o.events = <<x>>
  BY <1>1 DEF Outcome
<1>2. ASSUME NEW e \in Quiet, NEW f \in Quiet, NEW ok, o = Outcome(<<e, f>>, ok)
      PROVE  \E x \in Quiet, y \in Quiet : o.events = <<x, y>>
  BY <1>2 DEF Outcome
<1>3. {"SKIP_ORIGIN_LOCKED", "SKIP_ISSUE_MUTED", "ENV_TARGET_MISMATCH", "ENV_BROKEN",
       "TRIAGE_FAIL", "TRIAGE_OK", "ESCALATE_MANUAL", "WORKTREE_UNAVAILABLE", "PATCH_OK",
       "VERIFY_OK", "PATCH_BUDGET_OUT", "PATCH_GAVE_UP", "VERIFY_FIX_OK",
       "VERIFY_FIX_GAVE_UP"} \subseteq Quiet
  BY EventNames DEF Quiet
<1>4. CASE kind = "triage"
  <2>1. o \in Outcomes("triage")
    BY <1>4
  <2>2. \/ o = Outcome(<<"SKIP_ORIGIN_LOCKED">>, TRUE) \/ o = Outcome(<<"SKIP_ISSUE_MUTED">>, TRUE)
        \/ o = Outcome(<<"ENV_TARGET_MISMATCH">>, FALSE) \/ o = Outcome(<<"ENV_BROKEN">>, TRUE)
        \/ o = Outcome(<<"TRIAGE_FAIL">>, FALSE)
        \/ o = Outcome(<<"TRIAGE_OK", "ESCALATE_MANUAL">>, TRUE)
    BY <2>1 DEF Outcomes
  <2> QED
    BY <1>1, <1>2, <1>3, <2>2
<1>5. CASE kind = "patch"
  <2>1. o \in Outcomes("patch")
    BY <1>5
  <2>2. \/ o = Outcome(<<"SKIP_ORIGIN_LOCKED">>, TRUE) \/ o = Outcome(<<"SKIP_ISSUE_MUTED">>, TRUE)
        \/ o = Outcome(<<"ENV_TARGET_MISMATCH">>, FALSE) \/ o = Outcome(<<"ENV_BROKEN">>, TRUE)
        \/ o = Outcome(<<"WORKTREE_UNAVAILABLE">>, FALSE)
        \/ o = Outcome(<<"PATCH_OK", "VERIFY_OK">>, TRUE)
        \/ o = Outcome(<<"ESCALATE_MANUAL">>, TRUE) \/ o = Outcome(<<"PATCH_BUDGET_OUT">>, TRUE)
        \/ o = Outcome(<<"PATCH_GAVE_UP">>, TRUE) \/ o = Outcome(<<"PATCH_GAVE_UP">>, FALSE)
    BY <2>1 DEF Outcomes
  <2> QED
    BY <1>1, <1>2, <1>3, <2>2
<1>6. CASE kind = "verify"
  <2>1. o \in Outcomes("verify")
    BY <1>6
  <2>2. o = Outcome(<<"VERIFY_FIX_OK">>, TRUE) \/ o = Outcome(<<"VERIFY_FIX_GAVE_UP">>, FALSE)
    BY <2>1 DEF Outcomes
  <2> QED
    BY <1>1, <1>3, <2>2
<1> QED
  BY <1>4, <1>5, <1>6

\* Begin, and the reports: no row moves, and a queued plain row is outside the
\* batch by then.
LEMMA PhaseQueued ==
  ASSUME TypeOK, FlightInvariant, QueuedParts, pc \in {"claim", "start"}, todo = <<>>,
         pc' \in {"start", "report"}, UNCHANGED <<file, row, hook, batch>>,
         PlainSteps', DbClaims', Announced'
  PROVE  QueuedParts'
<1>1. Len(todo) = 0
  OBVIOUS
<1>2. QueuedRows'
  <2> SUFFICES ASSUME NEW j \in Plain, row[j] = "queued" PROVE QueuedOfPhase(j)'
    BY DEF QueuedRows, Plain
  <2>1. ~InBatch(j) /\ file[j] = "pending"
    BY <1>1 DEF QueuedParts, QueuedRows, QueuedOfPhase
  <2> QED
    BY <2>1 DEF QueuedOfPhase, InBatch
<1>3. PlainAtRest'
  BY DEF QueuedParts, PlainAtRest, InBatch, Lead
<1> QED
  BY <1>2, <1>3 DEF QueuedParts

LEMMA BeginQueued ==
  ASSUME TypeOK, FlightInvariant, QueuedParts, Begin
  PROVE  QueuedParts'
<1>1. /\ pc = "claim" /\ todo = <<>> /\ pc' = "start" /\ UNCHANGED <<file, row, hook, batch>>
      /\ todo' = Rounds(batch, Fires(<<StartEvent(Kind[Lead])>>))
  BY DEF Begin
<1>2. batch # <<>>
  BY <1>1 DEF FlightInvariant, LeadInHand
<1>3. StartEvent(Kind[Lead]) \in Event
  BY <1>2, LeadType, StartFacts
<1>4. PICK e \in Event : e = StartEvent(Kind[Lead])
  BY <1>3
<1>5. \A n \in 1..Len(todo') : \E x \in Event : todo'[n].do = Fire(x)
  BY <1>1, <1>2, <1>4, RoundsFire
<1>6. PlainSteps' /\ Announced'
  BY <1>1, <1>5 DEF PlainSteps, Fits, Announced
<1>7. DbClaims'
  BY <1>5, FireFields DEF DbClaims
<1> QED
  BY <1>1, <1>6, <1>7, PhaseQueued

LEMMA FinishQueued ==
  ASSUME TypeOK, FlightInvariant, QueuedParts, Finish
  PROVE  QueuedParts'
<1>1. pc = "start" /\ todo = <<>>
  BY DEF Finish, Running
<1>2. batch # <<>>
  BY <1>1 DEF FlightInvariant, LeadInHand
<1>3. PICK o \in Outcomes(Kind[Lead]) : Reports(<<>>, o)
  BY DEF Finish
<1>4. \/ \E e \in Quiet : o.events = <<e>>
      \/ \E e \in Quiet, f \in Quiet : o.events = <<e, f>>
  BY <1>2, LeadType, OutcomesAreQuiet
<1>5. Quiet \in SUBSET Event
  BY DEF Quiet
<1>6. /\ Rounds(batch, Fires(o.events)) \in Seq(Task)
      /\ \A n \in 1..Len(Rounds(batch, Fires(o.events))) :
           \E e \in Quiet : Rounds(batch, Fires(o.events))[n].do = Fire(e)
  <2>1. PICK events : events = o.events
    OBVIOUS
  <2>2. \/ \E e \in Quiet : events = <<e>>
        \/ \E e \in Quiet, f \in Quiet : events = <<e, f>>
    BY <1>4, <2>1
  <2>3. /\ Rounds(batch, Fires(events)) \in Seq(Task)
        /\ \A n \in 1..Len(Rounds(batch, Fires(events))) :
             \E e \in Quiet : Rounds(batch, Fires(events))[n].do = Fire(e)
    BY <1>2, <1>5, <2>2, RoundsFire
  <2> QED
    BY <2>1, <2>3
<1>7. /\ pc' = "report" /\ UNCHANGED <<file, row, hook, batch>>
      /\ todo' = <<>> \o Rounds(batch, Fires(o.events))
  BY <1>3 DEF Reports
<1>8. todo' = Rounds(batch, Fires(o.events))
  BY <1>6, <1>7, ConcatEmptySeq
<1>9. \A n \in 1..Len(todo') : /\ todo'[n].do.op = "fire"
                               /\ todo'[n].do # Fire("HOOK_ENQUEUED")
                               /\ todo'[n].do # Fire("PROVIDER_UNAVAILABLE")
  BY <1>6, <1>8, StepArgs, FireFields DEF Quiet
<1>10. PlainSteps' /\ Announced' /\ DbClaims'
  BY <1>7, <1>9 DEF PlainSteps, Fits, Announced, DbClaims
<1> QED
  BY <1>1, <1>7, <1>10, PhaseQueued

LEMMA ProviderQueued ==
  ASSUME TypeOK, FlightInvariant, QueuedParts, ProviderFails
  PROVE  QueuedParts'
<1>1. /\ pc = "start" /\ todo = <<>> /\ pc' = "report" /\ UNCHANGED <<file, row, hook, batch>>
      /\ CountFailure(Lead)
  BY DEF ProviderFails, Running, Reports
<1>2. batch # <<>>
  BY <1>1 DEF FlightInvariant, LeadInHand
<1>3. Lead \in Jobs /\ Lead' = Lead /\ success' = FALSE
  BY <1>1, <1>2, LeadType, ProviderPlan DEF Lead
<1>4. PICK e \in Event : e = ProviderEvent
  BY ProviderPlan
<1>5. e # "HOOK_ENQUEUED" /\ (e = "PROVIDER_UNAVAILABLE" => RetriesLeft(Lead))
  BY <1>4 DEF ProviderEvent
<1>6. e = "PROVIDER_UNAVAILABLE" => Unserved'
  BY <1>1, <1>3, <1>5 DEF CountFailure, Unserved, TypeOK
<1>7. todo' = <<>> \o Rounds(batch, Fires(<<e>>))
  BY <1>4, ProviderPlan
<1>8. /\ Rounds(batch, Fires(<<e>>)) \in Seq(Task)
      /\ \A n \in 1..Len(Rounds(batch, Fires(<<e>>))) :
           /\ InBatch(Rounds(batch, Fires(<<e>>))[n].job)
           /\ \E x \in {e} : Rounds(batch, Fires(<<e>>))[n].do = Fire(x)
  <2>1. {e} \in SUBSET Event /\ \E x \in {e} : <<e>> = <<x>>
    OBVIOUS
  <2> QED
    BY <1>2, <2>1, RoundsFire
<1>9. \A n \in 1..Len(todo') : InBatch(todo'[n].job) /\ todo'[n].do = Fire(e)
  <2>1. todo' = Rounds(batch, Fires(<<e>>))
    BY <1>7, <1>8, ConcatEmptySeq
  <2> QED
    BY <1>8, <2>1
<1>10. PlainSteps'
  <2> SUFFICES ASSUME NEW n \in 1..Len(todo') PROVE Fits(todo[n])'
    BY DEF PlainSteps
  <2>1. todo'[n].do = Fire(e) /\ InBatch(todo[n].job)'
    BY <1>1, <1>9 DEF InBatch
  <2> QED
    BY <1>1, <1>5, <1>6, <2>1, FireFields, StepArgs DEF Fits
<1>11. Announced' /\ DbClaims'
  BY <1>5, <1>9, FireFields, StepArgs DEF Announced, DbClaims
<1> QED
  BY <1>1, <1>10, <1>11, PhaseQueued

LEMMA HandoffQueued ==
  ASSUME TypeOK, FlightInvariant, QueuedParts, NEW p \in Jobs, Handoff(p)
  PROVE  QueuedParts'
<1> DEFINE pre == For(p, <<Create("pending"), Fire("HOOK_ENQUEUED")>>)
           events == <<"TRIAGE_OK", "TRIAGE_HANDOFF">>
           t == Rounds(batch, Fires(events))
<1>1. pc = "start" /\ todo = <<>> /\ Kind[Lead] = "triage" /\ Kind[p] = "patch"
  BY DEF Handoff, Running
<1>2. pc' = "report" /\ UNCHANGED <<file, row, hook, batch>> /\ todo' = pre \o t
  BY DEF Handoff, Reports, HandedOff, Outcome
<1>3. batch # <<>>
  BY <1>1 DEF FlightInvariant, LeadInHand
<1>4. /\ pre \in Seq(Task) /\ Len(pre) = 2
      /\ pre[1] = [job |-> p, do |-> Create("pending")]
      /\ pre[2] = [job |-> p, do |-> Fire("HOOK_ENQUEUED")]
  BY RequestPlan
<1>5. t \in Seq(Task)
      /\ \A n \in 1..Len(t) : InBatch(t[n].job) /\ \E e \in Quiet : t[n].do = Fire(e)
  <2>1. Quiet \in SUBSET Event /\ \E e \in Quiet, f \in Quiet : events = <<e, f>>
    BY EventNames DEF Quiet
  <2> HIDE DEF events
  <2> QED
    BY <1>3, <2>1, RoundsFire
<1> HIDE DEF pre, events, t
<1>6. /\ pre[1].job = p /\ pre[1].do = Create("pending")
      /\ pre[2].job = p /\ pre[2].do = Fire("HOOK_ENQUEUED")
  BY <1>4
<1>7. \A n \in 1..Len(t) : t[n].do.op = "fire" /\ t[n].do # Fire("HOOK_ENQUEUED")
  BY <1>5, FireFields, StepArgs DEF Quiet
<1>8. \A j \in Plain : ~InBatch(j)
  BY <1>1 DEF QueuedParts, PlainAtRest
<1>9. \A n \in 1..Len(todo') :
        \/ n \in 1..2 /\ todo'[n] = pre[n]
        \/ InBatch(todo'[n].job) /\ todo'[n].do.op = "fire" /\ todo'[n].do # Fire("HOOK_ENQUEUED")
  <2> SUFFICES ASSUME NEW n \in 1..Len(pre \o t)
               PROVE  \/ n \in 1..2 /\ (pre \o t)[n] = pre[n]
                      \/ /\ InBatch((pre \o t)[n].job) /\ (pre \o t)[n].do.op = "fire"
                         /\ (pre \o t)[n].do # Fire("HOOK_ENQUEUED")
    BY <1>2
  <2>1. \/ n \in 1..Len(pre) /\ (pre \o t)[n] = pre[n]
        \/ n - Len(pre) \in 1..Len(t) /\ (pre \o t)[n] = t[n - Len(pre)]
    BY <1>4, <1>5, ConcatItems
  <2> QED
    BY <1>4, <1>5, <1>7, <2>1
<1>10. /\ 1 \in 1..Len(todo') /\ todo'[1] = pre[1]
  <2>1. 1 \in 1..Len(pre)
    BY <1>4
  <2> QED
    BY <1>2, <1>4, <1>5, <2>1, ConcatItems
<1>11. PlainSteps'
  <2> SUFFICES ASSUME NEW n \in 1..Len(todo'), todo'[n].job \in Plain PROVE Fits(todo[n])'
    BY DEF PlainSteps, Plain
  <2>1. n \in 1..2 /\ todo'[n] = pre[n]
    BY <1>8, <1>9
  <2>2. todo'[n].do \in {Create("pending"), Fire("HOOK_ENQUEUED")}
    BY <1>6, <2>1
  <2>3. ~InBatch(todo[n].job)'
    BY <1>2, <1>8 DEF InBatch
  <2> QED
    BY <1>2, <2>2, <2>3, FireFields, StepArgs DEF Fits
<1>12. DbClaims'
  BY <1>6, <1>9, FireFields, DoFields DEF DbClaims
<1>13. Announced'
  <2> SUFFICES ASSUME NEW n \in 1..Len(todo'), todo'[n].do = Fire("HOOK_ENQUEUED")
               PROVE  \E m \in 1..(n - 1) : /\ todo'[m].job = todo'[n].job
                                            /\ todo'[m].do = Create("pending")
    BY DEF Announced
  <2>1. n = 2 /\ todo'[n] = pre[2]
    BY <1>6, <1>9, StepArgs
  <2> QED
    BY <1>6, <1>10, <2>1
<1> QED
  BY <1>1, <1>2, <1>11, <1>12, <1>13, PhaseQueued

\* A batch is retired: its queued rows are those of a requeue, whose plan moves
\* every member back to pending/.
LEMMA RequeueItems ==
  ASSUME TypeOK, batch # <<>>, NEW t, t = Requeue
  PROVE  /\ \A n \in 1..Len(t) : InBatch(t[n].job) /\ t[n].do \in {Move("pending"), Count}
         /\ \A j \in Jobs : InBatch(j) =>
              \E n \in 1..Len(t) : t[n].job = j /\ t[n].do = Move("pending")
<1> DEFINE b == Tail(batch)
           f == For(Lead, <<Move("pending")>>)
           g == Rounds(b, <<Count, Move("pending")>>)
<1>1. Move("pending") \in Doing /\ Count \in Doing
  BY DoTypes DEF Directory
<1>2. /\ Lead \in Jobs /\ b \in Seq(Jobs) /\ Len(b) = Len(batch) - 1 /\ Len(batch) \in Nat
      /\ Len(b) \in Nat
      /\ \A n \in 1..Len(b) : n + 1 \in 1..Len(batch) /\ b[n] = batch[n + 1]
  <2>1. Lead \in Jobs /\ b \in Seq(Jobs)
    BY LeadType
  <2>2. batch \in Seq(Jobs) /\ batch # <<>>
    BY DEF TypeOK
  <2> QED
    BY <2>1, <2>2
<1>3. \A n \in 1..Len(batch) : n = 1 \/ (n - 1 \in 1..Len(b) /\ b[n - 1] = batch[n])
  <2> TAKE n \in 1..Len(batch)
  <2>1. CASE n # 1
    <3>1. n - 1 \in 1..Len(b) /\ (n - 1) + 1 = n
      BY <1>2, <2>1
    <3> QED
      BY <1>2, <3>1
  <2>2. CASE n = 1
    BY <2>2
  <2> QED
    BY <2>1, <2>2
<1> HIDE DEF b
<1>4. f \in Seq(Task) /\ Len(f) = 1 /\ f[1] = [job |-> Lead, do |-> Move("pending")]
  BY <1>1, <1>2, ForOne
<1>5. /\ g \in Seq(Task) /\ Len(g) = 2 * Len(b)
      /\ \A n \in 1..Len(b) :
           /\ g[2 * n - 1] = [job |-> b[n], do |-> Count]
           /\ g[2 * n] = [job |-> b[n], do |-> Move("pending")]
      /\ \A m \in 1..(2 * Len(b)) : \E n \in 1..Len(b) : m = 2 * n - 1 \/ m = 2 * n
  BY <1>1, <1>2, RoundsOfTwo
<1>6. t = f \o g
  BY DEF Requeue, b
<1> HIDE DEF f, g
<1>7. f[1].job = Lead /\ f[1].do = Move("pending") /\ InBatch(Lead)
  BY <1>4, LeadInBatch
<1>8. \A n \in 1..Len(b) : /\ g[2 * n - 1].job = b[n] /\ g[2 * n - 1].do = Count
                           /\ g[2 * n].job = b[n] /\ g[2 * n].do = Move("pending")
  <2> TAKE n \in 1..Len(b)
  <2>1. /\ g[2 * n - 1] = [job |-> b[n], do |-> Count]
        /\ g[2 * n] = [job |-> b[n], do |-> Move("pending")]
    BY <1>5
  <2> QED
    BY <2>1
<1>9. \A n \in 1..Len(b) : InBatch(b[n])
  BY <1>2 DEF InBatch
<1>10. \A m \in 1..Len(g) : InBatch(g[m].job) /\ g[m].do \in {Move("pending"), Count}
  <2> TAKE m \in 1..Len(g)
  <2>1. PICK n \in 1..Len(b) : m = 2 * n - 1 \/ m = 2 * n
    BY <1>5
  <2> QED
    BY <1>8, <1>9, <2>1
<1>11. \A n \in 1..Len(t) : InBatch(t[n].job) /\ t[n].do \in {Move("pending"), Count}
  <2> SUFFICES ASSUME NEW n \in 1..Len(f \o g)
               PROVE  InBatch((f \o g)[n].job) /\ (f \o g)[n].do \in {Move("pending"), Count}
    BY <1>6
  <2>1. \/ n \in 1..Len(f) /\ (f \o g)[n] = f[n]
        \/ n - Len(f) \in 1..Len(g) /\ (f \o g)[n] = g[n - Len(f)]
    BY <1>4, <1>5, ConcatItems
  <2>2. CASE n \in 1..Len(f) /\ (f \o g)[n] = f[n]
    BY <1>4, <1>7, <2>2
  <2>3. CASE n - Len(f) \in 1..Len(g) /\ (f \o g)[n] = g[n - Len(f)]
    BY <1>10, <2>3
  <2> QED
    BY <2>1, <2>2, <2>3
<1>12. ASSUME NEW j \in Jobs, InBatch(j)
       PROVE  \E n \in 1..Len(t) : t[n].job = j /\ t[n].do = Move("pending")
  <2>1. PICK n \in 1..Len(batch) : batch[n] = j
    BY <1>12 DEF InBatch
  <2>2. CASE n = 1
    <3>1. j = Lead
      BY <2>1, <2>2 DEF Lead
    <3>2. 1 \in 1..Len(f)
      BY <1>4
    <3>3. 1 \in 1..Len(t) /\ t[1] = f[1]
      <4>1. 1 \in 1..Len(f \o g) /\ (f \o g)[1] = f[1]
        BY <1>4, <1>5, <3>2, ConcatItems
      <4> QED
        BY <1>6, <4>1
    <3> QED
      BY <1>7, <3>1, <3>3
  <2>3. CASE n # 1
    <3>1. n - 1 \in 1..Len(b) /\ b[n - 1] = j
      BY <1>3, <2>1, <2>3
    <3>2. PICK i \in 1..Len(b) : b[i] = j
      BY <3>1
    <3>3. 2 * i \in 1..Len(g) /\ g[2 * i].job = j /\ g[2 * i].do = Move("pending")
      BY <1>2, <1>5, <1>8, <3>2
    <3>4. 2 * i + Len(f) \in 1..Len(t) /\ t[2 * i + Len(f)] = g[2 * i]
      <4>1. PICK k : k = 2 * i
        OBVIOUS
      <4>2. k + Len(f) \in 1..Len(f \o g) /\ (f \o g)[k + Len(f)] = g[k]
        BY <1>4, <1>5, <3>3, <4>1, ConcatItems
      <4> QED
        BY <1>6, <4>1, <4>2
    <3> QED
      BY <3>3, <3>4
  <2> QED
    BY <2>2, <2>3
<1> QED
  BY <1>11, <1>12

LEMMA RetireQueued ==
  ASSUME TypeOK, FlightInvariant, QueuedParts, Retire
  PROVE  QueuedParts'
<1>1. /\ pc = "report" /\ todo = <<>> /\ pc' = "retire" /\ UNCHANGED <<file, row, hook, batch>>
  BY DEF Retire
<1>2. batch # <<>> /\ batch \in Seq(Jobs)
  BY <1>1 DEF FlightInvariant, LeadInHand, TypeOK
<1>3. \A j \in Plain : row[j] = "queued" => IF InBatch(j) THEN Unserved ELSE file[j] = "pending"
  BY <1>1 DEF QueuedParts, QueuedRows, QueuedOfPhase
<1>4. \A k : InBatch(k)' <=> InBatch(k)
  BY <1>1 DEF InBatch
<1>5. PlainAtRest'
  BY <1>1 DEF QueuedParts, PlainAtRest, InBatch, Lead
<1>6. Announced'
  BY <1>1 DEF Announced
<1>7. CASE Unserved
  <2>1. todo' = Requeue
    BY <1>7 DEF Retire, Unserved
  <2>2. PICK t : t = Requeue
    OBVIOUS
  <2>3. /\ \A n \in 1..Len(t) : InBatch(t[n].job) /\ t[n].do \in {Move("pending"), Count}
        /\ \A j \in Jobs : InBatch(j) =>
             \E n \in 1..Len(t) : t[n].job = j /\ t[n].do = Move("pending")
    BY <1>2, <2>2, RequeueItems
  <2>4. todo' = t
    BY <2>1, <2>2
  <2>5. PlainSteps' /\ DbClaims'
    BY <1>1, <1>4, <2>3, <2>4, DoFields DEF PlainSteps, Fits, DbClaims
  <2>6. QueuedRows'
    <3> SUFFICES ASSUME NEW j \in Plain, row[j] = "queued" PROVE QueuedOfPhase(j)'
      BY <1>1 DEF QueuedRows, Plain
    <3> QED
      BY <1>1, <1>3, <1>4, <2>3, <2>4 DEF QueuedOfPhase, Plain
  <2> QED
    BY <1>5, <1>6, <2>5, <2>6 DEF QueuedParts
<1>8. CASE ~Unserved
  <2>1. \A j \in Plain : row[j] = "queued" => ~InBatch(j) /\ file[j] = "pending"
    BY <1>3, <1>8
  <2>2. PICK d \in {Move("done"), Move("failed")} : todo' = Rounds(batch, <<d>>)
    BY <1>8 DEF Retire, Unserved
  <2>3. /\ Len(todo') = Len(batch)
        /\ \A n \in 1..Len(batch) : todo'[n] = [job |-> batch[n], do |-> d]
    BY <1>2, <2>2, ClaimDoes, RoundsOfOne
  <2>4. \A n \in 1..Len(todo') : InBatch(todo'[n].job) /\ todo'[n].do = d
    <3> TAKE n \in 1..Len(todo')
    <3>1. todo'[n] = [job |-> batch[n], do |-> d]
      BY <2>3
    <3>2. todo'[n].job = batch[n] /\ todo'[n].do = d
      BY <3>1
    <3> QED
      BY <2>3, <3>2 DEF InBatch
  <2>5. PlainSteps' /\ DbClaims'
    BY <1>1, <1>4, <2>1, <2>4, DoFields DEF PlainSteps, Fits, DbClaims
  <2>6. QueuedRows'
    BY <1>1, <1>4, <2>1 DEF QueuedRows, QueuedOfPhase, Plain
  <2> QED
    BY <1>5, <1>6, <2>5, <2>6 DEF QueuedParts
<1> QED
  BY <1>7, <1>8

LEMMA IdleQueued ==
  ASSUME TypeOK, FlightInvariant, QueuedParts, Idle
  PROVE  QueuedParts'
<1>1. /\ pc \in {"recover", "enqueue", "retire"} /\ todo = <<>> /\ todo' = <<>> /\ pc' = "idle"
      /\ batch' = <<>> /\ UNCHANGED <<file, row, hook>>
  BY DEF Idle
<1>2. Len(todo) = 0 /\ Len(todo') = 0 /\ Len(batch') = 0
  BY <1>1
<1>3. \A k : ~InBatch(k)'
  BY <1>2 DEF InBatch
<1>4. PlainSteps' /\ DbClaims' /\ Announced'
  BY <1>2 DEF PlainSteps, DbClaims, Announced
<1>5. QueuedRows'
  <2> SUFFICES ASSUME NEW j \in Plain, row[j] = "queued" PROVE file[j] = "pending"
    BY <1>1, <1>3 DEF QueuedRows, QueuedOfPhase, Plain
  <2>1. pc # "retire" => ~InBatch(j)
    BY <1>1 DEF QueuedParts, PlainAtRest, InBatch
  <2> QED
    BY <1>2, <2>1 DEF QueuedParts, QueuedRows, QueuedOfPhase
<1>6. PlainAtRest'
  BY <1>1, <1>3 DEF QueuedParts, PlainAtRest, Plain
<1> QED
  BY <1>4, <1>5, <1>6 DEF QueuedParts

\* Hooks work on triage jobs, an operator only takes rows out of the queue, and
\* no backoff of a job in hand runs out.
LEMMA WorldQueued ==
  ASSUME TypeOK, FlightInvariant, QueuedParts, ~SlowTail, NEW j \in Jobs,
         HookWrites(j) \/ HookPosts(j) \/ Abandon(j) \/ Elapse(j)
  PROVE  QueuedParts'
<1>1. UNCHANGED <<pc, batch, todo, success>>
  BY DEF HookWrites, HookPosts, Abandon, Elapse
<1>2. \A k \in Plain : k \in Jobs /\ Kind[k] # "triage" /\ hook[k] # "posting"
  BY DEF QueuedParts, PlainAtRest, Plain
<1>3. \A k \in Plain : file'[k] = file[k]
  BY <1>2 DEF HookWrites, WriteFile, HookPosts, Abandon, Elapse, TypeOK
<1>4. \A k \in Plain : hook'[k] # "posting"
  BY <1>2 DEF HookWrites, HookPosts, Abandon, Elapse, TypeOK
<1>5. \A k \in Plain : \/ row'[k] = row[k]
                       \/ row[k] # "none" /\ row'[k] # "queued"
  <2>1. CASE HookWrites(j) \/ Elapse(j)
    BY <2>1 DEF HookWrites, Elapse
  <2>2. CASE HookPosts(j)
    <3>1. j \notin Plain
      BY <1>2, <2>2, JobQueueAssumption DEF HookPosts
    <3> QED
      BY <1>2, <2>2, <3>1 DEF HookPosts, TypeOK
  <2>3. CASE Abandon(j)
    <3>1. /\ row[j] \in Transition["ABANDON"].from /\ row[j] # "none"
          /\ row' = [row EXCEPT ![j] = After(@, "ABANDON")]
      BY <2>3 DEF Abandon, Transition, From, InFlight
    <3>2. row'[j] # "queued"
      BY <3>1, QueueingEvents DEF After, TypeOK
    <3> QED
      BY <1>2, <3>1, <3>2 DEF TypeOK
  <2> QED
    BY <2>1, <2>2, <2>3
<1>6. ASSUME NEW k \in Plain, InBatch(k), pc = "report", Unserved PROVE Unserved'
  <2>1. batch # <<>>
    BY <1>6 DEF FlightInvariant, LeadInHand
  <2>2. Lead \in Jobs /\ Lead' = Lead /\ Kind[Lead] # "triage" /\ InBatch(Lead)
    BY <1>1, <1>6, <2>1, LeadInBatch DEF QueuedParts, PlainAtRest, Lead
  <2>3. held'[Lead] = held[Lead]
    BY <2>2 DEF HookWrites, WriteFile, HookPosts, Abandon, Elapse, TypeOK
  <2> QED
    BY <1>1, <1>6, <2>2, <2>3 DEF Unserved
<1>7. \A k : InBatch(k)' <=> InBatch(k)
  BY <1>1 DEF InBatch
<1>8. PlainSteps'
  <2> SUFFICES ASSUME NEW n \in 1..Len(todo), todo[n].job \in Plain PROVE Fits(todo[n])'
    BY <1>1 DEF PlainSteps, Plain
  <2>1. PICK t : t = todo[n]
    OBVIOUS
  <2>2. Fits(t) /\ t.job \in Plain
    BY <2>1 DEF QueuedParts, PlainSteps
  <2>3. row'[t.job] = "queued" => row[t.job] = "queued"
    BY <1>5, <2>2
  <2>4. pc = "report" /\ InBatch(t.job) /\ Unserved => Unserved'
    BY <1>6, <2>2
  <2>5. /\ pc # "recover"
        /\ pc = "claim" => InBatch(t.job)' /\ t.do \in {Move("inflight"), Fire("CLAIM")}
        /\ pc \in {"enqueue", "report"} /\ t.do.op = "create" => t.do = Create("pending")
        /\ pc = "report" /\ t.do.op = "create" => ~InBatch(t.job)'
        /\ pc = "report" /\ t.do = Fire("HOOK_ENQUEUED") => ~InBatch(t.job)'
        /\ pc = "report" /\ t.do = Fire("PROVIDER_UNAVAILABLE") => InBatch(t.job)' /\ Unserved'
        /\ pc = "retire" => InBatch(t.job)'
        /\ pc = "retire" /\ t.do.op = "move" /\ row'[t.job] = "queued" => t.do = Move("pending")
    BY <1>1, <2>2, <2>3, <2>4, FitsKept
  <2>6. todo'[n] = t /\ pc' = pc
    BY <1>1, <2>1
  <2> QED
    BY <2>5, <2>6 DEF Fits, InBatch
<1>9. DbClaims'
  BY <1>1 DEF QueuedParts, DbClaims, Lead
<1>10. Announced'
  BY <1>1, <1>3 DEF QueuedParts, Announced, Plain
<1>11. QueuedRows'
  <2> SUFFICES ASSUME NEW k \in Plain, row'[k] = "queued" PROVE QueuedOfPhase(k)'
    BY DEF QueuedRows, Plain
  <2>1. QueuedOfPhase(k)
    BY <1>5 DEF QueuedParts, QueuedRows
  <2>2. pc = "report" /\ InBatch(k) => Unserved'
    BY <1>6, <2>1 DEF QueuedOfPhase
  <2> QED
    BY <1>1, <1>3, <1>7, <2>1, <2>2 DEF QueuedOfPhase
<1>12. PlainAtRest'
  BY <1>1, <1>3, <1>4, <1>5, <1>7 DEF QueuedParts, PlainAtRest, Plain, Lead
<1> QED
  BY <1>8, <1>9, <1>10, <1>11, <1>12 DEF QueuedParts

\* After a crash or a lost transition the promise is off.
LEMMA RoughSteps ==
  ASSUME TypeOK,
         Crash \/ TransitLost \/ (\E j \in Jobs : HookPostLost(j))
  PROVE  ~Smooth'
  BY Budgets DEF TypeOK, Crash, TransitLost, HookPostLost, Smooth

LEMMA QueuedStep ==
  ASSUME TypeOK, FlightInvariant, QueuedInvariant, ~SlowTail, [Next]_vars
  PROVE  QueuedInvariant'
<1> SUFFICES ASSUME Smooth' PROVE QueuedParts'
  BY DEF QueuedInvariant, QueuedParts
<1>1. Smooth
  <2>1. crashes \in Nat /\ faults \in Nat
    BY Budgets DEF TypeOK
  <2>2. \/ UNCHANGED <<crashes, faults>> \/ Crash \/ TransitLost
        \/ \E j \in Jobs : HookPostLost(j)
    BY DEF Next, Runner, World, vars, Start, Transit, MoveFile, CreateFile, CountSibling, Pops,
           ClaimSibling, ClaimFile, ClaimRow, Handoff, Begin, Finish, ProviderFails, Reports,
           Retire, Idle, HookWrites, HookPosts, Request, Abandon, Elapse
  <2> QED
    BY <2>2, RoughSteps DEF Smooth
<1>2. QueuedParts
  BY <1>1 DEF QueuedInvariant, QueuedParts
<1>3. CASE Start \/ Begin \/ Finish \/ ProviderFails \/ Retire \/ Idle
  BY <1>2, <1>3, StartQueued, BeginQueued, FinishQueued, ProviderQueued, RetireQueued, IdleQueued
<1>4. CASE Transit \/ MoveFile \/ CreateFile \/ CountSibling \/ ClaimSibling
  BY <1>2, <1>4, TransitQueued, FileStepQueued, ClaimSiblingQueued
<1>5. ASSUME NEW j \in Jobs, ClaimFile(j) \/ ClaimRow(j) \/ Handoff(j) \/ Request(j)
      PROVE  QueuedParts'
  BY <1>2, <1>5, ClaimFileQueued, ClaimRowQueued, HandoffQueued, RequestQueued
<1>6. ASSUME NEW j \in Jobs, HookWrites(j) \/ HookPosts(j) \/ Abandon(j) \/ Elapse(j)
      PROVE  QueuedParts'
  BY <1>2, <1>6, WorldQueued
<1>7. ~Crash /\ ~TransitLost /\ \A j \in Jobs : ~HookPostLost(j)
  BY RoughSteps
<1>8. CASE UNCHANGED vars
  BY <1>2, <1>8
     DEF vars, QueuedParts, PlainSteps, Fits, DbClaims, Announced, QueuedRows, QueuedOfPhase,
         PlainAtRest, Unserved, InBatch, Lead, Plain
<1> QED
  BY <1>3, <1>4, <1>5, <1>6, <1>7, <1>8 DEF Next, Runner, World

\* As long as no backoff runs out while its job is in hand: unless the runner
\* crashed or a transition was lost, a queued row is one that some claim can take.
THEOREM QueuedRowsAreClaimable ==
  ASSUME ~SlowTail
  PROVE  Spec => []QueuedIsClaimable
<1>1. Init => TypeOK /\ FlightInvariant /\ QueuedInvariant
  <2> SUFFICES ASSUME Init PROVE TypeOK /\ FlightInvariant /\ QueuedInvariant
    OBVIOUS
  <2>1. pc = "down" /\ todo = <<>> /\ batch = <<>> /\ Len(todo) = 0
    BY DEF Init
  <2>2. FlightInvariant
    BY <2>1 DEF FlightInvariant, LeadInHand, StepsOfPhase, WaypointsPass, RowsOfPhase, RowOfPhase
  <2>3. QueuedInvariant
    BY <2>1 DEF Init, QueuedInvariant, QueuedParts, PlainSteps, DbClaims, Announced, QueuedRows,
       PlainAtRest,
                Plain, InBatch
  <2> QED
    BY <2>2, <2>3, InitType
<1>2. TypeOK /\ FlightInvariant /\ QueuedInvariant /\ [Next]_vars
        => (TypeOK /\ FlightInvariant /\ QueuedInvariant)'
  <2> SUFFICES ASSUME TypeOK, FlightInvariant, QueuedInvariant, [Next]_vars
               PROVE  TypeOK' /\ FlightInvariant' /\ QueuedInvariant'
    OBVIOUS
  <2>1. TypeOK'
    BY TypeStep DEF FlightInvariant
  <2> QED
    BY <2>1, FlightStep, QueuedStep
<1>3. QueuedInvariant => QueuedIsClaimable
  BY DEF QueuedInvariant, QueuedParts, Smooth, QueuedRows, QueuedOfPhase, QueuedIsClaimable,
         Plain
<1> QED
  BY <1>1, <1>2, <1>3, PTL DEF Spec
===============================================================================

---------------------------- MODULE BundlesProofs ----------------------------
(***************************************************************************)
(* Proofs about Bundles, for any number of bundles, of concurrent operator *)
(* requests, of texts, diffs and crashes, and whatever actions the         *)
(* operators use.                                                          *)
(***************************************************************************)
EXTENDS Bundles, TLAPS

USE DEF desk, intent, fixes, runner, vars

(***************************************************************************)
(* Types, and what the runner and a request hold at each of their steps.   *)
(***************************************************************************)
KnownOK ==
  /\ known \subseteq BundleIds /\ latest \in BundleIds \cup {NoBundle}
  /\ known # {} => latest \in BundleIds

DeskOK ==
  /\ resolution \in [BundleIds -> Resolution] /\ prior \in [BundleIds -> Resolution]
  /\ lock \in BundleIds \cup {NoBundle} /\ nominated \subseteq BundleIds

IntentOK ==
  /\ rev \in 0..MaxRev /\ asked \subseteq BundleIds
  /\ row \in [BundleIds -> {"absent", "pending", "enqueued", "discarded"}]
  /\ handled \in [BundleIds -> 0..MaxRev]

FixesOK == diff \in [BundleIds -> 0..MaxFix] /\ verified \in [BundleIds -> 0..MaxFix]

\* A job is in hand exactly while one runs, a mark while it has to be set.
RunnerOK ==
  /\ queue \in [Job -> 0..MaxQueued] /\ work \in Job \cup {NoJob}
  /\ pc \in {"idle", "mark", "run"} /\ mark \in Mark \cup {NoJob} /\ seen \in 0..MaxRev
  /\ pc = "run" <=> work \in Job
  /\ pc = "mark" => mark \in Mark

\* A retry that is about to file its row has written a text.
RequestOK(q) == q \in Request /\ (q.step = "row" => q.rev >= 1)
RequestsOK ==
  /\ req \in [Users -> Request \cup {NoReq}]
  /\ \A u \in Users : req[u] # NoReq => RequestOK(req[u])

Typed ==
  KnownOK /\ DeskOK /\ IntentOK /\ FixesOK /\ RunnerOK /\ RequestsOK /\ crashes \in 0..MaxCrashes

LEMMA Bounds ==
  /\ MaxRev \in Nat /\ MaxFix \in Nat /\ MaxQueued \in Nat /\ MaxCrashes \in Nat
  /\ NoBundle \notin BundleIds /\ NoJob \notin Job
  BY BundlesAssumption

LEMMA TypedIsTyped == Typed => TypeOK
  BY DEF Typed, TypeOK, KnownOK, DeskOK, IntentOK, FixesOK, RunnerOK, RequestsOK

LEMMA JobPairs == \A k \in Kind, b \in BundleIds : <<k, b>> \in Job
  BY DEF Job

LEMMA PairsOfJobs == \A j \in Job : j[1] \in Kind /\ j[2] \in BundleIds /\ j = <<j[1], j[2]>>
  BY DEF Job

LEMMA InitTyped == Init => Typed
  BY Bounds DEF Init, Typed, KnownOK, DeskOK, IntentOK, FixesOK, RunnerOK, RequestsOK, Resolution,
                Untriaged

LEMMA Enqueued ==
  ASSUME queue \in [Job -> 0..MaxQueued], NEW k \in Kind, NEW b \in BundleIds, Enqueue(k, b)
  PROVE  queue' \in [Job -> 0..MaxQueued]
  BY Bounds, JobPairs DEF Enqueue

LEMMA Dequeued ==
  ASSUME queue \in [Job -> 0..MaxQueued], NEW j \in Job, Dequeue(j)
  PROVE  queue' \in [Job -> 0..MaxQueued]
  BY Bounds DEF Dequeue

\* The request of a user moves to its next step, or is done.
LEMMA RequestMoves ==
  ASSUME RequestsOK, NEW u \in Users, NEW q, q = NoReq \/ RequestOK(q), req' = [req EXCEPT ![u] = q]
  PROVE  RequestsOK'
<1>1. req' \in [Users -> Request \cup {NoReq}]
  BY DEF RequestsOK, RequestOK
<1>2. \A v \in Users : req'[v] = IF v = u THEN q ELSE req[v]
  BY DEF RequestsOK
<1>3. \A v \in Users : req'[v] # NoReq => RequestOK(req'[v])
  BY <1>2 DEF RequestsOK
<1> QED
  BY <1>1, <1>3 DEF RequestsOK

LEMMA RequestDone == ASSUME RequestsOK, NEW u \in Users, Done(u) PROVE RequestsOK'
  BY RequestMoves DEF Done

LEMMA RequestThen ==
  ASSUME RequestsOK, NEW u \in Users, req[u] # NoReq,
         NEW s \in {"peeked", "unlock", "nominate", "badge"}, Then(u, s)
  PROVE  RequestsOK'
<1> DEFINE q == [req[u] EXCEPT !.step = s]
<1>1. RequestOK(req[u])
  BY DEF RequestsOK
<1>2. RequestOK(q)
  BY <1>1 DEF RequestOK, Request
<1>3. req' = [req EXCEPT ![u] = q]
  BY DEF Then, RequestsOK
<1> HIDE DEF q
<1> QED
  BY <1>2, <1>3, RequestMoves

\* The request that passes its gate, and those it crosses.
Opened(a, b, skip) ==
  [act |-> a, bundle |-> b, res |-> resolution[b], prior |-> prior[b], step |-> "gated",
   lock |-> NoBundle, skip |-> skip, rev |-> 0, alone |-> On(b) = {}]

LEMMA Opens ==
  ASSUME NEW u \in Users, NEW a \in Action, NEW b \in BundleIds, NEW skip \in BOOLEAN,
         OpenRequest(u, a, b, skip)
  PROVE  /\ req'[u] = Opened(a, b, skip)
         /\ \A v \in Users : v # u /\ v \in On(b) => req'[v] = [req[v] EXCEPT !.alone = FALSE]
         /\ \A v \in Users : v # u /\ v \notin On(b) => req'[v] = req[v]
  BY DEF OpenRequest, Opened

\* The bundle and the resolutions a request carries.
LEMMA Carried ==
  ASSUME RequestsOK, NEW u \in Users, req[u] # NoReq
  PROVE  /\ req[u].bundle \in BundleIds /\ req[u].res \in Resolution /\ req[u].prior \in Resolution
         /\ req[u].lock \in BundleIds \cup {NoBundle} /\ req[u].rev \in 0..MaxRev
         /\ req[u].step = "row" => req[u].rev >= 1
  BY DEF RequestsOK, RequestOK, Request

LEMMA RequestTyped ==
  ASSUME Typed, NEW u \in Users, RequestStep(u)
  PROVE  Typed'
<1>0. /\ KnownOK /\ DeskOK /\ IntentOK /\ FixesOK /\ RunnerOK /\ RequestsOK
      /\ crashes \in 0..MaxCrashes
  BY DEF Typed
<1>c. ASSUME req[u] # NoReq
      PROVE  /\ req[u].bundle \in BundleIds /\ req[u].res \in Resolution /\ req[u].prior \in Resolution
             /\ req[u].lock \in BundleIds \cup {NoBundle} /\ req[u].rev \in 0..MaxRev
             /\ req[u].step = "row" => req[u].rev >= 1
  BY <1>0, <1>c, Carried
<1>1. CASE AcceptWrite(u)
  <2>1. DeskOK'
    BY <1>0, <1>c, <1>1 DEF DeskOK, At, AcceptWrite, Close, Resolve, Resolution, Terminal
  <2>2. RequestsOK'
    BY <1>0, <1>1, RequestThen DEF AcceptWrite, At
  <2>3. KnownOK' /\ IntentOK' /\ FixesOK' /\ RunnerOK' /\ crashes' \in 0..MaxCrashes
    BY <1>0, <1>1 DEF KnownOK, IntentOK, FixesOK, RunnerOK, AcceptWrite
  <2> QED
    BY <2>1, <2>2, <2>3 DEF Typed
<1>2. CASE AcceptUnlock(u)
  <2>1. DeskOK'
    BY <1>0, <1>c, <1>2 DEF DeskOK, At, AcceptUnlock, Unstake
  <2>2. RequestsOK'
    BY <1>0, <1>2, RequestThen DEF AcceptUnlock, At
  <2>3. KnownOK' /\ IntentOK' /\ FixesOK' /\ RunnerOK' /\ crashes' \in 0..MaxCrashes
    BY <1>0, <1>2 DEF KnownOK, IntentOK, FixesOK, RunnerOK, AcceptUnlock
  <2> QED
    BY <2>1, <2>2, <2>3 DEF Typed
<1>3. CASE AcceptNominate(u)
  <2>1. DeskOK'
    BY <1>0, <1>c, <1>3 DEF DeskOK, At, AcceptNominate
  <2>2. RequestsOK'
    BY <1>0, <1>3, RequestDone DEF AcceptNominate
  <2>3. KnownOK' /\ IntentOK' /\ FixesOK' /\ RunnerOK' /\ crashes' \in 0..MaxCrashes
    BY <1>0, <1>3 DEF KnownOK, IntentOK, FixesOK, RunnerOK, AcceptNominate
  <2> QED
    BY <2>1, <2>2, <2>3 DEF Typed
<1>4. CASE Reject(u)
  <2>1. DeskOK'
    BY <1>0, <1>c, <1>4 DEF DeskOK, At, Reject, Close, Resolve, Resolution, Terminal
  <2>2. RequestsOK'
    BY <1>0, <1>4, RequestDone DEF Reject
  <2>3. KnownOK' /\ IntentOK' /\ FixesOK' /\ RunnerOK' /\ crashes' \in 0..MaxCrashes
    BY <1>0, <1>4 DEF KnownOK, IntentOK, FixesOK, RunnerOK, Reject
  <2> QED
    BY <2>1, <2>2, <2>3 DEF Typed
<1>5. CASE Peek(u)
  <2>1. RequestsOK'
    <3> DEFINE q == [req[u] EXCEPT !.step = "peeked", !.lock = lock]
    <3>1. req[u] # NoReq /\ RequestOK(req[u]) /\ lock \in BundleIds \cup {NoBundle}
      BY <1>0, <1>5 DEF Peek, At, RequestsOK, DeskOK
    <3>2. RequestOK(q)
      BY <3>1 DEF RequestOK, Request
    <3>3. req' = [req EXCEPT ![u] = q]
      BY <1>0, <1>5 DEF Peek, RequestsOK
    <3> HIDE DEF q
    <3> QED
      BY <1>0, <3>2, <3>3, RequestMoves
  <2>2. KnownOK' /\ DeskOK' /\ IntentOK' /\ FixesOK' /\ RunnerOK' /\ crashes' \in 0..MaxCrashes
    BY <1>0, <1>5 DEF KnownOK, DeskOK, IntentOK, FixesOK, RunnerOK, Peek
  <2> QED
    BY <2>1, <2>2 DEF Typed
<1>6. CASE TakeOver(u)
  <2>1. DeskOK'
    BY <1>0, <1>c, <1>6 DEF DeskOK, At, TakeOver, Resolve, Resolution
  <2>2. RequestsOK'
    BY <1>0, <1>6, RequestDone DEF TakeOver
  <2>3. KnownOK' /\ IntentOK' /\ FixesOK' /\ RunnerOK' /\ crashes' \in 0..MaxCrashes
    BY <1>0, <1>6 DEF KnownOK, IntentOK, FixesOK, RunnerOK, TakeOver
  <2> QED
    BY <2>1, <2>2, <2>3 DEF Typed
<1>7. CASE Discard(u)
  <2>1. DeskOK'
    BY <1>0, <1>c, <1>7 DEF DeskOK, At, Discard, Close, Resolve, Resolution, Terminal
  <2>2. RequestsOK'
    BY <1>0, <1>7, RequestDone DEF Discard
  <2>3. KnownOK' /\ IntentOK' /\ FixesOK' /\ RunnerOK' /\ crashes' \in 0..MaxCrashes
    BY <1>0, <1>7 DEF KnownOK, IntentOK, FixesOK, RunnerOK, Discard
  <2> QED
    BY <2>1, <2>2, <2>3 DEF Typed
<1>8. CASE Release(u)
  <2>1. DeskOK'
    BY <1>0, <1>c, <1>8 DEF DeskOK, At, Release, Resolve, Unstake, Resolution, Untriaged
  <2>2. RequestsOK'
    BY <1>0, <1>8, RequestDone DEF Release
  <2>3. KnownOK' /\ IntentOK' /\ FixesOK' /\ RunnerOK' /\ crashes' \in 0..MaxCrashes
    BY <1>0, <1>8 DEF KnownOK, IntentOK, FixesOK, RunnerOK, Release
  <2> QED
    BY <2>1, <2>2, <2>3 DEF Typed
<1>9. CASE Reopen(u)
  <2>1. DeskOK'
    BY <1>0, <1>c, <1>9 DEF DeskOK, At, Reopen, Resolve, Unstake, Resolution, Untriaged
  <2>2. RequestsOK'
    BY <1>0, <1>9, RequestDone DEF Reopen
  <2>3. KnownOK' /\ IntentOK' /\ FixesOK' /\ RunnerOK' /\ crashes' \in 0..MaxCrashes
    BY <1>0, <1>9 DEF KnownOK, IntentOK, FixesOK, RunnerOK, Reopen
  <2> QED
    BY <2>1, <2>2, <2>3 DEF Typed
<1>10. CASE RetryText(u)
  <2>1. RequestsOK'
    <3> DEFINE q == [req[u] EXCEPT !.step = "row", !.rev = rev + 1]
    <3>1. req[u] # NoReq /\ RequestOK(req[u]) /\ rev + 1 \in 0..MaxRev /\ rev + 1 >= 1
      BY Bounds, <1>0, <1>10 DEF RetryText, At, RequestsOK, IntentOK
    <3>2. RequestOK(q)
      BY <3>1 DEF RequestOK, Request
    <3>3. req' = [req EXCEPT ![u] = q]
      BY <1>0, <1>10 DEF RetryText, RequestsOK
    <3> HIDE DEF q
    <3> QED
      BY <1>0, <3>2, <3>3, RequestMoves
  <2>2. IntentOK'
    BY Bounds, <1>0, <1>c, <1>10 DEF IntentOK, At, RetryText
  <2>3. KnownOK' /\ DeskOK' /\ FixesOK' /\ RunnerOK' /\ crashes' \in 0..MaxCrashes
    BY <1>0, <1>10 DEF KnownOK, DeskOK, FixesOK, RunnerOK, RetryText
  <2> QED
    BY <2>1, <2>2, <2>3 DEF Typed
<1>11. CASE RetryRow(u)
  <2>1. RequestsOK'
    BY <1>0, <1>11, RequestThen DEF RetryRow, At
  <2>2. IntentOK'
    BY Bounds, <1>0, <1>c, <1>11 DEF IntentOK, At, RetryRow
  <2>3. KnownOK' /\ DeskOK' /\ FixesOK' /\ RunnerOK' /\ crashes' \in 0..MaxCrashes
    BY <1>0, <1>11 DEF KnownOK, DeskOK, FixesOK, RunnerOK, RetryRow
  <2> QED
    BY <2>1, <2>2, <2>3 DEF Typed
<1>12. CASE RetryBadge(u)
  <2>1. DeskOK'
    BY <1>0, <1>c, <1>12 DEF DeskOK, At, RetryBadge, Resolve, Resolution
  <2>2. RequestsOK'
    BY <1>0, <1>12, RequestDone DEF RetryBadge
  <2>3. KnownOK' /\ IntentOK' /\ FixesOK' /\ RunnerOK' /\ crashes' \in 0..MaxCrashes
    BY <1>0, <1>12 DEF KnownOK, IntentOK, FixesOK, RunnerOK, RetryBadge
  <2> QED
    BY <2>1, <2>2, <2>3 DEF Typed
<1>13. CASE AskVerify(u)
  <2>1. RequestsOK'
    BY <1>0, <1>13, RequestDone DEF AskVerify
  <2>2. IntentOK'
    BY Bounds, <1>0, <1>c, <1>13 DEF IntentOK, At, AskVerify
  <2>3. KnownOK' /\ DeskOK' /\ FixesOK' /\ RunnerOK' /\ crashes' \in 0..MaxCrashes
    BY <1>0, <1>13 DEF KnownOK, DeskOK, FixesOK, RunnerOK, AskVerify
  <2> QED
    BY <2>1, <2>2, <2>3 DEF Typed
<1> QED
  BY <1>1, <1>2, <1>3, <1>4, <1>5, <1>6, <1>7, <1>8, <1>9, <1>10, <1>11, <1>12, <1>13 DEF RequestStep

LEMMA WorkTyped ==
  ASSUME Typed, Work \/ RunnerCrash
  PROVE  Typed'
<1>0. /\ KnownOK /\ DeskOK /\ IntentOK /\ FixesOK /\ RunnerOK /\ RequestsOK
      /\ crashes \in 0..MaxCrashes
  BY DEF Typed
<1>m. pc = "mark" => mark \in Mark /\ mark.bundle \in BundleIds /\ mark.rev \in 0..MaxRev
  BY <1>0 DEF RunnerOK, Mark
<1>w. pc = "run" => work \in Job /\ work[1] \in Kind /\ work[2] \in BundleIds
  BY <1>0, PairsOfJobs DEF RunnerOK
<1>k. {"triage", "retriage", "patch", "verify"} = Kind
  BY DEF Kind
<1>1. CASE MarkContext
  <2>1. DeskOK'
    BY <1>0, <1>w, <1>m, <1>1 DEF DeskOK, Resolve, Resolution, Untriaged, MarkContext
  <2>2. IntentOK'
    BY <1>0, <1>w, <1>m, <1>1 DEF IntentOK, MarkContext
  <2>3. RunnerOK'
    BY Bounds, <1>0, <1>1 DEF RunnerOK, MarkContext
  <2>4. KnownOK' /\ FixesOK' /\ RequestsOK' /\ crashes' \in 0..MaxCrashes
    BY <1>0, <1>1 DEF KnownOK, FixesOK, RequestsOK, MarkContext
  <2> QED
    BY <2>1, <2>2, <2>3, <2>4 DEF Typed
<1>2. CASE MarkVerify
  <2>1. IntentOK'
    BY <1>0, <1>w, <1>m, <1>2 DEF IntentOK, MarkVerify
  <2>2. RunnerOK'
    BY Bounds, <1>0, <1>2 DEF RunnerOK, MarkVerify
  <2>3. KnownOK' /\ DeskOK' /\ FixesOK' /\ RequestsOK' /\ crashes' \in 0..MaxCrashes
    BY <1>0, <1>2 DEF KnownOK, DeskOK, FixesOK, RequestsOK, MarkVerify
  <2> QED
    BY <2>1, <2>2, <2>3 DEF Typed
<1>3. ASSUME NEW j \in Job, StartJob(j) PROVE Typed'
  <2>1. RunnerOK'
    <3>1. queue' \in [Job -> 0..MaxQueued]
      BY <1>0, <1>3, Dequeued DEF RunnerOK, StartJob
    <3> QED
      BY Bounds, <1>0, <1>3, <3>1 DEF RunnerOK, IntentOK, StartJob
  <2>2. KnownOK' /\ DeskOK' /\ IntentOK' /\ FixesOK' /\ RequestsOK' /\ crashes' \in 0..MaxCrashes
    BY <1>0, <1>3 DEF KnownOK, DeskOK, IntentOK, FixesOK, RequestsOK, StartJob
  <2> QED
    BY <2>1, <2>2 DEF Typed
<1>4. ASSUME NEW j \in Job, SkipLocked(j) PROVE Typed'
  <2>1. RunnerOK'
    <3>1. queue' \in [Job -> 0..MaxQueued]
      BY <1>0, <1>4, Dequeued DEF RunnerOK, SkipLocked
    <3> QED
      BY Bounds, <1>0, <1>4, <3>1 DEF RunnerOK, IntentOK, SkipLocked
  <2>2. KnownOK' /\ DeskOK' /\ IntentOK' /\ FixesOK' /\ RequestsOK' /\ crashes' \in 0..MaxCrashes
    BY <1>0, <1>4 DEF KnownOK, DeskOK, IntentOK, FixesOK, RequestsOK, SkipLocked
  <2> QED
    BY <2>1, <2>2 DEF Typed
<1>5. CASE TriageHandsOff
  <2>1. RunnerOK'
    <3>1. queue' \in [Job -> 0..MaxQueued]
      BY <1>0, <1>k, <1>w, <1>5, Enqueued DEF RunnerOK, TriageHandsOff, Ends
    <3> QED
      BY Bounds, <1>0, <1>5, <3>1 DEF RunnerOK, TriageHandsOff, Ends
  <2>2. KnownOK' /\ DeskOK' /\ IntentOK' /\ FixesOK' /\ RequestsOK' /\ crashes' \in 0..MaxCrashes
    BY <1>0, <1>5 DEF KnownOK, DeskOK, IntentOK, FixesOK, RequestsOK, TriageHandsOff, Ends
  <2> QED
    BY <2>1, <2>2 DEF Typed
<1>6. CASE TriageFails
  <2>1. DeskOK'
    BY <1>0, <1>w, <1>m, <1>6 DEF DeskOK, Resolve, Resolution, Untriaged, TriageFails, Ends
  <2>2. RunnerOK'
    BY Bounds, <1>0, <1>6 DEF RunnerOK, TriageFails, Ends
  <2>3. KnownOK' /\ IntentOK' /\ FixesOK' /\ RequestsOK' /\ crashes' \in 0..MaxCrashes
    BY <1>0, <1>6 DEF KnownOK, IntentOK, FixesOK, RequestsOK, TriageFails, Ends
  <2> QED
    BY <2>1, <2>2, <2>3 DEF Typed
<1>7. CASE TriageEscalates
  <2>1. DeskOK'
    BY <1>0, <1>w, <1>m, <1>7 DEF DeskOK, Resolve, Resolution, Untriaged, TriageEscalates, Ends
  <2>2. IntentOK'
    BY <1>0, <1>w, <1>m, <1>7 DEF IntentOK, TriageEscalates, Ends, QueueForOperator
  <2>3. RunnerOK'
    BY Bounds, <1>0, <1>7 DEF RunnerOK, TriageEscalates, Ends
  <2>4. KnownOK' /\ FixesOK' /\ RequestsOK' /\ crashes' \in 0..MaxCrashes
    BY <1>0, <1>7 DEF KnownOK, FixesOK, RequestsOK, TriageEscalates, Ends
  <2> QED
    BY <2>1, <2>2, <2>3, <2>4 DEF Typed
<1>8. CASE PatchEscalates
  <2>1. DeskOK'
    BY <1>0, <1>w, <1>m, <1>8 DEF DeskOK, Resolve, Resolution, Untriaged, PatchEscalates, Ends
  <2>2. IntentOK'
    BY <1>0, <1>w, <1>m, <1>8 DEF IntentOK, PatchEscalates, Ends, QueueForOperator
  <2>3. FixesOK'
    BY Bounds, <1>0, <1>w, <1>8 DEF FixesOK, PatchEscalates, Ends, WriteDiff
  <2>4. RunnerOK'
    BY Bounds, <1>0, <1>8 DEF RunnerOK, PatchEscalates, Ends
  <2>5. KnownOK' /\ RequestsOK' /\ crashes' \in 0..MaxCrashes
    BY <1>0, <1>8 DEF KnownOK, RequestsOK, PatchEscalates, Ends
  <2> QED
    BY <2>1, <2>2, <2>3, <2>4, <2>5 DEF Typed
<1>9. CASE NoVerdict
  <2>1. RunnerOK'
    BY Bounds, <1>0, <1>9 DEF RunnerOK, NoVerdict
  <2>2. KnownOK' /\ DeskOK' /\ IntentOK' /\ FixesOK' /\ RequestsOK' /\ crashes' \in 0..MaxCrashes
    BY <1>0, <1>9 DEF KnownOK, DeskOK, IntentOK, FixesOK, RequestsOK, NoVerdict
  <2> QED
    BY <2>1, <2>2 DEF Typed
<1>10. ASSUME NEW r \in Resolution, PatchEnds(r) PROVE Typed'
  <2>1. DeskOK'
    BY <1>0, <1>w, <1>m, <1>10 DEF DeskOK, Resolve, Resolution, Untriaged, PatchEnds, Ends
  <2>2. FixesOK'
    BY Bounds, <1>0, <1>w, <1>10 DEF FixesOK, PatchEnds, Ends, WriteDiff
  <2>3. RunnerOK'
    BY Bounds, <1>0, <1>10 DEF RunnerOK, PatchEnds, Ends
  <2>4. KnownOK' /\ IntentOK' /\ RequestsOK' /\ crashes' \in 0..MaxCrashes
    BY <1>0, <1>10 DEF KnownOK, IntentOK, RequestsOK, PatchEnds, Ends
  <2> QED
    BY <2>1, <2>2, <2>3, <2>4 DEF Typed
<1>11. ASSUME NEW ok \in BOOLEAN, VerifyEnds(ok) PROVE Typed'
  <2>1. FixesOK'
    BY Bounds, <1>0, <1>w, <1>11 DEF FixesOK, VerifyEnds, Ends
  <2>2. RunnerOK'
    BY Bounds, <1>0, <1>11 DEF RunnerOK, VerifyEnds, Ends
  <2>3. KnownOK' /\ DeskOK' /\ IntentOK' /\ RequestsOK' /\ crashes' \in 0..MaxCrashes
    BY <1>0, <1>11 DEF KnownOK, DeskOK, IntentOK, RequestsOK, VerifyEnds, Ends
  <2> QED
    BY <2>1, <2>2, <2>3 DEF Typed
<1>12. CASE RunnerCrash
  <2>1. RunnerOK'
    BY Bounds, <1>0, <1>12 DEF RunnerOK, RunnerCrash
  <2>2. crashes' \in 0..MaxCrashes
    BY Bounds, <1>0, <1>12 DEF RunnerCrash
  <2>3. KnownOK' /\ DeskOK' /\ IntentOK' /\ FixesOK' /\ RequestsOK'
    BY <1>0, <1>12 DEF KnownOK, DeskOK, IntentOK, FixesOK, RequestsOK, RunnerCrash
  <2> QED
    BY <2>1, <2>2, <2>3 DEF Typed
<1> QED
  BY <1>1, <1>2, <1>3, <1>4, <1>5, <1>6, <1>7, <1>8, <1>9, <1>10, <1>11, <1>12 DEF Work

LEMMA OutsideTyped ==
  ASSUME Typed,
         \/ Poll \/ DiscardRequests \/ \E u \in Users : RequestCrash(u)
         \/ \E b \in BundleIds : HookFailure(b) \/ Merge(b)
         \/ \E u \in Users, a \in Action, b \in BundleIds, skip \in BOOLEAN : OpenRequest(u, a, b, skip)
  PROVE  Typed'
<1>0. /\ KnownOK /\ DeskOK /\ IntentOK /\ FixesOK /\ RunnerOK /\ RequestsOK
      /\ crashes \in 0..MaxCrashes
  BY DEF Typed
<1>k. {"triage", "retriage", "patch", "verify"} = Kind
  BY DEF Kind
<1>1. ASSUME NEW b \in BundleIds, HookFailure(b) PROVE Typed'
  <2>1. KnownOK'
    BY <1>0, <1>1 DEF KnownOK, HookFailure
  <2>2. RunnerOK'
    <3>1. queue' \in [Job -> 0..MaxQueued]
      BY <1>0, <1>k, <1>1, Enqueued DEF RunnerOK, HookFailure
    <3> QED
      BY <1>0, <1>1, <3>1 DEF RunnerOK, HookFailure
  <2>3. DeskOK' /\ IntentOK' /\ FixesOK' /\ RequestsOK' /\ crashes' \in 0..MaxCrashes
    BY <1>0, <1>1 DEF DeskOK, IntentOK, FixesOK, RequestsOK, HookFailure
  <2> QED
    BY <2>1, <2>2, <2>3 DEF Typed
<1>2. ASSUME NEW b \in BundleIds, Merge(b) PROVE Typed'
  <2>1. DeskOK'
    BY <1>0, <1>2 DEF DeskOK, Merge, Resolve, Resolution, Terminal
  <2>2. KnownOK' /\ IntentOK' /\ FixesOK' /\ RunnerOK' /\ RequestsOK' /\ crashes' \in 0..MaxCrashes
    BY <1>0, <1>2 DEF KnownOK, IntentOK, FixesOK, RunnerOK, RequestsOK, Merge
  <2> QED
    BY <2>1, <2>2 DEF Typed
<1>3. ASSUME NEW u \in Users, NEW a \in Action, NEW b \in BundleIds, NEW skip \in BOOLEAN,
             OpenRequest(u, a, b, skip)
      PROVE  Typed'
  <2>1. RequestsOK'
    <3>1. resolution[b] \in Resolution /\ prior[b] \in Resolution /\ 0 \in 0..MaxRev
      BY Bounds, <1>0 DEF DeskOK
    <3>2. RequestOK(Opened(a, b, skip))
      BY <3>1 DEF RequestOK, Request, Opened, On
    <3>3. \A v \in Users : RequestOK(req[v]) => RequestOK([req[v] EXCEPT !.alone = FALSE])
      BY DEF RequestOK, Request
    <3>4. ASSUME NEW v \in Users PROVE req'[v] = NoReq \/ RequestOK(req'[v])
      <4>1. CASE v = u
        BY <1>3, <3>2, <4>1, Opens
      <4>2. CASE v # u /\ v \in On(b)
        <5>1. req'[v] = [req[v] EXCEPT !.alone = FALSE]
          BY <1>3, <4>2, Opens
        <5>2. RequestOK(req[v])
          BY <1>0, <4>2 DEF RequestsOK, On
        <5> QED
          BY <3>3, <5>1, <5>2
      <4>3. CASE v # u /\ v \notin On(b)
        <5>1. req'[v] = req[v]
          BY <1>3, <4>3, Opens
        <5> QED
          BY <1>0, <5>1 DEF RequestsOK
      <4> QED
        BY <4>1, <4>2, <4>3
    <3>5. req' = [v \in Users |-> req'[v]]
      BY <1>3 DEF OpenRequest
    <3>6. \A v \in Users : req'[v] \in Request \cup {NoReq}
      BY <3>4 DEF RequestOK
    <3> QED
      BY <3>4, <3>5, <3>6 DEF RequestsOK
  <2>2. KnownOK' /\ DeskOK' /\ IntentOK' /\ FixesOK' /\ RunnerOK' /\ crashes' \in 0..MaxCrashes
    BY <1>0, <1>3 DEF KnownOK, DeskOK, IntentOK, FixesOK, RunnerOK, OpenRequest
  <2> QED
    BY <2>1, <2>2 DEF Typed
<1>4. ASSUME NEW u \in Users, RequestCrash(u) PROVE Typed'
  <2>1. RequestsOK'
    BY <1>0, <1>4, RequestDone DEF RequestCrash
  <2>2. crashes' \in 0..MaxCrashes
    BY Bounds, <1>0, <1>4 DEF RequestCrash
  <2>3. KnownOK' /\ DeskOK' /\ IntentOK' /\ FixesOK' /\ RunnerOK'
    BY <1>0, <1>4 DEF KnownOK, DeskOK, IntentOK, FixesOK, RunnerOK, RequestCrash
  <2> QED
    BY <2>1, <2>2, <2>3 DEF Typed
<1>5. CASE DiscardRequests
  <2>1. IntentOK'
    BY <1>0, <1>5 DEF IntentOK, DiscardRequests
  <2>2. KnownOK' /\ DeskOK' /\ FixesOK' /\ RunnerOK' /\ RequestsOK' /\ crashes' \in 0..MaxCrashes
    BY <1>0, <1>5 DEF KnownOK, DeskOK, FixesOK, RunnerOK, RequestsOK, DiscardRequests
  <2> QED
    BY <2>1, <2>2 DEF Typed
<1>6. ASSUME NEW b \in known, PollContext(b) PROVE Typed'
  <2>1. RunnerOK'
    <3>1. b \in BundleIds /\ latest \in BundleIds
      BY <1>0, <1>6 DEF KnownOK
    <3>2. queue' \in [Job -> 0..MaxQueued]
      BY <1>0, <1>k, <1>6, <3>1, Enqueued DEF RunnerOK, PollContext
    <3>3. mark' \in Mark
      BY <1>0, <1>6, <3>1 DEF Mark, IntentOK, PollContext
    <3> QED
      BY <1>0, <1>6, <3>2, <3>3 DEF RunnerOK, PollContext
  <2>2. KnownOK' /\ DeskOK' /\ IntentOK' /\ FixesOK' /\ RequestsOK' /\ crashes' \in 0..MaxCrashes
    BY <1>0, <1>6 DEF KnownOK, DeskOK, IntentOK, FixesOK, RequestsOK, PollContext
  <2> QED
    BY <2>1, <2>2 DEF Typed
<1>7. ASSUME NEW b \in known, PollVerify(b) PROVE Typed'
  <2>1. RunnerOK'
    <3>1. b \in BundleIds
      BY <1>0, <1>7 DEF KnownOK
    <3>2. queue' \in [Job -> 0..MaxQueued]
      BY <1>0, <1>k, <1>7, <3>1, Enqueued DEF RunnerOK, PollVerify
    <3>3. mark' \in Mark
      BY Bounds, <1>7, <3>1 DEF Mark, PollVerify
    <3> QED
      BY <1>0, <1>7, <3>2, <3>3 DEF RunnerOK, PollVerify
  <2>2. KnownOK' /\ DeskOK' /\ IntentOK' /\ FixesOK' /\ RequestsOK' /\ crashes' \in 0..MaxCrashes
    BY <1>0, <1>7 DEF KnownOK, DeskOK, IntentOK, FixesOK, RequestsOK, PollVerify
  <2> QED
    BY <2>1, <2>2 DEF Typed
<1> QED
  BY <1>1, <1>2, <1>3, <1>4, <1>5, <1>6, <1>7 DEF Poll

LEMMA StepTyped == Typed /\ [Next]_vars => Typed'
<1> SUFFICES ASSUME Typed, [Next]_vars PROVE Typed'
  OBVIOUS
<1>1. CASE Next
  BY <1>1, RequestTyped, WorkTyped, OutsideTyped DEF Next
<1>2. CASE UNCHANGED vars
  BY <1>2 DEF Typed, KnownOK, DeskOK, IntentOK, FixesOK, RunnerOK, RequestsOK
<1> QED
  BY <1>1, <1>2

LEMMA AlwaysTyped == Spec => []Typed
  BY InitTyped, StepTyped, PTL DEF Spec

\* Every column of the bundles, the requests and the runner keeps its type
\* (tracker/bundle_actions.py, tracker/context.py, agent/runner.py).
THEOREM BundlesTypeCorrect == Spec => []TypeOK
  BY AlwaysTyped, TypedIsTyped, PTL

(***************************************************************************)
(* One retriage at a time: the poll enqueues only for a port without work  *)
(* in flight.                                                              *)
(***************************************************************************)
Retriages(b) == queue[<<"retriage", b>>]

OneRetriage ==
  /\ \A b, c \in BundleIds : Retriages(b) > 0 /\ Retriages(c) > 0 => b = c
  /\ \A b \in BundleIds : Retriages(b) <= 1
  /\ \A b, c \in BundleIds : Retriages(b) > 0 => work # <<"retriage", c>>

LEMMA RetriagesCount == Typed => \A b \in BundleIds : <<"retriage", b>> \in Job /\ Retriages(b) \in Nat
<1> SUFFICES ASSUME Typed, NEW b \in BundleIds
             PROVE  <<"retriage", b>> \in Job /\ Retriages(b) \in Nat
  OBVIOUS
<1>1. <<"retriage", b>> \in Job
  BY JobPairs DEF Kind
<1>2. queue \in [Job -> 0..MaxQueued]
  BY DEF Typed, RunnerOK
<1>3. queue[<<"retriage", b>>] \in 0..MaxQueued
  BY <1>1, <1>2
<1> QED
  BY Bounds, <1>1, <1>3 DEF Retriages

LEMMA OneRetriageIsOne == Typed /\ OneRetriage => OneRetriageInFlight
<1> SUFFICES ASSUME Typed, OneRetriage PROVE OneRetriageInFlight
  OBVIOUS
<1>1. \A b \in BundleIds : Retriages(b) > 0 => Retriages(b) = 1
  <2> SUFFICES ASSUME NEW b \in BundleIds, Retriages(b) > 0 PROVE Retriages(b) = 1
    OBVIOUS
  <2>1. Retriages(b) \in Nat
    BY RetriagesCount
  <2>2. Retriages(b) <= 1
    BY DEF OneRetriage
  <2> QED
    BY <2>1, <2>2
<1> QED
  BY <1>1 DEF OneRetriage, OneRetriageInFlight, Retriages

LEMMA InitOneRetriage == Init => OneRetriage
  BY Bounds, JobPairs DEF Init, OneRetriage, Retriages, Kind

\* A step that adds no retriage and starts none.
LEMMA NoneAdded ==
  ASSUME Typed, OneRetriage, Typed',
         \A b \in BundleIds : Retriages(b)' <= Retriages(b),
         \A b \in BundleIds : work' = <<"retriage", b>> => work = work'
  PROVE  OneRetriage'
<1>1. \A b \in BundleIds : Retriages(b) \in Nat
  BY RetriagesCount
<1>2. \A b \in BundleIds : Retriages(b)' \in Nat
  <2> SUFFICES ASSUME NEW b \in BundleIds PROVE Retriages(b)' \in Nat
    OBVIOUS
  <2>1. <<"retriage", b>> \in Job
    BY JobPairs DEF Kind
  <2>2. queue' \in [Job -> 0..MaxQueued]
    BY DEF Typed, RunnerOK
  <2>3. queue'[<<"retriage", b>>] \in 0..MaxQueued
    BY <2>1, <2>2
  <2> QED
    BY Bounds, <2>3 DEF Retriages
<1>3. \A b \in BundleIds : Retriages(b)' > 0 => Retriages(b) > 0
  BY <1>1, <1>2
<1>4. \A b, c \in BundleIds : Retriages(b)' > 0 /\ Retriages(c)' > 0 => b = c
  BY <1>3 DEF OneRetriage
<1>5. \A b \in BundleIds : Retriages(b)' <= 1
  BY <1>1, <1>2 DEF OneRetriage
<1>6. \A b, c \in BundleIds : Retriages(b)' > 0 => work' # <<"retriage", c>>
  BY <1>3 DEF OneRetriage
<1> QED
  BY <1>4, <1>5, <1>6 DEF OneRetriage

LEMMA StepOneRetriage == Typed /\ OneRetriage /\ [Next]_vars => OneRetriage'
<1> SUFFICES ASSUME Typed, OneRetriage, [Next]_vars PROVE OneRetriage'
  OBVIOUS
<1>t. Typed'
  BY StepTyped
<1>0. /\ queue \in [Job -> 0..MaxQueued] /\ (pc = "run" <=> work \in Job) /\ work \in Job \cup {NoJob}
      /\ \A b \in BundleIds : Retriages(b) \in Nat /\ <<"retriage", b>> \in Job
  BY RetriagesCount DEF Typed, RunnerOK
<1>1. ASSUME UNCHANGED queue, work' = work \/ work' = NoJob PROVE OneRetriage'
  BY Bounds, <1>0, <1>1, <1>t, NoneAdded DEF Retriages
<1>2. ASSUME NEW u \in Users, RequestStep(u) PROVE OneRetriage'
  BY <1>1, <1>2 DEF RequestStep, AcceptWrite, AcceptUnlock, AcceptNominate, Reject, Peek, TakeOver,
                    Discard, Release, Reopen, RetryText, RetryRow, RetryBadge, AskVerify
<1>3. ASSUME NEW k \in Kind \ {"retriage"}, NEW b \in BundleIds, Enqueue(k, b),
             work' = work \/ work' = NoJob
      PROVE  OneRetriage'
  <2>1. \A c \in BundleIds : Retriages(c)' = Retriages(c)
    BY <1>0, <1>3, JobPairs DEF Enqueue, Retriages
  <2>2. /\ \A c \in BundleIds : Retriages(c)' <= Retriages(c)
        /\ \A c \in BundleIds : work' = <<"retriage", c>> => work = work'
    <3>1. ASSUME NEW c \in BundleIds PROVE Retriages(c)' <= Retriages(c)
      <4>1. Retriages(c) \in Nat /\ Retriages(c)' = Retriages(c)
        BY <1>0, <2>1
      <4> QED
        BY <4>1
    <3>2. \A c \in BundleIds : work' = <<"retriage", c>> => work = work'
      <4> SUFFICES ASSUME NEW c \in BundleIds, work' = <<"retriage", c>> PROVE work = work'
        OBVIOUS
      <4>1. <<"retriage", c>> # NoJob
        BY Bounds, <1>0
      <4> QED
        BY <1>3, <4>1
    <3> QED
      BY <3>1, <3>2
  <2> QED
    BY <1>t, <2>2, NoneAdded
<1>4. ASSUME NEW b \in known, PollContext(b) PROVE OneRetriage'
  <2>1. latest \in BundleIds /\ work \notin Job
    BY <1>0, <1>4 DEF PollContext, Typed, KnownOK
  <2>2. \A c \in BundleIds : Retriages(c) = 0
    BY <1>0, <1>4 DEF PollContext, Retriages
  <2>3. \A c \in BundleIds : Retriages(c)' = IF c = latest THEN 1 ELSE 0
    <3>1. /\ <<"retriage", latest>> \in Job
          /\ queue' = [queue EXCEPT ![<<"retriage", latest>>] = Retriages(latest) + 1]
      BY <1>0, <1>4, <2>1 DEF PollContext, Enqueue, Retriages
    <3>2. \A c \in BundleIds : <<"retriage", c>> = <<"retriage", latest>> <=> c = latest
      OBVIOUS
    <3>3. \A c \in BundleIds : Retriages(c)' = IF c = latest THEN Retriages(latest) + 1 ELSE Retriages(c)
      BY <1>0, <3>1, <3>2 DEF Retriages
    <3> QED
      BY <2>1, <2>2, <3>3
  <2>4. work' = work
    BY <1>4 DEF PollContext
  <2> QED
    BY <1>0, <2>1, <2>3, <2>4 DEF OneRetriage
<1>5. ASSUME NEW j \in Job, StartJob(j) PROVE OneRetriage'
  <2>1. /\ queue[j] > 0 /\ queue' = [queue EXCEPT ![j] = @ - 1] /\ work' = j /\ work \notin Job
    BY <1>0, <1>5 DEF StartJob, Dequeue
  <2>2. \A c \in BundleIds : Retriages(c)' = IF j = <<"retriage", c>> THEN Retriages(c) - 1 ELSE Retriages(c)
    BY <1>0, <2>1 DEF Retriages
  <2>3. CASE \E b \in BundleIds : j = <<"retriage", b>>
    <3>1. PICK b \in BundleIds : j = <<"retriage", b>>
      BY <2>3
    <3>2. Retriages(b) = 1 /\ \A c \in BundleIds : c # b => ~(Retriages(c) > 0)
      BY <1>0, <2>1, <3>1 DEF OneRetriage, Retriages
    <3>3. \A c \in BundleIds : ~(Retriages(c)' > 0) /\ Retriages(c)' <= 1
      <4> SUFFICES ASSUME NEW c \in BundleIds PROVE ~(Retriages(c)' > 0) /\ Retriages(c)' <= 1
        OBVIOUS
      <4>1. CASE c = b
        BY <2>2, <3>1, <3>2, <4>1
      <4>2. CASE c # b
        <5>1. Retriages(c)' = Retriages(c) /\ ~(Retriages(c) > 0) /\ Retriages(c) \in Nat
          BY <1>0, <2>2, <3>1, <3>2, <4>2
        <5> QED
          BY <5>1
      <4> QED
        BY <4>1, <4>2
    <3> QED
      BY <3>3 DEF OneRetriage
  <2>4. CASE ~\E b \in BundleIds : j = <<"retriage", b>>
    <3>1. /\ \A c \in BundleIds : Retriages(c)' <= Retriages(c)
          /\ \A c \in BundleIds : work' # <<"retriage", c>>
      <4>1. ASSUME NEW c \in BundleIds PROVE Retriages(c)' <= Retriages(c) /\ work' # <<"retriage", c>>
        <5>1. j # <<"retriage", c>>
          BY <2>4
        <5>2. Retriages(c)' = Retriages(c) /\ Retriages(c) \in Nat
          BY <1>0, <2>2, <5>1
        <5>3. work' # <<"retriage", c>>
          BY <2>1, <5>1
        <5>4. Retriages(c)' <= Retriages(c)
          BY <5>2
        <5> QED
          BY <5>3, <5>4
      <4> QED
        BY <4>1
    <3> QED
      BY <1>t, <3>1, NoneAdded
  <2> QED
    BY <2>3, <2>4
<1>6. ASSUME NEW j \in Job, SkipLocked(j) PROVE OneRetriage'
  <2>1. \A c \in BundleIds : Retriages(c)' <= Retriages(c)
    <3>1. queue' = [queue EXCEPT ![j] = queue[j] - 1]
      BY <1>0, <1>6 DEF SkipLocked, Dequeue
    <3>2. \A c \in BundleIds :
            Retriages(c)' = IF j = <<"retriage", c>> THEN Retriages(c) - 1 ELSE Retriages(c)
      BY <1>0, <3>1 DEF Retriages
    <3>3. ASSUME NEW c \in BundleIds PROVE Retriages(c)' <= Retriages(c)
      <4>1. Retriages(c) \in Nat
        BY <1>0
      <4>2. Retriages(c)' = Retriages(c) - 1 \/ Retriages(c)' = Retriages(c)
        BY <3>2
      <4> QED
        BY <4>1, <4>2
    <3> QED
      BY <3>3
  <2> QED
    BY <1>6, <2>1, <1>t, NoneAdded DEF SkipLocked
<1>7. CASE Work
  <2>1. CASE TriageHandsOff
    <3>1. pc = "run" /\ work[2] \in BundleIds
      BY <1>0, <2>1, PairsOfJobs DEF TriageHandsOff, Ends
    <3> QED
      BY <1>3, <2>1, <3>1 DEF TriageHandsOff, Ends, Kind
  <2>2. CASE MarkContext \/ MarkVerify
    BY <1>1, <2>2 DEF MarkContext, MarkVerify
  <2>3. CASE TriageFails \/ TriageEscalates \/ PatchEscalates \/ NoVerdict
    BY <1>1, <2>3 DEF TriageFails, TriageEscalates, PatchEscalates, NoVerdict, Ends
  <2>4. ASSUME NEW r \in Resolution, PatchEnds(r) PROVE OneRetriage'
    BY <1>1, <2>4 DEF PatchEnds, Ends
  <2>5. ASSUME NEW ok \in BOOLEAN, VerifyEnds(ok) PROVE OneRetriage'
    BY <1>1, <2>5 DEF VerifyEnds, Ends
  <2> QED
    BY <1>5, <1>6, <1>7, <2>1, <2>2, <2>3, <2>4, <2>5 DEF Work
<1>8. ASSUME NEW b \in BundleIds, HookFailure(b) PROVE OneRetriage'
  BY <1>3, <1>8 DEF HookFailure, Kind
<1>9. ASSUME NEW b \in known, PollVerify(b) PROVE OneRetriage'
  <2>1. b \in BundleIds
    BY DEF Typed, KnownOK
  <2> QED
    BY <1>3, <1>9, <2>1 DEF PollVerify, Kind
<1>10. CASE RunnerCrash \/ DiscardRequests \/ UNCHANGED vars
  BY <1>1, <1>10 DEF RunnerCrash, DiscardRequests
<1>11. ASSUME NEW b \in BundleIds, Merge(b) PROVE OneRetriage'
  BY <1>1, <1>11 DEF Merge
<1>12. ASSUME NEW u \in Users, RequestCrash(u) PROVE OneRetriage'
  BY <1>1, <1>12 DEF RequestCrash
<1>13. ASSUME NEW u \in Users, NEW a \in Action, NEW b \in BundleIds, NEW skip \in BOOLEAN,
              OpenRequest(u, a, b, skip)
       PROVE  OneRetriage'
  BY <1>1, <1>13 DEF OpenRequest
<1> QED
  BY <1>2, <1>4, <1>7, <1>8, <1>9, <1>10, <1>11, <1>12, <1>13 DEF Next, Poll

\* At most one retriage of the port is queued or running, whatever crashes lie
\* between the enqueue and the mark (process_pending_context, runner.py).
THEOREM RetriageIsSingle == Spec => []OneRetriageInFlight
<1>1. Typed /\ OneRetriage => OneRetriageInFlight
  BY OneRetriageIsOne
<1> QED
  BY <1>1, InitTyped, InitOneRetriage, StepTyped, StepOneRetriage, PTL DEF Spec

(***************************************************************************)
(* The stake.                                                              *)
(***************************************************************************)
\* Only these steps of a request move the stake.
LEMMA StakeSteps ==
  ASSUME Typed, [Next]_vars, lock' # lock
  PROVE  \E u \in Users : \/ AcceptUnlock(u) \/ TakeOver(u) \/ Discard(u) \/ Release(u) \/ Reopen(u)
<1>1. ASSUME NEW u \in Users, RequestStep(u)
      PROVE  AcceptUnlock(u) \/ TakeOver(u) \/ Discard(u) \/ Release(u) \/ Reopen(u)
  BY <1>1 DEF RequestStep, AcceptWrite, AcceptNominate, Reject, Peek, RetryText, RetryRow, RetryBadge,
              AskVerify
<1>2. ~Work
  BY DEF Work, MarkContext, MarkVerify, StartJob, SkipLocked, TriageHandsOff, TriageFails,
         TriageEscalates, PatchEscalates, NoVerdict, PatchEnds, VerifyEnds
<1>3. ~Poll /\ ~DiscardRequests /\ ~RunnerCrash
  BY DEF Poll, PollContext, PollVerify, DiscardRequests, RunnerCrash
<1>4. \A u \in Users : ~RequestCrash(u)
  BY DEF RequestCrash
<1>5. \A b \in BundleIds : ~HookFailure(b) /\ ~Merge(b)
  BY DEF HookFailure, Merge
<1>6. \A u \in Users, a \in Action, b \in BundleIds, skip \in BOOLEAN : ~OpenRequest(u, a, b, skip)
  BY DEF OpenRequest
<1> QED
  BY <1>1, <1>2, <1>3, <1>4, <1>5, <1>6 DEF Next

LEMMA StakeStep ==
  ASSUME Typed, [Next]_vars, lock # NoBundle, lock' # lock
  PROVE  lock' = NoBundle /\ \E u \in Users : req[u] # NoReq /\ req[u].bundle = lock
<1>1. PICK u \in Users : AcceptUnlock(u) \/ TakeOver(u) \/ Discard(u) \/ Release(u) \/ Reopen(u)
  BY StakeSteps
<1>2. req[u] # NoReq
  BY <1>1 DEF AcceptUnlock, TakeOver, Discard, Release, Reopen, At
<1>3. req[u].bundle \in BundleIds
  BY <1>2, Carried DEF Typed
<1>4. CASE TakeOver(u) \/ Discard(u)
  BY <1>3, <1>4, Bounds DEF TakeOver, Discard
<1>5. CASE AcceptUnlock(u) \/ Release(u) \/ Reopen(u)
  BY <1>2, <1>5 DEF AcceptUnlock, Release, Reopen, Unstake
<1> QED
  BY <1>1, <1>4, <1>5

\* A stake is given up only by a request on the bundle that staked it
\* (close_skip_flag in tracker/bundle_actions.py).
THEOREM StakeIsKept == Spec => StakeKept
<1>1. Typed /\ [Next]_vars
        => [lock # NoBundle /\ lock' # lock
              => /\ lock' = NoBundle
                 /\ \E u \in Users : req[u] # NoReq /\ req[u].bundle = lock]_vars
  BY StakeStep
<1> QED
  BY <1>1, AlwaysTyped, PTL DEF Spec, StakeKept

(***************************************************************************)
(* A request that is alone on its bundle: no other request comes between   *)
(* its gate and its writes, the requests on siblings touch neither its     *)
(* bundle nor its stake, and the runner makes no bundle operator_owned nor *)
(* moves the stake.                                                        *)
(***************************************************************************)
Owned(b) == resolution[b] = "operator_owned"

Holds(q, res, l) ==
  LET owned == res[q.bundle] = "operator_owned" IN
    /\ q.act = "take-over" => ~owned /\ (q.step = "peeked" => (q.lock = q.bundle <=> l = q.bundle))
    /\ q.act = "accept" /\ q.step = "unlock" => ~owned
    /\ q.act = "reopen" => ~owned
RequestHolds(q) == Holds(q, resolution, lock)

Only(u) == \A v \in Users : v # u => req[v] = NoReq \/ req[v].bundle # req[u].bundle

GatesHold == \A u \in Users : req[u] # NoReq /\ req[u].alone => RequestHolds(req[u]) /\ Only(u)

LEMMA InitGates == Init => GatesHold
  BY DEF Init, GatesHold

\* A step of the runner, of the hook or of a merge: no bundle becomes
\* operator_owned, the stake and the requests stay.
Aside == UNCHANGED <<lock, req>> /\ \A b \in BundleIds : Owned(b)' => Owned(b)

LEMMA AsideSteps ==
  ASSUME Typed,
         \/ Poll \/ DiscardRequests \/ Work \/ RunnerCrash
         \/ \E b \in BundleIds : HookFailure(b) \/ Merge(b)
         \/ UNCHANGED vars
  PROVE  Aside
<1>0. resolution \in [BundleIds -> Resolution]
  BY DEF Typed, DeskOK
<1>1. CASE Poll \/ DiscardRequests \/ RunnerCrash \/ UNCHANGED vars
  BY <1>1 DEF Aside, Owned, Poll, PollContext, PollVerify, DiscardRequests, RunnerCrash
<1>2. ASSUME NEW b \in BundleIds, HookFailure(b) \/ Merge(b) PROVE Aside
  BY <1>0, <1>2 DEF Aside, Owned, HookFailure, Merge, Resolve
<1>3. CASE MarkContext
  BY <1>0, <1>3 DEF Aside, Owned, MarkContext, Resolve
<1>4. CASE MarkVerify \/ TriageHandsOff \/ NoVerdict
  BY <1>4 DEF Aside, Owned, MarkVerify, TriageHandsOff, NoVerdict
<1>5. ASSUME NEW j \in Job, StartJob(j) \/ SkipLocked(j) PROVE Aside
  BY <1>5 DEF Aside, Owned, StartJob, SkipLocked
<1>6. CASE TriageFails \/ TriageEscalates \/ PatchEscalates
  BY <1>0, <1>6 DEF Aside, Owned, TriageFails, TriageEscalates, PatchEscalates, Resolve
<1>7. ASSUME NEW r \in Resolution, PatchEnds(r) PROVE Aside
  BY <1>0, <1>7 DEF Aside, Owned, PatchEnds, Resolve
<1>8. ASSUME NEW ok \in BOOLEAN, VerifyEnds(ok) PROVE Aside
  BY <1>8 DEF Aside, Owned, VerifyEnds
<1> QED
  BY <1>1, <1>2, <1>3, <1>4, <1>5, <1>6, <1>7, <1>8 DEF Work

\* A step of a request ends it or moves it on, and leaves the others.
LEMMA RequestGoesOn ==
  ASSUME Typed, NEW u \in Users, RequestStep(u)
  PROVE  /\ req[u] # NoReq /\ req[u] \in Request
         /\ \A v \in Users : v # u => req'[v] = req[v]
         /\ req'[u] = NoReq \/ /\ req'[u].act = req[u].act /\ req'[u].bundle = req[u].bundle
                               /\ req'[u].alone = req[u].alone
<1>0. req \in [Users -> Request \cup {NoReq}]
  BY DEF Typed, RequestsOK
<1>1. req[u] # NoReq /\ req[u] \in Request
  BY <1>0 DEF RequestStep, At, AcceptWrite, AcceptUnlock, AcceptNominate, Reject, Peek, TakeOver, Discard,
              Release, Reopen, RetryText, RetryRow, RetryBadge, AskVerify
<1>2. CASE \/ AcceptNominate(u) \/ Reject(u) \/ TakeOver(u) \/ Discard(u) \/ Release(u) \/ Reopen(u)
           \/ RetryBadge(u) \/ AskVerify(u)
  <2>1. Done(u)
    BY <1>2 DEF AcceptNominate, Reject, TakeOver, Discard, Release, Reopen, RetryBadge, AskVerify
  <2> QED
    BY <1>0, <1>1, <2>1 DEF Done
<1>3. ASSUME NEW s, Then(u, s)
      PROVE  /\ \A v \in Users : v # u => req'[v] = req[v]
             /\ req'[u].act = req[u].act /\ req'[u].bundle = req[u].bundle /\ req'[u].alone = req[u].alone
  BY <1>0, <1>1, <1>3 DEF Then, Request
<1>4. CASE AcceptWrite(u) \/ AcceptUnlock(u) \/ RetryRow(u)
  BY <1>1, <1>3, <1>4 DEF AcceptWrite, AcceptUnlock, RetryRow
<1>5. CASE Peek(u) \/ RetryText(u)
  BY <1>0, <1>1, <1>5 DEF Peek, RetryText, Request
<1> QED
  BY <1>1, <1>2, <1>4, <1>5 DEF RequestStep

\* A request writes its own bundle, and stakes and unstakes that one only.
LEMMA RequestWritesItsOwn ==
  ASSUME Typed, NEW u \in Users, RequestStep(u), NEW c \in BundleIds, c # req[u].bundle
  PROVE  resolution'[c] = resolution[c] /\ (lock' = c <=> lock = c)
<1>0. /\ resolution \in [BundleIds -> Resolution] /\ req[u] # NoReq /\ req[u].bundle \in BundleIds
      /\ NoBundle \notin BundleIds
  BY RequestGoesOn, Carried, Bounds DEF Typed, DeskOK
<1>1. CASE AcceptWrite(u) \/ Reject(u) \/ RetryBadge(u)
  BY <1>0, <1>1 DEF AcceptWrite, Reject, RetryBadge, Close, Resolve
<1>2. CASE AcceptUnlock(u)
  BY <1>0, <1>2 DEF AcceptUnlock, Unstake
<1>3. CASE Release(u)
  BY <1>0, <1>3 DEF Release, Resolve, Unstake
<1>4. CASE Reopen(u)
  BY <1>0, <1>4 DEF Reopen, Resolve, Unstake
<1>5. CASE TakeOver(u)
  BY <1>0, <1>5 DEF TakeOver, Resolve
<1>6. CASE Discard(u)
  BY <1>0, <1>6 DEF Discard, Close, Resolve
<1>7. CASE AcceptNominate(u) \/ Peek(u) \/ RetryText(u) \/ RetryRow(u) \/ AskVerify(u)
  BY <1>7 DEF AcceptNominate, Peek, RetryText, RetryRow, AskVerify
<1> QED
  BY <1>1, <1>2, <1>3, <1>4, <1>5, <1>6, <1>7 DEF RequestStep

\* What the gate saw holds on while the request itself goes on.
LEMMA OwnStepHolds ==
  ASSUME Typed, NEW u \in Users, RequestStep(u), RequestHolds(req[u]), req'[u] # NoReq
  PROVE  Holds(req'[u], resolution', lock')
<1>0. /\ resolution \in [BundleIds -> Resolution] /\ req \in [Users -> Request \cup {NoReq}]
      /\ req[u] # NoReq /\ req[u] \in Request /\ req[u].bundle \in BundleIds
      /\ req'[u].act = req[u].act /\ req'[u].bundle = req[u].bundle
  BY RequestGoesOn, Carried DEF Typed, DeskOK, RequestsOK
<1>1. CASE AcceptWrite(u)
  <2>1. resolution'[req[u].bundle] = "accepted" /\ req[u].act = "accept"
    BY <1>0, <1>1 DEF AcceptWrite, Close, Resolve, At
  <2> QED
    BY <1>0, <2>1 DEF Holds
<1>2. CASE AcceptUnlock(u)
  <2>1. req'[u].step = "nominate" /\ req[u].act = "accept"
    BY <1>0, <1>2 DEF AcceptUnlock, Then, At, Request
  <2> QED
    BY <1>0, <2>1 DEF Holds
<1>3. CASE Peek(u)
  <2>1. req'[u].lock = lock /\ req[u].act \in {"take-over", "discard"} /\ UNCHANGED <<lock, resolution>>
    BY <1>0, <1>3 DEF Peek, At, Request
  <2> QED
    BY <1>0, <2>1 DEF RequestHolds, Holds
<1>4. CASE RetryText(u) \/ RetryRow(u)
  <2>1. req[u].act = "retry"
    BY <1>4 DEF RetryText, RetryRow, At
  <2> QED
    BY <1>0, <2>1 DEF Holds
<1>5. CASE \/ AcceptNominate(u) \/ Reject(u) \/ TakeOver(u) \/ Discard(u) \/ Release(u) \/ Reopen(u)
           \/ RetryBadge(u) \/ AskVerify(u)
  <2>1. Done(u)
    BY <1>5 DEF AcceptNominate, Reject, TakeOver, Discard, Release, Reopen, RetryBadge, AskVerify
  <2> QED
    BY <1>0, <2>1 DEF Done
<1> QED
  BY <1>1, <1>2, <1>3, <1>4, <1>5 DEF RequestStep

LEMMA StepGates ==
  ASSUME Typed, GatesHold, [Next]_vars
  PROVE  GatesHold'
<1>0. \A u \in Users : req[u] # NoReq => req[u] \in Request /\ req[u].bundle \in BundleIds
  BY Carried DEF Typed, RequestsOK
<1>1. CASE Aside
  BY <1>0, <1>1 DEF Aside, GatesHold, RequestHolds, Holds, Owned, Only
<1>2. ASSUME NEW u \in Users, RequestStep(u) PROVE GatesHold'
  <2>0. /\ req[u] # NoReq /\ \A v \in Users : v # u => req'[v] = req[v]
        /\ req'[u] = NoReq \/ /\ req'[u].act = req[u].act /\ req'[u].bundle = req[u].bundle
                              /\ req'[u].alone = req[u].alone
    BY <1>2, RequestGoesOn
  <2>1. ASSUME NEW v \in Users, req'[v] # NoReq, req'[v].alone
        PROVE  Holds(req'[v], resolution', lock')
               /\ \A w \in Users : w # v => req'[w] = NoReq \/ req'[w].bundle # req'[v].bundle
    <3>1. req[v] # NoReq /\ req[v].alone /\ req'[v].bundle = req[v].bundle
      BY <2>0, <2>1
    <3>2. RequestHolds(req[v]) /\ Only(v)
      BY <3>1 DEF GatesHold
    <3>3. \A w \in Users : w # v => req'[w] = NoReq \/ req'[w].bundle # req'[v].bundle
      BY <2>0, <3>1, <3>2 DEF Only
    <3>4. CASE v = u
      BY <1>2, <2>1, <3>2, <3>3, <3>4, OwnStepHolds
    <3>5. CASE v # u
      <4>1. req[v].bundle # req[u].bundle /\ req[v].bundle \in BundleIds
        BY <1>0, <2>0, <3>1, <3>2, <3>5 DEF Only
      <4>2. /\ resolution'[req[v].bundle] = resolution[req[v].bundle]
            /\ lock' = req[v].bundle <=> lock = req[v].bundle
        BY <1>2, <4>1, RequestWritesItsOwn
      <4>3. req'[v] = req[v]
        BY <2>0, <3>5
      <4>4. Holds(req'[v], resolution', lock')
        BY <3>2, <4>2, <4>3 DEF RequestHolds, Holds
      <4> QED
        BY <3>3, <4>4
    <3> QED
      BY <3>4, <3>5
  <2> QED
    BY <2>1 DEF GatesHold, RequestHolds, Only
<1>3. ASSUME NEW u \in Users, NEW a \in Action, NEW b \in BundleIds, NEW skip \in BOOLEAN,
             OpenRequest(u, a, b, skip)
      PROVE  GatesHold'
  <2>0. req[u] = NoReq /\ UNCHANGED <<lock, resolution>>
    BY <1>3 DEF OpenRequest
  <2>1. /\ req'[u] = Opened(a, b, skip)
        /\ \A v \in Users : v # u /\ v \in On(b) => req'[v] = [req[v] EXCEPT !.alone = FALSE]
        /\ \A v \in Users : v # u /\ v \notin On(b) => req'[v] = req[v]
    BY <1>3, Opens
  <2>2. a \in {"take-over", "reopen"} => ~Owned(b)
    BY <1>3 DEF OpenRequest, ActionAllowed, Owned, Untriaged, Terminal
  <2>3. Holds(req'[u], resolution', lock')
    <3>1. req'[u].act = a /\ req'[u].bundle = b /\ req'[u].step = "gated"
      BY <2>1 DEF Opened
    <3> QED
      BY <2>0, <2>2, <3>1 DEF Holds, Owned
  <2>4. ASSUME NEW v \in Users, v # u
        PROVE  /\ v \in On(b) => req'[v].bundle = b /\ ~req'[v].alone
               /\ v \notin On(b) => req'[v] = req[v] /\ (req[v] = NoReq \/ req[v].bundle # b)
    <3>1. CASE v \in On(b)
      <4>1. req[v] # NoReq /\ req[v].bundle = b /\ req[v] \in Request
        BY <1>0, <3>1 DEF On
      <4>2. req'[v] = [req[v] EXCEPT !.alone = FALSE]
        BY <2>1, <2>4, <3>1
      <4>3. req'[v].bundle = b /\ req'[v].alone = FALSE
        BY <4>1, <4>2 DEF Request
      <4> QED
        BY <3>1, <4>3
    <3>2. CASE v \notin On(b)
      BY <2>1, <2>4, <3>2 DEF On
    <3> QED
      BY <3>1, <3>2
  <2>5. ASSUME NEW v \in Users, req'[v] # NoReq, req'[v].alone
        PROVE  Holds(req'[v], resolution', lock')
               /\ \A w \in Users : w # v => req'[w] = NoReq \/ req'[w].bundle # req'[v].bundle
    <3>1. CASE v = u
      <4>0. req'[v].alone = (On(b) = {}) /\ req'[v].bundle = b
        BY <2>1, <3>1 DEF Opened
      <4>1. On(b) = {} /\ req'[v].bundle = b
        BY <2>5, <4>0
      <4>2. \A w \in Users : w # v => req'[w] = NoReq \/ req'[w].bundle # req'[v].bundle
        BY <2>4, <3>1, <4>1
      <4> QED
        BY <2>3, <3>1, <4>2
    <3>2. CASE v # u
      <4>1. v \notin On(b) /\ req'[v] = req[v] /\ req[v].bundle # b /\ req[v] # NoReq
        BY <2>4, <2>5, <3>2
      <4>2. RequestHolds(req[v]) /\ Only(v)
        BY <2>5, <4>1 DEF GatesHold
      <4>3. req'[u].bundle = b
        BY <2>1 DEF Opened
      <4>4. \A w \in Users : w # v => req'[w] = NoReq \/ req'[w].bundle # req'[v].bundle
        BY <2>4, <4>1, <4>2, <4>3 DEF Only
      <4> QED
        BY <2>0, <4>1, <4>2, <4>4 DEF RequestHolds
    <3> QED
      BY <3>1, <3>2
  <2> QED
    BY <2>5 DEF GatesHold, RequestHolds, Only
<1>4. ASSUME NEW u \in Users, RequestCrash(u) PROVE GatesHold'
  <2>1. UNCHANGED <<lock, resolution>> /\ \A v \in Users : v # u => req'[v] = req[v]
    BY <1>4 DEF RequestCrash, Done, Typed, RequestsOK
  <2>2. req'[u] = NoReq
    BY <1>4 DEF RequestCrash, Done, Typed, RequestsOK
  <2> QED
    BY <2>1, <2>2 DEF GatesHold, RequestHolds, Only
<1> QED
  BY <1>1, <1>2, <1>3, <1>4, AsideSteps DEF Next

LEMMA OwnedStep ==
  ASSUME Typed, GatesHold, [Next]_vars,
         NEW b \in BundleIds, TakingOver(b) \/ Staked(b), Owned(b)', ~Crossed(b)
  PROVE  lock' = b
<1>0. /\ resolution \in [BundleIds -> Resolution]
      /\ \A u \in Users : req[u] # NoReq => req[u].bundle \in BundleIds
  BY Carried DEF Typed, DeskOK
<1>g. ASSUME NEW u \in Users, req[u] # NoReq, req[u].bundle = b
      PROVE  RequestHolds(req[u]) /\ Only(u)
  BY <1>g DEF Crossed, On, GatesHold
<1>1. ASSUME TakingOver(b)
      PROVE  /\ ~Owned(b)
             /\ \E v \in Users : /\ At(v, "take-over", "peeked") /\ req[v].bundle = b
                                 /\ req[v].lock = b <=> lock = b
                                 /\ Only(v)
  <2>1. PICK v \in Users : At(v, "take-over", "peeked") /\ req[v].bundle = b
    BY <1>1 DEF TakingOver
  <2>2. RequestHolds(req[v]) /\ Only(v)
    BY <1>g, <2>1 DEF At
  <2> QED
    BY <2>1, <2>2 DEF RequestHolds, Holds, Owned, At
<1>2. CASE Aside
  BY <1>1, <1>2 DEF Aside, Staked, Owned
<1>3. ASSUME NEW u \in Users, RequestStep(u) PROVE lock' = b
  <2>0. req[u] # NoReq
    BY <1>3, RequestGoesOn
  <2>1. CASE req[u].bundle # b
    <3>1. resolution'[b] = resolution[b] /\ (lock' = b <=> lock = b)
      BY <1>3, <2>1, RequestWritesItsOwn
    <3> QED
      BY <1>1, <3>1 DEF Owned, Staked
  <2>2. CASE req[u].bundle = b /\ TakingOver(b)
    <3>1. At(u, "take-over", "peeked") /\ (req[u].lock = b <=> lock = b) /\ ~Owned(b)
      BY <1>1, <2>0, <2>2 DEF Only, At
    <3>2. TakeOver(u)
      BY <1>3, <3>1 DEF RequestStep, At, AcceptWrite, AcceptUnlock, AcceptNominate, Reject, Peek, Discard,
                        Release, Reopen, RetryText, RetryRow, RetryBadge, AskVerify
    <3> QED
      BY <2>2, <3>1, <3>2 DEF TakeOver, Owned
  <2>3. CASE req[u].bundle = b /\ Staked(b)
    <3>0. lock = b /\ Owned(b) /\ lock # NoBundle /\ RequestHolds(req[u])
      BY <1>g, <2>0, <2>3, Bounds DEF Staked, Owned
    <3>1. CASE lock' = lock
      BY <3>0, <3>1
    <3>2. CASE AcceptUnlock(u)
      <4>1. req[u].act = "accept" /\ req[u].step = "unlock"
        BY <3>2 DEF AcceptUnlock, At
      <4> QED
        BY <2>3, <3>0, <4>1 DEF RequestHolds, Holds, Owned
    <3>3. CASE TakeOver(u) \/ Discard(u)
      BY <1>0, <3>0, <3>3, Bounds DEF TakeOver, Discard, At
    <3>4. CASE Release(u)
      BY <1>0, <2>3, <3>4 DEF Release, Resolve, Owned
    <3>5. CASE Reopen(u)
      <4>1. req[u].act = "reopen"
        BY <3>5 DEF Reopen, At
      <4> QED
        BY <2>3, <3>0, <4>1 DEF RequestHolds, Holds, Owned
    <3>6. CASE \/ AcceptWrite(u) \/ AcceptNominate(u) \/ Reject(u) \/ Peek(u) \/ RetryText(u)
               \/ RetryRow(u) \/ RetryBadge(u) \/ AskVerify(u)
      BY <3>1, <3>6 DEF AcceptWrite, AcceptNominate, Reject, Peek, RetryText, RetryRow, RetryBadge, AskVerify
    <3> QED
      BY <1>3, <3>2, <3>3, <3>4, <3>5, <3>6 DEF RequestStep
  <2> QED
    BY <2>1, <2>2, <2>3
<1>4. ASSUME UNCHANGED desk PROVE lock' = b
  BY <1>1, <1>4 DEF Staked, Owned
<1>5. ASSUME NEW u \in Users, RequestCrash(u) PROVE lock' = b
  BY <1>4, <1>5 DEF RequestCrash
<1>6. ASSUME NEW u \in Users, NEW a \in Action, NEW c \in BundleIds, NEW skip \in BOOLEAN,
             OpenRequest(u, a, c, skip)
      PROVE  lock' = b
  BY <1>4, <1>6 DEF OpenRequest
<1> QED
  BY <1>2, <1>3, <1>5, <1>6, AsideSteps DEF Next

\* A bundle the operator has taken over holds the stake that keeps the runner
\* off its port, whatever verdicts, merges and other operators' requests on
\* siblings do meanwhile; two requests that ran side by side on the bundle
\* itself are left out (take_over in tracker/bundle_actions.py).
THEOREM OwnedStaysStaked == Spec => OwnedIsStaked
<1>1. Typed /\ GatesHold /\ [Next]_vars
        => [\A b \in BundleIds :
              /\ TakingOver(b) \/ Staked(b)
              /\ resolution'[b] = "operator_owned"
              => lock' = b \/ Crossed(b)]_vars
  BY OwnedStep DEF Owned
<1>2. Typed /\ GatesHold /\ [Next]_vars => GatesHold'
  BY StepGates
<1> QED
  BY <1>1, <1>2, InitTyped, InitGates, StepTyped, PTL DEF Spec, OwnedIsStaked
=============================================================================

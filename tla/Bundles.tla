------------------------------- MODULE Bundles -------------------------------
(***************************************************************************)
(* The fix bundles of one port: the operator's actions on them, the skip   *)
(* lock an operator stakes on the port, the retry and verify requests the  *)
(* runner polls, and the verdicts its jobs write back.                     *)
(*                                                                         *)
(* The bundles share one (target, origin) pair and one run, so there is    *)
(* one skip lock and one user context; the two pairs of a site never       *)
(* touch each other.  A request reads the bundle row through its gate on   *)
(* one connection and writes on another, statement by statement; the       *)
(* runner is one thread.  resolution NULL is "none"; triage_failed and     *)
(* the three failure resolutions, which every gate treats alike, are       *)
(* "failed".  The issue side of accept is ConfirmLoop's, the pull request  *)
(* Delivery's.                                                             *)
(***************************************************************************)
EXTENDS Integers

CONSTANTS
  BundleIds,    \* the bundles of the port
  NoBundle,     \* no bundle: the lock is open, the run has no occurrence yet
  Users,        \* concurrent operator requests
  Acts,         \* the actions the operators use, a subset of Action
  NoReq, NoJob, \* an idle request slot; nothing in the runner's hands
  MaxRev,       \* bound: texts an operator submits for the run
  MaxFix,       \* bound: diffs the agent produces for one bundle
  MaxQueued,    \* bound: jobs of one kind that wait for one bundle
  MaxCrashes    \* bound: crashes of the runner or of a request

Action == {"verify", "accept", "reject", "take-over", "discard", "retry", "release", "reopen",
           "discard-requests"}
Terminal == {"accepted", "rejected", "discarded", "merged"}
Untriaged == {"none", "failed"}
Resolution == Terminal \cup Untriaged \cup {"agent_fixed", "operator_owned", "retry_requested"}
Kind == {"triage", "retriage", "patch", "verify"}
Job == Kind \X BundleIds

ASSUME BundlesAssumption ==
  /\ NoBundle \notin BundleIds /\ NoJob \notin Job
  /\ Acts \subseteq Action
  /\ MaxRev \in Nat /\ MaxFix \in Nat /\ MaxQueued \in Nat /\ MaxCrashes \in Nat

VARIABLES
  known,        \* bundles whose failure was recorded
  latest,       \* the newest of them
  resolution,   \* bundles.resolution
  prior,        \* bundles.pre_terminal_resolution
  diff,         \* which analysis/changes.diff the bundle holds, 0 for none
  verified,     \* bundles.verification_status: the diff it was set for, 0 unless verified
  lock,         \* the bundle of the open origin_skip_flags row
  nominated,    \* bundles recorded as the deliverable of their issue, not merged
  rev,          \* user_context.context_rev
  row,          \* user_context_requests.status of each bundle's row
  handled,      \* user_context_requests.last_context_rev_handled
  asked,        \* bundles with a pending verify_requests row
  queue,        \* how many of each job are in pending/
  work,         \* the job the runner has
  pc,           \* where the runner is
  mark,         \* the request whose job it has just enqueued
  req,          \* requests that passed their gate
  crashes,
  seen          \* history: the newest context a started triage has read

desk == <<resolution, prior, lock, nominated>>
intent == <<rev, row, handled, asked>>
fixes == <<diff, verified>>
runner == <<queue, work, pc, mark, seen>>
vars == <<known, latest, desk, intent, fixes, runner, req, crashes>>

Mark == [kind : {"context", "verify"}, bundle : BundleIds, rev : 0..MaxRev]
Request == [act : Action, bundle : BundleIds, res : Resolution, prior : Resolution,
            step : {"gated", "peeked", "unlock", "nominate", "row", "badge"},
            lock : BundleIds \cup {NoBundle}, skip : BOOLEAN, rev : 0..MaxRev, alone : BOOLEAN]

Init ==
  /\ known = {} /\ latest = NoBundle
  /\ resolution = [b \in BundleIds |-> "none"] /\ prior = [b \in BundleIds |-> "none"]
  /\ diff = [b \in BundleIds |-> 0] /\ verified = [b \in BundleIds |-> 0]
  /\ lock = NoBundle /\ nominated = {}
  /\ rev = 0 /\ asked = {}
  /\ row = [b \in BundleIds |-> "absent"] /\ handled = [b \in BundleIds |-> 0]
  /\ queue = [j \in Job |-> 0] /\ work = NoJob /\ pc = "idle" /\ mark = NoJob
  /\ req = [u \in Users |-> NoReq] /\ crashes = 0 /\ seen = 0

Enqueue(k, b) ==
  queue[<<k, b>>] < MaxQueued /\ queue' = [queue EXCEPT ![<<k, b>>] = @ + 1]
Dequeue(j) == queue[j] > 0 /\ queue' = [queue EXCEPT ![j] = @ - 1]

\* A dsynth failure of the port: a new bundle and its triage job.
HookFailure(b) ==
  /\ b \notin known
  /\ known' = known \cup {b} /\ latest' = b
  /\ Enqueue("triage", b)
  /\ UNCHANGED <<desk, intent, fixes, work, pc, mark, seen, req, crashes>>

(***************************************************************************)
(* The gate of a request.                                                  *)
(***************************************************************************)
ActionAllowed(a, r, v) ==
  CASE a = "verify" -> r \notin {"accepted", "rejected"}
    [] a = "accept" -> r \notin Terminal /\ v
    [] a \in {"reject", "retry"} -> r \notin Terminal
    [] a = "take-over" -> r \in Untriaged
    [] a = "discard" -> r \in Untriaged \cup {"operator_owned"}
    [] a = "release" -> r = "operator_owned"
    [] a = "reopen" -> r \in Terminal

On(b) == {u \in Users : req[u] # NoReq /\ req[u].bundle = b}

\* alone is history: no other request on the bundle was open meanwhile.
OpenRequest(u, a, b, skip) ==
  /\ a \in Acts \ {"discard-requests"} /\ b \in known /\ req[u] = NoReq
  /\ ActionAllowed(a, resolution[b], verified[b] > 0)
  /\ skip => a = "discard"
  /\ a = "retry" => rev < MaxRev
  /\ a = "verify" => verified[b] # diff[b] /\ b \notin asked
  /\ req' = [v \in Users |->
       CASE v = u -> [act |-> a, bundle |-> b, res |-> resolution[b], prior |-> prior[b],
                      step |-> "gated", lock |-> NoBundle, skip |-> skip, rev |-> 0,
                      alone |-> On(b) = {}]
         [] v # u /\ v \in On(b) -> [req[v] EXCEPT !.alone = FALSE]
         [] OTHER -> req[v]]
  /\ UNCHANGED <<known, latest, desk, intent, fixes, runner, crashes>>

At(u, a, s) == req[u] # NoReq /\ req[u].act = a /\ req[u].step = s
Done(u) == req' = [req EXCEPT ![u] = NoReq]
Then(u, s) == req' = [req EXCEPT ![u].step = s]
Resolve(b, r) == resolution' = [resolution EXCEPT ![b] = r]

\* The terminal decisions keep what the gate read, for a later reopen.
Close(u, r) ==
  /\ Resolve(req[u].bundle, r)
  /\ prior' = [prior EXCEPT ![req[u].bundle] = req[u].res]

\* Mutant: the lock of the pair is closed whoever staked it.
UnstakeAny(b) == lock' = NoBundle

\* The open lock is closed when this bundle staked it.
Unstake(b) == lock' = IF lock = b THEN NoBundle ELSE lock

(***************************************************************************)
(* Accept: four autocommitted steps.                                       *)
(***************************************************************************)
AcceptWrite(u) ==
  /\ At(u, "accept", "gated")
  /\ Close(u, "accepted")
  /\ Then(u, IF req[u].res = "operator_owned" THEN "unlock" ELSE "nominate")
  /\ UNCHANGED <<known, latest, lock, nominated, intent, fixes, runner, crashes>>

AcceptUnlock(u) ==
  /\ At(u, "accept", "unlock") /\ Then(u, "nominate")
  /\ Unstake(req[u].bundle)
  /\ UNCHANGED <<known, latest, resolution, prior, nominated, intent, fixes, runner,
                 crashes>>

AcceptNominate(u) ==
  /\ At(u, "accept", "nominate") /\ Done(u)
  /\ nominated' = nominated \cup {req[u].bundle}
  /\ UNCHANGED <<known, latest, resolution, prior, lock, intent, fixes, runner,
                 crashes>>

Reject(u) ==
  /\ At(u, "reject", "gated") /\ Done(u)
  /\ Close(u, "rejected")
  /\ UNCHANGED <<known, latest, lock, nominated, intent, fixes, runner, crashes>>

(***************************************************************************)
(* Take-over and discard look at the lock before their transaction.        *)
(***************************************************************************)
Peek(u) ==
  /\ At(u, "take-over", "gated") \/ At(u, "discard", "gated")
  /\ req' = [req EXCEPT ![u].step = "peeked", ![u].lock = lock]
  /\ UNCHANGED <<known, latest, desk, intent, fixes, runner, crashes>>

\* Mutant: take-over stakes nothing.
TakeOverUnstaked(u) ==
  /\ At(u, "take-over", "peeked") /\ Done(u)
  /\ Resolve(req[u].bundle, "operator_owned")
  /\ UNCHANGED <<known, latest, lock, prior, nominated, intent, fixes, runner, crashes>>

\* 409 when a sibling holds the lock, at the look or at the insert.
TakeOver(u) ==
  /\ At(u, "take-over", "peeked") /\ Done(u)
  /\ LET b == req[u].bundle IN
       IF req[u].lock = b \/ (req[u].lock = NoBundle /\ lock = NoBundle)
       THEN /\ Resolve(b, "operator_owned")
            /\ lock' = IF req[u].lock = NoBundle THEN b ELSE lock
       ELSE UNCHANGED <<resolution, lock>>
  /\ UNCHANGED <<known, latest, prior, nominated, intent, fixes, runner, crashes>>

\* A lock that is already open is left to its owner; the discard lands.
Discard(u) ==
  /\ At(u, "discard", "peeked") /\ Done(u)
  /\ Close(u, "discarded")
  /\ lock' = IF req[u].skip /\ req[u].lock = NoBundle /\ lock = NoBundle
             THEN req[u].bundle ELSE lock
  /\ UNCHANGED <<known, latest, nominated, intent, fixes, runner, crashes>>

Release(u) ==
  /\ At(u, "release", "gated") /\ Done(u)
  /\ Resolve(req[u].bundle, "none") /\ Unstake(req[u].bundle)
  /\ UNCHANGED <<known, latest, prior, nominated, intent, fixes, runner, crashes>>

Reopen(u) ==
  /\ At(u, "reopen", "gated") /\ Done(u)
  /\ LET b == req[u].bundle IN
       /\ Resolve(b, req[u].prior)
       /\ prior' = [prior EXCEPT ![b] = "none"]
       /\ IF req[u].res = "discarded" THEN Unstake(b) ELSE UNCHANGED lock
  /\ UNCHANGED <<known, latest, nominated, intent, fixes, runner, crashes>>

(***************************************************************************)
(* Retry: the text, the request row and the badge, each committed alone.   *)
(***************************************************************************)
RetryText(u) ==
  /\ At(u, "retry", "gated")
  /\ rev < MaxRev /\ rev' = rev + 1
  /\ row' = [b \in BundleIds |-> IF row[b] = "discarded" THEN "pending" ELSE row[b]]
  /\ req' = [req EXCEPT ![u].step = "row", ![u].rev = rev + 1]
  /\ UNCHANGED <<known, latest, desk, handled, asked, fixes, runner, crashes>>

\* Mutant: an existing row keeps its status.
RetryRowKept(u) ==
  /\ At(u, "retry", "row") /\ Then(u, "badge")
  /\ LET b == req[u].bundle IN
       IF row[b] = "absent"
       THEN /\ row' = [row EXCEPT ![b] = "pending"]
            /\ handled' = [handled EXCEPT ![b] = req[u].rev - 1]
       ELSE UNCHANGED <<row, handled>>
  /\ UNCHANGED <<known, latest, desk, rev, asked, fixes, runner, crashes>>

RetryRow(u) ==
  /\ At(u, "retry", "row") /\ Then(u, "badge")
  /\ LET b == req[u].bundle IN
       /\ row' = [row EXCEPT ![b] = "pending"]
       /\ handled' = [handled EXCEPT ![b] = IF row[b] = "absent" THEN req[u].rev - 1 ELSE @]
  /\ UNCHANGED <<known, latest, desk, rev, asked, fixes, runner, crashes>>

RetryBadge(u) ==
  /\ At(u, "retry", "badge") /\ Done(u)
  /\ Resolve(req[u].bundle, "retry_requested")
  /\ UNCHANGED <<known, latest, prior, lock, nominated, intent, fixes, runner, crashes>>

AskVerify(u) ==
  /\ At(u, "verify", "gated") /\ Done(u)
  /\ asked' = asked \cup {req[u].bundle}
  /\ UNCHANGED <<known, latest, desk, rev, row, handled, fixes, runner, crashes>>

\* The manual queue's discard: every open request of the run and origin.
DiscardRequests ==
  /\ "discard-requests" \in Acts
  /\ \E b \in BundleIds : row[b] \in {"pending", "enqueued"}
  /\ row' = [b \in BundleIds |-> IF row[b] = "absent" THEN "absent" ELSE "discarded"]
  /\ UNCHANGED <<known, latest, desk, rev, handled, asked, fixes, runner, req, crashes>>

\* The pull request of a nominated bundle was merged, whatever was decided since.
Merge(b) ==
  /\ b \in nominated
  /\ nominated' = nominated \ {b}
  /\ IF resolution[b] = "merged" THEN UNCHANGED <<resolution, prior>>
     ELSE Resolve(b, "merged") /\ prior' = [prior EXCEPT ![b] = resolution[b]]
  /\ UNCHANGED <<known, latest, lock, intent, fixes, runner, req, crashes>>

(***************************************************************************)
(* The runner.                                                             *)
(***************************************************************************)
\* Mutant: no look at the jobs already in flight.
PollContextUnblocked(b) ==
  /\ pc = "idle" /\ row[b] = "pending" /\ rev > handled[b]
  /\ Enqueue("retriage", latest)
  /\ mark' = [kind |-> "context", bundle |-> b, rev |-> rev] /\ pc' = "mark"
  /\ UNCHANGED <<known, latest, desk, intent, fixes, work, seen, req, crashes>>

\* One new triage of the newest occurrence, unless the origin has active work.
PollContext(b) ==
  /\ pc = "idle" /\ row[b] = "pending" /\ rev > handled[b]
  /\ \A j \in Job : queue[j] = 0
  /\ Enqueue("retriage", latest)
  /\ mark' = [kind |-> "context", bundle |-> b, rev |-> rev] /\ pc' = "mark"
  /\ UNCHANGED <<known, latest, desk, intent, fixes, work, seen, req, crashes>>

PollVerify(b) ==
  /\ pc = "idle" /\ b \in asked
  /\ Enqueue("verify", b)
  /\ mark' = [kind |-> "verify", bundle |-> b, rev |-> 0] /\ pc' = "mark"
  /\ UNCHANGED <<known, latest, desk, intent, fixes, work, seen, req, crashes>>

\* Mutant: the next text is taken for handled too.
MarkContextNext ==
  /\ pc = "mark" /\ mark.kind = "context"
  /\ handled' = [handled EXCEPT ![mark.bundle] = mark.rev + 1]
  /\ row' = [row EXCEPT ![mark.bundle] = "enqueued"]
  /\ pc' = "idle" /\ mark' = NoJob
  /\ UNCHANGED <<known, latest, desk, rev, asked, fixes, queue, work, seen, req, crashes>>

MarkContext ==
  /\ pc = "mark" /\ mark.kind = "context"
  /\ LET b == mark.bundle IN
       /\ handled' = [handled EXCEPT ![b] = mark.rev]
       /\ row' = [row EXCEPT ![b] = "enqueued"]
       /\ IF resolution[b] = "retry_requested" THEN Resolve(b, "none")
          ELSE UNCHANGED resolution
  /\ pc' = "idle" /\ mark' = NoJob
  /\ UNCHANGED <<known, latest, prior, lock, nominated, rev, asked, fixes, queue, work,
                 seen, req, crashes>>

MarkVerify ==
  /\ pc = "mark" /\ mark.kind = "verify"
  /\ asked' = asked \ {mark.bundle}
  /\ pc' = "idle" /\ mark' = NoJob
  /\ UNCHANGED <<known, latest, desk, rev, row, handled, fixes, queue, work, seen, req, crashes>>

Attempt == {"triage", "retriage", "patch"}

StartJob(j) ==
  /\ pc = "idle" /\ Dequeue(j)
  /\ j[1] \in Attempt => lock = NoBundle
  /\ work' = j /\ pc' = "run"
  /\ seen' = IF j[1] \in {"triage", "retriage"} THEN rev ELSE seen
  /\ UNCHANGED <<known, latest, desk, intent, fixes, mark, req, crashes>>

\* A triage or patch job of a staked origin is retired unrun.
SkipLocked(j) ==
  /\ pc = "idle" /\ Dequeue(j)
  /\ j[1] \in Attempt /\ lock # NoBundle
  /\ UNCHANGED <<known, latest, desk, intent, fixes, work, pc, mark, seen, req, crashes>>

\* The verdict lands on the job's bundle whatever its resolution is by then.
Ends(kinds) == pc = "run" /\ work[1] \in kinds /\ pc' = "idle" /\ work' = NoJob

TriageHandsOff ==
  /\ Ends({"triage", "retriage"})
  /\ Enqueue("patch", work[2])
  /\ UNCHANGED <<known, latest, desk, intent, fixes, mark, seen, req, crashes>>

TriageFails ==
  /\ Ends({"triage", "retriage"})
  /\ Resolve(work[2], "failed")
  /\ UNCHANGED <<known, latest, prior, lock, nominated, intent, fixes, queue, mark, seen, req,
                 crashes>>

\* An escalated job asks the operator for context.
QueueForOperator(b) ==
  /\ row' = [row EXCEPT ![b] = "pending"]
  /\ handled' = [handled EXCEPT ![b] = IF row[b] = "absent" THEN rev ELSE @]

TriageEscalates ==
  /\ Ends({"triage", "retriage"})
  /\ Resolve(work[2], "failed") /\ QueueForOperator(work[2])
  /\ UNCHANGED <<known, latest, prior, lock, nominated, rev, asked, fixes, queue, mark, seen,
                 req, crashes>>

\* Every attempt leaves its diff on the bundle; verification_status stays.
WriteDiff(b) == diff[b] < MaxFix /\ diff' = [diff EXCEPT ![b] = @ + 1]

PatchEnds(r) ==
  /\ Ends({"patch"}) /\ r \in {"agent_fixed", "failed"}
  /\ WriteDiff(work[2]) /\ Resolve(work[2], r)
  /\ UNCHANGED <<known, latest, prior, lock, nominated, intent, verified, queue, mark, seen, req,
                 crashes>>

PatchEscalates ==
  /\ Ends({"patch"})
  /\ WriteDiff(work[2]) /\ Resolve(work[2], "failed") /\ QueueForOperator(work[2])
  /\ UNCHANGED <<known, latest, prior, lock, nominated, rev, asked, verified, queue, mark, seen,
                 req, crashes>>

VerifyEnds(ok) ==
  /\ Ends({"verify"}) /\ (ok => diff[work[2]] > 0)
  /\ verified' = [verified EXCEPT ![work[2]] = IF ok THEN diff[work[2]] ELSE 0]
  /\ UNCHANGED <<known, latest, desk, intent, diff, queue, mark, seen, req, crashes>>

\* Abandoned, broken off or out of diffs to write: no verdict reaches the bundle.
NoVerdict ==
  /\ pc = "run" /\ pc' = "idle" /\ work' = NoJob
  /\ UNCHANGED <<known, latest, desk, intent, fixes, queue, mark, seen, req, crashes>>

\* The jobs of the queue survive; the job in hand and the mark to set do not.
RunnerCrash ==
  /\ pc # "idle" /\ crashes < MaxCrashes /\ crashes' = crashes + 1
  /\ pc' = "idle" /\ work' = NoJob /\ mark' = NoJob
  /\ UNCHANGED <<known, latest, desk, intent, fixes, queue, seen, req>>

\* The tracker stops between two statements of a request.
RequestCrash(u) ==
  /\ req[u] # NoReq /\ crashes < MaxCrashes /\ crashes' = crashes + 1
  /\ Done(u)
  /\ UNCHANGED <<known, latest, desk, intent, fixes, runner>>

RequestStep(u) ==
  \/ AcceptWrite(u) \/ AcceptUnlock(u) \/ AcceptNominate(u) \/ Reject(u) \/ Peek(u)
  \/ TakeOver(u) \/ Discard(u) \/ Release(u) \/ Reopen(u)
  \/ RetryText(u) \/ RetryRow(u) \/ RetryBadge(u) \/ AskVerify(u)

Poll == \E b \in known : PollContext(b) \/ PollVerify(b)

Work ==
  \/ MarkContext \/ MarkVerify
  \/ (\E j \in Job : StartJob(j) \/ SkipLocked(j))
  \/ TriageHandsOff \/ TriageFails \/ TriageEscalates
  \/ PatchEscalates \/ NoVerdict
  \/ (\E r \in Resolution : PatchEnds(r))
  \/ (\E ok \in BOOLEAN : VerifyEnds(ok))

Next ==
  \/ \E b \in BundleIds : HookFailure(b) \/ Merge(b)
  \/ \E u \in Users, a \in Action, b \in BundleIds, skip \in BOOLEAN : OpenRequest(u, a, b, skip)
  \/ \E u \in Users : RequestStep(u) \/ RequestCrash(u)
  \/ DiscardRequests
  \/ Poll \/ Work \/ RunnerCrash

Spec == Init /\ [][Next]_vars

(***************************************************************************)
(* The runner loops over its polls and its queue, a request that was let   *)
(* in runs to its end unless it crashes.  Nothing is assumed of operators. *)
(***************************************************************************)
Fairness ==
  /\ WF_vars(Work)
  /\ \A b \in BundleIds : SF_vars(PollContext(b))
  /\ \A j \in Job : SF_vars(StartJob(j) \/ SkipLocked(j))
  /\ \A u \in Users : WF_vars(RequestStep(u))

LiveSpec == Spec /\ Fairness

(***************************************************************************)
(* Properties.                                                             *)
(***************************************************************************)

\* Every column keeps its type.
TypeOK ==
  /\ known \subseteq BundleIds /\ latest \in BundleIds \cup {NoBundle}
  /\ resolution \in [BundleIds -> Resolution] /\ prior \in [BundleIds -> Resolution]
  /\ diff \in [BundleIds -> 0..MaxFix] /\ verified \in [BundleIds -> 0..MaxFix]
  /\ lock \in BundleIds \cup {NoBundle}
  /\ nominated \subseteq BundleIds /\ asked \subseteq BundleIds
  /\ rev \in 0..MaxRev /\ seen \in 0..MaxRev
  /\ row \in [BundleIds -> {"absent", "pending", "enqueued", "discarded"}]
  /\ handled \in [BundleIds -> 0..MaxRev]
  /\ queue \in [Job -> 0..MaxQueued] /\ work \in Job \cup {NoJob}
  /\ pc \in {"idle", "mark", "run"} /\ mark \in Mark \cup {NoJob}
  /\ req \in [Users -> Request \cup {NoReq}] /\ crashes \in 0..MaxCrashes

TakingOver(b) == \E u \in Users : At(u, "take-over", "peeked") /\ req[u].bundle = b
Staked(b) == resolution[b] = "operator_owned" /\ lock = b

\* Two requests on the bundle ran side by side, and one of them is still open.
Crossed(b) == \E u \in On(b) : ~req[u].alone

\* A bundle the operator has taken over holds the stake that keeps the runner
\* off its port, from the moment it is taken over and whatever verdicts and
\* merges, and the requests of other operators on its siblings, do meanwhile.
\* Two requests on the bundle itself that run side by side are left out: a
\* gate is read on one connection and written behind on another.  A bundle
\* that is reopened may come back operator_owned without the stake that accept
\* or discard gave away.
OwnedIsStaked ==
  [][\A b \in BundleIds :
       /\ TakingOver(b) \/ Staked(b)
       /\ resolution'[b] = "operator_owned"
       => lock' = b \/ Crossed(b)]_vars

\* A stake is given up only by a request on the bundle that staked it: no
\* action on a sibling, and nothing the runner does, lets the runner back onto
\* a port somebody works on.
StakeKept ==
  [][lock # NoBundle /\ lock' # lock
       => /\ lock' = NoBundle
          /\ \E u \in Users : req[u] # NoReq /\ req[u].bundle = lock]_vars

\* At most one retriage of a port is queued or running, although every bundle
\* of the run has a request row of its own and a crash between the enqueue and
\* the mark leaves the row to be enqueued again.
OneRetriageInFlight ==
  LET Queued == {b \in BundleIds : queue[<<"retriage", b>>] > 0}
      InHand == {b \in BundleIds : work = <<"retriage", b>>}
  IN /\ \A b \in Queued : Queued = {b} /\ queue[<<"retriage", b>>] = 1
     /\ Queued = {} \/ InHand = {}

\* A retry committed its request row for text r.
Committed(r, b) ==
  \E u \in Users : At(u, "retry", "badge") /\ req[u].rev = r /\ req[u].bundle = b

Read(r) == seen >= r \/ lock # NoBundle \/ \E b \in BundleIds : row[b] = "discarded"

\* What an operator wrote reaches a triage: after a retry commits a request row
\* that does not count its text as handled, a triage starts that reads the text
\* or a newer one, unless the port is staked or the requests are discarded.
\* The runner's mark overwrites a request that lands between the enqueue and
\* the mark; the text is not lost, because the job reads the newest text when
\* it starts.
RetryReachesTriage ==
  \A r \in 1..MaxRev, b \in BundleIds : Committed(r, b) /\ handled[b] < r ~> Read(r)

(***************************************************************************)
(* Stated by the repository's documents, and refuted by the code.          *)
(***************************************************************************)

\* A bundle the operator has taken over holds the stake, whoever else works
\* on it.
EveryOwnedIsStaked ==
  [][\A b \in BundleIds :
       (TakingOver(b) \/ Staked(b)) /\ resolution'[b] = "operator_owned" => lock' = b]_vars

\* Accept is impossible on an unverified bundle: the diff that is accepted is
\* the one the verification built.
AcceptedFixIsVerified ==
  \A b \in BundleIds : resolution[b] = "accepted" /\ b \in nominated => verified[b] = diff[b]

\* The runner's poll picks every retry up.  An escalation that files its
\* request row between the text and the row of a retry counts the text as
\* handled, and the poll passes the row over for ever.
RetryPickedUp ==
  \A r \in 1..MaxRev, b \in BundleIds : Committed(r, b) ~> Read(r)

\* Retry hands an operator-owned bundle back to the loop: a bundle that waits
\* for its retry does not itself keep the runner off the port.
HandedBackIsUnstaked ==
  \A b \in BundleIds : resolution[b] = "retry_requested" => lock # b
===============================================================================

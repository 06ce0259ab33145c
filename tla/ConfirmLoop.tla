----------------------------- MODULE ConfirmLoop -----------------------------
(***************************************************************************)
(* Build-confirmed resolution of an issue.  Accepting a fix records a      *)
(* desired build generation on the issue row; the runner's reconcile loop  *)
(* re-derives the issues whose desired generation is ahead of the          *)
(* confirmed one, claims a single-flight marker, enqueues a confirm job,   *)
(* builds it and lands the verdict back on the row.  Tracker operators     *)
(* move the same row concurrently: each request reads the row through the  *)
(* action gate, then commits in a later transaction.                       *)
(*                                                                         *)
(* One variable per column of the issues table; the runner is one thread   *)
(* with a program counter; a crash keeps the database and the pending      *)
(* directory and loses everything else.  building_generation = NULL is 0:  *)
(* a generation that is built is at least 1.                               *)
(***************************************************************************)
EXTENDS Integers, SequencesExt

CONSTANTS
  Issues,       \* issue keys
  Bundles,      \* bundle ids an operator may accept
  NoBundle,     \* delivery_bundle_id IS NULL
  Operators,    \* concurrent tracker requests
  Acts,         \* the operator actions exercised, a subset of Action
  NoReq, NoJob, \* an idle request slot; no job in the runner's hands
  Threshold,    \* runner.confirm_green_threshold, read through _setting_int
  MaxFailures,  \* runner.confirm_max_failures, read through _setting_int
  MaxGen,       \* bound: no request bumps a generation at or above this
  MaxPending,   \* bound: the runner prefers other work only while pending/ is shorter
  MaxCrashes,   \* bound: runner crashes
  MaxDbFaults   \* bound: runner writes to state.db that fail

Action == {"accept", "mute", "unmute", "resolve", "reopen", "build", "cancel-build"}

ASSUME ConfirmLoopAssumption ==
  /\ NoBundle \notin Bundles
  /\ Acts \subseteq Action
  /\ Threshold \in Nat \ {0} /\ MaxFailures \in Nat \ {0}
  /\ MaxGen \in Nat /\ MaxPending \in Nat \ {0}
  /\ MaxCrashes \in Nat /\ MaxDbFaults \in Nat
  /\ NoJob \notin [issue : Issues, bundle : Bundles, gen : Nat]
  /\ NoReq \notin [act : Action, issue : Issues, bundle : Bundles \cup {NoBundle},
                   regressed : BOOLEAN]

VARIABLES
  state,        \* issues.state
  delivery,     \* issues.delivery_bundle_id
  requested,    \* issues.requested_build_generation
  confirmed,    \* issues.last_confirmed_build_generation
  building,     \* issues.building_generation, 0 for NULL
  greens,       \* issues.confirm_green_count
  failures,     \* issues.confirm_failure_count
  waiting,      \* issues.next_eligible_at lies in the future
  resolvedAt,   \* issues.resolved_at IS NOT NULL
  past,         \* an occurrence lies past the recorded known-good boundary
  pending,      \* confirm jobs in pending/, oldest first
  pc,           \* where the runner is in its loop
  scan,         \* rows of the feed still to process in this pass
  job,          \* the job being enqueued or built
  req,          \* tracker requests that passed their gate
  crashes, faults,
  run,          \* history: green verdicts recorded since the last red, up to Threshold
  fresh,        \* history: green verdicts recorded since the issue entered resolving
  withdrawn     \* history: the issue whose running build was cancelled, if not requested again

intent == <<requested, confirmed>>
pacing == <<failures, waiting>>
lifecycle == <<state, delivery, resolvedAt, past>>
queue == <<pending, pc, scan, job>>
history == <<run, fresh, withdrawn>>
vars == <<lifecycle, intent, building, greens, pacing, queue, req, crashes, faults, history>>

IssueState == {"unresolved", "resolving", "resolved", "muted"}
Job == [issue : Issues, bundle : Bundles, gen : Nat]
Row == [issue : Issues, bundle : Bundles \cup {NoBundle}, gen : Nat]
Request == [act : Action, issue : Issues, bundle : Bundles \cup {NoBundle},
            regressed : BOOLEAN]
Location == {"down", "recover", "top", "scan", "enqueue", "noenqueue",
             "claim", "build", "nobuild"}

Init ==
  /\ state = [i \in Issues |-> "unresolved"]
  /\ delivery = [i \in Issues |-> NoBundle]
  /\ requested = [i \in Issues |-> 0] /\ confirmed = [i \in Issues |-> 0]
  /\ building = [i \in Issues |-> 0] /\ greens = [i \in Issues |-> 0]
  /\ failures = [i \in Issues |-> 0] /\ waiting = [i \in Issues |-> FALSE]
  /\ resolvedAt = [i \in Issues |-> FALSE] /\ past = [i \in Issues |-> FALSE]
  /\ pending = <<>> /\ pc = "down" /\ scan = {} /\ job = NoJob
  /\ req = [o \in Operators |-> NoReq]
  /\ crashes = 0 /\ faults = 0
  /\ run = [i \in Issues |-> 0] /\ fresh = [i \in Issues |-> 0]
  /\ withdrawn = {}

(***************************************************************************)
(* The projection and the gate the tracker reads before it commits.        *)
(***************************************************************************)
EffectiveState(i) ==
  IF state[i] = "resolved" /\ past[i] THEN "regressed" ELSE state[i]

ActionAllowed(a, s) ==
  CASE a = "mute" -> s \in {"unresolved", "regressed"}
    [] a = "unmute" -> s = "muted"
    [] a = "resolve" -> s # "resolved"
    [] a = "reopen" -> s \in {"resolved", "resolving"}
    [] a \in {"build", "cancel-build"} -> s = "resolving"
    [] a = "accept" -> TRUE        \* gated on the bundle, not on the issue

\* The gate half of a request: the row is read on a connection of its own.
OpenRequest(o, i, a, b) ==
  /\ a \in Acts /\ req[o] = NoReq
  /\ ActionAllowed(a, EffectiveState(i))
  /\ b \in (IF a = "accept" THEN Bundles ELSE {NoBundle})
  /\ a \in {"accept", "build"} => requested[i] < MaxGen
  /\ req' = [req EXCEPT ![o] = [act |-> a, issue |-> i, bundle |-> b,
                                regressed |-> EffectiveState(i) = "regressed"]]
  /\ UNCHANGED <<lifecycle, intent, building, greens, pacing, queue, crashes, faults, history>>

Requested(o, a) == req[o] # NoReq /\ req[o].act = a

Done(o) == req' = [req EXCEPT ![o] = NoReq]

(***************************************************************************)
(* The commit half: one write transaction per request, on the row as it is *)
(* then.  Nothing but Accept looks at the state again.                     *)
(***************************************************************************)
Nominable(r) ==
  {"unresolved", "resolving"} \cup (IF r.regressed THEN {"resolved"} ELSE {})

Accept(o) ==
  /\ Requested(o, "accept") /\ Done(o)
  /\ LET i == req[o].issue IN
       IF state[i] \in Nominable(req[o])
       THEN /\ state' = [state EXCEPT ![i] = "resolving"]
            /\ delivery' = [delivery EXCEPT ![i] = req[o].bundle]
            /\ requested' = [requested EXCEPT ![i] = @ + 1]
            /\ fresh' = [fresh EXCEPT ![i] = IF state[i] = "resolving" THEN @ ELSE 0]
            /\ withdrawn' = withdrawn \ {i}
       ELSE UNCHANGED <<state, delivery, requested, fresh, withdrawn>>
  /\ UNCHANGED <<confirmed, building, greens, pacing, resolvedAt, past, queue, crashes,
                 faults, run>>

Mute(o) ==
  /\ Requested(o, "mute") /\ Done(o)
  /\ state' = [state EXCEPT ![req[o].issue] = "muted"]
  /\ UNCHANGED <<delivery, resolvedAt, past, intent, building, greens, pacing, queue,
                 crashes, faults, history>>

\* resolved_at alone says where a muted issue goes back to.
Unmute(o) ==
  /\ Requested(o, "unmute") /\ Done(o)
  /\ LET i == req[o].issue IN
       state' = [state EXCEPT ![i] = IF resolvedAt[i] THEN "resolved" ELSE "unresolved"]
  /\ UNCHANGED <<delivery, resolvedAt, past, intent, building, greens, pacing, queue,
                 crashes, faults, history>>

\* The row becomes resolved and the newest build its known-good boundary.
MarkResolved(i) ==
  /\ state' = [state EXCEPT ![i] = "resolved"]
  /\ resolvedAt' = [resolvedAt EXCEPT ![i] = TRUE]
  /\ past' = [past EXCEPT ![i] = FALSE]
  /\ UNCHANGED delivery

MarkUnresolved(i) ==
  /\ state' = [state EXCEPT ![i] = "unresolved"]
  /\ resolvedAt' = [resolvedAt EXCEPT ![i] = FALSE]
  /\ delivery' = [delivery EXCEPT ![i] = NoBundle]
  /\ UNCHANGED past

Resolve(o) ==
  /\ Requested(o, "resolve") /\ Done(o)
  /\ MarkResolved(req[o].issue)
  /\ UNCHANGED <<intent, building, greens, pacing, queue, crashes, faults, history>>

Reopen(o) ==
  /\ Requested(o, "reopen") /\ Done(o)
  /\ MarkUnresolved(req[o].issue)
  /\ UNCHANGED <<intent, building, greens, pacing, queue, crashes, faults, history>>

RequestBuild(o) ==
  /\ Requested(o, "build") /\ Done(o)
  /\ requested' = [requested EXCEPT ![req[o].issue] = @ + 1]
  /\ withdrawn' = withdrawn \ {req[o].issue}
  /\ UNCHANGED <<lifecycle, confirmed, building, greens, pacing, queue, crashes, faults,
                 run, fresh>>

CancelBuild(o) ==
  /\ Requested(o, "cancel-build") /\ Done(o)
  /\ LET i == req[o].issue IN
       /\ requested' = [requested EXCEPT ![i] = confirmed[i]]
       /\ building' = [building EXCEPT ![i] = 0]
       /\ withdrawn' = IF pc = "build" /\ job.issue = i THEN {i} ELSE withdrawn
  /\ UNCHANGED <<lifecycle, confirmed, greens, pacing, queue, crashes, faults, run, fresh>>

Commit(o) ==
  \/ Accept(o) \/ Mute(o) \/ Unmute(o) \/ Resolve(o) \/ Reopen(o)
  \/ RequestBuild(o) \/ CancelBuild(o)

\* A merge was observed: it closes the issue unless a confirm build owns it.
Merge(i) ==
  /\ state[i] \notin {"resolved", "resolving"}
  /\ MarkResolved(i)
  /\ UNCHANGED <<intent, building, greens, pacing, queue, req, crashes, faults, history>>

\* A farm build after the boundary emits the fingerprint again.
Recur(i) ==
  /\ resolvedAt[i] /\ ~past[i]
  /\ past' = [past EXCEPT ![i] = TRUE]
  /\ UNCHANGED <<state, delivery, resolvedAt, intent, building, greens, pacing, queue, req,
                 crashes, faults, history>>

\* next_eligible_at is reached.
Elapse(i) ==
  /\ waiting[i]
  /\ waiting' = [waiting EXCEPT ![i] = FALSE]
  /\ UNCHANGED <<lifecycle, intent, building, greens, failures, queue, req, crashes, faults,
                 history>>

(***************************************************************************)
(* The runner.  Start: take the lock, reap orphaned rows, move inflight/   *)
(* leftovers to failed/.  Recovery then drops the queued confirm jobs one  *)
(* file at a time and clears every marker in one transaction.              *)
(***************************************************************************)
DbFault == faults < MaxDbFaults /\ faults' = faults + 1

Start ==
  /\ pc = "down" /\ pc' = "recover"
  /\ UNCHANGED <<lifecycle, intent, building, greens, pacing, pending, scan, job, req,
                 crashes, faults, history>>

DiscardQueued ==
  /\ pc = "recover" /\ pending # <<>>
  /\ pending' = Tail(pending)
  /\ UNCHANGED <<lifecycle, intent, building, greens, pacing, pc, scan, job, req, crashes,
                 faults, history>>

\* Mutant: recovery drops the queued jobs and forgets the markers.
ClearMarkersForgotten ==
  /\ pc = "recover" /\ pending = <<>> /\ pc' = "top"
  /\ UNCHANGED <<lifecycle, intent, building, greens, pacing, pending, scan, job, req, crashes,
                 faults, history>>

ClearMarkers ==
  /\ pc = "recover" /\ pending = <<>> /\ pc' = "top"
  /\ \/ building' = [i \in Issues |-> 0] /\ UNCHANGED faults
     \/ DbFault /\ UNCHANGED building
  /\ UNCHANGED <<lifecycle, intent, greens, pacing, pending, scan, job, req, crashes, history>>

\* The feed: level-triggered, so a lost enqueue or a restart re-derives it.
NeedsBuild(i) ==
  /\ state[i] = "resolving"
  /\ requested[i] > confirmed[i]
  /\ building[i] < requested[i]
  /\ ~waiting[i]

ReadFeed ==
  /\ pc = "top" /\ pc' = "scan"
  /\ scan' = {[issue |-> i, bundle |-> delivery[i], gen |-> requested[i]] :
              i \in {k \in Issues : NeedsBuild(k)}}
  /\ UNCHANGED <<lifecycle, intent, building, greens, pacing, pending, job, req, crashes,
                 faults, history>>

\* Nothing to deliver, its build line is held, or the claim did not succeed.
SkipRow(r) ==
  /\ pc = "scan" /\ r \in scan
  /\ scan' = scan \ {r}
  /\ UNCHANGED <<lifecycle, intent, building, greens, pacing, pending, pc, job, req, crashes,
                 faults, history>>

\* The single-flight claim: the intent has not moved, nothing newer in flight.
Claimable(i, g) == requested[i] = g /\ building[i] < g

ClaimBuild(r) ==
  /\ pc = "scan" /\ r \in scan /\ r.bundle # NoBundle
  /\ Claimable(r.issue, r.gen)
  /\ building' = [building EXCEPT ![r.issue] = r.gen]
  /\ scan' = scan \ {r} /\ job' = r /\ pc' = "enqueue"
  /\ UNCHANGED <<lifecycle, intent, greens, pacing, pending, req, crashes, faults, history>>

Enqueue ==
  /\ pc = "enqueue"
  /\ pending' = Append(pending, job) /\ job' = NoJob /\ pc' = "scan"
  /\ UNCHANGED <<lifecycle, intent, building, greens, pacing, scan, req, crashes, faults,
                 history>>

ScanDone ==
  /\ pc = "scan" /\ scan = {} /\ pc' = "claim"
  /\ UNCHANGED <<lifecycle, intent, building, greens, pacing, pending, scan, job, req, crashes,
                 faults, history>>

\* Jobs of one issue leave pending/ in order; a held build line lets the
\* jobs of another overtake.
StartBuild(k) ==
  /\ pc = "claim" /\ k \in 1..Len(pending)
  /\ \A j \in 1..(k - 1) : pending[j].issue # pending[k].issue
  /\ job' = pending[k] /\ pending' = RemoveAt(pending, k) /\ pc' = "build"
  /\ UNCHANGED <<lifecycle, intent, building, greens, pacing, scan, req, crashes, faults,
                 history>>

\* Nothing claimable, or another type of job goes first.
OtherWork ==
  /\ pc = "claim" /\ Len(pending) < MaxPending /\ pc' = "top"
  /\ UNCHANGED <<lifecycle, intent, building, greens, pacing, pending, scan, job, req, crashes,
                 faults, history>>

\* The enqueue or the build machinery raised: no verdict was produced.
Raise ==
  /\ \/ pc = "enqueue" /\ pc' = "noenqueue"
     \/ pc = "build" /\ pc' = "nobuild"
  /\ UNCHANGED <<lifecycle, intent, building, greens, pacing, pending, scan, job, req, crashes,
                 faults, history>>

\* The verdict transaction failed; the caller treats it as a raise.
VerdictLost ==
  /\ pc = "build" /\ pc' = "nobuild" /\ DbFault
  /\ UNCHANGED <<lifecycle, intent, building, greens, pacing, pending, scan, job, req, crashes,
                 history>>

\* Mutant: the marker stays set, as it did before the retry was bounded.
CountFailureParked(i) ==
  /\ UNCHANGED <<building, lifecycle>>
  /\ failures' = [failures EXCEPT ![i] = IF @ + 1 >= MaxFailures THEN 0 ELSE @ + 1]
  /\ waiting' = [waiting EXCEPT ![i] = failures[i] + 1 < MaxFailures]

CountFailure(i) ==
  /\ building' = [building EXCEPT ![i] = 0]
  /\ IF failures[i] + 1 >= MaxFailures
     THEN /\ failures' = [failures EXCEPT ![i] = 0]
          /\ waiting' = [waiting EXCEPT ![i] = FALSE]
          /\ IF state[i] = "resolving" THEN MarkUnresolved(i) ELSE UNCHANGED lifecycle
     ELSE /\ failures' = [failures EXCEPT ![i] = @ + 1]
          /\ waiting' = [waiting EXCEPT ![i] = TRUE]
          /\ UNCHANGED lifecycle

RecordFailure ==
  /\ pc \in {"noenqueue", "nobuild"}
  /\ \/ CountFailure(job.issue) /\ UNCHANGED faults
     \/ DbFault /\ UNCHANGED <<building, pacing, lifecycle>>
  /\ pc' = IF pc = "noenqueue" THEN "scan" ELSE "top"
  /\ job' = NoJob /\ withdrawn' = {}
  /\ UNCHANGED <<intent, greens, pending, scan, req, crashes, run, fresh>>

(***************************************************************************)
(* The verdict, in one transaction.                                        *)
(***************************************************************************)
BuildEnds == pc = "build" /\ pc' = "top" /\ job' = NoJob /\ withdrawn' = {}

\* Superseded: the generation is not newer than what is confirmed.
StaleVerdict ==
  /\ BuildEnds /\ job.gen <= confirmed[job.issue]
  /\ UNCHANGED <<lifecycle, intent, building, greens, pacing, pending, scan, req, crashes,
                 faults, run, fresh>>

\* Mutant: no guard against a verdict that is no longer ahead.
LandUnguarded(i, g) ==
  /\ confirmed' = [confirmed EXCEPT ![i] = g]
  /\ building' = [building EXCEPT ![i] = IF @ > g THEN @ ELSE 0]
  /\ failures' = [failures EXCEPT ![i] = 0]
  /\ waiting' = [waiting EXCEPT ![i] = FALSE]

\* What every recorded verdict does, whatever its colour.
Land(i, g) ==
  /\ g > confirmed[i]
  /\ confirmed' = [confirmed EXCEPT ![i] = g]
  /\ building' = [building EXCEPT ![i] = IF @ > g THEN @ ELSE 0]
  /\ failures' = [failures EXCEPT ![i] = 0]
  /\ waiting' = [waiting EXCEPT ![i] = FALSE]

AtMost(n) == IF n > Threshold THEN Threshold ELSE n

GreenSeen(i) ==
  /\ run' = [run EXCEPT ![i] = AtMost(@ + 1)]
  /\ fresh' = [fresh EXCEPT ![i] = AtMost(@ + 1)]

\* Below the threshold: count it and ask for another, independent build.
ProvisionalGreen ==
  /\ BuildEnds
  /\ LET i == job.issue IN
       /\ Land(i, job.gen) /\ GreenSeen(i)
       /\ greens[i] + 1 < Threshold
       /\ greens' = [greens EXCEPT ![i] = @ + 1]
       /\ requested' = [requested EXCEPT ![i] = IF state[i] = "resolving" THEN @ + 1 ELSE @]
  /\ UNCHANGED <<lifecycle, pending, scan, req, crashes, faults>>

\* Mutant: the oracle resolves whatever state the issue was moved to.
ResolveAnyState(i) == MarkResolved(i)

ResolveConfirmed(i) ==
  IF state[i] = "resolving" THEN MarkResolved(i) ELSE UNCHANGED lifecycle

ReopenFailed(i) ==
  IF state[i] = "resolving" THEN MarkUnresolved(i) ELSE UNCHANGED lifecycle

\* Mutant: the tally is reset only when the issue resolved.
ConfirmingGreenLeaks ==
  /\ BuildEnds
  /\ LET i == job.issue IN
       /\ Land(i, job.gen) /\ GreenSeen(i)
       /\ greens[i] + 1 >= Threshold
       /\ greens' = [greens EXCEPT ![i] = IF state[i] = "resolving" THEN 0 ELSE @ + 1]
       /\ ResolveConfirmed(i)
  /\ UNCHANGED <<requested, pending, scan, req, crashes, faults>>

\* The tally is reset whether or not the guard let the transition through.
ConfirmingGreen ==
  /\ BuildEnds
  /\ LET i == job.issue IN
       /\ Land(i, job.gen) /\ GreenSeen(i)
       /\ greens[i] + 1 >= Threshold
       /\ greens' = [greens EXCEPT ![i] = 0]
       /\ ResolveConfirmed(i)
  /\ UNCHANGED <<requested, pending, scan, req, crashes, faults>>

Red ==
  /\ BuildEnds
  /\ LET i == job.issue IN
       /\ Land(i, job.gen)
       /\ greens' = [greens EXCEPT ![i] = 0]
       /\ run' = [run EXCEPT ![i] = 0] /\ UNCHANGED fresh
       /\ ReopenFailed(i)
  /\ UNCHANGED <<requested, pending, scan, req, crashes, faults>>

Crash ==
  /\ pc # "down" /\ crashes < MaxCrashes
  /\ crashes' = crashes + 1
  /\ pc' = "down" /\ scan' = {} /\ job' = NoJob /\ withdrawn' = {}
  /\ UNCHANGED <<lifecycle, intent, building, greens, pacing, pending, req, faults, run, fresh>>

Runner ==
  \/ Start \/ DiscardQueued \/ ClearMarkers \/ ReadFeed \/ Enqueue \/ ScanDone
  \/ (\E r \in scan : SkipRow(r) \/ ClaimBuild(r))
  \/ (\E k \in 1..Len(pending) : StartBuild(k))
  \/ OtherWork \/ Raise \/ VerdictLost \/ RecordFailure
  \/ StaleVerdict \/ ProvisionalGreen \/ ConfirmingGreen \/ Red

Tracker ==
  \/ \E o \in Operators, i \in Issues, a \in Action, b \in Bundles \cup {NoBundle} :
       OpenRequest(o, i, a, b)
  \/ \E o \in Operators : Commit(o)

World == \E i \in Issues : Merge(i) \/ Recur(i) \/ Elapse(i)

Next == Runner \/ Tracker \/ World \/ Crash

Spec == Init /\ [][Next]_vars

(***************************************************************************)
(* The runner keeps taking steps and is started again after a crash; a     *)
(* build line is not held forever, nor does other work always go first;    *)
(* time passes.  Nothing is assumed of the operators.                      *)
(***************************************************************************)
Fairness ==
  /\ WF_vars(Runner)
  /\ \A i \in Issues :
       /\ WF_vars(Elapse(i))
       /\ SF_vars(\E r \in scan : r.issue = i /\ ClaimBuild(r))
       /\ SF_vars(\E k \in 1..Len(pending) : pending[k].issue = i /\ StartBuild(k))

LiveSpec == Spec /\ Fairness

(***************************************************************************)
(* Properties.                                                             *)
(***************************************************************************)

\* Every column keeps its type, and both tallies stay short of the bound that
\* resets them: a green tally parked at the threshold would let a later accept
\* resolve on its first green.
TypeOK ==
  /\ state \in [Issues -> IssueState]
  /\ delivery \in [Issues -> Bundles \cup {NoBundle}]
  /\ requested \in [Issues -> Nat] /\ confirmed \in [Issues -> Nat]
  /\ building \in [Issues -> Nat]
  /\ greens \in [Issues -> 0..(Threshold - 1)]
  /\ failures \in [Issues -> 0..(MaxFailures - 1)]
  /\ waiting \in [Issues -> BOOLEAN]
  /\ resolvedAt \in [Issues -> BOOLEAN] /\ past \in [Issues -> BOOLEAN]
  /\ pending \in Seq(Job) /\ pc \in Location
  /\ scan \subseteq Row /\ job \in Job \cup {NoJob}
  /\ req \in [Operators -> Request \cup {NoReq}]
  /\ crashes \in 0..MaxCrashes /\ faults \in 0..MaxDbFaults
  /\ run \in [Issues -> 0..Threshold] /\ fresh \in [Issues -> 0..Threshold]
  /\ withdrawn \subseteq Issues

\* The whole loop, with its markers, retries, crashes and racing operators, does
\* no more to an issue than the lifecycle promises: a build settles an issue
\* only from resolving, resolves it only on Threshold greens in a row, and an
\* accept never wakes a muted issue.
Lifecycle == INSTANCE IssueLifecycle WITH streak <- run
RefinesLifecycle == Lifecycle!Spec

\* The confirmed generation never walks backwards, whatever the order in which
\* the jobs of cancelled and re-requested builds finish: the feed would rebuild
\* generations it already has a verdict for.
ConfirmedMonotone == [][\A i \in Issues : confirmed'[i] >= confirmed[i]]_vars

Jobs(i) ==
  {pending[k] : k \in {n \in 1..Len(pending) : pending[n].issue = i}}
    \cup (IF job # NoJob /\ job.issue = i THEN {job} ELSE {})

\* A set marker stands for a verdict still to come: it is ahead of what is
\* confirmed and, once recovery is over and unless a write to the database was
\* lost, a job of its generation is queued or in the runner's hands.  A marker
\* without a job would park the issue, because the feed skips it.
MarkerHasBuild ==
  \A i \in Issues : building[i] # 0 =>
    /\ building[i] > confirmed[i]
    /\ pc \notin {"down", "recover"} /\ faults = 0
         => \E j \in Jobs(i) : j.gen = building[i]

\* An issue that waits for its confirm build has something to build and a
\* request the feed can see.  It is what resolve_issue_for_bundle relies on when
\* it leaves a merged issue to the build.  Only for configurations in which no
\* operator cancels a build: cancelling takes the request away on purpose.
ResolvingIsBuildable ==
  \A i \in Issues : state[i] = "resolving" =>
    delivery[i] # NoBundle /\ requested[i] > confirmed[i]

\* An accepted fix whose build is asked for is settled: builds that cannot run
\* use up their retry budget, a crash re-derives the work, a marker left behind
\* is cleared, and the issue leaves resolving, unless an operator cancels the
\* build or the write of a verdict is lost.
AskedBuildIsSettled ==
  \A i \in Issues :
    state[i] = "resolving" /\ requested[i] > confirmed[i]
      ~> state[i] # "resolving" \/ requested[i] <= confirmed[i] \/ faults > 0

(***************************************************************************)
(* Stated by the repository's comments and tests, and refuted by the code. *)
(***************************************************************************)

\* cancel_confirm_build: the verdict of a build that was running when it was
\* cancelled is ignored when it lands.
CancelledVerdictIgnored ==
  [][withdrawn # {} => UNCHANGED <<confirmed, greens>>]_vars

\* resolve_issue_build_confirmed: resolved means that the fix was built.  So a
\* verdict that settles an issue is about the fix accepted for it.
OnlyDeliveredFixSettles ==
  [][\A i \in Issues :
       state[i] = "resolving" /\ state'[i] # "resolving" /\ confirmed'[i] # confirmed[i]
         => job.bundle = delivery[i]]_vars

\* _record_confirm_verdict: once an issue left resolving, its streak is void; a
\* later accept does not resolve on greens from before it.
FreshAcceptNeedsAllGreens ==
  [][\A i \in Issues :
       state[i] = "resolving" /\ state'[i] = "resolved" /\ confirmed'[i] # confirmed[i]
         => fresh'[i] = Threshold]_vars

\* _claim_issue_build: no two passes both claim a generation, so that one
\* request never has two jobs in the queue.
SingleFlight ==
  \A m, n \in 1..Len(pending) :
    m # n => pending[m].issue # pending[n].issue \/ pending[m].gen # pending[n].gen
===============================================================================

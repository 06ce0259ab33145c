------------------------------- MODULE JobQueue -------------------------------
(***************************************************************************)
(* The runner's job queue.  A job is a file that moves between pending/,   *)
(* inflight/, done/ and failed/, and a row of the jobs table that follows  *)
(* the lifecycle state machine.  The file decides what runs; the row is a  *)
(* read model, written best-effort by the runner, by the dsynth hooks and  *)
(* by operators.  Only triage jobs whose file the runner cannot see are    *)
(* claimed through the row.                                                *)
(*                                                                         *)
(* The runner is one thread.  Each phase of its work is a sequence of      *)
(* steps, each a rename, a write of a job file or one transaction; hooks,  *)
(* operators and crashes come between any two of them.                     *)
(*                                                                         *)
(* Confirm jobs are in ConfirmLoop.  A job id is the name of its file and  *)
(* is used once; a file is known by the directory of its newest copy.      *)
(* There is an env for every build line, so no row is held back for one.   *)
(***************************************************************************)
EXTENDS Integers, SequencesExt

CONSTANTS
  Jobs,        \* job ids, the name of the job file
  Kind,        \* the type of each job
  Group,       \* its (profile, origin, flavor)
  Remote,      \* triage jobs whose hook writes the file where the runner cannot see it
  MaxRetry,    \* runner.llm_retry_max, at least 1
  SlowTail,    \* whether a backoff may run out while its job is still in hand
  MaxCrashes,  \* bound: runner crashes
  MaxDbFaults  \* bound: transitions lost because state.db could not be written

ASSUME JobQueueAssumption ==
  /\ IsFiniteSet(Jobs)
  /\ Kind \in [Jobs -> {"triage", "patch", "verify"}]
  /\ Remote \subseteq {j \in Jobs : Kind[j] = "triage"}
  /\ MaxRetry \in Nat \ {0} /\ SlowTail \in BOOLEAN
  /\ MaxCrashes \in Nat /\ MaxDbFaults \in Nat

VARIABLES
  file,     \* the directory the job file is in
  row,      \* the state of the newest job_events row
  tally,    \* retry_count in the job file
  held,     \* retry_after in the job file lies in the future
  hook,     \* how far the dsynth hook of a triage job got
  pc,       \* the phase the runner is in
  batch,    \* the claimed jobs, the lead first
  todo,     \* the steps left in this phase
  success,  \* what the job's step returned
  crashes, faults

jobfile == <<file, tally, held>>
runner == <<pc, batch, todo, success>>
vars == <<jobfile, row, hook, runner, crashes, faults>>

(***************************************************************************)
(* The lifecycle: each event leads to one state, from several.             *)
(***************************************************************************)
\* The states of _INFLIGHT_STATES but "confirming".
InFlight == {"claimed", "triaging", "triaged", "patching", "verifying", "verifying_fix"}
Terminal == {"done", "escalated", "dead"}
RowState == {"none", "queued"} \cup InFlight \cup Terminal

From(S, s) == [from |-> S, to |-> s]

Transition ==
  [HOOK_ENQUEUED        |-> From({"none"}, "queued"),
   CLAIM                |-> From({"queued"}, "claimed"),
   TRIAGE_START         |-> From({"claimed"}, "triaging"),
   TRIAGE_OK            |-> From({"triaging"}, "triaged"),
   TRIAGE_HANDOFF       |-> From({"triaged"}, "done"),
   TRIAGE_FAIL          |-> From({"triaging"}, "dead"),
   PATCH_START          |-> From({"claimed", "triaged"}, "patching"),
   PATCH_OK             |-> From({"patching"}, "verifying"),
   PATCH_GAVE_UP        |-> From({"patching"}, "dead"),
   PATCH_BUDGET_OUT     |-> From({"patching"}, "dead"),
   VERIFY_OK            |-> From({"verifying"}, "done"),
   ESCALATE_MANUAL      |-> From({"triaged", "patching"}, "escalated"),
   VERIFY_FIX_START     |-> From({"claimed"}, "verifying_fix"),
   VERIFY_FIX_OK        |-> From({"verifying_fix"}, "done"),
   VERIFY_FIX_GAVE_UP   |-> From({"verifying_fix"}, "dead"),
   PROVIDER_UNAVAILABLE |-> From({"claimed", "triaging", "patching"}, "queued"),
   ENV_BROKEN           |-> From(InFlight, "dead"),
   ENV_TARGET_MISMATCH  |-> From({"triaging", "patching"}, "dead"),
   WORKTREE_UNAVAILABLE |-> From({"claimed", "triaged", "patching"}, "dead"),
   SKIP_ORIGIN_LOCKED   |-> From({"queued", "claimed", "triaging", "triaged", "patching"}, "dead"),
   SKIP_ISSUE_MUTED     |-> From({"queued", "claimed", "triaging", "triaged", "patching"}, "dead"),
   REAP_ORPHAN          |-> From({"queued"} \cup InFlight, "dead"),
   ABANDON              |-> From({"queued"} \cup InFlight, "dead")]

Event == DOMAIN Transition

\* An illegal transition is a warning: the row stays and the job goes on.
After(s, e) == IF s \in Transition[e].from THEN Transition[e].to ELSE s

(***************************************************************************)
(* A step names a job and what the runner does to it.                      *)
(***************************************************************************)
Directory == {"none", "pending", "inflight", "done", "failed"}

Step(o, a) == [op |-> o, arg |-> a]

Fire(e) == Step("fire", e)           \* _apply_transition
Reap == Step("reap", "REAP_ORPHAN")  \* one row of reap_orphans
ReapStale == Step("stale", "REAP_ORPHAN")  \* one row of reap_stale_queued
Move(d) == Step("move", d)           \* move_job, or the renaming claim
Create(d) == Step("create", d)       \* a job file is written
Count == Step("count", "retry")      \* record_transient_failure
DbClaim == Step("dbclaim", "CLAIM")  \* CLAIM as the mutex

For(j, steps) == [n \in 1..Len(steps) |-> [job |-> j, do |-> steps[n]]]
Each(S, step) == LET q == SetToSeq(S) IN [n \in 1..Len(q) |-> [job |-> q[n], do |-> step]]

\* Every job of b in turn is taken through the whole plan.
Rounds(b, plan) ==
  [n \in 1..(Len(b) * Len(plan)) |->
     [job |-> b[((n - 1) \div Len(plan)) + 1], do |-> plan[((n - 1) % Len(plan)) + 1]]]

Fires(events) == [n \in 1..Len(events) |-> Fire(events[n])]

Doing ==
  [op : {"fire", "reap", "stale", "dbclaim"}, arg : Event]
    \cup [op : {"move", "create"}, arg : Directory] \cup [op : {"count"}, arg : {"retry"}]
Task == [job : Jobs, do : Doing]

Phase == {"down", "recover", "idle", "enqueue", "claim", "start", "report", "retire"}

Init ==
  /\ file = [j \in Jobs |-> "none"] /\ row = [j \in Jobs |-> "none"]
  /\ tally = [j \in Jobs |-> 0] /\ held = [j \in Jobs |-> FALSE]
  /\ hook = [j \in Jobs |-> "idle"]
  /\ pc = "down" /\ batch = <<>> /\ todo = <<>> /\ success = FALSE
  /\ crashes = 0 /\ faults = 0

InBatch(j) == \E n \in 1..Len(batch) : batch[n] = j

\* A job file as every enqueue writes it: no retries, no backoff.
WriteFile(j, d) ==
  /\ file' = [file EXCEPT ![j] = d]
  /\ tally' = [tally EXCEPT ![j] = 0]
  /\ held' = [held EXCEPT ![j] = FALSE]

(***************************************************************************)
(* The dsynth hook of a failed build: the file first, then the row, over   *)
(* HTTP and best-effort.                                                   *)
(***************************************************************************)
HookWrites(j) ==
  /\ Kind[j] = "triage" /\ j \notin Remote /\ hook[j] = "idle"
  /\ WriteFile(j, "pending")
  /\ hook' = [hook EXCEPT ![j] = "posting"]
  /\ UNCHANGED <<row, runner, crashes, faults>>

HookPosts(j) ==
  /\ hook[j] = "posting" \/ (j \in Remote /\ hook[j] = "idle")
  /\ row' = [row EXCEPT ![j] = After(@, "HOOK_ENQUEUED")]
  /\ hook' = [hook EXCEPT ![j] = "posted"]
  /\ UNCHANGED <<jobfile, runner, crashes, faults>>

HookPostLost(j) ==
  /\ hook[j] = "posting" /\ faults < MaxDbFaults /\ faults' = faults + 1
  /\ hook' = [hook EXCEPT ![j] = "posted"]
  /\ UNCHANGED <<jobfile, row, runner, crashes>>

\* The operator retires the row; the job file is not looked at.
Abandon(j) ==
  /\ row[j] \in Transition["ABANDON"].from
  /\ row' = [row EXCEPT ![j] = After(@, "ABANDON")]
  /\ UNCHANGED <<jobfile, hook, runner, crashes, faults>>

\* retry_after is reached.
Elapse(j) ==
  /\ held[j] /\ (SlowTail \/ ~InBatch(j))
  /\ held' = [held EXCEPT ![j] = FALSE]
  /\ UNCHANGED <<file, tally, row, hook, runner, crashes, faults>>

(***************************************************************************)
(* The runner.  Start: reap the orphaned rows, sweep inflight/ to failed/, *)
(* then reap the old queued rows that have no file in pending/ and that no *)
(* claim can take.  Whether a row is old enough is open.                   *)
(***************************************************************************)
Orphans == {j \in Jobs : row[j] \in InFlight}
Stranded == {j \in Jobs : file[j] = "inflight"}
Stale == {j \in Jobs : row[j] = "queued" /\ file[j] # "pending" /\ Kind[j] # "triage"}

Start ==
  /\ pc = "down" /\ pc' = "recover"
  /\ \E old \in SUBSET Stale :
       todo' = Each(Orphans, Reap) \o Each(Stranded, Move("failed")) \o Each(old, ReapStale)
  /\ UNCHANGED <<jobfile, row, hook, batch, success, crashes, faults>>

\* A verify request or a retry with user context becomes a job.
Request(j) ==
  /\ pc = "idle" /\ pc' = "enqueue"
  /\ Kind[j] \in {"verify", "triage"} /\ j \notin Remote
  /\ file[j] = "none" /\ hook[j] = "idle"
  /\ hook' = [hook EXCEPT ![j] = "posted"]
  /\ todo' = For(j, <<Create("pending"), Fire("HOOK_ENQUEUED")>>)
  /\ UNCHANGED <<jobfile, row, batch, success, crashes, faults>>

Sibling(k, j) == k # j /\ Kind[k] = Kind[j] /\ Kind[j] # "verify" /\ Group[k] = Group[j]

Ready(j) == file[j] = "pending" /\ ~held[j]

ClaimFile(j) ==
  /\ pc = "idle" /\ pc' = "claim" /\ Ready(j)
  /\ batch' = <<j>> \o SetToSeq({k \in Jobs : Sibling(k, j) /\ Ready(k)})
  /\ todo' = Rounds(batch', <<Move("inflight"), Fire("CLAIM")>>)
  /\ UNCHANGED <<jobfile, row, hook, success, crashes, faults>>

\* Mutant: the file is looked for in every directory of the queue.
UnseenAnywhere(j) == row[j] = "queued" /\ Kind[j] = "triage" /\ file[j] = "none"

\* Queued in the database, and no file where the runner looks for one.
Unseen(j) ==
  row[j] = "queued" /\ Kind[j] = "triage" /\ file[j] \notin {"pending", "inflight"}

ClaimRow(j) ==
  /\ pc = "idle" /\ pc' = "claim"
  /\ \A k \in Jobs : ~Ready(k)
  /\ Unseen(j)
  /\ row' = [row EXCEPT ![j] = After(@, "CLAIM")]
  /\ batch' = <<j>>
  /\ todo' = For(j, <<Create("inflight")>>)
             \o Each({k \in Jobs : Sibling(k, j) /\ Unseen(k)}, DbClaim)
  /\ UNCHANGED <<jobfile, hook, success, crashes, faults>>

(***************************************************************************)
(* One step of a phase.                                                    *)
(***************************************************************************)
Next1 == Head(todo).job
Does(op) == todo # <<>> /\ Head(todo).do.op = op
Pops == todo' = Tail(todo) /\ UNCHANGED <<pc, hook, success, crashes>>

Transit ==
  /\ Does("fire") \/ Does("reap") \/ Does("stale")
  /\ Pops
  /\ row' = [row EXCEPT ![Next1] = After(@, Head(todo).do.arg)]
  /\ UNCHANGED <<jobfile, batch, faults>>

\* state.db could not be written: _apply_transition goes on without it, while
\* a reap gives up on the rows it has left, the steps before the n-th.
TransitLost ==
  /\ faults < MaxDbFaults /\ faults' = faults + 1
  /\ \/ Does("fire") /\ todo' = Tail(todo)
     \/ /\ Does("reap") \/ Does("stale")
        /\ \E n \in 2..(Len(todo) + 1) :
             /\ \A k \in 1..(n - 1) : todo[k].do = Head(todo).do
             /\ n <= Len(todo) => todo[n].do # Head(todo).do
             /\ todo' = SubSeq(todo, n, Len(todo))
  /\ UNCHANGED <<jobfile, row, hook, pc, batch, success, crashes>>

MoveFile ==
  /\ Does("move") /\ Pops
  /\ file' = [file EXCEPT ![Next1] = Head(todo).do.arg]
  /\ UNCHANGED <<tally, held, row, batch, faults>>

CreateFile ==
  /\ Does("create") /\ Pops
  /\ WriteFile(Next1, Head(todo).do.arg)
  /\ UNCHANGED <<row, batch, faults>>

RetriesLeft(j) == tally[j] < MaxRetry

\* Mutant: the backoff is stamped, the attempt is not counted.
UncountedFailure(j) ==
  IF RetriesLeft(j)
  THEN held' = [held EXCEPT ![j] = TRUE] /\ UNCHANGED tally
  ELSE UNCHANGED <<tally, held>>

CountFailure(j) ==
  IF RetriesLeft(j)
  THEN /\ tally' = [tally EXCEPT ![j] = @ + 1]
       /\ held' = [held EXCEPT ![j] = TRUE]
  ELSE UNCHANGED <<tally, held>>

CountSibling ==
  /\ Does("count") /\ Pops
  /\ CountFailure(Next1)
  /\ UNCHANGED <<file, row, batch, faults>>

\* A sibling of a row claim joins the batch if its row is still queued.
ClaimSibling ==
  /\ Does("dbclaim")
  /\ IF row[Next1] = "queued"
     THEN /\ row' = [row EXCEPT ![Next1] = After(@, "CLAIM")]
          /\ batch' = Append(batch, Next1)
          /\ todo' = For(Next1, <<Create("inflight")>>) \o Tail(todo)
     ELSE UNCHANGED <<row, batch>> /\ todo' = Tail(todo)
  /\ UNCHANGED <<jobfile, hook, pc, success, crashes, faults>>

(***************************************************************************)
(* The job itself.  An outcome is the events it fires and whether its step *)
(* counts as a success; success decides where the files go.                *)
(***************************************************************************)
Lead == batch[1]

StartEvent(kind) ==
  CASE kind = "triage" -> "TRIAGE_START"
    [] kind = "patch" -> "PATCH_START"
    [] kind = "verify" -> "VERIFY_FIX_START"

Begin ==
  /\ pc = "claim" /\ todo = <<>> /\ pc' = "start"
  /\ todo' = Rounds(batch, Fires(<<StartEvent(Kind[Lead])>>))
  /\ UNCHANGED <<jobfile, row, hook, batch, success, crashes, faults>>

Outcome(events, ok) == [events |-> events, ok |-> ok]

Outcomes(kind) ==
  CASE kind = "triage" ->
         {Outcome(<<"SKIP_ORIGIN_LOCKED">>, TRUE), Outcome(<<"SKIP_ISSUE_MUTED">>, TRUE),
          Outcome(<<"ENV_TARGET_MISMATCH">>, FALSE), Outcome(<<"ENV_BROKEN">>, TRUE),
          Outcome(<<"TRIAGE_OK", "ESCALATE_MANUAL">>, TRUE),
          Outcome(<<"TRIAGE_FAIL">>, FALSE)}
    [] kind = "patch" ->
         {Outcome(<<"SKIP_ORIGIN_LOCKED">>, TRUE), Outcome(<<"SKIP_ISSUE_MUTED">>, TRUE),
          Outcome(<<"ENV_TARGET_MISMATCH">>, FALSE), Outcome(<<"ENV_BROKEN">>, TRUE),
          Outcome(<<"WORKTREE_UNAVAILABLE">>, FALSE), Outcome(<<"PATCH_OK", "VERIFY_OK">>, TRUE),
          Outcome(<<"ESCALATE_MANUAL">>, TRUE), Outcome(<<"PATCH_BUDGET_OUT">>, TRUE),
          Outcome(<<"PATCH_GAVE_UP">>, TRUE), Outcome(<<"PATCH_GAVE_UP">>, FALSE)}
    [] kind = "verify" ->
         {Outcome(<<"VERIFY_FIX_OK">>, TRUE), Outcome(<<"VERIFY_FIX_GAVE_UP">>, FALSE)}

Running(kinds) == pc = "start" /\ todo = <<>> /\ Kind[Lead] \in kinds

\* The lead's events are fired first, then each sibling's.
Reports(steps, o) ==
  /\ pc' = "report"
  /\ todo' = steps \o Rounds(batch, Fires(o.events))
  /\ success' = o.ok
  /\ UNCHANGED <<file, row, hook, batch, crashes, faults>>

Finish ==
  /\ Running({"triage", "patch", "verify"})
  /\ \E o \in Outcomes(Kind[Lead]) : Reports(<<>>, o)
  /\ UNCHANGED <<tally, held>>

\* Mutant: the waypoint event alone, as triage fired it before TRIAGE_HANDOFF.
LeftAtTriaged == Outcome(<<"TRIAGE_OK">>, TRUE)

HandedOff == Outcome(<<"TRIAGE_OK", "TRIAGE_HANDOFF">>, TRUE)

\* Triage enqueues the patch job p, of an id not yet used, before it reports.
Handoff(p) ==
  /\ Running({"triage"}) /\ Kind[p] = "patch"
  /\ Group[p] = Group[Lead] /\ file[p] = "none"
  /\ Reports(For(p, <<Create("pending"), Fire("HOOK_ENQUEUED")>>), HandedOff)
  /\ UNCHANGED <<tally, held>>

\* The model provider failed: the lead is counted, and requeued if it has
\* retries left.
ProviderFails ==
  /\ Running({"triage", "patch"})
  /\ Reports(<<>>, Outcome(<<IF RetriesLeft(Lead) THEN "PROVIDER_UNAVAILABLE"
                             ELSE IF Kind[Lead] = "triage" THEN "TRIAGE_FAIL"
                             ELSE "PATCH_GAVE_UP">>, FALSE))
  /\ CountFailure(Lead)

\* Mutant: the lead of a requeued batch is retired with the failed jobs.
RequeueFailed ==
  For(Lead, <<Move("failed")>>) \o Rounds(Tail(batch), <<Count, Move("pending")>>)

Requeue ==
  For(Lead, <<Move("pending")>>) \o Rounds(Tail(batch), <<Count, Move("pending")>>)

\* _job_was_requeued asks whether the lead's backoff is still running.
Retire ==
  /\ pc = "report" /\ todo = <<>> /\ pc' = "retire"
  /\ todo' = IF success THEN Rounds(batch, <<Move("done")>>)
             ELSE IF held[Lead] THEN Requeue
             ELSE Rounds(batch, <<Move("failed")>>)
  /\ UNCHANGED <<jobfile, row, hook, batch, success, crashes, faults>>

Idle ==
  /\ pc \in {"recover", "enqueue", "retire"} /\ todo = <<>> /\ pc' = "idle"
  /\ batch' = <<>> /\ success' = FALSE
  /\ UNCHANGED <<jobfile, row, hook, todo, crashes, faults>>

Crash ==
  /\ pc # "down" /\ crashes < MaxCrashes /\ crashes' = crashes + 1
  /\ pc' = "down" /\ batch' = <<>> /\ todo' = <<>> /\ success' = FALSE
  /\ UNCHANGED <<jobfile, row, hook, faults>>

Runner ==
  \/ Start \/ Transit \/ TransitLost \/ MoveFile \/ CreateFile \/ CountSibling \/ ClaimSibling
  \/ (\E j \in Jobs : ClaimFile(j) \/ ClaimRow(j) \/ Handoff(j))
  \/ Begin \/ Finish \/ ProviderFails \/ Retire \/ Idle

World ==
  \E j \in Jobs : HookWrites(j) \/ HookPosts(j) \/ HookPostLost(j) \/ Request(j)
                    \/ Abandon(j) \/ Elapse(j)

Next == Runner \/ World \/ Crash

Spec == Init /\ [][Next]_vars

\* The runner keeps taking steps and is started again after a crash; a hook
\* that wrote its file goes on to post; time passes.
Fairness ==
  /\ WF_vars(Runner)
  /\ \A j \in Jobs : WF_vars(Elapse(j)) /\ WF_vars(hook[j] = "posting" /\ HookPosts(j))

LiveSpec == Spec /\ Fairness

(***************************************************************************)
(* Properties.                                                             *)
(***************************************************************************)

\* Every variable keeps its type, and no job is counted past its retry budget,
\* however often it failed as a lead or as a sibling.
TypeOK ==
  /\ file \in [Jobs -> Directory] /\ row \in [Jobs -> RowState]
  /\ tally \in [Jobs -> 0..MaxRetry] /\ held \in [Jobs -> BOOLEAN]
  /\ hook \in [Jobs -> {"idle", "posting", "posted"}]
  /\ pc \in Phase /\ batch \in Seq(Jobs) /\ todo \in Seq(Task)
  /\ success \in BOOLEAN
  /\ crashes \in 0..MaxCrashes /\ faults \in 0..MaxDbFaults

\* A row in an in-flight state is a job the runner has in hand, or the orphan
\* of a crash that recovery is about to reap.  A triage that reports without
\* reaching a terminal state would look busy until the next restart.
InFlightIsHeld ==
  \A j \in Jobs : row[j] \in InFlight /\ faults = 0 => pc \in {"down", "recover"} \/ InBatch(j)

\* Unless the runner crashed or a transition was lost, a queued row is one that
\* some claim can take: its file is in pending/, or it is a triage that can be
\* claimed through the row.  A patch or verify job whose file is elsewhere
\* would be queued for ever and block its origin.
QueuedIsClaimable ==
  \A j \in Jobs : row[j] = "queued" /\ crashes = 0 /\ faults = 0 =>
    file[j] = "pending" \/ Kind[j] = "triage" \/ InBatch(j)

\* A job file in pending/ reaches done/ or failed/, whatever the provider, the
\* operator and the crashes do to it on the way.
JobSettles == \A j \in Jobs : file[j] = "pending" ~> file[j] \in {"done", "failed"}

\* A queued row reaches a terminal state, also when its file is one the runner
\* never saw.  A crash or a lost transition may leave it to the stale reap.
QueuedSettles ==
  \A j \in Jobs : row[j] = "queued" ~> row[j] \in Terminal \/ crashes > 0 \/ faults > 0

(***************************************************************************)
(* Stated by the repository's comments, and refuted by the code.           *)
(***************************************************************************)

\* _job_file_exists_locally: a failure whose hook writes both the file and the
\* row is processed once; a job that is done is not claimed again.
ProcessedOnce == [][\A j \in Jobs : file[j] = "done" => file'[j] = "done"]_vars
===============================================================================

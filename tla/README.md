# Polytropos in TLA+

Specifications of the parts of Polytropos whose correctness depends on the order
in which things happen, or on what an earlier step left behind. TLC checks small
instances; the TLA+ proof system checks the main results for every instance.

| Module | What it is |
|---|---|
| `IssueLifecycle` | what build-confirmed resolution promises, with no generations, markers, queues or crashes |
| `ConfirmLoop` | the loop as the tracker and the runner implement it; implements `IssueLifecycle` |
| `JobQueue` | the runner's file queue, the jobs table, the dsynth hooks and startup recovery |
| `Bundles` | the bundles of a port: operator actions, the skip lock, retries, verifications, verdicts of jobs |
| `BuildRun` | build runs of a target and the results builders post |
| `Delivery` | delivering an accepted fix: the clone, the branch, the forge, the rows and the polls |
| `AttemptLoop` | one job of the agent after another: attempts, turns, tools, budgets, masking, the read cache, the build |
| `Payload`, `Workspace` | which build line reads which payload file; the git worktrees in which jobs write and verify |
| `DevEnv` | one dev environment: mounts, sessions, create, rebase, destroy, cleanup-mounts |
| `ApplyEngine`, `Compose` | the ops of one overlay on one directory, and composing the ports tree of a build line with them |
| `ConfirmLoopProofs`, `JobQueueProofs`, `AttemptLoopProofs`, `BundlesProofs`, `DevEnvProofs`, `ComposeProofs`, `WorkspaceProofs` | theorems about the module of that name (section 11) |
| `TrackerProofs` | theorems about `BuildRun` and about `Delivery`, which share no state (section 11) |
| `MC...` | the constants of the instances TLC checks |

## 1. The system

Polytropos turns FreeBSD ports into DragonFly ports and repairs the builds that
break. A build farm runs dsynth in chroots; hooks report each failure to the
tracker (a FastAPI service over one SQLite file, `state.db`) and drop a job file in
a queue directory. One runner process takes jobs: it triages a failure, lets a model
patch the port in a git worktree, composes the ports tree inside a dev environment
and builds the result. A tracker page shows the outcome as a *bundle* grouped under an
*issue*; an operator accepts the fix, the runner builds it again to confirm it, and
the fix is delivered as a pull request or a local patch.

Shared state: `state.db` (runner, tracker, hooks over HTTP, operators), the queue
directories (runner, hooks), the dev-env directories (runner, builders, operators), the
overlay tree and the composed tree (runner, operators).

| Component | State | Operations | What makes it correct | Modelled |
|---|---|---|---|---|
| Confirm loop (`agent/runner.py`, `tracker/routes/issue_actions.py`) | the `issues` row; confirm job files | accept, mute, unmute, resolve, reopen, build, cancel; feed, claim, enqueue, build, verdict, failure, recovery | a marker stands for a build; verdicts are taken once and in order; an issue resolves on enough greens in a row; an accepted fix is settled | `ConfirmLoop` |
| Job queue and lifecycle (`agent/runner.py`, `lifecycle.py`, `step.py`, `steps.py`) | job files in four directories, retry tally and backoff, `job_events` | hook enqueue, claim by file or row, sibling batches, transitions, retry, retire, sweep, reap, abandon | a job is run, and settled, once; no row stays in flight or queued with nobody to take it; retries are bounded | `JobQueue` |
| Bundle actions (`tracker/routes/bundle_actions.py`) | `bundles` row, skip lock, `user_context`, `user_context_requests`, `verify_requests` | accept, reject, take over, discard, retry, release, reopen, verify | a stake is kept by its owner; a retry is taken, and once | `Bundles` |
| Issue projection and worklists | none | effective state, gates, buckets | an action is offered in the states that allow it | the gates, in `ConfirmLoop` and `Bundles` |
| Delivery and merge sync (`delivery/*`, `tracker/delivery_sync.py`) | `bundle_review_requests`, a clone, the forge | accept, deliver, lock, commit, push, open PR, record, poll, report | a branch carries one fix; an accepted fix is not lost; a merge is seen | `Delivery` (github) |
| Verify fix (`verify_fix.py`) | a throwaway worktree | replay a diff, build, report | the verdict is of the diff | `Workspace`, `Bundles`, `JobQueue` |
| Attempt and tool loop (`attempt_loop.py`, `tool_loop.py`, `steps.py`, `worker.py`) | attempt, tokens, transcript, read cache, compose tree, WRKDIR | attempt, turn, tool call, mask, stop, reset | ends within its budget; shows the model what it says it shows; builds what is in the tree | `AttemptLoop` |
| Worker tools (`worker.py`) | a job's worktree, its branch, captured diffs | put, edit, delete, install patches, snapshot, rescue, sweep | edits stay in the job's tree; other lines' files are kept; work is not lost | `Workspace`, `Payload`, `AttemptLoop` |
| Build runs (`tracker/db.py`, `dsynth-hooks/*`) | `build_runs`, `build_results`, `port_status` | start, supersede, record, finish | one active run per target; nobody reports into another's run | `BuildRun` |
| DSL engine (`engine/*`) | a port directory, a file transaction | lex, parse, check, plan, apply | each op sees what the earlier ones left; a failure leaves what the profile says | `ApplyEngine` |
| Compose (`compose*.py`) | the live tree, a scratch tree, `overlay.toml` marks | seed, preflight, apply, replace, finalize, reconcile | a run without error leaves what the inputs promise | `Compose` |
| Dev environments (`dev-env/dports_dev_env/*`) | state file, mounts, lock directories | create, session, rebase, destroy, cleanup-mounts | nobody works on a half-mounted or old world | `DevEnv` |
| Artifact store | blobs, events | put, link, emit | an artifact is stored once | the job transition, in `JobQueue` |
| Routing decision, environment selection and health, prompts and handoff texts, runner presence, schema, tracker pages, migration, settings and CLI | see `PROJECT.json` | | | no |

Hard behaviours: a gate and its commit are different transactions; the runner reads a
feed, claims and enqueues in separate steps; a verdict lands minutes after its build was
asked for; a job file and its row are written apart by different processes; two requests
share one clone and two polls one row; an agent's caches outlive what they cache; a
worktree holds the only copy of a fix when the runner dies; sessions mount an env while
it is rebased; an op's edits are buffered while patch(1) reads the disk. The `hazards` of
`PROJECT.json` list them line by line with the properties that would catch them.

## 2. ConfirmLoop

One variable per column of `issues` that the loop reads (`building = 0` is NULL), the
confirm jobs in `pending/`, and a program counter for the runner's single thread:

    down -> recover -> top -> scan (<-> enqueue) -> claim -> build -> top

| Actions | Code |
|---|---|
| `OpenRequest`, then `Accept`, `Mute`, `Unmute`, `Resolve`, `Reopen`, `RequestBuild`, `CancelBuild` | `_do` and the helpers of `issue_actions.py`: the gate first, the commit in a later transaction |
| `Merge` | `resolve_issue_for_bundle` in `delivery_sync.py` |
| `Recur`, `Elapse` | a farm build after the known-good boundary; `next_eligible_at` is reached |
| `Start`, `DiscardQueued`, `ClearMarkers` | `main` before its loop, `_reset_building_markers` |
| `ReadFeed`, `SkipRow`, `ClaimBuild`, `Enqueue`, `ScanDone` | `process_build_requests`, `issues_needing_build`, `_claim_issue_build`, `enqueue_confirm_build_job` |
| `StartBuild`, `OtherWork` | `claim_next_job_batch`; other types of job |
| `StaleVerdict`, `ProvisionalGreen`, `ConfirmingGreen`, `Red`, `VerdictLost` | `_record_confirm_verdict`, one transaction |
| `Raise`, `RecordFailure` | the build or the enqueue raised; `_record_confirm_failure` |
| `Crash` | the runner stops anywhere; the database and `pending/` stay |

`run`, `fresh` and `withdrawn` are history variables: they say which greens were seen
and whether the running build was cancelled, for the properties only; no guard reads
them. `IssueLifecycle` is the abstract specification: operators move an issue where they
like except that an accept cannot wake a muted one; a verdict settles only a resolving
issue and resolves it only when the last `Threshold` verdicts were green.
`RefinesLifecycle` says `ConfirmLoop` implements it, with `streak <- run`.

Run `confirm` (1 issue, 1 bundle, 1 operator with every action, 1 crash, 1 lost write):
`TypeOK`, `MarkerHasBuild`, `RefinesLifecycle`, `ConfirmedMonotone`, and under fairness
`AskedBuildIsSettled`: a resolving issue whose build is asked for leaves resolving, unless
an operator cancels the build or the write of a verdict is lost.

Bounds. `Threshold = 2` is the least with a provisional green, `MaxFailures = 2` the
least with a retry. `MaxGen = 2` lets a build be superseded while it runs, which is all a
stale verdict needs; the loop's own bumps go past it. `MaxPending = 2` lets a superseded
job wait behind another. Issues share nothing but the runner's time and `pending/`, and
no property relates two of them, so TLC uses one and the proofs cover any number.

Fairness. `WF(Runner)`: the runner is one loop, is restarted after a crash, and no step
of it waits for an operator. `WF(Elapse)`: time passes. `SF` of claiming and of starting
the build of an issue: a held build line and jobs of other types only delay. Nothing is
assumed of the operators.

## 3. JobQueue

A job has a file in one of four directories with a retry tally and a backoff, and a
row whose state follows the transition table of `lifecycle.py`, which `Transition`
repeats event by event. The file decides what runs; an illegal event is a warning and
changes nothing (`After`). The runner's work on a batch is a list of steps in `todo`,
each a rename, a file or one transition, so that hooks, operators and crashes come
between any two:

| Actions | Code |
|---|---|
| `HookWrites`, `HookPosts`, `HookPostLost` | `enqueue_job` in `hook_common.sh`: the file first, the row over HTTP |
| `Start` | `reap_orphans`, `sweep_stranded_inflight`, `reap_stale_queued` |
| `Request`, `Handoff` | the verify and user-context feeds; the patch job triage enqueues |
| `ClaimFile` | `claim_next_job_batch`: oldest ready file and its siblings |
| `ClaimRow`, `ClaimSibling` | `claim_stranded_db_jobs`: triage rows with no local file |
| `Begin`, `Finish`, `Handoff`, `ProviderFails` | `process_job` and the outcomes of the steps |
| `Retire` | done/, failed/ or back to pending/ for the batch |
| `Transit`, `TransitLost`, `MoveFile`, `CreateFile`, `CountSibling` | one step of `todo` |
| `Abandon`, `Elapse` | `api_job_abandon`; `retry_after` is reached |
| `Crash` | `todo` and the batch are lost, files and rows stay |

Runs. `queue_safety` (a local and a remote triage of one origin and the patch they hand
off to, 1 crash, 1 lost transition): `InFlightIsHeld`, `QueuedIsClaimable`.
`queue_liveness` (two triages and a verify job, 1 crash): under fairness, `JobSettles`
and `QueuedSettles`. `TypeOK` is proved, not run.

Bounds. Two triages of one origin are the least with a sibling; one of them is visible
to the runner only through its row, which makes both claims and both sibling paths
happen. `MaxRetry = 1` is the least with a retry and an exhausted budget. One crash
reaches every point of a batch. `SlowTail = FALSE` says that `_job_was_requeued` still
sees the backoff in the future, which holds as long as the backoff is longer than
dropping a worktree; both the run and the proof of `QueuedIsClaimable` assume it
(section 12 says what happens without it). A queue whose jobs are all retired stops, so
deadlock is not checked.

Fairness. `WF(Runner)` and `WF(Elapse)` as above; `WF(HookPosts)` once the file is
written: the hook is a script that goes on to its next line.

## 4. Bundles

The bundles of one port: per bundle the resolution and what it was before, the diff and
the verified diff; per port the skip lock an operator stakes, the user context and its
request rows; the runner's polls, queue and verdicts. A request reads its gate on one
connection (`OpenRequest`) and writes on another, statement by statement.

| Actions | Code |
|---|---|
| `HookFailure` | a failure recorded and its triage enqueued |
| `OpenRequest`; `AcceptWrite`, `AcceptUnlock`, `AcceptNominate`, `Reject`, `Peek`, `TakeOver`, `Discard`, `Release`, `Reopen`, `RetryText`, `RetryRow`, `RetryBadge`, `AskVerify` | the handlers of `bundle_actions.py`, one action per autocommitted statement |
| `DiscardRequests`, `Merge` | the manual queue; the merge hook |
| `PollContext`, `MarkContext`, `PollVerify`, `MarkVerify` | the two feeds of the runner: enqueue, then mark |
| `StartJob`, `SkipLocked`, `TriageHandsOff`, `TriageFails`, `TriageEscalates`, `PatchEnds`, `PatchEscalates`, `VerifyEnds`, `NoVerdict` | jobs and the verdicts they write |
| `RunnerCrash`, `RequestCrash` | either process stops between two statements |

Runs. `bundles_safety` (two sibling bundles, one operator request at a time, retries, take-overs,
discards, releases and reopens, one crash): `TypeOK`, `OneRetriageInFlight`, `StakeKept`,
`OwnedIsStaked`. `bundles_retry` (one bundle, two texts, every other action, fair):
`RetryReachesTriage`.

Bounds. Two bundles are the least with a sibling. `MaxQueued = 1` says operators do not ask
verifications without end; a retriage is enqueued only when nothing is queued.
`bundles_safety` has one operator because its instance with two (4.7 million states without
the retries) takes longer than a run may; the proofs allow any number. `OwnedIsStaked`
excuses a bundle on which two requests ran side by side and one is still open
(`Crossed`, from the history field `alone` of a request): each reads its gate on one
connection and writes on another, and the last write wins (section 12).
A verification is asked for a diff that is not verified. Fairness: the runner loops over
its polls and its queue, and a request that was let in runs to its end; nothing is assumed of operators.

## 5. BuildRun

`state`, `age`, `row`, `attempt` and `success` are the tracker's tables; `file`, `phase`,
`seen` and `stage` a builder's hooks (`hook_run_start`, the per-port hooks,
`hook_run_end`). `Look`, `Supersede` and `Insert` are the steps of one start-build
request; every hook call may be lost and fails soft. Run `builds` (two builders, one
port, two runs, two lost requests): `TypeOK`, `PortStatusAgrees`, `RunsNotShared`, and
under fairness `DeadRunCloses`. Ports share nothing but their run, so TLC uses one. Fairness:
builders keep starting and finishing builds, time passes.

## 6. Delivery

| Actions | Code |
|---|---|
| `AcceptGate`, `Accept`, `Redeliver`, `Skip`, `NotPrepared` | `bundle_actions.py` accept and deliver |
| `LookUp`, `TakeClone`, `WaitedTooLong` | `orchestrator.py`: the open row, then the clone lock |
| `Probe`, `CheckClone`, `Checkout`, `Commit`, `Push`, `Ask`, `ProviderFails`, `Restore` | the github provider |
| `RecordFailed`, `RecordUpdate`, `RecordFresh`, `Reconcile` | the row of the outcome |
| `PollRead`, `PollAsk`, `PollWrite` | `delivery_sync.py` on a page render |
| `Reopen`, `MergePr`, `ClosePr`, `ReportStatus`, `CleanClone`, `Restart` | operators, the forge, a restart |

Runs. `delivery` (two bundles that may share a branch, two threads, a poll, a restart):
`PushedIsOwn`, `AcceptNotLost`. `delivery_merge` (one bundle, one thread, two polls,
fair): `RowSettles`; one liveness run of both instances is beyond the time a run may
take. Bounds: two deliveries are the least that overlap. Assumed: the operator reports the
true status, and only github is modelled (local-patch has neither clone nor forge). `AcceptNotLost`
excuses deliveries that were opted out of or cut off by a restart. The specification is `DeliverySpec`
(`DeliveryLiveSpec` with fairness), so that one proof module can extend this module and `BuildRun`. Fairness: request
threads run, pages keep rendering, the forge answers in the end.

## 7. AttemptLoop

The port's subtree is a version number (0 is the repository's), a tool result of
`get_file` a record of its window, version and turn; any of the old ones may be masked.

| Actions | Code |
|---|---|
| `StartJob`, `Preflight`, `RefuseDirty`, `RefuseUncomposed`, `ComposeAgain`, `ResetPort`, `Crash` | `steps.py` and the job's worktree; `reset_port` |
| `BeginAttempt`, `AttemptSucceeds`, `AttemptFails` | `attempt_loop.py` |
| `LlmTurn`, `LlmRaises`, `EndTurn`, `PostNote` | `tool_loop.py` |
| `ToolCall` (`GetFile`, `Edit`, `Materialize`, `Build`, `EditSource`, `Genpatch`, `InstallPatches`, `IdleCall`, `ExtractBlocked`) | the tools of `worker.py` |

Run `attempts` (two jobs of two attempts, three turns, two calls a turn, windows by count
and one by range, one fault, one crash): `ElidedWasShown`, `BuildIsFresh`, `BudgetBound`,
`ScratchIsOwn`, `EnvMatchesRepo`. The window by range (`ByRange`) has the cache key of a window by
count and shows fewer lines: `ElidedWasShown` says what an answer still rests on then.
Bounds: the second attempt and job are the least that can see what an earlier one left; a
fourth turn repeats the third with `KeepTurns = 1`. A job runs with one of three tool
sets, which split the exploration; the proofs take any. A note is posted only while a
tool runs, which is when the harness next looks for it.

## 8. Workspace and Payload

A checkout holds one port's payload files and overlay and the commit it was cut from.
`Payload` says who reads which file (`ReadElsewhere`), what a line installs at each name
(`Winner`) and where a re-cut patch goes (`Destination`). `Workspace` is the life of a
job's tree: `Start`, `AddWorktree`, `PointLink`, `Preflight`; the tools with their
guards (`WriteFile`, `WriteOverlay`, `DeleteFile`, `InstallPatches`); `GiveUp`,
`Succeed`, `Raise`; `Verify`; `Teardown`, `Remove`; `Crash`, `SweepLink`, `Sweep`;
`TriageBootstrap`, `Update`, `VerifyByHand` and `ResetPort` beside them.

Run `workspace` (two bundles, two jobs with two writes, a fresh port and one with shared
payload, one base move between two heads, one fault, one crash): `WorkIsOwn`, `VerdictIsOfDiff`,
`SharedPayloadKept`, `WorkIsKept`, `DiffIsOwn`. The properties name what is exempt in
history variables: `outlived` (a branch that outlived its job or base), `missed` (work that
could not be captured or published), `opened` (files that install_patches overwrites without
asking who reads them: the flat file of an unsafe name and the line's own copy,
`unguarded` in `Candidate`). `Start` merges the clearing
of a leftover tree: a crash between the two has no other effect. Upstream's commits change
other ports only; `VerifyByHand` and `ResetPort` run between jobs, as the CLI help asks.

## 9. DevEnv

One env: `status`, `base`, `dir` are its state file and directory, `mounts` three groups
of mounts, `source` the base its root comes from, `link` the ports link, `lock` the lock
directory. A session loads, mounts, checks again and enters; create and rebase run under
the lock in the steps of `builder.py` and `rebase.py`; destroy and cleanup-mounts take no
lock.

| Actions | Code |
|---|---|
| `Load`, `MountRoot`, `MountRuntime`, `Recheck`, `Refused`, `Enter`, `Exit` | `session.py`: the two gates of a session and what it mounts between them |
| `JobBegins`, `Unlink`, `Relink`, `JobEnds`, `JobRefused`, `RunnerDies` | the job's link, removed and made again from within a session (`worker.py:3104-3117`) |
| `CreateBegin` to `CreateDone`, `CreateFails` | `builder.py` |
| `RebaseBegin`, `RebaseAsk` | `busy_findings` before the base is provisioned: the link at first (`LinkIsIdle`), the processes at last (`Free`) |
| `RebaseProvision`, `RebaseCheckLink`, `RebaseCheckHolders`, `RebaseUnmount`, `RebaseMount`, `RebaseRuntime`, `RebaseVerify` | `_rebase`; the last check makes the same two looks |
| `RebaseMark`/`RebaseMarked`, `GiveUp`/`RebaseRestore`, `RebaseRecord`/`RebaseRecorded`, `RebaseVerify`/`RebaseReady` | the four saves: `rebase.save` finds env.json (`StateIsFile`), then `store.save` writes it (`Replace`), or fails since destroy took the directory between (`Outrun`) |
| `DestroyUnmount`, `RemoveState`, `RemoveDir`, `SweepBegins`, `SweepUnmounts`, `RemoveLock`, `OpDies` | destroy, cleanup-mounts, a dead lock |

Run `devenv` (one shell, the runner's job, one op at a time over two bases, one
create, one rebase, one removal, one fault): `TypeOK`, `InsideIsWhole`,
`WorldKeptUnderJob`, `DestroyedStaysGone`, and under fairness `RebaseSettles`. Fairness:
commands run on, sessions end, the operator re-runs an interrupted rebase and removes a
dead lock. Three history variables name what the properties excuse. `torn` is set by whoever
unmounts beneath a session: a removal, a cleanup, or a
rebase that gave up with a session's mounts in place; `InsideIsWhole` speaks of the others.
`swapped`: a job changed its link since the last check looked at it. `overtaken`: the ops whose
save had found env.json when destroy took it. Section 12 says what the code's comments
promise of both.
One rebase is the bound because two take three times as long and show nothing new; the
proofs cover any number. `GraceOver`: a session past its second gate is in the env within the grace.
A session is one command of `shell` or `exec`, or the job's; the CLI commands that run several
chroot commands after one `prepare` (`cli.py:391`, `686`) enter again without a
gate and are not modelled, and neither are the mount findings of `busy_findings`.

## 10. ApplyEngine and Compose

`ApplyEngine` has the file transaction (`fsops.py`) as operators on a record of a disk,
staged texts, bytes and removals, what each op does to a file, and the order of the
steps. `Direct` is what an op means with no transaction between. `Compose` runs it port
by port: `Start`, `Seed`, `Preflight`, `Prune`; `SkipSemantic`, `Materialize`, `ApplyOp`,
`Commit`, `OracleFails`, `WriteFails`, `EndSemantic`; `Compat`, `EndCompat`;
`SystemReplacements`, `Finalize`; `BeginReconcile`, `Mirror`, `EndReconcile`,
`ReconcileFails`; `Return`, `Killed`. Between runs upstream moves, another branch is checked out, overlays are edited.

Run `compose` (two ports, two lines, any two changes, one killed run, failing write, oracle or
reconcile; full, --origin, strict, pruning and dry runs; the port types port, dport, mask
and lock): `BufferIsDirect`,
`ComposedIsIdeal`, `MarksAreTrue`, `StrictFailureKeepsLive`. `Finalize` may find patch artifacts
(`find_patch_artifacts`) in any run that is not dry, and the run reconciles all the same;
`leaked` remembers that this was the first error, which `StrictFailureKeepsLive` excuses. Assumed: inputs do not change
during a run, no two composes at once, every run carries `--replace-output`, one target
line, a file listed for installation is there. Left out: the special stage (infrastructure
and treetop), category Makefiles, UPDATING/MOVED, which files the artifact scan finds,
target-scoped compat payload, the mk ops other than set and bump, and the names `dircmp`
passes over by default (RCS, CVS, tags and the like), which `reconcile` therefore
does not mirror. The module takes overlays preflight calls invalid, and the proofs cover
them; the run's instance has none.


## 11. Proofs

Each proof module EXTENDS its component and TLAPS. The constants are only what the
module's named assumption says; every theorem holds for any number of issues, jobs,
bundles, builders, sessions, crashes and faults. A theorem `Spec => []P` is proved from an
inductive invariant of named parts; the table says which, and why `P` alone would not do.

| Theorem (of the property) | Inductive invariant and argument |
|---|---|
| **ConfirmLoopProofs** | |
| `TypeCorrect` (`TypeOK`) | with `JobInHand`: the runner holds a job exactly while it enqueues, builds or handles a failure of either |
| `MonotoneConfirmed` (`ConfirmedMonotone`) | only a verdict that lands touches `confirmed`, and its guard compares the generation |
| `ImplementsLifecycle` (`RefinesLifecycle`) | each step is a step of `IssueLifecycle` or a stutter; needs `GreensCounted`: the stored tally never exceeds the greens seen in a row |
| `MarkersAreBacked` (`MarkerHasBuild`) | `MarkerInvariant`: `ScanFresh` (the feed the runner read is not ahead of the row), `MarkerAhead`, `MarkerBacked`; the last is inductive only with the first two |
| `BuildableWhileResolving` | `IntentCovers` and `AskedInActs`: as long as no build is cancelled, a resolving issue has a bundle and a generation to build |
| **JobQueueProofs** | |
| `QueueTypeCorrect` (`TypeOK`) | with `LeadInHand`; no tally passes its budget |
| `NoRowStranded` (`InFlightIsHeld`) | `FlightInvariant`: `StepsOfPhase` (what each phase may still have in `todo`), `WaypointsPass` (what is left in `todo` takes each row of the batch out of flight), `RowsOfPhase`. The plans of `StartFlight` to `RequestFlight` establish it, `RowShifts` and `TransitRows` keep it while the steps are taken |
| `QueuedRowsAreClaimable` (`QueuedIsClaimable`) | assumes `~SlowTail`. `QueuedInvariant`, while nothing crashed or was lost: `PlainSteps`, `DbClaims`, `Announced` (a file of a patch or verify job is in pending/ before its row is queued), `QueuedRows` (a batch lets go of a queued row only with a move of its file back to pending/), `PlainAtRest` |
| **AttemptLoopProofs** | |
| `AttemptTypeCorrect` | `Typed` and `Begun`: what a job in each phase has already set |
| `BuildsAreFresh` (`BuildIsFresh`), `EnvIsRestored` (`EnvMatchesRepo`) | `TreeInvariant`: between jobs no hash is kept and the compose tree is the repository's or `unsynced`; a hash that is kept is of the version composed last |
| `ScratchIsolated` (`ScratchIsOwn`) | `ScratchInvariant`: WRKDIR is empty until the first attempt begins, or a make clean failed |
| `BudgetIsBounded` (`BudgetBound`) | `BudgetInvariant`: an attempt begins below the budget, a turn below the budget and its grace |
| `UnchangedIsShown` (`ElidedWasShown`) | `CacheInvariant`: every cache entry names a result that still stands unmasked, with the entry's key; `KeyTellsLines`: two windows of one key and one end line show the same lines |
| **TrackerProofs** | build runs |
| `RunsTypeCorrect` (`TypeOK`) | `TrackerOK`, `BuilderOK`, `SeenIsRun`, `EnqueuedIsTracked`, `BeginsFresh` |
| `RunsAreNotShared` (`RunsNotShared`) | a run is tracked by the builder that inserted it, and an insert takes an unused run |
| `StatusAgrees` (`PortStatusAgrees`) | `RunInvariant`: `UnstartedIsEmpty`, `TrackedIsBegun`, `PendingIsBlank` (no row of the run for a port not yet reported) and the agreement itself |
| | deliveries: typing in `DeliverySound`, with `PrsExist` and `RowsHeld` (a request and a poll hold rows and pull requests that exist, and a row that says a delivery failed is never rewritten) |
| `PushesAreOwn` (`PushedIsOwn`) | `CloneInvariant`: `Exclusive` (a request between its probe and its restore holds the lock), `Prepared` (it commits on a branch checked out at the base and pushes what it committed alone), `OwnOnly` (the remote's branches) |
| `AcceptsAreNotLost` (`AcceptNotLost`) | `AcceptInvariant`: `Delivered` (a request with an open result, or at an ask while a request of its branch is open, has its diff there) and `NotLost`, which is `AcceptNotLost` extended to the merged bundles a reopening makes accepted again; without them it is not inductive |
| **BundlesProofs** | |
| `BundlesTypeCorrect` (`TypeOK`) | `KnownOK`, `DeskOK`, `IntentOK`, `FixesOK`, `RunnerOK`, `RequestsOK` |
| `RetriageIsSingle` (`OneRetriageInFlight`) | `OneRetriage`: the queue and the job in hand hold one retriage at most, of one bundle |
| `StakeIsKept` (`StakeKept`) | any number of concurrent operators |
| `OwnedStaysStaked` (`OwnedIsStaked`) | any number; `GatesHold`: a request that is alone on its bundle is the only one on it, and what its gate saw is still true when it writes; `RequestWritesItsOwn`: a request changes the resolution of its own bundle only, and stakes and unstakes that one only |
| **DevEnvProofs** | |
| `EnvTypeCorrect`, `DestroyedIsGone`, `InsideStaysWhole`, `WorldIsKept` | `EnvInvariant` is `World` (the base a command works from or to is the one named, and nobody is inside or cleared while a rebase unmounts), `Gone` (no directory: no state and no mounts) and `Tree` (unless something was unmounted beneath a session: what a create has built so far, a settled env and everyone in it have every mount, and a session past its gates has mounted what it was let in to). In `World` also: what a rebase holds between its two looks and between the halves of a save (from the first look nobody is cleared to enter and the link is idle unless `swapped`, after the second nobody is inside; while it saves the state is there unless it is `overtaken`) |
| **ComposeProofs** | |
| `BufferStandsForDirect` (`BufferIsDirect`) | `BufferInvariant`: `Applying`, `Buffered`. `WrittenIsView`, `StageWriteView`, `StageBytesView`, `StageRemoveView` say what each staging operation does to the view of the directory, `ExecAgrees` that an op reads and writes the view alone |
| `RunsComposeTheIdeal` (`ComposedIsIdeal`) | `IdealInvariant`: types, `Seeding`, and while no error is recorded `CleanRun`: `Deciding` (what preflight decided stands for what the inputs promise), `Pruning`, `Listed`, `Composing` (a port whose stage is to come is still upstream's in a full run, every other is what the inputs promise), `Applies` (an apply run that has done *k* steps stands for `After(...)[k]`), `Finishing` (with the replacements, in the scratch tree, mirrored, landed). One lemma per step |
| `MarksStayTrue` (`MarksAreTrue`) | preflight's cases |
| `StrictKeepsLive` (`StrictFailureKeepsLive`) | `StrictStops`: an error of a strict run ends it with its stage, unless the scan of the finished tree recorded it first (`leaked`) |
| **WorkspaceProofs** | |
| `WorkStaysOwn`, `VerdictsJudgeDiffs`, `SharedStaysKept`, `WorkStaysShown`, `DiffsAreOwn` | typing in `Places`, `TreesOK`, `ArtsOK`; `WorkspaceInvariant`: `FreshYet` (a tree is as it was cut until tools run in it), `OwnTree`, `OwnArts`, `VerdictIsOfDiff`, `SharedPayloadKept`, `WorkShown` (what a tree holds that no artifact shows is in the hands of a living job or is noted in `missed`), `BranchAtBase` |

The invariants were checked by TLC on the runs' instances before they were proved, and
most of them were strengthened on the way: the proof of `SharedPayloadKept` showed that
`install_patches` overwrites a line's own copy that another line's op reads, the proof of
`InsideIsWhole` that a rebase which gives up tears a stalled session's world; TLC then
produced both traces.

Only model-checked, and why:

- `AskedBuildIsSettled`, `JobSettles`, `QueuedSettles`, `RetryReachesTriage`,
  `DeadRunCloses`, `RowSettles`, `RebaseSettles`: liveness under fairness, which needs
  ENABLED.

Every invariant and every action property of a run has a theorem.

`ComposedIsIdeal` speaks of two recursive functions, the ops of a line (`OpsOf`) and the
directory after each of its steps (`After`). The provers cannot instantiate the library's
induction rules, so `OpsOfIsSeq` and `AfterUnrolls` go through a set: the lengths up to
which a prefix of the function exists, and `CountUp`, which takes the least number that is
missing from it (`LeastNat`, from the library's `NatLessThanWellFounded`). What `Edited`,
`Patched` and `CompatMerge` compute is never unfolded: the theorem is that a run does to a
port what the inputs say, once and in order, not what that is. `ComposeAssumption` asks for
finitely many origins and payload files and for overlays of the shape the loader lets
through (`IsOverlay`), because the order in which a stage takes a set of ports
(`SetToSeq`) is only a sequence of all of them when the set is finite.

Only proved: `TypeOK` of `JobQueue` and of `AttemptLoop`, and `BuildableWhileResolving`.
`JobQueueAssumption` asks for finitely many jobs, because the proofs take the length of a
batch's plan from the cardinality of the batch.

## 12. Where the code and its docs, comments or tests disagree

Met while modelling. Those with a named property can be shown by adding that property to
the named run's cfg, with the change given; the definitions stand at the end of the
modules. Paths are under `src/dportsv3/` unless they begin with `docs/` or `dev-env/`.

Confirm loop.
- `CancelledVerdictIgnored`: the verdict of a build that was cancelled while it ran still
  resolves the issue (`agent/runner.py:1745`, `tracker/routes/issue_actions.py:311-313`).
  `Acts` = accept and cancel.
- `OnlyDeliveredFixSettles` (accept alone, two bundles): the verdict of a build of the bundle
  accepted before settles the issue for the one accepted since.
- `FreshAcceptNeedsAllGreens` (accept and reopen): a green build asked for by an earlier
  accept counts in the streak of the next one.
- `SingleFlight` (accept alone): a generation that was claimed may be claimed again while its
  first job is queued.

Job queue.
- `ProcessedOnce`: a triage is processed twice when the hook's POST arrives after its
  file was already done (`agent/runner.py:2863-2867`, `dsynth-hooks/hook_common.sh:288-301`).
- `SlowTail = TRUE`: when the backoff of a retry is over before the end of the batch is
  reached, the requeued job is taken for finished, its row stays queued and its file is in
  done/: `QueuedIsClaimable` fails.
- A crash between the transition and the move leaves the row of a patch job queued with
  its file in failed/ until the stale reap; both queue properties exclude it.

Bundles.
- `RetryPickedUp` (one bundle, `LoneActs`, the specification of `bundles_retry`): an escalation
  that files its request row between the text and the row of a retry counts the text as
  handled, and the poll passes it over (`agent/runner.py:1050-1090`,
  `tracker/routes/bundle_actions.py:1142`, `1146-1174`).
- `EveryOwnedIsStaked` (`bundles_safety` with a second user): a take-over that saw its own
  bundle's stake, and a release beside it, leave the bundle operator_owned without the stake
  (`tracker/routes/bundle_actions.py:765-791` look before the transaction).
- `AcceptedFixIsVerified`: a job's new diff after the gate of an accept is accepted
  unverified (`docs/agentic-operator-loop.md:641-644`).
- `HandedBackIsUnstaked`: the escalation after a handback may find the stake of the take-over
  still there (`tracker/routes/bundle_actions.py:1045-1047`).
- Also: the badge of a retry may overwrite a verdict; a late verdict overwrites rejected or
  discarded (`agent/lifecycle.py:524-531`); reopen restores `operator_owned` without the
  stake; an accept that dies before delivery leaves no row, so deliver refuses.

Build runs.
- `SlowRunKept`: a living run that is only slow is superseded (`tracker/db.py:211-217`), a
  check and an insert apart, also when it has just recorded a result; results are accepted
  into closed runs.

Delivery.
- `MergeReachesBundle`: a failed second delivery hides the open request from the poll, and
  its merge is not seen (`tracker/delivery_sync.py:288-296`, which says otherwise in 3-9).
- A sibling's delivery on a shared branch updates the other bundle's row
  (`docs/agentic-operator-loop.md:849-851`); accept's unconditional write can overwrite
  `merged` (`tracker/fix_state.py:57`); a stale poll may re-open a merged row until the next; a
  lost answer of the forge leaves an untracked request; a restart between accept and the row
  strands the bundle; a failed restore leaves the clone refused.

Attempt loop.
- `EveryElidedWasShown`: the read cache's key lacks `end_line`, so "unchanged" may point at
  lines never shown, although the comment says it is "keyed on the window too"
  (`agent/worker.py:622-625`). An answer may also point at a
  result the next turn masks; `ElidedWasShown` speaks of the moment of the answer.
- `_dsynth_run` builds when the hash is empty although `_port_subtree_hash` says the caller
  refuses (`blind`); attempt 1 of the job after a killed one does not clean WRKDIR
  (`unclean`).
- A note claimed in the last turn is stamped delivered and never reaches the model;
  success trusts the text of a proof, and `rebuild_ok_seen` is not reset by a later edit.

Dev environments.
- `WorldKeptUnderAnyJob`: the last check, which "keeps every session out from then on"
  (`dev-env/dports_dev_env/rebase.py:8-15`), reads the link before it asks fstat: a session that was inside at
  the first look swaps the job's link and ends before the second, and the base changes under
  the job.
- `NeverBroughtBack`: `save` writes "unless the env was destroyed meanwhile" (`rebase.py:203`),
  but looks and writes apart: a destroy in between is undone.
- `RemoveSparesMounts`: destroy may remove below a mount a session makes after the listing
  (`dev-env/dports_dev_env/session.py:19-21`, `cli.py:828`).
- `RebaseResumes`: an interrupted rebase cannot be re-run while the link of a killed job is
  in the env, although the hint of a refused session says so (`session.py:29`).
- A session that read its base before an earlier rebase, stalls, and mounts the old root
  while the next rebase is between unmount and record, is refused; the rebase gives up
  with those mounts in place, and a later session enters on the old base.
- A failed create names no base; an interrupt in its first compose turns a ready env into a
  failed one; its plain save resurrects a destroyed env; cleanup-mounts may unmount a base
  being provisioned; the lock of a killed op must be removed by hand (`locks.py:21`).

Compose and apply.
- `EveryStrictFailureKeepsLive`: a strict run whose finished tree has patch artifacts fails
  and is reconciled onto the live tree (`compose_stages.py:1344-1353`, `compose.py:289-294`).
- `_check_freebsd_git_state` says compose stops, which is so only for a strict one; the
  special stage creates delta directories before the branch check, against the delta-write
  rule; `E_COMPOSE_OUTPUT_NOT_EMPTY` never fires in a full run (`docs/dportsv3-user-guide.md:419`).
- A mark kept on an overlay that was turned into a replacement or a lock is skipped in
  silence; an `--origin` run on a port marked as removed leaves the old live port without an
  error; a dry run's `patch.apply` reads the disk without what is buffered.

Workspace.
- Kind "unsafe" of `install_patches` writes the flat file even if other lines read it
  ("never over a shared file"); the own-lane path may overwrite a file another line's op
  reads; it consults the working plan only; two candidates may get one destination.
- `put_file` accepts a new file in another line's folder; a new flat file is allowed while an
  op reads it, and dropping the op makes every line install it; when git cannot show HEAD
  its readers are not asked.
- A crashed job's branch survives the sweep and is reused at the old base; the same happens
  when the base moves during the job (`outlived`). `verify-fix` from the CLI leaves
  PORTS_DIR staged, and a triage bootstrap leaves it dirty, so that `update` refuses. A crash
  loses what the last snapshot does not show (`missed`).

## 13. Not modelled

- Routing decision, environment selection and health, prompts and handoff texts, runner
  presence, schema, tracker pages, migration, settings and CLI: pure functions, text, or
  reads without an effect on the state modelled here.
- Delays: held build lines, gates, `--once`, dry runs of the runner; they appear as steps
  that skip a row or do other work. A second runner is excluded by its lock file.
- Contents of texts, logs and job files that no guard reads; two names in one second;
  failing renames and unlinks; the age of queued rows (any old one may be reaped or not).
- Jobs without a `bundle_id`, which run on the link's target; local-patch delivery; capture of
  evidence by the hooks; the special stage and the other parts of compose named in section 10.

## 14. Plan

1. The remaining mk ops and the Makefile they edit, with the trial properties of the engine's tests.
2. The routing decision and the planner as operators, checked against their rules.
3. Local-patch delivery; the gates and holds of build lines with the choice of an environment.

---------------------------- MODULE AttemptLoop ----------------------------
(***************************************************************************)
(* One patch job after another on a port: the preflight compose, the       *)
(* attempts, the turns of the tool loop in each, the tools the model calls *)
(* and the reset that ends the job.                                        *)
(*                                                                         *)
(* The port's subtree is a version number, 0 being the one the repository  *)
(* holds; any edit moves to another version, an undo to an earlier one.    *)
(* One file of it is read through get_file.  A patch in genpatch-out and   *)
(* an edit in the WRKDIR are the attempt that made them.  How many bytes a *)
(* tool result has is not modelled, so any of the old ones may be masked.  *)
(***************************************************************************)
EXTENDS Naturals

CONSTANTS
  MaxIter,        \* tier.max_iterations
  MaxTurns,       \* max_tool_turns
  Budget,         \* tier.max_tokens, 0 for the free tier
  Floor,          \* billable tokens a retry must find left
  Grace,          \* GRACE_TOKENS_AFTER_REBUILD_OK
  KeepTurns,      \* context_keep_turns, 0 to mask nothing
  Windows,        \* the windows of the file the model asks for
  Flows,          \* the tool sets a job may run with
  MaxCost,        \* bound: billable tokens of one turn
  MaxCalls,       \* bound: tool calls of one turn
  MaxVersion,     \* bound: versions of the subtree
  MaxJobs,        \* bound: jobs begun
  MaxFaults,      \* bound: failed makes and composes of the harness, unreadable subtrees
  MaxCrashes,     \* bound: deaths of the runner
  None,
  Mixed           \* a compose tree no version was made into

Version == 0..MaxVersion
Tool == {"get_file", "edit", "materialize_dports", "dsynth_build", "edit_source",
         "genpatch", "install_patches", "make_extract", "note"}

ASSUME AttemptAssumption ==
  /\ MaxIter \in Nat \ {0} /\ MaxTurns \in Nat \ {0} /\ KeepTurns \in Nat
  /\ Budget \in Nat /\ Floor \in Nat /\ Grace \in Nat /\ MaxCost \in Nat \ {0}
  /\ MaxCalls \in Nat \ {0} /\ MaxVersion \in Nat /\ MaxJobs \in Nat
  /\ MaxFaults \in Nat /\ MaxCrashes \in Nat
  /\ Windows \subseteq [start : Nat, limit : Nat, end : Nat]
  /\ Flows \subseteq SUBSET Tool
  /\ None \notin Nat /\ Mixed \notin Nat /\ None # Mixed

VARIABLES
  job, flow, pc, attempt, turn, calls,
  spent,       \* billable tokens of the job
  used,        \* ... and of the attempt
  ok,          \* rebuild_ok_seen
  claim,       \* the last response carries a proof of success
  ownFail,     \* the job began on ops of its own line that do not compose
  shown,       \* results of get_file the request still shows in full
  elided,      \* "unchanged" answers of the turn
  cache,       \* _READ_CACHE
  overlay,     \* the subtree in the job's worktree
  compose,     \* the version the shared compose tree was made from
  baseline,    \* _MATERIALIZE_STATE
  wrk,         \* attempts with edits in the port's WRKDIR
  out,         \* attempts with patches in genpatch-out
  note,        \* the operator's note to the job
  faults, crashes,
  built,       \* history: what the last build read, and the subtree it was to prove
  unclean,     \* history: the WRKDIR was left behind by a crash or a failed make clean
  unsynced,    \* history: ... and the compose tree
  blind        \* history: the subtree could not be read for a hash in this job

loop == <<job, flow, pc, attempt, turn, calls>>
budget == <<spent, used, ok>>
context == <<shown, elided, cache>>
trees == <<overlay, compose, baseline>>
scratch == <<wrk, out>>
bounds == <<faults, crashes>>
history == <<built, unclean, unsynced, blind>>
vars == <<loop, budget, claim, ownFail, context, trees, scratch, note, bounds, history>>

KeyOf(w) == <<w.start, w.limit>>
Lines(w) == w.start .. (IF w.end > 0 THEN w.end ELSE w.start + w.limit - 1)
Keys == {KeyOf(w) : w \in Windows}
Empty == [k \in Keys |-> None]
Me == <<job, attempt>>

Init ==
  /\ job = 0 /\ flow \in Flows /\ pc = "idle" /\ attempt = 0 /\ turn = 0 /\ calls = 0
  /\ spent = 0 /\ used = 0 /\ ok = FALSE /\ claim = FALSE /\ ownFail = FALSE
  /\ shown = {} /\ elided = {} /\ cache = Empty
  /\ overlay = 0 /\ compose = 0 /\ baseline = None
  /\ wrk = {} /\ out = {} /\ note = "none"
  /\ faults = 0 /\ crashes = 0
  /\ built = <<0, 0>> /\ unclean = FALSE /\ unsynced = FALSE /\ blind = FALSE

Fault == faults < MaxFaults /\ faults' = faults + 1 /\ UNCHANGED crashes
NoFault == UNCHANGED bounds

\* The state of a job is gone when it ends.
EndJob ==
  /\ pc' = "idle" /\ attempt' = 0 /\ turn' = 0 /\ calls' = 0
  /\ spent' = 0 /\ used' = 0 /\ ok' = FALSE /\ claim' = FALSE /\ ownFail' = FALSE
  /\ shown' = {} /\ elided' = {} /\ overlay' = 0 /\ note' = "none"
  /\ built' = <<0, 0>> /\ blind' = FALSE

(***************************************************************************)
(* The job: its worktree, the compose it starts from, and the reset that   *)
(* leaves the shared trees as the repository has them.                     *)
(***************************************************************************)
\* create_job_worktree cuts the bundle's branch, which carries no edit of an agent.
StartJob ==
  /\ pc = "idle" /\ job < MaxJobs
  /\ job' = job + 1 /\ flow' \in Flows /\ pc' = "preflight" /\ attempt' = 1
  /\ UNCHANGED <<turn, calls, budget, claim, ownFail, context, trees, scratch, note, bounds,
                 history>>

\* reapply, then the hash of the subtree; an unreadable one leaves the old baseline.
Composed ==
  /\ compose' = overlay
  /\ \/ baseline' = overlay /\ NoFault /\ UNCHANGED blind
     \/ UNCHANGED baseline /\ Fault /\ blind' = TRUE

\* A failed reapply leaves the tree as it was or in between.
NotComposed ==
  /\ compose' \in {compose, Mixed} /\ baseline' = None
  /\ NoFault /\ UNCHANGED blind

Preflight(own) ==
  /\ pc = "preflight"
  /\ pc' = "attempt" /\ ownFail' = own
  /\ IF own THEN NotComposed ELSE Composed
  /\ UNCHANGED <<job, flow, attempt, turn, calls, budget, claim, context, overlay, scratch,
                 note, built, unclean, unsynced>>

\* The subtree is dirty, or whether it is cannot be said.
RefuseDirty ==
  /\ pc = "preflight" /\ EndJob
  /\ UNCHANGED <<job, flow, cache, compose, baseline, scratch, bounds, unclean, unsynced>>

\* A shared op fails, or the compose itself: the job ends without a reset.
RefuseUncomposed ==
  /\ pc = "preflight" /\ EndJob
  /\ compose' \in {compose, Mixed} /\ baseline' = None /\ unsynced' = TRUE
  /\ UNCHANGED <<job, flow, cache, scratch, bounds, unclean>>

\* A job that began on failing ops of its own and claims success composes once more.
ComposeAgain ==
  /\ pc = "done" /\ ownFail /\ pc' = "reset"
  /\ Composed \/ NotComposed
  /\ UNCHANGED <<job, flow, attempt, turn, calls, budget, claim, ownFail, context, overlay,
                 scratch, note, built, unclean, unsynced>>

\* make clean in the port's WRKDIR.
CleanWrkdir(cleaned) ==
  IF cleaned THEN wrk' = {} /\ unclean' = FALSE ELSE wrk' = wrk /\ unclean' = TRUE

\* Mutant: the tree is composed from the job's worktree, as reapply does.
ComposeWorktree(composes) ==
  IF composes THEN compose' = overlay /\ unsynced' = FALSE
  ELSE compose' = compose /\ unsynced' = TRUE

\* ... from the main checkout, not from the worktree PORTS_DIR still names.
ComposeBaseline(composes) ==
  IF composes THEN compose' = 0 /\ unsynced' = FALSE ELSE compose' = compose /\ unsynced' = TRUE

ResetPort(cleaned, composes) ==
  /\ pc = "reset" \/ (pc = "done" /\ ~ownFail)
  /\ EndJob /\ baseline' = None
  /\ CleanWrkdir(cleaned) /\ ComposeBaseline(composes)
  /\ IF cleaned /\ composes THEN NoFault ELSE Fault
  /\ UNCHANGED <<job, flow, cache, out>>

\* The runner dies; its caches die with it, the directories do not.
Crash ==
  /\ pc # "idle" /\ crashes < MaxCrashes /\ crashes' = crashes + 1
  /\ EndJob /\ cache' = Empty /\ baseline' = None
  /\ unclean' = TRUE /\ unsynced' = TRUE
  /\ UNCHANGED <<job, flow, compose, scratch, faults>>

(***************************************************************************)
(* The attempts.                                                           *)
(***************************************************************************)
Remaining == Budget - (spent - used)       \* what the attempt was given
Spent == Budget > 0 /\ spent >= Budget

\* The minimum a retry must find left; the first attempt is never refused.
TooLittleLeft == attempt > 1 /\ Budget > 0 /\ (spent >= Budget \/ Budget - spent < Floor)

\* Mutant: the WRKDIR of the previous attempt is kept.
StageOnly(cleaned) == out' = {} /\ cleaned /\ UNCHANGED <<wrk, unclean>> /\ NoFault

\* reset_attempt_workspace; it keeps the baseline that cleaning would drop.
ResetWorkspace(cleaned) ==
  /\ out' = {}
  /\ IF attempt > 1 THEN CleanWrkdir(cleaned) ELSE UNCHANGED <<wrk, unclean>>
  /\ IF attempt = 1 \/ cleaned THEN NoFault ELSE Fault

ResetCaches == cache' = Empty

BeginAttempt(cleaned) ==
  /\ pc = "attempt" /\ (attempt = 1 => cleaned)
  /\ ResetCaches /\ ResetWorkspace(cleaned)
  /\ IF TooLittleLeft THEN pc' = "reset" ELSE pc' = "request"
  /\ turn' = 1 /\ calls' = 0 /\ used' = 0 /\ ok' = FALSE /\ claim' = FALSE
  /\ shown' = {} /\ elided' = {}
  /\ note' = IF note = "claimed" THEN "lost" ELSE note
  /\ UNCHANGED <<job, flow, attempt, spent, ownFail, trees, crashes, built, unsynced, blind>>

\* A proof in the last response, or a green build the loop has seen.
AttemptSucceeds ==
  /\ pc = "stopped" /\ (claim \/ ok) /\ pc' = "done"
  /\ UNCHANGED <<job, flow, attempt, turn, calls, budget, claim, ownFail, context, trees, scratch,
                 note, bounds, history>>

LastAttempt == attempt = MaxIter

\* budget-exhausted, needs-help, or another attempt.
AttemptFails ==
  /\ pc = "stopped" /\ ~claim /\ ~ok
  /\ IF Spent \/ LastAttempt
     THEN pc' = "reset" /\ UNCHANGED attempt
     ELSE pc' = "attempt" /\ attempt' = attempt + 1
  /\ UNCHANGED <<job, flow, turn, calls, budget, claim, ownFail, context, trees, scratch, note,
                 bounds, history>>

(***************************************************************************)
(* The turns.                                                              *)
(***************************************************************************)
\* Results older than the last KeepTurns turns; all the waiting ones go at once, but
\* for small ones, when enough bytes of them wait.
Old == {r \in shown : r.at + KeepTurns < turn}

\* Mutant: masking leaves the read cache alone.
MaskOnly(gone) == shown' = shown \ gone /\ UNCHANGED cache

Mask(gone) == shown' = shown \ gone /\ cache' = Empty

Request ==
  \/ UNCHANGED <<shown, cache>>
  \/ KeepTurns > 0 /\ turn - 1 > KeepTurns /\ \E gone \in SUBSET Old : Mask(gone)

\* Mutant: every attempt may spend the budget of the job.
CapOfJob == Budget + (IF ok THEN Grace ELSE 0)

Cap == Remaining + (IF ok THEN Grace ELSE 0)

\* One round trip.  The cap is checked before it too, but a cap that stopped nothing
\* after the last round trip stops nothing then: it has only grown.
LlmTurn(cost, proof, calling) ==
  /\ pc = "request" /\ Request
  /\ used' = used + cost /\ spent' = spent + cost /\ claim' = proof
  /\ note' = IF note = "claimed" THEN "heard" ELSE note
  /\ pc' = IF (Budget > 0 /\ used + cost >= Cap) \/ ~calling THEN "stopped" ELSE "calling"
  /\ UNCHANGED <<job, flow, attempt, turn, calls, ok, ownFail, elided, trees, scratch, bounds, history>>

\* The provider refuses the request: what is on disk is saved and the job reset.
LlmRaises ==
  /\ pc = "request" /\ Request /\ pc' = "reset"
  /\ UNCHANGED <<job, flow, attempt, turn, calls, budget, claim, ownFail, elided, trees, scratch,
                 note, bounds, history>>

Call(tool) ==
  /\ pc = "calling" /\ tool \in flow /\ calls < MaxCalls /\ calls' = calls + 1
  /\ UNCHANGED <<job, flow, attempt, turn, claim, ownFail, note, unsynced>>

Cached(w) == cache[KeyOf(w)] = overlay

GetFile(w) ==
  /\ Call("get_file") /\ pc' = pc
  /\ IF Cached(w)
     THEN /\ elided' = elided \cup {[w |-> w, version |-> overlay]}
          /\ UNCHANGED <<shown, cache>>
     ELSE /\ shown' = shown \cup {[w |-> w, version |-> overlay, at |-> turn]}
          /\ cache' = [cache EXCEPT ![KeyOf(w)] = overlay]
          /\ UNCHANGED elided
  /\ UNCHANGED <<budget, trees, scratch, bounds, built, unclean, blind>>

\* put_file, edit_file or delete_file under ports/<origin>.
Edit(v) ==
  /\ Call("edit") /\ pc' = pc
  /\ v # overlay /\ overlay' = v
  /\ UNCHANGED <<budget, context, compose, baseline, scratch, bounds, built, unclean, blind>>

Materialize(composes) ==
  /\ Call("materialize_dports") /\ pc' = pc
  /\ IF composes THEN Composed ELSE NotComposed
  /\ UNCHANGED <<budget, context, overlay, scratch, built, unclean>>

\* Mutant: any successful materialize will do, whatever was edited since.
HasBaseline == baseline # None /\ NoFault /\ UNCHANGED blind

\* The guard of _dsynth_run; a subtree without a hash passes it.
Fresh ==
  /\ baseline # None
  /\ \/ baseline = overlay /\ NoFault /\ UNCHANGED blind
     \/ Fault /\ blind' = TRUE

Build(passes) ==
  /\ Call("dsynth_build") /\ pc' = pc
  /\ Fresh
  /\ ok' = (ok \/ passes) /\ built' = <<compose, overlay>>
  /\ UNCHANGED <<spent, used, context, trees, scratch, unclean>>

\* An edit of the extracted source, extracting it first when nothing is there.
EditSource ==
  /\ Call("edit_source") /\ pc' = pc
  /\ wrk' = wrk \cup {Me}
  /\ UNCHANGED <<budget, context, trees, out, bounds, built, unclean, blind>>

\* The diff of the source against its snapshot, staged.
Genpatch ==
  /\ Call("genpatch") /\ pc' = pc
  /\ Me \in wrk /\ out' = out \cup {Me}
  /\ UNCHANGED <<budget, context, trees, wrk, bounds, built, unclean, blind>>

\* Every staged patch, into the subtree.
InstallPatches(v) ==
  /\ Call("install_patches") /\ pc' = pc
  /\ out # {} /\ v # overlay /\ overlay' = v
  /\ UNCHANGED <<budget, context, compose, baseline, scratch, bounds, built, unclean, blind>>

\* A call that is refused, fails, or only looks.
IdleCall(tool) ==
  /\ Call(tool) /\ pc' = pc
  /\ UNCHANGED <<budget, context, trees, scratch, bounds, built, unclean, blind>>

\* The port is IGNOREd here: EnvironmentBlocked ends the job.
ExtractBlocked ==
  /\ Call("make_extract") /\ pc' = "reset"
  /\ UNCHANGED <<budget, context, trees, scratch, bounds, built, unclean, blind>>

\* The pending notes are claimed at the end of every turn, of the last one too.
EndTurn ==
  /\ pc = "calling" /\ calls > 0
  /\ note' = IF note = "waiting" THEN "claimed" ELSE note
  /\ IF turn = MaxTurns
     THEN pc' = "stopped" /\ UNCHANGED turn
     ELSE pc' = "request" /\ turn' = turn + 1
  /\ calls' = 0 /\ elided' = {}
  /\ UNCHANGED <<job, flow, attempt, budget, claim, ownFail, shown, cache, trees, scratch,
                 bounds, history>>

\* An operator writes while a tool runs; a note written at another time waits for one.
PostNote ==
  /\ pc = "calling" /\ note = "none" /\ note' = "waiting"
  /\ UNCHANGED <<loop, budget, claim, ownFail, context, trees, scratch, bounds, history>>

ToolCall ==
  \/ \E w \in Windows : GetFile(w)
  \/ \E v \in Version : Edit(v) \/ InstallPatches(v)
  \/ \E passes \in BOOLEAN : Materialize(passes) \/ Build(passes)
  \/ EditSource \/ Genpatch \/ ExtractBlocked
  \/ \E tool \in Tool : IdleCall(tool)

Next ==
  \/ StartJob \/ RefuseDirty \/ RefuseUncomposed \/ ComposeAgain \/ Crash
  \/ \E own \in BOOLEAN : Preflight(own)
  \/ \E cleaned, composes \in BOOLEAN : ResetPort(cleaned, composes)
  \/ \E cleaned \in BOOLEAN : BeginAttempt(cleaned)
  \/ AttemptSucceeds \/ AttemptFails
  \/ \E cost \in 1..MaxCost, proof, calling \in BOOLEAN : LlmTurn(cost, proof, calling)
  \/ LlmRaises \/ ToolCall \/ EndTurn \/ PostNote

Spec == Init /\ [][Next]_vars

(***************************************************************************)
(* Properties.                                                             *)
(***************************************************************************)
Result == [w : Windows, version : Version, at : 1..MaxTurns]
Answer == [w : Windows, version : Version]

\* Type invariant (tool_loop.py:215, worker.py:1708).
TypeOK ==
  /\ job \in 0..MaxJobs /\ flow \in Flows /\ attempt \in 0..MaxIter /\ turn \in 0..MaxTurns
  /\ pc \in {"idle", "preflight", "attempt", "request", "calling", "stopped", "done", "reset"}
  /\ calls \in 0..MaxCalls /\ spent \in Nat /\ used \in Nat
  /\ ok \in BOOLEAN /\ claim \in BOOLEAN /\ ownFail \in BOOLEAN
  /\ shown \subseteq Result /\ elided \subseteq Answer /\ cache \in [Keys -> Version \cup {None}]
  /\ overlay \in Version /\ compose \in Version \cup {Mixed} /\ baseline \in Version \cup {None}
  /\ wrk \subseteq (1..MaxJobs) \X (1..MaxIter) /\ out \subseteq (1..MaxJobs) \X (1..MaxIter)
  /\ note \in {"none", "waiting", "claimed", "heard", "lost"}
  /\ faults \in 0..MaxFaults /\ crashes \in 0..MaxCrashes
  /\ built \in (Version \cup {Mixed}) \X Version
  /\ unclean \in BOOLEAN /\ unsynced \in BOOLEAN /\ blind \in BOOLEAN

\* The answer e may rest on the result r.
Stands(e, r) ==
  /\ r.version = e.version /\ KeyOf(r.w) = KeyOf(e.w)
  /\ Lines(e.w) \subseteq Lines(r.w) \/ e.w.end # r.w.end

\* get_file answers "unchanged, scroll back" only for a window that stands in full, as the
\* file has it, in the request the model is answering: not for what another attempt was
\* shown, what was masked, or what was edited since.  What stands there has the window's
\* start and limit, and every line of it unless the two reads named different end lines,
\* which the key of the cache leaves out (worker.py:586-589, 618-626, tool_loop.py:302).
ElidedWasShown == \A e \in elided : \E r \in shown : Stands(e, r)

\* dsynth never proves a compose tree made from another version of the subtree than the
\* one in the worktree, through edits, undos, failed composes and retries, as long as
\* the subtree could be hashed (worker.py:1690, worker.py:4555).
BuildIsFresh == blind \/ built[1] = built[2]

\* A job overruns its budget by less than one turn, and by the grace of one green build,
\* however the attempts share it (tool_loop.py:288, attempt_loop.py:540).
BudgetBound ==
  Budget > 0 => spent < Budget + (IF ok THEN Grace ELSE 0) + MaxCost

\* What an attempt works on and installs is its own: no patch of another attempt or job
\* is staged, and none of its edits is in the source, unless the runner died or a make
\* clean failed before (worker.py:1726).
ScratchIsOwn ==
  pc \in {"request", "calling"} => out \subseteq {Me} /\ (wrk \subseteq {Me} \/ unclean)

\* Between jobs the shared compose tree is the repository's, whatever the job did to it
\* and however it ended, unless it died, was refused on a tree it could not compose or
\* the last compose failed (worker.py:2559).
EnvMatchesRepo == pc = "idle" => compose = 0 \/ unsynced

\* Said of every read, "keyed on the window too, so asking for a different slice always
\* reads" (worker.py:622-625): false, for two reads with different end lines.
EveryElidedWasShown ==
  \A e \in elided :
    \E r \in shown : r.version = e.version /\ Lines(e.w) \subseteq Lines(r.w)
=============================================================================

------------------------------- MODULE DevEnv -------------------------------
(***************************************************************************)
(* One dev environment: the sessions that mount and enter it, the runner   *)
(* whose job points its ports tree elsewhere, and the create, rebase,      *)
(* destroy and cleanup-mounts commands an operator runs beside them.       *)
(*                                                                         *)
(* The env is its state file, its mounts and the ports link of its         *)
(* writable half.  The mounts are three groups: the base's root, the       *)
(* writable directories and the runtime ones (/dev, /proc, distfiles and   *)
(* mirrors).  A process in the env holds the root and may hold the rest.   *)
(***************************************************************************)
EXTENDS Naturals

CONSTANTS
  Shells,         \* dev-env shell and exec
  Runner,         \* the session of the runner's job
  Ops,            \* runs of create and rebase
  Bases,          \* provisioned base ids
  None,
  Orphan,         \* a lock directory whose holder is dead
  MaxCreates,     \* bound: creates
  MaxRebases,     \* bound: rebases of a ready env; a resumed one is not counted
  MaxRemovals,    \* bound: unmounts by destroy or cleanup-mounts
  MaxFaults       \* bound: failures of provisioning, mounting and the venv, ^C, and deaths
                  \* of an op or of the runner

Sessions == Shells \cup {Runner}
Groups == {"root", "dirs", "runtime"}

ASSUME DevEnvAssumption ==
  /\ Runner \notin Shells /\ None \notin Bases
  /\ Ops \cap {None, Orphan} = {} /\ None # Orphan
  /\ MaxCreates \in Nat /\ MaxRebases \in Nat /\ MaxRemovals \in Nat /\ MaxFaults \in Nat

VARIABLES
  status,      \* of env.json, "none" without one
  base,        \* ... provisioned_base_id
  dir,         \* the env's directory is there
  mounts,      \* the groups mounted under it
  source,      \* the base its root is mounted from
  link,        \* /work/DeltaPorts: "idle", "job", or "missing" while it is swapped
  lock,        \* the env's lock directory
  provisioned, \* bases with a ready mark
  sess,        \* each session: how far it is, and the base it read
  job,         \* what the runner has to do to the link
  op,          \* each create or rebase
  removal,     \* how far destroy is
  sweep,       \* cleanup-mounts has read the statuses
  creates, rebases, removals, faults,
  torn,        \* history: destroy or cleanup-mounts unmounted beneath someone, or a rebase
               \* unmounted and then gave up, for the mounts of a session that came back
  swapped,     \* history: the link was swapped between the two last looks of a rebase
  overtaken    \* history: the ops whose save was under way when destroy last took env.json

file == <<status, base, dir>>
tree == <<mounts, source>>
bounds == <<creates, rebases, removals, faults>>
late == <<swapped, overtaken>>
vars == <<file, tree, link, lock, provisioned, sess, job, op, removal, sweep, bounds, torn, late>>

Out == [pc |-> "out", seen |-> None]
Idle == [kind |-> "none", pc |-> "idle", entry |-> <<"none", None>>, target |-> None]

Init ==
  /\ status = "none" /\ base = None /\ dir = FALSE
  /\ mounts = {} /\ source = None /\ link = "missing"
  /\ lock = None /\ provisioned = {}
  /\ sess = [s \in Sessions |-> Out] /\ job = "none"
  /\ op = [o \in Ops |-> Idle]
  /\ removal = "idle" /\ sweep = FALSE
  /\ creates = 0 /\ rebases = 0 /\ removals = 0 /\ faults = 0
  /\ torn = FALSE /\ swapped = FALSE /\ overtaken = {}

InFlight == {"creating", "destroying", "rebasing"}
Inside == {s \in Sessions : sess[s].pc = "in"}
AtWork == {s \in Sessions : sess[s].pc # "out"} \cup {o \in Ops : op[o].pc # "idle"}

Fault == faults < MaxFaults /\ faults' = faults + 1 /\ UNCHANGED <<creates, rebases, removals>>

(***************************************************************************)
(* Mounting.                                                               *)
(***************************************************************************)
\* ensure_root_mounted: any mount below the root counts as the root's.
EnsureRoot(b) ==
  IF mounts # {} THEN mounts' = mounts \cup {"dirs"} /\ UNCHANGED source
  ELSE mounts' = {"root", "dirs"} /\ source' = b

\* unmount_under, deepest first; what a process holds stays.
Unmount ==
  \E left \in SUBSET mounts :
    /\ left = {} \/ (Inside # {} /\ "root" \in left)
    /\ Inside # {} /\ "root" \in mounts => "root" \in left
    /\ mounts' = left
    /\ source' = IF "root" \in left THEN source ELSE None

(***************************************************************************)
(* A session.                                                              *)
(***************************************************************************)
Move(s, pc) == sess' = [sess EXCEPT ![s].pc = pc]
Leave(s) == sess' = [sess EXCEPT ![s] = Out]

\* The runner opens one for its job only.
Wanted(s) == s = Runner => job # "none"

\* The first gate.
Load(s) ==
  /\ sess[s].pc = "out" /\ Wanted(s) /\ status \notin InFlight \cup {"none"}
  /\ sess' = [sess EXCEPT ![s] = [pc |-> "gate", seen |-> base]]
  /\ UNCHANGED <<file, tree, link, lock, provisioned, job, op, removal, sweep, bounds, torn, late>>

\* Nothing to mount the root from, for an env whose create failed early.
Unmountable(s) == mounts = {} /\ sess[s].seen \notin provisioned

\* The directory is made again when it is gone.
MountRoot(s) ==
  /\ sess[s].pc = "gate" /\ ~Unmountable(s)
  /\ EnsureRoot(sess[s].seen) /\ dir' = TRUE
  /\ sess' = [sess EXCEPT ![s] = [pc |-> "root", seen |-> None]]
  /\ UNCHANGED <<status, base, link, lock, provisioned, job, op, removal, sweep, bounds, torn, late>>

MountRuntime(s) ==
  /\ sess[s].pc = "root"
  /\ mounts' = mounts \cup {"runtime"} /\ dir' = TRUE
  /\ Move(s, "mounted")
  /\ UNCHANGED <<status, base, source, link, lock, provisioned, job, op, removal, sweep, bounds, torn, late>>

\* Mutant: the status is not read again.
NoSecondGate(s) ==
  /\ sess[s].pc = "mounted" /\ Move(s, "clear")
  /\ UNCHANGED <<file, tree, link, lock, provisioned, job, op, removal, sweep, bounds, torn, late>>

\* The second gate, after the mounting.
Recheck(s) ==
  /\ sess[s].pc = "mounted" /\ status \notin InFlight \cup {"none"}
  /\ Move(s, "clear")
  /\ UNCHANGED <<file, tree, link, lock, provisioned, job, op, removal, sweep, bounds, torn, late>>

\* A session that is refused, whose mounting fails, or that finds no shell to run.
Refused(s) ==
  /\ \/ sess[s].pc = "mounted" /\ status \in InFlight \cup {"none"} /\ UNCHANGED bounds
     \/ sess[s].pc = "gate" /\ Unmountable(s) /\ UNCHANGED bounds
     \/ sess[s].pc = "clear" /\ "root" \notin mounts /\ UNCHANGED bounds
     \/ sess[s].pc \in {"gate", "root"} /\ Fault
  /\ Leave(s)
  /\ UNCHANGED <<file, tree, link, lock, provisioned, job, op, removal, sweep, torn, late>>

\* From here fstat finds it.
Enter(s) ==
  /\ sess[s].pc = "clear" /\ "root" \in mounts /\ Move(s, "in")
  /\ UNCHANGED <<file, tree, link, lock, provisioned, job, op, removal, sweep, bounds, torn, late>>

Exit(s) ==
  /\ sess[s].pc = "in" /\ (s = Runner => link # "missing") /\ Leave(s)
  /\ UNCHANGED <<file, tree, link, lock, provisioned, job, op, removal, sweep, bounds, torn, late>>

(***************************************************************************)
(* The runner's job: a session to point the link at its worktree, any      *)
(* number to work, and one to point it back.                               *)
(***************************************************************************)
JobBegins ==
  /\ job = "none" /\ sess[Runner].pc = "out" /\ status = "ready" /\ job' = "begin"
  /\ UNCHANGED <<file, tree, link, lock, provisioned, sess, op, removal, sweep, bounds, torn, late>>

JobEnds ==
  /\ job = "linked" /\ sess[Runner].pc = "out" /\ job' = "end"
  /\ UNCHANGED <<file, tree, link, lock, provisioned, sess, op, removal, sweep, bounds, torn, late>>

\* The link cannot be swapped: the job fails, or leaves it where it is.
JobRefused ==
  /\ job \in {"begin", "end"} /\ sess[Runner].pc = "out" /\ status \in InFlight \cup {"none"}
  /\ job' = "none"
  /\ UNCHANGED <<file, tree, link, lock, provisioned, sess, op, removal, sweep, bounds, torn, late>>

\* rm, then ln.
Unlink ==
  /\ sess[Runner].pc = "in" /\ job \in {"begin", "end"} /\ link # "missing"
  /\ link' = "missing"
  /\ swapped' = (swapped \/ \E o \in Ops : op[o].pc = "holders")
  /\ UNCHANGED <<file, tree, lock, provisioned, sess, job, op, removal, sweep, bounds, torn,
                 overtaken>>

Relink ==
  /\ sess[Runner].pc = "in" /\ job \in {"begin", "end"} /\ link = "missing"
  /\ link' = IF job = "begin" THEN "job" ELSE "idle"
  /\ job' = IF job = "begin" THEN "linked" ELSE "none"
  /\ UNCHANGED <<file, tree, lock, provisioned, sess, op, removal, sweep, bounds, torn, late>>

\* The runner dies; the one that follows sweeps the worktrees and restores the link.
RunnerDies ==
  /\ job # "none" /\ Fault
  /\ job' = "end" /\ Leave(Runner)
  /\ UNCHANGED <<file, tree, link, lock, provisioned, op, removal, sweep, torn, late>>

(***************************************************************************)
(* create and rebase, under the lock of the env's name.                    *)
(***************************************************************************)
At(o, kind, pc) == op[o].kind = kind /\ op[o].pc = pc
Step(o, pc) == op' = [op EXCEPT ![o].pc = pc] /\ UNCHANGED lock

\* Mutant: the lock directory is left behind.
KeepLock(o) == op' = [op EXCEPT ![o] = Idle] /\ UNCHANGED lock

Release(o) == op' = [op EXCEPT ![o] = Idle] /\ lock' = None

CreateBegin(o, b) ==
  /\ op[o].pc = "idle" /\ lock = None /\ ~dir /\ creates < MaxCreates
  /\ creates' = creates + 1
  /\ lock' = o
  /\ op' = [op EXCEPT ![o] = [kind |-> "create", pc |-> "provision", entry |-> <<"none", None>>,
                              target |-> b]]
  /\ dir' = TRUE /\ status' = "creating" /\ base' = None
  /\ UNCHANGED <<tree, link, provisioned, sess, job, removal, sweep, rebases, removals,
                 faults, torn, late>>

\* builder.py saves without looking whether the env is still there.
CreateSave(s, b) == status' = s /\ base' = b /\ dir' = TRUE

CreateProvision(o) ==
  /\ At(o, "create", "provision") /\ Step(o, "mount")
  /\ provisioned' = provisioned \cup {op[o].target}
  /\ CreateSave("creating", op[o].target)
  /\ UNCHANGED <<tree, link, sess, job, removal, sweep, bounds, torn, late>>

\* mount_env_root and prepare_root_runtime; then the trees are seeded and linked.
CreateMount(o) ==
  /\ At(o, "create", "mount") /\ Step(o, "venv")
  /\ mounts' = Groups /\ dir' = TRUE
  /\ source' = IF "root" \in mounts THEN source ELSE op[o].target
  /\ link' = "idle"
  /\ UNCHANGED <<status, base, provisioned, sess, job, removal, sweep, bounds, torn, late>>

\* The env is ready before its first compose, and saved as ready again after it.
CreateReady(o) ==
  /\ At(o, "create", "venv") /\ Step(o, "compose")
  /\ CreateSave("ready", op[o].target)
  /\ UNCHANGED <<tree, link, provisioned, sess, job, removal, sweep, bounds, torn, late>>

CreateDone(o) ==
  /\ At(o, "create", "compose") /\ Release(o)
  /\ CreateSave("ready", op[o].target)
  /\ UNCHANGED <<tree, link, provisioned, sess, job, removal, sweep, bounds, torn, late>>

\* The state saved is the one create began with, which names no base, though it may
\* have been saved as ready meanwhile.
CreateFails(o) ==
  /\ op[o].kind = "create" /\ op[o].pc # "idle" /\ Fault
  /\ Release(o) /\ CreateSave("failed", None)
  /\ UNCHANGED <<tree, link, provisioned, sess, job, removal, sweep, torn, late>>

\* Mutant: only processes are looked for.
AnyLink == TRUE

\* busy_findings reads the link first,
LinkIsIdle == link = "idle"

\* and asks fstat last; the link may be swapped, and its session end, in between.
Free == Inside = {}

\* Mutant: an interrupted rebase is refused like any other in-flight env.
OnlyReady == status = "ready"

\* A rebase may resume another; a failed env and an unfinished create are refused.
MayRebase == status \in {"ready", "rebasing"}

RebaseBegin(o, b) ==
  /\ op[o].pc = "idle" /\ lock = None
  /\ MayRebase /\ ~(status = "ready" /\ b = base) /\ LinkIsIdle
  /\ status = "ready" => rebases < MaxRebases
  /\ lock' = o
  /\ op' = [op EXCEPT ![o] = [kind |-> "rebase", pc |-> "ask", entry |-> <<status, base>>,
                              target |-> b]]
  /\ UNCHANGED <<file, tree, link, provisioned, sess, job, removal, sweep, bounds, torn, late>>

RebaseAsk(o) ==
  /\ At(o, "rebase", "ask")
  /\ IF Free
     THEN Step(o, "provision") /\ rebases' = rebases + (IF op[o].entry[1] = "ready" THEN 1 ELSE 0)
     ELSE Release(o) /\ UNCHANGED rebases
  /\ UNCHANGED <<file, tree, link, provisioned, sess, job, removal, sweep, creates, removals,
                 faults, torn, late>>

RebaseProvision(o) ==
  /\ At(o, "rebase", "provision") /\ Step(o, "mark")
  /\ provisioned' = provisioned \cup {op[o].target}
  /\ UNCHANGED <<file, tree, link, sess, job, removal, sweep, bounds, torn, late>>

\* Mutant: the state is written whether or not it is still there.
Anyhow == TRUE

\* The first half of rebase.save; the caller raises when the env is gone.
StateIsFile == status # "none"

\* Its second half, store.save, makes the directory and replaces the state, in which time
\* destroy may have taken them: the state comes back,
Replace(s, b) == status' = s /\ base' = b /\ dir' = TRUE

\* or destroy takes the directory between the two, and the rebase ends.
Outrun(o) == status = "none" /\ UNCHANGED file /\ Release(o)

\* The env is marked, unless it changed while its base was provisioned.
RebaseMark(o) ==
  /\ At(o, "rebase", "mark")
  /\ IF <<status, base>> = op[o].entry /\ StateIsFile THEN Step(o, "marking") ELSE Release(o)
  /\ UNCHANGED <<file, tree, link, provisioned, sess, job, removal, sweep, bounds, torn, late>>

RebaseMarked(o) ==
  /\ At(o, "rebase", "marking")
  /\ \/ Replace("rebasing", op[o].entry[2]) /\ Step(o, "grace")
     \/ Outrun(o)
  /\ UNCHANGED <<tree, link, provisioned, sess, job, removal, sweep, bounds, torn, late>>

\* A session past its second gate is in the env within SESSION_GRACE_SECONDS; one that
\* is still mounting may take longer.
GraceOver == \A s \in Sessions : sess[s].pc # "clear"

\* The state the rebase began with is saved again.
GiveUp(o) == IF StateIsFile THEN Step(o, "restoring") ELSE Release(o)

RebaseCheckLink(o) ==
  /\ At(o, "rebase", "grace") /\ GraceOver
  /\ IF LinkIsIdle THEN Step(o, "holders") ELSE GiveUp(o)
  /\ swapped' = FALSE
  /\ UNCHANGED <<file, tree, link, provisioned, sess, job, removal, sweep, bounds, torn, overtaken>>

RebaseCheckHolders(o) ==
  /\ At(o, "rebase", "holders")
  /\ IF Free THEN Step(o, "unmount") ELSE GiveUp(o)
  /\ UNCHANGED <<file, tree, link, provisioned, sess, job, removal, sweep, bounds, torn, late>>

\* ^C while it waits or looks.
RebaseInterrupted(o) ==
  /\ op[o].kind = "rebase" /\ op[o].pc \in {"grace", "holders"} /\ Fault
  /\ GiveUp(o)
  /\ UNCHANGED <<file, tree, link, provisioned, sess, job, removal, sweep, torn, late>>

RebaseRestore(o) ==
  /\ At(o, "rebase", "restoring")
  /\ \/ Replace(op[o].entry[1], op[o].entry[2]) /\ Release(o)
     \/ Outrun(o)
  /\ UNCHANGED <<tree, link, provisioned, sess, job, removal, sweep, bounds, torn, late>>

RebaseUnmount(o) ==
  /\ At(o, "rebase", "unmount") /\ Unmount /\ Step(o, "record")
  /\ UNCHANGED <<file, link, provisioned, sess, job, removal, sweep, bounds, torn, late>>

\* A mount that survived, or came back with a session slower than the grace, ends it;
\* otherwise the new base is recorded.
RebaseRecord(o) ==
  /\ At(o, "rebase", "record")
  /\ IF mounts # {} THEN GiveUp(o) /\ torn' = TRUE
     ELSE UNCHANGED torn /\ IF StateIsFile THEN Step(o, "recording") ELSE Release(o)
  /\ UNCHANGED <<file, tree, link, provisioned, sess, job, removal, sweep, bounds, late>>

RebaseRecorded(o) ==
  /\ At(o, "rebase", "recording")
  /\ \/ Replace("rebasing", op[o].target) /\ Step(o, "mount")
     \/ Outrun(o)
  /\ UNCHANGED <<tree, link, provisioned, sess, job, removal, sweep, bounds, torn, late>>

\* Its own session, which passes the gates of a rebasing env.
RebaseMount(o) ==
  /\ At(o, "rebase", "mount")
  /\ IF status = "none" THEN UNCHANGED <<tree, dir>> /\ Release(o)
     ELSE EnsureRoot(base) /\ dir' = TRUE /\ Step(o, "runtime")
  /\ UNCHANGED <<status, base, link, provisioned, sess, job, removal, sweep, bounds, torn, late>>

RebaseRuntime(o) ==
  /\ At(o, "rebase", "runtime")
  /\ mounts' = mounts \cup {"runtime"} /\ dir' = TRUE
  /\ IF status = "none" THEN Release(o) ELSE Step(o, "verify")
  /\ UNCHANGED <<status, base, source, link, provisioned, sess, job, removal, sweep, bounds, torn, late>>

\* Mutant: that something is mounted at the root is enough.
RootMounted(o) == "root" \in mounts

\* check_root_source.
RootIsNew(o) == "root" \in mounts /\ source = op[o].target

\* Then the venv, and the env is ready.  A failure leaves it rebasing.
RebaseVerify(o) ==
  /\ At(o, "rebase", "verify")
  /\ IF RootIsNew(o) /\ StateIsFile THEN Step(o, "finishing") ELSE Release(o)
  /\ UNCHANGED <<file, tree, link, provisioned, sess, job, removal, sweep, bounds, torn, late>>

RebaseReady(o) ==
  /\ At(o, "rebase", "finishing")
  /\ \/ Replace("ready", op[o].target) /\ Release(o)
     \/ Outrun(o)
  /\ UNCHANGED <<tree, link, provisioned, sess, job, removal, sweep, bounds, torn, late>>

\* Provisioning, mounting or the venv fails.
RebaseFails(o) ==
  /\ op[o].kind = "rebase" /\ op[o].pc \in {"provision", "mount", "runtime", "verify"} /\ Fault
  /\ Release(o)
  /\ UNCHANGED <<file, tree, link, provisioned, sess, job, removal, sweep, torn, late>>

\* The process is killed: its lock directory stays.
OpDies(o) ==
  /\ op[o].pc # "idle" /\ Fault
  /\ op' = [op EXCEPT ![o] = Idle] /\ lock' = Orphan
  /\ UNCHANGED <<file, tree, link, provisioned, sess, job, removal, sweep, torn, late>>

\* The operator removes it, as the error of the next run says.
RemoveLock ==
  /\ lock = Orphan /\ lock' = None
  /\ UNCHANGED <<file, tree, link, provisioned, sess, job, op, removal, sweep, bounds, torn, late>>

(***************************************************************************)
(* destroy and cleanup-mounts take no lock and ask no process.             *)
(***************************************************************************)
Tear == torn' = (torn \/ AtWork # {})
Remove == removals < MaxRemovals /\ removals' = removals + 1
          /\ UNCHANGED <<creates, rebases, faults>>

\* Unmounted twice, with a refusal while a mount is left.
DestroyUnmount ==
  /\ removal = "idle" /\ dir /\ Unmount /\ Tear /\ Remove
  /\ removal' = IF mounts' = {} THEN "state" ELSE "idle"
  /\ UNCHANGED <<file, link, lock, provisioned, sess, job, op, sweep, late>>

\* What stands between a save's look at env.json and its write.
Saving == {"marking", "restoring", "recording", "finishing"}

\* rmtree, in any order: the state file and the writable half,
RemoveState ==
  /\ removal = "state" /\ removal' = "rest"
  /\ status' = "none" /\ base' = None /\ link' = "missing"
  /\ Tear
  /\ overtaken' = {o \in Ops : op[o].pc \in Saving}
  /\ UNCHANGED <<dir, tree, lock, provisioned, sess, job, op, sweep, bounds, swapped>>

\* and the directory, which a mount keeps.
RemoveDir ==
  /\ removal = "rest" /\ removal' = "idle"
  /\ dir' = (mounts # {} \/ status # "none")
  /\ Tear
  /\ UNCHANGED <<status, base, tree, link, lock, provisioned, sess, job, op, sweep, bounds, late>>

SweepBegins ==
  /\ ~sweep /\ mounts # {} /\ status \notin {"creating", "rebasing"} /\ sweep' = TRUE
  /\ Remove
  /\ UNCHANGED <<file, tree, link, lock, provisioned, sess, job, op, removal, torn, late>>

SweepUnmounts ==
  /\ sweep /\ sweep' = FALSE /\ Unmount /\ Tear
  /\ UNCHANGED <<file, link, lock, provisioned, sess, job, op, removal, bounds, late>>

SessionStep(s) ==
  \/ MountRoot(s) \/ MountRuntime(s) \/ Recheck(s) \/ Refused(s) \/ Enter(s) \/ Exit(s)
OpStep(o) ==
  \/ CreateProvision(o) \/ CreateMount(o) \/ CreateReady(o) \/ CreateDone(o)
  \/ RebaseAsk(o) \/ RebaseProvision(o) \/ RebaseMark(o) \/ RebaseMarked(o)
  \/ RebaseCheckLink(o) \/ RebaseCheckHolders(o) \/ RebaseRestore(o) \/ RebaseUnmount(o)
  \/ RebaseRecord(o) \/ RebaseRecorded(o) \/ RebaseMount(o) \/ RebaseRuntime(o)
  \/ RebaseVerify(o) \/ RebaseReady(o)
Resume == status = "rebasing" /\ \E o \in Ops, b \in Bases : RebaseBegin(o, b)

Next ==
  \/ \E s \in Sessions : Load(s) \/ SessionStep(s)
  \/ JobBegins \/ JobEnds \/ JobRefused \/ Unlink \/ Relink \/ RunnerDies
  \/ \E o \in Ops : OpStep(o) \/ CreateFails(o) \/ RebaseInterrupted(o) \/ RebaseFails(o)
                    \/ OpDies(o)
  \/ \E o \in Ops, b \in Bases : CreateBegin(o, b) \/ RebaseBegin(o, b)
  \/ RemoveLock \/ DestroyUnmount \/ RemoveState \/ RemoveDir \/ SweepBegins \/ SweepUnmounts

Spec == Init /\ [][Next]_vars

\* Commands run on, sessions end, and the operator re-runs an interrupted rebase.
LiveSpec ==
  /\ Spec
  /\ \A s \in Sessions : WF_vars(SessionStep(s))
  /\ \A o \in Ops : WF_vars(OpStep(o))
  /\ WF_vars(Unlink) /\ WF_vars(Relink) /\ WF_vars(RemoveLock)
  /\ WF_vars(RemoveState) /\ WF_vars(RemoveDir) /\ WF_vars(SweepUnmounts)
  /\ SF_vars(Resume)

(***************************************************************************)
(* Properties.                                                             *)
(***************************************************************************)
\* Type invariant; a lock directory of a living op is of one at work (locks.py:37).
TypeOK ==
  /\ status \in {"none", "creating", "ready", "failed", "rebasing"}
  /\ base \in Bases \cup {None} /\ dir \in BOOLEAN
  /\ mounts \subseteq Groups /\ source \in Bases \cup {None}
  /\ link \in {"idle", "job", "missing"}
  /\ lock \in Ops \cup {None, Orphan} /\ provisioned \subseteq Bases
  /\ sess \in [Sessions -> [pc : {"out", "gate", "root", "mounted", "clear", "in"},
                            seen : Bases \cup {None}]]
  /\ job \in {"none", "begin", "linked", "end"}
  /\ op \in [Ops -> [kind : {"none", "create", "rebase"},
                     pc : {"idle", "ask", "provision", "mark", "marking", "grace", "holders",
                           "restoring", "unmount", "record", "recording", "mount", "runtime",
                           "venv", "compose", "verify", "finishing"},
                     entry : {"none", "ready", "rebasing"} \X (Bases \cup {None}),
                     target : Bases \cup {None}]]
  /\ \A o \in Ops : (lock = o) = (op[o].pc # "idle")
  /\ removal \in {"idle", "state", "rest"} /\ sweep \in BOOLEAN
  /\ torn \in BOOLEAN /\ swapped \in BOOLEAN /\ overtaken \subseteq Ops

\* A process in the env never loses a mount and never runs on a base the state does not
\* name, however slow its session was to mount, unless the env was unmounted beneath it
\* by an operator or by a rebase that then gave up (rebase.py:8-13, session.py:19): a
\* session that read its base before an earlier rebase may be what it gave up for, and
\* the root it mounted is then the old one.  A failed create is left as it is, for
\* inspection.
InsideIsWhole == Inside # {} /\ ~torn /\ status # "failed" => mounts = Groups /\ source = base

\* An env moves to another base only while no process is in it, and no job's link unless
\* the job swapped it between the two looks of the rebase's last check: the session that
\* did was not over at the first and was over at the second (rebase.py:152-166, 256-311).
WorldKeptUnderJob ==
  [][base' # base /\ base # None /\ base' # None =>
       Inside = {} /\ (link = "idle" \/ swapped)]_vars

\* A rebase never brings back the state of an env that was destroyed while it ran, unless
\* env.json went after the save had found it and before the save wrote it
\* (rebase.py:202-212, state.py:193-198).
DestroyedStaysGone ==
  [][\A o \in Ops : op[o].kind = "rebase" /\ op'[o] # op[o]
                      /\ status = "none" /\ status' # "none" => o \in overtaken]_vars

\* An interrupted rebase can be resumed to its end, whatever it left, unless a job's
\* link was left in the env too (session.py:29, rebase.py:170).
RebaseSettles == status = "rebasing" ~> status # "rebasing" \/ link # "idle"

\* rmtree never walks into a mount (fs.py:46, cli.py:830).
RemoveSparesMounts == removal # "idle" => mounts = {}

\* Said of the last check, which keeps every session out (rebase.py:8-15): false, for a
\* job that swaps its link between the looks.
WorldKeptUnderAnyJob ==
  [][base' # base /\ base # None /\ base' # None => Inside = {} /\ link = "idle"]_vars

\* Said of save, "unless the env was destroyed meanwhile" (rebase.py:203): false, for a
\* destroy between its two halves.
NeverBroughtBack ==
  [][\A o \in Ops : op[o].kind = "rebase" /\ op'[o] # op[o] =>
       ~(status = "none" /\ status' # "none")]_vars

\* What the hint of a refused session says: a rebase that was interrupted can be re-run
\* (session.py:29).
RebaseResumes == status = "rebasing" ~> status # "rebasing"
=============================================================================

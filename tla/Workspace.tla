----------------------------- MODULE Workspace -----------------------------
(***************************************************************************)
(* The git worktrees of a dev-env in which the jobs of one runner change   *)
(* and verify a port: how a job gets its tree, what the tools write in it, *)
(* how its work is captured, and how the tree is taken away, by the job    *)
(* itself or after the runner died.                                        *)
(*                                                                         *)
(* A tree holds the port's payload files and its overlay, and the commit   *)
(* it was cut from; upstream's commits change other ports only.  A file is *)
(* None, the base's, or what a job of a bundle wrote.                      *)
(***************************************************************************)
EXTENDS Payload

CONSTANTS
  Bundles,
  Heads,        \* the ports the base may have: overlay and payload files
  Overlays,     \* the overlays the agent may write
  Main,         \* ports-main, the checkout the worktrees are cut from
  None,
  Tombstone,    \* a changes.diff that says the capture failed
  MaxBase,      \* bound: commits of upstream
  MaxJobs,      \* bound: jobs begun
  MaxEdits,     \* bound: writes of the agent's tools
  MaxFaults,    \* bound: failures of git, of an exec and of a publish
  MaxCrashes    \* bound: deaths of the runner

Dirs == {"patch", "verify"} \X Bundles
Kind(d) == d[1]
BundleOf(d) == d[2]

\* What a checkout holds, and what a capture of it shows.
Checkout == [cut : 0..MaxBase, overlay : (SUBSET Op) \cup {Unplanned, Absent},
             files : [Files -> {None, "base"} \cup Bundles]]
Capture == [tree : Checkout, from : 0..MaxBase]

ASSUME WorkspaceAssumption ==
  /\ Main \notin Dirs /\ None \notin Dirs \cup {Main} /\ "base" \notin Bundles
  /\ Tombstone # None /\ None \notin Nat \cup Checkout
  /\ {None, Tombstone} \cap Capture = {}
  /\ Heads \subseteq [overlay : (SUBSET Op) \cup {Absent}, files : [Files -> {None, "base"}]]
  /\ {} \in Overlays /\ Overlays \subseteq (SUBSET Op) \cup {Unplanned}
  /\ MaxBase \in Nat /\ MaxJobs \in Nat /\ MaxEdits \in Nat
  /\ MaxFaults \in Nat /\ MaxCrashes \in Nat

VARIABLES
  base,       \* the commit the branch of ports-main is at
  head,       \* the port there
  branches,   \* the commit each job's branch is at, None without one
  trees,      \* the checkouts, by directory
  link,       \* PORTS_DIR: the checkout it points at, or None
  job, pc,
  changes,    \* analysis/changes.diff of each bundle
  snapshot,   \* ... and the last version of its tree published
  verdict,    \* the last verification
  jobs, edits, faults, crashes,
  began,      \* history: the base when the last verification's tree was cut
  outlived,   \* history: patches whose branch outlived them, or the base it was cut from
  missed,     \* history: ... whose last work was not captured or published, or is a replay
  opened      \* history: files of the job's tree the guards do not keep

git == <<base, head, branches, trees, link>>
artifacts == <<changes, snapshot, verdict>>
bounds == <<jobs, edits, faults, crashes>>
history == <<began, outlived, missed, opened>>
vars == <<git, job, pc, artifacts, bounds, history>>

Fresh(commit) == [cut |-> commit, overlay |-> head.overlay, files |-> head.files]
Clean(t) == t = Fresh(t.cut)
Present(t) == {f \in Files : t.files[f] # None}
Bootstrapped(t) == [t EXCEPT !.overlay = IF @ = Absent /\ Present(t) = {} THEN {} ELSE @]
Edited(t) == t \notin {Fresh(t.cut), Bootstrapped(Fresh(t.cut))}

\* git diff <base>, of a tree; empty when the tree is the base's.
Diff(t) == [tree |-> t, from |-> base]
EmptyDiff(d) == d.tree = Fresh(d.from)
Reverts(d) == d.tree.cut # d.from

Init ==
  /\ base = 0 /\ head \in Heads
  /\ branches = [d \in Dirs |-> None]
  /\ trees = [d \in Dirs \cup {Main} |-> IF d = Main THEN Fresh(0) ELSE None]
  /\ link = Main /\ job = None /\ pc = "idle"
  /\ changes = [b \in Bundles |-> None] /\ snapshot = [b \in Bundles |-> None]
  /\ verdict = None
  /\ jobs = 0 /\ edits = 0 /\ faults = 0 /\ crashes = 0
  /\ began = 0 /\ outlived = {} /\ missed = {} /\ opened = {}

Failing(n) == faults + n <= MaxFaults /\ faults' = faults + n /\ UNCHANGED <<jobs, edits, crashes>>
Going == UNCHANGED bounds

\* ln fails after rm, or rm does.
LinkFails == Failing(1) /\ link' \in {link, None}

(***************************************************************************)
(* create_job_worktree, step by step: a leftover goes, the tree is cut,    *)
(* and only then is the link pointed at it.  A job without its tree ends.  *)
(***************************************************************************)
Start(d) ==
  /\ pc = "idle" /\ jobs < MaxJobs
  /\ job' = d /\ pc' = "add" /\ jobs' = jobs + 1
  /\ trees' = [trees EXCEPT ![d] = None]
  /\ outlived' = IF branches[d] = None THEN outlived \ {d} ELSE outlived
  /\ missed' = missed \ {d}
  /\ UNCHANGED <<base, head, branches, link, artifacts, edits, faults, crashes, began, opened>>

\* A patch keeps its bundle's branch; a verification recuts its own.
CutFrom == IF Kind(job) = "patch" /\ branches[job] # None THEN branches[job] ELSE base

AddWorktree ==
  /\ pc = "add"
  /\ \/ /\ branches' = [branches EXCEPT ![job] = CutFrom]
        /\ trees' = [trees EXCEPT ![job] = Fresh(CutFrom)]
        /\ began' = (IF Kind(job) = "verify" THEN base ELSE began) /\ pc' = "link" /\ Going
     \/ Failing(1) /\ pc' = "teardown" /\ UNCHANGED <<branches, trees, began>>
  /\ UNCHANGED <<base, head, link, job, artifacts, outlived, missed, opened>>

\* As PointLink, but the job goes on where the link would not move.
PointLinkUnheeded ==
  /\ pc = "link" /\ pc' = "begin"
  /\ (link' = job /\ Going) \/ (Failing(1) /\ UNCHANGED link)
  /\ UNCHANGED <<base, head, branches, trees, job, artifacts, history>>

PointLink ==
  /\ pc = "link"
  /\ \/ link' = job /\ pc' = "begin" /\ Going
     \/ LinkFails /\ pc' = "teardown"
  /\ UNCHANGED <<base, head, branches, trees, job, artifacts, history>>

\* PORTS_DIR is what every tool addresses.
Tree == trees[link]
SetTree(t) == trees' = [trees EXCEPT ![link] = t]

\* ensure_bootstrap_overlay, and the compose that may refuse the job.  The tree
\* is new, so the dirty check before it has nothing to refuse or to commit.
Preflight ==
  /\ pc = "begin" /\ Kind(job) = "patch" /\ pc' \in {"run", "teardown"}
  /\ \/ SetTree(Bootstrapped(Tree)) /\ Going
     \/ Bootstrapped(Tree) # Tree /\ Failing(1) /\ UNCHANGED trees
  /\ UNCHANGED <<base, head, branches, link, job, artifacts, history>>

(***************************************************************************)
(* The guards of the tools.  git answers, or counts every file as one the  *)
(* job started with and cannot show the overlay it started with.           *)
(***************************************************************************)
Committed(f) == head.files[f] # None
ReadAtHead(f) == Plans(head.overlay) /\ ReadElsewhere(head.overlay, f)
ReadNow(f) == Plans(Tree.overlay) /\ ReadElsewhere(Tree.overlay, f)
OpReads(f) == Plans(Tree.overlay) /\ f \in ExplicitReads(Tree.overlay)

\* As SharedPayload, but asking the overlay as the job has edited it only.
SharedPayloadNow(f, answers) == ReadNow(f) /\ (answers => Committed(f))

SharedPayload(f, answers) ==
  /\ ReadNow(f) \/ (answers /\ ReadAtHead(f))
  /\ answers => Committed(f)

SharedAtHead(f, answers) == answers /\ ReadAtHead(f) /\ Committed(f)

\* The port had no overlay content when the job started.
StartedFresh ==
  /\ \A f \in Files : InFolder(f) => ~Committed(f)
  /\ head.overlay \in {Absent, {}}

NewFlatPayload(f, answers) ==
  /\ f[1] = "flat" /\ Tree.files[f] = None /\ Tree.overlay # Absent /\ ~OpReads(f)
  /\ answers => ~Committed(f) /\ ~StartedFresh

\* A tool call that wrote: the new tree is published, or the publishing fails.
Wrote(t, answers, loose) ==
  /\ t # Tree /\ SetTree(t) /\ edits' = edits + 1
  /\ opened' = opened \cup loose
  /\ LET unanswered == IF answers THEN 0 ELSE 1
     IN  \/ /\ snapshot' = [snapshot EXCEPT ![BundleOf(job)] = Diff(t)]
            /\ missed' = missed \ {job} /\ faults' = faults + unanswered
         \/ /\ missed' = missed \cup {job} /\ faults' = faults + unanswered + 1
            /\ UNCHANGED snapshot
  /\ faults' <= MaxFaults
  /\ UNCHANGED <<base, head, branches, link, job, pc, changes, verdict, jobs, crashes,
                 began, outlived>>

\* Without an answer only the overlay as it is now says who reads a file.
Unseen(f, answers) == IF answers THEN {} ELSE {f}

WriteFile(f, answers) ==
  /\ ~SharedPayload(f, answers) /\ ~NewFlatPayload(f, answers)
  /\ Wrote([Tree EXCEPT !.files[f] = BundleOf(job)], answers, Unseen(f, answers))

WriteOverlay(o) == Wrote([Tree EXCEPT !.overlay = o], TRUE, {})

DeleteFile(f, answers) ==
  /\ Tree.files[f] # None
  /\ ~SharedAtHead(f, answers) /\ ~OpReads(f)
  /\ Wrote([Tree EXCEPT !.files[f] = None], answers, Unseen(f, answers))

(***************************************************************************)
(* install_patches, of the candidates cs.                                  *)
(***************************************************************************)
Chosen(n) ==
  IF Plans(Tree.overlay) THEN Destination(Tree.overlay, Present(Tree), n)
  ELSE [file |-> At("flat", n), dst |-> n,
        kind |-> IF Tree.overlay = Absent THEN "compat" ELSE "undecided"]

\* Where the patch goes: not over a file that other lines read.  Nobody asks who
\* reads the line's own copy.
Candidate(d, answers) ==
  LET shared == d.kind = "existing" /\ ReadNow(d.file) /\ (answers => Committed(d.file))
      ownCopy == shared \/ (d.kind = "new" /\ ~(answers /\ StartedFresh))
      file == IF ownCopy THEN At(Line, d.dst) ELSE d.file
  IN  [file |-> file, unguarded |-> ownCopy \/ d.kind = "unsafe",
       held |-> \/ shared /\ file = d.file
                \/ d.kind = "undecided" /\ Tree.files[file] # None]

Installed(put, answers) ==
  \E to \in {{c.file : c \in put}} :
    Wrote([Tree EXCEPT !.files = [f \in Files |-> IF f \in to THEN BundleOf(job) ELSE @[f]]],
          answers, {c.file : c \in {d \in put : d.unguarded \/ Tree.overlay # head.overlay}})

InstallPatches(cs, answers) ==
  LET candidates == {Candidate(d, answers) : d \in {Chosen(n) : n \in cs}}
  IN  Installed({c \in candidates : ~c.held}, answers)

(***************************************************************************)
(* The end of a patch: its work is captured before its tree goes.          *)
(***************************************************************************)
Captured(t, onlyIfNonempty) ==
  \/ /\ changes' = [changes EXCEPT ![BundleOf(job)] =
                      IF onlyIfNonempty /\ EmptyDiff(Diff(t)) THEN @ ELSE Diff(t)]
     /\ missed' = missed \ {job} /\ Going
  \/ /\ Failing(1) /\ missed' = missed \cup {job}
     /\ changes' = [changes EXCEPT ![BundleOf(job)] = IF onlyIfNonempty THEN @ ELSE Tombstone]

Ended ==
  /\ pc = "run" /\ Kind(job) = "patch" /\ pc' = "teardown" /\ opened' = {}
  /\ UNCHANGED <<base, head, branches, link, job, snapshot, verdict, began, outlived>>

GiveUp == Ended /\ Captured(Tree, FALSE) /\ UNCHANGED trees

\* reconcile_orphaned_artifacts deletes the diffs/ files no op refers to.
Orphans(t) ==
  {f \in Present(t) : Plans(t.overlay) /\ ~InFolder(f) /\ f \notin ExplicitReads(t.overlay)}

Succeed ==
  LET t == [Tree EXCEPT !.files = [f \in Files |-> IF f \in Orphans(Tree) THEN None ELSE @[f]]]
  IN  Ended /\ Captured(t, FALSE) /\ SetTree(t)

\* As Raise, but nothing is captured.
RaiseUncaptured == Ended /\ Going /\ UNCHANGED <<changes, missed, trees>>

\* _rescue_work_on_raise
Raise == Ended /\ Captured(Tree, TRUE) /\ UNCHANGED trees

(***************************************************************************)
(* A verification: changes.diff replayed on a clean tree, and built.       *)
(***************************************************************************)
Replayable(b) == changes[b] \notin {None, Tombstone} /\ ~EmptyDiff(changes[b])

\* git apply --3way of a diff; it may conflict where upstream has moved on.
Merged(new, old, under) == IF new = old THEN under ELSE new
Applied(t, d) ==
  [cut |-> Merged(d.tree.cut, d.from, t.cut),
   overlay |-> Merged(d.tree.overlay, head.overlay, t.overlay),
   files |-> [f \in Files |-> Merged(d.tree.files[f], head.files[f], t.files[f])]]
Conflicts(t, d) == d.from # t.cut

Judged(b, t, on) == [bundle |-> b, diff |-> changes[b], tree |-> Applied(t, changes[b]), on |-> on]

Verify ==
  /\ pc = "begin" /\ Kind(job) = "verify" /\ pc' = "teardown"
  /\ LET b == BundleOf(job)
     IN  \/ /\ Replayable(b)
            /\ SetTree(Applied(Tree, changes[b])) /\ verdict' = Judged(b, Tree, began)
         \/ /\ Replayable(b) => Conflicts(Tree, changes[b])
            /\ UNCHANGED <<trees, verdict>>
  /\ UNCHANGED <<base, head, branches, link, job, changes, snapshot, bounds, history>>

(***************************************************************************)
(* destroy_job_worktree: the link goes back first.  A branch without       *)
(* commits of its own is dropped, and none has any.                        *)
(***************************************************************************)
Left == IF Kind(job) = "verify" \/ branches[job] = None THEN {} ELSE {job}

Teardown ==
  /\ pc = "teardown"
  /\ \/ link' = Main /\ pc' = "remove" /\ Going /\ UNCHANGED <<job, outlived>>
     \/ LinkFails /\ pc' = "idle" /\ job' = None /\ outlived' = outlived \cup Left
  /\ UNCHANGED <<base, head, branches, trees, artifacts, began, missed, opened>>

\* As Remove, but the branch of the job stays.
RemoveWorktree ==
  /\ pc = "remove" /\ pc' = "idle" /\ job' = None
  /\ trees' = [trees EXCEPT ![job] = None] /\ missed' = missed \ {job}
  /\ UNCHANGED <<base, head, branches, link, artifacts, bounds, began, outlived, opened>>

Remove ==
  /\ pc = "remove" /\ pc' = "idle" /\ job' = None
  /\ trees' = [trees EXCEPT ![job] = None] /\ branches' = [branches EXCEPT ![job] = None]
  /\ missed' = missed \ {job}
  /\ UNCHANGED <<base, head, link, artifacts, bounds, began, outlived, opened>>

(***************************************************************************)
(* The runner dies, and the next one sweeps before it claims a job.        *)
(***************************************************************************)
Crash ==
  /\ pc \notin {"idle", "down", "sweep"} /\ crashes < MaxCrashes
  /\ crashes' = crashes + 1 /\ pc' = "down" /\ job' = None
  /\ outlived' = outlived \cup Left /\ opened' = {}
  /\ UNCHANGED <<git, artifacts, jobs, edits, faults, began, missed>>

SweepLink ==
  /\ pc = "down"
  /\ \/ link' = Main /\ pc' = "sweep" /\ Going
     \/ LinkFails /\ pc' = "idle"
  /\ UNCHANGED <<base, head, branches, trees, job, artifacts, history>>

Sweep ==
  /\ pc = "sweep" /\ pc' = "idle"
  /\ trees' = [d \in Dirs \cup {Main} |-> IF d = Main THEN trees[Main] ELSE None]
  /\ missed' = {}
  /\ UNCHANGED <<base, head, branches, link, job, artifacts, bounds, began, outlived, opened>>

(***************************************************************************)
(* What else touches the checkouts: a triage's bootstrap, dev-env update,  *)
(* and, between jobs, an operator's verify-fix and reset-port.             *)
(***************************************************************************)
Aside == UNCHANGED <<job, pc, bounds, began>>

TriageBootstrap ==
  /\ pc = "idle" /\ link # None /\ Tree # None
  /\ Tree.overlay = Absent /\ Bootstrapped(Tree) # Tree
  /\ SetTree(Bootstrapped(Tree)) /\ Aside
  /\ UNCHANGED <<base, head, branches, link, artifacts, outlived, missed, opened>>

Update ==
  /\ base < MaxBase /\ Clean(trees[Main])
  /\ base' = base + 1 /\ trees' = [trees EXCEPT ![Main].cut = base + 1]
  /\ outlived' = outlived \cup {d \in {"patch"} \X Bundles : trees[d] # None}
  /\ Aside /\ UNCHANGED <<head, branches, link, artifacts, missed, opened>>

\* As VerifyByHand, but of a port that need not be clean.
VerifyDirtyByHand(b) ==
  /\ pc = "idle" /\ link # None /\ Tree # None /\ Replayable(b)
  /\ SetTree(Applied(Tree, changes[b])) /\ verdict' = Judged(b, Tree, Tree.cut) /\ Aside
  /\ missed' = missed \cup ({link} \ {Main})
  /\ UNCHANGED <<base, head, branches, link, changes, snapshot, outlived, opened>>

\* run_verify_fix from the command line has no worktree: it replays in PORTS_DIR.
VerifyByHand(b) ==
  /\ pc = "idle" /\ link # None /\ Tree # None /\ Clean(Tree) /\ Replayable(b)
  /\ SetTree(Applied(Tree, changes[b])) /\ verdict' = Judged(b, Tree, Tree.cut) /\ Aside
  /\ missed' = missed \cup ({link} \ {Main})
  /\ UNCHANGED <<base, head, branches, link, changes, snapshot, outlived, opened>>

ResetPort ==
  /\ pc = "idle" /\ link # None /\ Tree # None /\ Tree # Fresh(Tree.cut)
  /\ SetTree(Fresh(Tree.cut)) /\ Aside
  /\ UNCHANGED <<base, head, branches, link, artifacts, outlived, missed, opened>>

Tools ==
  /\ pc = "run" /\ edits < MaxEdits
  /\ \/ \E f \in Files, answers \in BOOLEAN : WriteFile(f, answers) \/ DeleteFile(f, answers)
     \/ \E o \in Overlays : WriteOverlay(o)
     \/ \E cs \in SUBSET Names \ {{}}, answers \in BOOLEAN : InstallPatches(cs, answers)

Next ==
  \/ \E d \in Dirs : Start(d)
  \/ AddWorktree \/ PointLink \/ Preflight
  \/ Tools \/ GiveUp \/ Succeed \/ Raise \/ Verify
  \/ Teardown \/ Remove \/ Crash \/ SweepLink \/ Sweep
  \/ TriageBootstrap \/ Update \/ (\E b \in Bundles : VerifyByHand(b)) \/ ResetPort

Spec == Init /\ [][Next]_vars
-----------------------------------------------------------------------------
Captures(b) == {changes[b], snapshot[b]} \ {None, Tombstone}

\* While a patch's tools may write, PORTS_DIR is that job's own tree, which
\* holds nothing of another job, and no artifact shows another bundle's work:
\* each job has a worktree of its own so that what a job leaves behind cannot
\* leak into the next one (create_job_worktree, _drop_bundle_branch_for_job).
WorkIsOwn ==
  /\ pc = "run" => link = job
  /\ pc = "run" => \A f \in Files : Tree.files[f] \in {None, "base", BundleOf(job)}
  /\ \A b \in Bundles : \A d \in Captures(b) : \A f \in Files : d.tree.files[f] \in {None, "base", b}

\* A patch's uncommitted work is never taken away before an artifact shows it:
\* the job's own teardown needs changes.diff, the sweep after the runner died
\* and the next job's clearing of a leftover may rely on the last snapshot.
\* What could not be captured or published is the exception, and so is a tree that only holds a replayed diff;
\* a bootstrap overlay is not work.
Shown(b) ==
  {Bootstrapped(d.tree) : d \in (IF pc = "remove" THEN {changes[b]} ELSE Captures(b)) \ {None}}

WorkIsKept ==
  [][\A b \in Bundles : LET d == <<"patch", b>> IN
       /\ trees[d] # None /\ trees'[d] # trees[d] /\ pc # "run"
       /\ pc # "begin" /\ Edited(trees[d])
       => d \in missed \/ Bootstrapped(trees[d]) \in Shown(b)]_vars

\* A captured diff is the job's own change.  git diff <base> of a branch cut
\* from an older commit also takes back what upstream did since: only a branch
\* that outlived its job, or a base that moved under one, may give such a diff
\* (_drop_bundle_branch_for_job exists to recut it).
DiffIsOwn ==
  [][\A b \in Bundles :
       changes'[b] \notin {changes[b], Tombstone} /\ Reverts(changes'[b])
       => <<"patch", b>> \in outlived]_vars

\* A verification judges exactly the bundle's diff on the base it was started
\* on, with nothing an earlier verification, a crash or another job left there.
VerdictIsOfDiff ==
  verdict # None => verdict.tree = Applied(Fresh(verdict.on), verdict.diff)

\* A job of one build line leaves the payload files that other lines install
\* or read as the base has them, unless a guard could not see what was there
\* when the job started, or install_patches writes where no guard looks.
SharedPayloadKept ==
  pc = "run" => \A f \in Files :
    Committed(f) /\ ReadAtHead(f) /\ f \notin opened => Tree.files[f] = "base"
=============================================================================

------------------------------ MODULE Compose ------------------------------
(***************************************************************************)
(* Composing a ports tree for one build line: upstream's ports with the    *)
(* overlays of the delta tree applied, into the live tree that dsynth      *)
(* builds from.  A full run composes every port into a scratch tree and    *)
(* reconciles it onto the live one; an --origin run composes the ports it  *)
(* names in place.  Between runs upstream moves, another branch of it is   *)
(* checked out and overlays are edited.                                    *)
(*                                                                         *)
(* A tree is a function from the origins it holds to their directories,    *)
(* whose files the ops of an overlay edit (ApplyEngine).                   *)
(***************************************************************************)
EXTENDS ApplyEngine

CONSTANTS
  Origins,
  Lines,          \* build lines; the branches of the FreeBSD checkout
  Target,         \* the line composed for
  NotGit,         \* a checkout that is no git work tree
  None,
  Locked,         \* the tree of --lock-root
  MkFiles,        \* the files system replacements rewrite
  Renames,        \* the names they replace, and by what
  Directories,    \* upstream directories
  Overlays,       \* the overlays each origin may be given
  Options,        \* the option sets runs are given
  Selections,     \* the ports --origin runs are given
  MaxChanges,     \* bound: changes of the inputs
  MaxFaults       \* bound: killed runs, failing writes and failing oracles

\* A directory is a function from file names; an overlay has ops and a payload.
IsDirectory(d) == d = [f \in DOMAIN d |-> d[f]]
IsOverlay(ov) ==
  /\ ov.mode \in {"dops", "compat"} /\ ov.type \in {"port", "dport", "lock", "mask", "invalid"}
  /\ ov.ops \in Seq(Range(ov.ops)) /\ IsFiniteSet(DOMAIN ov.payload)
  /\ ov.newport # None => IsDirectory(ov.newport)

ASSUME ComposeAssumption ==
  /\ Target \in Lines /\ NotGit \notin Lines /\ AnyLine \notin Lines
  /\ IsFiniteSet(Origins)
  /\ Directories # {} /\ None \notin Directories /\ \A d \in Directories : IsDirectory(d)
  /\ \A o \in DOMAIN Locked : IsDirectory(Locked[o])
  /\ \A o \in Origins : \A ov \in Overlays[o] : IsOverlay(ov)
  /\ Options \subseteq SUBSET {"dry", "strict", "prune"}
  /\ Selections \subseteq SUBSET Origins
  /\ MaxChanges \in Nat /\ MaxFaults \in Nat

VARIABLES
  upstream,  \* each line's ports tree
  checkout,  \* the branch in --freebsd-root
  overlays,  \* the delta tree: each overlay it has
  marked,    \* the origins whose overlay.toml lists Target in removed_in
  live,      \* the output tree, or None before the first run
  run,       \* the options of the run, or None
  stage,
  todo,      \* the origins the stage has still to do
  scratch,   \* the tree a full run writes
  ctxs,      \* what preflight decided about each origin
  failed,    \* the run has recorded an error
  leaked,    \* history: the only one is of the scan for patch artifacts
  apply,     \* the apply run of the first origin of todo, or None
  direct,    \* history: its directory, had each op edited it in place
  saved,     \* history: ... as of the last time the transaction was written
  changes, faults

inputs == <<upstream, checkout, overlays>>
engine == <<apply, direct, saved>>
bounds == <<changes, faults>>
vars == <<inputs, marked, live, run, stage, todo, scratch, ctxs, failed, leaked, engine, bounds>>

PortIn(tree, o) == IF o \in DOMAIN tree THEN tree[o] ELSE None

\* freebsd_root; a checkout that is no work tree has some line's files.
CheckedOut == upstream[IF checkout = NotGit THEN Target ELSE checkout]
Present == DOMAIN CheckedOut

Init ==
  /\ upstream \in [Lines -> {[o \in Origins |-> CHOOSE d \in Directories : TRUE]}]
  /\ checkout = Target
  /\ overlays \in UNION {{f \in [S -> UNION {Overlays[o] : o \in S}] : \A o \in S : f[o] \in Overlays[o]} :
                           S \in SUBSET Origins}
  /\ marked = {} /\ live = None
  /\ run = None /\ stage = "idle" /\ todo = <<>> /\ scratch = Empty /\ ctxs = Empty
  /\ failed = FALSE /\ leaked = FALSE /\ apply = None /\ direct = Empty /\ saved = Empty
  /\ changes = 0 /\ faults = 0

Fault == faults < MaxFaults /\ faults' = faults + 1 /\ UNCHANGED changes

(***************************************************************************)
(* The inputs.                                                             *)
(***************************************************************************)
Change ==
  /\ stage = "idle" /\ changes < MaxChanges /\ changes' = changes + 1
  /\ UNCHANGED <<live, run, stage, todo, scratch, ctxs, failed, leaked, engine, faults>>

UpstreamMoves(l, o) ==
  /\ \/ o \in DOMAIN upstream[l] /\ upstream' = [upstream EXCEPT ![l] = Drop(@, {o})]
     \/ \E d \in Directories \ {PortIn(upstream[l], o)} :
          upstream' = [upstream EXCEPT ![l] = Put(@, o, d)]
  /\ Change /\ UNCHANGED <<checkout, overlays, marked>>

Switch(c) ==
  /\ c # checkout /\ checkout' = c
  /\ Change /\ UNCHANGED <<upstream, overlays, marked>>

\* An edit keeps overlay.toml; the removal of an overlay takes it along.
EditOverlay(o) ==
  /\ \/ \E ov \in Overlays[o] \ {PortIn(overlays, o)} :
          overlays' = Put(overlays, o, ov) /\ UNCHANGED marked
     \/ o \in DOMAIN overlays /\ overlays' = Drop(overlays, {o}) /\ marked' = marked \ {o}
  /\ Change /\ UNCHANGED <<upstream, checkout>>

(***************************************************************************)
(* A run and its output.                                                   *)
(***************************************************************************)
Full == run.kind = "full"
Output == IF Full THEN scratch ELSE live
SetOutput(tree) ==
  IF run.dry THEN UNCHANGED <<scratch, live>>
  ELSE IF Full THEN scratch' = tree /\ UNCHANGED live
  ELSE live' = tree /\ UNCHANGED scratch

GoOn(next, origins) == stage' = next /\ todo' = SetToSeq(origins)

\* _record_stage: a strict run ends with the stage that failed.
Goto(next, origins) ==
  IF run.strict /\ failed' THEN stage' = "done" /\ todo' = <<>>
  ELSE stage' = next /\ todo' = SetToSeq(origins)

Start(kind, sel) ==
  /\ stage = "idle" /\ stage' = "seed"
  /\ \E opts \in Options :
       run' = [kind |-> kind, sel |-> sel, dry |-> "dry" \in opts,
               strict |-> "strict" \in opts, prune |-> "prune" \in opts]
  /\ UNCHANGED <<inputs, marked, live, todo, scratch, ctxs, failed, leaked, engine, bounds>>

Seed ==
  /\ stage = "seed"
  /\ failed' = (~Full /\ live = None)
  /\ scratch' = IF Full /\ ~run.dry THEN CheckedOut ELSE Empty
  /\ stage' = IF failed' THEN "done" ELSE "preflight"
  /\ UNCHANGED <<inputs, marked, live, run, todo, ctxs, leaked, engine, bounds>>

(***************************************************************************)
(* Preflight: which overlays are stale, and the marks of the delta tree.   *)
(***************************************************************************)
Chosen == IF Full THEN DOMAIN overlays ELSE run.sel
OnBranch == checkout = Target
MarksFromAnyBranch == ~run.dry /\ Full
MayMark == ~run.dry /\ Full /\ OnBranch     \* the delta-write rule

Ctx(o) ==
  LET plain == [mode |-> "compat", type |-> "port", stale |-> FALSE, removed |-> FALSE] IN
  IF o \notin DOMAIN overlays THEN plain
  ELSE LET ov == overlays[o] IN
  IF checkout = NotGit THEN [plain EXCEPT !.mode = ov.mode]
  ELSE IF o \in marked \ Present THEN [plain EXCEPT !.mode = ov.mode, !.removed = TRUE]
  ELSE [mode |-> ov.mode, removed |-> FALSE,
        type |-> IF ov.type = "invalid" THEN "port" ELSE ov.type,
        stale |-> ov.type = "port" /\ o \notin Present]

Skipped(o) == ctxs[o].removed \/ ctxs[o].stale

Preflight ==
  LET known == {o \in Chosen : o \in DOMAIN overlays \/ (checkout # NotGit /\ o \in Present)}
      ctx == [o \in known |-> Ctx(o)]
      stale == {o \in known : ctx[o].stale}
      invalid == {o \in known \cap DOMAIN overlays :
                    overlays[o].type = "invalid" /\ ~ctx[o].removed}
  IN
  /\ stage = "preflight"
  /\ ctxs' = ctx
  /\ failed' = \/ ~OnBranch \/ invalid # {} \/ known # Chosen
               \/ (stale # {} /\ ~run.prune)
  /\ marked' = IF MayMark THEN (marked \ Present) \cup stale ELSE marked
  /\ Goto("prune", {})
  /\ UNCHANGED <<inputs, live, run, scratch, leaked, engine, bounds>>

Prune ==
  /\ stage = "prune"
  /\ SetOutput(IF run.prune THEN Drop(Output, {o \in DOMAIN ctxs : ctxs[o].stale}) ELSE Output)
  /\ stage' = "semantic" /\ todo' = SetToSeq(DOMAIN ctxs)
  /\ UNCHANGED <<inputs, marked, run, ctxs, failed, leaked, engine, bounds>>

(***************************************************************************)
(* materialize_plan_type: the directory a port of each type starts from.   *)
(***************************************************************************)
Source(o, type) ==
  CASE type = "dport" -> overlays[o].newport
    [] type = "lock" -> PortIn(Locked, o)
    [] OTHER -> PortIn(CheckedOut, o)

\* The stage goes on with the next origin, or ends a strict run that failed.
NextPort ==
  IF run.strict /\ failed' THEN stage' = "done" /\ todo' = <<>>
  ELSE todo' = Tail(todo) /\ UNCHANGED stage

(***************************************************************************)
(* apply_semantic_ops.                                                     *)
(***************************************************************************)
AtPort(s) == stage = s /\ todo # <<>> /\ apply = None

SkipSemantic ==
  /\ AtPort("semantic")
  /\ Skipped(Head(todo)) \/ ctxs[Head(todo)].mode # "dops"
  /\ todo' = Tail(todo)
  /\ UNCHANGED <<inputs, marked, live, run, stage, scratch, ctxs, failed, leaked, engine, bounds>>

\* The seed of a full run already holds the directory of a type port.
Seeded(o) == ctxs[o].type = "port" /\ Full

Materialize ==
  LET o == Head(todo)
      type == ctxs[o].type
      dir == IF Seeded(o) /\ ~run.dry THEN PortIn(Output, o) ELSE Source(o, type)
      missing == dir = None
  IN
  /\ AtPort("semantic") /\ ~Skipped(o) /\ ctxs[o].mode = "dops"
  /\ IF type = "mask"
     THEN SetOutput(Drop(Output, {o})) /\ UNCHANGED failed /\ NextPort /\ UNCHANGED engine
     ELSE
       /\ SetOutput(IF missing THEN Output ELSE Put(Output, o, dir))
       /\ failed' = (failed \/ missing \/ overlays[o].type = "invalid")
       /\ IF missing \/ overlays[o].type = "invalid"
          THEN NextPort /\ UNCHANGED engine
          ELSE /\ apply' = [txn |-> Begin(dir), failed |-> FALSE,
                            steps |-> Steps(overlays[o].ops, overlays[o].payload, Target)]
               /\ direct' = View(Begin(dir)) /\ saved' = dir
               /\ UNCHANGED <<todo, stage>>
  /\ UNCHANGED <<inputs, marked, run, ctxs, leaked, bounds>>

\* The apply run leaves the port's directory as dir.
Leave(dir, ok) ==
  /\ apply' = None /\ direct' = Empty /\ saved' = Empty
  /\ failed' = (failed \/ ~ok)
  /\ SetOutput(Put(Output, Head(todo), dir))
  /\ NextPort
  /\ UNCHANGED <<inputs, marked, run, ctxs, leaked>>

Payload == overlays[Head(todo)].payload

ApplyOp ==
  LET op == Head(apply.steps)
      result == Exec(op, apply.txn, Payload, run.dry)
  IN
  /\ apply # None /\ apply.steps # <<>>
  /\ IF run.strict /\ result.status = "failed"
     THEN Leave(Rollback(result.txn).disk, FALSE)
     ELSE
       /\ apply' = [txn |-> result.txn, steps |-> Tail(apply.steps),
                    failed |-> apply.failed \/ result.status = "failed"]
       /\ direct' = Direct(op, direct, Payload)
       /\ saved' = IF op.kind = "patch.apply" /\ op.src \in DOMAIN Payload
                   THEN direct' ELSE saved
       /\ UNCHANGED <<inputs, marked, live, run, stage, todo, scratch, ctxs, failed, leaked>>
  /\ UNCHANGED bounds

Commit ==
  /\ apply # None /\ apply.steps = <<>>
  /\ Leave(Written(apply.txn), ~apply.failed)
  /\ UNCHANGED bounds

\* bmake rejects the result: rolled back by a strict run and by the ci profile.
OracleFails ==
  /\ apply # None /\ apply.steps = <<>> /\ ~apply.failed /\ Fault
  /\ \/ Leave(Rollback(apply.txn).disk, FALSE)
     \/ ~run.strict /\ Leave(Written(apply.txn), FALSE)

\* A commit or a flush stops at a file it cannot write.
WriteFails ==
  LET t == apply.txn
      staged == DOMAIN t.texts \cup DOMAIN t.bytes \cup t.removes
      full == Written(t)
  IN
  /\ apply # None /\ ~run.dry /\ Fault
  /\ apply.steps # <<>> =>
       Head(apply.steps).kind = "patch.apply" /\ Head(apply.steps).src \in DOMAIN Payload
  /\ \E done \in SUBSET staged :
       /\ done # staged
       /\ Leave([f \in (DOMAIN full \cap done) \cup (DOMAIN t.disk \ done) |->
                   IF f \in done THEN full[f] ELSE t.disk[f]], FALSE)

EndSemantic ==
  /\ stage = "semantic" /\ todo = <<>>
  /\ stage' = "compat" /\ todo' = SetToSeq(DOMAIN ctxs)
  /\ UNCHANGED <<inputs, marked, live, run, scratch, ctxs, failed, leaked, engine, bounds>>

(***************************************************************************)
(* apply_compat_ops: run_compat_merge edits the directory itself.          *)
(***************************************************************************)
CompatPayload(ov, dir) ==
  LET flat == {n \in DOMAIN ov.payload : ov.payload[n].lane = AnyLine} IN
  Over([f \in {ov.payload[n].dst : n \in flat} |->
          ov.payload[CHOOSE n \in flat : ov.payload[n].dst = f].body], dir)

CompatMerge(ov, dir) ==
  FoldLeft(LAMBDA acc, hunks : [dir |-> Patched(acc.dir, hunks),
                                ok |-> acc.ok /\ PatchStatus(acc.dir, hunks) = "applied"],
           [dir |-> Drop(CompatPayload(ov, dir), ov.removes), ok |-> TRUE],
           ov.patches)

\* A dry run tries each patch on the source.
DryMerge(ov, dir) ==
  [dir |-> dir,
   ok |-> \A i \in DOMAIN ov.patches : PatchStatus(dir, ov.patches[i]) = "applied"]

Merged(o, dir) ==
  IF ctxs[o].type # "port" \/ o \notin DOMAIN overlays THEN [dir |-> dir, ok |-> TRUE]
  ELSE IF run.dry THEN DryMerge(overlays[o], dir) ELSE CompatMerge(overlays[o], dir)

Compat ==
  LET o == Head(todo)
      source == Source(o, ctxs[o].type)
  IN
  /\ AtPort("compat")
  /\ IF Skipped(o) \/ ctxs[o].mode # "compat"
       THEN UNCHANGED <<failed, scratch, live>>
     ELSE IF ctxs[o].type = "mask"
       THEN SetOutput(Drop(Output, {o})) /\ UNCHANGED failed
     ELSE IF source = None
       THEN failed' = TRUE /\ UNCHANGED <<scratch, live>>
     ELSE /\ SetOutput(Put(Output, o, Merged(o, source).dir))
          /\ failed' = (failed \/ ~Merged(o, source).ok)
  /\ NextPort
  /\ UNCHANGED <<inputs, marked, run, ctxs, leaked, engine, bounds>>

EndCompat ==
  /\ stage = "compat" /\ todo = <<>> /\ stage' = "system"
  /\ UNCHANGED <<inputs, marked, live, run, todo, scratch, ctxs, failed, leaked, engine, bounds>>

(***************************************************************************)
(* apply_system_replacements, finalize_tree and reconcile_output.          *)
(***************************************************************************)
Renamed(l) == IF l[1] \in DOMAIN Renames THEN <<Renames[l[1]], l[2]>> ELSE l

Replaced(dir) ==
  [f \in DOMAIN dir |->
     LET lines == [i \in DOMAIN dir[f].lines |-> Renamed(dir[f].lines[i])] IN
     IF f \in MkFiles /\ dir[f].form # "raw" /\ lines # dir[f].lines
     THEN Rewritten(lines) ELSE dir[f]]

SystemReplacements ==
  /\ stage = "system" /\ stage' = "finalize"
  /\ SetOutput([o \in DOMAIN Output |->
                 IF Full \/ o \in run.sel THEN Replaced(Output[o]) ELSE Output[o]])
  /\ UNCHANGED <<inputs, marked, run, todo, ctxs, failed, leaked, engine, bounds>>

KeepLocked == {o \in DOMAIN ctxs : ctxs[o].type = "lock"}
KeepExtra == {o \in DOMAIN ctxs : ctxs[o].type \in {"dport", "lock"}}

\* find_patch_artifacts meets a *.orig or a *.rej, or does not, and the run reconciles all
\* the same: run_compose adds this stage as it is, without _record_stage.
Finalize ==
  /\ stage = "finalize"
  /\ IF Full
     THEN SetOutput(Drop(Output, DOMAIN Output \ (Present \cup KeepExtra)))
     ELSE UNCHANGED <<scratch, live>>
  /\ \/ UNCHANGED <<failed, leaked>>
     \/ ~run.dry /\ failed' = TRUE /\ leaked' = ~failed
  /\ stage' = IF Full /\ ~run.dry THEN "reconcile" ELSE "done"
  /\ UNCHANGED <<inputs, marked, run, todo, ctxs, engine, bounds>>

BeginReconcile ==
  /\ stage = "reconcile" /\ stage' = "mirror"
  /\ live' = IF live = None THEN Empty ELSE live
  /\ todo' = SetToSeq(DOMAIN live' \cup DOMAIN scratch)
  /\ UNCHANGED <<inputs, marked, run, scratch, ctxs, failed, leaked, engine, bounds>>

Mirror ==
  /\ AtPort("mirror")
  /\ LET o == Head(todo) IN
     live' = IF o \in DOMAIN scratch THEN Put(live, o, scratch[o]) ELSE Drop(live, {o})
  /\ todo' = Tail(todo)
  /\ UNCHANGED <<inputs, marked, run, stage, scratch, ctxs, failed, leaked, engine, bounds>>

EndReconcile ==
  /\ stage = "mirror" /\ todo = <<>> /\ stage' = "done"
  /\ UNCHANGED <<inputs, marked, live, run, todo, scratch, ctxs, failed, leaked, engine, bounds>>

\* A file cannot be written: the live tree keeps what was mirrored before it.
ReconcileFails ==
  /\ AtPort("mirror") /\ Fault
  /\ failed' = TRUE /\ todo' = <<>> /\ stage' = "done"
  /\ UNCHANGED <<inputs, marked, live, run, scratch, ctxs, leaked, engine>>

AtRest ==
  /\ run' = None /\ stage' = "idle" /\ todo' = <<>> /\ scratch' = Empty
  /\ ctxs' = Empty /\ failed' = FALSE /\ leaked' = FALSE
  /\ apply' = None /\ direct' = Empty /\ saved' = Empty
  /\ UNCHANGED <<inputs, marked>>

Return == stage = "done" /\ AtRest /\ UNCHANGED <<live, bounds>>

\* A killed run leaves what it wrote; a full one wrote to its scratch tree.
Killed ==
  /\ stage \notin {"idle", "done"} /\ Fault /\ AtRest
  /\ live' = IF apply # None /\ ~Full /\ ~run.dry
             THEN Put(live, Head(todo), apply.txn.disk) ELSE live

Next ==
  \/ \E l \in Lines, o \in Origins : UpstreamMoves(l, o)
  \/ \E c \in Lines \cup {NotGit} : Switch(c)
  \/ \E o \in Origins : EditOverlay(o)
  \/ Start("full", {})
  \/ \E sel \in Selections : Start("origin", sel)
  \/ Seed \/ Preflight \/ Prune
  \/ SkipSemantic \/ Materialize \/ ApplyOp \/ Commit \/ OracleFails \/ WriteFails
  \/ EndSemantic
  \/ Compat \/ EndCompat
  \/ SystemReplacements \/ Finalize \/ BeginReconcile \/ Mirror \/ EndReconcile
  \/ ReconcileFails \/ Return \/ Killed

Spec == Init /\ [][Next]_vars

(***************************************************************************)
(* Properties.                                                             *)
(***************************************************************************)
\* Every op works on what the ops before it left: while a port is applied,
\* what its transaction stands for is the directory edited op by op with
\* nothing buffered, and the disk has exactly what the last patch flushed
\* (fsops.py, and the flush of patch.apply).  A dry run's patch reads the
\* unflushed disk, which flush_pending documents.
BufferIsDirect ==
  apply # None /\ ~run.dry => View(apply.txn) = direct /\ apply.txn.disk = saved

\* The directory after each number of the steps.
After(dir, steps, payload) ==
  LET after[i \in 0..Len(steps)] ==
        IF i = 0 THEN dir ELSE Direct(steps[i], after[i - 1], payload)
  IN  after

\* What the inputs promise for one port: its source with its overlay applied
\* once, op by op in the order of the line, and then the system replacements.
Ideal(o) ==
  LET up == PortIn(upstream[Target], o)
      ov == overlays[o]
      base == CASE ov.type = "dport" -> ov.newport
                [] ov.type = "lock" -> PortIn(Locked, o)
                [] OTHER -> up
      steps == Steps(ov.ops, ov.payload, Target)
      applied == IF ov.mode = "dops" THEN After(base, steps, ov.payload)[Len(steps)]
                 ELSE IF ov.type = "port" THEN CompatMerge(ov, base).dir ELSE base
  IN
  IF o \notin DOMAIN overlays THEN IF up = None THEN None ELSE Replaced(up)
  ELSE IF ov.type = "mask" \/ base = None \/ (o \in marked /\ up = None) THEN None
  ELSE Replaced(applied)

\* A run that reports no error leaves each port it covers exactly as the
\* inputs promise, whatever the live tree held before: nothing is applied
\* twice, and nothing of an earlier overlay, of a killed run or of another
\* branch survives.  An --origin run does not touch a port that is marked
\* as removed (run_compose, the stages, reconcile).
ComposedIsIdeal ==
  stage = "done" /\ ~failed /\ ~run.dry =>
    \A o \in IF Full THEN Origins ELSE {s \in run.sel : ~ctxs[s].removed} :
      PortIn(live, o) = Ideal(o)

\* A strict full run that has failed never touches the live tree, whichever stage the
\* error came from, unless the scan of the finished tree for patch artifacts was the first
\* to find one: its stage is added without the strict gate (_record_stage, the scratch tree
\* of run_compose, and compose.py:289-294).
StrictFailureKeepsLive ==
  [][run # None /\ Full /\ run.strict /\ failed /\ ~leaked => UNCHANGED live]_vars

\* A mark of removal is only written when the port is gone from the branch
\* of the build line, and only dropped when it is back there or its overlay
\* is deleted; whatever is checked out, and whoever runs (the delta-write
\* rule of preflight_stage).
MarksAreTrue ==
  [][\A o \in Origins :
       /\ o \in marked' \ marked => o \notin DOMAIN upstream[Target]
       /\ o \in marked \ marked' => \/ o \in DOMAIN upstream[Target]
                                    \/ o \notin DOMAIN overlays']_vars

\* Said of every error of a strict run, the scan's too: false, for it is reconciled
\* (compose_stages.py:1344-1353, compose.py:289-294).
EveryStrictFailureKeepsLive ==
  [][run # None /\ Full /\ run.strict /\ failed => UNCHANGED live]_vars
=============================================================================

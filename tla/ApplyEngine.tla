---------------------------- MODULE ApplyEngine ----------------------------
(***************************************************************************)
(* How the ops of one overlay.dops edit one port's directory: the file     *)
(* transaction they write through, what each kind of op does to the file   *)
(* it reads, and the order in which a build line runs them.                *)
(*                                                                         *)
(* A directory is a function from the names of its files to contents.  A   *)
(* content is a sequence of lines and the form of its bytes: "lf", "crlf", *)
(* or "raw" when it is no UTF-8.  A line is a pair <<name, number>>; an    *)
(* assignment is the line of its variable and value.                       *)
(***************************************************************************)
EXTENDS SequencesExt

CONSTANT AnyLine  \* the scope of an op outside every target block

Empty == [f \in {} |-> {}]
Put(dir, f, c) == [g \in DOMAIN dir \cup {f} |-> IF g = f THEN c ELSE dir[g]]
Drop(dir, fs) == [g \in DOMAIN dir \ fs |-> dir[g]]
Over(new, dir) ==
  [g \in DOMAIN dir \cup DOMAIN new |-> IF g \in DOMAIN new THEN new[g] ELSE dir[g]]

(***************************************************************************)
(* FileTransaction: text writes, byte writes and removals staged over a    *)
(* directory.                                                              *)
(***************************************************************************)
Begin(dir) == [disk |-> dir, texts |-> Empty, bytes |-> Empty, removes |-> {}]

Exists(t, f) ==
  \/ f \in DOMAIN t.texts \cup DOMAIN t.bytes
  \/ f \notin t.removes /\ f \in DOMAIN t.disk

\* What read_text decodes; the caller has seen that the file exists.
ReadText(t, f) ==
  IF f \in DOMAIN t.texts THEN t.texts[f]
  ELSE IF f \in DOMAIN t.bytes THEN t.bytes[f] ELSE t.disk[f]

StageWrite(t, f, c) ==
  [t EXCEPT !.texts = Put(@, f, c), !.bytes = Drop(@, {f}), !.removes = @ \ {f}]
StageWriteBytes(t, f, c) ==
  [t EXCEPT !.bytes = Put(@, f, c), !.texts = Drop(@, {f}), !.removes = @ \ {f}]
StageRemove(t, f) ==
  [t EXCEPT !.removes = @ \cup {f}, !.texts = Drop(@, {f}), !.bytes = Drop(@, {f})]

\* The directory once every staged change is written: texts, bytes, then removals.
Written(t) == Drop(Over(t.bytes, Over(t.texts, t.disk)), t.removes)

KeepPending(t) == t
FlushPending(t) == Begin(Written(t))
Rollback(t) == Begin(t.disk)

\* What the transaction stands for: the directory every later op should see.
View(t) ==
  [f \in DOMAIN t.texts \cup DOMAIN t.bytes \cup (DOMAIN t.disk \ t.removes) |->
     ReadText(t, f)]

(***************************************************************************)
(* What an op makes of the file it reads.                                  *)
(***************************************************************************)
Rewritten(lines) == [lines |-> lines, form |-> "lf"]
Decoded(c) == Rewritten(c.lines)     \* read_text makes every line end "\n"

At(lines, l) == {i \in DOMAIN lines : lines[i] = l}
Assigned(lines, var) == {i \in DOMAIN lines : lines[i][1] = var}
Spliced(lines, i, new) == SubSeq(lines, 1, i - 1) \o new \o SubSeq(lines, i, Len(lines))
Includes(lines) == {i \in DOMAIN lines : lines[i][1] = "include"}

\* _write_assignment without a line to replace: above the first .include.
NewAssignment(lines, l) ==
  IF Includes(lines) = {} THEN Append(lines, l)
  ELSE Spliced(lines, Min(Includes(lines)), <<l>>)

Applied(lines) == [status |-> "applied", lines |-> lines]
Not(status) == [status |-> status, lines |-> <<>>]
OnMissing(op) == Not(IF op.missing = "error" THEN "failed" ELSE "skipped")

LineRemove(op, lines) ==
  IF At(lines, op.old) = {} THEN OnMissing(op)
  ELSE Applied(RemoveAt(lines, Min(At(lines, op.old))))

LineInsertAfter(op, lines) ==
  IF At(lines, op.old) = {} THEN OnMissing(op)
  ELSE Applied(Spliced(lines, Min(At(lines, op.old)) + 1, <<op.new>>))

ReplaceOnce(op, lines) ==
  LET hits == At(lines, op.old) IN
  IF hits = {} THEN OnMissing(op)
  ELSE IF Cardinality(hits) > 1 THEN Not("failed")
  ELSE Applied([lines EXCEPT ![Min(hits)] = op.new])

VarSet(op, lines) ==
  LET hits == Assigned(lines, op.new[1]) IN
  IF Cardinality(hits) > 1 THEN Not("failed")
  ELSE IF hits = {} THEN Applied(NewAssignment(lines, op.new))
  ELSE Applied([lines EXCEPT ![Min(hits)] = op.new])

\* op.new is the variable and the amount.  Without an assignment of it, an
\* included file may hold one.
VarBump(op, lines) ==
  LET hits == Assigned(lines, op.new[1]) IN
  IF Cardinality(hits) > 1 THEN Not("failed")
  ELSE IF hits # {}
    THEN Applied([lines EXCEPT ![Min(hits)] = <<@[1], @[2] + op.new[2]>>])
  ELSE IF Includes(lines) # {} THEN Not("failed")
  ELSE Applied(NewAssignment(lines, op.new))

Edits == {"text.line_remove", "text.line_insert_after", "text.replace_once",
          "mk.var.set", "mk.var.bump"}

Edited(op, lines) ==
  CASE op.kind = "text.line_remove" -> LineRemove(op, lines)
    [] op.kind = "text.line_insert_after" -> LineInsertAfter(op, lines)
    [] op.kind = "text.replace_once" -> ReplaceOnce(op, lines)
    [] op.kind = "mk.var.set" -> VarSet(op, lines)
    [] op.kind = "mk.var.bump" -> VarBump(op, lines)

\* A bump of a missing Makefile fails whatever the op's on-missing says.
NoSubject(op) ==
  IF op.kind \in {"mk.var.bump", "file.copy"} THEN Not("failed") ELSE OnMissing(op)

\* patch(1): each hunk that fits its file is applied, and one that does not fails
\* the run without undoing the others.
Fits(dir, h) == /\ h.file \in DOMAIN dir /\ dir[h.file].form = "lf"
                /\ At(dir[h.file].lines, h.old) # {}
Patched(dir, hunks) ==
  [f \in DOMAIN dir |->
     IF \E h \in hunks : h.file = f /\ Fits(dir, h)
     THEN LET h == CHOOSE h \in hunks : h.file = f /\ Fits(dir, h)
              first == Min(At(dir[f].lines, h.old))
          IN  [dir[f] EXCEPT !.lines[first] = h.new]
     ELSE dir[f]]
PatchStatus(dir, hunks) ==
  IF \A h \in hunks : Fits(dir, h) THEN "applied" ELSE "failed"

(***************************************************************************)
(* One step of an apply run on a transaction.  A step is an op or, with    *)
(* the kind "install", a file the dragonfly/ folder installs.              *)
(***************************************************************************)
Result(status, t) == [status |-> status, txn |-> t]

ExecText(op, t) ==
  IF ~Exists(t, op.file) THEN Result(NoSubject(op).status, t)
  ELSE LET c == ReadText(t, op.file) IN
  IF c.form = "raw" THEN Result("failed", t)
  ELSE LET e == Edited(op, c.lines) IN
  Result(e.status,
         IF e.status = "applied"
         THEN StageWrite(t, op.file, Rewritten(e.lines)) ELSE t)

ExecCopy(op, t) ==
  IF ~Exists(t, op.src) THEN Result(NoSubject(op).status, t)
  ELSE IF ReadText(t, op.src).form = "raw" THEN Result("failed", t)
  ELSE Result("applied", StageWrite(t, op.file, Decoded(ReadText(t, op.src))))

ExecMaterialize(op, t, payload) ==
  IF op.src \notin DOMAIN payload THEN Result("failed", t)
  ELSE Result("applied", StageWriteBytes(t, op.file, payload[op.src].body))

ExecRemove(op, t) ==
  IF Exists(t, op.file) THEN Result("applied", StageRemove(t, op.file))
  ELSE Result(OnMissing(op).status, t)

ExecPatch(op, t, payload, dry) ==
  IF op.src \notin DOMAIN payload THEN Result("failed", t)
  ELSE LET hunks == payload[op.src].hunks IN
  IF dry THEN Result(PatchStatus(t.disk, hunks), t)
  ELSE LET flushed == FlushPending(t) IN
       Result(PatchStatus(flushed.disk, hunks),
              [flushed EXCEPT !.disk = Patched(@, hunks)])

Exec(op, t, payload, dry) ==
  CASE op.kind \in Edits -> ExecText(op, t)
    [] op.kind = "file.copy" -> ExecCopy(op, t)
    [] op.kind \in {"install", "file.materialize"} -> ExecMaterialize(op, t, payload)
    [] op.kind = "file.remove" -> ExecRemove(op, t)
    [] op.kind = "patch.apply" -> ExecPatch(op, t, payload, dry)
    [] OTHER -> Result("failed", t)

(***************************************************************************)
(* The order of the steps (order_ops_for_target, with_folder_installs).    *)
(***************************************************************************)
ExplicitReads(ops) ==
  {ops[i].src : i \in {j \in DOMAIN ops : ops[j].kind \in {"file.materialize", "patch.apply"}}}

Installs(ops, payload, scope) ==
  LET names == {n \in DOMAIN payload \ ExplicitReads(ops) : payload[n].lane = scope} IN
  [i \in 1..Cardinality(names) |->
     [kind |-> "install", scope |-> scope, src |-> SetToSeq(names)[i],
      file |-> payload[SetToSeq(names)[i]].dst]]

OpsOf(ops, scope) ==
  LET kept[i \in 0..Len(ops)] ==
        IF i = 0 THEN <<>>
        ELSE IF ops[i].scope = scope THEN Append(kept[i - 1], ops[i]) ELSE kept[i - 1]
  IN  kept[Len(ops)]

\* The ops of other build lines are skipped.
Steps(ops, payload, target) ==
  Installs(ops, payload, AnyLine) \o OpsOf(ops, AnyLine)
    \o Installs(ops, payload, target) \o OpsOf(ops, target)

(***************************************************************************)
(* What the same step means on a directory with no transaction between.    *)
(***************************************************************************)
Direct(op, dir, payload) ==
  LET reads == IF op.kind = "file.copy" THEN op.src ELSE op.file
      text == reads \in DOMAIN dir /\ dir[reads].form # "raw"
  IN
  CASE op.kind \in {"install", "file.materialize"} ->
         IF op.src \in DOMAIN payload THEN Put(dir, op.file, payload[op.src].body) ELSE dir
    [] op.kind = "file.remove" -> Drop(dir, {op.file})
    [] op.kind = "file.copy" ->
         IF text THEN Put(dir, op.file, Decoded(dir[op.src])) ELSE dir
    [] op.kind = "patch.apply" ->
         IF op.src \in DOMAIN payload THEN Patched(dir, payload[op.src].hunks) ELSE dir
    [] op.kind \in Edits ->
         LET e == Edited(op, dir[op.file].lines) IN
         IF text /\ e.status = "applied"
         THEN Put(dir, op.file, Rewritten(e.lines)) ELSE dir
    [] OTHER -> dir
=============================================================================

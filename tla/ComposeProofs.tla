---------------------------- MODULE ComposeProofs ----------------------------
(***************************************************************************)
(* Proofs about Compose and the engine under it, for any ports, overlays,  *)
(* payloads, build lines, option sets, changes of the inputs and faults.   *)
(* What one op makes of a file's lines is left opaque; what is proved of   *)
(* it is that it works on the directory the ops before it left, that each  *)
(* stage does its part of every port once, and who may write what.         *)
(*                                                                         *)
(* The two recursive functions of the model, the ops of a line (OpsOf) and *)
(* the directory after each step (After), are unrolled by hand: a prefix   *)
(* of the function exists for every length, or there is a least length     *)
(* without one.                                                            *)
(***************************************************************************)
EXTENDS Compose, TLAPS, FiniteSetTheorems, SequenceTheorems, WellFoundedInduction

USE DEF inputs, engine, bounds, vars

(***************************************************************************)
(* Directories and the transaction over one.                               *)
(***************************************************************************)
\* A file is staged in one way at most.
Staging(t) ==
  /\ DOMAIN t.texts \cap DOMAIN t.bytes = {}
  /\ t.removes \cap (DOMAIN t.texts \cup DOMAIN t.bytes) = {}

Txn(t) == t = [disk |-> t.disk, texts |-> t.texts, bytes |-> t.bytes, removes |-> t.removes]

LEMMA ViewShape ==
  ASSUME NEW t
  PROVE  /\ DOMAIN View(t) = DOMAIN t.texts \cup DOMAIN t.bytes \cup (DOMAIN t.disk \ t.removes)
         /\ \A f : f \in DOMAIN View(t) <=> Exists(t, f)
         /\ \A f \in DOMAIN View(t) : View(t)[f] = ReadText(t, f)
         /\ View(t) = [f \in DOMAIN View(t) |-> View(t)[f]]
  BY DEF View, Exists

\* Writing everything that is staged gives the directory the transaction stands
\* for (commit and flush_pending of fsops.py).
LEMMA WrittenIsView ==
  ASSUME NEW t, Staging(t)
  PROVE  Written(t) = View(t)
<1> DEFINE all == DOMAIN t.texts \cup DOMAIN t.bytes \cup DOMAIN t.disk
<1>1. /\ DOMAIN Over(t.texts, t.disk) = DOMAIN t.disk \cup DOMAIN t.texts
      /\ \A g \in DOMAIN t.disk \cup DOMAIN t.texts :
           Over(t.texts, t.disk)[g] = IF g \in DOMAIN t.texts THEN t.texts[g] ELSE t.disk[g]
  BY DEF Over
<1>2. /\ DOMAIN Over(t.bytes, Over(t.texts, t.disk)) = all
      /\ \A g \in all : Over(t.bytes, Over(t.texts, t.disk))[g]
                          = IF g \in DOMAIN t.bytes THEN t.bytes[g] ELSE Over(t.texts, t.disk)[g]
  BY <1>1 DEF Over
<1>3. Written(t) = [g \in all \ t.removes |-> Over(t.bytes, Over(t.texts, t.disk))[g]]
  BY <1>2 DEF Written, Drop
<1>4. all \ t.removes = DOMAIN t.texts \cup DOMAIN t.bytes \cup (DOMAIN t.disk \ t.removes)
  BY DEF Staging
<1>5. \A g \in all \ t.removes : Over(t.bytes, Over(t.texts, t.disk))[g] = ReadText(t, g)
  BY <1>1, <1>2 DEF ReadText, Staging
<1> QED
  BY <1>3, <1>4, <1>5 DEF View

LEMMA BeginView ==
  ASSUME NEW dir
  PROVE  /\ Staging(Begin(dir)) /\ Txn(Begin(dir)) /\ Begin(dir).disk = dir
         /\ View(Begin(dir)) = [f \in DOMAIN dir |-> dir[f]]
<1>1. /\ Begin(dir).disk = dir /\ Begin(dir).texts = Empty /\ Begin(dir).bytes = Empty
      /\ Begin(dir).removes = {} /\ DOMAIN Empty = {}
  BY DEF Begin, Empty
<1>2. Staging(Begin(dir)) /\ Txn(Begin(dir))
  BY <1>1 DEF Staging, Txn, Begin
<1>3. View(Begin(dir)) = [f \in DOMAIN dir |-> dir[f]]
  BY <1>1 DEF View, ReadText
<1> QED
  BY <1>1, <1>2, <1>3

\* Each way to stage a change does to the view what it says.
LEMMA StageWriteView ==
  ASSUME NEW t, Txn(t), Staging(t), NEW f, NEW c, NEW n, n = StageWrite(t, f, c)
  PROVE  Txn(n) /\ Staging(n) /\ n.disk = t.disk /\ View(n) = Put(View(t), f, c)
<1>1. /\ Txn(n) /\ n.disk = t.disk /\ n.texts = Put(t.texts, f, c) /\ n.bytes = Drop(t.bytes, {f})
      /\ n.removes = t.removes \ {f}
  <2>1. PICK d, y, w, q : t = [disk |-> d, texts |-> y, bytes |-> w, removes |-> q]
    BY DEF Txn
  <2>2. n = [disk |-> d, texts |-> Put(y, f, c), bytes |-> Drop(w, {f}), removes |-> q \ {f}]
    BY <2>1 DEF StageWrite
  <2> QED
    BY <2>1, <2>2 DEF Txn
<1>2. /\ DOMAIN n.texts = DOMAIN t.texts \cup {f} /\ DOMAIN n.bytes = DOMAIN t.bytes \ {f}
      /\ n.texts[f] = c
      /\ \A g \in DOMAIN t.texts : g # f => n.texts[g] = t.texts[g]
      /\ \A g \in DOMAIN t.bytes : g # f => n.bytes[g] = t.bytes[g]
  BY <1>1 DEF Put, Drop
<1>3. Staging(n)
  BY <1>1, <1>2 DEF Staging
<1>v. /\ DOMAIN View(t) = DOMAIN t.texts \cup DOMAIN t.bytes \cup (DOMAIN t.disk \ t.removes)
      /\ DOMAIN View(n) = DOMAIN n.texts \cup DOMAIN n.bytes \cup (DOMAIN n.disk \ n.removes)
      /\ \A g \in DOMAIN View(t) : View(t)[g] = ReadText(t, g)
      /\ View(n) = [g \in DOMAIN View(n) |-> ReadText(n, g)]
  BY DEF View
<1>4. DOMAIN View(n) = DOMAIN View(t) \cup {f}
  BY <1>1, <1>2, <1>v
<1>5. \A g \in DOMAIN View(n) : ReadText(n, g) = IF g = f THEN c ELSE View(t)[g]
  BY <1>1, <1>2, <1>4, <1>v DEF ReadText
<1>6. View(n) = Put(View(t), f, c)
  BY <1>4, <1>5, <1>v DEF Put
<1> QED
  BY <1>1, <1>3, <1>6

LEMMA StageBytesView ==
  ASSUME NEW t, Txn(t), Staging(t), NEW f, NEW c, NEW n, n = StageWriteBytes(t, f, c)
  PROVE  Txn(n) /\ Staging(n) /\ n.disk = t.disk /\ View(n) = Put(View(t), f, c)
<1>1. /\ Txn(n) /\ n.disk = t.disk /\ n.bytes = Put(t.bytes, f, c) /\ n.texts = Drop(t.texts, {f})
      /\ n.removes = t.removes \ {f}
  <2>1. PICK d, y, w, q : t = [disk |-> d, texts |-> y, bytes |-> w, removes |-> q]
    BY DEF Txn
  <2>2. n = [disk |-> d, texts |-> Drop(y, {f}), bytes |-> Put(w, f, c), removes |-> q \ {f}]
    BY <2>1 DEF StageWriteBytes
  <2> QED
    BY <2>1, <2>2 DEF Txn
<1>2. /\ DOMAIN n.bytes = DOMAIN t.bytes \cup {f} /\ DOMAIN n.texts = DOMAIN t.texts \ {f}
      /\ n.bytes[f] = c
      /\ \A g \in DOMAIN t.bytes : g # f => n.bytes[g] = t.bytes[g]
      /\ \A g \in DOMAIN t.texts : g # f => n.texts[g] = t.texts[g]
  BY <1>1 DEF Put, Drop
<1>3. Staging(n)
  BY <1>1, <1>2 DEF Staging
<1>v. /\ DOMAIN View(t) = DOMAIN t.texts \cup DOMAIN t.bytes \cup (DOMAIN t.disk \ t.removes)
      /\ DOMAIN View(n) = DOMAIN n.texts \cup DOMAIN n.bytes \cup (DOMAIN n.disk \ n.removes)
      /\ \A g \in DOMAIN View(t) : View(t)[g] = ReadText(t, g)
      /\ View(n) = [g \in DOMAIN View(n) |-> ReadText(n, g)]
  BY DEF View
<1>4. DOMAIN View(n) = DOMAIN View(t) \cup {f}
  BY <1>1, <1>2, <1>v
<1>5. \A g \in DOMAIN View(n) : ReadText(n, g) = IF g = f THEN c ELSE View(t)[g]
  BY <1>1, <1>2, <1>4, <1>v DEF ReadText
<1>6. View(n) = Put(View(t), f, c)
  BY <1>4, <1>5, <1>v DEF Put
<1> QED
  BY <1>1, <1>3, <1>6

LEMMA StageRemoveView ==
  ASSUME NEW t, Txn(t), Staging(t), NEW f, NEW n, n = StageRemove(t, f)
  PROVE  Txn(n) /\ Staging(n) /\ n.disk = t.disk /\ View(n) = Drop(View(t), {f})
<1>1. /\ Txn(n) /\ n.disk = t.disk /\ n.texts = Drop(t.texts, {f}) /\ n.bytes = Drop(t.bytes, {f})
      /\ n.removes = t.removes \cup {f}
  <2>1. PICK d, y, w, q : t = [disk |-> d, texts |-> y, bytes |-> w, removes |-> q]
    BY DEF Txn
  <2>2. n = [disk |-> d, texts |-> Drop(y, {f}), bytes |-> Drop(w, {f}), removes |-> q \cup {f}]
    BY <2>1 DEF StageRemove
  <2> QED
    BY <2>1, <2>2 DEF Txn
<1>2. /\ DOMAIN n.bytes = DOMAIN t.bytes \ {f} /\ DOMAIN n.texts = DOMAIN t.texts \ {f}
      /\ \A g \in DOMAIN t.texts \ {f} : n.texts[g] = t.texts[g]
      /\ \A g \in DOMAIN t.bytes \ {f} : n.bytes[g] = t.bytes[g]
  BY <1>1 DEF Drop
<1>3. Staging(n)
  BY <1>1, <1>2 DEF Staging
<1>v. /\ DOMAIN View(t) = DOMAIN t.texts \cup DOMAIN t.bytes \cup (DOMAIN t.disk \ t.removes)
      /\ DOMAIN View(n) = DOMAIN n.texts \cup DOMAIN n.bytes \cup (DOMAIN n.disk \ n.removes)
      /\ \A g \in DOMAIN View(t) : View(t)[g] = ReadText(t, g)
      /\ View(n) = [g \in DOMAIN View(n) |-> ReadText(n, g)]
  BY DEF View
<1>4. DOMAIN View(n) = DOMAIN View(t) \ {f}
  BY <1>1, <1>2, <1>v
<1>5. \A g \in DOMAIN View(n) : ReadText(n, g) = View(t)[g]
  BY <1>1, <1>2, <1>4, <1>v DEF ReadText
<1>6. View(n) = Drop(View(t), {f})
  BY <1>4, <1>5, <1>v DEF Drop
<1> QED
  BY <1>1, <1>3, <1>6


(***************************************************************************)
(* One op, buffered and direct.                                            *)
(***************************************************************************)
\* r is what the op did to t: it stands for the directory the op makes directly,
\* and writes to the disk only as a patch does.
Agrees(op, t, payload, r) ==
  /\ Txn(r.txn) /\ Staging(r.txn)
  /\ View(r.txn) = Direct(op, View(t), payload)
  /\ r.txn.disk = IF op.kind = "patch.apply" /\ op.src \in DOMAIN payload
                  THEN Direct(op, View(t), payload) ELSE t.disk

LEMMA TextAgrees ==
  ASSUME NEW op, NEW t, Txn(t), Staging(t), NEW payload, NEW r, op.kind \in Edits,
         r = ExecText(op, t)
  PROVE  Agrees(op, t, payload, r)
<1> DEFINE e == Edited(op, View(t)[op.file].lines)
<1>1. op.kind \notin {"file.copy", "install", "file.materialize", "file.remove", "patch.apply"}
  BY DEF Edits
<1>2. Direct(op, View(t), payload)
        = IF op.file \in DOMAIN View(t) /\ View(t)[op.file].form # "raw" /\ e.status = "applied"
          THEN Put(View(t), op.file, Rewritten(e.lines)) ELSE View(t)
  BY <1>1 DEF Direct
<1>3. /\ Exists(t, op.file) <=> op.file \in DOMAIN View(t)
      /\ op.file \in DOMAIN View(t) => ReadText(t, op.file) = View(t)[op.file]
  BY ViewShape
<1>4. r.txn = IF op.file \in DOMAIN View(t) /\ View(t)[op.file].form # "raw" /\ e.status = "applied"
              THEN StageWrite(t, op.file, Rewritten(e.lines)) ELSE t
  BY <1>3 DEF ExecText, Result
<1> HIDE DEF e
<1>5. CASE op.file \in DOMAIN View(t) /\ View(t)[op.file].form # "raw" /\ e.status = "applied"
  <2>1. r.txn = StageWrite(t, op.file, Rewritten(e.lines))
    BY <1>4, <1>5
  <2> QED
    BY <1>1, <1>2, <1>5, <2>1, StageWriteView DEF Agrees
<1>6. CASE ~(op.file \in DOMAIN View(t) /\ View(t)[op.file].form # "raw" /\ e.status = "applied")
  BY <1>1, <1>2, <1>4, <1>6 DEF Agrees
<1> QED
  BY <1>5, <1>6

LEMMA CopyAgrees ==
  ASSUME NEW op, NEW t, Txn(t), Staging(t), NEW payload, NEW r, op.kind = "file.copy",
         r = ExecCopy(op, t)
  PROVE  Agrees(op, t, payload, r)
<1> DEFINE text == op.src \in DOMAIN View(t) /\ View(t)[op.src].form # "raw"
<1>1. Direct(op, View(t), payload)
        = IF text THEN Put(View(t), op.file, Decoded(View(t)[op.src])) ELSE View(t)
  BY DEF Direct, Edits
<1>2. /\ Exists(t, op.src) <=> op.src \in DOMAIN View(t)
      /\ op.src \in DOMAIN View(t) => ReadText(t, op.src) = View(t)[op.src]
  BY ViewShape
<1>3. r.txn = IF text THEN StageWrite(t, op.file, Decoded(View(t)[op.src])) ELSE t
  BY <1>2 DEF ExecCopy, Result
<1> HIDE DEF text
<1>4. CASE text
  <2>1. r.txn = StageWrite(t, op.file, Decoded(View(t)[op.src]))
    BY <1>3, <1>4
  <2> QED
    BY <1>1, <1>4, <2>1, StageWriteView DEF Agrees
<1>5. CASE ~text
  BY <1>1, <1>3, <1>5 DEF Agrees
<1> QED
  BY <1>4, <1>5

LEMMA MaterializeAgrees ==
  ASSUME NEW op, NEW t, Txn(t), Staging(t), NEW payload, NEW r,
         op.kind \in {"install", "file.materialize"}, r = ExecMaterialize(op, t, payload)
  PROVE  Agrees(op, t, payload, r)
<1>1. /\ op.kind # "patch.apply"
      /\ Direct(op, View(t), payload)
           = IF op.src \in DOMAIN payload THEN Put(View(t), op.file, payload[op.src].body) ELSE View(t)
  BY DEF Direct, Edits
<1>2. CASE op.src \in DOMAIN payload
  <2>1. r.txn = StageWriteBytes(t, op.file, payload[op.src].body)
    BY <1>2 DEF ExecMaterialize, Result
  <2> QED
    BY <1>1, <1>2, <2>1, StageBytesView DEF Agrees
<1>3. CASE op.src \notin DOMAIN payload
  BY <1>1, <1>3 DEF Agrees, ExecMaterialize, Result
<1> QED
  BY <1>2, <1>3

LEMMA RemoveAgrees ==
  ASSUME NEW op, NEW t, Txn(t), Staging(t), NEW payload, NEW r, op.kind = "file.remove",
         r = ExecRemove(op, t)
  PROVE  Agrees(op, t, payload, r)
<1>1. Direct(op, View(t), payload) = Drop(View(t), {op.file})
  BY DEF Direct, Edits
<1>2. CASE Exists(t, op.file)
  <2>1. r.txn = StageRemove(t, op.file)
    BY <1>2 DEF ExecRemove, Result
  <2> QED
    BY <1>1, <2>1, StageRemoveView DEF Agrees
<1>3. CASE ~Exists(t, op.file)
  <2>1. op.file \notin DOMAIN View(t)
    BY <1>3, ViewShape
  <2>2. Drop(View(t), {op.file}) = [g \in DOMAIN View(t) |-> View(t)[g]]
    BY <2>1 DEF Drop
  <2>3. Drop(View(t), {op.file}) = View(t)
    BY <2>2, ViewShape
  <2> QED
    BY <1>1, <1>3, <2>3 DEF Agrees, ExecRemove, Result
<1> QED
  BY <1>2, <1>3

LEMMA PatchedView ==
  ASSUME NEW dir, NEW hunks
  PROVE  [f \in DOMAIN Patched(dir, hunks) |-> Patched(dir, hunks)[f]] = Patched(dir, hunks)
  BY DEF Patched

LEMMA PatchAgrees ==
  ASSUME NEW op, NEW t, Txn(t), Staging(t), NEW payload, NEW r, NEW dry, ~dry,
         op.kind = "patch.apply", r = ExecPatch(op, t, payload, dry)
  PROVE  Agrees(op, t, payload, r)
<1>1. CASE op.src \notin DOMAIN payload
  BY <1>1 DEF Agrees, ExecPatch, Result, Direct, Edits
<1>2. CASE op.src \in DOMAIN payload
  <2> DEFINE hunks == payload[op.src].hunks
             new == Patched(Written(t), hunks)
  <2>1. Direct(op, View(t), payload) = Patched(View(t), hunks)
    BY <1>2 DEF Direct, Edits
  <2>2. new = Direct(op, View(t), payload)
    BY <2>1, WrittenIsView
  <2>3. r.txn = [Begin(Written(t)) EXCEPT !.disk = new]
    BY <1>2 DEF ExecPatch, Result, FlushPending, Begin
  <2>4. r.txn = Begin(new)
    BY <2>3 DEF Begin
  <2>5. [f \in DOMAIN new |-> new[f]] = new
    BY PatchedView
  <2> HIDE DEF new, hunks
  <2>6. Staging(r.txn) /\ Txn(r.txn) /\ r.txn.disk = new /\ View(r.txn) = new
    BY <2>4, <2>5, BeginView
  <2> QED
    BY <1>2, <2>2, <2>6 DEF Agrees
<1> QED
  BY <1>1, <1>2

\* Every kind of op agrees with its direct meaning, outside a dry run (Exec).
LEMMA ExecAgrees ==
  ASSUME NEW op, NEW t, Txn(t), Staging(t), NEW payload, NEW dry, ~dry
  PROVE  Agrees(op, t, payload, Exec(op, t, payload, dry))
<1> DEFINE r == Exec(op, t, payload, dry)
<1>1. CASE op.kind \in Edits
  <2>1. r = ExecText(op, t)
    BY <1>1 DEF Exec, Edits
  <2> QED
    BY <1>1, <2>1, TextAgrees
<1>2. CASE op.kind = "file.copy"
  BY <1>2, CopyAgrees DEF Exec, Edits
<1>3. CASE op.kind \in {"install", "file.materialize"}
  <2>1. r = ExecMaterialize(op, t, payload)
    BY <1>3 DEF Exec, Edits
  <2> QED
    BY <1>3, <2>1, MaterializeAgrees
<1>4. CASE op.kind = "file.remove"
  BY <1>4, RemoveAgrees DEF Exec, Edits
<1>5. CASE op.kind = "patch.apply"
  BY <1>5, PatchAgrees DEF Exec, Edits
<1>6. CASE /\ op.kind \notin Edits \cup {"file.copy", "install", "file.materialize", "file.remove"}
           /\ op.kind # "patch.apply"
  BY <1>6 DEF Exec, Result, Direct, Agrees
<1> QED
  BY <1>1, <1>2, <1>3, <1>4, <1>5, <1>6

(***************************************************************************)
(* The buffer over a run.                                                  *)
(***************************************************************************)
\* An apply run is of the first origin of the semantic stage; what it buffers
\* stands for the directory edited directly.
Applying == apply # None => stage = "semantic" /\ todo # <<>>
Buffered == apply # None /\ ~run.dry =>
              /\ Txn(apply.txn) /\ Staging(apply.txn)
              /\ View(apply.txn) = direct /\ apply.txn.disk = saved
BufferInvariant == Applying /\ Buffered

LEMMA InitBuffer == Init => BufferInvariant
  BY DEF Init, BufferInvariant, Applying, Buffered

\* The steps that end an apply run, and those that leave it alone.
EndsApply ==
  \/ Return \/ Killed \/ Commit \/ OracleFails \/ WriteFails

LEMMA LeaveEnds == ASSUME NEW dir, NEW ok, Leave(dir, ok) PROVE apply' = None
  BY DEF Leave

LEMMA EndsBuffer == ASSUME EndsApply PROVE apply' = None
  BY DEF EndsApply, Return, Killed, Commit, OracleFails, WriteFails, AtRest, Leave

LEMMA KeepsBuffer ==
  ASSUME BufferInvariant,
         \/ \E l \in Lines, o \in Origins : UpstreamMoves(l, o)
         \/ \E c \in Lines \cup {NotGit} : Switch(c)
         \/ \E o \in Origins : EditOverlay(o)
         \/ Start("full", {})
         \/ \E sel \in Selections : Start("origin", sel)
         \/ Seed \/ Preflight \/ Prune \/ SkipSemantic \/ EndSemantic
         \/ Compat \/ EndCompat
         \/ SystemReplacements \/ Finalize \/ BeginReconcile \/ Mirror \/ EndReconcile
         \/ ReconcileFails \/ UNCHANGED vars
  PROVE  BufferInvariant'
<1>1. CASE \/ \E l \in Lines, o \in Origins : UpstreamMoves(l, o)
           \/ \E c \in Lines \cup {NotGit} : Switch(c)
           \/ \E o \in Origins : EditOverlay(o)
           \/ UNCHANGED vars
  BY <1>1 DEF UpstreamMoves, Switch, EditOverlay, Change, BufferInvariant, Applying, Buffered
<1>2. CASE \/ Start("full", {}) \/ \E sel \in Selections : Start("origin", sel)
           \/ Seed \/ Preflight \/ Prune \/ SkipSemantic \/ EndSemantic
           \/ Compat \/ EndCompat
           \/ SystemReplacements \/ Finalize \/ BeginReconcile \/ Mirror \/ EndReconcile
           \/ ReconcileFails
  <2>1. apply' = apply /\ apply = None
    BY <1>2 DEF BufferInvariant, Applying, Start, Seed, Preflight, Prune, SkipSemantic, AtPort,
       EndSemantic,
                Compat, EndCompat, SystemReplacements, Finalize, BeginReconcile, Mirror,
                EndReconcile, ReconcileFails
  <2> QED
    BY <2>1 DEF BufferInvariant, Applying, Buffered
<1> QED
  BY <1>1, <1>2

LEMMA MaterializeBuffer == ASSUME BufferInvariant, Materialize PROVE BufferInvariant'
<1> DEFINE o == Head(todo)
           dir == IF Seeded(o) /\ ~run.dry THEN PortIn(Output, o) ELSE Source(o, ctxs[o].type)
           a == [txn |-> Begin(dir), failed |-> FALSE,
                 steps |-> Steps(overlays[o].ops, overlays[o].payload, Target)]
<1>1. \/ UNCHANGED engine
      \/ apply' = a /\ direct' = View(Begin(dir)) /\ saved' = dir /\ UNCHANGED <<todo, stage>>
  BY DEF Materialize
<1>2. apply = None /\ stage = "semantic" /\ todo # <<>> /\ run' = run
  BY DEF Materialize, AtPort
<1>3. a.txn = Begin(dir)
  OBVIOUS
<1> HIDE DEF a, dir
<1>4. Txn(Begin(dir)) /\ Staging(Begin(dir)) /\ Begin(dir).disk = dir
  BY BeginView
<1> QED
  BY <1>1, <1>2, <1>3, <1>4 DEF BufferInvariant, Applying, Buffered

LEMMA ApplyBuffer == ASSUME BufferInvariant, ApplyOp PROVE BufferInvariant'
<1> DEFINE op == Head(apply.steps)
           result == Exec(op, apply.txn, Payload, run.dry)
           a == [txn |-> result.txn, steps |-> Tail(apply.steps),
                 failed |-> apply.failed \/ result.status = "failed"]
<1>1. \/ apply' = None
      \/ /\ apply' = a /\ direct' = Direct(op, direct, Payload)
         /\ saved' = IF op.kind = "patch.apply" /\ op.src \in DOMAIN Payload THEN direct' ELSE saved
         /\ UNCHANGED <<run, stage, todo>>
  BY DEF ApplyOp, Leave
<1>2. apply # None /\ stage = "semantic" /\ todo # <<>>
  BY DEF ApplyOp, BufferInvariant, Applying
<1>3. a.txn = result.txn
  OBVIOUS
<1>4. ASSUME ~run.dry PROVE Agrees(op, apply.txn, Payload, result) /\ View(apply.txn) = direct /\ apply.txn.disk = saved
  BY <1>2, <1>4, ExecAgrees DEF BufferInvariant, Buffered
<1> HIDE DEF a, result, op
<1> QED
  BY <1>1, <1>2, <1>3, <1>4 DEF BufferInvariant, Applying, Buffered, Agrees

LEMMA StepBuffer == BufferInvariant /\ [Next]_vars => BufferInvariant'
<1> SUFFICES ASSUME BufferInvariant, [Next]_vars PROVE BufferInvariant'
  OBVIOUS
<1>1. CASE EndsApply
  BY <1>1, EndsBuffer DEF BufferInvariant, Applying, Buffered
<1> QED
  BY <1>1, KeepsBuffer, MaterializeBuffer, ApplyBuffer DEF Next, EndsApply

LEMMA BufferHolds == Spec => []BufferInvariant
  BY InitBuffer, StepBuffer, PTL DEF Spec

\* For any overlay, payload and order of ops: while a port is applied, what its transaction
\* stands for is the directory edited op by op with nothing buffered, and the disk has what
\* the last patch flushed (fsops.py, apply.py, executors/patch_ops.py).
THEOREM BufferStandsForDirect == Spec => []BufferIsDirect
  BY BufferHolds, PTL DEF BufferInvariant, Buffered, BufferIsDirect

(***************************************************************************)
(* Who writes the marks of the delta tree.                                 *)
(***************************************************************************)
LEMMA StaleIsGone ==
  ASSUME NEW o, Ctx(o).stale
  PROVE  o \notin Present
  BY DEF Ctx

LEMMA PreflightMarks ==
  ASSUME Preflight, NEW o \in Origins
  PROVE  /\ o \in marked' \ marked => o \notin DOMAIN upstream[Target]
         /\ o \in marked \ marked' => o \in DOMAIN upstream[Target]
<1> DEFINE known == {p \in Chosen : p \in DOMAIN overlays \/ (checkout # NotGit /\ p \in Present)}
           stale == {p \in known : [q \in known |-> Ctx(q)][p].stale}
<1>1. marked' = IF MayMark THEN (marked \ Present) \cup stale ELSE marked
  BY DEF Preflight
<1>2. MayMark => Present = DOMAIN upstream[Target]
  BY ComposeAssumption DEF MayMark, OnBranch, Present, CheckedOut
<1>3. \A p \in stale : p \notin Present
  BY StaleIsGone
<1> HIDE DEF stale
<1> QED
  BY <1>1, <1>2, <1>3

LEMMA EditMarks ==
  ASSUME NEW p \in Origins, EditOverlay(p), NEW o \in Origins
  PROVE  /\ o \in marked' => o \in marked
         /\ o \in marked \ marked' => o \notin DOMAIN overlays'
<1>1. \/ marked' = marked
      \/ marked' = marked \ {p} /\ overlays' = Drop(overlays, {p})
  BY DEF EditOverlay
<1> QED
  BY <1>1 DEF Drop

LEMMA OthersMark ==
  ASSUME [Next]_vars, ~Preflight, ~(\E p \in Origins : EditOverlay(p))
  PROVE  marked' = marked
  BY DEF Next, UpstreamMoves, Switch, Start, Seed, Prune, SkipSemantic, Materialize, ApplyOp,
     Commit, OracleFails,
         WriteFails, Leave, EndSemantic, Compat, EndCompat, SystemReplacements, Finalize,
         BeginReconcile, Mirror,
         EndReconcile, ReconcileFails, Return, Killed, AtRest

\* For any run on any branch: a mark is written only for a port that is gone from the
\* build line's branch, and dropped only when it is back or its overlay is deleted
\* (the delta-write rule of preflight_stage).
THEOREM MarksStayTrue == Spec => MarksAreTrue
<1>1. [Next]_vars =>
        [\A o \in Origins :
           /\ o \in marked' \ marked => o \notin DOMAIN upstream[Target]
           /\ o \in marked \ marked' => \/ o \in DOMAIN upstream[Target]
                                        \/ o \notin DOMAIN overlays']_vars
  BY PreflightMarks, EditMarks, OthersMark
<1> QED
  BY <1>1, PTL DEF Spec, MarksAreTrue

(***************************************************************************)
(* What a strict run that failed may still do.                             *)
(***************************************************************************)
\* An error of a strict run ends it with the stage that met it, unless the scan of the
\* finished tree was the first to record one.
StrictStops ==
  /\ stage = "idle" => ~failed
  /\ stage \notin {"idle", "done"} /\ run.strict /\ failed => leaked
  /\ leaked => stage \in {"reconcile", "mirror", "done"}

StrictInvariant == Applying /\ StrictStops

LEMMA InitStrict == Init => StrictInvariant
  BY DEF Init, StrictInvariant, Applying, StrictStops

LEMMA LeaveStrict ==
  ASSUME NEW dir, NEW ok, Leave(dir, ok), apply # None, StrictInvariant
  PROVE  StrictStops'
  BY DEF Leave, NextPort, StrictInvariant, Applying, StrictStops

LEMMA StepStrict == BufferInvariant /\ StrictStops /\ [Next]_vars => StrictStops'
<1> SUFFICES ASSUME BufferInvariant, StrictStops, [Next]_vars PROVE StrictStops'
  OBVIOUS
<1>0. StrictInvariant
  BY DEF StrictInvariant, BufferInvariant
<1>1. CASE \/ \E l \in Lines, o \in Origins : UpstreamMoves(l, o)
           \/ \E c \in Lines \cup {NotGit} : Switch(c)
           \/ \E o \in Origins : EditOverlay(o)
           \/ UNCHANGED vars
  <2>1. UNCHANGED <<run, stage, failed, leaked>>
    BY <1>1 DEF UpstreamMoves, Switch, EditOverlay, Change
  <2> QED
    BY <2>1 DEF StrictStops
<1>2. CASE Start("full", {}) \/ \E sel \in Selections : Start("origin", sel)
  BY <1>2 DEF Start, StrictStops
<1>3. CASE Seed \/ Prune \/ SkipSemantic \/ EndSemantic \/ EndCompat \/ SystemReplacements
           \/ BeginReconcile \/ Mirror \/ EndReconcile \/ ReconcileFails
  BY <1>3 DEF Seed, Prune, SkipSemantic, AtPort, EndSemantic, EndCompat, SystemReplacements,
     BeginReconcile, Mirror, EndReconcile, ReconcileFails, StrictStops
<1>10. CASE Finalize
  <2>1. /\ stage = "finalize" /\ stage' \in {"reconcile", "done"} /\ run' = run
        /\ ~leaked /\ (run.strict => ~failed)
    BY <1>10 DEF Finalize, StrictStops
  <2>2. CASE UNCHANGED <<failed, leaked>>
    BY <2>1, <2>2 DEF StrictStops
  <2>3. CASE failed' = TRUE /\ leaked' = ~failed
    <3>1. run.strict => leaked'
      BY <2>1, <2>3, Zenon
    <3> QED
      BY <2>1, <3>1 DEF StrictStops
  <2> QED
    BY <1>10, <2>2, <2>3 DEF Finalize
<1>4. CASE Preflight
  BY <1>4 DEF Preflight, Goto, StrictStops
<1>5. CASE Materialize
  BY <1>5 DEF Materialize, AtPort, NextPort, StrictStops
<1>6. CASE Compat
  BY <1>6 DEF Compat, AtPort, NextPort, StrictStops
<1>7. CASE ApplyOp
  <2>1. CASE \E dir, ok : Leave(dir, ok)
    BY <1>0, <1>7, <2>1, LeaveStrict DEF ApplyOp
  <2>2. CASE UNCHANGED <<run, stage, failed, leaked>>
    BY <2>2 DEF StrictStops
  <2> QED
    BY <1>7, <2>1, <2>2 DEF ApplyOp
<1>8. CASE Commit \/ OracleFails \/ WriteFails
  <2>1. apply # None /\ \E dir, ok : Leave(dir, ok)
    BY <1>8 DEF Commit, OracleFails, WriteFails
  <2> QED
    BY <1>0, <2>1, LeaveStrict
<1>9. CASE Return \/ Killed
  BY <1>9 DEF Return, Killed, AtRest, StrictStops
<1> QED
  BY <1>1, <1>2, <1>3, <1>4, <1>5, <1>6, <1>7, <1>8, <1>9, <1>10 DEF Next

LEMMA StrictHolds == Spec => []StrictStops
<1>1. Init => StrictStops
  BY InitStrict DEF StrictInvariant
<1> QED
  BY <1>1, StepStrict, BufferHolds, PTL DEF Spec

LEMMA StrictKeeps ==
  ASSUME StrictStops, [Next]_vars, run # None, Full, run.strict, failed, ~leaked
  PROVE  UNCHANGED live
<1>1. stage = "done"
  BY DEF StrictStops
<1> QED
  BY <1>1 DEF Next, UpstreamMoves, Switch, EditOverlay, Change, Start, Seed, Preflight, Prune,
     SkipSemantic, AtPort,
              Materialize, ApplyOp, Commit, OracleFails, WriteFails, Leave, SetOutput,
              EndSemantic, Compat, EndCompat,
              SystemReplacements, Finalize, BeginReconcile, Mirror, EndReconcile, ReconcileFails, Return, Killed

\* For any ports, overlays and faults: a strict full run that has failed never touches the
\* live tree, whichever stage met the error, unless the scan for patch artifacts was the
\* first to find one (_record_stage, the scratch tree of run_compose, compose.py:289-294).
THEOREM StrictKeepsLive == Spec => StrictFailureKeepsLive
<1>1. StrictStops /\ [Next]_vars => [run # None /\ Full /\ run.strict /\ failed /\ ~leaked => UNCHANGED live]_vars
  BY StrictKeeps
<1> QED
  BY <1>1, StrictHolds, PTL DEF Spec, StrictFailureKeepsLive

(***************************************************************************)
(* Counting.                                                               *)
(***************************************************************************)
LEMMA LeastNat ==
  ASSUME NEW S, S \subseteq Nat, S # {}
  PROVE  \E n \in S : \A m \in S : n <= m
<1>1. PICK n \in S : \A m \in S : ~ (<<m, n>> \in OpToRel(<, Nat))
  BY NatLessThanWellFounded, WFMin, Zenon
<1>2. ASSUME NEW m \in S, m < n PROVE FALSE
  <2>1. m \in Nat /\ n \in Nat /\ <<m, n>> \in Nat \X Nat /\ <<m, n>>[1] = m /\ <<m, n>>[2] = n
    OBVIOUS
  <2> QED
    BY <1>1, <1>2, <2>1, Zenon DEF OpToRel
<1>3. \A m \in S : n <= m
  <2>1. \A m \in S : m \in Nat /\ n \in Nat
    OBVIOUS
  <2> QED
    BY <1>2, <2>1
<1> QED
  BY <1>3

\* What holds of nothing done yet, and of one more whenever it held, holds of
\* every number up to n: S is the numbers it holds of.
LEMMA CountUp ==
  ASSUME NEW n \in Nat, NEW S, 0 \in S, \A k \in 0..n : k # n /\ k \in S => k + 1 \in S
  PROVE  \A k \in 0..n : k \in S
<1> SUFFICES ASSUME (0..n) \ S # {} PROVE FALSE
  OBVIOUS
<1>1. PICK m \in (0..n) \ S : \A k \in (0..n) \ S : m <= k
  <2> DEFINE T == (0..n) \ S
  <2>1. T \subseteq Nat /\ T # {}
    OBVIOUS
  <2> HIDE DEF T
  <2>2. \E m \in T : \A k \in T : m <= k
    BY <2>1, LeastNat
  <2> QED
    BY <2>2 DEF T
<1>2. m # 0 /\ m - 1 \in 0..n /\ m - 1 # n /\ ~ (m <= m - 1)
  OBVIOUS
<1>3. m - 1 \in S
  BY <1>1, <1>2
<1> QED
  BY <1>2, <1>3

(***************************************************************************)
(* Sequences of steps.                                                     *)
(***************************************************************************)
\* SetToSeq lists every element of a finite set, once.
LEMMA SetToSeqLists ==
  ASSUME NEW S, IsFiniteSet(S)
  PROVE  /\ SetToSeq(S) \in Seq(S) /\ Range(SetToSeq(S)) = S
         /\ \A i, j \in DOMAIN SetToSeq(S) : SetToSeq(S)[i] = SetToSeq(S)[j] => i = j
<1> DEFINE C == Cardinality(S)  D == 1..C
<1>1. C \in Nat /\ ExistsBijection(D, S)
  BY FS_CardinalityType
<1>2. PICK b \in Bijection(D, S) : TRUE
  BY <1>1 DEF ExistsBijection
<1>3. b \in [D -> S] /\ IsInjective(b)
  BY <1>2 DEF Bijection, Injection, IsInjective
<1>4. SetToSeq(S) \in [D -> S] /\ IsInjective(SetToSeq(S))
  BY <1>3 DEF SetToSeq
<1>5. IsFiniteSet(D) /\ Cardinality(D) = C
  BY <1>1, FS_Interval
<1>6. SetToSeq(S) \in Injection(D, S)
  BY <1>4 DEF Injection, IsInjective
<1>7. SetToSeq(S) \in Surjection(D, S)
  BY <1>5, <1>6, FS_Injection
<1>8. SetToSeq(S) \in Seq(S)
  BY <1>1, <1>4
<1>9. Range(SetToSeq(S)) = S
  BY <1>4, <1>7 DEF Surjection, Range
<1> QED
  BY <1>4, <1>8, <1>9 DEF IsInjective

\* The steps that are left once the first is done.
LEMMA TailOf ==
  ASSUME NEW S, NEW s \in Seq(S), s # <<>>
  PROVE  /\ Tail(s) \in Seq(S) /\ Head(s) \in S
         /\ Range(s) = {Head(s)} \cup Range(Tail(s))
         /\ (\A i, j \in DOMAIN s : s[i] = s[j] => i = j) =>
              /\ Head(s) \notin Range(Tail(s))
              /\ \A i, j \in DOMAIN Tail(s) : Tail(s)[i] = Tail(s)[j] => i = j
<1>1. /\ Tail(s) \in Seq(S) /\ Head(s) \in S /\ Head(s) = s[1] /\ Len(s) \in Nat /\ Len(s) >= 1
      /\ Len(Tail(s)) = Len(s) - 1 /\ \A i \in 1..Len(s) - 1 : Tail(s)[i] = s[i + 1]
      /\ DOMAIN s = 1..Len(s) /\ DOMAIN Tail(s) = 1..Len(s) - 1
  BY HeadTailProperties, EmptySeq
<1>2. Range(s) = {s[i] : i \in 1..Len(s)} /\ Range(Tail(s)) = {s[i + 1] : i \in 1..Len(s) - 1}
  BY <1>1 DEF Range
<1>3. Range(s) = {Head(s)} \cup Range(Tail(s))
  <2>1. ASSUME NEW i \in 1..Len(s) PROVE s[i] \in {Head(s)} \cup Range(Tail(s))
    <3>1. i = 1 \/ (i - 1 \in 1..Len(s) - 1 /\ i = (i - 1) + 1)
      BY <1>1
    <3> QED
      BY <1>1, <1>2, <3>1
  <2>2. 1 \in 1..Len(s) /\ \A i \in 1..Len(s) - 1 : i + 1 \in 1..Len(s)
    BY <1>1
  <2> QED
    BY <1>1, <1>2, <2>1, <2>2
<1>4. ASSUME \A i, j \in DOMAIN s : s[i] = s[j] => i = j
      PROVE  /\ Head(s) \notin Range(Tail(s))
             /\ \A i, j \in DOMAIN Tail(s) : Tail(s)[i] = Tail(s)[j] => i = j
  <2>1. \A i \in 1..Len(s) - 1 : i + 1 \in DOMAIN s /\ i + 1 # 1 /\ 1 \in DOMAIN s
    BY <1>1
  <2>2. \A i \in 1..Len(s) - 1 : s[i + 1] # s[1]
    BY <1>4, <2>1
  <2>3. \A i, j \in 1..Len(s) - 1 : i + 1 = j + 1 => i = j
    BY <1>1
  <2>4. \A i, j \in 1..Len(s) - 1 : s[i + 1] = s[j + 1] => i + 1 = j + 1
    BY <1>4, <2>1
  <2> QED
    BY <1>1, <1>2, <2>2, <2>3, <2>4
<1> QED
  BY <1>1, <1>3, <1>4

\* The ops of one scope, in their order (order_ops_for_target).
LEMMA OpsOfIsSeq ==
  ASSUME NEW S, NEW ops \in Seq(S), NEW scope
  PROVE  OpsOf(ops, scope) \in Seq(S)
<1> DEFINE n == Len(ops)
           G(h) == h = [i \in 0..n |->
                          IF i = 0 THEN <<>>
                          ELSE IF ops[i].scope = scope THEN Append(h[i - 1], ops[i]) ELSE h[i - 1]]
           Upto(k, g) == /\ g \in [0..k -> Seq(S)] /\ g[0] = <<>>
                         /\ \A i \in 1..k : g[i] = IF ops[i].scope = scope
                                                   THEN Append(g[i - 1], ops[i]) ELSE g[i - 1]
           Reach == {k \in 0..n : \E g : Upto(k, g)}
<1>1. n \in Nat /\ \A i \in 1..n : ops[i] \in S
  OBVIOUS
<1>2. 0 \in Reach
  <2>1. \E g : Upto(0, g)
    <3> DEFINE g0 == [i \in 0..0 |-> <<>>]
    <3>1. g0 \in [0..0 -> Seq(S)] /\ g0[0] = <<>>
      OBVIOUS
    <3> HIDE DEF g0
    <3>2. Upto(0, g0)
      BY <3>1
    <3> QED
      BY <3>2
  <2>2. 0 \in 0..n
    BY <1>1
  <2> QED
    BY <2>1, <2>2
<1>3. ASSUME NEW k \in 0..n, k # n, k \in Reach PROVE k + 1 \in Reach
  <2>1. PICK g : Upto(k, g)
    BY <1>3
  <2> DEFINE h == [i \in 0..k + 1 |->
                     IF i = k + 1
                     THEN IF ops[k + 1].scope = scope THEN Append(g[k], ops[k + 1]) ELSE g[k]
                     ELSE g[i]]
  <2>2. k + 1 \in 0..n /\ k + 1 \in 1..n /\ 0 \in 0..k /\ k \in 0..k
    BY <1>1, <1>3
  <2>3. g[k] \in Seq(S) /\ ops[k + 1] \in S
    BY <1>1, <2>1, <2>2
  <2>4. Append(g[k], ops[k + 1]) \in Seq(S)
    BY <2>3
  <2>5. \A i \in 0..k + 1 : i = k + 1 \/ i \in 0..k
    BY <2>2
  <2>6. h \in [0..k + 1 -> Seq(S)]
    BY <2>1, <2>3, <2>4, <2>5
  <2>7. ASSUME NEW i \in 1..k + 1
        PROVE h[i] = IF ops[i].scope = scope THEN Append(h[i - 1], ops[i]) ELSE h[i - 1]
    <3>1. i \in 0..k + 1 /\ i - 1 \in 0..k + 1 /\ i - 1 # k + 1 /\ (i = k + 1 => i - 1 = k)
      BY <2>2
    <3>2. i # k + 1 => i \in 1..k
      BY <2>2
    <3> QED
      BY <2>1, <3>1, <3>2
  <2>8. h[0] = <<>>
    BY <2>1, <2>2
  <2> HIDE DEF h
  <2>9. Upto(k + 1, h)
    BY <2>6, <2>7, <2>8
  <2> QED
    BY <2>2, <2>9
<1>4. n \in Reach
  <2> HIDE DEF Reach
  <2>1. \A k \in 0..n : k # n /\ k \in Reach => k + 1 \in Reach
    BY <1>3
  <2>2. \A k \in 0..n : k \in Reach
    BY <1>1, <1>2, <2>1, CountUp
  <2> QED
    BY <1>1, <2>2
<1>5. PICK g : Upto(n, g)
  BY <1>4
<1>6. G(g)
  <2>1. \A i \in 0..n : g[i] = IF i = 0 THEN <<>>
                               ELSE IF ops[i].scope = scope THEN Append(g[i - 1], ops[i])
                               ELSE g[i - 1]
    <3>1. \A i \in 0..n : i = 0 \/ i \in 1..n
      BY <1>1
    <3> QED
      BY <1>5, <3>1
  <2>2. g = [i \in 0..n |-> g[i]]
    BY <1>5
  <2> QED
    BY <2>1, <2>2
<1> DEFINE kept == CHOOSE h : G(h)
<1>7. OpsOf(ops, scope) = kept[n]
  BY DEF OpsOf
<1> HIDE DEF G
<1>8. G(kept)
  BY <1>6
<1> USE DEF G
<1> HIDE DEF kept
<1> DEFINE Kept == {k \in 0..n : kept[k] \in Seq(S)}
<1>9. \A i \in 0..n : kept[i] = IF i = 0 THEN <<>>
                                ELSE IF ops[i].scope = scope THEN Append(kept[i - 1], ops[i])
                                ELSE kept[i - 1]
  BY <1>8
<1> HIDE DEF G
<1>10. 0 \in Kept
  <2>1. 0 \in 0..n /\ <<>> \in Seq(S)
    BY <1>1
  <2> QED
    BY <1>9, <2>1
<1>11. ASSUME NEW k \in 0..n, k # n, k \in Kept PROVE k + 1 \in Kept
  <2>1. k + 1 \in 0..n /\ k + 1 \in 1..n /\ k + 1 # 0 /\ (k + 1) - 1 = k
    BY <1>1, <1>11
  <2>2. kept[k + 1] = IF ops[k + 1].scope = scope THEN Append(kept[k], ops[k + 1]) ELSE kept[k]
    BY <1>9, <2>1
  <2>3. kept[k] \in Seq(S) /\ ops[k + 1] \in S
    BY <1>1, <1>11, <2>1
  <2>4. Append(kept[k], ops[k + 1]) \in Seq(S)
    BY <2>3
  <2>5. kept[k + 1] \in Seq(S)
    BY <2>2, <2>3, <2>4
  <2> QED
    BY <2>1, <2>5
<1>12. n \in Kept
  <2> HIDE DEF Kept
  <2>1. \A k \in 0..n : k # n /\ k \in Kept => k + 1 \in Kept
    BY <1>11
  <2>2. \A k \in 0..n : k \in Kept
    BY <1>1, <1>10, <2>1, CountUp
  <2> QED
    BY <1>1, <2>2
<1> QED
  BY <1>7, <1>12

\* The steps of an apply run are a sequence of ops and files to install.
LEMMA StepsIsSeq ==
  ASSUME NEW ops, ops \in Seq(Range(ops)), NEW payload, IsFiniteSet(DOMAIN payload), NEW target
  PROVE  \E S : Steps(ops, payload, target) \in Seq(S)
<1>1. ASSUME NEW scope PROVE \E T : Installs(ops, payload, scope) \in Seq(T)
  <2> DEFINE names == {n \in DOMAIN payload \ ExplicitReads(ops) : payload[n].lane = scope}
             q == Installs(ops, payload, scope)
  <2>1. IsFiniteSet(names)
    BY FS_Subset
  <2>2. Cardinality(names) \in Nat
    BY <2>1, FS_CardinalityType
  <2>3. q = [i \in 1..Cardinality(names) |-> q[i]]
    BY DEF Installs
  <2> HIDE DEF names, q
  <2>4. q \in [1..Cardinality(names) -> {q[i] : i \in 1..Cardinality(names)}]
    BY <2>3
  <2>5. q \in Seq({q[i] : i \in 1..Cardinality(names)})
    BY <2>2, <2>4
  <2> QED
    BY <2>5 DEF q
<1>2. PICK A : Installs(ops, payload, AnyLine) \in Seq(A)
  BY <1>1
<1>3. PICK B : Installs(ops, payload, target) \in Seq(B)
  BY <1>1
<1>4. OpsOf(ops, AnyLine) \in Seq(Range(ops)) /\ OpsOf(ops, target) \in Seq(Range(ops))
  BY OpsOfIsSeq
<1> DEFINE S == A \cup B \cup Range(ops)
<1>5. /\ Installs(ops, payload, AnyLine) \in Seq(S) /\ Installs(ops, payload, target) \in Seq(S)
      /\ OpsOf(ops, AnyLine) \in Seq(S) /\ OpsOf(ops, target) \in Seq(S)
  BY <1>2, <1>3, <1>4, SeqMonotonic
<1> HIDE DEF S
<1>6. Steps(ops, payload, target) \in Seq(S)
  BY <1>5 DEF Steps
<1> QED
  BY <1>6

\* The directory after each number of steps is the step before it, one op further.
LEMMA AfterUnrolls ==
  ASSUME NEW S, NEW steps \in Seq(S), NEW dir, NEW payload
  PROVE  /\ After(dir, steps, payload)[0] = dir
         /\ \A k \in 1..Len(steps) :
              After(dir, steps, payload)[k]
                = Direct(steps[k], After(dir, steps, payload)[k - 1], payload)
<1> DEFINE n == Len(steps)
           G(h) == h = [i \in 0..n |-> IF i = 0 THEN dir ELSE Direct(steps[i], h[i - 1], payload)]
           Upto(k, g) == /\ g = [i \in 0..k |-> g[i]] /\ g[0] = dir
                         /\ \A i \in 1..k : g[i] = Direct(steps[i], g[i - 1], payload)
           Reach == {k \in 0..n : \E g : Upto(k, g)}
<1>1. n \in Nat
  OBVIOUS
<1>2. 0 \in Reach
  <2>1. \E g : Upto(0, g)
    <3> DEFINE g0 == [i \in 0..0 |-> dir]
    <3>1. g0 = [i \in 0..0 |-> g0[i]] /\ g0[0] = dir
      OBVIOUS
    <3> HIDE DEF g0
    <3>2. Upto(0, g0)
      BY <3>1
    <3> QED
      BY <3>2
  <2>2. 0 \in 0..n
    BY <1>1
  <2> QED
    BY <2>1, <2>2
<1>3. ASSUME NEW k \in 0..n, k # n, k \in Reach PROVE k + 1 \in Reach
  <2>1. PICK g : Upto(k, g)
    BY <1>3
  <2> DEFINE h == [i \in 0..k + 1 |->
                     IF i = k + 1 THEN Direct(steps[k + 1], g[k], payload) ELSE g[i]]
  <2>2. k + 1 \in 0..n /\ k + 1 \in 1..n /\ 0 \in 0..k /\ k \in 0..k
    BY <1>1, <1>3
  <2>3. h = [i \in 0..k + 1 |-> h[i]]
    OBVIOUS
  <2>4. ASSUME NEW i \in 1..k + 1 PROVE h[i] = Direct(steps[i], h[i - 1], payload)
    <3>1. i \in 0..k + 1 /\ i - 1 \in 0..k + 1 /\ i - 1 # k + 1 /\ (i = k + 1 => i - 1 = k)
      BY <2>2
    <3>2. i # k + 1 => i \in 1..k
      BY <2>2
    <3> QED
      BY <2>1, <3>1, <3>2
  <2>5. h[0] = dir
    BY <2>1, <2>2
  <2> HIDE DEF h
  <2>6. Upto(k + 1, h)
    BY <2>3, <2>4, <2>5
  <2> QED
    BY <2>2, <2>6
<1>4. n \in Reach
  <2> HIDE DEF Reach
  <2>1. \A k \in 0..n : k # n /\ k \in Reach => k + 1 \in Reach
    BY <1>3
  <2>2. \A k \in 0..n : k \in Reach
    BY <1>1, <1>2, <2>1, CountUp
  <2> QED
    BY <1>1, <2>2
<1>5. PICK g : Upto(n, g)
  BY <1>4
<1>6. G(g)
  <2>1. \A i \in 0..n : g[i] = IF i = 0 THEN dir ELSE Direct(steps[i], g[i - 1], payload)
    <3>1. \A i \in 0..n : i = 0 \/ i \in 1..n
      BY <1>1
    <3> QED
      BY <1>5, <3>1
  <2>2. g = [i \in 0..n |-> g[i]]
    BY <1>5
  <2> QED
    BY <2>1, <2>2
<1> DEFINE after == CHOOSE h : G(h)
<1>7. After(dir, steps, payload) = after
  BY DEF After
<1> HIDE DEF G
<1>8. G(after)
  BY <1>6
<1> USE DEF G
<1> HIDE DEF after
<1>9. \A i \in 0..n : after[i] = IF i = 0 THEN dir ELSE Direct(steps[i], after[i - 1], payload)
  BY <1>8
<1>10. 0 \in 0..n /\ \A k \in 1..n : k \in 0..n /\ k # 0
  BY <1>1
<1> HIDE DEF G
<1> QED
  BY <1>7, <1>9, <1>10

(***************************************************************************)
(* What a run that reports no error composes.                              *)
(***************************************************************************)
\* The directory of an origin before the system replacements, and whether the
\* inputs promise one at all.
Base(o) ==
  CASE overlays[o].type = "dport" -> overlays[o].newport
    [] overlays[o].type = "lock" -> PortIn(Locked, o)
    [] OTHER -> PortIn(upstream[Target], o)
StepsOf(o) == Steps(overlays[o].ops, overlays[o].payload, Target)
Prefix(o) == After(Base(o), StepsOf(o), overlays[o].payload)
Promised(o) ==
  IF o \notin DOMAIN overlays THEN upstream[Target][o]
  ELSE IF overlays[o].mode = "dops" THEN Prefix(o)[Len(StepsOf(o))]
  ELSE IF overlays[o].type = "port" THEN CompatMerge(overlays[o], Base(o)).dir
  ELSE Base(o)
Wanted(o) ==
  IF o \notin DOMAIN overlays THEN o \in DOMAIN upstream[Target]
  ELSE /\ overlays[o].type # "mask" /\ Base(o) # None
       /\ ~(o \in marked /\ o \notin DOMAIN upstream[Target])

\* The output has of the port what upstream has, what its overlay makes of it,
\* and that with the system replacements; the live tree has the last.
Untouched(o) ==
  /\ o \in DOMAIN Output <=> o \in DOMAIN upstream[Target]
  /\ o \in DOMAIN Output => Output[o] = upstream[Target][o]
Right(o) ==
  /\ o \in DOMAIN Output <=> Wanted(o)
  /\ Wanted(o) => Output[o] = Promised(o)
Ready(o) ==
  /\ o \in DOMAIN Output <=> Wanted(o)
  /\ Wanted(o) => Output[o] = Replaced(Promised(o))
Landed(o) ==
  /\ o \in DOMAIN live <=> Wanted(o)
  /\ Wanted(o) => live[o] = Replaced(Promised(o))
Mirrored(o) ==
  /\ o \in DOMAIN live <=> o \in DOMAIN scratch
  /\ o \in DOMAIN scratch => live[o] = scratch[o]

\* Types.
InputsOK ==
  /\ upstream = [l \in Lines |-> upstream[l]] /\ checkout \in Lines \cup {NotGit}
  /\ \A l \in Lines : /\ DOMAIN upstream[l] \subseteq Origins
                      /\ \A o \in DOMAIN upstream[l] : upstream[l][o] \in Directories
  /\ DOMAIN overlays \subseteq Origins /\ \A o \in DOMAIN overlays : IsOverlay(overlays[o])

TodoOK == todo \in Seq(Origins) /\ \A i, j \in DOMAIN todo : todo[i] = todo[j] => i = j
TreesOK ==
  /\ DOMAIN scratch \subseteq Origins /\ DOMAIN ctxs \subseteq Origins
  /\ live = None \/ DOMAIN live \subseteq Origins
  /\ stage # "idle" => run.sel \subseteq Origins
  /\ stage \notin {"idle", "seed", "done"} /\ ~Full => DOMAIN live \subseteq Origins
  /\ stage = "mirror" => DOMAIN live \subseteq Origins

\* What preflight decided stands for what the inputs promise.
Decided(o) ==
  /\ Skipped(o) => ~Wanted(o) /\ o \notin DOMAIN upstream[Target] /\ ctxs[o].type = "port"
  /\ ~Skipped(o) =>
       IF o \in DOMAIN overlays
       THEN /\ ctxs[o].mode = overlays[o].mode /\ ctxs[o].type = overlays[o].type
            /\ ctxs[o].type # "invalid"
            /\ Wanted(o) <=> ctxs[o].type # "mask" /\ Base(o) # None
       ELSE /\ ctxs[o].mode = "compat" /\ ctxs[o].type = "port" /\ Wanted(o)

\* The ports a run answers for.
Covered == IF Full THEN Origins ELSE {s \in run.sel : ~ctxs[s].removed}

\* A port whose stage is still to come.
Waits(o) ==
  /\ o \in DOMAIN ctxs /\ ~Skipped(o)
  /\ \/ stage = "semantic" /\ (ctxs[o].mode = "compat" \/ o \in Range(todo))
     \/ stage = "compat" /\ ctxs[o].mode = "compat" /\ o \in Range(todo)

\* An apply run has edited the port's source with the steps it has done.
Replaying ==
  LET o == Head(todo) IN
  /\ o \in DOMAIN ctxs /\ ~Skipped(o) /\ ctxs[o].mode = "dops" /\ Wanted(o) /\ o \in DOMAIN overlays
  /\ \E k \in 0..Len(StepsOf(o)) :
       /\ apply.steps = SubSeq(StepsOf(o), k + 1, Len(StepsOf(o)))
       /\ direct = Prefix(o)[k]

Seeding == stage = "preflight" /\ Full /\ ~run.dry => scratch = CheckedOut

Deciding ==
  stage \notin {"seed", "preflight"} =>
    OnBranch /\ DOMAIN ctxs = Chosen /\ \A o \in DOMAIN ctxs : Decided(o)
Pruning ==
  stage = "prune" => /\ Full => scratch = upstream[Target]
                     /\ ~run.prune => \A o \in DOMAIN ctxs : ~ctxs[o].stale
Standing(o) ==
  IF Waits(o)
  THEN Full /\ ctxs[o].type = "port" /\ ctxs[o].mode = "dops" => Untouched(o)
  ELSE Right(o)
Composing == stage \in {"semantic", "compat", "system"} => \A o \in Covered : Standing(o)
Applies == apply # None => Replaying
Listed == stage \in {"semantic", "compat"} => Range(todo) \subseteq DOMAIN ctxs
Finishing ==
  /\ stage = "finalize" => \A o \in Covered : Ready(o)
  /\ stage \in {"reconcile", "mirror"} => Full /\ \A o \in Origins : Ready(o)
  /\ stage = "mirror" => \A o \in Origins : o \notin Range(todo) => Mirrored(o)
  /\ stage = "done" => \A o \in Covered : Landed(o)

Clean == stage # "idle" /\ ~failed /\ ~run.dry
CleanRun == Clean => Deciding /\ Pruning /\ Listed /\ Composing /\ Applies /\ Finishing
IdealInvariant == InputsOK /\ TodoOK /\ TreesOK /\ Seeding /\ CleanRun

(***************************************************************************)
(* Types.                                                                  *)
(***************************************************************************)
LEMMA EmptyTree == DOMAIN Empty = {}
  BY DEF Empty

\* Nothing but a change of the inputs changes them.
LEMMA InputsStand ==
  ASSUME [Next]_vars, stage # "idle"
  PROVE  UNCHANGED inputs
  BY DEF Next, UpstreamMoves, Switch, EditOverlay, Change, Start, Seed, Preflight, Prune,
     SkipSemantic, Materialize, ApplyOp, Commit, OracleFails, WriteFails, Leave, EndSemantic,
     Compat, EndCompat, SystemReplacements, Finalize, BeginReconcile, Mirror, EndReconcile,
     ReconcileFails, Return, Killed, AtRest

LEMMA InitInputs == Init => InputsOK
<1> SUFFICES ASSUME Init PROVE InputsOK
  OBVIOUS
<1> DEFINE tree == [o \in Origins |-> CHOOSE d \in Directories : TRUE]
<1>1. upstream \in [Lines -> {tree}]
  BY DEF Init
<1>2. DOMAIN tree = Origins /\ \A o \in Origins : tree[o] \in Directories
  BY ComposeAssumption
<1>3. upstream = [l \in Lines |-> upstream[l]] /\ \A l \in Lines : upstream[l] = tree
  BY <1>1
<1>4. DOMAIN overlays \subseteq Origins /\ \A o \in DOMAIN overlays : IsOverlay(overlays[o])
  <2>1. PICK S \in SUBSET Origins :
          overlays \in {f \in [S -> UNION {Overlays[o] : o \in S}] : \A o \in S : f[o] \in Overlays[o]}
    BY DEF Init
  <2> QED
    BY <2>1, ComposeAssumption
<1>5. checkout \in Lines
  BY ComposeAssumption DEF Init
<1> HIDE DEF tree
<1> QED
  BY <1>2, <1>3, <1>4, <1>5 DEF InputsOK

LEMMA StepInputs ==
  ASSUME InputsOK, [Next]_vars
  PROVE  InputsOK'
<1>0. /\ upstream = [l \in Lines |-> upstream[l]] /\ checkout \in Lines \cup {NotGit}
      /\ \A l \in Lines : /\ DOMAIN upstream[l] \subseteq Origins
                          /\ \A o \in DOMAIN upstream[l] : upstream[l][o] \in Directories
      /\ DOMAIN overlays \subseteq Origins /\ \A o \in DOMAIN overlays : IsOverlay(overlays[o])
  BY DEF InputsOK
<1>1. ASSUME NEW l \in Lines, NEW o \in Origins, UpstreamMoves(l, o) PROVE InputsOK'
  <2>1. PICK tree : /\ upstream' = [upstream EXCEPT ![l] = tree]
                    /\ DOMAIN tree \subseteq Origins /\ \A p \in DOMAIN tree : tree[p] \in Directories
    <3>1. CASE upstream' = [upstream EXCEPT ![l] = Drop(@, {o})]
      <4> DEFINE tree == Drop(upstream[l], {o})
      <4>1. upstream' = [upstream EXCEPT ![l] = tree]
        BY <3>1
      <4>2. DOMAIN tree \subseteq Origins /\ \A p \in DOMAIN tree : tree[p] \in Directories
        BY <1>0 DEF Drop
      <4> HIDE DEF tree
      <4> QED
        BY <4>1, <4>2
    <3>2. ASSUME NEW d \in Directories, upstream' = [upstream EXCEPT ![l] = Put(@, o, d)]
          PROVE  \E tree : /\ upstream' = [upstream EXCEPT ![l] = tree]
                           /\ DOMAIN tree \subseteq Origins
                           /\ \A p \in DOMAIN tree : tree[p] \in Directories
      <4> DEFINE tree == Put(upstream[l], o, d)
      <4>1. upstream' = [upstream EXCEPT ![l] = tree]
        BY <3>2
      <4>2. DOMAIN tree \subseteq Origins /\ \A p \in DOMAIN tree : tree[p] \in Directories
        BY <1>0 DEF Put
      <4> HIDE DEF tree
      <4> QED
        BY <4>1, <4>2
    <3> QED
      BY <1>1, <3>1, <3>2 DEF UpstreamMoves
  <2>2. UNCHANGED <<checkout, overlays>>
    BY <1>1 DEF UpstreamMoves
  <2>3. /\ upstream' = [m \in Lines |-> upstream'[m]]
        /\ \A m \in Lines : upstream'[m] = IF m = l THEN tree ELSE upstream[m]
    BY <1>0, <2>1
  <2> QED
    BY <1>0, <2>1, <2>2, <2>3 DEF InputsOK
<1>2. ASSUME NEW c \in Lines \cup {NotGit}, Switch(c) PROVE InputsOK'
  BY <1>0, <1>2 DEF Switch, InputsOK
<1>3. ASSUME NEW o \in Origins, EditOverlay(o) PROVE InputsOK'
  <2>1. DOMAIN overlays' \subseteq Origins /\ \A p \in DOMAIN overlays' : IsOverlay(overlays'[p])
    <3>1. ASSUME NEW ov \in Overlays[o], overlays' = Put(overlays, o, ov)
          PROVE  DOMAIN overlays' \subseteq Origins /\ \A p \in DOMAIN overlays' : IsOverlay(overlays'[p])
      <4>1. IsOverlay(ov)
        BY ComposeAssumption
      <4>2. DOMAIN overlays' = DOMAIN overlays \cup {o}
            /\ \A p \in DOMAIN overlays' : overlays'[p] = IF p = o THEN ov ELSE overlays[p]
        BY <3>1 DEF Put
      <4> QED
        BY <1>0, <4>1, <4>2
    <3>2. CASE overlays' = Drop(overlays, {o})
      <4>1. DOMAIN overlays' = DOMAIN overlays \ {o}
            /\ \A p \in DOMAIN overlays' : overlays'[p] = overlays[p]
        BY <3>2 DEF Drop
      <4> QED
        BY <1>0, <4>1
    <3> QED
      BY <1>3, <3>1, <3>2 DEF EditOverlay
  <2>2. UNCHANGED <<upstream, checkout>>
    BY <1>3 DEF EditOverlay
  <2> QED
    BY <1>0, <2>1, <2>2 DEF InputsOK
<1>4. CASE UNCHANGED inputs
  BY <1>0, <1>4 DEF InputsOK
<1> QED
  BY <1>1, <1>2, <1>3, <1>4, InputsStand
     DEF Next, Start, Seed, Preflight, Prune, SkipSemantic, Materialize, ApplyOp, Commit,
     OracleFails, WriteFails, Leave, EndSemantic, Compat, EndCompat, SystemReplacements, Finalize,
     BeginReconcile, Mirror, EndReconcile, ReconcileFails, Return, Killed, AtRest

LEMMA Ordered ==
  ASSUME NEW S, S \subseteq Origins, todo' = SetToSeq(S)
  PROVE  TodoOK' /\ Range(todo') = S
<1>1. IsFiniteSet(S)
  BY ComposeAssumption, FS_Subset
<1>2. SetToSeq(S) \in Seq(Origins)
  BY <1>1, SetToSeqLists, SeqMonotonic
<1> QED
  BY <1>1, <1>2, SetToSeqLists DEF TodoOK

LEMMA NothingToDo == ASSUME todo' = <<>> PROVE TodoOK' /\ Range(todo') = {}
  BY DEF TodoOK, Range

LEMMA NextOrdered ==
  ASSUME TodoOK, todo # <<>>, todo' = Tail(todo)
  PROVE  /\ TodoOK' /\ Head(todo) \in Origins
         /\ Head(todo) \in Range(todo) /\ Range(todo') = Range(todo) \ {Head(todo)}
<1>1. todo \in Seq(Origins) /\ \A i, j \in DOMAIN todo : todo[i] = todo[j] => i = j
  BY DEF TodoOK
<1> QED
  BY <1>1, TailOf DEF TodoOK

LEMMA InOutput ==
  ASSUME TreesOK, stage \notin {"idle", "seed", "done"}
  PROVE  DOMAIN Output \subseteq Origins
  BY DEF TreesOK, Output

LEMMA OutputBound ==
  ASSUME TreesOK, stage \notin {"idle", "seed", "done"}, NEW tree, DOMAIN tree \subseteq Origins,
         SetOutput(tree), UNCHANGED <<run, ctxs>>, stage' # "mirror"
  PROVE  TreesOK'
  BY DEF TreesOK, SetOutput, Full

LEMMA LeaveBound ==
  ASSUME TodoOK, TreesOK, NEW dir, NEW ok, Leave(dir, ok), stage = "semantic", todo # <<>>
  PROVE  TodoOK' /\ TreesOK'
<1>1. todo' = Tail(todo) \/ todo' = <<>>
  BY DEF Leave, NextPort
<1>2. Head(todo) \in Origins
  BY TailOf DEF TodoOK
<1>4. stage' # "mirror"
  BY DEF Leave, NextPort
<1>3. DOMAIN Put(Output, Head(todo), dir) \subseteq Origins
  BY <1>2, InOutput DEF Put
<1> QED
  BY <1>1, <1>3, <1>4, NextOrdered, NothingToDo, OutputBound DEF Leave

LEMMA InitTrees == Init => TodoOK /\ TreesOK
<1> SUFFICES ASSUME Init PROVE TodoOK /\ TreesOK
  OBVIOUS
<1>1. todo = <<>> /\ scratch = Empty /\ ctxs = Empty /\ live = None /\ stage = "idle"
  BY DEF Init
<1> QED
  BY <1>1, EmptyTree DEF TodoOK, TreesOK

LEMMA StepTrees ==
  ASSUME BufferInvariant, InputsOK, TodoOK, TreesOK, [Next]_vars
  PROVE  TodoOK' /\ TreesOK'
<1>0. /\ DOMAIN scratch \subseteq Origins /\ DOMAIN ctxs \subseteq Origins
      /\ live = None \/ DOMAIN live \subseteq Origins
      /\ stage # "idle" => run.sel \subseteq Origins
      /\ stage \notin {"idle", "seed", "done"} /\ ~Full => DOMAIN live \subseteq Origins
      /\ stage = "mirror" => DOMAIN live \subseteq Origins
  BY DEF TreesOK
<1>1. CASE \/ \E l \in Lines, o \in Origins : UpstreamMoves(l, o)
           \/ \E c \in Lines \cup {NotGit} : Switch(c)
           \/ \E o \in Origins : EditOverlay(o)
           \/ UNCHANGED vars
  BY <1>0, <1>1 DEF UpstreamMoves, Switch, EditOverlay, Change, TodoOK, TreesOK, Full
<1>2. ASSUME NEW kind, NEW sel, sel \subseteq Origins, Start(kind, sel) PROVE TodoOK' /\ TreesOK'
  <2>1. run'.sel = sel /\ UNCHANGED <<todo, scratch, ctxs, live>> /\ stage' = "seed"
    BY <1>2 DEF Start
  <2> QED
    BY <1>0, <1>2, <2>1 DEF TodoOK, TreesOK, Full
<1>3. CASE Seed
  <2>1. DOMAIN CheckedOut \subseteq Origins
    BY ComposeAssumption DEF InputsOK, CheckedOut
  <2>2. DOMAIN scratch' \subseteq Origins
    BY <1>3, <2>1, EmptyTree DEF Seed
  <2>3. stage' # "done" /\ ~Full => live # None
    BY <1>3 DEF Seed
  <2> QED
    BY <1>0, <1>3, <2>2, <2>3 DEF Seed, TodoOK, TreesOK, Full
<1>4. CASE Preflight
  <2>1. DOMAIN ctxs' \subseteq Origins
    <3>1. Chosen \subseteq Origins
      BY <1>0, <1>4 DEF Chosen, Preflight, InputsOK
    <3>2. DOMAIN ctxs' \subseteq Chosen
      BY <1>4 DEF Preflight
    <3> QED
      BY <3>1, <3>2
  <2>2. TodoOK'
    <3>1. todo' = SetToSeq({}) \/ todo' = <<>>
      BY <1>4 DEF Preflight, Goto
    <3> QED
      BY <3>1, Ordered, NothingToDo
  <2>3. UNCHANGED <<scratch, live, run>>
    BY <1>4 DEF Preflight
  <2>4. stage = "preflight" /\ stage' # "mirror"
    BY <1>4 DEF Preflight, Goto
  <2> QED
    BY <1>0, <2>1, <2>2, <2>3, <2>4 DEF TreesOK, Full
<1>5. CASE Prune
  <2> DEFINE tree == IF run.prune THEN Drop(Output, {o \in DOMAIN ctxs : ctxs[o].stale}) ELSE Output
  <2>1. stage = "prune" /\ stage' # "mirror" /\ SetOutput(tree) /\ todo' = SetToSeq(DOMAIN ctxs) /\ UNCHANGED <<run, ctxs>>
    BY <1>5 DEF Prune
  <2>2. DOMAIN tree \subseteq Origins
    BY <2>1, InOutput DEF Drop
  <2> HIDE DEF tree
  <2> QED
    BY <1>0, <2>1, <2>2, OutputBound, Ordered
<1>6. CASE SkipSemantic
  <2>1. todo # <<>> /\ todo' = Tail(todo) /\ UNCHANGED <<live, run, stage, scratch, ctxs>>
    BY <1>6 DEF SkipSemantic, AtPort
  <2> QED
    BY <1>0, <2>1, NextOrdered DEF TreesOK, Full
<1>7. CASE Materialize
  <2> DEFINE o == Head(todo)
             dir == IF Seeded(o) /\ ~run.dry THEN PortIn(Output, o) ELSE Source(o, ctxs[o].type)
  <2>1. /\ stage = "semantic" /\ todo # <<>> /\ UNCHANGED <<run, ctxs>> /\ stage' # "mirror"
        /\ \/ SetOutput(Drop(Output, {o})) \/ SetOutput(Output) \/ SetOutput(Put(Output, o, dir))
        /\ todo' = Tail(todo) \/ todo' = <<>> \/ todo' = todo
    BY <1>7 DEF Materialize, AtPort, NextPort
  <2>2. o \in Origins
    BY <2>1, TailOf DEF TodoOK
  <2> HIDE DEF o, dir
  <2>3. /\ DOMAIN Drop(Output, {o}) \subseteq Origins /\ DOMAIN Put(Output, o, dir) \subseteq Origins
        /\ DOMAIN Output \subseteq Origins
    BY <2>1, <2>2, InOutput DEF Put, Drop
  <2>4. TodoOK'
    BY <2>1, NextOrdered, NothingToDo DEF TodoOK
  <2> QED
    BY <2>1, <2>3, <2>4, OutputBound
<1>8. CASE ApplyOp \/ Commit \/ OracleFails \/ WriteFails
  <2>1. stage = "semantic" /\ todo # <<>>
    BY <1>8 DEF ApplyOp, Commit, OracleFails, WriteFails, BufferInvariant, Applying
  <2>2. (\E dir, ok : Leave(dir, ok)) \/ UNCHANGED <<live, run, stage, todo, scratch, ctxs>>
    BY <1>8 DEF ApplyOp, Commit, OracleFails, WriteFails
  <2> QED
    BY <1>0, <2>1, <2>2, LeaveBound DEF TodoOK, TreesOK, Full
<1>9. CASE EndSemantic
  <2>1. /\ todo' = SetToSeq(DOMAIN ctxs) /\ UNCHANGED <<live, run, scratch, ctxs>>
        /\ stage = "semantic" /\ stage' = "compat"
    BY <1>9 DEF EndSemantic
  <2> QED
    BY <1>0, <2>1, Ordered DEF TreesOK, Full
<1>10. CASE Compat
  <2> DEFINE o == Head(todo)
             dir == Merged(o, Source(o, ctxs[o].type)).dir
  <2>1. /\ stage = "compat" /\ todo # <<>> /\ UNCHANGED <<run, ctxs>> /\ stage' # "mirror"
        /\ \/ SetOutput(Drop(Output, {o})) \/ UNCHANGED <<scratch, live>> \/ SetOutput(Put(Output, o, dir))
        /\ todo' = Tail(todo) \/ todo' = <<>>
    BY <1>10 DEF Compat, AtPort, NextPort
  <2>2. o \in Origins
    BY <2>1, TailOf DEF TodoOK
  <2> HIDE DEF o, dir
  <2>3. DOMAIN Drop(Output, {o}) \subseteq Origins /\ DOMAIN Put(Output, o, dir) \subseteq Origins
    BY <2>1, <2>2, InOutput DEF Put, Drop
  <2>4. TodoOK'
    BY <2>1, NextOrdered, NothingToDo
  <2>5. CASE UNCHANGED <<scratch, live>>
    BY <1>0, <2>1, <2>4, <2>5 DEF TreesOK, Full
  <2> QED
    BY <2>1, <2>3, <2>4, <2>5, OutputBound
<1>11. CASE EndCompat \/ EndReconcile
  BY <1>0, <1>11 DEF EndCompat, EndReconcile, TodoOK, TreesOK, Full
<1>12. CASE SystemReplacements \/ Finalize
  <2>1. /\ stage \in {"system", "finalize"} /\ UNCHANGED <<run, ctxs, todo>> /\ stage' # "mirror"
        /\ UNCHANGED <<scratch, live>> \/ \E tree : DOMAIN tree \subseteq DOMAIN Output /\ SetOutput(tree)
    <3>1. CASE SystemReplacements
      <4> DEFINE tree == [o \in DOMAIN Output |-> IF Full \/ o \in run.sel THEN Replaced(Output[o]) ELSE Output[o]]
      <4>1. SetOutput(tree) /\ DOMAIN tree = DOMAIN Output
        BY <3>1 DEF SystemReplacements
      <4> HIDE DEF tree
      <4> QED
        BY <3>1, <4>1 DEF SystemReplacements
    <3>2. CASE Finalize
      <4> DEFINE tree == Drop(Output, DOMAIN Output \ (Present \cup KeepExtra))
      <4>1. UNCHANGED <<scratch, live>> \/ SetOutput(tree)
        BY <3>2 DEF Finalize
      <4>2. DOMAIN tree \subseteq DOMAIN Output
        BY DEF Drop
      <4> HIDE DEF tree
      <4> QED
        BY <3>2, <4>1, <4>2 DEF Finalize
    <3> QED
      BY <1>12, <3>1, <3>2
  <2>2. DOMAIN Output \subseteq Origins
    BY <2>1, InOutput
  <2>3. TreesOK'
    <3>1. CASE UNCHANGED <<scratch, live>>
      BY <1>0, <2>1, <3>1 DEF TreesOK, Full
    <3> QED
      BY <2>1, <2>2, <3>1, OutputBound
  <2> QED
    BY <2>1, <2>3 DEF TodoOK
<1>13. CASE BeginReconcile
  <2>1. /\ live' = IF live = None THEN Empty ELSE live
        /\ todo' = SetToSeq(DOMAIN live' \cup DOMAIN scratch) /\ stage = "reconcile"
        /\ UNCHANGED <<run, scratch, ctxs>>
    BY <1>13 DEF BeginReconcile
  <2>2. DOMAIN live' \subseteq Origins
    BY <1>0, <2>1, EmptyTree
  <2> QED
    BY <1>0, <2>1, <2>2, Ordered DEF TreesOK, Full
<1>14. CASE Mirror
  <2> DEFINE o == Head(todo)
  <2>1. /\ stage = "mirror" /\ todo # <<>> /\ todo' = Tail(todo) /\ UNCHANGED <<run, scratch, ctxs, stage>>
        /\ live' = IF o \in DOMAIN scratch THEN Put(live, o, scratch[o]) ELSE Drop(live, {o})
    BY <1>14 DEF Mirror, AtPort
  <2>2. o \in Origins
    BY <2>1, TailOf DEF TodoOK
  <2> HIDE DEF o
  <2>3. DOMAIN live \subseteq Origins
    BY <2>1 DEF TreesOK
  <2>4. DOMAIN live' \subseteq Origins
    <3>1. live' = Put(live, o, scratch[o]) \/ live' = Drop(live, {o})
      BY <2>1
    <3> QED
      BY <2>2, <2>3, <3>1 DEF Put, Drop
  <2> QED
    BY <1>0, <2>1, <2>4, NextOrdered DEF TreesOK, Full
<1>15. CASE Return
  <2>1. UNCHANGED live /\ stage' = "idle" /\ todo' = <<>> /\ scratch' = Empty /\ ctxs' = Empty
    BY <1>15 DEF Return, AtRest
  <2> QED
    BY <1>0, <2>1, EmptyTree, NothingToDo DEF TreesOK
<1>16. CASE Killed
  <2>1. stage' = "idle" /\ todo' = <<>> /\ scratch' = Empty /\ ctxs' = Empty
    BY <1>16 DEF Killed, AtRest
  <2>2. live' = live \/ DOMAIN live' \subseteq Origins
    <3>1. CASE apply # None /\ ~Full /\ ~run.dry
      <4>1. stage = "semantic" /\ todo # <<>>
        BY <3>1 DEF BufferInvariant, Applying
      <4>2. Head(todo) \in Origins /\ DOMAIN live \subseteq Origins
        BY <1>0, <3>1, <4>1, TailOf DEF TodoOK
      <4>3. live' = Put(live, Head(todo), apply.txn.disk)
        BY <1>16, <3>1 DEF Killed
      <4> QED
        BY <4>2, <4>3 DEF Put
    <3>2. CASE ~(apply # None /\ ~Full /\ ~run.dry)
      BY <1>16, <3>2 DEF Killed
    <3> QED
      BY <3>1, <3>2
  <2> QED
    BY <1>0, <2>1, <2>2, EmptyTree, NothingToDo DEF TreesOK
<1>17. CASE ReconcileFails
  <2>1. UNCHANGED <<live, run, scratch, ctxs>> /\ todo' = <<>> /\ stage' = "done" /\ stage = "mirror"
    BY <1>17 DEF ReconcileFails, AtPort
  <2> QED
    BY <1>0, <2>1, NothingToDo DEF TreesOK, Full
<1> QED
  BY <1>1, <1>2, <1>3, <1>4, <1>5, <1>6, <1>7, <1>8, <1>9, <1>10, <1>11, <1>12, <1>13, <1>14,
     <1>15, <1>16, <1>17, ComposeAssumption DEF Next

(***************************************************************************)
(* What the inputs promise, and what a step of a run leaves alone.         *)
(***************************************************************************)
LEMMA UpstreamPort ==
  ASSUME InputsOK, NEW o
  PROVE  PortIn(upstream[Target], o) = None <=> o \notin DOMAIN upstream[Target]
  BY ComposeAssumption DEF InputsOK, PortIn

LEMMA IdealIsPromised ==
  ASSUME InputsOK, NEW o \in Origins
  PROVE  Ideal(o) = IF Wanted(o) THEN Replaced(Promised(o)) ELSE None
<1>1. CASE o \notin DOMAIN overlays
  <2>1. Ideal(o) = IF PortIn(upstream[Target], o) = None THEN None
                   ELSE Replaced(PortIn(upstream[Target], o))
    BY <1>1 DEF Ideal
  <2> QED
    BY <1>1, <2>1, UpstreamPort DEF Wanted, Promised, PortIn
<1>2. CASE o \in DOMAIN overlays
  <2> DEFINE ov == overlays[o]
             applied == IF ov.mode = "dops" THEN Prefix(o)[Len(StepsOf(o))]
                        ELSE IF ov.type = "port" THEN CompatMerge(ov, Base(o)).dir ELSE Base(o)
  <2>1. Ideal(o) = IF \/ ov.type = "mask" \/ Base(o) = None
                      \/ o \in marked /\ PortIn(upstream[Target], o) = None
                   THEN None ELSE Replaced(applied)
    BY <1>2 DEF Ideal, Base, Prefix, StepsOf
  <2>2. applied = Promised(o)
    BY <1>2 DEF Promised
  <2> HIDE DEF applied
  <2> QED
    BY <1>2, <2>1, <2>2, UpstreamPort DEF Wanted
<1> QED
  BY <1>1, <1>2

LEMMA BaseIsDirectory ==
  ASSUME InputsOK, NEW o \in DOMAIN overlays, Base(o) # None
  PROVE  IsDirectory(Base(o))
<1>1. o \in Origins /\ IsOverlay(overlays[o])
  BY DEF InputsOK
<1>2. PortIn(upstream[Target], o) # None => IsDirectory(PortIn(upstream[Target], o))
  BY ComposeAssumption DEF InputsOK, PortIn
<1>3. PortIn(Locked, o) # None => IsDirectory(PortIn(Locked, o))
  BY ComposeAssumption DEF PortIn
<1>4. overlays[o].newport # None => IsDirectory(overlays[o].newport)
  BY <1>1 DEF IsOverlay
<1> QED
  BY <1>2, <1>3, <1>4 DEF Base

LEMMA RunFixed ==
  ASSUME UNCHANGED <<inputs, marked, run, ctxs>>
  PROVE  /\ \A o : /\ Base(o)' = Base(o) /\ StepsOf(o)' = StepsOf(o) /\ Prefix(o)' = Prefix(o)
                   /\ Promised(o)' = Promised(o) /\ (Wanted(o)' <=> Wanted(o))
                   /\ (Skipped(o)' <=> Skipped(o)) /\ (Decided(o)' <=> Decided(o))
         /\ Covered' = Covered /\ Chosen' = Chosen /\ (OnBranch' <=> OnBranch) /\ (Full' <=> Full)
<1>1. ASSUME NEW o
      PROVE  /\ Base(o)' = Base(o) /\ StepsOf(o)' = StepsOf(o) /\ (Skipped(o)' <=> Skipped(o))
  BY DEF Base, StepsOf, Skipped, PortIn
<1>2. ASSUME NEW o PROVE Prefix(o)' = Prefix(o) /\ (Wanted(o)' <=> Wanted(o))
  BY <1>1 DEF Prefix, Wanted
<1>3. ASSUME NEW o PROVE Promised(o)' = Promised(o) /\ (Decided(o)' <=> Decided(o))
  BY <1>1, <1>2 DEF Promised, Decided
<1>4. Covered' = Covered /\ Chosen' = Chosen /\ (OnBranch' <=> OnBranch) /\ (Full' <=> Full)
  BY DEF Covered, Chosen, OnBranch, Full
<1> QED
  BY <1>1, <1>2, <1>3, <1>4

LEMMA OutputOf ==
  ASSUME ~run.dry, run' = run, NEW tree, SetOutput(tree)
  PROVE  Output' = tree
  BY DEF SetOutput, Output, Full

LEMMA OutputStays ==
  ASSUME UNCHANGED <<run, scratch, live>>
  PROVE  Output' = Output
  BY DEF Output, Full

\* A clean run was clean before its last step.
LEMMA CleanBefore ==
  ASSUME [Next]_vars, Clean', stage \notin {"idle", "seed", "preflight"}
  PROVE  Clean /\ UNCHANGED <<inputs, marked, run, ctxs>>
<1>1. UNCHANGED inputs
  BY InputsStand
<1>2. stage' # "idle" /\ ~failed' /\ ~run'.dry
  BY DEF Clean
<1>3. UNCHANGED <<marked, run, ctxs>> /\ (~failed' => ~failed)
  <2>1. CASE Prune \/ SkipSemantic \/ EndSemantic \/ EndCompat \/ SystemReplacements \/ Finalize
             \/ BeginReconcile \/ Mirror \/ EndReconcile \/ ReconcileFails \/ UNCHANGED vars
    BY <2>1 DEF Prune, SkipSemantic, EndSemantic, EndCompat, SystemReplacements, Finalize,
       BeginReconcile, Mirror, EndReconcile, ReconcileFails
  <2>2. CASE Materialize \/ Compat
    <3>1. UNCHANGED <<marked, run, ctxs>>
      BY <2>2 DEF Materialize, Compat
    <3>2. failed' = failed \/ failed' = TRUE \/ \E p : failed' = (failed \/ p)
      <4>1. CASE Materialize
        <5>1. UNCHANGED failed \/ \E p, q : failed' = (failed \/ p \/ q)
          BY <4>1, Zenon DEF Materialize
        <5> QED
          BY <5>1, Zenon
      <4>2. CASE Compat
        <5>1. UNCHANGED failed \/ failed' = TRUE \/ \E p : failed' = (failed \/ p)
          BY <4>2, Zenon DEF Compat
        <5> QED
          BY <5>1
      <4> QED
        BY <2>2, <4>1, <4>2
    <3>3. ASSUME NEW p, failed' = (failed \/ p) PROVE ~failed' => ~failed
      BY <3>3, Zenon
    <3>4. ~failed' => ~failed
      BY <3>2, <3>3, Zenon
    <3> QED
      BY <3>1, <3>4
  <2>3. CASE ApplyOp \/ Commit \/ OracleFails \/ WriteFails
    <3>1. (\E dir, ok : Leave(dir, ok)) \/ UNCHANGED <<marked, run, ctxs, failed>>
      BY <2>3 DEF ApplyOp, Commit, OracleFails, WriteFails
    <3>2. ASSUME NEW dir, NEW ok, Leave(dir, ok) PROVE UNCHANGED <<marked, run, ctxs>> /\ (~failed' => ~failed)
      <4>1. failed' = (failed \/ ~ok) /\ UNCHANGED <<marked, run, ctxs>>
        BY <3>2 DEF Leave
      <4> QED
        BY <4>1, Zenon
    <3> QED
      BY <3>1, <3>2
  <2> QED
    BY <1>2, <2>1, <2>2, <2>3
       DEF Next, UpstreamMoves, Switch, EditOverlay, Change, Start, Seed, Preflight, Return, Killed,
       AtRest
<1> QED
  BY <1>1, <1>2, <1>3 DEF Clean

LEMMA DecidingStays ==
  ASSUME Deciding, stage \notin {"seed", "preflight"}, UNCHANGED <<inputs, marked, run, ctxs>>
  PROVE  Deciding'
  BY RunFixed DEF Deciding

\* A step for one port, which leaves the others where they were.
LEMMA PortStep ==
  ASSUME Composing, stage \in {"semantic", "compat"}, stage' = stage,
         UNCHANGED <<inputs, marked, run, ctxs>>, NEW p,
         Range(todo') = Range(todo) \/ Range(todo') = Range(todo) \ {p},
         \A o : o # p => /\ o \in DOMAIN Output' <=> o \in DOMAIN Output
                         /\ o \in DOMAIN Output => Output'[o] = Output[o],
         p \in Covered => Standing(p)'
  PROVE  Composing'
<1> SUFFICES ASSUME NEW o \in Covered, o # p PROVE Standing(o)'
  BY RunFixed DEF Composing
<1>1. Standing(o)
  BY DEF Composing
<1>2. Waits(o)' <=> Waits(o)
  BY RunFixed DEF Waits
<1>3. Untouched(o) => Untouched(o)'
  BY DEF Untouched
<1>4. Right(o) => Right(o)'
  BY RunFixed DEF Right
<1> QED
  BY <1>1, <1>2, <1>3, <1>4, RunFixed DEF Standing

\* The output of a port that the step has written or dropped.
LEMMA PutOutput ==
  ASSUME NEW d, NEW p, NEW c, Output' = Put(d, p, c), d = Output
  PROVE  /\ p \in DOMAIN Output' /\ Output'[p] = c
         /\ \A o : o # p => /\ o \in DOMAIN Output' <=> o \in DOMAIN Output
                            /\ o \in DOMAIN Output => Output'[o] = Output[o]
  BY DEF Put

LEMMA DropOutput ==
  ASSUME NEW d, NEW p, Output' = Drop(d, {p}), d = Output
  PROVE  /\ p \notin DOMAIN Output'
         /\ \A o : o # p => /\ o \in DOMAIN Output' <=> o \in DOMAIN Output
                            /\ o \in DOMAIN Output => Output'[o] = Output[o]
  BY DEF Drop

\* The source a port starts from is the one the inputs promise.
LEMMA SourceIsBase ==
  ASSUME OnBranch, NEW o, ctxs[o].type = IF o \in DOMAIN overlays THEN overlays[o].type ELSE "port"
  PROVE  Source(o, ctxs[o].type)
           = IF o \in DOMAIN overlays THEN Base(o) ELSE PortIn(upstream[Target], o)
<1>1. CheckedOut = upstream[Target]
  BY ComposeAssumption DEF OnBranch, CheckedOut
<1> QED
  BY <1>1 DEF Source, Base

(***************************************************************************)
(* One lemma per step of a run that has no error so far.                   *)
(***************************************************************************)
LEMMA PruneClean ==
  ASSUME BufferInvariant, InputsOK, TodoOK, TreesOK, Clean, CleanRun, Prune, Clean'
  PROVE  CleanRun'
<1> DEFINE stale == {o \in DOMAIN ctxs : ctxs[o].stale}
           tree == IF run.prune THEN Drop(Output, stale) ELSE Output
<1>0. /\ stage = "prune" /\ stage' = "semantic" /\ SetOutput(tree) /\ todo' = SetToSeq(DOMAIN ctxs)
      /\ UNCHANGED <<inputs, marked, run, ctxs, apply>>
  BY DEF Prune
<1>1. Deciding /\ Pruning /\ ~run.dry /\ DOMAIN ctxs \subseteq Origins
  BY DEF CleanRun, Clean, TreesOK
<1>2. Output' = tree
  BY <1>0, <1>1, OutputOf
<1>3. Range(todo') = DOMAIN ctxs
  BY <1>0, <1>1, Ordered
<1>4. \A o : /\ o \in DOMAIN tree <=> o \in DOMAIN Output /\ ~ (run.prune /\ o \in stale)
             /\ o \in DOMAIN tree => tree[o] = Output[o]
  BY DEF Drop
<1> HIDE DEF tree
<1>5. ASSUME NEW o \in Covered PROVE Standing(o)'
  <2>1. CASE o \in DOMAIN ctxs /\ ~Skipped(o)
    <3>1. Decided(o) /\ o \in Origins
      BY <1>0, <1>1, <2>1 DEF Deciding
    <3>2. ctxs[o].mode \in {"dops", "compat"}
      BY <2>1, <3>1 DEF Decided, InputsOK, IsOverlay
    <3>3. Waits(o)'
      BY <1>0, <1>3, <2>1, <3>2, RunFixed DEF Waits
    <3>4. Full => Untouched(o)'
      <4>1. Full => Output = upstream[Target]
        BY <1>0, <1>1 DEF Pruning, Output
      <4>2. o \notin stale
        BY <2>1 DEF Skipped
      <4> QED
        BY <1>0, <1>2, <1>4, <4>1, <4>2 DEF Untouched
    <3> QED
      BY <1>0, <3>3, <3>4, RunFixed DEF Standing
  <2>2. CASE o \in DOMAIN ctxs /\ Skipped(o)
    <3>1. ~Wanted(o) /\ o \notin DOMAIN upstream[Target]
      BY <1>0, <1>1, <2>2 DEF Deciding, Decided
    <3>2. o \notin DOMAIN Output'
      <4>1. CASE Full
        BY <1>0, <1>1, <1>2, <1>4, <3>1, <4>1 DEF Pruning, Output
      <4>2. CASE ~Full
        <5>1. ~ctxs[o].removed
          BY <4>2 DEF Covered
        <5>2. o \in stale /\ run.prune
          BY <1>0, <1>1, <2>2, <5>1 DEF Skipped, Pruning
        <5> QED
          BY <1>2, <1>4, <5>2
      <4> QED
        BY <4>1, <4>2
    <3>3. ~Waits(o)' /\ Right(o)'
      BY <1>0, <2>2, <3>1, <3>2, RunFixed DEF Waits, Right
    <3> QED
      BY <3>3 DEF Standing
  <2>3. CASE o \notin DOMAIN ctxs
    <3>1. Full /\ o \notin DOMAIN overlays
      BY <1>0, <1>1, <2>3 DEF Deciding, Chosen, Covered
    <3>2. Output = upstream[Target]
      BY <1>0, <1>1, <3>1 DEF Pruning, Output
    <3>3. /\ o \in DOMAIN Output' <=> o \in DOMAIN upstream[Target]
          /\ o \in DOMAIN Output' => Output'[o] = upstream[Target][o]
      BY <1>2, <1>4, <2>3, <3>2
    <3>4. Right(o)
      BY <3>1, <3>2 DEF Right, Wanted, Promised
    <3>5. Right(o)' /\ ~Waits(o)'
      BY <1>0, <2>3, <3>1, <3>3, RunFixed DEF Right, Wanted, Promised, Waits
    <3> QED
      BY <3>5 DEF Standing
  <2> QED
    BY <2>1, <2>2, <2>3
<1>6. Composing'
  BY <1>0, <1>5, RunFixed DEF Composing
<1>7. Applies'
  BY <1>0 DEF BufferInvariant, Applying, Applies
<1>8. Deciding' /\ Pruning' /\ Listed' /\ Finishing'
  BY <1>0, <1>1, <1>3, DecidingStays DEF Pruning, Listed, Finishing
<1> QED
  BY <1>6, <1>7, <1>8 DEF CleanRun

LEMMA SkipClean ==
  ASSUME BufferInvariant, InputsOK, TodoOK, TreesOK, Clean, CleanRun, SkipSemantic, Clean'
  PROVE  CleanRun'
<1>p. PICK p : p = Head(todo)
  OBVIOUS
<1>0. /\ stage = "semantic" /\ stage' = stage /\ todo # <<>> /\ apply = None /\ todo' = Tail(todo)
      /\ Skipped(p) \/ ctxs[p].mode # "dops"
      /\ UNCHANGED <<inputs, marked, run, ctxs, apply, scratch, live>>
  BY <1>p DEF SkipSemantic, AtPort
<1>1. Range(todo') = Range(todo) \ {p}
  BY <1>0, <1>p, NextOrdered
<1>2. Deciding /\ Listed /\ Composing
  BY DEF CleanRun
<1>3. Output' = Output
  BY <1>0, OutputStays
<1>4. ASSUME p \in Covered PROVE Standing(p)'
  <2>1. Standing(p)
    BY <1>0, <1>2, <1>4 DEF Composing
  <2>2. p \in DOMAIN ctxs /\ ~Skipped(p) => ctxs[p].mode = "compat"
    BY <1>0, <1>2 DEF Deciding, Decided, InputsOK, IsOverlay
  <2>3. Waits(p)' <=> Waits(p)
    BY <1>0, <1>1, <2>2, RunFixed DEF Waits
  <2> QED
    BY <1>0, <1>3, <2>1, <2>3, RunFixed DEF Standing, Untouched, Right
<1>5. Composing'
  BY <1>0, <1>1, <1>2, <1>3, <1>4, PortStep
<1>6. Deciding' /\ Pruning' /\ Listed' /\ Finishing' /\ Applies'
  BY <1>0, <1>1, <1>2, DecidingStays DEF Pruning, Listed, Finishing, Applies
<1> QED
  BY <1>5, <1>6 DEF CleanRun

LEMMA MaterializeClean ==
  ASSUME BufferInvariant, InputsOK, TodoOK, TreesOK, Clean, CleanRun, Materialize, Clean'
  PROVE  CleanRun'
<1>p. PICK p : p = Head(todo)
  OBVIOUS
<1> DEFINE type == ctxs[p].type
           dir == IF Seeded(p) /\ ~run.dry THEN PortIn(Output, p) ELSE Source(p, type)
<1>0. /\ stage = "semantic" /\ todo # <<>> /\ apply = None
      /\ ~Skipped(p) /\ ctxs[p].mode = "dops"
      /\ UNCHANGED <<inputs, marked, run, ctxs>>
      /\ ~run.dry /\ ~failed'
  BY <1>p DEF Materialize, AtPort, Clean
<1>1. p \in Range(todo) /\ p \in Origins
  BY <1>0, <1>p, TailOf DEF TodoOK
<1>2. OnBranch /\ p \in DOMAIN ctxs /\ Decided(p) /\ Deciding /\ Listed /\ Composing
  BY <1>0, <1>1 DEF CleanRun, Deciding, Listed
<1>3. /\ p \in DOMAIN overlays /\ type = overlays[p].type /\ type # "invalid"
      /\ Wanted(p) <=> type # "mask" /\ Base(p) # None
  BY <1>0, <1>2 DEF Decided
<1>4. p \in Covered
  BY <1>0, <1>1, <1>2 DEF Deciding, Chosen, Covered, Skipped
<1>5. Standing(p)
  BY <1>0, <1>2, <1>4 DEF Composing
<1>6. CASE type = "mask"
  <2>1. SetOutput(Drop(Output, {p})) /\ NextPort /\ UNCHANGED engine
    BY <1>6, <1>p DEF Materialize
  <2>2. todo' = Tail(todo) /\ stage' = stage
    BY <1>0, <2>1 DEF NextPort
  <2>3. Range(todo') = Range(todo) \ {p}
    BY <1>0, <1>p, <2>2, NextOrdered
  <2>4. Output' = Drop(Output, {p})
    BY <1>0, <2>1, OutputOf
  <2>5. Right(p)'
    BY <1>0, <1>3, <1>6, <2>4, RunFixed DEF Drop, Right
  <2>6. ~Waits(p)'
    BY <1>0, <2>2, <2>3 DEF Waits
  <2>7. Composing'
    BY <1>0, <1>2, <2>2, <2>3, <2>4, <2>5, <2>6, DropOutput, PortStep DEF Standing
  <2>8. Deciding' /\ Pruning' /\ Listed' /\ Finishing' /\ Applies'
    BY <1>0, <1>2, <2>1, <2>2, <2>3, DecidingStays DEF Pruning, Listed, Finishing, Applies
  <2> QED
    BY <2>7, <2>8 DEF CleanRun
<1>7. CASE type # "mask"
  <2>1. Waits(p)
    BY <1>0, <1>1, <1>2 DEF Waits
  <2>2. dir = Base(p)
    <3>1. CASE Seeded(p)
      <4>1. Untouched(p) /\ type = "port"
        BY <1>0, <1>5, <2>1, <3>1 DEF Standing, Seeded
      <4>2. PortIn(Output, p) = PortIn(upstream[Target], p)
        BY <4>1 DEF Untouched, PortIn
      <4> QED
        BY <1>0, <1>3, <3>1, <4>1, <4>2 DEF Base
    <3>2. CASE ~Seeded(p)
      BY <1>2, <1>3, <3>2, SourceIsBase
    <3> QED
      BY <3>1, <3>2
  <2>3. failed' = (failed \/ dir = None \/ overlays[p].type = "invalid")
    BY <1>7, <1>p DEF Materialize
  <2>4. dir # None
    BY <1>0, <2>3, Zenon
  <2>5. /\ SetOutput(Put(Output, p, dir))
        /\ apply'.steps = StepsOf(p) /\ direct' = View(Begin(dir)) /\ UNCHANGED <<todo, stage>>
    BY <1>3, <1>7, <1>p, <2>4 DEF Materialize, StepsOf
  <2> HIDE DEF dir
  <2>6. Wanted(p) /\ IsDirectory(Base(p))
    BY <1>3, <1>7, <2>2, <2>4, BaseIsDirectory
  <2>7. direct' = Base(p)
    BY <2>2, <2>5, <2>6, BeginView DEF IsDirectory
  <2>8. Output' = Put(Output, p, dir)
    BY <1>0, <2>5, OutputOf
  <2>9. Standing(p)'
    <3>1. Waits(p)'
      BY <1>0, <2>1, <2>5, RunFixed DEF Waits
    <3>2. ASSUME Full, type = "port" PROVE Untouched(p)'
      <4>1. Base(p) = PortIn(upstream[Target], p)
        BY <1>3, <3>2 DEF Base
      <4>2. p \in DOMAIN upstream[Target] /\ Base(p) = upstream[Target][p]
        BY <2>2, <2>4, <4>1, UpstreamPort DEF PortIn
      <4>3. p \in DOMAIN Output' /\ Output'[p] = Base(p)
        BY <2>2, <2>8, PutOutput
      <4> QED
        BY <1>0, <4>2, <4>3 DEF Untouched
    <3> QED
      BY <1>0, <3>1, <3>2, RunFixed DEF Standing
  <2>10. Composing'
    BY <1>0, <1>2, <2>5, <2>8, <2>9, PutOutput, PortStep
  <2>11. Applies'
    <3>1. IsOverlay(overlays[p])
      BY <1>3 DEF InputsOK
    <3>2. PICK S : StepsOf(p) \in Seq(S)
      BY <3>1, StepsIsSeq DEF StepsOf, IsOverlay
    <3>3. Prefix(p)[0] = Base(p)
      BY <3>2, AfterUnrolls DEF Prefix
    <3>4. 0 \in 0..Len(StepsOf(p)) /\ StepsOf(p) = SubSeq(StepsOf(p), 0 + 1, Len(StepsOf(p)))
      BY <3>2
    <3>5. p = Head(todo)'
      BY <1>p, <2>5
    <3>6. \E k \in 0..Len(StepsOf(p)) :
            /\ apply'.steps = SubSeq(StepsOf(p), k + 1, Len(StepsOf(p)))
            /\ direct' = Prefix(p)[k]
      BY <2>5, <2>7, <3>3, <3>4
    <3> QED
      BY <1>0, <1>2, <1>3, <2>6, <3>5, <3>6, RunFixed DEF Applies, Replaying
  <2>12. Deciding' /\ Pruning' /\ Listed' /\ Finishing'
    BY <1>0, <1>2, <2>5, DecidingStays DEF Pruning, Listed, Finishing
  <2> QED
    BY <2>10, <2>11, <2>12 DEF CleanRun
<1> QED
  BY <1>6, <1>7

\* A step of an apply run or of nothing at all.
LEMMA StaysClean ==
  ASSUME CleanRun, Clean, Clean',
         UNCHANGED <<inputs, marked, run, ctxs, stage, todo, scratch, live>>, Applies'
  PROVE  CleanRun'
<1>1. Deciding /\ Pruning /\ Listed /\ Composing /\ Finishing
  BY DEF CleanRun
<1>2. Output' = Output /\ Covered' = Covered /\ (Full' <=> Full)
  BY OutputStays, RunFixed
<1>3. ASSUME NEW o
      PROVE  /\ Standing(o) => Standing(o)'
             /\ Ready(o) => Ready(o)'
             /\ Landed(o) => Landed(o)'
             /\ Mirrored(o) => Mirrored(o)'
  <2>1. /\ Skipped(o)' <=> Skipped(o)
        /\ Wanted(o)' <=> Wanted(o)
        /\ Promised(o)' = Promised(o)
    BY RunFixed
  <2>2. /\ Waits(o)' <=> Waits(o)
        /\ Untouched(o) => Untouched(o)'
        /\ Right(o) => Right(o)'
    BY <1>2, <2>1 DEF Waits, Untouched, Right
  <2>3. /\ Ready(o) => Ready(o)'
        /\ Landed(o) => Landed(o)'
        /\ Mirrored(o) => Mirrored(o)'
    BY <1>2, <2>1 DEF Ready, Landed, Mirrored
  <2> QED
    BY <1>2, <2>2, <2>3 DEF Standing
<1>4. Deciding'
  <2>1. CASE stage \in {"seed", "preflight"}
    BY <2>1 DEF Deciding
  <2> QED
    BY <1>1, <2>1, DecidingStays
<1>5. Pruning' /\ Listed' /\ Composing' /\ Finishing'
  BY <1>1, <1>2, <1>3 DEF Pruning, Listed, Composing, Finishing
<1> QED
  BY <1>4, <1>5 DEF CleanRun

LEMMA ApplyClean ==
  ASSUME BufferInvariant, InputsOK, TodoOK, TreesOK, Clean, CleanRun, ApplyOp, Clean'
  PROVE  CleanRun'
<1>p. PICK p : p = Head(todo)
  OBVIOUS
<1> DEFINE op == Head(apply.steps)
           result == Exec(op, apply.txn, Payload, run.dry)
<1>0. apply # None /\ apply.steps # <<>> /\ ~failed' /\ Applies
  BY DEF ApplyOp, Clean, CleanRun
<1>1. ASSUME NEW dir, Leave(dir, FALSE) PROVE FALSE
  BY <1>0, <1>1, Zenon DEF Leave
<1>2. /\ apply'.steps = Tail(apply.steps) /\ direct' = Direct(op, direct, Payload)
      /\ UNCHANGED <<inputs, marked, live, run, stage, todo, scratch, ctxs>>
  <2>1. \/ Leave(Rollback(result.txn).disk, FALSE)
        \/ /\ apply' = [txn |-> result.txn, steps |-> Tail(apply.steps),
                        failed |-> apply.failed \/ result.status = "failed"]
           /\ direct' = Direct(op, direct, Payload)
           /\ UNCHANGED <<marked, live, run, stage, todo, scratch, ctxs>>
           /\ UNCHANGED inputs
    BY DEF ApplyOp
  <2> DEFINE b == apply.failed \/ result.status = "failed"
  <2>2. apply' = [txn |-> result.txn, steps |-> Tail(apply.steps), failed |-> b]
        /\ direct' = Direct(op, direct, Payload)
        /\ UNCHANGED <<marked, live, run, stage, todo, scratch, ctxs, inputs>>
    BY <1>1, <2>1, Zenon
  <2> HIDE DEF op, result, b
  <2> QED
    BY <2>2
<1>3. PICK k \in 0..Len(StepsOf(p)) :
        /\ apply.steps = SubSeq(StepsOf(p), k + 1, Len(StepsOf(p))) /\ direct = Prefix(p)[k]
  BY <1>0, <1>p DEF Applies, Replaying
<1>4. p \in DOMAIN ctxs /\ ~Skipped(p) /\ ctxs[p].mode = "dops" /\ Wanted(p) /\ p \in DOMAIN overlays
  BY <1>0, <1>p DEF Applies, Replaying
<1>5. PICK S : StepsOf(p) \in Seq(S)
  <2>1. IsOverlay(overlays[p])
    BY <1>4 DEF InputsOK
  <2> QED
    BY <2>1, StepsIsSeq DEF StepsOf, IsOverlay
<1>6. /\ k + 1 \in 1..Len(StepsOf(p)) /\ k + 1 \in 0..Len(StepsOf(p)) /\ op = StepsOf(p)[k + 1]
      /\ Tail(apply.steps) = SubSeq(StepsOf(p), (k + 1) + 1, Len(StepsOf(p)))
  <2> DEFINE s == StepsOf(p)  n == Len(s)
  <2>1. s \in Seq(S) /\ k \in 0..n /\ n \in Nat /\ SubSeq(s, k + 1, n) # <<>>
    BY <1>0, <1>3, <1>5
  <2> HIDE DEF s
  <2>2. k # n
    BY <2>1
  <2>3. SubSeq(s, k + 1, n)[1] = s[k + 1] /\ Head(SubSeq(s, k + 1, n)) = s[k + 1]
    BY <2>1, <2>2
  <2>4. Tail(SubSeq(s, k + 1, n)) = SubSeq(s, (k + 1) + 1, n)
    <3> DEFINE q == SubSeq(s, k + 1, n)  r == SubSeq(s, (k + 1) + 1, n)
    <3>1. q \in Seq(S) /\ Len(q) = n - k /\ \A i \in 1..n - k : q[i] = s[k + i]
      BY <2>1, <2>2, SubSeqProperties
    <3>2. r \in Seq(S) /\ Len(r) = n - k - 1 /\ \A i \in 1..n - k - 1 : r[i] = s[k + 1 + i]
      BY <2>1, <2>2, SubSeqProperties
    <3> HIDE DEF q, r
    <3>3. Tail(q) \in Seq(S) /\ Len(Tail(q)) = n - k - 1 /\ \A i \in 1..n - k - 1 : Tail(q)[i] = q[i + 1]
      BY <2>1, <2>2, <3>1, HeadTailProperties
    <3>4. \A i \in 1..n - k - 1 : i + 1 \in 1..n - k /\ k + (i + 1) = k + 1 + i
      BY <2>1
    <3>5. \A i \in 1..Len(r) : Tail(q)[i] = r[i]
      BY <3>1, <3>2, <3>3, <3>4
    <3>6. Tail(q) = r
      BY <3>2, <3>3, <3>5, SeqEqual
    <3> QED
      BY <3>6 DEF q, r
  <2>5. k + 1 \in 1..n /\ k + 1 \in 0..n
    BY <2>1, <2>2
  <2> QED
    BY <1>3, <2>3, <2>4, <2>5 DEF s
<1>7. direct' = Prefix(p)[k + 1]
  <2>1. Prefix(p)[k + 1] = Direct(StepsOf(p)[k + 1], Prefix(p)[(k + 1) - 1], overlays[p].payload)
    BY <1>5, <1>6, AfterUnrolls DEF Prefix
  <2>2. (k + 1) - 1 = k /\ Payload = overlays[p].payload
    BY <1>p, <1>3, <1>5 DEF Payload
  <2> QED
    BY <1>2, <1>3, <1>6, <2>1, <2>2
<1>8. Applies'
  <2>1. p = Head(todo)'
    BY <1>p, <1>2
  <2>2. /\ apply'.steps = SubSeq(StepsOf(p), (k + 1) + 1, Len(StepsOf(p)))
        /\ direct' = Prefix(p)[k + 1] /\ k + 1 \in 0..Len(StepsOf(p))
    BY <1>2, <1>6, <1>7
  <2> HIDE DEF op
  <2> QED
    BY <1>2, <1>4, <2>1, <2>2, RunFixed DEF Applies, Replaying
<1> QED
  BY <1>2, <1>8, StaysClean

LEMMA CommitClean ==
  ASSUME BufferInvariant, InputsOK, TodoOK, TreesOK, Clean, CleanRun, Commit, Clean'
  PROVE  CleanRun'
<1>p. PICK p : p = Head(todo)
  OBVIOUS
<1> DEFINE dir == Written(apply.txn)
<1>0. /\ apply # None /\ apply.steps = <<>> /\ ~failed' /\ ~run.dry
      /\ SetOutput(Put(Output, p, dir)) /\ NextPort /\ apply' = None
      /\ UNCHANGED <<inputs, marked, run, ctxs>>
  BY <1>p DEF Commit, Leave, Clean
<1>1. stage = "semantic" /\ todo # <<>> /\ dir = direct
  BY <1>0, WrittenIsView DEF BufferInvariant, Applying, Buffered
<1>2. todo' = Tail(todo) /\ stage' = stage
  BY <1>0 DEF NextPort
<1>3. Range(todo') = Range(todo) \ {p}
  BY <1>1, <1>2, <1>p, NextOrdered
<1>4. Deciding /\ Listed /\ Composing /\ Applies
  BY DEF CleanRun
<1>5. PICK k \in 0..Len(StepsOf(p)) :
        /\ apply.steps = SubSeq(StepsOf(p), k + 1, Len(StepsOf(p))) /\ direct = Prefix(p)[k]
  BY <1>0, <1>4, <1>p DEF Applies, Replaying
<1>6. p \in DOMAIN ctxs /\ ~Skipped(p) /\ ctxs[p].mode = "dops" /\ Wanted(p) /\ p \in DOMAIN overlays
  BY <1>0, <1>4, <1>p DEF Applies, Replaying
<1>7. k = Len(StepsOf(p))
  <2>1. IsOverlay(overlays[p])
    BY <1>6 DEF InputsOK
  <2>2. PICK S : StepsOf(p) \in Seq(S)
    BY <2>1, StepsIsSeq DEF StepsOf, IsOverlay
  <2>3. Len(StepsOf(p)) \in Nat /\ Len(SubSeq(StepsOf(p), k + 1, Len(StepsOf(p)))) = 0
    BY <1>0, <1>5, <2>2
  <2> QED
    BY <1>5, <2>2, <2>3
<1>8. dir = Promised(p)
  <2>1. overlays[p].mode = "dops"
    BY <1>1, <1>4, <1>6 DEF Deciding, Decided
  <2> QED
    BY <1>1, <1>5, <1>6, <1>7, <2>1 DEF Promised
<1> HIDE DEF dir
<1>9. Output' = Put(Output, p, dir)
  BY <1>0, OutputOf
<1>10. Right(p)'
  <2>1. p \in DOMAIN Output' /\ Output'[p] = dir
    BY <1>9, PutOutput
  <2> QED
    BY <1>0, <1>6, <1>8, <2>1, RunFixed DEF Right
<1>11. ~Waits(p)'
  BY <1>0, <1>1, <1>2, <1>3, <1>6 DEF Waits
<1>12. Composing'
  BY <1>0, <1>1, <1>2, <1>3, <1>4, <1>9, <1>10, <1>11, PutOutput, PortStep DEF Standing
<1>13. Deciding' /\ Pruning' /\ Listed' /\ Finishing' /\ Applies'
  BY <1>0, <1>1, <1>2, <1>3, <1>4, DecidingStays DEF Pruning, Listed, Finishing, Applies
<1> QED
  BY <1>12, <1>13 DEF CleanRun

\* A run that loses an apply run has recorded the error.
LEMMA LostIsFailed ==
  ASSUME OracleFails \/ WriteFails, Clean'
  PROVE  FALSE
<1>1. PICK dir : Leave(dir, FALSE)
  BY DEF OracleFails, WriteFails
<1>2. failed' = (failed \/ ~FALSE)
  BY <1>1 DEF Leave
<1> QED
  BY <1>2, Zenon DEF Clean

LEMMA EndSemanticClean ==
  ASSUME BufferInvariant, InputsOK, TodoOK, TreesOK, Clean, CleanRun, EndSemantic, Clean'
  PROVE  CleanRun'
<1>0. /\ stage = "semantic" /\ todo = <<>> /\ stage' = "compat" /\ todo' = SetToSeq(DOMAIN ctxs)
      /\ UNCHANGED <<inputs, marked, run, ctxs, apply, scratch, live>>
  BY DEF EndSemantic
<1>1. Deciding /\ Listed /\ Composing /\ Range(todo) = {}
  BY <1>0 DEF CleanRun, Range
<1>2. Range(todo') = DOMAIN ctxs
  BY <1>0, Ordered DEF TreesOK
<1>3. Output' = Output
  BY <1>0, OutputStays
<1>4. ASSUME NEW o \in Covered PROVE Standing(o)'
  <2>1. Standing(o)
    BY <1>0, <1>1 DEF Composing
  <2>2. Waits(o)' <=> Waits(o)
    BY <1>0, <1>1, <1>2, RunFixed DEF Waits
  <2> QED
    BY <1>0, <1>3, <2>1, <2>2, RunFixed DEF Standing, Untouched, Right
<1>5. Composing'
  BY <1>0, <1>4, RunFixed DEF Composing
<1>6. Applies'
  BY <1>0 DEF BufferInvariant, Applying, Applies
<1>7. Deciding' /\ Pruning' /\ Listed' /\ Finishing'
  BY <1>0, <1>1, <1>2, DecidingStays DEF Pruning, Listed, Finishing
<1> QED
  BY <1>5, <1>6, <1>7 DEF CleanRun

LEMMA CompatClean ==
  ASSUME BufferInvariant, InputsOK, TodoOK, TreesOK, Clean, CleanRun, Compat, Clean'
  PROVE  CleanRun'
<1>p. PICK p : p = Head(todo)
  OBVIOUS
<1> DEFINE type == ctxs[p].type
           source == Source(p, type)
<1>0. /\ stage = "compat" /\ todo # <<>> /\ apply = None /\ NextPort
      /\ UNCHANGED <<inputs, marked, run, ctxs, apply>>
      /\ ~run.dry /\ ~failed'
  BY <1>p DEF Compat, AtPort, Clean
<1>1. p \in Range(todo) /\ p \in Origins
  BY <1>0, <1>p, TailOf DEF TodoOK
<1>2. todo' = Tail(todo) /\ stage' = stage
  BY <1>0 DEF NextPort
<1>3. Range(todo') = Range(todo) \ {p}
  BY <1>0, <1>2, <1>p, NextOrdered
<1>4. OnBranch /\ p \in DOMAIN ctxs /\ Decided(p) /\ Deciding /\ Listed /\ Composing
  BY <1>0, <1>1 DEF CleanRun, Deciding, Listed
<1>5. ~Waits(p)'
  BY <1>0, <1>2, <1>3 DEF Waits
<1>6. ASSUME Skipped(p) \/ ctxs[p].mode # "compat" PROVE Composing'
  <2>1. UNCHANGED <<scratch, live>>
    BY <1>6, <1>p DEF Compat
  <2>2. Output' = Output
    BY <1>0, <2>1, OutputStays
  <2>3. ~Waits(p)
    BY <1>0, <1>6 DEF Waits
  <2>4. p \in Covered => Standing(p)'
    <3>1. p \in Covered => Right(p)
      BY <1>0, <1>4, <2>3 DEF Composing, Standing
    <3> QED
      BY <1>0, <1>5, <2>2, <3>1, RunFixed DEF Right, Standing
  <2> QED
    BY <1>0, <1>2, <1>3, <1>4, <2>2, <2>4, PortStep
<1>7. ASSUME ~Skipped(p), ctxs[p].mode = "compat" PROVE Composing'
  <2>1. Source(p, type) = IF p \in DOMAIN overlays THEN Base(p) ELSE PortIn(upstream[Target], p)
    BY <1>4, <1>7, SourceIsBase DEF Decided
  <2>2. CASE type = "mask"
    <3>1. SetOutput(Drop(Output, {p}))
      BY <1>7, <1>p, <2>2 DEF Compat
    <3>2. Output' = Drop(Output, {p})
      BY <1>0, <3>1, OutputOf
    <3>3. ~Wanted(p)
      BY <1>4, <1>7, <2>2 DEF Decided
    <3>4. Right(p)'
      BY <1>0, <3>2, <3>3, RunFixed DEF Drop, Right
    <3> QED
      BY <1>0, <1>2, <1>3, <1>4, <1>5, <3>2, <3>4, DropOutput, PortStep DEF Standing
  <2>3. CASE type # "mask"
    <3>1. source # None
      BY <1>0, <1>7, <1>p, <2>3 DEF Compat
    <3>2. SetOutput(Put(Output, p, Merged(p, source).dir))
      BY <1>7, <1>p, <2>3, <3>1 DEF Compat
    <3>3. Wanted(p)
      BY <1>4, <1>7, <2>1, <2>3, <3>1 DEF Decided
    <3>4. Merged(p, source).dir = Promised(p)
      <4>1. CASE p \notin DOMAIN overlays
        BY <1>4, <1>7, <2>1, <3>3, <4>1 DEF Merged, Promised, Wanted, PortIn
      <4>2. CASE p \in DOMAIN overlays
        <5>1. type = overlays[p].type /\ overlays[p].mode # "dops"
          BY <1>4, <1>7, <4>2 DEF Decided
        <5> QED
          BY <1>0, <2>1, <4>2, <5>1 DEF Merged, Promised
      <4> QED
        BY <4>1, <4>2
    <3> DEFINE dir == Merged(p, source).dir
    <3> HIDE DEF dir
    <3>5. Output' = Put(Output, p, dir)
      BY <1>0, <3>2, OutputOf DEF dir
    <3>6. p \in DOMAIN Output' /\ Output'[p] = Promised(p)
      BY <3>4, <3>5, PutOutput DEF dir
    <3>7. Right(p)'
      BY <1>0, <3>3, <3>6, RunFixed DEF Right
    <3> QED
      BY <1>0, <1>2, <1>3, <1>4, <1>5, <3>5, <3>7, PutOutput, PortStep DEF Standing
  <2> QED
    BY <2>2, <2>3
<1>8. Composing'
  BY <1>6, <1>7
<1>9. Deciding' /\ Pruning' /\ Listed' /\ Finishing' /\ Applies'
  BY <1>0, <1>2, <1>3, <1>4, DecidingStays DEF Pruning, Listed, Finishing, Applies
<1> QED
  BY <1>8, <1>9 DEF CleanRun

LEMMA EndCompatClean ==
  ASSUME BufferInvariant, InputsOK, TodoOK, TreesOK, Clean, CleanRun, EndCompat, Clean'
  PROVE  CleanRun'
<1>0. /\ stage = "compat" /\ todo = <<>> /\ stage' = "system"
      /\ UNCHANGED <<inputs, marked, run, ctxs, todo, apply, scratch, live>>
  BY DEF EndCompat
<1>1. Deciding /\ Composing /\ Range(todo) = {}
  BY <1>0 DEF CleanRun, Range
<1>2. Output' = Output
  BY <1>0, OutputStays
<1>3. ASSUME NEW o \in Covered PROVE Standing(o)'
  <2>1. Right(o)
    BY <1>0, <1>1 DEF Composing, Standing, Waits
  <2>2. ~Waits(o)'
    BY <1>0 DEF Waits
  <2> QED
    BY <1>0, <1>2, <2>1, <2>2, RunFixed DEF Standing, Right
<1>4. Composing'
  BY <1>0, <1>3, RunFixed DEF Composing
<1>5. Applies'
  BY <1>0 DEF BufferInvariant, Applying, Applies
<1>6. Deciding' /\ Pruning' /\ Listed' /\ Finishing'
  BY <1>0, <1>1, DecidingStays DEF Pruning, Listed, Finishing
<1> QED
  BY <1>4, <1>5, <1>6 DEF CleanRun

LEMMA SystemClean ==
  ASSUME BufferInvariant, InputsOK, TodoOK, TreesOK, Clean, CleanRun, SystemReplacements, Clean'
  PROVE  CleanRun'
<1> DEFINE tree == [o \in DOMAIN Output |->
                      IF Full \/ o \in run.sel THEN Replaced(Output[o]) ELSE Output[o]]
<1>0. /\ stage = "system" /\ stage' = "finalize" /\ SetOutput(tree) /\ ~run.dry
      /\ UNCHANGED <<inputs, marked, run, ctxs, todo, apply>>
  BY DEF SystemReplacements, Clean
<1>1. Deciding /\ Composing
  BY DEF CleanRun
<1>2. Output' = tree
  BY <1>0, OutputOf
<1>3. ASSUME NEW o \in Covered PROVE Ready(o)'
  <2>1. Right(o)
    BY <1>0, <1>1 DEF Composing, Standing, Waits
  <2>2. Full \/ o \in run.sel
    BY DEF Covered
  <2>3. /\ o \in DOMAIN Output' <=> o \in DOMAIN Output
        /\ o \in DOMAIN Output => Output'[o] = Replaced(Output[o])
    BY <1>2, <2>2
  <2> QED
    BY <1>0, <2>1, <2>3, RunFixed DEF Ready, Right
<1>4. Finishing'
  BY <1>0, <1>3, RunFixed DEF Finishing
<1>5. Applies'
  BY <1>0 DEF BufferInvariant, Applying, Applies
<1>6. Deciding' /\ Pruning' /\ Listed' /\ Composing'
  BY <1>0, <1>1, DecidingStays DEF Pruning, Listed, Composing
<1> QED
  BY <1>4, <1>5, <1>6 DEF CleanRun

\* finalize_tree drops no port that the inputs promise.
LEMMA WantedIsKept ==
  ASSUME InputsOK, Deciding, stage = "finalize", Full, NEW o \in Origins, Wanted(o)
  PROVE  o \in Present \cup KeepExtra
<1>1. Present = DOMAIN upstream[Target]
  BY ComposeAssumption DEF Deciding, OnBranch, Present, CheckedOut
<1>2. CASE o \notin DOMAIN overlays
  BY <1>1, <1>2 DEF Wanted
<1>3. CASE o \in DOMAIN overlays
  <2>1. o \in DOMAIN ctxs /\ Decided(o)
    BY <1>3 DEF Deciding, Chosen
  <2>2. ctxs[o].type = overlays[o].type /\ overlays[o].type \notin {"invalid", "mask"}
    BY <1>3, <2>1 DEF Decided
  <2>3. CASE overlays[o].type = "port"
    <3>1. Base(o) = PortIn(upstream[Target], o) /\ Base(o) # None
      BY <1>3, <2>3 DEF Base, Wanted
    <3> QED
      BY <1>1, <3>1 DEF PortIn
  <2>4. CASE overlays[o].type \in {"dport", "lock"}
    BY <2>1, <2>2, <2>4 DEF KeepExtra
  <2> QED
    BY <1>3, <2>2, <2>3, <2>4 DEF InputsOK, IsOverlay
<1> QED
  BY <1>2, <1>3

LEMMA FinalizeClean ==
  ASSUME BufferInvariant, InputsOK, TodoOK, TreesOK, Clean, CleanRun, Finalize, Clean'
  PROVE  CleanRun'
<1> DEFINE tree == Drop(Output, DOMAIN Output \ (Present \cup KeepExtra))
<1>0. /\ stage = "finalize" /\ ~run.dry /\ stage' = IF Full THEN "reconcile" ELSE "done"
      /\ UNCHANGED <<inputs, marked, run, ctxs, todo, apply>>
  BY DEF Finalize, Clean
<1>1. Deciding /\ \A o \in Covered : Ready(o)
  BY <1>0 DEF CleanRun, Finishing
<1>2. ASSUME Full PROVE Finishing'
  <2>1. SetOutput(tree)
    BY <1>2 DEF Finalize
  <2>2. Output' = tree
    BY <1>0, <2>1, OutputOf
  <2>3. ASSUME NEW o \in Origins PROVE Ready(o)'
    <3>1. Ready(o)
      BY <1>1, <1>2 DEF Covered
    <3>2. Wanted(o) => o \in Present \cup KeepExtra
      BY <1>0, <1>1, <1>2, WantedIsKept
    <3>3. /\ o \in DOMAIN Output' <=> o \in DOMAIN Output /\ o \in Present \cup KeepExtra
          /\ o \in DOMAIN Output' => Output'[o] = Output[o]
      BY <2>2 DEF Drop
    <3> QED
      BY <1>0, <3>1, <3>2, <3>3, RunFixed DEF Ready
  <2>4. Full'
    BY <1>0, <1>2, RunFixed
  <2> QED
    BY <1>0, <1>2, <2>3, <2>4 DEF Finishing
<1>3. ASSUME ~Full PROVE Finishing'
  <2>1. UNCHANGED <<scratch, live>>
    BY <1>3 DEF Finalize
  <2>2. ASSUME NEW o \in Covered PROVE Landed(o)'
    <3>1. Ready(o) /\ Output = live
      BY <1>1, <1>3 DEF Output
    <3> QED
      BY <1>0, <2>1, <3>1, RunFixed DEF Ready, Landed
  <2>3. Covered' = Covered
    BY <1>0, RunFixed
  <2> QED
    BY <1>0, <1>3, <2>2, <2>3 DEF Finishing
<1>4. Applies'
  BY <1>0 DEF BufferInvariant, Applying, Applies
<1>5. Deciding' /\ Pruning' /\ Listed' /\ Composing'
  BY <1>0, <1>1, DecidingStays DEF Pruning, Listed, Composing
<1> QED
  BY <1>2, <1>3, <1>4, <1>5 DEF CleanRun

LEMMA ReadyStays ==
  ASSUME UNCHANGED <<inputs, marked, run, ctxs, scratch>>, Full, \A o \in Origins : Ready(o)
  PROVE  Full' /\ \A o \in Origins : Ready(o)'
<1>1. Output' = Output /\ Full'
  BY RunFixed DEF Output
<1>2. ASSUME NEW o \in Origins PROVE Ready(o)'
  BY <1>1, RunFixed DEF Ready
<1> QED
  BY <1>1, <1>2

LEMMA BeginReconcileClean ==
  ASSUME BufferInvariant, InputsOK, TodoOK, TreesOK, Clean, CleanRun, BeginReconcile, Clean'
  PROVE  CleanRun'
<1>0. /\ stage = "reconcile" /\ stage' = "mirror" /\ live' = IF live = None THEN Empty ELSE live
      /\ todo' = SetToSeq(DOMAIN live' \cup DOMAIN scratch)
      /\ UNCHANGED <<inputs, marked, run, ctxs, scratch, apply>>
  BY DEF BeginReconcile
<1>1. Deciding /\ Full /\ \A o \in Origins : Ready(o)
  BY <1>0 DEF CleanRun, Finishing
<1>2. DOMAIN live' \subseteq Origins /\ DOMAIN scratch \subseteq Origins
  BY <1>0, EmptyTree DEF TreesOK
<1>3. Range(todo') = DOMAIN live' \cup DOMAIN scratch
  BY <1>0, <1>2, Ordered
<1>4. \A o \in Origins : o \notin Range(todo') => Mirrored(o)'
  BY <1>0, <1>3 DEF Mirrored
<1>5. Full' /\ \A o \in Origins : Ready(o)'
  BY <1>0, <1>1, ReadyStays
<1>6. Finishing'
  BY <1>0, <1>4, <1>5 DEF Finishing
<1>7. Applies'
  BY <1>0 DEF BufferInvariant, Applying, Applies
<1>8. Deciding' /\ Pruning' /\ Listed' /\ Composing'
  BY <1>0, <1>1, DecidingStays DEF Pruning, Listed, Composing
<1> QED
  BY <1>6, <1>7, <1>8 DEF CleanRun

LEMMA MirrorClean ==
  ASSUME BufferInvariant, InputsOK, TodoOK, TreesOK, Clean, CleanRun, Mirror, Clean'
  PROVE  CleanRun'
<1>p. PICK p : p = Head(todo)
  OBVIOUS
<1>0. /\ stage = "mirror" /\ stage' = stage /\ todo # <<>> /\ todo' = Tail(todo)
      /\ live' = IF p \in DOMAIN scratch THEN Put(live, p, scratch[p]) ELSE Drop(live, {p})
      /\ UNCHANGED <<inputs, marked, run, ctxs, scratch, apply>>
  BY <1>p DEF Mirror, AtPort
<1>1. Deciding /\ Full /\ \A o \in Origins : Ready(o) /\ (o \notin Range(todo) => Mirrored(o))
  BY <1>0 DEF CleanRun, Finishing
<1>2. Range(todo') = Range(todo) \ {p}
  BY <1>0, <1>p, NextOrdered
<1>3. ASSUME NEW o \in Origins, o \notin Range(todo') PROVE Mirrored(o)'
  <2>1. CASE o = p
    <3>1. CASE p \in DOMAIN scratch
      BY <1>0, <2>1, <3>1 DEF Put, Mirrored
    <3>2. CASE p \notin DOMAIN scratch
      BY <1>0, <2>1, <3>2 DEF Drop, Mirrored
    <3> QED
      BY <3>1, <3>2
  <2>2. CASE o # p
    <3>1. Mirrored(o)
      BY <1>1, <1>2, <1>3, <2>2
    <3>2. /\ o \in DOMAIN live' <=> o \in DOMAIN live
          /\ o \in DOMAIN live => live'[o] = live[o]
      <4>1. live' = Put(live, p, scratch[p]) \/ live' = Drop(live, {p})
        BY <1>0
      <4> QED
        BY <2>2, <4>1 DEF Put, Drop
    <3> QED
      BY <1>0, <3>1, <3>2 DEF Mirrored
  <2> QED
    BY <2>1, <2>2
<1>5. Full' /\ \A o \in Origins : Ready(o)'
  BY <1>0, <1>1, ReadyStays
<1>6. Finishing'
  BY <1>0, <1>3, <1>5 DEF Finishing
<1>7. Applies'
  BY <1>0 DEF BufferInvariant, Applying, Applies
<1>8. Deciding' /\ Pruning' /\ Listed' /\ Composing'
  BY <1>0, <1>1, DecidingStays DEF Pruning, Listed, Composing
<1> QED
  BY <1>6, <1>7, <1>8 DEF CleanRun

LEMMA EndReconcileClean ==
  ASSUME BufferInvariant, InputsOK, TodoOK, TreesOK, Clean, CleanRun, EndReconcile, Clean'
  PROVE  CleanRun'
<1>0. /\ stage = "mirror" /\ todo = <<>> /\ stage' = "done"
      /\ UNCHANGED <<inputs, marked, run, ctxs, scratch, live, apply>>
  BY DEF EndReconcile
<1>1. Deciding /\ Full /\ Range(todo) = {} /\ \A o \in Origins : Ready(o) /\ Mirrored(o)
  BY <1>0 DEF CleanRun, Finishing, Range
<1>2. ASSUME NEW o \in Origins PROVE Landed(o)'
  <2>1. Ready(o) /\ Mirrored(o) /\ Output = scratch
    BY <1>1 DEF Output
  <2> QED
    BY <1>0, <2>1, RunFixed DEF Ready, Mirrored, Landed
<1>3. Covered' = Origins
  BY <1>0, <1>1, RunFixed DEF Covered
<1>4. Finishing'
  BY <1>0, <1>2, <1>3 DEF Finishing
<1>5. Applies'
  BY <1>0 DEF BufferInvariant, Applying, Applies
<1>6. Deciding' /\ Pruning' /\ Listed' /\ Composing'
  BY <1>0, <1>1, DecidingStays DEF Pruning, Listed, Composing
<1> QED
  BY <1>4, <1>5, <1>6 DEF CleanRun

LEMMA StartClean ==
  ASSUME BufferInvariant, Clean', Seed \/ \E kind, sel : Start(kind, sel)
  PROVE  CleanRun'
<1>1. apply' = apply /\ stage \in {"idle", "seed"} /\ stage' \in {"seed", "preflight"}
  BY DEF Seed, Start, Clean
<1>2. apply' = None
  BY <1>1 DEF BufferInvariant, Applying
<1> QED
  BY <1>1, <1>2
     DEF CleanRun, Deciding, Pruning, Listed, Composing, Applies, Finishing

\* What preflight decides about a port of a run on the branch of the build line.
LEMMA PreflightDecides ==
  ASSUME InputsOK, Preflight, Clean', NEW o \in DOMAIN ctxs'
  PROVE  Decided(o)'
<1> DEFINE known == {q \in Chosen : q \in DOMAIN overlays \/ (checkout # NotGit /\ q \in Present)}
           ctx == [q \in known |-> Ctx(q)]
           stale == {q \in known : ctx[q].stale}
           invalid == {q \in known \cap DOMAIN overlays :
                         overlays[q].type = "invalid" /\ ~ctx[q].removed}
<1>1. /\ ctxs' = ctx /\ UNCHANGED inputs
      /\ failed' = (~OnBranch \/ invalid # {} \/ known # Chosen \/ (stale # {} /\ ~run.prune))
      /\ marked' = IF MayMark THEN (marked \ Present) \cup stale ELSE marked
  BY DEF Preflight
<1>2. ~failed'
  BY DEF Clean
<1>3. OnBranch /\ invalid = {} /\ known = Chosen
  BY <1>1, <1>2
<1>4. checkout # NotGit /\ Present = DOMAIN upstream[Target]
  BY <1>3, ComposeAssumption DEF OnBranch, Present, CheckedOut
<1>5. o \in known /\ ctxs'[o] = Ctx(o) /\ (o \in stale <=> Ctx(o).stale)
  BY <1>1
<1>6. o \in DOMAIN overlays /\ overlays[o].type = "invalid" => Ctx(o).removed
  BY <1>3, <1>5
<1> DEFINE c == Ctx(o)
<1>7. /\ ctxs'[o] = c /\ overlays' = overlays /\ upstream' = upstream /\ Base(o)' = Base(o)
      /\ (Skipped(o)' <=> c.removed \/ c.stale)
  BY <1>1, <1>5 DEF Base, Skipped, PortIn
<1>8. Wanted(o)' <=> IF o \notin DOMAIN overlays THEN o \in DOMAIN upstream[Target]
                     ELSE /\ overlays[o].type # "mask" /\ Base(o) # None
                          /\ ~(o \in marked' /\ o \notin DOMAIN upstream[Target])
  BY <1>7 DEF Wanted
<1>9. CASE o \notin DOMAIN overlays
  <2>1. c.mode = "compat" /\ c.type = "port" /\ ~c.removed /\ ~c.stale
    BY <1>9 DEF Ctx
  <2>2. o \in DOMAIN upstream[Target]
    BY <1>4, <1>5, <1>9
  <2> QED
    BY <1>7, <1>8, <1>9, <2>1, <2>2 DEF Decided
<1>10. CASE o \in DOMAIN overlays /\ o \in marked \ Present
  <2>1. c.removed /\ c.type = "port"
    BY <1>4, <1>10 DEF Ctx
  <2>2. o \in marked' /\ o \notin DOMAIN upstream[Target]
    BY <1>1, <1>4, <1>10
  <2> QED
    BY <1>7, <1>8, <1>10, <2>1, <2>2 DEF Decided
<1>11. CASE o \in DOMAIN overlays /\ o \notin marked \ Present
  <2>1. /\ c.mode = overlays[o].mode /\ c.removed = FALSE
        /\ c.type = IF overlays[o].type = "invalid" THEN "port" ELSE overlays[o].type
        /\ c.stale = (overlays[o].type = "port" /\ o \notin Present)
    BY <1>4, <1>11 DEF Ctx
  <2>2. overlays[o].type # "invalid" /\ c.type = overlays[o].type
    BY <1>6, <1>11, <2>1
  <2>3. CASE c.stale
    <3>1. overlays[o].type = "port" /\ o \notin DOMAIN upstream[Target]
      BY <1>4, <2>1, <2>3
    <3>2. Base(o) = None
      BY <3>1 DEF Base, PortIn
    <3> QED
      BY <1>7, <1>8, <1>11, <2>2, <2>3, <3>1, <3>2 DEF Decided
  <2>4. CASE ~c.stale
    <3>1. ~(o \in marked' /\ o \notin DOMAIN upstream[Target])
      BY <1>1, <1>4, <1>5, <1>11, <2>4
    <3> QED
      BY <1>7, <1>8, <1>11, <2>1, <2>2, <2>4, <3>1 DEF Decided
  <2> QED
    BY <2>3, <2>4
<1> QED
  BY <1>9, <1>10, <1>11

LEMMA PreflightClean ==
  ASSUME BufferInvariant, InputsOK, Seeding, Preflight, Clean'
  PROVE  CleanRun'
<1> DEFINE known == {q \in Chosen : q \in DOMAIN overlays \/ (checkout # NotGit /\ q \in Present)}
           ctx == [q \in known |-> Ctx(q)]
           stale == {q \in known : ctx[q].stale}
           invalid == {q \in known \cap DOMAIN overlays :
                         overlays[q].type = "invalid" /\ ~ctx[q].removed}
<1>1. /\ ctxs' = ctx /\ UNCHANGED <<inputs, run, scratch, apply>> /\ Goto("prune", {})
      /\ failed' = (~OnBranch \/ invalid # {} \/ known # Chosen \/ (stale # {} /\ ~run.prune))
      /\ stage = "preflight" /\ ~failed' /\ ~run.dry
  BY DEF Preflight, Clean
<1>2. stage' = "prune"
  BY <1>1 DEF Goto
<1>3. OnBranch /\ known = Chosen /\ (stale = {} \/ run.prune)
  BY <1>1
<1>4. Deciding'
  <2>1. OnBranch' /\ DOMAIN ctxs' = Chosen'
    BY <1>1, <1>3 DEF OnBranch, Chosen, Full
  <2>2. \A o \in DOMAIN ctxs' : Decided(o)'
    BY PreflightDecides
  <2> QED
    BY <2>1, <2>2 DEF Deciding
<1>5. Pruning'
  <2>1. Full' => scratch' = upstream'[Target]
    BY <1>1, <1>3, ComposeAssumption DEF Seeding, Full, OnBranch, CheckedOut
  <2>2. ~run'.prune => \A o \in DOMAIN ctxs' : ~ctxs'[o].stale
    BY <1>1, <1>3
  <2> QED
    BY <2>1, <2>2 DEF Pruning
<1>6. apply' = None
  BY <1>1 DEF BufferInvariant, Applying
<1> HIDE DEF known, ctx, stale, invalid
<1> QED
  BY <1>2, <1>4, <1>5, <1>6 DEF CleanRun, Listed, Composing, Applies, Finishing

(***************************************************************************)
(* The runs.                                                               *)
(***************************************************************************)
LEMMA StepSeeding == ASSUME BufferInvariant, Seeding, [Next]_vars PROVE Seeding'
<1>1. CASE Seed
  BY <1>1 DEF Seed, Seeding, Full, CheckedOut
<1>2. CASE UNCHANGED vars
  BY <1>2 DEF Seeding, Full, CheckedOut
<1>3. CASE Next /\ ~Seed
  <2>1. stage' # "preflight"
    <3>1. ASSUME ApplyOp \/ Commit \/ OracleFails \/ WriteFails PROVE stage' \in {"semantic", "done"}
      <4>1. stage = "semantic"
        BY <3>1 DEF ApplyOp, Commit, OracleFails, WriteFails, BufferInvariant, Applying
      <4>2. (\E dir, ok : Leave(dir, ok)) \/ UNCHANGED stage
        BY <3>1 DEF ApplyOp, Commit, OracleFails, WriteFails
      <4> QED
        BY <4>1, <4>2 DEF Leave, NextPort
    <3> QED
      BY <1>3, <3>1 DEF Next, UpstreamMoves, Switch, EditOverlay, Change, Start, Preflight, Goto,
         Prune, SkipSemantic, AtPort, Materialize, NextPort, EndSemantic, Compat, EndCompat,
         SystemReplacements, Finalize, BeginReconcile, Mirror, EndReconcile, ReconcileFails, Return, Killed, AtRest
  <2> QED
    BY <2>1 DEF Seeding
<1> QED
  BY <1>1, <1>2, <1>3

LEMMA StepClean ==
  ASSUME BufferInvariant, InputsOK, TodoOK, TreesOK, Seeding, CleanRun, [Next]_vars
  PROVE  CleanRun'
<1> SUFFICES ASSUME Clean' PROVE CleanRun'
  BY DEF CleanRun
<1>1. CASE \/ \E l \in Lines, o \in Origins : UpstreamMoves(l, o)
           \/ \E c \in Lines \cup {NotGit} : Switch(c)
           \/ \E o \in Origins : EditOverlay(o)
           \/ ReconcileFails \/ Return \/ Killed
  BY <1>1 DEF UpstreamMoves, Switch, EditOverlay, Change, ReconcileFails, Return, Killed, AtRest, Clean
<1>2. CASE Start("full", {}) \/ (\E sel \in Selections : Start("origin", sel)) \/ Seed
  BY <1>2, StartClean
<1>3. CASE Preflight
  BY <1>3, PreflightClean
<1>4. CASE UNCHANGED vars
  <2>1. Clean
    BY <1>4 DEF Clean
  <2>2. Applies'
    BY <1>4, <2>1, RunFixed DEF CleanRun, Applies, Replaying
  <2> QED
    BY <1>4, <2>1, <2>2, StaysClean
<1>5. CASE OracleFails \/ WriteFails
  BY <1>5, LostIsFailed
<1>6. ASSUME stage \notin {"idle", "seed", "preflight"} PROVE Clean
  BY <1>6, CleanBefore
<1>7. CASE \/ Prune \/ SkipSemantic \/ Materialize \/ ApplyOp \/ Commit \/ EndSemantic
           \/ Compat \/ EndCompat \/ SystemReplacements \/ Finalize
           \/ BeginReconcile \/ Mirror \/ EndReconcile
  <2>1. stage \notin {"idle", "seed", "preflight"}
    BY <1>7 DEF Prune, SkipSemantic, Materialize, AtPort, ApplyOp, Commit, EndSemantic, Compat,
       EndCompat, SystemReplacements, Finalize, BeginReconcile, Mirror, EndReconcile,
       BufferInvariant, Applying
  <2> QED
    BY <1>6, <1>7, <2>1, PruneClean, SkipClean, MaterializeClean, ApplyClean, CommitClean,
       EndSemanticClean, CompatClean, EndCompatClean, SystemClean, FinalizeClean,
       BeginReconcileClean, MirrorClean, EndReconcileClean
<1> QED
  BY <1>1, <1>2, <1>3, <1>4, <1>5, <1>7 DEF Next

LEMMA InitIdeal == Init => IdealInvariant
  BY InitInputs, InitTrees DEF Init, IdealInvariant, Seeding, CleanRun, Clean

LEMMA StepIdeal == BufferInvariant /\ IdealInvariant /\ [Next]_vars => IdealInvariant'
  BY StepInputs, StepTrees, StepSeeding, StepClean DEF IdealInvariant

\* For any ports, overlays, build lines and faults: a full or an --origin run that reports
\* no error leaves each port it covers exactly as the inputs promise, op by op in the order
\* of its line, whatever earlier and killed runs left (run_compose, its stages, reconcile).
THEOREM RunsComposeTheIdeal == Spec => []ComposedIsIdeal
<1>1. IdealInvariant => ComposedIsIdeal
  <2> SUFFICES ASSUME IdealInvariant, stage = "done", ~failed, ~run.dry, NEW o \in Covered
               PROVE  PortIn(live, o) = Ideal(o)
    BY DEF ComposedIsIdeal, Covered
  <2>1. InputsOK /\ o \in Origins /\ Landed(o)
    BY DEF IdealInvariant, CleanRun, Clean, Finishing, TreesOK, Covered
  <2>2. Ideal(o) = IF Wanted(o) THEN Replaced(Promised(o)) ELSE None
    BY <2>1, IdealIsPromised
  <2> QED
    BY <2>1, <2>2 DEF Landed, PortIn
<1> QED
  BY <1>1, InitIdeal, StepIdeal, BufferHolds, PTL DEF Spec
=============================================================================

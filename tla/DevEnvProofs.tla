---------------------------- MODULE DevEnvProofs ----------------------------
(***************************************************************************)
(* Proofs about DevEnv, for any number of sessions, of concurrent runs of  *)
(* create and rebase, of bases, removals and faults.                       *)
(***************************************************************************)
EXTENDS DevEnv, TLAPS

USE DEF file, tree, bounds, late, vars

(***************************************************************************)
(* Types, and the shape of an op: it is Idle between its commands, and a   *)
(* rebase began on an env that was ready or interrupted.                   *)
(***************************************************************************)
Statuses == {"none", "creating", "ready", "failed", "rebasing"}
CreatePcs == {"provision", "mount", "venv", "compose"}
RebasePcs == {"ask", "provision", "mark", "marking", "grace", "holders", "restoring", "unmount",
              "record", "recording", "mount", "runtime", "verify", "finishing"}

Session == [pc : {"out", "gate", "root", "mounted", "clear", "in"}, seen : Bases \cup {None}]
Op == [kind : {"none", "create", "rebase"},
       pc : {"idle"} \cup CreatePcs \cup RebasePcs,
       entry : {"none", "ready", "rebasing"} \X (Bases \cup {None}),
       target : Bases \cup {None}]

Shaped(r) ==
  /\ r \in Op
  /\ \/ r = Idle
     \/ r.kind = "create" /\ r.pc \in CreatePcs /\ r.target \in Bases
     \/ r.kind = "rebase" /\ r.pc \in RebasePcs /\ r.target \in Bases
        /\ r.entry[1] \in {"ready", "rebasing"}

FileOK == status \in Statuses /\ base \in Bases \cup {None} /\ dir \in BOOLEAN
TreeOK == mounts \subseteq Groups /\ source \in Bases \cup {None}
OpsOK ==
  /\ op \in [Ops -> Op] /\ lock \in Ops \cup {None, Orphan}
  /\ \A o \in Ops : Shaped(op[o]) /\ (lock = o <=> op[o] # Idle)
SessOK == sess \in [Sessions -> Session]
RestOK ==
  /\ link \in {"idle", "job", "missing"} /\ provisioned \subseteq Bases
  /\ job \in {"none", "begin", "linked", "end"}
  /\ removal \in {"idle", "state", "rest"} /\ sweep \in BOOLEAN /\ torn \in BOOLEAN
  /\ swapped \in BOOLEAN /\ overtaken \subseteq Ops

Typed == FileOK /\ TreeOK /\ OpsOK /\ SessOK /\ RestOK

LEMMA Names ==
  /\ Runner \in Sessions /\ None \notin Bases /\ None \notin Ops /\ Orphan \notin Ops /\ None # Orphan
  /\ Runner \notin Shells
  BY DevEnvAssumption DEF Sessions

LEMMA IdleShape == Shaped(Idle) /\ Idle.pc = "idle" /\ Idle.kind = "none"
  BY DEF Shaped, Idle, Op

LEMMA ShapedAtWork == \A r : Shaped(r) => (r = Idle <=> r.pc = "idle") /\ (r = Idle <=> r.kind = "none")
  BY DEF Shaped, Idle, CreatePcs, RebasePcs

LEMMA TypedIsTyped == Typed => TypeOK
<1> SUFFICES ASSUME Typed PROVE TypeOK
  OBVIOUS
<1>1. \A o \in Ops : (lock = o) = (op[o].pc # "idle")
  BY ShapedAtWork DEF Typed, OpsOK
<1>2. op \in [Ops -> [kind : {"none", "create", "rebase"},
                      pc : {"idle", "ask", "provision", "mark", "marking", "grace", "holders",
                            "restoring", "unmount", "record", "recording", "mount", "runtime",
                            "venv", "compose", "verify", "finishing"},
                      entry : {"none", "ready", "rebasing"} \X (Bases \cup {None}),
                      target : Bases \cup {None}]]
  <2>1. {"idle"} \cup CreatePcs \cup RebasePcs
          = {"idle", "ask", "provision", "mark", "marking", "grace", "holders",
             "restoring", "unmount", "record", "recording", "mount", "runtime",
             "venv", "compose", "verify", "finishing"}
    BY DEF CreatePcs, RebasePcs
  <2> QED
    BY <2>1 DEF Typed, OpsOK, Op
<1> QED
  BY <1>1, <1>2 DEF Typed, TypeOK, FileOK, TreeOK, OpsOK, SessOK, RestOK, Session, Statuses

LEMMA InitTyped == Init => Typed
<1> SUFFICES ASSUME Init PROVE Typed
  OBVIOUS
<1>1. OpsOK
  BY IdleShape, Names DEF Init, OpsOK, Shaped
<1> QED
  BY <1>1 DEF Init, Typed, FileOK, TreeOK, SessOK, RestOK, Session, Statuses, Out

\* Only the op that holds the lock is at work.
LEMMA OneAtWork ==
  ASSUME OpsOK, NEW o \in Ops, op[o] # Idle, NEW p \in Ops, p # o
  PROVE  op[p] = Idle
  BY DEF OpsOK

LEMMA AllIdle ==
  ASSUME OpsOK, lock \in {None, Orphan}, NEW o \in Ops
  PROVE  op[o] = Idle
  BY Names DEF OpsOK

\* An op begins, steps or ends: the lock follows, the others stay.
LEMMA OpMoves ==
  ASSUME OpsOK, NEW o \in Ops, NEW r, Shaped(r), op' = [op EXCEPT ![o] = r],
         op[o] # Idle \/ lock = None,
         \/ r # Idle /\ lock' = o
         \/ r = Idle /\ lock' \in {None, Orphan}
  PROVE  /\ OpsOK' /\ op'[o] = r
         /\ \A p \in Ops : p # o => op[p] = Idle /\ op'[p] = Idle
<1>1. op' \in [Ops -> Op] /\ op'[o] = r /\ \A p \in Ops : p # o => op'[p] = op[p]
  BY DEF OpsOK, Shaped
<1>2. \A p \in Ops : p # o => op[p] = Idle
  BY OneAtWork, AllIdle
<1>3. lock' \in Ops \cup {None, Orphan}
  OBVIOUS
<1>4. \A p \in Ops : Shaped(op'[p]) /\ (lock' = p <=> op'[p] # Idle)
  BY <1>1, <1>2, Names DEF OpsOK
<1> QED
  BY <1>1, <1>2, <1>3, <1>4 DEF OpsOK

LEMMA OpSteps ==
  ASSUME OpsOK, NEW o \in Ops, op[o] # Idle, NEW pc, Step(o, pc),
         \/ op[o].kind = "create" /\ pc \in CreatePcs
         \/ op[o].kind = "rebase" /\ pc \in RebasePcs
  PROVE  /\ OpsOK'
         /\ op'[o].kind = op[o].kind /\ op'[o].pc = pc /\ op'[o].entry = op[o].entry
         /\ op'[o].target = op[o].target
         /\ \A p \in Ops : p # o => op[p] = Idle /\ op'[p] = Idle
<1> DEFINE r == [op[o] EXCEPT !.pc = pc]
<1>1. Shaped(op[o]) /\ lock = o
  BY DEF OpsOK
<1>2. /\ r.kind = op[o].kind /\ r.pc = pc /\ r.entry = op[o].entry /\ r.target = op[o].target
      /\ r \in Op
  BY <1>1 DEF Shaped, Op
<1>3. Shaped(r) /\ r # Idle
  BY <1>1, <1>2, IdleShape DEF Shaped, CreatePcs, RebasePcs
<1>4. op' = [op EXCEPT ![o] = r] /\ lock' = o
  BY <1>1 DEF Step, OpsOK
<1> HIDE DEF r
<1>5. OpsOK' /\ op'[o] = r /\ \A p \in Ops : p # o => op[p] = Idle /\ op'[p] = Idle
  BY <1>3, <1>4, OpMoves
<1> QED
  BY <1>2, <1>5

LEMMA OpEnds ==
  ASSUME OpsOK, NEW o \in Ops, op[o] # Idle,
         op' = [op EXCEPT ![o] = Idle], lock' \in {None, Orphan}
  PROVE  OpsOK' /\ \A p \in Ops : op'[p] = Idle
  BY OpMoves, IdleShape

\* A create begins, at its provisioning, on its own record.
LEMMA CreateOpBegins ==
  ASSUME OpsOK, FileOK, NEW o \in Ops, NEW b \in Bases, lock = None, lock' = o,
         NEW e \in {"none", "ready", "rebasing"} \X (Bases \cup {None}),
         op' = [op EXCEPT ![o] = [kind |-> "create", pc |-> "provision", entry |-> e, target |-> b]]
  PROVE  /\ OpsOK'
         /\ op'[o].kind = "create" /\ op'[o].pc = "provision" /\ op'[o].entry = e /\ op'[o].target = b
         /\ \A p \in Ops : p # o => op[p] = Idle /\ op'[p] = Idle
<1> DEFINE r == [kind |-> "create", pc |-> "provision", entry |-> e, target |-> b]
<1>1. /\ r.kind = "create" /\ r.pc = "provision" /\ r.entry = e /\ r.target = b /\ r \in Op
  BY DEF Op, CreatePcs, RebasePcs
<1>2. Shaped(r) /\ r # Idle
  BY <1>1, IdleShape DEF Shaped, CreatePcs, RebasePcs
<1> HIDE DEF r
<1>3. op' = [op EXCEPT ![o] = r]
  BY DEF r
<1>4. OpsOK' /\ op'[o] = r /\ \A p \in Ops : p # o => op[p] = Idle /\ op'[p] = Idle
  BY <1>2, <1>3, OpMoves
<1> QED
  BY <1>1, <1>4

\* ... a rebase at its first question.
LEMMA RebaseOpBegins ==
  ASSUME OpsOK, FileOK, NEW o \in Ops, NEW b \in Bases, lock = None, lock' = o,
         NEW e \in {"none", "ready", "rebasing"} \X (Bases \cup {None}),
         e[1] \in {"ready", "rebasing"},
         op' = [op EXCEPT ![o] = [kind |-> "rebase", pc |-> "ask", entry |-> e, target |-> b]]
  PROVE  /\ OpsOK'
         /\ op'[o].kind = "rebase" /\ op'[o].pc = "ask" /\ op'[o].entry = e /\ op'[o].target = b
         /\ \A p \in Ops : p # o => op[p] = Idle /\ op'[p] = Idle
<1> DEFINE r == [kind |-> "rebase", pc |-> "ask", entry |-> e, target |-> b]
<1>1. /\ r.kind = "rebase" /\ r.pc = "ask" /\ r.entry = e /\ r.target = b /\ r \in Op
  BY DEF Op, CreatePcs, RebasePcs
<1>2. Shaped(r) /\ r # Idle
  BY <1>1, IdleShape DEF Shaped, CreatePcs, RebasePcs
<1> HIDE DEF r
<1>3. op' = [op EXCEPT ![o] = r]
  BY DEF r
<1>4. OpsOK' /\ op'[o] = r /\ \A p \in Ops : p # o => op[p] = Idle /\ op'[p] = Idle
  BY <1>2, <1>3, OpMoves
<1> QED
  BY <1>1, <1>4

\* One session moves.
LEMMA SessMoves ==
  ASSUME SessOK, NEW s \in Sessions, NEW r \in Session, sess' = [sess EXCEPT ![s] = r]
  PROVE  SessOK' /\ sess'[s] = r /\ \A t \in Sessions : t # s => sess'[t] = sess[t]
  BY DEF SessOK

LEMMA SessGoes ==
  ASSUME SessOK, NEW s \in Sessions, NEW pc \in {"out", "gate", "root", "mounted", "clear", "in"}, Move(s, pc)
  PROVE  /\ SessOK' /\ sess'[s].pc = pc /\ sess'[s].seen = sess[s].seen
         /\ \A t \in Sessions : t # s => sess'[t] = sess[t]
<1> DEFINE r == [sess[s] EXCEPT !.pc = pc]
<1>1. r \in Session /\ r.pc = pc /\ r.seen = sess[s].seen
  BY DEF SessOK, Session
<1>2. sess' = [sess EXCEPT ![s] = r]
  BY DEF Move, SessOK
<1> HIDE DEF r
<1> QED
  BY <1>1, <1>2, SessMoves

LEMMA SessLeaves ==
  ASSUME SessOK, NEW s \in Sessions, Leave(s)
  PROVE  SessOK' /\ sess'[s].pc = "out" /\ \A t \in Sessions : t # s => sess'[t] = sess[t]
<1>1. Out \in Session /\ Out.pc = "out"
  BY DEF Out, Session
<1> QED
  BY <1>1, SessMoves DEF Leave

LEMMA RootKept ==
  ASSUME TreeOK, NEW b \in Bases \cup {None}, EnsureRoot(b)
  PROVE  /\ TreeOK' /\ mounts' # {} /\ "dirs" \in mounts'
         /\ mounts # {} => mounts' = mounts \cup {"dirs"} /\ source' = source
         /\ mounts = {} => mounts' = {"root", "dirs"} /\ source' = b
  BY DEF TreeOK, EnsureRoot, Groups

LEMMA Unmounted ==
  ASSUME TreeOK, Unmount
  PROVE  /\ TreeOK' /\ mounts' \subseteq mounts
         /\ Inside = {} => mounts' = {}
         /\ Inside # {} /\ "root" \in mounts => "root" \in mounts'
<1>1. PICK left \in SUBSET mounts :
        /\ left = {} \/ (Inside # {} /\ "root" \in left)
        /\ Inside # {} /\ "root" \in mounts => "root" \in left
        /\ mounts' = left
        /\ source' = IF "root" \in left THEN source ELSE None
  BY DEF Unmount
<1> QED
  BY <1>1 DEF TreeOK

LEMMA Replaced ==
  ASSUME FileOK, NEW s \in Statuses, NEW b \in Bases \cup {None}, Replace(s, b)
  PROVE  FileOK'
  BY DEF FileOK, Replace

\* A rebase goes on or ends.
LEMMA RebaseGoes ==
  ASSUME OpsOK, NEW o \in Ops, op[o] # Idle, op[o].kind = "rebase",
         Release(o) \/ \E pc \in RebasePcs : Step(o, pc)
  PROVE  OpsOK'
<1>1. CASE Release(o)
  BY <1>1, OpEnds DEF Release
<1>2. ASSUME NEW pc \in RebasePcs, Step(o, pc) PROVE OpsOK'
  BY <1>2, OpSteps
<1> QED
  BY <1>1, <1>2

LEMMA SessionTyped ==
  ASSUME Typed, NEW s \in Sessions, Load(s) \/ SessionStep(s)
  PROVE  Typed'
<1>0. FileOK /\ TreeOK /\ OpsOK /\ SessOK /\ RestOK
  BY DEF Typed
<1>1. CASE Load(s)
  <2>1. SessOK'
    BY <1>0, <1>1, SessMoves DEF Load, FileOK, Session
  <2>2. FileOK' /\ TreeOK' /\ OpsOK' /\ RestOK'
    BY <1>0, <1>1 DEF FileOK, TreeOK, OpsOK, RestOK, Load
  <2> QED
    BY <2>1, <2>2 DEF Typed
<1>2. CASE MountRoot(s)
  <2>1. FileOK'
    BY <1>0, <1>2 DEF FileOK, MountRoot
  <2>2. TreeOK'
    BY <1>0, <1>2, RootKept DEF MountRoot, SessOK, Session
  <2>3. SessOK'
    BY <1>0, <1>2, SessMoves DEF MountRoot, Session
  <2>4. OpsOK' /\ RestOK'
    BY <1>0, <1>2 DEF OpsOK, RestOK, MountRoot
  <2> QED
    BY <2>1, <2>2, <2>3, <2>4 DEF Typed
<1>3. CASE MountRuntime(s)
  <2>1. FileOK'
    BY <1>0, <1>3 DEF FileOK, MountRuntime
  <2>2. TreeOK'
    BY <1>0, <1>3 DEF MountRuntime, TreeOK, Groups
  <2>3. SessOK'
    BY <1>0, <1>3, SessGoes DEF MountRuntime
  <2>4. OpsOK' /\ RestOK'
    BY <1>0, <1>3 DEF OpsOK, RestOK, MountRuntime
  <2> QED
    BY <2>1, <2>2, <2>3, <2>4 DEF Typed
<1>4. CASE Recheck(s)
  <2>1. SessOK'
    BY <1>0, <1>4, SessGoes DEF Recheck
  <2>2. FileOK' /\ TreeOK' /\ OpsOK' /\ RestOK'
    BY <1>0, <1>4 DEF FileOK, TreeOK, OpsOK, RestOK, Recheck
  <2> QED
    BY <2>1, <2>2 DEF Typed
<1>5. CASE Refused(s)
  <2>1. SessOK'
    BY <1>0, <1>5, SessLeaves DEF Refused
  <2>2. FileOK' /\ TreeOK' /\ OpsOK' /\ RestOK'
    BY <1>0, <1>5 DEF FileOK, TreeOK, OpsOK, RestOK, Refused
  <2> QED
    BY <2>1, <2>2 DEF Typed
<1>6. CASE Enter(s)
  <2>1. SessOK'
    BY <1>0, <1>6, SessGoes DEF Enter
  <2>2. FileOK' /\ TreeOK' /\ OpsOK' /\ RestOK'
    BY <1>0, <1>6 DEF FileOK, TreeOK, OpsOK, RestOK, Enter
  <2> QED
    BY <2>1, <2>2 DEF Typed
<1>7. CASE Exit(s)
  <2>1. SessOK'
    BY <1>0, <1>7, SessLeaves DEF Exit
  <2>2. FileOK' /\ TreeOK' /\ OpsOK' /\ RestOK'
    BY <1>0, <1>7 DEF FileOK, TreeOK, OpsOK, RestOK, Exit
  <2> QED
    BY <2>1, <2>2 DEF Typed
<1> QED
  BY <1>1, <1>2, <1>3, <1>4, <1>5, <1>6, <1>7 DEF SessionStep

LEMMA OpTyped ==
  ASSUME Typed, NEW o \in Ops,
         OpStep(o) \/ CreateFails(o) \/ RebaseInterrupted(o) \/ RebaseFails(o) \/ OpDies(o)
  PROVE  Typed'
<1>0. FileOK /\ TreeOK /\ OpsOK /\ SessOK /\ RestOK
  BY DEF Typed
<1>k. op[o].pc # "idle" => op[o] # Idle
  BY IdleShape
<1>t. /\ op[o].target \in Bases \cup {None} /\ op[o].entry[1] \in Statuses
      /\ op[o].entry[2] \in Bases \cup {None} /\ {"creating", "ready", "failed", "rebasing"} \subseteq Statuses
      /\ op[o] # Idle => op[o].target \in Bases
  BY <1>0 DEF OpsOK, Op, Shaped, Statuses
<1>1. CASE CreateProvision(o)
  <2>1. FileOK'
    BY <1>0, <1>t, <1>1 DEF FileOK, CreateSave, Statuses, CreateProvision
  <2>2. OpsOK'
    BY <1>0, <1>k, <1>1, OpSteps DEF CreateProvision, At, CreatePcs, RebasePcs
  <2>3. RestOK'
    BY <1>0, <1>k, <1>t, <1>1 DEF RestOK, CreateProvision, At
  <2>4. TreeOK' /\ SessOK'
    BY <1>0, <1>1 DEF TreeOK, SessOK, CreateProvision
  <2> QED
    BY <2>1, <2>2, <2>3, <2>4 DEF Typed
<1>2. CASE CreateMount(o)
  <2>1. FileOK'
    BY <1>0, <1>2 DEF FileOK, CreateMount
  <2>2. TreeOK'
    BY <1>0, <1>t, <1>2 DEF TreeOK, CreateMount
  <2>3. OpsOK'
    BY <1>0, <1>k, <1>2, OpSteps DEF CreateMount, At, CreatePcs, RebasePcs
  <2>4. RestOK'
    BY <1>0, <1>2 DEF RestOK, CreateMount
  <2>5. SessOK'
    BY <1>0, <1>2 DEF SessOK, CreateMount
  <2> QED
    BY <2>1, <2>2, <2>3, <2>4, <2>5 DEF Typed
<1>3. CASE CreateReady(o)
  <2>1. FileOK'
    BY <1>0, <1>t, <1>3 DEF FileOK, CreateSave, Statuses, CreateReady
  <2>2. OpsOK'
    BY <1>0, <1>k, <1>3, OpSteps DEF CreateReady, At, CreatePcs, RebasePcs
  <2>3. TreeOK' /\ SessOK' /\ RestOK'
    BY <1>0, <1>3 DEF TreeOK, SessOK, RestOK, CreateReady
  <2> QED
    BY <2>1, <2>2, <2>3 DEF Typed
<1>4. CASE CreateDone(o)
  <2>1. FileOK'
    BY <1>0, <1>t, <1>4 DEF FileOK, CreateSave, Statuses, CreateDone
  <2>2. OpsOK'
    BY <1>0, <1>k, <1>4, OpEnds DEF CreateDone, At, Release
  <2>3. TreeOK' /\ SessOK' /\ RestOK'
    BY <1>0, <1>4 DEF TreeOK, SessOK, RestOK, CreateDone
  <2> QED
    BY <2>1, <2>2, <2>3 DEF Typed
<1>5. CASE CreateFails(o)
  <2>1. FileOK'
    BY <1>0, <1>t, <1>5 DEF FileOK, CreateSave, Statuses, CreateFails
  <2>2. OpsOK'
    BY <1>0, <1>k, <1>5, OpEnds DEF CreateFails, At, Release
  <2>3. TreeOK' /\ SessOK' /\ RestOK'
    BY <1>0, <1>5 DEF TreeOK, SessOK, RestOK, CreateFails
  <2> QED
    BY <2>1, <2>2, <2>3 DEF Typed
<1>6. CASE RebaseProvision(o)
  <2>1. OpsOK'
    BY <1>0, <1>k, <1>6, OpSteps DEF RebaseProvision, At, CreatePcs, RebasePcs
  <2>2. RestOK'
    BY <1>0, <1>k, <1>t, <1>6 DEF RestOK, RebaseProvision, At
  <2>3. FileOK' /\ TreeOK' /\ SessOK'
    BY <1>0, <1>6 DEF FileOK, TreeOK, SessOK, RebaseProvision
  <2> QED
    BY <2>1, <2>2, <2>3 DEF Typed
<1>7. CASE RebaseMark(o)
  <2>1. FileOK'
    BY <1>0, <1>7 DEF FileOK, RebaseMark
  <2>2. OpsOK'
    <3>1. Release(o) \/ \E pc \in RebasePcs : Step(o, pc)
      BY <1>7 DEF RebaseMark, RebasePcs
    <3> QED
      BY <1>0, <1>k, <1>7, <3>1, RebaseGoes DEF RebaseMark, At
  <2>3. RestOK'
    BY <1>0, <1>7 DEF RestOK, RebaseMark
  <2>4. TreeOK' /\ SessOK'
    BY <1>0, <1>7 DEF TreeOK, SessOK, RebaseMark
  <2> QED
    BY <2>1, <2>2, <2>3, <2>4 DEF Typed
<1>8. CASE RebaseCheckLink(o)
  <2>1. FileOK'
    BY <1>0, <1>8 DEF FileOK, RebaseCheckLink
  <2>2. OpsOK'
    <3>1. Release(o) \/ \E pc \in RebasePcs : Step(o, pc)
      BY <1>8 DEF RebaseCheckLink, GiveUp, RebasePcs
    <3> QED
      BY <1>0, <1>k, <1>8, <3>1, RebaseGoes DEF RebaseCheckLink, At
  <2>3. RestOK'
    BY <1>0, <1>8 DEF RestOK, RebaseCheckLink
  <2>4. TreeOK' /\ SessOK'
    BY <1>0, <1>8 DEF TreeOK, SessOK, RebaseCheckLink
  <2> QED
    BY <2>1, <2>2, <2>3, <2>4 DEF Typed
<1>9. CASE RebaseInterrupted(o)
  <2>1. FileOK'
    BY <1>0, <1>9 DEF FileOK, RebaseInterrupted
  <2>2. OpsOK'
    <3>1. Release(o) \/ \E pc \in RebasePcs : Step(o, pc)
      BY <1>9 DEF RebaseInterrupted, GiveUp, RebasePcs
    <3> QED
      BY <1>0, <1>k, <1>9, <3>1, RebaseGoes DEF RebaseInterrupted, At
  <2>3. RestOK'
    BY <1>0, <1>9 DEF RestOK, RebaseInterrupted
  <2>4. TreeOK' /\ SessOK'
    BY <1>0, <1>9 DEF TreeOK, SessOK, RebaseInterrupted
  <2> QED
    BY <2>1, <2>2, <2>3, <2>4 DEF Typed
<1>10. CASE RebaseUnmount(o)
  <2>1. TreeOK'
    BY <1>0, <1>10, Unmounted DEF RebaseUnmount
  <2>2. OpsOK'
    BY <1>0, <1>k, <1>10, OpSteps DEF RebaseUnmount, At, CreatePcs, RebasePcs
  <2>3. FileOK' /\ SessOK' /\ RestOK'
    BY <1>0, <1>10 DEF FileOK, SessOK, RestOK, RebaseUnmount
  <2> QED
    BY <2>1, <2>2, <2>3 DEF Typed
<1>11. CASE RebaseRecord(o)
  <2>1. FileOK'
    BY <1>0, <1>11 DEF FileOK, RebaseRecord
  <2>2. OpsOK'
    <3>1. Release(o) \/ \E pc \in RebasePcs : Step(o, pc)
      BY <1>11 DEF RebaseRecord, GiveUp, RebasePcs
    <3> QED
      BY <1>0, <1>k, <1>11, <3>1, RebaseGoes DEF RebaseRecord, At
  <2>3. RestOK'
    BY <1>0, <1>11 DEF RestOK, RebaseRecord
  <2>4. TreeOK' /\ SessOK'
    BY <1>0, <1>11 DEF TreeOK, SessOK, RebaseRecord
  <2> QED
    BY <2>1, <2>2, <2>3, <2>4 DEF Typed
<1>12. CASE RebaseMount(o)
  <2>1. FileOK'
    BY <1>0, <1>12 DEF FileOK, RebaseMount
  <2>2. TreeOK'
    BY <1>0, <1>12, RootKept DEF RebaseMount, TreeOK, FileOK
  <2>3. OpsOK'
    <3>1. op[o] # Idle /\ op[o].kind = "rebase"
      BY <1>k, <1>12 DEF RebaseMount, At
    <3>2. CASE Release(o)
      BY <1>0, <3>1, <3>2, OpEnds DEF Release
    <3>3. ASSUME NEW pc \in RebasePcs, Step(o, pc) PROVE OpsOK'
      BY <1>0, <3>1, <3>3, OpSteps
    <3> QED
      BY <1>12, <3>2, <3>3 DEF RebaseMount, RebasePcs
  <2>4. SessOK' /\ RestOK'
    BY <1>0, <1>12 DEF SessOK, RestOK, RebaseMount
  <2> QED
    BY <2>1, <2>2, <2>3, <2>4 DEF Typed
<1>13. CASE RebaseRuntime(o)
  <2>1. FileOK'
    BY <1>0, <1>13 DEF FileOK, RebaseRuntime
  <2>2. TreeOK'
    BY <1>0, <1>13 DEF RebaseRuntime, TreeOK, Groups
  <2>3. OpsOK'
    <3>1. op[o] # Idle /\ op[o].kind = "rebase"
      BY <1>k, <1>13 DEF RebaseRuntime, At
    <3>2. CASE Release(o)
      BY <1>0, <3>1, <3>2, OpEnds DEF Release
    <3>3. ASSUME NEW pc \in RebasePcs, Step(o, pc) PROVE OpsOK'
      BY <1>0, <3>1, <3>3, OpSteps
    <3> QED
      BY <1>13, <3>2, <3>3 DEF RebaseRuntime, RebasePcs
  <2>4. SessOK' /\ RestOK'
    BY <1>0, <1>13 DEF SessOK, RestOK, RebaseRuntime
  <2> QED
    BY <2>1, <2>2, <2>3, <2>4 DEF Typed
<1>14. CASE RebaseVerify(o)
  <2>1. FileOK'
    BY <1>0, <1>14 DEF FileOK, RebaseVerify
  <2>2. OpsOK'
    <3>1. Release(o) \/ \E pc \in RebasePcs : Step(o, pc)
      BY <1>14 DEF RebaseVerify, RebasePcs
    <3> QED
      BY <1>0, <1>k, <1>14, <3>1, RebaseGoes DEF RebaseVerify, At
  <2>3. RestOK'
    BY <1>0, <1>14 DEF RestOK, RebaseVerify
  <2>4. TreeOK' /\ SessOK'
    BY <1>0, <1>14 DEF TreeOK, SessOK, RebaseVerify
  <2> QED
    BY <2>1, <2>2, <2>3, <2>4 DEF Typed
<1>15. CASE RebaseFails(o)
  <2>1. OpsOK'
    BY <1>0, <1>k, <1>15, OpEnds DEF RebaseFails, At, Release
  <2>2. FileOK' /\ TreeOK' /\ SessOK' /\ RestOK'
    BY <1>0, <1>15 DEF FileOK, TreeOK, SessOK, RestOK, RebaseFails
  <2> QED
    BY <2>1, <2>2 DEF Typed
<1>16. CASE OpDies(o)
  <2>1. OpsOK'
    BY <1>0, <1>k, <1>16, OpEnds DEF OpDies, At, Release
  <2>2. FileOK' /\ TreeOK' /\ SessOK' /\ RestOK'
    BY <1>0, <1>16 DEF FileOK, TreeOK, SessOK, RestOK, OpDies
  <2> QED
    BY <2>1, <2>2 DEF Typed
<1>17. CASE RebaseAsk(o)
  <2>1. FileOK'
    BY <1>0, <1>17 DEF FileOK, RebaseAsk
  <2>2. OpsOK'
    <3>1. Release(o) \/ \E pc \in RebasePcs : Step(o, pc)
      BY <1>17 DEF RebaseAsk, RebasePcs
    <3> QED
      BY <1>0, <1>k, <1>17, <3>1, RebaseGoes DEF RebaseAsk, At
  <2>3. RestOK'
    BY <1>0, <1>17 DEF RestOK, RebaseAsk
  <2>4. TreeOK' /\ SessOK'
    BY <1>0, <1>17 DEF TreeOK, SessOK, RebaseAsk
  <2> QED
    BY <2>1, <2>2, <2>3, <2>4 DEF Typed
<1>18. CASE RebaseMarked(o)
  <2>1. FileOK'
    BY <1>0, <1>t, <1>18, Replaced DEF FileOK, RebaseMarked, Outrun
  <2>2. OpsOK'
    <3>1. Release(o) \/ \E pc \in RebasePcs : Step(o, pc)
      BY <1>18 DEF RebaseMarked, Outrun, RebasePcs
    <3> QED
      BY <1>0, <1>k, <1>18, <3>1, RebaseGoes DEF RebaseMarked, At
  <2>3. RestOK'
    BY <1>0, <1>18 DEF RestOK, RebaseMarked
  <2>4. TreeOK' /\ SessOK'
    BY <1>0, <1>18 DEF TreeOK, SessOK, RebaseMarked
  <2> QED
    BY <2>1, <2>2, <2>3, <2>4 DEF Typed
<1>19. CASE RebaseCheckHolders(o)
  <2>1. FileOK'
    BY <1>0, <1>19 DEF FileOK, RebaseCheckHolders
  <2>2. OpsOK'
    <3>1. Release(o) \/ \E pc \in RebasePcs : Step(o, pc)
      BY <1>19 DEF RebaseCheckHolders, GiveUp, RebasePcs
    <3> QED
      BY <1>0, <1>k, <1>19, <3>1, RebaseGoes DEF RebaseCheckHolders, At
  <2>3. RestOK'
    BY <1>0, <1>19 DEF RestOK, RebaseCheckHolders
  <2>4. TreeOK' /\ SessOK'
    BY <1>0, <1>19 DEF TreeOK, SessOK, RebaseCheckHolders
  <2> QED
    BY <2>1, <2>2, <2>3, <2>4 DEF Typed
<1>20. CASE RebaseRestore(o)
  <2>1. FileOK'
    BY <1>0, <1>t, <1>20, Replaced DEF FileOK, RebaseRestore, Outrun
  <2>2. OpsOK'
    <3>1. Release(o) \/ \E pc \in RebasePcs : Step(o, pc)
      BY <1>20 DEF RebaseRestore, Outrun, RebasePcs
    <3> QED
      BY <1>0, <1>k, <1>20, <3>1, RebaseGoes DEF RebaseRestore, At
  <2>3. RestOK'
    BY <1>0, <1>20 DEF RestOK, RebaseRestore
  <2>4. TreeOK' /\ SessOK'
    BY <1>0, <1>20 DEF TreeOK, SessOK, RebaseRestore
  <2> QED
    BY <2>1, <2>2, <2>3, <2>4 DEF Typed
<1>21. CASE RebaseRecorded(o)
  <2>1. FileOK'
    BY <1>0, <1>t, <1>21, Replaced DEF FileOK, RebaseRecorded, Outrun
  <2>2. OpsOK'
    <3>1. Release(o) \/ \E pc \in RebasePcs : Step(o, pc)
      BY <1>21 DEF RebaseRecorded, Outrun, RebasePcs
    <3> QED
      BY <1>0, <1>k, <1>21, <3>1, RebaseGoes DEF RebaseRecorded, At
  <2>3. RestOK'
    BY <1>0, <1>21 DEF RestOK, RebaseRecorded
  <2>4. TreeOK' /\ SessOK'
    BY <1>0, <1>21 DEF TreeOK, SessOK, RebaseRecorded
  <2> QED
    BY <2>1, <2>2, <2>3, <2>4 DEF Typed
<1>22. CASE RebaseReady(o)
  <2>1. FileOK'
    BY <1>0, <1>t, <1>22, Replaced DEF FileOK, RebaseReady, Outrun
  <2>2. OpsOK'
    <3>1. Release(o) \/ \E pc \in RebasePcs : Step(o, pc)
      BY <1>22 DEF RebaseReady, Outrun, RebasePcs
    <3> QED
      BY <1>0, <1>k, <1>22, <3>1, RebaseGoes DEF RebaseReady, At
  <2>3. RestOK'
    BY <1>0, <1>22 DEF RestOK, RebaseReady
  <2>4. TreeOK' /\ SessOK'
    BY <1>0, <1>22 DEF TreeOK, SessOK, RebaseReady
  <2> QED
    BY <2>1, <2>2, <2>3, <2>4 DEF Typed
<1> QED
  BY <1>1, <1>2, <1>3, <1>4, <1>5, <1>6, <1>7, <1>8, <1>9, <1>10, <1>11, <1>12, <1>13, <1>14,
     <1>15, <1>16, <1>17, <1>18, <1>19, <1>20, <1>21, <1>22 DEF OpStep

LEMMA BeginTyped ==
  ASSUME Typed, NEW o \in Ops, NEW b \in Bases, CreateBegin(o, b) \/ RebaseBegin(o, b)
  PROVE  Typed'
<1>0. FileOK /\ TreeOK /\ OpsOK /\ SessOK /\ RestOK
  BY DEF Typed
<1>1. CASE CreateBegin(o, b)
  <2>1. FileOK'
    BY <1>0, <1>1 DEF FileOK, Statuses, CreateBegin
  <2>2. OpsOK'
    <3> DEFINE e == <<"none", None>>
    <3>1. e \in {"none", "ready", "rebasing"} \X (Bases \cup {None})
      OBVIOUS
    <3>2. /\ op' = [op EXCEPT ![o] = [kind |-> "create", pc |-> "provision", entry |-> e, target |-> b]]
          /\ lock = None /\ lock' = o
      BY <1>1 DEF CreateBegin
    <3> HIDE DEF e
    <3> QED
      BY <1>0, <3>1, <3>2, CreateOpBegins
  <2>3. TreeOK' /\ SessOK' /\ RestOK'
    BY <1>0, <1>1 DEF TreeOK, SessOK, RestOK, CreateBegin
  <2> QED
    BY <2>1, <2>2, <2>3 DEF Typed
<1>2. CASE RebaseBegin(o, b)
  <2>1. OpsOK'
    <3> DEFINE e == <<status, base>>
    <3>1. /\ e \in {"none", "ready", "rebasing"} \X (Bases \cup {None})
          /\ e[1] \in {"ready", "rebasing"}
      BY <1>0, <1>2 DEF RebaseBegin, MayRebase, FileOK
    <3>2. /\ op' = [op EXCEPT ![o] = [kind |-> "rebase", pc |-> "ask", entry |-> e, target |-> b]]
          /\ lock = None /\ lock' = o
      BY <1>2 DEF RebaseBegin
    <3> HIDE DEF e
    <3> QED
      BY <1>0, <3>1, <3>2, RebaseOpBegins
  <2>2. FileOK' /\ TreeOK' /\ SessOK' /\ RestOK'
    BY <1>0, <1>2 DEF FileOK, TreeOK, SessOK, RestOK, RebaseBegin
  <2> QED
    BY <2>1, <2>2 DEF Typed
<1> QED
  BY <1>1, <1>2

LEMMA OtherTyped ==
  ASSUME Typed,
         \/ JobBegins \/ JobEnds \/ JobRefused \/ Unlink \/ Relink \/ RunnerDies
         \/ RemoveLock \/ DestroyUnmount \/ RemoveState \/ RemoveDir \/ SweepBegins \/ SweepUnmounts
         \/ UNCHANGED vars
  PROVE  Typed'
<1>0. FileOK /\ TreeOK /\ OpsOK /\ SessOK /\ RestOK
  BY DEF Typed
<1>1. CASE JobBegins
  <2>1. RestOK'
    BY <1>0, <1>1 DEF RestOK, JobBegins
  <2>2. FileOK' /\ TreeOK' /\ OpsOK' /\ SessOK'
    BY <1>0, <1>1 DEF FileOK, TreeOK, OpsOK, SessOK, JobBegins
  <2> QED
    BY <2>1, <2>2 DEF Typed
<1>2. CASE JobEnds
  <2>1. RestOK'
    BY <1>0, <1>2 DEF RestOK, JobEnds
  <2>2. FileOK' /\ TreeOK' /\ OpsOK' /\ SessOK'
    BY <1>0, <1>2 DEF FileOK, TreeOK, OpsOK, SessOK, JobEnds
  <2> QED
    BY <2>1, <2>2 DEF Typed
<1>3. CASE JobRefused
  <2>1. RestOK'
    BY <1>0, <1>3 DEF RestOK, JobRefused
  <2>2. FileOK' /\ TreeOK' /\ OpsOK' /\ SessOK'
    BY <1>0, <1>3 DEF FileOK, TreeOK, OpsOK, SessOK, JobRefused
  <2> QED
    BY <2>1, <2>2 DEF Typed
<1>4. CASE Unlink
  <2>1. RestOK'
    BY <1>0, <1>4 DEF RestOK, Unlink
  <2>2. FileOK' /\ TreeOK' /\ OpsOK' /\ SessOK'
    BY <1>0, <1>4 DEF FileOK, TreeOK, OpsOK, SessOK, Unlink
  <2> QED
    BY <2>1, <2>2 DEF Typed
<1>5. CASE Relink
  <2>1. RestOK'
    BY <1>0, <1>5 DEF RestOK, Relink
  <2>2. FileOK' /\ TreeOK' /\ OpsOK' /\ SessOK'
    BY <1>0, <1>5 DEF FileOK, TreeOK, OpsOK, SessOK, Relink
  <2> QED
    BY <2>1, <2>2 DEF Typed
<1>6. CASE RunnerDies
  <2>1. SessOK'
    BY <1>0, <1>6, Names, SessLeaves DEF RunnerDies
  <2>2. RestOK'
    BY <1>0, <1>6 DEF RestOK, RunnerDies
  <2>3. FileOK' /\ TreeOK' /\ OpsOK'
    BY <1>0, <1>6 DEF FileOK, TreeOK, OpsOK, RunnerDies
  <2> QED
    BY <2>1, <2>2, <2>3 DEF Typed
<1>7. CASE RemoveLock
  <2>1. OpsOK'
    BY <1>0, <1>7, Names DEF OpsOK, RemoveLock
  <2>2. FileOK' /\ TreeOK' /\ SessOK' /\ RestOK'
    BY <1>0, <1>7 DEF FileOK, TreeOK, SessOK, RestOK, RemoveLock
  <2> QED
    BY <2>1, <2>2 DEF Typed
<1>8. CASE DestroyUnmount
  <2>1. TreeOK'
    BY <1>0, <1>8, Unmounted DEF DestroyUnmount
  <2>2. RestOK'
    BY <1>0, <1>8 DEF RestOK, DestroyUnmount, Tear
  <2>3. FileOK' /\ OpsOK' /\ SessOK'
    BY <1>0, <1>8 DEF FileOK, OpsOK, SessOK, DestroyUnmount
  <2> QED
    BY <2>1, <2>2, <2>3 DEF Typed
<1>9. CASE RemoveState
  <2>1. FileOK'
    BY <1>0, <1>9 DEF FileOK, RemoveState, Statuses
  <2>2. RestOK'
    BY <1>0, <1>9 DEF RestOK, RemoveState, Tear
  <2>3. TreeOK' /\ OpsOK' /\ SessOK'
    BY <1>0, <1>9 DEF TreeOK, OpsOK, SessOK, RemoveState
  <2> QED
    BY <2>1, <2>2, <2>3 DEF Typed
<1>10. CASE RemoveDir
  <2>1. FileOK'
    BY <1>0, <1>10 DEF FileOK, RemoveDir
  <2>2. RestOK'
    BY <1>0, <1>10 DEF RestOK, RemoveDir, Tear
  <2>3. TreeOK' /\ OpsOK' /\ SessOK'
    BY <1>0, <1>10 DEF TreeOK, OpsOK, SessOK, RemoveDir
  <2> QED
    BY <2>1, <2>2, <2>3 DEF Typed
<1>11. CASE SweepBegins
  <2>1. RestOK'
    BY <1>0, <1>11 DEF RestOK, SweepBegins
  <2>2. FileOK' /\ TreeOK' /\ OpsOK' /\ SessOK'
    BY <1>0, <1>11 DEF FileOK, TreeOK, OpsOK, SessOK, SweepBegins
  <2> QED
    BY <2>1, <2>2 DEF Typed
<1>12. CASE SweepUnmounts
  <2>1. TreeOK'
    BY <1>0, <1>12, Unmounted DEF SweepUnmounts
  <2>2. RestOK'
    BY <1>0, <1>12 DEF RestOK, SweepUnmounts, Tear
  <2>3. FileOK' /\ OpsOK' /\ SessOK'
    BY <1>0, <1>12 DEF FileOK, OpsOK, SessOK, SweepUnmounts
  <2> QED
    BY <2>1, <2>2, <2>3 DEF Typed
<1>13. CASE UNCHANGED vars
  BY <1>0, <1>13 DEF Typed, FileOK, TreeOK, OpsOK, SessOK, RestOK
<1> QED
  BY <1>1, <1>2, <1>3, <1>4, <1>5, <1>6, <1>7, <1>8, <1>9, <1>10, <1>11, <1>12, <1>13

LEMMA StepTyped == Typed /\ [Next]_vars => Typed'
  BY SessionTyped, OpTyped, BeginTyped, OtherTyped DEF Next

LEMMA AlwaysTyped == Spec => []Typed
  BY InitTyped, StepTyped, PTL DEF Spec

\* Every part of the env keeps its type, and a lock directory of a living op is
\* of one at work (locks.py, rebase.py, builder.py of dports_dev_env).
THEOREM EnvTypeCorrect == Spec => []TypeOK
  BY AlwaysTyped, TypedIsTyped, PTL

(***************************************************************************)
(* The env under its ops and its sessions.  World is what env.json names   *)
(* and who is inside while a command holds the env; Tree is what is        *)
(* mounted, as long as nothing was unmounted beneath anyone.               *)
(***************************************************************************)
AtRebase(o, pcs) == op[o].kind = "rebase" /\ op[o].pc \in pcs
AtCreate(o, pcs) == op[o].kind = "create" /\ op[o].pc \in pcs
Present(s) == sess[s].pc \in {"clear", "in"}

InsideHolds == \A s \in Sessions : sess[s].pc = "in" => "root" \in mounts

\* The base a command works from or to is the one named, unless the env was destroyed
\* meanwhile, which overtakes a save that is under way; from a rebase's last look at the
\* link no session is cleared to enter, and while it unmounts none is inside; a job's link
\* is there then only if it was swapped after that look.
Named(o) ==
  /\ op[o].kind = "create" => base \in {None, op[o].target}
  /\ AtRebase(o, {"marking"}) => status = "none" \/ <<status, base>> = op[o].entry
  /\ AtRebase(o, {"grace", "holders", "restoring", "unmount", "record", "recording"})
       => status = "none" \/ (status = "rebasing" /\ base = op[o].entry[2])
  /\ AtRebase(o, {"mount", "runtime", "verify", "finishing"})
       => status = "none" \/ (status = "rebasing" /\ base = op[o].target)
  /\ AtRebase(o, {"holders", "unmount", "record", "recording"})
       => /\ \A s \in Sessions : sess[s].pc # "clear"
          /\ status = "none" \/ link = "idle" \/ swapped
  /\ AtRebase(o, {"unmount", "record", "recording"}) => \A s \in Sessions : sess[s].pc # "in"
  /\ AtRebase(o, Saving) /\ status = "none" => o \in overtaken

World ==
  /\ InsideHolds /\ (status = "none" => base = None)
  /\ \A o \in Ops : Named(o)

\* The env is ready, or a rebase that found it ready may still hand it back.
Waiting ==
  \E o \in Ops : AtRebase(o, {"grace", "holders", "restoring"}) /\ op[o].entry[1] = "ready"
Settled == status = "ready" \/ (status = "rebasing" /\ Waiting)
Whole == mounts = Groups /\ source = base

Gone == ~dir => status = "none" /\ mounts = {}

NoneAtWork ==
  status = "none" => (\A s \in Sessions : sess[s].pc = "out") /\ \A o \in Ops : op[o].pc = "idle"

NobodyYet == status = "creating" => \A s \in Sessions : sess[s].pc = "out"

Built(o) ==
  /\ AtCreate(o, {"provision", "mount"}) => status = "creating" /\ mounts = {}
  /\ AtCreate(o, {"venv"}) => status = "creating" /\ mounts = Groups /\ source = op[o].target
  /\ AtCreate(o, {"compose"}) => status = "ready" /\ base = op[o].target
  /\ AtRebase(o, {"runtime"}) => "dirs" \in mounts
  /\ AtRebase(o, {"verify"}) => "dirs" \in mounts /\ "runtime" \in mounts
  /\ AtRebase(o, {"finishing"}) => mounts = Groups /\ source = op[o].target

\* In a settled env a session that is still to mount an empty root mounts the
\* base that is named, and one that has mounted everything finds it there.
SettledTree ==
  Settled =>
    /\ mounts = {} \/ ("root" \in mounts /\ "dirs" \in mounts /\ source = base)
    /\ \A s \in Sessions :
         /\ sess[s].pc = "gate" /\ mounts = {} => sess[s].seen = base
         /\ sess[s].pc = "root" => mounts # {}
         /\ sess[s].pc \in {"mounted", "clear", "in"} => mounts = Groups

PresentWhole == status = "rebasing" => \A s \in Sessions : Present(s) => Whole

Tree ==
  ~torn => /\ NoneAtWork /\ NobodyYet /\ \A o \in Ops : Built(o)
           /\ SettledTree /\ PresentWhole

EnvInvariant == World /\ Gone /\ Tree

LEMMA InitEnv == Init => EnvInvariant
  BY IdleShape DEF Init, EnvInvariant, World, Gone, Tree, InsideHolds, Named, NoneAtWork,
     NobodyYet, Built,
                   SettledTree, PresentWhole, Settled, Waiting, AtRebase, AtCreate, Out,
                   Present, Saving

LEMMA AtWorkEmpty ==
  AtWork = {} <=> (\A s \in Sessions : sess[s].pc = "out") /\ \A o \in Ops : op[o].pc = "idle"
  BY DEF AtWork

LEMMA InsideEmpty == Inside = {} <=> \A s \in Sessions : sess[s].pc # "in"
  BY DEF Inside

\* What whole means, group by group.
LEMMA GroupsWhole ==
  ASSUME mounts \subseteq Groups
  PROVE  mounts = Groups <=> "root" \in mounts /\ "dirs" \in mounts /\ "runtime" \in mounts
  BY DEF Groups

LEMMA SessionEnv ==
  ASSUME Typed, EnvInvariant, NEW s \in Sessions, Load(s) \/ SessionStep(s)
  PROVE  EnvInvariant'
<1>0. FileOK /\ TreeOK /\ OpsOK /\ SessOK /\ World /\ Gone /\ Tree
  BY DEF Typed, EnvInvariant
<1> USE DEF Named, Built, AtRebase, AtCreate, Present, Saving
<1>m. mounts = Groups <=> "root" \in mounts /\ "dirs" \in mounts /\ "runtime" \in mounts
  BY <1>0, GroupsWhole DEF TreeOK
<1>1. CASE Load(s)
  <2>1. sess'[s].pc = "gate" /\ sess'[s].seen = base /\ \A t \in Sessions : t # s => sess'[t] = sess[t]
    <3> DEFINE r == [pc |-> "gate", seen |-> base]
    <3>1. r \in Session /\ r.pc = "gate" /\ r.seen = base
      BY <1>0 DEF FileOK, Session
    <3>2. sess' = [sess EXCEPT ![s] = r]
      BY <1>1 DEF Load
    <3> HIDE DEF r
    <3> QED
      BY <1>0, <3>1, <3>2, SessMoves
  <2>w. World'
    BY <1>0, <1>1, <2>1 DEF World, InsideHolds, Load, InFlight
  <2>g. Gone'
    BY <1>0, <1>1, <2>1 DEF Gone, Load, InFlight
  <2>t. ASSUME ~torn' PROVE Tree'
    <3>0. /\ ~torn /\ NoneAtWork /\ NobodyYet /\ (\A p \in Ops : Built(p)) /\ SettledTree
          /\ PresentWhole
      BY <1>0, <1>1, <2>1, <2>t DEF Tree, Load, InFlight
    <3>1. NoneAtWork'
      BY <1>0, <1>1, <2>1, <3>0 DEF NoneAtWork, Load, InFlight
    <3>2. NobodyYet'
      BY <1>0, <1>1, <2>1, <3>0 DEF NobodyYet, Load, InFlight
    <3>3. (\A p \in Ops : Built(p))'
      BY <1>0, <1>1, <2>1, <3>0 DEF Load, InFlight
    <3>4. SettledTree'
      BY <1>0, <1>1, <2>1, <3>0 DEF SettledTree, Settled, Waiting, Load, InFlight
    <3>5. PresentWhole'
      BY <1>0, <1>1, <2>1, <3>0 DEF PresentWhole, SettledTree, Settled, Waiting, Whole, Load,
         InFlight
    <3> QED
      BY <3>1, <3>2, <3>3, <3>4, <3>5 DEF Tree
  <2> QED
    BY <2>w, <2>g, <2>t DEF EnvInvariant, Tree
<1>2. CASE MountRoot(s)
  <2>1. sess'[s].pc = "root" /\ \A t \in Sessions : t # s => sess'[t] = sess[t]
    <3> DEFINE r == [pc |-> "root", seen |-> None]
    <3>1. r \in Session /\ r.pc = "root"
      BY DEF Session
    <3>2. sess' = [sess EXCEPT ![s] = r]
      BY <1>2 DEF MountRoot
    <3> HIDE DEF r
    <3> QED
      BY <1>0, <3>1, <3>2, SessMoves
  <2>2. /\ mounts' # {} /\ "dirs" \in mounts'
        /\ mounts # {} => mounts' = mounts \cup {"dirs"} /\ source' = source
        /\ mounts = {} => mounts' = {"root", "dirs"} /\ source' = sess[s].seen
    BY <1>0, <1>2, RootKept DEF MountRoot, SessOK, Session
  <2>3. mounts = Groups => mounts' = Groups
    BY <2>2 DEF Groups
  <2>w. World'
    BY <1>0, <1>2, <2>1, <2>2, <2>3 DEF World, InsideHolds, MountRoot
  <2>g. Gone'
    BY <1>0, <1>2, <2>1, <2>2, <2>3 DEF Gone, MountRoot
  <2>t. ASSUME ~torn' PROVE Tree'
    <3>0. /\ ~torn /\ NoneAtWork /\ NobodyYet /\ (\A p \in Ops : Built(p)) /\ SettledTree
          /\ PresentWhole
      BY <1>0, <1>2, <2>1, <2>2, <2>3, <2>t DEF Tree, MountRoot
    <3>1. NoneAtWork'
      BY <1>0, <1>2, <2>1, <2>2, <2>3, <3>0 DEF NoneAtWork, MountRoot
    <3>2. NobodyYet'
      BY <1>0, <1>2, <2>1, <2>2, <2>3, <3>0 DEF NobodyYet, MountRoot
    <3>3. (\A p \in Ops : Built(p))'
      BY <1>0, <1>2, <2>1, <2>2, <2>3, <3>0 DEF NobodyYet, MountRoot
    <3>4. SettledTree'
      BY <1>0, <1>2, <2>1, <2>2, <2>3, <3>0 DEF SettledTree, Settled, Waiting, MountRoot
    <3>5. PresentWhole'
      BY <1>0, <1>2, <2>1, <2>2, <2>3, <3>0 DEF PresentWhole, SettledTree, Settled, Waiting,
         Whole, MountRoot
    <3> QED
      BY <3>1, <3>2, <3>3, <3>4, <3>5 DEF Tree
  <2> QED
    BY <2>w, <2>g, <2>t DEF EnvInvariant, Tree
<1>3. CASE MountRuntime(s)
  <2>1. sess'[s].pc = "mounted" /\ sess'[s].seen = sess[s].seen /\ \A t \in Sessions : t # s => sess'[t] = sess[t]
    BY <1>0, <1>3, SessGoes DEF MountRuntime
  <2>2. mounts' = mounts \cup {"runtime"} /\ (mounts = Groups => mounts' = Groups)
    BY <1>3 DEF MountRuntime, Groups
  <2>3. "root" \in mounts /\ "dirs" \in mounts => mounts' = Groups
    BY <1>0, <2>2 DEF TreeOK, Groups
  <2>w. World'
    BY <1>0, <1>3, <2>1, <2>2, <2>3 DEF World, InsideHolds, MountRuntime
  <2>g. Gone'
    BY <1>0, <1>3, <2>1, <2>2, <2>3 DEF Gone, MountRuntime
  <2>t. ASSUME ~torn' PROVE Tree'
    <3>0. /\ ~torn /\ NoneAtWork /\ NobodyYet /\ (\A p \in Ops : Built(p)) /\ SettledTree
          /\ PresentWhole
      BY <1>0, <1>3, <2>1, <2>2, <2>3, <2>t DEF Tree, MountRuntime
    <3>1. NoneAtWork'
      BY <1>0, <1>3, <2>1, <2>2, <2>3, <3>0 DEF NoneAtWork, MountRuntime
    <3>2. NobodyYet'
      BY <1>0, <1>3, <2>1, <2>2, <2>3, <3>0 DEF NobodyYet, MountRuntime
    <3>3. (\A p \in Ops : Built(p))'
      BY <1>0, <1>3, <2>1, <2>2, <2>3, <3>0 DEF NobodyYet, MountRuntime
    <3>4. SettledTree'
      BY <1>0, <1>3, <2>1, <2>2, <2>3, <3>0 DEF SettledTree, Settled, Waiting, MountRuntime
    <3>5. PresentWhole'
      BY <1>0, <1>3, <2>1, <2>2, <2>3, <3>0 DEF PresentWhole, SettledTree, Settled, Waiting,
         Whole, MountRuntime
    <3> QED
      BY <3>1, <3>2, <3>3, <3>4, <3>5 DEF Tree
  <2> QED
    BY <2>w, <2>g, <2>t DEF EnvInvariant, Tree
<1>4. CASE Recheck(s)
  <2>1. sess'[s].pc = "clear" /\ sess'[s].seen = sess[s].seen /\ \A t \in Sessions : t # s => sess'[t] = sess[t]
    BY <1>0, <1>4, SessGoes DEF Recheck
  <2>w. World'
    BY <1>0, <1>4, <2>1 DEF World, InsideHolds, Recheck, InFlight
  <2>g. Gone'
    BY <1>0, <1>4, <2>1 DEF Gone, Recheck, InFlight
  <2>t. ASSUME ~torn' PROVE Tree'
    <3>0. /\ ~torn /\ NoneAtWork /\ NobodyYet /\ (\A p \in Ops : Built(p)) /\ SettledTree
          /\ PresentWhole
      BY <1>0, <1>4, <2>1, <2>t DEF Tree, Recheck, InFlight
    <3>1. NoneAtWork'
      BY <1>0, <1>4, <2>1, <3>0 DEF NoneAtWork, Recheck, InFlight
    <3>2. NobodyYet'
      BY <1>0, <1>4, <2>1, <3>0 DEF NobodyYet, Recheck, InFlight
    <3>3. (\A p \in Ops : Built(p))'
      BY <1>0, <1>4, <2>1, <3>0 DEF Recheck, InFlight
    <3>4. SettledTree'
      BY <1>0, <1>4, <2>1, <3>0 DEF SettledTree, Settled, Waiting, Recheck, InFlight
    <3>5. PresentWhole'
      BY <1>0, <1>4, <2>1, <3>0 DEF PresentWhole, SettledTree, Settled, Waiting, Whole, Recheck,
         InFlight
    <3> QED
      BY <3>1, <3>2, <3>3, <3>4, <3>5 DEF Tree
  <2> QED
    BY <2>w, <2>g, <2>t DEF EnvInvariant, Tree
<1>5. CASE Refused(s)
  <2>1. sess'[s].pc = "out" /\ \A t \in Sessions : t # s => sess'[t] = sess[t]
    BY <1>0, <1>5, SessLeaves DEF Refused
  <2>w. World'
    BY <1>0, <1>5, <2>1 DEF World, InsideHolds, Refused
  <2>g. Gone'
    BY <1>0, <1>5, <2>1 DEF Gone, Refused
  <2>t. ASSUME ~torn' PROVE Tree'
    <3>0. /\ ~torn /\ NoneAtWork /\ NobodyYet /\ (\A p \in Ops : Built(p)) /\ SettledTree
          /\ PresentWhole
      BY <1>0, <1>5, <2>1, <2>t DEF Tree, Refused
    <3>1. NoneAtWork'
      BY <1>0, <1>5, <2>1, <3>0 DEF NoneAtWork, Refused
    <3>2. NobodyYet'
      BY <1>0, <1>5, <2>1, <3>0 DEF NobodyYet, Refused
    <3>3. (\A p \in Ops : Built(p))'
      BY <1>0, <1>5, <2>1, <3>0 DEF Refused
    <3>4. SettledTree'
      BY <1>0, <1>5, <2>1, <3>0 DEF SettledTree, Settled, Waiting, Refused
    <3>5. PresentWhole'
      BY <1>0, <1>5, <2>1, <3>0 DEF PresentWhole, SettledTree, Settled, Waiting, Whole, Refused
    <3> QED
      BY <3>1, <3>2, <3>3, <3>4, <3>5 DEF Tree
  <2> QED
    BY <2>w, <2>g, <2>t DEF EnvInvariant, Tree
<1>6. CASE Enter(s)
  <2>1. sess'[s].pc = "in" /\ sess'[s].seen = sess[s].seen /\ \A t \in Sessions : t # s => sess'[t] = sess[t]
    BY <1>0, <1>6, SessGoes DEF Enter
  <2>w. World'
    BY <1>0, <1>6, <2>1 DEF World, InsideHolds, Enter
  <2>g. Gone'
    BY <1>0, <1>6, <2>1 DEF Gone, Enter
  <2>t. ASSUME ~torn' PROVE Tree'
    <3>0. /\ ~torn /\ NoneAtWork /\ NobodyYet /\ (\A p \in Ops : Built(p)) /\ SettledTree
          /\ PresentWhole
      BY <1>0, <1>6, <2>1, <2>t DEF Tree, Enter
    <3>1. NoneAtWork'
      BY <1>0, <1>6, <2>1, <3>0 DEF NoneAtWork, Enter
    <3>2. NobodyYet'
      BY <1>0, <1>6, <2>1, <3>0 DEF NobodyYet, Enter
    <3>3. (\A p \in Ops : Built(p))'
      BY <1>0, <1>6, <2>1, <3>0 DEF Enter
    <3>4. SettledTree'
      BY <1>0, <1>6, <2>1, <3>0 DEF SettledTree, Settled, Waiting, Enter
    <3>5. PresentWhole'
      BY <1>0, <1>6, <2>1, <3>0 DEF PresentWhole, SettledTree, Settled, Waiting, Whole, Enter
    <3> QED
      BY <3>1, <3>2, <3>3, <3>4, <3>5 DEF Tree
  <2> QED
    BY <2>w, <2>g, <2>t DEF EnvInvariant, Tree
<1>7. CASE Exit(s)
  <2>1. sess'[s].pc = "out" /\ \A t \in Sessions : t # s => sess'[t] = sess[t]
    BY <1>0, <1>7, SessLeaves DEF Exit
  <2>w. World'
    BY <1>0, <1>7, <2>1 DEF World, InsideHolds, Exit
  <2>g. Gone'
    BY <1>0, <1>7, <2>1 DEF Gone, Exit
  <2>t. ASSUME ~torn' PROVE Tree'
    <3>0. /\ ~torn /\ NoneAtWork /\ NobodyYet /\ (\A p \in Ops : Built(p)) /\ SettledTree
          /\ PresentWhole
      BY <1>0, <1>7, <2>1, <2>t DEF Tree, Exit
    <3>1. NoneAtWork'
      BY <1>0, <1>7, <2>1, <3>0 DEF NoneAtWork, Exit
    <3>2. NobodyYet'
      BY <1>0, <1>7, <2>1, <3>0 DEF NobodyYet, Exit
    <3>3. (\A p \in Ops : Built(p))'
      BY <1>0, <1>7, <2>1, <3>0 DEF Exit
    <3>4. SettledTree'
      BY <1>0, <1>7, <2>1, <3>0 DEF SettledTree, Settled, Waiting, Exit
    <3>5. PresentWhole'
      BY <1>0, <1>7, <2>1, <3>0 DEF PresentWhole, SettledTree, Settled, Waiting, Whole, Exit
    <3> QED
      BY <3>1, <3>2, <3>3, <3>4, <3>5 DEF Tree
  <2> QED
    BY <2>w, <2>g, <2>t DEF EnvInvariant, Tree
<1> QED
  BY <1>1, <1>2, <1>3, <1>4, <1>5, <1>6, <1>7 DEF SessionStep

\* An op ends and leaves the env as it is.
LEMMA OpLeaves ==
  ASSUME Typed, EnvInvariant, \A p \in Ops : op'[p] = Idle, ~torn' => ~torn,
         UNCHANGED <<status, base, dir, mounts, source, link, sess>>
  PROVE  EnvInvariant'
<1>0. FileOK /\ TreeOK /\ OpsOK /\ SessOK /\ World /\ Gone /\ Tree
  BY DEF Typed, EnvInvariant
<1> USE DEF Named, Built, AtRebase, AtCreate, Present, Saving
<1>i. Idle.pc = "idle" /\ Idle.kind = "none"
  BY IdleShape
<1>1. ~Waiting'
  BY <1>i DEF Waiting
<1>2. Settled' => Settled
  BY <1>1 DEF Settled
<1> HIDE DEF Named
<1>w. World'
  <2>1. \A p \in Ops : Named(p)'
    BY <1>i DEF Named
  <2> QED
    BY <1>0, <2>1 DEF World, InsideHolds
<1>g. Gone'
  BY <1>0 DEF Gone
<1>t. ASSUME ~torn' PROVE Tree'
  <2>0. /\ ~torn /\ NoneAtWork /\ NobodyYet /\ (\A p \in Ops : Built(p)) /\ SettledTree
        /\ PresentWhole
    BY <1>0, <1>t DEF Tree
  <2>1. NoneAtWork' /\ NobodyYet'
    BY <1>i, <2>0 DEF NoneAtWork, NobodyYet
  <2>2. (\A p \in Ops : Built(p))'
    BY <1>i
  <2>3. SettledTree'
    BY <1>2, <2>0 DEF SettledTree
  <2>4. PresentWhole'
    BY <2>0 DEF PresentWhole, Whole
  <2> QED
    BY <2>1, <2>2, <2>3, <2>4 DEF Tree
<1> QED
  BY <1>w, <1>g, <1>t DEF EnvInvariant, Tree

LEMMA OpEnv ==
  ASSUME Typed, EnvInvariant, NEW o \in Ops,
         OpStep(o) \/ CreateFails(o) \/ RebaseInterrupted(o) \/ RebaseFails(o) \/ OpDies(o)
  PROVE  EnvInvariant'
<1>0. FileOK /\ TreeOK /\ OpsOK /\ SessOK /\ World /\ Gone /\ Tree
  BY DEF Typed, EnvInvariant
<1> USE DEF Named, Built, AtRebase, AtCreate, Present, Saving
<1>k. op[o].pc # "idle" => op[o] # Idle
  BY IdleShape
<1>i. Idle.pc = "idle" /\ Idle.kind = "none"
  BY IdleShape
<1>t. /\ op[o].target \in Bases \cup {None}
      /\ (op[o].kind = "rebase" => op[o].entry[1] \in {"ready", "rebasing"})
  BY <1>0 DEF OpsOK, Op, Shaped, Idle
<1>m. mounts = Groups <=> "root" \in mounts /\ "dirs" \in mounts /\ "runtime" \in mounts
  BY <1>0, GroupsWhole DEF TreeOK
<1>1. CASE CreateProvision(o)
  <2>1. /\ op'[o].kind = op[o].kind /\ op'[o].pc = "mount" /\ op'[o].entry = op[o].entry
        /\ op'[o].target = op[o].target /\ \A p \in Ops : p # o => op[p] = Idle /\ op'[p] = Idle
    BY <1>0, <1>k, <1>1, OpSteps DEF CreateProvision, At, CreatePcs, RebasePcs
  <2>w. World'
    BY <1>0, <1>1, <2>1, <1>i DEF World, InsideHolds, CreateProvision, At, CreateSave
  <2>g. Gone'
    BY <1>0, <1>1, <2>1, <1>i DEF Gone, CreateProvision, At, CreateSave
  <2>t. ASSUME ~torn' PROVE Tree'
    <3>0. /\ ~torn /\ NoneAtWork /\ NobodyYet /\ (\A p \in Ops : Built(p)) /\ SettledTree
          /\ PresentWhole
      BY <1>0, <1>1, <2>1, <1>i, <2>t DEF Tree, CreateProvision, At, CreateSave
    <3>1. NoneAtWork'
      BY <1>0, <1>1, <2>1, <1>i, <3>0 DEF NoneAtWork, CreateProvision, At, CreateSave
    <3>2. NobodyYet'
      BY <1>0, <1>1, <2>1, <1>i, <3>0 DEF NobodyYet, CreateProvision, At, CreateSave
    <3>3. (\A p \in Ops : Built(p))'
      BY <1>0, <1>1, <2>1, <1>i, <3>0 DEF CreateProvision, At, CreateSave
    <3>4. SettledTree'
      BY <1>0, <1>1, <2>1, <1>i, <3>0 DEF SettledTree, Settled, Waiting, CreateProvision, At,
         CreateSave
    <3>5. PresentWhole'
      BY <1>0, <1>1, <2>1, <1>i, <3>0 DEF PresentWhole, SettledTree, Settled, Waiting, Whole,
         CreateProvision, At, CreateSave
    <3> QED
      BY <3>1, <3>2, <3>3, <3>4, <3>5 DEF Tree
  <2> QED
    BY <2>w, <2>g, <2>t DEF EnvInvariant, Tree
<1>2. CASE CreateMount(o)
  <2>1. /\ op'[o].kind = op[o].kind /\ op'[o].pc = "venv" /\ op'[o].entry = op[o].entry
        /\ op'[o].target = op[o].target /\ \A p \in Ops : p # o => op[p] = Idle /\ op'[p] = Idle
    BY <1>0, <1>k, <1>2, OpSteps DEF CreateMount, At, CreatePcs, RebasePcs
  <2>2. mounts' = Groups /\ "root" \in mounts' /\ "dirs" \in mounts' /\ "runtime" \in mounts'
    BY <1>2 DEF CreateMount, Groups
  <2>w. World'
    BY <1>0, <1>2, <2>1, <2>2, <1>i DEF World, InsideHolds, CreateMount, At
  <2>g. Gone'
    BY <1>0, <1>2, <2>1, <2>2, <1>i DEF Gone, CreateMount, At
  <2>t. ASSUME ~torn' PROVE Tree'
    <3>0. /\ ~torn /\ NoneAtWork /\ NobodyYet /\ (\A p \in Ops : Built(p)) /\ SettledTree
          /\ PresentWhole
      BY <1>0, <1>2, <2>1, <2>2, <1>i, <2>t DEF Tree, CreateMount, At
    <3>1. NoneAtWork'
      BY <1>0, <1>2, <2>1, <2>2, <1>i, <3>0 DEF NoneAtWork, CreateMount, At
    <3>2. NobodyYet'
      BY <1>0, <1>2, <2>1, <2>2, <1>i, <3>0 DEF NobodyYet, CreateMount, At
    <3>3. (\A p \in Ops : Built(p))'
      BY <1>0, <1>2, <2>1, <2>2, <1>i, <3>0 DEF CreateMount, At
    <3>4. SettledTree'
      BY <1>0, <1>2, <2>1, <2>2, <1>i, <3>0 DEF SettledTree, Settled, Waiting, CreateMount, At
    <3>5. PresentWhole'
      BY <1>0, <1>2, <2>1, <2>2, <1>i, <3>0 DEF PresentWhole, SettledTree, Settled, Waiting,
         Whole, CreateMount, At
    <3> QED
      BY <3>1, <3>2, <3>3, <3>4, <3>5 DEF Tree
  <2> QED
    BY <2>w, <2>g, <2>t DEF EnvInvariant, Tree
<1>3. CASE CreateReady(o)
  <2>1. /\ op'[o].kind = op[o].kind /\ op'[o].pc = "compose" /\ op'[o].entry = op[o].entry
        /\ op'[o].target = op[o].target /\ \A p \in Ops : p # o => op[p] = Idle /\ op'[p] = Idle
    BY <1>0, <1>k, <1>3, OpSteps DEF CreateReady, At, CreatePcs, RebasePcs
  <2>w. World'
    BY <1>0, <1>3, <2>1, <1>i, <1>m DEF World, InsideHolds, CreateReady, At, CreateSave
  <2>g. Gone'
    BY <1>0, <1>3, <2>1, <1>i, <1>m DEF Gone, CreateReady, At, CreateSave
  <2>t. ASSUME ~torn' PROVE Tree'
    <3>0. /\ ~torn /\ NoneAtWork /\ NobodyYet /\ (\A p \in Ops : Built(p)) /\ SettledTree
          /\ PresentWhole
      BY <1>0, <1>3, <2>1, <1>i, <1>m, <2>t DEF Tree, CreateReady, At, CreateSave
    <3>1. NoneAtWork'
      BY <1>0, <1>3, <2>1, <1>i, <1>m, <3>0 DEF NoneAtWork, CreateReady, At, CreateSave
    <3>2. NobodyYet'
      BY <1>0, <1>3, <2>1, <1>i, <1>m, <3>0 DEF NobodyYet, CreateReady, At, CreateSave
    <3>3. (\A p \in Ops : Built(p))'
      BY <1>0, <1>3, <2>1, <1>i, <1>m, <3>0 DEF CreateReady, At, CreateSave
    <3>4. SettledTree'
      BY <1>0, <1>3, <2>1, <1>i, <1>m, <3>0 DEF SettledTree, Settled, Waiting, CreateReady, At,
         CreateSave
    <3>5. PresentWhole'
      BY <1>0, <1>3, <2>1, <1>i, <1>m, <3>0 DEF PresentWhole, SettledTree, Settled, Waiting,
         Whole, CreateReady, At, CreateSave
    <3> QED
      BY <3>1, <3>2, <3>3, <3>4, <3>5 DEF Tree
  <2> QED
    BY <2>w, <2>g, <2>t DEF EnvInvariant, Tree
<1>4. CASE CreateDone(o)
  <2>1. \A p \in Ops : op'[p] = Idle
    BY <1>0, <1>k, <1>4, OpEnds DEF CreateDone, At, Release
  <2>w. World'
    BY <1>0, <1>4, <2>1, <1>i DEF World, InsideHolds, CreateDone, At, CreateSave
  <2>g. Gone'
    BY <1>0, <1>4, <2>1, <1>i DEF Gone, CreateDone, At, CreateSave
  <2>t. ASSUME ~torn' PROVE Tree'
    <3>0. /\ ~torn /\ NoneAtWork /\ NobodyYet /\ (\A p \in Ops : Built(p)) /\ SettledTree
          /\ PresentWhole
      BY <1>0, <1>4, <2>1, <1>i, <2>t DEF Tree, CreateDone, At, CreateSave
    <3>1. NoneAtWork'
      BY <1>0, <1>4, <2>1, <1>i, <3>0 DEF NoneAtWork, CreateDone, At, CreateSave
    <3>2. NobodyYet'
      BY <1>0, <1>4, <2>1, <1>i, <3>0 DEF NobodyYet, CreateDone, At, CreateSave
    <3>3. (\A p \in Ops : Built(p))'
      BY <1>0, <1>4, <2>1, <1>i, <3>0 DEF CreateDone, At, CreateSave
    <3>4. SettledTree'
      BY <1>0, <1>4, <2>1, <1>i, <3>0 DEF SettledTree, Settled, Waiting, CreateDone, At, CreateSave
    <3>5. PresentWhole'
      BY <1>0, <1>4, <2>1, <1>i, <3>0 DEF PresentWhole, SettledTree, Settled, Waiting, Whole,
         CreateDone, At, CreateSave
    <3> QED
      BY <3>1, <3>2, <3>3, <3>4, <3>5 DEF Tree
  <2> QED
    BY <2>w, <2>g, <2>t DEF EnvInvariant, Tree
<1>5. CASE CreateFails(o)
  <2>1. \A p \in Ops : op'[p] = Idle
    BY <1>0, <1>k, <1>5, OpEnds DEF CreateFails, At, Release
  <2>w. World'
    BY <1>0, <1>5, <2>1, <1>i DEF World, InsideHolds, CreateFails, At, CreateSave
  <2>g. Gone'
    BY <1>0, <1>5, <2>1, <1>i DEF Gone, CreateFails, At, CreateSave
  <2>t. ASSUME ~torn' PROVE Tree'
    <3>0. /\ ~torn /\ NoneAtWork /\ NobodyYet /\ (\A p \in Ops : Built(p)) /\ SettledTree
          /\ PresentWhole
      BY <1>0, <1>5, <2>1, <1>i, <2>t DEF Tree, CreateFails, At, CreateSave
    <3>1. NoneAtWork'
      BY <1>0, <1>5, <2>1, <1>i, <3>0 DEF NoneAtWork, CreateFails, At, CreateSave
    <3>2. NobodyYet'
      BY <1>0, <1>5, <2>1, <1>i, <3>0 DEF NobodyYet, CreateFails, At, CreateSave
    <3>3. (\A p \in Ops : Built(p))'
      BY <1>0, <1>5, <2>1, <1>i, <3>0 DEF CreateFails, At, CreateSave
    <3>4. SettledTree'
      BY <1>0, <1>5, <2>1, <1>i, <3>0 DEF SettledTree, Settled, Waiting, CreateFails, At, CreateSave
    <3>5. PresentWhole'
      BY <1>0, <1>5, <2>1, <1>i, <3>0 DEF PresentWhole, SettledTree, Settled, Waiting, Whole,
         CreateFails, At, CreateSave
    <3> QED
      BY <3>1, <3>2, <3>3, <3>4, <3>5 DEF Tree
  <2> QED
    BY <2>w, <2>g, <2>t DEF EnvInvariant, Tree
<1>e. ASSUME Release(o) \/ (op' = [op EXCEPT ![o] = Idle] /\ lock' = Orphan),
            op[o].pc # "idle", ~torn' => ~torn,
            UNCHANGED <<status, base, dir, mounts, source, link, sess>>
      PROVE EnvInvariant'
  <2>1. \A p \in Ops : op'[p] = Idle
    BY <1>0, <1>k, <1>e, OpEnds DEF Release
  <2> QED
    BY <1>e, <2>1, OpLeaves
<1>r. ASSUME op[o].kind = "rebase", op[o].pc # "idle", NEW pc \in RebasePcs, Step(o, pc)
      PROVE /\ op'[o].kind = op[o].kind /\ op'[o].pc = pc /\ op'[o].entry = op[o].entry
            /\ op'[o].target = op[o].target /\ \A p \in Ops : p # o => op[p] = Idle /\ op'[p] = Idle
  BY <1>0, <1>k, <1>r, OpSteps
<1>23. CASE RebaseAsk(o) /\ Step(o, "provision")
  <2>0. op[o].kind = "rebase" /\ op[o].pc # "idle" /\ Step(o, "provision") /\ UNCHANGED <<status, base, dir, mounts, source, link, sess, torn, late>>
    BY <1>23 DEF RebaseAsk, At
  <2>1. /\ op'[o].kind = op[o].kind /\ op'[o].pc = "provision" /\ op'[o].entry = op[o].entry
        /\ op'[o].target = op[o].target /\ \A p \in Ops : p # o => op[p] = Idle /\ op'[p] = Idle
    BY <2>0, <1>r DEF RebasePcs
  <2>w. World'
    BY <1>0, <2>0, <2>1, <1>i DEF World, InsideHolds
  <2>g. Gone'
    BY <1>0, <2>0, <2>1, <1>i DEF Gone
  <2>t. ASSUME ~torn' PROVE Tree'
    <3>0. /\ ~torn /\ NoneAtWork /\ NobodyYet /\ (\A p \in Ops : Built(p)) /\ SettledTree
          /\ PresentWhole
      BY <1>0, <2>0, <2>1, <1>i, <2>t DEF Tree
    <3>1. NoneAtWork'
      BY <1>0, <2>0, <2>1, <1>i, <3>0 DEF NoneAtWork
    <3>2. NobodyYet'
      BY <1>0, <2>0, <2>1, <1>i, <3>0 DEF NobodyYet
    <3>3. (\A p \in Ops : Built(p))'
      BY <1>0, <2>0, <2>1, <1>i, <3>0
    <3>4. SettledTree'
      BY <1>0, <2>0, <2>1, <1>i, <3>0 DEF SettledTree, Settled, Waiting
    <3>5. PresentWhole'
      BY <1>0, <2>0, <2>1, <1>i, <3>0 DEF PresentWhole, SettledTree, Settled, Waiting, Whole
    <3> QED
      BY <3>1, <3>2, <3>3, <3>4, <3>5 DEF Tree
  <2> QED
    BY <2>w, <2>g, <2>t DEF EnvInvariant, Tree
<1>24. CASE RebaseAsk(o) /\ Release(o)
  <2>1. /\ UNCHANGED <<status, base, dir, mounts, source, link, sess>> /\ (~torn' => ~torn)
        /\ Release(o) \/ (op' = [op EXCEPT ![o] = Idle] /\ lock' = Orphan)
        /\ op[o].pc # "idle"
    BY <1>24 DEF RebaseAsk, At
  <2> QED
    BY <1>e, <2>1
<1>6. CASE RebaseProvision(o)
  <2>1. /\ op'[o].kind = op[o].kind /\ op'[o].pc = "mark" /\ op'[o].entry = op[o].entry
        /\ op'[o].target = op[o].target /\ \A p \in Ops : p # o => op[p] = Idle /\ op'[p] = Idle
    BY <1>0, <1>k, <1>6, OpSteps DEF RebaseProvision, At, CreatePcs, RebasePcs
  <2>w. World'
    BY <1>0, <1>6, <2>1, <1>i DEF World, InsideHolds, RebaseProvision, At
  <2>g. Gone'
    BY <1>0, <1>6, <2>1, <1>i DEF Gone, RebaseProvision, At
  <2>t. ASSUME ~torn' PROVE Tree'
    <3>0. /\ ~torn /\ NoneAtWork /\ NobodyYet /\ (\A p \in Ops : Built(p)) /\ SettledTree
          /\ PresentWhole
      BY <1>0, <1>6, <2>1, <1>i, <2>t DEF Tree, RebaseProvision, At
    <3>1. NoneAtWork'
      BY <1>0, <1>6, <2>1, <1>i, <3>0 DEF NoneAtWork, RebaseProvision, At
    <3>2. NobodyYet'
      BY <1>0, <1>6, <2>1, <1>i, <3>0 DEF NobodyYet, RebaseProvision, At
    <3>3. (\A p \in Ops : Built(p))'
      BY <1>0, <1>6, <2>1, <1>i, <3>0 DEF RebaseProvision, At
    <3>4. SettledTree'
      BY <1>0, <1>6, <2>1, <1>i, <3>0 DEF SettledTree, Settled, Waiting, RebaseProvision, At
    <3>5. PresentWhole'
      BY <1>0, <1>6, <2>1, <1>i, <3>0 DEF PresentWhole, SettledTree, Settled, Waiting, Whole,
         RebaseProvision, At
    <3> QED
      BY <3>1, <3>2, <3>3, <3>4, <3>5 DEF Tree
  <2> QED
    BY <2>w, <2>g, <2>t DEF EnvInvariant, Tree
<1>7. CASE RebaseMark(o) /\ Step(o, "marking")
  <2>0. op[o].kind = "rebase" /\ op[o].pc # "idle" /\ Step(o, "marking") /\ UNCHANGED <<status, base, dir, mounts, source, link, sess, torn, late>>
    BY <1>7 DEF RebaseMark, At
  <2>1. /\ op'[o].kind = op[o].kind /\ op'[o].pc = "marking" /\ op'[o].entry = op[o].entry
        /\ op'[o].target = op[o].target /\ \A p \in Ops : p # o => op[p] = Idle /\ op'[p] = Idle
    BY <2>0, <1>r DEF RebasePcs
  <2>2. <<status, base>> = op[o].entry /\ status \in {"ready", "rebasing"}
    <3>1. CASE Release(o)
      BY <1>0, <2>0, <2>1, <3>1, <1>i DEF Release, OpsOK
    <3>2. CASE <<status, base>> = op[o].entry
      BY <1>t, <2>0, <3>2
    <3> QED
      BY <1>7, <3>1, <3>2 DEF RebaseMark
  <2>w. World'
    BY <1>0, <2>0, <2>1, <2>2, <1>i DEF World, InsideHolds
  <2>g. Gone'
    BY <1>0, <2>0, <2>1, <2>2, <1>i DEF Gone
  <2>t. ASSUME ~torn' PROVE Tree'
    <3>0. /\ ~torn /\ NoneAtWork /\ NobodyYet /\ (\A p \in Ops : Built(p)) /\ SettledTree
          /\ PresentWhole
      BY <1>0, <2>0, <2>1, <2>2, <1>i, <2>t DEF Tree
    <3>1. NoneAtWork'
      BY <1>0, <2>0, <2>1, <2>2, <1>i, <3>0 DEF NoneAtWork
    <3>2. NobodyYet'
      BY <1>0, <2>0, <2>1, <2>2, <1>i, <3>0 DEF NobodyYet
    <3>3. (\A p \in Ops : Built(p))'
      BY <1>0, <2>0, <2>1, <2>2, <1>i, <3>0
    <3>4. SettledTree'
      BY <1>0, <2>0, <2>1, <2>2, <1>i, <3>0 DEF SettledTree, Settled, Waiting
    <3>5. PresentWhole'
      BY <1>0, <2>0, <2>1, <2>2, <1>i, <3>0 DEF PresentWhole, SettledTree, Settled, Waiting, Whole
    <3> QED
      BY <3>1, <3>2, <3>3, <3>4, <3>5 DEF Tree
  <2> QED
    BY <2>w, <2>g, <2>t DEF EnvInvariant, Tree
<1>17. CASE RebaseMark(o) /\ Release(o)
  <2>1. /\ UNCHANGED <<status, base, dir, mounts, source, link, sess>> /\ (~torn' => ~torn)
        /\ Release(o) \/ (op' = [op EXCEPT ![o] = Idle] /\ lock' = Orphan)
        /\ op[o].pc # "idle"
    BY <1>17 DEF RebaseMark, At
  <2> QED
    BY <1>e, <2>1
<1>18. CASE RebaseMarked(o) /\ Replace("rebasing", op[o].entry[2]) /\ Step(o, "grace")
  <2>0. /\ op[o].kind = "rebase" /\ op[o].pc = "marking" /\ Step(o, "grace")
        /\ UNCHANGED <<mounts, source, link, sess, torn, late>>
        /\ status' = "rebasing" /\ base' = op[o].entry[2] /\ dir' = TRUE
    BY <1>18 DEF RebaseMarked, At, Replace
  <2>1. /\ op'[o].kind = op[o].kind /\ op'[o].pc = "grace" /\ op'[o].entry = op[o].entry
        /\ op'[o].target = op[o].target /\ \A p \in Ops : p # o => op[p] = Idle /\ op'[p] = Idle
    BY <2>0, <1>r DEF RebasePcs
  <2>2. status = "none" \/ (status = op[o].entry[1] /\ base = op[o].entry[2])
    BY <1>0, <2>0 DEF World
  <2>4. ~torn => status \in {"ready", "rebasing"} /\ base' = base /\ status = op[o].entry[1]
    BY <1>0, <1>t, <2>0, <2>2 DEF Tree, NoneAtWork
  <2>3. ~torn => \A s \in Sessions : Present(s) => Whole
    <3> SUFFICES ASSUME ~torn, NEW s \in Sessions, Present(s) PROVE Whole
      OBVIOUS
    <3>1. SettledTree /\ PresentWhole
      BY <1>0 DEF Tree
    <3>2. CASE status = "rebasing"
      BY <3>1, <3>2 DEF PresentWhole
    <3>3. CASE status = "ready"
      <4>1. mounts = Groups
        BY <3>1, <3>3 DEF SettledTree, Settled
      <4>2. source = base
        BY <3>1, <3>3, <4>1 DEF SettledTree, Settled, Groups
      <4> QED
        BY <4>1, <4>2 DEF Whole
    <3> QED
      BY <2>4, <3>2, <3>3
  <2>w. World'
    BY <1>0, <2>0, <2>1, <2>2, <2>3, <2>4, <1>i, <1>t DEF World, InsideHolds
  <2>g. Gone'
    BY <1>0, <2>0, <2>1, <2>2, <2>3, <2>4, <1>i, <1>t DEF Gone
  <2>t. ASSUME ~torn' PROVE Tree'
    <3>0. /\ ~torn /\ NoneAtWork /\ NobodyYet /\ (\A p \in Ops : Built(p)) /\ SettledTree
          /\ PresentWhole
      BY <1>0, <2>0, <2>1, <2>2, <2>3, <2>4, <1>i, <1>t, <2>t DEF Tree
    <3>1. NoneAtWork'
      BY <1>0, <2>0, <2>1, <2>2, <2>3, <2>4, <1>i, <1>t, <3>0 DEF NoneAtWork
    <3>2. NobodyYet'
      BY <1>0, <2>0, <2>1, <2>2, <2>3, <2>4, <1>i, <1>t, <3>0 DEF NobodyYet
    <3>3. (\A p \in Ops : Built(p))'
      BY <1>0, <2>0, <2>1, <2>2, <2>3, <2>4, <1>i, <1>t, <3>0
    <3>4. SettledTree'
      BY <1>0, <2>0, <2>1, <2>2, <2>3, <2>4, <1>i, <1>t, <3>0 DEF SettledTree, Settled, Waiting
    <3>5. PresentWhole'
      BY <1>0, <2>0, <2>1, <2>2, <2>3, <2>4, <1>i, <1>t, <3>0 DEF PresentWhole, SettledTree, Settled, Waiting, Whole
    <3> QED
      BY <3>1, <3>2, <3>3, <3>4, <3>5 DEF Tree
  <2> QED
    BY <2>w, <2>g, <2>t DEF EnvInvariant, Tree
<1>19. CASE RebaseMarked(o) /\ Outrun(o)
  <2>1. /\ UNCHANGED <<status, base, dir, mounts, source, link, sess>> /\ (~torn' => ~torn)
        /\ Release(o) \/ (op' = [op EXCEPT ![o] = Idle] /\ lock' = Orphan)
        /\ op[o].pc # "idle"
    BY <1>19 DEF RebaseMarked, Outrun, At
  <2> QED
    BY <1>e, <2>1
<1>8. CASE RebaseCheckLink(o) /\ LinkIsIdle
  <2>0. /\ op[o].kind = "rebase" /\ op[o].pc = "grace" /\ Step(o, "holders") /\ link = "idle"
        /\ UNCHANGED <<status, base, dir, mounts, source, link, sess, torn, overtaken>>
        /\ \A s \in Sessions : sess[s].pc # "clear"
    BY <1>8 DEF RebaseCheckLink, LinkIsIdle, GraceOver, At
  <2>1. /\ op'[o].kind = op[o].kind /\ op'[o].pc = "holders" /\ op'[o].entry = op[o].entry
        /\ op'[o].target = op[o].target /\ \A p \in Ops : p # o => op[p] = Idle /\ op'[p] = Idle
    BY <2>0, <1>r DEF RebasePcs
  <2>w. World'
    BY <1>0, <2>0, <2>1, <1>i DEF World, InsideHolds
  <2>g. Gone'
    BY <1>0, <2>0, <2>1, <1>i DEF Gone
  <2>t. ASSUME ~torn' PROVE Tree'
    <3>0. /\ ~torn /\ NoneAtWork /\ NobodyYet /\ (\A p \in Ops : Built(p)) /\ SettledTree
          /\ PresentWhole
      BY <1>0, <2>0, <2>1, <1>i, <2>t DEF Tree
    <3>1. NoneAtWork'
      BY <1>0, <2>0, <2>1, <1>i, <3>0 DEF NoneAtWork
    <3>2. NobodyYet'
      BY <1>0, <2>0, <2>1, <1>i, <3>0 DEF NobodyYet
    <3>3. (\A p \in Ops : Built(p))'
      BY <1>0, <2>0, <2>1, <1>i, <3>0
    <3>4. SettledTree'
      BY <1>0, <2>0, <2>1, <1>i, <3>0 DEF SettledTree, Settled, Waiting
    <3>5. PresentWhole'
      BY <1>0, <2>0, <2>1, <1>i, <3>0 DEF PresentWhole, SettledTree, Settled, Waiting, Whole
    <3> QED
      BY <3>1, <3>2, <3>3, <3>4, <3>5 DEF Tree
  <2> QED
    BY <2>w, <2>g, <2>t DEF EnvInvariant, Tree
<1>25. ASSUME Step(o, "restoring"), op[o].kind = "rebase", status # "none",
             op[o].pc \in {"grace", "holders"} \/ (op[o].pc = "record" /\ torn'),
             ~torn' => ~torn, UNCHANGED <<status, base, dir, mounts, source, link, sess, overtaken>>
       PROVE EnvInvariant'
  <2>1. /\ op'[o].kind = op[o].kind /\ op'[o].pc = "restoring" /\ op'[o].entry = op[o].entry
        /\ op'[o].target = op[o].target /\ \A p \in Ops : p # o => op[p] = Idle /\ op'[p] = Idle
    BY <1>25, <1>r DEF RebasePcs
  <2>2. ~torn' /\ Settled' => Settled
    <3>1. SUFFICES ASSUME ~torn', Settled', status = "rebasing" PROVE Waiting
      BY <1>25 DEF Settled
    <3>2. PICK p \in Ops : op'[p].kind = "rebase" /\ op'[p].pc \in {"grace", "holders", "restoring"}
                           /\ op'[p].entry[1] = "ready"
      BY <1>25, <3>1 DEF Settled, Waiting
    <3>3. p = o
      BY <2>1, <3>2, <1>i
    <3> QED
      BY <1>25, <2>1, <3>1, <3>2, <3>3 DEF Waiting
  <2>w. World'
    BY <1>0, <1>25, <2>1, <1>i DEF World, InsideHolds
  <2>g. Gone'
    BY <1>0, <1>25, <2>1, <1>i DEF Gone
  <2>t. ASSUME ~torn' PROVE Tree'
    <3>0. /\ ~torn /\ NoneAtWork /\ NobodyYet /\ (\A p \in Ops : Built(p)) /\ SettledTree
          /\ PresentWhole
      BY <1>0, <1>25, <2>1, <1>i, <2>t DEF Tree
    <3>1. NoneAtWork'
      BY <1>0, <1>25, <2>1, <1>i, <3>0 DEF NoneAtWork
    <3>2. NobodyYet'
      BY <1>0, <1>25, <2>1, <1>i, <3>0 DEF NobodyYet
    <3>3. (\A p \in Ops : Built(p))'
      BY <1>0, <1>25, <2>1, <1>i, <3>0
    <3>4. SettledTree'
      BY <1>25, <2>1, <2>2, <2>t, <3>0 DEF SettledTree
    <3>5. PresentWhole'
      BY <1>0, <1>25, <2>1, <1>i, <3>0 DEF PresentWhole, SettledTree, Settled, Waiting, Whole
    <3> QED
      BY <3>1, <3>2, <3>3, <3>4, <3>5 DEF Tree
  <2> QED
    BY <2>w, <2>g, <2>t DEF EnvInvariant, Tree
<1>26. CASE RebaseCheckLink(o) /\ ~LinkIsIdle
  <2>1. CASE status # "none"
    BY <1>26, <2>1, <1>25 DEF RebaseCheckLink, GiveUp, StateIsFile, At
  <2>2. CASE status = "none"
    <3>1. \A p \in Ops : op'[p] = Idle
      BY <1>0, <1>k, <1>26, <2>2, OpEnds DEF RebaseCheckLink, GiveUp, StateIsFile, Release, At
    <3> QED
      BY <1>26, <3>1, OpLeaves DEF RebaseCheckLink
  <2> QED
    BY <2>1, <2>2
<1>27. CASE RebaseCheckHolders(o) /\ Free
  <2>0. op[o].kind = "rebase" /\ op[o].pc # "idle" /\ Step(o, "unmount") /\ UNCHANGED <<status, base, dir, mounts, source, link, sess, torn, late>>
    BY <1>27 DEF RebaseCheckHolders, At
  <2>1. /\ op'[o].kind = op[o].kind /\ op'[o].pc = "unmount" /\ op'[o].entry = op[o].entry
        /\ op'[o].target = op[o].target /\ \A p \in Ops : p # o => op[p] = Idle /\ op'[p] = Idle
    BY <2>0, <1>r DEF RebasePcs
  <2>2. op[o].pc = "holders" /\ \A s \in Sessions : sess[s].pc # "in"
    BY <1>27 DEF RebaseCheckHolders, Free, Inside, At
  <2>3. status \in {"none", "rebasing"} /\ \A s \in Sessions : ~Present(s)
    BY <1>0, <2>0, <2>2 DEF World
  <2>4. ~Settled'
    BY <1>i, <2>0, <2>1, <2>3 DEF Settled, Waiting
  <2>w. World'
    BY <1>0, <2>0, <2>1, <2>2, <2>3, <2>4, <1>i DEF World, InsideHolds
  <2>g. Gone'
    BY <1>0, <2>0, <2>1, <2>2, <2>3, <2>4, <1>i DEF Gone
  <2>t. ASSUME ~torn' PROVE Tree'
    <3>0. /\ ~torn /\ NoneAtWork /\ NobodyYet /\ (\A p \in Ops : Built(p)) /\ SettledTree
          /\ PresentWhole
      BY <1>0, <2>0, <2>1, <2>2, <2>3, <2>4, <1>i, <2>t DEF Tree
    <3>1. NoneAtWork'
      BY <1>0, <2>0, <2>1, <2>2, <2>3, <2>4, <1>i, <3>0 DEF NoneAtWork
    <3>2. NobodyYet'
      BY <1>0, <2>0, <2>1, <2>2, <2>3, <2>4, <1>i, <3>0 DEF NobodyYet
    <3>3. (\A p \in Ops : Built(p))'
      BY <1>0, <2>0, <2>1, <2>2, <2>3, <2>4, <1>i, <3>0
    <3>4. SettledTree'
      BY <1>0, <2>0, <2>1, <2>2, <2>3, <2>4, <1>i, <3>0 DEF SettledTree, Settled, Waiting
    <3>5. PresentWhole'
      BY <1>0, <2>0, <2>1, <2>2, <2>3, <2>4, <1>i, <3>0 DEF PresentWhole, SettledTree, Settled, Waiting, Whole
    <3> QED
      BY <3>1, <3>2, <3>3, <3>4, <3>5 DEF Tree
  <2> QED
    BY <2>w, <2>g, <2>t DEF EnvInvariant, Tree
<1>28. CASE RebaseCheckHolders(o) /\ ~Free
  <2>1. CASE status # "none"
    BY <1>28, <2>1, <1>25 DEF RebaseCheckHolders, GiveUp, StateIsFile, At
  <2>2. CASE status = "none"
    <3>1. \A p \in Ops : op'[p] = Idle
      BY <1>0, <1>k, <1>28, <2>2, OpEnds DEF RebaseCheckHolders, GiveUp, StateIsFile, Release, At
    <3> QED
      BY <1>28, <3>1, OpLeaves DEF RebaseCheckHolders
  <2> QED
    BY <2>1, <2>2
<1>9. CASE RebaseInterrupted(o)
  <2>1. CASE status # "none"
    BY <1>9, <2>1, <1>25 DEF RebaseInterrupted, GiveUp, StateIsFile, At
  <2>2. CASE status = "none"
    <3>1. \A p \in Ops : op'[p] = Idle
      BY <1>0, <1>k, <1>9, <2>2, OpEnds DEF RebaseInterrupted, GiveUp, StateIsFile, Release, At
    <3> QED
      BY <1>9, <3>1, OpLeaves DEF RebaseInterrupted
  <2> QED
    BY <2>1, <2>2
<1>29. CASE RebaseRestore(o) /\ Replace(op[o].entry[1], op[o].entry[2]) /\ Release(o)
  <2>0. /\ op[o].kind = "rebase" /\ op[o].pc = "restoring"
        /\ UNCHANGED <<mounts, source, link, sess, torn, late>>
        /\ status' = op[o].entry[1] /\ base' = op[o].entry[2] /\ dir' = TRUE
    BY <1>29 DEF RebaseRestore, At, Replace
  <2>1. \A p \in Ops : op'[p] = Idle
    BY <1>0, <1>k, <1>29, <2>0, OpEnds DEF Release
  <2>2. ~torn => status = "rebasing" /\ base' = base
    BY <1>0, <2>0 DEF Tree, NoneAtWork, World
  <2>4. ~torn /\ Settled' => Settled
    BY <1>i, <1>t, <2>0, <2>1, <2>2 DEF Settled, Waiting
  <2>w. World'
    BY <1>0, <2>0, <2>1, <2>2, <2>4, <1>i, <1>t DEF World, InsideHolds
  <2>g. Gone'
    BY <1>0, <2>0, <2>1, <2>2, <2>4, <1>i, <1>t DEF Gone
  <2>t. ASSUME ~torn' PROVE Tree'
    <3>0. /\ ~torn /\ NoneAtWork /\ NobodyYet /\ (\A p \in Ops : Built(p)) /\ SettledTree
          /\ PresentWhole
      BY <1>0, <2>0, <2>1, <2>2, <2>4, <1>i, <1>t, <2>t DEF Tree
    <3>1. NoneAtWork'
      BY <1>0, <2>0, <2>1, <2>2, <2>4, <1>i, <1>t, <3>0 DEF NoneAtWork
    <3>2. NobodyYet'
      BY <1>0, <2>0, <2>1, <2>2, <2>4, <1>i, <1>t, <3>0 DEF NobodyYet
    <3>3. (\A p \in Ops : Built(p))'
      BY <1>0, <2>0, <2>1, <2>2, <2>4, <1>i, <1>t, <3>0
    <3>4. SettledTree'
      BY <1>0, <2>0, <2>1, <2>2, <2>4, <1>i, <1>t, <3>0 DEF SettledTree, Settled, Waiting
    <3>5. PresentWhole'
      BY <1>0, <2>0, <2>1, <2>2, <2>4, <1>i, <1>t, <3>0 DEF PresentWhole, SettledTree, Settled, Waiting, Whole
    <3> QED
      BY <3>1, <3>2, <3>3, <3>4, <3>5 DEF Tree
  <2> QED
    BY <2>w, <2>g, <2>t DEF EnvInvariant, Tree
<1>30. CASE RebaseRestore(o) /\ Outrun(o)
  <2>1. /\ UNCHANGED <<status, base, dir, mounts, source, link, sess>> /\ (~torn' => ~torn)
        /\ Release(o) \/ (op' = [op EXCEPT ![o] = Idle] /\ lock' = Orphan)
        /\ op[o].pc # "idle"
    BY <1>30 DEF RebaseRestore, Outrun, At
  <2> QED
    BY <1>e, <2>1
<1>10. CASE RebaseUnmount(o)
  <2>1. /\ op'[o].kind = op[o].kind /\ op'[o].pc = "record" /\ op'[o].entry = op[o].entry
        /\ op'[o].target = op[o].target /\ \A p \in Ops : p # o => op[p] = Idle /\ op'[p] = Idle
    BY <1>0, <1>k, <1>10, OpSteps DEF RebaseUnmount, At, CreatePcs, RebasePcs
  <2>2. Inside = {}
    BY <1>0, <1>10 DEF RebaseUnmount, At, World, Inside
  <2>3. mounts' = {}
    BY <1>0, <1>10, <2>2, Unmounted DEF RebaseUnmount
  <2>4. At(o, "rebase", "unmount") /\ UNCHANGED <<status, base, dir, link, sess, torn, late>>
    BY <1>10 DEF RebaseUnmount
  <2>5. status \in {"none", "rebasing"}
    BY <1>0, <2>4 DEF World, At
  <2>6. ~Settled'
    BY <1>i, <2>1, <2>4, <2>5 DEF Settled, Waiting
  <2>7. \A s \in Sessions : ~Present(s)
    BY <1>0, <2>4 DEF World, At
  <2>w. World'
    BY <1>0, <1>10, <2>1, <2>2, <2>3, <2>4, <2>5, <2>6, <2>7, <1>i DEF World, InsideHolds, At
  <2>g. Gone'
    BY <1>0, <1>10, <2>1, <2>2, <2>3, <2>4, <2>5, <2>6, <2>7, <1>i DEF Gone, At
  <2>t. ASSUME ~torn' PROVE Tree'
    <3>0. /\ ~torn /\ NoneAtWork /\ NobodyYet /\ (\A p \in Ops : Built(p)) /\ SettledTree
          /\ PresentWhole
      BY <1>0, <1>10, <2>1, <2>2, <2>3, <2>4, <2>5, <2>6, <2>7, <1>i, <2>t DEF Tree, At
    <3>1. NoneAtWork'
      BY <1>0, <1>10, <2>1, <2>2, <2>3, <2>4, <2>5, <2>6, <2>7, <1>i, <3>0 DEF NoneAtWork, At
    <3>2. NobodyYet'
      BY <1>0, <1>10, <2>1, <2>2, <2>3, <2>4, <2>5, <2>6, <2>7, <1>i, <3>0 DEF NobodyYet, At
    <3>3. (\A p \in Ops : Built(p))'
      BY <1>0, <1>10, <2>1, <2>2, <2>3, <2>4, <2>5, <2>6, <2>7, <1>i, <3>0 DEF At
    <3>4. SettledTree'
      BY <1>0, <1>10, <2>1, <2>2, <2>3, <2>4, <2>5, <2>6, <2>7, <1>i, <3>0
         DEF SettledTree, Settled, Waiting, At
    <3>5. PresentWhole'
      BY <1>0, <1>10, <2>1, <2>2, <2>3, <2>4, <2>5, <2>6, <2>7, <1>i, <3>0
         DEF PresentWhole, SettledTree, Settled, Waiting, Whole, At
    <3> QED
      BY <3>1, <3>2, <3>3, <3>4, <3>5 DEF Tree
  <2> QED
    BY <2>w, <2>g, <2>t DEF EnvInvariant, Tree
<1>11. CASE RebaseRecord(o) /\ mounts # {}
  <2>1. CASE status # "none"
    BY <1>11, <2>1, <1>25 DEF RebaseRecord, GiveUp, StateIsFile, At
  <2>2. CASE status = "none"
    <3>1. \A p \in Ops : op'[p] = Idle
      BY <1>0, <1>k, <1>11, <2>2, OpEnds DEF RebaseRecord, GiveUp, StateIsFile, Release, At
    <3> QED
      BY <1>11, <3>1, OpLeaves DEF RebaseRecord
  <2> QED
    BY <2>1, <2>2
<1>20. CASE RebaseRecord(o) /\ mounts = {} /\ StateIsFile
  <2>0. op[o].kind = "rebase" /\ op[o].pc # "idle" /\ Step(o, "recording") /\ UNCHANGED <<status, base, dir, mounts, source, link, sess, torn, late>>
    BY <1>20 DEF RebaseRecord, At
  <2>1. /\ op'[o].kind = op[o].kind /\ op'[o].pc = "recording" /\ op'[o].entry = op[o].entry
        /\ op'[o].target = op[o].target /\ \A p \in Ops : p # o => op[p] = Idle /\ op'[p] = Idle
    BY <2>0, <1>r DEF RebasePcs
  <2>2. op[o].pc = "record" /\ status # "none"
    BY <1>20 DEF RebaseRecord, StateIsFile, At
  <2>3. ~Settled'
    BY <1>0, <1>i, <2>0, <2>1, <2>2 DEF Settled, Waiting, World
  <2>w. World'
    BY <1>0, <2>0, <2>1, <2>2, <2>3, <1>i DEF World, InsideHolds
  <2>g. Gone'
    BY <1>0, <2>0, <2>1, <2>2, <2>3, <1>i DEF Gone
  <2>t. ASSUME ~torn' PROVE Tree'
    <3>0. /\ ~torn /\ NoneAtWork /\ NobodyYet /\ (\A p \in Ops : Built(p)) /\ SettledTree
          /\ PresentWhole
      BY <1>0, <2>0, <2>1, <2>2, <2>3, <1>i, <2>t DEF Tree
    <3>1. NoneAtWork'
      BY <1>0, <2>0, <2>1, <2>2, <2>3, <1>i, <3>0 DEF NoneAtWork
    <3>2. NobodyYet'
      BY <1>0, <2>0, <2>1, <2>2, <2>3, <1>i, <3>0 DEF NobodyYet
    <3>3. (\A p \in Ops : Built(p))'
      BY <1>0, <2>0, <2>1, <2>2, <2>3, <1>i, <3>0
    <3>4. SettledTree'
      BY <1>0, <2>0, <2>1, <2>2, <2>3, <1>i, <3>0 DEF SettledTree, Settled, Waiting
    <3>5. PresentWhole'
      BY <1>0, <2>0, <2>1, <2>2, <2>3, <1>i, <3>0 DEF PresentWhole, SettledTree, Settled, Waiting, Whole
    <3> QED
      BY <3>1, <3>2, <3>3, <3>4, <3>5 DEF Tree
  <2> QED
    BY <2>w, <2>g, <2>t DEF EnvInvariant, Tree
<1>21. CASE RebaseRecord(o) /\ mounts = {} /\ ~StateIsFile
  <2>1. /\ UNCHANGED <<status, base, dir, mounts, source, link, sess>> /\ (~torn' => ~torn)
        /\ Release(o) \/ (op' = [op EXCEPT ![o] = Idle] /\ lock' = Orphan)
        /\ op[o].pc # "idle"
    BY <1>21 DEF RebaseRecord, At
  <2> QED
    BY <1>e, <2>1
<1>31. CASE RebaseRecorded(o) /\ Replace("rebasing", op[o].target) /\ Step(o, "mount")
  <2>0. /\ op[o].kind = "rebase" /\ op[o].pc = "recording" /\ Step(o, "mount")
        /\ UNCHANGED <<mounts, source, link, sess, torn, late>>
        /\ status' = "rebasing" /\ base' = op[o].target /\ dir' = TRUE
    BY <1>31 DEF RebaseRecorded, At, Replace
  <2>1. /\ op'[o].kind = op[o].kind /\ op'[o].pc = "mount" /\ op'[o].entry = op[o].entry
        /\ op'[o].target = op[o].target /\ \A p \in Ops : p # o => op[p] = Idle /\ op'[p] = Idle
    BY <2>0, <1>r DEF RebasePcs
  <2>2. \A s \in Sessions : ~Present(s)
    BY <1>0, <2>0 DEF World
  <2>3. ~Settled'
    BY <1>i, <2>0, <2>1 DEF Settled, Waiting
  <2>w. World'
    BY <1>0, <2>0, <2>1, <2>2, <2>3, <1>i DEF World, InsideHolds
  <2>g. Gone'
    BY <1>0, <2>0, <2>1, <2>2, <2>3, <1>i DEF Gone
  <2>t. ASSUME ~torn' PROVE Tree'
    <3>0. /\ ~torn /\ NoneAtWork /\ NobodyYet /\ (\A p \in Ops : Built(p)) /\ SettledTree
          /\ PresentWhole
      BY <1>0, <2>0, <2>1, <2>2, <2>3, <1>i, <2>t DEF Tree
    <3>1. NoneAtWork'
      BY <1>0, <2>0, <2>1, <2>2, <2>3, <1>i, <3>0 DEF NoneAtWork
    <3>2. NobodyYet'
      BY <1>0, <2>0, <2>1, <2>2, <2>3, <1>i, <3>0 DEF NobodyYet
    <3>3. (\A p \in Ops : Built(p))'
      BY <1>0, <2>0, <2>1, <2>2, <2>3, <1>i, <3>0
    <3>4. SettledTree'
      BY <1>0, <2>0, <2>1, <2>2, <2>3, <1>i, <3>0 DEF SettledTree, Settled, Waiting
    <3>5. PresentWhole'
      BY <1>0, <2>0, <2>1, <2>2, <2>3, <1>i, <3>0 DEF PresentWhole, SettledTree, Settled, Waiting, Whole
    <3> QED
      BY <3>1, <3>2, <3>3, <3>4, <3>5 DEF Tree
  <2> QED
    BY <2>w, <2>g, <2>t DEF EnvInvariant, Tree
<1>32. CASE RebaseRecorded(o) /\ Outrun(o)
  <2>1. /\ UNCHANGED <<status, base, dir, mounts, source, link, sess>> /\ (~torn' => ~torn)
        /\ Release(o) \/ (op' = [op EXCEPT ![o] = Idle] /\ lock' = Orphan)
        /\ op[o].pc # "idle"
    BY <1>32 DEF RebaseRecorded, Outrun, At
  <2> QED
    BY <1>e, <2>1
<1>33. CASE RebaseMount(o) /\ status = "none"
  <2>1. /\ UNCHANGED <<status, base, dir, mounts, source, link, sess>> /\ (~torn' => ~torn)
        /\ Release(o) \/ (op' = [op EXCEPT ![o] = Idle] /\ lock' = Orphan)
        /\ op[o].pc # "idle"
    BY <1>33 DEF RebaseMount, At
  <2> QED
    BY <1>e, <2>1
<1>12. CASE RebaseMount(o) /\ status # "none"
  <2>1. /\ op'[o].kind = op[o].kind /\ op'[o].pc = "runtime" /\ op'[o].entry = op[o].entry
        /\ op'[o].target = op[o].target /\ \A p \in Ops : p # o => op[p] = Idle /\ op'[p] = Idle
    BY <1>0, <1>k, <1>12, OpSteps DEF RebaseMount, At, CreatePcs, RebasePcs
  <2>2. At(o, "rebase", "mount") /\ UNCHANGED <<status, base, link, sess, torn>> /\ dir' = TRUE
    BY <1>12 DEF RebaseMount
  <2>3. /\ mounts' # {} /\ "dirs" \in mounts'
        /\ mounts # {} => mounts' = mounts \cup {"dirs"} /\ source' = source
        /\ mounts = {} => mounts' = {"root", "dirs"} /\ source' = base
    BY <1>0, <1>12, RootKept DEF RebaseMount, FileOK
  <2>4. mounts = Groups => mounts' = Groups
    BY <2>3 DEF Groups
  <2>5. status = "rebasing" /\ ~Settled'
    BY <1>0, <1>i, <1>12, <2>1, <2>2 DEF Settled, Waiting, World, At
  <2>w. World'
    BY <1>0, <1>12, <2>1, <2>2, <2>3, <2>4, <2>5, <1>i DEF World, InsideHolds, At
  <2>g. Gone'
    BY <1>0, <1>12, <2>1, <2>2, <2>3, <2>4, <2>5, <1>i DEF Gone, At
  <2>t. ASSUME ~torn' PROVE Tree'
    <3>0. /\ ~torn /\ NoneAtWork /\ NobodyYet /\ (\A p \in Ops : Built(p)) /\ SettledTree
          /\ PresentWhole
      BY <1>0, <1>12, <2>1, <2>2, <2>3, <2>4, <2>5, <1>i, <2>t DEF Tree, At
    <3>1. NoneAtWork'
      BY <1>0, <1>12, <2>1, <2>2, <2>3, <2>4, <2>5, <1>i, <3>0 DEF NoneAtWork, At
    <3>2. NobodyYet'
      BY <1>0, <1>12, <2>1, <2>2, <2>3, <2>4, <2>5, <1>i, <3>0 DEF NobodyYet, At
    <3>3. (\A p \in Ops : Built(p))'
      BY <1>0, <1>12, <2>1, <2>2, <2>3, <2>4, <2>5, <1>i, <3>0 DEF At
    <3>4. SettledTree'
      BY <1>0, <1>12, <2>1, <2>2, <2>3, <2>4, <2>5, <1>i, <3>0 DEF SettledTree, Settled, Waiting, At
    <3>5. PresentWhole'
      BY <1>0, <1>12, <2>1, <2>2, <2>3, <2>4, <2>5, <1>i, <3>0
         DEF PresentWhole, SettledTree, Settled, Waiting, Whole, At
    <3> QED
      BY <3>1, <3>2, <3>3, <3>4, <3>5 DEF Tree
  <2> QED
    BY <2>w, <2>g, <2>t DEF EnvInvariant, Tree
<1>13. CASE RebaseRuntime(o)
  <2>1. \/ /\ op'[o].kind = op[o].kind /\ op'[o].pc = "verify" /\ op'[o].entry = op[o].entry
           /\ op'[o].target = op[o].target /\ Step(o, "verify") /\ \A p \in Ops : p # o => op[p] = Idle /\ op'[p] = Idle
        \/ Release(o) /\ \A p \in Ops : op'[p] = Idle
    <3>1. op[o] # Idle /\ op[o].kind = "rebase"
      BY <1>k, <1>13 DEF RebaseRuntime, At
    <3>2. CASE Release(o)
      BY <1>0, <3>1, <3>2, OpEnds DEF Release
    <3>3. CASE Step(o, "verify")
      BY <1>0, <3>1, <3>3, OpSteps DEF RebasePcs
    <3> QED
      BY <1>13, <3>2, <3>3 DEF RebaseRuntime
  <2>2. mounts' = mounts \cup {"runtime"} /\ (mounts = Groups => mounts' = Groups)
    BY <1>13 DEF RebaseRuntime, Groups
  <2>w. World'
    BY <1>0, <1>13, <2>1, <2>2, <1>i DEF World, InsideHolds, RebaseRuntime, At
  <2>g. Gone'
    BY <1>0, <1>13, <2>1, <2>2, <1>i DEF Gone, RebaseRuntime, At
  <2>t. ASSUME ~torn' PROVE Tree'
    <3>0. /\ ~torn /\ NoneAtWork /\ NobodyYet /\ (\A p \in Ops : Built(p)) /\ SettledTree
          /\ PresentWhole
      BY <1>0, <1>13, <2>1, <2>2, <1>i, <2>t DEF Tree, RebaseRuntime, At
    <3>1. NoneAtWork'
      BY <1>0, <1>13, <2>1, <2>2, <1>i, <3>0 DEF NoneAtWork, RebaseRuntime, At
    <3>2. NobodyYet'
      BY <1>0, <1>13, <2>1, <2>2, <1>i, <3>0 DEF NobodyYet, RebaseRuntime, At
    <3>3. (\A p \in Ops : Built(p))'
      BY <1>0, <1>13, <2>1, <2>2, <1>i, <3>0 DEF RebaseRuntime, At
    <3>4. SettledTree'
      BY <1>0, <1>13, <2>1, <2>2, <1>i, <3>0 DEF SettledTree, Settled, Waiting, RebaseRuntime, At
    <3>5. PresentWhole'
      BY <1>0, <1>13, <2>1, <2>2, <1>i, <3>0 DEF PresentWhole, SettledTree, Settled, Waiting,
         Whole, RebaseRuntime, At
    <3> QED
      BY <3>1, <3>2, <3>3, <3>4, <3>5 DEF Tree
  <2> QED
    BY <2>w, <2>g, <2>t DEF EnvInvariant, Tree
<1>14. CASE RebaseVerify(o) /\ RootIsNew(o) /\ StateIsFile
  <2>0. op[o].kind = "rebase" /\ op[o].pc # "idle" /\ Step(o, "finishing") /\ UNCHANGED <<status, base, dir, mounts, source, link, sess, torn, late>>
    BY <1>14 DEF RebaseVerify, At
  <2>1. /\ op'[o].kind = op[o].kind /\ op'[o].pc = "finishing" /\ op'[o].entry = op[o].entry
        /\ op'[o].target = op[o].target /\ \A p \in Ops : p # o => op[p] = Idle /\ op'[p] = Idle
    BY <2>0, <1>r DEF RebasePcs
  <2>2. /\ op[o].pc = "verify" /\ "root" \in mounts /\ source = op[o].target
        /\ status # "none"
    BY <1>14 DEF RebaseVerify, RootIsNew, StateIsFile, At
  <2>3. ~Settled'
    BY <1>0, <1>i, <2>0, <2>1, <2>2 DEF Settled, Waiting, World
  <2>w. World'
    BY <1>0, <2>0, <2>1, <2>2, <2>3, <1>i, <1>m DEF World, InsideHolds
  <2>g. Gone'
    BY <1>0, <2>0, <2>1, <2>2, <2>3, <1>i, <1>m DEF Gone
  <2>t. ASSUME ~torn' PROVE Tree'
    <3>0. /\ ~torn /\ NoneAtWork /\ NobodyYet /\ (\A p \in Ops : Built(p)) /\ SettledTree
          /\ PresentWhole
      BY <1>0, <2>0, <2>1, <2>2, <2>3, <1>i, <1>m, <2>t DEF Tree
    <3>1. NoneAtWork'
      BY <1>0, <2>0, <2>1, <2>2, <2>3, <1>i, <1>m, <3>0 DEF NoneAtWork
    <3>2. NobodyYet'
      BY <1>0, <2>0, <2>1, <2>2, <2>3, <1>i, <1>m, <3>0 DEF NobodyYet
    <3>3. (\A p \in Ops : Built(p))'
      BY <1>0, <2>0, <2>1, <2>2, <2>3, <1>i, <1>m, <3>0
    <3>4. SettledTree'
      BY <1>0, <2>0, <2>1, <2>2, <2>3, <1>i, <1>m, <3>0 DEF SettledTree, Settled, Waiting
    <3>5. PresentWhole'
      BY <1>0, <2>0, <2>1, <2>2, <2>3, <1>i, <1>m, <3>0 DEF PresentWhole, SettledTree, Settled, Waiting, Whole
    <3> QED
      BY <3>1, <3>2, <3>3, <3>4, <3>5 DEF Tree
  <2> QED
    BY <2>w, <2>g, <2>t DEF EnvInvariant, Tree
<1>34. CASE RebaseVerify(o) /\ ~(RootIsNew(o) /\ StateIsFile)
  <2>1. /\ UNCHANGED <<status, base, dir, mounts, source, link, sess>> /\ (~torn' => ~torn)
        /\ Release(o) \/ (op' = [op EXCEPT ![o] = Idle] /\ lock' = Orphan)
        /\ op[o].pc # "idle"
    BY <1>34 DEF RebaseVerify, At
  <2> QED
    BY <1>e, <2>1
<1>35. CASE RebaseReady(o) /\ Replace("ready", op[o].target) /\ Release(o)
  <2>0. /\ op[o].kind = "rebase" /\ op[o].pc = "finishing"
        /\ UNCHANGED <<mounts, source, link, sess, torn, late>>
        /\ status' = "ready" /\ base' = op[o].target /\ dir' = TRUE
    BY <1>35 DEF RebaseReady, At, Replace
  <2>1. \A p \in Ops : op'[p] = Idle
    BY <1>0, <1>k, <1>35, <2>0, OpEnds DEF Release
  <2>w. World'
    BY <1>0, <2>0, <2>1, <1>i, <1>m DEF World, InsideHolds
  <2>g. Gone'
    BY <1>0, <2>0, <2>1, <1>i, <1>m DEF Gone
  <2>t. ASSUME ~torn' PROVE Tree'
    <3>0. /\ ~torn /\ NoneAtWork /\ NobodyYet /\ (\A p \in Ops : Built(p)) /\ SettledTree
          /\ PresentWhole
      BY <1>0, <2>0, <2>1, <1>i, <1>m, <2>t DEF Tree
    <3>1. NoneAtWork'
      BY <1>0, <2>0, <2>1, <1>i, <1>m, <3>0 DEF NoneAtWork
    <3>2. NobodyYet'
      BY <1>0, <2>0, <2>1, <1>i, <1>m, <3>0 DEF NobodyYet
    <3>3. (\A p \in Ops : Built(p))'
      BY <1>0, <2>0, <2>1, <1>i, <1>m, <3>0
    <3>4. SettledTree'
      BY <1>0, <2>0, <2>1, <1>i, <1>m, <3>0 DEF SettledTree, Settled, Waiting
    <3>5. PresentWhole'
      BY <1>0, <2>0, <2>1, <1>i, <1>m, <3>0 DEF PresentWhole, SettledTree, Settled, Waiting, Whole
    <3> QED
      BY <3>1, <3>2, <3>3, <3>4, <3>5 DEF Tree
  <2> QED
    BY <2>w, <2>g, <2>t DEF EnvInvariant, Tree
<1>36. CASE RebaseReady(o) /\ Outrun(o)
  <2>1. /\ UNCHANGED <<status, base, dir, mounts, source, link, sess>> /\ (~torn' => ~torn)
        /\ Release(o) \/ (op' = [op EXCEPT ![o] = Idle] /\ lock' = Orphan)
        /\ op[o].pc # "idle"
    BY <1>36 DEF RebaseReady, Outrun, At
  <2> QED
    BY <1>e, <2>1
<1>15. CASE RebaseFails(o)
  <2>1. /\ UNCHANGED <<status, base, dir, mounts, source, link, sess>> /\ (~torn' => ~torn)
        /\ Release(o) \/ (op' = [op EXCEPT ![o] = Idle] /\ lock' = Orphan)
        /\ op[o].pc # "idle"
    BY <1>15 DEF RebaseFails
  <2> QED
    BY <1>e, <2>1
<1>16. CASE OpDies(o)
  <2>1. /\ UNCHANGED <<status, base, dir, mounts, source, link, sess>> /\ (~torn' => ~torn)
        /\ Release(o) \/ (op' = [op EXCEPT ![o] = Idle] /\ lock' = Orphan)
        /\ op[o].pc # "idle"
    BY <1>16 DEF OpDies
  <2> QED
    BY <1>e, <2>1
<1>c. CASE \/ CreateProvision(o) \/ CreateMount(o) \/ CreateReady(o) \/ CreateDone(o) \/ CreateFails(o)
  BY <1>c, <1>1, <1>2, <1>3, <1>4, <1>5
<1>37. CASE RebaseAsk(o) \/ RebaseMark(o) \/ RebaseProvision(o)
  BY <1>37, <1>6, <1>7, <1>17, <1>23, <1>24 DEF RebaseAsk, RebaseMark
<1>38. CASE RebaseMarked(o) \/ RebaseCheckLink(o) \/ RebaseCheckHolders(o) \/ RebaseRestore(o)
  BY <1>38, <1>8, <1>18, <1>19, <1>26, <1>27, <1>28, <1>29, <1>30 DEF RebaseMarked, RebaseRestore
<1>39. CASE RebaseRecord(o) \/ RebaseRecorded(o) \/ RebaseMount(o) \/ RebaseVerify(o) \/ RebaseReady(o)
  BY <1>39, <1>11, <1>12, <1>14, <1>20, <1>21, <1>31, <1>32, <1>33, <1>34, <1>35, <1>36
     DEF RebaseRecorded, RebaseReady
<1> QED
  BY <1>c, <1>9, <1>10, <1>13, <1>15, <1>16, <1>37, <1>38, <1>39 DEF OpStep

LEMMA BeginEnv ==
  ASSUME Typed, EnvInvariant, NEW o \in Ops, NEW b \in Bases, CreateBegin(o, b) \/ RebaseBegin(o, b)
  PROVE  EnvInvariant'
<1>0. FileOK /\ TreeOK /\ OpsOK /\ SessOK /\ World /\ Gone /\ Tree
  BY DEF Typed, EnvInvariant
<1> USE DEF Named, Built, AtRebase, AtCreate, Present, Saving
<1>i. Idle.pc = "idle" /\ Idle.kind = "none"
  BY IdleShape
<1>a. \A p \in Ops : op[p] = Idle
  BY <1>0, AllIdle DEF CreateBegin, RebaseBegin
<1>1. CASE CreateBegin(o, b)
  <2>1. /\ op'[o].kind = "create" /\ op'[o].pc = "provision" /\ op'[o].target = b
        /\ \A p \in Ops : p # o => op'[p] = Idle
    <3> DEFINE e == <<"none", None>>
    <3>1. /\ e \in {"none", "ready", "rebasing"} \X (Bases \cup {None})
          /\ ("create" = "rebase" => e[1] \in {"ready", "rebasing"})
          /\ "create" \in {"create", "rebase"} /\ "provision" \in {"provision", "ask"}
      BY <1>0, <1>1 DEF CreateBegin, MayRebase, FileOK
    <3>2. /\ op' = [op EXCEPT ![o] = [kind |-> "create", pc |-> "provision", entry |-> e, target |-> b]]
          /\ lock = None /\ lock' = o
      BY <1>1 DEF CreateBegin
    <3> HIDE DEF e
    <3>3. /\ op'[o].kind = "create" /\ op'[o].pc = "provision" /\ op'[o].entry = e /\ op'[o].target = b
          /\ \A p \in Ops : p # o => op[p] = Idle /\ op'[p] = Idle
      <4>1. OpsOK /\ FileOK
        BY <1>0
      <4> HIDE DEF Named, Built, AtRebase, AtCreate, Present, Saving
      <4> DEFINE r == [kind |-> "create", pc |-> "provision", entry |-> e, target |-> b]
      <4>2. r.kind = "create" /\ r.pc = "provision" /\ r.entry = e /\ r.target = b
        OBVIOUS
      <4>3. Shaped(r) /\ r # Idle
        BY <3>1, <4>2, IdleShape DEF Shaped, Op, CreatePcs, RebasePcs
      <4>4. op' = [op EXCEPT ![o] = r] /\ lock = None /\ lock' = o
        BY <3>2
      <4> HIDE DEF r
      <4>5. op'[o] = r /\ \A p \in Ops : p # o => op[p] = Idle /\ op'[p] = Idle
        BY <4>1, <4>3, <4>4, OpMoves
      <4> QED
        BY <4>2, <4>5
    <3> QED
      BY <3>3
  <2>2. status = "none" /\ mounts = {}
    BY <1>0, <1>1 DEF Gone, CreateBegin
  <2>3. ~torn => \A s \in Sessions : sess[s].pc = "out"
    BY <1>0, <2>2 DEF Tree, NoneAtWork
  <2>w. World'
    BY <1>0, <1>1, <2>1, <2>2, <2>3, <1>i, <1>a DEF World, InsideHolds, CreateBegin
  <2>g. Gone'
    BY <1>0, <1>1, <2>1, <2>2, <2>3, <1>i, <1>a DEF Gone, CreateBegin
  <2>t. ASSUME ~torn' PROVE Tree'
    <3>0. /\ ~torn /\ NoneAtWork /\ NobodyYet /\ (\A p \in Ops : Built(p)) /\ SettledTree
          /\ PresentWhole
      BY <1>0, <1>1, <2>1, <2>2, <2>3, <1>i, <1>a, <2>t DEF Tree, CreateBegin
    <3>1. NoneAtWork'
      BY <1>0, <1>1, <2>1, <2>2, <2>3, <1>i, <1>a, <3>0 DEF NoneAtWork, CreateBegin
    <3>2. NobodyYet'
      BY <1>0, <1>1, <2>1, <2>2, <2>3, <1>i, <1>a, <3>0 DEF NobodyYet, CreateBegin
    <3>3. (\A p \in Ops : Built(p))'
      BY <1>0, <1>1, <2>1, <2>2, <2>3, <1>i, <1>a, <3>0 DEF CreateBegin
    <3>4. SettledTree'
      BY <1>0, <1>1, <2>1, <2>2, <2>3, <1>i, <1>a, <3>0 DEF SettledTree, Settled, Waiting,
         CreateBegin
    <3>5. PresentWhole'
      BY <1>0, <1>1, <2>1, <2>2, <2>3, <1>i, <1>a, <3>0 DEF PresentWhole, SettledTree, Settled,
         Waiting, Whole, CreateBegin
    <3> QED
      BY <3>1, <3>2, <3>3, <3>4, <3>5 DEF Tree
  <2> QED
    BY <2>w, <2>g, <2>t DEF EnvInvariant, Tree
<1>2. CASE RebaseBegin(o, b)
  <2>1. /\ op'[o].kind = "rebase" /\ op'[o].pc = "ask" /\ op'[o].target = b
        /\ \A p \in Ops : p # o => op'[p] = Idle
    <3> DEFINE e == <<status, base>>
    <3>1. /\ e \in {"none", "ready", "rebasing"} \X (Bases \cup {None})
          /\ e[1] \in {"ready", "rebasing"}
          /\ "rebase" \in {"create", "rebase"} /\ "ask" \in {"provision", "ask"}
      BY <1>0, <1>2 DEF RebaseBegin, MayRebase, FileOK
    <3>2. /\ op' = [op EXCEPT ![o] = [kind |-> "rebase", pc |-> "ask", entry |-> e, target |-> b]]
          /\ lock = None /\ lock' = o
      BY <1>2 DEF RebaseBegin
    <3> HIDE DEF e
    <3>3. /\ op'[o].kind = "rebase" /\ op'[o].pc = "ask" /\ op'[o].entry = e /\ op'[o].target = b
          /\ \A p \in Ops : p # o => op[p] = Idle /\ op'[p] = Idle
      <4>1. OpsOK /\ FileOK
        BY <1>0
      <4> HIDE DEF Named, Built, AtRebase, AtCreate, Present, Saving
      <4> DEFINE r == [kind |-> "rebase", pc |-> "ask", entry |-> e, target |-> b]
      <4>2. r.kind = "rebase" /\ r.pc = "ask" /\ r.entry = e /\ r.target = b
        OBVIOUS
      <4>3. Shaped(r) /\ r # Idle
        BY <3>1, <4>2, IdleShape DEF Shaped, Op, CreatePcs, RebasePcs
      <4>4. op' = [op EXCEPT ![o] = r] /\ lock = None /\ lock' = o
        BY <3>2
      <4> HIDE DEF r
      <4>5. op'[o] = r /\ \A p \in Ops : p # o => op[p] = Idle /\ op'[p] = Idle
        BY <4>1, <4>3, <4>4, OpMoves
      <4> QED
        BY <4>2, <4>5
    <3> QED
      BY <3>3
  <2>w. World'
    BY <1>0, <1>2, <2>1, <1>i, <1>a DEF World, InsideHolds, RebaseBegin, MayRebase
  <2>g. Gone'
    BY <1>0, <1>2, <2>1, <1>i, <1>a DEF Gone, RebaseBegin, MayRebase
  <2>t. ASSUME ~torn' PROVE Tree'
    <3>0. /\ ~torn /\ NoneAtWork /\ NobodyYet /\ (\A p \in Ops : Built(p)) /\ SettledTree
          /\ PresentWhole
      BY <1>0, <1>2, <2>1, <1>i, <1>a, <2>t DEF Tree, RebaseBegin, MayRebase
    <3>1. NoneAtWork'
      BY <1>0, <1>2, <2>1, <1>i, <1>a, <3>0 DEF NoneAtWork, RebaseBegin, MayRebase
    <3>2. NobodyYet'
      BY <1>0, <1>2, <2>1, <1>i, <1>a, <3>0 DEF NobodyYet, RebaseBegin, MayRebase
    <3>3. (\A p \in Ops : Built(p))'
      BY <1>0, <1>2, <2>1, <1>i, <1>a, <3>0 DEF RebaseBegin, MayRebase
    <3>4. SettledTree'
      BY <1>0, <1>2, <2>1, <1>i, <1>a, <3>0 DEF SettledTree, Settled, Waiting, RebaseBegin,
         MayRebase
    <3>5. PresentWhole'
      BY <1>0, <1>2, <2>1, <1>i, <1>a, <3>0 DEF PresentWhole, SettledTree, Settled, Waiting,
         Whole, RebaseBegin, MayRebase
    <3> QED
      BY <3>1, <3>2, <3>3, <3>4, <3>5 DEF Tree
  <2> QED
    BY <2>w, <2>g, <2>t DEF EnvInvariant, Tree
<1> QED
  BY <1>1, <1>2

LEMMA OtherEnv ==
  ASSUME Typed, EnvInvariant,
         \/ JobBegins \/ JobEnds \/ JobRefused \/ Unlink \/ Relink \/ RunnerDies
         \/ RemoveLock \/ DestroyUnmount \/ RemoveState \/ RemoveDir \/ SweepBegins \/ SweepUnmounts
         \/ UNCHANGED vars
  PROVE  EnvInvariant'
<1>0. FileOK /\ TreeOK /\ OpsOK /\ SessOK /\ World /\ Gone /\ Tree
  BY DEF Typed, EnvInvariant
<1> USE DEF Named, Built, AtRebase, AtCreate, Present, Saving
<1>i. Idle.pc = "idle" /\ Idle.kind = "none"
  BY IdleShape
<1>1. CASE JobBegins \/ JobEnds \/ JobRefused \/ RemoveLock \/ SweepBegins \/ UNCHANGED vars
  <2>1. UNCHANGED <<status, base, dir, mounts, source, link, sess, op, torn, swapped, overtaken>>
    BY <1>1 DEF JobBegins, JobEnds, JobRefused, RemoveLock, SweepBegins, late, vars, file, tree
  <2>w. World'
    BY <1>0, <2>1 DEF World, InsideHolds, Inside
  <2>g. Gone'
    BY <1>0, <2>1 DEF Gone, Inside
  <2>t. ASSUME ~torn' PROVE Tree'
    <3>0. /\ ~torn /\ NoneAtWork /\ NobodyYet /\ (\A p \in Ops : Built(p)) /\ SettledTree
          /\ PresentWhole
      BY <1>0, <2>1, <2>t DEF Tree, Inside
    <3>1. NoneAtWork'
      BY <1>0, <2>1, <3>0 DEF NoneAtWork, Inside
    <3>2. NobodyYet'
      BY <1>0, <2>1, <3>0 DEF NobodyYet, Inside
    <3>3. (\A p \in Ops : Built(p))'
      BY <1>0, <2>1, <3>0 DEF Inside
    <3>4. SettledTree'
      BY <1>0, <2>1, <3>0 DEF SettledTree, Settled, Waiting, Inside
    <3>5. PresentWhole'
      BY <1>0, <2>1, <3>0 DEF PresentWhole, SettledTree, Settled, Waiting, Whole, Inside
    <3> QED
      BY <3>1, <3>2, <3>3, <3>4, <3>5 DEF Tree
  <2> QED
    BY <2>w, <2>g, <2>t DEF EnvInvariant, Tree
<1>2. CASE Unlink \/ Relink
  <2>1. /\ UNCHANGED <<status, base, dir, mounts, source, sess, op, torn, overtaken>>
        /\ sess[Runner].pc = "in"
    BY <1>2 DEF Unlink, Relink, late
  <2>2. \A o \in Ops : AtRebase(o, {"holders", "unmount", "record", "recording"})
          => status = "none" \/ link' = "idle" \/ swapped'
    <3> SUFFICES ASSUME NEW o \in Ops, AtRebase(o, {"holders", "unmount", "record", "recording"})
                 PROVE  status = "none" \/ link' = "idle" \/ swapped'
      OBVIOUS
    <3>1. op[o].pc = "holders" /\ (status = "none" \/ link = "idle" \/ swapped)
      BY <1>0, <2>1, Names DEF World
    <3>2. CASE Unlink
      <4>1. swapped'
        BY Zenon, <3>1, <3>2 DEF Unlink
      <4> QED
        BY <4>1
    <3>3. CASE Relink
      <4>1. link # "idle" /\ swapped' = swapped
        BY <3>3 DEF Relink, late
      <4> QED
        BY <3>1, <4>1
    <3> QED
      BY <1>2, <3>2, <3>3
  <2>w. World'
    BY <1>0, <2>1, <2>2, Names DEF World, InsideHolds, Inside
  <2>g. Gone'
    BY <1>0, <2>1, Names DEF Gone, Inside
  <2>t. ASSUME ~torn' PROVE Tree'
    <3>0. /\ ~torn /\ NoneAtWork /\ NobodyYet /\ (\A p \in Ops : Built(p)) /\ SettledTree
          /\ PresentWhole
      BY <1>0, <2>1, Names, <2>t DEF Tree, Inside
    <3>1. NoneAtWork'
      BY <1>0, <2>1, Names, <3>0 DEF NoneAtWork, Inside
    <3>2. NobodyYet'
      BY <1>0, <2>1, Names, <3>0 DEF NobodyYet, Inside
    <3>3. (\A p \in Ops : Built(p))'
      BY <1>0, <2>1, Names, <3>0 DEF Inside
    <3>4. SettledTree'
      BY <1>0, <2>1, Names, <3>0 DEF SettledTree, Settled, Waiting, Inside
    <3>5. PresentWhole'
      BY <1>0, <2>1, Names, <3>0 DEF PresentWhole, SettledTree, Settled, Waiting, Whole, Inside
    <3> QED
      BY <3>1, <3>2, <3>3, <3>4, <3>5 DEF Tree
  <2> QED
    BY <2>w, <2>g, <2>t DEF EnvInvariant, Tree
<1>3. CASE RunnerDies
  <2>1. sess'[Runner].pc = "out" /\ \A t \in Sessions : t # Runner => sess'[t] = sess[t]
    BY <1>0, <1>3, SessLeaves, Names DEF RunnerDies
  <2>w. World'
    BY <1>0, <1>3, <2>1, Names DEF World, InsideHolds, RunnerDies
  <2>g. Gone'
    BY <1>0, <1>3, <2>1, Names DEF Gone, RunnerDies
  <2>t. ASSUME ~torn' PROVE Tree'
    <3>0. /\ ~torn /\ NoneAtWork /\ NobodyYet /\ (\A p \in Ops : Built(p)) /\ SettledTree
          /\ PresentWhole
      BY <1>0, <1>3, <2>1, Names, <2>t DEF Tree, RunnerDies
    <3>1. NoneAtWork'
      BY <1>0, <1>3, <2>1, Names, <3>0 DEF NoneAtWork, RunnerDies
    <3>2. NobodyYet'
      BY <1>0, <1>3, <2>1, Names, <3>0 DEF NobodyYet, RunnerDies
    <3>3. (\A p \in Ops : Built(p))'
      BY <1>0, <1>3, <2>1, Names, <3>0 DEF RunnerDies
    <3>4. SettledTree'
      BY <1>0, <1>3, <2>1, Names, <3>0 DEF SettledTree, Settled, Waiting, RunnerDies
    <3>5. PresentWhole'
      BY <1>0, <1>3, <2>1, Names, <3>0 DEF PresentWhole, SettledTree, Settled, Waiting, Whole,
         RunnerDies
    <3> QED
      BY <3>1, <3>2, <3>3, <3>4, <3>5 DEF Tree
  <2> QED
    BY <2>w, <2>g, <2>t DEF EnvInvariant, Tree
<1>4. CASE DestroyUnmount \/ SweepUnmounts
  <2>1. /\ UNCHANGED <<status, base, dir, link, sess, op, swapped, overtaken>> /\ Unmount /\ Tear
    BY <1>4 DEF DestroyUnmount, SweepUnmounts, late
  <2>2. /\ mounts' \subseteq mounts
        /\ Inside = {} => mounts' = {}
        /\ Inside # {} /\ "root" \in mounts => "root" \in mounts'
    BY <1>0, <2>1, Unmounted
  <2>3. ~torn' => ~torn /\ (\A s \in Sessions : sess[s].pc = "out") /\ \A o \in Ops : op[o].pc = "idle"
    BY <2>1, AtWorkEmpty DEF Tear
  <2>4. ~torn' => (\A s \in Sessions : sess'[s].pc = "out") /\ \A o \in Ops : op'[o].pc = "idle"
    BY <2>1, <2>3
  <2>5. ~torn' => mounts' = {}
    BY <2>2, <2>3, InsideEmpty
  <2>w. World'
    BY <1>0, <2>1, <2>2, <2>3, <2>4, <2>5 DEF World, InsideHolds, Inside
  <2>g. Gone'
    BY <1>0, <2>1, <2>2, <2>3, <2>4, <2>5 DEF Gone, Inside
  <2>t. ASSUME ~torn' PROVE Tree'
    <3>0. /\ ~torn /\ NoneAtWork /\ NobodyYet /\ (\A p \in Ops : Built(p)) /\ SettledTree
          /\ PresentWhole
      BY <1>0, <2>1, <2>2, <2>3, <2>4, <2>5, <2>t DEF Tree, Inside
    <3>1. NoneAtWork'
      BY <1>0, <2>1, <2>2, <2>3, <2>4, <2>5, <2>t, <3>0 DEF NoneAtWork, Inside
    <3>2. NobodyYet'
      BY <1>0, <2>1, <2>2, <2>3, <2>4, <2>5, <2>t, <3>0 DEF NobodyYet, Inside
    <3>3. (\A p \in Ops : Built(p))'
      BY <1>0, <2>1, <2>2, <2>3, <2>4, <2>5, <2>t, <3>0 DEF Inside
    <3>4. SettledTree'
      BY <1>0, <2>1, <2>2, <2>3, <2>4, <2>5, <2>t, <3>0 DEF SettledTree, Settled, Waiting, Inside
    <3>5. PresentWhole'
      BY <1>0, <2>1, <2>2, <2>3, <2>4, <2>5, <2>t, <3>0 DEF PresentWhole, SettledTree, Settled,
         Waiting, Whole, Inside
    <3> QED
      BY <3>1, <3>2, <3>3, <3>4, <3>5 DEF Tree
  <2> QED
    BY <2>w, <2>g, <2>t DEF EnvInvariant, Tree
<1>5. CASE RemoveState
  <2>1. UNCHANGED <<mounts, source, sess, op>> /\ Tear
    BY <1>5 DEF RemoveState, RemoveDir
  <2>2. ~torn' => ~torn /\ (\A s \in Sessions : sess[s].pc = "out") /\ \A o \in Ops : op[o].pc = "idle"
    BY <2>1, AtWorkEmpty DEF Tear
  <2>3. ~torn' => (\A s \in Sessions : sess'[s].pc = "out") /\ \A o \in Ops : op'[o].pc = "idle"
    BY <2>1, <2>2
  <2>w. World'
    BY <1>0, <1>5, <2>1, <2>2, <2>3 DEF World, InsideHolds, RemoveState
  <2>g. Gone'
    BY <1>0, <1>5, <2>1, <2>2, <2>3 DEF Gone, RemoveState
  <2>t. ASSUME ~torn' PROVE Tree'
    <3>0. /\ ~torn /\ NoneAtWork /\ NobodyYet /\ (\A p \in Ops : Built(p)) /\ SettledTree
          /\ PresentWhole
      BY <1>0, <1>5, <2>1, <2>2, <2>3, <2>t DEF Tree, RemoveState
    <3>1. NoneAtWork'
      BY <1>0, <1>5, <2>1, <2>2, <2>3, <2>t, <3>0 DEF NoneAtWork, RemoveState
    <3>2. NobodyYet'
      BY <1>0, <1>5, <2>1, <2>2, <2>3, <2>t, <3>0 DEF NobodyYet, RemoveState
    <3>3. (\A p \in Ops : Built(p))'
      BY <1>0, <1>5, <2>1, <2>2, <2>3, <2>t, <3>0 DEF RemoveState
    <3>4. SettledTree'
      BY <1>0, <1>5, <2>1, <2>2, <2>3, <2>t, <3>0 DEF SettledTree, Settled, Waiting, RemoveState
    <3>5. PresentWhole'
      BY <1>0, <1>5, <2>1, <2>2, <2>3, <2>t, <3>0 DEF PresentWhole, SettledTree, Settled, Waiting,
         Whole, RemoveState
    <3> QED
      BY <3>1, <3>2, <3>3, <3>4, <3>5 DEF Tree
  <2> QED
    BY <2>w, <2>g, <2>t DEF EnvInvariant, Tree
<1>6. CASE RemoveDir
  <2>1. UNCHANGED <<mounts, source, sess, op>> /\ Tear
    BY <1>6 DEF RemoveState, RemoveDir
  <2>2. ~torn' => ~torn /\ (\A s \in Sessions : sess[s].pc = "out") /\ \A o \in Ops : op[o].pc = "idle"
    BY <2>1, AtWorkEmpty DEF Tear
  <2>3. ~torn' => (\A s \in Sessions : sess'[s].pc = "out") /\ \A o \in Ops : op'[o].pc = "idle"
    BY <2>1, <2>2
  <2>w. World'
    BY <1>0, <1>6, <2>1, <2>2, <2>3 DEF World, InsideHolds, RemoveDir
  <2>g. Gone'
    BY <1>0, <1>6, <2>1, <2>2, <2>3 DEF Gone, RemoveDir
  <2>t. ASSUME ~torn' PROVE Tree'
    <3>0. /\ ~torn /\ NoneAtWork /\ NobodyYet /\ (\A p \in Ops : Built(p)) /\ SettledTree
          /\ PresentWhole
      BY <1>0, <1>6, <2>1, <2>2, <2>3, <2>t DEF Tree, RemoveDir
    <3>1. NoneAtWork'
      BY <1>0, <1>6, <2>1, <2>2, <2>3, <2>t, <3>0 DEF NoneAtWork, RemoveDir
    <3>2. NobodyYet'
      BY <1>0, <1>6, <2>1, <2>2, <2>3, <2>t, <3>0 DEF NobodyYet, RemoveDir
    <3>3. (\A p \in Ops : Built(p))'
      BY <1>0, <1>6, <2>1, <2>2, <2>3, <2>t, <3>0 DEF RemoveDir
    <3>4. SettledTree'
      BY <1>0, <1>6, <2>1, <2>2, <2>3, <2>t, <3>0 DEF SettledTree, Settled, Waiting, RemoveDir
    <3>5. PresentWhole'
      BY <1>0, <1>6, <2>1, <2>2, <2>3, <2>t, <3>0 DEF PresentWhole, SettledTree, Settled, Waiting,
         Whole, RemoveDir
    <3> QED
      BY <3>1, <3>2, <3>3, <3>4, <3>5 DEF Tree
  <2> QED
    BY <2>w, <2>g, <2>t DEF EnvInvariant, Tree
<1> QED
  BY <1>1, <1>2, <1>3, <1>4, <1>5, <1>6

LEMMA StepEnv == Typed /\ EnvInvariant /\ [Next]_vars => EnvInvariant'
  BY SessionEnv, OpEnv, BeginEnv, OtherEnv DEF Next

LEMMA EnvHolds == Spec => []EnvInvariant
<1>1. Init => EnvInvariant
  BY InitEnv
<1>2. Typed /\ EnvInvariant /\ [Next]_vars => EnvInvariant'
  BY StepEnv
<1> QED
  BY <1>1, <1>2, AlwaysTyped, PTL DEF Spec

\* For any number of sessions and ops: a process in the env has every mount and runs on
\* the base the state names, however slow its session was, unless an operator or a rebase
\* that gave up unmounted beneath it (rebase.py:8-13, session.py:19).
THEOREM InsideStaysWhole == Spec => []InsideIsWhole
<1>1. Typed /\ EnvInvariant => InsideIsWhole
  <2> SUFFICES ASSUME Typed, EnvInvariant, NEW s \in Sessions, sess[s].pc = "in", ~torn, status # "failed"
               PROVE  Whole
    BY InsideEmpty DEF InsideIsWhole, Whole
  <2>1. NoneAtWork /\ NobodyYet /\ SettledTree /\ PresentWhole
    BY DEF EnvInvariant, Tree
  <2>2. status \in {"ready", "rebasing"}
    BY <2>1 DEF NoneAtWork, NobodyYet, Typed, FileOK, Statuses
  <2>3. CASE status = "rebasing"
    BY <2>1, <2>3 DEF PresentWhole, Present
  <2>4. CASE status = "ready"
    <3>1. mounts = Groups
      BY <2>1, <2>4 DEF SettledTree, Settled
    <3>2. source = base
      BY <2>1, <2>4, <3>1 DEF SettledTree, Settled, Groups
    <3> QED
      BY <3>1, <3>2 DEF Whole
  <2> QED
    BY <2>2, <2>3, <2>4
<1> QED
  BY <1>1, AlwaysTyped, EnvHolds, PTL

\* Only the step that records a rebase's target names another base.
LEMMA OnlyRecordMoves ==
  ASSUME Typed, EnvInvariant, [Next]_vars, base' # base, base # None, base' # None
  PROVE  \E o \in Ops : RebaseRecorded(o) /\ status # "none"
<1>0. World /\ (\A o \in Ops : Named(o)) /\ OpsOK
  BY DEF EnvInvariant, World, Typed
<1>1. ASSUME NEW s \in Sessions, Load(s) \/ SessionStep(s) PROVE FALSE
  BY <1>1 DEF SessionStep, Load, MountRoot, MountRuntime, Recheck, Refused, Enter, Exit
<1>2. CASE JobBegins \/ JobEnds \/ JobRefused \/ Unlink \/ Relink \/ RunnerDies
  BY <1>2 DEF JobBegins, JobEnds, JobRefused, Unlink, Relink, RunnerDies
<1>3. CASE RemoveLock \/ DestroyUnmount \/ RemoveState \/ RemoveDir \/ SweepBegins \/ SweepUnmounts \/ UNCHANGED vars
  BY <1>3 DEF RemoveLock, DestroyUnmount, RemoveState, RemoveDir, SweepBegins, SweepUnmounts
<1>4. ASSUME NEW o \in Ops, NEW b \in Bases, CreateBegin(o, b) \/ RebaseBegin(o, b) PROVE FALSE
  BY <1>4 DEF CreateBegin, RebaseBegin
<1>5. ASSUME NEW o \in Ops,
             OpStep(o) \/ CreateFails(o) \/ RebaseInterrupted(o) \/ RebaseFails(o) \/ OpDies(o)
      PROVE  RebaseRecorded(o) /\ status # "none"
  <2>0. status # "none"
    BY <1>0 DEF World
  <2>1. op[o].kind = "create" => base = op[o].target
    BY <1>0 DEF Named
  <2>2. /\ AtRebase(o, {"marking"}) => base = op[o].entry[2]
        /\ AtRebase(o, {"restoring"}) => base = op[o].entry[2]
        /\ AtRebase(o, {"finishing"}) => base = op[o].target
    BY <1>0, <2>0 DEF Named, AtRebase
  <2>3. CASE CreateProvision(o) \/ CreateReady(o) \/ CreateDone(o) \/ CreateFails(o)
    BY <2>1, <2>3 DEF CreateProvision, CreateReady, CreateDone, CreateFails, CreateSave, At
  <2>4. CASE RebaseMarked(o) \/ RebaseRestore(o) \/ RebaseReady(o)
    BY <2>2, <2>4 DEF RebaseMarked, RebaseRestore, RebaseReady, Replace, Outrun, At, AtRebase
  <2>5. CASE RebaseRecorded(o)
    BY <2>0, <2>5
  <2>6. CASE \/ CreateMount(o) \/ RebaseAsk(o) \/ RebaseProvision(o) \/ RebaseMark(o)
            \/ RebaseCheckLink(o) \/ RebaseCheckHolders(o) \/ RebaseInterrupted(o)
            \/ RebaseUnmount(o) \/ RebaseRecord(o) \/ RebaseMount(o) \/ RebaseRuntime(o)
            \/ RebaseVerify(o) \/ RebaseFails(o) \/ OpDies(o)
    BY <2>6 DEF CreateMount, RebaseAsk, RebaseProvision, RebaseMark, RebaseCheckLink,
       RebaseCheckHolders, RebaseInterrupted, RebaseUnmount, RebaseRecord, RebaseMount,
       RebaseRuntime, RebaseVerify, RebaseFails, OpDies
  <2> QED
    BY <1>5, <2>3, <2>4, <2>5, <2>6 DEF OpStep
<1> QED
  BY <1>1, <1>2, <1>3, <1>4, <1>5 DEF Next

\* For any number of sessions, ops and bases: an env moves to another base only while no
\* process is in it, and no job's link unless the job swapped it between the two looks of
\* the rebase's last check (rebase.py:152-166, 256-311).
THEOREM WorldIsKept == Spec => WorldKeptUnderJob
<1>1. Typed /\ EnvInvariant /\ [Next]_vars
        => [base' # base /\ base # None /\ base' # None => Inside = {} /\ (link = "idle" \/ swapped)]_vars
  <2> SUFFICES ASSUME Typed, EnvInvariant, [Next]_vars, base' # base, base # None, base' # None
               PROVE  Inside = {} /\ (link = "idle" \/ swapped)
    OBVIOUS
  <2>1. PICK o \in Ops : RebaseRecorded(o) /\ status # "none"
    BY OnlyRecordMoves
  <2>2. Named(o) /\ AtRebase(o, {"recording"})
    BY <2>1 DEF EnvInvariant, World, RebaseRecorded, At, AtRebase
  <2> QED
    BY <2>1, <2>2, InsideEmpty DEF Named, AtRebase
<1> QED
  BY <1>1, AlwaysTyped, EnvHolds, PTL DEF Spec, WorldKeptUnderJob

(***************************************************************************)
(* A rebase saves in two halves: the look finds the state or ends the      *)
(* rebase, so only a destroy between the halves is undone.                 *)
(***************************************************************************)
LEMMA OnlyWritesReturn ==
  ASSUME Typed, [Next]_vars, NEW o \in Ops, op[o].kind = "rebase", op'[o] # op[o],
         status = "none", status' # "none"
  PROVE  AtRebase(o, Saving)
<1>0. OpsOK /\ op[o] # Idle
  BY IdleShape DEF Typed
<1>1. lock = o /\ op[o].pc # "idle" /\ \A p \in Ops : p # o => op[p] = Idle
  BY <1>0, ShapedAtWork, OneAtWork DEF OpsOK
<1>2. ASSUME NEW p \in Ops,
             OpStep(p) \/ CreateFails(p) \/ RebaseInterrupted(p) \/ RebaseFails(p) \/ OpDies(p)
      PROVE  AtRebase(o, Saving)
  <2>1. op[p].pc # "idle"
    BY <1>2 DEF OpStep, At, CreateProvision, CreateMount, CreateReady, CreateDone, CreateFails,
       RebaseAsk, RebaseProvision, RebaseMark, RebaseMarked, RebaseCheckLink,
       RebaseCheckHolders, RebaseRestore, RebaseInterrupted, RebaseUnmount, RebaseRecord,
       RebaseRecorded, RebaseMount, RebaseRuntime, RebaseVerify, RebaseReady, RebaseFails, OpDies
  <2>2. p = o
    BY <1>1, <2>1, IdleShape
  <2>3. CASE RebaseMarked(o) \/ RebaseRestore(o) \/ RebaseRecorded(o) \/ RebaseReady(o)
    BY <2>3 DEF RebaseMarked, RebaseRestore, RebaseRecorded, RebaseReady, At, AtRebase, Saving
  <2>4. CASE \/ CreateProvision(o) \/ CreateMount(o) \/ CreateReady(o) \/ CreateDone(o)
            \/ CreateFails(o)
    BY <2>4 DEF At, CreateProvision, CreateMount, CreateReady, CreateDone, CreateFails
  <2>5. CASE \/ RebaseAsk(o) \/ RebaseProvision(o) \/ RebaseMark(o) \/ RebaseCheckLink(o)
            \/ RebaseCheckHolders(o) \/ RebaseInterrupted(o) \/ RebaseUnmount(o)
            \/ RebaseRecord(o) \/ RebaseMount(o) \/ RebaseRuntime(o) \/ RebaseVerify(o)
            \/ RebaseFails(o) \/ OpDies(o)
    BY <2>5 DEF RebaseAsk, RebaseProvision, RebaseMark, RebaseCheckLink, RebaseCheckHolders,
       RebaseInterrupted, RebaseUnmount, RebaseRecord, RebaseMount, RebaseRuntime, RebaseVerify,
       RebaseFails, OpDies
  <2> QED
    BY <1>2, <2>2, <2>3, <2>4, <2>5 DEF OpStep
<1>3. ASSUME NEW p \in Ops, NEW b \in Bases, CreateBegin(p, b) \/ RebaseBegin(p, b) PROVE FALSE
  BY <1>1, <1>3, Names DEF CreateBegin, RebaseBegin
<1>4. ASSUME NEW s \in Sessions, Load(s) \/ SessionStep(s) PROVE FALSE
  BY <1>4 DEF Load, SessionStep, MountRoot, MountRuntime, Recheck, Refused, Enter, Exit
<1>5. CASE \/ JobBegins \/ JobEnds \/ JobRefused \/ Unlink \/ Relink \/ RunnerDies
           \/ RemoveLock \/ DestroyUnmount \/ RemoveState \/ RemoveDir \/ SweepBegins \/ SweepUnmounts
           \/ UNCHANGED vars
  BY <1>5 DEF JobBegins, JobEnds, JobRefused, Unlink, Relink, RunnerDies, RemoveLock,
     DestroyUnmount, RemoveState, RemoveDir, SweepBegins, SweepUnmounts
<1> QED
  BY <1>2, <1>3, <1>4, <1>5 DEF Next

\* For any number of sessions, ops and removals: a rebase brings back the state of an env
\* destroyed while it ran only if env.json went between the two halves of a save of that
\* rebase (rebase.py:202-212, state.py:193-198).
THEOREM DestroyedIsGone == Spec => DestroyedStaysGone
<1>1. Typed /\ EnvInvariant /\ [Next]_vars
        => [\A o \in Ops : op[o].kind = "rebase" /\ op'[o] # op[o]
                          /\ status = "none" /\ status' # "none" => o \in overtaken]_vars
  <2> SUFFICES ASSUME Typed, EnvInvariant, [Next]_vars, NEW o \in Ops, op[o].kind = "rebase",
                      op'[o] # op[o], status = "none", status' # "none"
               PROVE  o \in overtaken
    OBVIOUS
  <2>1. AtRebase(o, Saving)
    BY OnlyWritesReturn
  <2> QED
    BY <2>1 DEF EnvInvariant, World, Named
<1> QED
  BY <1>1, AlwaysTyped, EnvHolds, PTL DEF Spec, DestroyedStaysGone
=============================================================================

------------------------- MODULE AttemptLoopProofs -------------------------
(***************************************************************************)
(* Proofs about AttemptLoop, for every budget, number of attempts, turns   *)
(* and kept turns, every set of windows and tool sets and every bound.     *)
(***************************************************************************)
EXTENDS AttemptLoop, TLAPS

USE DEF loop, budget, context, trees, scratch, bounds, history, vars, Fault, NoFault

LEMMA Knobs ==
  /\ MaxIter \in Nat /\ MaxIter >= 1 /\ MaxTurns \in Nat /\ MaxTurns >= 1 /\ KeepTurns \in Nat
  /\ Budget \in Nat /\ Floor \in Nat /\ Grace \in Nat /\ MaxCost \in Nat /\ MaxCost >= 1
  /\ MaxCalls \in Nat /\ MaxVersion \in Nat /\ MaxJobs \in Nat
  /\ MaxFaults \in Nat /\ MaxCrashes \in Nat
  /\ Windows \subseteq [start : Nat, limit : Nat, end : Nat]
  /\ None \notin Nat /\ Mixed \notin Nat /\ None # Mixed
  BY AttemptAssumption

(***************************************************************************)
(* Types.  A job that has begun has an attempt, and an attempt a turn.     *)
(***************************************************************************)
Begun ==
  /\ pc # "idle" => job >= 1 /\ attempt >= 1
  /\ pc \in {"request", "calling"} => turn >= 1

Typed == TypeOK /\ Begun

LEMMA Zero == 0 \in Version /\ <<0, 0>> \in (Version \cup {Mixed}) \X Version
  BY Knobs DEF Version

LEMMA InitTyped == Init => Typed
<1> SUFFICES ASSUME Init PROVE Typed
  OBVIOUS
<1>1. cache \in [Keys -> Version \cup {None}]
  BY DEF Init, Empty
<1>2. /\ ok \in BOOLEAN /\ claim \in BOOLEAN /\ ownFail \in BOOLEAN
      /\ unclean \in BOOLEAN /\ unsynced \in BOOLEAN /\ blind \in BOOLEAN
  BY DEF Init
<1>3. /\ shown \subseteq Result /\ elided \subseteq Answer
      /\ wrk \subseteq (1..MaxJobs) \X (1..MaxIter)
      /\ out \subseteq (1..MaxJobs) \X (1..MaxIter)
  BY DEF Init
<1>4. /\ job \in 0..MaxJobs /\ flow \in Flows /\ attempt \in 0..MaxIter
      /\ turn \in 0..MaxTurns /\ calls \in 0..MaxCalls /\ spent \in Nat /\ used \in Nat
      /\ faults \in 0..MaxFaults /\ crashes \in 0..MaxCrashes
      /\ overlay \in Version /\ compose \in Version \cup {Mixed}
      /\ baseline \in Version \cup {None}
  BY Zero, Knobs DEF Init
<1>5. /\ pc = "idle" /\ note = "none" /\ built = <<0, 0>>
  BY DEF Init
<1> QED
  BY <1>1, <1>2, <1>3, <1>4, <1>5, Zero DEF Typed, TypeOK, Begun

LEMMA EndJobTyped ==
  ASSUME Typed, EndJob
  PROVE  /\ pc' = "idle" /\ attempt' \in 0..MaxIter /\ turn' \in 0..MaxTurns
         /\ calls' \in 0..MaxCalls /\ spent' \in Nat /\ used' \in Nat
         /\ ok' \in BOOLEAN /\ claim' \in BOOLEAN /\ ownFail' \in BOOLEAN
         /\ shown' \subseteq Result /\ elided' \subseteq Answer /\ overlay' \in Version
         /\ note' \in {"none", "waiting", "claimed", "heard", "lost"}
         /\ built' \in (Version \cup {Mixed}) \X Version /\ blind' \in BOOLEAN
<1>1. /\ ok' \in BOOLEAN /\ claim' \in BOOLEAN /\ ownFail' \in BOOLEAN /\ blind' \in BOOLEAN
  BY DEF EndJob
<1>2. /\ shown' \subseteq Result /\ elided' \subseteq Answer
      /\ built' \in (Version \cup {Mixed}) \X Version
  BY Zero DEF EndJob
<1>3. /\ attempt' \in 0..MaxIter /\ turn' \in 0..MaxTurns
      /\ calls' \in 0..MaxCalls /\ spent' \in Nat /\ used' \in Nat
      /\ overlay' \in Version /\ pc' = "idle" /\ note' = "none"
  BY Zero, Knobs DEF EndJob
<1> QED
  BY <1>1, <1>2, <1>3

LEMMA ComposeTyped ==
  ASSUME Typed, Composed \/ NotComposed
  PROVE  /\ compose' \in Version \cup {Mixed} /\ baseline' \in Version \cup {None}
         /\ blind' \in BOOLEAN /\ faults' \in 0..MaxFaults /\ crashes' \in 0..MaxCrashes
<1>1. /\ compose \in Version \cup {Mixed} /\ baseline \in Version \cup {None}
      /\ overlay \in Version /\ blind \in BOOLEAN
      /\ faults \in 0..MaxFaults /\ crashes \in 0..MaxCrashes
  BY DEF Typed, TypeOK
<1>2. blind' \in BOOLEAN
  BY <1>1 DEF Composed, NotComposed
<1>3. compose' \in Version \cup {Mixed} /\ baseline' \in Version \cup {None}
  BY <1>1 DEF Composed, NotComposed
<1>4. faults' \in 0..MaxFaults /\ crashes' \in 0..MaxCrashes
  BY <1>1, Knobs DEF Composed, NotComposed
<1> QED
  BY <1>2, <1>3, <1>4

LEMMA WrkdirTyped ==
  ASSUME Typed, NEW cleaned \in BOOLEAN, CleanWrkdir(cleaned)
  PROVE  wrk' \subseteq (1..MaxJobs) \X (1..MaxIter) /\ unclean' \in BOOLEAN
  BY DEF Typed, TypeOK, CleanWrkdir

LEMMA JobTyped ==
  ASSUME Typed,
         \/ StartJob \/ RefuseDirty \/ RefuseUncomposed \/ ComposeAgain \/ Crash
         \/ \E own \in BOOLEAN : Preflight(own)
         \/ \E cleaned, composes \in BOOLEAN : ResetPort(cleaned, composes)
  PROVE  Typed'
<1> USE Knobs
<1>1. CASE StartJob
  BY <1>1 DEF StartJob, Typed, TypeOK, Begun
<1>2. CASE RefuseDirty
  BY <1>2, EndJobTyped DEF RefuseDirty, Typed, TypeOK, Begun
<1>3. CASE RefuseUncomposed
  BY <1>3, EndJobTyped DEF RefuseUncomposed, Typed, TypeOK, Begun
<1>4. CASE ComposeAgain
  BY <1>4, ComposeTyped DEF ComposeAgain, Typed, TypeOK, Begun
<1>5. CASE Crash
  BY <1>5, EndJobTyped DEF Crash, Typed, TypeOK, Begun, Empty
<1>6. CASE \E own \in BOOLEAN : Preflight(own)
  <2> PICK own \in BOOLEAN : Preflight(own)
    BY <1>6
  <2>1. Composed \/ NotComposed
    BY DEF Preflight
  <2> QED
    BY <2>1, ComposeTyped DEF Preflight, Typed, TypeOK, Begun
<1>7. CASE \E cleaned, composes \in BOOLEAN : ResetPort(cleaned, composes)
  <2> PICK cleaned \in BOOLEAN, composes \in BOOLEAN : ResetPort(cleaned, composes)
    BY <1>7
  <2>1. compose' \in Version \cup {Mixed} /\ unsynced' \in BOOLEAN
    BY Zero DEF ResetPort, ComposeBaseline, Typed, TypeOK
  <2>2. faults' \in 0..MaxFaults /\ crashes' \in 0..MaxCrashes
    BY DEF ResetPort, Typed, TypeOK
  <2> QED
    BY <2>1, <2>2, EndJobTyped, WrkdirTyped DEF ResetPort, Typed, TypeOK, Begun
<1> QED
  BY <1>1, <1>2, <1>3, <1>4, <1>5, <1>6, <1>7

LEMMA MaskTyped ==
  ASSUME Typed, Request
  PROVE  shown' \subseteq Result /\ cache' \in [Keys -> Version \cup {None}]
  BY DEF Typed, TypeOK, Request, Mask, Empty

LEMMA AttemptTyped ==
  ASSUME Typed,
         \/ \E cleaned \in BOOLEAN : BeginAttempt(cleaned)
         \/ AttemptSucceeds \/ AttemptFails
         \/ \E cost \in 1..MaxCost, proof, calling \in BOOLEAN : LlmTurn(cost, proof, calling)
         \/ LlmRaises \/ EndTurn \/ PostNote
  PROVE  Typed'
<1> USE Knobs
<1>1. CASE \E cleaned \in BOOLEAN : BeginAttempt(cleaned)
  <2> PICK cleaned \in BOOLEAN : BeginAttempt(cleaned)
    BY <1>1
  <2>1. /\ wrk' \subseteq (1..MaxJobs) \X (1..MaxIter) /\ unclean' \in BOOLEAN
        /\ faults' \in 0..MaxFaults /\ out' = {}
    BY WrkdirTyped DEF BeginAttempt, ResetWorkspace, Typed, TypeOK
  <2>2. cache' \in [Keys -> Version \cup {None}]
    BY DEF BeginAttempt, ResetCaches, Empty
  <2>3. note' \in {"none", "waiting", "claimed", "heard", "lost"} /\ crashes' = crashes
    BY DEF BeginAttempt, Typed, TypeOK
  <2>4. /\ pc' \in {"reset", "request"} /\ turn' = 1 /\ calls' = 0 /\ used' = 0
        /\ ok' \in BOOLEAN /\ claim' \in BOOLEAN /\ shown' = {} /\ elided' = {}
        /\ pc # "idle"
        /\ UNCHANGED <<job, flow, attempt, spent, ownFail, trees, built, unsynced, blind>>
    BY DEF BeginAttempt
  <2> QED
    BY <2>1, <2>2, <2>3, <2>4 DEF Typed, TypeOK, Begun
<1>2. CASE AttemptSucceeds
  BY <1>2 DEF AttemptSucceeds, Typed, TypeOK, Begun
<1>3. CASE AttemptFails
  BY <1>3 DEF AttemptFails, LastAttempt, Typed, TypeOK, Begun
<1>4. CASE \E cost \in 1..MaxCost, proof, calling \in BOOLEAN : LlmTurn(cost, proof, calling)
  <2> PICK cost \in 1..MaxCost, proof \in BOOLEAN, calling \in BOOLEAN :
             LlmTurn(cost, proof, calling)
    BY <1>4
  <2>1. Request
    BY DEF LlmTurn
  <2> QED
    BY <2>1, MaskTyped DEF LlmTurn, Typed, TypeOK, Begun
<1>5. CASE LlmRaises
  BY <1>5, MaskTyped DEF LlmRaises, Typed, TypeOK, Begun
<1>6. CASE EndTurn
  BY <1>6 DEF EndTurn, Typed, TypeOK, Begun
<1>7. CASE PostNote
  BY <1>7 DEF PostNote, Typed, TypeOK, Begun
<1> QED
  BY <1>1, <1>2, <1>3, <1>4, <1>5, <1>6, <1>7

LEMMA ToolTyped ==
  ASSUME Typed, ToolCall
  PROVE  Typed'
<1> USE Knobs DEF Call
<1>0. pc = "calling" /\ Me \in (1..MaxJobs) \X (1..MaxIter) /\ turn \in 1..MaxTurns
  BY DEF ToolCall, GetFile, Edit, Materialize, Build, EditSource, Genpatch, InstallPatches,
         IdleCall, ExtractBlocked, Typed, TypeOK, Begun, Me
<1>1. ASSUME NEW w \in Windows, GetFile(w) PROVE Typed'
  <2>1. /\ [w |-> w, version |-> overlay] \in Answer
        /\ [w |-> w, version |-> overlay, at |-> turn] \in Result
    BY <1>0 DEF Answer, Result, Typed, TypeOK
  <2>2. /\ shown' \subseteq Result /\ elided' \subseteq Answer
        /\ cache' \in [Keys -> Version \cup {None}]
    BY <1>1, <2>1 DEF GetFile, Typed, TypeOK
  <2> QED
    BY <1>1, <2>2 DEF GetFile, Typed, TypeOK, Begun
<1>2. ASSUME NEW v \in Version, Edit(v) \/ InstallPatches(v) PROVE Typed'
  BY <1>2 DEF Edit, InstallPatches, Typed, TypeOK, Begun
<1>3. ASSUME NEW passes \in BOOLEAN, Materialize(passes) PROVE Typed'
  <2>1. Composed \/ NotComposed
    BY <1>3 DEF Materialize
  <2> QED
    BY <1>3, <2>1, ComposeTyped DEF Materialize, Typed, TypeOK, Begun
<1>4. ASSUME NEW passes \in BOOLEAN, Build(passes) PROVE Typed'
  <2>1. built' \in (Version \cup {Mixed}) \X Version /\ ok' \in BOOLEAN
    BY <1>4 DEF Build, Typed, TypeOK
  <2>2. faults' \in 0..MaxFaults /\ crashes' \in 0..MaxCrashes
    BY <1>4 DEF Build, Fresh, Typed, TypeOK
  <2>3. blind' \in BOOLEAN
    <3>1. blind \in BOOLEAN
      BY DEF Typed, TypeOK
    <3> QED
      BY <1>4, <3>1 DEF Build, Fresh
  <2> QED
    BY <1>4, <2>1, <2>2, <2>3 DEF Build, Typed, TypeOK, Begun
<1>5. CASE EditSource
  BY <1>0, <1>5 DEF EditSource, Typed, TypeOK, Begun
<1>6. CASE Genpatch
  BY <1>0, <1>6 DEF Genpatch, Typed, TypeOK, Begun
<1>7. CASE ExtractBlocked
  BY <1>7 DEF ExtractBlocked, Typed, TypeOK, Begun
<1>8. ASSUME NEW tool \in Tool, IdleCall(tool) PROVE Typed'
  BY <1>8 DEF IdleCall, Typed, TypeOK, Begun
<1> QED
  BY <1>1, <1>2, <1>3, <1>4, <1>5, <1>6, <1>7, <1>8 DEF ToolCall

LEMMA StepTyped == Typed /\ [Next]_vars => Typed'
<1> SUFFICES ASSUME Typed, [Next]_vars PROVE Typed'
  OBVIOUS
<1>1. CASE Next
  BY <1>1, JobTyped, AttemptTyped, ToolTyped DEF Next
<1>2. CASE UNCHANGED vars
  BY <1>2 DEF Typed, TypeOK, Begun
<1> QED
  BY <1>1, <1>2

\* The columns of the loop keep their types (tool_loop.py:215, worker.py:1708).
THEOREM AttemptTypeCorrect == Spec => []TypeOK
<1>1. Spec => []Typed
  BY InitTyped, StepTyped, PTL DEF Spec
<1>2. Typed => TypeOK
  BY DEF Typed
<1> QED
  BY <1>1, <1>2, PTL

(***************************************************************************)
(* The trees.  A baseline is the version the compose tree was made from,   *)
(* none outlives its job, and before its first compose a job finds the     *)
(* tree as the last one left it.                                           *)
(***************************************************************************)
Fallow == pc \in {"idle", "preflight"}

TreeInvariant ==
  /\ Fallow => baseline = None /\ (compose = 0 \/ unsynced)
  /\ blind \/ baseline = None \/ compose = baseline
  /\ BuildIsFresh

LEMMA EndJobFresh == EndJob => BuildIsFresh' /\ pc' = "idle"
  BY DEF EndJob, BuildIsFresh

LEMMA ComposeFresh ==
  ASSUME Composed \/ NotComposed, blind \/ built[1] = built[2], built' = built
  PROVE  (blind' \/ baseline' = None \/ compose' = baseline') /\ BuildIsFresh'
  BY DEF Composed, NotComposed, BuildIsFresh

LEMMA JobTrees ==
  ASSUME Typed, TreeInvariant,
         \/ StartJob \/ RefuseDirty \/ RefuseUncomposed \/ ComposeAgain \/ Crash
         \/ \E own \in BOOLEAN : Preflight(own)
         \/ \E cleaned, composes \in BOOLEAN : ResetPort(cleaned, composes)
  PROVE  TreeInvariant'
<1> USE DEF Fallow
<1>1. CASE StartJob
  BY <1>1 DEF StartJob, TreeInvariant, BuildIsFresh
<1>2. CASE RefuseDirty
  BY <1>2, EndJobFresh DEF RefuseDirty, TreeInvariant
<1>3. CASE RefuseUncomposed
  BY <1>3, EndJobFresh DEF RefuseUncomposed, TreeInvariant
<1>4. CASE ComposeAgain
  <2>1. (Composed \/ NotComposed) /\ built' = built /\ pc' = "reset"
    BY <1>4 DEF ComposeAgain
  <2> QED
    BY <2>1, ComposeFresh DEF TreeInvariant, BuildIsFresh
<1>5. CASE Crash
  BY <1>5, EndJobFresh DEF Crash, TreeInvariant
<1>6. CASE \E own \in BOOLEAN : Preflight(own)
  <2> PICK own \in BOOLEAN : Preflight(own)
    BY <1>6
  <2>1. (Composed \/ NotComposed) /\ built' = built /\ pc' = "attempt"
    BY DEF Preflight
  <2> QED
    BY <2>1, ComposeFresh DEF TreeInvariant, BuildIsFresh
<1>7. CASE \E cleaned, composes \in BOOLEAN : ResetPort(cleaned, composes)
  <2> PICK cleaned \in BOOLEAN, composes \in BOOLEAN : ResetPort(cleaned, composes)
    BY <1>7
  <2> QED
    BY EndJobFresh DEF ResetPort, ComposeBaseline, TreeInvariant
<1> QED
  BY <1>1, <1>2, <1>3, <1>4, <1>5, <1>6, <1>7

LEMMA AttemptTrees ==
  ASSUME Typed, TreeInvariant,
         \/ \E cleaned \in BOOLEAN : BeginAttempt(cleaned)
         \/ AttemptSucceeds \/ AttemptFails
         \/ \E cost \in 1..MaxCost, proof, calling \in BOOLEAN : LlmTurn(cost, proof, calling)
         \/ LlmRaises \/ EndTurn \/ PostNote
  PROVE  TreeInvariant'
<1>1. UNCHANGED <<trees, built, blind>> /\ pc' \notin {"idle", "preflight"}
  BY DEF BeginAttempt, AttemptSucceeds, AttemptFails, LlmTurn, LlmRaises, EndTurn, PostNote
<1> QED
  BY <1>1 DEF TreeInvariant, BuildIsFresh, Fallow

LEMMA ToolTrees ==
  ASSUME Typed, TreeInvariant, ToolCall
  PROVE  TreeInvariant'
<1> USE DEF Call, Fallow, TreeInvariant
<1>1. ASSUME NEW w \in Windows, GetFile(w) PROVE TreeInvariant'
  BY <1>1 DEF GetFile, BuildIsFresh
<1>2. ASSUME NEW v \in Version, Edit(v) \/ InstallPatches(v) PROVE TreeInvariant'
  BY <1>2 DEF Edit, InstallPatches, BuildIsFresh
<1>3. ASSUME NEW passes \in BOOLEAN, Materialize(passes) PROVE TreeInvariant'
  <2>1. (Composed \/ NotComposed) /\ built' = built /\ pc' = "calling"
    BY <1>3 DEF Materialize
  <2> QED
    BY <2>1, ComposeFresh DEF BuildIsFresh
<1>4. ASSUME NEW passes \in BOOLEAN, Build(passes) PROVE TreeInvariant'
  <2>1. /\ blind' \/ (baseline = overlay /\ blind' = blind)
        /\ baseline # None /\ built' = <<compose, overlay>> /\ pc' = "calling"
        /\ UNCHANGED trees
    BY <1>4 DEF Build, Fresh
  <2> QED
    BY <2>1 DEF BuildIsFresh
<1>5. CASE EditSource \/ Genpatch \/ ExtractBlocked
  BY <1>5 DEF EditSource, Genpatch, ExtractBlocked, BuildIsFresh
<1>6. ASSUME NEW tool \in Tool, IdleCall(tool) PROVE TreeInvariant'
  BY <1>6 DEF IdleCall, BuildIsFresh
<1> QED
  BY <1>1, <1>2, <1>3, <1>4, <1>5, <1>6 DEF ToolCall

LEMMA StepTrees == Typed /\ TreeInvariant /\ [Next]_vars => TreeInvariant'
<1> SUFFICES ASSUME Typed, TreeInvariant, [Next]_vars PROVE TreeInvariant'
  OBVIOUS
<1>1. CASE Next
  BY <1>1, JobTrees, AttemptTrees, ToolTrees DEF Next
<1>2. CASE UNCHANGED vars
  BY <1>2 DEF TreeInvariant, BuildIsFresh, Fallow
<1> QED
  BY <1>1, <1>2

LEMMA AlwaysTrees == Spec => [](Typed /\ TreeInvariant)
<1>1. Init => Typed /\ TreeInvariant
  BY InitTyped DEF Init, TreeInvariant, BuildIsFresh, Fallow
<1>2. Typed /\ TreeInvariant /\ [Next]_vars => (Typed /\ TreeInvariant)'
  BY StepTyped, StepTrees
<1> QED
  BY <1>1, <1>2, PTL DEF Spec

\* dsynth never proves a compose tree of another version of the subtree than the one in
\* the worktree (worker.py:1690, worker.py:4555).
THEOREM BuildsAreFresh == Spec => []BuildIsFresh
<1>1. TreeInvariant => BuildIsFresh
  BY DEF TreeInvariant
<1> QED
  BY <1>1, AlwaysTrees, PTL

\* Between jobs the shared compose tree is the repository's (worker.py:2559).
THEOREM EnvIsRestored == Spec => []EnvMatchesRepo
<1>1. TreeInvariant => EnvMatchesRepo
  BY DEF TreeInvariant, EnvMatchesRepo, Fallow
<1> QED
  BY <1>1, AlwaysTrees, PTL

(***************************************************************************)
(* The scratch directories.  What an attempt finds in the WRKDIR it found  *)
(* when the job began, or was left where a make clean failed.              *)
(***************************************************************************)
Untouched == Fallow \/ (pc = "attempt" /\ attempt = 1)

ScratchInvariant ==
  /\ pc = "preflight" => attempt = 1
  /\ Untouched => wrk = {} \/ unclean
  /\ ScratchIsOwn

LEMMA JobScratch ==
  ASSUME Typed, ScratchInvariant,
         \/ StartJob \/ RefuseDirty \/ RefuseUncomposed \/ ComposeAgain \/ Crash
         \/ \E own \in BOOLEAN : Preflight(own)
         \/ \E cleaned, composes \in BOOLEAN : ResetPort(cleaned, composes)
  PROVE  ScratchInvariant'
<1> USE DEF Fallow, Untouched, ScratchInvariant, ScratchIsOwn
<1>1. CASE StartJob
  BY <1>1 DEF StartJob
<1>2. CASE RefuseDirty
  BY <1>2 DEF RefuseDirty, EndJob
<1>3. CASE RefuseUncomposed
  BY <1>3 DEF RefuseUncomposed, EndJob
<1>4. CASE ComposeAgain
  BY <1>4 DEF ComposeAgain
<1>5. CASE Crash
  BY <1>5 DEF Crash, EndJob
<1>6. CASE \E own \in BOOLEAN : Preflight(own)
  BY <1>6 DEF Preflight
<1>7. CASE \E cleaned, composes \in BOOLEAN : ResetPort(cleaned, composes)
  BY <1>7 DEF ResetPort, EndJob, CleanWrkdir
<1> QED
  BY <1>1, <1>2, <1>3, <1>4, <1>5, <1>6, <1>7

LEMMA AttemptScratch ==
  ASSUME Typed, ScratchInvariant,
         \/ \E cleaned \in BOOLEAN : BeginAttempt(cleaned)
         \/ AttemptSucceeds \/ AttemptFails
         \/ \E cost \in 1..MaxCost, proof, calling \in BOOLEAN : LlmTurn(cost, proof, calling)
         \/ LlmRaises \/ EndTurn \/ PostNote
  PROVE  ScratchInvariant'
<1> USE DEF Fallow, Untouched, ScratchInvariant, ScratchIsOwn
<1>1. CASE \E cleaned \in BOOLEAN : BeginAttempt(cleaned)
  <2> PICK cleaned \in BOOLEAN : BeginAttempt(cleaned)
    BY <1>1
  <2>1. out' = {} /\ pc' \in {"request", "reset"}
    BY DEF BeginAttempt, ResetWorkspace
  <2>2. wrk' = {} \/ unclean'
    <3>1. CASE attempt > 1
      BY <3>1 DEF BeginAttempt, ResetWorkspace, CleanWrkdir
    <3>2. CASE ~(attempt > 1)
      <4>1. attempt = 1
        BY <3>2 DEF BeginAttempt, Typed, TypeOK, Begun
      <4> QED
        BY <3>2, <4>1 DEF BeginAttempt, ResetWorkspace
    <3> QED
      BY <3>1, <3>2
  <2> QED
    BY <2>1, <2>2
<1>2. CASE AttemptSucceeds
  BY <1>2 DEF AttemptSucceeds
<1>3. CASE AttemptFails
  <2>1. /\ UNCHANGED <<scratch, unclean>>
        /\ pc' = "reset" \/ (pc' = "attempt" /\ attempt' = attempt + 1 /\ attempt \in Nat)
        /\ attempt >= 1
    BY <1>3 DEF AttemptFails, Typed, TypeOK, Begun
  <2> QED
    BY <2>1
<1>4. CASE \E cost \in 1..MaxCost, proof, calling \in BOOLEAN : LlmTurn(cost, proof, calling)
  BY <1>4 DEF LlmTurn, Me
<1>5. CASE LlmRaises
  BY <1>5 DEF LlmRaises
<1>6. CASE EndTurn
  BY <1>6 DEF EndTurn, Me
<1>7. CASE PostNote
  BY <1>7 DEF PostNote, Me
<1> QED
  BY <1>1, <1>2, <1>3, <1>4, <1>5, <1>6, <1>7

LEMMA ToolScratch ==
  ASSUME Typed, ScratchInvariant, ToolCall
  PROVE  ScratchInvariant'
<1> USE DEF Call, Fallow, Untouched, ScratchInvariant, ScratchIsOwn, Me
<1>1. /\ pc = "calling" /\ pc' \in {"calling", "reset"} /\ UNCHANGED <<job, attempt>>
      /\ unclean' = unclean
    BY DEF ToolCall, GetFile, Edit, Materialize, Build, EditSource, Genpatch, InstallPatches,
           IdleCall, ExtractBlocked
<1>2. out' \subseteq out \cup {Me} /\ wrk' \subseteq wrk \cup {Me}
    BY DEF ToolCall, GetFile, Edit, Materialize, Build, EditSource, Genpatch, InstallPatches,
           IdleCall, ExtractBlocked
<1> QED
  BY <1>1, <1>2

LEMMA AlwaysScratch == Spec => [](Typed /\ ScratchInvariant)
<1>1. Init => Typed /\ ScratchInvariant
  BY InitTyped DEF Init, ScratchInvariant, Untouched, Fallow, ScratchIsOwn
<1>2. Typed /\ ScratchInvariant /\ [Next]_vars => (Typed /\ ScratchInvariant)'
  <2> SUFFICES ASSUME Typed, ScratchInvariant, [Next]_vars PROVE ScratchInvariant'
    BY StepTyped
  <2>1. CASE Next
    BY <2>1, JobScratch, AttemptScratch, ToolScratch DEF Next
  <2>2. CASE UNCHANGED vars
    BY <2>2 DEF ScratchInvariant, Untouched, Fallow, ScratchIsOwn, Me
  <2> QED
    BY <2>1, <2>2
<1> QED
  BY <1>1, <1>2, PTL DEF Spec

\* An attempt works on and installs only what is its own (worker.py:1726).
THEOREM ScratchIsolated == Spec => []ScratchIsOwn
<1>1. ScratchInvariant => ScratchIsOwn
  BY DEF ScratchInvariant
<1> QED
  BY <1>1, AlwaysScratch, PTL

(***************************************************************************)
(* The budget.  The tokens an attempt was given and the tokens spent       *)
(* before it make up the budget of the job, so the cap of the attempt is   *)
(* one on the job; a turn is begun only below it.                          *)
(***************************************************************************)
GraceNow == IF ok THEN Grace ELSE 0

BudgetInvariant ==
  Budget > 0 =>
    /\ Fallow => spent = 0
    /\ pc = "attempt" => spent < Budget
    /\ pc \in {"request", "calling"} => spent < Budget + GraceNow
    /\ spent < Budget + GraceNow + MaxCost

LEMMA GraceType == Typed => GraceNow \in Nat
  BY Knobs DEF Typed, TypeOK, GraceNow

LEMMA JobBudget ==
  ASSUME Typed, BudgetInvariant,
         \/ StartJob \/ RefuseDirty \/ RefuseUncomposed \/ ComposeAgain \/ Crash
         \/ \E own \in BOOLEAN : Preflight(own)
         \/ \E cleaned, composes \in BOOLEAN : ResetPort(cleaned, composes)
  PROVE  BudgetInvariant'
<1>0. /\ GraceNow \in Nat /\ spent \in Nat
  BY GraceType DEF Typed, TypeOK
<1>1. CASE StartJob \/ ComposeAgain \/ \E own \in BOOLEAN : Preflight(own)
  <2>1. UNCHANGED budget /\ (pc' \in {"preflight", "attempt"} => Fallow)
        /\ pc' \in {"preflight", "attempt", "reset"}
    BY <1>1 DEF StartJob, ComposeAgain, Preflight, Fallow
  <2>2. GraceNow' = GraceNow
    BY <2>1 DEF GraceNow
  <2> QED
    BY <1>0, <2>1, <2>2, Knobs DEF BudgetInvariant, Fallow
<1>2. CASE \/ RefuseDirty \/ RefuseUncomposed \/ Crash
           \/ \E cleaned, composes \in BOOLEAN : ResetPort(cleaned, composes)
  <2>1. pc' = "idle" /\ spent' = 0 /\ ~ok'
    BY <1>2 DEF RefuseDirty, RefuseUncomposed, Crash, ResetPort, EndJob
  <2>2. GraceNow' = 0
    BY <2>1 DEF GraceNow
  <2> QED
    BY <2>1, <2>2, Knobs DEF BudgetInvariant, Fallow
<1> QED
  BY <1>1, <1>2

LEMMA AttemptBudget ==
  ASSUME Typed, BudgetInvariant,
         \/ \E cleaned \in BOOLEAN : BeginAttempt(cleaned)
         \/ AttemptSucceeds \/ AttemptFails
         \/ \E cost \in 1..MaxCost, proof, calling \in BOOLEAN : LlmTurn(cost, proof, calling)
         \/ LlmRaises \/ EndTurn \/ PostNote
  PROVE  BudgetInvariant'
<1>0. /\ GraceNow \in Nat /\ spent \in Nat /\ used \in Nat
  BY GraceType DEF Typed, TypeOK
<1>1. CASE \E cleaned \in BOOLEAN : BeginAttempt(cleaned)
  <2>1. pc = "attempt" /\ pc' \in {"reset", "request"} /\ spent' = spent /\ ~ok'
    BY <1>1 DEF BeginAttempt
  <2>2. GraceNow' = 0
    BY <2>1 DEF GraceNow
  <2> QED
    BY <1>0, <2>1, <2>2, Knobs DEF BudgetInvariant, Fallow
<1>2. CASE AttemptSucceeds \/ LlmRaises \/ EndTurn \/ PostNote
  <2>1. /\ UNCHANGED <<spent, ok>> /\ ~Fallow' /\ pc' # "attempt"
        /\ pc' \in {"request", "calling"} => pc \in {"request", "calling"}
    BY <1>2 DEF AttemptSucceeds, LlmRaises, EndTurn, PostNote, Fallow
  <2>2. GraceNow' = GraceNow
    BY <2>1 DEF GraceNow
  <2> QED
    BY <1>0, <2>1, <2>2, Knobs DEF BudgetInvariant, Fallow
<1>3. CASE AttemptFails
  <2>1. /\ UNCHANGED <<spent, ok>> /\ pc' \in {"reset", "attempt"}
        /\ pc' = "attempt" => ~Spent
    BY <1>3 DEF AttemptFails
  <2>2. GraceNow' = GraceNow
    BY <2>1 DEF GraceNow
  <2> QED
    BY <1>0, <2>1, <2>2, Knobs DEF BudgetInvariant, Fallow, Spent
<1>4. CASE \E cost \in 1..MaxCost, proof, calling \in BOOLEAN : LlmTurn(cost, proof, calling)
  <2> PICK cost \in 1..MaxCost, proof \in BOOLEAN, calling \in BOOLEAN :
             LlmTurn(cost, proof, calling)
    BY <1>4
  <2>1. /\ pc = "request" /\ spent' = spent + cost /\ ok' = ok
        /\ pc' \in {"stopped", "calling"}
        /\ pc' = "calling" => ~(Budget > 0 /\ used + cost >= Cap)
    BY DEF LlmTurn
  <2>2. GraceNow' = GraceNow
    BY <2>1 DEF GraceNow
  <2>3. Cap = Budget - (spent - used) + GraceNow
    BY DEF Cap, Remaining, GraceNow
  <2> QED
    BY <1>0, <2>1, <2>2, <2>3, Knobs DEF BudgetInvariant, Fallow
<1> QED
  BY <1>1, <1>2, <1>3, <1>4

LEMMA ToolBudget ==
  ASSUME Typed, BudgetInvariant, ToolCall
  PROVE  BudgetInvariant'
<1>0. GraceNow \in Nat /\ spent \in Nat
  BY GraceType DEF Typed, TypeOK
<1>1. /\ pc = "calling" /\ pc' \in {"calling", "reset"} /\ spent' = spent
      /\ (ok' # ok => \E passes \in BOOLEAN : Build(passes))
  BY DEF ToolCall, GetFile, Edit, Materialize, EditSource, Genpatch, InstallPatches,
         IdleCall, ExtractBlocked, Call, Build
<1>2. ok => ok'
  <2>1. ASSUME NEW passes \in BOOLEAN, Build(passes) PROVE ok' = (ok \/ passes)
    BY <2>1 DEF Build
  <2> QED
    BY <1>1, <2>1
<1>3. GraceNow' \in Nat /\ GraceNow' >= GraceNow
  <2>1. CASE ok
    BY <1>2, <2>1, Knobs DEF GraceNow
  <2>2. CASE ~ok
    <3>1. GraceNow = 0
      BY <2>2 DEF GraceNow
    <3>2. GraceNow' \in {0, Grace}
      BY DEF GraceNow
    <3> QED
      BY <3>1, <3>2, Knobs
  <2> QED
    BY <2>1, <2>2
<1>4. SUFFICES ASSUME Budget > 0
               PROVE  spent < Budget + GraceNow' /\ spent < Budget + GraceNow' + MaxCost
  BY <1>1, Knobs DEF BudgetInvariant, Fallow
<1>5. spent < Budget + GraceNow
  BY <1>1, <1>4 DEF BudgetInvariant
<1> QED
  <2>1. \A s, b, g, h, m \in Nat : s < b + g /\ h >= g /\ m > 0 => s < b + h /\ s < b + h + m
    OBVIOUS
  <2>2. Budget \in Nat /\ MaxCost \in Nat /\ MaxCost > 0
    BY Knobs
  <2> HIDE DEF GraceNow
  <2> QED
    BY ONLY <1>0, <1>3, <1>5, <2>1, <2>2

LEMMA AlwaysBudget == Spec => [](Typed /\ BudgetInvariant)
<1>1. Init => Typed /\ BudgetInvariant
  <2> SUFFICES ASSUME Init PROVE BudgetInvariant
    BY InitTyped
  <2>1. pc = "idle" /\ spent = 0 /\ ~ok
    BY DEF Init
  <2>2. GraceNow = 0
    BY <2>1 DEF GraceNow
  <2> QED
    BY <2>1, <2>2, Knobs DEF BudgetInvariant, Fallow
<1>2. Typed /\ BudgetInvariant /\ [Next]_vars => (Typed /\ BudgetInvariant)'
  <2> SUFFICES ASSUME Typed, BudgetInvariant, [Next]_vars PROVE BudgetInvariant'
    BY StepTyped
  <2>1. CASE Next
    BY <2>1, JobBudget, AttemptBudget, ToolBudget DEF Next
  <2>2. CASE UNCHANGED vars
    BY <2>2 DEF BudgetInvariant, Fallow, GraceNow
  <2> QED
    BY <2>1, <2>2
<1> QED
  BY <1>1, <1>2, PTL DEF Spec

\* A job overruns its budget by less than one turn and the grace of one green build
\* (tool_loop.py:288, attempt_loop.py:540).
THEOREM BudgetIsBounded == Spec => []BudgetBound
<1>1. BudgetInvariant => BudgetBound
  BY DEF BudgetInvariant, BudgetBound, GraceNow
<1> QED
  BY <1>1, AlwaysBudget, PTL

(***************************************************************************)
(* The read cache.  While a request is made up or answered, what the cache *)
(* holds is shown: a result enters both together, masking and a new        *)
(* attempt empty the cache.  Windows of one key are of the same lines      *)
(* unless they name different end lines.                                   *)
(***************************************************************************)
LEMMA KeyTellsLines ==
  ASSUME NEW v \in Windows, NEW w \in Windows, KeyOf(v) = KeyOf(w), v.end = w.end
  PROVE  Lines(v) = Lines(w)
<1>1. v.start = w.start /\ v.limit = w.limit
  BY DEF KeyOf
<1> QED
  BY <1>1 DEF Lines

ShownAs(k, version) == \E r \in shown : KeyOf(r.w) = k /\ r.version = version

CacheInvariant ==
  /\ pc \in {"request", "calling"} =>
       \A k \in Keys : cache[k] # None => ShownAs(k, cache[k])
  /\ pc = "request" => elided = {}
  /\ \A e \in elided : ShownAs(KeyOf(e.w), e.version)

LEMMA JobCache ==
  ASSUME Typed, CacheInvariant,
         \/ StartJob \/ RefuseDirty \/ RefuseUncomposed \/ ComposeAgain \/ Crash
         \/ \E own \in BOOLEAN : Preflight(own)
         \/ \E cleaned, composes \in BOOLEAN : ResetPort(cleaned, composes)
  PROVE  CacheInvariant'
<1>1. pc' \notin {"request", "calling"}
  BY DEF StartJob, RefuseDirty, RefuseUncomposed, ComposeAgain, Crash, Preflight, ResetPort,
         EndJob
<1>2. elided' = {} \/ UNCHANGED <<elided, shown>>
  BY DEF StartJob, RefuseDirty, RefuseUncomposed, ComposeAgain, Crash, Preflight, ResetPort,
         EndJob
<1> QED
  BY <1>1, <1>2 DEF CacheInvariant, ShownAs

LEMMA RequestCache ==
  ASSUME Typed, CacheInvariant, pc = "request", Request
  PROVE  \A k \in Keys : cache'[k] # None => ShownAs(k, cache[k])'
<1>1. CASE UNCHANGED <<shown, cache>>
  BY <1>1 DEF CacheInvariant, ShownAs
<1>2. CASE cache' = Empty
  BY <1>2 DEF Empty
<1> QED
  BY <1>1, <1>2 DEF Request, Mask

LEMMA AttemptCache ==
  ASSUME Typed, CacheInvariant,
         \/ \E cleaned \in BOOLEAN : BeginAttempt(cleaned)
         \/ AttemptSucceeds \/ AttemptFails
         \/ \E cost \in 1..MaxCost, proof, calling \in BOOLEAN : LlmTurn(cost, proof, calling)
         \/ LlmRaises \/ EndTurn \/ PostNote
  PROVE  CacheInvariant'
<1>1. CASE \E cleaned \in BOOLEAN : BeginAttempt(cleaned)
  <2>1. cache' = Empty /\ elided' = {}
    BY <1>1 DEF BeginAttempt, ResetCaches
  <2> QED
    BY <2>1 DEF CacheInvariant, Empty
<1>2. CASE AttemptSucceeds \/ AttemptFails
  <2>1. pc' \notin {"request", "calling"} /\ UNCHANGED <<elided, shown>>
    BY <1>2 DEF AttemptSucceeds, AttemptFails
  <2> QED
    BY <2>1 DEF CacheInvariant, ShownAs
<1>3. CASE \/ \E cost \in 1..MaxCost, proof, calling \in BOOLEAN : LlmTurn(cost, proof, calling)
           \/ LlmRaises
  <2>1. pc = "request" /\ Request /\ elided' = elided
    BY <1>3 DEF LlmTurn, LlmRaises
  <2>2. elided' = {}
    BY <2>1 DEF CacheInvariant
  <2> QED
    BY <2>1, <2>2, RequestCache DEF CacheInvariant
<1>4. CASE EndTurn \/ PostNote
  <2>1. /\ pc = "calling" /\ UNCHANGED <<shown, cache>>
        /\ elided' = {} \/ (elided' = elided /\ pc' = pc)
    BY <1>4 DEF EndTurn, PostNote
  <2> QED
    BY <2>1 DEF CacheInvariant, ShownAs
<1> QED
  BY <1>1, <1>2, <1>3, <1>4

LEMMA ToolCache ==
  ASSUME Typed, CacheInvariant, ToolCall
  PROVE  CacheInvariant'
<1>1. pc = "calling" /\ pc' \in {"calling", "reset"}
  BY DEF ToolCall, GetFile, Edit, Materialize, Build, EditSource, Genpatch, InstallPatches,
         IdleCall, ExtractBlocked, Call
<1>2. CASE UNCHANGED context
  BY <1>1, <1>2 DEF CacheInvariant, ShownAs
<1>3. ASSUME NEW w \in Windows, GetFile(w), Cached(w)
      PROVE  CacheInvariant'
  <2>1. KeyOf(w) \in Keys /\ overlay # None
    BY Knobs DEF Keys, Typed, TypeOK, Version
  <2>2. ShownAs(KeyOf(w), overlay)
    BY <1>1, <1>3, <2>1 DEF CacheInvariant, Cached
  <2>3. UNCHANGED <<shown, cache>> /\ elided' = elided \cup {[w |-> w, version |-> overlay]}
    BY <1>3 DEF GetFile
  <2> QED
    BY <1>1, <2>2, <2>3 DEF CacheInvariant, ShownAs
<1>4. ASSUME NEW w \in Windows, GetFile(w), ~Cached(w)
      PROVE  CacheInvariant'
  <2> DEFINE new == [w |-> w, version |-> overlay, at |-> turn]
  <2>1. /\ shown' = shown \cup {new} /\ elided' = elided
        /\ cache' = [cache EXCEPT ![KeyOf(w)] = overlay]
    BY <1>4 DEF GetFile
  <2>2. \A k, v : ShownAs(k, v) => \E r \in shown' : KeyOf(r.w) = k /\ r.version = v
    <3>1. shown \subseteq shown'
      BY <2>1
    <3> QED
      BY ONLY <3>1 DEF ShownAs
  <2>3. \E r \in shown' : KeyOf(r.w) = KeyOf(w) /\ r.version = overlay
    <3>1. new \in shown' /\ new.w = w /\ new.version = overlay
      BY <2>1
    <3> HIDE DEF new
    <3> QED
      BY <3>1
  <2>4. ASSUME NEW k \in Keys, cache'[k] # None PROVE ShownAs(k, cache[k])'
    <3>1. CASE k = KeyOf(w)
      BY <2>1, <2>3, <3>1 DEF ShownAs, Typed, TypeOK
    <3>2. CASE k # KeyOf(w)
      BY <1>1, <2>1, <2>2, <2>4, <3>2 DEF CacheInvariant, ShownAs, Typed, TypeOK
    <3> QED
      BY <3>1, <3>2
  <2>5. \A e \in elided : ShownAs(KeyOf(e.w), e.version)'
    BY <2>1, <2>2 DEF CacheInvariant, ShownAs
  <2> QED
    BY <1>1, <2>1, <2>4, <2>5 DEF CacheInvariant
<1> QED
  BY <1>2, <1>3, <1>4
     DEF ToolCall, GetFile, Edit, Materialize, Build, EditSource, Genpatch, InstallPatches,
         IdleCall, ExtractBlocked

LEMMA AlwaysCache == Spec => [](Typed /\ CacheInvariant)
<1>1. Init => Typed /\ CacheInvariant
  BY InitTyped DEF Init, CacheInvariant
<1>2. Typed /\ CacheInvariant /\ [Next]_vars => (Typed /\ CacheInvariant)'
  <2> SUFFICES ASSUME Typed, CacheInvariant, [Next]_vars PROVE CacheInvariant'
    BY StepTyped
  <2>1. CASE Next
    BY <2>1, JobCache, AttemptCache, ToolCache DEF Next
  <2>2. CASE UNCHANGED vars
    BY <2>2 DEF CacheInvariant, ShownAs
  <2> QED
    BY <2>1, <2>2
<1> QED
  BY <1>1, <1>2, PTL DEF Spec

\* For any windows, edits, maskings and attempts: get_file answers "unchanged" only for a
\* window whose start and limit stand in the request as the file has them, and for none but
\* lines that stand there unless the two reads named different end lines
\* (worker.py:586-589, 618-626, tool_loop.py:302).
THEOREM UnchangedIsShown == Spec => []ElidedWasShown
<1>1. Typed /\ CacheInvariant => ElidedWasShown
  <2> SUFFICES ASSUME Typed, CacheInvariant, NEW e \in elided
               PROVE  \E r \in shown : Stands(e, r)
    BY DEF ElidedWasShown
  <2>1. PICK r \in shown : KeyOf(r.w) = KeyOf(e.w) /\ r.version = e.version
    BY DEF CacheInvariant, ShownAs
  <2>2. r.w \in Windows /\ e.w \in Windows
    BY DEF Typed, TypeOK, Result, Answer
  <2>3. e.w.end = r.w.end => Lines(r.w) = Lines(e.w)
    BY <2>1, <2>2, KeyTellsLines
  <2> QED
    BY <2>1, <2>3 DEF Stands
<1> QED
  BY <1>1, AlwaysCache, PTL
=============================================================================

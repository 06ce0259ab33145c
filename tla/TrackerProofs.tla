--------------------------- MODULE TrackerProofs ----------------------------
(***************************************************************************)
(* Proofs about the two protocols the tracker keeps rows for: the build    *)
(* runs (BuildRun), for any number of builders, ports and runs, any hours  *)
(* of staleness and any number of lost requests; and the deliveries        *)
(* (Delivery), for any number of bundles, branches, request threads and    *)
(* pollers, any number of deliveries and restarts.  The two share nothing: *)
(* each part below is about the variables of its own module.               *)
(***************************************************************************)
EXTENDS BuildRun, Delivery, TLAPS, FiniteSetTheorems, WellFoundedInduction

USE DEF tracker, builder, vars, bundle, git, forge, history, deliveryVars

(***************************************************************************)
(* I. Build runs.                                                          *)
(***************************************************************************)
LEMMA Knobs ==
  /\ NoRun \notin Runs /\ Absent \notin Runs /\ Disabled \notin Runs
  /\ MaxRuns \in Nat /\ MaxLost \in Nat /\ StaleHours \in Nat /\ StaleHours >= 1
  BY BuildRunAssumption DEF Runs

LEMMA NestedUpdate ==
  ASSUME NEW S, NEW T, NEW V, NEW f \in [S -> [T -> V]], NEW s \in S, NEW t \in T, NEW v \in V
  PROVE  [f EXCEPT ![s][t] = v] \in [S -> [T -> V]]
  OBVIOUS

(***************************************************************************)
(* Types.  A builder that is about to supersede a run has seen one.        *)
(***************************************************************************)
SeenIsRun == \A b \in Builders : phase[b] = "supersede" => seen[b] \in Runs

\* The start hook reports into a run only after a queued hook found one.
EnqueuedIsTracked ==
  \A b \in Builders, p \in Ports :
    phase[b] = "build" /\ stage[b][p] = "enqueued" => Tracked(b)

\* Between two builds a builder starts its next one with no port begun.
BeginsFresh == \A b \in Builders : phase[b] \in {"look", "supersede", "insert"} => stage[b] = Fresh

Typed == TypeOK /\ SeenIsRun /\ EnqueuedIsTracked /\ BeginsFresh

TrackerOK ==
  /\ state \in [Runs -> {"none", "open", "closed"}] /\ age \in [Runs -> 0..StaleHours]
  /\ row \in [Runs -> [Ports -> Row]]
  /\ attempt \in [Ports -> [run : Runs \cup {NoRun}, result : {"none"} \cup Outcome]]
  /\ success \in [Ports -> Runs \cup {NoRun}]

Files == Runs \cup {Absent, Disabled}
Phases == {"off", "look", "supersede", "insert", "build"}
Stages == {"todo", "enqueued", "building", "done"}
BuilderOK ==
  /\ file \in [Builders -> Files] /\ phase \in [Builders -> Phases]
  /\ seen \in [Builders -> Runs \cup {NoRun}] /\ stage \in [Builders -> [Ports -> Stages]]

LEMMA TypedParts == Typed <=> /\ TrackerOK /\ BuilderOK /\ lost \in 0..MaxLost
                              /\ SeenIsRun /\ EnqueuedIsTracked /\ BeginsFresh
  BY DEF Typed, TypeOK, TrackerOK, BuilderOK, Files, Phases, Stages

LEMMA InitTyped == Init => Typed
  BY Knobs DEF Init, Typed, TypeOK, SeenIsRun, EnqueuedIsTracked, BeginsFresh, Fresh, Row, Outcome

\* Where a builder may be, with what it holds there.
Sound(s, f, e, g) ==
  /\ s = "supersede" => e \in Runs
  /\ s = "build" => \A p \in Ports : g[p] = "enqueued" => f \in Runs
  /\ s \in {"look", "supersede", "insert"} => g = Fresh

LEMMA SoundEach ==
  SeenIsRun /\ EnqueuedIsTracked /\ BeginsFresh
    <=> \A b \in Builders : Sound(phase[b], file[b], seen[b], stage[b])
  BY DEF SeenIsRun, EnqueuedIsTracked, BeginsFresh, Sound, Tracked

\* One builder moves, and only that one.
Moves(b, s, f, e, g) ==
  /\ phase' = [phase EXCEPT ![b] = s] /\ file' = [file EXCEPT ![b] = f]
  /\ seen' = [seen EXCEPT ![b] = e] /\ stage' = [stage EXCEPT ![b] = g]

LEMMA BuilderMoves ==
  ASSUME Typed, NEW b \in Builders, NEW s \in Phases, NEW f \in Files,
         NEW e \in Runs \cup {NoRun}, NEW g \in [Ports -> Stages],
         Moves(b, s, f, e, g), Sound(s, f, e, g), TrackerOK', lost' \in 0..MaxLost
  PROVE  Typed'
<1>1. BuilderOK /\ \A c \in Builders : Sound(phase[c], file[c], seen[c], stage[c])
  BY TypedParts, SoundEach
<1>2. BuilderOK'
  BY <1>1 DEF BuilderOK, Moves
<1>3. \A c \in Builders : Sound(phase'[c], file'[c], seen'[c], stage'[c])
  <2> SUFFICES ASSUME NEW c \in Builders PROVE Sound(phase'[c], file'[c], seen'[c], stage'[c])
    OBVIOUS
  <2>1. CASE c = b
    <3> phase'[c] = s /\ file'[c] = f /\ seen'[c] = e /\ stage'[c] = g
      BY <1>1, <2>1 DEF BuilderOK, Moves
    <3> QED
      OBVIOUS
  <2>2. CASE c # b
    <3> phase'[c] = phase[c] /\ file'[c] = file[c] /\ seen'[c] = seen[c] /\ stage'[c] = stage[c]
      BY <1>1, <2>2 DEF BuilderOK, Moves
    <3> QED
      BY <1>1
  <2> QED
    BY <2>1, <2>2
<1>4. SeenIsRun' /\ EnqueuedIsTracked' /\ BeginsFresh'
  BY <1>3 DEF SeenIsRun, EnqueuedIsTracked, BeginsFresh, Sound, Tracked
<1>5. Typed' <=> /\ TrackerOK' /\ BuilderOK' /\ lost' \in 0..MaxLost
                 /\ SeenIsRun' /\ EnqueuedIsTracked' /\ BeginsFresh'
  BY DEF Typed, TypeOK, TrackerOK, BuilderOK, Files, Phases, Stages
<1> QED
  BY <1>2, <1>4, <1>5

LEMMA Losing == lost \in 0..MaxLost /\ (Lose \/ UNCHANGED lost) => lost' \in 0..MaxLost
  BY Knobs DEF Lose

\* What the requests of a builder do.
LEMMA RequestTyped ==
  ASSUME Typed, NEW b \in Builders, Request(b) \/ AnswerLost(b) \/ StartLost(b) \/ Killed(b)
  PROVE  Typed'
<1>0. TrackerOK /\ BuilderOK /\ lost \in 0..MaxLost /\ Sound(phase[b], file[b], seen[b], stage[b])
  BY TypedParts, SoundEach
<1>a. /\ phase[b] \in Phases /\ file[b] \in Files /\ seen[b] \in Runs \cup {NoRun}
      /\ stage[b] \in [Ports -> Stages]
      /\ phase = [phase EXCEPT ![b] = phase[b]] /\ file = [file EXCEPT ![b] = file[b]]
      /\ seen = [seen EXCEPT ![b] = seen[b]] /\ stage = [stage EXCEPT ![b] = stage[b]]
  BY <1>0 DEF BuilderOK
<1>c. Fresh \in [Ports -> Stages] /\ \A p \in Ports : Fresh[p] # "enqueued"
  BY DEF Fresh, Stages
<1>d. Absent \in Files /\ Disabled \in Files /\ Runs \subseteq Files
  BY DEF Files
<1>1. CASE RunStart(b)
  <2>1. Moves(b, "look", Absent, seen[b], Fresh)
    BY <1>a, <1>1 DEF Moves, Goto, StateFile, RunStart
  <2>2. /\ Sound("look", Absent, seen[b], Fresh) /\ "look" \in Phases /\ Absent \in Files
        /\ seen[b] \in Runs \cup {NoRun} /\ Fresh \in [Ports -> Stages]
    BY <1>0, <1>a, <1>c, <1>d, <1>1 DEF Sound, Phases
  <2>3. TrackerOK'
    BY <1>0, <1>1 DEF TrackerOK, RunStart
  <2>4. lost' \in 0..MaxLost
    BY <1>0, <1>1, Losing DEF RunStart
  <2> QED
    BY <2>1, <2>2, <2>3, <2>4, BuilderMoves
<1>2. CASE Look(b)
  <2>1. CASE Active = {} /\ Goto(b, "insert") /\ UNCHANGED <<file, seen>>
    <3>1. Moves(b, "insert", file[b], seen[b], stage[b])
      BY <1>2, <1>a, <2>1 DEF Moves, Goto, StateFile, Look
    <3>2. /\ Sound("insert", file[b], seen[b], stage[b]) /\ "insert" \in Phases
          /\ file[b] \in Files /\ seen[b] \in Runs \cup {NoRun} /\ stage[b] \in [Ports -> Stages]
      BY <1>2, <1>0, <1>a, <1>c, <1>d, <2>1 DEF Sound, Phases, Look
    <3>3. TrackerOK'
      BY <1>2, <1>0, <2>1 DEF TrackerOK, Look
    <3>4. lost' \in 0..MaxLost
      BY <1>0, <1>2, Losing DEF Look
    <3> QED
      BY <3>1, <3>2, <3>3, <3>4, BuilderMoves
  <2>2. ASSUME NEW r \in Active, Goto(b, "supersede"), seen' = [seen EXCEPT ![b] = r], UNCHANGED file
        PROVE  Typed'
    <3>1. Moves(b, "supersede", file[b], r, stage[b])
      BY <1>2, <1>a, <2>2 DEF Moves, Goto, StateFile, Look
    <3>2. /\ Sound("supersede", file[b], r, stage[b]) /\ "supersede" \in Phases
          /\ file[b] \in Files /\ r \in Runs \cup {NoRun} /\ stage[b] \in [Ports -> Stages]
      BY <1>2, <1>0, <1>a, <1>c, <1>d, <2>2 DEF Sound, Phases, Look, Active
    <3>3. TrackerOK'
      BY <1>2, <1>0, <2>2 DEF TrackerOK, Look
    <3>4. lost' \in 0..MaxLost
      BY <1>0, <1>2, Losing DEF Look
    <3> QED
      BY <3>1, <3>2, <3>3, <3>4, BuilderMoves
  <2>3. CASE Untracked(b) /\ UNCHANGED seen
    <3>1. Moves(b, "build", Disabled, seen[b], stage[b])
      BY <1>2, <1>a, <2>3 DEF Moves, Goto, StateFile, Look, Untracked
    <3>2. /\ Sound("build", Disabled, seen[b], stage[b]) /\ "build" \in Phases
          /\ Disabled \in Files /\ seen[b] \in Runs \cup {NoRun} /\ stage[b] \in [Ports -> Stages]
      BY <1>2, <1>0, <1>a, <1>c, <1>d, <2>3 DEF Sound, Phases, Look
    <3>3. TrackerOK'
      BY <1>2, <1>0, <2>3 DEF TrackerOK, Look
    <3>4. lost' \in 0..MaxLost
      BY <1>0, <1>2, Losing DEF Look
    <3> QED
      BY <3>1, <3>2, <3>3, <3>4, BuilderMoves
  <2> QED
    BY <1>2, <2>1, <2>2, <2>3 DEF Look
<1>3. CASE Supersede(b)
  <2>1. Moves(b, "insert", file[b], NoRun, stage[b])
    BY <1>a, <1>3 DEF Moves, Goto, StateFile, Supersede
  <2>2. /\ Sound("insert", file[b], NoRun, stage[b]) /\ "insert" \in Phases /\ file[b] \in Files
        /\ NoRun \in Runs \cup {NoRun} /\ stage[b] \in [Ports -> Stages]
    BY <1>0, <1>a, <1>c, <1>d, <1>3 DEF Sound, Phases, Supersede
  <2>3. TrackerOK'
    <3>1. seen[b] \in Runs
      BY <1>0, <1>3 DEF Sound, Supersede
    <3>2. state' \in [Runs -> {"none", "open", "closed"}] /\ age' \in [Runs -> 0..StaleHours]
      BY Knobs, <1>0, <1>3, <3>1 DEF TrackerOK, Supersede, Closed
    <3> QED
      BY <1>0, <1>3, <3>2 DEF TrackerOK, Supersede
  <2>4. lost' \in 0..MaxLost
    BY <1>0, <1>3, Losing DEF Supersede
  <2> QED
    BY <2>1, <2>2, <2>3, <2>4, BuilderMoves
<1>4. CASE Insert(b)
  <2>1. CASE Untracked(b) /\ UNCHANGED state
    <3>1. Moves(b, "build", Disabled, seen[b], stage[b])
      BY <1>4, <1>a, <2>1 DEF Moves, Goto, StateFile, Insert, Untracked
    <3>2. /\ Sound("build", Disabled, seen[b], stage[b]) /\ "build" \in Phases
          /\ Disabled \in Files /\ seen[b] \in Runs \cup {NoRun} /\ stage[b] \in [Ports -> Stages]
      BY <1>4, <1>0, <1>a, <1>c, <1>d, <2>1 DEF Sound, Phases, Insert
    <3>3. TrackerOK'
      BY <1>4, <1>0, <2>1 DEF TrackerOK, Insert
    <3>4. lost' \in 0..MaxLost
      BY <1>0, <1>4, Losing DEF Insert
    <3> QED
      BY <3>1, <3>2, <3>3, <3>4, BuilderMoves
  <2>2. ASSUME NEW r \in Runs, state' = [state EXCEPT ![r] = "open"], StateFile(b, r), Goto(b, "build")
        PROVE  Typed'
    <3>1. Moves(b, "build", r, seen[b], stage[b])
      BY <1>4, <1>a, <2>2 DEF Moves, Goto, StateFile, Insert
    <3>2. /\ Sound("build", r, seen[b], stage[b]) /\ "build" \in Phases /\ r \in Files
          /\ seen[b] \in Runs \cup {NoRun} /\ stage[b] \in [Ports -> Stages]
      BY <1>4, <1>0, <1>a, <1>c, <1>d, <2>2 DEF Sound, Phases, Insert
    <3>3. TrackerOK'
      BY <1>4, <1>0, <2>2 DEF TrackerOK, Insert
    <3>4. lost' \in 0..MaxLost
      BY <1>0, <1>4, Losing DEF Insert
    <3> QED
      BY <3>1, <3>2, <3>3, <3>4, BuilderMoves
  <2> QED
    BY <1>4, <2>1, <2>2 DEF Insert
<1>5. CASE AnswerLost(b)
  <2>1. Moves(b, "build", Disabled, seen[b], stage[b])
    BY <1>a, <1>5 DEF Moves, Goto, StateFile, AnswerLost, Untracked
  <2>2. /\ Sound("build", Disabled, seen[b], stage[b]) /\ "build" \in Phases /\ Disabled \in Files
        /\ seen[b] \in Runs \cup {NoRun} /\ stage[b] \in [Ports -> Stages]
    BY <1>0, <1>a, <1>c, <1>d, <1>5 DEF Sound, Phases, AnswerLost
  <2>3. TrackerOK'
    BY <1>0, <1>5 DEF TrackerOK, AnswerLost
  <2>4. lost' \in 0..MaxLost
    BY <1>0, <1>5, Losing DEF AnswerLost
  <2> QED
    BY <2>1, <2>2, <2>3, <2>4, BuilderMoves
<1>6. CASE StartLost(b)
  <2>1. Moves(b, "build", Disabled, seen[b], stage[b])
    BY <1>a, <1>6 DEF Moves, Goto, StateFile, StartLost, Untracked
  <2>2. /\ Sound("build", Disabled, seen[b], stage[b]) /\ "build" \in Phases /\ Disabled \in Files
        /\ seen[b] \in Runs \cup {NoRun} /\ stage[b] \in [Ports -> Stages]
    BY <1>0, <1>a, <1>c, <1>d, <1>6 DEF Sound, Phases, StartLost
  <2>3. TrackerOK'
    BY <1>0, <1>6 DEF TrackerOK, StartLost
  <2>4. lost' \in 0..MaxLost
    BY <1>0, <1>6, Losing DEF StartLost
  <2> QED
    BY <2>1, <2>2, <2>3, <2>4, BuilderMoves
<1>7. CASE Killed(b)
  <2>1. Moves(b, "off", file[b], seen[b], stage[b])
    BY <1>a, <1>7 DEF Moves, Goto, StateFile, Killed
  <2>2. /\ Sound("off", file[b], seen[b], stage[b]) /\ "off" \in Phases /\ file[b] \in Files
        /\ seen[b] \in Runs \cup {NoRun} /\ stage[b] \in [Ports -> Stages]
    BY <1>0, <1>a, <1>c, <1>d, <1>7 DEF Sound, Phases, Killed
  <2>3. TrackerOK'
    BY <1>0, <1>7 DEF TrackerOK, Killed
  <2>4. lost' \in 0..MaxLost
    BY <1>0, <1>7, Losing DEF Killed
  <2> QED
    BY <2>1, <2>2, <2>3, <2>4, BuilderMoves
<1> QED
  BY <1>1, <1>2, <1>3, <1>4, <1>5, <1>6, <1>7 DEF Request

LEMMA HookTyped ==
  ASSUME Typed, NEW b \in Builders, Hook(b)
  PROVE  Typed'
<1>0. TrackerOK /\ BuilderOK /\ lost \in 0..MaxLost /\ Sound(phase[b], file[b], seen[b], stage[b])
  BY TypedParts, SoundEach
<1>a. /\ phase[b] \in Phases /\ file[b] \in Files /\ seen[b] \in Runs \cup {NoRun}
      /\ stage[b] \in [Ports -> Stages]
      /\ phase = [phase EXCEPT ![b] = phase[b]] /\ file = [file EXCEPT ![b] = file[b]]
      /\ seen = [seen EXCEPT ![b] = seen[b]] /\ stage = [stage EXCEPT ![b] = stage[b]]
  BY <1>0 DEF BuilderOK
<1>d. Absent \in Files /\ Disabled \in Files /\ Runs \subseteq Files
  BY DEF Files
<1>c. ASSUME NEW p \in Ports, NEW t \in Stages PROVE [stage[b] EXCEPT ![p] = t] \in [Ports -> Stages]
  BY <1>a
<1>s. ASSUME NEW p \in Ports, NEW from, NEW to \in Stages, Stage(b, p, from, to)
      PROVE  /\ stage' = [stage EXCEPT ![b] = [stage[b] EXCEPT ![p] = to]] /\ phase[b] = "build"
             /\ stage[b][p] = from
  BY <1>0, <1>s DEF Stage, BuilderOK
<1>t. ASSUME NEW p \in Ports, NEW t \in Stages, t # "enqueued" \/ file[b] \in Runs, phase[b] = "build"
      PROVE  Sound(phase[b], file[b], seen[b], [stage[b] EXCEPT ![p] = t])
  BY <1>0, <1>a, <1>t DEF Sound
<1>1. CASE RunEnd(b)
  <2>1. Moves(b, "off", Absent, seen[b], stage[b])
    BY <1>a, <1>1 DEF Moves, Goto, StateFile, RunEnd, Over
  <2>2. /\ Sound("off", Absent, seen[b], stage[b]) /\ "off" \in Phases /\ Absent \in Files
        /\ seen[b] \in Runs \cup {NoRun} /\ stage[b] \in [Ports -> Stages]
    BY <1>0, <1>a, <1>c, <1>d, <1>1 DEF Sound, Phases, RunEnd, Over
  <2>3. TrackerOK'
    BY Knobs, <1>0, <1>1 DEF TrackerOK, RunEnd, Closed, Tracked
  <2>4. lost' \in 0..MaxLost
    BY <1>0, <1>1, Losing DEF RunEnd
  <2> QED
    BY <2>1, <2>2, <2>3, <2>4, BuilderMoves
<1>2. CASE EndUnseen(b)
  <2>1. Moves(b, "off", file[b], seen[b], stage[b])
    BY <1>a, <1>2 DEF Moves, Goto, StateFile, EndUnseen, Over
  <2>2. /\ Sound("off", file[b], seen[b], stage[b]) /\ "off" \in Phases /\ file[b] \in Files
        /\ seen[b] \in Runs \cup {NoRun} /\ stage[b] \in [Ports -> Stages]
    BY <1>0, <1>a, <1>c, <1>d, <1>2 DEF Sound, Phases, EndUnseen, Over
  <2>3. TrackerOK'
    BY <1>0, <1>2 DEF TrackerOK, EndUnseen
  <2>4. lost' \in 0..MaxLost
    BY <1>0, <1>2, Losing DEF EndUnseen
  <2> QED
    BY <2>1, <2>2, <2>3, <2>4, BuilderMoves
<1>3. ASSUME NEW p \in Ports, Enqueue(b, p) PROVE Typed'
  <2>0. Stage(b, p, "todo", "enqueued")
    BY <1>3 DEF Enqueue
  <2>1. /\ stage' = [stage EXCEPT ![b] = [stage[b] EXCEPT ![p] = "enqueued"]]
        /\ phase[b] = "build" /\ file[b] \in Runs
    BY <1>0, <1>3, <2>0, <1>s DEF Stages, Tracked, Sound, Enqueue
  <2>2. Moves(b, phase[b], file[b], seen[b], [stage[b] EXCEPT ![p] = "enqueued"])
    BY <1>a, <1>3, <2>1 DEF Moves, Enqueue
  <2>3. /\ Sound(phase[b], file[b], seen[b], [stage[b] EXCEPT ![p] = "enqueued"])
        /\ [stage[b] EXCEPT ![p] = "enqueued"] \in [Ports -> Stages]
    BY <1>c, <1>t, <2>1 DEF Stages
  <2>4. row' \in [Runs -> [Ports -> Row]]
    <3>1. row[file[b]][p] \in Row /\ row \in [Runs -> [Ports -> Row]]
      BY <1>0, <2>1 DEF TrackerOK
    <3> DEFINE cell == row[file[b]][p]
               next == IF cell.status = "absent" THEN [cell EXCEPT !.status = "queued"] ELSE cell
    <3>2. next \in Row
      BY <3>1 DEF Row
    <3>3. row' = [row EXCEPT ![file[b]][p] = next]
      BY <1>3, <3>1 DEF Enqueue
    <3> HIDE DEF next
    <3> QED
      BY <2>1, <3>1, <3>2, <3>3, NestedUpdate
  <2>5. TrackerOK'
    BY Knobs, <1>0, <1>3, <2>1, <2>4 DEF TrackerOK, Enqueue
  <2>6. lost' \in 0..MaxLost
    BY <1>0, <1>3, Losing DEF Enqueue
  <2> QED
    BY <1>a, <2>2, <2>3, <2>5, <2>6, BuilderMoves
<1>4. ASSUME NEW p \in Ports, MarkBuilding(b, p) PROVE Typed'
  <2>0. Stage(b, p, "enqueued", "building")
    BY <1>4 DEF MarkBuilding
  <2>1. /\ stage' = [stage EXCEPT ![b] = [stage[b] EXCEPT ![p] = "building"]]
        /\ phase[b] = "build" /\ file[b] \in Runs
    BY <1>0, <1>4, <2>0, <1>s DEF Stages, Tracked, Sound, MarkBuilding
  <2>2. Moves(b, phase[b], file[b], seen[b], [stage[b] EXCEPT ![p] = "building"])
    BY <1>a, <1>4, <2>1 DEF Moves, MarkBuilding
  <2>3. /\ Sound(phase[b], file[b], seen[b], [stage[b] EXCEPT ![p] = "building"])
        /\ [stage[b] EXCEPT ![p] = "building"] \in [Ports -> Stages]
    BY <1>c, <1>t, <2>1 DEF Stages
  <2>4. row' \in [Runs -> [Ports -> Row]]
    <3>1. row[file[b]][p] \in Row /\ row \in [Runs -> [Ports -> Row]]
      BY <1>0, <2>1 DEF TrackerOK
    <3> DEFINE next == [row[file[b]][p] EXCEPT !.status = "building"]
    <3>2. next \in Row
      BY <3>1 DEF Row
    <3>3. row' = [row EXCEPT ![file[b]][p] = next]
      BY <1>4, <3>1 DEF MarkBuilding
    <3> HIDE DEF next
    <3> QED
      BY <2>1, <3>1, <3>2, <3>3, NestedUpdate
  <2>5. TrackerOK'
    BY Knobs, <1>0, <1>4, <2>1, <2>4 DEF TrackerOK, MarkBuilding
  <2>6. lost' \in 0..MaxLost
    BY <1>0, <1>4, Losing DEF MarkBuilding
  <2> QED
    BY <1>a, <2>2, <2>3, <2>5, <2>6, BuilderMoves
<1>5. ASSUME NEW p \in Ports, StartUnseen(b, p) PROVE Typed'
  <2>0. Stage(b, p, "todo", "building") \/ Stage(b, p, "enqueued", "building")
    BY <1>5 DEF StartUnseen
  <2>1. stage' = [stage EXCEPT ![b] = [stage[b] EXCEPT ![p] = "building"]] /\ phase[b] = "build"
    BY <1>0, <1>5, <2>0, <1>s DEF Stages, Tracked, Sound, StartUnseen
  <2>2. Moves(b, phase[b], file[b], seen[b], [stage[b] EXCEPT ![p] = "building"])
    BY <1>a, <1>5, <2>1 DEF Moves, StartUnseen
  <2>3. /\ Sound(phase[b], file[b], seen[b], [stage[b] EXCEPT ![p] = "building"])
        /\ [stage[b] EXCEPT ![p] = "building"] \in [Ports -> Stages]
    BY <1>c, <1>t, <2>1 DEF Stages
  <2>5. TrackerOK'
    BY <1>0, <1>5 DEF TrackerOK, StartUnseen
  <2>6. lost' \in 0..MaxLost
    BY <1>0, <1>5, Losing DEF StartUnseen
  <2> QED
    BY <1>a, <2>2, <2>3, <2>5, <2>6, BuilderMoves
<1>6. ASSUME NEW p \in Ports, ResultUnseen(b, p) PROVE Typed'
  <2>0. Stage(b, p, "building", "done")
    BY <1>6 DEF ResultUnseen
  <2>1. stage' = [stage EXCEPT ![b] = [stage[b] EXCEPT ![p] = "done"]] /\ phase[b] = "build"
    BY <1>0, <1>6, <2>0, <1>s DEF Stages, Tracked, Sound, ResultUnseen
  <2>2. Moves(b, phase[b], file[b], seen[b], [stage[b] EXCEPT ![p] = "done"])
    BY <1>a, <1>6, <2>1 DEF Moves, ResultUnseen
  <2>3. /\ Sound(phase[b], file[b], seen[b], [stage[b] EXCEPT ![p] = "done"])
        /\ [stage[b] EXCEPT ![p] = "done"] \in [Ports -> Stages]
    BY <1>c, <1>t, <2>1 DEF Stages
  <2>5. TrackerOK'
    BY <1>0, <1>6 DEF TrackerOK, ResultUnseen
  <2>6. lost' \in 0..MaxLost
    BY <1>0, <1>6, Losing DEF ResultUnseen
  <2> QED
    BY <1>a, <2>2, <2>3, <2>5, <2>6, BuilderMoves
<1>7. ASSUME NEW p \in Ports, NEW o \in Outcome, Record(b, p, o) PROVE Typed'
  <2>0. Stage(b, p, "building", "done") \/ Stage(b, p, "todo", "done")
    BY <1>7 DEF Record
  <2>1. /\ stage' = [stage EXCEPT ![b] = [stage[b] EXCEPT ![p] = "done"]] /\ phase[b] = "build"
        /\ file[b] \in Runs
    BY <1>0, <1>7, <2>0, <1>s DEF Stages, Tracked, Sound, Record
  <2>2. Moves(b, phase[b], file[b], seen[b], [stage[b] EXCEPT ![p] = "done"])
    BY <1>a, <1>7, <2>1 DEF Moves, Record
  <2>3. /\ Sound(phase[b], file[b], seen[b], [stage[b] EXCEPT ![p] = "done"])
        /\ [stage[b] EXCEPT ![p] = "done"] \in [Ports -> Stages]
    BY <1>c, <1>t, <2>1 DEF Stages
  <2>4. row' \in [Runs -> [Ports -> Row]]
    BY <1>0, <1>7, <2>1, NestedUpdate DEF TrackerOK, Row, Outcome, Record
  <2>5. TrackerOK'
    BY Knobs, <1>0, <1>7, <2>1, <2>4 DEF TrackerOK, Record
  <2>6. lost' \in 0..MaxLost
    BY <1>0, <1>7, Losing DEF Record
  <2> QED
    BY <1>a, <2>2, <2>3, <2>5, <2>6, BuilderMoves
<1> QED
  BY <1>1, <1>2, <1>3, <1>4, <1>5, <1>6, <1>7 DEF Hook

LEMMA TickTyped == Typed /\ Tick => Typed'
<1> SUFFICES ASSUME Typed, Tick PROVE Typed'
  OBVIOUS
<1>1. age' \in [Runs -> 0..StaleHours]
  BY Knobs DEF Tick, Active, Stale, Typed, TypeOK
<1> QED
  BY <1>1 DEF Tick, Typed, TypeOK, SeenIsRun, EnqueuedIsTracked, BeginsFresh, Tracked

LEMMA StepTyped == Typed /\ [Next]_vars => Typed'
<1> SUFFICES ASSUME Typed, [Next]_vars PROVE Typed'
  OBVIOUS
<1>1. CASE Next
  BY <1>1, RequestTyped, HookTyped, TickTyped DEF Next
<1>2. CASE UNCHANGED vars
  BY <1>2 DEF Typed, TypeOK, SeenIsRun, EnqueuedIsTracked, BeginsFresh, Tracked
<1> QED
  BY <1>1, <1>2

LEMMA AlwaysTyped == Spec => []Typed
  BY InitTyped, StepTyped, PTL DEF Spec

\* Every column of the tracker and of the builders keeps its type (tracker/db.py).
THEOREM RunsTypeCorrect == Spec => []TypeOK
<1>1. Typed => TypeOK
  BY DEF Typed
<1> QED
  BY <1>1, AlwaysTyped, PTL

(***************************************************************************)
(* The rows of a run.  A run nobody started has no result; a run a builder *)
(* tracks was started, by that builder alone; and the ports its build has  *)
(* not finished have no result in it.                                      *)
(***************************************************************************)
UnstartedIsEmpty == \A r \in Runs, p \in Ports : state[r] = "none" => row[r][p].result = "none"

TrackedIsBegun == \A b \in Builders : Tracked(b) => state[file[b]] # "none"

Pending(b, p) == phase[b] = "build" /\ Tracked(b) /\ stage[b][p] # "done"
PendingIsBlank ==
  \A b \in Builders, p \in Ports : Pending(b, p) => row[file[b]][p].result = "none"

RunInvariant ==
  UnstartedIsEmpty /\ TrackedIsBegun /\ RunsNotShared /\ PendingIsBlank /\ PortStatusAgrees

LEMMA InitRuns == Init => RunInvariant
  BY Knobs DEF Init, RunInvariant, UnstartedIsEmpty, TrackedIsBegun, RunsNotShared, PendingIsBlank,
               PortStatusAgrees, Pending, Tracked

\* A step that starts no run, records nothing and begins no build anew.
Quiet ==
  /\ UNCHANGED <<attempt, success>>
  /\ \A r \in Runs : state'[r] = "none" => state[r] = "none"
  /\ \A r \in Runs, p \in Ports : row'[r][p].result = row[r][p].result
  /\ \A c \in Builders : file'[c] \in Runs => file'[c] = file[c]
  /\ \A c \in Builders, p \in Ports : Pending(c, p)' => Pending(c, p)

LEMMA QuietRuns ==
  ASSUME Typed, RunInvariant, Quiet
  PROVE  RunInvariant'
<1> USE DEF RunInvariant, Quiet
<1>1. UnstartedIsEmpty'
  BY DEF UnstartedIsEmpty
<1>2. TrackedIsBegun'
  BY DEF TrackedIsBegun, Tracked
<1>3. RunsNotShared'
  BY DEF RunsNotShared, Tracked
<1>4. PendingIsBlank'
  BY DEF PendingIsBlank, Pending, Tracked
<1>5. PortStatusAgrees'
  <2>1. /\ attempt \in [Ports -> [run : Runs \cup {NoRun}, result : {"none"} \cup Outcome]]
        /\ success \in [Ports -> Runs \cup {NoRun}]
    BY TypedParts DEF TrackerOK
  <2>2. ASSUME NEW p \in Ports
        PROVE  /\ attempt[p].run \in Runs \cup {NoRun} /\ success[p] \in Runs \cup {NoRun}
    BY <2>1
  <2> QED
    BY <2>2 DEF PortStatusAgrees
<1> QED
  BY <1>1, <1>2, <1>3, <1>4, <1>5

LEMMA RequestRuns ==
  ASSUME Typed, RunInvariant, NEW b \in Builders,
         RunStart(b) \/ Look(b) \/ Supersede(b) \/ AnswerLost(b) \/ StartLost(b) \/ Killed(b)
  PROVE  RunInvariant'
<1>0. TrackerOK /\ BuilderOK /\ Sound(phase[b], file[b], seen[b], stage[b])
  BY TypedParts, SoundEach
<1> USE Knobs, <1>0 DEF TrackerOK, BuilderOK, Phases, Goto, StateFile, Pending, Tracked
<1>1. CASE RunStart(b)
  <2>1. Quiet
    BY <1>1 DEF RunStart, Quiet
  <2> QED
    BY <2>1, QuietRuns
<1>2. CASE Look(b)
  <2>1. UNCHANGED <<tracker, stage>> /\ phase[b] = "look"
    BY <1>2 DEF Look
  <2>2. CASE Goto(b, "insert") /\ UNCHANGED file
    BY <2>1, <2>2, QuietRuns DEF Quiet
  <2>3. CASE Goto(b, "supersede") /\ UNCHANGED file
    BY <2>1, <2>3, QuietRuns DEF Quiet
  <2>4. CASE Untracked(b)
    BY <2>1, <2>4, QuietRuns DEF Quiet, Untracked
  <2> QED
    BY <1>2, <2>2, <2>3, <2>4 DEF Look
<1>3. CASE Supersede(b)
  <2>1. seen[b] \in Runs
    BY <1>3 DEF Sound, Supersede
  <2>2. Quiet
    BY <1>3, <2>1 DEF Supersede, Closed, Quiet
  <2> QED
    BY <2>2, QuietRuns
<1>4. CASE AnswerLost(b)
  <2>1. PICK r \in Runs : state' = [state EXCEPT ![r] = "open"]
    BY <1>4 DEF AnswerLost
  <2>2. Quiet
    BY <1>4, <2>1 DEF AnswerLost, Untracked, Quiet
  <2> QED
    BY <2>2, QuietRuns
<1>5. CASE StartLost(b)
  BY <1>5, QuietRuns DEF StartLost, Untracked, Quiet
<1>6. CASE Killed(b)
  BY <1>6, QuietRuns DEF Killed, Quiet
<1> QED
  BY <1>1, <1>2, <1>3, <1>4, <1>5, <1>6

LEMMA InsertRuns ==
  ASSUME Typed, RunInvariant, NEW b \in Builders, Insert(b)
  PROVE  RunInvariant'
<1>0. TrackerOK /\ BuilderOK
  BY TypedParts
<1>1. CASE Untracked(b) /\ UNCHANGED state
  BY Knobs, <1>0, <1>1, QuietRuns
     DEF Insert, Untracked, Quiet, TrackerOK, BuilderOK, Phases, Goto, StateFile, Pending, Tracked
<1>2. ASSUME NEW r \in Runs, state[r] = "none", state' = [state EXCEPT ![r] = "open"],
             StateFile(b, r), Goto(b, "build")
      PROVE  RunInvariant'
  <2>1. /\ \A q \in Runs : state'[q] = IF q = r THEN "open" ELSE state[q]
        /\ \A c \in Builders : file'[c] = IF c = b THEN r ELSE file[c]
        /\ \A c \in Builders : phase'[c] = IF c = b THEN "build" ELSE phase[c]
        /\ UNCHANGED <<row, attempt, success, stage>>
    BY <1>0, <1>2 DEF TrackerOK, BuilderOK, Insert, StateFile, Goto
  <2>2. \A c \in Builders : Tracked(c) => file[c] # r
    BY <1>2 DEF RunInvariant, TrackedIsBegun
  <2>3. UnstartedIsEmpty'
    BY <2>1 DEF RunInvariant, UnstartedIsEmpty
  <2>4. TrackedIsBegun'
    BY <2>1 DEF RunInvariant, TrackedIsBegun, Tracked
  <2>5. RunsNotShared'
    BY <2>1, <2>2 DEF RunInvariant, RunsNotShared, Tracked
  <2>6. PendingIsBlank'
    BY <1>2, <2>1 DEF RunInvariant, PendingIsBlank, UnstartedIsEmpty, Pending, Tracked
  <2>7. PortStatusAgrees'
    BY <2>1 DEF RunInvariant, PortStatusAgrees
  <2> QED
    BY <2>3, <2>4, <2>5, <2>6, <2>7 DEF RunInvariant
<1> QED
  BY <1>1, <1>2 DEF Insert

\* The only step that writes results: the reporting builder had none for the
\* port, and no other builder reports into its run.
LEMMA RecordRuns ==
  ASSUME Typed, RunInvariant, NEW b \in Builders, NEW p \in Ports, NEW o \in Outcome, Record(b, p, o)
  PROVE  RunInvariant'
<1>0. TrackerOK /\ BuilderOK
  BY TypedParts
<1> DEFINE r == file[b]
<1>1. r \in Runs /\ Pending(b, p)
  BY DEF Record, Tracked, Stage, Pending
<1>2. /\ \A q \in Runs, m \in Ports :
           row'[q][m].result = IF q = r /\ m = p THEN o ELSE row[q][m].result
      /\ UNCHANGED <<state, file, phase>>
  BY <1>0, <1>1 DEF Record, TrackerOK
<1>3. \A c \in Builders, m \in Ports :
        stage'[c][m] = IF c = b /\ m = p THEN "done" ELSE stage[c][m]
  BY <1>0, <1>1 DEF Record, Stage, BuilderOK
<1>4. /\ attempt'[p].run = r /\ attempt'[p].result = o
      /\ \A m \in Ports : m # p => attempt'[m] = attempt[m]
  BY <1>0, <1>1 DEF Record, TrackerOK
<1>5. /\ success'[p] = IF o = "success" THEN r ELSE success[p]
      /\ \A m \in Ports : m # p => success'[m] = success[m]
  BY <1>0, <1>1 DEF Record, TrackerOK
<1>6. row[r][p].result = "none"
  BY <1>1 DEF RunInvariant, PendingIsBlank
<1>7. /\ \A m \in Ports : attempt[m].run \in Runs \cup {NoRun} /\ success[m] \in Runs \cup {NoRun}
  BY <1>0 DEF TrackerOK
<1>8. state[r] # "none"
  BY <1>1 DEF RunInvariant, TrackedIsBegun, Tracked
<1> HIDE DEF r
<1>9. UnstartedIsEmpty'
  BY <1>2, <1>8 DEF RunInvariant, UnstartedIsEmpty
<1>10. TrackedIsBegun' /\ RunsNotShared'
  BY <1>2 DEF RunInvariant, TrackedIsBegun, RunsNotShared, Tracked
<1>11. PendingIsBlank'
  <2> SUFFICES ASSUME NEW c \in Builders, NEW m \in Ports, Pending(c, m)'
               PROVE  row'[file[c]][m].result = "none"
    BY <1>2 DEF PendingIsBlank
  <2>1. Pending(c, m) /\ ~(c = b /\ m = p)
    BY <1>2, <1>3 DEF Pending, Tracked
  <2>2. file[c] \in Runs /\ row[file[c]][m].result = "none"
    BY <2>1 DEF RunInvariant, PendingIsBlank, Pending, Tracked
  <2>3. ~(file[c] = r /\ m = p)
    BY <2>1, <2>2 DEF RunInvariant, RunsNotShared, Tracked, r
  <2> QED
    BY <1>2, <2>2, <2>3
<1>12. PortStatusAgrees'
  <2> SUFFICES ASSUME NEW m \in Ports
               PROVE  /\ attempt'[m].run # NoRun => row'[attempt'[m].run][m].result = attempt'[m].result
                      /\ success'[m] # NoRun => row'[success'[m]][m].result = "success"
    BY DEF PortStatusAgrees
  <2>1. CASE m # p
    BY <1>2, <1>4, <1>5, <1>7, <2>1 DEF RunInvariant, PortStatusAgrees
  <2>2. CASE m = p
    <3>1. success[p] # r
      BY <1>1, <1>6, Knobs DEF RunInvariant, PortStatusAgrees, r
    <3> QED
      BY <1>1, <1>2, <1>4, <1>5, <1>7, <2>2, <3>1 DEF RunInvariant, PortStatusAgrees
  <2> QED
    BY <2>1, <2>2
<1> QED
  BY <1>9, <1>10, <1>11, <1>12 DEF RunInvariant

LEMMA HookRuns ==
  ASSUME Typed, RunInvariant, NEW b \in Builders, Hook(b)
  PROVE  RunInvariant'
<1>0. TrackerOK /\ BuilderOK /\ Sound(phase[b], file[b], seen[b], stage[b])
  BY TypedParts, SoundEach
<1>s. ASSUME NEW p \in Ports, NEW from, NEW to \in Stages, Stage(b, p, from, to), from # "done"
      PROVE  \A c \in Builders, m \in Ports : stage'[c][m] # "done" => stage[c][m] # "done"
  BY <1>0, <1>s DEF Stage, BuilderOK, Stages
<1> USE DEF Stages
<1>1. CASE RunEnd(b)
  BY Knobs, <1>0, <1>1, QuietRuns
     DEF RunEnd, Over, Closed, Quiet, TrackerOK, BuilderOK, Goto, StateFile, Pending, Tracked
<1>2. CASE EndUnseen(b)
  BY <1>0, <1>2, QuietRuns DEF EndUnseen, Over, Quiet, BuilderOK, Goto, Pending, Tracked
<1>3. ASSUME NEW p \in Ports, Enqueue(b, p) PROVE RunInvariant'
  <2>1. Stage(b, p, "todo", "enqueued") /\ file[b] \in Runs
    BY <1>3 DEF Enqueue, Tracked
  <2>2. \A r \in Runs, m \in Ports : row'[r][m].result = row[r][m].result
    BY <1>0, <1>3, <2>1 DEF TrackerOK, Enqueue, Row
  <2>3. \A c \in Builders, m \in Ports : stage'[c][m] # "done" => stage[c][m] # "done"
    BY <1>s, <2>1
  <2> QED
    BY <1>3, <2>2, <2>3, QuietRuns DEF Enqueue, Quiet, Pending, Tracked
<1>4. ASSUME NEW p \in Ports, MarkBuilding(b, p) PROVE RunInvariant'
  <2>1. Stage(b, p, "enqueued", "building") /\ file[b] \in Runs
    BY <1>0, <1>4 DEF MarkBuilding, Stage, Sound
  <2>2. \A r \in Runs, m \in Ports : row'[r][m].result = row[r][m].result
    BY <1>0, <1>4, <2>1 DEF TrackerOK, MarkBuilding, Row
  <2>3. \A c \in Builders, m \in Ports : stage'[c][m] # "done" => stage[c][m] # "done"
    BY <1>s, <2>1
  <2> QED
    BY <1>4, <2>2, <2>3, QuietRuns DEF MarkBuilding, Quiet, Pending, Tracked
<1>5. ASSUME NEW p \in Ports, StartUnseen(b, p) PROVE RunInvariant'
  <2>1. \A c \in Builders, m \in Ports : stage'[c][m] # "done" => stage[c][m] # "done"
    BY <1>5, <1>s DEF StartUnseen
  <2> QED
    BY <1>5, <2>1, QuietRuns DEF StartUnseen, Quiet, Pending, Tracked
<1>6. ASSUME NEW p \in Ports, ResultUnseen(b, p) PROVE RunInvariant'
  <2>1. \A c \in Builders, m \in Ports : stage'[c][m] # "done" => stage[c][m] # "done"
    BY <1>6, <1>s DEF ResultUnseen
  <2> QED
    BY <1>6, <2>1, QuietRuns DEF ResultUnseen, Quiet, Pending, Tracked
<1>7. ASSUME NEW p \in Ports, NEW o \in Outcome, Record(b, p, o) PROVE RunInvariant'
  BY <1>7, RecordRuns
<1> QED
  BY <1>1, <1>2, <1>3, <1>4, <1>5, <1>6, <1>7 DEF Hook

LEMMA StepRuns == Typed /\ RunInvariant /\ [Next]_vars => RunInvariant'
<1> SUFFICES ASSUME Typed, RunInvariant, [Next]_vars PROVE RunInvariant'
  OBVIOUS
<1>1. CASE Tick
  BY <1>1, QuietRuns DEF Tick, Quiet, Pending, Tracked
<1>2. ASSUME NEW b \in Builders, Request(b) \/ AnswerLost(b) \/ StartLost(b) \/ Hook(b) \/ Killed(b)
      PROVE  RunInvariant'
  BY <1>2, RequestRuns, InsertRuns, HookRuns DEF Request
<1>3. CASE UNCHANGED vars
  BY <1>3, QuietRuns DEF Quiet, Pending, Tracked
<1> QED
  BY <1>1, <1>2, <1>3 DEF Next

\* Two builders never report into one run, although they race to start it
\* (start_build_run in tracker/db.py, hook_dsynth_start).
THEOREM RunsAreNotShared == Spec => []RunsNotShared
<1>1. Typed /\ RunInvariant => RunsNotShared
  BY DEF RunInvariant
<1> QED
  BY <1>1, InitTyped, InitRuns, StepTyped, StepRuns, PTL DEF Spec

\* The status of a port names runs that agree with it, whatever was lost,
\* superseded or reported late (record_build_result in tracker/db.py).
THEOREM StatusAgrees == Spec => []PortStatusAgrees
<1>1. Typed /\ RunInvariant => PortStatusAgrees
  BY DEF RunInvariant
<1> QED
  BY <1>1, InitTyped, InitRuns, StepTyped, StepRuns, PTL DEF Spec

(***************************************************************************)
(* II. Deliveries.                                                         *)
(***************************************************************************)
\* A row is found as the greatest index of a set.
LEMMA MaxIsMember ==
  ASSUME NEW n \in Nat, NEW S, S \subseteq 0..n, S # {}
  PROVE  Max(S) \in S /\ \A y \in S : y <= Max(S)
<1> DEFINE T == {n - x : x \in S}
<1>1. T \subseteq Nat /\ T # {}
  <2>1. \A x \in S : x \in 0..n /\ n - x \in Nat
    OBVIOUS
  <2> QED
    BY <2>1
<1>2. PICK d \in T : \A e \in T : ~ (<<e, d>> \in OpToRel(<, Nat))
  BY <1>1, NatLessThanWellFounded, WFMin, Zenon
<1>3. \A e \in T : d <= e
  <2>0. \A e \in T : e \in Nat /\ d \in Nat /\ (d <= e \/ e < d)
    <3> HIDE DEF T
    <3> QED
      BY <1>1
  <2> SUFFICES ASSUME NEW e \in T, e < d PROVE FALSE
    BY <2>0
  <2>1. e \in Nat /\ d \in Nat /\ <<e, d>> \in Nat \X Nat /\ <<e, d>>[1] = e /\ <<e, d>>[2] = d
    BY <1>1
  <2> QED
    BY <1>2, <2>1 DEF OpToRel
<1>4. PICK x \in S : d = n - x
  OBVIOUS
<1>5. \A y \in S : x >= y
  <2> SUFFICES ASSUME NEW y \in S PROVE x >= y
    OBVIOUS
  <2>1. n - y \in T /\ x \in 0..n /\ y \in 0..n
    OBVIOUS
  <2> QED
    BY <2>1, <1>3, <1>4
<1>6. Max(S) \in S /\ \A y \in S : Max(S) >= y
  BY <1>5 DEF Max
<1> QED
  BY <1>6

ResolutionOK ==
  /\ branch \in [BundleIds -> Branches]
  /\ resolution \in [BundleIds -> {"fixed", "accepted", "merged"}]
  /\ prior \in [BundleIds -> {"fixed", "accepted", "merged"}]
  /\ reached \in SUBSET BundleIds /\ excused \in SUBSET BundleIds

RowsOK == rows \in Seq(ReviewRow)

ThreadsOK == req \in [Threads -> DeliveryRequest \cup {Idle}] /\ holder \in Threads \cup {Idle}

CloneOK ==
  /\ clone \in [on : Branches \cup {Base}, adds : [Branches -> SUBSET BundleIds]]
  /\ remote \in [Branches -> SUBSET BundleIds]

PullRequest == [branch : Branches, state : {"open", "merged", "closed"}]
PrsOK == prs \in Seq(PullRequest)

PollsOK == poll \in [Pollers -> Poll \cup {Idle}]

\* A row or a request that does not say failed names a pull request.
PrsExist ==
  /\ \A i \in DOMAIN rows : rows[i].status # "create_failed" => rows[i].pr \in DOMAIN prs
  /\ \A t \in Threads : req[t] # Idle /\ req[t].result \in Open => req[t].pr \in DOMAIN prs
  /\ \A p \in Pollers : poll[p] # Idle => poll[p].pr \in DOMAIN prs

Delivering == ResolutionOK /\ RowsOK /\ ThreadsOK /\ CloneOK /\ PrsOK /\ PollsOK /\ PrsExist

\* Only a row that was open is ever written again: one that says a delivery failed stays.
NotFailed(i) == i \in DOMAIN rows /\ rows[i].status # "create_failed"
RowsHeld ==
  /\ \A t \in Threads : req[t] # Idle /\ req[t].own # 0 => NotFailed(req[t].own)
  /\ \A p \in Pollers : poll[p] # Idle => NotFailed(poll[p].row)

(***************************************************************************)
(* Requests.                                                               *)
(***************************************************************************)
Steps == {"gated", "deliver", "wait", "probe", "check", "checkout", "commit", "push", "ask",
          "restore", "record", "reconcile"}

LEMMA NotIdle == Idle \notin DeliveryRequest /\ Idle \notin Threads /\ Idle \notin Poll
  BY DeliveryAssumption

\* A request that goes on keeps what it knows.
LEMMA Advances ==
  ASSUME ThreadsOK, NEW t \in Threads, req[t] # Idle, NEW s \in Steps, Advance(t, s)
  PROVE  /\ req' \in [Threads -> DeliveryRequest \cup {Idle}]
         /\ req'[t] # Idle /\ req'[t].step = s /\ req'[t].bundle = req[t].bundle
         /\ req'[t].own = req[t].own /\ req'[t].result = req[t].result /\ req'[t].pr = req[t].pr
         /\ \A u \in Threads : u # t => req'[u] = req[u]
<1>1. req[t] \in DeliveryRequest
  BY DEF ThreadsOK
<1>2. [req[t] EXCEPT !.step = s] \in DeliveryRequest
  BY <1>1 DEF DeliveryRequest, Steps
<1>3. req' = [req EXCEPT ![t] = [req[t] EXCEPT !.step = s]]
  BY DEF Advance
<1> QED
  BY <1>1, <1>2, <1>3, NotIdle DEF ThreadsOK, DeliveryRequest

LEMMA Settles ==
  ASSUME ThreadsOK, NEW t \in Threads, req[t] # Idle, NEW s \in Steps,
         NEW r \in Open \cup {"create_failed"}, NEW k \in Nat, Settle(t, s, r, k)
  PROVE  /\ req' \in [Threads -> DeliveryRequest \cup {Idle}]
         /\ req'[t] # Idle /\ req'[t].step = s /\ req'[t].bundle = req[t].bundle
         /\ req'[t].own = req[t].own /\ req'[t].result = r /\ req'[t].pr = k
         /\ \A u \in Threads : u # t => req'[u] = req[u]
<1> DEFINE q == [req[t] EXCEPT !.step = s, !.result = r, !.pr = k]
<1>1. req[t] \in DeliveryRequest
  BY DEF ThreadsOK
<1>2. /\ q \in DeliveryRequest /\ q.step = s /\ q.bundle = req[t].bundle /\ q.own = req[t].own
      /\ q.result = r /\ q.pr = k
  BY <1>1 DEF DeliveryRequest, Steps
<1>3. req' = [req EXCEPT ![t] = q]
  BY DEF Settle
<1> HIDE DEF q
<1> QED
  BY <1>1, <1>2, <1>3, NotIdle DEF ThreadsOK

LEMMA Ends ==
  ASSUME ThreadsOK, NEW t \in Threads, Done(t)
  PROVE  /\ req' \in [Threads -> DeliveryRequest \cup {Idle}] /\ req'[t] = Idle
         /\ \A u \in Threads : u # t => req'[u] = req[u]
  BY DEF Done, ThreadsOK

LEMMA Begins ==
  ASSUME ThreadsOK, NEW t \in Threads, NEW b \in BundleIds, NEW s \in Steps, NewRequest(t, b, s)
  PROVE  /\ req' \in [Threads -> DeliveryRequest \cup {Idle}] /\ req[t] = Idle /\ req'[t] # Idle
         /\ req'[t].step = s /\ req'[t].bundle = b /\ req'[t].own = 0
         /\ req'[t].result = "create_failed"
         /\ \A u \in Threads : u # t => req'[u] = req[u]
<1> DEFINE q == [bundle |-> b, own |-> 0, same |-> FALSE, step |-> s, prior |-> "fixed",
                 result |-> "create_failed", pr |-> 0]
<1>1. /\ q \in DeliveryRequest /\ q.step = s /\ q.bundle = b /\ q.own = 0
      /\ q.result = "create_failed"
  BY DEF DeliveryRequest, Steps
<1>2. req' = [req EXCEPT ![t] = q] /\ req[t] = Idle
  BY DEF NewRequest
<1> HIDE DEF q
<1> QED
  BY <1>1, <1>2, NotIdle DEF ThreadsOK

(***************************************************************************)
(* Rows.                                                                   *)
(***************************************************************************)
\* A row that is written keeps its bundle, and every other row is as before.
Rewrites(i, s) ==
  /\ rows' \in Seq(ReviewRow) /\ Len(rows') = Len(rows) /\ DOMAIN rows' = DOMAIN rows
  /\ \A j \in DOMAIN rows : rows'[j].bundle = rows[j].bundle /\ (j # i => rows'[j] = rows[j])
  /\ rows'[i].status = s

LEMMA StatusRewrites ==
  ASSUME RowsOK, NEW i \in DOMAIN rows, NEW s \in Open \cup {"merged", "closed"},
         rows' = [rows EXCEPT ![i].status = s]
  PROVE  Rewrites(i, s) /\ rows'[i].pr = rows[i].pr
<1> DEFINE r == [rows[i] EXCEPT !.status = s]
<1>1. rows[i] \in ReviewRow
  BY DEF RowsOK
<1>2. r \in ReviewRow /\ r.bundle = rows[i].bundle /\ r.status = s /\ r.pr = rows[i].pr
  BY <1>1 DEF ReviewRow
<1>3. rows' = [rows EXCEPT ![i] = r]
  OBVIOUS
<1> HIDE DEF r
<1> QED
  BY <1>2, <1>3 DEF RowsOK, Rewrites

LEMMA UpdateRewrites ==
  ASSUME RowsOK, ThreadsOK, NEW t \in Threads, req[t] # Idle, req[t].result \in Open,
         NEW i \in DOMAIN rows, UpdateRow(i, t)
  PROVE  Rewrites(i, req[t].result) /\ rows'[i].pr = req[t].pr
<1> DEFINE r == [rows[i] EXCEPT !.status = req[t].result, !.pr = req[t].pr, !.diff = req[t].bundle]
<1>1. rows[i] \in ReviewRow /\ req[t] \in DeliveryRequest
  BY DEF RowsOK, ThreadsOK
<1>2. /\ r \in ReviewRow /\ r.bundle = rows[i].bundle /\ r.status = req[t].result
      /\ r.pr = req[t].pr
  BY <1>1 DEF ReviewRow, DeliveryRequest, Open
<1>3. rows' = [rows EXCEPT ![i] = r]
  BY DEF UpdateRow
<1> HIDE DEF r
<1> QED
  BY <1>2, <1>3 DEF RowsOK, Rewrites

\* A row that is added is the newest of its bundle.
Adds(b, s) ==
  /\ rows' \in Seq(ReviewRow) /\ Len(rows') = Len(rows) + 1
  /\ DOMAIN rows' = DOMAIN rows \cup {Len(rows) + 1} /\ Len(rows) + 1 \notin DOMAIN rows
  /\ \A j \in DOMAIN rows : rows'[j] = rows[j]
  /\ rows'[Len(rows) + 1].bundle = b /\ rows'[Len(rows) + 1].status = s

LEMMA FailureAdds ==
  ASSUME RowsOK, ThreadsOK, NEW t \in Threads, req[t] # Idle, RecordFailure(t)
  PROVE  Adds(req[t].bundle, "create_failed")
<1>1. req[t] \in DeliveryRequest
  BY DEF ThreadsOK
<1>2. /\ FailedRow(t) \in ReviewRow /\ FailedRow(t).bundle = req[t].bundle
      /\ FailedRow(t).status = "create_failed"
  BY <1>1 DEF FailedRow, ReviewRow, DeliveryRequest
<1>3. rows' = Append(rows, FailedRow(t))
  BY DEF RecordFailure
<1> QED
  BY <1>2, <1>3 DEF RowsOK, Adds

LEMMA OutcomeAdds ==
  ASSUME RowsOK, ThreadsOK, NEW t \in Threads, req[t] # Idle, rows' = Append(rows, OutcomeRow(t))
  PROVE  Adds(req[t].bundle, req[t].result) /\ rows'[Len(rows) + 1].pr = req[t].pr
<1>1. req[t] \in DeliveryRequest
  BY DEF ThreadsOK
<1>2. /\ OutcomeRow(t) \in ReviewRow /\ OutcomeRow(t).bundle = req[t].bundle
      /\ OutcomeRow(t).status = req[t].result /\ OutcomeRow(t).pr = req[t].pr
  BY <1>1 DEF OutcomeRow, ReviewRow, DeliveryRequest, Open
<1> QED
  BY <1>2 DEF RowsOK, Adds

LEMMA LatestIsRow ==
  ASSUME RowsOK, NEW b \in BundleIds
  PROVE  Latest(b) = 0 \/ Latest(b) \in RowsOf(b)
<1>1. RowsOf(b) \subseteq 0..Len(rows) /\ Len(rows) \in Nat
  BY DEF RowsOf, RowsOK
<1> QED
  BY <1>1, MaxIsMember DEF Latest

LEMMA FoundIsOpen ==
  ASSUME RowsOK, NEW n
  PROVE  FindOpen(n) = 0 \/ (FindOpen(n) \in DOMAIN rows /\ rows[FindOpen(n)].status \in Open)
<1>1. OpenRows(n) \subseteq 0..Len(rows) /\ Len(rows) \in Nat
  BY DEF OpenRows, RowsOK
<1>2. FindOpen(n) = 0 \/ FindOpen(n) \in OpenRows(n)
  BY <1>1, MaxIsMember DEF FindOpen
<1> QED
  BY <1>2 DEF OpenRows

LEMMA NewestPr ==
  ASSUME PrsOK, NEW n, OpenPrs(n) # {}
  PROVE  Max(OpenPrs(n)) \in Nat /\ Max(OpenPrs(n)) \in DOMAIN prs
<1>1. OpenPrs(n) \subseteq 0..Len(prs) /\ Len(prs) \in Nat
  BY DEF OpenPrs, PrsOK
<1>2. Max(OpenPrs(n)) \in OpenPrs(n)
  BY <1>1, MaxIsMember
<1> QED
  BY <1>1, <1>2 DEF OpenPrs

(***************************************************************************)
(* Types.                                                                  *)
(***************************************************************************)
DeliverySound == Delivering /\ RowsHeld

LEMMA InitSound == DeliveryInit => DeliverySound
<1> SUFFICES ASSUME DeliveryInit PROVE DeliverySound
  OBVIOUS
<1> USE DEF DeliveryInit
<1>1. ResolutionOK /\ CloneOK
  BY DEF ResolutionOK, CloneOK
<1>2. RowsOK /\ PrsOK /\ ThreadsOK /\ PollsOK
  BY DEF RowsOK, PrsOK, ThreadsOK, PollsOK
<1>3. PrsExist /\ RowsHeld
  BY DEF PrsExist, RowsHeld
<1> QED
  BY <1>1, <1>2, <1>3 DEF DeliverySound, Delivering

LEMMA BusyThread ==
  ASSUME ThreadsOK, NEW t \in Threads, req[t] # Idle
  PROVE  /\ req[t] \in DeliveryRequest /\ req[t].bundle \in BundleIds
         /\ req[t].own \in Nat /\ req[t].result \in Open \cup {"create_failed"} /\ req[t].pr \in Nat
  BY DEF ThreadsOK, DeliveryRequest

\* What a request knows of rows and pull requests stays true while none goes away.
StillNotFailed(i) == i \in DOMAIN rows' /\ rows'[i].status # "create_failed"

LEMMA KnownStays ==
  ASSUME DeliverySound, \A p \in Pollers : poll'[p] = poll[p],
         DOMAIN prs \subseteq DOMAIN prs',
         \A i \in DOMAIN rows : NotFailed(i) => StillNotFailed(i),
         \A i \in DOMAIN rows' : rows'[i].status # "create_failed" => rows'[i].pr \in DOMAIN prs',
         \A u \in Threads : req'[u] # Idle /\ req'[u] # req[u] =>
           /\ req'[u].result \in Open => req'[u].pr \in DOMAIN prs'
           /\ req'[u].own # 0 => StillNotFailed(req'[u].own)
  PROVE  PrsExist' /\ RowsHeld'
<1>1. PrsExist /\ RowsHeld
  BY DEF DeliverySound, Delivering
<1>2. \A i : NotFailed(i) => StillNotFailed(i)
  BY DEF NotFailed
<1>3. ASSUME NEW u \in Threads, req'[u] # Idle
      PROVE  /\ req'[u].result \in Open => req'[u].pr \in DOMAIN prs'
             /\ req'[u].own # 0 => StillNotFailed(req'[u].own)
  <2>1. CASE req'[u] = req[u]
    BY <1>1, <1>2, <1>3, <2>1 DEF PrsExist, RowsHeld
  <2>2. CASE req'[u] # req[u]
    BY <1>3, <2>2
  <2> QED
    BY <2>1, <2>2
<1>4. ASSUME NEW p \in Pollers, poll'[p] # Idle
      PROVE  poll'[p].pr \in DOMAIN prs' /\ StillNotFailed(poll'[p].row)
  BY <1>1, <1>2, <1>4 DEF PrsExist, RowsHeld
<1> QED
  BY <1>3, <1>4 DEF PrsExist, RowsHeld, StillNotFailed, NotFailed

LEMMA FailureSound ==
  ASSUME DeliverySound, NEW t \in Threads, req[t] # Idle, RecordFailure(t)
  PROVE  DeliverySound'
<1>0. /\ ResolutionOK /\ RowsOK /\ ThreadsOK /\ CloneOK /\ PrsOK /\ PollsOK /\ PrsExist /\ RowsHeld
  BY DEF DeliverySound, Delivering
<1>1. /\ req' \in [Threads -> DeliveryRequest \cup {Idle}] /\ req'[t] = Idle
      /\ \A u \in Threads : u # t => req'[u] = req[u]
  BY <1>0, Ends DEF RecordFailure
<1>2. Adds(req[t].bundle, "create_failed")
  BY <1>0, FailureAdds
<1>3. ResolutionOK' /\ RowsOK' /\ ThreadsOK' /\ CloneOK' /\ PrsOK' /\ PollsOK'
  BY <1>0, <1>1, <1>2
     DEF RecordFailure, ResolutionOK, RowsOK, ThreadsOK, CloneOK, PrsOK, PollsOK, Adds
<1>4. /\ \A i \in DOMAIN rows : NotFailed(i) => StillNotFailed(i)
      /\ \A i \in DOMAIN rows' : rows'[i].status # "create_failed" => rows'[i].pr \in DOMAIN prs'
  BY <1>0, <1>2 DEF RecordFailure, PrsExist, NotFailed, StillNotFailed, Adds, Open
<1>5. PrsExist' /\ RowsHeld'
  BY <1>0, <1>1, <1>4, KnownStays DEF RecordFailure
<1> QED
  BY <1>3, <1>5 DEF DeliverySound, Delivering

LEMMA PrepareSound ==
  ASSUME DeliverySound, NEW t \in Threads, Prepare(t)
  PROVE  DeliverySound'
<1>0. /\ ResolutionOK /\ RowsOK /\ ThreadsOK /\ CloneOK /\ PrsOK /\ PollsOK /\ PrsExist /\ RowsHeld
  BY DEF DeliverySound, Delivering
<1> USE DEF At, Steps
<1>1. CASE Accept(t)
  <2>1. req[t] # Idle
    BY <1>1 DEF Accept
  <2>2. /\ req' \in [Threads -> DeliveryRequest \cup {Idle}]
        /\ req'[t] # Idle /\ req'[t].own = req[t].own /\ req'[t].result = req[t].result
        /\ req'[t].pr = req[t].pr
        /\ \A u \in Threads : u # t => req'[u] = req[u]
    BY <1>0, <1>1, <2>1, Advances DEF Accept
  <2>3. ResolutionOK' /\ RowsOK' /\ ThreadsOK' /\ CloneOK' /\ PrsOK' /\ PollsOK'
    BY <1>0, <1>1, <2>1, <2>2, BusyThread
       DEF Accept, ResolutionOK, RowsOK, ThreadsOK, CloneOK, PrsOK, PollsOK, DeliveryRequest
  <2>4. PrsExist' /\ RowsHeld'
    BY <1>0, <1>1, <2>1, <2>2, <2>3, KnownStays DEF Accept, PrsExist, RowsHeld, NotFailed, StillNotFailed
  <2> QED
    BY <2>3, <2>4 DEF DeliverySound, Delivering
<1>2. CASE Skip(t)
  <2>1. req[t] # Idle
    BY <1>2 DEF Skip
  <2>2. /\ req' \in [Threads -> DeliveryRequest \cup {Idle}]
        /\ req'[t] = Idle
        /\ \A u \in Threads : u # t => req'[u] = req[u]
    BY <1>0, <1>2, <2>1, Ends DEF Skip
  <2>3. ResolutionOK' /\ RowsOK' /\ ThreadsOK' /\ CloneOK' /\ PrsOK' /\ PollsOK'
    BY <1>0, <1>2, <2>1, <2>2, BusyThread
       DEF Skip, ResolutionOK, RowsOK, ThreadsOK, CloneOK, PrsOK, PollsOK
  <2>4. PrsExist' /\ RowsHeld'
    BY <1>0, <1>2, <2>1, <2>2, <2>3, KnownStays DEF Skip, PrsExist, RowsHeld, NotFailed, StillNotFailed
  <2> QED
    BY <2>3, <2>4 DEF DeliverySound, Delivering
<1>3. CASE NotPrepared(t) \/ WaitedTooLong(t)
  BY <1>3, FailureSound DEF NotPrepared, WaitedTooLong
<1>4. CASE LookUp(t)
  <2> DEFINE i == FindOpen(Mine(t))
             q == [req[t] EXCEPT !.step = "wait", !.own = i,
                                 !.same = i # 0 /\ rows[i].diff = req[t].bundle]
  <2>1. req[t] # Idle
    BY <1>4 DEF LookUp
  <2>2. i = 0 \/ (i \in DOMAIN rows /\ rows[i].status \in Open)
    BY <1>0, FoundIsOpen
  <2>3. i \in Nat
    BY <1>0, <2>2 DEF RowsOK
  <2>4. /\ q \in DeliveryRequest /\ q.own = i /\ q.result = req[t].result /\ q.pr = req[t].pr
    BY <1>0, <2>1, <2>3, BusyThread DEF DeliveryRequest
  <2>5. req' = [req EXCEPT ![t] = q]
    BY <1>4 DEF LookUp
  <2> HIDE DEF q
  <2>6. /\ req' \in [Threads -> DeliveryRequest \cup {Idle}] /\ req'[t] = q
        /\ \A u \in Threads : u # t => req'[u] = req[u]
    BY <1>0, <2>4, <2>5 DEF ThreadsOK
  <2>7. ResolutionOK' /\ RowsOK' /\ ThreadsOK' /\ CloneOK' /\ PrsOK' /\ PollsOK'
    BY <1>0, <1>4, <2>6 DEF LookUp, ResolutionOK, RowsOK, ThreadsOK, CloneOK, PrsOK, PollsOK
  <2>8. StillNotFailed(i) \/ i = 0
    BY <1>4, <2>2 DEF LookUp, StillNotFailed, Open
  <2> HIDE DEF i
  <2>9. PrsExist' /\ RowsHeld'
    BY <1>0, <1>4, <2>1, <2>4, <2>6, <2>8, KnownStays
       DEF LookUp, PrsExist, NotFailed, StillNotFailed
  <2> QED
    BY <2>7, <2>9 DEF DeliverySound, Delivering
<1>5. CASE TakeClone(t)
  <2>1. req[t] # Idle
    BY <1>5 DEF TakeClone, Provider
  <2>2. /\ req' \in [Threads -> DeliveryRequest \cup {Idle}]
        /\ req'[t] # Idle /\ req'[t].own = req[t].own /\ req'[t].result = req[t].result
        /\ req'[t].pr = req[t].pr
        /\ \A u \in Threads : u # t => req'[u] = req[u]
    BY <1>0, <1>5, <2>1, Advances DEF TakeClone, Provider
  <2>3. ResolutionOK' /\ RowsOK' /\ ThreadsOK' /\ CloneOK' /\ PrsOK' /\ PollsOK'
    BY <1>0, <1>5, <2>1, <2>2, BusyThread
       DEF TakeClone, Provider, ResolutionOK, RowsOK, ThreadsOK, CloneOK, PrsOK, PollsOK
  <2>4. PrsExist' /\ RowsHeld'
    BY <1>0, <1>5, <2>1, <2>2, <2>3, KnownStays DEF TakeClone, Provider, PrsExist, RowsHeld, NotFailed, StillNotFailed
  <2> QED
    BY <2>3, <2>4 DEF DeliverySound, Delivering
<1> QED
  BY <1>1, <1>2, <1>3, <1>4, <1>5 DEF Prepare

LEMMA PublishSound ==
  ASSUME DeliverySound, NEW t \in Threads, Publish(t)
  PROVE  DeliverySound'
<1>0. /\ ResolutionOK /\ RowsOK /\ ThreadsOK /\ CloneOK /\ PrsOK /\ PollsOK /\ PrsExist /\ RowsHeld
  BY DEF DeliverySound, Delivering
<1> USE DEF At, Steps
<1>1. CASE Probe(t)
  <2> DEFINE open == OpenPrs(Mine(t))
  <2>1. req[t] # Idle
    BY <1>1 DEF Probe
  <2>2. /\ req' \in [Threads -> DeliveryRequest \cup {Idle}] /\ req'[t].own = req[t].own
        /\ req'[t].result \in Open => req'[t].pr \in DOMAIN prs
        /\ \A u \in Threads : u # t => req'[u] = req[u]
    <3>1. CASE open = {}
      <4>1. Advance(t, "check")
        BY <1>1, <3>1 DEF Probe
      <4> QED
        BY <1>0, <2>1, <4>1, Advances DEF PrsExist
    <3>2. CASE open # {}
      <4>1. Settle(t, "record", "updated", Max(open))
        BY <1>1, <3>2 DEF Probe
      <4> QED
        BY <1>0, <2>1, <3>2, <4>1, Settles, NewestPr DEF Open
    <3> QED
      BY <3>1, <3>2
  <2>3. ResolutionOK' /\ RowsOK' /\ ThreadsOK' /\ CloneOK' /\ PrsOK' /\ PollsOK'
    BY <1>0, <1>1, <2>1, <2>2, BusyThread
       DEF Probe, Provider, ResolutionOK, RowsOK, ThreadsOK, CloneOK, PrsOK, PollsOK
  <2>4. PrsExist' /\ RowsHeld'
    BY <1>0, <1>1, <2>1, <2>2, <2>3, KnownStays
       DEF Probe, Provider, PrsExist, RowsHeld, NotFailed, StillNotFailed
  <2> QED
    BY <2>3, <2>4 DEF DeliverySound, Delivering
<1>2. CASE CheckClone(t)
  <2>1. req[t] # Idle
    BY <1>2 DEF CheckClone, Provider
  <2>2. /\ req' \in [Threads -> DeliveryRequest \cup {Idle}]
        /\ req'[t] # Idle /\ req'[t].own = req[t].own /\ req'[t].result = req[t].result
        /\ req'[t].pr = req[t].pr
        /\ \A u \in Threads : u # t => req'[u] = req[u]
    BY <1>0, <1>2, <2>1, Advances DEF CheckClone, Provider
  <2>3. ResolutionOK' /\ RowsOK' /\ ThreadsOK' /\ CloneOK' /\ PrsOK' /\ PollsOK'
    BY <1>0, <1>2, <2>1, <2>2, BusyThread
       DEF CheckClone, Provider, ResolutionOK, RowsOK, ThreadsOK, CloneOK, PrsOK, PollsOK
  <2>4. PrsExist' /\ RowsHeld'
    BY <1>0, <1>2, <2>1, <2>2, <2>3, KnownStays
       DEF CheckClone, Provider, PrsExist, RowsHeld, NotFailed, StillNotFailed
  <2> QED
    BY <2>3, <2>4 DEF DeliverySound, Delivering
<1>3. CASE Checkout(t)
  <2>1. req[t] # Idle
    BY <1>3 DEF Checkout, Provider, Mine
  <2>2. /\ req' \in [Threads -> DeliveryRequest \cup {Idle}]
        /\ req'[t] # Idle /\ req'[t].own = req[t].own /\ req'[t].result = req[t].result
        /\ req'[t].pr = req[t].pr
        /\ \A u \in Threads : u # t => req'[u] = req[u]
    BY <1>0, <1>3, <2>1, Advances DEF Checkout, Provider, Mine
  <2>3. ResolutionOK' /\ RowsOK' /\ ThreadsOK' /\ CloneOK' /\ PrsOK' /\ PollsOK'
    BY <1>0, <1>3, <2>1, <2>2, BusyThread
       DEF Checkout, Provider, Mine, ResolutionOK, RowsOK, ThreadsOK, CloneOK, PrsOK, PollsOK
  <2>4. PrsExist' /\ RowsHeld'
    BY <1>0, <1>3, <2>1, <2>2, <2>3, KnownStays
       DEF Checkout, Provider, Mine, PrsExist, RowsHeld, NotFailed, StillNotFailed
  <2> QED
    BY <2>3, <2>4 DEF DeliverySound, Delivering
<1>4. CASE Commit(t)
  <2>1. req[t] # Idle
    BY <1>4 DEF Commit, Provider
  <2>2. /\ req' \in [Threads -> DeliveryRequest \cup {Idle}]
        /\ req'[t] # Idle /\ req'[t].own = req[t].own /\ req'[t].result = req[t].result
        /\ req'[t].pr = req[t].pr
        /\ \A u \in Threads : u # t => req'[u] = req[u]
    BY <1>0, <1>4, <2>1, Advances DEF Commit, Provider
  <2>3. ResolutionOK' /\ RowsOK' /\ ThreadsOK' /\ CloneOK' /\ PrsOK' /\ PollsOK'
    BY <1>0, <1>4, <2>1, <2>2, BusyThread
       DEF Commit, Provider, ResolutionOK, RowsOK, ThreadsOK, CloneOK, PrsOK, PollsOK
  <2>4. PrsExist' /\ RowsHeld'
    BY <1>0, <1>4, <2>1, <2>2, <2>3, KnownStays
       DEF Commit, Provider, PrsExist, RowsHeld, NotFailed, StillNotFailed
  <2> QED
    BY <2>3, <2>4 DEF DeliverySound, Delivering
<1>5. CASE Push(t)
  <2>1. req[t] # Idle
    BY <1>5 DEF Push, Provider, Mine
  <2>2. /\ req' \in [Threads -> DeliveryRequest \cup {Idle}]
        /\ req'[t] # Idle /\ req'[t].own = req[t].own /\ req'[t].result = req[t].result
        /\ req'[t].pr = req[t].pr
        /\ \A u \in Threads : u # t => req'[u] = req[u]
    BY <1>0, <1>5, <2>1, Advances DEF Push, Provider, Mine
  <2>3. ResolutionOK' /\ RowsOK' /\ ThreadsOK' /\ CloneOK' /\ PrsOK' /\ PollsOK'
    BY <1>0, <1>5, <2>1, <2>2, BusyThread
       DEF Push, Provider, Mine, ResolutionOK, RowsOK, ThreadsOK, CloneOK, PrsOK, PollsOK
  <2>4. PrsExist' /\ RowsHeld'
    BY <1>0, <1>5, <2>1, <2>2, <2>3, KnownStays
       DEF Push, Provider, Mine, PrsExist, RowsHeld, NotFailed, StillNotFailed
  <2> QED
    BY <2>3, <2>4 DEF DeliverySound, Delivering
<1>6. CASE ProviderFails(t)
  <2>1. req[t] # Idle
    BY <1>6 DEF ProviderFails, Provider
  <2>2. /\ req' \in [Threads -> DeliveryRequest \cup {Idle}]
        /\ req'[t] # Idle /\ req'[t].own = req[t].own /\ req'[t].result = "create_failed"
        /\ \A u \in Threads : u # t => req'[u] = req[u]
    BY <1>0, <1>6, <2>1, Settles DEF ProviderFails, Provider
  <2>3. ResolutionOK' /\ RowsOK' /\ ThreadsOK' /\ CloneOK' /\ PrsOK' /\ PollsOK'
    BY <1>0, <1>6, <2>1, <2>2, BusyThread
       DEF ProviderFails, Provider, ResolutionOK, RowsOK, ThreadsOK, CloneOK, PrsOK, PollsOK
  <2>4. PrsExist' /\ RowsHeld'
    BY <1>0, <1>6, <2>1, <2>2, <2>3, KnownStays
       DEF ProviderFails, Provider, PrsExist, RowsHeld, NotFailed, StillNotFailed, Open
  <2> QED
    BY <2>3, <2>4 DEF DeliverySound, Delivering
<1>7. ASSUME NEW yes \in BOOLEAN, Ask(t, yes) PROVE DeliverySound'
  <2> DEFINE open == OpenPrs(Mine(t))
  <2>1. req[t] # Idle /\ req[t].bundle \in BundleIds /\ Mine(t) \in Branches
    BY <1>0, <1>7, BusyThread DEF Ask, Mine, ResolutionOK
  <2>2. PrsOK' /\ DOMAIN prs \subseteq DOMAIN prs' /\ (open = {} => Len(prs') \in DOMAIN prs')
    <3>1. CASE open # {}
      BY <1>0, <1>7, <3>1 DEF Ask, PrsOK
    <3>2. CASE open = {}
      <4>1. prs' = Append(prs, [branch |-> Mine(t), state |-> "open"])
        BY <1>7, <3>2 DEF Ask
      <4> QED
        BY <1>0, <2>1, <4>1 DEF PrsOK, PullRequest
    <3> QED
      BY <3>1, <3>2
  <2>3. /\ req' \in [Threads -> DeliveryRequest \cup {Idle}] /\ req'[t].own = req[t].own
        /\ req'[t].result \in Open => req'[t].pr \in DOMAIN prs'
        /\ \A u \in Threads : u # t => req'[u] = req[u]
    <3>1. CASE open # {}
      <4>1. Settle(t, "restore", "updated", Max(open))
        BY <1>7, <3>1 DEF Ask
      <4> QED
        BY <1>0, <2>1, <2>2, <3>1, <4>1, Settles, NewestPr DEF Open
    <3>2. CASE open = {} /\ yes
      <4>1. Settle(t, "restore", "created", Len(prs')) /\ Len(prs') \in Nat
        BY <1>7, <2>2, <3>2 DEF Ask, PrsOK
      <4> QED
        BY <1>0, <2>1, <2>2, <3>2, <4>1, Settles DEF Open
    <3>3. CASE open = {} /\ ~yes
      <4>1. Settle(t, "restore", "create_failed", 0)
        BY <1>7, <3>3 DEF Ask
      <4> QED
        BY <1>0, <2>1, <4>1, Settles DEF Open
    <3> QED
      BY <3>1, <3>2, <3>3
  <2>4. ResolutionOK' /\ RowsOK' /\ ThreadsOK' /\ CloneOK' /\ PollsOK'
    BY <1>0, <1>7, <2>1, <2>3
       DEF Ask, Provider, ResolutionOK, RowsOK, ThreadsOK, CloneOK, PollsOK
  <2>5. PrsExist' /\ RowsHeld'
    BY <1>0, <1>7, <2>1, <2>2, <2>3, KnownStays
       DEF Ask, Provider, PrsExist, RowsHeld, NotFailed, StillNotFailed
  <2> QED
    BY <2>2, <2>4, <2>5 DEF DeliverySound, Delivering
<1>8. CASE \E yes \in BOOLEAN : Restore(t, yes)
  <2>1. req[t] # Idle
    BY <1>8 DEF Restore, Provider
  <2>2. /\ req' \in [Threads -> DeliveryRequest \cup {Idle}]
        /\ req'[t] # Idle /\ req'[t].own = req[t].own /\ req'[t].result = req[t].result
        /\ req'[t].pr = req[t].pr
        /\ \A u \in Threads : u # t => req'[u] = req[u]
    BY <1>0, <1>8, <2>1, Advances DEF Restore, Provider
  <2>3. ResolutionOK' /\ RowsOK' /\ ThreadsOK' /\ CloneOK' /\ PrsOK' /\ PollsOK'
    BY <1>0, <1>8, <2>1, <2>2, BusyThread
       DEF Restore, Provider, ResolutionOK, RowsOK, ThreadsOK, CloneOK, PrsOK, PollsOK
  <2>4. PrsExist' /\ RowsHeld'
    BY <1>0, <1>8, <2>1, <2>2, <2>3, KnownStays
       DEF Restore, Provider, PrsExist, RowsHeld, NotFailed, StillNotFailed
  <2> QED
    BY <2>3, <2>4 DEF DeliverySound, Delivering
<1> QED
  BY <1>1, <1>2, <1>3, <1>4, <1>5, <1>6, <1>7, <1>8 DEF Publish

\* Only a request with an open result takes over the open row of its branch.
Reconciling == \A t \in Threads : At(t, "reconcile") => req[t].result \in Open

\* What rewriting a row that is not a failed delivery, or adding a row, keeps.
LEMMA RewriteSound ==
  ASSUME DeliverySound, NEW t \in Threads, req[t] # Idle, req[t].result \in Open,
         NEW i \in DOMAIN rows, UpdateRow(i, t), Done(t), RecordRest
  PROVE  DeliverySound'
<1>0. /\ ResolutionOK /\ RowsOK /\ ThreadsOK /\ CloneOK /\ PrsOK /\ PollsOK /\ PrsExist /\ RowsHeld
  BY DEF DeliverySound, Delivering
<1>1. /\ req' \in [Threads -> DeliveryRequest \cup {Idle}] /\ req'[t] = Idle
      /\ \A u \in Threads : u # t => req'[u] = req[u]
  BY <1>0, Ends
<1>2. Rewrites(i, req[t].result) /\ rows'[i].pr = req[t].pr
  BY <1>0, UpdateRewrites
<1>3. ResolutionOK' /\ RowsOK' /\ ThreadsOK' /\ CloneOK' /\ PrsOK' /\ PollsOK'
  BY <1>0, <1>1, <1>2
     DEF RecordRest, ResolutionOK, RowsOK, ThreadsOK, CloneOK, PrsOK, PollsOK, Rewrites
<1>4. \A k \in DOMAIN rows : NotFailed(k) => StillNotFailed(k)
  BY <1>2 DEF NotFailed, StillNotFailed, Rewrites, Open
<1>5. \A k \in DOMAIN rows' : rows'[k].status # "create_failed" => rows'[k].pr \in DOMAIN prs'
  BY <1>0, <1>2 DEF RecordRest, PrsExist, Rewrites
<1>6. PrsExist' /\ RowsHeld'
  BY <1>0, <1>1, <1>4, <1>5, KnownStays DEF RecordRest
<1> QED
  BY <1>3, <1>6 DEF DeliverySound, Delivering

LEMMA RecordSound ==
  ASSUME DeliverySound, Reconciling, NEW t \in Threads, RecordOutcome(t)
  PROVE  DeliverySound'
<1>0. /\ ResolutionOK /\ RowsOK /\ ThreadsOK /\ CloneOK /\ PrsOK /\ PollsOK /\ PrsExist /\ RowsHeld
  BY DEF DeliverySound, Delivering
<1> USE DEF At, Steps
<1>1. CASE RecordFailed(t)
  BY <1>1, FailureSound DEF RecordFailed
<1>2. CASE RecordUpdate(t)
  <2>1. req[t] # Idle /\ req[t].result \in Open /\ req[t].own \in DOMAIN rows
    BY <1>0, <1>2 DEF RecordUpdate, Open, RowsHeld, NotFailed
  <2> QED
    BY <1>2, <2>1, FailureSound, RewriteSound DEF RecordUpdate
<1>3. CASE RecordFresh(t)
  <2>1. req[t] # Idle /\ req[t].result \in Open
    BY <1>3 DEF RecordFresh
  <2>2. CASE ~MayOpen(0, Mine(t))
    <3>1. Advance(t, "reconcile") /\ UNCHANGED rows
      BY <1>3, <2>2 DEF RecordFresh
    <3>2. /\ req' \in [Threads -> DeliveryRequest \cup {Idle}]
          /\ req'[t].own = req[t].own /\ req'[t].result = req[t].result /\ req'[t].pr = req[t].pr
          /\ \A u \in Threads : u # t => req'[u] = req[u]
      BY <1>0, <2>1, <3>1, Advances
    <3>3. ResolutionOK' /\ RowsOK' /\ ThreadsOK' /\ CloneOK' /\ PrsOK' /\ PollsOK'
      BY <1>0, <1>3, <3>1, <3>2
         DEF RecordFresh, RecordRest, ResolutionOK, RowsOK, ThreadsOK, CloneOK, PrsOK, PollsOK
    <3>4. PrsExist' /\ RowsHeld'
      BY <1>0, <1>3, <2>1, <3>1, <3>2, KnownStays
         DEF RecordFresh, RecordRest, PrsExist, RowsHeld, NotFailed, StillNotFailed
    <3> QED
      BY <3>3, <3>4 DEF DeliverySound, Delivering
  <2>3. CASE MayOpen(0, Mine(t))
    <3>1. rows' = Append(rows, OutcomeRow(t)) /\ Done(t)
      BY <1>3, <2>3 DEF RecordFresh
    <3>2. /\ req' \in [Threads -> DeliveryRequest \cup {Idle}] /\ req'[t] = Idle
          /\ \A u \in Threads : u # t => req'[u] = req[u]
      BY <1>0, <3>1, Ends
    <3>3. Adds(req[t].bundle, req[t].result) /\ rows'[Len(rows) + 1].pr = req[t].pr
      BY <1>0, <2>1, <3>1, OutcomeAdds
    <3>4. ResolutionOK' /\ RowsOK' /\ ThreadsOK' /\ CloneOK' /\ PrsOK' /\ PollsOK'
      BY <1>0, <1>3, <3>2, <3>3
         DEF RecordFresh, RecordRest, ResolutionOK, RowsOK, ThreadsOK, CloneOK, PrsOK, PollsOK, Adds
    <3>5. /\ \A i \in DOMAIN rows : NotFailed(i) => StillNotFailed(i)
          /\ \A i \in DOMAIN rows' : rows'[i].status # "create_failed" => rows'[i].pr \in DOMAIN prs'
      BY <1>0, <1>3, <2>1, <3>3
         DEF RecordFresh, RecordRest, PrsExist, NotFailed, StillNotFailed, Adds
    <3>6. PrsExist' /\ RowsHeld'
      BY <1>0, <1>3, <3>2, <3>5, KnownStays DEF RecordFresh, RecordRest
    <3> QED
      BY <3>4, <3>6 DEF DeliverySound, Delivering
  <2> QED
    BY <2>2, <2>3
<1>4. CASE Reconcile(t)
  <2>1. req[t] # Idle /\ req[t].result \in Open
    BY <1>4 DEF Reconcile, Reconciling
  <2>2. FindOpen(Mine(t)) # 0 => FindOpen(Mine(t)) \in DOMAIN rows
    BY <1>0, FoundIsOpen
  <2> QED
    BY <1>4, <2>1, <2>2, FailureSound, RewriteSound DEF Reconcile
<1> QED
  BY <1>1, <1>2, <1>3, <1>4 DEF RecordOutcome

LEMMA BundleMerged ==
  ASSUME ResolutionOK, NEW b \in BundleIds, SetMerged(b) \/ UNCHANGED bundle
  PROVE  /\ resolution' \in [BundleIds -> {"fixed", "accepted", "merged"}]
         /\ prior' \in [BundleIds -> {"fixed", "accepted", "merged"}]
  BY DEF SetMerged, ResolutionOK

\* Writing the status of a row that is not a failed delivery.
LEMMA StatusSound ==
  ASSUME DeliverySound, NEW i \in DOMAIN rows, NEW s \in Open \cup {"merged", "closed"},
         rows[i].pr \in DOMAIN prs,
         rows' = [rows EXCEPT ![i].status = s], ResolutionOK',
         \A p \in Pollers : poll'[p] \in {poll[p], Idle}, PollsOK',
         UNCHANGED <<req, git, forge>>
  PROVE  DeliverySound'
<1>0. /\ ResolutionOK /\ RowsOK /\ ThreadsOK /\ CloneOK /\ PrsOK /\ PollsOK /\ PrsExist /\ RowsHeld
  BY DEF DeliverySound, Delivering
<1>1. Rewrites(i, s) /\ rows'[i].pr = rows[i].pr
  BY <1>0, StatusRewrites
<1>2. RowsOK' /\ ThreadsOK' /\ CloneOK' /\ PrsOK'
  BY <1>0, <1>1 DEF RowsOK, ThreadsOK, CloneOK, PrsOK, Rewrites
<1>3. \A k : NotFailed(k) => StillNotFailed(k)
  BY <1>1 DEF NotFailed, StillNotFailed, Rewrites, Open
<1>4. \A k \in DOMAIN rows' : rows'[k].status # "create_failed" => rows'[k].pr \in DOMAIN prs'
  BY <1>0, <1>1 DEF PrsExist, Rewrites
<1>5. PrsExist' /\ RowsHeld'
  BY <1>0, <1>3, <1>4 DEF PrsExist, RowsHeld, NotFailed, StillNotFailed
<1> QED
  BY <1>2, <1>5 DEF DeliverySound, Delivering

LEMMA BeginSound ==
  ASSUME DeliverySound, NEW t \in Threads, NEW b \in BundleIds, AcceptGate(t, b) \/ Redeliver(t, b)
  PROVE  DeliverySound'
<1>0. /\ ResolutionOK /\ RowsOK /\ ThreadsOK /\ CloneOK /\ PrsOK /\ PollsOK /\ PrsExist /\ RowsHeld
  BY DEF DeliverySound, Delivering
<1>1. /\ req' \in [Threads -> DeliveryRequest \cup {Idle}]
      /\ req'[t].own = 0 /\ req'[t].result = "create_failed"
      /\ \A u \in Threads : u # t => req'[u] = req[u]
  <2>1. NewRequest(t, b, "gated") \/ NewRequest(t, b, "deliver")
    BY DEF AcceptGate, Redeliver
  <2> QED
    BY <1>0, <2>1, Begins DEF Steps
<1>2. UNCHANGED <<branch, bundle, rows, git, forge, poll, history>>
  BY DEF AcceptGate, Redeliver
<1>3. ResolutionOK' /\ RowsOK' /\ ThreadsOK' /\ CloneOK' /\ PrsOK' /\ PollsOK'
  BY <1>0, <1>1, <1>2 DEF ResolutionOK, RowsOK, ThreadsOK, CloneOK, PrsOK, PollsOK
<1>4. PrsExist' /\ RowsHeld'
  BY <1>0, <1>1, <1>2, KnownStays DEF PrsExist, NotFailed, StillNotFailed, Open
<1> QED
  BY <1>3, <1>4 DEF DeliverySound, Delivering

LEMMA PollSound ==
  ASSUME DeliverySound, NEW p \in Pollers, PollStep(p) \/ \E b \in BundleIds : PollRead(p, b)
  PROVE  DeliverySound'
<1>0. /\ ResolutionOK /\ RowsOK /\ ThreadsOK /\ CloneOK /\ PrsOK /\ PollsOK /\ PrsExist /\ RowsHeld
  BY DEF DeliverySound, Delivering
<1>1. ASSUME NEW b \in BundleIds, PollRead(p, b) PROVE DeliverySound'
  <2> DEFINE q == [bundle |-> b, row |-> Latest(b), pr |-> rows[Latest(b)].pr,
                   status |-> rows[Latest(b)].status, saw |-> "nothing"]
  <2>1. Latest(b) \in DOMAIN rows /\ rows[Latest(b)].status \in Open
    BY <1>0, <1>1, LatestIsRow DEF PollRead, RowsOf
  <2>2. rows[Latest(b)] \in ReviewRow /\ Latest(b) \in Nat
    BY <1>0, <2>1 DEF RowsOK
  <2>3. q \in Poll /\ q.row = Latest(b) /\ q.pr \in DOMAIN prs
    BY <1>0, <2>1, <2>2 DEF Poll, ReviewRow, PrsExist, Open
  <2>4. poll' = [poll EXCEPT ![p] = q] /\ UNCHANGED <<branch, bundle, rows, req, git, forge, history>>
    BY <1>1 DEF PollRead
  <2> HIDE DEF q
  <2>5. ResolutionOK' /\ RowsOK' /\ ThreadsOK' /\ CloneOK' /\ PrsOK' /\ PollsOK'
    BY <1>0, <2>3, <2>4 DEF ResolutionOK, RowsOK, ThreadsOK, CloneOK, PrsOK, PollsOK
  <2>6. PrsExist' /\ RowsHeld'
    BY <1>0, <2>1, <2>3, <2>4 DEF PrsExist, RowsHeld, NotFailed, PollsOK, Open
  <2> QED
    BY <2>5, <2>6 DEF DeliverySound, Delivering
<1>2. ASSUME NEW saw \in {"open", "merged", "closed", "error"}, PollAsk(p, saw) PROVE DeliverySound'
  <2> DEFINE q == [poll[p] EXCEPT !.saw = saw]
  <2>1. poll[p] \in Poll /\ poll[p] # Idle
    BY <1>0, <1>2 DEF PollAsk, PollsOK
  <2>2. q \in Poll /\ q.row = poll[p].row /\ q.pr = poll[p].pr
    BY <2>1 DEF Poll
  <2>3. poll' = [poll EXCEPT ![p] = q] /\ UNCHANGED <<branch, bundle, rows, req, git, forge, history>>
    BY <1>2 DEF PollAsk
  <2> HIDE DEF q
  <2>4. ResolutionOK' /\ RowsOK' /\ ThreadsOK' /\ CloneOK' /\ PrsOK' /\ PollsOK'
    BY <1>0, <2>2, <2>3 DEF ResolutionOK, RowsOK, ThreadsOK, CloneOK, PrsOK, PollsOK
  <2>5. PrsExist' /\ RowsHeld'
    BY <1>0, <2>1, <2>2, <2>3 DEF PrsExist, RowsHeld, NotFailed, PollsOK
  <2> QED
    BY <2>4, <2>5 DEF DeliverySound, Delivering
<1>3. CASE PollWrite(p)
  <2> DEFINE q == poll[p]
             s == IF q.saw \in {"merged", "closed"} THEN q.saw ELSE q.status
  <2>1. q \in Poll /\ q # Idle /\ q.row \in DOMAIN rows
    BY <1>0, <1>3 DEF PollWrite, PollsOK, RowsHeld, NotFailed
  <2>2. s \in Open \cup {"merged", "closed"} /\ q.bundle \in BundleIds
    BY <2>1 DEF Poll
  <2>3. SetMerged(q.bundle) \/ UNCHANGED bundle
    BY <1>3 DEF PollWrite
  <2>4. /\ rows' = rows \/ rows' = [rows EXCEPT ![q.row].status = s]
        /\ poll' = [poll EXCEPT ![p] = Idle] /\ UNCHANGED <<branch, req, git, forge, history>>
    BY <1>3 DEF PollWrite
  <2>5. ResolutionOK' /\ PollsOK' /\ \A o \in Pollers : poll'[o] \in {poll[o], Idle}
    <3>1. /\ resolution' \in [BundleIds -> {"fixed", "accepted", "merged"}]
          /\ prior' \in [BundleIds -> {"fixed", "accepted", "merged"}]
      BY <1>0, <2>2, <2>3, BundleMerged
    <3> QED
      BY <1>0, <2>4, <3>1 DEF ResolutionOK, PollsOK
  <2>6. CASE rows' = rows
    BY <1>0, <2>4, <2>5, <2>6
       DEF DeliverySound, Delivering, RowsOK, ThreadsOK, CloneOK, PrsOK, PrsExist, RowsHeld, NotFailed
  <2>7. CASE rows' = [rows EXCEPT ![q.row].status = s]
    <3>1. rows[q.row] \in ReviewRow
      BY <1>0, <2>1 DEF RowsOK
    <3> QED
      BY <1>0, <2>1, <2>2, <2>4, <2>5, <2>7, StatusSound DEF PrsExist, RowsHeld, NotFailed
  <2> QED
    BY <2>4, <2>6, <2>7
<1> QED
  BY <1>1, <1>2, <1>3 DEF PollStep

LEMMA WorldSound ==
  ASSUME DeliverySound,
         \/ CleanClone \/ Restart
         \/ \E b \in BundleIds : Reopen(b) \/ ReportStatus(b)
         \/ \E k \in DOMAIN prs : MergePr(k) \/ ClosePr(k)
  PROVE  DeliverySound'
<1>0. /\ ResolutionOK /\ RowsOK /\ ThreadsOK /\ CloneOK /\ PrsOK /\ PollsOK /\ PrsExist /\ RowsHeld
  BY DEF DeliverySound, Delivering
<1>1. CASE CleanClone
  BY <1>0, <1>1
     DEF CleanClone, DeliverySound, Delivering, ResolutionOK, RowsOK, ThreadsOK, CloneOK, PrsOK, PollsOK,
         PrsExist, RowsHeld, NotFailed
<1>2. CASE Restart
  <2>1. excused' \in SUBSET BundleIds
    BY <1>0, <1>2, BusyThread DEF Restart, ResolutionOK
  <2>2. (\A t \in Threads : req'[t] = Idle) /\ (\A p \in Pollers : poll'[p] = Idle)
    BY <1>2 DEF Restart
  <2>3. ResolutionOK' /\ RowsOK' /\ ThreadsOK' /\ CloneOK' /\ PrsOK' /\ PollsOK'
    BY <1>0, <1>2, <2>1
       DEF Restart, ResolutionOK, RowsOK, ThreadsOK, CloneOK, PrsOK, PollsOK
  <2>4. PrsExist' /\ RowsHeld'
    BY <1>0, <1>2, <2>2 DEF Restart, PrsExist, RowsHeld
  <2> QED
    BY <2>3, <2>4 DEF DeliverySound, Delivering
<1>3. ASSUME NEW b \in BundleIds, Reopen(b) PROVE DeliverySound'
  <2>1. ResolutionOK'
    BY <1>0, <1>3 DEF Reopen, ResolutionOK
  <2> QED
    BY <1>0, <1>3, <2>1
       DEF Reopen, DeliverySound, Delivering, RowsOK, ThreadsOK, CloneOK, PrsOK, PollsOK, PrsExist,
           RowsHeld, NotFailed
<1>4. ASSUME NEW b \in BundleIds, ReportStatus(b) PROVE DeliverySound'
  <2> DEFINE i == Latest(b)
  <2>1. i \in DOMAIN rows /\ rows[i].status \in Open
    BY <1>0, <1>4, LatestIsRow DEF ReportStatus, RowsOf
  <2>2. rows[i].pr \in DOMAIN prs /\ prs[rows[i].pr].state \in {"merged", "closed"}
    <3>1. rows[i].pr \in DOMAIN prs
      BY <1>0, <2>1 DEF PrsExist, Open
    <3>2. prs[rows[i].pr] \in PullRequest
      BY <1>0, <3>1 DEF PrsOK
    <3>3. prs[rows[i].pr].state # "open"
      BY <1>4 DEF ReportStatus
    <3> QED
      BY <3>1, <3>2, <3>3 DEF PullRequest
  <2>3. /\ rows' = [rows EXCEPT ![i].status = prs[rows[i].pr].state]
        /\ SetMerged(b) \/ UNCHANGED bundle
        /\ UNCHANGED <<branch, req, git, forge, poll, history>>
    BY <1>4 DEF ReportStatus
  <2>4. ResolutionOK' /\ PollsOK'
    BY <1>0, <2>3, BundleMerged DEF ResolutionOK, PollsOK
  <2> HIDE DEF i
  <2> QED
    BY <2>1, <2>2, <2>3, <2>4, StatusSound
<1>5. ASSUME NEW k \in DOMAIN prs, MergePr(k) \/ ClosePr(k) PROVE DeliverySound'
  <2>1. PrsOK' /\ DOMAIN prs' = DOMAIN prs
    <3>1. prs[k] \in PullRequest
      BY <1>0 DEF PrsOK
    <3>2. PICK s \in {"merged", "closed"} : prs' = [prs EXCEPT ![k].state = s]
      BY <1>5 DEF MergePr, ClosePr
    <3>3. /\ [prs[k] EXCEPT !.state = s] \in PullRequest
          /\ prs' = [prs EXCEPT ![k] = [prs[k] EXCEPT !.state = s]]
      BY <3>1, <3>2 DEF PullRequest
    <3> QED
      BY <1>0, <3>3 DEF PrsOK
  <2> QED
    BY <1>0, <1>5, <2>1
       DEF MergePr, ClosePr, DeliverySound, Delivering, ResolutionOK, RowsOK, ThreadsOK, CloneOK, PollsOK,
           PrsExist, RowsHeld, NotFailed
<1> QED
  BY <1>1, <1>2, <1>3, <1>4, <1>5

LEMMA QuietSound == DeliverySound /\ UNCHANGED deliveryVars => DeliverySound'
  BY DEF DeliverySound, Delivering, ResolutionOK, RowsOK, ThreadsOK, CloneOK, PrsOK, PollsOK, PrsExist,
         RowsHeld, NotFailed

LEMMA SoundStep ==
  ASSUME DeliverySound, Reconciling, [DeliveryNext]_deliveryVars
  PROVE  DeliverySound'
  BY PrepareSound, PublishSound, RecordSound, BeginSound, PollSound, WorldSound, QuietSound
     DEF DeliveryNext

\* Only RecordFresh sends a request to reconcile.
LEMMA ReconcilingStep ==
  ASSUME DeliverySound, Reconciling, [DeliveryNext]_deliveryVars
  PROVE  Reconciling'
<1>0. ThreadsOK /\ PrsOK
  BY DEF DeliverySound, Delivering
<1> USE DEF At
<1>1. ASSUME NEW t \in Threads, Prepare(t) \/ Publish(t)
      PROVE  /\ \A u \in Threads : u # t => req'[u] = req[u]
             /\ req'[t] = Idle \/ req'[t].step # "reconcile"
  <2>1. CASE Accept(t) \/ TakeClone(t) \/ CheckClone(t) \/ Checkout(t) \/ Commit(t) \/ Push(t)
              \/ \E yes \in BOOLEAN : Restore(t, yes)
    <3>1. req[t] # Idle /\ \E s \in Steps \ {"reconcile"} : Advance(t, s)
      BY <2>1
         DEF Accept, TakeClone, CheckClone, Checkout, Commit, Push, Restore, Steps
    <3> QED
      BY <1>0, <3>1, Advances
  <2>2. CASE Skip(t) \/ NotPrepared(t) \/ WaitedTooLong(t)
    <3>1. Done(t)
      BY <2>2 DEF Skip, NotPrepared, WaitedTooLong, RecordFailure
    <3> QED
      BY <1>0, <3>1, Ends
  <2>3. CASE LookUp(t)
    BY <1>0, <2>3, BusyThread DEF LookUp, ThreadsOK, DeliveryRequest
  <2>4. CASE Probe(t) \/ ProviderFails(t) \/ \E yes \in BOOLEAN : Ask(t, yes)
    <3>1. req[t] # Idle /\ \A u \in Threads : u # t => req'[u] = req[u]
      BY <1>0, <2>4 DEF Probe, ProviderFails, Ask, Settle, Advance, ThreadsOK
    <3>2. req'[t].step \in {"check", "record", "restore"}
      BY <1>0, <2>4, <3>1, BusyThread
         DEF Probe, ProviderFails, Ask, Settle, Advance, ThreadsOK, DeliveryRequest
    <3> QED
      BY <3>1, <3>2
  <2> QED
    BY <1>1, <2>1, <2>2, <2>3, <2>4 DEF Prepare, Publish
<1>2. ASSUME NEW t \in Threads, RecordOutcome(t) PROVE Reconciling'
  <2>1. req[t] # Idle
    BY <1>2 DEF RecordOutcome, RecordFailed, RecordUpdate, RecordFresh, Reconcile
  <2>2. CASE Done(t)
    BY <1>0, <2>2, Ends, NotIdle DEF Reconciling
  <2>3. CASE Advance(t, "reconcile") /\ req[t].result \in Open
    BY <1>0, <2>1, <2>3, Advances DEF Reconciling, Steps
  <2> QED
    BY <1>2, <2>2, <2>3
       DEF RecordOutcome, RecordFailed, RecordUpdate, RecordFresh, Reconcile, RecordFailure
<1>3. ASSUME NEW t \in Threads, NEW b \in BundleIds, AcceptGate(t, b) \/ Redeliver(t, b)
      PROVE  Reconciling'
  <2>1. NewRequest(t, b, "gated") \/ NewRequest(t, b, "deliver")
    BY <1>3 DEF AcceptGate, Redeliver
  <2> QED
    BY <1>0, <2>1, Begins DEF Reconciling, Steps
<1>4. CASE Restart
  BY <1>4 DEF Restart, Reconciling
<1>5. CASE UNCHANGED req
  BY <1>5 DEF Reconciling
<1>6. \A p \in Pollers : PollStep(p) \/ (\E b \in BundleIds : PollRead(p, b)) => UNCHANGED req
  BY DEF PollStep, PollRead, PollAsk, PollWrite
<1>7. /\ CleanClone => UNCHANGED req
      /\ \A b \in BundleIds : Reopen(b) \/ ReportStatus(b) => UNCHANGED req
      /\ \A k \in DOMAIN prs : MergePr(k) \/ ClosePr(k) => UNCHANGED req
  BY DEF CleanClone, Reopen, ReportStatus, MergePr, ClosePr
<1>8. CASE \E t \in Threads : Prepare(t) \/ Publish(t)
  BY <1>1, <1>8 DEF Reconciling
<1> QED
  BY <1>2, <1>3, <1>4, <1>5, <1>6, <1>7, <1>8 DEF DeliveryNext

(***************************************************************************)
(* The clone.  Who has a step to do in it holds the lock, and finds the    *)
(* branch as it was checked out.                                           *)
(***************************************************************************)
InClone == {"probe", "check", "checkout", "commit", "push", "ask", "restore"}
Exclusive == \A t \in Threads : req[t] # Idle /\ req[t].step \in InClone => holder = t

Prepared ==
  \A t \in Threads :
    /\ At(t, "commit") => clone.on = Mine(t) /\ clone.adds[Mine(t)] = {}
    /\ At(t, "push") => clone.adds[Mine(t)] = {req[t].bundle}

OwnOnly ==
  \A n \in Branches : remote[n] = {} \/ \E b \in BundleIds : branch[b] = n /\ remote[n] = {b}

CloneInvariant == Exclusive /\ Prepared /\ OwnOnly

LEMMA InitClone == DeliveryInit => CloneInvariant
  BY DEF DeliveryInit, CloneInvariant, Exclusive, Prepared, OwnOnly, At

\* A step of a thread that leaves the clone and the remote alone.
LEMMA CloneBeside ==
  ASSUME DeliverySound, CloneInvariant, NEW t \in Threads,
         \A u \in Threads : u # t => req'[u] = req[u],
         UNCHANGED <<branch, clone, remote>>,
         req'[t] # Idle => req'[t].step \notin {"commit", "push"},
         req'[t] # Idle /\ req'[t].step \in InClone => holder' = t,
         holder' = holder \/ holder = t \/ holder = Idle
  PROVE  CloneInvariant'
<1>0. ThreadsOK /\ Exclusive /\ Prepared /\ OwnOnly
  BY DEF DeliverySound, Delivering, CloneInvariant
<1>1. Exclusive'
  BY <1>0, NotIdle DEF Exclusive
<1>2. Prepared'
  BY <1>0 DEF Prepared, At, Mine
<1>3. OwnOnly'
  BY <1>0 DEF OwnOnly
<1> QED
  BY <1>1, <1>2, <1>3 DEF CloneInvariant

LEMMA PrepareClone ==
  ASSUME DeliverySound, CloneInvariant, NEW t \in Threads, Prepare(t)
  PROVE  CloneInvariant'
<1>0. ThreadsOK
  BY DEF DeliverySound, Delivering
<1>1. CASE Accept(t)
  <2>1. req[t] # Idle /\ Advance(t, "deliver") /\ UNCHANGED <<branch, git>>
    BY <1>1 DEF Accept, At
  <2> QED
    BY <1>0, <2>1, Advances, CloneBeside DEF Steps, InClone
<1>2. CASE Skip(t) \/ NotPrepared(t) \/ WaitedTooLong(t)
  <2>1. Done(t) /\ UNCHANGED <<branch, git>>
    BY <1>2 DEF Skip, NotPrepared, WaitedTooLong, RecordFailure
  <2> QED
    BY <1>0, <2>1, Ends, CloneBeside
<1>3. CASE LookUp(t)
  <2>1. /\ req'[t] # Idle => req'[t].step = "wait"
        /\ \A u \in Threads : u # t => req'[u] = req[u]
    BY <1>0, <1>3, BusyThread DEF LookUp, At, ThreadsOK, DeliveryRequest
  <2> QED
    BY <1>3, <2>1, CloneBeside DEF LookUp, InClone
<1>4. CASE TakeClone(t)
  <2>1. /\ req[t] # Idle /\ holder = Idle /\ holder' = t /\ UNCHANGED <<branch, clone, remote>>
        /\ Advance(t, "probe") \/ Advance(t, "check")
    BY <1>4 DEF TakeClone, At, Provider
  <2> QED
    BY <1>0, <2>1, Advances, CloneBeside DEF Steps, InClone
<1> QED
  BY <1>1, <1>2, <1>3, <1>4 DEF Prepare

LEMMA PublishClone ==
  ASSUME DeliverySound, CloneInvariant, NEW t \in Threads, Publish(t)
  PROVE  CloneInvariant'
<1>0. /\ ThreadsOK /\ CloneOK /\ PrsOK /\ ResolutionOK /\ Exclusive /\ Prepared /\ OwnOnly
  BY DEF DeliverySound, Delivering, CloneInvariant
<1>1. req[t] # Idle /\ holder = t /\ req[t].bundle \in BundleIds /\ Mine(t) \in Branches
  <2>1. req[t] # Idle /\ req[t].step \in InClone
    BY DEF Publish, Probe, CheckClone, Checkout, Commit, Push, ProviderFails, Ask, Restore, At,
           InClone
  <2> QED
    BY <1>0, <2>1, BusyThread DEF Exclusive, Mine, ResolutionOK
<1>a. \A u \in Threads : u # t /\ req[u] # Idle => req[u].step \notin InClone
  BY <1>0, <1>1 DEF Exclusive
<1>2. CASE Probe(t)
  <2> DEFINE open == OpenPrs(Mine(t))
  <2>1. CASE open = {}
    <3>1. Advance(t, "check") /\ UNCHANGED <<branch, git>>
      BY <1>2, <2>1 DEF Probe, Provider
    <3> QED
      BY <1>0, <1>1, <3>1, Advances, CloneBeside DEF Steps
  <2>2. CASE open # {}
    <3>1. Settle(t, "record", "updated", Max(open)) /\ UNCHANGED <<branch, clone, remote>>
      BY <1>2, <2>2 DEF Probe, Provider
    <3> QED
      BY <1>0, <1>1, <2>2, <3>1, Settles, NewestPr, CloneBeside DEF Steps, Open, InClone
  <2> QED
    BY <2>1, <2>2
<1>3. CASE CheckClone(t)
  <2>1. Advance(t, "checkout") /\ UNCHANGED <<branch, git>>
    BY <1>3 DEF CheckClone, Provider
  <2> QED
    BY <1>0, <1>1, <2>1, Advances, CloneBeside DEF Steps
<1>4. CASE Checkout(t) \/ Commit(t) \/ Push(t)
  <2>1. /\ \E s \in Steps : Advance(t, s) /\ s \in InClone /\ UNCHANGED <<branch, holder>>
    BY <1>4 DEF Checkout, Commit, Push, Provider, Steps, InClone
  <2>2. /\ req'[t].bundle = req[t].bundle /\ \A u \in Threads : u # t => req'[u] = req[u]
    BY <1>0, <1>1, <2>1, Advances
  <2>3. Exclusive'
    BY <1>0, <1>1, <2>1, <2>2 DEF Exclusive
  <2>4. Mine(t)' = Mine(t)
    BY <2>1, <2>2 DEF Mine
  <2>5. \A u \in Threads : u # t => ~At(u, "commit")' /\ ~At(u, "push")'
    BY <1>a, <2>2 DEF At, InClone
  <2>6. CASE Checkout(t)
    <3>1. req'[t].step = "commit" /\ UNCHANGED remote
      BY <1>0, <1>1, <2>6, Advances DEF Checkout, Steps
    <3>2. clone'.on = Mine(t) /\ clone'.adds[Mine(t)] = {}
      BY <1>0, <1>1, <2>6 DEF Checkout, CloneOK
    <3>3. Prepared'
      BY <2>4, <2>5, <3>1, <3>2 DEF Prepared, At
    <3>4. OwnOnly'
      BY <1>0, <2>1, <3>1 DEF OwnOnly
    <3> QED
      BY <2>3, <3>3, <3>4 DEF CloneInvariant
  <2>7. CASE Commit(t)
    <3>1. req'[t].step = "push" /\ UNCHANGED remote
      BY <1>0, <1>1, <2>7, Advances DEF Commit, Steps
    <3>2. clone.on = Mine(t) /\ clone.adds[Mine(t)] = {}
      BY <1>0, <2>7 DEF Commit, Prepared
    <3>3. clone' = [clone EXCEPT !.adds[clone.on] = @ \cup {req[t].bundle}]
      BY <1>1, <2>7, <3>2, DeliveryAssumption DEF Commit
    <3>4. clone'.adds[Mine(t)] = {req[t].bundle}
      BY <1>0, <1>1, <3>2, <3>3 DEF CloneOK
    <3>5. Prepared'
      BY <2>2, <2>4, <2>5, <3>1, <3>4 DEF Prepared, At
    <3>6. OwnOnly'
      BY <1>0, <2>1, <3>1 DEF OwnOnly
    <3> QED
      BY <2>3, <3>5, <3>6 DEF CloneInvariant
  <2>8. CASE Push(t)
    <3>1. req'[t].step = "ask" /\ UNCHANGED clone
      BY <1>0, <1>1, <2>8, Advances DEF Push, Steps
    <3>2. remote' = [remote EXCEPT ![Mine(t)] = {req[t].bundle}]
      BY <1>0, <2>8 DEF Push, Prepared
    <3>3. OwnOnly'
      BY <1>0, <1>1, <2>1, <3>2 DEF OwnOnly, CloneOK, Mine
    <3>4. Prepared'
      BY <2>5, <3>1 DEF Prepared, At
    <3> QED
      BY <2>3, <3>3, <3>4 DEF CloneInvariant
  <2> QED
    BY <1>4, <2>6, <2>7, <2>8
<1>5. CASE ProviderFails(t)
  <2>1. /\ UNCHANGED <<branch, clone, remote>>
        /\ \/ Settle(t, "record", "create_failed", 0)
           \/ Settle(t, "restore", "create_failed", 0) /\ UNCHANGED holder
    BY <1>5 DEF ProviderFails, Provider
  <2> QED
    BY <1>0, <1>1, <2>1, Settles, CloneBeside DEF Steps, Open, InClone
<1>6. ASSUME NEW yes \in BOOLEAN, Ask(t, yes) PROVE CloneInvariant'
  <2>1. UNCHANGED <<branch, git>>
    BY <1>6 DEF Ask, Provider
  <2>2. (\A u \in Threads : u # t => req'[u] = req[u]) /\ (req'[t] # Idle => req'[t].step = "restore")
    BY <1>0, <1>1, <1>6, BusyThread DEF Ask, Settle, ThreadsOK, DeliveryRequest
  <2> QED
    BY <1>1, <2>1, <2>2, CloneBeside
<1>7. ASSUME NEW yes \in BOOLEAN, Restore(t, yes) PROVE CloneInvariant'
  <2>1. Advance(t, "record") /\ UNCHANGED <<branch, remote>>
    BY <1>7 DEF Restore, Provider
  <2>2. req'[t].step = "record" /\ \A u \in Threads : u # t => req'[u] = req[u]
    BY <1>0, <1>1, <2>1, Advances DEF Steps
  <2>3. Exclusive'
    BY <1>a, <2>2 DEF Exclusive, InClone
  <2>4. Prepared'
    BY <1>a, <2>2 DEF Prepared, At, InClone
  <2>5. OwnOnly'
    BY <1>0, <2>1 DEF OwnOnly
  <2> QED
    BY <2>3, <2>4, <2>5 DEF CloneInvariant
<1> QED
  BY <1>2, <1>3, <1>4, <1>5, <1>6, <1>7 DEF Publish

LEMMA CloneStep ==
  ASSUME DeliverySound, CloneInvariant, [DeliveryNext]_deliveryVars
  PROVE  CloneInvariant'
<1>0. ThreadsOK /\ Exclusive /\ Prepared /\ OwnOnly
  BY DEF DeliverySound, Delivering, CloneInvariant
<1>1. ASSUME NEW t \in Threads, RecordOutcome(t) PROVE CloneInvariant'
  <2>1. req[t] # Idle /\ UNCHANGED <<branch, git>> /\ (Done(t) \/ Advance(t, "reconcile"))
    BY <1>1
       DEF RecordOutcome, RecordFailed, RecordUpdate, RecordFresh, Reconcile, RecordFailure,
           RecordRest, At
  <2> QED
    BY <1>0, <2>1, Ends, Advances, CloneBeside DEF Steps, InClone
<1>2. ASSUME NEW t \in Threads, NEW b \in BundleIds, AcceptGate(t, b) \/ Redeliver(t, b)
      PROVE  CloneInvariant'
  <2>1. /\ NewRequest(t, b, "gated") \/ NewRequest(t, b, "deliver")
        /\ UNCHANGED <<branch, git>>
    BY <1>2 DEF AcceptGate, Redeliver
  <2> QED
    BY <1>0, <2>1, Begins, CloneBeside DEF Steps, InClone
<1>3. CASE Restart
  BY <1>0, <1>3 DEF Restart, CloneInvariant, Exclusive, Prepared, OwnOnly, At
<1>4. CASE CleanClone
  <2>1. \A t \in Threads : req[t] # Idle => req[t].step \notin InClone
    BY <1>0, <1>4, NotIdle DEF CleanClone, Exclusive
  <2> QED
    BY <1>0, <1>4, <2>1
       DEF CleanClone, CloneInvariant, Exclusive, Prepared, OwnOnly, At, InClone, Mine
<1>5. CASE UNCHANGED <<branch, req, git>>
  BY <1>0, <1>5 DEF CloneInvariant, Exclusive, Prepared, OwnOnly, At, Mine
<1>6. /\ \A p \in Pollers : PollStep(p) \/ (\E b \in BundleIds : PollRead(p, b))
           => UNCHANGED <<branch, req, git>>
      /\ \A b \in BundleIds : Reopen(b) \/ ReportStatus(b) => UNCHANGED <<branch, req, git>>
      /\ \A k \in DOMAIN prs : MergePr(k) \/ ClosePr(k) => UNCHANGED <<branch, req, git>>
  BY DEF PollStep, PollRead, PollAsk, PollWrite, Reopen, ReportStatus, MergePr, ClosePr
<1> QED
  BY <1>1, <1>2, <1>3, <1>4, <1>5, <1>6, PrepareClone, PublishClone DEF DeliveryNext

(***************************************************************************)
(* What the forge has.  A request with an open result has put its diff     *)
(* there; whoever reopens the bundle leaves that standing while the        *)
(* request runs.                                                           *)
(***************************************************************************)
Forged(t) ==
  /\ req[t].result \in Open => req[t].bundle \in reached
  /\ At(t, "ask") => OpenPrs(Mine(t)) = {} \/ req[t].bundle \in reached
Delivered == \A t \in Threads : req[t] # Idle => Forged(t)

\* A bundle that is accepted, or will be again when its merge is taken back, and that
\* nobody delivers has a newest row that says its delivery failed.
Stands(b) == resolution[b] = "accepted" \/ (resolution[b] = "merged" /\ prior[b] = "accepted")
Reoffered(b) == Latest(b) \in RowsOf(b) /\ rows[Latest(b)].status = "create_failed"
NotLost == \A b \in BundleIds \ (reached \cup excused) : Stands(b) /\ ~Busy(b) => Reoffered(b)

AcceptInvariant == Delivered /\ NotLost

LEMMA InitAccept == DeliveryInit => AcceptInvariant
  BY DEF DeliveryInit, AcceptInvariant, Delivered, NotLost, Stands

LEMMA ReofferedAnswers ==
  ASSUME RowsOK, NEW b \in BundleIds, Reoffered(b)
  PROVE  Latest(b) # 0 /\ rows[Latest(b)].status = "create_failed"
  BY DEF Reoffered, RowsOf, RowsOK

\* Rewriting a row that does not say failed takes no offer back.
LEMMA RewriteKeepsOffer ==
  ASSUME RowsOK, NEW i \in DOMAIN rows, NotFailed(i), NEW s, Rewrites(i, s),
         NEW b \in BundleIds, Reoffered(b)
  PROVE  Reoffered(b)'
<1>1. RowsOf(b)' = RowsOf(b)
  BY DEF RowsOf, Rewrites
<1>2. Latest(b)' = Latest(b)
  BY <1>1 DEF Latest
<1>3. Latest(b) \in DOMAIN rows /\ Latest(b) # i
  BY DEF Reoffered, RowsOf, NotFailed
<1> QED
  BY <1>1, <1>2, <1>3 DEF Reoffered, Rewrites

LEMMA AddKeepsOffer ==
  ASSUME RowsOK, NEW c \in BundleIds, NEW s, Adds(c, s), NEW b \in BundleIds, b # c, Reoffered(b)
  PROVE  Reoffered(b)'
<1>1. RowsOf(b)' = RowsOf(b)
  BY DEF RowsOf, Adds
<1>2. Latest(b)' = Latest(b)
  BY <1>1 DEF Latest
<1>3. Latest(b) \in DOMAIN rows
  BY DEF Reoffered, RowsOf
<1> QED
  BY <1>1, <1>2, <1>3 DEF Reoffered, Adds

LEMMA FailureOffers ==
  ASSUME RowsOK, NEW b \in BundleIds, Adds(b, "create_failed")
  PROVE  Reoffered(b)'
<1> DEFINE n == Len(rows) + 1
<1>1. n \in Nat /\ DOMAIN rows = 1..Len(rows) /\ Len(rows) \in Nat
  BY DEF RowsOK
<1>2. RowsOf(b)' = RowsOf(b) \cup {n} /\ RowsOf(b) \subseteq DOMAIN rows
  BY DEF RowsOf, Adds
<1>3. \A y \in RowsOf(b)' : y \in Nat /\ n >= y
  BY <1>1, <1>2
<1>4. Max(RowsOf(b)') = n
  <2>1. n \in RowsOf(b)'
    BY <1>2
  <2>2. \A x \in RowsOf(b)' : (\A y \in RowsOf(b)' : x >= y) => x = n
    BY <1>1, <1>3, <2>1
  <2> HIDE DEF n
  <2> QED
    BY <1>3, <2>1, <2>2 DEF Max
<1>5. Latest(b)' = n
  BY <1>2, <1>4 DEF Latest
<1> QED
  BY <1>2, <1>5 DEF Reoffered, Adds

\* A step that reopens nothing: a request is begun, goes on, or ends.
LEMMA OtherRequests ==
  ASSUME DeliverySound, AcceptInvariant, NEW t \in Threads,
         \A u \in Threads : u # t => req'[u] = req[u],
         UNCHANGED branch, reached \subseteq reached', \A n \in Branches : OpenPrs(n)' \subseteq OpenPrs(n),
         req'[t] # Idle => Forged(t)'
  PROVE  Delivered'
<1>1. ASSUME NEW u \in Threads, u # t, req'[u] # Idle PROVE Forged(u)'
  <2>1. req'[u] = req[u] /\ Forged(u) /\ Mine(u) \in Branches
    BY <1>1, BusyThread DEF AcceptInvariant, Delivered, DeliverySound, Delivering, Mine, ResolutionOK
  <2> QED
    BY <2>1 DEF Forged, At, Mine
<1> QED
  BY <1>1 DEF Delivered

\* A request that goes on or is begun: its bundle stays busy, and the others are as before.
LEMMA BusyKeeps ==
  ASSUME DeliverySound, AcceptInvariant, NEW t \in Threads, req'[t] # Idle, NEW c \in BundleIds,
         req'[t].bundle = c, req[t] # Idle => req[t].bundle = c,
         \A u \in Threads : u # t => req'[u] = req[u],
         UNCHANGED rows, reached \subseteq reached', excused' = excused,
         \A b \in BundleIds : b # c => resolution'[b] = resolution[b] /\ prior'[b] = prior[b]
  PROVE  NotLost'
<1> SUFFICES ASSUME NEW b \in BundleIds, b \notin reached', b \notin excused', Stands(b)', ~Busy(b)'
             PROVE  Reoffered(b)'
  BY DEF NotLost
<1>1. b # c
  BY DEF Busy
<1>2. Stands(b) /\ ~Busy(b)
  BY <1>1 DEF Stands, Busy
<1>3. Reoffered(b)
  BY <1>2 DEF AcceptInvariant, NotLost
<1> QED
  BY <1>3 DEF Reoffered, Latest, RowsOf

\* A request that ends: what it leaves for its bundle is to be shown.
LEMMA EndKeeps ==
  ASSUME DeliverySound, AcceptInvariant, NEW t \in Threads, req[t] # Idle, req'[t] = Idle,
         NEW c \in BundleIds, req[t].bundle = c,
         \A u \in Threads : u # t => req'[u] = req[u],
         UNCHANGED <<bundle, reached>>, excused \subseteq excused',
         \A b \in BundleIds : b # c /\ Reoffered(b) => Reoffered(b)',
         c \in reached \cup excused' \/ Reoffered(c)'
  PROVE  NotLost'
<1> SUFFICES ASSUME NEW b \in BundleIds, b \notin reached', b \notin excused', Stands(b)', ~Busy(b)'
             PROVE  Reoffered(b)'
  BY DEF NotLost
<1>1. CASE b = c
  BY <1>1
<1>2. CASE b # c
  <2>1. Stands(b) /\ ~Busy(b)
    BY <1>2 DEF Stands, Busy
  <2> QED
    BY <1>2, <2>1 DEF AcceptInvariant, NotLost
<1> QED
  BY <1>1, <1>2

LEMMA FailureAccept ==
  ASSUME DeliverySound, AcceptInvariant, NEW t \in Threads, req[t] # Idle, RecordFailure(t)
  PROVE  AcceptInvariant'
<1>0. ThreadsOK /\ RowsOK /\ req[t].bundle \in BundleIds
  BY BusyThread DEF DeliverySound, Delivering
<1>1. req'[t] = Idle /\ \A u \in Threads : u # t => req'[u] = req[u]
  BY <1>0, Ends DEF RecordFailure
<1>c. PICK c \in BundleIds : c = req[t].bundle
  BY <1>0
<1>2. Adds(c, "create_failed")
  BY <1>0, <1>c, FailureAdds
<1>3. Reoffered(c)' /\ \A b \in BundleIds : b # c /\ Reoffered(b) => Reoffered(b)'
  BY <1>0, <1>2, FailureOffers, AddKeepsOffer
<1>4. UNCHANGED <<branch, bundle, git, forge, history>>
  BY DEF RecordFailure
<1>5. NotLost'
  BY <1>c, <1>1, <1>3, <1>4, EndKeeps
<1>6. Delivered'
  BY <1>1, <1>4, OtherRequests DEF OpenPrs
<1> QED
  BY <1>5, <1>6 DEF AcceptInvariant

LEMMA PrepareAccept ==
  ASSUME DeliverySound, AcceptInvariant, NEW t \in Threads, Prepare(t)
  PROVE  AcceptInvariant'
<1>0. /\ ResolutionOK /\ RowsOK /\ ThreadsOK /\ PrsOK /\ PollsOK /\ RowsHeld /\ Delivered /\ NotLost
  BY DEF DeliverySound, Delivering, AcceptInvariant
<1>1. req[t] # Idle
  BY DEF Prepare, Accept, Skip, NotPrepared, LookUp, TakeClone, WaitedTooLong, At
<1>c. PICK c \in BundleIds : c = req[t].bundle
  BY <1>0, <1>1, BusyThread
<1>f. Forged(t)
  BY <1>0, <1>1 DEF Delivered
<1>2. CASE NotPrepared(t) \/ WaitedTooLong(t)
  BY <1>1, <1>2, FailureAccept DEF NotPrepared, WaitedTooLong
<1>3. CASE Skip(t)
  <2>1. req'[t] = Idle /\ \A u \in Threads : u # t => req'[u] = req[u]
    BY <1>0, <1>3, Ends DEF Skip
  <2>2. /\ UNCHANGED <<branch, bundle, rows, git, forge, reached>>
        /\ excused' = excused \cup {c}
    BY <1>c, <1>3 DEF Skip
  <2>3. \A b \in BundleIds : Reoffered(b) => Reoffered(b)'
    BY <2>2 DEF Reoffered, Latest, RowsOf
  <2>4. NotLost'
    BY <1>1, <1>c, <2>1, <2>2, <2>3, EndKeeps
  <2>5. Delivered'
    BY <2>1, <2>2, OtherRequests DEF OpenPrs
  <2> QED
    BY <2>4, <2>5 DEF AcceptInvariant
<1>4. CASE Accept(t) \/ LookUp(t) \/ TakeClone(t)
  <2>1. /\ req'[t] # Idle /\ req'[t].bundle = c /\ req'[t].result = req[t].result
        /\ req'[t].step # "ask" /\ \A u \in Threads : u # t => req'[u] = req[u]
    <3>1. CASE Accept(t) \/ TakeClone(t)
      <4>1. Advance(t, "deliver") \/ Advance(t, "probe") \/ Advance(t, "check")
        BY <3>1 DEF Accept, TakeClone
      <4> QED
        BY <1>0, <1>1, <1>c, <4>1, Advances DEF Steps
    <3>2. CASE LookUp(t)
      <4> DEFINE i == FindOpen(Mine(t))
                 q == [req[t] EXCEPT !.step = "wait", !.own = i,
                                     !.same = i # 0 /\ rows[i].diff = req[t].bundle]
      <4>1. i \in Nat
        BY <1>0, FoundIsOpen DEF RowsOK
      <4>2. /\ q \in DeliveryRequest /\ q.bundle = c /\ q.result = req[t].result /\ q.step = "wait"
        BY <1>0, <1>1, <1>c, <4>1, BusyThread DEF DeliveryRequest
      <4>3. req' = [req EXCEPT ![t] = q]
        BY <3>2 DEF LookUp
      <4> HIDE DEF q
      <4> QED
        BY <1>0, <4>2, <4>3, NotIdle DEF ThreadsOK
    <3> QED
      BY <1>4, <3>1, <3>2
  <2>2. /\ UNCHANGED <<branch, rows, forge, history>>
        /\ \A b \in BundleIds : b # c => resolution'[b] = resolution[b] /\ prior'[b] = prior[b]
    BY <1>0, <1>c, <1>4 DEF Accept, LookUp, TakeClone, Provider, ResolutionOK
  <2>3. Forged(t)'
    BY <1>c, <1>f, <2>1, <2>2 DEF Forged, At
  <2>4. NotLost'
    BY <1>c, <2>1, <2>2, BusyKeeps
  <2>5. Delivered'
    BY <2>1, <2>2, <2>3, OtherRequests DEF OpenPrs
  <2> QED
    BY <2>4, <2>5 DEF AcceptInvariant
<1> QED
  BY <1>2, <1>3, <1>4 DEF Prepare

LEMMA PublishAccept ==
  ASSUME DeliverySound, CloneInvariant, AcceptInvariant, NEW t \in Threads, Publish(t)
  PROVE  AcceptInvariant'
<1>0. /\ ResolutionOK /\ RowsOK /\ ThreadsOK /\ PrsOK /\ PollsOK /\ RowsHeld /\ Delivered /\ NotLost
  BY DEF DeliverySound, Delivering, AcceptInvariant
<1>1. req[t] # Idle
  BY DEF Publish, Probe, CheckClone, Checkout, Commit, Push, ProviderFails, Ask, Restore, At
<1>c. PICK c \in BundleIds : c = req[t].bundle
  BY <1>0, <1>1, BusyThread
<1>m. Mine(t) \in Branches
  BY <1>0, <1>c DEF Mine, ResolutionOK
<1>f. Forged(t)
  BY <1>0, <1>1 DEF Delivered
<1>2. UNCHANGED <<branch, bundle, rows, excused>> /\ reached \subseteq reached'
  BY DEF Publish, Probe, CheckClone, Checkout, Commit, Push, ProviderFails, Ask, Restore, Provider
\* The steps of a request, and what it may say of its bundle after them.
<1>3. ASSUME req'[t] # Idle, req'[t].bundle = c, \A u \in Threads : u # t => req'[u] = req[u],
             \A u \in Threads : u # t => ~At(u, "ask") \/ UNCHANGED prs,
             req'[t].result \in Open => c \in reached',
             req'[t].step = "ask" => OpenPrs(Mine(t))' = {} \/ c \in reached'
      PROVE  AcceptInvariant'
  <2>1. NotLost'
    BY <1>c, <1>2, <1>3, BusyKeeps
  <2>2. Forged(t)'
    BY <1>3 DEF Forged, At
  <2>3. ASSUME NEW u \in Threads, u # t, req'[u] # Idle PROVE Forged(u)'
    <3>1. req'[u] = req[u] /\ Forged(u)
      BY <1>0, <1>3, <2>3 DEF Delivered
    <3> QED
      BY <1>2, <1>3, <2>3, <3>1 DEF Forged, At, Mine, OpenPrs
  <2> QED
    BY <2>1, <2>2, <2>3 DEF AcceptInvariant, Delivered
<1>4. CASE UNCHANGED prs
  <2>m. req'[t].bundle = c => OpenPrs(Mine(t))' = OpenPrs(Mine(t))
    BY <1>c, <1>2, <1>4 DEF OpenPrs, Mine
  <2>1. CASE CheckClone(t) \/ Checkout(t) \/ Commit(t) \/ \E yes \in BOOLEAN : Restore(t, yes)
    <3>1. Advance(t, "checkout") \/ Advance(t, "commit") \/ Advance(t, "push") \/ Advance(t, "record")
      BY <2>1 DEF CheckClone, Checkout, Commit, Restore
    <3>2. /\ req'[t] # Idle /\ req'[t].bundle = c /\ req'[t].result = req[t].result
          /\ req'[t].step # "ask" /\ \A u \in Threads : u # t => req'[u] = req[u]
      BY <1>0, <1>1, <1>c, <3>1, Advances DEF Steps
    <3> QED
      BY <1>c, <1>f, <1>2, <1>3, <1>4, <3>2 DEF Forged
  <2>2. CASE Push(t)
    <3>1. /\ req'[t] # Idle /\ req'[t].bundle = c /\ req'[t].result = req[t].result
          /\ \A u \in Threads : u # t => req'[u] = req[u]
      BY <1>0, <1>1, <1>c, <2>2, Advances DEF Push, Steps
    <3>2. OpenPrs(Mine(t)) = {} \/ c \in reached'
      BY <1>c, <2>2 DEF Push
    <3> QED
      BY <1>c, <1>f, <1>2, <1>3, <1>4, <2>m, <3>1, <3>2 DEF Forged
  <2>3. CASE ProviderFails(t)
    <3>1. Settle(t, "record", "create_failed", 0) \/ Settle(t, "restore", "create_failed", 0)
      BY <2>3 DEF ProviderFails
    <3>2. /\ req'[t] # Idle /\ req'[t].bundle = c /\ req'[t].result = "create_failed"
          /\ req'[t].step # "ask" /\ \A u \in Threads : u # t => req'[u] = req[u]
      BY <1>0, <1>1, <1>c, <3>1, Settles DEF Steps
    <3> QED
      BY <1>3, <1>4, <3>2 DEF Open
  <2>4. CASE Probe(t)
    <3> DEFINE open == OpenPrs(Mine(t))
    <3>1. CASE open = {}
      <4>1. Advance(t, "check")
        BY <2>4, <3>1 DEF Probe
      <4>2. /\ req'[t] # Idle /\ req'[t].bundle = c /\ req'[t].result = req[t].result
            /\ req'[t].step # "ask" /\ \A u \in Threads : u # t => req'[u] = req[u]
        BY <1>0, <1>1, <1>c, <4>1, Advances DEF Steps
      <4> QED
        BY <1>c, <1>f, <1>2, <1>3, <1>4, <4>2 DEF Forged
    <3>2. CASE open # {}
      <4>1. Settle(t, "record", "updated", Max(open)) /\ c \in reached'
        BY <1>c, <2>4, <3>2 DEF Probe
      <4>2. /\ req'[t] # Idle /\ req'[t].bundle = c
            /\ req'[t].step # "ask" /\ \A u \in Threads : u # t => req'[u] = req[u]
        BY <1>0, <1>1, <1>c, <3>2, <4>1, Settles, NewestPr DEF Steps, Open
      <4> QED
        BY <1>3, <1>4, <4>1, <4>2
    <3> QED
      BY <3>1, <3>2
  <2>5. ASSUME NEW yes \in BOOLEAN, Ask(t, yes) PROVE AcceptInvariant'
    <3>1. OpenPrs(Mine(t)) # {}
      <4> SUFFICES ASSUME OpenPrs(Mine(t)) = {} PROVE FALSE
        OBVIOUS
      <4>1. prs' = Append(prs, [branch |-> Mine(t), state |-> "open"])
        BY <2>5 DEF Ask
      <4>2. Len(prs') = Len(prs) + 1
        BY <1>0, <1>m, <4>1 DEF PrsOK, PullRequest
      <4> QED
        BY <1>0, <1>4, <4>2 DEF PrsOK
    <3>2. Settle(t, "restore", "updated", Max(OpenPrs(Mine(t)))) /\ At(t, "ask")
      BY <2>5, <3>1 DEF Ask
    <3>3. /\ req'[t] # Idle /\ req'[t].bundle = c
          /\ req'[t].step # "ask" /\ \A u \in Threads : u # t => req'[u] = req[u]
      BY <1>0, <1>1, <1>c, <3>1, <3>2, Settles, NewestPr DEF Steps, Open
    <3>4. c \in reached'
      BY <1>c, <1>f, <1>2, <3>1, <3>2 DEF Forged
    <3> QED
      BY <1>3, <1>4, <3>3, <3>4
  <2> QED
    BY <2>1, <2>2, <2>3, <2>4, <2>5 DEF Publish
<1>5. CASE prs' # prs
  <2>1. PICK yes \in BOOLEAN : Ask(t, yes)
    BY <1>5 DEF Publish, Probe, CheckClone, Checkout, Commit, Push, ProviderFails, Restore
  <2>2. OpenPrs(Mine(t)) = {}
    BY <1>5, <2>1 DEF Ask
  <2>3. \/ Settle(t, "restore", "created", Len(prs'))
        \/ Settle(t, "restore", "create_failed", 0)
    BY <2>1, <2>2 DEF Ask
  <2>4. c \in reached' /\ Len(prs') \in Nat
    <3>1. prs' = Append(prs, [branch |-> Mine(t), state |-> "open"]) /\ c \in reached'
      BY <1>c, <2>1, <2>2 DEF Ask
    <3> QED
      BY <1>0, <1>m, <3>1 DEF PrsOK, PullRequest
  <2>5. /\ req'[t] # Idle /\ req'[t].bundle = c
        /\ req'[t].step # "ask" /\ \A u \in Threads : u # t => req'[u] = req[u]
    BY <1>0, <1>1, <1>c, <2>3, <2>4, Settles DEF Steps, Open
  <2>6. \A u \in Threads : u # t => ~At(u, "ask")
    BY <1>1, <2>1 DEF CloneInvariant, Exclusive, InClone, Ask, At
  <2> QED
    BY <1>3, <2>4, <2>5, <2>6
<1> QED
  BY <1>4, <1>5

LEMMA RecordAccept ==
  ASSUME DeliverySound, Reconciling, AcceptInvariant, NEW t \in Threads, RecordOutcome(t)
  PROVE  AcceptInvariant'
<1>0. /\ ResolutionOK /\ RowsOK /\ ThreadsOK /\ PrsOK /\ PollsOK /\ RowsHeld /\ Delivered /\ NotLost
  BY DEF DeliverySound, Delivering, AcceptInvariant
<1>1. req[t] # Idle
  BY DEF RecordOutcome, RecordFailed, RecordUpdate, RecordFresh, Reconcile, At
<1>c. PICK c \in BundleIds : c = req[t].bundle
  BY <1>0, <1>1, BusyThread
<1>f. Forged(t)
  BY <1>0, <1>1 DEF Delivered
\* A request that ends with an open result has its diff at the forge.
<1>2. ASSUME Done(t), RecordRest, req[t].result \in Open,
             \A b \in BundleIds : b # c /\ Reoffered(b) => Reoffered(b)'
      PROVE  AcceptInvariant'
  <2>1. req'[t] = Idle /\ \A u \in Threads : u # t => req'[u] = req[u]
    BY <1>0, <1>2, Ends
  <2>2. c \in reached
    BY <1>c, <1>f, <1>2 DEF Forged
  <2>3. NotLost'
    BY <1>1, <1>c, <1>2, <2>1, <2>2, EndKeeps DEF RecordRest
  <2>4. Delivered'
    BY <1>2, <2>1, OtherRequests DEF RecordRest, OpenPrs
  <2> QED
    BY <2>3, <2>4 DEF AcceptInvariant
<1>3. ASSUME req[t].result \in Open, NEW i \in DOMAIN rows, NotFailed(i), UpdateRow(i, t), Done(t),
             RecordRest
      PROVE  AcceptInvariant'
  <2>1. Rewrites(i, req[t].result)
    BY <1>0, <1>1, <1>3, UpdateRewrites
  <2> QED
    BY <1>0, <1>2, <1>3, <2>1, RewriteKeepsOffer
<1>4. CASE RecordFailed(t)
  BY <1>1, <1>4, FailureAccept DEF RecordFailed
<1>5. CASE RecordUpdate(t)
  <2>1. req[t].result \in Open /\ NotFailed(req[t].own) /\ req[t].own \in DOMAIN rows
    BY <1>0, <1>1, <1>5 DEF RecordUpdate, Open, RowsHeld, NotFailed
  <2> QED
    BY <1>1, <1>3, <1>5, <2>1, FailureAccept DEF RecordUpdate
<1>6. CASE RecordFresh(t)
  <2>1. req[t].result \in Open /\ RecordRest
    BY <1>6 DEF RecordFresh
  <2>2. CASE MayOpen(0, Mine(t))
    <3>1. rows' = Append(rows, OutcomeRow(t)) /\ Done(t)
      BY <1>6, <2>2 DEF RecordFresh
    <3>2. Adds(c, req[t].result)
      BY <1>0, <1>1, <1>c, <3>1, OutcomeAdds
    <3> QED
      BY <1>0, <1>2, <2>1, <3>1, <3>2, AddKeepsOffer
  <2>3. CASE ~MayOpen(0, Mine(t))
    <3>1. Advance(t, "reconcile") /\ UNCHANGED rows
      BY <1>6, <2>3 DEF RecordFresh
    <3>2. /\ req'[t] # Idle /\ req'[t].bundle = c /\ req'[t].result = req[t].result
          /\ req'[t].step = "reconcile" /\ \A u \in Threads : u # t => req'[u] = req[u]
      BY <1>0, <1>1, <1>c, <3>1, Advances DEF Steps
    <3>3. NotLost'
      BY <1>c, <2>1, <3>1, <3>2, BusyKeeps DEF RecordRest
    <3>4. Forged(t)'
      BY <1>c, <1>f, <2>1, <3>2 DEF Forged, At, RecordRest
    <3>5. Delivered'
      BY <2>1, <3>2, <3>4, OtherRequests DEF RecordRest, OpenPrs
    <3> QED
      BY <3>3, <3>5 DEF AcceptInvariant
  <2> QED
    BY <2>2, <2>3
<1>7. CASE Reconcile(t)
  <2>1. req[t].result \in Open
    BY <1>7 DEF Reconcile, Reconciling
  <2>2. FindOpen(Mine(t)) # 0 =>
          FindOpen(Mine(t)) \in DOMAIN rows /\ NotFailed(FindOpen(Mine(t)))
    BY <1>0, FoundIsOpen DEF NotFailed, Open
  <2> QED
    BY <1>1, <1>3, <1>7, <2>1, <2>2, FailureAccept DEF Reconcile
<1> QED
  BY <1>4, <1>5, <1>6, <1>7 DEF RecordOutcome

LEMMA BeginAccept ==
  ASSUME DeliverySound, AcceptInvariant, NEW t \in Threads, NEW c \in BundleIds,
         AcceptGate(t, c) \/ Redeliver(t, c)
  PROVE  AcceptInvariant'
<1>0. /\ ResolutionOK /\ RowsOK /\ ThreadsOK /\ PrsOK /\ PollsOK /\ RowsHeld /\ Delivered /\ NotLost
  BY DEF DeliverySound, Delivering, AcceptInvariant
<1>1. /\ NewRequest(t, c, "gated") \/ NewRequest(t, c, "deliver")
      /\ UNCHANGED <<branch, bundle, rows, forge, history>>
  BY DEF AcceptGate, Redeliver
<1>2. /\ req[t] = Idle /\ req'[t] # Idle /\ req'[t].bundle = c /\ req'[t].result = "create_failed"
      /\ req'[t].step # "ask" /\ \A u \in Threads : u # t => req'[u] = req[u]
  BY <1>0, <1>1, Begins DEF Steps
<1>3. NotLost'
  BY <1>1, <1>2, BusyKeeps
<1>4. Forged(t)'
  BY <1>2 DEF Forged, At, Open
<1>5. Delivered'
  BY <1>1, <1>2, <1>4, OtherRequests DEF OpenPrs
<1> QED
  BY <1>3, <1>5 DEF AcceptInvariant

\* Writing the status of a row that was open, and marking a bundle merged.
LEMMA StatusAccept ==
  ASSUME DeliverySound, AcceptInvariant, UNCHANGED <<branch, req, forge, history>>,
         rows' = rows \/ (\E i \in DOMAIN rows, s \in Open \cup {"merged", "closed"} :
                            NotFailed(i) /\ rows' = [rows EXCEPT ![i].status = s]),
         UNCHANGED bundle \/ \E b \in BundleIds : SetMerged(b)
  PROVE  AcceptInvariant'
<1>0. /\ ResolutionOK /\ RowsOK /\ ThreadsOK /\ PrsOK /\ PollsOK /\ RowsHeld /\ Delivered /\ NotLost
  BY DEF DeliverySound, Delivering, AcceptInvariant
<1>1. Delivered'
  BY <1>0 DEF Delivered, Forged, At, OpenPrs, Mine
<1>2. ASSUME NEW b \in BundleIds, Reoffered(b) PROVE Reoffered(b)'
  <2>1. CASE rows' = rows
    BY <1>2, <2>1 DEF Reoffered, Latest, RowsOf
  <2>2. CASE \E i \in DOMAIN rows, s \in Open \cup {"merged", "closed"} :
               NotFailed(i) /\ rows' = [rows EXCEPT ![i].status = s]
    BY <1>0, <1>2, <2>2, StatusRewrites, RewriteKeepsOffer
  <2> QED
    BY <2>1, <2>2
<1>3. ASSUME NEW b \in BundleIds, Stands(b)' PROVE Stands(b)
  BY <1>0, <1>3 DEF Stands, SetMerged, ResolutionOK
<1>4. NotLost'
  BY <1>0, <1>2, <1>3 DEF NotLost, Busy
<1> QED
  BY <1>1, <1>4 DEF AcceptInvariant

\* Steps that leave the bundles, the rows and the requests alone and open nothing.
LEMMA QuietAccept ==
  ASSUME AcceptInvariant, UNCHANGED <<branch, bundle, rows, req, history>>,
         \A n : OpenPrs(n)' \subseteq OpenPrs(n)
  PROVE  AcceptInvariant'
<1>0. Delivered /\ NotLost
  BY DEF AcceptInvariant
<1>1. ASSUME NEW t \in Threads, req[t] # Idle PROVE Forged(t)'
  <2>1. PICK n : n = Mine(t)
    OBVIOUS
  <2>2. Mine(t)' = n
    BY <2>1 DEF Mine
  <2>3. Forged(t) /\ OpenPrs(n)' \subseteq OpenPrs(n)
    BY <1>0, <1>1 DEF Delivered
  <2>4. ASSUME At(t, "ask")', OpenPrs(n) = {} PROVE OpenPrs(Mine(t))' = {}
    <3>1. OpenPrs(n)' = {}
      BY <2>3, <2>4
    <3> QED
      BY <2>2, <3>1 DEF OpenPrs
  <2> QED
    BY <2>1, <2>3, <2>4 DEF Forged, At
<1>2. Delivered'
  BY <1>1 DEF Delivered
<1>3. ASSUME NEW b \in BundleIds, b \notin reached', b \notin excused', Stands(b)', ~Busy(b)'
      PROVE  Reoffered(b)'
  <2>1. b \notin reached /\ b \notin excused /\ Stands(b) /\ ~Busy(b)
    BY <1>3 DEF Stands, Busy
  <2>2. Reoffered(b)
    BY <1>0, <2>1 DEF NotLost
  <2> QED
    BY <2>2 DEF Reoffered, Latest, RowsOf
<1> QED
  BY <1>2, <1>3 DEF AcceptInvariant, NotLost

LEMMA WorldAccept ==
  ASSUME DeliverySound, AcceptInvariant,
         \/ CleanClone \/ Restart
         \/ \E b \in BundleIds : Reopen(b) \/ ReportStatus(b)
         \/ \E k \in DOMAIN prs : MergePr(k) \/ ClosePr(k)
         \/ \E p \in Pollers : PollStep(p) \/ \E b \in BundleIds : PollRead(p, b)
  PROVE  AcceptInvariant'
<1>0. /\ ResolutionOK /\ RowsOK /\ ThreadsOK /\ PrsOK /\ PollsOK /\ RowsHeld /\ Delivered /\ NotLost
  BY DEF DeliverySound, Delivering, AcceptInvariant
<1>1. CASE Restart
  <2>1. Delivered'
    BY <1>1 DEF Restart, Delivered
  <2>2. ASSUME NEW b \in BundleIds, b \notin reached', b \notin excused', Stands(b)'
        PROVE  Reoffered(b)'
    <3>1. b \notin excused /\ ~Busy(b) /\ Stands(b) /\ b \notin reached
      BY <1>1, <2>2 DEF Restart, Busy, Stands
    <3>2. Reoffered(b)
      BY <1>0, <3>1 DEF NotLost
    <3> QED
      BY <1>1, <3>2 DEF Restart, Reoffered, Latest, RowsOf
  <2> QED
    BY <2>1, <2>2 DEF AcceptInvariant, NotLost
<1>2. ASSUME NEW c \in BundleIds, Reopen(c) PROVE AcceptInvariant'
  <2>1. ASSUME NEW t \in Threads, req[t] # Idle PROVE Forged(t)'
    <3>1. Forged(t) /\ (req[t].bundle = c => Busy(c))
      BY <1>0, <2>1 DEF Delivered, Busy
    <3> QED
      BY <1>2, <3>1 DEF Reopen, Forged, At, OpenPrs, Mine
  <2>2. Delivered'
    BY <1>2, <2>1 DEF Delivered, Reopen
  <2>3. ASSUME NEW b \in BundleIds, b \notin reached', b \notin excused', Stands(b)', ~Busy(b)'
        PROVE  Reoffered(b)'
    <3>1. ~Busy(b)
      BY <1>2, <2>3 DEF Reopen, Busy
    <3>2. Stands(b) /\ b \notin reached /\ b \notin excused
      BY <1>0, <1>2, <2>3, <3>1 DEF Reopen, Stands, ResolutionOK
    <3> QED
      BY <1>0, <1>2, <3>1, <3>2 DEF Reopen, NotLost, Reoffered, Latest, RowsOf
  <2> QED
    BY <2>2, <2>3 DEF AcceptInvariant, NotLost
<1>3. ASSUME NEW b \in BundleIds, ReportStatus(b) PROVE AcceptInvariant'
  <2> DEFINE i == Latest(b)
  <2>1. i \in DOMAIN rows /\ NotFailed(i)
    BY <1>0, <1>3, LatestIsRow DEF ReportStatus, RowsOf, NotFailed, Open
  <2>2. prs[rows[i].pr].state \in {"merged", "closed"}
    <3>1. rows[i].pr \in DOMAIN prs /\ prs[rows[i].pr].state # "open"
      BY <1>3, <2>1 DEF ReportStatus, DeliverySound, Delivering, PrsExist, NotFailed
    <3>2. prs[rows[i].pr] \in PullRequest
      BY <1>0, <3>1 DEF PrsOK
    <3> QED
      BY <3>1, <3>2 DEF PullRequest
  <2>3. /\ rows' = [rows EXCEPT ![i].status = prs[rows[i].pr].state]
        /\ SetMerged(b) \/ UNCHANGED bundle
        /\ UNCHANGED <<branch, req, forge, history>>
    BY <1>3 DEF ReportStatus
  <2> HIDE DEF i
  <2> QED
    BY <2>1, <2>2, <2>3, StatusAccept
<1>4. ASSUME NEW p \in Pollers, PollWrite(p) PROVE AcceptInvariant'
  <2> DEFINE q == poll[p]
             s == IF q.saw \in {"merged", "closed"} THEN q.saw ELSE q.status
  <2>1. q \in Poll /\ NotFailed(q.row)
    BY <1>0, <1>4 DEF PollWrite, PollsOK, RowsHeld
  <2>2. s \in Open \cup {"merged", "closed"} /\ q.bundle \in BundleIds /\ q.row \in DOMAIN rows
    BY <2>1 DEF Poll, NotFailed
  <2>3. /\ rows' = rows \/ rows' = [rows EXCEPT ![q.row].status = s]
        /\ SetMerged(q.bundle) \/ UNCHANGED bundle
        /\ UNCHANGED <<branch, req, forge, history>>
    BY <1>4 DEF PollWrite
  <2> HIDE DEF q, s
  <2> QED
    BY <2>1, <2>2, <2>3, StatusAccept
<1>6. ASSUME NEW k \in DOMAIN prs, MergePr(k) \/ ClosePr(k) PROVE AcceptInvariant'
  <2>1. UNCHANGED <<branch, bundle, rows, req, history>>
    BY <1>6 DEF MergePr, ClosePr
  <2>2. PICK s \in {"merged", "closed"} : prs' = [prs EXCEPT ![k].state = s]
    BY <1>6 DEF MergePr, ClosePr
  <2>3. /\ DOMAIN prs' = DOMAIN prs
        /\ \A j \in DOMAIN prs : prs'[j].branch = prs[j].branch
        /\ \A j \in DOMAIN prs : prs'[j].state = "open" => prs[j].state = "open"
    <3>1. prs[k] \in PullRequest
      BY <1>0 DEF PrsOK
    <3>2. prs' = [prs EXCEPT ![k] = [prs[k] EXCEPT !.state = s]]
      BY <2>2
    <3> QED
      BY <1>0, <3>1, <3>2 DEF PullRequest, PrsOK
  <2>4. \A n : OpenPrs(n)' \subseteq OpenPrs(n)
    BY <2>3 DEF OpenPrs
  <2> QED
    BY <2>1, <2>4, QuietAccept
<1>7. CASE CleanClone
  BY <1>7, QuietAccept DEF CleanClone, OpenPrs
<1>8. ASSUME NEW p \in Pollers, (\E saw : PollAsk(p, saw)) \/ \E b \in BundleIds : PollRead(p, b)
      PROVE  AcceptInvariant'
  BY <1>8, QuietAccept DEF PollAsk, PollRead, OpenPrs
<1> QED
  BY <1>1, <1>2, <1>3, <1>4, <1>6, <1>7, <1>8 DEF PollStep

LEMMA AcceptStep ==
  ASSUME DeliverySound, Reconciling, CloneInvariant, AcceptInvariant, [DeliveryNext]_deliveryVars
  PROVE  AcceptInvariant'
<1>1. CASE UNCHANGED deliveryVars
  BY <1>1, QuietAccept DEF OpenPrs
<1> QED
  BY <1>1, PrepareAccept, PublishAccept, RecordAccept, BeginAccept, WorldAccept DEF DeliveryNext

(***************************************************************************)
(* Theorems.                                                               *)
(***************************************************************************)
DeliveryInvariant == DeliverySound /\ Reconciling /\ CloneInvariant /\ AcceptInvariant

LEMMA DeliveryKeeps == DeliverySpec => []DeliveryInvariant
<1>1. DeliveryInit => DeliveryInvariant
  BY InitSound, InitClone, InitAccept DEF DeliveryInvariant, DeliveryInit, Reconciling, At
<1>2. DeliveryInvariant /\ [DeliveryNext]_deliveryVars => DeliveryInvariant'
  BY SoundStep, ReconcilingStep, CloneStep, AcceptStep DEF DeliveryInvariant
<1> QED
  BY <1>1, <1>2, PTL DEF DeliverySpec

\* Whatever the number of bundles, branches and request threads that overlap in the one
\* clone, with failures and restarts between any two of their steps, a branch of the remote
\* adds to base the diff of one bundle at most, and of one that belongs there
\* (orchestrator.py, _CLONE_LOCK).
THEOREM PushesAreOwn == DeliverySpec => []PushedIsOwn
<1>1. DeliveryInvariant => PushedIsOwn
  <2> SUFFICES ASSUME DeliveryInvariant, NEW n \in Branches
               PROVE  Cardinality(remote[n]) <= 1 /\ \A b \in remote[n] : branch[b] = n
    BY DEF PushedIsOwn
  <2>1. remote[n] = {} \/ \E b \in BundleIds : branch[b] = n /\ remote[n] = {b}
    BY DEF DeliveryInvariant, CloneInvariant, OwnOnly
  <2>2. CASE remote[n] = {}
    BY <2>2, FS_EmptySet
  <2>3. ASSUME NEW b \in BundleIds, branch[b] = n, remote[n] = {b} PROVE Cardinality(remote[n]) = 1
    BY <2>3, FS_Singleton
  <2> QED
    BY <2>1, <2>2, <2>3
<1> QED
  BY <1>1, DeliveryKeeps, PTL

\* Whatever fails, overlaps, is polled, reported, merged, closed or reopened: an accepted
\* bundle that nobody is delivering, and whose delivery was not skipped or cut off, has its
\* diff at the forge or a newest row that lets the operator deliver it again
\* (bundle_actions.py, orchestrator.py record_failure).
THEOREM AcceptsAreNotLost == DeliverySpec => []AcceptNotLost
<1>1. DeliveryInvariant => AcceptNotLost
  <2> SUFFICES ASSUME DeliveryInvariant, NEW b \in BundleIds \ (reached \cup excused),
                      resolution[b] = "accepted", ~Busy(b)
               PROVE  Latest(b) # 0 /\ rows[Latest(b)].status = "create_failed"
    BY DEF AcceptNotLost
  <2> QED
    BY ReofferedAnswers DEF DeliveryInvariant, AcceptInvariant, NotLost, Stands, DeliverySound, Delivering
<1> QED
  BY <1>1, DeliveryKeeps, PTL
=============================================================================

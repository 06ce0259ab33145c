------------------------------- MODULE BuildRun -------------------------------
(***************************************************************************)
(* The build runs of one target and build type: dsynth builders start a    *)
(* run through their hooks, report every port and finish it; the tracker   *)
(* keeps the runs, their result rows and the status of each port.          *)
(*                                                                         *)
(* A builder is one dsynth profile: its hooks share a state file.  Every   *)
(* call of a hook is one request and fails soft, so that dsynth goes on.   *)
(* Time is the age of a run: the hours since the last thing it recorded.   *)
(* skipped and ignored, which the tracker treats alike, are "skipped".     *)
(***************************************************************************)
EXTENDS Integers, FiniteSets

CONSTANTS
  Builders,   \* dsynth profiles that build the target
  Ports,      \* the ports each of their runs builds
  NoRun,      \* no build_runs id
  Absent, Disabled, \* the state file of a profile without a tracked run
  MaxRuns,    \* bound: build_runs rows
  StaleHours, \* tracker.stale_build_run_hours
  MaxLost     \* bound: requests or answers that are lost

ASSUME BuildRunAssumption ==
  /\ NoRun \notin Nat /\ Absent \notin Nat /\ Disabled \notin Nat
  /\ MaxRuns \in Nat /\ MaxLost \in Nat /\ StaleHours \in Nat \ {0}

Runs == 1..MaxRuns
Outcome == {"success", "failure", "skipped"}
Row == [status : {"absent", "queued", "building"} \cup Outcome, result : {"none"} \cup Outcome]

VARIABLES
  state,   \* build_runs: "none" until inserted, "open" while finished_at is NULL, "closed"
  age,     \* hours since the last activity of an open run
  row,     \* build_results of each run and port
  attempt, \* port_status: run and result of the last attempt
  success, \* port_status.last_success_run_id
  file,    \* the state file of the profile: a run, Absent or Disabled
  phase,   \* where the builder is
  seen,    \* the stale run its start-build request is about to close
  stage,   \* where dsynth is with each port
  lost

tracker == <<state, age, row, attempt, success>>
builder == <<file, phase, seen, stage>>
vars == <<tracker, builder, lost>>

Fresh == [p \in Ports |-> "todo"]

Init ==
  /\ state = [r \in Runs |-> "none"] /\ age = [r \in Runs |-> 0]
  /\ row = [r \in Runs |-> [p \in Ports |-> [status |-> "absent", result |-> "none"]]]
  /\ attempt = [p \in Ports |-> [run |-> NoRun, result |-> "none"]]
  /\ success = [p \in Ports |-> NoRun]
  /\ file = [b \in Builders |-> Absent] /\ phase = [b \in Builders |-> "off"]
  /\ seen = [b \in Builders |-> NoRun] /\ stage = [b \in Builders |-> Fresh]
  /\ lost = 0

Active == {r \in Runs : state[r] = "open"}
Stale(r) == age[r] >= StaleHours
Goto(b, s) == phase' = [phase EXCEPT ![b] = s]
StateFile(b, f) == file' = [file EXCEPT ![b] = f]
Lose == lost < MaxLost /\ lost' = lost + 1

(***************************************************************************)
(* Starting a run.                                                         *)
(***************************************************************************)
RunStart(b) ==
  /\ phase[b] = "off" /\ Goto(b, "look")
  /\ StateFile(b, Absent) /\ stage' = [stage EXCEPT ![b] = Fresh]
  /\ UNCHANGED <<tracker, seen, lost>>

\* The tracker refuses, or the request is lost: the whole run goes untracked.
Untracked(b) == StateFile(b, Disabled) /\ Goto(b, "build")

\* Mutant: a stale run is defended like a live one.
LookDefended(b) ==
  /\ phase[b] = "look"
  /\ IF Active = {} THEN Goto(b, "insert") /\ UNCHANGED file ELSE Untracked(b)
  /\ UNCHANGED <<tracker, seen, stage, lost>>

Look(b) ==
  /\ phase[b] = "look"
  /\ \/ Active = {} /\ Goto(b, "insert") /\ UNCHANGED <<file, seen>>
     \/ \E r \in Active :
          IF Stale(r)
          THEN Goto(b, "supersede") /\ seen' = [seen EXCEPT ![b] = r] /\ UNCHANGED file
          ELSE Untracked(b) /\ UNCHANGED seen
  /\ UNCHANGED <<tracker, stage, lost>>

Closed(r) == state' = [state EXCEPT ![r] = "closed"] /\ age' = [age EXCEPT ![r] = 0]

\* Mutant: a superseded run gets a state of its own.
SupersedeMarked(b) ==
  /\ phase[b] = "supersede" /\ Goto(b, "insert")
  /\ state' = [state EXCEPT ![seen[b]] = "superseded"]
  /\ seen' = [seen EXCEPT ![b] = NoRun]
  /\ UNCHANGED <<age, row, attempt, success, file, stage, lost>>

Supersede(b) ==
  /\ phase[b] = "supersede" /\ Goto(b, "insert")
  /\ Closed(seen[b]) /\ seen' = [seen EXCEPT ![b] = NoRun]
  /\ UNCHANGED <<row, attempt, success, file, stage, lost>>

\* Mutant: the loser of the race is handed the winner's run.
InsertShared(b) ==
  /\ phase[b] = "insert"
  /\ \E r \in Runs :
       /\ state[r] # "closed" /\ \A q \in 1..(r - 1) : state[q] = "closed"
       /\ state' = [state EXCEPT ![r] = "open"]
       /\ StateFile(b, r) /\ Goto(b, "build")
  /\ UNCHANGED <<age, row, attempt, success, seen, stage, lost>>

\* The partial unique index lets one open run in.
Insert(b) ==
  /\ phase[b] = "insert"
  /\ IF Active # {} THEN Untracked(b) /\ UNCHANGED state
     ELSE \E r \in Runs :
            /\ state[r] = "none" /\ \A q \in 1..(r - 1) : state[q] # "none"
            /\ state' = [state EXCEPT ![r] = "open"]
            /\ StateFile(b, r) /\ Goto(b, "build")
  /\ UNCHANGED <<age, row, attempt, success, seen, stage, lost>>

\* The run exists, its id never reaches the hook.
AnswerLost(b) ==
  /\ phase[b] = "insert" /\ Lose /\ Active = {}
  /\ \E r \in Runs :
       /\ state[r] = "none" /\ \A q \in 1..(r - 1) : state[q] # "none"
       /\ state' = [state EXCEPT ![r] = "open"]
  /\ Untracked(b)
  /\ UNCHANGED <<age, row, attempt, success, seen, stage>>

StartLost(b) ==
  /\ phase[b] = "look" /\ Lose /\ Untracked(b)
  /\ UNCHANGED <<tracker, seen, stage>>

(***************************************************************************)
(* The hooks of a port.                                                    *)
(***************************************************************************)
Stage(b, p, from, to) ==
  phase[b] = "build" /\ stage[b][p] = from /\ stage' = [stage EXCEPT ![b][p] = to]
Tracked(b) == file[b] \in Runs

\* INSERT OR IGNORE of a queued row.
Enqueue(b, p) ==
  /\ Stage(b, p, "todo", "enqueued") /\ Tracked(b)
  /\ row' = [row EXCEPT ![file[b]][p] = IF @.status = "absent" THEN [@ EXCEPT !.status = "queued"]
                                        ELSE @]
  /\ UNCHANGED <<state, age, attempt, success, file, phase, seen, lost>>

MarkBuilding(b, p) ==
  /\ Stage(b, p, "enqueued", "building")
  /\ row' = [row EXCEPT ![file[b]][p].status = "building"]
  /\ UNCHANGED <<state, age, attempt, success, file, phase, seen, lost>>

\* No state file, tracking off, or the request of the start hook is lost.
StartUnseen(b, p) ==
  /\ Stage(b, p, "todo", "building") \/ Stage(b, p, "enqueued", "building")
  /\ IF Tracked(b) THEN Lose ELSE UNCHANGED lost
  /\ UNCHANGED <<tracker, file, phase, seen>>

\* Mutant: every attempt is written into the last_success columns.
RecordAsSuccess(b, p, o) ==
  /\ Stage(b, p, "building", "done") /\ Tracked(b)
  /\ row' = [row EXCEPT ![file[b]][p] = [status |-> o, result |-> o]]
  /\ attempt' = [attempt EXCEPT ![p] = [run |-> file[b], result |-> o]]
  /\ success' = [success EXCEPT ![p] = file[b]]
  /\ age' = [age EXCEPT ![file[b]] = 0]
  /\ UNCHANGED <<state, file, phase, seen, lost>>

\* Mutant: a recorded row keeps the status it was queued with.
RecordKeepsStatus(b, p, o) ==
  /\ Stage(b, p, "building", "done") /\ Tracked(b)
  /\ row' = [row EXCEPT ![file[b]][p].result = o]
  /\ age' = [age EXCEPT ![file[b]] = 0]
  /\ UNCHANGED <<state, attempt, success, file, phase, seen, lost>>

\* A run that was closed meanwhile still takes the result.
Record(b, p, o) ==
  /\ Stage(b, p, "building", "done") \/ (o = "skipped" /\ Stage(b, p, "todo", "done"))
  /\ Tracked(b)
  /\ row' = [row EXCEPT ![file[b]][p] = [status |-> o, result |-> o]]
  /\ attempt' = [attempt EXCEPT ![p] = [run |-> file[b], result |-> o]]
  /\ success' = IF o = "success" THEN [success EXCEPT ![p] = file[b]] ELSE success
  /\ age' = [age EXCEPT ![file[b]] = 0]
  /\ UNCHANGED <<state, file, phase, seen, lost>>

ResultUnseen(b, p) ==
  /\ Stage(b, p, "building", "done")
  /\ IF Tracked(b) THEN Lose ELSE UNCHANGED lost
  /\ UNCHANGED <<tracker, file, phase, seen>>

(***************************************************************************)
(* The end of a run.                                                       *)
(***************************************************************************)
Over(b) == phase[b] = "build" /\ (\A p \in Ports : stage[b][p] = "done") /\ Goto(b, "off")

RunEnd(b) ==
  /\ Over(b) /\ Tracked(b)
  /\ Closed(file[b]) /\ StateFile(b, Absent)
  /\ UNCHANGED <<row, attempt, success, seen, stage, lost>>

\* The state file stays; the run stays open.
EndUnseen(b) ==
  /\ Over(b)
  /\ IF Tracked(b) THEN Lose ELSE UNCHANGED lost
  /\ UNCHANGED <<tracker, file, seen, stage>>

\* dsynth is interrupted: no end hook, the run stays open.
Killed(b) ==
  /\ phase[b] = "build" /\ Goto(b, "off")
  /\ UNCHANGED <<tracker, file, seen, stage, lost>>

Tick ==
  /\ \E r \in Active : ~Stale(r)
  /\ age' = [r \in Runs |-> IF r \in Active /\ ~Stale(r) THEN age[r] + 1 ELSE age[r]]
  /\ UNCHANGED <<state, row, attempt, success, builder, lost>>

Request(b) == RunStart(b) \/ Look(b) \/ Supersede(b) \/ Insert(b)

Hook(b) ==
  \/ RunEnd(b) \/ EndUnseen(b)
  \/ \E p \in Ports :
       \/ Enqueue(b, p) \/ MarkBuilding(b, p) \/ StartUnseen(b, p) \/ ResultUnseen(b, p)
       \/ \E o \in Outcome : Record(b, p, o)

Next ==
  \/ Tick
  \/ \E b \in Builders : Request(b) \/ AnswerLost(b) \/ StartLost(b) \/ Hook(b) \/ Killed(b)

Spec == Init /\ [][Next]_vars

(***************************************************************************)
(* Builds go on to their end or are killed, and some builder starts again; *)
(* time passes.                                                            *)
(***************************************************************************)
Fairness ==
  /\ WF_vars(Tick)
  /\ \A b \in Builders : WF_vars(Request(b)) /\ WF_vars(Hook(b))

LiveSpec == Spec /\ Fairness

(***************************************************************************)
(* Properties.                                                             *)
(***************************************************************************)

\* Every column keeps its type.
TypeOK ==
  /\ state \in [Runs -> {"none", "open", "closed"}] /\ age \in [Runs -> 0..StaleHours]
  /\ row \in [Runs -> [Ports -> Row]]
  /\ attempt \in [Ports -> [run : Runs \cup {NoRun}, result : {"none"} \cup Outcome]]
  /\ success \in [Ports -> Runs \cup {NoRun}]
  /\ file \in [Builders -> Runs \cup {Absent, Disabled}]
  /\ phase \in [Builders -> {"off", "look", "supersede", "insert", "build"}]
  /\ seen \in [Builders -> Runs \cup {NoRun}]
  /\ stage \in [Builders -> [Ports -> {"todo", "enqueued", "building", "done"}]]
  /\ lost \in 0..MaxLost

\* The status of a port names runs that agree with it: the run of the last
\* attempt holds that result, the run of the last success a success, although
\* runs that were superseded go on reporting.
PortStatusAgrees ==
  \A p \in Ports :
    /\ attempt[p].run # NoRun => row[attempt[p].run][p].result = attempt[p].result
    /\ success[p] # NoRun => row[success[p]][p].result = "success"

\* Two builders never report into one run, although they race to start it.
RunsNotShared ==
  \A b, c \in Builders : file[b] = file[c] /\ Tracked(b) => b = c

Alive(r) == \E b \in Builders : file[b] = r /\ phase[b] = "build"

\* A run nobody reports to any more is closed in the end: by the next build of
\* the target, once the run is stale.  The bound on the rows exempts the last.
DeadRunCloses ==
  \A r \in 1..(MaxRuns - 1) : (r \in Active /\ ~Alive(r)) ~> r \notin Active

(***************************************************************************)
(* Stated by the repository's documents, and refuted by the code.          *)
(***************************************************************************)

\* A run building one very slow port is alive and is never superseded.
SlowRunKept ==
  [][\A b \in Builders : Supersede(b) => ~Alive(seen[b])]_vars
===============================================================================

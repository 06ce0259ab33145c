------------------------------ MODULE Delivery ------------------------------
(***************************************************************************)
(* An accepted fix becomes a pull request: the accept and /deliver         *)
(* requests, the one clone they all drive, the bundle_review_requests      *)
(* rows, the forge, and the polls that look for a merge.                   *)
(*                                                                         *)
(* A bundle's diff is the bundle itself.  Its branch encodes origin,       *)
(* target and error signature, so bundles of one root cause share it.      *)
(* Only the github provider is modelled: local-patch has neither clone nor *)
(* forge.  Any git command, HTTP call or database write under a request    *)
(* may fail.  A verified bundle that is not accepted or merged is "fixed". *)
(***************************************************************************)
EXTENDS Integers, FiniteSets, Sequences, FiniteSetsExt

CONSTANTS
  BundleIds,      \* bundles with a verified fix
  Branches,       \* branch names
  Base,           \* the base branch of the clone
  Threads,        \* request threads of the tracker
  Pollers,        \* page renders that look for merges
  Idle,           \* a thread or a poller at rest
  MaxDeliveries,  \* bound: deliveries begun
  MaxCrashes      \* bound: restarts of the tracker

VARIABLES
  branch,      \* the branch name of each bundle
  resolution,  \* bundles.resolution
  prior,       \* bundles.pre_terminal_resolution
  rows,        \* bundle_review_requests, the id of a row is its place
  req,         \* what each thread does
  holder,      \* the thread that has _CLONE_LOCK
  clone,       \* the checked-out branch, and the diffs each branch adds to base
  remote,      \* the diffs each branch of the remote adds to base
  base,        \* the diffs merged into the base branch
  prs,         \* the pull requests of the forge
  poll,        \* what each poller does
  begun,
  crashes,
  reached,     \* history: bundles whose diff the forge holds since they were last reopened
  excused      \* history: bundles whose delivery was skipped or cut off since then

bundle == <<resolution, prior>>
git == <<holder, clone, remote>>
forge == <<base, prs>>
history == <<reached, excused>>
deliveryVars == <<branch, bundle, rows, req, git, forge, poll, begun, crashes, history>>

Open == {"created", "updated"}

ReviewRow == [bundle : BundleIds, status : Open \cup {"merged", "closed", "create_failed"},
              pr : Nat, diff : BundleIds]
DeliveryRequest == [bundle : BundleIds, own : Nat, same : BOOLEAN,
                    step : {"gated", "deliver", "wait", "probe", "check", "checkout", "commit",
                            "push", "ask", "restore", "record", "reconcile"},
                    prior : {"fixed"}, result : Open \cup {"create_failed"}, pr : Nat]
Poll == [bundle : BundleIds, row : Nat, pr : Nat, status : Open,
         saw : {"nothing", "open", "merged", "closed", "error"}]

ASSUME DeliveryAssumption ==
  /\ Base \notin Branches /\ Idle \notin Threads \cup DeliveryRequest \cup Poll
  /\ MaxDeliveries \in Nat /\ MaxCrashes \in Nat

DeliveryInit ==
  /\ branch \in [BundleIds -> Branches]
  /\ resolution = [b \in BundleIds |-> "fixed"] /\ prior = [b \in BundleIds |-> "fixed"]
  /\ rows = <<>> /\ req = [t \in Threads |-> Idle] /\ holder = Idle
  /\ clone = [on |-> Base, adds |-> [n \in Branches |-> {}]] /\ remote = [n \in Branches |-> {}]
  /\ base = {} /\ prs = <<>>
  /\ poll = [p \in Pollers |-> Idle] /\ begun = 0 /\ crashes = 0
  /\ reached = {} /\ excused = {}

(***************************************************************************)
(* The rows.                                                               *)
(***************************************************************************)
RowsOf(b) == {i \in DOMAIN rows : rows[i].bundle = b}
Latest(b) == IF RowsOf(b) = {} THEN 0 ELSE Max(RowsOf(b))
OpenRows(n) == {i \in DOMAIN rows : rows[i].status \in Open /\ branch[rows[i].bundle] = n}
FindOpen(n) == IF OpenRows(n) = {} THEN 0 ELSE Max(OpenRows(n))

\* uq_brr_open_branch: one open row per branch.
MayOpen(i, n) == OpenRows(n) \subseteq {i}

(***************************************************************************)
(* Threads.                                                                *)
(***************************************************************************)
At(t, s) == req[t] # Idle /\ req[t].step = s
Advance(t, s) == req' = [req EXCEPT ![t].step = s]
Mine(t) == branch[req[t].bundle]
Done(t) == req' = [req EXCEPT ![t] = Idle]
Busy(b) == \E t \in Threads : req[t] # Idle /\ req[t].bundle = b

NewRequest(t, b, s) ==
  /\ req[t] = Idle /\ begun < MaxDeliveries /\ begun' = begun + 1
  /\ req' = [req EXCEPT ![t] = [bundle |-> b, own |-> 0, same |-> FALSE, step |-> s,
                                prior |-> "fixed", result |-> "create_failed", pr |-> 0]]

\* The gate reads the bundle on one connection ...
AcceptGate(t, b) ==
  /\ resolution[b] = "fixed" /\ NewRequest(t, b, "gated")
  /\ UNCHANGED <<branch, bundle, rows, git, forge, poll, crashes, history>>

\* ... and another one writes it, whatever the row holds by then.
Accept(t) ==
  /\ At(t, "gated") /\ Advance(t, "deliver")
  /\ LET b == req[t].bundle
     IN /\ resolution' = [resolution EXCEPT ![b] = "accepted"]
        /\ prior' = [prior EXCEPT ![b] = req[t].prior]
  /\ UNCHANGED <<branch, rows, git, forge, poll, begun, crashes, history>>

\* /deliver: an accepted bundle whose newest row failed.
Redeliver(t, b) ==
  /\ resolution[b] = "accepted" /\ Latest(b) # 0 /\ rows[Latest(b)].status = "create_failed"
  /\ NewRequest(t, b, "deliver")
  /\ UNCHANGED <<branch, bundle, rows, git, forge, poll, crashes, history>>

\* Delivery is opted out of or not configured, or there is no diff to deliver.
Skip(t) ==
  /\ At(t, "deliver") /\ Done(t)
  /\ excused' = excused \cup {req[t].bundle}
  /\ UNCHANGED <<branch, bundle, rows, git, forge, poll, begun, crashes, reached>>

FailedRow(t) == [bundle |-> req[t].bundle, status |-> "create_failed", pr |-> 0,
                 diff |-> req[t].bundle]

\* A failure before the provider is called, or one that escapes from deliver():
\* record_failure writes the row.
RecordFailure(t) ==
  /\ Done(t) /\ rows' = Append(rows, FailedRow(t))
  /\ UNCHANGED <<branch, bundle, git, forge, poll, begun, crashes, history>>

\* The configuration is malformed, the diff unreadable or the clone missing.
NotPrepared(t) == At(t, "deliver") /\ RecordFailure(t)

\* The open row of the branch is looked up before the clone is waited for.
LookUp(t) ==
  /\ At(t, "deliver")
  /\ LET i == FindOpen(Mine(t))
     IN req' = [req EXCEPT ![t].step = "wait", ![t].own = i,
                           ![t].same = i # 0 /\ rows[i].diff = req[t].bundle]
  /\ UNCHANGED <<branch, bundle, rows, git, forge, poll, begun, crashes, history>>

(***************************************************************************)
(* The clone, one thread at a time.                                        *)
(***************************************************************************)
Provider(t) == UNCHANGED <<branch, bundle, rows, base, poll, begun, crashes, excused>>

\* Mutant: no lock around the provider call.
TakeUnlocked(t) ==
  /\ At(t, "wait") /\ holder' = t /\ Advance(t, IF req[t].same THEN "probe" ELSE "check")
  /\ Provider(t) /\ UNCHANGED <<clone, remote, prs, reached>>

TakeClone(t) ==
  /\ At(t, "wait") /\ holder = Idle /\ holder' = t
  /\ Advance(t, IF req[t].same THEN "probe" ELSE "check")
  /\ Provider(t) /\ UNCHANGED <<clone, remote, prs, reached>>

\* Mutant: a thread that waited too long gives up without a row.
WaitedSilently(t) ==
  /\ At(t, "wait") /\ holder # Idle /\ Done(t)
  /\ UNCHANGED <<branch, bundle, rows, git, forge, poll, begun, crashes, history>>

\* clone_wait_timeout: the same row as any failure of the provider.
WaitedTooLong(t) == At(t, "wait") /\ holder # Idle /\ RecordFailure(t)

OpenPrs(n) == {k \in DOMAIN prs : prs[k].branch = n /\ prs[k].state = "open"}

Settle(t, s, result, k) ==
  req' = [req EXCEPT ![t].step = s, ![t].result = result, ![t].pr = k]

\* The open row holds this very diff: if its pull request is still open, it is
\* only told so.
Probe(t) ==
  /\ At(t, "probe")
  /\ LET open == OpenPrs(Mine(t))
     IN IF open = {} THEN Advance(t, "check") /\ UNCHANGED <<holder, reached>>
        ELSE Settle(t, "record", "updated", Max(open)) /\ holder' = Idle
             /\ reached' = reached \cup {req[t].bundle}
  /\ Provider(t) /\ UNCHANGED <<clone, remote, prs>>

\* prepare_clean_branch refuses a clone that is dirty or off its base ...
CheckClone(t) ==
  /\ At(t, "check") /\ clone.on = Base /\ Advance(t, "checkout")
  /\ Provider(t) /\ UNCHANGED <<git, prs, reached>>

\* ... before it checks the branch out from base.
Checkout(t) ==
  /\ At(t, "checkout") /\ Advance(t, "commit")
  /\ clone' = [clone EXCEPT !.on = Mine(t), !.adds[Mine(t)] = {}]
  /\ Provider(t) /\ UNCHANGED <<holder, remote, prs, reached>>

\* The diff is applied and committed to whatever is checked out; one that base
\* has already leaves nothing to commit.
Commit(t) ==
  /\ At(t, "commit") /\ req[t].bundle \notin base /\ Advance(t, "push")
  /\ clone' = IF clone.on = Base THEN clone
              ELSE [clone EXCEPT !.adds[clone.on] = @ \cup {req[t].bundle}]
  /\ Provider(t) /\ UNCHANGED <<holder, remote, prs, reached>>

\* The push replaces what an open pull request of the branch holds.
Push(t) ==
  /\ At(t, "push") /\ Advance(t, "ask")
  /\ remote' = [remote EXCEPT ![Mine(t)] = clone.adds[Mine(t)]]
  /\ reached' = IF OpenPrs(Mine(t)) = {} THEN reached ELSE reached \cup {req[t].bundle}
  /\ Provider(t) /\ UNCHANGED <<holder, clone, prs>>

\* An open pull request is updated, else one is created; the answer to the
\* POST may be lost.
Ask(t, answered) ==
  /\ At(t, "ask")
  /\ LET open == OpenPrs(Mine(t))
     IN IF open # {} THEN Settle(t, "restore", "updated", Max(open)) /\ UNCHANGED <<prs, reached>>
        ELSE /\ prs' = Append(prs, [branch |-> Mine(t), state |-> "open"])
             /\ reached' = reached \cup {req[t].bundle}
             /\ IF answered THEN Settle(t, "restore", "created", Len(prs'))
                ELSE Settle(t, "restore", "create_failed", 0)
  /\ Provider(t) /\ UNCHANGED git

\* A failure before the branch is checked out leaves the clone alone; a later
\* one goes through the finally.
ProviderFails(t) ==
  /\ \/ /\ \E s \in {"probe", "check", "checkout"} : At(t, s)
        /\ Settle(t, "record", "create_failed", 0) /\ holder' = Idle
     \/ /\ \E s \in {"commit", "push", "ask"} : At(t, s)
        /\ Settle(t, "restore", "create_failed", 0) /\ UNCHANGED holder
  /\ Provider(t) /\ UNCHANGED <<clone, remote, prs, reached>>

\* restore_to_base, which may fail and then only warns.
Restore(t, works) ==
  /\ At(t, "restore") /\ Advance(t, "record") /\ holder' = Idle
  /\ clone' = IF works THEN [clone EXCEPT !.on = Base] ELSE clone
  /\ Provider(t) /\ UNCHANGED <<remote, prs, reached>>

\* The operator cleans a clone that was left on a branch.
CleanClone ==
  /\ holder = Idle /\ clone.on # Base /\ clone' = [clone EXCEPT !.on = Base]
  /\ UNCHANGED <<branch, bundle, rows, req, holder, remote, forge, poll, begun, crashes, history>>

(***************************************************************************)
(* The row of the outcome.                                                 *)
(***************************************************************************)
RecordRest == UNCHANGED <<branch, bundle, git, forge, poll, begun, crashes, history>>
OutcomeRow(t) == [bundle |-> req[t].bundle, status |-> req[t].result, pr |-> req[t].pr,
               diff |-> req[t].bundle]

\* The provider failed.
RecordFailed(t) == At(t, "record") /\ req[t].result = "create_failed" /\ RecordFailure(t)

UpdateRow(i, t) ==
  rows' = [rows EXCEPT ![i].status = req[t].result, ![i].pr = req[t].pr,
                       ![i].diff = req[t].bundle]

\* The row that was open before the provider was called stands for the update;
\* if it was closed since and the branch has another open row, the write raises.
RecordUpdate(t) ==
  /\ At(t, "record") /\ req[t].result = "updated" /\ req[t].own # 0
  /\ IF MayOpen(req[t].own, Mine(t))
     THEN UpdateRow(req[t].own, t) /\ Done(t) /\ RecordRest
     ELSE RecordFailure(t)

\* A fresh row, unless the branch has an open one by now.
RecordFresh(t) ==
  /\ At(t, "record") /\ req[t].result \in Open /\ ~(req[t].result = "updated" /\ req[t].own # 0)
  /\ IF MayOpen(0, Mine(t)) THEN rows' = Append(rows, OutcomeRow(t)) /\ Done(t)
     ELSE Advance(t, "reconcile") /\ UNCHANGED rows
  /\ RecordRest

\* The open row takes the pull request; if it is gone again, the error is raised.
Reconcile(t) ==
  /\ At(t, "reconcile")
  /\ IF FindOpen(Mine(t)) # 0 THEN UpdateRow(FindOpen(Mine(t)), t) /\ Done(t) /\ RecordRest
     ELSE RecordFailure(t)

(***************************************************************************)
(* The operator and the forge.                                             *)
(***************************************************************************)
Reopen(b) ==
  /\ resolution[b] \in {"accepted", "merged"}
  /\ resolution' = [resolution EXCEPT ![b] = prior[b]] /\ prior' = [prior EXCEPT ![b] = "fixed"]
  /\ IF Busy(b) \/ prior[b] = "accepted" THEN UNCHANGED history
     ELSE reached' = reached \ {b} /\ excused' = excused \ {b}
  /\ UNCHANGED <<branch, rows, req, git, forge, poll, begun, crashes>>

\* set_bundle_merged_resolution.
SetMerged(b) ==
  IF resolution[b] = "merged" THEN UNCHANGED bundle
  ELSE /\ resolution' = [resolution EXCEPT ![b] = "merged"]
       /\ prior' = [prior EXCEPT ![b] = resolution[b]]

MergePr(k) ==
  /\ prs[k].state = "open"
  /\ prs' = [prs EXCEPT ![k].state = "merged"] /\ base' = base \cup remote[prs[k].branch]
  /\ UNCHANGED <<branch, bundle, rows, req, git, poll, begun, crashes, history>>

ClosePr(k) ==
  /\ prs[k].state = "open" /\ prs' = [prs EXCEPT ![k].state = "closed"]
  /\ UNCHANGED <<branch, bundle, rows, req, git, base, poll, begun, crashes, history>>

\* delivery/status: the operator reports what became of the pull request.  The
\* read and the write, which follow each other at once, are one step.
ReportStatus(b) ==
  /\ Latest(b) # 0
  /\ LET i == Latest(b)
     IN /\ rows[i].status \in Open /\ prs[rows[i].pr].state # "open"
        /\ rows' = [rows EXCEPT ![i].status = prs[rows[i].pr].state]
        /\ IF prs[rows[i].pr].state = "merged" THEN SetMerged(b) ELSE UNCHANGED bundle
  /\ UNCHANGED <<branch, req, git, forge, poll, begun, crashes, history>>

(***************************************************************************)
(* The polls.                                                              *)
(***************************************************************************)
\* Mutant: a bundle that is merged already is no candidate.
PollReadUnmerged(p, b) ==
  /\ poll[p] = Idle /\ Latest(b) # 0 /\ rows[Latest(b)].status \in Open /\ resolution[b] # "merged"
  /\ poll' = [poll EXCEPT ![p] = [bundle |-> b, row |-> Latest(b), pr |-> rows[Latest(b)].pr,
                                  status |-> rows[Latest(b)].status, saw |-> "nothing"]]
  /\ UNCHANGED <<branch, bundle, rows, req, git, forge, begun, crashes, history>>

\* The candidates are the bundles whose latest row is open.
PollRead(p, b) ==
  /\ poll[p] = Idle /\ Latest(b) # 0 /\ rows[Latest(b)].status \in Open
  /\ poll' = [poll EXCEPT ![p] = [bundle |-> b, row |-> Latest(b), pr |-> rows[Latest(b)].pr,
                                  status |-> rows[Latest(b)].status, saw |-> "nothing"]]
  /\ UNCHANGED <<branch, bundle, rows, req, git, forge, begun, crashes, history>>

PollAsk(p, saw) ==
  /\ poll[p] # Idle /\ poll[p].saw = "nothing"
  /\ saw \in {prs[poll[p].pr].state, "error"}
  /\ poll' = [poll EXCEPT ![p].saw = saw]
  /\ UNCHANGED <<branch, bundle, rows, req, git, forge, begun, crashes, history>>

\* The row gets what the forge said, or its status back if the forge said
\* nothing new; a write that would open a second row of the branch is rolled back.
PollWrite(p) ==
  /\ poll[p] # Idle /\ poll[p].saw # "nothing"
  /\ LET q == poll[p]
         status == IF q.saw \in {"merged", "closed"} THEN q.saw ELSE q.status
         refused == status \in Open /\ ~MayOpen(q.row, branch[q.bundle])
     IN /\ rows' = IF refused THEN rows ELSE [rows EXCEPT ![q.row].status = status]
        /\ IF q.saw = "merged" THEN SetMerged(q.bundle) ELSE UNCHANGED bundle
  /\ poll' = [poll EXCEPT ![p] = Idle]
  /\ UNCHANGED <<branch, req, git, forge, begun, crashes, history>>

(***************************************************************************)
(* The tracker restarts: its threads and its lock are gone, the clone      *)
(* stays as it is.                                                         *)
(***************************************************************************)
Restart ==
  /\ crashes < MaxCrashes /\ crashes' = crashes + 1
  /\ excused' = excused \cup {req[t].bundle : t \in {u \in Threads : req[u] # Idle}}
  /\ req' = [t \in Threads |-> Idle] /\ holder' = Idle /\ poll' = [p \in Pollers |-> Idle]
  /\ UNCHANGED <<branch, bundle, rows, clone, remote, forge, begun, reached>>

Prepare(t) ==
  Accept(t) \/ Skip(t) \/ NotPrepared(t) \/ LookUp(t) \/ TakeClone(t) \/ WaitedTooLong(t)

Publish(t) ==
  \/ Probe(t) \/ CheckClone(t) \/ Checkout(t) \/ Commit(t) \/ Push(t) \/ ProviderFails(t)
  \/ \E yes \in BOOLEAN : Ask(t, yes) \/ Restore(t, yes)

RecordOutcome(t) == RecordFailed(t) \/ RecordUpdate(t) \/ RecordFresh(t) \/ Reconcile(t)

PollStep(p) == PollWrite(p) \/ \E saw \in {"open", "merged", "closed", "error"} : PollAsk(p, saw)

DeliveryNext ==
  \/ \E t \in Threads :
       \/ Prepare(t) \/ Publish(t) \/ RecordOutcome(t)
       \/ \E b \in BundleIds : AcceptGate(t, b) \/ Redeliver(t, b)
  \/ CleanClone \/ Restart
  \/ \E b \in BundleIds : Reopen(b) \/ ReportStatus(b)
  \/ \E k \in DOMAIN prs : MergePr(k) \/ ClosePr(k)
  \/ \E p \in Pollers : PollStep(p) \/ \E b \in BundleIds : PollRead(p, b)

DeliverySpec == DeliveryInit /\ [][DeliveryNext]_deliveryVars

(***************************************************************************)
(* Request threads run.  Pages are rendered again and again, a sweep polls *)
(* every candidate, and the forge does not fail for ever.                  *)
(***************************************************************************)
DeliveryFairness ==
  /\ \A t \in Threads : WF_deliveryVars(Prepare(t) \/ Publish(t) \/ RecordOutcome(t))
  /\ \A p \in Pollers :
       /\ WF_deliveryVars(PollStep(p))
       /\ SF_deliveryVars(\E s \in {"open", "merged", "closed"} : PollAsk(p, s))
  /\ \A b \in BundleIds : SF_deliveryVars(\E p \in Pollers : PollRead(p, b))

DeliveryLiveSpec == DeliverySpec /\ DeliveryFairness

(***************************************************************************)
(* Properties.                                                             *)
(***************************************************************************)

\* Requests that overlap in the clone never publish each other's work: what a
\* branch adds to base is the diff of one bundle, and of one that belongs there.
PushedIsOwn ==
  \A n \in Branches :
    Cardinality(remote[n]) <= 1 /\ \A b \in remote[n] : branch[b] = n

\* An accepted fix is never lost between the decision and the forge: unless its
\* delivery was skipped or cut off, either the forge has its diff or the newest
\* row lets the operator deliver it again.
AcceptNotLost ==
  \A b \in BundleIds \ (reached \cup excused) :
    resolution[b] = "accepted" /\ ~Busy(b)
      => Latest(b) # 0 /\ rows[Latest(b)].status = "create_failed"

Outdated(i) ==
  /\ i \in DOMAIN rows /\ i = Latest(rows[i].bundle)
  /\ rows[i].status \in Open /\ prs[rows[i].pr].state # "open"

\* The row of a merged or closed pull request is settled in the end, although a
\* poll that saw it open writes that over the verdict of another.
RowSettles == \A i \in 1..MaxDeliveries : Outdated(i) ~> ~Outdated(i)

(***************************************************************************)
(* Stated by the repository's documents, and refuted by the code.          *)
(***************************************************************************)

\* A bundle that still has an open row is marked merged when the pull request of
\* that row merges.
MergeReachesBundle ==
  \A b \in BundleIds :
    (/\ resolution[b] = "accepted"
     /\ \E i \in RowsOf(b) : rows[i].status \in Open /\ prs[rows[i].pr].state = "merged")
      ~> resolution[b] # "accepted"
=============================================================================

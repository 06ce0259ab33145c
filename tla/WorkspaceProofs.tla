--------------------------- MODULE WorkspaceProofs ---------------------------
(***************************************************************************)
(* Proofs about Workspace, for any ports, overlays, payload files, bundles *)
(* and build lines, any number of jobs, edits, faults and crashes, and any *)
(* commits of upstream.                                                    *)
(***************************************************************************)
EXTENDS Workspace, TLAPS

USE DEF git, artifacts, bounds, history, vars

(***************************************************************************)
(* What a job's tree is at each of its steps.                              *)
(***************************************************************************)
Working == {"add", "link", "begin", "run", "teardown", "remove"}
HasTree == {"link", "begin", "run"}

FreshOf(h, c) == [cut |-> c, overlay |-> h.overlay, files |-> h.files]
EditedOf(h, t) == t \notin {FreshOf(h, t.cut), Bootstrapped(FreshOf(h, t.cut))}

Places ==
  /\ pc \in Working \cup {"idle", "down", "sweep"}
  /\ pc \in Working => job \in Dirs
  /\ pc \notin Working => job = None
  /\ link \in Dirs \cup {Main, None}
  /\ pc \in {"begin", "run"} => link = job
  /\ pc = "run" => Kind(job) = "patch"

TreesOK ==
  /\ base \in 0..MaxBase /\ head \in Heads /\ began \in 0..MaxBase
  /\ branches \in [Dirs -> 0..MaxBase \cup {None}]
  /\ trees \in [Dirs \cup {Main} -> Checkout \cup {None}]
  /\ trees[Main] \in Checkout
  /\ pc \in HasTree => trees[job] \in Checkout
  /\ pc = "add" => trees[job] = None

ArtsOK ==
  /\ changes \in [Bundles -> Capture \cup {None, Tombstone}]
  /\ snapshot \in [Bundles -> Capture \cup {None}]

Typed == Places /\ TreesOK /\ ArtsOK

\* Until its tools run, a job's tree is what it was cut as; a patch's tree is at
\* its branch, a verification's at the base it began on.
FreshYet ==
  /\ pc \in {"link", "begin"} => trees[job] = FreshOf(head, trees[job].cut)
  /\ pc \in {"link", "begin"} /\ Kind(job) = "verify" => trees[job].cut = began
  /\ pc \in HasTree /\ Kind(job) = "patch" => trees[job].cut = branches[job]

OwnTree == pc = "run" => \A f \in Files : trees[job].files[f] \in {None, "base", BundleOf(job)}
OwnArts == \A b \in Bundles : \A d \in Captures(b) : \A f \in Files : d.tree.files[f] \in {None, "base", b}

\* An artifact of the bundle shows the tree of its patch, and at the end of the job
\* changes.diff does.
Unshown(b) ==
  LET d == <<"patch", b>> IN trees[d] # None /\ EditedOf(head, trees[d]) /\ d \notin missed
ShownIn(b) ==
  Unshown(b) => \E x \in Captures(b) : Bootstrapped(x.tree) = Bootstrapped(trees[<<"patch", b>>])
ShownAtEnd(b) ==
  pc \in {"teardown", "remove"} /\ job = <<"patch", b>> /\ Unshown(b)
    => changes[b] \notin {None, Tombstone}
       /\ Bootstrapped(changes[b].tree) = Bootstrapped(trees[<<"patch", b>>])
WorkShown == \A b \in Bundles : ShownIn(b) /\ ShownAtEnd(b)

\* A branch is at the base, while its job has a tree, or has outlived.
BranchAtBase ==
  \A b \in Bundles : LET d == <<"patch", b>> IN
    branches[d] # None =>
      \/ d \in outlived
      \/ /\ job = d /\ pc \in {"link", "begin", "run", "teardown", "remove"}
         /\ branches[d] = base /\ trees[d] # None

WorkspaceInvariant ==
  /\ FreshYet /\ OwnTree /\ OwnArts
  /\ VerdictIsOfDiff /\ SharedPayloadKept /\ WorkShown /\ BranchAtBase

(***************************************************************************)
(* Names, trees and captures.                                              *)
(***************************************************************************)
LEMMA NoneApart ==
  /\ Main \notin Dirs /\ None \notin Dirs /\ None # Main /\ "base" \notin Bundles
  /\ Tombstone # None /\ None \notin 0..MaxBase /\ None \notin Checkout
  /\ None \notin Capture /\ Tombstone \notin Capture /\ MaxBase \in Nat
<1>0. /\ Main \notin Dirs /\ None \notin Dirs /\ None # Main /\ "base" \notin Bundles
      /\ Tombstone # None /\ MaxBase \in Nat
  BY WorkspaceAssumption
<1>1. {None, Tombstone} \cap Capture = {} /\ None \notin Nat /\ None \notin Checkout
  BY WorkspaceAssumption
<1>2. None \notin 0..MaxBase
  BY <1>1
<1>3. None \notin Capture /\ Tombstone \notin Capture
  BY <1>1
<1> QED
  BY <1>0, <1>1, <1>2, <1>3

LEMMA DirShape ==
  ASSUME NEW d \in Dirs
  PROVE  /\ BundleOf(d) \in Bundles /\ Kind(d) \in {"patch", "verify"} /\ d = <<Kind(d), BundleOf(d)>>
         /\ Kind(d) = "patch" => d = <<"patch", BundleOf(d)>>
  BY DEF Dirs, Kind, BundleOf

LEMMA PatchDir ==
  ASSUME NEW b \in Bundles
  PROVE  <<"patch", b>> \in Dirs /\ Kind(<<"patch", b>>) = "patch" /\ BundleOf(<<"patch", b>>) = b
  BY DEF Dirs, Kind, BundleOf

LEMMA HeadShape ==
  ASSUME head \in Heads
  PROVE  /\ head.overlay \in (SUBSET Op) \cup {Absent} /\ head.files \in [Files -> {None, "base"}]
  BY WorkspaceAssumption

LEMMA FreshTyped ==
  ASSUME head \in Heads, NEW c \in 0..MaxBase, NEW t, t = FreshOf(head, c)
  PROVE  /\ t \in Checkout /\ t.cut = c /\ t.overlay = head.overlay /\ t.files = head.files
         /\ ~EditedOf(head, t) /\ t = FreshOf(head, t.cut)
  BY HeadShape DEF FreshOf, Checkout, EditedOf

LEMMA Same ==
  /\ \A c : Fresh(c) = FreshOf(head, c)
  /\ \A t : Edited(t) <=> EditedOf(head, t)
  BY DEF Fresh, FreshOf, Edited, EditedOf

\* A bootstrap overlay changes nothing else, and a second one nothing at all.
LEMMA BootTyped ==
  ASSUME NEW t \in Checkout, NEW u, u = Bootstrapped(t)
  PROVE  /\ u \in Checkout /\ u.cut = t.cut /\ u.files = t.files
         /\ Bootstrapped(u) = u
<1> DEFINE o == IF t.overlay = Absent /\ Present(t) = {} THEN {} ELSE t.overlay
<1>1. u = [cut |-> t.cut, overlay |-> o, files |-> t.files]
  BY DEF Bootstrapped, Checkout
<1>2. Present(u) = Present(t) /\ u \in Checkout
  BY <1>1 DEF Present, Checkout
<1>3. /\ Bootstrapped(u) = [cut |-> u.cut, overlay |-> IF u.overlay = Absent /\ Present(u) = {} THEN {} ELSE u.overlay,
                         files |-> u.files]
  BY <1>2 DEF Bootstrapped, Checkout
<1> QED
  BY <1>1, <1>2, <1>3

LEMMA BootUnedited ==
  ASSUME head \in Heads, NEW t \in Checkout, ~EditedOf(head, t)
  PROVE  ~EditedOf(head, Bootstrapped(t))
<1> DEFINE f == FreshOf(head, t.cut)
<1>1. t.cut \in 0..MaxBase
  BY DEF Checkout
<1>2. f \in Checkout /\ f.cut = t.cut
  BY <1>1, FreshTyped
<1>3. Bootstrapped(t).cut = t.cut /\ Bootstrapped(Bootstrapped(f)) = Bootstrapped(f)
  BY <1>2, BootTyped
<1>4. t = f \/ t = Bootstrapped(f)
  BY DEF EditedOf
<1> QED
  BY <1>3, <1>4 DEF EditedOf

LEMMA CaptureTyped ==
  ASSUME base \in 0..MaxBase, NEW t \in Checkout, NEW d, d = Diff(t)
  PROVE  d \in Capture /\ d.tree = t /\ d.from = base /\ d # None /\ d # Tombstone
<1>1. d \in Capture /\ d.tree = t /\ d.from = base
  BY DEF Diff, Capture
<1>2. None \notin Capture /\ Tombstone \notin Capture
  BY NoneApart
<1> QED
  BY <1>1, <1>2

\* One tree is replaced.
LEMMA TreeSet ==
  ASSUME TreesOK, NEW d \in Dirs \cup {Main}, NEW t \in Checkout \cup {None},
         trees' = [trees EXCEPT ![d] = t]
  PROVE  /\ trees' \in [Dirs \cup {Main} -> Checkout \cup {None}]
         /\ trees'[d] = t /\ \A e \in Dirs \cup {Main} : e # d => trees'[e] = trees[e]
  BY DEF TreesOK

LEMMA AppliedTyped ==
  ASSUME head \in Heads, NEW t \in Checkout, NEW d \in Capture, NEW u, u = Applied(t, d)
  PROVE  u \in Checkout
<1>1. d.tree \in Checkout /\ d.from \in 0..MaxBase
  BY DEF Capture
<1>2. \A n, o, x : Merged(n, o, x) = n \/ Merged(n, o, x) = x
  BY DEF Merged
<1>3. u = [cut |-> Merged(d.tree.cut, d.from, t.cut),
           overlay |-> Merged(d.tree.overlay, head.overlay, t.overlay),
           files |-> [f \in Files |-> Merged(d.tree.files[f], head.files[f], t.files[f])]]
  BY DEF Applied
<1>4. Merged(d.tree.cut, d.from, t.cut) \in 0..MaxBase
  BY <1>1, <1>2 DEF Checkout
<1>5. Merged(d.tree.overlay, head.overlay, t.overlay) \in (SUBSET Op) \cup {Unplanned, Absent}
  BY <1>1, <1>2 DEF Checkout
<1>6. \A f \in Files : Merged(d.tree.files[f], head.files[f], t.files[f]) \in {None, "base"} \cup Bundles
  BY <1>1, <1>2 DEF Checkout
<1> QED
  BY <1>3, <1>4, <1>5, <1>6 DEF Checkout

(***************************************************************************)
(* What an action does: a tool call leaves the job's tree at its commit,   *)
(* and a file that other lines read as it was.                             *)
(***************************************************************************)
Called(t, loose) ==
  /\ t \in Checkout /\ t.cut = trees[job].cut
  /\ \A f \in Files : t.files[f] \in {trees[job].files[f], None, BundleOf(job)}
  /\ \A f \in Files : Committed(f) /\ ReadAtHead(f) /\ f \notin loose => t.files[f] = trees[job].files[f]
  /\ trees' = [trees EXCEPT ![job] = t] /\ opened' = opened \cup loose
  /\ \/ snapshot' = [snapshot EXCEPT ![BundleOf(job)] = Diff(t)] /\ missed' = missed \ {job}
     \/ snapshot' = snapshot /\ missed' = missed \cup {job}
  /\ UNCHANGED <<base, head, branches, link, job, pc, changes, verdict, began, outlived>>

LEMMA AtWork ==
  ASSUME Typed, pc = "run"
  PROVE  /\ job \in Dirs /\ Kind(job) = "patch" /\ BundleOf(job) \in Bundles /\ link = job
         /\ Tree = trees[job] /\ trees[job] \in Checkout /\ head \in Heads /\ base \in 0..MaxBase
  BY DirShape DEF Typed, Places, TreesOK, Working, HasTree, Tree

LEMMA WroteCalled ==
  ASSUME Typed, pc = "run", NEW t \in Checkout, t.cut = trees[job].cut,
         NEW answers, NEW loose, Wrote(t, answers, loose),
         \A f \in Files : t.files[f] \in {trees[job].files[f], None, BundleOf(job)},
         \A f \in Files : Committed(f) /\ ReadAtHead(f) /\ f \notin loose => t.files[f] = trees[job].files[f]
  PROVE  Called(t, loose)
  BY AtWork DEF Wrote, Called, SetTree

LEMMA WriteFileCalled ==
  ASSUME Typed, pc = "run", NEW f \in Files, NEW answers \in BOOLEAN, WriteFile(f, answers)
  PROVE  \E t, loose : Called(t, loose)
<1> DEFINE t == [Tree EXCEPT !.files[f] = BundleOf(job)]
<1>0. Tree \in Checkout /\ Tree = trees[job] /\ BundleOf(job) \in Bundles
  BY AtWork
<1>1. t \in Checkout /\ t.cut = trees[job].cut
  BY <1>0 DEF Checkout
<1>2. t.files[f] = BundleOf(job) /\ \A g \in Files : g # f => t.files[g] = trees[job].files[g]
  BY <1>0 DEF Checkout
<1>3. Wrote(t, answers, Unseen(f, answers)) /\ ~SharedPayload(f, answers)
  BY DEF WriteFile
<1> HIDE DEF t
<1>4. Committed(f) /\ ReadAtHead(f) => f \in Unseen(f, answers)
  BY <1>3 DEF SharedPayload, Unseen
<1> QED
  BY <1>1, <1>2, <1>3, <1>4, WroteCalled

LEMMA DeleteFileCalled ==
  ASSUME Typed, pc = "run", NEW f \in Files, NEW answers \in BOOLEAN, DeleteFile(f, answers)
  PROVE  \E t, loose : Called(t, loose)
<1> DEFINE t == [Tree EXCEPT !.files[f] = None]
<1>0. Tree \in Checkout /\ Tree = trees[job]
  BY AtWork
<1>1. t \in Checkout /\ t.cut = trees[job].cut
  BY <1>0 DEF Checkout
<1>2. t.files[f] = None /\ \A g \in Files : g # f => t.files[g] = trees[job].files[g]
  BY <1>0 DEF Checkout
<1>3. Wrote(t, answers, Unseen(f, answers)) /\ ~SharedAtHead(f, answers)
  BY DEF DeleteFile
<1> HIDE DEF t
<1>4. Committed(f) /\ ReadAtHead(f) => f \in Unseen(f, answers)
  BY <1>3 DEF SharedAtHead, Unseen
<1> QED
  BY <1>1, <1>2, <1>3, <1>4, WroteCalled

LEMMA WriteOverlayCalled ==
  ASSUME Typed, pc = "run", NEW o \in Overlays, WriteOverlay(o)
  PROVE  \E t, loose : Called(t, loose)
<1> DEFINE t == [Tree EXCEPT !.overlay = o]
<1>0. Tree \in Checkout /\ Tree = trees[job]
  BY AtWork
<1>1. o \in (SUBSET Op) \cup {Unplanned}
  BY WorkspaceAssumption
<1>2. t \in Checkout /\ t.cut = trees[job].cut /\ t.files = trees[job].files
  BY <1>0, <1>1 DEF Checkout
<1>3. Wrote(t, TRUE, {})
  BY DEF WriteOverlay
<1> HIDE DEF t
<1> QED
  BY <1>2, <1>3, WroteCalled

\* A file the guards of install_patches keep is never where a patch goes.
LEMMA KeptFromInstall ==
  ASSUME Typed, pc = "run", NEW n \in Names, NEW answers \in BOOLEAN, NEW c, c = Candidate(Chosen(n), answers),
         ~c.unguarded, Tree.overlay = head.overlay
  PROVE  ~(Committed(c.file) /\ ReadAtHead(c.file))
<1> SUFFICES ASSUME Committed(c.file), ReadAtHead(c.file) PROVE FALSE
  OBVIOUS
<1> DEFINE d == Chosen(n)
<1>1. /\ d.kind # "unsafe" /\ c.file = d.file
      /\ ~(d.kind = "existing" /\ ReadNow(d.file) /\ (answers => Committed(d.file)))
      /\ d.kind = "new" => answers /\ StartedFresh
  BY DEF Candidate
<1>2. Plans(Tree.overlay) /\ ReadNow(c.file)
  BY DEF ReadAtHead, ReadNow
<1>3. d = Destination(Tree.overlay, Present(Tree), n)
  BY <1>2 DEF Chosen
<1>4. d.kind \in {"existing", "new", "unsafe"} /\ (d.kind = "new" => d.file = At("flat", n))
  BY <1>3 DEF Destination
<1>5. d.kind = "new"
  BY <1>1, <1>2, <1>4
<1>6. At("flat", n) \in Files /\ InFolder(At("flat", n))
  BY PayloadAssumption DEF At, InFolder
<1> QED
  BY <1>1, <1>4, <1>5, <1>6 DEF StartedFresh

LEMMA InstallCalled ==
  ASSUME Typed, pc = "run", NEW cs \in SUBSET Names, NEW answers \in BOOLEAN, InstallPatches(cs, answers)
  PROVE  \E t, loose : Called(t, loose)
<1> DEFINE put == {c \in {Candidate(d, answers) : d \in {Chosen(n) : n \in cs}} : ~c.held}
           loose == {c.file : c \in {d \in put : d.unguarded \/ Tree.overlay # head.overlay}}
<1>1. PICK to \in {{c.file : c \in put}} :
        Wrote([Tree EXCEPT !.files = [f \in Files |-> IF f \in to THEN BundleOf(job) ELSE @[f]]],
              answers, loose)
  BY DEF InstallPatches, Installed
<1> DEFINE t == [Tree EXCEPT !.files = [f \in Files |-> IF f \in to THEN BundleOf(job) ELSE @[f]]]
<1>2. to = {c.file : c \in put} /\ Wrote(t, answers, loose)
  BY <1>1
<1>3. Tree \in Checkout /\ Tree = trees[job] /\ BundleOf(job) \in Bundles
  BY AtWork
<1>4. t = [cut |-> Tree.cut, overlay |-> Tree.overlay,
           files |-> [f \in Files |-> IF f \in to THEN BundleOf(job) ELSE Tree.files[f]]]
  BY <1>3 DEF Checkout
<1>5. /\ t \in Checkout /\ t.cut = trees[job].cut
      /\ \A f \in Files : t.files[f] = IF f \in to THEN BundleOf(job) ELSE trees[job].files[f]
  BY <1>3, <1>4 DEF Checkout
<1>6. \A f \in Files : Committed(f) /\ ReadAtHead(f) /\ f \notin loose => f \notin to
  <2> SUFFICES ASSUME NEW f \in Files, Committed(f), ReadAtHead(f), f \notin loose, f \in to PROVE FALSE
    OBVIOUS
  <2>1. PICK c \in put : f = c.file
    BY <1>2
  <2>2. PICK n \in cs : c = Candidate(Chosen(n), answers)
    BY <2>1
  <2>3. ~c.unguarded /\ Tree.overlay = head.overlay
    BY <2>1
  <2> QED
    BY <2>1, <2>2, <2>3, KeptFromInstall
<1> HIDE DEF t, loose, put
<1> QED
  BY <1>2, <1>5, <1>6, WroteCalled

LEMMA ToolsCalled ==
  ASSUME Typed, Tools
  PROVE  pc = "run" /\ \E t, loose : Called(t, loose)
<1>1. pc = "run"
  BY DEF Tools
<1>2. CASE \E f \in Files, answers \in BOOLEAN : WriteFile(f, answers) \/ DeleteFile(f, answers)
  BY <1>1, <1>2, WriteFileCalled, DeleteFileCalled
<1>3. CASE \E o \in Overlays : WriteOverlay(o)
  BY <1>1, <1>3, WriteOverlayCalled
<1>4. CASE \E cs \in SUBSET Names \ {{}}, answers \in BOOLEAN : InstallPatches(cs, answers)
  BY <1>1, <1>4, InstallCalled
<1> QED
  BY <1>1, <1>2, <1>3, <1>4 DEF Tools

\* The end of a patch's run: the job's tree t is captured, or that is missed.
Closed(t) ==
  /\ t \in Checkout /\ t.cut = trees[job].cut
  /\ \A f \in Files : t.files[f] \in {trees[job].files[f], None}
  /\ trees' = [trees EXCEPT ![job] = t]
  /\ \/ changes' = [changes EXCEPT ![BundleOf(job)] = Diff(t)] /\ missed' = missed \ {job}
     \/ changes' = changes /\ missed' = missed \ {job} /\ t = FreshOf(head, base)
     \/ /\ missed' = missed \cup {job}
        /\ changes' = changes \/ changes' = [changes EXCEPT ![BundleOf(job)] = Tombstone]
  /\ pc = "run" /\ pc' = "teardown" /\ opened' = {}
  /\ UNCHANGED <<base, head, branches, link, job, snapshot, verdict, began, outlived>>

LEMMA CapturedClosed ==
  ASSUME Typed, Ended, NEW t \in Checkout, NEW only \in BOOLEAN, Captured(t, only),
         trees' = [trees EXCEPT ![job] = t], t.cut = trees[job].cut,
         \A f \in Files : t.files[f] \in {trees[job].files[f], None}
  PROVE  Closed(t)
<1>0. /\ pc = "run" /\ BundleOf(job) \in Bundles
      /\ changes \in [Bundles -> Capture \cup {None, Tombstone}]
  BY AtWork DEF Ended, Typed, ArtsOK
<1>1. EmptyDiff(Diff(t)) <=> t = FreshOf(head, base)
  BY Same DEF EmptyDiff, Diff
<1>2. [changes EXCEPT ![BundleOf(job)] = changes[BundleOf(job)]] = changes
  BY <1>0
<1>3. CASE /\ changes' = [changes EXCEPT ![BundleOf(job)] =
                            IF only /\ EmptyDiff(Diff(t)) THEN @ ELSE Diff(t)]
           /\ missed' = missed \ {job}
  <2>1. CASE only /\ EmptyDiff(Diff(t))
    BY <1>0, <1>1, <1>2, <1>3, <2>1 DEF Closed, Ended
  <2>2. CASE ~(only /\ EmptyDiff(Diff(t)))
    BY <1>0, <1>3, <2>2 DEF Closed, Ended
  <2> QED
    BY <2>1, <2>2
<1>4. CASE /\ missed' = missed \cup {job}
           /\ changes' = [changes EXCEPT ![BundleOf(job)] = IF only THEN @ ELSE Tombstone]
  BY <1>0, <1>2, <1>4 DEF Closed, Ended
<1> QED
  BY <1>3, <1>4 DEF Captured

LEMMA EndClosed ==
  ASSUME Typed, GiveUp \/ Succeed \/ Raise
  PROVE  \E t : Closed(t)
<1>0. pc = "run"
  BY DEF GiveUp, Succeed, Raise, Ended
<1>1. /\ Tree = trees[job] /\ Tree \in Checkout /\ link = job /\ job \in Dirs
      /\ trees \in [Dirs \cup {Main} -> Checkout \cup {None}]
  BY <1>0, AtWork DEF Typed, TreesOK
<1>2. trees = [trees EXCEPT ![job] = trees[job]]
  BY <1>1
<1>3. CASE GiveUp \/ Raise
  <2>1. Ended /\ trees' = trees /\ (Captured(Tree, FALSE) \/ Captured(Tree, TRUE))
    BY <1>3 DEF GiveUp, Raise
  <2> QED
    BY <1>1, <1>2, <2>1, CapturedClosed
<1>4. CASE Succeed
  <2> DEFINE t == [Tree EXCEPT !.files = [f \in Files |-> IF f \in Orphans(Tree) THEN None ELSE @[f]]]
  <2>1. Ended /\ Captured(t, FALSE) /\ trees' = [trees EXCEPT ![job] = t]
    BY <1>1, <1>4 DEF Succeed, SetTree
  <2>2. t = [cut |-> Tree.cut, overlay |-> Tree.overlay,
             files |-> [f \in Files |-> IF f \in Orphans(Tree) THEN None ELSE Tree.files[f]]]
    BY <1>1 DEF Checkout
  <2>3. /\ t \in Checkout /\ t.cut = trees[job].cut
        /\ \A f \in Files : t.files[f] \in {trees[job].files[f], None}
    BY <1>1, <2>2 DEF Checkout
  <2> HIDE DEF t
  <2> QED
    BY <2>1, <2>3, CapturedClosed
<1> QED
  BY <1>3, <1>4

(***************************************************************************)
(* Types.                                                                  *)
(***************************************************************************)
LEMMA InitTyped == Init => Typed
<1> SUFFICES ASSUME Init PROVE Typed
  OBVIOUS
<1>1. Places
  BY DEF Init, Places, Working
<1>2. head \in Heads /\ Fresh(0) = FreshOf(head, 0) /\ 0 \in 0..MaxBase
  BY Same, NoneApart DEF Init
<1>3. Fresh(0) \in Checkout
  BY <1>2, FreshTyped
<1>4. TreesOK
  BY <1>2, <1>3, NoneApart DEF Init, TreesOK, HasTree
<1>5. ArtsOK
  BY DEF Init, ArtsOK
<1> QED
  BY <1>1, <1>4, <1>5 DEF Typed

LEMMA StartTyped ==
  ASSUME Typed, NEW d \in Dirs, Start(d)
  PROVE  /\ Typed' /\ trees'[d] = None
         /\ \A e \in Dirs \cup {Main} : e # d => trees'[e] = trees[e]
<1>0. Places /\ TreesOK /\ ArtsOK /\ pc = "idle"
  BY DEF Typed, Start
<1>1. Places'
  BY <1>0 DEF Places, Working, Start
<1>2. ArtsOK'
  BY <1>0 DEF ArtsOK, Start
<1>3. /\ trees' \in [Dirs \cup {Main} -> Checkout \cup {None}]
      /\ trees'[d] = None /\ \A e \in Dirs \cup {Main} : e # d => trees'[e] = trees[e]
  BY <1>0, TreeSet DEF Start
<1>4. d # Main
  BY NoneApart
<1>5. TreesOK'
  BY <1>0, <1>3, <1>4 DEF TreesOK, Start, HasTree
<1> QED
  BY <1>1, <1>2, <1>3, <1>5 DEF Typed

\* The tree is cut, or the job ends without one.
Cut(c) ==
  /\ branches' = [branches EXCEPT ![job] = c] /\ trees' = [trees EXCEPT ![job] = FreshOf(head, c)]
  /\ pc' = "link" /\ began' = (IF Kind(job) = "verify" THEN base ELSE began)
  /\ c = base \/ (Kind(job) = "patch" /\ branches[job] # None /\ c = branches[job])
  /\ c \in 0..MaxBase

LEMMA AddTyped ==
  ASSUME Typed, AddWorktree
  PROVE  /\ Typed' /\ job \in Dirs /\ pc = "add"
         /\ \/ \E c : Cut(c) /\ trees'[job] = FreshOf(head, c) /\ branches'[job] = c
            \/ UNCHANGED <<branches, trees, began>> /\ pc' = "teardown"
         /\ \A e \in Dirs \cup {Main} : e # job => trees'[e] = trees[e]
         /\ \A e \in Dirs : e # job => branches'[e] = branches[e]
<1>0. Places /\ TreesOK /\ ArtsOK /\ pc = "add" /\ job \in Dirs /\ job # Main
  BY NoneApart DEF Typed, AddWorktree, Places, Working
<1>1. ArtsOK'
  BY <1>0 DEF ArtsOK, AddWorktree
<1>2. CASE /\ branches' = [branches EXCEPT ![job] = CutFrom]
           /\ trees' = [trees EXCEPT ![job] = Fresh(CutFrom)]
           /\ began' = (IF Kind(job) = "verify" THEN base ELSE began) /\ pc' = "link" /\ Going
  <2> DEFINE c == CutFrom
  <2>1. /\ c \in 0..MaxBase
        /\ (c = base \/ (Kind(job) = "patch" /\ branches[job] # None /\ c = branches[job]))
    BY <1>0 DEF CutFrom, TreesOK
  <2>2. Fresh(c) = FreshOf(head, c)
    BY Same
  <2>3. FreshOf(head, c) \in Checkout
    BY <1>0, <2>1, FreshTyped DEF TreesOK
  <2>4. /\ trees' = [trees EXCEPT ![job] = FreshOf(head, c)]
        /\ branches' = [branches EXCEPT ![job] = c]
    BY <1>2, <2>2
  <2> HIDE DEF c
  <2>5. /\ trees' \in [Dirs \cup {Main} -> Checkout \cup {None}]
        /\ trees'[job] = FreshOf(head, c) /\ \A e \in Dirs \cup {Main} : e # job => trees'[e] = trees[e]
    BY <1>0, <2>3, <2>4, TreeSet
  <2>6. /\ branches' \in [Dirs -> 0..MaxBase \cup {None}]
        /\ branches'[job] = c /\ \A e \in Dirs : e # job => branches'[e] = branches[e]
    BY <1>0, <2>1, <2>4 DEF TreesOK
  <2>7. Cut(c)
    BY <1>2, <2>1, <2>4 DEF Cut
  <2>8. Places'
    BY <1>0, <1>2 DEF Places, AddWorktree, Working
  <2>9. TreesOK'
    BY <1>0, <1>2, <2>3, <2>5, <2>6 DEF TreesOK, AddWorktree
  <2> QED
    BY <1>0, <1>1, <2>5, <2>6, <2>7, <2>8, <2>9 DEF Typed
<1>3. CASE Failing(1) /\ pc' = "teardown" /\ UNCHANGED <<branches, trees, began>>
  <2>1. Places'
    BY <1>0, <1>3 DEF Places, AddWorktree, Working
  <2>2. TreesOK'
    BY <1>0, <1>3 DEF TreesOK, AddWorktree, HasTree
  <2> QED
    BY <1>0, <1>1, <1>3, <2>1, <2>2 DEF Typed
<1> QED
  BY <1>2, <1>3 DEF AddWorktree

LEMMA LinkTyped ==
  ASSUME Typed, PointLink
  PROVE  Typed' /\ pc' \in {"begin", "teardown"} /\ job \in Dirs
<1>0. Places /\ TreesOK /\ ArtsOK /\ pc = "link" /\ job \in Dirs
  BY DEF Typed, PointLink, Places, Working
<1>1. pc' \in {"begin", "teardown"} /\ (pc' = "begin" => link' = job) /\ link' \in {job, link, None}
  BY DEF PointLink, LinkFails
<1>2. Places'
  BY <1>0, <1>1 DEF Places, PointLink, Working
<1>3. TreesOK' /\ ArtsOK'
  BY <1>0, <1>1 DEF TreesOK, ArtsOK, PointLink, HasTree
<1> QED
  BY <1>0, <1>1, <1>2, <1>3 DEF Typed

LEMMA PreflightTyped ==
  ASSUME Typed, Preflight
  PROVE  /\ Typed' /\ job \in Dirs /\ Kind(job) = "patch" /\ pc' \in {"run", "teardown"}
         /\ trees[job] \in Checkout
         /\ trees'[job] \in {trees[job], Bootstrapped(trees[job])}
         /\ \A e \in Dirs \cup {Main} : e # job => trees'[e] = trees[e]
<1>0. /\ Places /\ TreesOK /\ ArtsOK /\ pc = "begin" /\ job \in Dirs /\ link = job
      /\ Tree = trees[job] /\ trees[job] \in Checkout /\ job # Main
  BY NoneApart DEF Typed, Preflight, Places, Working, TreesOK, HasTree, Tree
<1>1. /\ Kind(job) = "patch" /\ pc' \in {"run", "teardown"}
      /\ UNCHANGED <<base, head, branches, link, job, artifacts, history>>
  BY DEF Preflight
<1>2. PICK t \in {trees[job], Bootstrapped(trees[job])} : trees' = [trees EXCEPT ![job] = t]
  <2>1. trees = [trees EXCEPT ![job] = trees[job]]
    BY <1>0 DEF TreesOK
  <2> QED
    BY <1>0, <2>1 DEF Preflight, SetTree
<1>3. t \in Checkout
  BY <1>0, <1>2, BootTyped
<1>4. /\ trees' \in [Dirs \cup {Main} -> Checkout \cup {None}]
      /\ trees'[job] = t /\ \A e \in Dirs \cup {Main} : e # job => trees'[e] = trees[e]
  BY <1>0, <1>2, <1>3, TreeSet
<1>5. Places'
  BY <1>0, <1>1 DEF Places, Working
<1>6. TreesOK'
  BY <1>0, <1>1, <1>3, <1>4 DEF TreesOK, HasTree
<1>7. ArtsOK'
  BY <1>0, <1>1 DEF ArtsOK
<1> QED
  BY <1>0, <1>1, <1>2, <1>4, <1>5, <1>6, <1>7 DEF Typed

LEMMA CalledTyped ==
  ASSUME Typed, pc = "run", NEW t, NEW loose, Called(t, loose)
  PROVE  /\ Typed' /\ trees'[job] = t
         /\ \A e \in Dirs \cup {Main} : e # job => trees'[e] = trees[e]
         /\ snapshot'[BundleOf(job)] = Diff(t) \/ job \in missed'
         /\ \A b \in Bundles : b # BundleOf(job) => snapshot'[b] = snapshot[b]
         /\ snapshot'[BundleOf(job)] \in {snapshot[BundleOf(job)], Diff(t)}
<1>0. Places /\ TreesOK /\ ArtsOK /\ job \in Dirs /\ BundleOf(job) \in Bundles /\ job # Main
  BY AtWork, NoneApart DEF Typed
<1>1. /\ t \in Checkout /\ trees' = [trees EXCEPT ![job] = t]
      /\ UNCHANGED <<base, head, branches, link, job, pc, changes, began>>
  BY DEF Called
<1>2. Diff(t) \in Capture
  BY <1>0, <1>1, CaptureTyped DEF TreesOK
<1>3. /\ trees' \in [Dirs \cup {Main} -> Checkout \cup {None}]
      /\ trees'[job] = t /\ \A e \in Dirs \cup {Main} : e # job => trees'[e] = trees[e]
  BY <1>0, <1>1, TreeSet
<1>4. Places'
  BY <1>0, <1>1 DEF Places
<1>5. TreesOK'
  BY <1>0, <1>1, <1>3 DEF TreesOK
<1>6. /\ snapshot' \in [Bundles -> Capture \cup {None}]
      /\ snapshot'[BundleOf(job)] = Diff(t) \/ job \in missed'
      /\ \A b \in Bundles : b # BundleOf(job) => snapshot'[b] = snapshot[b]
      /\ snapshot'[BundleOf(job)] \in {snapshot[BundleOf(job)], Diff(t)}
  BY <1>0, <1>2 DEF Called, ArtsOK
<1>7. ArtsOK'
  BY <1>0, <1>1, <1>6 DEF ArtsOK
<1> QED
  BY <1>3, <1>4, <1>5, <1>6, <1>7 DEF Typed

LEMMA ClosedTyped ==
  ASSUME Typed, NEW t, Closed(t)
  PROVE  /\ Typed' /\ trees'[job] = t /\ job \in Dirs
         /\ \A e \in Dirs \cup {Main} : e # job => trees'[e] = trees[e]
         /\ \A b \in Bundles : b # BundleOf(job) => changes'[b] = changes[b]
         /\ \/ changes'[BundleOf(job)] = Diff(t)
            \/ changes'[BundleOf(job)] = changes[BundleOf(job)] /\ (t = FreshOf(head, base) \/ job \in missed')
            \/ changes'[BundleOf(job)] = Tombstone /\ job \in missed'
<1>0. /\ Places /\ TreesOK /\ ArtsOK /\ job \in Dirs /\ BundleOf(job) \in Bundles /\ job # Main
      /\ pc = "run" /\ pc' = "teardown"
  BY AtWork, NoneApart DEF Typed, Closed
<1>1. /\ t \in Checkout /\ trees' = [trees EXCEPT ![job] = t]
      /\ UNCHANGED <<base, head, branches, link, job, snapshot, began>>
  BY DEF Closed
<1>2. Diff(t) \in Capture
  BY <1>0, <1>1, CaptureTyped DEF TreesOK
<1>3. /\ trees' \in [Dirs \cup {Main} -> Checkout \cup {None}]
      /\ trees'[job] = t /\ \A e \in Dirs \cup {Main} : e # job => trees'[e] = trees[e]
  BY <1>0, <1>1, TreeSet
<1>4. Places'
  BY <1>0, <1>1 DEF Places, Working
<1>5. TreesOK'
  BY <1>0, <1>1, <1>3 DEF TreesOK, HasTree
<1>6. /\ changes' \in [Bundles -> Capture \cup {None, Tombstone}]
      /\ \A b \in Bundles : b # BundleOf(job) => changes'[b] = changes[b]
      /\ \/ changes'[BundleOf(job)] = Diff(t)
         \/ changes'[BundleOf(job)] = changes[BundleOf(job)] /\ (t = FreshOf(head, base) \/ job \in missed')
         \/ changes'[BundleOf(job)] = Tombstone /\ job \in missed'
  BY <1>0, <1>2 DEF Closed, ArtsOK
<1>7. ArtsOK'
  BY <1>0, <1>1, <1>6 DEF ArtsOK
<1> QED
  BY <1>0, <1>3, <1>4, <1>5, <1>6, <1>7 DEF Typed

LEMMA VerifyTyped ==
  ASSUME Typed, Verify
  PROVE  /\ Typed' /\ job \in Dirs /\ Kind(job) = "verify" /\ pc' = "teardown" /\ pc = "begin"
         /\ verdict' \in {verdict, Judged(BundleOf(job), trees[job], began)}
         /\ \A e \in Dirs \cup {Main} : e # job => trees'[e] = trees[e]
<1>0. /\ Places /\ TreesOK /\ ArtsOK /\ pc = "begin" /\ job \in Dirs /\ link = job /\ BundleOf(job) \in Bundles
      /\ Tree = trees[job] /\ trees[job] \in Checkout /\ job # Main
  BY NoneApart, DirShape DEF Typed, Verify, Places, Working, TreesOK, HasTree, Tree
<1>1. /\ Kind(job) = "verify" /\ pc' = "teardown"
      /\ UNCHANGED <<base, head, branches, link, job, changes, snapshot, bounds, history>>
  BY DEF Verify
<1>2. Places' /\ ArtsOK'
  BY <1>0, <1>1 DEF Places, ArtsOK, Working
<1>3. CASE UNCHANGED <<trees, verdict>>
  <2>1. TreesOK'
    BY <1>0, <1>1, <1>3 DEF TreesOK, HasTree
  <2> QED
    BY <1>0, <1>1, <1>2, <1>3, <2>1 DEF Typed
<1>4. CASE ~UNCHANGED <<trees, verdict>>
  <2> DEFINE b == BundleOf(job)
             t == Applied(Tree, changes[b])
  <2>1. Replayable(b) /\ trees' = [trees EXCEPT ![job] = t] /\ verdict' = Judged(b, Tree, began)
    BY <1>0, <1>4 DEF Verify, SetTree
  <2>2. changes[b] \in Capture
    BY <1>0, <2>1 DEF ArtsOK, Replayable
  <2>3. t \in Checkout
    BY <1>0, <2>2, AppliedTyped DEF TreesOK
  <2> HIDE DEF t
  <2>4. /\ trees' \in [Dirs \cup {Main} -> Checkout \cup {None}]
        /\ trees'[job] = t /\ \A e \in Dirs \cup {Main} : e # job => trees'[e] = trees[e]
    BY <1>0, <2>1, <2>3, TreeSet
  <2>5. TreesOK'
    BY <1>0, <1>1, <2>4 DEF TreesOK, HasTree
  <2> QED
    BY <1>0, <1>1, <1>2, <2>1, <2>4, <2>5 DEF Typed
<1> QED
  BY <1>3, <1>4

LEMMA TeardownTyped ==
  ASSUME Typed, Teardown
  PROVE  /\ Typed' /\ job \in Dirs /\ pc = "teardown"
         /\ \/ pc' = "remove" /\ UNCHANGED <<job, outlived>>
            \/ pc' = "idle" /\ job' = None /\ outlived' = outlived \cup Left
<1>0. Places /\ TreesOK /\ ArtsOK /\ job \in Dirs /\ pc = "teardown"
  BY DEF Typed, Teardown, Places, Working
<1>1. /\ \/ pc' = "remove" /\ UNCHANGED <<job, outlived>>
         \/ pc' = "idle" /\ job' = None /\ outlived' = outlived \cup Left
      /\ link' \in {Main, link, None}
  BY DEF Teardown, LinkFails
<1>2. Places'
  BY <1>0, <1>1 DEF Places, Working
<1>3. TreesOK' /\ ArtsOK'
  BY <1>0, <1>1 DEF TreesOK, ArtsOK, Teardown, HasTree
<1> QED
  BY <1>0, <1>1, <1>2, <1>3 DEF Typed

LEMMA RemoveTyped ==
  ASSUME Typed, Remove
  PROVE  /\ Typed' /\ job \in Dirs /\ pc = "remove"
         /\ trees'[job] = None /\ \A e \in Dirs \cup {Main} : e # job => trees'[e] = trees[e]
         /\ branches'[job] = None /\ \A e \in Dirs : e # job => branches'[e] = branches[e]
<1>0. Places /\ TreesOK /\ ArtsOK /\ job \in Dirs /\ pc = "remove" /\ job # Main
  BY NoneApart DEF Typed, Remove, Places, Working
<1>1. Places' /\ ArtsOK'
  BY <1>0 DEF Remove, Places, ArtsOK, Working
<1>2. /\ trees' \in [Dirs \cup {Main} -> Checkout \cup {None}]
      /\ trees'[job] = None /\ \A e \in Dirs \cup {Main} : e # job => trees'[e] = trees[e]
  BY <1>0, TreeSet DEF Remove
<1>3. /\ branches' \in [Dirs -> 0..MaxBase \cup {None}]
      /\ branches'[job] = None /\ \A e \in Dirs : e # job => branches'[e] = branches[e]
  BY <1>0 DEF TreesOK, Remove
<1>4. TreesOK'
  BY <1>0, <1>2, <1>3 DEF TreesOK, Remove, HasTree
<1> QED
  BY <1>0, <1>1, <1>2, <1>3, <1>4 DEF Typed

LEMMA CrashTyped ==
  ASSUME Typed, Crash
  PROVE  Typed' /\ job \in Dirs /\ job' = None /\ pc' = "down" /\ outlived' = outlived \cup Left
<1>0. Places /\ TreesOK /\ ArtsOK
  BY DEF Typed
<1>1. job \in Dirs /\ job' = None /\ pc' = "down" /\ outlived' = outlived \cup Left
  BY <1>0 DEF Places, Crash, Working
<1>2. Places' /\ TreesOK' /\ ArtsOK'
  BY <1>0, <1>1 DEF Crash, Places, TreesOK, ArtsOK, Working, HasTree
<1> QED
  BY <1>1, <1>2 DEF Typed

LEMMA SweepLinkTyped ==
  ASSUME Typed, SweepLink
  PROVE  Typed' /\ pc' \in {"sweep", "idle"} /\ job = None
<1>0. Places /\ TreesOK /\ ArtsOK
  BY DEF Typed
<1>1. pc' \in {"sweep", "idle"} /\ job = None /\ link' \in {Main, link, None}
  BY <1>0 DEF Places, SweepLink, LinkFails, Working
<1>2. Places' /\ TreesOK' /\ ArtsOK'
  BY <1>0, <1>1 DEF SweepLink, Places, TreesOK, ArtsOK, Working, HasTree
<1> QED
  BY <1>1, <1>2 DEF Typed

LEMMA SweepTyped ==
  ASSUME Typed, Sweep
  PROVE  Typed' /\ job = None /\ \A d \in Dirs : trees'[d] = None
<1>0. Places /\ TreesOK /\ ArtsOK
  BY DEF Typed
<1>1. Main \notin Dirs
  BY NoneApart
<1>2. \A d \in Dirs \cup {Main} : trees'[d] = IF d = Main THEN trees[Main] ELSE None
  BY DEF Sweep
<1>3. \A d \in Dirs : trees'[d] = None
  BY <1>1, <1>2
<1>4. trees' \in [Dirs \cup {Main} -> Checkout \cup {None}] /\ trees'[Main] \in Checkout
  BY <1>0 DEF Sweep, TreesOK
<1>5. Places' /\ TreesOK' /\ ArtsOK' /\ job = None
  BY <1>0, <1>4 DEF Sweep, Places, TreesOK, ArtsOK, Working, HasTree
<1> QED
  BY <1>3, <1>5 DEF Typed

\* Between jobs the checkout PORTS_DIR points at is replaced.
Beside(t) ==
  /\ pc = "idle" /\ link # None /\ trees[link] \in Checkout /\ t \in Checkout
  /\ trees' = [trees EXCEPT ![link] = t]
  /\ UNCHANGED <<base, head, branches, link, job, pc, changes, snapshot, began, outlived, opened>>

LEMMA BesideTyped ==
  ASSUME Typed, NEW t, Beside(t)
  PROVE  /\ Typed' /\ link \in Dirs \cup {Main} /\ trees'[link] = t /\ job = None /\ job' = None
         /\ \A e \in Dirs \cup {Main} : e # link => trees'[e] = trees[e]
<1>0. /\ Places /\ TreesOK /\ ArtsOK /\ link \in Dirs \cup {Main} /\ job = None
  BY DEF Typed, Beside, Places, Working
<1>1. /\ trees' \in [Dirs \cup {Main} -> Checkout \cup {None}]
      /\ trees'[link] = t /\ \A e \in Dirs \cup {Main} : e # link => trees'[e] = trees[e]
  BY <1>0, TreeSet DEF Beside
<1>2. Places' /\ ArtsOK' /\ TreesOK' /\ job' = None
  BY <1>0, <1>1 DEF Beside, Places, ArtsOK, TreesOK, HasTree, Working
<1> QED
  BY <1>0, <1>1, <1>2 DEF Typed

LEMMA LinkedTree ==
  ASSUME Typed, link # None, Tree # None
  PROVE  Tree = trees[link] /\ Tree \in Checkout /\ link \in Dirs \cup {Main}
  BY DEF Typed, Places, TreesOK, Tree

LEMMA TriageBeside ==
  ASSUME Typed, TriageBootstrap
  PROVE  Beside(Bootstrapped(trees[link])) /\ UNCHANGED <<verdict, missed>>
<1>1. Tree = trees[link] /\ Tree \in Checkout /\ link \in Dirs \cup {Main}
  BY LinkedTree DEF TriageBootstrap
<1>2. Bootstrapped(Tree) \in Checkout
  BY <1>1, BootTyped
<1> QED
  BY <1>1, <1>2 DEF TriageBootstrap, Beside, SetTree, Aside

LEMMA HandBeside ==
  ASSUME Typed, NEW b \in Bundles, VerifyByHand(b)
  PROVE  /\ \E t : Beside(t) /\ trees[link] = FreshOf(head, trees[link].cut)
         /\ verdict' = Judged(b, trees[link], trees[link].cut) /\ missed' = missed \cup ({link} \ {Main})
<1>1. Tree = trees[link] /\ Tree \in Checkout /\ link \in Dirs \cup {Main}
  BY LinkedTree DEF VerifyByHand
<1>2. changes[b] \in Capture
  BY DEF VerifyByHand, Replayable, Typed, ArtsOK
<1>3. Applied(Tree, changes[b]) \in Checkout
  BY <1>1, <1>2, AppliedTyped DEF Typed, TreesOK
<1>4. Tree = FreshOf(head, Tree.cut)
  BY Same DEF VerifyByHand, Clean
<1>5. Beside(Applied(Tree, changes[b]))
  BY <1>1, <1>3 DEF VerifyByHand, Beside, SetTree, Aside
<1> QED
  BY <1>1, <1>4, <1>5 DEF VerifyByHand

LEMMA ResetBeside ==
  ASSUME Typed, ResetPort
  PROVE  Beside(FreshOf(head, trees[link].cut)) /\ UNCHANGED <<verdict, missed>>
<1>1. Tree = trees[link] /\ Tree \in Checkout /\ link \in Dirs \cup {Main}
  BY LinkedTree DEF ResetPort
<1>2. FreshOf(head, Tree.cut) \in Checkout
  BY <1>1, FreshTyped DEF Typed, TreesOK, Checkout
<1>3. Fresh(Tree.cut) = FreshOf(head, Tree.cut)
  BY Same
<1> QED
  BY <1>1, <1>2, <1>3 DEF ResetPort, Beside, SetTree, Aside

LEMMA UpdateTyped ==
  ASSUME Typed, Update
  PROVE  Typed' /\ \A d \in Dirs : trees'[d] = trees[d]
<1>0. Places /\ TreesOK /\ ArtsOK /\ Main \notin Dirs /\ MaxBase \in Nat
  BY NoneApart DEF Typed
<1> DEFINE t == [trees[Main] EXCEPT !.cut = base + 1]
<1>1. base + 1 \in 0..MaxBase
  BY <1>0 DEF Update, TreesOK
<1>2. t \in Checkout /\ trees' = [trees EXCEPT ![Main] = t]
  BY <1>0, <1>1 DEF Update, TreesOK, Checkout
<1> HIDE DEF t
<1>3. /\ trees' \in [Dirs \cup {Main} -> Checkout \cup {None}]
      /\ trees'[Main] = t /\ \A e \in Dirs \cup {Main} : e # Main => trees'[e] = trees[e]
  BY <1>0, <1>2, TreeSet
<1>4. Places' /\ ArtsOK'
  BY <1>0 DEF Update, Aside, Places, ArtsOK
<1>5. base' \in 0..MaxBase /\ UNCHANGED <<head, branches, began, job, pc>>
  BY <1>1 DEF Update, Aside
<1>6. job \in Dirs => trees'[job] = trees[job]
  BY <1>0, <1>3
<1>7. pc \in HasTree \cup {"add"} => job \in Dirs
  BY <1>0 DEF Places, Working, HasTree
<1>8. TreesOK'
  BY <1>0, <1>2, <1>3, <1>5, <1>6, <1>7 DEF TreesOK
<1> QED
  BY <1>0, <1>3, <1>4, <1>8 DEF Typed

LEMMA StillTyped == ASSUME Typed, UNCHANGED vars PROVE Typed'
  BY DEF Typed, Places, TreesOK, ArtsOK

(***************************************************************************)
(* What leaves a part of the invariant as it is.                           *)
(***************************************************************************)
Resting == pc \notin HasTree

LEMMA RestingKeeps ==
  ASSUME Resting'
  PROVE  FreshYet' /\ OwnTree' /\ SharedPayloadKept'
  BY DEF Resting, HasTree, FreshYet, OwnTree, SharedPayloadKept

LEMMA VerdictStays ==
  ASSUME VerdictIsOfDiff, head' = head, verdict' = verdict
  PROVE  VerdictIsOfDiff'
  BY DEF VerdictIsOfDiff, Applied, Fresh, Merged

LEMMA VerdictJudged ==
  ASSUME head' = head, NEW b, NEW t, t = FreshOf(head, t.cut), verdict' = Judged(b, t, t.cut)
  PROVE  VerdictIsOfDiff'
<1>1. verdict'.tree = Applied(t, verdict'.diff) /\ verdict'.on = t.cut
  BY DEF Judged
<1>2. verdict'.tree = Applied(FreshOf(head, verdict'.on), verdict'.diff)
  BY <1>1
<1> QED
  BY <1>2 DEF VerdictIsOfDiff, Applied, Fresh, FreshOf, Merged

LEMMA ArtsStay ==
  ASSUME OwnArts, UNCHANGED <<changes, snapshot>>
  PROVE  OwnArts'
  BY DEF OwnArts, Captures

\* One bundle's artifacts change, and show nothing new but t.
LEMMA ArtsShow ==
  ASSUME OwnArts, NEW c \in Bundles, NEW t, \A f \in Files : t.files[f] \in {None, "base", c},
         \A b \in Bundles : b # c => changes'[b] = changes[b] /\ snapshot'[b] = snapshot[b],
         changes'[c] \in {changes[c], Tombstone, Diff(t)}, snapshot'[c] \in {snapshot[c], Diff(t)}
  PROVE  OwnArts'
<1> SUFFICES ASSUME NEW b \in Bundles, NEW d \in {changes'[b], snapshot'[b]} \ {None, Tombstone}, NEW f \in Files
             PROVE  d.tree.files[f] \in {None, "base", b}
  BY DEF OwnArts, Captures
<1>1. CASE d = Diff(t) /\ b = c
  BY <1>1 DEF Diff
<1>2. CASE d \in Captures(b)
  BY <1>2 DEF OwnArts
<1> QED
  BY <1>1, <1>2 DEF Captures

LEMMA BranchesStay ==
  ASSUME BranchAtBase, UNCHANGED <<branches, base>>, outlived \subseteq outlived',
         \A b \in Bundles : LET d == <<"patch", b>> IN
           job = d /\ pc \in {"link", "begin", "run", "teardown", "remove"} /\ branches[d] # None /\ trees[d] # None
             => \/ d \in outlived'
                \/ /\ job' = d /\ pc' \in {"link", "begin", "run", "teardown", "remove"}
                   /\ trees'[d] # None
  PROVE  BranchAtBase'
  BY DEF BranchAtBase

\* The work in a patch's tree stays shown: neither it nor the artifacts change,
\* or nothing of it is left to be shown.
LEMMA ShownStays ==
  ASSUME NEW b \in Bundles, ShownIn(b), head' = head, changes'[b] = changes[b], snapshot'[b] = snapshot[b],
         trees'[<<"patch", b>>] = trees[<<"patch", b>>],
         <<"patch", b>> \in missed => <<"patch", b>> \in missed'
  PROVE  ShownIn(b)'
<1>1. Captures(b)' = Captures(b) /\ (Unshown(b)' => Unshown(b))
  BY DEF Captures, Unshown
<1> QED
  BY <1>1 DEF ShownIn

LEMMA NothingToShow ==
  ASSUME NEW b \in Bundles, head' = head,
         \/ trees'[<<"patch", b>>] = None
         \/ ~EditedOf(head, trees'[<<"patch", b>>])
         \/ <<"patch", b>> \in missed'
  PROVE  ShownIn(b)' /\ ShownAtEnd(b)'
  BY DEF ShownIn, ShownAtEnd, Unshown

LEMMA NotAtEnd ==
  ASSUME NEW b \in Bundles, pc' \notin {"teardown", "remove"} \/ job' # <<"patch", b>>
  PROVE  ShownAtEnd(b)'
  BY DEF ShownAtEnd

LEMMA EndStays ==
  ASSUME NEW b \in Bundles, ShownAtEnd(b), pc \in {"teardown", "remove"}, job' = job, head' = head,
         changes'[b] = changes[b], trees'[<<"patch", b>>] = trees[<<"patch", b>>],
         <<"patch", b>> \in missed => <<"patch", b>> \in missed'
  PROVE  ShownAtEnd(b)'
  BY DEF ShownAtEnd, Unshown

LEMMA OtherDir ==
  ASSUME NEW d \in Dirs, NEW b \in Bundles, <<"patch", b>> # d
  PROVE  <<"patch", b>> \in Dirs /\ (Kind(d) = "patch" => b # BundleOf(d))
  BY DirShape, PatchDir

(***************************************************************************)
(* Each action keeps the invariant.                                        *)
(***************************************************************************)
LEMMA InitHolds == Init => WorkspaceInvariant
<1> SUFFICES ASSUME Init PROVE WorkspaceInvariant
  OBVIOUS
<1>1. FreshYet /\ OwnTree /\ SharedPayloadKept /\ VerdictIsOfDiff
  BY DEF Init, FreshYet, OwnTree, SharedPayloadKept, VerdictIsOfDiff, HasTree
<1>2. OwnArts
  BY DEF Init, OwnArts, Captures
<1>3. \A b \in Bundles : trees[<<"patch", b>>] = None /\ branches[<<"patch", b>>] = None
  BY PatchDir, NoneApart DEF Init
<1>4. WorkShown /\ BranchAtBase
  BY <1>3 DEF WorkShown, ShownIn, ShownAtEnd, Unshown, BranchAtBase
<1> QED
  BY <1>1, <1>2, <1>4 DEF WorkspaceInvariant

LEMMA StartKeeps ==
  ASSUME Typed, WorkspaceInvariant, NEW d \in Dirs, Start(d)
  PROVE  WorkspaceInvariant'
<1>0. /\ FreshYet /\ OwnTree /\ OwnArts /\ VerdictIsOfDiff /\ SharedPayloadKept /\ WorkShown /\ BranchAtBase
  BY DEF WorkspaceInvariant
<1>1. trees'[d] = None /\ \A e \in Dirs \cup {Main} : e # d => trees'[e] = trees[e]
  BY StartTyped
<1>2. /\ pc = "idle" /\ pc' = "add" /\ job' = d /\ missed' = missed \ {d}
      /\ UNCHANGED <<base, head, branches, changes, snapshot, verdict>>
  BY DEF Start
<1>3. FreshYet' /\ OwnTree' /\ SharedPayloadKept'
  BY <1>2, RestingKeeps DEF Resting, HasTree
<1>4. VerdictIsOfDiff' /\ OwnArts'
  BY <1>0, <1>2, VerdictStays, ArtsStay
<1>5. WorkShown'
  <2> SUFFICES ASSUME NEW b \in Bundles PROVE ShownIn(b)' /\ ShownAtEnd(b)'
    BY DEF WorkShown
  <2>1. CASE <<"patch", b>> = d
    BY <1>1, <1>2, <2>1, NothingToShow
  <2>2. CASE <<"patch", b>> # d
    BY <1>0, <1>1, <1>2, <2>2, OtherDir, ShownStays, NotAtEnd DEF WorkShown
  <2> QED
    BY <2>1, <2>2
<1>6. BranchAtBase'
  <2> SUFFICES ASSUME NEW b \in Bundles, branches[<<"patch", b>>] # None PROVE <<"patch", b>> \in outlived'
    BY <1>2 DEF BranchAtBase
  <2> QED
    BY <1>0, <1>2 DEF BranchAtBase, Start
<1> QED
  BY <1>3, <1>4, <1>5, <1>6 DEF WorkspaceInvariant

LEMMA AddKeeps ==
  ASSUME Typed, WorkspaceInvariant, AddWorktree
  PROVE  WorkspaceInvariant'
<1>0. /\ FreshYet /\ OwnTree /\ OwnArts /\ VerdictIsOfDiff /\ SharedPayloadKept /\ WorkShown /\ BranchAtBase
  BY DEF WorkspaceInvariant
<1>1. /\ job \in Dirs /\ pc = "add"
      /\ \A e \in Dirs \cup {Main} : e # job => trees'[e] = trees[e]
      /\ \A e \in Dirs : e # job => branches'[e] = branches[e]
      /\ UNCHANGED <<base, head, job, changes, snapshot, verdict, outlived, missed>>
  BY AddTyped DEF AddWorktree
<1>2. VerdictIsOfDiff' /\ OwnArts'
  BY <1>0, <1>1, VerdictStays, ArtsStay
<1>3. trees[job] = None /\ head \in Heads
  BY <1>1 DEF Typed, TreesOK
<1>4. CASE UNCHANGED <<branches, trees, began>> /\ pc' = "teardown"
  <2>1. FreshYet' /\ OwnTree' /\ SharedPayloadKept'
    BY <1>4, RestingKeeps DEF Resting, HasTree
  <2>2. WorkShown'
    <3> SUFFICES ASSUME NEW b \in Bundles PROVE ShownIn(b)' /\ ShownAtEnd(b)'
      BY DEF WorkShown
    <3>1. CASE <<"patch", b>> = job
      BY <1>1, <1>3, <1>4, <3>1, NothingToShow
    <3>2. CASE <<"patch", b>> # job
      BY <1>0, <1>1, <1>4, <3>2, ShownStays, NotAtEnd DEF WorkShown
    <3> QED
      BY <3>1, <3>2
  <2>3. BranchAtBase'
    BY <1>0, <1>1, <1>4, BranchesStay
  <2> QED
    BY <1>2, <2>1, <2>2, <2>3 DEF WorkspaceInvariant
<1>5. CASE \E c : Cut(c) /\ trees'[job] = FreshOf(head, c) /\ branches'[job] = c
  <2>1. PICK c : Cut(c) /\ trees'[job] = FreshOf(head, c) /\ branches'[job] = c
    BY <1>5
  <2>2. c \in 0..MaxBase /\ pc' = "link" /\ began' = (IF Kind(job) = "verify" THEN base ELSE began)
        /\ (c = base \/ (Kind(job) = "patch" /\ branches[job] # None /\ c = branches[job]))
    BY <2>1 DEF Cut
  <2>3. /\ trees'[job] \in Checkout /\ trees'[job].cut = c /\ ~EditedOf(head, trees'[job])
        /\ trees'[job] = FreshOf(head, trees'[job].cut)
    BY <1>3, <2>1, <2>2, FreshTyped
  <2>4. FreshYet'
    BY <1>1, <2>1, <2>2, <2>3 DEF FreshYet
  <2>5. OwnTree' /\ SharedPayloadKept'
    BY <2>2 DEF OwnTree, SharedPayloadKept
  <2>6. WorkShown'
    <3> SUFFICES ASSUME NEW b \in Bundles PROVE ShownIn(b)' /\ ShownAtEnd(b)'
      BY DEF WorkShown
    <3>1. CASE <<"patch", b>> = job
      BY <1>1, <2>3, <3>1, NothingToShow
    <3>2. CASE <<"patch", b>> # job
      BY <1>0, <1>1, <2>2, <3>2, OtherDir, ShownStays, NotAtEnd DEF WorkShown
    <3> QED
      BY <3>1, <3>2
  <2>7. BranchAtBase'
    <3> SUFFICES ASSUME NEW b \in Bundles, branches'[<<"patch", b>>] # None, <<"patch", b>> \notin outlived
                 PROVE  /\ job' = <<"patch", b>> /\ pc' = "link" /\ branches'[<<"patch", b>>] = base'
                        /\ trees'[<<"patch", b>>] # None
      BY <1>1 DEF BranchAtBase
    <3>1. <<"patch", b>> = job
      BY <1>0, <1>1, PatchDir DEF BranchAtBase
    <3>2. branches[job] = None
      BY <1>0, <1>1, <3>1 DEF BranchAtBase
    <3>3. None \notin Checkout
      BY NoneApart
    <3> QED
      BY <1>1, <2>1, <2>2, <2>3, <3>1, <3>2, <3>3
  <2> QED
    BY <1>2, <2>4, <2>5, <2>6, <2>7 DEF WorkspaceInvariant
<1> QED
  BY <1>4, <1>5, AddTyped

LEMMA LinkKeeps ==
  ASSUME Typed, WorkspaceInvariant, PointLink
  PROVE  WorkspaceInvariant'
<1>0. /\ FreshYet /\ OwnTree /\ OwnArts /\ VerdictIsOfDiff /\ SharedPayloadKept /\ WorkShown /\ BranchAtBase
  BY DEF WorkspaceInvariant
<1>1. /\ pc = "link" /\ pc' \in {"begin", "teardown"} /\ job \in Dirs
      /\ UNCHANGED <<base, head, branches, trees, job, artifacts, history>>
  BY LinkTyped DEF PointLink
<1>2. VerdictIsOfDiff' /\ OwnArts'
  BY <1>0, <1>1, VerdictStays, ArtsStay
<1>3. FreshYet'
  BY <1>0, <1>1 DEF FreshYet, HasTree
<1>4. OwnTree' /\ SharedPayloadKept'
  BY <1>1 DEF OwnTree, SharedPayloadKept
<1>5. ~EditedOf(head, trees[job])
  BY <1>0, <1>1 DEF FreshYet, EditedOf
<1>6. WorkShown'
  <2> SUFFICES ASSUME NEW b \in Bundles PROVE ShownIn(b)' /\ ShownAtEnd(b)'
    BY DEF WorkShown
  <2>1. CASE <<"patch", b>> = job
    BY <1>1, <1>5, <2>1, NothingToShow
  <2>2. CASE <<"patch", b>> # job
    BY <1>0, <1>1, <2>2, ShownStays, NotAtEnd DEF WorkShown
  <2> QED
    BY <2>1, <2>2
<1>7. BranchAtBase'
  BY <1>0, <1>1, BranchesStay
<1> QED
  BY <1>2, <1>3, <1>4, <1>6, <1>7 DEF WorkspaceInvariant

LEMMA PreflightKeeps ==
  ASSUME Typed, WorkspaceInvariant, Preflight
  PROVE  WorkspaceInvariant'
<1>0. /\ FreshYet /\ OwnTree /\ OwnArts /\ VerdictIsOfDiff /\ SharedPayloadKept /\ WorkShown /\ BranchAtBase
  BY DEF WorkspaceInvariant
<1>1. /\ job \in Dirs /\ Kind(job) = "patch" /\ pc = "begin" /\ pc' \in {"run", "teardown"}
      /\ trees[job] \in Checkout
      /\ trees'[job] \in {trees[job], Bootstrapped(trees[job])}
      /\ \A e \in Dirs \cup {Main} : e # job => trees'[e] = trees[e]
      /\ UNCHANGED <<base, head, branches, link, job, artifacts, history>>
      /\ head \in Heads /\ link = job
  BY PreflightTyped DEF Preflight, Typed, TreesOK, Places
<1>2. VerdictIsOfDiff' /\ OwnArts'
  BY <1>0, <1>1, VerdictStays, ArtsStay
<1>3. trees[job] = FreshOf(head, trees[job].cut) /\ trees[job].cut = branches[job]
  BY <1>0, <1>1 DEF FreshYet, HasTree
<1>4. trees'[job].cut = trees[job].cut /\ trees'[job].files = head.files /\ trees'[job] \in Checkout
  <2>1. trees[job].files = head.files
    BY <1>3 DEF FreshOf
  <2> QED
    BY <1>1, <2>1, BootTyped
<1>5. FreshYet'
  BY <1>1, <1>3, <1>4 DEF FreshYet
<1>6. \A f \in Files : trees'[job].files[f] \in {None, "base"}
  BY <1>1, <1>4, HeadShape
<1>7. OwnTree'
  BY <1>1, <1>6 DEF OwnTree
<1>8. SharedPayloadKept'
  BY <1>1, <1>4, <1>6 DEF SharedPayloadKept, Committed, Tree
<1>9. ~EditedOf(head, trees'[job])
  <2>1. ~EditedOf(head, trees[job])
    BY <1>3 DEF EditedOf
  <2> QED
    BY <1>1, <2>1, BootUnedited
<1>10. WorkShown'
  <2> SUFFICES ASSUME NEW b \in Bundles PROVE ShownIn(b)' /\ ShownAtEnd(b)'
    BY DEF WorkShown
  <2>1. CASE <<"patch", b>> = job
    BY <1>1, <1>9, <2>1, NothingToShow
  <2>2. CASE <<"patch", b>> # job
    BY <1>0, <1>1, <2>2, OtherDir, ShownStays, NotAtEnd DEF WorkShown
  <2> QED
    BY <2>1, <2>2
<1>11. trees'[job] # None
  BY <1>4, NoneApart
<1>12. BranchAtBase'
  BY <1>0, <1>1, <1>11, BranchesStay
<1> QED
  BY <1>2, <1>5, <1>7, <1>8, <1>10, <1>12 DEF WorkspaceInvariant

LEMMA ToolsKeep ==
  ASSUME Typed, WorkspaceInvariant, Tools
  PROVE  WorkspaceInvariant'
<1>0. /\ FreshYet /\ OwnTree /\ OwnArts /\ VerdictIsOfDiff /\ SharedPayloadKept /\ WorkShown /\ BranchAtBase
  BY DEF WorkspaceInvariant
<1>1. PICK t, loose : Called(t, loose)
  BY ToolsCalled
<1>2. /\ pc = "run" /\ job \in Dirs /\ Kind(job) = "patch" /\ BundleOf(job) \in Bundles
      /\ Tree = trees[job] /\ link = job /\ job = <<"patch", BundleOf(job)>>
  BY ToolsCalled, AtWork, DirShape
<1>3. /\ trees'[job] = t
      /\ \A e \in Dirs \cup {Main} : e # job => trees'[e] = trees[e]
      /\ snapshot'[BundleOf(job)] = Diff(t) \/ job \in missed'
      /\ \A b \in Bundles : b # BundleOf(job) => snapshot'[b] = snapshot[b]
      /\ snapshot'[BundleOf(job)] \in {snapshot[BundleOf(job)], Diff(t)}
  BY <1>1, <1>2, CalledTyped
<1>4. /\ UNCHANGED <<base, head, branches, link, job, pc, changes, verdict, began, outlived>>
      /\ t \in Checkout /\ t.cut = trees[job].cut /\ opened' = opened \cup loose
      /\ \A f \in Files : t.files[f] \in {trees[job].files[f], None, BundleOf(job)}
      /\ \A f \in Files : Committed(f) /\ ReadAtHead(f) /\ f \notin loose => t.files[f] = trees[job].files[f]
      /\ \A e : e # job => (e \in missed => e \in missed')
  BY <1>1 DEF Called
<1>5. VerdictIsOfDiff'
  BY <1>0, <1>4, VerdictStays
<1>6. FreshYet'
  BY <1>0, <1>2, <1>3, <1>4 DEF FreshYet
<1>7. \A f \in Files : t.files[f] \in {None, "base", BundleOf(job)}
  BY <1>0, <1>2, <1>4 DEF OwnTree
<1>8. OwnTree'
  BY <1>3, <1>4, <1>7 DEF OwnTree
<1>9. OwnArts'
  BY <1>0, <1>2, <1>3, <1>4, <1>7, ArtsShow
<1>10. SharedPayloadKept'
  <2> SUFFICES ASSUME NEW f \in Files, Committed(f)', ReadAtHead(f)', f \notin opened' PROVE Tree'.files[f] = "base"
    BY DEF SharedPayloadKept
  <2>1. Committed(f) /\ ReadAtHead(f) /\ f \notin opened /\ f \notin loose
    BY <1>4 DEF Committed, ReadAtHead
  <2>2. trees[job].files[f] = "base"
    BY <1>0, <1>2, <2>1 DEF SharedPayloadKept
  <2>3. Tree' = t
    BY <1>2, <1>3, <1>4 DEF Tree
  <2> QED
    BY <1>4, <2>1, <2>2, <2>3
<1>11. WorkShown'
  <2> SUFFICES ASSUME NEW b \in Bundles PROVE ShownIn(b)' /\ ShownAtEnd(b)'
    BY DEF WorkShown
  <2>1. ShownAtEnd(b)'
    BY <1>2, <1>4, NotAtEnd
  <2>2. CASE <<"patch", b>> = job /\ job \in missed'
    BY <1>4, <2>2, NothingToShow
  <2>3. CASE <<"patch", b>> = job /\ snapshot'[b] = Diff(t)
    <3>1. Diff(t) \notin {None, Tombstone} /\ Diff(t).tree = t
      BY <1>4, CaptureTyped DEF Typed, TreesOK
    <3>2. Diff(t) \in Captures(b)' /\ trees'[<<"patch", b>>] = t
      BY <1>3, <2>3, <3>1 DEF Captures
    <3> QED
      BY <2>1, <3>1, <3>2 DEF ShownIn
  <2>4. CASE <<"patch", b>> # job
    BY <1>0, <1>2, <1>3, <1>4, <2>1, <2>4, OtherDir, ShownStays DEF WorkShown
  <2>5. <<"patch", b>> = job => BundleOf(job) = b
    BY PatchDir
  <2> QED
    BY <1>3, <2>2, <2>3, <2>4, <2>5
<1>12. trees'[job] # None
  BY <1>3, <1>4, NoneApart
<1>13. BranchAtBase'
  BY <1>0, <1>4, <1>12, BranchesStay
<1> QED
  BY <1>5, <1>6, <1>8, <1>9, <1>10, <1>11, <1>13 DEF WorkspaceInvariant

LEMMA EndKeeps ==
  ASSUME Typed, WorkspaceInvariant, GiveUp \/ Succeed \/ Raise
  PROVE  WorkspaceInvariant'
<1>0. /\ FreshYet /\ OwnTree /\ OwnArts /\ VerdictIsOfDiff /\ SharedPayloadKept /\ WorkShown /\ BranchAtBase
  BY DEF WorkspaceInvariant
<1>1. PICK t : Closed(t)
  BY EndClosed
<1>2. /\ pc = "run" /\ job \in Dirs /\ Kind(job) = "patch" /\ BundleOf(job) \in Bundles
      /\ job = <<"patch", BundleOf(job)>> /\ base \in 0..MaxBase /\ head \in Heads
  BY <1>1, AtWork, DirShape DEF Closed
<1>3. /\ trees'[job] = t
      /\ \A e \in Dirs \cup {Main} : e # job => trees'[e] = trees[e]
      /\ \A b \in Bundles : b # BundleOf(job) => changes'[b] = changes[b]
      /\ \/ changes'[BundleOf(job)] = Diff(t)
         \/ changes'[BundleOf(job)] = changes[BundleOf(job)] /\ (t = FreshOf(head, base) \/ job \in missed')
         \/ changes'[BundleOf(job)] = Tombstone /\ job \in missed'
  BY <1>1, ClosedTyped
<1>4. /\ UNCHANGED <<base, head, branches, link, job, snapshot, verdict, began, outlived>>
      /\ t \in Checkout /\ pc' = "teardown"
      /\ \A f \in Files : t.files[f] \in {trees[job].files[f], None}
      /\ \A e : e # job => (e \in missed => e \in missed')
  BY <1>1 DEF Closed
<1>5. VerdictIsOfDiff'
  BY <1>0, <1>4, VerdictStays
<1>6. FreshYet' /\ OwnTree' /\ SharedPayloadKept'
  BY <1>4, RestingKeeps DEF Resting, HasTree
<1>7. \A f \in Files : t.files[f] \in {None, "base", BundleOf(job)}
  BY <1>0, <1>2, <1>4 DEF OwnTree
<1>8. OwnArts'
  BY <1>0, <1>2, <1>3, <1>4, <1>7, ArtsShow
<1>9. WorkShown'
  <2> SUFFICES ASSUME NEW b \in Bundles PROVE ShownIn(b)' /\ ShownAtEnd(b)'
    BY DEF WorkShown
  <2>1. CASE <<"patch", b>> = job /\ job \in missed'
    BY <1>4, <2>1, NothingToShow
  <2>2. CASE <<"patch", b>> = job /\ t = FreshOf(head, base)
    <3>1. ~EditedOf(head, t)
      BY <1>2, <2>2, FreshTyped
    <3> QED
      BY <1>3, <1>4, <2>2, <3>1, NothingToShow
  <2>3. CASE <<"patch", b>> = job /\ changes'[b] = Diff(t)
    <3>1. Diff(t) \notin {None, Tombstone} /\ Diff(t).tree = t
      BY <1>2, <1>4, CaptureTyped
    <3>2. changes'[b] \in Captures(b)' /\ trees'[<<"patch", b>>] = t
      BY <1>3, <2>3, <3>1 DEF Captures
    <3> QED
      BY <2>3, <3>1, <3>2 DEF ShownIn, ShownAtEnd
  <2>4. CASE <<"patch", b>> # job
    BY <1>0, <1>2, <1>3, <1>4, <2>4, OtherDir, ShownStays, NotAtEnd DEF WorkShown
  <2>5. <<"patch", b>> = job => BundleOf(job) = b
    BY PatchDir
  <2> QED
    BY <1>3, <2>1, <2>2, <2>3, <2>4, <2>5
<1>10. trees'[job] # None
  BY <1>3, <1>4, NoneApart
<1>11. BranchAtBase'
  BY <1>0, <1>4, <1>10, BranchesStay
<1> QED
  BY <1>5, <1>6, <1>8, <1>9, <1>11 DEF WorkspaceInvariant

LEMMA VerifyKeeps ==
  ASSUME Typed, WorkspaceInvariant, Verify
  PROVE  WorkspaceInvariant'
<1>0. /\ FreshYet /\ OwnTree /\ OwnArts /\ VerdictIsOfDiff /\ SharedPayloadKept /\ WorkShown /\ BranchAtBase
  BY DEF WorkspaceInvariant
<1>1. /\ job \in Dirs /\ Kind(job) = "verify" /\ pc' = "teardown" /\ pc = "begin"
      /\ verdict' \in {verdict, Judged(BundleOf(job), trees[job], began)}
      /\ \A e \in Dirs \cup {Main} : e # job => trees'[e] = trees[e]
      /\ UNCHANGED <<base, head, branches, link, job, changes, snapshot, bounds, history>>
  BY VerifyTyped DEF Verify
<1>2. trees[job] = FreshOf(head, trees[job].cut) /\ trees[job].cut = began
  BY <1>0, <1>1 DEF FreshYet
<1>3. VerdictIsOfDiff'
  BY <1>0, <1>1, <1>2, VerdictStays, VerdictJudged
<1>4. OwnArts'
  BY <1>0, <1>1, ArtsStay
<1>5. FreshYet' /\ OwnTree' /\ SharedPayloadKept'
  BY <1>1, RestingKeeps DEF Resting, HasTree
<1>6. \A b \in Bundles : <<"patch", b>> # job /\ trees'[<<"patch", b>>] = trees[<<"patch", b>>]
  BY <1>1, PatchDir
<1>7. WorkShown'
  BY <1>0, <1>1, <1>6, ShownStays, NotAtEnd DEF WorkShown
<1>8. BranchAtBase'
  BY <1>0, <1>1, <1>6, BranchesStay
<1> QED
  BY <1>3, <1>4, <1>5, <1>7, <1>8 DEF WorkspaceInvariant

LEMMA LeftOf == ASSUME NEW b \in Bundles, job = <<"patch", b>>, branches[job] # None PROVE job \in Left
  BY PatchDir DEF Left

LEMMA TeardownKeeps ==
  ASSUME Typed, WorkspaceInvariant, Teardown
  PROVE  WorkspaceInvariant'
<1>0. /\ FreshYet /\ OwnTree /\ OwnArts /\ VerdictIsOfDiff /\ SharedPayloadKept /\ WorkShown /\ BranchAtBase
  BY DEF WorkspaceInvariant
<1>1. /\ job \in Dirs /\ pc = "teardown"
      /\ UNCHANGED <<base, head, branches, trees, artifacts, began, missed, opened>>
      /\ \/ pc' = "remove" /\ UNCHANGED <<job, outlived>>
         \/ pc' = "idle" /\ job' = None /\ outlived' = outlived \cup Left
  BY TeardownTyped DEF Teardown
<1>2. VerdictIsOfDiff' /\ OwnArts'
  BY <1>0, <1>1, VerdictStays, ArtsStay
<1>3. FreshYet' /\ OwnTree' /\ SharedPayloadKept'
  BY <1>1, RestingKeeps DEF Resting, HasTree
<1>4. WorkShown'
  BY <1>0, <1>1, ShownStays, NotAtEnd, EndStays DEF WorkShown
<1>5. BranchAtBase'
  BY <1>0, <1>1, LeftOf, BranchesStay
<1> QED
  BY <1>2, <1>3, <1>4, <1>5 DEF WorkspaceInvariant

LEMMA RemoveKeeps ==
  ASSUME Typed, WorkspaceInvariant, Remove
  PROVE  WorkspaceInvariant'
<1>0. /\ FreshYet /\ OwnTree /\ OwnArts /\ VerdictIsOfDiff /\ SharedPayloadKept /\ WorkShown /\ BranchAtBase
  BY DEF WorkspaceInvariant
<1>1. /\ job \in Dirs /\ pc = "remove" /\ pc' = "idle" /\ job' = None /\ missed' = missed \ {job}
      /\ trees'[job] = None /\ \A e \in Dirs \cup {Main} : e # job => trees'[e] = trees[e]
      /\ branches'[job] = None /\ \A e \in Dirs : e # job => branches'[e] = branches[e]
      /\ UNCHANGED <<base, head, artifacts, outlived>>
  BY RemoveTyped DEF Remove
<1>2. VerdictIsOfDiff' /\ OwnArts'
  BY <1>0, <1>1, VerdictStays, ArtsStay
<1>3. FreshYet' /\ OwnTree' /\ SharedPayloadKept'
  BY <1>1, RestingKeeps DEF Resting, HasTree
<1>4. WorkShown'
  <2> SUFFICES ASSUME NEW b \in Bundles PROVE ShownIn(b)' /\ ShownAtEnd(b)'
    BY DEF WorkShown
  <2>1. CASE <<"patch", b>> = job
    BY <1>1, <2>1, NothingToShow
  <2>2. CASE <<"patch", b>> # job
    BY <1>0, <1>1, <2>2, OtherDir, ShownStays, NotAtEnd DEF WorkShown
  <2> QED
    BY <2>1, <2>2
<1>5. BranchAtBase'
  <2> SUFFICES ASSUME NEW b \in Bundles, branches'[<<"patch", b>>] # None PROVE <<"patch", b>> \in outlived'
    BY DEF BranchAtBase
  <2>1. <<"patch", b>> # job /\ <<"patch", b>> \in Dirs
    BY <1>1, PatchDir
  <2> QED
    BY <1>0, <1>1, <2>1 DEF BranchAtBase
<1> QED
  BY <1>2, <1>3, <1>4, <1>5 DEF WorkspaceInvariant

LEMMA CrashKeeps ==
  ASSUME Typed, WorkspaceInvariant, Crash
  PROVE  WorkspaceInvariant'
<1>0. /\ FreshYet /\ OwnTree /\ OwnArts /\ VerdictIsOfDiff /\ SharedPayloadKept /\ WorkShown /\ BranchAtBase
  BY DEF WorkspaceInvariant
<1>1. /\ job' = None /\ pc' = "down" /\ outlived' = outlived \cup Left
      /\ UNCHANGED <<git, artifacts, began, missed>>
  BY CrashTyped DEF Crash
<1>2. VerdictIsOfDiff' /\ OwnArts'
  BY <1>0, <1>1, VerdictStays, ArtsStay
<1>3. FreshYet' /\ OwnTree' /\ SharedPayloadKept'
  BY <1>1, RestingKeeps DEF Resting, HasTree
<1>4. WorkShown'
  BY <1>0, <1>1, ShownStays, NotAtEnd DEF WorkShown
<1>5. BranchAtBase'
  BY <1>0, <1>1, LeftOf, BranchesStay
<1> QED
  BY <1>2, <1>3, <1>4, <1>5 DEF WorkspaceInvariant

LEMMA SweepLinkKeeps ==
  ASSUME Typed, WorkspaceInvariant, SweepLink
  PROVE  WorkspaceInvariant'
<1>0. /\ FreshYet /\ OwnTree /\ OwnArts /\ VerdictIsOfDiff /\ SharedPayloadKept /\ WorkShown /\ BranchAtBase
  BY DEF WorkspaceInvariant
<1>1. /\ pc' \in {"sweep", "idle"} /\ pc = "down"
      /\ UNCHANGED <<base, head, branches, trees, job, artifacts, history>>
  BY SweepLinkTyped DEF SweepLink
<1>2. VerdictIsOfDiff' /\ OwnArts'
  BY <1>0, <1>1, VerdictStays, ArtsStay
<1>3. FreshYet' /\ OwnTree' /\ SharedPayloadKept'
  BY <1>1, RestingKeeps DEF Resting, HasTree
<1>4. WorkShown'
  BY <1>0, <1>1, ShownStays, NotAtEnd DEF WorkShown
<1>5. BranchAtBase'
  BY <1>0, <1>1, BranchesStay
<1> QED
  BY <1>2, <1>3, <1>4, <1>5 DEF WorkspaceInvariant

LEMMA SweepKeeps ==
  ASSUME Typed, WorkspaceInvariant, Sweep
  PROVE  WorkspaceInvariant'
<1>0. /\ FreshYet /\ OwnTree /\ OwnArts /\ VerdictIsOfDiff /\ SharedPayloadKept /\ WorkShown /\ BranchAtBase
  BY DEF WorkspaceInvariant
<1>1. /\ pc = "sweep" /\ pc' = "idle" /\ \A d \in Dirs : trees'[d] = None
      /\ UNCHANGED <<base, head, branches, job, artifacts, outlived>>
  BY SweepTyped DEF Sweep
<1>2. VerdictIsOfDiff' /\ OwnArts'
  BY <1>0, <1>1, VerdictStays, ArtsStay
<1>3. FreshYet' /\ OwnTree' /\ SharedPayloadKept'
  BY <1>1, RestingKeeps DEF Resting, HasTree
<1>4. WorkShown'
  BY <1>1, PatchDir, NothingToShow DEF WorkShown
<1>5. BranchAtBase'
  BY <1>0, <1>1, BranchesStay
<1> QED
  BY <1>2, <1>3, <1>4, <1>5 DEF WorkspaceInvariant

\* Between jobs: the checkout PORTS_DIR points at shows no less than before.
LEMMA BesideKeeps ==
  ASSUME Typed, WorkspaceInvariant, NEW t, Beside(t), VerdictIsOfDiff',
         \A e : e # link => (e \in missed => e \in missed'),
         \/ link \in missed' \/ link = Main
         \/ ~EditedOf(head, t)
         \/ t = Bootstrapped(trees[link]) /\ (link \in missed => link \in missed')
  PROVE  WorkspaceInvariant'
<1>0. /\ FreshYet /\ OwnTree /\ OwnArts /\ VerdictIsOfDiff /\ SharedPayloadKept /\ WorkShown /\ BranchAtBase
  BY DEF WorkspaceInvariant
<1>1. /\ pc = "idle" /\ pc' = "idle" /\ trees[link] \in Checkout /\ head \in Heads
      /\ UNCHANGED <<base, head, branches, job, changes, snapshot, outlived>>
  BY DEF Beside, Typed, TreesOK
<1>2. trees'[link] = t /\ \A e \in Dirs \cup {Main} : e # link => trees'[e] = trees[e]
  BY BesideTyped
<1>3. OwnArts'
  BY <1>0, <1>1, ArtsStay
<1>4. FreshYet' /\ OwnTree' /\ SharedPayloadKept'
  BY <1>1, RestingKeeps DEF Resting, HasTree
<1>5. WorkShown'
  <2> SUFFICES ASSUME NEW b \in Bundles PROVE ShownIn(b)'
    BY <1>1, NotAtEnd DEF WorkShown
  <2>0. <<"patch", b>> \in Dirs /\ <<"patch", b>> # Main
    BY PatchDir, NoneApart
  <2>1. CASE <<"patch", b>> # link
    BY <1>0, <1>1, <1>2, <2>0, <2>1, ShownStays DEF WorkShown
  <2>2. CASE <<"patch", b>> = link /\ (link \in missed' \/ ~EditedOf(head, t))
    BY <1>1, <1>2, <2>2, NothingToShow
  <2>3. CASE /\ <<"patch", b>> = link /\ t = Bootstrapped(trees[link])
             /\ link \in missed => link \in missed'
    <3> SUFFICES ASSUME Unshown(b)' PROVE \E x \in Captures(b)' : Bootstrapped(x.tree) = Bootstrapped(t)
      BY <1>2, <2>3 DEF ShownIn
    <3>1. EditedOf(head, t) /\ link \notin missed
      BY <1>1, <1>2, <2>3 DEF Unshown
    <3>2. EditedOf(head, trees[link]) /\ Bootstrapped(t) = t
      BY <1>1, <2>3, <3>1, BootUnedited, BootTyped
    <3>3. trees[link] # None
      BY <1>1, NoneApart
    <3>4. \E x \in Captures(b) : Bootstrapped(x.tree) = Bootstrapped(trees[link])
      BY <1>0, <2>3, <3>1, <3>2, <3>3 DEF WorkShown, ShownIn, Unshown
    <3>5. Captures(b)' = Captures(b)
      BY <1>1 DEF Captures
    <3> QED
      BY <2>3, <3>2, <3>4, <3>5
  <2> QED
    BY <2>0, <2>1, <2>2, <2>3
<1>6. BranchAtBase'
  BY <1>0, <1>1, BranchesStay
<1> QED
  BY <1>3, <1>4, <1>5, <1>6 DEF WorkspaceInvariant

LEMMA AsideKeeps ==
  ASSUME Typed, WorkspaceInvariant, TriageBootstrap \/ (\E b \in Bundles : VerifyByHand(b)) \/ ResetPort
  PROVE  Typed' /\ WorkspaceInvariant'
<1>0. VerdictIsOfDiff
  BY DEF WorkspaceInvariant
<1>1. CASE TriageBootstrap
  <2>1. Beside(Bootstrapped(trees[link])) /\ UNCHANGED <<verdict, missed>>
    BY <1>1, TriageBeside
  <2>2. VerdictIsOfDiff'
    BY <1>0, <2>1, VerdictStays DEF Beside
  <2> QED
    BY <2>1, <2>2, BesideTyped, BesideKeeps
<1>2. CASE \E b \in Bundles : VerifyByHand(b)
  <2>1. PICK b \in Bundles : VerifyByHand(b)
    BY <1>2
  <2>2. /\ verdict' = Judged(b, trees[link], trees[link].cut) /\ missed' = missed \cup ({link} \ {Main})
        /\ trees[link] = FreshOf(head, trees[link].cut)
    BY <2>1, HandBeside
  <2>3. PICK t : Beside(t)
    BY <2>1, HandBeside
  <2>4. VerdictIsOfDiff'
    BY <2>2, <2>3, VerdictJudged DEF Beside
  <2>5. link \in missed' \/ link = Main
    BY <2>2
  <2> QED
    BY <2>2, <2>3, <2>4, <2>5, BesideTyped, BesideKeeps
<1>3. CASE ResetPort
  <2>1. Beside(FreshOf(head, trees[link].cut)) /\ UNCHANGED <<verdict, missed>>
    BY <1>3, ResetBeside
  <2>2. VerdictIsOfDiff'
    BY <1>0, <2>1, VerdictStays DEF Beside
  <2>3. ~EditedOf(head, FreshOf(head, trees[link].cut))
    BY DEF EditedOf, FreshOf
  <2> QED
    BY <2>1, <2>2, <2>3, BesideTyped, BesideKeeps
<1> QED
  BY <1>1, <1>2, <1>3

LEMMA UpdateKeeps ==
  ASSUME Typed, WorkspaceInvariant, Update
  PROVE  WorkspaceInvariant'
<1>0. /\ FreshYet /\ OwnTree /\ OwnArts /\ VerdictIsOfDiff /\ SharedPayloadKept /\ WorkShown /\ BranchAtBase
  BY DEF WorkspaceInvariant
<1>1. /\ \A d \in Dirs : trees'[d] = trees[d]
      /\ outlived' = outlived \cup {d \in {"patch"} \X Bundles : trees[d] # None}
      /\ UNCHANGED <<head, branches, link, job, pc, artifacts, began, missed, opened>>
      /\ pc \in HasTree => job \in Dirs
      /\ pc = "run" => link = job
  BY UpdateTyped DEF Update, Aside, Typed, Places, Working, HasTree
<1>2. VerdictIsOfDiff' /\ OwnArts'
  BY <1>0, <1>1, VerdictStays, ArtsStay
<1>3. FreshYet'
  BY <1>0, <1>1 DEF FreshYet, HasTree
<1>4. OwnTree'
  BY <1>0, <1>1 DEF OwnTree, HasTree
<1>5. SharedPayloadKept'
  BY <1>0, <1>1 DEF SharedPayloadKept, Committed, ReadAtHead, Tree, HasTree
<1>6. WorkShown'
  <2> SUFFICES ASSUME NEW b \in Bundles PROVE ShownIn(b)' /\ ShownAtEnd(b)'
    BY DEF WorkShown
  <2>1. trees'[<<"patch", b>>] = trees[<<"patch", b>>]
    BY <1>1, PatchDir
  <2> QED
    BY <1>0, <1>1, <2>1, ShownStays, NotAtEnd, EndStays DEF WorkShown
<1>7. BranchAtBase'
  <2> SUFFICES ASSUME NEW b \in Bundles, branches'[<<"patch", b>>] # None PROVE <<"patch", b>> \in outlived'
    BY DEF BranchAtBase
  <2> QED
    BY <1>0, <1>1, PatchDir DEF BranchAtBase
<1> QED
  BY <1>2, <1>3, <1>4, <1>5, <1>6, <1>7 DEF WorkspaceInvariant

LEMMA StillKeeps ==
  ASSUME Typed, WorkspaceInvariant, UNCHANGED vars
  PROVE  WorkspaceInvariant'
<1>0. /\ FreshYet /\ OwnTree /\ OwnArts /\ VerdictIsOfDiff /\ SharedPayloadKept /\ WorkShown /\ BranchAtBase
  BY DEF WorkspaceInvariant
<1>1. FreshYet' /\ OwnTree' /\ SharedPayloadKept'
  BY <1>0 DEF FreshYet, OwnTree, SharedPayloadKept, Committed, ReadAtHead, Tree
<1>2. VerdictIsOfDiff' /\ OwnArts'
  BY <1>0, VerdictStays, ArtsStay
<1>3. WorkShown'
  BY <1>0, ShownStays, NotAtEnd, EndStays DEF WorkShown
<1>4. BranchAtBase'
  BY <1>0, BranchesStay
<1> QED
  BY <1>1, <1>2, <1>3, <1>4 DEF WorkspaceInvariant

LEMMA NextKeeps ==
  ASSUME Typed, WorkspaceInvariant, [Next]_vars
  PROVE  Typed' /\ WorkspaceInvariant'
<1>1. CASE \E d \in Dirs : Start(d)
  BY <1>1, StartTyped, StartKeeps
<1>2. CASE AddWorktree
  BY <1>2, AddTyped, AddKeeps
<1>3. CASE PointLink
  BY <1>3, LinkTyped, LinkKeeps
<1>4. CASE Preflight
  BY <1>4, PreflightTyped, PreflightKeeps
<1>5. CASE Tools
  BY <1>5, ToolsCalled, CalledTyped, ToolsKeep
<1>6. CASE GiveUp \/ Succeed \/ Raise
  BY <1>6, EndClosed, ClosedTyped, EndKeeps
<1>7. CASE Verify
  BY <1>7, VerifyTyped, VerifyKeeps
<1>8. CASE Teardown
  BY <1>8, TeardownTyped, TeardownKeeps
<1>9. CASE Remove
  BY <1>9, RemoveTyped, RemoveKeeps
<1>10. CASE Crash
  BY <1>10, CrashTyped, CrashKeeps
<1>11. CASE SweepLink
  BY <1>11, SweepLinkTyped, SweepLinkKeeps
<1>12. CASE Sweep
  BY <1>12, SweepTyped, SweepKeeps
<1>13. CASE TriageBootstrap \/ (\E b \in Bundles : VerifyByHand(b)) \/ ResetPort
  BY <1>13, AsideKeeps
<1>14. CASE Update
  BY <1>14, UpdateTyped, UpdateKeeps
<1>15. CASE UNCHANGED vars
  BY <1>15, StillTyped, StillKeeps
<1> QED
  BY <1>1, <1>2, <1>3, <1>4, <1>5, <1>6, <1>7, <1>8, <1>9, <1>10, <1>11, <1>12, <1>13, <1>14, <1>15
  DEF Next

LEMMA InvariantHolds == Spec => [](Typed /\ WorkspaceInvariant)
<1>1. Init => Typed /\ WorkspaceInvariant
  BY InitTyped, InitHolds
<1>2. (Typed /\ WorkspaceInvariant) /\ [Next]_vars => (Typed /\ WorkspaceInvariant)'
  BY NextKeeps
<1> QED
  BY <1>1, <1>2, PTL DEF Spec

\* While a patch's tools may write, PORTS_DIR is that job's own tree, it holds
\* nothing of another bundle, and no artifact shows another bundle's work: a
\* worktree is cut per job (create_job_worktree), and the link is moved first.
THEOREM WorkStaysOwn == Spec => []WorkIsOwn
<1>1. Typed /\ WorkspaceInvariant => WorkIsOwn
  <2> SUFFICES ASSUME Typed, WorkspaceInvariant PROVE WorkIsOwn
    OBVIOUS
  <2>1. OwnArts /\ OwnTree
    BY DEF WorkspaceInvariant
  <2>2. pc = "run" => link = job /\ Tree = trees[job]
    BY AtWork
  <2>3. \A b \in Bundles : \A d \in Captures(b) : \A f \in Files : d.tree.files[f] \in {None, "base", b}
    BY <2>1 DEF OwnArts
  <2> QED
    BY <2>1, <2>2, <2>3 DEF WorkIsOwn, OwnTree
<1> QED
  BY <1>1, InvariantHolds, PTL

\* A verification judges the bundle's diff on a tree that is the base it was
\* started on and nothing else, whichever jobs, crashes and replays by hand were
\* there before (run_verify_fix, create_job_worktree, _check_tree_clean).
THEOREM VerdictsJudgeDiffs == Spec => []VerdictIsOfDiff
<1>1. WorkspaceInvariant => VerdictIsOfDiff
  BY DEF WorkspaceInvariant
<1> QED
  BY <1>1, InvariantHolds, PTL

\* No sequence of the tools' calls changes a file that other build lines read,
\* but where a guard could not see the port the job started with, or where
\* install_patches puts the line's own copy or a file it calls unsafe.
THEOREM SharedStaysKept == Spec => []SharedPayloadKept
<1>1. WorkspaceInvariant => SharedPayloadKept
  BY DEF WorkspaceInvariant
<1> QED
  BY <1>1, InvariantHolds, PTL

\* The work of a patch is in an artifact of its bundle when its tree goes: at
\* the end of its job, at the sweep after the runner died, at the next job's
\* clearing of a leftover and at an operator's reset.
THEOREM WorkStaysShown == Spec => WorkIsKept
<1> DEFINE Kept ==
      \A b \in Bundles : LET d == <<"patch", b>> IN
        /\ trees[d] # None /\ trees'[d] # trees[d] /\ pc # "run"
        /\ pc # "begin" /\ Edited(trees[d])
        => d \in missed \/ Bootstrapped(trees[d]) \in Shown(b)
<1>1. Typed /\ WorkspaceInvariant /\ [Next]_vars => Kept
  <2> SUFFICES ASSUME Typed, WorkspaceInvariant, [Next]_vars, NEW b \in Bundles, NEW d, d = <<"patch", b>>,
                      trees[d] # None, trees'[d] # trees[d], Edited(trees[d]), d \notin missed
               PROVE  Bootstrapped(trees[d]) \in Shown(b)
    OBVIOUS
  <2>0. Unshown(b) /\ ShownIn(b) /\ ShownAtEnd(b) /\ d \in Dirs
    BY Same, PatchDir DEF Unshown, WorkspaceInvariant, WorkShown
  <2>1. CASE pc # "remove"
    <3>1. PICK x \in Captures(b) : Bootstrapped(x.tree) = Bootstrapped(trees[d])
      BY <2>0 DEF ShownIn
    <3>2. x \in Captures(b) \ {None}
      BY <3>1 DEF Captures
    <3> QED
      BY <2>1, <3>1, <3>2 DEF Shown
  <2>2. CASE pc = "remove"
    <3>1. Remove
      <4>1. ~(UNCHANGED trees) /\ ~Update
        BY <2>0, UpdateTyped
      <4> QED
        BY <2>2, <4>1 DEF Next, Start, AddWorktree, PointLink, Preflight, Tools, GiveUp, Succeed,
           Raise, Ended,
           Verify, Teardown, Crash, SweepLink, Sweep, TriageBootstrap, VerifyByHand, ResetPort
    <3>2. job = d
      BY <2>0, <3>1, RemoveTyped
    <3>3. changes[b] # None /\ Bootstrapped(changes[b].tree) = Bootstrapped(trees[d])
      BY <2>0, <2>2, <3>2 DEF ShownAtEnd
    <3> QED
      BY <2>2, <3>3 DEF Shown
  <2> QED
    BY <2>1, <2>2
<1>2. Spec => [][Kept]_vars
  BY <1>1, InvariantHolds, PTL DEF Spec
<1> QED
  BY <1>2 DEF WorkIsKept

\* A captured diff takes nothing of upstream's back, unless its branch outlived
\* an earlier job or the base moved under the job (_drop_bundle_branch_for_job).
THEOREM DiffsAreOwn == Spec => DiffIsOwn
<1> DEFINE Own ==
      \A b \in Bundles :
        changes'[b] \notin {changes[b], Tombstone} /\ Reverts(changes'[b]) => <<"patch", b>> \in outlived
<1>1. Typed /\ WorkspaceInvariant /\ [Next]_vars => Own
  <2> SUFFICES ASSUME Typed, WorkspaceInvariant, [Next]_vars, NEW b \in Bundles,
                      changes'[b] \notin {changes[b], Tombstone}, Reverts(changes'[b]),
                      <<"patch", b>> \notin outlived
               PROVE  FALSE
    OBVIOUS
  <2>1. GiveUp \/ Succeed \/ Raise
    <3>1. ~(UNCHANGED changes)
      OBVIOUS
    <3>2. Tools => UNCHANGED changes
      BY ToolsCalled DEF Called
    <3> QED
      BY <3>1, <3>2 DEF Next, Start, AddWorktree, PointLink, Preflight, Verify, Teardown, Remove,
         Crash,
         SweepLink, Sweep, TriageBootstrap, Update, VerifyByHand, ResetPort
  <2>2. PICK t : Closed(t)
    BY <2>1, EndClosed
  <2>3. b = BundleOf(job) /\ changes'[b] = Diff(t) /\ pc = "run"
    BY <2>2, ClosedTyped DEF Closed
  <2>4. /\ t.cut = trees[job].cut /\ t \in Checkout /\ base \in 0..MaxBase
        /\ job = <<"patch", b>> /\ Kind(job) = "patch"
    BY <2>2, <2>3, AtWork, DirShape DEF Closed
  <2>5. t.cut = branches[job] /\ t.cut \in 0..MaxBase /\ None \notin 0..MaxBase
    BY <2>3, <2>4, NoneApart DEF WorkspaceInvariant, FreshYet, HasTree, Checkout
  <2>6. t.cut = base
    BY <2>4, <2>5 DEF WorkspaceInvariant, BranchAtBase
  <2>7. Diff(t).tree = t /\ Diff(t).from = base
    BY DEF Diff
  <2> QED
    BY <2>3, <2>6, <2>7 DEF Reverts
<1>2. Spec => [][Own]_vars
  BY <1>1, InvariantHolds, PTL DEF Spec
<1> QED
  BY <1>2 DEF DiffIsOwn

=============================================================================

------------------------------ MODULE Payload ------------------------------
(***************************************************************************)
(* The payload files of a port's overlay: which build line reads which,    *)
(* what a line installs at each name, and where a re-cut patch goes.       *)
(*                                                                         *)
(* A payload file is a folder and a name: the flat dragonfly/, the folder  *)
(* dragonfly/@<line>/ of a line, or diffs/.  An overlay is the set of its  *)
(* ops, or Unplanned when its text does not plan, or Absent.  Of the ops   *)
(* only those that fill or read a file are here; no two of one scope fill  *)
(* the same name.                                                          *)
(***************************************************************************)
EXTENDS Naturals, FiniteSets

CONSTANTS
  Line,        \* the build line the env composes
  OtherLines,
  Names,       \* names of patches
  Patched,     \* the source file a patch of each name changes
  Files,       \* the payload files a port may have
  Unplanned, Absent

Lines == {Line} \cup OtherLines
Folders == {"flat", "diffs"} \cup Lines
At(folder, n) == <<folder, n>>

ASSUME PayloadAssumption ==
  /\ Line \notin OtherLines /\ Lines \cap {"any", "flat", "diffs"} = {}
  /\ Files \subseteq Folders \X Names
  /\ \A n \in Names : {At("flat", n), At(Line, n)} \subseteq Files
  /\ Unplanned # Absent

\* src is a file, or the composed port's own file for a file.copy.
Op == [kind : {"file.materialize", "patch.apply"}, scope : {"any"} \cup Lines,
       src : Files, dst : Names]
      \cup [kind : {"file.copy"}, scope : {"any"} \cup Lines, src : Names, dst : Names]

Plans(overlay) == overlay \notin {Unplanned, Absent}
Readers(ops) == {op \in ops : op.kind # "file.copy"}
Fillers(ops) == {op \in ops : op.kind # "patch.apply"}

\* The line the folder rule gives a file to, "any" for all of them.
FolderScope(f) == IF f[1] = "flat" THEN "any" ELSE f[1]
InFolder(f) == f[1] # "diffs"

ExplicitReads(ops) == {op.src : op \in Readers(ops)}

\* Some op or folder that does not run on Line alone reads the file.
ReadElsewhere(ops, f) ==
  \/ \E op \in Readers(ops) : op.src = f /\ op.scope # Line
  \/ InFolder(f) /\ FolderScope(f) # Line /\ f \notin ExplicitReads(ops)

\* What the dragonfly/ folder installs for a scope with no op.
FolderInstalls(ops, scope, files) ==
  {f \in files \ ExplicitReads(ops) : InFolder(f) /\ FolderScope(f) = scope}

(***************************************************************************)
(* _line_payload: the flat folder, the ops of every line, the line's own   *)
(* folder, its own ops; the last to fill a name is what the line installs. *)
(***************************************************************************)
Sources(ops, scope, n) == {op.src : op \in {o \in Fillers(ops) : o.scope = scope /\ o.dst = n}}
Folder(ops, scope, files, n) == {f \in FolderInstalls(ops, scope, files) : f[2] = n}

Winner(ops, files, n) ==
  LET levels == <<Sources(ops, Line, n), Folder(ops, Line, files, n),
                  Sources(ops, "any", n), Folder(ops, "any", files, n)>>
      filled == {i \in 1..4 : levels[i] # {}}
  IN  IF filled = {} THEN {}
      ELSE levels[CHOOSE i \in filled : \A j \in filled : i <= j]

\* A source install_patches may write over: a file under dragonfly/.
PayloadSources(srcs) == {f \in srcs \cap Files : InFolder(f)}

(***************************************************************************)
(* _payload_destination: the file that fills the patch's name on this      *)
(* line, else the one whose patch changes the same source file.            *)
(***************************************************************************)
SamePatch(ops, files, n) ==
  {d \in Names : \E f \in PayloadSources(Winner(ops, files, d)) :
                   f \in files /\ Patched[f[2]] = Patched[n]}

Destination(ops, files, n) ==
  LET here == Winner(ops, files, n)
      same == SamePatch(ops, files, n)
      d == IF here = {} /\ Cardinality(same) = 1 THEN CHOOSE d \in same : TRUE ELSE n
      found == PayloadSources(Winner(ops, files, d))
  IN  IF found # {} THEN [file |-> CHOOSE f \in found : TRUE, kind |-> "existing", dst |-> d]
      ELSE [file |-> At("flat", n), kind |-> IF here = {} THEN "new" ELSE "unsafe", dst |-> n]
=============================================================================

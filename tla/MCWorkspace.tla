---------------------------- MODULE MCWorkspace ----------------------------
(* A port of one patch, of two lines.                                      *)
EXTENDS Workspace, TLC

CONSTANTS n, q

FilesDef == {At("flat", n), At(Line, n), At("diffs", n), At("flat", q), At(Line, q)}
PatchedDef == [m \in Names |-> "source"]
Read(scope, f) == [kind |-> "patch.apply", scope |-> scope, src |-> f, dst |-> f[2]]
Copy(scope, m) == [kind |-> "file.copy", scope |-> scope, src |-> m, dst |-> m]

SharedOps == {Read("any", At("diffs", n)), Read("any", At(Line, q)), Copy("any", n)}
OverlaysDef == {{}, Unplanned}

\* A port without a delta, and one whose payload other lines read: by ops, one
\* of which names this line's own file, and from the flat folder.
Holding(fs) == [f \in Files |-> IF f \in fs THEN "base" ELSE None]
HeadsDef ==
  {[overlay |-> Absent, files |-> Holding({})],
   [overlay |-> SharedOps,
    files |-> Holding({At("diffs", n), At("flat", q), At(Line, q)})]}

BundleSymmetry == Permutations(Bundles)
=============================================================================

--------------------------- MODULE MCAttemptLoop ---------------------------
(***************************************************************************)
(* Instances of AttemptLoop for TLC.  A job runs with one of three tool    *)
(* sets, so that reading, building and patching are explored apart.        *)
(***************************************************************************)
EXTENDS AttemptLoop

ToolSets == {{"get_file", "edit"},
             {"edit", "materialize_dports", "dsynth_build"},
             {"edit_source", "genpatch", "install_patches", "make_extract", "note"}}

\* get_file(offset_lines, limit_lines)
ByCount == {[start |-> 1, limit |-> 2, end |-> 0], [start |-> 2, limit |-> 1, end |-> 0]}
\* get_file(start_line, end_line), with the limit of the first one left as it is
ByRange == {[start |-> 1, limit |-> 2, end |-> 1]}
AnyWindow == ByCount \cup ByRange
============================================================================

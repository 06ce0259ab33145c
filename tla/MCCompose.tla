----------------------------- MODULE MCCompose -----------------------------
(***************************************************************************)
(* Two ports: p with overlays of every way to edit it, q with the types    *)
(* that replace it.                                                        *)
(***************************************************************************)
EXTENDS Compose

Lf(lines) == [lines |-> lines, form |-> "lf"]
Crlf(lines) == [lines |-> lines, form |-> "crlf"]
Raw(lines) == [lines |-> lines, form |-> "raw"]
File(name, c) == Put(Empty, name, c)

Rev(n) == <<"PORTREVISION", n>>
Uses(n) == <<"USES", n>>
Broken == <<"BROKEN_amd64", 0>>
Include == <<"include", 0>>
A == <<"a", 0>>
B == <<"b", 0>>

MCRenames == [n \in {"BROKEN_amd64"} |-> "BROKEN_x86_64"]
MCDirectories ==
  {Put(File("Makefile", Lf(<<Rev(1), Broken, Include>>)), "dist", Crlf(<<A>>)),
   File("Makefile", Lf(<<Rev(2), Broken, Include>>))}
MCLocked == [o \in {"q"} |-> File("Makefile", Lf(<<Rev(9), Broken>>))]

Op(kind, scope, file, src, old, new, missing) ==
  [kind |-> kind, scope |-> scope, file |-> file, src |-> src, old |-> old, new |-> new,
   missing |-> missing]
Bump == Op("mk.var.bump", AnyLine, "Makefile", "", A, Rev(1), "error")
SetUses(scope, n) == Op("mk.var.set", scope, "Makefile", "", A, Uses(n), "error")
Patch == Op("patch.apply", AnyLine, "", "fix", A, A, "error")
Install == Op("file.materialize", AnyLine, "dist", "text", A, A, "error")
Rest == <<Op("text.line_insert_after", AnyLine, "dist", "", A, B, "noop"),
          Op("text.replace_once", Target, "dist", "", A, Broken, "error"),
          Op("text.line_remove", Target, "dist", "", B, B, "warn"),
          Op("file.copy", Target, "copy", "dist", A, A, "error")>>
Removal == Op("file.remove", Target, "dist", "", A, A, "error")

Body(lane, dst, c, hunks) == [lane |-> lane, dst |-> dst, body |-> c, hunks |-> hunks]
Hunk(file, old, new) == [file |-> file, old |-> old, new |-> new]
Fix == Body(AnyLine, "fix", Lf(<<A>>), {Hunk("Makefile", Broken, Uses(1))})
TextFile == Body(AnyLine, "text", Crlf(<<A, A>>), {})
Own(c) == Body(Target, "dist", c, {})

Overlay(mode, type, ops, payload, newport) ==
  [mode |-> mode, type |-> type, ops |-> ops, payload |-> payload, newport |-> newport,
   removes |-> {}, patches |-> <<>>]
Files(fix, text, own) ==
  [n \in {"fix", "text", "own"} |-> CASE n = "fix" -> fix [] n = "text" -> text
                                      [] n = "own" -> own]
Edit ==
  Overlay("dops", "port",
          <<SetUses(Target, 2), Bump, Patch>> \o Rest,
          Files(Fix, TextFile, Own(Lf(<<A>>))), None)
Replace ==
  Overlay("dops", "port", <<Bump, Install, Removal, Patch>>,
          Files(Fix, Body(AnyLine, "text", Raw(<<A>>), {}), Own(Lf(<<B>>))), None)
New ==
  Overlay("dops", "dport", <<Bump>>, Empty, File("Makefile", Lf(<<Rev(5)>>)))
Compatible ==
  [Overlay("compat", "port", <<>>,
           [n \in {"mk"} |-> Body(AnyLine, "Makefile.DragonFly", Lf(<<Broken>>), {})], None)
     EXCEPT !.removes = {"dist"}, !.patches = <<{Hunk("Makefile", Broken, Uses(1))}>>]
Masked == Overlay("dops", "mask", <<>>, Empty, None)
Held == Overlay("compat", "lock", <<>>, Empty, None)

MCOverlays ==
  [o \in Origins |->
     IF o = "p" THEN {Edit, Replace, Compatible, Masked} ELSE {New, Held}]
=============================================================================

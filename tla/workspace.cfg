SPECIFICATION Spec
CONSTANTS
  Line = Line
  OtherLines = {}
  n = n
  q = q
  Names = {n, q}
  Patched <- PatchedDef
  Files <- FilesDef
  Unplanned = Unplanned
  Absent = Absent
  Bundles = {b1, b2}
  Heads <- HeadsDef
  Overlays <- OverlaysDef
  Main = Main
  None = None
  Tombstone = Tombstone
  MaxBase = 1
  MaxJobs = 2
  MaxEdits = 2
  MaxFaults = 1
  MaxCrashes = 1
INVARIANTS
  WorkIsOwn
  VerdictIsOfDiff
  SharedPayloadKept
PROPERTIES
  WorkIsKept
  DiffIsOwn
CHECK_DEADLOCK FALSE
SYMMETRY BundleSymmetry

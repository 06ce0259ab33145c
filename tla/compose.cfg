SPECIFICATION Spec
CONSTANTS
  AnyLine = "any"
  Origins = {"p", "q"}
  Lines = {"main", "quarter"}
  Target = "quarter"
  NotGit = "notgit"
  None = None
  Locked <- MCLocked
  MkFiles = {"Makefile"}
  Renames <- MCRenames
  Directories <- MCDirectories
  Overlays <- MCOverlays
  Options = {{}, {"strict", "prune"}, {"dry"}}
  Selections = {{"p"}}
  MaxChanges = 2
  MaxFaults = 1
INVARIANTS BufferIsDirect ComposedIsIdeal
PROPERTIES MarksAreTrue StrictFailureKeepsLive

SPECIFICATION Spec
CONSTANTS
  f = f
  g = g
  Fields = {f, g}
  Half = 2
  Numbers <- SmallNumbers
  Refused = Refused
  MaxEdits = 1
  MaxReleases = 1
SYMMETRY Symmetry
INVARIANTS PassingReadsAsRust TypeScriptReadsAsRust PassingWritesAsRust StubbedCallsAreHeard AdditiveEditsStayReadable

SPECIFICATION Spec
CONSTANTS
  Absent = Absent
  Actors = {a1, a2}
  Callers = {c1, c2}
  MaxTime = 2
  Window = 1
  Order <- TwoFiles
  Parent <- ParentOf
  Top = top
  Exports <- ExportsOfTwo
  fileA = fileA
  fileB = fileB
  nested = nested
  old = old
  new = new
  newer = newer
SYMMETRY Symmetry
PROPERTIES
  OutcomeIsSealed
  VerdictIsEarned
CHECK_DEADLOCK FALSE

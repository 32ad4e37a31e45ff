SPECIFICATION Spec
CONSTANTS
  c1 = c1
  c2 = c2
  c3 = c3
  b1 = b1
  b2 = b2
  i1 = i1
  i2 = i2
  i3 = i3
  Absent = Absent
  Callers <- MCCallers
  Bindings <- MCBindings
  Ids <- MCIds
SYMMETRY MCSymmetry
INVARIANTS
  AtMostOneCall
  StoredAnswerIsTheCalls
  ReturnsAgree
PROPERTY
  FilesAreFinal

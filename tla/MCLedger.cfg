SPECIFICATION MCSpec
CONSTANTS
  Writer = {r1, r2}
  Helper = r2
  MaxRow = 4
  MaxKey = 6
  MaxEdit = 1
  Day = {1, 2}
  Step = 2
  Limit = 1
  Editor = {q1, q2}
  MaxCat = 2
  MaxEntry = 2
  Flow = {"in", "out"}
  Major = {"A", "B"}
  Minor = {"m"}
  Ref = {"ref"}
  Null = Null
  Client = {q1, q2}
  Importer = {}
  Field <- TxField
  OwnerField <- OwnerOnly
  Value = {0, 1}
  NoOne = NoOne
  ValidRow <- TxValidRow
  MaxVersion = 4
SYMMETRY MCSymmetry
INVARIANTS ReadsEachOnce FlowAgrees RefAnsweredOnce
PROPERTIES LandsBesideAnchor OrderIsKept 
CHECK_DEADLOCK FALSE

SPECIFICATION MCSpec
CONSTANTS
  Content = {c1, c2}
  Cell <- MCCell
  MaxTx = 4
  MaxHolding = 4
  MaxSheet = 3
  MaxImport = 2
  MaxChange = 1
  Nil = Nil
  SourceDay = {1, 2}
  MaxSource = 2
  SourceRefs = {"r"}
  Category = {"food"}
  Others = "others"
  Account = {"acc"}
  OwnerName = {"Kim", "kim"}
  Person = {p1, p2}
  OwnerKey <- MCOwnerKey
  MaxNewcomer = 2
  OrderStep = 2
  Nobody = Nobody
  MaxLine = 5
  Shown = {a, b}
  MaxImage = 2
  MaxShown = 2
  Reviewer = {q1, q2}
  Client = {q1, q2}
  Importer = {i1}
  Field <- HoldingField
  OwnerField <- OwnerOnly
  Value = {0, 1}
  NoOne = NoOne
  ValidRow <- AnyRow
  MaxVersion = 3
SYMMETRY MCSymmetry
INVARIANTS ImportedOnce RowsStayTogether IncludedIsEntered LogExplainsVersions
PROPERTIES HoldingsFollowSheet 
CHECK_DEADLOCK FALSE

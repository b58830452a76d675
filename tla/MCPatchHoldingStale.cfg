SPECIFICATION Spec
CONSTANTS
  Client = {c1, c2}
  Importer = {i1}
  Field <- HoldingField
  OwnerField <- OwnerOnly
  Value = {0, 1}
  NoOne = NoOne
  ValidRow <- AnyRow
  MaxVersion = 3
SYMMETRY ClientSymmetry
PROPERTIES StalePatchFailsClosed
CHECK_DEADLOCK FALSE

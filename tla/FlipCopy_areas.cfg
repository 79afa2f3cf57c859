CONSTANTS
  DispW = 2
  DispH = 3
  Sizes <- SomeSizes
SPECIFICATION Spec
INVARIANTS
  InsideMapping
  Mirrored

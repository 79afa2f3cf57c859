CONSTANT
  Faults = {"clone", "checkout", "kill"}
SPECIFICATION Spec
INVARIANTS
  CompleteMeansPresent
PROPERTIES
  FetchedLayersStay

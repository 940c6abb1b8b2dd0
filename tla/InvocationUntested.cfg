CONSTANTS
  MaxSignals <- TwoSignals
SPECIFICATION Spec
INVARIANTS
  CompletedMeansChecked

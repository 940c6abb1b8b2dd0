CONSTANTS
  MaxSignals <- TwoSignals
SPECIFICATION Spec
INVARIANTS
  VerdictNamesTheBlocker
  ExitTellsTheTruth

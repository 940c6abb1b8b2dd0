SPECIFICATION FairSpec
CONSTANTS
  Plans <- AllPlans
  MaxConcurrency = 2
INVARIANTS
  StreamIsTheReport
  ReserveProtectsActual
  FailClosed
PROPERTIES
  BudgetIsNotFailure
  DiagnosisReturns

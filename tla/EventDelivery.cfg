SPECIFICATION ProducerSpec
CONSTANTS
  Capacity = 2
  MinEvents = 2
  MaxEvents = 5
INVARIANTS
  CompleteDrainIsExact
PROPERTIES
  PromiseSpec
  BothSidesEnd

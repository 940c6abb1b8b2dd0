SPECIFICATION FairSpec
CONSTANTS
  Scopes = {s1, s2}
  Uses <- ContendUses
  Observers = {}
  Shutdowns = {"parent"}
  Callers = {gui}
  GUI = gui
  Watcher = watcher
  MaxReads = 1
  MaxID = 2
INVARIANTS
  MutationsInOrder
  ScopesCloseWithRunner
PROPERTIES
  RunnerDrains

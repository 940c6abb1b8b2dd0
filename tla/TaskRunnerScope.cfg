SPECIFICATION Spec
CONSTANTS
  Scopes = {s1}
  Uses <- AllUses
  Observers = {s1}
  Shutdowns = {"close"}
  Callers = {gui}
  GUI = gui
  Watcher = watcher
  MaxReads = 1
  MaxID = 2
INVARIANTS
  OneLiveOperation
  ObserverCatchesUp
PROPERTIES
  TerminalIsFinal
  NothingStartsAfterClose
  LateTransitionsSuppressed

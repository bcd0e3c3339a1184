CONSTANTS
  None = None
  Resident = Resident
  Watcher = Watcher
  Module = {m1}
  MaxFails = 2
  Sup = {s1, s2}
  Goroutine = {g1}
SPECIFICATION Spec
INVARIANTS OneAtATime NothingForgotten
PROPERTIES ImplementsLifecycle
SYMMETRY Symmetry
CHECK_DEADLOCK FALSE

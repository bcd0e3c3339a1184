CONSTANTS
  Addr = {a1}
  PortRule = port
  Handler = {h1, h2}
  Watcher = {watch}
  BanTicks = 1
  TableLimit = 1
  MaxRules = 2
  Windows = FALSE
SPECIFICATION Spec
INVARIANTS BanBounded OnlyOwnEffects
SYMMETRY Symmetry

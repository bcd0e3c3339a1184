CONSTANTS
  Handler = {h1}
  Watcher = watch
  Typed = {strict, off}
  Unsafe = {off}
  Setting = {s1, s2}
  Normal = normal
  Half = half
  None = none
  MaxChanges = 4
SPECIFICATION FairSpec
INVARIANTS AgreeUnlessRaced
PROPERTIES Settles
CHECK_DEADLOCK FALSE

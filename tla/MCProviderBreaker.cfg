CONSTANTS
  Provider = {p1}
  Cloud = {p1}
  Custom = {}
  Bare = {}
  Caller = {c1, c2}
  Prober = {admin}
  Threshold = 2
  OpenTicks = 1
SPECIFICATION AttendedSpec
INVARIANTS OneTrialPerCoolDown
PROPERTIES OpensAfterThreshold CloudRecovers

CONSTANTS
  Provider = {p1}
  Cloud = {p1}
  Custom = {}
  Bare = {}
  Caller = {c1}
  Prober = {}
  Threshold = 2
  OpenTicks = 1
SPECIFICATION BusySpec
PROPERTIES SelfRecovers

CONSTANTS
  Parts = {"limit", "tenants"}
  Threshold = 3
  Pause = 2
  Life = 2
  Issuer = {"i", "j"}
  State = {"s", "t"}
  StateLife = 1
  SessionLife = 1
  CacheLife = 1
  Version = {1, 2}
  Old = 0
  Job = {"j", "k"}
  MaxHistory = 3
  Candidate = {"a", "b", "c"}
  Ttl = 2
  Caller = {"a", "b"}
  Proc = {"p", "q", "r"}
  MaxRestart = 1
  Kind = {"k", "l"}
  Enforced = {"k"}
  Value = {"v", "w"}
  Addr = {"a"}
  Client = {"u"}
  Class = {"chat"}
  Server = {"h"}
  Rate = {1, 2}
  MaxQuota = 2
  Minute = 2
  SweepAge = 2
  Crowd = 1
  Tenant = {"ta", "tb"}
  Group = {"g"}
  UserTables <- SmallUserTables
  TenantCfgs <- SmallTenantCfgs
  MaxCost = 2
  LastDay = 2
  Unreadable = Unreadable
  Handler = {h1, h2}
  User = {"u1", "u2"}
  Member = {"u"}
  Admin = {}
  MemKey = {"k", "l", "m"}
  Text = {"t"}
  PerNS = {1, 2}
  MaxKeys = {3}
  MaxWrites = 3
  Serving = {"h", "k"}
  Background = {"w"}
  Stores <- SmallStores
SPECIFICATION Spec
INVARIANTS RateBounded OvershootBounded FileCurrent PlacedUnlessMixed
SYMMETRY Symmetry

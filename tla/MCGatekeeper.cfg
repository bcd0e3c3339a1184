CONSTANTS
  u1 = u1
  u2 = u2
  c1 = c1
  c2 = c2
  t1 = t1
  t2 = t2
  look = look
  guarded = guarded
  forbidden = forbidden
  NoToken = NoToken
  NoCall = NoCall
  User = {u1, u2}
  Request = {look, guarded, forbidden}
  Client = {c1, c2}
  Token = {t1, t2}
  Builtin <- MCBuiltin
  RuleLists <- MCRuleLists
  TTL = 1
  RateTicks = 1
  MaxPerMin = 1
  MaxPending = 1
SPECIFICATION Spec
INVARIANTS GateHolds PendingBounded
PROPERTIES ImplementsTwoPhase
SYMMETRY Symmetry

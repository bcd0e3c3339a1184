------------------------------ MODULE Tenancy ------------------------------
(***************************************************************************)
(* Tenants, their users and their daily quotas (tenant.go), with the chat  *)
(* handlers that spend them (main.go, chat.go).                            *)
(*                                                                         *)
(* A reload brings a table of users and a list of tenants.  Each is        *)
(* checked and, if it is refused, replaced by its last good version, the   *)
(* two independently of each other and in critical sections of their own.  *)
(* A request is identified, checked against the quotas, served, and only   *)
(* then charged; the usage is copied under quotaMu and written to the file *)
(* outside of it.                                                          *)
(***************************************************************************)
EXTENDS Integers, FiniteSets, Functions

CONSTANTS
  Handler,    \* HTTP handler goroutines
  User,       \* names in cfg.Users
  Tenant,     \* tenant identifiers
  Group,      \* group identifiers
  UserTables, \* the tables of users that config.json may hold
  TenantCfgs, \* the lists of tenants that it may hold
  MaxCost,    \* the most tokens that one call is charged
  LastDay,    \* the last day of a run (a bound)
  Nothing     \* no file, or one that is not JSON

\* A table gives its users a tenant and groups of it.  A list has a cap and
\* gives its tenants their quotas: of the tenant, of each user, of each group.
Entry == [tenant : Tenant, groups : SUBSET Group]
Quota == [tenant : Nat, user : Nat, group : Nat, groups : SUBSET Group]

ConfigAssumption ==
  /\ \A us \in UserTables : \E U \in SUBSET User : us \in [U -> Entry]
  /\ \A tc \in TenantCfgs :
       /\ tc.cap \in Nat
       /\ \E T \in SUBSET Tenant : tc.list \in [T -> Quota]
BoundAssumption ==
  MaxCost \in Nat \ {0} /\ LastDay \in Nat \ {0} /\ IsFiniteSet(Handler)

Day == 1..LastDay

\* quotaKey without its day: a tenant and a scope of it.
Key == Tenant \X ({"tenant"} \cup User \cup Group)

VARIABLES
  users,      \* cfg.Users
  tenants,    \* tenantsRT
  lastValid,  \* lastValidUsers
  loader,     \* what the goroutine that reloads is doing
  today,      \* the clock
  used,       \* quotaUsed; a key that is absent counts 0
  file,       \* data/quota-usage.json
  actor,      \* what each handler is doing
  spoilt,     \* history: a copy was taken while another was being written, or one
              \* could not be written
  mixed       \* history: the users and the tenants in force never met

vars == <<users, tenants, lastValid, loader, today, used, file, actor, spoilt,
          mixed>>
configVars == <<users, tenants, lastValid, loader, mixed>>
quotaVars == <<today, used, file, spoilt>>

NoUsers == [u \in {} |-> Nothing]
Zero == [k \in Key |-> 0]
Idle == [at |-> "idle"]
Ready == [at |-> "ready"]

Who == Entry \cup {Nothing}
Usage == [Key -> Nat]
Copy == [day : Day, usage : Usage]

FileAssumption == Nothing \notin Copy

Doing ==
       [at : {"check"}, user : User, who : Entry, day : Day]
  \cup [at : {"call"}, user : User, who : Who]
  \cup [at : {"charge"}, user : User, who : Entry, day : Day, cost : 1..MaxCost]
  \cup [at : {"copy"}]
  \cup [at : {"open", "write"}, copy : Copy]

TypeOK ==
  /\ users \in UserTables \cup {NoUsers}
  /\ tenants \in TenantCfgs
  /\ lastValid \in UserTables \cup {NoUsers}
  /\ loader \in {Ready}
       \cup [at : {"users", "tenants"}, users : UserTables, tenants : TenantCfgs]
  /\ today \in Day
  /\ used \in [Day -> Usage]
  /\ file \in Copy \cup {Nothing}
  /\ actor \in [Handler -> Doing \cup {Idle}]
  /\ spoilt \in BOOLEAN
  /\ mixed \in BOOLEAN

-----------------------------------------------------------------------------
(* Loading the configuration. *)

Known(tc) == DOMAIN tc.list
Total(tc) == FoldFunction(+, 0, [t \in Known(tc) |-> tc.list[t].tenant])

\* What validateUsersTenancy asks: users belong to tenants of the list, and to groups
\* of their tenant.
Placed(us, tc) ==
  \A u \in DOMAIN us :
    /\ Known(tc) # {} => us[u].tenant \in Known(tc)
    /\ us[u].tenant \in Known(tc) => us[u].groups \subseteq tc.list[us[u].tenant].groups

FaultFits(us, tc) == Placed(us, tenants)

\* applyTenantsFromLoad asks it of the list that came with the users.
Fits(us, tc) == Placed(us, tc)

\* validateTenantsCfg: no quota within a tenant exceeds its own, and all of
\* them together keep within the cap.
Valid(tc) ==
  /\ \A t \in Known(tc) : tc.list[t].tenant > 0 =>
       tc.list[t].user <= tc.list[t].tenant /\ tc.list[t].group <= tc.list[t].tenant
  /\ tc.cap > 0 => Total(tc) <= tc.cap

\* cascadeClampTenants
Clamped(tc) ==
  IF tc.cap = 0 \/ Total(tc) <= tc.cap THEN tc
  ELSE [tc EXCEPT !.list = [t \in Known(tc) |->
         [tc.list[t] EXCEPT !.tenant = (@ * tc.cap) \div Total(tc)]]]

\* loadConfig has parsed the file: the users in force are those of the file.
Load(us, tc) ==
  /\ loader = Ready
  /\ users' = us
  /\ loader' = [at |-> "users", users |-> us, tenants |-> tc]
  /\ UNCHANGED <<tenants, lastValid, mixed, quotaVars, actor>>

\* applyTenantsFromLoad looks at the users, against the tenants of the file.
CheckUsers ==
  /\ loader.at = "users"
  /\ LET fit == Fits(loader.users, loader.tenants) IN
     /\ users' = IF fit THEN users ELSE lastValid
     /\ lastValid' = IF fit /\ loader.users # NoUsers THEN loader.users ELSE lastValid
     /\ loader' = [loader EXCEPT !.at = "tenants"]
  /\ UNCHANGED <<tenants, mixed, quotaVars, actor>>

\* applyTenantsConfig and cascadeClampTenants
ApplyTenants ==
  /\ loader.at = "tenants"
  /\ LET valid == Valid(loader.tenants)
         fit == Fits(loader.users, loader.tenants)
     IN
     /\ tenants' = Clamped(IF valid THEN loader.tenants ELSE tenants)
     /\ mixed' = IF valid /\ fit
                 THEN loader.users = NoUsers /\ lastValid # NoUsers
                 ELSE mixed \/ valid \/ fit
  /\ loader' = Ready
  /\ UNCHANGED <<users, lastValid, quotaVars, actor>>

-----------------------------------------------------------------------------
(* Requests. *)

Goto(h, do) == actor' = [actor EXCEPT ![h] = do]

Keys(who, u) == {who.tenant} \X ({"tenant", u} \cup who.groups)

\* The limit that a tenant of the list sets for a key; 0 sets none.
Limit(tc, k) ==
  LET q == tc.list[k[1]] IN
  CASE k[2] = "tenant" -> q.tenant
    [] k[2] \in User -> q.user
    [] k[2] \in Group -> q.group

\* A tenant that is not listed, or has no quota of its own, is not limited.
Limited(tc, t) == t \in Known(tc) /\ tc.list[t].tenant > 0

FaultExhausted(who, u, day) ==
  /\ Limited(tenants, who.tenant)
  /\ \E k \in Keys(who, u) : Limit(tenants, k) > 0 /\ used[day][k] > Limit(tenants, k)

\* quotaCheck
Exhausted(who, u, day) ==
  /\ Limited(tenants, who.tenant)
  /\ \E k \in Keys(who, u) : Limit(tenants, k) > 0 /\ used[day][k] >= Limit(tenants, k)

Identity(u) == IF u \in DOMAIN users THEN users[u] ELSE Nothing

\* identityFromRequest, up to the reading of the clock in quotaCheck
Arrive(h, u) ==
  /\ actor[h] = Idle
  /\ Identity(u) # Nothing
  /\ Goto(h, [at |-> "check", user |-> u, who |-> Identity(u), day |-> today])
  /\ UNCHANGED <<configVars, quotaVars>>

\* handleChat identifies the user once more before the call.
Check(h) ==
  LET a == actor[h] IN
  /\ a.at = "check"
  /\ IF Exhausted(a.who, a.user, a.day) THEN Goto(h, Idle)
     ELSE Goto(h, [at |-> "call", user |-> a.user, who |-> Identity(a.user)])
  /\ UNCHANGED <<configVars, quotaVars>>

\* The call fails, is a call of a route that charges nothing, or cost nothing;
\* or its user or the user's tenant is unknown or unlimited by now.
Uncharged(h) ==
  /\ actor[h].at = "call"
  /\ Goto(h, Idle)
  /\ UNCHANGED <<configVars, quotaVars>>

\* quotaRecord up to the reading of the clock.  handleV1 identifies the user
\* only now, handleChat did before the call.
Answer(h) ==
  LET a == actor[h] IN
  /\ a.at = "call"
  /\ \E who \in {a.who, Identity(a.user)} \ {Nothing}, c \in 1..MaxCost :
       /\ Limited(tenants, who.tenant)
       /\ Goto(h, [at |-> "charge", user |-> a.user, who |-> who, day |-> today,
                   cost |-> c])
  /\ UNCHANGED <<configVars, quotaVars>>

\* The critical section of quotaRecord: what is not of the caller's day goes.
Charge(h) ==
  LET a == actor[h] IN
  /\ a.at = "charge"
  /\ used' = [d \in Day |-> [k \in Key |->
       IF d # a.day THEN 0
       ELSE used[d][k] + (IF k \in Keys(a.who, a.user) THEN a.cost ELSE 0)]]
  /\ Goto(h, [at |-> "copy"])
  /\ UNCHANGED <<configVars, today, file, spoilt>>

FaultCopied == [day |-> today, usage |-> used[1]]

Copied == [day |-> today, usage |-> used[today]]
Writing(h) == actor[h].at \in {"open", "write"}

\* The critical section of quotaPersist
TakeCopy(h) ==
  /\ actor[h].at = "copy"
  /\ Goto(h, [at |-> "open", copy |-> Copied])
  /\ spoilt' = (spoilt \/ \E g \in Handler \ {h} : Writing(g))
  /\ UNCHANGED <<configVars, today, used, file>>

\* os.WriteFile truncates the file and then writes it.
OpenFile(h) ==
  /\ actor[h].at = "open"
  /\ file' = Nothing
  /\ Goto(h, [actor[h] EXCEPT !.at = "write"])
  /\ UNCHANGED <<configVars, today, used, spoilt>>

\* Writers that met leave the text of the last, or a mixture of both.
WriteFile(h) ==
  /\ actor[h].at = "write"
  /\ file' \in {actor[h].copy} \cup (IF spoilt THEN {Nothing} ELSE {})
  /\ Goto(h, Idle)
  /\ UNCHANGED <<configVars, today, used, spoilt>>

\* The directory is missing, the file cannot be opened, the disk is full: nobody is told.
Unwritten(h) ==
  /\ Writing(h)
  /\ file' \in {file, Nothing}
  /\ Goto(h, Idle)
  /\ spoilt' = TRUE
  /\ UNCHANGED <<configVars, today, used>>

-----------------------------------------------------------------------------
(* The clock, the end of the process and its start. *)

Midnight ==
  /\ today < LastDay
  /\ today' = today + 1
  /\ UNCHANGED <<users, tenants, lastValid, loader, mixed, used, file, spoilt, actor>>

\* quotaLoad: a file of another day, or none, restores nothing.
Restored ==
  [d \in Day |-> IF file # Nothing /\ d = today /\ file.day = today
                 THEN file.usage ELSE Zero]

\* main loads the configuration before it serves anybody: one that passes.
Init ==
  /\ \E us \in UserTables, tc \in TenantCfgs :
       /\ Placed(us, tc) /\ Valid(tc)
       /\ users = us
       /\ tenants = tc
  /\ lastValid = users
  /\ loader = Ready
  /\ today = 1
  /\ used = [d \in Day |-> Zero]
  /\ file = Nothing
  /\ actor = [h \in Handler |-> Idle]
  /\ spoilt = FALSE
  /\ mixed = FALSE

Restart ==
  /\ \E us \in UserTables, tc \in TenantCfgs :
       /\ Placed(us, tc) /\ Valid(tc)
       /\ users' = us
       /\ tenants' = tc
  /\ lastValid' = users'
  /\ loader' = Ready
  /\ used' = Restored
  /\ actor' = [h \in Handler |-> Idle]
  /\ spoilt' = FALSE
  /\ mixed' = FALSE
  /\ UNCHANGED <<today, file>>

Request(h) ==
  \/ \E u \in User : Arrive(h, u)
  \/ Check(h) \/ Uncharged(h) \/ Answer(h)
  \/ Charge(h) \/ TakeCopy(h) \/ OpenFile(h) \/ WriteFile(h) \/ Unwritten(h)

Reload ==
  \/ \E us \in UserTables, tc \in TenantCfgs : Load(us, tc)
  \/ CheckUsers \/ ApplyTenants

Next == (\E h \in Handler : Request(h)) \/ Reload \/ Midnight \/ Restart

Spec == Init /\ [][Next]_vars

-----------------------------------------------------------------------------
(* Properties. *)

\* A key is steady if every list that may be in force limits it, and whoever
\* may be charged under it is checked under it as well.
Steady(k) ==
  /\ \A tc \in TenantCfgs : Limited(tc, k[1]) /\ Limit(tc, k) > 0
  /\ \A us, vs \in UserTables : \A u \in DOMAIN us \cap DOMAIN vs :
       k \in Keys(us[u], u) => k \in Keys(vs[u], u)

\* Calls are checked before and charged after (main.go:553, chat.go:236), so
\* that those under way can together overshoot a quota; but by less than what one
\* call may cost, for each handler, above one of the limits that the lists set.
OvershootBounded ==
  \A k \in Key : Steady(k) => \E tc \in TenantCfgs :
    used[today][k] < Limit(tc, k) + MaxCost * Cardinality(Handler)

\* The usage a restart would find (tenant.go:604-629) is the usage in memory,
\* once every charge has been written, no two copies met (tenant.go:589), and no
\* writing failed (tenant.go:601).
FileCurrent ==
  (~spoilt /\ \A h \in Handler : actor[h] = Idle) => Restored[today] = used[today]

\* Between two reloads every user belongs to a tenant of the list in force
\* (tenant.go:362), unless one half of a reload was refused and the other not,
\* or an empty table came between.
PlacedUnlessMixed == (loader = Ready /\ ~mixed) => Placed(users, tenants)

\* The sentence of tenant.go:10, whatever the reloads bring.
AlwaysPlaced == loader = Ready => Placed(users, tenants)

\* "Only the present day is kept" (tenant.go:579): while a process runs, the
\* usage of a day does not go down.
DayKept ==
  [][today' = today /\ (\E h \in Handler : Charge(h))
       => \A k \in Key : used'[today][k] >= used[today][k]]_vars

=============================================================================

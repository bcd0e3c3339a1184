------------------------------ MODULE Services ------------------------------
(***************************************************************************)
(* Services of the gateway that share no state: the hardware probe, logins *)
(* through a provider, updates, leader election, the child processes of    *)
(* integrations, the white lists, the rate limiter, tenants and their      *)
(* quotas, the shared memory and the vault; and the locks that all of them *)
(* take.  A behaviour picks one of them at the start, so that their states *)
(* add up and do not multiply; their variables are the same ten here.      *)
(*                                                                         *)
(* Services_proofs proves about them for all values of their constants,    *)
(* which are constants of this module therefore.                           *)
(***************************************************************************)
EXTENDS Integers, TLC

CONSTANTS
  Parts,                                     \* the services that a run looks at
  Threshold, Pause, Life,                    \* of the probe, see Tier1
  Issuer, State, StateLife, SessionLife, CacheLife,  \* of logins, see OAuth
  Version, Old, Job, MaxHistory,             \* of updates, see Update
  Candidate, Ttl,                            \* of the election, see Coord
  Caller, Proc, MaxRestart,                  \* of integrations, see McpManager
  Kind, Enforced, Value,                     \* of the white lists, see Whitelist
  Addr, Client, Class, Rate, MaxQuota, Server, Minute, SweepAge, Crowd,  \* see RateLimit
  Tenant, Group, UserTables, TenantCfgs, MaxCost, LastDay, Unreadable,  \* see Tenancy
  User, Handler,                             \* of logins and tenants, see there
  Member, Admin, MemKey, Text, PerNS, MaxKeys, MaxWrites,  \* see SharedMemory
  Serving, Background,                       \* goroutines, see LockOrder
  Stores                                     \* the constants of Vault, by service

VARIABLES part, v1, v2, v3, v4, v5, v6, v7, v8, v9, v10

vars == <<part, v1, v2, v3, v4, v5, v6, v7, v8, v9, v10>>

Unused == "unused"

-----------------------------------------------------------------------------
Probe == INSTANCE Tier1 WITH
  breaker <- v1, pending <- v2, file <- v3, snap <- v4, seen <- v5, bad <- v6, gap <- v7

ProbeInit == part = "probe" /\ Probe!Init
ProbeNext == part = "probe" /\ Probe!Next /\ UNCHANGED part

Logins == INSTANCE OAuth WITH
  issuer <- v1, disco <- v2, jwks <- v3, state <- v4, session <- v5, handler <- v6, made <- v7

LoginInit == part = "login" /\ Logins!Init
LoginNext == part = "login" /\ Logins!Next /\ UNCHANGED part

Installer == INSTANCE Update WITH
  running <- v1, dir <- v2, tmp <- v3, pointer <- v4, history <- v5, job <- v6, overlap <- v7

UpdateInit == part = "update" /\ Installer!Init
UpdateNext == part = "update" /\ Installer!Next /\ UNCHANGED part

Election == INSTANCE Coord WITH
  store <- v1, lease <- v2, doing <- v3, term <- v4, clash <- v5

ElectionInit == part = "election" /\ Election!Init /\ v6 = Unused /\ v7 = Unused
ElectionNext == part = "election" /\ Election!Next /\ UNCHANGED <<part, v6, v7>>

Integration == INSTANCE McpManager WITH
  entry <- v1, proc <- v2, enabled <- v3, actor <- v4

IntegrationInit ==
  part = "integration" /\ Integration!Init /\ v5 = Unused /\ v6 = Unused /\ v7 = Unused
IntegrationNext ==
  part = "integration" /\ Integration!Next /\ UNCHANGED <<part, v5, v6, v7>>

Lists == INSTANCE Whitelist WITH
  up <- v1, memory <- v2, conf <- v3, base <- v4, saved <- v5, named <- v6, open <- v7

ListsInit == part = "lists" /\ Lists!Init
ListsNext == part = "lists" /\ Lists!Next /\ UNCHANGED part

Limiter == INSTANCE RateLimit WITH
  bucket <- v1, handler <- v2, meter <- v3,
  User <- Client, Handler <- Server, Quota <- Rate

LimitInit ==
  /\ part = "limit" /\ Limiter!Init
  /\ v4 = Unused /\ v5 = Unused /\ v6 = Unused /\ v7 = Unused

LimitNext == part = "limit" /\ Limiter!Next /\ UNCHANGED <<part, v4, v5, v6, v7>>

Tenants == INSTANCE Tenancy WITH
  users <- v1, tenants <- v2, lastValid <- v3, loader <- v4, today <- v5, used <- v6,
  file <- v7, actor <- v8, spoilt <- v9, mixed <- v10, Nothing <- Unreadable

TenantsInit == part = "tenants" /\ Tenants!Init
TenantsNext == part = "tenants" /\ Tenants!Next /\ UNCHANGED part

-----------------------------------------------------------------------------
Memory == INSTANCE SharedMemory WITH
  mem <- v1, clock <- v2, rev <- v3, file <- v4, unsaved <- v5,
  User <- Member, Keys <- MemKey, Total <- MaxKeys

MemoryInit == part = "memory" /\ Memory!Init /\ v6 = Unused /\ v7 = Unused
MemoryNext == part = "memory" /\ Memory!Next /\ UNCHANGED <<part, v6, v7>>

Locks == INSTANCE LockOrder WITH
  todo <- v1, writer <- v2, Handler <- Serving, Worker <- Background, None <- Unused

LocksInit ==
  /\ part = "locks" /\ Locks!Init
  /\ v3 = Unused /\ v4 = Unused /\ v5 = Unused /\ v6 = Unused /\ v7 = Unused
LocksNext == part = "locks" /\ Locks!Next /\ UNCHANGED <<part, v3, v4, v5, v6, v7>>

Store(s) == INSTANCE Vault WITH
  disk <- v1, vault <- v2, made <- v3, handler <- v4, blobs <- v5, misread <- v6, prot <- v7,
  Name <- Stores[s].names, Secret <- Stores[s].secrets, Bytes <- Stores[s].bytes,
  Handler <- Stores[s].handlers, MaxMade <- Stores[s].made, MaxBlobs <- Stores[s].blobs

StoreInit == \E s \in DOMAIN Stores : part = s /\ Store(s)!Init
StoreNext == \E s \in DOMAIN Stores : part = s /\ Store(s)!Next /\ UNCHANGED part

NamedParts ==
  {"probe", "login", "update", "election", "integration", "lists", "limit", "tenants",
   "memory", "locks"}

\* What the modules assume of their constants.
ASSUME ServicesAssumption ==
  /\ Probe!TimeAssumption
  /\ Logins!LifeAssumption
  /\ Installer!VersionAssumption /\ Installer!JobAssumption
  /\ Election!TtlAssumption
  /\ Integration!RestartAssumption
  /\ Lists!KindAssumption
  /\ Limiter!QuotaAssumption /\ Limiter!TimeAssumption
  /\ Tenants!ConfigAssumption /\ Tenants!BoundAssumption /\ Tenants!FileAssumption
  /\ Memory!LimitAssumption
  /\ Locks!NoneAssumption
  /\ \A s \in DOMAIN Stores : Store(s)!VaultAssumption
  /\ DOMAIN Stores \cap NamedParts = {}

-----------------------------------------------------------------------------
Init ==
  /\ part \in Parts
  /\ \/ TenantsInit
     \/ /\ v8 = Unused /\ v9 = Unused /\ v10 = Unused
        /\ \/ ProbeInit \/ LoginInit \/ UpdateInit \/ ElectionInit
           \/ IntegrationInit \/ ListsInit \/ LimitInit
           \/ MemoryInit \/ LocksInit \/ StoreInit

Next ==
  \/ TenantsNext
  \/ /\ UNCHANGED <<v8, v9, v10>>
     /\ \/ ProbeNext \/ LoginNext \/ UpdateNext \/ ElectionNext
        \/ IntegrationNext \/ ListsNext \/ LimitNext
        \/ MemoryNext \/ LocksNext \/ StoreNext

Spec == Init /\ [][Next]_vars

-----------------------------------------------------------------------------
(* The properties of the components, see there. *)

\* Each component keeps its types.
TypeOK ==
  /\ part = "probe" => Probe!TypeOK
  /\ part = "login" => Logins!TypeOK
  /\ part = "update" => Installer!TypeOK
  /\ part = "memory" => Memory!TypeOK
  /\ part = "election" => Election!TypeOK
  /\ part = "integration" => Integration!TypeOK
  /\ part = "lists" => Lists!TypeOK
  /\ part = "locks" => Locks!TypeOK
  /\ \A s \in DOMAIN Stores : part = s => Store(s)!TypeOK
  /\ part = "limit" => Limiter!TypeOK
  /\ part = "tenants" => Tenants!TypeOK

\* tier1.go: a failing command is started once a pause at most.
SpacedRuns ==
  [][part = "probe" => (Probe!Run /\ v4' = "running" => v6 < Threshold \/ v7 = Pause)]_vars

\* What there may be one of is one: a session of a login (oauth.go), a leader, until two
\* steps of two candidates clash (crownext/skylink/coord.go), a process of an integration,
\* which somebody holds (pkg/mcp/manager.go).
OneOfEach ==
  /\ part = "login" => Logins!OnePerLogin
  /\ part = "election" => Election!OneLeaderUnlessClash
  /\ part = "integration" => Integration!NoneLost

\* What is kept survives: the pointer and the history lead to whole versions
\* (pkg/update), readers find the same after a restart (sharedmemory.go), and what was
\* sealed or masked comes back (crownext/vault).
Durable ==
  /\ part = "update" => Installer!CurrentIsWhole
  /\ part = "memory" => Memory!KeptAcrossRestarts
  /\ \A s \in DOMAIN Stores : part = s => Store(s)!VaultKeeps

\* whitelist.go: every list in force has been named by an audit record.
AllNamed == part = "lists" => Lists!AllNamed

\* Goroutines block each other only behind one that asks for a lock it holds.
OnlyReentryBlocks == part = "locks" => Locks!OnlyReentryBlocks

\* ratelimit.go: no bucket gives more than a full one and the quota a minute.
RateBounded == part = "limit" => Limiter!RateBounded

\* tenant.go, main.go, chat.go: calls under way together overshoot a quota by no more
\* than what one call may cost, for each of them.
OvershootBounded == part = "tenants" => Tenants!OvershootBounded

\* tenant.go: a restart finds the usage that was in memory.
FileCurrent == part = "tenants" => Tenants!FileCurrent

\* tenant.go: users belong to tenants in force.
PlacedUnlessMixed == part = "tenants" => Tenants!PlacedUnlessMixed

-----------------------------------------------------------------------------
(* Small instances of the tables of users and the lists of tenants: a table  *)
(* with a user of each tenant and an empty one; lists that hold both tenants,*)
(* hold the first only, or give more than the cap and are refused.           *)

SmallUserTables ==
  { [u \in {} |-> Unreadable],
    "u1" :> [tenant |-> "ta", groups |-> {"g"}] @@ "u2" :> [tenant |-> "tb", groups |-> {}] }

SmallTenantCfgs ==
  LET a == [tenant |-> 2, user |-> 1, group |-> 1, groups |-> {"g"}]
      b == [tenant |-> 0, user |-> 1, group |-> 0, groups |-> {}]
  IN { [cap |-> 2, list |-> "ta" :> a],
       [cap |-> 2, list |-> "ta" :> a @@ "tb" :> b],
       [cap |-> 2, list |-> "ta" :> [a EXCEPT !.tenant = 3]] }

\* Two secrets under one name; two handlers for one secret; two values masked in turn.
SmallStores ==
  "secrets" :> [names |-> {"n"}, secrets |-> {"s", "t"}, bytes |-> {}, handlers |-> {"h"},
                made |-> 3, blobs |-> 2] @@
  "openers" :> [names |-> {"n"}, secrets |-> {"s"}, bytes |-> {}, handlers |-> {"h1", "h2"},
                made |-> 2, blobs |-> 1] @@
  "masks" :> [names |-> {}, secrets |-> {}, bytes |-> {"s", "t"}, handlers |-> {},
              made |-> 4, blobs |-> 0]

\* Handlers, jobs and requests may be exchanged for each other.
Symmetry == Permutations(Handler)
JobsAndRequests == Permutations(Job) \cup Permutations(Serving)

=============================================================================

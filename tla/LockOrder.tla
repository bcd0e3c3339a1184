------------------------------ MODULE LockOrder ------------------------------
(***************************************************************************)
(* The locks of the gateway.  Every component has a mutex of its own, the  *)
(* configuration (cfgMu) and the module switches (modMu) have              *)
(* sync.RWMutexes, and nearly everybody writes audit lines while holding   *)
(* one, which takes auditV2Mu and cfgMu again.  A goroutine is what it has *)
(* still to lock and unlock; the rest of the program is left out.          *)
(*                                                                         *)
(* A section that the code may skip is always gone through: having skipped *)
(* it and being past it are the same.  The locks of the provider registry  *)
(* and of the knowledge base are left out, because once main has loaded    *)
(* them nobody writes them, and so are locks under which no other is taken.*)
(***************************************************************************)
EXTENDS Integers, Sequences, FiniteSets

CONSTANTS
  Handler,   \* goroutines that serve requests
  Worker,    \* the watcher of the configuration and the periodic workers
  None

VARIABLES
  todo,      \* goroutine -> what it has still to lock and unlock
  writer     \* lock -> who has locked it, or waits for its readers to leave

vars == <<todo, writer>>

Goroutine == Handler \cup Worker

NoneAssumption == None \notin Goroutine

-----------------------------------------------------------------------------
(* Sections. *)

Step(do, lock) == <<[do |-> do, lock |-> lock]>>

\* lock.RLock() ... lock.RUnlock()
Reading(lock, body) == Step("rlock", lock) \o body \o Step("runlock", lock)

\* lock.Lock() ... lock.Unlock()
Locking(lock, body) == Step("lock", lock) \o body \o Step("unlock", lock)

Nothing == << >>

-----------------------------------------------------------------------------
(* What the functions lock: each is the set of its outermost sections, for   *)
(* between two of them a goroutine holds nothing, and may do anything else.  *)

\* auditLog reads a switch, and auditV2Write the retention when a day begins.
ReadConfig == Reading("cfgMu", Nothing)
WriteConfig == Locking("cfgMu", Nothing)
AuditEntry == Locking("auditV2Mu", ReadConfig)
Audited == ReadConfig \o AuditEntry
AuditLog == {ReadConfig, AuditEntry}

GatewayAPIKey == ReadConfig

\* The key is compared with those of the users, then with the gateway's own,
\* which gatewayAPIKey reads under the lock that is held already.
FaultIdentity == {Reading("cfgMu", GatewayAPIKey \o Audited)}
IdentityFromRequest == {Reading("cfgMu", GatewayAPIKey)}

\* The capabilities of each model of the configuration, with overrides that
\* are read under the lock that is held already.
ScanModelMatrix == {Reading("cfgMu", ReadConfig)}

ModuleEnabledByID == {Reading("modMu", Nothing)}

CapabilityRoute == ModuleEnabledByID \cup {ReadConfig} \cup AuditLog

SetModuleEnabled == {Locking("modMu", Audited)}
ApplyModulesFromConfig == {Locking("modMu", Audited)}

\* os-link that does not start is degraded in memory.
FirewallReconcile == {Locking("fwMu", ReadConfig), WriteConfig} \cup AuditLog

FirewallBanIP == {ReadConfig, Locking("banMu", ReadConfig)} \cup AuditLog
FirewallBanIPExtra == FirewallBanIP

\* Refused settings are audited after the lock is released.
HandleConfig == {WriteConfig} \cup AuditLog \cup ModuleEnabledByID \cup FirewallReconcile

\* The policy is generated from the settings when a first page asks for it.
GetCSPPolicy == {Reading("cspMu", Nothing), Locking("cspMu", ReadConfig)}

\* The bounds of the exploration rate.
RtPick == {Locking("rtMu", Reading("v3cfgMu", Nothing))}

HandleV34Meter == {Locking("meterMu", Locking("toolSlimMu", Nothing))} \cup AuditLog

SmSet == {Locking("sharedMemMu", Audited)}
SmDelete == SmSet
SiAdd == {Locking("sharedInfoMu", Audited)}

Tier1CacheLoad == Locking("tier1CacheMu", Reading("v3cfgMu", Nothing) \o Audited)
Tier1HardwareSnapshot ==
  {Locking("tier1SnapMu", Reading("v3cfgMu", Nothing) \o Tier1CacheLoad)}
Tier1CacheInvalidate == {Locking("tier1CacheMu", Audited)}

\* The rows of models that only the import knows: sbFused locks once more.
HandleScoreBoard == {Locking("sbMu", Audited), Locking("sbMu", Locking("sbMu", Nothing))}

StepResourceGuardian == {Locking("guardMu", Audited)}
IpRepTick == {Locking("ipRepMu", Audited)}

WlReconcile ==
  {Locking("wlMu", ReadConfig \o Audited \o WriteConfig \o Locking("v3cfgMu", Nothing))}

\* The entries of every kind, of both configurations.
WlRegistryView == {Locking("wlMu", ReadConfig \o Reading("v3cfgMu", Nothing))}

ApplyTenantsFromLoad == {ReadConfig, WriteConfig} \cup AuditLog

\* watchConfig, with loadConfig.
Reload ==
  {Locking("v3cfgMu", Nothing)} \cup ApplyModulesFromConfig \cup ApplyTenantsFromLoad \cup
  WlReconcile \cup AuditLog \cup Tier1CacheInvalidate \cup ModuleEnabledByID \cup
  FirewallReconcile

Sections(g) ==
  IF g \in Handler
  THEN UNION {IdentityFromRequest, ScanModelMatrix, CapabilityRoute, SetModuleEnabled,
              FirewallBanIP, FirewallBanIPExtra, HandleConfig, GetCSPPolicy, RtPick,
              HandleV34Meter, SmSet, SmDelete, SiAdd, Tier1HardwareSnapshot,
              HandleScoreBoard, WlRegistryView}
  ELSE UNION {StepResourceGuardian, IpRepTick, Reload}

Lock ==
  {"cfgMu", "modMu", "v3cfgMu", "auditV2Mu", "fwMu", "banMu", "sharedMemMu", "sharedInfoMu",
   "tier1CacheMu", "tier1SnapMu", "sbMu", "guardMu", "ipRepMu", "wlMu", "cspMu", "rtMu",
   "meterMu", "toolSlimMu"}

-----------------------------------------------------------------------------
(* What a goroutine holds is what it has still to release. *)

Ahead(g, do, lock) ==
  Cardinality({i \in DOMAIN todo[g] : todo[g][i] = [do |-> do, lock |-> lock]})

Reads(g, lock) == Ahead(g, "runlock", lock) > Ahead(g, "rlock", lock)
Writes(g, lock) == Ahead(g, "unlock", lock) > Ahead(g, "lock", lock)

At(g, do) == todo[g] # Nothing /\ Head(todo[g]).do = do
Wanted(g) == Head(todo[g]).lock

\* g waits for the readers to leave, and keeps everybody else out.
Announced(g) == writer[Wanted(g)] = g /\ ~Writes(g, Wanted(g))

TypeOK ==
  /\ todo \in [Goroutine -> Seq([do : {"rlock", "runlock", "lock", "unlock"}, lock : Lock])]
  /\ writer \in [Lock -> Goroutine \cup {None}]

Init ==
  /\ todo = [g \in Goroutine |-> Nothing]
  /\ writer = [lock \in Lock |-> None]

-----------------------------------------------------------------------------
(* sync.Mutex and sync.RWMutex: a writer that waits keeps new readers out.   *)

Proceed(g) == todo' = [todo EXCEPT ![g] = Tail(@)]

Begin(g) ==
  /\ todo[g] = Nothing
  /\ \E section \in Sections(g) : todo' = [todo EXCEPT ![g] = section]
  /\ UNCHANGED writer

RLock(g) ==
  /\ At(g, "rlock") /\ writer[Wanted(g)] = None
  /\ Proceed(g)
  /\ UNCHANGED writer

RUnlock(g) ==
  /\ At(g, "runlock")
  /\ Proceed(g)
  /\ UNCHANGED writer

\* The first half of Lock: other writers, and readers that come later, wait.
Announce(g) ==
  /\ At(g, "lock") /\ writer[Wanted(g)] = None
  /\ writer' = [writer EXCEPT ![Wanted(g)] = g]
  /\ UNCHANGED todo

\* The second half: the readers have left.
Acquire(g) ==
  /\ At(g, "lock") /\ Announced(g)
  /\ \A h \in Goroutine : ~Reads(h, Wanted(g))
  /\ Proceed(g)
  /\ UNCHANGED writer

Unlock(g) ==
  /\ At(g, "unlock")
  /\ Proceed(g)
  /\ writer' = [writer EXCEPT ![Wanted(g)] = None]

Next ==
  \E g \in Goroutine :
    Begin(g) \/ RLock(g) \/ RUnlock(g) \/ Announce(g) \/ Acquire(g) \/ Unlock(g)

Spec == Init /\ [][Next]_vars

-----------------------------------------------------------------------------
\* g cannot go on before h has released what g wants.
WaitsFor(g, h) ==
  \/ At(g, "rlock") /\ writer[Wanted(g)] = h
  \/ At(g, "lock") /\ ~Announced(g) /\ writer[Wanted(g)] = h
  \/ At(g, "lock") /\ Announced(g) /\ Reads(h, Wanted(g))

\* g asks for a lock that it holds.
Reenters(g) ==
  /\ At(g, "rlock") \/ At(g, "lock")
  /\ Reads(g, Wanted(g)) \/ Writes(g, Wanted(g))

\* Goroutines that wait for each other, and for ever: nobody outside can help.
Knot(S) == S # {} /\ \A g \in S : \E h \in S : WaitsFor(g, h)

\* Requests, changes of modules and settings, reloads and workers lock in any
\* order in time but never against each other: whoever is stuck for ever is
\* stuck behind a goroutine that asks for a lock it holds itself.  The lesson
\* of handlers.go:260-264 is that no section may call what takes a read lock
\* again; identityFromRequest, scanModelMatrix and handleScoreBoard do.
OnlyReentryBlocks ==
  \A S \in SUBSET Goroutine : Knot(S) => \E g \in S : Reenters(g)

\* What that lesson promises, which the three functions above break: a reader
\* that reads again blocks for ever behind a writer that came in between.
NobodyBlocks == \A S \in SUBSET Goroutine : ~Knot(S)

=============================================================================

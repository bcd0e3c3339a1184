----------------------------- MODULE ModuleHost -----------------------------
(***************************************************************************)
(* The module switches of modules.go and the background workers that       *)
(* follow them.  modStates says which modules are on; a copy of it is kept *)
(* in cfg.Modules, to be saved.  Whoever changes the switches is expected  *)
(* to call reconcileModuleWorkers afterwards, which goes through the       *)
(* modules that have a worker and starts afresh or stops each.             *)
(*                                                                         *)
(* modMu guards the switches and workersMu the table of workers; nothing   *)
(* guards a reconciliation as a whole, so any number of them, from HTTP    *)
(* handlers and from the configuration watcher, may be under way at once.  *)
(* cfg.Modules is at times the very map modStates is, and is then written  *)
(* under another lock.                                                     *)
(***************************************************************************)
EXTENDS Naturals, Sequences, FiniteSets, Functions

CONSTANTS
  Module,       \* the ids of moduleRegistry
  Deps,         \* Module.Deps, as sets
  WorkerSeq,    \* the modules with HasWorker, in the order of the registry
  OneShot,      \* the workers that come to an end by themselves (autoStartModel)
  Persona,      \* what applyPersona and the demo set: sets to switch on and off
  Handler,      \* HTTP handler goroutines
  Watcher,      \* the goroutines that run watchConfig (one)
  Worker,       \* worker goroutines (the bound of a run)
  None

HasWorker == Range(WorkerSeq)
Actor == Handler \cup Watcher

ASSUME RegistryAssumption ==
  /\ Deps \in [Module -> SUBSET Module]
  /\ \A m \in Module : \A d \in Deps[m] : Deps[d] = {}
  /\ WorkerSeq \in Seq(Module)
  /\ \A i, j \in DOMAIN WorkerSeq : WorkerSeq[i] = WorkerSeq[j] => i = j
  /\ OneShot \subseteq Module
  /\ Persona \subseteq [set : SUBSET Module, clear : SUBSET Module]
ASSUME NoneAssumption == None \notin Worker \cup Module

VARIABLES
  on,        \* modStates: the modules that are on
  conf,      \* cfg.Modules
  shared,    \* cfg.Modules and modStates are the same map
  actor,     \* what each handler and the watcher is doing
  table,     \* moduleWorkers: the worker of each module
  runs,      \* the module each goroutine works for, until its context is cancelled
  due,       \* history: switched since a reconciliation last read their switch
  clash,     \* history: reconciled by two at once at some moment
  touched    \* history: modStates was written in place since it was last closed

vars == <<on, conf, shared, actor, table, runs, due, clash, touched>>

Idle == [at |-> "idle"]
Doing ==
       [at : {"loaded", "reverted"}]
  \cup [at : {"post"}, snap : SUBSET Module, align : BOOLEAN]
  \cup [at : {"next", "start"}, i : DOMAIN WorkerSeq]
  \cup [at : {"stop"}, i : DOMAIN WorkerSeq, start : BOOLEAN]

TypeOK ==
  /\ on \subseteq Module
  /\ conf \subseteq Module
  /\ shared \in BOOLEAN
  /\ actor \in [Actor -> Doing \cup {Idle}]
  /\ table \in [HasWorker -> Worker \cup {None}]
  /\ runs \in [Worker -> HasWorker \cup {None}]
  /\ due \subseteq HasWorker
  /\ clash \subseteq HasWorker
  /\ touched \in BOOLEAN

-----------------------------------------------------------------------------
(* Dependencies.  No module of the registry that others depend on depends on *)
(* one itself, and each comes after those it depends on.                     *)

\* What setModuleEnabled and closeDeps make of a set of modules to have on.
WithDeps(S) == S \cup UNION {Deps[m] : m \in S}

\* What the loop of applyModulesFromConfig makes of the configured switches:
\* a module whose dependency is off is off.
Met(S) == {m \in S : Deps[m] \subseteq S}

Closed(S) == \A m \in S : Deps[m] \subseteq S

\* setModuleEnabled refuses to switch off what another module needs.
FaultNeeded(m) == FALSE
Needed(m) == \E n \in on \ {m} : m \in Deps[n]

-----------------------------------------------------------------------------
(* Switching. *)

Goto(a, do) == actor' = [actor EXCEPT ![a] = do]

Over(i) == i > Len(WorkerSeq)

\* reconcileModuleWorkers comes to the i-th module that has a worker.
Visit(a, i) == Goto(a, IF Over(i) THEN Idle ELSE [at |-> "next", i |-> i])

\* modStates is replaced by a new map, made by one of the closures.
SwitchTo(S) ==
  /\ on' = S
  /\ due' = due \cup (HasWorker \cap ((on \ S) \cup (S \ on)))

\* cfg.Modules is written in place.
WriteThrough(S) ==
  /\ conf' = S
  /\ IF shared THEN SwitchTo(S) /\ touched' = (touched \/ S # on)
               ELSE UNCHANGED <<on, due, touched>>
  /\ UNCHANGED shared

\* setModuleEnabled, from POST /api/admin/modules and from the suggestions of
\* adapt.go: modStates and cfg.Modules become one new map.
Toggle(a, m, b) ==
  LET next == IF b THEN WithDeps(on \cup {m}) ELSE on \ {m} IN
  /\ actor[a] = Idle
  /\ b \/ ~Needed(m)
  /\ SwitchTo(next)
  /\ conf' = next
  /\ shared' = TRUE
  /\ touched' = (touched /\ ~b)
  /\ Visit(a, 1)
  /\ UNCHANGED <<table, runs, clash>>

\* applyModuleStates(closeDeps(S)): a profile of adapt.go.
Profile(a, S) ==
  /\ actor[a] = Idle
  /\ SwitchTo(WithDeps(S))
  /\ conf' = WithDeps(S)
  /\ shared' = FALSE
  /\ touched' = FALSE
  /\ Visit(a, 1)
  /\ UNCHANGED <<table, runs, clash>>

\* Nobody is between the two halves of a POST, which hold cfgMu.
CfgMuFree == \A b \in Actor : actor[b].at # "post"

\* applyPersona and handleOnboardingDemo write cfg.Modules and leave it to the
\* watcher to notice the file they save.
ApplyPersona(a, p) ==
  /\ actor[a] = Idle
  /\ CfgMuFree
  /\ WriteThrough((conf \cup p.set) \ p.clear)
  /\ UNCHANGED <<actor, table, runs, clash>>

\* handleConfig and tars_config_set: marshal cfg, change a setting, and
\* unmarshal all of it, the module switches too, into cfg, under cfgMu.  Only
\* handleConfig reconciles.
PostRead(a, align) ==
  /\ actor[a] = Idle
  /\ CfgMuFree
  /\ Goto(a, [at |-> "post", snap |-> conf, align |-> align])
  /\ UNCHANGED <<on, conf, shared, table, runs, due, clash, touched>>

PostWrite(a) ==
  /\ actor[a].at = "post"
  /\ WriteThrough(actor[a].snap)
  /\ IF actor[a].align THEN Visit(a, 1) ELSE Goto(a, Idle)
  /\ UNCHANGED <<table, runs, clash>>

\* loadConfig, by the watcher or by revertConfig: cfg becomes what the file
\* says, and later the switches follow it.  Only the watcher reconciles.
Load(a, S) ==
  /\ actor[a] = Idle
  /\ conf' = S
  /\ shared' = FALSE
  /\ Goto(a, [at |-> IF a \in Watcher THEN "loaded" ELSE "reverted"])
  /\ UNCHANGED <<on, table, runs, due, clash, touched>>

ApplyModules(a) ==
  /\ actor[a].at \in {"loaded", "reverted"}
  /\ SwitchTo(Met(conf))
  /\ conf' = Met(conf)
  /\ shared' = FALSE
  /\ touched' = FALSE
  /\ IF actor[a].at = "loaded" THEN Visit(a, 1) ELSE Goto(a, Idle)
  /\ UNCHANGED <<table, runs, clash>>

-----------------------------------------------------------------------------
(* reconcileModuleWorkers, one module at a time. *)

At(a, m) == actor[a].at \in {"stop", "start"} /\ WorkerSeq[actor[a].i] = m

\* moduleEnabledByID.
ReadSwitch(a) ==
  LET m == WorkerSeq[actor[a].i] IN
  /\ actor[a].at = "next"
  /\ Goto(a, [at |-> "stop", i |-> actor[a].i, start |-> m \in on])
  /\ due' = due \ {m}
  /\ clash' = IF \E b \in Actor \ {a} : At(b, m) THEN clash \cup {m} ELSE clash
  /\ UNCHANGED <<on, conf, shared, table, runs, touched>>

FaultForget(m) == runs
Cancelled(m) == [w \in Worker |-> IF w = table[m] THEN None ELSE runs[w]]

\* stopModuleWorker: take the worker out of the table and cancel its context.
\* It waits for the goroutine to return, but at most three seconds.
StopWorker(a) ==
  LET m == WorkerSeq[actor[a].i] IN
  /\ actor[a].at = "stop"
  /\ table' = [table EXCEPT ![m] = None]
  /\ runs' = Cancelled(m)
  /\ IF actor[a].start THEN Goto(a, [at |-> "start", i |-> actor[a].i])
                       ELSE Visit(a, actor[a].i + 1)
  /\ UNCHANGED <<on, conf, shared, due, clash, touched>>

Free(w) == runs[w] = None /\ w \notin Range(table)

\* The rest of startModuleWorker: put a new worker into the table, over
\* whatever is there by now.
StartWorker(a, w) ==
  LET m == WorkerSeq[actor[a].i] IN
  /\ actor[a].at = "start"
  /\ Free(w)
  /\ table' = [table EXCEPT ![m] = w]
  /\ runs' = [runs EXCEPT ![w] = m]
  /\ Visit(a, actor[a].i + 1)
  /\ UNCHANGED <<on, conf, shared, due, clash, touched>>

\* A worker comes to its end; the table keeps it.
Ends(w) ==
  /\ runs[w] \in OneShot
  /\ runs' = [runs EXCEPT ![w] = None]
  /\ UNCHANGED <<on, conf, shared, actor, table, due, clash, touched>>

\* The start of main: the configuration is loaded and the workers are aligned
\* before the first request and before the watcher starts.
Init ==
  /\ on \in {Met(S) : S \in SUBSET Module}
  /\ conf = on
  /\ shared = FALSE
  /\ actor = [a \in Actor |-> Idle]
  /\ table \in [HasWorker -> Worker \cup {None}]
  /\ \A m, n \in HasWorker : m # n /\ table[m] # None => table[m] # table[n]
  /\ \A m \in HasWorker : m \in on <=> table[m] # None
  /\ runs = [w \in Worker |->
       IF \E m \in HasWorker : table[m] = w
       THEN CHOOSE m \in HasWorker : table[m] = w ELSE None]
  /\ due = {}
  /\ clash = {}
  /\ touched = FALSE

Handle(a) ==
  \/ \E m \in Module, b \in BOOLEAN : Toggle(a, m, b)
  \/ \E S \in SUBSET Module : Profile(a, S)
  \/ \E p \in Persona : ApplyPersona(a, p)
  \/ \E align \in BOOLEAN : PostRead(a, align)
  \/ PostWrite(a)

Step(a) ==
  \/ \E S \in SUBSET Module : Load(a, S)
  \/ ApplyModules(a)
  \/ ReadSwitch(a) \/ StopWorker(a)
  \/ \E w \in Worker : StartWorker(a, w)

Next ==
  \/ \E a \in Handler : Handle(a)
  \/ \E a \in Actor : Step(a)
  \/ \E w \in Worker : Ends(w)

Spec == Init /\ [][Next]_vars

-----------------------------------------------------------------------------
(* Properties. *)

\* A module that is on has its dependencies on (modules.go:20), whatever
\* switches, profiles and reloads race, as long as nobody wrote the shared map
\* in place behind setModuleEnabled's back.
DepsClosed == ~touched => Closed(on)

\* The goroutines that serve a module and that nobody has cancelled.
Live(m) == {w \in Worker : runs[w] = m}

\* Unless two reconciliations handled it at the same time, a module has no
\* goroutine the table does not know; and between reconciliations, once its
\* switch has been read since it changed, it has a worker iff it is on.
AlignedUnlessRaced ==
  \A m \in HasWorker \ clash :
    /\ Live(m) \subseteq {table[m]}
    /\ m \notin due /\ (\A a \in Actor : ~At(a, m)) => (m \in on <=> table[m] # None)

\* Switching back and forth leaks no goroutine (modules.go:23): every worker
\* that has not been cancelled is in the table, from where it can be.
NoLeak == \A m \in HasWorker : Live(m) \subseteq {table[m]}

\* A roll-back of the configuration aligns the workers (config.go:604): when
\* nothing is under way and the switches were not written in place, a module
\* that is off has no running worker.
AlignedAtRest ==
  (\A a \in Actor : actor[a] = Idle) /\ ~touched =>
    \A m \in HasWorker \ clash : m \notin on => Live(m) = {}

=============================================================================

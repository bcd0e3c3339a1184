----------------------------- MODULE SidecarHub -----------------------------
(***************************************************************************)
(* The host of plug-in modules of sidecarhub.go.  A scan reads the         *)
(* manifests in modules.d and, module by module, leaves alone what has not *)
(* changed, unloads what has, and loads what passes its checks: it enters  *)
(* a new supervisor in hubMods and lets it run.  A supervisor starts the   *)
(* module's process, waits until it answers, watches it, starts it again   *)
(* after a pause when it failed, and gives up after sidecarMaxFails.       *)
(*                                                                         *)
(* Scans come from the worker that the module switch sidecarHub starts,    *)
(* from the configuration watcher and from the reload handler.  hubMu is   *)
(* held for single looks at hubMods only, never for a whole scan, and an   *)
(* unload stops waiting for the old supervisor after a while.  Old and new *)
(* supervisors of a module share one socket path.                          *)
(***************************************************************************)
EXTENDS Integers, FiniteSets, TLC

CONSTANTS
  Module,      \* the ids of the manifests
  MaxFails,    \* sidecarMaxFails
  Sup,         \* supervisors (the bound of a run)
  Goroutine,   \* hub workers and reload handlers
  Watcher,     \* the goroutine of watchConfig
  Resident,    \* a hub worker whose scan is over and who waits for its context
  None

Actor == Goroutine \cup {Watcher}

ASSUME LimitAssumption == MaxFails \in Nat \ {0}
ASSUME NameAssumption ==
  /\ {None, Resident} \cap (Sup \cup Actor) = {}
  /\ None # Resident
  /\ Watcher \notin Goroutine

VARIABLES
  hubCtx,   \* the hub's context: "none", "live" or "dead" (cancelled)
  worker,   \* the hub worker whose context is live
  table,    \* hubMods: the supervisor of each module
  sup,      \* the supervisors
  sock,     \* whose process listens at each module's socket path
  actor,    \* what each scanning goroutine is doing
  raced     \* history: modules handled by two at once, or whose old supervisor
            \* was not waited for

vars == <<hubCtx, worker, table, sup, sock, actor, raced>>

\* What a reader can make of a manifest: there is none, or it cannot be read or
\* parsed; its change key is that of the module in the table; it is switched off
\* or fails a check; it is fit to be loaded.  The files, the pins and the
\* artifacts may have become any of these at every reading.
Manifest == {"unseen", "same", "refused", "fit"}

Unborn == [at |-> "unborn"]
\* mod: what it was made for; off: its context is cancelled, or it has returned;
\* fails: Fails, as long as it counts; alive: its live processes.
Supervisor ==
  [at : {"start", "await", "init", "watch", "stop", "sleep", "done"},
   mod : Module, off : BOOLEAN, fails : Nat, alive : Nat]

Idle == [at |-> "idle"]
\* todo: modules not visited yet; seen: those whose manifest was parsed; man:
\* the manifest in hand; wait: supervisors whose end is awaited; hub: the scan is
\* the hub worker's own.
Doing ==
       [at : {"pick"}, todo : SUBSET Module, seen : SUBSET Module, hub : BOOLEAN]
  \cup [at : {"unload"}, todo : SUBSET Module, seen : SUBSET Module, hub : BOOLEAN,
        mod : Module, man : {"refused", "fit"}]
  \cup [at : {"load"}, todo : SUBSET Module, seen : SUBSET Module, hub : BOOLEAN,
        mod : Module]
  \cup [at : {"reap"}, todo : SUBSET Module, seen : SUBSET Module, hub : BOOLEAN,
        mod : Module, man : {"refused", "fit"}, wait : Sup]
  \cup [at : {"sweep"}, gone : SUBSET Module, hub : BOOLEAN]
  \cup [at : {"swept"}, gone : SUBSET Module, hub : BOOLEAN, mod : Module, wait : Sup]
  \cup [at : {"reload"}, wait : SUBSET Sup]
  \cup [at : {"leave"}]

TypeOK ==
  /\ hubCtx \in {"none", "live", "dead"}
  /\ worker \in Goroutine \cup {Resident, None}
  /\ table \in [Module -> Sup \cup {None}]
  /\ sup \in [Sup -> Supervisor \cup {Unborn}]
  /\ sock \in [Module -> Sup \cup {None}]
  /\ actor \in [Actor -> Doing \cup {Idle}]
  /\ raced \subseteq Module

-----------------------------------------------------------------------------
Goto(a, do) == actor' = [actor EXCEPT ![a] = do]

Born(s) == sup[s] # Unborn
Over(s) == Born(s) /\ sup[s].at = "done"
Working(s) == Born(s) /\ sup[s].at # "done"

\* The modules that a goroutine is in the middle of changing.
Busy(do) ==
  CASE do.at \in {"unload", "load", "reap", "swept"} -> {do.mod}
    [] do.at = "reload" -> Module
    [] OTHER -> {}

\* Goroutine a turns to the modules S: whoever else is at one of them races it.
Meets(a, S) == {m \in S : \E b \in Actor \ {a} : m \in Busy(actor[b])}

\* The supervisors in the table.
Listed == {table[m] : m \in Module} \ {None}

\* supCancel, for a set of supervisors.
FaultCancelled(S) ==
  [s \in Sup |-> IF s \in S /\ Born(s) /\ sup[s].alive > 0
                 THEN [sup[s] EXCEPT !.off = TRUE] ELSE sup[s]]
Cancelled(S) ==
  [s \in Sup |-> IF s \in S /\ Born(s) THEN [sup[s] EXCEPT !.off = TRUE] ELSE sup[s]]

-----------------------------------------------------------------------------
(* The module switch, the watcher and the reload handler. *)

\* sidecarHubWorker begins: it notes its context and scans.
SwitchOn(a) ==
  /\ actor[a] = Idle
  /\ worker = None
  /\ hubCtx' = "live"
  /\ worker' = a
  /\ Goto(a, [at |-> "pick", todo |-> Module, seen |-> {}, hub |-> TRUE])
  /\ UNCHANGED <<table, sup, sock, raced>>

\* Its context is cancelled, and with it every supervisor's: they are children
\* of this context or of an earlier one.  hubCtx goes on pointing at it.
FaultSwitchOff ==
  /\ worker # None
  /\ hubCtx' = "dead"
  /\ worker' = None
  /\ sup' = Cancelled(Sup)
  /\ table' = [m \in Module |-> None]
  /\ UNCHANGED <<sock, actor, raced>>
SwitchOff ==
  /\ worker # None
  /\ hubCtx' = "dead"
  /\ worker' = None
  /\ sup' = Cancelled(Sup)
  /\ UNCHANGED <<table, sock, actor, raced>>

\* A worker that was still scanning cancels what it finds in the table when it
\* is through, and be it another worker's; it returns after a while.
Leave(a) ==
  /\ actor[a].at = "leave"
  /\ sup' = Cancelled(Listed)
  /\ Goto(a, Idle)
  /\ UNCHANGED <<hubCtx, worker, table, sock, raced>>

\* sidecarHotRescan, by the watcher: only a hub that never ran is left alone.
Rescan ==
  /\ actor[Watcher] = Idle
  /\ hubCtx # "none"
  /\ Goto(Watcher, [at |-> "pick", todo |-> Module, seen |-> {}, hub |-> FALSE])
  /\ UNCHANGED <<hubCtx, worker, table, sup, sock, raced>>

\* handleSidecarReload cancels all it finds in the table ...
Reload(a) ==
  /\ actor[a] = Idle
  /\ hubCtx # "none"
  /\ sup' = Cancelled(Listed)
  /\ Goto(a, [at |-> "reload", wait |-> Listed])
  /\ raced' = raced \cup Meets(a, Module)
  /\ UNCHANGED <<hubCtx, worker, table, sock>>

\* ... waits for each, but not for ever, empties the table and scans.
Reset(a) ==
  /\ actor[a].at = "reload"
  /\ table' = [m \in Module |-> None]
  /\ raced' = raced \cup {sup[s].mod : s \in {t \in actor[a].wait : ~Over(t)}}
  /\ Goto(a, [at |-> "pick", todo |-> Module, seen |-> {}, hub |-> FALSE])
  /\ UNCHANGED <<hubCtx, worker, sup, sock>>

-----------------------------------------------------------------------------
(* A scan. *)

\* What a goroutine does with the next module, when the last one is done.
Onward(do) == [at |-> "pick", todo |-> do.todo, seen |-> do.seen, hub |-> do.hub]

\* With nothing of the module left in the table, a fit manifest is loaded.
Judged(do, m, man) ==
  IF man = "refused" THEN Onward(do)
  ELSE [at |-> "load", todo |-> do.todo, seen |-> do.seen, hub |-> do.hub, mod |-> m]

\* sidecarScan reads the manifest of m, and compares its change key with that of
\* the module in the table.
Read(a, m, man) ==
  LET do == actor[a]
      next == [do EXCEPT !.todo = @ \ {m}, !.seen = @ \cup {m}]
  IN
  /\ do.at = "pick"
  /\ m \in do.todo
  /\ \/ /\ man = "unseen"
        /\ Goto(a, [do EXCEPT !.todo = @ \ {m}])
        /\ UNCHANGED raced
     \/ /\ man = "same" /\ table[m] # None
        /\ Goto(a, next)
        /\ UNCHANGED raced
     \/ /\ man \in {"refused", "fit"}
        /\ Goto(a, IF table[m] = None THEN Judged(next, m, man)
                   ELSE [at |-> "unload", todo |-> next.todo, seen |-> next.seen,
                         hub |-> do.hub, mod |-> m, man |-> man])
        /\ raced' = raced \cup Meets(a, {m})
  /\ UNCHANGED <<hubCtx, worker, table, sup, sock>>

\* sidecarUnload: take the entry out, if it is still there, and cancel it.
Unload(a) ==
  LET do == actor[a] m == do.mod IN
  /\ do.at = "unload"
  /\ IF table[m] = None
     THEN /\ Goto(a, Judged(do, do.mod, do.man))
          /\ UNCHANGED <<table, sup>>
     ELSE /\ table' = [table EXCEPT ![m] = None]
          /\ sup' = Cancelled({table[m]})
          /\ Goto(a, [at |-> "reap", todo |-> do.todo, seen |-> do.seen, hub |-> do.hub,
                      mod |-> m, man |-> do.man, wait |-> table[m]])
  /\ UNCHANGED <<hubCtx, worker, sock, raced>>

\* The wait for the old supervisor ends with it, or with sidecarStopGrace + 2s.
Waited(s) == IF Over(s) THEN {} ELSE {sup[s].mod}

Reap(a) ==
  LET do == actor[a] IN
  /\ do.at = "reap"
  /\ raced' = raced \cup Waited(do.wait)
  /\ Goto(a, Judged(do, do.mod, do.man))
  /\ UNCHANGED <<hubCtx, worker, table, sup, sock>>

\* A new supervisor's context is cancelled from the start if the hub's is.
FaultInherited == FALSE
Inherited == hubCtx = "dead"

\* The new entry overwrites whatever is there.
Load(a, s) ==
  LET do == actor[a] IN
  /\ do.at = "load"
  /\ ~Born(s)
  /\ table' = [table EXCEPT ![do.mod] = s]
  /\ sup' = [sup EXCEPT ![s] =
       [at |-> "start", mod |-> do.mod, off |-> Inherited, fails |-> 0, alive |-> 0]]
  /\ Goto(a, Onward(do))
  /\ UNCHANGED <<hubCtx, worker, sock, raced>>

\* All files are read: what is in the table and was not seen is to go.
Missing(a) ==
  LET do == actor[a] IN
  /\ do.at = "pick"
  /\ do.todo = {}
  /\ Goto(a, [at |-> "sweep", hub |-> do.hub,
              gone |-> {m \in Module \ do.seen : table[m] # None}])
  /\ UNCHANGED <<hubCtx, worker, table, sup, sock, raced>>

\* sidecarUnload of one of them.
Sweep(a, m) ==
  LET do == actor[a] IN
  /\ do.at = "sweep"
  /\ m \in do.gone
  /\ IF table[m] = None
     THEN /\ Goto(a, [do EXCEPT !.gone = @ \ {m}])
          /\ UNCHANGED <<table, sup, raced>>
     ELSE /\ table' = [table EXCEPT ![m] = None]
          /\ sup' = Cancelled({table[m]})
          /\ raced' = raced \cup Meets(a, {m})
          /\ Goto(a, [at |-> "swept", gone |-> do.gone \ {m}, hub |-> do.hub,
                      mod |-> m, wait |-> table[m]])
  /\ UNCHANGED <<hubCtx, worker, sock>>

Swept(a) ==
  LET do == actor[a] IN
  /\ do.at = "swept"
  /\ raced' = raced \cup Waited(do.wait)
  /\ Goto(a, [at |-> "sweep", gone |-> do.gone, hub |-> do.hub])
  /\ UNCHANGED <<hubCtx, worker, table, sup, sock>>

\* The scan is over.  A hub worker stays until its context is cancelled.
Finish(a) ==
  LET do == actor[a] IN
  /\ do.at = "sweep"
  /\ do.gone = {}
  /\ Goto(a, IF do.hub /\ worker # a THEN [at |-> "leave"] ELSE Idle)
  /\ worker' = IF do.hub /\ worker = a THEN Resident ELSE worker
  /\ UNCHANGED <<hubCtx, table, sup, sock, raced>>

-----------------------------------------------------------------------------
(* A supervisor. *)

Becomes(s, q) == sup' = [sup EXCEPT ![s] = q]

\* sidecarTeardown kills the process and removes the socket path, whosoever
\* listens there by now.
Torn(s) == [sock EXCEPT ![sup[s].mod] = None]
Killed(n) == IF n = 0 THEN 0 ELSE n - 1

\* A supervisor that returns, or gives up and tears down.
Ended(q) == [q EXCEPT !.at = "done", !.off = TRUE, !.fails = 0]
Disabled(q) == [Ended(q) EXCEPT !.alive = Killed(@)]

\* sidecarFailGate, with n failures more, then sidecarBackoffSleep.
TooMany(f) == f >= MaxFails
FaultAfterFailure(q, n) ==
  IF TooMany(q.fails + n) THEN Disabled(q) ELSE [q EXCEPT !.at = "sleep"]
AfterFailure(q, n) ==
  IF TooMany(q.fails + n) THEN Disabled(q) ELSE [q EXCEPT !.fails = @ + n, !.at = "sleep"]
GivesUp(s, n) == TooMany(sup[s].fails + n)

\* The top of sidecarSupervise: a cancelled supervisor returns.
Return(s) ==
  /\ sup[s].at = "start"
  /\ sup[s].off
  /\ Becomes(s, Ended(sup[s]))
  /\ UNCHANGED <<hubCtx, worker, table, sock, actor, raced>>

\* sidecarBringUp removes the stale socket and starts the process ...
Spawn(s) ==
  /\ sup[s].at = "start"
  /\ ~sup[s].off
  /\ Becomes(s, [sup[s] EXCEPT !.at = "await", !.alive = @ + 1])
  /\ sock' = Torn(s)
  /\ UNCHANGED <<hubCtx, worker, table, actor, raced>>

\* ... or cannot.
NoSpawn(s) ==
  /\ sup[s].at = "start"
  /\ ~sup[s].off
  /\ Becomes(s, AfterFailure(sup[s], 1))
  /\ sock' = Torn(s)
  /\ UNCHANGED <<hubCtx, worker, table, actor, raced>>

\* The process answers /health at the socket path: it must be its own.
Ready(s) ==
  /\ sup[s].at = "await"
  /\ sup[s].alive > 0
  /\ sock[sup[s].mod] = s
  /\ Becomes(s, [sup[s] EXCEPT !.at = "init"])
  /\ UNCHANGED <<hubCtx, worker, table, sock, actor, raced>>

\* The process ended before it was ready: nothing is torn down.
EndedEarly(s) ==
  /\ sup[s].at = "await"
  /\ sup[s].alive = 0
  /\ Becomes(s, AfterFailure(sup[s], 1))
  /\ sock' = IF GivesUp(s, 1) THEN Torn(s) ELSE sock
  /\ UNCHANGED <<hubCtx, worker, table, actor, raced>>

\* The supervisor with its process killed, as its bring-up fails.
FaultDropped(s) == sup[s]
Dropped(s) == [sup[s] EXCEPT !.alive = Killed(@)]

\* Not ready in time, or cancelled: the process is killed.
TooLate(s) ==
  /\ sup[s].at = "await"
  /\ Becomes(s, AfterFailure(Dropped(s), 1))
  /\ sock' = Torn(s)
  /\ UNCHANGED <<hubCtx, worker, table, actor, raced>>

\* /init or /start fails.
InitFails(s) ==
  /\ sup[s].at = "init"
  /\ Becomes(s, AfterFailure(Dropped(s), 1))
  /\ sock' = Torn(s)
  /\ UNCHANGED <<hubCtx, worker, table, actor, raced>>

\* Both succeed: the count of failures begins again.
InitDone(s) ==
  /\ sup[s].at = "init"
  /\ sup[s].alive > 0
  /\ Becomes(s, [sup[s] EXCEPT !.at = "watch", !.fails = 0])
  /\ UNCHANGED <<hubCtx, worker, table, sock, actor, raced>>

\* sidecarMonitor, the 30-second check: the module answers ...
Healthy(s) ==
  /\ sup[s].at = "watch"
  /\ sup[s].alive > 0
  /\ Becomes(s, [sup[s] EXCEPT !.fails = 0])
  /\ UNCHANGED <<hubCtx, worker, table, sock, actor, raced>>

\* ... or does not, and is given up for too many failures in a row.
Unhealthy(s) ==
  /\ sup[s].at = "watch"
  /\ IF GivesUp(s, 1)
     THEN Becomes(s, Disabled(sup[s])) /\ sock' = Torn(s)
     ELSE Becomes(s, [sup[s] EXCEPT !.fails = @ + 1]) /\ UNCHANGED sock
  /\ UNCHANGED <<hubCtx, worker, table, actor, raced>>

\* The process is found ended, by Wait (one failure) or in a failed check (two).
Crashed(s, n) ==
  /\ sup[s].at = "watch"
  /\ sup[s].alive = 0
  /\ IF sup[s].off
     THEN Becomes(s, Ended(sup[s])) /\ UNCHANGED sock
     ELSE /\ Becomes(s, AfterFailure(sup[s], n))
          /\ sock' = IF GivesUp(s, n) THEN Torn(s) ELSE sock
  /\ UNCHANGED <<hubCtx, worker, table, actor, raced>>

\* Cancelled: sidecarGracefulStop posts /stop, waits a while ...
BeginStop(s) ==
  /\ sup[s].at = "watch"
  /\ sup[s].off
  /\ Becomes(s, [sup[s] EXCEPT !.at = "stop"])
  /\ UNCHANGED <<hubCtx, worker, table, sock, actor, raced>>

\* ... and tears down.
Stop(s) ==
  /\ sup[s].at = "stop"
  /\ Becomes(s, Disabled(sup[s]))
  /\ sock' = Torn(s)
  /\ UNCHANGED <<hubCtx, worker, table, actor, raced>>

Wake(s) ==
  /\ sup[s].at = "sleep"
  /\ Becomes(s, IF sup[s].off THEN Ended(sup[s]) ELSE [sup[s] EXCEPT !.at = "start"])
  /\ UNCHANGED <<hubCtx, worker, table, sock, actor, raced>>

\* The module's process listens at the path, or ends by itself.
Listen(s) ==
  /\ sup[s].at = "await"
  /\ sup[s].alive > 0
  /\ sock[sup[s].mod] # s
  /\ sock' = [sock EXCEPT ![sup[s].mod] = s]
  /\ UNCHANGED <<hubCtx, worker, table, sup, actor, raced>>

Exit(s) ==
  /\ sup[s].at \in {"await", "init", "watch", "stop"}
  /\ sup[s].alive > 0
  /\ Becomes(s, [sup[s] EXCEPT !.alive = @ - 1])
  /\ UNCHANGED <<hubCtx, worker, table, sock, actor, raced>>

-----------------------------------------------------------------------------
Init ==
  /\ hubCtx = "none"
  /\ worker = None
  /\ table = [m \in Module |-> None]
  /\ sup = [s \in Sup |-> Unborn]
  /\ sock = [m \in Module |-> None]
  /\ actor = [a \in Actor |-> Idle]
  /\ raced = {}

\* The steps of a scan that a goroutine is in.
Scan(a) ==
  \/ Unload(a) \/ Reap(a)
  \/ Missing(a) \/ Swept(a) \/ Finish(a)
  \/ \E m \in Module : Sweep(a, m) \/ \E man \in Manifest : Read(a, m, man)
  \/ \E s \in Sup : Load(a, s)

\* The steps that a supervisor takes of itself, each within a timeout.
Progress(s) ==
  \/ Return(s) \/ Spawn(s) \/ NoSpawn(s)
  \/ Ready(s) \/ EndedEarly(s) \/ TooLate(s)
  \/ InitFails(s) \/ InitDone(s)
  \/ Crashed(s, 1) \/ Crashed(s, 2)
  \/ BeginStop(s) \/ Stop(s) \/ Wake(s)

Next ==
  \/ SwitchOff \/ Rescan
  \/ \E a \in Goroutine : SwitchOn(a) \/ Leave(a) \/ Reload(a) \/ Reset(a)
  \/ \E a \in Actor : Scan(a)
  \/ \E s \in Sup : Progress(s) \/ Healthy(s) \/ Unhealthy(s) \/ Listen(s) \/ Exit(s)

Spec == Init /\ [][Next]_vars

(***************************************************************************)
(* Every call of a supervisor has a timeout and every pause a timer, so a  *)
(* supervisor that can go on does.  Nothing is assumed of scans, of the    *)
(* processes or of those who edit and switch.                              *)
(***************************************************************************)
FairSpec == Spec /\ \A s \in Sup : WF_vars(Progress(s))

-----------------------------------------------------------------------------
(* Properties. *)

\* A module that no two goroutines handled together, and whose old supervisor
\* was always waited for, has one supervisor at a time, and the process that
\* serves for it is the one reached at the module's socket path: scans from
\* three sources and a path that old and new share do no harm by themselves.
OneAtATime ==
  \A s, t \in Sup :
    Working(s) /\ Working(t) /\ sup[s].mod = sup[t].mod /\ sup[s].mod \notin raced =>
      /\ s = t
      /\ sup[s].at \in {"init", "watch"} => sock[sup[s].mod] = s

\* A supervisor that nobody told to stop is in the table, where an unload, a
\* reload or the status page finds it, unless its module was raced for.
NothingForgotten ==
  \A s \in Sup :
    Working(s) /\ ~sup[s].off /\ sup[s].mod \notin raced => s \in Listed

\* Every supervisor keeps the promises of SidecarLifecycle, raced for or not:
\* two processes at once, or one left behind at the end of any of the ways out
\* of sidecarSupervise, would break them.
Stage(s) ==
  IF ~Born(s) THEN "none"
  ELSE IF Over(s) THEN "over"
  ELSE IF sup[s].at \in {"watch", "stop"} THEN "serving" ELSE "trying"
Processes(s) == IF Born(s) THEN sup[s].alive ELSE 0
Life == INSTANCE SidecarLifecycle WITH
          life <- [s \in Sup |-> [stage |-> Stage(s), processes |-> Processes(s)]]
ImplementsLifecycle == Life!Spec

\* When the hub is switched off, all processes of modules end, unless it is
\* switched on again: also those of supervisors that were overwritten in the
\* table, were just starting or pausing, or are entered while it is off.
HubOffStops ==
  hubCtx = "dead" ~> (hubCtx = "live" \/ \A s \in Sup : Processes(s) = 0)

\* A supervisor does not try to start its module for ever: it comes to serve,
\* or gives up and ends.
TriesEnd ==
  \A s \in Sup : Stage(s) = "trying" ~> Stage(s) \in {"serving", "over"}

\* Supervisors are alike, and so are the workers and reload handlers.
Symmetry == Permutations(Sup) \cup Permutations(Goroutine)

=============================================================================

------------------------------ MODULE Profiles ------------------------------
(***************************************************************************)
(* What chooses the module switches of modules.go for a user: the profiles *)
(* and suggestions of adapt.go, and the personas of persona.go.            *)
(*                                                                         *)
(* A persona only writes cfg.Modules and saves the file; the switches      *)
(* follow when watchConfig finds that the file is not the one it knows.    *)
(* Everything else changes the switches and the file and says so           *)
(* (markConfigLoaded).  What the agents are told of a persona is written   *)
(* by a goroutine of its own, into the shared memory and then into the     *)
(* configuration.  The shared memory is saved at every change of anything  *)
(* in it, and nobody looks whether that succeeded; whoever may write in    *)
(* the global namespace may write, delete or push out what the persona has *)
(* left there.  modMu and cfgMu guard single steps only.                   *)
(***************************************************************************)
EXTENDS Naturals, Sequences, FiniteSets, Functions

CONSTANTS
  Module,       \* the ids of moduleRegistry
  Registry,     \* moduleRegistry, in its order
  Deps,         \* Module.Deps, as sets
  Optional,     \* the modules of the categories tools and ops
  AutoStart,    \* {"autoStartModel"}, if it is one of the modules
  Builtin,      \* what the built-in profiles have on, by name
  Name,         \* names of custom profiles
  Persona,      \* the ids of builtInPersonas
  Settings,     \* Persona.DefaultModules: [set, clear]
  Demo,         \* what handleOnboardingDemo switches on
  Handler,      \* goroutines of handlers with more than one step
  Writer        \* goroutines of writePersonaMemory

General == "general"

\* A module that others need needs none itself (ModuleHost).
ProfilesAssumption ==
  /\ Registry \in Seq(Module) /\ Registry # <<>>
  /\ Range(Registry) = Module /\ IsInjective(Registry)
  /\ Deps \in [Module -> SUBSET Module]
  /\ \A m \in Module : \A d \in Deps[m] : Deps[d] = {}
  /\ Optional \subseteq Module /\ AutoStart \subseteq Module /\ Demo \subseteq Module
  /\ \A b \in DOMAIN Builtin : Builtin[b] \subseteq Module
  /\ Name \cap DOMAIN Builtin = {}
  /\ General \in Persona
  /\ Settings \in [Persona -> [set : SUBSET Module, clear : SUBSET Module]]

VARIABLES
  mods,      \* modStates, cfg.Modules, whether they are one map, and whether the
             \* file was saved without markConfigLoaded since the watcher looked
  saved,     \* cfg.V35Config.ModuleProfiles
  used,      \* moduleUsage: the modules that were called
  handler,   \* what each handler is doing
  chosen,    \* cfg.Persona: CurrentID and AutoMemoryWritten
  memory,    \* the persona the shared memory speaks of
  writer,    \* what each goroutine of writePersonaMemory is doing
  stored,    \* the persona the file of the shared memory speaks of
  hist       \* history: what the last persona said the switches are to be, as long as
             \* nobody else had a say; a second persona came before the first was
             \* written down; the shared memory has changed since a persona was written
             \* there; modStates was written in place since it was last closed

vars == <<mods, saved, used, handler, chosen, memory, writer, stored, hist>>

None == "none"
Idle == [at |-> "idle"]

Doing ==
       [at : {"snap"}, name : Name, i : 1..Len(Registry), snap : SUBSET Module, calm : BOOLEAN]
  \cup [at : {"apply"}, target : SUBSET Module]
  \cup [at : {"switch"}, module : Module, to : BOOLEAN]

TypeOK ==
  /\ mods \in [on : SUBSET Module, conf : SUBSET Module, shared : BOOLEAN, dirty : BOOLEAN]
  /\ \A n \in DOMAIN saved : n \in Name /\ saved[n] \in [states : SUBSET Module, calm : BOOLEAN]
  /\ used \subseteq Module
  /\ \A h \in Handler : handler[h] = Idle \/ handler[h] \in Doing
  /\ chosen \in [id : Persona, written : BOOLEAN]
  /\ memory \in Persona \cup {None}
  /\ \A w \in Writer : writer[w] = Idle \/ writer[w] \in [at : {"memory", "mark"}, id : Persona]
  /\ stored \in Persona \cup {None}
  /\ hist.told \in {{}} \cup {{S} : S \in SUBSET Module}
  /\ hist.raced \in BOOLEAN /\ hist.unsaid \in BOOLEAN /\ hist.loose \in BOOLEAN

-----------------------------------------------------------------------------
(* Dependencies. *)

Closed(S) == \A m \in S : Deps[m] \subseteq S

\* closeDeps: what is to be on, and all it needs.
Closure(S) == {m \in Module : \A T \in SUBSET Module : S \subseteq T /\ Closed(T) => m \in T}

\* setModuleEnabled, for one module.
FaultWithDeps(S) == S
WithDeps(S) == S \cup UNION {Deps[m] : m \in S}
Needed(m) == \E n \in mods.on \ {m} : m \in Deps[n]

\* applyModulesFromConfig: what lacks a dependency is off.
Met(S) == {m \in S : Deps[m] \subseteq S}

-----------------------------------------------------------------------------
(* Changes of the switches. *)

\* A snapshot that is being taken sees switches of different times.
Stirred(hs, S) ==
  [h \in Handler |->
     IF hs[h].at = "snap" /\ S # mods.on THEN [hs[h] EXCEPT !.calm = FALSE] ELSE hs[h]]

\* saveConfig and markConfigLoaded: the watcher takes the file for known, and
\* with it what a persona has written there and nobody has applied.
Marked == [hist EXCEPT !.told = IF mods.dirty THEN {} ELSE @]

\* The switches are replaced, and so is whatever a persona wanted; switching off
\* closes nothing.
SwitchTo(S, alias, closes, hs) ==
  /\ mods' = [on |-> S, conf |-> S, shared |-> alias, dirty |-> FALSE]
  /\ handler' = Stirred(hs, S)
  /\ hist' = [hist EXCEPT !.told = {}, !.loose = @ /\ ~closes]

Rest == <<saved, used, chosen, memory, writer, stored>>

\* setModuleEnabled.
SetModule(m, to, hs) ==
  /\ to \/ ~Needed(m)
  /\ SwitchTo(IF to THEN WithDeps(mods.on \cup {m}) ELSE mods.on \ {m}, TRUE, to, hs)

\* POST /api/admin/modules, by any handler.
Toggle(m, to) == SetModule(m, to, handler) /\ UNCHANGED Rest

\* The watcher finds another file than the one it knows and loads it.
Reload ==
  /\ mods.dirty
  /\ mods' = [on |-> Met(mods.conf), conf |-> Met(mods.conf), shared |-> FALSE, dirty |-> FALSE]
  /\ handler' = Stirred(handler, Met(mods.conf))
  /\ hist' = [hist EXCEPT !.loose = FALSE]
  /\ UNCHANGED Rest

\* moduleRoute: a call of a module that is on; nobody asks of others than these.
Use(m) ==
  /\ m \in mods.on \cap Optional
  /\ used' = used \cup {m}
  /\ UNCHANGED <<mods, saved, handler, chosen, memory, writer, stored, hist>>

-----------------------------------------------------------------------------
(* Profiles. *)

Goto(h, r) == handler' = [handler EXCEPT ![h] = r]

\* profileTargetStates.
Target(n) == IF n \in DOMAIN Builtin THEN Builtin[n] ELSE saved[n].states

ReadProfile(h, n) ==
  /\ handler[h] = Idle
  /\ n \in DOMAIN Builtin \cup DOMAIN saved
  /\ Goto(h, [at |-> "apply", target |-> Target(n)])
  /\ UNCHANGED <<mods, Rest, hist>>

\* applyModuleStates(closeDeps(...)).
ApplyProfile(h) ==
  /\ handler[h].at = "apply"
  /\ SwitchTo(Closure(handler[h].target), FALSE, TRUE, [handler EXCEPT ![h] = Idle])
  /\ UNCHANGED Rest

\* The snapshot asks for one module after another (moduleEnabledByID).  The name
\* is what sanitizeProfileName makes of it, and none of a built-in profile.
BeginSave(h, n) ==
  /\ handler[h] = Idle
  /\ Goto(h, [at |-> "snap", name |-> n, i |-> 1, snap |-> {}, calm |-> ~hist.loose])
  /\ UNCHANGED <<mods, Rest, hist>>

Seen(r) == r.snap \cup (mods.on \cap {Registry[r.i]})

Look(h) ==
  /\ handler[h].at = "snap"
  /\ handler[h].i < Len(Registry)
  /\ Goto(h, [handler[h] EXCEPT !.snap = Seen(handler[h]), !.i = @ + 1])
  /\ UNCHANGED <<mods, Rest, hist>>

SaveProfile(h) ==
  LET r == handler[h] IN
  /\ r.at = "snap"
  /\ r.i = Len(Registry)
  /\ saved' = [n \in DOMAIN saved \cup {r.name} |->
                 IF n = r.name THEN [states |-> Seen(r), calm |-> r.calm]
                 ELSE saved[n]]
  /\ Goto(h, Idle)
  /\ mods' = [mods EXCEPT !.dirty = FALSE]
  /\ hist' = Marked
  /\ UNCHANGED <<used, chosen, memory, writer, stored>>

DeleteProfile(n) ==
  /\ n \in DOMAIN saved
  /\ saved' = [k \in DOMAIN saved \ {n} |-> saved[k]]
  /\ mods' = [mods EXCEPT !.dirty = FALSE]
  /\ hist' = Marked
  /\ UNCHANGED <<used, handler, chosen, memory, writer, stored>>

\* handleV35UIMode: it, too, saves the file and marks it.
UIMode ==
  /\ mods' = [mods EXCEPT !.dirty = FALSE]
  /\ hist' = Marked
  /\ UNCHANGED <<saved, used, handler, chosen, memory, writer, stored>>

-----------------------------------------------------------------------------
(* Suggestions: adaptiveSuggestions and then applyAdaptiveSuggestion. *)

\* R2: it is on, is of no core category, nobody needs it and nobody has used it.
Idles(m) == m \in (mods.on \cap Optional) \ used /\ ~Needed(m)

\* R3, on good hardware with a local model.
Startable(m) == m \in AutoStart \ mods.on /\ Deps[m] \subseteq mods.on

Suggest(h, m) ==
  /\ handler[h] = Idle
  /\ Idles(m) \/ Startable(m)
  /\ Goto(h, [at |-> "switch", module |-> m, to |-> Startable(m)])
  /\ UNCHANGED <<mods, Rest, hist>>

ApplySuggestion(h) ==
  /\ handler[h].at = "switch"
  /\ SetModule(handler[h].module, handler[h].to, [handler EXCEPT ![h] = Idle])
  /\ UNCHANGED Rest

\* Somebody needs the module by now.
RefuseSuggestion(h) ==
  /\ handler[h].at = "switch"
  /\ ~handler[h].to /\ Needed(handler[h].module)
  /\ Goto(h, Idle)
  /\ UNCHANGED <<mods, Rest, hist>>

-----------------------------------------------------------------------------
(* Personas. *)

FaultWritten(S, raced) ==
  LET on == IF mods.shared THEN S ELSE mods.on
  IN  /\ mods' = [mods EXCEPT !.conf = S, !.on = on]
      /\ handler' = Stirred(handler, on)
      /\ hist' = [hist EXCEPT !.told = {S}, !.raced = raced, !.loose = @ \/ on # mods.on]

\* cfg.Modules is written in place, and saved without markConfigLoaded.
Written(S, raced) ==
  LET on == IF mods.shared THEN S ELSE mods.on
  IN  /\ mods' = [mods EXCEPT !.conf = S, !.on = on, !.dirty = TRUE]
      /\ handler' = Stirred(handler, on)
      /\ hist' = [hist EXCEPT !.told = {S}, !.raced = raced,
                              !.loose = @ \/ on # mods.on]

Busy == \E w \in Writer : writer[w] # Idle

\* applyPersona, from POST /api/admin/v38/persona/select, and its goroutine.
Select(w, p) ==
  LET S == (mods.conf \ Settings[p].clear) \cup Settings[p].set IN
  /\ writer[w] = Idle
  /\ Written(S, Busy)
  /\ chosen' = [id |-> p, written |-> FALSE]
  /\ writer' = [writer EXCEPT ![w] = [at |-> "memory", id |-> p]]
  /\ UNCHANGED <<saved, used, memory, stored>>

\* smSaveLocked, after a change: the temporary file may fail, or its renaming.
Saves(v) == stored' \in {v, stored}

\* writePersonaMemory: the shared memory, which is saved or not, and a record of the
\* shared information; no quota is looked at.
WriteMemory(w) ==
  /\ writer[w].at = "memory"
  /\ memory' = writer[w].id
  /\ Saves(memory')
  /\ writer' = [writer EXCEPT ![w].at = "mark"]
  /\ hist' = [hist EXCEPT !.unsaid = FALSE]
  /\ UNCHANGED <<mods, saved, used, handler, chosen>>

\* smSet, smDelete and smEvictOldestLocked, by whoever may write in that namespace.
Unsay(v) ==
  /\ v # memory
  /\ memory' = v
  /\ Saves(v)
  /\ hist' = [hist EXCEPT !.unsaid = TRUE]
  /\ UNCHANGED <<mods, saved, used, handler, chosen, writer>>

\* A change of another entry saves this one too.
SaveMemory ==
  /\ stored' = memory
  /\ UNCHANGED <<mods, saved, used, handler, chosen, memory, writer, hist>>

\* And then AutoMemoryWritten, whichever persona is the current one.
FaultMarkWritten(w) ==
  /\ writer[w] # Idle
  /\ chosen' = [chosen EXCEPT !.written = TRUE]
  /\ writer' = [writer EXCEPT ![w] = Idle]
  /\ mods' = [mods EXCEPT !.dirty = TRUE]
  /\ UNCHANGED <<saved, used, handler, memory, stored, hist>>

MarkWritten(w) ==
  /\ writer[w].at = "mark"
  /\ chosen' = [chosen EXCEPT !.written = TRUE]
  /\ writer' = [writer EXCEPT ![w] = Idle]
  /\ mods' = [mods EXCEPT !.dirty = TRUE]
  /\ UNCHANGED <<saved, used, handler, memory, stored, hist>>

\* handleOnboardingDemo.
ShowDemo ==
  /\ Written(mods.conf \cup Demo, hist.raced)
  /\ UNCHANGED Rest

\* The process ends and starts again: the file, the shared memory as it was saved, or
\* none when it cannot be read, and nothing else.
Restart ==
  /\ mods' = [on |-> Met(mods.conf), conf |-> Met(mods.conf), shared |-> FALSE, dirty |-> FALSE]
  /\ handler' = [h \in Handler |-> Idle]
  /\ writer' = [w \in Writer |-> Idle]
  /\ used' = {}
  /\ memory' \in {stored, None}
  /\ hist' = [hist EXCEPT !.unsaid = @ \/ memory' # memory, !.loose = FALSE]
  /\ UNCHANGED <<saved, chosen, stored>>

-----------------------------------------------------------------------------
Init ==
  /\ mods \in {[on |-> S, conf |-> S, shared |-> FALSE, dirty |-> FALSE] :
                 S \in {T \in SUBSET Module : Closed(T)}}
  /\ saved = [n \in {} |-> None]
  /\ used = {}
  /\ handler = [h \in Handler |-> Idle]
  /\ chosen = [id |-> General, written |-> FALSE]
  /\ memory = None
  /\ writer = [w \in Writer |-> Idle]
  /\ stored = None
  /\ hist = [told |-> {}, raced |-> FALSE, unsaid |-> FALSE, loose |-> FALSE]

Handle(h) ==
  \/ \E n \in DOMAIN Builtin \cup Name : ReadProfile(h, n)
  \/ \E n \in Name : BeginSave(h, n)
  \/ \E m \in Module : Suggest(h, m)
  \/ ApplyProfile(h) \/ Look(h) \/ SaveProfile(h)
  \/ ApplySuggestion(h) \/ RefuseSuggestion(h)

Write(w) == WriteMemory(w) \/ MarkWritten(w) \/ \E p \in Persona : Select(w, p)

Next ==
  \/ \E h \in Handler : Handle(h)
  \/ \E w \in Writer : Write(w)
  \/ \E m \in Module : Use(m) \/ \E to \in BOOLEAN : Toggle(m, to)
  \/ \E n \in Name : DeleteProfile(n)
  \/ \E v \in Persona \cup {None} : Unsay(v)
  \/ Reload \/ UIMode \/ ShowDemo \/ SaveMemory \/ Restart

Spec == Init /\ [][Next]_vars

-----------------------------------------------------------------------------
(* Properties. *)

\* persona.go:13: a persona is its configuration, applied.  When nobody else
\* had a say since and the file is known, the switches are what it asked for.
ToldIsDone ==
  ~mods.dirty => \A S \in hist.told : mods.on = Met(S)

\* AutoMemoryWritten says that the agents were told of the current persona: they were, and
\* still are, unless one persona was chosen upon another, or the shared memory has lost it
\* since, by somebody else's write or by a restart after a save that failed.
MemoryTrue == chosen.written /\ ~hist.raced /\ ~hist.unsaid => memory = chosen.id

\* A profile that was saved while the switches were at rest, and not written in
\* place before, is closed: applying it brings back what was on and nothing else.
ProfilesTrue ==
  \A n \in DOMAIN saved : saved[n].calm => Closure(saved[n].states) = saved[n].states

ChoicesKept == ToldIsDone /\ MemoryTrue /\ ProfilesTrue

=============================================================================

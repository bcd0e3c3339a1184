---------------------------- MODULE ConfigStore ----------------------------
(***************************************************************************)
(* config.json and the configuration in memory (config.go), which four     *)
(* parties change: an editor writes the file, a watcher polls its hash and *)
(* reloads it, API handlers change the memory and save all of it, and an   *)
(* administrator takes the last reload back.                               *)
(*                                                                         *)
(* loadConfig empties cfg, reads the file, corrects what may not be set,   *)
(* writes all of it back and notes the hash of the file; no lock is held   *)
(* from one of these steps to the next, and a file is truncated before it  *)
(* is written.  Nobody looks at whether a write succeeded.                 *)
(*                                                                         *)
(* A configuration has a part that only the file sets and one that the API *)
(* sets too.  A hash is the content it was taken of.                       *)
(***************************************************************************)
EXTENDS Integers

CONSTANTS
  Handler,     \* HTTP handler goroutines
  Watcher,     \* the goroutine of watchConfig
  Typed,       \* what a user may write into the file
  Unsafe,      \* that of it which loadConfig corrects
  Setting,     \* what the API may set
  Normal,      \* the default of either part
  Half,        \* the content of a file that is being written
  None,        \* no snapshot
  MaxChanges   \* edits and API calls of a run (a bound)

Actor == Handler \cup {Watcher}

ASSUME ValueAssumption ==
  /\ Unsafe \subseteq Typed
  /\ Normal \notin Unsafe
  /\ Watcher \notin Handler
  /\ MaxChanges \in Nat

Config == [typed : Typed \cup {Normal}, set : Setting \cup {Normal}]
ASSUME NoConfigAssumption == Half \notin Config /\ None \notin Config

VARIABLES
  cfg,       \* the configuration in memory
  file,      \* the content of config.json
  last,      \* lastCfgHash
  prev,      \* prevCfgJSON
  actor,     \* what the watcher and each handler is doing
  changes,   \* edits and API calls so far
  raced,     \* history: two parties met, or a write was cut off
  apart      \* history: memory holds what was not saved, and nobody has loaded
             \* the file or saved and noted its hash since

vars == <<cfg, file, last, prev, actor, changes, raced, apart>>

Empty == [typed |-> Normal, set |-> Normal]
Idle == [at |-> "idle"]

\* then: what follows the save; old: the snapshot for prevCfgJSON.
Doing ==
       [at : {"parsable", "snapshot"}]
  \cup [at : {"clear", "read", "mark"}, old : Config \cup {None}]
  \cup [at : {"correct"}, old : Config \cup {None}]
  \cup [at : {"post"}, seen : Config, set : Setting]
  \cup [at : {"marshal"}, then : {"load", "mark", "done"}, old : Config \cup {None}]
  \cup [at : {"open", "write"}, then : {"load", "mark", "done"},
        old : Config \cup {None}, data : Config]

TypeOK ==
  /\ cfg \in Config
  /\ file \in Config \cup {Half}
  /\ last \in Config \cup {Half}
  /\ prev \in Config \cup {None}
  /\ actor \in [Actor -> Doing \cup {Idle}]
  /\ changes \in 0..MaxChanges
  /\ raced \in BOOLEAN /\ apart \in BOOLEAN

-----------------------------------------------------------------------------
Goto(x, do) == actor' = [actor EXCEPT ![x] = do]

Resting == \A x \in Actor : actor[x] = Idle

\* Somebody but x is at work, or the editor is.
Meets(x) == file = Half \/ \E y \in Actor \ {x} : actor[y] # Idle

Begin(x, do) ==
  /\ actor[x] = Idle
  /\ Goto(x, do)
  /\ raced' = (raced \/ Meets(x))

Counted == changes < MaxChanges /\ changes' = changes + 1

-----------------------------------------------------------------------------
(* Saving: marshal all of cfg, truncate the file, write it. *)

Save(then, old) == [at |-> "marshal", then |-> then, old |-> old]

Marshal(x) ==
  /\ actor[x].at = "marshal"
  /\ Goto(x, [at |-> "open", then |-> actor[x].then, old |-> actor[x].old, data |-> cfg])
  /\ UNCHANGED <<cfg, file, last, prev, changes, raced, apart>>

Open(x) ==
  /\ actor[x].at = "open"
  /\ file' = Half
  /\ Goto(x, [actor[x] EXCEPT !.at = "write"])
  /\ UNCHANGED <<cfg, last, prev, changes, raced, apart>>

AfterSave(a) ==
  CASE a.then = "load" -> [at |-> "clear", old |-> a.old]
    [] a.then = "mark" -> [at |-> "mark", old |-> a.old]
    [] a.then = "done" -> Idle

Write(x) ==
  /\ actor[x].at = "write"
  /\ file' = actor[x].data
  /\ Goto(x, AfterSave(actor[x]))
  /\ apart' = (apart /\ actor[x].then = "done")
  /\ UNCHANGED <<cfg, last, prev, changes, raced>>

\* The file cannot be opened, or the disk is full once it is empty.
SaveFails(x) ==
  /\ actor[x].at \in {"open", "write"}
  /\ Goto(x, AfterSave(actor[x]))
  /\ apart' = TRUE
  /\ raced' = (raced \/ actor[x].at = "write")
  /\ UNCHANGED <<cfg, file, last, prev, changes>>

\* markConfigLoaded; after a reload watchConfig keeps the configuration that
\* was in force before it.
Mark(x) ==
  /\ actor[x].at = "mark"
  /\ last' = file
  /\ prev' = IF x = Watcher /\ actor[x].old # None THEN actor[x].old ELSE prev
  /\ Goto(x, Idle)
  /\ UNCHANGED <<cfg, file, changes, raced, apart>>

-----------------------------------------------------------------------------
(* Loading. *)

FaultCorrected(c) == c

\* validateAndCorrectConfig
Corrected(c) == IF c.typed \in Unsafe THEN [c EXCEPT !.typed = Normal] ELSE c

Clear(x) ==
  /\ actor[x].at = "clear"
  /\ cfg' = Empty
  /\ Goto(x, [actor[x] EXCEPT !.at = "read"])
  /\ UNCHANGED <<file, last, prev, changes, raced, apart>>

\* A file that cannot be parsed is not written back.
NotParsed(old) == [at |-> "mark", old |-> old]

Read(x) ==
  /\ actor[x].at = "read"
  /\ IF file = Half
     THEN Goto(x, NotParsed(actor[x].old)) /\ UNCHANGED <<cfg, apart>>
     ELSE /\ Goto(x, [at |-> "correct", old |-> actor[x].old])
          /\ cfg' = file
          /\ apart' = FALSE
  /\ UNCHANGED <<file, last, prev, changes, raced>>

Correct(x) ==
  /\ actor[x].at = "correct"
  /\ cfg' = Corrected(cfg)
  /\ Goto(x, Save("mark", actor[x].old))
  /\ UNCHANGED <<file, last, prev, changes, raced, apart>>

-----------------------------------------------------------------------------
(* watchConfig, every two seconds. *)

FaultChanged == file # cfg

Changed == file # last

Poll ==
  /\ Changed
  /\ Begin(Watcher, [at |-> "parsable"])
  /\ UNCHANGED <<cfg, file, last, prev, changes, apart>>

Parsable ==
  /\ actor[Watcher].at = "parsable"
  /\ Goto(Watcher, IF file = Half THEN Idle ELSE [at |-> "snapshot"])
  /\ UNCHANGED <<cfg, file, last, prev, changes, raced, apart>>

Snapshot ==
  /\ actor[Watcher].at = "snapshot"
  /\ Goto(Watcher, [at |-> "clear", old |-> cfg])
  /\ UNCHANGED <<cfg, file, last, prev, changes, raced, apart>>

-----------------------------------------------------------------------------
(* The API. *)

\* handleConfig and tars_config_set: all of cfg is marshalled and unmarshalled
\* again under cfgMu, which loadConfig does not take.
PostRead(h, s) ==
  /\ Counted
  /\ Begin(h, [at |-> "post", seen |-> cfg, set |-> s])
  /\ \A g \in Handler : actor[g].at # "post"
  /\ UNCHANGED <<cfg, file, last, prev, apart>>

PostWrite(h) ==
  /\ actor[h].at = "post"
  /\ cfg' = [actor[h].seen EXCEPT !.set = actor[h].set]
  /\ Goto(h, Save("done", None))
  /\ UNCHANGED <<file, last, prev, changes, raced, apart>>

\* A value of the wrong type: the fields before and after it are set, the call
\* is refused and nothing is saved.
PostFails(h) ==
  /\ actor[h].at = "post"
  /\ \E s \in {actor[h].seen.set, actor[h].set} :
       cfg' = [actor[h].seen EXCEPT !.set = s]
  /\ apart' = (apart \/ cfg' # actor[h].seen)
  /\ Goto(h, Idle)
  /\ UNCHANGED <<file, last, prev, changes, raced>>

\* setModuleEnabled and the like (a persona, the eco mode): one part of cfg, and
\* the hash is noted.
Toggle(h, s) ==
  /\ Counted
  /\ Begin(h, Save("mark", None))
  /\ cfg' = [cfg EXCEPT !.set = s]
  /\ UNCHANGED <<file, last, prev, apart>>

\* revertConfig
Revert(h) ==
  /\ prev # None
  /\ Counted
  /\ Begin(h, Save("load", None))
  /\ \A g \in Handler : actor[g].at # "post"
  /\ cfg' = prev
  /\ UNCHANGED <<file, last, prev, apart>>

-----------------------------------------------------------------------------
(* The editor and the end of the process. *)

\* An editor saves what it shows; some replace the file, some truncate it.
Edit(t) ==
  /\ file # Half
  /\ Counted
  /\ file' = [file EXCEPT !.typed = t]
  /\ raced' = (raced \/ ~Resting)
  /\ UNCHANGED <<cfg, last, prev, actor, apart>>

\* main loads the configuration before it starts anybody; loadConfig then
\* meets nobody.  A file cut off in the middle leaves the defaults.
Booted == IF file = Half THEN Empty ELSE Corrected(file)

\* What the file holds after the save of a start, which may fail.
BootFile == IF file = Half THEN {Half} ELSE {Booted, file, Half}

\* wlReconcile takes a white list that differs from its baseline back, in memory
\* and after the save.  The lists are of the part that only the file sets.
RolledBack == {[Booted EXCEPT !.typed = t] : t \in (Typed \cup {Normal}) \ Unsafe}

Restart ==
  /\ Counted
  /\ file' \in BootFile
  /\ cfg' \in {Booted} \cup RolledBack
  /\ last' = file'
  /\ prev' = None
  /\ actor' = [x \in Actor |-> Idle]
  /\ raced' = (file' = Half)
  /\ apart' = (file' # Booted \/ cfg' # Booted)

Init ==
  /\ cfg = Empty /\ file = Empty /\ last = Empty
  /\ prev = None
  /\ actor = [x \in Actor |-> Idle]
  /\ changes = 0
  /\ raced = FALSE /\ apart = FALSE

Working(x) ==
  \/ Marshal(x) \/ Open(x) \/ Write(x) \/ Mark(x)
  \/ Clear(x) \/ Read(x) \/ Correct(x)

Watching == Poll \/ Parsable \/ Snapshot

Serving(h) ==
  \/ \E s \in Setting : PostRead(h, s) \/ Toggle(h, s)
  \/ PostWrite(h)
  \/ PostFails(h)
  \/ Revert(h)

Next ==
  \/ \E x \in Actor : Working(x) \/ SaveFails(x)
  \/ Watching
  \/ \E h \in Handler : Serving(h)
  \/ \E t \in Typed : Edit(t)
  \/ Restart

Spec == Init /\ [][Next]_vars

Fairness ==
  /\ \A x \in Actor : WF_vars(Working(x))
  /\ \A h \in Handler : WF_vars(PostWrite(h) \/ PostFails(h))
  /\ WF_vars(Watching)

FairSpec == Spec /\ Fairness

-----------------------------------------------------------------------------
(* Properties. *)

\* While nobody is at work and the watcher has nothing to read, the configuration
\* in memory is a safe one (config.go:304), and it is the file's, unless two
\* parties met or a write was cut off.  Every order of edits, reloads, calls,
\* roll-backs and restarts that do not overlap keeps it.  Memory alone has what a
\* refused call had set (handlers.go:278), what a failed save left out and the
\* list a start took back (config.go:299), until the file is next loaded or saved
\* by one who notes its hash.
AgreeUnlessRaced ==
  (Resting /\ ~Changed /\ ~raced) => cfg.typed \notin Unsafe /\ (cfg = file \/ apart)

\* A reload writes the file back and does not set itself off again
\* (config.go:611): once nobody changes anything the watcher comes to rest, or
\* looks time and again at a file that cannot be parsed, whatever met before.
Settles ==
  <>[](/\ actor[Watcher].at \in {"idle", "parsable"}
       /\ Changed => file = Half)

\* The safety rule of config.go:304, whatever meets.  It does not hold: a call
\* of the API that copied cfg before a reload corrected it puts it back.
SafeAtRest == (Resting /\ ~Changed) => cfg.typed \notin Unsafe

=============================================================================

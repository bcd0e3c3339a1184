------------------------- MODULE ConfigStore_proofs -------------------------
(***************************************************************************)
(* Proofs about ConfigStore: for any number of handlers, any values and    *)
(* any number of changes, memory and file agree at rest unless two parties *)
(* met or memory holds what was not saved, and memory is safe in that case *)
(* too.  While nobody has met, one party at most is at work, so each step  *)
(* of a load or a save finds what the step before it left.                 *)
(***************************************************************************)
EXTENDS ConfigStore, TLAPS

Safe == cfg.typed \notin Unsafe

\* At rest the watcher compares the file with last.  A call of handleConfig
\* leaves last behind, but only in the part that the file then has as well.
Calm ==
  /\ Safe
  /\ apart \/ /\ cfg.typed = last.typed
              /\ cfg.set = last.set \/ cfg.set = file.set

\* What a party at work alone relies on.
Alone(x) ==
  /\ actor[x].at # "write" => file # Half
  /\ actor[x].at \in {"parsable", "snapshot", "post"} => Calm
  /\ actor[x].at = "post" => actor[x].seen = cfg
  /\ actor[x].at = "correct" => cfg = file
  /\ actor[x].at \in {"marshal", "open", "write"} =>
       /\ actor[x].then # "load" => Safe
       /\ actor[x].then = "done" => apart \/ cfg.typed = last.typed
  /\ actor[x].at \in {"open", "write"} => actor[x].data = cfg
  /\ actor[x].at = "mark" => Safe /\ (cfg = file \/ apart)

Orderly ==
  /\ \A x, y \in Actor : actor[x] # Idle /\ actor[y] # Idle => x = y
  /\ Resting => Calm /\ file # Half
  /\ \A x \in Actor : actor[x] # Idle => Alone(x)

IInv == TypeOK /\ (~raced => Orderly)

-----------------------------------------------------------------------------
(* What the place of an actor says of the rest of its record. *)

Saving(a) == a.then \in {"load", "mark", "done"} /\ a.old \in Config \cup {None}

LEMMA Shape ==
  ASSUME NEW a \in Doing \cup {Idle}
  PROVE  /\ a.at = "idle" => a = Idle
         /\ a.at \in {"clear", "read", "mark", "correct"} => a.old \in Config \cup {None}
         /\ a.at = "post" => a.seen \in Config /\ a.set \in Setting
         /\ a.at = "marshal" => Saving(a)
         /\ a.at = "open" =>
              /\ Saving(a)
              /\ a.data \in Config
              /\ [a EXCEPT !.at = "write"] =
                   [at |-> "write", then |-> a.then, old |-> a.old, data |-> a.data]
         /\ a.at = "write" => Saving(a) /\ a.data \in Config
         /\ a.at = "clear" =>
              [a EXCEPT !.at = "read"] = [at |-> "read", old |-> a.old]
  BY DEF Doing, Idle, Saving

LEMMA CorrectedIsSafe ==
  ASSUME NEW c \in Config
  PROVE  Corrected(c) \in Config /\ Corrected(c).typed \notin Unsafe
  BY ValueAssumption DEF Corrected, Config

LEMMA EmptyIsConfig == Empty \in Config /\ Empty.typed \notin Unsafe
  BY ValueAssumption DEF Empty, Config

LEMMA BootedIsSafe ==
  ASSUME file \in Config \cup {Half}
  PROVE  Booted \in Config /\ Booted.typed \notin Unsafe
<1>1. CASE file = Half
  BY <1>1, EmptyIsConfig DEF Booted
<1>2. CASE file # Half
  BY <1>2, CorrectedIsSafe DEF Booted
<1> QED BY <1>1, <1>2

\* What a start leaves: a safe configuration, its lists rolled back or not.
LEMMA BootIsSafe ==
  ASSUME file \in Config \cup {Half}
  PROVE  /\ BootFile \subseteq Config \cup {Half}
         /\ \A c \in {Booted} \cup RolledBack : c \in Config /\ c.typed \notin Unsafe
<1>1. Booted \in Config /\ Booted.typed \notin Unsafe
  BY BootedIsSafe
<1>2. BootFile \subseteq Config \cup {Half}
  BY <1>1 DEF BootFile
<1>3. ASSUME NEW t \in (Typed \cup {Normal}) \ Unsafe
      PROVE  [Booted EXCEPT !.typed = t] \in Config /\ [Booted EXCEPT !.typed = t].typed = t
  BY <1>1 DEF Config
<1> QED BY <1>1, <1>2, <1>3 DEF RolledBack

\* A record of Doing, as each step writes it.
LEMMA Written ==
  /\ Idle \in Doing \cup {Idle}
  /\ \A p \in {"parsable", "snapshot"} : [at |-> p] \in Doing
  /\ \A o \in Config \cup {None} : \A p \in {"clear", "read", "mark", "correct"} :
       [at |-> p, old |-> o] \in Doing
  /\ \A c \in Config, s \in Setting : [at |-> "post", seen |-> c, set |-> s] \in Doing
  /\ \A t \in {"load", "mark", "done"}, o \in Config \cup {None} : Save(t, o) \in Doing
  /\ \A p \in {"open", "write"}, t \in {"load", "mark", "done"},
       o \in Config \cup {None}, d \in Config :
         [at |-> p, then |-> t, old |-> o, data |-> d] \in Doing
  BY DEF Doing, Save

-----------------------------------------------------------------------------
(* The type invariant. *)

LEMMA TypeOfActor ==
  ASSUME TypeOK, NEW x \in Actor
  PROVE  actor[x] \in Doing \cup {Idle}
  BY DEF TypeOK

LEMMA TypeOfGoto ==
  ASSUME TypeOK, NEW x \in Actor, NEW do \in Doing \cup {Idle}, Goto(x, do)
  PROVE  actor' \in [Actor -> Doing \cup {Idle}]
  BY DEF TypeOK, Goto

LEMMA InitType == Init => TypeOK
<1> SUFFICES ASSUME Init PROVE TypeOK
  OBVIOUS
<1>1. Empty \in Config
  BY EmptyIsConfig
<1>2. changes \in 0..MaxChanges
  BY ValueAssumption DEF Init
<1> QED BY <1>1, <1>2 DEF Init, TypeOK

\* The steps of a load and of a save.
LEMMA WorkingType ==
  ASSUME TypeOK, NEW x \in Actor, Working(x)
  PROVE  TypeOK'
<1> DEFINE a == actor[x]
<1>0. a \in Doing \cup {Idle}
  BY TypeOfActor
<1> SUFFICES /\ actor' \in [Actor -> Doing \cup {Idle}]
             /\ cfg' \in Config
             /\ file' \in Config \cup {Half}
             /\ last' \in Config \cup {Half}
             /\ prev' \in Config \cup {None}
             /\ changes' \in 0..MaxChanges /\ raced' \in BOOLEAN /\ apart' \in BOOLEAN
  BY DEF TypeOK
<1>c. changes' = changes /\ raced' = raced
  BY DEF Working, Marshal, Open, Write, Mark, Clear, Read, Correct
<1>p. apart' \in BOOLEAN
  BY Zenon DEF Working, Marshal, Open, Write, Mark, Clear, Read, Correct, TypeOK
<1>n. changes' \in 0..MaxChanges /\ raced' \in BOOLEAN /\ apart' \in BOOLEAN
  BY <1>c, <1>p DEF TypeOK
<1>1. CASE Marshal(x)
  <2>1. Saving(a) /\ cfg \in Config
    BY <1>0, <1>1, Shape DEF Marshal, TypeOK
  <2>2. [at |-> "open", then |-> a.then, old |-> a.old, data |-> cfg] \in Doing \cup {Idle}
    BY <2>1, Written DEF Saving
  <2>3. actor' \in [Actor -> Doing \cup {Idle}]
    BY <1>1, <2>2, TypeOfGoto DEF Marshal
  <2> QED BY <1>1, <1>n, <2>3 DEF Marshal, TypeOK
<1>2. CASE Open(x)
  <2>1. Saving(a) /\ a.data \in Config
        /\ [a EXCEPT !.at = "write"] = [at |-> "write", then |-> a.then, old |-> a.old, data |-> a.data]
    BY <1>0, <1>2, Shape DEF Open
  <2>2. [a EXCEPT !.at = "write"] \in Doing \cup {Idle}
    BY <2>1, Written DEF Saving
  <2>3. actor' \in [Actor -> Doing \cup {Idle}]
    BY <1>2, <2>2, TypeOfGoto DEF Open
  <2> QED BY <1>2, <1>n, <2>3 DEF Open, TypeOK
<1>3. CASE Write(x)
  <2>1. Saving(a) /\ a.data \in Config
    BY <1>0, <1>3, Shape DEF Write
  <2>2. AfterSave(a) \in Doing \cup {Idle}
    BY <2>1, Written DEF Saving, AfterSave
  <2>3. actor' \in [Actor -> Doing \cup {Idle}]
    BY <1>3, <2>2, TypeOfGoto DEF Write
  <2> QED BY <1>3, <1>n, <2>1, <2>3 DEF Write, TypeOK
<1>4. CASE Mark(x)
  <2>1. a.old \in Config \cup {None}
    BY <1>0, <1>4, Shape DEF Mark
  <2>2. actor' \in [Actor -> Doing \cup {Idle}]
    BY <1>4, TypeOfGoto DEF Mark
  <2> QED BY <1>4, <1>n, <2>1, <2>2 DEF Mark, TypeOK
<1>5. CASE Clear(x)
  <2>1. a.old \in Config \cup {None} /\ [a EXCEPT !.at = "read"] = [at |-> "read", old |-> a.old]
    BY <1>0, <1>5, Shape DEF Clear
  <2>2. [a EXCEPT !.at = "read"] \in Doing \cup {Idle}
    BY <2>1, Written
  <2>3. actor' \in [Actor -> Doing \cup {Idle}]
    BY <1>5, <2>2, TypeOfGoto DEF Clear
  <2> QED BY <1>5, <1>n, <2>3, EmptyIsConfig DEF Clear, TypeOK
<1>6. CASE Read(x)
  <2>1. a.old \in Config \cup {None}
    BY <1>0, <1>6, Shape DEF Read
  <2>2. NotParsed(a.old) \in Doing \cup {Idle} /\ [at |-> "correct", old |-> a.old] \in Doing \cup {Idle}
    BY <2>1, Written DEF NotParsed
  <2>3. actor' \in [Actor -> Doing \cup {Idle}]
    BY <1>6, <2>2, TypeOfGoto DEF Read
  <2>4. cfg' \in Config
    BY <1>6 DEF Read, TypeOK
  <2> QED BY <1>6, <1>n, <2>3, <2>4 DEF Read, TypeOK
<1>7. CASE Correct(x)
  <2>1. a.old \in Config \cup {None}
    BY <1>0, <1>7, Shape DEF Correct
  <2>2. Save("mark", a.old) \in Doing \cup {Idle}
    BY <2>1, Written
  <2>3. actor' \in [Actor -> Doing \cup {Idle}]
    BY <1>7, <2>2, TypeOfGoto DEF Correct
  <2>4. cfg' \in Config
    BY <1>7, CorrectedIsSafe DEF Correct, TypeOK
  <2> QED BY <1>7, <1>n, <2>3, <2>4 DEF Correct, TypeOK
<1> QED BY <1>1, <1>2, <1>3, <1>4, <1>5, <1>6, <1>7 DEF Working

LEMMA SaveFailsType ==
  ASSUME TypeOK, NEW x \in Actor, SaveFails(x)
  PROVE  TypeOK'
<1>1. Saving(actor[x])
  BY TypeOfActor, Shape DEF SaveFails
<1>2. AfterSave(actor[x]) \in Doing \cup {Idle}
  BY <1>1, Written DEF Saving, AfterSave
<1>3. actor' \in [Actor -> Doing \cup {Idle}]
  BY <1>2, TypeOfGoto DEF SaveFails
<1>4. raced' \in BOOLEAN
  BY Zenon DEF SaveFails, TypeOK
<1> QED BY <1>3, <1>4 DEF SaveFails, TypeOK

LEMMA CountedType ==
  ASSUME TypeOK, Counted
  PROVE  changes' \in 0..MaxChanges
  BY ValueAssumption DEF TypeOK, Counted

LEMMA BeginType ==
  ASSUME TypeOK, NEW x \in Actor, NEW do \in Doing \cup {Idle}, Begin(x, do)
  PROVE  actor' \in [Actor -> Doing \cup {Idle}] /\ raced' \in BOOLEAN
<1>1. actor' \in [Actor -> Doing \cup {Idle}]
  BY TypeOfGoto DEF Begin
<1>2. raced' \in BOOLEAN
  BY Zenon DEF Begin, TypeOK
<1> QED BY <1>1, <1>2

LEMMA WatchingType ==
  ASSUME TypeOK, Watching
  PROVE  TypeOK'
<1>0. Watcher \in Actor
  BY DEF Actor
<1>1. CASE Poll
  BY <1>0, <1>1, Written, BeginType DEF Poll, TypeOK
<1>2. CASE Parsable
  <2>1. actor' \in [Actor -> Doing \cup {Idle}]
    BY <1>0, <1>2, Written, TypeOfGoto DEF Parsable
  <2> QED BY <1>2, <2>1 DEF Parsable, TypeOK
<1>3. CASE Snapshot
  <2>1. actor' \in [Actor -> Doing \cup {Idle}]
    BY <1>0, <1>3, Written, TypeOfGoto DEF Snapshot, TypeOK
  <2> QED BY <1>3, <2>1 DEF Snapshot, TypeOK
<1> QED BY <1>1, <1>2, <1>3 DEF Watching

\* A part of a configuration exchanged is a configuration.
LEMMA ExchangedIsConfig ==
  ASSUME NEW c \in Config
  PROVE  /\ \A s \in Setting : /\ [c EXCEPT !.set = s] \in Config
                               /\ [c EXCEPT !.set = s].typed = c.typed
         /\ \A t \in Typed : /\ [c EXCEPT !.typed = t] \in Config
                             /\ [c EXCEPT !.typed = t].set = c.set
  BY DEF Config

LEMMA ServingType ==
  ASSUME TypeOK, NEW h \in Handler, Serving(h)
  PROVE  TypeOK'
<1>0. h \in Actor
  BY DEF Actor
<1>1. ASSUME NEW s \in Setting, PostRead(h, s) PROVE TypeOK'
  <2>1. [at |-> "post", seen |-> cfg, set |-> s] \in Doing \cup {Idle}
    BY Written DEF TypeOK
  <2>2. actor' \in [Actor -> Doing \cup {Idle}] /\ raced' \in BOOLEAN
    BY <1>0, <1>1, <2>1, BeginType DEF PostRead
  <2>3. changes' \in 0..MaxChanges
    BY <1>1, CountedType DEF PostRead
  <2> QED BY <1>1, <2>2, <2>3 DEF PostRead, TypeOK
<1>2. ASSUME NEW s \in Setting, Toggle(h, s) PROVE TypeOK'
  <2>1. Save("mark", None) \in Doing \cup {Idle}
    BY Written
  <2>2. actor' \in [Actor -> Doing \cup {Idle}] /\ raced' \in BOOLEAN
    BY <1>0, <1>2, <2>1, BeginType DEF Toggle
  <2>3. changes' \in 0..MaxChanges
    BY <1>2, CountedType DEF Toggle
  <2>4. cfg' \in Config
    BY <1>2, ExchangedIsConfig DEF Toggle, TypeOK
  <2> QED BY <1>2, <2>2, <2>3, <2>4 DEF Toggle, TypeOK
<1>3. CASE PostWrite(h)
  <2>1. actor[h].seen \in Config /\ actor[h].set \in Setting
    BY <1>0, <1>3, TypeOfActor, Shape DEF PostWrite
  <2>2. cfg' \in Config
    BY <1>3, <2>1, ExchangedIsConfig DEF PostWrite
  <2>3. actor' \in [Actor -> Doing \cup {Idle}]
    BY <1>0, <1>3, Written, TypeOfGoto DEF PostWrite
  <2> QED BY <1>3, <2>2, <2>3 DEF PostWrite, TypeOK
<1>4. CASE Revert(h)
  <2>1. Save("load", None) \in Doing \cup {Idle}
    BY Written
  <2>2. actor' \in [Actor -> Doing \cup {Idle}] /\ raced' \in BOOLEAN
    BY <1>0, <1>4, <2>1, BeginType DEF Revert
  <2>3. changes' \in 0..MaxChanges
    BY <1>4, CountedType DEF Revert
  <2> QED BY <1>4, <2>2, <2>3 DEF Revert, TypeOK
<1>5. CASE PostFails(h)
  <2>1. actor[h].seen \in Config /\ actor[h].set \in Setting
    BY <1>0, <1>5, TypeOfActor, Shape DEF PostFails
  <2>2. actor[h].seen.set \in Setting \cup {Normal}
    BY <2>1 DEF Config
  <2>3. PICK s \in {actor[h].seen.set, actor[h].set} : cfg' = [actor[h].seen EXCEPT !.set = s]
    BY <1>5 DEF PostFails
  <2>4. cfg' \in Config
    BY <2>1, <2>2, <2>3 DEF Config
  <2>5. actor' \in [Actor -> Doing \cup {Idle}]
    BY <1>0, <1>5, TypeOfGoto DEF PostFails
  <2>6. apart' \in BOOLEAN
    BY <1>5, Zenon DEF PostFails, TypeOK
  <2> QED BY <1>5, <2>4, <2>5, <2>6 DEF PostFails, TypeOK
<1> QED BY <1>1, <1>2, <1>3, <1>4, <1>5 DEF Serving

LEMMA NextType == TypeOK /\ [Next]_vars => TypeOK'
<1> SUFFICES ASSUME TypeOK, [Next]_vars PROVE TypeOK'
  OBVIOUS
<1>1. ASSUME NEW t \in Typed, Edit(t) PROVE TypeOK'
  <2>1. changes' \in 0..MaxChanges
    BY <1>1, CountedType DEF Edit
  <2>2. file' \in Config
    BY <1>1, ExchangedIsConfig DEF Edit, TypeOK
  <2>3. raced' \in BOOLEAN
    BY <1>1, Zenon DEF Edit, TypeOK
  <2> QED BY <1>1, <2>1, <2>2, <2>3 DEF Edit, TypeOK
<1>2. CASE Restart
  <2>1. changes' \in 0..MaxChanges
    BY <1>2, CountedType DEF Restart
  <2>2. cfg' \in Config /\ file' \in Config \cup {Half}
    BY <1>2, BootIsSafe DEF Restart, TypeOK
  <2>3. raced' \in BOOLEAN /\ apart' \in BOOLEAN
    BY <1>2, Zenon DEF Restart
  <2> QED BY <1>2, <2>1, <2>2, <2>3 DEF Restart, TypeOK
<1>3. CASE UNCHANGED vars
  BY <1>3 DEF vars, TypeOK
<1> QED BY <1>1, <1>2, <1>3, WorkingType, SaveFailsType, WatchingType, ServingType DEF Next

-----------------------------------------------------------------------------
(* The order among the parties while none has met another. *)

LEMMA GoesTo ==
  ASSUME TypeOK, NEW x \in Actor, NEW do, Goto(x, do)
  PROVE  actor'[x] = do /\ \A y \in Actor \ {x} : actor'[y] = actor[y]
  BY DEF TypeOK, Goto

\* A party that works alone takes a step and goes on, or has done.
LEMMA StillAlone ==
  ASSUME TypeOK, Orderly, NEW x \in Actor, actor[x] # Idle,
         NEW do, Goto(x, do),
         do # Idle => Alone(x)',
         do = Idle => Calm' /\ file' # Half
  PROVE  Orderly'
<1>1. actor'[x] = do /\ \A y \in Actor \ {x} : actor'[y] = actor[y]
  BY GoesTo
<1>2. \A y \in Actor \ {x} : actor'[y] = Idle
  BY <1>1 DEF Orderly
<1>3. (\A y, z \in Actor : actor[y] # Idle /\ actor[z] # Idle => y = z)'
  BY <1>2
<1>4. Resting' => Calm' /\ file' # Half
  BY <1>1 DEF Resting
<1>5. (\A y \in Actor : actor[y] # Idle => Alone(y))'
  BY <1>1, <1>2
<1> QED BY <1>3, <1>4, <1>5 DEF Orderly

LEMMA MetNobody ==
  ASSUME TypeOK, ~raced, Orderly, NEW x \in Actor, NEW do, Begin(x, do), ~raced'
  PROVE  Resting /\ Calm /\ file # Half
<1>1. ~Meets(x) /\ actor[x] = Idle
  BY DEF Begin
<1>2. Resting
  BY <1>1 DEF Meets, Resting
<1> QED BY <1>2 DEF Orderly

LEMMA BeginsAlone ==
  ASSUME TypeOK, Resting, NEW x \in Actor, NEW do, Goto(x, do), do # Idle, Alone(x)'
  PROVE  Orderly'
<1>1. actor'[x] = do /\ \A y \in Actor \ {x} : actor'[y] = Idle
  BY GoesTo DEF Resting
<1>2. (\A y, z \in Actor : actor[y] # Idle /\ actor[z] # Idle => y = z)'
  BY <1>1
<1>3. ~Resting'
  BY <1>1 DEF Resting
<1>4. (\A y \in Actor : actor[y] # Idle => Alone(y))'
  BY <1>1
<1> QED BY <1>2, <1>3, <1>4 DEF Orderly

LEMMA InitOrderly == Init => Orderly
  BY EmptyIsConfig, NoConfigAssumption DEF Init, Orderly, Resting, Calm, Safe

LEMMA WorkingOrderly ==
  ASSUME TypeOK, Orderly, NEW x \in Actor, Working(x)
  PROVE  Orderly'
<1> DEFINE a == actor[x]
<1>0. a \in Doing \cup {Idle}
  BY TypeOfActor
<1>a. a # Idle
  BY DEF Working, Marshal, Open, Write, Mark, Clear, Read, Correct, Idle
<1>b. Alone(x)
  BY <1>a DEF Orderly
<1>1. CASE Marshal(x)
  <2> DEFINE do == [at |-> "open", then |-> a.then, old |-> a.old, data |-> cfg]
  <2>1. Goto(x, do) /\ do # Idle /\ actor'[x] = do
    BY <1>1, GoesTo DEF Marshal, Idle
  <2>2. Alone(x)'
    BY <1>1, <1>b, <2>1 DEF Marshal, Alone, Safe
  <2> QED BY <1>a, <2>1, <2>2, StillAlone
<1>2. CASE Open(x)
  <2> DEFINE do == [a EXCEPT !.at = "write"]
  <2>1. do = [at |-> "write", then |-> a.then, old |-> a.old, data |-> a.data]
    BY <1>0, <1>2, Shape DEF Open
  <2>2. Goto(x, do) /\ do # Idle /\ actor'[x] = do
    BY <1>2, <2>1, GoesTo DEF Open, Idle
  <2>3. Alone(x)'
    BY <1>2, <1>b, <2>1, <2>2 DEF Open, Alone, Safe
  <2> QED BY <1>a, <2>2, <2>3, StillAlone
<1>3. CASE Write(x)
  <2>1. Saving(a) /\ a.data \in Config
    BY <1>0, <1>3, Shape DEF Write
  <2>2. a.data = cfg /\ a.then # "load" => Safe
    BY <1>3, <1>b DEF Write, Alone
  <2>3. file' = cfg /\ file' # Half /\ cfg' = cfg /\ last' = last
    BY <1>3, <1>b, <2>1, NoConfigAssumption DEF Write, Alone
  <2>p. a.then = "done" => (apart => apart')
    BY <1>3, Zenon DEF Write
  <2>4. Goto(x, AfterSave(a)) /\ actor'[x] = AfterSave(a)
    BY <1>3, GoesTo DEF Write
  <2>5. CASE a.then = "load"
    <3>1. AfterSave(a) = [at |-> "clear", old |-> a.old]
      BY <2>5 DEF AfterSave
    <3>2. AfterSave(a) # Idle /\ Alone(x)'
      BY <2>3, <2>4, <3>1 DEF Alone, Idle
    <3> QED BY <1>a, <2>4, <3>2, StillAlone
  <2>6. CASE a.then = "mark"
    <3>1. AfterSave(a) = [at |-> "mark", old |-> a.old]
      BY <2>6 DEF AfterSave
    <3>2. AfterSave(a) # Idle /\ Alone(x)'
      BY <1>3, <1>b, <2>3, <2>4, <2>6, <3>1 DEF Alone, Idle, Safe, Write
    <3> QED BY <1>a, <2>4, <3>2, StillAlone
  <2>7. CASE a.then = "done"
    <3>1. AfterSave(a) = Idle
      BY <2>7 DEF AfterSave
    <3>2. Calm'
      BY <1>3, <1>b, <2>3, <2>p, <2>7 DEF Alone, Calm, Safe, Write
    <3> QED BY <1>a, <2>3, <2>4, <3>1, <3>2, StillAlone
  <2> QED BY <2>1, <2>5, <2>6, <2>7 DEF Saving
<1>4. CASE Mark(x)
  <2>1. Calm' /\ file' # Half
    BY <1>4, <1>b DEF Mark, Alone, Calm, Safe
  <2> QED BY <1>4, <1>a, <2>1, StillAlone DEF Mark
<1>5. CASE Clear(x)
  <2> DEFINE do == [a EXCEPT !.at = "read"]
  <2>1. do = [at |-> "read", old |-> a.old]
    BY <1>0, <1>5, Shape DEF Clear
  <2>2. Goto(x, do) /\ do # Idle /\ actor'[x] = do
    BY <1>5, <2>1, GoesTo DEF Clear, Idle
  <2>3. Alone(x)'
    BY <1>5, <1>b, <2>1, <2>2 DEF Clear, Alone
  <2> QED BY <1>a, <2>2, <2>3, StillAlone
<1>6. CASE Read(x)
  <2> DEFINE do == [at |-> "correct", old |-> a.old]
  <2>1. file # Half
    BY <1>6, <1>b DEF Read, Alone
  <2>2. Goto(x, do) /\ do # Idle /\ actor'[x] = do /\ cfg' = file /\ file' = file
    BY <1>6, <2>1, GoesTo DEF Read, Idle
  <2>3. Alone(x)'
    BY <2>1, <2>2 DEF Alone
  <2> QED BY <1>a, <2>2, <2>3, StillAlone
<1>7. CASE Correct(x)
  <2> DEFINE do == Save("mark", a.old)
  <2>1. Goto(x, do) /\ do # Idle /\ actor'[x] = do
    BY <1>7, GoesTo DEF Correct, Idle, Save
  <2>2. cfg'.typed \notin Unsafe /\ file' # Half
    BY <1>7, <1>b, CorrectedIsSafe DEF Correct, Alone, TypeOK
  <2>3. actor'[x].at = "marshal" /\ actor'[x].then = "mark"
    BY <2>1 DEF Save
  <2>4. Alone(x)'
    BY <2>2, <2>3 DEF Alone, Safe
  <2> QED BY <1>a, <2>1, <2>4, StillAlone
<1> QED BY <1>1, <1>2, <1>3, <1>4, <1>5, <1>6, <1>7 DEF Working

LEMMA SaveFailsOrderly ==
  ASSUME TypeOK, Orderly, NEW x \in Actor, SaveFails(x), ~raced'
  PROVE  Orderly'
<1> DEFINE a == actor[x]
<1>0. a # Idle
  BY DEF SaveFails, Idle
<1>r. a.at # "write"
  BY Zenon DEF SaveFails
<1>1. a # Idle /\ a.at = "open"
  BY <1>0, <1>r DEF SaveFails
<1>2. Alone(x) /\ Saving(a)
  BY <1>1, TypeOfActor, Shape DEF Orderly
<1>3. Goto(x, AfterSave(a)) /\ actor'[x] = AfterSave(a)
  BY GoesTo DEF SaveFails
<1>4. apart' /\ cfg' = cfg /\ file' = file /\ file # Half
  BY <1>1, <1>2 DEF SaveFails, Alone
<1>5. CASE a.then = "load"
  <2>1. AfterSave(a) = [at |-> "clear", old |-> a.old]
    BY <1>5 DEF AfterSave
  <2>2. AfterSave(a) # Idle /\ Alone(x)'
    BY <1>3, <1>4, <2>1 DEF Alone, Idle
  <2> QED BY <1>1, <1>3, <2>2, StillAlone
<1>6. CASE a.then = "mark"
  <2>1. AfterSave(a) = [at |-> "mark", old |-> a.old]
    BY <1>6 DEF AfterSave
  <2>2. AfterSave(a) # Idle /\ Alone(x)'
    BY <1>1, <1>2, <1>3, <1>4, <1>6, <2>1 DEF Alone, Idle, Safe
  <2> QED BY <1>1, <1>3, <2>2, StillAlone
<1>7. CASE a.then = "done"
  <2>1. AfterSave(a) = Idle
    BY <1>7 DEF AfterSave
  <2>2. Calm'
    BY <1>1, <1>2, <1>4, <1>7 DEF Alone, Calm, Safe
  <2> QED BY <1>1, <1>3, <1>4, <2>1, <2>2, StillAlone
<1> QED BY <1>2, <1>5, <1>6, <1>7 DEF Saving

LEMMA WatchingOrderly ==
  ASSUME TypeOK, ~raced => Orderly, Watching, ~raced'
  PROVE  Orderly'
<1>0. Watcher \in Actor
  BY DEF Actor
<1>r. Orderly
  BY DEF Watching, Poll, Parsable, Snapshot, Begin
<1>1. CASE Poll
  <2>1. Begin(Watcher, [at |-> "parsable"]) /\ Goto(Watcher, [at |-> "parsable"])
    BY <1>1 DEF Poll, Begin
  <2>2. ~raced
    BY <2>1, Zenon DEF Begin
  <2>3. Resting /\ Calm /\ file # Half
    BY <1>0, <1>r, <2>1, <2>2, MetNobody
  <2>4. actor'[Watcher] = [at |-> "parsable"]
    BY <1>0, <2>1, GoesTo
  <2>5. Alone(Watcher)'
    BY <1>1, <2>3, <2>4 DEF Poll, Alone, Calm, Safe
  <2>6. [at |-> "parsable"] # Idle
    BY DEF Idle
  <2> QED BY <1>0, <2>1, <2>3, <2>5, <2>6, BeginsAlone
<1>2. CASE Parsable
  <2>1. actor[Watcher] # Idle
    BY <1>2 DEF Parsable, Idle
  <2>2. Alone(Watcher)
    BY <1>0, <1>r, <2>1 DEF Orderly
  <2>3. file # Half /\ Calm
    BY <1>2, <2>2 DEF Parsable, Alone
  <2>4. Goto(Watcher, [at |-> "snapshot"])
    BY <1>2, <2>3 DEF Parsable
  <2>5. actor'[Watcher] = [at |-> "snapshot"]
    BY <1>0, <2>4, GoesTo
  <2>6. Alone(Watcher)'
    BY <1>2, <2>3, <2>5 DEF Parsable, Alone, Calm, Safe
  <2>7. [at |-> "snapshot"] # Idle
    BY DEF Idle
  <2> QED BY <1>0, <1>r, <2>1, <2>4, <2>6, <2>7, StillAlone
<1>3. CASE Snapshot
  <2>1. actor[Watcher] # Idle
    BY <1>3 DEF Snapshot, Idle
  <2>2. Alone(Watcher)
    BY <1>0, <1>r, <2>1 DEF Orderly
  <2>3. Goto(Watcher, [at |-> "clear", old |-> cfg])
    BY <1>3 DEF Snapshot
  <2>4. actor'[Watcher] = [at |-> "clear", old |-> cfg]
    BY <1>0, <2>3, GoesTo
  <2>5. Alone(Watcher)'
    BY <1>3, <2>2, <2>4 DEF Snapshot, Alone
  <2>6. [at |-> "clear", old |-> cfg] # Idle
    BY DEF Idle
  <2> QED BY <1>0, <1>r, <2>1, <2>3, <2>5, <2>6, StillAlone
<1> QED BY <1>1, <1>2, <1>3 DEF Watching

LEMMA ServingOrderly ==
  ASSUME TypeOK, ~raced => Orderly, NEW h \in Handler, Serving(h), ~raced'
  PROVE  Orderly'
<1>0. h \in Actor
  BY DEF Actor
<1>1. ASSUME NEW s \in Setting, PostRead(h, s) PROVE Orderly'
  <2> DEFINE do == [at |-> "post", seen |-> cfg, set |-> s]
  <2>1. Begin(h, do) /\ Goto(h, do) /\ do # Idle
    BY <1>1 DEF PostRead, Begin, Idle
  <2>2. ~raced
    BY <2>1, Zenon DEF Begin
  <2>3. Resting /\ Calm /\ file # Half
    BY <1>0, <2>1, <2>2, MetNobody
  <2>4. actor'[h] = do
    BY <1>0, <2>1, GoesTo
  <2>5. Alone(h)'
    BY <1>1, <2>3, <2>4 DEF PostRead, Alone, Calm, Safe
  <2> QED BY <1>0, <2>1, <2>3, <2>5, BeginsAlone
<1>2. ASSUME NEW s \in Setting, Toggle(h, s) PROVE Orderly'
  <2> DEFINE do == Save("mark", None)
  <2>1. Begin(h, do) /\ Goto(h, do) /\ do # Idle
    BY <1>2 DEF Toggle, Begin, Idle, Save
  <2>2. ~raced
    BY <2>1, Zenon DEF Begin
  <2>3. Resting /\ Calm /\ file # Half
    BY <1>0, <2>1, <2>2, MetNobody
  <2>4. actor'[h].at = "marshal" /\ actor'[h].then = "mark"
    BY <1>0, <2>1, GoesTo DEF Save
  <2>5. cfg'.typed \notin Unsafe /\ file' = file
    BY <1>2, <2>3, ExchangedIsConfig DEF Toggle, Calm, Safe, TypeOK
  <2>6. Alone(h)'
    BY <2>3, <2>4, <2>5 DEF Alone, Safe
  <2> QED BY <1>0, <2>1, <2>3, <2>6, BeginsAlone
<1>3. CASE PostWrite(h)
  <2> DEFINE do == Save("done", None)
  <2>1. actor[h] # Idle /\ Orderly
    BY <1>3 DEF PostWrite, Idle
  <2>2. Alone(h)
    BY <1>0, <2>1 DEF Orderly
  <2>3. Calm /\ file # Half /\ actor[h].seen = cfg
    BY <1>3, <2>2 DEF PostWrite, Alone
  <2>4. actor[h].seen \in Config /\ actor[h].set \in Setting
    BY <1>0, <1>3, TypeOfActor, Shape DEF PostWrite
  <2>5. cfg'.typed = cfg.typed
    BY <1>3, <2>3, <2>4, ExchangedIsConfig DEF PostWrite
  <2>6. Goto(h, do) /\ do # Idle
    BY <1>3 DEF PostWrite, Idle, Save
  <2>7. actor'[h].at = "marshal"
    BY <1>0, <2>6, GoesTo DEF Save
  <2>8. Alone(h)'
    BY <1>3, <2>3, <2>5, <2>7 DEF PostWrite, Alone, Calm, Safe
  <2> QED BY <1>0, <2>1, <2>6, <2>8, StillAlone
<1>4. CASE Revert(h)
  <2> DEFINE do == Save("load", None)
  <2>1. Begin(h, do) /\ Goto(h, do) /\ do # Idle
    BY <1>4 DEF Revert, Begin, Idle, Save
  <2>2. ~raced
    BY <2>1, Zenon DEF Begin
  <2>3. Resting /\ file # Half
    BY <1>0, <2>1, <2>2, MetNobody
  <2>4. actor'[h].at = "marshal" /\ actor'[h].then = "load"
    BY <1>0, <2>1, GoesTo DEF Save
  <2>5. Alone(h)'
    BY <1>4, <2>3, <2>4 DEF Revert, Alone
  <2> QED BY <1>0, <2>1, <2>3, <2>5, BeginsAlone
<1>5. CASE PostFails(h)
  <2>1. actor[h] # Idle /\ Orderly
    BY <1>5 DEF PostFails, Idle
  <2>2. Calm /\ file # Half /\ actor[h].seen = cfg
    BY <1>0, <1>5, <2>1 DEF PostFails, Alone, Orderly
  <2>3. PICK s \in {actor[h].seen.set, actor[h].set} : cfg' = [actor[h].seen EXCEPT !.set = s]
    BY <1>5 DEF PostFails
  <2>4. cfg'.typed = cfg.typed
    BY <2>2, <2>3 DEF TypeOK, Config
  <2>5. cfg' = cfg \/ apart'
    BY <1>5, <2>2 DEF PostFails
  <2>6. (apart => apart') /\ last' = last /\ file' = file
    BY <1>5 DEF PostFails
  <2>7. Calm' /\ file' # Half
    BY <2>2, <2>4, <2>5, <2>6 DEF Calm, Safe
  <2> QED BY <1>0, <1>5, <2>1, <2>7, StillAlone DEF PostFails
<1> QED BY <1>1, <1>2, <1>3, <1>4, <1>5 DEF Serving

LEMMA NextOrderly ==
  ASSUME TypeOK, ~raced => Orderly, [Next]_vars, ~raced'
  PROVE  Orderly'
<1>1. ASSUME NEW x \in Actor, Working(x) PROVE Orderly'
  <2>1. Orderly
    BY <1>1 DEF Working, Marshal, Open, Write, Mark, Clear, Read, Correct
  <2> QED BY <1>1, <2>1, WorkingOrderly
<1>f. ASSUME NEW x \in Actor, SaveFails(x) PROVE Orderly'
  <2>1. Orderly
    BY <1>f, Zenon DEF SaveFails
  <2> QED BY <1>f, <2>1, SaveFailsOrderly
<1>2. ASSUME NEW t \in Typed, Edit(t) PROVE Orderly'
  <2>1. ~raced /\ Resting
    BY <1>2, Zenon DEF Edit
  <2>2. Calm
    BY <2>1 DEF Orderly
  <2>3. file \in Config
    BY <1>2 DEF Edit, TypeOK
  <2>4. file' \in Config /\ file'.set = file.set
    BY <1>2, <2>3, ExchangedIsConfig DEF Edit
  <2>5. Calm' /\ file' # Half
    BY <1>2, <2>2, <2>4, NoConfigAssumption DEF Edit, Calm, Safe
  <2> QED BY <1>2, <2>1, <2>5 DEF Edit, Orderly, Resting
<1>3. CASE Restart
  <2>1. file' # Half /\ last' = file'
    BY <1>3 DEF Restart
  <2>2. cfg'.typed \notin Unsafe
    BY <1>3, BootIsSafe DEF Restart, TypeOK
  <2>3. apart' \/ cfg' = file'
    BY <1>3 DEF Restart
  <2>4. \A x \in Actor : actor'[x] = Idle
    BY <1>3 DEF Restart
  <2>5. Calm' /\ file' # Half
    BY <2>1, <2>2, <2>3 DEF Calm, Safe
  <2> QED BY <2>4, <2>5 DEF Orderly
<1>4. CASE UNCHANGED vars
  BY <1>4 DEF vars, Orderly, Resting, Calm, Safe, Alone
<1> QED BY <1>1, <1>f, <1>2, <1>3, <1>4, WatchingOrderly, ServingOrderly DEF Next

-----------------------------------------------------------------------------
(* The theorems. *)

LEMMA InitIInv == Init => IInv
  BY InitType, InitOrderly DEF IInv

LEMMA NextIInv == IInv /\ [Next]_vars => IInv'
  BY NextType, NextOrderly DEF IInv

LEMMA IInvAgrees == IInv => AgreeUnlessRaced
<1> SUFFICES ASSUME IInv, Resting, ~Changed, ~raced
             PROVE  cfg.typed \notin Unsafe /\ (cfg = file \/ apart)
  BY DEF AgreeUnlessRaced
<1>1. Calm /\ file # Half
  BY DEF IInv, Orderly
<1>2. cfg \in Config /\ file \in Config
  BY <1>1 DEF IInv, TypeOK
<1>3. apart \/ (cfg.typed = file.typed /\ cfg.set = file.set)
  BY <1>1 DEF Calm, Changed
<1> QED BY <1>1, <1>2, <1>3 DEF Config, Calm, Safe

\* Configurations, files and steps keep their shape, whatever meets.
THEOREM TypeCorrect == Spec => []TypeOK
  BY InitType, NextType, PTL DEF Spec

\* While nobody is at work, the configuration in memory is a safe one and the
\* file's, unless two of the parties met or a write was cut off; memory alone has
\* what a refused call had set, what a failed save left out and the list a start
\* took back (loadConfig, saveConfig, watchConfig, wlReconcile, revertConfig and
\* the calls that save).
THEOREM Agree == Spec => []AgreeUnlessRaced
<1>1. Spec => []IInv
  BY InitIInv, NextIInv, PTL DEF Spec
<1> QED BY <1>1, IInvAgrees, PTL

=============================================================================

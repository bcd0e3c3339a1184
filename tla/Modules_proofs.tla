--------------------------- MODULE Modules_proofs ---------------------------
(***************************************************************************)
(* Proofs about what is switched and run: modules and their workers        *)
(* (ModuleHost), and the choices and models that they go by (Guards).      *)
(*                                                                         *)
(* ModuleHost: for any registry whose dependencies have no dependencies,   *)
(* any number of handlers and watchers, and any workers: type correctness, *)
(* the closure of the dependencies, and the agreement of workers and       *)
(* switches wherever two reconciliations have not met.                     *)
(*                                                                         *)
(* Guards: that what a user chose is what happens (Profiles), and that     *)
(* engines, files and lists are what they are said to be (ModelRunner).    *)
(***************************************************************************)
EXTENDS ModuleHost, Guards, Sequences, FiniteSets, FiniteSetTheorems, SequenceTheorems,
        WellFoundedInduction, FunctionTheorems, TLAPS

\* No two modules share a worker, and a worker in the table works for its
\* module or has come to its end.
TableSound ==
  /\ \A m, n \in HasWorker : table[m] # None /\ table[m] = table[n] => m = n
  /\ \A m \in HasWorker : table[m] # None => runs[table[m]] \in {m, None}

\* What holds of a module that has been reconciled by one at a time: at most
\* one handles it, that one acts on the switch as it is, and has emptied the
\* table's place before it fills it.
OneByOne(m) ==
  /\ Live(m) \subseteq {table[m]}
  /\ \A a, b \in Actor : At(a, m) /\ At(b, m) => a = b
  /\ \A a \in Actor : At(a, m) /\ actor[a].at = "start" => table[m] = None
  /\ m \notin due =>
       /\ (\A a \in Actor : ~At(a, m)) => (m \in on <=> table[m] # None)
       /\ \A a \in Actor : At(a, m) =>
            IF actor[a].at = "stop" THEN actor[a].start <=> m \in on ELSE m \in on

\* The inductive invariant.
IInv ==
  /\ TypeOK
  /\ DepsClosed
  /\ TableSound
  /\ \A m \in HasWorker \ clash : OneByOne(m)

-----------------------------------------------------------------------------
(* The closures. *)

LEMMA HasWorkerType ==
  /\ HasWorker \subseteq Module
  /\ \A i \in DOMAIN WorkerSeq : WorkerSeq[i] \in HasWorker
  /\ DOMAIN WorkerSeq = 1 .. Len(WorkerSeq) /\ Len(WorkerSeq) \in Nat
  BY RegistryAssumption DEF HasWorker, Range

LEMMA WithDepsClosed ==
  ASSUME NEW S \in SUBSET Module
  PROVE  WithDeps(S) \in SUBSET Module /\ Closed(WithDeps(S))
<1>1. WithDeps(S) \subseteq Module
  BY RegistryAssumption DEF WithDeps
<1>2. ASSUME NEW m \in WithDeps(S)
      PROVE  Deps[m] \subseteq WithDeps(S)
  BY RegistryAssumption DEF WithDeps
<1> QED
  BY <1>1, <1>2 DEF Closed

LEMMA MetClosed ==
  ASSUME NEW S \in SUBSET Module
  PROVE  Met(S) \in SUBSET Module /\ Closed(Met(S))
<1>1. ASSUME NEW m \in Met(S), NEW d \in Deps[m]
      PROVE  d \in Met(S)
  BY RegistryAssumption DEF Met
<1> QED
  BY <1>1 DEF Met, Closed

-----------------------------------------------------------------------------
(* The invariant holds initially. *)

LEMMA InitIInv ==
  ASSUME Init
  PROVE  IInv
<1>1. on \in SUBSET Module /\ Closed(on)
  BY MetClosed DEF Init
<1>2. ASSUME NEW m \in HasWorker, NEW w \in Worker, runs[w] = m
      PROVE  table[m] = w
  BY <1>2, NoneAssumption, HasWorkerType DEF Init
<1>3. ASSUME NEW m \in HasWorker, table[m] # None
      PROVE  runs[table[m]] = m
  BY <1>3, NoneAssumption DEF Init
<1>4. TypeOK
  <2>1. runs \in [Worker -> HasWorker \cup {None}]
    BY DEF Init
  <2> QED
    BY <1>1, <2>1 DEF Init, TypeOK, Doing, Idle
<1>5. DepsClosed
  BY <1>1 DEF DepsClosed
<1>6. TableSound
  BY <1>3 DEF TableSound, Init
<1>7. \A m \in HasWorker \ clash : OneByOne(m)
  BY <1>2 DEF OneByOne, Live, At, Init, Idle
<1> QED
  BY <1>4, <1>5, <1>6, <1>7 DEF IInv

-----------------------------------------------------------------------------
(* The steps.  Those that switch leave the table and the goroutines alone,  *)
(* and what they change of a switch they note as due.                       *)

\* Where a step that switches leaves its actor: not in the middle of a module.
Away(do) == do.at \notin {"stop", "start"}

LEMMA SwitchOneByOne ==
  ASSUME IInv, NEW a \in Actor, NEW do \in Doing \cup {Idle}, Away(do), Away(actor[a]),
         UNCHANGED <<table, runs, clash>>, Goto(a, do),
         \/ \E S \in SUBSET Module : SwitchTo(S)
         \/ UNCHANGED <<on, due>>
  PROVE  TableSound' /\ (\A m \in HasWorker \ clash : OneByOne(m))'
<1>1. actor \in [Actor -> Doing \cup {Idle}]
  BY DEF IInv, TypeOK
<1>2. ASSUME NEW b \in Actor, NEW m
      PROVE  /\ At(b, m)' <=> At(b, m)
             /\ At(b, m) => actor'[b] = actor[b]
  BY <1>1 DEF Goto, At, Away
<1>3. ASSUME NEW m \in HasWorker, m \notin due'
      PROVE  m \notin due /\ (m \in on' <=> m \in on)
  BY <1>3 DEF SwitchTo
<1>4. TableSound'
  BY DEF IInv, TableSound
<1>5. ASSUME NEW m \in HasWorker \ clash
      PROVE  OneByOne(m)'
  <2>1. OneByOne(m)
    BY DEF IInv
  <2>2. Live(m)' = Live(m)
    BY DEF Live
  <2> QED
    BY <1>2, <1>3, <2>1, <2>2 DEF OneByOne
<1> QED
  BY <1>4, <1>5

LEMMA VisitType ==
  ASSUME NEW a \in Actor, NEW i \in Nat \ {0}, Visit(a, i)
  PROVE  \E do \in Doing \cup {Idle} : Away(do) /\ Goto(a, do)
<1>1. CASE Over(i)
  BY <1>1 DEF Visit, Idle, Away
<1>2. CASE ~Over(i)
  <2>1. i \in DOMAIN WorkerSeq
    BY <1>2, HasWorkerType DEF Over
  <2>2. [at |-> "next", i |-> i] \in Doing
    BY <2>1 DEF Doing
  <2> QED
    BY <1>2, <2>2 DEF Visit, Away
<1> QED
  BY <1>1, <1>2

LEMMA GotoType ==
  ASSUME TypeOK, NEW a \in Actor, NEW do \in Doing \cup {Idle}, Goto(a, do)
  PROVE  actor' \in [Actor -> Doing \cup {Idle}]
BY DEF TypeOK, Goto

\* What a switching step has to show for itself: its types, and the closure.
LEMMA SwitchKeeps ==
  ASSUME IInv, NEW a \in Actor, NEW do \in Doing \cup {Idle}, Away(do), Away(actor[a]),
         UNCHANGED <<table, runs, clash>>, Goto(a, do),
         \/ \E S \in SUBSET Module : SwitchTo(S)
         \/ UNCHANGED <<on, due>>,
         conf' \in SUBSET Module, shared' \in BOOLEAN, touched' \in BOOLEAN,
         DepsClosed'
  PROVE  IInv'
<1>1. TableSound' /\ (\A m \in HasWorker \ clash : OneByOne(m))'
  BY SwitchOneByOne
<1>2. actor' \in [Actor -> Doing \cup {Idle}]
  BY GotoType DEF IInv
<1>3. on' \in SUBSET Module /\ due' \in SUBSET HasWorker
  BY DEF IInv, TypeOK, SwitchTo
<1>4. TypeOK'
  BY <1>2, <1>3 DEF IInv, TypeOK
<1> QED
  BY <1>1, <1>4 DEF IInv

LEMMA IdleAway == Idle \in Doing \cup {Idle} /\ Away(Idle)
  BY DEF Idle, Away

LEMMA ToggleKeeps ==
  ASSUME IInv, NEW a \in Actor, NEW m \in Module, NEW b \in BOOLEAN, Toggle(a, m, b)
  PROVE  IInv'
<1> DEFINE next == IF b THEN WithDeps(on \cup {m}) ELSE on \ {m}
<1>1. on \in SUBSET Module
  BY DEF IInv, TypeOK
<1>2. next \in SUBSET Module
  BY <1>1, WithDepsClosed
<1>3. SwitchTo(next) /\ conf' = next /\ shared' = TRUE /\ actor[a] = Idle
  BY DEF Toggle
<1>4. touched' \in BOOLEAN
  BY DEF Toggle, IInv, TypeOK
<1>5. DepsClosed'
  <2>1. CASE b
    <3>1. on' = WithDeps(on \cup {m})
      BY <2>1, <1>3 DEF SwitchTo
    <3> QED
      BY <3>1, <1>1, WithDepsClosed DEF DepsClosed, Closed
  <2>2. CASE ~b
    <3>1. on' = on \ {m} /\ touched' = touched /\ ~Needed(m)
      BY <2>2, <1>3 DEF SwitchTo, Toggle, IInv, TypeOK
    <3> QED
      BY <3>1 DEF IInv, DepsClosed, Closed, Needed
  <2> QED
    BY <2>1, <2>2
<1>6. PICK do \in Doing \cup {Idle} : Away(do) /\ Goto(a, do)
  BY VisitType DEF Toggle
<1>7. UNCHANGED <<table, runs, clash>>
  BY DEF Toggle
<1> HIDE DEF next
<1> QED
  BY <1>2, <1>3, <1>4, <1>5, <1>6, <1>7, IdleAway, SwitchKeeps

LEMMA ProfileKeeps ==
  ASSUME IInv, NEW a \in Actor, NEW S \in SUBSET Module, Profile(a, S)
  PROVE  IInv'
<1>1. WithDeps(S) \in SUBSET Module /\ Closed(WithDeps(S))
  BY WithDepsClosed
<1>2. on' = WithDeps(S) /\ touched' = FALSE /\ shared' = FALSE
  BY DEF Profile, SwitchTo
<1>3. DepsClosed'
  BY <1>1, <1>2 DEF DepsClosed, Closed
<1>4. PICK do \in Doing \cup {Idle} : Away(do) /\ Goto(a, do)
  BY VisitType DEF Profile
<1>5. /\ actor[a] = Idle /\ SwitchTo(WithDeps(S)) /\ conf' = WithDeps(S)
      /\ UNCHANGED <<table, runs, clash>>
  BY DEF Profile
<1> QED
  BY <1>1, <1>2, <1>3, <1>4, <1>5, IdleAway, SwitchKeeps

LEMMA WriteThroughKeeps ==
  ASSUME IInv, NEW S \in SUBSET Module, WriteThrough(S)
  PROVE  /\ \/ \E T \in SUBSET Module : SwitchTo(T)
            \/ UNCHANGED <<on, due>>
         /\ conf' \in SUBSET Module /\ shared' \in BOOLEAN /\ touched' \in BOOLEAN
         /\ DepsClosed'
<1>1. CASE shared
  <2>1. SwitchTo(S) /\ touched' = (touched \/ S # on)
    BY <1>1 DEF WriteThrough
  <2>2. DepsClosed'
    BY <2>1 DEF IInv, DepsClosed, Closed, SwitchTo
  <2> QED
    BY <2>1, <2>2 DEF WriteThrough, IInv, TypeOK
<1>2. CASE ~shared
  BY <1>2 DEF WriteThrough, IInv, TypeOK, DepsClosed, Closed
<1> QED
  BY <1>1, <1>2

LEMMA ApplyPersonaKeeps ==
  ASSUME IInv, NEW a \in Actor, NEW p \in Persona, ApplyPersona(a, p)
  PROVE  IInv'
<1> DEFINE S == (conf \cup p.set) \ p.clear
<1>1. S \in SUBSET Module
  BY RegistryAssumption DEF IInv, TypeOK
<1>2. WriteThrough(S) /\ actor[a] = Idle /\ UNCHANGED <<actor, table, runs, clash>>
  BY DEF ApplyPersona
<1>3. Goto(a, Idle)
  BY <1>2 DEF Goto, IInv, TypeOK
<1> HIDE DEF S
<1>4. /\ \/ \E T \in SUBSET Module : SwitchTo(T)
         \/ UNCHANGED <<on, due>>
      /\ conf' \in SUBSET Module /\ shared' \in BOOLEAN /\ touched' \in BOOLEAN
      /\ DepsClosed'
  BY <1>1, <1>2, WriteThroughKeeps
<1> QED
  BY <1>2, <1>3, <1>4, IdleAway, SwitchKeeps

LEMMA PostReadKeeps ==
  ASSUME IInv, NEW a \in Actor, NEW align \in BOOLEAN, PostRead(a, align)
  PROVE  IInv'
<1>1. PICK do \in Doing \cup {Idle} : Away(do) /\ Goto(a, do)
  BY DEF PostRead, IInv, TypeOK, Doing, Away
<1>2. actor[a] = Idle /\ UNCHANGED <<on, conf, shared, table, runs, due, clash, touched>>
  BY DEF PostRead
<1>3. conf' \in SUBSET Module /\ shared' \in BOOLEAN /\ touched' \in BOOLEAN /\ DepsClosed'
  BY <1>2 DEF IInv, TypeOK, DepsClosed, Closed
<1> QED
  BY <1>1, <1>2, <1>3, IdleAway, SwitchKeeps

LEMMA PostWriteKeeps ==
  ASSUME IInv, NEW a \in Actor, PostWrite(a)
  PROVE  IInv'
<1>1. actor[a] \in Doing \cup {Idle} /\ actor[a].at = "post"
  BY DEF PostWrite, IInv, TypeOK
<1>2. actor[a].snap \in SUBSET Module /\ Away(actor[a])
  BY <1>1 DEF Doing, Idle, Away
<1>3. WriteThrough(actor[a].snap) /\ UNCHANGED <<table, runs, clash>>
  BY DEF PostWrite
<1>4. /\ \/ \E T \in SUBSET Module : SwitchTo(T)
         \/ UNCHANGED <<on, due>>
      /\ conf' \in SUBSET Module /\ shared' \in BOOLEAN /\ touched' \in BOOLEAN
      /\ DepsClosed'
  BY <1>2, <1>3, WriteThroughKeeps
<1>5. Visit(a, 1) \/ Goto(a, Idle)
  BY DEF PostWrite
<1>6. PICK do \in Doing \cup {Idle} : Away(do) /\ Goto(a, do)
  BY <1>5, VisitType, IdleAway
<1> QED
  BY <1>2, <1>3, <1>4, <1>6, SwitchKeeps

LEMMA LoadKeeps ==
  ASSUME IInv, NEW a \in Actor, NEW S \in SUBSET Module, Load(a, S)
  PROVE  IInv'
<1>1. PICK do \in Doing \cup {Idle} : Away(do) /\ Goto(a, do)
  BY DEF Load, Doing, Away
<1>2. /\ actor[a] = Idle /\ conf' = S /\ shared' = FALSE
      /\ UNCHANGED <<on, table, runs, due, clash, touched>>
  BY DEF Load
<1>3. touched' \in BOOLEAN /\ DepsClosed'
  BY <1>2 DEF IInv, TypeOK, DepsClosed, Closed
<1> QED
  BY <1>1, <1>2, <1>3, IdleAway, SwitchKeeps

LEMMA ApplyModulesKeeps ==
  ASSUME IInv, NEW a \in Actor, ApplyModules(a)
  PROVE  IInv'
<1>1. Met(conf) \in SUBSET Module /\ Closed(Met(conf))
  BY MetClosed DEF IInv, TypeOK
<1>2. /\ SwitchTo(Met(conf)) /\ conf' = Met(conf) /\ shared' = FALSE /\ touched' = FALSE
      /\ UNCHANGED <<table, runs, clash>> /\ Away(actor[a])
  BY DEF ApplyModules, Away
<1>3. DepsClosed'
  BY <1>1, <1>2 DEF DepsClosed, Closed, SwitchTo
<1>4. Visit(a, 1) \/ Goto(a, Idle)
  BY DEF ApplyModules
<1>5. PICK do \in Doing \cup {Idle} : Away(do) /\ Goto(a, do)
  BY <1>4, VisitType, IdleAway
<1> QED
  BY <1>1, <1>2, <1>3, <1>5, SwitchKeeps

-----------------------------------------------------------------------------
(* The steps of a reconciliation. *)

\* The module an actor has before it, and what is left as it was.
LEMMA Handled ==
  ASSUME IInv, NEW a \in Actor, actor[a].at \in {"next", "stop", "start"}
  PROVE  /\ actor[a] \in Doing /\ actor[a].i \in DOMAIN WorkerSeq
         /\ actor[a].i + 1 \in Nat \ {0}
         /\ WorkerSeq[actor[a].i] \in HasWorker
         /\ actor[a].at = "stop" => actor[a].start \in BOOLEAN
BY HasWorkerType DEF IInv, TypeOK, Doing, Idle

LEMMA ReadSwitchKeeps ==
  ASSUME IInv, NEW a \in Actor, ReadSwitch(a)
  PROVE  IInv'
<1> DEFINE i == actor[a].i
           m == WorkerSeq[i]
           do == [at |-> "stop", i |-> i, start |-> m \in on]
<1>1. /\ actor[a].at = "next" /\ Goto(a, do) /\ due' = due \ {m}
      /\ clash' = IF \E b \in Actor \ {a} : At(b, m) THEN clash \cup {m} ELSE clash
      /\ UNCHANGED <<on, conf, shared, table, runs, touched>>
  BY DEF ReadSwitch
<1>2. i \in DOMAIN WorkerSeq /\ m \in HasWorker
  BY <1>1, Handled
<1>3. do \in Doing /\ do.at = "stop" /\ do.i = i /\ do.start = (m \in on)
  BY <1>2 DEF Doing
<1>4. actor' \in [Actor -> Doing \cup {Idle}]
  BY <1>1, <1>3, GotoType DEF IInv
<1>5. /\ actor'[a].at = "stop" /\ WorkerSeq[actor'[a].i] = m
      /\ actor'[a].start = (m \in on)
      /\ \A b \in Actor : b # a => actor'[b] = actor[b]
  BY <1>1, <1>3 DEF Goto, IInv, TypeOK
<1> HIDE DEF do
<1> HIDE DEF m, i
<1>6. TypeOK'
  BY <1>1, <1>2, <1>4 DEF IInv, TypeOK
<1>7. DepsClosed' /\ TableSound'
  BY <1>1 DEF IInv, DepsClosed, Closed, TableSound
<1>8. ASSUME NEW n \in HasWorker, n \notin clash'
      PROVE  OneByOne(n)'
  <2>1. OneByOne(n) /\ n \notin clash
    BY <1>1, <1>8 DEF IInv
  <2>2. Live(n)' = Live(n)
    BY <1>1 DEF Live
  <2>3. CASE n # m
    <3>1. ASSUME NEW b \in Actor
          PROVE  (At(b, n)' <=> At(b, n)) /\ (At(b, n) => actor'[b] = actor[b])
      BY <1>1, <1>5, <2>3 DEF At
    <3>2. n \notin due' => n \notin due
      BY <1>1, <2>3
    <3> QED
      BY <1>1, <2>1, <2>2, <3>1, <3>2 DEF OneByOne
  <2>4. CASE n = m
    <3>1. \A b \in Actor : At(b, n)' <=> b = a
      BY <1>1, <1>5, <1>8, <2>4 DEF At
    <3> QED
      BY <1>1, <1>5, <2>1, <2>2, <2>4, <3>1 DEF OneByOne
  <2> QED
    BY <2>3, <2>4
<1> QED
  BY <1>6, <1>7, <1>8 DEF IInv

LEMMA StopWorkerKeeps ==
  ASSUME IInv, NEW a \in Actor, StopWorker(a)
  PROVE  IInv'
<1> DEFINE i == actor[a].i
           m == WorkerSeq[i]
<1>1. /\ actor[a].at = "stop" /\ table' = [table EXCEPT ![m] = None]
      /\ runs' = Cancelled(m)
      /\ IF actor[a].start THEN Goto(a, [at |-> "start", i |-> i]) ELSE Visit(a, i + 1)
      /\ UNCHANGED <<on, conf, shared, due, clash, touched>>
  BY DEF StopWorker
<1>2. /\ i \in DOMAIN WorkerSeq /\ i + 1 \in Nat \ {0} /\ m \in HasWorker
      /\ actor[a].start \in BOOLEAN
  BY <1>1, Handled
<1>3. PICK do \in Doing \cup {Idle} :
        /\ Goto(a, do)
        /\ IF actor[a].start THEN do.at = "start" /\ do.i = i ELSE Away(do)
  <2>1. CASE actor[a].start
    <3>1. [at |-> "start", i |-> i] \in Doing
      BY <1>2 DEF Doing
    <3> QED
      BY <1>1, <2>1, <3>1
  <2>2. CASE ~actor[a].start
    BY <1>1, <1>2, <2>2, VisitType
  <2> QED
    BY <1>2, <2>1, <2>2
<1>4. actor' \in [Actor -> Doing \cup {Idle}]
  BY <1>3, GotoType DEF IInv
<1>5. actor'[a] = do /\ \A b \in Actor : b # a => actor'[b] = actor[b]
  BY <1>3 DEF Goto, IInv, TypeOK
<1>6. ASSUME NEW n, n = m
      PROVE  At(a, n) /\ (At(a, n)' <=> actor[a].start)
  BY <1>1, <1>2, <1>3, <1>5, <1>6 DEF At, Away
<1>7. ASSUME NEW n, n # m
      PROVE  ~At(a, n) /\ ~At(a, n)'
  BY <1>1, <1>3, <1>5, <1>7 DEF At, Away
<1> HIDE DEF m, i
<1>8. /\ table' \in [HasWorker -> Worker \cup {None}] /\ table'[m] = None
      /\ \A n \in HasWorker : n # m => table'[n] = table[n]
  BY <1>1, <1>2 DEF IInv, TypeOK
<1>9. /\ runs' \in [Worker -> HasWorker \cup {None}]
      /\ \A w \in Worker : runs'[w] = IF w = table[m] THEN None ELSE runs[w]
  BY <1>1 DEF Cancelled, IInv, TypeOK
<1>10. TypeOK'
  BY <1>1, <1>4, <1>8, <1>9 DEF IInv, TypeOK
<1>11. DepsClosed'
  BY <1>1 DEF IInv, DepsClosed, Closed
<1>12. TableSound'
  BY <1>2, <1>8, <1>9 DEF IInv, TableSound, TypeOK
<1>13. ASSUME NEW n \in HasWorker, n \notin clash'
       PROVE  OneByOne(n)'
  <2>1. OneByOne(n)
    BY <1>1, <1>13 DEF IInv
  <2>2. CASE n # m
    <3>1. Live(n)' \subseteq Live(n)
      BY <1>9, NoneAssumption, HasWorkerType DEF Live
    <3>2. ASSUME NEW b \in Actor
          PROVE  (At(b, n)' <=> At(b, n)) /\ (At(b, n) => actor'[b] = actor[b])
      BY <1>5, <1>7, <2>2 DEF At
    <3> QED
      BY <1>1, <1>8, <2>1, <2>2, <3>1, <3>2 DEF OneByOne
  <2>3. CASE n = m
    <3>1. Live(n)' = {}
      BY <1>2, <1>9, <2>1, <2>3, NoneAssumption, HasWorkerType DEF OneByOne, Live
    <3>2. ASSUME NEW b \in Actor
          PROVE  At(b, n)' <=> b = a /\ actor[a].start
      <4>1. CASE b = a
        BY <1>6, <2>3, <4>1 DEF At
      <4>2. CASE b # a
        <5>1. ~At(b, n)
          BY <1>6, <2>1, <2>3, <4>2 DEF OneByOne
        <5>2. actor'[b] = actor[b]
          BY <1>5, <4>2
        <5> QED
          BY <4>2, <5>1, <5>2 DEF At
      <4> QED
        BY <4>1, <4>2
    <3>3. n \notin due => (actor[a].start <=> n \in on)
      BY <1>1, <1>6, <2>1, <2>3 DEF OneByOne
    <3>4. At(a, n)' => actor'[a].at = "start"
      BY <1>3, <1>5, <3>2
    <3> QED
      BY <1>1, <1>8, <2>3, <3>1, <3>2, <3>3, <3>4 DEF OneByOne
  <2> QED
    BY <2>2, <2>3
<1> QED
  BY <1>10, <1>11, <1>12, <1>13 DEF IInv

LEMMA StartWorkerKeeps ==
  ASSUME IInv, NEW a \in Actor, NEW w \in Worker, StartWorker(a, w)
  PROVE  IInv'
<1> DEFINE i == actor[a].i
           m == WorkerSeq[i]
<1>1. /\ actor[a].at = "start" /\ Free(w) /\ table' = [table EXCEPT ![m] = w]
      /\ runs' = [runs EXCEPT ![w] = m] /\ Visit(a, i + 1)
      /\ UNCHANGED <<on, conf, shared, due, clash, touched>>
  BY DEF StartWorker
<1>2. i \in DOMAIN WorkerSeq /\ i + 1 \in Nat \ {0} /\ m \in HasWorker
  BY <1>1, Handled
<1>3. PICK do \in Doing \cup {Idle} : Away(do) /\ Goto(a, do)
  BY <1>1, <1>2, VisitType
<1>4. actor' \in [Actor -> Doing \cup {Idle}]
  BY <1>3, GotoType DEF IInv
<1>5. actor'[a] = do /\ \A b \in Actor : b # a => actor'[b] = actor[b]
  BY <1>3 DEF Goto, IInv, TypeOK
<1>6. At(a, m)
  BY <1>1 DEF At
<1>7. ASSUME NEW n
      PROVE  ~At(a, n)' /\ (n # m => ~At(a, n))
  BY <1>3, <1>5 DEF At, Away
<1> HIDE DEF m, i
<1>8. /\ table' \in [HasWorker -> Worker \cup {None}] /\ table'[m] = w
      /\ \A n \in HasWorker : n # m => table'[n] = table[n]
  BY <1>1, <1>2 DEF IInv, TypeOK
<1>9. /\ runs' \in [Worker -> HasWorker \cup {None}] /\ runs'[w] = m
      /\ \A v \in Worker : v # w => runs'[v] = runs[v]
  BY <1>1, <1>2 DEF IInv, TypeOK
<1>10. runs[w] = None /\ (\A n \in HasWorker : table[n] # w) /\ w # None
  BY <1>1, NoneAssumption DEF Free, Range, IInv, TypeOK
<1>11. TypeOK'
  BY <1>1, <1>4, <1>8, <1>9 DEF IInv, TypeOK
<1>12. DepsClosed'
  BY <1>1 DEF IInv, DepsClosed, Closed
<1>13. TableSound'
  BY <1>8, <1>9, <1>10 DEF IInv, TableSound, TypeOK
<1>14. ASSUME NEW n \in HasWorker, n \notin clash'
       PROVE  OneByOne(n)'
  <2>1. OneByOne(n)
    BY <1>1, <1>14 DEF IInv
  <2>2. CASE n # m
    <3>1. Live(n)' \subseteq Live(n)
      BY <1>9, <2>2 DEF Live
    <3>2. ASSUME NEW b \in Actor
          PROVE  (At(b, n)' <=> At(b, n)) /\ (At(b, n) => actor'[b] = actor[b])
      BY <1>5, <1>7, <2>2 DEF At
    <3> QED
      BY <1>1, <1>8, <2>1, <2>2, <3>1, <3>2 DEF OneByOne
  <2>3. CASE n = m
    <3>1. table[n] = None
      BY <1>1, <1>6, <2>1, <2>3 DEF OneByOne
    <3>2. Live(n)' \subseteq {w}
      BY <1>9, <2>1, <3>1, NoneAssumption DEF OneByOne, Live
    <3>3. \A b \in Actor : ~At(b, n)'
      BY <1>5, <1>6, <1>7, <2>1, <2>3 DEF OneByOne, At
    <3>4. n \notin due => n \in on
      BY <1>1, <1>6, <2>1, <2>3 DEF OneByOne
    <3> QED
      BY <1>1, <1>8, <1>10, <2>3, <3>2, <3>3, <3>4 DEF OneByOne
  <2> QED
    BY <2>2, <2>3
<1> QED
  BY <1>11, <1>12, <1>13, <1>14 DEF IInv

LEMMA EndsKeeps ==
  ASSUME IInv, NEW w \in Worker, Ends(w)
  PROVE  IInv'
<1>1. /\ runs' = [runs EXCEPT ![w] = None]
      /\ UNCHANGED <<on, conf, shared, actor, table, due, clash, touched>>
  BY DEF Ends
<1>2. /\ runs' \in [Worker -> HasWorker \cup {None}]
      /\ \A v \in Worker : runs'[v] \in {runs[v], None}
  BY <1>1 DEF IInv, TypeOK
<1>3. TypeOK' /\ DepsClosed'
  BY <1>1, <1>2 DEF IInv, TypeOK, DepsClosed, Closed
<1>4. TableSound'
  BY <1>1, <1>2 DEF IInv, TableSound, TypeOK
<1>5. ASSUME NEW n \in HasWorker \ clash
      PROVE  OneByOne(n)'
  <2>1. OneByOne(n)
    BY DEF IInv
  <2>2. Live(n)' \subseteq Live(n)
    BY <1>2, NoneAssumption, HasWorkerType DEF Live
  <2>3. \A b \in Actor : At(b, n)' <=> At(b, n)
    BY <1>1 DEF At
  <2> QED
    BY <1>1, <2>1, <2>2, <2>3 DEF OneByOne
<1> QED
  BY <1>1, <1>3, <1>4, <1>5 DEF IInv

-----------------------------------------------------------------------------
(* The invariant is inductive. *)

LEMMA NextIInv ==
  ASSUME IInv, Next
  PROVE  IInv'
<1>1. ASSUME NEW a \in Handler, Handle(a)
      PROVE  IInv'
  <2>1. a \in Actor
    BY DEF Actor
  <2> QED
    BY <1>1, <2>1, ToggleKeeps, ProfileKeeps, ApplyPersonaKeeps, PostReadKeeps,
       PostWriteKeeps DEF Handle
<1>2. ASSUME NEW a \in Actor, Step(a)
      PROVE  IInv'
  BY <1>2, LoadKeeps, ApplyModulesKeeps, ReadSwitchKeeps, StopWorkerKeeps,
     StartWorkerKeeps DEF Step
<1> QED
  BY <1>1, <1>2, EndsKeeps DEF Next

LEMMA StutterIInv ==
  ASSUME IInv, UNCHANGED vars
  PROVE  IInv'
BY DEF vars, IInv, TypeOK, DepsClosed, Closed, TableSound, OneByOne, Live, At

\* The inductive invariant holds of every behaviour of the switches, the
\* reconciliations and the workers.
THEOREM Invariance == Spec => []IInv
<1>1. Init => IInv
  BY InitIInv
<1>2. IInv /\ [Next]_vars => IInv'
  BY NextIInv, StutterIInv
<1> QED
  BY <1>1, <1>2, PTL DEF Spec

\* The state keeps its types: every reconciliation stays within the registry,
\* and only modules that have a worker come to have one.
THEOREM TypeCorrect == Spec => []TypeOK
BY Invariance, PTL DEF IInv

\* modules.go:20: a module that is on has its dependencies on, for any registry
\* and any race of toggles, profiles, reloads and roll-backs, until the map
\* that cfg.Modules shares with the switches is written in place.
THEOREM Closure == Spec => []DepsClosed
BY Invariance, PTL DEF IInv

\* modules.go:23, where two reconciliations do not meet over a module: it has no
\* goroutine but the one in the table, and has one iff it is on once it has
\* been reconciled.
THEOREM Aligned == Spec => []AlignedUnlessRaced
<1>1. IInv => AlignedUnlessRaced
  BY DEF IInv, OneByOne, AlignedUnlessRaced
<1> QED
  BY <1>1, Invariance, PTL

-----------------------------------------------------------------------------
(* Choices. *)

\* What Profiles assumes of the constants of a piece.
LEMMA ChoiceAssumed == ASSUME NEW p \in DOMAIN Choosers PROVE Choice(p)!ProfilesAssumption
BY GuardsAssumption

\* Dependencies are modules, and those need none.
LEMMA ChoiceDeps ==
  ASSUME NEW p \in DOMAIN Choosers, NEW m \in Choosers[p].Module
  PROVE  /\ Choosers[p].Deps[m] \subseteq Choosers[p].Module
         /\ \A d \in Choosers[p].Deps[m] : Choosers[p].Deps[d] = {}
BY ChoiceAssumed DEF Choice!ProfilesAssumption

\* What has all it needs is closed, and nothing more is lost by asking again.
LEMMA ChoiceMet ==
  ASSUME NEW p \in DOMAIN Choosers, NEW S \in SUBSET Choosers[p].Module
  PROVE  /\ Choice(p)!Met(S) \subseteq S
         /\ Choice(p)!Closed(Choice(p)!Met(S))
         /\ Choice(p)!Met(Choice(p)!Met(S)) = Choice(p)!Met(S)
<1>1. ASSUME NEW m \in Choice(p)!Met(S), NEW d \in Choosers[p].Deps[m]
      PROVE d \in Choice(p)!Met(S)
  BY ChoiceDeps DEF Choice!Met
<1> QED BY <1>1 DEF Choice!Met, Choice!Closed

\* closeDeps: what is closed already stays as it is.
LEMMA ChoiceClosure ==
  ASSUME NEW p \in DOMAIN Choosers, NEW S \in SUBSET Choosers[p].Module
  PROVE  /\ Choice(p)!Closure(S) \subseteq Choosers[p].Module
         /\ Choice(p)!Closed(Choice(p)!Closure(S))
         /\ Choice(p)!Closed(S) => Choice(p)!Closure(S) = S
<1> DEFINE C == Choice(p)!Closure(S)
<1>1. ASSUME NEW m \in C, NEW d \in Choosers[p].Deps[m] PROVE d \in C
  <2>1. m \in Choosers[p].Module /\ d \in Choosers[p].Module
    BY ChoiceDeps DEF Choice!Closure
  <2>2. ASSUME NEW T \in SUBSET Choosers[p].Module, S \subseteq T, Choice(p)!Closed(T)
        PROVE d \in T
    <3>1. m \in T
      BY <2>2 DEF Choice!Closure
    <3> QED BY <3>1, <2>2 DEF Choice!Closed
  <2> QED BY <2>1, <2>2 DEF Choice!Closure
<1>2. Choice(p)!Closed(S) => C = S
  BY DEF Choice!Closure
<1> QED BY <1>1, <1>2 DEF Choice!Closed, Choice!Closure

\* setModuleEnabled leaves what was closed closed.
LEMMA ChoiceWithDeps ==
  ASSUME NEW p \in DOMAIN Choosers, NEW S \in SUBSET Choosers[p].Module
  PROVE  /\ Choice(p)!WithDeps(S) \subseteq Choosers[p].Module
         /\ Choice(p)!Closed(Choice(p)!WithDeps(S))
<1>1. ASSUME NEW m \in Choice(p)!WithDeps(S), NEW d \in Choosers[p].Deps[m]
      PROVE d \in Choice(p)!WithDeps(S)
  <2>1. CASE m \in S
    BY <2>1 DEF Choice!WithDeps
  <2>2. CASE \E n \in S : m \in Choosers[p].Deps[n]
    BY <2>2, ChoiceDeps
  <2> QED BY <2>1, <2>2 DEF Choice!WithDeps
<1> QED BY <1>1, ChoiceDeps DEF Choice!WithDeps, Choice!Closed

\* A module that none needs may go.
LEMMA ChoiceOff ==
  ASSUME NEW p \in DOMAIN Choosers, NEW m, ~Choice(p)!Needed(m), Choice(p)!Closed(g1.on)
  PROVE  Choice(p)!Closed(g1.on \ {m})
BY DEF Choice!Needed, Choice!Closed

-----------------------------------------------------------------------------
\* What a handler is at.
ChoiceDoing(p) == Choice(p)!Doing \cup {Choice(p)!Idle}

\* The types, where a function with few values has them by value.
ChoiceTypes(p) ==
  /\ g1 \in [on : SUBSET Choosers[p].Module, conf : SUBSET Choosers[p].Module,
            shared : BOOLEAN, dirty : BOOLEAN]
  /\ \A n \in DOMAIN g2 :
       n \in Choosers[p].Name /\ g2[n] \in [states : SUBSET Choosers[p].Module, calm : BOOLEAN]
  /\ g3 \subseteq Choosers[p].Module
  /\ g4 \in [Choosers[p].Handler -> ChoiceDoing(p)]
  /\ g5 \in [id : Choosers[p].Persona, written : BOOLEAN]
  /\ g6 \in Choosers[p].Persona \cup {Choice(p)!None}
  /\ g7 \in [Choosers[p].Writer ->
            [at : {"memory", "mark"}, id : Choosers[p].Persona] \cup {Choice(p)!Idle}]
  /\ g8 \in Choosers[p].Persona \cup {Choice(p)!None}
  /\ g9 \in [told : SUBSET SUBSET Choosers[p].Module, raced : BOOLEAN, unsaid : BOOLEAN,
            loose : BOOLEAN]
  /\ g9.told = {} \/ \E S \in SUBSET Choosers[p].Module : g9.told = {S}

\* What the last persona asked for is what the configuration comes to, and once it has been
\* read what the switches are.
ChoiceTold(p) ==
  \A S \in g9.told :
    Choice(p)!Met(g1.conf) = Choice(p)!Met(S) /\ (~g1.dirty => g1.on = Choice(p)!Met(S))

\* Whoever still writes writes of the current persona, and what was written is there until
\* it is unsaid.
ChoiceMemory(p) ==
  ~g9.raced =>
    /\ \A w \in Choosers[p].Writer : g7[w] # Choice(p)!Idle => g7[w].id = g5.id
    /\ ~g9.unsaid =>
         /\ \A w \in Choosers[p].Writer : g7[w].at = "mark" => g6 = g5.id
         /\ g5.written => g6 = g5.id

\* The modules that a snapshot has come to before its i-th step.
Before(p, i) == {Choosers[p].Registry[j] : j \in 1..(i - 1)}

\* A snapshot that nothing has stirred has seen its part of the switches, and they are closed.
ChoiceSnaps(p) ==
  \A h \in Choosers[p].Handler :
    g4[h].at = "snap" /\ g4[h].calm =>
      Choice(p)!Closed(g1.on) /\ g4[h].snap = g1.on \cap Before(p, g4[h].i)

\* Switches are closed unless something loosened them, and so are profiles taken in peace.
ChoiceClosed(p) ==
  /\ ~g9.loose => Choice(p)!Closed(g1.on)
  /\ ChoiceSnaps(p)
  /\ \A n \in DOMAIN g2 : g2[n].calm => Choice(p)!Closed(g2[n].states)

\* The invariant of the choices.
ChoiceHolds(p) ==
  ChoiceTypes(p) /\ ChoiceTold(p) /\ ChoiceMemory(p) /\ ChoiceClosed(p)

\* It holds at the start, ...
LEMMA ChoiceStarts ==
  ASSUME NEW p \in DOMAIN Choosers, Choice(p)!Init
  PROVE  ChoiceHolds(p)
<1> USE DEF Choice!Init
<1>1. ChoiceTypes(p)
  <2>1. g1 \in [on : SUBSET Choosers[p].Module, conf : SUBSET Choosers[p].Module,
                shared : BOOLEAN, dirty : BOOLEAN]
    <3>1. PICK S \in SUBSET Choosers[p].Module :
            g1 = [on |-> S, conf |-> S, shared |-> FALSE, dirty |-> FALSE]
      OBVIOUS
    <3> QED BY <3>1, Zenon
  <2>2. g5 \in [id : Choosers[p].Persona, written : BOOLEAN]
    BY ChoiceAssumed DEF Choice!ProfilesAssumption
  <2>3. g9 \in [told : SUBSET SUBSET Choosers[p].Module, raced : BOOLEAN, unsaid : BOOLEAN,
                loose : BOOLEAN]
    OBVIOUS
  <2>4. /\ g4 \in [Choosers[p].Handler -> ChoiceDoing(p)]
        /\ g7 \in [Choosers[p].Writer ->
                  [at : {"memory", "mark"}, id : Choosers[p].Persona] \cup {Choice(p)!Idle}]
    BY DEF ChoiceDoing
  <2>5. \A n \in DOMAIN g2 :
          n \in Choosers[p].Name /\ g2[n] \in [states : SUBSET Choosers[p].Module, calm : BOOLEAN]
    OBVIOUS
  <2>6. g9.told = {} /\ g3 = {} /\ g6 = Choice(p)!None /\ g8 = Choice(p)!None
    OBVIOUS
  <2> QED BY <2>1, <2>2, <2>3, <2>4, <2>5, <2>6 DEF ChoiceTypes
<1>2. ChoiceTold(p)
  BY DEF ChoiceTold
<1>3. ChoiceMemory(p)
  BY DEF ChoiceMemory, Choice!Idle
<1>4. ChoiceClosed(p)
  BY DEF ChoiceClosed, ChoiceSnaps, Choice!Idle
<1> QED BY <1>1, <1>2, <1>3, <1>4 DEF ChoiceHolds

\* ... it means that choices are kept, ...
LEMMA ChoiceHoldsChoices ==
  ASSUME NEW p \in DOMAIN Choosers, ChoiceHolds(p)
  PROVE  Choice(p)!ChoicesKept
<1>1. Choice(p)!ToldIsDone
  BY DEF ChoiceHolds, ChoiceTold, Choice!ToldIsDone
<1>2. Choice(p)!MemoryTrue
  BY DEF ChoiceHolds, ChoiceMemory, Choice!MemoryTrue
<1>3. Choice(p)!ProfilesTrue
  BY ChoiceClosure DEF ChoiceHolds, ChoiceClosed, ChoiceTypes, Choice!ProfilesTrue
<1> QED BY <1>1, <1>2, <1>3 DEF Choice!ChoicesKept

\* ... and that the types are.
LEMMA ChoiceHoldsTypes ==
  ASSUME NEW p \in DOMAIN Choosers, ChoiceHolds(p)
  PROVE  Choice(p)!TypeOK
<1> USE DEF ChoiceHolds
<1>1. \A h \in Choosers[p].Handler : g4[h] = Choice(p)!Idle \/ g4[h] \in Choice(p)!Doing
  BY DEF ChoiceTypes, ChoiceDoing
<1>2. \A w \in Choosers[p].Writer :
         g7[w] = Choice(p)!Idle \/ g7[w] \in [at : {"memory", "mark"}, id : Choosers[p].Persona]
  BY DEF ChoiceTypes
<1>3. g9.told \in {{}} \cup {{S} : S \in SUBSET Choosers[p].Module}
  BY DEF ChoiceTypes
<1>4. g9.raced \in BOOLEAN /\ g9.unsaid \in BOOLEAN /\ g9.loose \in BOOLEAN
  BY DEF ChoiceTypes
<1> QED BY <1>1, <1>2, <1>3, <1>4 DEF ChoiceTypes, Choice!TypeOK

\* What the snapshots that are being taken come to, when the switches change.
LEMMA ChoiceStirred ==
  ASSUME NEW p \in DOMAIN Choosers, NEW S, NEW hs \in [Choosers[p].Handler -> ChoiceDoing(p)]
  PROVE  /\ Choice(p)!Stirred(hs, S) \in [Choosers[p].Handler -> ChoiceDoing(p)]
         /\ \A h \in Choosers[p].Handler :
              LET t == Choice(p)!Stirred(hs, S)[h]
              IN  t.at = "snap" /\ t.calm => S = g1.on /\ t = hs[h]
<1> DEFINE t(h) == Choice(p)!Stirred(hs, S)[h]
<1>1. ASSUME NEW h \in Choosers[p].Handler
      PROVE /\ t(h) \in ChoiceDoing(p)
            /\ t(h).at = "snap" /\ t(h).calm => S = g1.on /\ t(h) = hs[h]
  <2>1. CASE hs[h].at = "snap" /\ S # g1.on
    <3>1. t(h) = [hs[h] EXCEPT !.calm = FALSE]
      BY <2>1 DEF Choice!Stirred
    <3>2. hs[h] \in [at : {"snap"}, name : Choosers[p].Name, i : 1..Len(Choosers[p].Registry),
                     snap : SUBSET Choosers[p].Module, calm : BOOLEAN]
      BY <2>1 DEF ChoiceDoing, Choice!Doing, Choice!Idle
    <3>3. t(h) \in [at : {"snap"}, name : Choosers[p].Name, i : 1..Len(Choosers[p].Registry),
                     snap : SUBSET Choosers[p].Module, calm : BOOLEAN]
      BY <3>1, <3>2
    <3>4. ~t(h).calm
      BY <3>1, <3>2
    <3> QED BY <3>3, <3>4 DEF ChoiceDoing, Choice!Doing
  <2>2. CASE ~(hs[h].at = "snap" /\ S # g1.on)
    <3>1. t(h) = hs[h]
      BY <2>2 DEF Choice!Stirred
    <3> QED BY <2>2, <3>1
  <2> QED BY <2>1, <2>2
<1>2. Choice(p)!Stirred(hs, S) = [h \in Choosers[p].Handler |-> t(h)]
  BY DEF Choice!Stirred
<1> QED BY <1>1, <1>2

\* Switches that change leave a snapshot that is not stirred as it is.
LEMMA ChoiceChanged ==
  ASSUME NEW p \in DOMAIN Choosers, ChoiceHolds(p), NEW S \in SUBSET Choosers[p].Module,
         NEW hs \in [Choosers[p].Handler -> ChoiceDoing(p)],
         \A h \in Choosers[p].Handler : hs[h] = g4[h] \/ hs[h] = Choice(p)!Idle,
         g4' = Choice(p)!Stirred(hs, S), g1'.on = S, g2' = g2,
         ~g9.loose' => Choice(p)!Closed(S)
  PROVE  ChoiceClosed(p)' /\ g4' \in [Choosers[p].Handler -> ChoiceDoing(p)]
<1>1. g4' \in [Choosers[p].Handler -> ChoiceDoing(p)]
  BY ChoiceStirred
<1>2. ASSUME NEW h \in Choosers[p].Handler, g4'[h].at = "snap", g4'[h].calm
      PROVE Choice(p)!Closed(S) /\ g4'[h].snap = S \cap Before(p, g4'[h].i)
  <2>1. S = g1.on /\ g4'[h] = hs[h]
    BY ChoiceStirred, <1>2
  <2>2. g4'[h] = g4[h]
    BY <2>1, <1>2 DEF Choice!Idle
  <2> QED BY <2>1, <2>2, <1>2 DEF ChoiceHolds, ChoiceClosed, ChoiceSnaps
<1>3. \A n \in DOMAIN g2 : g2[n].calm => Choice(p)!Closed(g2[n].states)
  BY DEF ChoiceHolds, ChoiceClosed
<1>4. ChoiceSnaps(p)'
  BY <1>2 DEF ChoiceSnaps, Before, Choice!Closed
<1> QED BY <1>1, <1>3, <1>4 DEF ChoiceClosed, Choice!Closed

\* The other variables' part of the invariant.
LEMMA ChoiceMemoryStays ==
  ASSUME NEW p, ChoiceMemory(p), g5' = g5, g6' = g6, g7' = g7, g9.raced' = g9.raced,
         g9.unsaid' = g9.unsaid
  PROVE  ChoiceMemory(p)'
BY DEF ChoiceMemory, Choice!Idle

\* What leaves switches, profiles and snapshots alone keeps what is said of them.
LEMMA ChoiceClosedStays ==
  ASSUME NEW p, ChoiceClosed(p), g1.on' = g1.on, g2' = g2, g4' = g4, g9.loose' = g9.loose
  PROVE  ChoiceClosed(p)'
BY DEF ChoiceClosed, ChoiceSnaps, Before, Choice!Closed

\* SwitchTo, of whichever handler.
LEMMA ChoiceSwitches ==
  ASSUME NEW p \in DOMAIN Choosers, ChoiceHolds(p), NEW S \in SUBSET Choosers[p].Module,
         NEW alias \in BOOLEAN, NEW closes \in BOOLEAN,
         NEW hs \in [Choosers[p].Handler -> ChoiceDoing(p)],
         \A h \in Choosers[p].Handler : hs[h] = g4[h] \/ hs[h] = Choice(p)!Idle,
         Choice(p)!SwitchTo(S, alias, closes, hs),
         closes \/ Choice(p)!Closed(g1.on) => Choice(p)!Closed(S),
         g2' = g2, g3' = g3, g5' = g5, g6' = g6, g7' = g7, g8' = g8
  PROVE  ChoiceHolds(p)'
<1>1. ChoiceTypes(p)
  BY DEF ChoiceHolds
<1>2. /\ g1' = [on |-> S, conf |-> S, shared |-> alias, dirty |-> FALSE]
      /\ g4' = Choice(p)!Stirred(hs, S)
      /\ g9' = [g9 EXCEPT !.told = {}, !.loose = @ /\ ~closes]
  BY DEF Choice!SwitchTo
<1>3. /\ g1'.on = S
      /\ g1' \in [on : SUBSET Choosers[p].Module, conf : SUBSET Choosers[p].Module,
                  shared : BOOLEAN, dirty : BOOLEAN]
  BY <1>2, Zenon
<1>4. g9 \in [told : SUBSET SUBSET Choosers[p].Module, raced : BOOLEAN, unsaid : BOOLEAN,
              loose : BOOLEAN]
  BY <1>1 DEF ChoiceTypes
<1>5. /\ g9' \in [told : SUBSET SUBSET Choosers[p].Module, raced : BOOLEAN, unsaid : BOOLEAN,
                  loose : BOOLEAN]
      /\ g9'.told = {} /\ g9'.raced = g9.raced /\ g9'.unsaid = g9.unsaid
      /\ ~g9'.loose => closes \/ ~g9.loose
  <2>1. CASE closes
    <3>1. g9' = [told |-> {}, raced |-> g9.raced, unsaid |-> g9.unsaid, loose |-> FALSE]
      BY <1>2, <1>4, <2>1
    <3> QED BY <3>1, <1>4, <2>1
  <2>2. CASE ~closes
    <3>1. g9' = [told |-> {}, raced |-> g9.raced, unsaid |-> g9.unsaid, loose |-> g9.loose]
      BY <1>2, <1>4, <2>2
    <3> QED BY <3>1, <1>4, <2>2
  <2> QED BY <2>1, <2>2
<1>6. ~g9.loose' => Choice(p)!Closed(S)
  BY <1>5 DEF ChoiceHolds, ChoiceClosed
<1>7. ChoiceClosed(p)' /\ g4' \in [Choosers[p].Handler -> ChoiceDoing(p)]
  BY <1>2, <1>3, <1>6, ChoiceChanged
<1>8. ChoiceTypes(p)'
  BY <1>1, <1>3, <1>5, <1>7 DEF ChoiceTypes, ChoiceDoing, Choice!Doing, Choice!Idle, Choice!None
<1>9. ChoiceTold(p)'
  BY <1>5 DEF ChoiceTold
<1>10. ChoiceMemory(p)'
  BY <1>5, ChoiceMemoryStays DEF ChoiceHolds
<1> QED BY <1>7, <1>8, <1>9, <1>10 DEF ChoiceHolds

\* The fields that a step of an old record keeps.
LEMMA ChoiceHistory ==
  ASSUME NEW p \in DOMAIN Choosers, ChoiceTypes(p)
  PROVE  /\ g9 = [told |-> g9.told, raced |-> g9.raced, unsaid |-> g9.unsaid,
                  loose |-> g9.loose]
         /\ g9.told \in SUBSET SUBSET Choosers[p].Module /\ g9.raced \in BOOLEAN
         /\ g9.unsaid \in BOOLEAN /\ g9.loose \in BOOLEAN
         /\ g1 = [on |-> g1.on, conf |-> g1.conf, shared |-> g1.shared, dirty |-> g1.dirty]
         /\ g1.on \subseteq Choosers[p].Module /\ g1.conf \subseteq Choosers[p].Module
         /\ g1.shared \in BOOLEAN /\ g1.dirty \in BOOLEAN
BY DEF ChoiceTypes

\* What a persona writes: S is what is configured.
LEMMA ChoiceWrites ==
  ASSUME NEW p \in DOMAIN Choosers, ChoiceHolds(p), NEW S \in SUBSET Choosers[p].Module,
         NEW raced \in BOOLEAN, Choice(p)!Written(S, raced), g2' = g2
  PROVE  /\ g1' \in [on : SUBSET Choosers[p].Module, conf : SUBSET Choosers[p].Module,
                     shared : BOOLEAN, dirty : BOOLEAN]
         /\ g4' \in [Choosers[p].Handler -> ChoiceDoing(p)]
         /\ g9' \in [told : SUBSET SUBSET Choosers[p].Module, raced : BOOLEAN,
                     unsaid : BOOLEAN, loose : BOOLEAN]
         /\ g9'.told = {S} /\ g9'.raced = raced /\ g9'.unsaid = g9.unsaid
         /\ ChoiceTold(p)' /\ ChoiceClosed(p)'
<1> DEFINE nowOn == IF g1.shared THEN S ELSE g1.on
<1>1. ChoiceTypes(p)
  BY DEF ChoiceHolds
<1>2. /\ g1' = [g1 EXCEPT !.conf = S, !.on = nowOn, !.dirty = TRUE]
      /\ g4' = Choice(p)!Stirred(g4, nowOn)
      /\ g9' = [g9 EXCEPT !.told = {S}, !.raced = raced, !.loose = @ \/ nowOn # g1.on]
  BY DEF Choice!Written
<1>3. nowOn \in SUBSET Choosers[p].Module
  BY <1>1, ChoiceHistory
<1> HIDE DEF nowOn
<1>4. g1' = [on |-> nowOn, conf |-> S, shared |-> g1.shared, dirty |-> TRUE]
  <2>1. g1 = [on |-> g1.on, conf |-> g1.conf, shared |-> g1.shared, dirty |-> g1.dirty]
    BY <1>1, ChoiceHistory
  <2> QED BY <1>2, <2>1
<1>5. g1' \in [on : SUBSET Choosers[p].Module, conf : SUBSET Choosers[p].Module,
               shared : BOOLEAN, dirty : BOOLEAN]
  BY <1>1, <1>3, <1>4, ChoiceHistory
<1>6. /\ g9' \in [told : SUBSET SUBSET Choosers[p].Module, raced : BOOLEAN,
                  unsaid : BOOLEAN, loose : BOOLEAN]
      /\ g9'.told = {S} /\ g9'.raced = raced /\ g9'.unsaid = g9.unsaid
      /\ ~g9'.loose => nowOn = g1.on /\ ~g9.loose
  <2>1. CASE nowOn # g1.on
    <3>1. g9' = [told |-> {S}, raced |-> raced, unsaid |-> g9.unsaid, loose |-> TRUE]
      BY <1>1, <1>2, <2>1, ChoiceHistory
    <3> QED BY <3>1, <1>1, ChoiceHistory
  <2>2. CASE nowOn = g1.on
    <3>1. g9' = [told |-> {S}, raced |-> raced, unsaid |-> g9.unsaid, loose |-> g9.loose]
      BY <1>1, <1>2, <2>2, ChoiceHistory
    <3> QED BY <2>2, <3>1, <1>1, ChoiceHistory
  <2> QED BY <2>1, <2>2
<1>7. ~g9.loose' => Choice(p)!Closed(nowOn)
  BY <1>6 DEF ChoiceHolds, ChoiceClosed
<1>8. g4 \in [Choosers[p].Handler -> ChoiceDoing(p)]
  BY <1>1 DEF ChoiceTypes
<1>9. ChoiceClosed(p)' /\ g4' \in [Choosers[p].Handler -> ChoiceDoing(p)]
  <2>1. g1'.on = nowOn
    BY <1>4
  <2> QED BY <1>2, <1>3, <2>1, <1>7, <1>8, ChoiceChanged
<1>10. ChoiceTold(p)'
  <2>1. g1'.conf = S /\ g1'.dirty
    BY <1>4
  <2> QED BY <1>6, <2>1 DEF ChoiceTold, Choice!Met
<1> QED BY <1>5, <1>6, <1>9, <1>10

\* What a loaded configuration has on.
LEMMA ChoiceLoads ==
  ASSUME NEW p \in DOMAIN Choosers, ChoiceHolds(p),
         g1' = [on |-> Choice(p)!Met(g1.conf), conf |-> Choice(p)!Met(g1.conf), shared |-> FALSE,
                dirty |-> FALSE],
         g9'.told = g9.told
  PROVE  /\ g1' \in [on : SUBSET Choosers[p].Module, conf : SUBSET Choosers[p].Module,
                     shared : BOOLEAN, dirty : BOOLEAN]
         /\ g1'.on = Choice(p)!Met(g1.conf)
         /\ Choice(p)!Met(g1.conf) \subseteq Choosers[p].Module
         /\ Choice(p)!Closed(Choice(p)!Met(g1.conf))
         /\ ChoiceTold(p)'
<1> DEFINE S == Choice(p)!Met(g1.conf)
<1>1. g1.conf \in SUBSET Choosers[p].Module
  BY ChoiceHistory DEF ChoiceHolds
<1>2. S \in SUBSET Choosers[p].Module /\ Choice(p)!Closed(S) /\ Choice(p)!Met(S) = S
  BY <1>1, ChoiceMet
<1>3. \A T \in g9.told : S = Choice(p)!Met(T)
  BY DEF ChoiceHolds, ChoiceTold
<1> HIDE DEF S
<1>4. g1' = [on |-> S, conf |-> S, shared |-> FALSE, dirty |-> FALSE]
  BY DEF S
<1>5. /\ g1' \in [on : SUBSET Choosers[p].Module, conf : SUBSET Choosers[p].Module,
                  shared : BOOLEAN, dirty : BOOLEAN]
      /\ g1'.on = S /\ g1'.conf = S
  <2>1. S \in SUBSET Choosers[p].Module
    BY <1>2
  <2>2. g1'.on = S /\ g1'.conf = S
    BY <1>4
  <2> QED BY <1>4, <2>1, <2>2
<1>6. ChoiceTold(p)'
  <2>1. \A T : Choice(p)!Met(T)' = Choice(p)!Met(T)
    BY DEF Choice!Met
  <2>2. \A T \in g9'.told : Choice(p)!Met(S) = Choice(p)!Met(T) /\ S = Choice(p)!Met(T)
    BY <1>2, <1>3
  <2> QED BY <1>5, <2>2 DEF ChoiceTold, Choice!Met
<1> QED BY <1>2, <1>5, <1>6 DEF S

\* A handler goes on to something else, and the switches stay.
LEMMA ChoiceGoes ==
  ASSUME NEW p \in DOMAIN Choosers, ChoiceHolds(p), NEW h \in Choosers[p].Handler,
         NEW r \in ChoiceDoing(p), g4' = [g4 EXCEPT ![h] = r],
         r.at = "snap" /\ r.calm =>
           Choice(p)!Closed(g1.on) /\ r.snap = g1.on \cap Before(p, r.i),
         UNCHANGED <<g1, g2, g3, g5, g6, g7, g8, g9>>
  PROVE  ChoiceHolds(p)'
<1>1. g4' \in [Choosers[p].Handler -> ChoiceDoing(p)]
      /\ \A k \in Choosers[p].Handler : g4'[k] = IF k = h THEN r ELSE g4[k]
  BY DEF ChoiceHolds, ChoiceTypes
<1>2. ChoiceTypes(p)'
  BY <1>1 DEF ChoiceHolds, ChoiceTypes, ChoiceDoing, Choice!Doing, Choice!Idle, Choice!None
<1>3. ChoiceSnaps(p)'
  <2>1. \A k \in Choosers[p].Handler : g4'[k].at = "snap" /\ g4'[k].calm =>
          Choice(p)!Closed(g1.on) /\ g4'[k].snap = g1.on \cap Before(p, g4'[k].i)
    BY <1>1 DEF ChoiceHolds, ChoiceClosed, ChoiceSnaps
  <2> QED BY <2>1 DEF ChoiceSnaps, Before, Choice!Closed
<1>4. ChoiceClosed(p)'
  BY <1>3 DEF ChoiceHolds, ChoiceClosed, Choice!Closed
<1>5. ChoiceTold(p)'
  BY DEF ChoiceHolds, ChoiceTold, Choice!Met
<1>6. ChoiceMemory(p)'
  BY ChoiceMemoryStays DEF ChoiceHolds
<1> QED BY <1>2, <1>4, <1>5, <1>6 DEF ChoiceHolds

\* A handler at rest has taken nothing.
LEMMA ChoiceIdle ==
  ASSUME NEW p \in DOMAIN Choosers
  PROVE  Choice(p)!Idle \in ChoiceDoing(p) /\ Choice(p)!Idle.at = "idle"
BY DEF ChoiceDoing, Choice!Idle

\* setModuleEnabled.
LEMMA ChoiceSetsModule ==
  ASSUME NEW p \in DOMAIN Choosers, ChoiceHolds(p), NEW m \in Choosers[p].Module,
         NEW to \in BOOLEAN, NEW hs \in [Choosers[p].Handler -> ChoiceDoing(p)],
         \A h \in Choosers[p].Handler : hs[h] = g4[h] \/ hs[h] = Choice(p)!Idle,
         Choice(p)!SetModule(m, to, hs),
         g2' = g2, g3' = g3, g5' = g5, g6' = g6, g7' = g7, g8' = g8
  PROVE  ChoiceHolds(p)'
<1>1. g1.on \in SUBSET Choosers[p].Module
  BY ChoiceHistory DEF ChoiceHolds
<1>2. CASE to
  <2>1. Choice(p)!SwitchTo(Choice(p)!WithDeps(g1.on \cup {m}), TRUE, TRUE, hs)
    BY <1>2 DEF Choice!SetModule
  <2>2. /\ Choice(p)!WithDeps(g1.on \cup {m}) \in SUBSET Choosers[p].Module
        /\ Choice(p)!Closed(Choice(p)!WithDeps(g1.on \cup {m}))
    BY <1>1, ChoiceWithDeps
  <2> QED BY <2>1, <2>2, ChoiceSwitches
<1>3. CASE ~to
  <2>1. Choice(p)!SwitchTo(g1.on \ {m}, TRUE, FALSE, hs) /\ ~Choice(p)!Needed(m)
    BY <1>3 DEF Choice!SetModule
  <2>2. Choice(p)!Closed(g1.on) => Choice(p)!Closed(g1.on \ {m})
    BY <2>1, ChoiceOff
  <2>3. g1.on \ {m} \in SUBSET Choosers[p].Module
    BY <1>1
  <2> QED BY <2>1, <2>2, <2>3, ChoiceSwitches
<1> QED BY <1>2, <1>3

\* The configuration read again comes to what it says, closed.
LEMMA ChoiceReloads ==
  ASSUME NEW p \in DOMAIN Choosers, ChoiceHolds(p), Choice(p)!Reload
  PROVE  ChoiceHolds(p)'
<1> DEFINE S == Choice(p)!Met(g1.conf)
<1>1. /\ g1' = [on |-> S, conf |-> S, shared |-> FALSE, dirty |-> FALSE]
      /\ g4' = Choice(p)!Stirred(g4, S)
      /\ g9' = [g9 EXCEPT !.loose = FALSE]
      /\ g2' = g2 /\ g3' = g3 /\ g5' = g5 /\ g6' = g6 /\ g7' = g7 /\ g8' = g8
  BY DEF Choice!Reload, Choice!Rest
<1>2. /\ g9'.told = g9.told /\ g9'.raced = g9.raced /\ g9'.unsaid = g9.unsaid
      /\ g9' \in [told : SUBSET SUBSET Choosers[p].Module, raced : BOOLEAN,
                  unsaid : BOOLEAN, loose : BOOLEAN]
  <2>1. g9' = [told |-> g9.told, raced |-> g9.raced, unsaid |-> g9.unsaid, loose |-> FALSE]
    BY <1>1, ChoiceHistory DEF ChoiceHolds
  <2> QED BY <2>1, ChoiceHistory DEF ChoiceHolds
<1>3. /\ g1' \in [on : SUBSET Choosers[p].Module, conf : SUBSET Choosers[p].Module,
                  shared : BOOLEAN, dirty : BOOLEAN]
      /\ g1'.on = S /\ S \in SUBSET Choosers[p].Module /\ Choice(p)!Closed(S) /\ ChoiceTold(p)'
  BY <1>1, <1>2, ChoiceLoads
<1> HIDE DEF S
<1>4. ChoiceClosed(p)' /\ g4' \in [Choosers[p].Handler -> ChoiceDoing(p)]
  <2>1. g4 \in [Choosers[p].Handler -> ChoiceDoing(p)]
    BY DEF ChoiceHolds, ChoiceTypes
  <2> QED BY <1>1, <1>3, <2>1, ChoiceChanged
<1>5. ChoiceTypes(p)'
  BY <1>1, <1>2, <1>3, <1>4
  DEF ChoiceHolds, ChoiceTypes, ChoiceDoing, Choice!Doing, Choice!Idle, Choice!None
<1>6. ChoiceMemory(p)'
  BY <1>1, <1>2, ChoiceMemoryStays DEF ChoiceHolds
<1> QED BY <1>3, <1>4, <1>5, <1>6 DEF ChoiceHolds

\* A restart starts from what was saved.
LEMMA ChoiceRestarts ==
  ASSUME NEW p \in DOMAIN Choosers, ChoiceHolds(p), Choice(p)!Restart
  PROVE  ChoiceHolds(p)'
<1> DEFINE S == Choice(p)!Met(g1.conf)
<1>1. /\ g1' = [on |-> S, conf |-> S, shared |-> FALSE, dirty |-> FALSE]
      /\ g4' = [h \in Choosers[p].Handler |-> Choice(p)!Idle]
      /\ g7' = [w \in Choosers[p].Writer |-> Choice(p)!Idle]
      /\ g3' = {} /\ g6' \in {g8, Choice(p)!None}
      /\ g9' = [g9 EXCEPT !.unsaid = @ \/ g6' # g6, !.loose = FALSE]
      /\ g2' = g2 /\ g5' = g5 /\ g8' = g8
  BY DEF Choice!Restart
<1>2. /\ g9'.told = g9.told /\ g9'.raced = g9.raced
      /\ g9' \in [told : SUBSET SUBSET Choosers[p].Module, raced : BOOLEAN,
                  unsaid : BOOLEAN, loose : BOOLEAN]
      /\ ~g9'.unsaid => ~g9.unsaid /\ g6' = g6
  <2>1. CASE g6' = g6
    <3>1. g9' = [told |-> g9.told, raced |-> g9.raced, unsaid |-> g9.unsaid, loose |-> FALSE]
      BY <1>1, <2>1, ChoiceHistory DEF ChoiceHolds
    <3> QED BY <2>1, <3>1, ChoiceHistory DEF ChoiceHolds
  <2>2. CASE g6' # g6
    <3>1. g9' = [told |-> g9.told, raced |-> g9.raced, unsaid |-> TRUE, loose |-> FALSE]
      BY <1>1, <2>2, ChoiceHistory DEF ChoiceHolds
    <3> QED BY <3>1, ChoiceHistory DEF ChoiceHolds
  <2> QED BY <2>1, <2>2
<1>3. /\ g1' \in [on : SUBSET Choosers[p].Module, conf : SUBSET Choosers[p].Module,
                  shared : BOOLEAN, dirty : BOOLEAN]
      /\ g1'.on = S /\ S \in SUBSET Choosers[p].Module /\ Choice(p)!Closed(S) /\ ChoiceTold(p)'
  BY <1>1, <1>2, ChoiceLoads
<1> HIDE DEF S
<1>4. /\ g4' \in [Choosers[p].Handler -> ChoiceDoing(p)]
      /\ \A h \in Choosers[p].Handler : g4'[h] = Choice(p)!Idle
      /\ g7' \in [Choosers[p].Writer ->
                   [at : {"memory", "mark"}, id : Choosers[p].Persona] \cup {Choice(p)!Idle}]
      /\ \A w \in Choosers[p].Writer : g7'[w] = Choice(p)!Idle
  BY <1>1, ChoiceIdle
<1>5. ChoiceTypes(p)'
  BY <1>1, <1>2, <1>3, <1>4
  DEF ChoiceHolds, ChoiceTypes, ChoiceDoing, Choice!Doing, Choice!Idle, Choice!None
<1>6. ChoiceMemory(p)'
  BY <1>1, <1>2, <1>4, ChoiceIdle DEF ChoiceHolds, ChoiceMemory, Choice!Idle
<1>7. ChoiceClosed(p)'
  BY <1>1, <1>3, <1>4 DEF ChoiceHolds, ChoiceClosed, ChoiceSnaps, Choice!Closed, Choice!Idle
<1> QED BY <1>3, <1>5, <1>6, <1>7 DEF ChoiceHolds

\* saveConfig and markConfigLoaded: the file is known, and the switches stay.
LEMMA ChoiceMarks ==
  ASSUME NEW p \in DOMAIN Choosers, ChoiceHolds(p), g1' = [g1 EXCEPT !.dirty = FALSE],
         g9' = Choice(p)!Marked
  PROVE  /\ g1' \in [on : SUBSET Choosers[p].Module, conf : SUBSET Choosers[p].Module,
                     shared : BOOLEAN, dirty : BOOLEAN]
         /\ g1'.on = g1.on
         /\ g9' \in [told : SUBSET SUBSET Choosers[p].Module, raced : BOOLEAN,
                     unsaid : BOOLEAN, loose : BOOLEAN]
         /\ g9'.told = {} \/ \E S \in SUBSET Choosers[p].Module : g9'.told = {S}
         /\ g9'.raced = g9.raced /\ g9'.unsaid = g9.unsaid /\ g9'.loose = g9.loose
         /\ ChoiceTold(p)'
<1> USE DEF ChoiceHolds
<1>1. g1' = [on |-> g1.on, conf |-> g1.conf, shared |-> g1.shared, dirty |-> FALSE]
  BY ChoiceHistory
<1>2. /\ g1' \in [on : SUBSET Choosers[p].Module, conf : SUBSET Choosers[p].Module,
                  shared : BOOLEAN, dirty : BOOLEAN]
      /\ g1'.on = g1.on /\ g1'.conf = g1.conf
  BY <1>1, ChoiceHistory
<1>3. /\ g9' = [g9 EXCEPT !.told = IF g1.dirty THEN {} ELSE @]
  BY DEF Choice!Marked
<1>4. PICK T \in SUBSET SUBSET Choosers[p].Module :
        /\ T = IF g1.dirty THEN {} ELSE g9.told
        /\ g9' = [told |-> T, raced |-> g9.raced, unsaid |-> g9.unsaid, loose |-> g9.loose]
  BY <1>3, ChoiceHistory
<1>5. g9'.told = T /\ (T # {} => T = g9.told /\ ~g1.dirty)
  BY <1>4
<1>6. ChoiceTold(p)'
  <2>1. \A S \in T : Choice(p)!Met(g1.conf) = Choice(p)!Met(S) /\ g1.on = Choice(p)!Met(S)
    BY <1>5 DEF ChoiceTold
  <2> QED BY <1>2, <1>5, <2>1 DEF ChoiceTold, Choice!Met
<1>7. T = {} \/ \E S \in SUBSET Choosers[p].Module : T = {S}
  BY <1>5 DEF ChoiceTypes
<1>8. /\ g9' \in [told : SUBSET SUBSET Choosers[p].Module, raced : BOOLEAN,
                     unsaid : BOOLEAN, loose : BOOLEAN]
      /\ g9'.raced = g9.raced /\ g9'.unsaid = g9.unsaid /\ g9'.loose = g9.loose
  <2>1. /\ T \in SUBSET SUBSET Choosers[p].Module
        /\ g9' = [told |-> T, raced |-> g9.raced, unsaid |-> g9.unsaid, loose |-> g9.loose]
    BY <1>4
  <2>2. g9.raced \in BOOLEAN /\ g9.unsaid \in BOOLEAN /\ g9.loose \in BOOLEAN
    BY ChoiceHistory
  <2> QED BY ONLY <2>1, <2>2
<1> QED BY <1>2, <1>5, <1>6, <1>7, <1>8

\* What a snapshot has seen after the last module is what is on.
LEMMA ChoiceSeen ==
  ASSUME NEW p \in DOMAIN Choosers, ChoiceHolds(p), NEW h \in Choosers[p].Handler,
         g4[h].at = "snap"
  PROVE  /\ g4[h] \in [at : {"snap"}, name : Choosers[p].Name, i : 1..Len(Choosers[p].Registry),
                       snap : SUBSET Choosers[p].Module, calm : BOOLEAN]
         /\ Choice(p)!Seen(g4[h]) \subseteq Choosers[p].Module
         /\ g4[h].calm => /\ Choice(p)!Closed(g1.on)
                          /\ Choice(p)!Seen(g4[h]) = g1.on \cap Before(p, g4[h].i + 1)
         /\ g4[h].calm /\ g4[h].i = Len(Choosers[p].Registry) =>
              Choice(p)!Seen(g4[h]) = g1.on
<1> DEFINE r == g4[h]
<1>1. r \in [at : {"snap"}, name : Choosers[p].Name, i : 1..Len(Choosers[p].Registry),
             snap : SUBSET Choosers[p].Module, calm : BOOLEAN]
  BY DEF ChoiceHolds, ChoiceTypes, ChoiceDoing, Choice!Doing, Choice!Idle
<1>2. Choosers[p].Registry \in Seq(Choosers[p].Module)
  BY ChoiceAssumed DEF Choice!ProfilesAssumption
<1>3. g1.on \subseteq Choosers[p].Module
  BY ChoiceHistory DEF ChoiceHolds
<1>4. Choice(p)!Seen(r) \subseteq Choosers[p].Module
  BY <1>1, <1>3 DEF Choice!Seen
<1>5. r.calm => Choice(p)!Closed(g1.on) /\ r.snap = g1.on \cap Before(p, r.i)
  BY DEF ChoiceHolds, ChoiceClosed, ChoiceSnaps
<1>6. Before(p, r.i + 1) = Before(p, r.i) \cup {Choosers[p].Registry[r.i]}
  <2>1. r.i \in Nat /\ r.i >= 1
    BY <1>1
  <2>2. 1..((r.i + 1) - 1) = (1..(r.i - 1)) \cup {r.i}
    BY <2>1
  <2> QED BY <2>2 DEF Before
<1>7. r.calm => Choice(p)!Seen(r) = g1.on \cap Before(p, r.i + 1)
  BY <1>5, <1>6 DEF Choice!Seen
<1>8. ASSUME r.i = Len(Choosers[p].Registry)
      PROVE g1.on \subseteq Before(p, r.i + 1)
  <2>1. DOMAIN Choosers[p].Registry = 1..((r.i + 1) - 1)
    BY <1>1, <1>2, <1>8
  <2>2. \A m \in Choosers[p].Module : \E j \in DOMAIN Choosers[p].Registry :
          m = Choosers[p].Registry[j]
    BY ChoiceAssumed DEF Choice!ProfilesAssumption, Choice!Range
  <2> QED BY <1>3, <2>1, <2>2 DEF Before
<1> QED BY <1>1, <1>4, <1>5, <1>7, <1>8

\* The end of a snapshot saves it.
LEMMA ChoiceSaves ==
  ASSUME NEW p \in DOMAIN Choosers, ChoiceHolds(p), NEW h \in Choosers[p].Handler,
         Choice(p)!SaveProfile(h)
  PROVE  ChoiceHolds(p)'
<1> DEFINE r == g4[h]
<1> DEFINE kept == [states |-> Choice(p)!Seen(r), calm |-> r.calm]
<1>1. /\ r.at = "snap" /\ r.i = Len(Choosers[p].Registry)
      /\ g2' = [n \in DOMAIN g2 \cup {r.name} |-> IF n = r.name THEN kept ELSE g2[n]]
      /\ g4' = [g4 EXCEPT ![h] = Choice(p)!Idle]
      /\ g1' = [g1 EXCEPT !.dirty = FALSE]
      /\ g9' = Choice(p)!Marked
      /\ g3' = g3 /\ g5' = g5 /\ g6' = g6 /\ g7' = g7 /\ g8' = g8
  BY DEF Choice!SaveProfile, Choice!Goto
<1>2. /\ r \in [at : {"snap"}, name : Choosers[p].Name, i : 1..Len(Choosers[p].Registry),
                snap : SUBSET Choosers[p].Module, calm : BOOLEAN]
      /\ Choice(p)!Seen(r) \subseteq Choosers[p].Module
      /\ r.calm => Choice(p)!Closed(Choice(p)!Seen(r))
  <2>1. r.calm => Choice(p)!Closed(g1.on) /\ Choice(p)!Seen(r) = g1.on
    BY <1>1, ChoiceSeen
  <2> QED BY <1>1, <2>1, ChoiceSeen
<1>3. /\ kept \in [states : SUBSET Choosers[p].Module, calm : BOOLEAN]
      /\ kept.calm => Choice(p)!Closed(kept.states)
  BY <1>2
<1>4. g4' \in [Choosers[p].Handler -> ChoiceDoing(p)]
      /\ \A k \in Choosers[p].Handler : g4'[k] = g4[k] \/ g4'[k] = Choice(p)!Idle
  BY <1>1, ChoiceIdle DEF ChoiceHolds, ChoiceTypes
<1>5. r.name \in Choosers[p].Name
  BY <1>2
<1> HIDE DEF kept, r
<1>6. \A n \in DOMAIN g2' :
        /\ n \in Choosers[p].Name /\ g2'[n] \in [states : SUBSET Choosers[p].Module, calm : BOOLEAN]
        /\ g2'[n].calm => Choice(p)!Closed(g2'[n].states)
  BY <1>1, <1>3, <1>5 DEF ChoiceHolds, ChoiceTypes, ChoiceClosed
<1>7. ChoiceTypes(p)'
  BY <1>1, <1>4, <1>6, ChoiceMarks
  DEF ChoiceHolds, ChoiceTypes, ChoiceDoing, Choice!Doing, Choice!Idle, Choice!None
<1>8. ChoiceClosed(p)'
  <2>1. g1'.on = g1.on /\ g9'.loose = g9.loose
    BY <1>1, ChoiceMarks
  <2>2. ChoiceSnaps(p)'
    BY <1>4, <2>1
    DEF ChoiceHolds, ChoiceClosed, ChoiceSnaps, Before, Choice!Closed, Choice!Idle
  <2> QED BY <1>6, <2>1, <2>2 DEF ChoiceHolds, ChoiceClosed, Choice!Closed
<1>9. ChoiceTold(p)'
  BY <1>1, ChoiceMarks
<1>10. ChoiceMemory(p)'
  BY <1>1, ChoiceMarks, ChoiceMemoryStays DEF ChoiceHolds
<1> QED BY <1>7, <1>8, <1>9, <1>10 DEF ChoiceHolds

\* DeleteProfile and UIMode.
LEMMA ChoiceForgets ==
  ASSUME NEW p \in DOMAIN Choosers, ChoiceHolds(p), g1' = [g1 EXCEPT !.dirty = FALSE],
         g9' = Choice(p)!Marked,
         \A n \in DOMAIN g2' : n \in DOMAIN g2 /\ g2'[n] = g2[n],
         g3' = g3, g4' = g4, g5' = g5, g6' = g6, g7' = g7, g8' = g8
  PROVE  ChoiceHolds(p)'
<1>1. ChoiceTypes(p)'
  BY ChoiceMarks DEF ChoiceHolds, ChoiceTypes, ChoiceDoing, Choice!Doing, Choice!Idle, Choice!None
<1>2. ChoiceClosed(p)'
  <2>1. g1'.on = g1.on /\ g9'.loose = g9.loose
    BY ChoiceMarks
  <2>2. ChoiceSnaps(p)'
    BY <2>1 DEF ChoiceHolds, ChoiceClosed, ChoiceSnaps, Before, Choice!Closed
  <2> QED BY <2>1, <2>2 DEF ChoiceHolds, ChoiceClosed, Choice!Closed
<1>3. ChoiceTold(p)'
  BY ChoiceMarks
<1>4. ChoiceMemory(p)'
  BY ChoiceMarks, ChoiceMemoryStays DEF ChoiceHolds
<1> QED BY <1>1, <1>2, <1>3, <1>4 DEF ChoiceHolds

\* A persona is chosen in memory first, then written by its writer.
LEMMA ChoiceSelects ==
  ASSUME NEW p \in DOMAIN Choosers, ChoiceHolds(p), NEW w \in Choosers[p].Writer,
         NEW q \in Choosers[p].Persona, Choice(p)!Select(w, q)
  PROVE  ChoiceHolds(p)'
<1> DEFINE S == (g1.conf \ Choosers[p].Settings[q].clear) \cup Choosers[p].Settings[q].set
<1> DEFINE raced == Choice(p)!Busy
<1>1. /\ g7[w] = Choice(p)!Idle
      /\ Choice(p)!Written(S, raced)
      /\ g5' = [id |-> q, written |-> FALSE]
      /\ g7' = [g7 EXCEPT ![w] = [at |-> "memory", id |-> q]]
      /\ g2' = g2 /\ g3' = g3 /\ g6' = g6 /\ g8' = g8
  BY DEF Choice!Select
<1>2. S \in SUBSET Choosers[p].Module
  <2>1. Choosers[p].Settings[q].set \subseteq Choosers[p].Module
    BY ChoiceAssumed DEF Choice!ProfilesAssumption
  <2> QED BY <2>1, ChoiceHistory DEF ChoiceHolds
<1>3. raced \in BOOLEAN
  BY DEF Choice!Busy
<1>4. ~raced => \A v \in Choosers[p].Writer : g7[v] = Choice(p)!Idle
  BY DEF Choice!Busy
<1> HIDE DEF S, raced
<1>5. /\ g1' \in [on : SUBSET Choosers[p].Module, conf : SUBSET Choosers[p].Module,
                  shared : BOOLEAN, dirty : BOOLEAN]
      /\ g4' \in [Choosers[p].Handler -> ChoiceDoing(p)]
      /\ g9' \in [told : SUBSET SUBSET Choosers[p].Module, raced : BOOLEAN,
                  unsaid : BOOLEAN, loose : BOOLEAN]
      /\ g9'.told = {S} /\ g9'.raced = raced /\ g9'.unsaid = g9.unsaid
      /\ ChoiceTold(p)' /\ ChoiceClosed(p)'
  BY <1>1, <1>2, <1>3, ChoiceWrites
<1>6. /\ g7' \in [Choosers[p].Writer ->
                   [at : {"memory", "mark"}, id : Choosers[p].Persona] \cup {Choice(p)!Idle}]
      /\ \A v \in Choosers[p].Writer : g7'[v] = IF v = w THEN [at |-> "memory", id |-> q] ELSE g7[v]
  BY <1>1 DEF ChoiceHolds, ChoiceTypes
<1>7. /\ g5' \in [id : Choosers[p].Persona, written : BOOLEAN]
      /\ g5'.id = q /\ ~g5'.written
  <2>1. g5'.id = q /\ ~g5'.written
    BY <1>1
  <2> QED BY <1>1, <2>1
<1>8. ChoiceTypes(p)'
  BY <1>1, <1>2, <1>5, <1>6, <1>7
  DEF ChoiceHolds, ChoiceTypes, ChoiceDoing, Choice!Doing, Choice!Idle, Choice!None
<1>9. ChoiceMemory(p)'
  BY <1>4, <1>5, <1>6, <1>7 DEF ChoiceMemory, Choice!Idle
<1> QED BY <1>5, <1>8, <1>9 DEF ChoiceHolds

\* The demonstration sets its modules.
LEMMA ChoiceShows ==
  ASSUME NEW p \in DOMAIN Choosers, ChoiceHolds(p), Choice(p)!ShowDemo
  PROVE  ChoiceHolds(p)'
<1> DEFINE S == g1.conf \cup Choosers[p].Demo
<1> DEFINE raced == g9.raced
<1>1. /\ Choice(p)!Written(S, raced)
      /\ g2' = g2 /\ g3' = g3 /\ g5' = g5 /\ g6' = g6 /\ g7' = g7 /\ g8' = g8
  BY DEF Choice!ShowDemo, Choice!Rest
<1>2. S \in SUBSET Choosers[p].Module
  BY ChoiceAssumed, ChoiceHistory DEF ChoiceHolds, Choice!ProfilesAssumption
<1>3. raced \in BOOLEAN
  BY ChoiceHistory DEF ChoiceHolds
<1> HIDE DEF S, raced
<1>4. /\ g1' \in [on : SUBSET Choosers[p].Module, conf : SUBSET Choosers[p].Module,
                  shared : BOOLEAN, dirty : BOOLEAN]
      /\ g4' \in [Choosers[p].Handler -> ChoiceDoing(p)]
      /\ g9' \in [told : SUBSET SUBSET Choosers[p].Module, raced : BOOLEAN,
                  unsaid : BOOLEAN, loose : BOOLEAN]
      /\ g9'.told = {S} /\ g9'.raced = raced /\ g9'.unsaid = g9.unsaid
      /\ ChoiceTold(p)' /\ ChoiceClosed(p)'
  BY <1>1, <1>2, <1>3, ChoiceWrites
<1>5. ChoiceTypes(p)'
  BY <1>1, <1>2, <1>4
  DEF ChoiceHolds, ChoiceTypes, ChoiceDoing, Choice!Doing, Choice!Idle, Choice!None
<1>6. ChoiceMemory(p)'
  BY <1>1, <1>4, ChoiceMemoryStays DEF ChoiceHolds, raced
<1> QED BY <1>4, <1>5, <1>6 DEF ChoiceHolds

\* A writer puts its persona into the shared memory.
LEMMA ChoiceWritesMemory ==
  ASSUME NEW p \in DOMAIN Choosers, ChoiceHolds(p), NEW w \in Choosers[p].Writer,
         Choice(p)!WriteMemory(w)
  PROVE  ChoiceHolds(p)'
<1>1. /\ g7[w].at = "memory" /\ g6' = g7[w].id
      /\ g7' = [g7 EXCEPT ![w].at = "mark"]
      /\ g1' = g1 /\ g2' = g2 /\ g3' = g3 /\ g4' = g4 /\ g5' = g5
      /\ g8' \in {g6', g8} /\ g9' = [g9 EXCEPT !.unsaid = FALSE]
  BY DEF Choice!WriteMemory, Choice!Saves
<1>2. g7[w] \in [at : {"memory", "mark"}, id : Choosers[p].Persona]
  BY <1>1 DEF ChoiceHolds, ChoiceTypes, Choice!Idle
<1>3. /\ g7' \in [Choosers[p].Writer ->
                   [at : {"memory", "mark"}, id : Choosers[p].Persona] \cup {Choice(p)!Idle}]
      /\ \A v \in Choosers[p].Writer \ {w} : g7'[v] = g7[v]
      /\ g7'[w].at = "mark" /\ g7'[w].id = g7[w].id
  BY <1>1, <1>2 DEF ChoiceHolds, ChoiceTypes
<1>4. /\ g9' \in [told : SUBSET SUBSET Choosers[p].Module, raced : BOOLEAN,
                  unsaid : BOOLEAN, loose : BOOLEAN]
      /\ g9'.told = g9.told /\ g9'.raced = g9.raced /\ g9'.loose = g9.loose
  <2>1. g9' = [told |-> g9.told, raced |-> g9.raced, unsaid |-> FALSE, loose |-> g9.loose]
    BY <1>1, ChoiceHistory DEF ChoiceHolds
  <2> QED BY <2>1, ChoiceHistory DEF ChoiceHolds
<1>5. ChoiceTypes(p)'
  BY <1>1, <1>2, <1>3, <1>4
  DEF ChoiceHolds, ChoiceTypes, ChoiceDoing, Choice!Doing, Choice!Idle, Choice!None
<1>6. ChoiceMemory(p)'
  <2>1. ASSUME ~g9.raced PROVE g7[w].id = g5.id
    BY <1>1, <2>1 DEF ChoiceHolds, ChoiceMemory, Choice!Idle
  <2> QED BY <1>1, <1>3, <1>4, <2>1 DEF ChoiceHolds, ChoiceMemory, Choice!Idle
<1>7. ChoiceClosed(p)'
  BY <1>1, <1>4, ChoiceClosedStays DEF ChoiceHolds
<1>8. ChoiceTold(p)'
  BY <1>1, <1>4 DEF ChoiceHolds, ChoiceTold, Choice!Met
<1> QED BY <1>5, <1>6, <1>7, <1>8 DEF ChoiceHolds

\* A writer marks what it wrote as written.
LEMMA ChoiceMarksWritten ==
  ASSUME NEW p \in DOMAIN Choosers, ChoiceHolds(p), NEW w \in Choosers[p].Writer,
         Choice(p)!MarkWritten(w)
  PROVE  ChoiceHolds(p)'
<1>1. /\ g7[w].at = "mark"
      /\ g5' = [g5 EXCEPT !.written = TRUE]
      /\ g7' = [g7 EXCEPT ![w] = Choice(p)!Idle]
      /\ g1' = [g1 EXCEPT !.dirty = TRUE]
      /\ g2' = g2 /\ g3' = g3 /\ g4' = g4 /\ g6' = g6 /\ g8' = g8 /\ g9' = g9
  BY DEF Choice!MarkWritten
<1>2. g1' = [on |-> g1.on, conf |-> g1.conf, shared |-> g1.shared, dirty |-> TRUE]
  BY <1>1, ChoiceHistory DEF ChoiceHolds
<1>3. /\ g1' \in [on : SUBSET Choosers[p].Module, conf : SUBSET Choosers[p].Module,
                  shared : BOOLEAN, dirty : BOOLEAN]
      /\ g1'.on = g1.on /\ g1'.conf = g1.conf /\ g1'.dirty
  BY <1>2, ChoiceHistory DEF ChoiceHolds
<1>4. g5' \in [id : Choosers[p].Persona, written : BOOLEAN] /\ g5'.id = g5.id
  BY <1>1 DEF ChoiceHolds, ChoiceTypes
<1>5. /\ g7' \in [Choosers[p].Writer ->
                   [at : {"memory", "mark"}, id : Choosers[p].Persona] \cup {Choice(p)!Idle}]
      /\ \A v \in Choosers[p].Writer : g7'[v] = g7[v] \/ g7'[v] = Choice(p)!Idle
  BY <1>1 DEF ChoiceHolds, ChoiceTypes
<1>6. ChoiceTypes(p)'
  BY <1>1, <1>3, <1>4, <1>5
  DEF ChoiceHolds, ChoiceTypes, ChoiceDoing, Choice!Doing, Choice!Idle, Choice!None
<1>7. ChoiceMemory(p)'
  <2>1. ~g9.raced /\ ~g9.unsaid => g6 = g5.id
    BY <1>1 DEF ChoiceHolds, ChoiceMemory
  <2> QED BY <1>1, <1>4, <1>5, <2>1 DEF ChoiceHolds, ChoiceMemory, Choice!Idle
<1>8. ChoiceClosed(p)'
  BY <1>1, <1>3, ChoiceClosedStays DEF ChoiceHolds
<1>9. ChoiceTold(p)'
  BY <1>1, <1>3 DEF ChoiceHolds, ChoiceTold, Choice!Met
<1> QED BY <1>6, <1>7, <1>8, <1>9 DEF ChoiceHolds

\* A module that is used counts as used.
LEMMA ChoiceUses ==
  ASSUME NEW p \in DOMAIN Choosers, ChoiceHolds(p), NEW m \in Choosers[p].Module,
         Choice(p)!Use(m)
  PROVE  ChoiceHolds(p)'
<1>1. /\ g3' = g3 \cup {m}
      /\ g1' = g1 /\ g2' = g2 /\ g4' = g4 /\ g5' = g5 /\ g6' = g6 /\ g7' = g7 /\ g8' = g8
      /\ g9' = g9
  BY DEF Choice!Use
<1>2. ChoiceTypes(p)'
  BY <1>1 DEF ChoiceHolds, ChoiceTypes, ChoiceDoing, Choice!Doing, Choice!Idle, Choice!None
<1>3. ChoiceMemory(p)' /\ ChoiceClosed(p)'
  BY <1>1, ChoiceMemoryStays, ChoiceClosedStays DEF ChoiceHolds
<1>4. ChoiceTold(p)'
  BY <1>1 DEF ChoiceHolds, ChoiceTold, Choice!Met
<1> QED BY <1>2, <1>3, <1>4 DEF ChoiceHolds

\* Somebody else has the say of the shared memory.
LEMMA ChoiceUnsays ==
  ASSUME NEW p \in DOMAIN Choosers, ChoiceHolds(p),
         NEW v \in Choosers[p].Persona \cup {Choice(p)!None}, Choice(p)!Unsay(v)
  PROVE  ChoiceHolds(p)'
<1>1. /\ g6' = v /\ g8' \in {v, g8} /\ g9' = [g9 EXCEPT !.unsaid = TRUE]
      /\ g1' = g1 /\ g2' = g2 /\ g3' = g3 /\ g4' = g4 /\ g5' = g5 /\ g7' = g7
  BY DEF Choice!Unsay, Choice!Saves
<1>2. /\ g9' \in [told : SUBSET SUBSET Choosers[p].Module, raced : BOOLEAN,
                  unsaid : BOOLEAN, loose : BOOLEAN]
      /\ g9'.told = g9.told /\ g9'.raced = g9.raced /\ g9'.unsaid /\ g9'.loose = g9.loose
  <2>1. g9' = [told |-> g9.told, raced |-> g9.raced, unsaid |-> TRUE, loose |-> g9.loose]
    BY <1>1, ChoiceHistory DEF ChoiceHolds
  <2> QED BY <2>1, ChoiceHistory DEF ChoiceHolds
<1>3. ChoiceTypes(p)'
  BY <1>1, <1>2 DEF ChoiceHolds, ChoiceTypes, ChoiceDoing, Choice!Doing, Choice!Idle, Choice!None
<1>4. ChoiceMemory(p)'
  BY <1>1, <1>2 DEF ChoiceHolds, ChoiceMemory, Choice!Idle
<1>5. ChoiceClosed(p)'
  BY <1>1, <1>2, ChoiceClosedStays DEF ChoiceHolds
<1>6. ChoiceTold(p)'
  BY <1>1, <1>2 DEF ChoiceHolds, ChoiceTold, Choice!Met
<1> QED BY <1>3, <1>4, <1>5, <1>6 DEF ChoiceHolds

\* A save of the shared memory changes its file only.
LEMMA ChoiceSavesMemory ==
  ASSUME NEW p \in DOMAIN Choosers, ChoiceHolds(p), Choice(p)!SaveMemory
  PROVE  ChoiceHolds(p)'
<1>1. /\ g8' = g6
      /\ g1' = g1 /\ g2' = g2 /\ g3' = g3 /\ g4' = g4 /\ g5' = g5 /\ g6' = g6 /\ g7' = g7
      /\ g9' = g9
  BY DEF Choice!SaveMemory
<1>2. ChoiceTypes(p)'
  BY <1>1 DEF ChoiceHolds, ChoiceTypes, ChoiceDoing, Choice!Doing, Choice!Idle, Choice!None
<1>3. ChoiceMemory(p)' /\ ChoiceClosed(p)'
  BY <1>1, ChoiceMemoryStays, ChoiceClosedStays DEF ChoiceHolds
<1>4. ChoiceTold(p)'
  BY <1>1 DEF ChoiceHolds, ChoiceTold, Choice!Met
<1> QED BY <1>2, <1>3, <1>4 DEF ChoiceHolds

\* Every step of a handler keeps the invariant, ...
LEMMA ChoiceHandles ==
  ASSUME NEW p \in DOMAIN Choosers, ChoiceHolds(p), NEW h \in Choosers[p].Handler,
         Choice(p)!Handle(h)
  PROVE  ChoiceHolds(p)'
<1>1. ASSUME NEW n, Choice(p)!ReadProfile(h, n) PROVE ChoiceHolds(p)'
  <2> DEFINE T == Choice(p)!Target(n)
  <2>1. T \subseteq Choosers[p].Module
    BY <1>1, ChoiceAssumed
    DEF ChoiceHolds, ChoiceTypes, Choice!ProfilesAssumption, Choice!ReadProfile, Choice!Target
  <2>2. /\ g4' = [g4 EXCEPT ![h] = [at |-> "apply", target |-> T]]
        /\ UNCHANGED <<g1, g2, g3, g5, g6, g7, g8, g9>>
    BY <1>1 DEF Choice!ReadProfile, Choice!Goto, Choice!Rest
  <2> HIDE DEF T
  <2>3. [at |-> "apply", target |-> T] \in ChoiceDoing(p)
    BY <2>1 DEF ChoiceDoing, Choice!Doing
  <2> QED BY <2>2, <2>3, ChoiceGoes
<1>2. ASSUME NEW n \in Choosers[p].Name, Choice(p)!BeginSave(h, n) PROVE ChoiceHolds(p)'
  <2>1. PICK calm \in BOOLEAN : calm = ~g9.loose
    OBVIOUS
  <2>2. /\ g4' = [g4 EXCEPT ![h] = [at |-> "snap", name |-> n, i |-> 1, snap |-> {},
                                    calm |-> calm]]
        /\ UNCHANGED <<g1, g2, g3, g5, g6, g7, g8, g9>>
    BY <1>2, <2>1, Zenon DEF Choice!BeginSave, Choice!Goto, Choice!Rest
  <2>3. 1 \in 1..Len(Choosers[p].Registry)
    BY ChoiceAssumed DEF Choice!ProfilesAssumption
  <2>4. [at |-> "snap", name |-> n, i |-> 1, snap |-> {}, calm |-> calm] \in ChoiceDoing(p)
    BY <2>3 DEF ChoiceDoing, Choice!Doing
  <2>5. calm => Choice(p)!Closed(g1.on)
    BY <2>1 DEF ChoiceHolds, ChoiceClosed
  <2>6. {} = g1.on \cap Before(p, 1)
    BY DEF Before
  <2> QED BY <2>2, <2>4, <2>5, <2>6, ChoiceGoes
<1>3. ASSUME NEW m \in Choosers[p].Module, Choice(p)!Suggest(h, m) PROVE ChoiceHolds(p)'
  <2>1. PICK to \in BOOLEAN : to = Choice(p)!Startable(m)
    BY DEF Choice!Startable
  <2>2. /\ g4' = [g4 EXCEPT ![h] = [at |-> "switch", module |-> m, to |-> to]]
        /\ UNCHANGED <<g1, g2, g3, g5, g6, g7, g8, g9>>
    BY <1>3, <2>1, Zenon DEF Choice!Suggest, Choice!Goto, Choice!Rest
  <2>3. [at |-> "switch", module |-> m, to |-> to] \in ChoiceDoing(p)
    BY DEF ChoiceDoing, Choice!Doing
  <2> QED BY <2>2, <2>3, ChoiceGoes
<1>4. ASSUME Choice(p)!ApplyProfile(h) PROVE ChoiceHolds(p)'
  <2> DEFINE hs == [g4 EXCEPT ![h] = Choice(p)!Idle]
  <2> DEFINE S == Choice(p)!Closure(g4[h].target)
  <2>1. /\ g4[h].at = "apply"
        /\ Choice(p)!SwitchTo(S, FALSE, TRUE, hs)
        /\ g2' = g2 /\ g3' = g3 /\ g5' = g5 /\ g6' = g6 /\ g7' = g7 /\ g8' = g8
    BY <1>4 DEF Choice!ApplyProfile, Choice!Rest
  <2>2. g4[h].target \in SUBSET Choosers[p].Module
    BY <2>1 DEF ChoiceHolds, ChoiceTypes, ChoiceDoing, Choice!Doing, Choice!Idle
  <2>3. S \in SUBSET Choosers[p].Module /\ Choice(p)!Closed(S)
    BY <2>2, ChoiceClosure
  <2>4. /\ hs \in [Choosers[p].Handler -> ChoiceDoing(p)]
        /\ \A k \in Choosers[p].Handler : hs[k] = g4[k] \/ hs[k] = Choice(p)!Idle
    BY ChoiceIdle DEF ChoiceHolds, ChoiceTypes
  <2> HIDE DEF S, hs
  <2> QED BY <2>1, <2>3, <2>4, ChoiceSwitches
<1>5. ASSUME Choice(p)!Look(h) PROVE ChoiceHolds(p)'
  <2> DEFINE r == g4[h]
  <2>1. /\ r.at = "snap" /\ r.i < Len(Choosers[p].Registry)
        /\ g4' = [g4 EXCEPT ![h] = [r EXCEPT !.snap = Choice(p)!Seen(r), !.i = @ + 1]]
        /\ UNCHANGED <<g1, g2, g3, g5, g6, g7, g8, g9>>
    BY <1>5 DEF Choice!Look, Choice!Goto, Choice!Rest
  <2>2. /\ r \in [at : {"snap"}, name : Choosers[p].Name, i : 1..Len(Choosers[p].Registry),
                  snap : SUBSET Choosers[p].Module, calm : BOOLEAN]
        /\ Choice(p)!Seen(r) \subseteq Choosers[p].Module
        /\ r.calm => /\ Choice(p)!Closed(g1.on)
                     /\ Choice(p)!Seen(r) = g1.on \cap Before(p, r.i + 1)
    BY <2>1, ChoiceSeen
  <2>3. Len(Choosers[p].Registry) \in Nat
    BY ChoiceAssumed DEF Choice!ProfilesAssumption
  <2> DEFINE next == [r EXCEPT !.snap = Choice(p)!Seen(r), !.i = @ + 1]
  <2>4. /\ next \in [at : {"snap"}, name : Choosers[p].Name, i : 1..Len(Choosers[p].Registry),
                     snap : SUBSET Choosers[p].Module, calm : BOOLEAN]
        /\ next.calm = r.calm /\ next.i = r.i + 1 /\ next.snap = Choice(p)!Seen(r)
    <3> DEFINE len == Len(Choosers[p].Registry)
    <3> DEFINE seen == Choice(p)!Seen(r)
    <3>1. r.i + 1 \in 1..len
      BY <2>1, <2>2, <2>3
    <3>2. seen \in SUBSET Choosers[p].Module
      BY <2>2
    <3> HIDE DEF len, seen
    <3> QED BY <2>2, <3>1, <3>2 DEF len, seen
  <2>5. g4' = [g4 EXCEPT ![h] = next]
    BY <2>1
  <2> HIDE DEF next, r
  <2>6. next \in ChoiceDoing(p)
    BY <2>4 DEF ChoiceDoing, Choice!Doing
  <2>7. next.calm => Choice(p)!Closed(g1.on) /\ next.snap = g1.on \cap Before(p, next.i)
    BY <2>2, <2>4
  <2> QED BY <2>1, <2>5, <2>6, <2>7, ChoiceGoes
<1>6. ASSUME Choice(p)!ApplySuggestion(h) PROVE ChoiceHolds(p)'
  <2> DEFINE hs == [g4 EXCEPT ![h] = Choice(p)!Idle]
  <2>1. /\ g4[h].at = "switch"
        /\ Choice(p)!SetModule(g4[h].module, g4[h].to, hs)
        /\ g2' = g2 /\ g3' = g3 /\ g5' = g5 /\ g6' = g6 /\ g7' = g7 /\ g8' = g8
    BY <1>6 DEF Choice!ApplySuggestion, Choice!Rest
  <2>2. g4[h] \in [at : {"switch"}, module : Choosers[p].Module, to : BOOLEAN]
    BY <2>1 DEF ChoiceHolds, ChoiceTypes, ChoiceDoing, Choice!Doing, Choice!Idle
  <2>3. PICK m \in Choosers[p].Module, to \in BOOLEAN : m = g4[h].module /\ to = g4[h].to
    BY <2>2
  <2>4. Choice(p)!SetModule(m, to, hs)
    BY <2>1, <2>3
  <2>5. /\ hs \in [Choosers[p].Handler -> ChoiceDoing(p)]
        /\ \A k \in Choosers[p].Handler : hs[k] = g4[k] \/ hs[k] = Choice(p)!Idle
    BY ChoiceIdle DEF ChoiceHolds, ChoiceTypes
  <2> HIDE DEF hs
  <2> QED BY <2>1, <2>4, <2>5, ChoiceSetsModule
<1>7. ASSUME Choice(p)!RefuseSuggestion(h) PROVE ChoiceHolds(p)'
  <2>1. g4' = [g4 EXCEPT ![h] = Choice(p)!Idle] /\ UNCHANGED <<g1, g2, g3, g5, g6, g7, g8, g9>>
    BY <1>7 DEF Choice!RefuseSuggestion, Choice!Goto, Choice!Rest
  <2>2. Choice(p)!Idle \in ChoiceDoing(p) /\ Choice(p)!Idle.at # "snap"
    BY ChoiceIdle
  <2> QED BY <2>1, <2>2, ChoiceGoes
<1> QED
  BY <1>1, <1>2, <1>3, <1>4, <1>5, <1>6, <1>7, ChoiceSaves DEF Choice!Handle

\* ... and so does every step.
LEMMA ChoiceKeeps ==
  ASSUME NEW p \in DOMAIN Choosers, ChoiceHolds(p), Choice(p)!Next
  PROVE  ChoiceHolds(p)'
<1>1. ASSUME NEW m \in Choosers[p].Module, NEW to \in BOOLEAN, Choice(p)!Toggle(m, to)
      PROVE ChoiceHolds(p)'
  <2>1. /\ Choice(p)!SetModule(m, to, g4)
        /\ g2' = g2 /\ g3' = g3 /\ g5' = g5 /\ g6' = g6 /\ g7' = g7 /\ g8' = g8
    BY <1>1 DEF Choice!Toggle, Choice!Rest
  <2>2. g4 \in [Choosers[p].Handler -> ChoiceDoing(p)]
    BY DEF ChoiceHolds, ChoiceTypes
  <2> QED BY <2>1, <2>2, ChoiceSetsModule
<1>2. ASSUME NEW n \in Choosers[p].Name, Choice(p)!DeleteProfile(n) PROVE ChoiceHolds(p)'
  <2>1. /\ g2' = [k \in DOMAIN g2 \ {n} |-> g2[k]]
        /\ g1' = [g1 EXCEPT !.dirty = FALSE] /\ g9' = Choice(p)!Marked
        /\ g3' = g3 /\ g4' = g4 /\ g5' = g5 /\ g6' = g6 /\ g7' = g7 /\ g8' = g8
    BY <1>2 DEF Choice!DeleteProfile
  <2>2. \A k \in DOMAIN g2' : k \in DOMAIN g2 /\ g2'[k] = g2[k]
    BY <2>1
  <2> QED BY <2>1, <2>2, ChoiceForgets
<1>3. ASSUME Choice(p)!UIMode PROVE ChoiceHolds(p)'
  <2>1. /\ g1' = [g1 EXCEPT !.dirty = FALSE] /\ g9' = Choice(p)!Marked
        /\ g2' = g2 /\ g3' = g3 /\ g4' = g4 /\ g5' = g5 /\ g6' = g6 /\ g7' = g7 /\ g8' = g8
    BY <1>3 DEF Choice!UIMode
  <2> QED BY <2>1, ChoiceForgets
<1> QED
  BY <1>1, <1>2, <1>3, ChoiceHandles, ChoiceSelects, ChoiceWritesMemory, ChoiceMarksWritten,
     ChoiceUses, ChoiceReloads, ChoiceShows, ChoiceRestarts, ChoiceUnsays, ChoiceSavesMemory
  DEF Choice!Next, Choice!Write

\* Every nonempty set of numbers has a least one.
LEMMA LeastNumber ==
  ASSUME NEW T \in SUBSET Nat, T # {}
  PROVE \E n \in T : \A m \in T : n <= m
<1>1. IsWellFoundedOn(OpToRel(<, Nat), Nat)
  BY NatLessThanWellFounded
<1>2. PICK n \in T : \A m \in T : ~(<<m, n>> \in OpToRel(<, Nat))
  BY <1>1, WFMin, Zenon
<1>3. ASSUME NEW m \in T, m < n PROVE <<m, n>> \in OpToRel(<, Nat)
  <2>1. m \in Nat /\ n \in Nat
    OBVIOUS
  <2>2. <<m, n>> \in Nat \X Nat /\ <<m, n>>[1] < <<m, n>>[2]
    BY <1>3, <2>1
  <2> QED BY <2>2 DEF OpToRel
<1>4. \A m \in T : ~(m < n)
  BY <1>2, <1>3, Zenon
<1>5. T \subseteq Nat /\ n \in Nat
  OBVIOUS
<1>6. \A m \in T : n <= m
  BY <1>4, <1>5, SMT
<1> QED BY <1>6

\* A change of one entry.
LEMMA OneChange ==
  ASSUME NEW P, NEW T, NEW f \in [P -> T], NEW q \in P, NEW v \in T
  PROVE  /\ [f EXCEPT ![q] = v] \in [P -> T]
         /\ [f EXCEPT ![q] = v][q] = v
         /\ \A r \in P : r # q => [f EXCEPT ![q] = v][r] = f[r]
OBVIOUS

-----------------------------------------------------------------------------
(* Models: the engine. *)

\* What ModelRunner assumes of the constants of a piece.
LEMMA EngineAssumed == ASSUME NEW p \in DOMAIN Runners PROVE Engine(p)!ModelAssumption
BY GuardsAssumption

\* A process of an engine that was started.
EngineProc == [life : {"alive", "ended"}, waited : BOOLEAN]

\* The types of the engine.
EngineTypes(p) ==
  /\ g1 \in [running : BOOLEAN, starting : BOOLEAN, current : Runners[p].Model \cup {"none"},
             process : Runners[p].Proc \cup {"none"}]
  /\ g2 \in [Runners[p].Proc -> EngineProc \cup {Engine(p)!Free}]
  /\ g3 \in [Runners[p].Loader ->
       {Engine(p)!Idle} \cup {Engine(p)!Checking(m) : m \in Runners[p].Model}
         \cup {Engine(p)!Started(m, q) : m \in Runners[p].Model, q \in Runners[p].Proc}]
  /\ g4 \subseteq Runners[p].Proc

\* There is one start at a time, and none while a process is published; the process of a
\* start is nobody else's.
EngineStarting(p) ==
  \A l \in Runners[p].Loader :
    g3[l] # Engine(p)!Idle =>
      /\ g1.starting /\ ~g1.running /\ g1.process = "none"
      /\ \A k \in Runners[p].Loader : g3[k] # Engine(p)!Idle => k = l
      /\ g3[l].at = "started" =>
           g2[g3[l].proc] \in EngineProc /\ ~g2[g3[l].proc].waited

\* The published process is there; one that is published while another is waited for is
\* told apart, for the flags are cleared when that one's turn comes.
EngineOwned(p) ==
  /\ g1.process = "none" <=> ~g1.running
  /\ \A q \in Runners[p].Proc : g1.process = q => g2[q] \in EngineProc
  /\ \A q \in Runners[p].Proc :
       g2[q].waited /\ g2[q].life = "alive" => g1.process = q \/ q \in g4
  /\ \A q, r \in Runners[p].Proc : g1.process = q /\ r # q /\ g2[r].waited => q \in g4

\* The invariant of the engine.
EngineHolds(p) == EngineTypes(p) /\ EngineStarting(p) /\ EngineOwned(p)

\* It means that a process that lives is owned, once.
LEMMA EngineHoldsOwned ==
  ASSUME NEW p \in DOMAIN Runners, EngineHolds(p)
  PROVE  Engine(p)!Owned
<1> DEFINE busy == {l \in Runners[p].Loader : g3[l] # Engine(p)!Idle}
<1>1. Cardinality(busy) <= 1
  <2>1. CASE busy = {}
    BY <2>1, FS_EmptySet
  <2>2. CASE busy # {}
    <3>1. PICK l : l \in busy
      BY <2>2
    <3>2. busy = {l}
      BY <3>1 DEF EngineHolds, EngineStarting
    <3>3. Cardinality({l}) = 1
      BY FS_Singleton, Zenon
    <3> QED BY <3>2, <3>3
  <2> QED BY <2>1, <2>2
<1>2. Engine(p)!Cardinality(busy) = Cardinality(busy)
  BY Zenon DEF Engine!Cardinality, Cardinality
<1> QED BY <1>1, <1>2 DEF EngineHolds, EngineOwned, Engine!Owned

\* Values that are none.
LEMMA EngineValues ==
  ASSUME NEW p \in DOMAIN Runners
  PROVE  /\ "none" \notin Runners[p].Proc
         /\ Engine(p)!Free \notin EngineProc /\ Engine(p)!Idle.at = "idle"
         /\ Engine(p)!Free.life = "none" /\ ~Engine(p)!Free.waited
         /\ \A m : Engine(p)!Checking(m).at = "checking" /\ Engine(p)!Checking(m).model = m
         /\ \A m, q : /\ Engine(p)!Started(m, q).at = "started"
                      /\ Engine(p)!Started(m, q).model = m
                      /\ Engine(p)!Started(m, q).proc = q
BY EngineAssumed
DEF Engine!ModelAssumption, EngineProc, Engine!Free, Engine!Idle, Engine!Checking, Engine!Started

\* What a loader does, by where it is.
LEMMA EngineLoader ==
  ASSUME NEW p \in DOMAIN Runners, EngineTypes(p), NEW l \in Runners[p].Loader
  PROVE  /\ g3[l].at = "idle" => g3[l] = Engine(p)!Idle
         /\ g3[l].at = "checking" =>
              g3[l] # Engine(p)!Idle /\ g3[l].model \in Runners[p].Model
         /\ g3[l].at = "started" =>
              /\ g3[l] # Engine(p)!Idle
              /\ g3[l].model \in Runners[p].Model /\ g3[l].proc \in Runners[p].Proc
<1>1. \/ g3[l] = Engine(p)!Idle
      \/ \E m \in Runners[p].Model : g3[l] = Engine(p)!Checking(m)
      \/ \E m \in Runners[p].Model, q \in Runners[p].Proc : g3[l] = Engine(p)!Started(m, q)
  BY DEF EngineTypes
<1> QED BY <1>1, EngineValues

\* The fields of the engine and of a process.
LEMMA EngineFields ==
  ASSUME NEW p \in DOMAIN Runners, EngineTypes(p)
  PROVE  /\ g1 = [running |-> g1.running, starting |-> g1.starting, current |-> g1.current,
                  process |-> g1.process]
         /\ g1.running \in BOOLEAN /\ g1.starting \in BOOLEAN
         /\ g1.current \in Runners[p].Model \cup {"none"}
         /\ g1.process \in Runners[p].Proc \cup {"none"}
BY DEF EngineTypes

\* It holds at the start.
LEMMA EngineStarts ==
  ASSUME NEW p \in DOMAIN Runners, Engine(p)!Init
  PROVE  EngineHolds(p)
<1> USE DEF Engine!Init
<1>1. g1 \in [running : BOOLEAN, starting : BOOLEAN, current : Runners[p].Model \cup {"none"},
             process : Runners[p].Proc \cup {"none"}]
  BY Zenon DEF Engine!None
<1>2. ~g1.running /\ g1.process = "none"
  BY DEF Engine!None
<1>3. EngineTypes(p)
  BY <1>1 DEF EngineTypes
<1>4. EngineStarting(p)
  BY DEF EngineStarting
<1>5. EngineOwned(p)
  BY <1>2, EngineValues DEF EngineOwned
<1> QED BY <1>3, <1>4, <1>5 DEF EngineHolds

\* A load begins.
LEMMA EngineBegins ==
  ASSUME NEW p \in DOMAIN Runners, EngineHolds(p), NEW l \in Runners[p].Loader,
         NEW m \in Runners[p].Model, Engine(p)!Begin(l, m)
  PROVE  EngineHolds(p)'
<1>1. /\ ~g1.running /\ ~g1.starting
      /\ g1' = [g1 EXCEPT !.starting = TRUE]
      /\ g3' = [g3 EXCEPT ![l] = Engine(p)!Checking(m)]
      /\ g2' = g2 /\ g4' = g4
  BY DEF Engine!Begin, Engine!MayLoad
<1>2. g1' = [running |-> g1.running, starting |-> TRUE, current |-> g1.current,
             process |-> g1.process]
  BY <1>1, EngineFields DEF EngineHolds
<1>3. /\ g1' \in [running : BOOLEAN, starting : BOOLEAN, current : Runners[p].Model \cup {"none"},
                  process : Runners[p].Proc \cup {"none"}]
      /\ g1'.starting /\ ~g1'.running /\ g1'.process = "none"
  BY <1>1, <1>2, EngineFields DEF EngineHolds, EngineOwned
<1>4. \A k \in Runners[p].Loader : g3[k] = Engine(p)!Idle
  BY <1>1 DEF EngineHolds, EngineStarting
<1>5. \A k \in Runners[p].Loader : g3'[k] = IF k = l THEN Engine(p)!Checking(m) ELSE Engine(p)!Idle
  BY <1>1, <1>4 DEF EngineHolds, EngineTypes
<1>6. EngineTypes(p)'
  BY <1>1, <1>3 DEF EngineHolds, EngineTypes, Engine!Free, Engine!Idle, Engine!Checking,
     Engine!Started
<1>7. EngineStarting(p)'
  <2>1. Engine(p)!Checking(m).at # "started"
    BY EngineValues
  <2> QED BY <1>3, <1>5, <2>1 DEF EngineStarting, Engine!Idle
<1>8. EngineOwned(p)'
  BY <1>1, <1>3, EngineValues DEF EngineHolds, EngineOwned
<1> QED BY <1>6, <1>7, <1>8 DEF EngineHolds

\* A load gives up.
LEMMA EngineFails ==
  ASSUME NEW p \in DOMAIN Runners, EngineHolds(p), NEW l \in Runners[p].Loader,
         Engine(p)!Fail(l)
  PROVE  EngineHolds(p)'
<1>1. /\ g3[l].at = "checking"
      /\ g1' = [g1 EXCEPT !.starting = FALSE]
      /\ g3' = [g3 EXCEPT ![l] = Engine(p)!Idle]
      /\ g2' = g2 /\ g4' = g4
  BY DEF Engine!Fail
<1>2. g1' = [running |-> g1.running, starting |-> FALSE, current |-> g1.current,
             process |-> g1.process]
  BY <1>1, EngineFields DEF EngineHolds
<1>3. /\ g1' \in [running : BOOLEAN, starting : BOOLEAN, current : Runners[p].Model \cup {"none"},
                  process : Runners[p].Proc \cup {"none"}]
      /\ g1'.running = g1.running /\ g1'.process = g1.process
  BY <1>2, EngineFields DEF EngineHolds
<1>4. \A k \in Runners[p].Loader : g3'[k] = Engine(p)!Idle
  BY <1>1, EngineLoader DEF EngineHolds, EngineStarting, EngineTypes
<1>5. EngineTypes(p)'
  BY <1>1, <1>3 DEF EngineHolds, EngineTypes, Engine!Free, Engine!Idle, Engine!Checking,
     Engine!Started
<1>6. EngineStarting(p)'
  BY <1>4 DEF EngineStarting, Engine!Idle
<1>7. EngineOwned(p)'
  BY <1>1, <1>3 DEF EngineHolds, EngineOwned
<1> QED BY <1>5, <1>6, <1>7 DEF EngineHolds

\* A load starts its process.
LEMMA EngineSpawns ==
  ASSUME NEW p \in DOMAIN Runners, EngineHolds(p), NEW l \in Runners[p].Loader,
         NEW q \in Runners[p].Proc, Engine(p)!Spawn(l, q)
  PROVE  EngineHolds(p)'
<1> DEFINE new == [life |-> "alive", waited |-> FALSE]
<1> DEFINE m == g3[l].model
<1>1. /\ g3[l].at = "checking" /\ g2[q] = Engine(p)!Free
      /\ g2' = [g2 EXCEPT ![q] = new]
      /\ g3' = [g3 EXCEPT ![l] = Engine(p)!Started(m, q)]
      /\ g1' = g1 /\ g4' = g4
  BY DEF Engine!Spawn
<1>2. new \in EngineProc /\ ~new.waited
  BY DEF EngineProc
<1>3. /\ m \in Runners[p].Model
      /\ g1.starting /\ ~g1.running /\ g1.process = "none"
      /\ \A k \in Runners[p].Loader : k # l => g3[k] = Engine(p)!Idle
  BY <1>1, EngineLoader DEF EngineHolds, EngineStarting
<1> HIDE DEF m, new
<1>4. /\ \A k \in Runners[p].Loader :
           g3'[k] = IF k = l THEN Engine(p)!Started(m, q) ELSE Engine(p)!Idle
      /\ \A r \in Runners[p].Proc : g2'[r] = IF r = q THEN new ELSE g2[r]
  BY <1>1, <1>3 DEF EngineHolds, EngineTypes
<1>5. EngineTypes(p)'
  BY <1>1, <1>2, <1>3 DEF EngineHolds, EngineTypes, Engine!Free, Engine!Idle, Engine!Checking,
     Engine!Started, EngineProc
<1>6. EngineStarting(p)'
  BY <1>1, <1>2, <1>3, <1>4, EngineValues DEF EngineStarting, Engine!Idle, EngineProc
<1>7. EngineOwned(p)'
  BY <1>1, <1>2, <1>3, <1>4, EngineValues DEF EngineHolds, EngineOwned, EngineProc
<1> QED BY <1>5, <1>6, <1>7 DEF EngineHolds

\* A process that was waited for, ...
LEMMA EngineWaitedField ==
  \A a, b, v :
    [[life |-> a, waited |-> b] EXCEPT !.waited = v] = [life |-> a, waited |-> v]
OBVIOUS

\* ... among the others.
LEMMA EngineProcWaited ==
  ASSUME NEW P, NEW f \in [P -> EngineProc \cup {[life |-> "none", waited |-> FALSE]}],
         NEW q \in P, f[q] \in EngineProc
  PROVE  LET g == [f EXCEPT ![q].waited = TRUE]
         IN /\ g \in [P -> EngineProc \cup {[life |-> "none", waited |-> FALSE]}]
            /\ g[q] = [life |-> f[q].life, waited |-> TRUE]
            /\ \A r \in P : r # q => g[r] = f[r]
<1>1. PICK a \in {"alive", "ended"}, b \in BOOLEAN : f[q] = [life |-> a, waited |-> b]
  BY DEF EngineProc
<1> DEFINE old == [life |-> a, waited |-> b]
<1> DEFINE new == [old EXCEPT !.waited = TRUE]
<1>2. new = [life |-> a, waited |-> TRUE]
  BY EngineWaitedField, Zenon
<1>3. new \in EngineProc \cup {[life |-> "none", waited |-> FALSE]}
  BY <1>2 DEF EngineProc
<1>4. f[q].life = a
  BY <1>1
<1> HIDE DEF new
<1>5. [f EXCEPT ![q].waited = TRUE] = [f EXCEPT ![q] = new]
  BY <1>1 DEF new
<1> QED BY <1>2, <1>3, <1>4, <1>5, OneChange

\* A load makes its process the one that runs.
LEMMA EnginePublishes ==
  ASSUME NEW p \in DOMAIN Runners, EngineHolds(p), NEW l \in Runners[p].Loader,
         Engine(p)!Publish(l)
  PROVE  EngineHolds(p)'
<1> DEFINE q == g3[l].proc
<1> DEFINE m == g3[l].model
<1>1. /\ g3[l].at = "started"
      /\ g1' = [running |-> TRUE, starting |-> FALSE, current |-> m, process |-> q]
      /\ g2' = [g2 EXCEPT ![q].waited = TRUE]
      /\ g4' = IF \E r \in Runners[p].Proc : g2[r].waited THEN g4 \cup {q} ELSE g4
      /\ g3' = [g3 EXCEPT ![l] = Engine(p)!Idle]
  BY DEF Engine!Publish
<1>2. /\ m \in Runners[p].Model /\ q \in Runners[p].Proc /\ q # "none"
      /\ g2[q] \in EngineProc /\ g1.process = "none"
      /\ \A k \in Runners[p].Loader : k # l => g3[k] = Engine(p)!Idle
  BY <1>1, EngineLoader, EngineValues DEF EngineHolds, EngineStarting
<1> HIDE DEF q, m
<1>3. /\ g1' \in [running : BOOLEAN, starting : BOOLEAN, current : Runners[p].Model \cup {"none"},
                  process : Runners[p].Proc \cup {"none"}]
      /\ g1'.running /\ g1'.process = q
  BY <1>1, <1>2
<1>4. /\ g2' \in [Runners[p].Proc -> EngineProc \cup {Engine(p)!Free}]
      /\ g2'[q] = [life |-> g2[q].life, waited |-> TRUE]
      /\ \A r \in Runners[p].Proc : r # q => g2'[r] = g2[r]
      /\ \A k \in Runners[p].Loader : g3'[k] = Engine(p)!Idle
  <2>3. /\ g2' \in [Runners[p].Proc -> EngineProc \cup {Engine(p)!Free}]
        /\ g2'[q] = [life |-> g2[q].life, waited |-> TRUE]
        /\ \A r \in Runners[p].Proc : r # q => g2'[r] = g2[r]
    BY <1>1, <1>2, EngineProcWaited DEF EngineHolds, EngineTypes, Engine!Free
  <2> QED BY <1>1, <1>2, <2>3 DEF EngineHolds, EngineTypes
<1>5. g2'[q] \in EngineProc
  BY <1>2, <1>4 DEF EngineProc
<1>7. EngineTypes(p)'
  BY <1>1, <1>2, <1>3, <1>4 DEF EngineHolds, EngineTypes, Engine!Free, Engine!Idle,
     Engine!Checking, Engine!Started
<1>8. EngineStarting(p)'
  BY <1>4 DEF EngineStarting, Engine!Idle
<1>9. EngineOwned(p)'
  <2>1. \A r \in Runners[p].Proc :
          g2'[r].waited /\ g2'[r].life = "alive" => q = r \/ r \in g4'
    BY <1>1, <1>2, <1>4, EngineValues DEF EngineHolds, EngineOwned
  <2>2. g1'.process # "none"
    BY <1>2, <1>3
  <2>3. \A r \in Runners[p].Proc : r # q /\ g2'[r].waited => q \in g4'
    BY <1>1, <1>4
  <2>4. \A r \in Runners[p].Proc : g1'.process = r => g2'[r] \in EngineProc
    BY <1>3, <1>5
  <2> QED BY <1>3, <2>1, <2>2, <2>3, <2>4 DEF EngineOwned
<1> QED BY <1>7, <1>8, <1>9 DEF EngineHolds

\* The flags are cleared; processes may end, and only such that are not published go away.
LEMMA EngineCleared ==
  ASSUME NEW p \in DOMAIN Runners, EngineHolds(p), Engine(p)!Cleared,
         g2' \in [Runners[p].Proc -> EngineProc \cup {Engine(p)!Free}],
         g4' \subseteq Runners[p].Proc, g3' = g3,
         \A l \in Runners[p].Loader : g3[l].at = "started" => g2'[g3[l].proc] = g2[g3[l].proc],
         \A q \in Runners[p].Proc :
           g2'[q].waited /\ g2'[q].life = "alive" =>
             g2'[q] = g2[q] /\ (g1.process = q \/ q \in g4 => q \in g4')
  PROVE  EngineHolds(p)'
<1>1. g1' = [g1 EXCEPT !.running = FALSE, !.current = "none", !.process = "none"]
  BY DEF Engine!Cleared, Engine!None
<1>2. g1' = [running |-> FALSE, starting |-> g1.starting, current |-> "none",
             process |-> "none"]
  BY <1>1, EngineFields DEF EngineHolds
<1>3. /\ g1' \in [running : BOOLEAN, starting : BOOLEAN, current : Runners[p].Model \cup {"none"},
                  process : Runners[p].Proc \cup {"none"}]
      /\ ~g1'.running /\ g1'.process = "none" /\ g1'.starting = g1.starting
  BY <1>2, EngineFields DEF EngineHolds
<1>4. EngineTypes(p)'
  BY <1>3 DEF EngineHolds, EngineTypes, Engine!Free, Engine!Idle, Engine!Checking, Engine!Started
<1>5. EngineStarting(p)'
  BY <1>3 DEF EngineHolds, EngineStarting, Engine!Idle
<1>6. EngineOwned(p)'
  BY <1>3, EngineValues DEF EngineHolds, EngineOwned
<1> QED BY <1>4, <1>5, <1>6 DEF EngineHolds

\* The engine is stopped.
LEMMA EngineStops ==
  ASSUME NEW p \in DOMAIN Runners, EngineHolds(p), Engine(p)!Stop
  PROVE  EngineHolds(p)'
<1>1. /\ g1.process # "none" \/ g1.running
      /\ g2' = [q \in Runners[p].Proc |->
                  IF q = g1.process THEN [g2[q] EXCEPT !.life = "ended"] ELSE g2[q]]
      /\ Engine(p)!Cleared /\ g3' = g3 /\ g4' = g4
  BY DEF Engine!Stop, Engine!None
<1>2. g1.process \in Runners[p].Proc /\ g2[g1.process] \in EngineProc
  BY <1>1, EngineFields DEF EngineHolds, EngineOwned
<1>3. /\ \A q \in Runners[p].Proc : q # g1.process => g2'[q] = g2[q]
      /\ g2'[g1.process] = [g2[g1.process] EXCEPT !.life = "ended"]
  BY <1>1, <1>2
<1>4. g2'[g1.process] = [life |-> "ended", waited |-> g2[g1.process].waited]
  BY <1>2, <1>3 DEF EngineProc
<1>5. g2'[g1.process] \in EngineProc /\ g2'[g1.process].life = "ended"
  BY <1>2, <1>4 DEF EngineProc
<1>6. g2' \in [Runners[p].Proc -> EngineProc \cup {Engine(p)!Free}]
  BY <1>1, <1>3, <1>5 DEF EngineHolds, EngineTypes
<1>7. \A l \in Runners[p].Loader : g3[l].at = "started" => g2'[g3[l].proc] = g2[g3[l].proc]
  <2>1. \A l \in Runners[p].Loader : g3[l] = Engine(p)!Idle
    BY <1>1 DEF EngineHolds, EngineStarting, EngineOwned
  <2> QED BY <2>1, EngineValues
<1>8. \A q \in Runners[p].Proc :
        g2'[q].waited /\ g2'[q].life = "alive" =>
          g2'[q] = g2[q] /\ (g1.process = q \/ q \in g4 => q \in g4')
  BY <1>1, <1>3, <1>5
<1>9. g4' \subseteq Runners[p].Proc
  BY <1>1 DEF EngineHolds, EngineTypes
<1> QED BY <1>1, <1>6, <1>7, <1>8, <1>9, EngineCleared

\* Somebody waits for a process.
LEMMA EngineWaits ==
  ASSUME NEW p \in DOMAIN Runners, EngineHolds(p), NEW q \in Runners[p].Proc,
         Engine(p)!Wait(q)
  PROVE  EngineHolds(p)'
<1>1. /\ g2[q] = [life |-> "ended", waited |-> TRUE]
      /\ g2' = [g2 EXCEPT ![q] = Engine(p)!Free]
      /\ g4' = g4 \ {q}
      /\ Engine(p)!Cleared /\ g3' = g3
  BY DEF Engine!Wait
<1>2. /\ g2[q].waited
      /\ \A r \in Runners[p].Proc : g2'[r] = IF r = q THEN Engine(p)!Free ELSE g2[r]
      /\ g2' \in [Runners[p].Proc -> EngineProc \cup {Engine(p)!Free}]
  BY <1>1 DEF EngineHolds, EngineTypes
<1>3. \A l \in Runners[p].Loader : g3[l].at = "started" => g2'[g3[l].proc] = g2[g3[l].proc]
  BY <1>2, EngineLoader DEF EngineHolds, EngineStarting
<1>4. \A r \in Runners[p].Proc :
        g2'[r].waited /\ g2'[r].life = "alive" =>
          g2'[r] = g2[r] /\ (g1.process = r \/ r \in g4 => r \in g4')
  BY <1>1, <1>2, EngineValues DEF EngineHolds, EngineOwned
<1>5. g4' \subseteq Runners[p].Proc
  BY <1>1 DEF EngineHolds, EngineTypes
<1> QED BY <1>1, <1>2, <1>3, <1>4, <1>5, EngineCleared

\* A process that ended, ...
LEMMA EngineLifeField ==
  \A S, T : \A r \in [life : S, waited : T] : \A v \in S :
    [r EXCEPT !.life = v] = [life |-> v, waited |-> r.waited]
BY SMT

\* ... among the others.
LEMMA EngineProcEnded ==
  ASSUME NEW r \in [life : {"alive", "ended"}, waited : BOOLEAN]
  PROVE  [r EXCEPT !.life = "ended"] = [life |-> "ended", waited |-> r.waited]
<1>1. "ended" \in {"alive", "ended"}
  OBVIOUS
<1> QED BY <1>1, EngineLifeField, Zenon

\* A process ends.
LEMMA EngineEnds ==
  ASSUME NEW p \in DOMAIN Runners, EngineHolds(p), NEW q \in Runners[p].Proc,
         Engine(p)!End(q)
  PROVE  EngineHolds(p)'
<1>1. /\ g2[q].life = "alive" /\ g2' = [g2 EXCEPT ![q].life = "ended"]
      /\ g1' = g1 /\ g3' = g3 /\ g4' = g4
  BY DEF Engine!End
<1>2. g2[q] \in EngineProc
  BY <1>1, EngineValues DEF EngineHolds, EngineTypes
<1> DEFINE new == [g2[q] EXCEPT !.life = "ended"]
<1>4. new = [life |-> "ended", waited |-> g2[q].waited]
  BY <1>2, EngineProcEnded DEF EngineProc
<1>5. new \in EngineProc /\ new.life = "ended" /\ new.waited = g2[q].waited
  BY <1>2, <1>4 DEF EngineProc
<1> HIDE DEF new
<1>6. /\ g2' \in [Runners[p].Proc -> EngineProc \cup {Engine(p)!Free}]
      /\ g2'[q] = new
      /\ \A r \in Runners[p].Proc : r # q => g2'[r] = g2[r]
  <2>1. [g2 EXCEPT ![q].life = "ended"] = [g2 EXCEPT ![q] = new]
    BY DEF new
  <2> QED BY <1>1, <1>5, <2>1, OneChange DEF EngineHolds, EngineTypes
<1>7. EngineTypes(p)'
  BY <1>1, <1>6 DEF EngineHolds, EngineTypes, Engine!Free, Engine!Idle, Engine!Checking,
     Engine!Started
<1>8. EngineStarting(p)'
  BY <1>1, <1>5, <1>6, EngineLoader DEF EngineHolds, EngineStarting, EngineProc, Engine!Idle
<1>9. EngineOwned(p)'
  <2>1. \A r \in Runners[p].Proc : g2'[r].waited = g2[r].waited
    BY <1>5, <1>6
  <2> QED BY <1>1, <1>5, <1>6, <2>1 DEF EngineHolds, EngineOwned, EngineProc
<1> QED BY <1>7, <1>8, <1>9 DEF EngineHolds

\* Steps of other parts leave the engine alone.
LEMMA EngineRests ==
  ASSUME NEW p \in DOMAIN Runners, EngineHolds(p), UNCHANGED <<g1, g2, g3, g4>>
  PROVE  EngineHolds(p)'
BY DEF EngineHolds, EngineTypes, EngineStarting, EngineOwned, EngineProc, Engine!Free,
   Engine!Idle, Engine!Checking, Engine!Started

-----------------------------------------------------------------------------
(* Models: the files. *)

\* A file of a model, its blocks by where they came from.
FileRecord(p) ==
  [there : BOOLEAN, data : Seq(Runners[p].Source \cup {"none"}),
   by : Runners[p].Slot \cup {"none"}, claim : Runners[p].Source \cup {"none"}]

\* A download that is going on.
Transfer(p) ==
  [at : {"asked", "writing"}, name : Runners[p].Name, source : Runners[p].Source,
   got : 0..Runners[p].MaxSize]

\* The types of the downloads.
FilesTypes(p) ==
  /\ g5 \in [Runners[p].Model -> FileRecord(p)]
  /\ g6 \in [Runners[p].Slot -> {Engine(p)!Rest} \cup Transfer(p)]
  /\ g7 \in [Runners[p].Name -> [is : {"none", "going", "done", "failed"},
                                of : Runners[p].Slot \cup {"none"}]]

\* The blocks of a body, as far as they came.
Body(s, n) == [i \in 1..n |-> s]

\* A file that one download alone writes has what that download has got so far.
FilesWritten(p) ==
  /\ \A d \in Runners[p].Slot : g6[d].at = "asked" => g6[d].got = 0
  /\ \A m \in Runners[p].Model :
       LET d == g5[m].by
       IN d # "none" =>
            /\ g6[d].at = "writing" /\ Runners[p].FileOf[g6[d].source] = m
            /\ g5[m].data = Body(g6[d].source, g6[d].got)

\* A finished file is whole, and what is shown as going on goes on.
FilesClaimed(p) ==
  \A m \in Runners[p].Model :
    LET s == g5[m].claim
    IN s \notin Runners[p].Unsized \cup {"none"} => g5[m].data = Body(s, Runners[p].Size[s])

\* What is shown as going on goes on.
FilesShown(p) ==
  \A n \in Runners[p].Name :
    g7[n].is = "going" =>
      LET d == g7[n].of
      IN d \in Runners[p].Slot /\ g6[d] # Engine(p)!Rest /\ g6[d].name = n

\* The invariant of the downloads.
DownloadsHold(p) == FilesTypes(p) /\ FilesWritten(p) /\ FilesClaimed(p) /\ FilesShown(p)

\* It means what ModelsKept says of files.
LEMMA DownloadsHoldKept ==
  ASSUME NEW p \in DOMAIN Runners, DownloadsHold(p)
  PROVE  Engine(p)!DoneIsWhole /\ Engine(p)!GoingIsGoing
BY DEF DownloadsHold, FilesTypes, FilesClaimed, FilesShown, Body, Engine!DoneIsWhole,
   Engine!GoingIsGoing, Engine!None

\* Sources and slots have names, files and sizes.
LEMMA FilesNames ==
  ASSUME NEW p \in DOMAIN Runners
  PROVE  /\ "none" \notin Runners[p].Slot /\ "none" \notin Runners[p].Source
         /\ Runners[p].FileOf \in [Runners[p].Source -> Runners[p].Model]
         /\ Runners[p].Size \in [Runners[p].Source -> Nat]
         /\ Runners[p].MaxSize \in Nat
         /\ Engine(p)!None = "none" /\ Engine(p)!Rest.at = "idle"
BY EngineAssumed DEF Engine!ModelAssumption, Engine!None, Engine!Rest

\* A download that is not at rest.
LEMMA FilesTransfer ==
  ASSUME NEW p \in DOMAIN Runners, FilesTypes(p), NEW d \in Runners[p].Slot
  PROVE  /\ g6[d] # Engine(p)!Rest <=> g6[d].at \in {"asked", "writing"}
         /\ g6[d] # Engine(p)!Rest <=> g6[d] \in Transfer(p)
         /\ g6[d] # Engine(p)!Rest =>
              /\ g6[d].name \in Runners[p].Name /\ g6[d].source \in Runners[p].Source
              /\ g6[d].got \in 0..Runners[p].MaxSize
BY FilesNames DEF FilesTypes, Transfer

\* It holds at the start.
LEMMA FilesStart ==
  ASSUME NEW p \in DOMAIN Runners, Engine(p)!Init
  PROVE  DownloadsHold(p)
<1> DEFINE no == Engine(p)!NoFile
<1>1. /\ g5 \in [Runners[p].Model -> {no, [no EXCEPT !.there = TRUE]}]
      /\ g6 = [d \in Runners[p].Slot |-> Engine(p)!Rest]
      /\ g7 = [n \in Runners[p].Name |-> [is |-> "none", of |-> "none"]]
  BY DEF Engine!Init, Engine!None
<1>2. /\ no \in FileRecord(p)
      /\ [no EXCEPT !.there = TRUE] \in FileRecord(p)
  <2>1. /\ <<>> \in Seq(Runners[p].Source \cup {"none"}) /\ FALSE \in BOOLEAN
        /\ "none" \in Runners[p].Slot \cup {"none"} /\ "none" \in Runners[p].Source \cup {"none"}
    OBVIOUS
  <2>2. no \in FileRecord(p)
    BY <2>1, Zenon DEF FileRecord, Engine!NoFile, Engine!None
  <2> HIDE DEF no
  <2> QED BY <2>2 DEF FileRecord
<1>3. /\ no.by = "none" /\ [no EXCEPT !.there = TRUE].by = "none"
      /\ no.claim = "none" /\ [no EXCEPT !.there = TRUE].claim = "none"
  BY DEF Engine!NoFile, Engine!None
<1> HIDE DEF no
<1>4. \A m \in Runners[p].Model :
        g5[m] \in FileRecord(p) /\ g5[m].by = "none" /\ g5[m].claim = "none"
  BY <1>1, <1>2, <1>3
<1>5. FilesTypes(p)
  BY <1>1, <1>4 DEF FilesTypes
<1> QED BY <1>1, <1>4, <1>5, FilesNames
  DEF DownloadsHold, FilesWritten, FilesClaimed, FilesShown

\* The list, after a download has ended.
LEMMA FilesTold ==
  ASSUME NEW p \in DOMAIN Runners, DownloadsHold(p), NEW d \in Runners[p].Slot,
         NEW is \in {"done", "failed"},
         g7' = Engine(p)!Told(d, is), g6' = [g6 EXCEPT ![d] = Engine(p)!Rest]
  PROVE  /\ g7' \in [Runners[p].Name -> [is : {"none", "going", "done", "failed"},
                                        of : Runners[p].Slot \cup {"none"}]]
         /\ FilesShown(p)'
<1> DEFINE over == [is |-> is, of |-> "none"]
<1>1. g7' = [n \in Runners[p].Name |-> IF g7[n].of = d THEN over ELSE g7[n]]
  BY FilesNames DEF Engine!Told
<1>2. /\ over \in [is : {"none", "going", "done", "failed"}, of : Runners[p].Slot \cup {"none"}]
      /\ over.is # "going"
  OBVIOUS
<1> HIDE DEF over
<1>3. \A n \in Runners[p].Name :
        \/ g7'[n] = over
        \/ g7'[n] = g7[n] /\ g7[n].of # d
  BY <1>1
<1>4. \A e \in Runners[p].Slot : e # d => g6'[e] = g6[e]
  BY DEF DownloadsHold, FilesTypes
<1>5. FilesShown(p)'
  BY <1>2, <1>3, <1>4 DEF DownloadsHold, FilesShown, Engine!Rest
<1> QED BY <1>1, <1>2, <1>5 DEF DownloadsHold, FilesTypes

\* A download begins.
LEMMA FilesBegin ==
  ASSUME NEW p \in DOMAIN Runners, DownloadsHold(p), NEW d \in Runners[p].Slot,
         NEW n \in Runners[p].Name, NEW s \in Runners[p].Source,
         Engine(p)!BeginDownload(d, n, s)
  PROVE  DownloadsHold(p)'
<1> DEFINE new == [at |-> "asked", name |-> n, source |-> s, got |-> 0]
<1> DEFINE told == [is |-> "going", of |-> d]
<1>1. /\ g6[d] = Engine(p)!Rest
      /\ g6' = [g6 EXCEPT ![d] = new]
      /\ g7' = [g7 EXCEPT ![n] = told] /\ g5' = g5
  BY DEF Engine!BeginDownload, Engine!Getting
<1>2. /\ new \in Transfer(p) /\ new # Engine(p)!Rest
      /\ new.at = "asked" /\ new.got = 0 /\ new.name = n
      /\ told \in [is : {"none", "going", "done", "failed"}, of : Runners[p].Slot \cup {"none"}]
      /\ told.of = d
  BY FilesNames DEF Transfer
<1> HIDE DEF new, told
<1>3. /\ g6' \in [Runners[p].Slot -> {Engine(p)!Rest} \cup Transfer(p)]
      /\ g6'[d] = new /\ \A e \in Runners[p].Slot : e # d => g6'[e] = g6[e]
  BY <1>1, <1>2, OneChange DEF DownloadsHold, FilesTypes
<1>4. /\ g7' \in [Runners[p].Name -> [is : {"none", "going", "done", "failed"},
                                     of : Runners[p].Slot \cup {"none"}]]
      /\ g7'[n] = told /\ \A k \in Runners[p].Name : k # n => g7'[k] = g7[k]
  BY <1>1, <1>2, OneChange DEF DownloadsHold, FilesTypes
<1>5. FilesTypes(p)'
  BY <1>1, <1>3, <1>4 DEF DownloadsHold, FilesTypes, FileRecord, Transfer, Engine!Rest
<1>6. FilesWritten(p)'
  <2>1. \A m \in Runners[p].Model : g5[m].by # "none" => g5[m].by \in Runners[p].Slot
    BY DEF DownloadsHold, FilesTypes, FileRecord
  <2>2. \A m \in Runners[p].Model : g5[m].by # d
    BY <1>1, <2>1, FilesNames DEF DownloadsHold, FilesWritten
  <2> QED BY <1>1, <1>2, <1>3, <2>1, <2>2 DEF DownloadsHold, FilesWritten, Body
<1>7. FilesClaimed(p)'
  BY <1>1 DEF DownloadsHold, FilesClaimed, Body
<1>8. FilesShown(p)'
  BY <1>1, <1>2, <1>3, <1>4 DEF DownloadsHold, FilesShown, Engine!Rest
<1> QED BY <1>5, <1>6, <1>7, <1>8 DEF DownloadsHold

\* A download ends: its file is nobody's, and may be claimed to be whole.
LEMMA FilesReset ==
  ASSUME NEW p \in DOMAIN Runners, DownloadsHold(p), NEW d \in Runners[p].Slot,
         g6' = [g6 EXCEPT ![d] = Engine(p)!Rest],
         g7' \in [Runners[p].Name -> [is : {"none", "going", "done", "failed"},
                                     of : Runners[p].Slot \cup {"none"}]],
         g5' \in [Runners[p].Model -> FileRecord(p)],
         \A m \in Runners[p].Model :
           /\ g5'[m].by = IF g5[m].by = d THEN "none" ELSE g5[m].by
           /\ g5'[m].data = g5[m].data
           /\ \/ g5'[m].claim = g5[m].claim
              \/ /\ g5[m].by = d /\ g5'[m].claim = g6[d].source
                 /\ \/ g6[d].got = Runners[p].Size[g6[d].source]
                    \/ g6[d].source \in Runners[p].Unsized
  PROVE  FilesTypes(p)' /\ FilesWritten(p)' /\ FilesClaimed(p)'
<1>1. /\ g6' \in [Runners[p].Slot -> {Engine(p)!Rest} \cup Transfer(p)]
      /\ g6'[d] = Engine(p)!Rest
      /\ \A e \in Runners[p].Slot : e # d => g6'[e] = g6[e]
  BY OneChange DEF DownloadsHold, FilesTypes
<1>2. FilesTypes(p)'
  BY <1>1 DEF FilesTypes, FileRecord, Transfer, Engine!Rest
<1>3. FilesWritten(p)'
  <2>1. \A m \in Runners[p].Model : g5[m].by # "none" => g5[m].by \in Runners[p].Slot
    BY DEF DownloadsHold, FilesTypes, FileRecord
  <2>2. \A e \in Runners[p].Slot : g6'[e].at = "asked" => g6'[e].got = 0
    BY <1>1, FilesNames DEF DownloadsHold, FilesWritten
  <2>3. ASSUME NEW m \in Runners[p].Model, g5'[m].by # "none"
        PROVE  /\ g6'[g5'[m].by] = g6[g5[m].by]
               /\ g6[g5[m].by].at = "writing"
               /\ Runners[p].FileOf[g6[g5[m].by].source] = m
               /\ g5'[m].data = Body(g6[g5[m].by].source, g6[g5[m].by].got)
    <3>1. g5[m].by # "none" /\ g5[m].by # d /\ g5'[m].by = g5[m].by /\ g5'[m].data = g5[m].data
      BY <2>3
    <3>2. g6'[g5'[m].by] = g6[g5[m].by]
      BY <1>1, <2>1, <3>1
    <3> QED BY <3>1, <3>2 DEF DownloadsHold, FilesWritten
  <2> QED BY <2>2, <2>3 DEF FilesWritten, Body
<1>4. FilesClaimed(p)'
  <2>1. ASSUME NEW m \in Runners[p].Model, g5'[m].claim \notin Runners[p].Unsized \cup {"none"}
        PROVE  g5'[m].data = Body(g5'[m].claim, Runners[p].Size[g5'[m].claim])
    <3>1. CASE g5'[m].claim = g5[m].claim
      BY <2>1, <3>1 DEF DownloadsHold, FilesClaimed
    <3>2. CASE g5'[m].claim # g5[m].claim
      <4>1. /\ g5[m].by = d /\ g5'[m].claim = g6[d].source
            /\ g6[d].got = Runners[p].Size[g6[d].source] /\ d # "none"
        BY <2>1, <3>2, FilesNames
      <4> QED BY <4>1 DEF DownloadsHold, FilesWritten
    <3> QED BY <3>1, <3>2
  <2> QED BY <2>1 DEF FilesClaimed, Body
<1> QED BY <1>2, <1>3, <1>4

\* A download gives up.
LEMMA FilesFail ==
  ASSUME NEW p \in DOMAIN Runners, DownloadsHold(p), NEW d \in Runners[p].Slot,
         Engine(p)!FailDownload(d)
  PROVE  DownloadsHold(p)'
<1>1. /\ g6' = [g6 EXCEPT ![d] = Engine(p)!Rest] /\ g7' = Engine(p)!Told(d, "failed")
      /\ g5' = [m \in Runners[p].Model |->
                  IF g5[m].by = d THEN [g5[m] EXCEPT !.by = "none"] ELSE g5[m]]
  BY FilesNames DEF Engine!FailDownload
<1>2. /\ g7' \in [Runners[p].Name -> [is : {"none", "going", "done", "failed"},
                                     of : Runners[p].Slot \cup {"none"}]]
      /\ FilesShown(p)'
  BY <1>1, FilesTold
<1>3. \A m \in Runners[p].Model :
        /\ g5'[m] \in FileRecord(p) /\ g5'[m].data = g5[m].data
        /\ g5'[m].by = IF g5[m].by = d THEN "none" ELSE g5[m].by
        /\ g5'[m].claim = g5[m].claim
  <2> TAKE m \in Runners[p].Model
  <2>1. g5[m] \in FileRecord(p) /\ "none" \in Runners[p].Slot \cup {"none"}
    BY DEF DownloadsHold, FilesTypes
  <2>2. LET r == [g5[m] EXCEPT !.by = "none"]
        IN r \in FileRecord(p) /\ r.by = "none" /\ r.data = g5[m].data /\ r.claim = g5[m].claim
    BY <2>1 DEF FileRecord
  <2> QED BY <1>1, <2>1, <2>2
<1>4. g5' \in [Runners[p].Model -> FileRecord(p)]
  BY <1>1, <1>3
<1>5. FilesTypes(p)' /\ FilesWritten(p)' /\ FilesClaimed(p)'
  BY <1>1, <1>2, <1>3, <1>4, FilesReset
<1> QED BY <1>2, <1>5 DEF DownloadsHold

\* A download comes to the end of the body.
LEMMA FilesEnd ==
  ASSUME NEW p \in DOMAIN Runners, DownloadsHold(p), NEW d \in Runners[p].Slot,
         Engine(p)!EndOfBody(d)
  PROVE  DownloadsHold(p)'
<1> DEFINE s == g6[d].source
<1>1. /\ g6[d].at = "writing" /\ (g6[d].got = Runners[p].Size[s] \/ s \in Runners[p].Unsized)
      /\ g6' = [g6 EXCEPT ![d] = Engine(p)!Rest] /\ g7' = Engine(p)!Told(d, "done")
      /\ g5' = [m \in Runners[p].Model |->
                  IF g5[m].by = d THEN [g5[m] EXCEPT !.by = "none", !.claim = s] ELSE g5[m]]
  BY FilesNames DEF Engine!EndOfBody
<1>2. s \in Runners[p].Source
  BY <1>1, FilesTransfer DEF DownloadsHold
<1> HIDE DEF s
<1>3. /\ g7' \in [Runners[p].Name -> [is : {"none", "going", "done", "failed"},
                                     of : Runners[p].Slot \cup {"none"}]]
      /\ FilesShown(p)'
  BY <1>1, FilesTold
<1>4. \A m \in Runners[p].Model :
        /\ g5'[m] \in FileRecord(p) /\ g5'[m].data = g5[m].data
        /\ g5'[m].by = IF g5[m].by = d THEN "none" ELSE g5[m].by
        /\ g5'[m].claim = IF g5[m].by = d THEN s ELSE g5[m].claim
  <2> TAKE m \in Runners[p].Model
  <2>1. g5[m] \in FileRecord(p) /\ "none" \in Runners[p].Slot \cup {"none"}
    BY DEF DownloadsHold, FilesTypes
  <2>2. LET r == [g5[m] EXCEPT !.by = "none", !.claim = s]
        IN r \in FileRecord(p) /\ r.by = "none" /\ r.data = g5[m].data /\ r.claim = s
    BY <1>2, <2>1 DEF FileRecord
  <2> QED BY <1>1, <2>1, <2>2
<1>5. g5' \in [Runners[p].Model -> FileRecord(p)]
  BY <1>1, <1>4
<1>6. FilesTypes(p)' /\ FilesWritten(p)' /\ FilesClaimed(p)'
  BY <1>1, <1>3, <1>4, <1>5, FilesReset DEF s
<1> QED BY <1>3, <1>6 DEF DownloadsHold

\* A body of which nothing came.
LEMMA BodyEmpty ==
  \A s : Body(s, 0) = <<>>
BY DEF Body

\* A block more of the same body.
LEMMA BodyGrows ==
  ASSUME NEW s, NEW n \in Nat
  PROVE  /\ Len(Body(s, n)) = n /\ DOMAIN Body(s, n) = 1..n
         /\ \A i \in 1..n : Body(s, n)[i] = s
BY DEF Body

\* The file that a download begins with.
LEMMA FileMade ==
  ASSUME NEW S, NEW T, NEW U, NEW s \in S, NEW t \in T, NEW u \in U
  PROVE  LET r == [there |-> TRUE, data |-> s, by |-> t, claim |-> u]
         IN /\ r \in [there : BOOLEAN, data : S, by : T, claim : U]
            /\ r.data = s /\ r.by = t /\ r.claim = u
OBVIOUS

\* A transfer moves on.
LEMMA TransferMoves ==
  ASSUME NEW p \in DOMAIN Runners, NEW r \in Transfer(p)
  PROVE  LET c == [r EXCEPT !.at = "writing"]
         IN /\ c \in Transfer(p) /\ c.at = "writing" /\ c.name = r.name
            /\ c.source = r.source /\ c.got = r.got
BY DEF Transfer

\* A download creates its file.
LEMMA FilesCreate ==
  ASSUME NEW p \in DOMAIN Runners, DownloadsHold(p), NEW d \in Runners[p].Slot,
         Engine(p)!Create(d)
  PROVE  DownloadsHold(p)'
<1> DEFINE s == g6[d].source
<1> DEFINE m == Runners[p].FileOf[s]
<1> DEFINE c == [g6[d] EXCEPT !.at = "writing"]
<1> DEFINE r == [there |-> TRUE, data |-> <<>>, by |-> d, claim |-> "none"]
<1>1. /\ g6[d].at = "asked" /\ g7' = g7
      /\ g6' = [g6 EXCEPT ![d] = c]
      /\ g5' = [g5 EXCEPT ![m] = r]
  BY FilesNames DEF Engine!Create, Engine!Emptied
<1>2. /\ g6[d] \in Transfer(p) /\ s \in Runners[p].Source /\ m \in Runners[p].Model
      /\ g6[d].got = 0
  BY <1>1, FilesTransfer, FilesNames DEF DownloadsHold, FilesWritten
<1>3. /\ c \in Transfer(p) /\ c.at = "writing" /\ c.name = g6[d].name
      /\ c.source = s /\ c.got = 0
  BY <1>2, TransferMoves
<1>4. /\ r \in FileRecord(p) /\ r.data = <<>> /\ r.by = d /\ r.claim = "none"
  <2>1. <<>> \in Seq(Runners[p].Source \cup {"none"})
    OBVIOUS
  <2> QED BY <2>1, FileMade, Zenon DEF FileRecord
<1> HIDE DEF c, r, s, m
<1>5. /\ g6' \in [Runners[p].Slot -> {Engine(p)!Rest} \cup Transfer(p)]
      /\ g6'[d] = c /\ \A e \in Runners[p].Slot : e # d => g6'[e] = g6[e]
  BY <1>1, <1>3, OneChange DEF DownloadsHold, FilesTypes
<1>6. /\ g5' \in [Runners[p].Model -> FileRecord(p)]
      /\ g5'[m] = r /\ \A k \in Runners[p].Model : k # m => g5'[k] = g5[k]
  BY <1>1, <1>2, <1>4, OneChange DEF DownloadsHold, FilesTypes
<1>7. FilesTypes(p)'
  BY <1>1, <1>5, <1>6 DEF DownloadsHold, FilesTypes, FileRecord, Transfer, Engine!Rest
<1>8. FilesWritten(p)'
  <2>1. \A k \in Runners[p].Model : g5[k].by # "none" => g5[k].by \in Runners[p].Slot
    BY DEF DownloadsHold, FilesTypes, FileRecord
  <2>2. \A e \in Runners[p].Slot : g6'[e].at = "asked" => g6'[e].got = 0
    BY <1>3, <1>5 DEF DownloadsHold, FilesWritten
  <2>3. ASSUME NEW k \in Runners[p].Model, g5'[k].by # "none"
        PROVE  LET e == g5'[k].by
               IN /\ g6'[e].at = "writing" /\ Runners[p].FileOf[g6'[e].source] = k
                  /\ g5'[k].data = Body(g6'[e].source, g6'[e].got)
    <3>1. CASE k = m
      BY <1>3, <1>4, <1>5, <1>6, <3>1, BodyEmpty DEF m
    <3>2. CASE k # m
      <4>1. g5'[k] = g5[k] /\ g5[k].by # "none"
        BY <1>6, <2>3, <3>2
      <4>2. /\ g6[g5[k].by].at = "writing" /\ Runners[p].FileOf[g6[g5[k].by].source] = k
            /\ g5[k].data = Body(g6[g5[k].by].source, g6[g5[k].by].got)
        BY <4>1 DEF DownloadsHold, FilesWritten
      <4>3. g5[k].by # d /\ g6'[g5[k].by] = g6[g5[k].by]
        BY <1>1, <1>5, <2>1, <4>1, <4>2
      <4> QED BY <4>1, <4>2, <4>3
    <3> QED BY <3>1, <3>2
  <2> QED BY <2>2, <2>3 DEF FilesWritten, Body
<1>9. FilesClaimed(p)'
  BY <1>4, <1>6 DEF DownloadsHold, FilesClaimed, Body
<1>10. FilesShown(p)'
  BY <1>1, <1>3, <1>5, FilesNames DEF DownloadsHold, FilesShown, Engine!Rest
<1> QED BY <1>7, <1>8, <1>9, <1>10 DEF DownloadsHold

\* The file after another block.
LEMMA BlockWritten ==
  ASSUME NEW p \in DOMAIN Runners, NEW S, NEW data \in Seq(S), "none" \in S, NEW s \in S,
         NEW n \in Nat
  PROVE  /\ Engine(p)!Written(data, n + 1, s) \in Seq(S)
         /\ data = Body(s, n) => Engine(p)!Written(data, n + 1, s) = Body(s, n + 1)
<1> DEFINE k == IF n + 1 > Len(data) THEN n + 1 ELSE Len(data)
<1> DEFINE w == [j \in 1..k |->
                  IF j = n + 1 THEN s ELSE IF j <= Len(data) THEN data[j] ELSE "none"]
<1>1. Engine(p)!Written(data, n + 1, s) = w
  BY FilesNames DEF Engine!Written
<1>2. Len(data) \in Nat /\ k \in Nat
  OBVIOUS
<1>3. w \in Seq(S)
  <2>1. \A j \in 1..k : w[j] \in S
    BY <1>2
  <2> HIDE DEF k
  <2>2. w \in [1..k -> S]
    BY <2>1
  <2> HIDE DEF w
  <2> QED BY <1>2, <2>2, SeqDef, Zenon
<1>4. ASSUME data = Body(s, n) PROVE w = Body(s, n + 1)
  <2>1. Len(data) = n /\ \A j \in 1..n : data[j] = s
    BY <1>4, BodyGrows
  <2>2. k = n + 1
    BY <2>1
  <2>3. \A j \in 1..(n + 1) : w[j] = s
    BY <2>1, <2>2
  <2> QED BY <2>2, <2>3 DEF Body
<1> HIDE DEF w
<1> QED BY <1>1, <1>3, <1>4

\* A download writes a block.
LEMMA FilesWrite ==
  ASSUME NEW p \in DOMAIN Runners, DownloadsHold(p), NEW d \in Runners[p].Slot,
         Engine(p)!WriteBlock(d)
  PROVE  DownloadsHold(p)'
<1> DEFINE s == g6[d].source
<1> DEFINE m == Runners[p].FileOf[s]
<1> DEFINE i == g6[d].got + 1
<1> DEFINE over == i > Runners[p].MaxSize
<1> DEFINE w == Engine(p)!Written(g5[m].data, i, s)
<1> DEFINE c == [g6[d] EXCEPT !.got = i]
<1>1. /\ g6[d].at = "writing"
      /\ g5' = [g5 EXCEPT ![m].data = w, ![m].by = IF @ = d /\ ~over THEN d ELSE "none",
                          ![m].claim = "none"]
      /\ g6' = [g6 EXCEPT ![d] = IF over THEN Engine(p)!Rest ELSE c]
      /\ g7' = IF over THEN Engine(p)!Told(d, "failed") ELSE g7
  BY FilesNames DEF Engine!WriteBlock
<1>2. /\ g6[d] \in Transfer(p) /\ s \in Runners[p].Source /\ m \in Runners[p].Model
      /\ g6[d].got \in 0..Runners[p].MaxSize
  BY <1>1, FilesTransfer, FilesNames DEF DownloadsHold
<1>a. g6[d].got \in Nat /\ Runners[p].MaxSize \in Nat
  BY <1>2, FilesNames
<1>3. ~over => /\ c \in Transfer(p) /\ c.at = "writing" /\ c.name = g6[d].name
               /\ c.source = s /\ c.got = i
  <2>1. ~over => i \in 0..Runners[p].MaxSize
    BY <1>a
  <2> HIDE DEF over, i
  <2>2. ASSUME ~over
        PROVE  /\ c \in Transfer(p) /\ c.at = "writing" /\ c.name = g6[d].name
               /\ c.source = s /\ c.got = i
    <3>1. i \in 0..Runners[p].MaxSize
      BY <2>1, <2>2
    <3>2. g6[d] \in Transfer(p) /\ g6[d].at = "writing"
      BY <1>1, <1>2
    <3>3. PICK r : r = g6[d]
      OBVIOUS
    <3>4. /\ [r EXCEPT !.got = i] \in Transfer(p) /\ [r EXCEPT !.got = i].at = "writing"
          /\ [r EXCEPT !.got = i].name = r.name /\ [r EXCEPT !.got = i].source = r.source
          /\ [r EXCEPT !.got = i].got = i
      BY <3>1, <3>2, <3>3 DEF Transfer
    <3>5. c = [r EXCEPT !.got = i]
      BY <3>3
    <3> QED BY <3>3, <3>4, <3>5, Zenon
  <2> QED BY <2>2
<1>4. g5[m] \in FileRecord(p) /\ g5[m].data \in Seq(Runners[p].Source \cup {"none"})
  BY <1>2 DEF DownloadsHold, FilesTypes, FileRecord
<1>5. /\ w \in Seq(Runners[p].Source \cup {"none"})
      /\ g5[m].data = Body(s, g6[d].got) => w = Body(s, i)
  <2> DEFINE S == Runners[p].Source \cup {"none"}
  <2> DEFINE data == g5[m].data
  <2> DEFINE n == g6[d].got
  <2>1. data \in Seq(S) /\ "none" \in S /\ s \in S /\ n \in Nat
    BY <1>2, <1>a, <1>4
  <2> HIDE DEF S, data, n, s
  <2>2. /\ Engine(p)!Written(data, n + 1, s) \in Seq(S)
        /\ data = Body(s, n) => Engine(p)!Written(data, n + 1, s) = Body(s, n + 1)
    BY <2>1, BlockWritten
  <2> QED BY <2>2 DEF S, data, n, s
<1> DEFINE b == IF g5[m].by = d /\ ~over THEN d ELSE "none"
<1> DEFINE r == [[[g5[m] EXCEPT !.data = w] EXCEPT !.by = b] EXCEPT !.claim = "none"]
<1>6. g5' = [g5 EXCEPT ![m] = r]
  <2> HIDE DEF w, over, m
  <2> QED BY <1>1, <1>2, <1>4 DEF DownloadsHold, FilesTypes, FileRecord
<1> HIDE DEF w, over, i
<1>7. /\ r \in FileRecord(p) /\ r.data = w /\ r.by = b /\ r.claim = "none"
  <2>1. b \in Runners[p].Slot \cup {"none"}
    OBVIOUS
  <2> HIDE DEF b, m
  <2> QED BY <1>4, <1>5, <2>1 DEF FileRecord
<1> HIDE DEF r
<1>8. /\ g5' \in [Runners[p].Model -> FileRecord(p)]
      /\ g5'[m] = r /\ \A k \in Runners[p].Model : k # m => g5'[k] = g5[k]
  BY <1>2, <1>6, <1>7, OneChange DEF DownloadsHold, FilesTypes
<1> HIDE DEF c, s, m
<1>9. /\ g6' \in [Runners[p].Slot -> {Engine(p)!Rest} \cup Transfer(p)]
      /\ g6'[d] = (IF over THEN Engine(p)!Rest ELSE c)
      /\ \A e \in Runners[p].Slot : e # d => g6'[e] = g6[e]
  BY <1>1, <1>3, OneChange DEF DownloadsHold, FilesTypes
<1>10. /\ g7' \in [Runners[p].Name -> [is : {"none", "going", "done", "failed"},
                                      of : Runners[p].Slot \cup {"none"}]]
       /\ FilesShown(p)'
  <2>1. CASE over
    BY <1>1, <2>1, FilesTold
  <2>2. CASE ~over
    <3>1. FilesShown(p)'
      BY <1>1, <1>3, <1>9, <2>2, FilesNames DEF DownloadsHold, FilesShown, Engine!Rest
    <3> QED BY <1>1, <2>2, <3>1 DEF DownloadsHold, FilesTypes
  <2> QED BY <2>1, <2>2
<1>11. FilesTypes(p)'
  BY <1>8, <1>9, <1>10 DEF DownloadsHold, FilesTypes, FileRecord, Transfer, Engine!Rest
<1>12. FilesWritten(p)'
  <2>1. \A k \in Runners[p].Model : g5[k].by # "none" => g5[k].by \in Runners[p].Slot
    BY DEF DownloadsHold, FilesTypes, FileRecord
  <2>2. \A e \in Runners[p].Slot : g6'[e].at = "asked" => g6'[e].got = 0
    BY <1>3, <1>9, FilesNames DEF DownloadsHold, FilesWritten
  <2>3. ASSUME NEW k \in Runners[p].Model, g5'[k].by # "none"
        PROVE  LET e == g5'[k].by
               IN /\ g6'[e].at = "writing" /\ Runners[p].FileOf[g6'[e].source] = k
                  /\ g5'[k].data = Body(g6'[e].source, g6'[e].got)
    <3>1. CASE k = m
      <4>1. g5[m].by = d /\ ~over /\ g5'[k].by = d /\ g5'[k].data = w
        BY <1>7, <1>8, <2>3, <3>1
      <4>2. g5[m].data = Body(s, g6[d].got)
        BY <1>2, <4>1, FilesNames DEF DownloadsHold, FilesWritten, s
      <4> QED BY <1>3, <1>5, <1>9, <3>1, <4>1, <4>2 DEF m
    <3>2. CASE k # m
      <4>1. g5'[k] = g5[k] /\ g5[k].by # "none"
        BY <1>8, <2>3, <3>2
      <4>2. /\ g6[g5[k].by].at = "writing" /\ Runners[p].FileOf[g6[g5[k].by].source] = k
            /\ g5[k].data = Body(g6[g5[k].by].source, g6[g5[k].by].got)
        BY <4>1 DEF DownloadsHold, FilesWritten
      <4>3. g5[k].by # d
        BY <3>2, <4>2 DEF m, s
      <4>4. g6'[g5[k].by] = g6[g5[k].by]
        BY <1>9, <2>1, <4>1, <4>3
      <4> QED BY <4>1, <4>2, <4>4
    <3> QED BY <3>1, <3>2
  <2> QED BY <2>2, <2>3 DEF FilesWritten, Body
<1>13. FilesClaimed(p)'
  BY <1>7, <1>8 DEF DownloadsHold, FilesClaimed, Body
<1> QED BY <1>10, <1>11, <1>12, <1>13 DEF DownloadsHold

\* Steps of other parts leave files and downloads alone.
LEMMA FilesRest ==
  ASSUME NEW p \in DOMAIN Runners, DownloadsHold(p), UNCHANGED <<g5, g6, g7>>
  PROVE  DownloadsHold(p)'
BY DEF DownloadsHold, FilesTypes, FilesWritten, FilesClaimed, FilesShown, FileRecord, Transfer,
   Body, Engine!Rest

-----------------------------------------------------------------------------
(* Models: the runtimes. *)

\* What is kept of a list, as far as each of its elements; it is a function that calls
\* itself, and there is one.
Kept(R, n, S) ==
  CHOOSE g : g = [i \in 0..n |->
    IF i = 0 THEN <<>> ELSE IF R[i] \in S THEN Append(g[i - 1], R[i]) ELSE g[i - 1]]

\* It is what its definition says: by the theorem on functions that call themselves.
LEMMA KeptListed ==
  ASSUME NEW R, NEW n \in Nat, NEW S
  PROVE  /\ Kept(R, n, S)[0] = <<>>
         /\ \A k \in 1..n : Kept(R, n, S)[k] =
              IF R[k] \in S THEN Append(Kept(R, n, S)[k - 1], R[k]) ELSE Kept(R, n, S)[k - 1]
<1> DEFINE Turn(g, i) ==
      IF i = 0 THEN <<>> ELSE IF R[i] \in S THEN Append(g[i - 1], R[i]) ELSE g[i - 1]
<1> DEFINE Bad == {k \in Nat : ~\E g : g = [i \in 0..k |-> Turn(g, i)]}
<1>1. Bad = {}
  <2>1. SUFFICES ASSUME Bad # {} PROVE FALSE
    OBVIOUS
  <2>2. PICK k \in Bad : \A j \in Bad : k <= j
    BY <2>1, LeastNumber
  <2>3. k # 0
    <3> DEFINE g == [i \in 0..0 |-> <<>>]
    <3>1. g = [i \in 0..0 |-> Turn(g, i)]
      OBVIOUS
    <3> QED BY <3>1
  <2>4. k - 1 \in Nat /\ k - 1 \notin Bad
    <3>1. k \in Nat /\ Bad \subseteq Nat
      BY <2>2
    <3> HIDE DEF Bad
    <3> QED BY <2>2, <2>3, <3>1
  <2>5. PICK h : h = [i \in 0..(k - 1) |-> Turn(h, i)]
    BY <2>4
  <2> DEFINE g == [i \in 0..k |-> IF i = k THEN Turn(h, k) ELSE h[i]]
  <2>6. \A i \in 0..k : g[i] = Turn(g, i)
    <3> TAKE i \in 0..k
    <3>1. CASE i = k
      BY <2>3, <3>1
    <3>2. CASE i # k
      <4>0. k \in Nat /\ i \in 0..(k - 1)
        BY <3>2
      <4>1. g[i] = h[i] /\ h[i] = Turn(h, i)
        <5>1. g[i] = h[i]
          BY <3>2
        <5> HIDE DEF Turn, g
        <5> QED BY <2>5, <4>0, <5>1
      <4>2. i # 0 => i - 1 \in 0..k /\ i - 1 # k /\ g[i - 1] = h[i - 1]
        BY <4>0
      <4> QED BY <4>1, <4>2
    <3> QED BY <3>1, <3>2
  <2>7. g = [i \in 0..k |-> Turn(g, i)]
    BY <2>6
  <2> QED BY <2>7
<1>2. \E g : g = [i \in 0..n |-> Turn(g, i)]
  BY <1>1
<1> DEFINE list == Kept(R, n, S)
<1>3. list = [i \in 0..n |-> Turn(list, i)]
  BY <1>2, Zenon DEF Kept
<1> HIDE DEF list
<1>4. \A k \in 0..n : list[k] = Turn(list, k)
  <2> HIDE DEF Turn
  <2> QED BY <1>3
<1>5. 0 \in 0..n /\ \A k \in 1..n : k \in 0..n /\ k # 0
  OBVIOUS
<1>6. list[0] = <<>>
  BY <1>4, <1>5, Zenon
<1>7. ASSUME NEW k \in 1..n
      PROVE  list[k] = IF R[k] \in S THEN Append(list[k - 1], R[k]) ELSE list[k - 1]
  <2>1. k \in 0..n /\ k # 0
    OBVIOUS
  <2> QED BY <1>4, <2>1, Zenon
<1> QED BY <1>6, <1>7 DEF list

\* s lists those of the first k of R that are in S, each once.
ListsPart(s, R, k, S) ==
  /\ \A a, b \in 1..Len(s) : s[a] = s[b] => a = b
  /\ \A a \in 1..Len(s) : \E j \in 1..k : R[j] \in S /\ s[a] = R[j]
  /\ \A j \in 1..k : R[j] \in S => \E a \in 1..Len(s) : s[a] = R[j]

\* One more of R.
LEMMA ListsPartNext ==
  ASSUME NEW T, NEW R, NEW S, NEW n \in Nat, NEW k \in 1..n, NEW s \in Seq(T), ListsPart(s, R, k - 1, S),
         \A j \in 1..n : R[j] \in T,
         \A i, j \in 1..n : R[i] = R[j] => i = j
  PROVE  LET t == IF R[k] \in S THEN Append(s, R[k]) ELSE s
         IN t \in Seq(T) /\ ListsPart(t, R, k, S)
<1>1. CASE R[k] \notin S
  <2>1. ListsPart(s, R, k, S)
    BY <1>1 DEF ListsPart
  <2> QED BY <1>1, <2>1
<1>2. CASE R[k] \in S
  <2> DEFINE t == Append(s, R[k])
  <2>1. /\ t \in Seq(T) /\ Len(t) = Len(s) + 1 /\ Len(s) \in Nat
        /\ t[Len(s) + 1] = R[k] /\ \A a \in 1..Len(s) : t[a] = s[a]
    OBVIOUS
  <2> HIDE DEF t
  <2>2. \A a \in 1..Len(s) : t[a] # R[k]
    <3>1. \A j \in 1..(k - 1) : R[j] # R[k]
      OBVIOUS
    <3> QED BY <2>1, <3>1 DEF ListsPart
  <2>3. \A a, b \in 1..Len(t) : t[a] = t[b] => a = b
    BY <2>1, <2>2 DEF ListsPart
  <2>4. \A a \in 1..Len(t) : \E j \in 1..k : R[j] \in S /\ t[a] = R[j]
    <3> TAKE a \in 1..Len(t)
    <3>1. CASE a = Len(s) + 1
      BY <1>2, <2>1, <3>1
    <3>2. CASE a # Len(s) + 1
      <4>1. a \in 1..Len(s) /\ t[a] = s[a]
        BY <2>1, <3>2
      <4>2. PICK j \in 1..(k - 1) : R[j] \in S /\ s[a] = R[j]
        BY <4>1 DEF ListsPart
      <4>3. j \in 1..k
        BY <4>2
      <4> QED BY <4>1, <4>2, <4>3
    <3> QED BY <3>1, <3>2
  <2>5. \A j \in 1..k : R[j] \in S => \E a \in 1..Len(t) : t[a] = R[j]
    <3> SUFFICES ASSUME NEW j \in 1..k, R[j] \in S PROVE \E a \in 1..Len(t) : t[a] = R[j]
      OBVIOUS
    <3>1. CASE j = k
      BY <2>1, <3>1
    <3>2. CASE j # k
      <4>1. j \in 1..(k - 1)
        BY <3>2
      <4>2. PICK a \in 1..Len(s) : s[a] = R[j]
        BY <4>1 DEF ListsPart
      <4>3. a \in 1..Len(t) /\ t[a] = s[a]
        BY <2>1
      <4> QED BY <4>2, <4>3
    <3> QED BY <3>1, <3>2
  <2>6. ListsPart(t, R, k, S)
    BY <2>3, <2>4, <2>5 DEF ListsPart
  <2> QED BY <1>2, <2>1, <2>6 DEF t
<1> QED BY <1>1, <1>2

\* A list that is built so has what it should: the least step at which it had not cannot be.
LEMMA KeptAll ==
  ASSUME NEW T, NEW R, NEW S, NEW n \in Nat,
         \A j \in 1..n : R[j] \in T,
         \A i, j \in 1..n : R[i] = R[j] => i = j,
         NEW list,
         list[0] = <<>>,
         \A k \in 1..n : list[k] =
           IF R[k] \in S THEN Append(list[k - 1], R[k]) ELSE list[k - 1]
  PROVE  list[n] \in Seq(T) /\ ListsPart(list[n], R, n, S)
<1> DEFINE Good(k) == list[k] \in Seq(T) /\ ListsPart(list[k], R, k, S)
<1> DEFINE Bad == {k \in Nat : k <= n /\ ~Good(k)}
<1>1. SUFFICES Bad = {}
  <2>1. n \notin Bad => Good(n)
    <3>1. n <= n
      OBVIOUS
    <3> HIDE DEF Good
    <3> QED BY <3>1
  <2> QED BY <2>1
<1>2. SUFFICES ASSUME Bad # {} PROVE FALSE
  OBVIOUS
<1>3. PICK k \in Bad : \A j \in Bad : k <= j
  BY <1>2, LeastNumber
<1>4. k # 0
  <2>1. <<>> \in Seq(T) /\ ListsPart(<<>>, R, 0, S)
    BY DEF ListsPart
  <2>2. Good(0)
    BY <2>1, Zenon
  <2> HIDE DEF Good
  <2> QED BY <2>2
<1>5. k \in 1..n /\ k - 1 \in Nat /\ Good(k - 1)
  <2> HIDE DEF Good
  <2> QED BY <1>3, <1>4
<1>6. Good(k)
  <2> DEFINE s == list[k - 1]
  <2>1. s \in Seq(T) /\ ListsPart(s, R, k - 1, S)
    BY <1>5
  <2> HIDE DEF s
  <2>2. LET t == IF R[k] \in S THEN Append(s, R[k]) ELSE s
        IN t \in Seq(T) /\ ListsPart(t, R, k, S)
    BY <1>5, <2>1, ListsPartNext
  <2>3. list[k] = IF R[k] \in S THEN Append(s, R[k]) ELSE s
    BY <1>5 DEF s
  <2> QED BY <2>2, <2>3
<1> QED BY <1>6

\* A function that meets every element once.
LEMMA BijectionMade ==
  ASSUME NEW A, NEW T, NEW f \in [A -> T], \A a, b \in A : f[a] = f[b] => a = b,
         \A x \in T : \E a \in A : f[a] = x
  PROVE  ExistsBijection(A, T)
BY DEF ExistsBijection, Bijection, Injection, Surjection, IsInjective

\* The elements of S in some order.
Enumeration(S, n) == CHOOSE t \in [1..n -> S] : \A a, b \in DOMAIN t : t[a] = t[b] => a = b

\* A finite set can be listed, each element once.
LEMMA SetListed ==
  ASSUME NEW S, IsFiniteSet(S), NEW n, n = Cardinality(S), NEW s,
         s = Enumeration(S, n)
  PROVE  /\ n \in Nat /\ s \in [1..n -> S]
         /\ \A a, b \in 1..n : s[a] = s[b] => a = b
         /\ \A x \in S : \E a \in 1..n : s[a] = x
<1>1. PICK k \in Nat : ExistsBijection(1..k, S)
  BY FS_NatBijection
<1>2. k = n
  BY <1>1, FS_CountingElements
<1>3. PICK f : f \in Bijection(1..k, S)
  BY <1>1 DEF ExistsBijection
<1>4. f \in [1..k -> S] /\ \A a, b \in 1..k : f[a] = f[b] => a = b
  BY <1>3, Fun_BijectionProperties
<1>5. s \in [1..k -> S] /\ \A a, b \in 1..k : s[a] = s[b] => a = b
  <2>1. \A a, b \in DOMAIN f : f[a] = f[b] => a = b
    BY <1>4
  <2>2. s \in [1..k -> S] /\ \A a, b \in DOMAIN s : s[a] = s[b] => a = b
    <3>1. s = CHOOSE t \in [1..k -> S] : \A a, b \in DOMAIN t : t[a] = t[b] => a = b
      BY <1>2, Zenon DEF Enumeration
    <3> QED BY <1>4, <2>1, <3>1, Zenon
  <2> QED BY <2>2
<1>6. \A x \in S : \E a \in 1..k : s[a] = x
  <2> DEFINE T == {s[a] : a \in 1..k}
  <2>1. T \in SUBSET S
    BY <1>5
  <2>3. ExistsBijection(1..k, T)
    <3>1. s \in [1..k -> T] /\ \A x \in T : \E a \in 1..k : s[a] = x
      BY <1>5
    <3> HIDE DEF T
    <3> QED BY ONLY <1>5, <3>1, BijectionMade
  <2> HIDE DEF T
  <2>4. Cardinality(T) = k
    BY <1>1, <2>3, FS_CountingElements
  <2>5. S = T
    BY <1>2, <2>1, <2>4, FS_Subset
  <2> QED BY <2>5 DEF T
<1> QED BY <1>1, <1>2, <1>5, <1>6

\* The runtimes of a piece, in the order they are asked.
RuntimeList(p) == Runners[p].Runtimes
\* The turns of a round.
Turns(p) == 1..Len(RuntimeList(p))

\* A round of a finder.
RoundRecord(p) ==
  [asked : 0..Len(RuntimeList(p)), got : SUBSET Engine(p)!Runtime, off : SUBSET Engine(p)!Runtime,
   on : BOOLEAN]

\* The types of the rounds.
RoundsTypes(p) ==
  g8 \in [live : SUBSET Engine(p)!Runtime, cache : SUBSET Engine(p)!Runtime,
          off : SUBSET Engine(p)!Runtime, round : [Runners[p].Finder -> RoundRecord(p)]]

\* What a round has found so far: those that answered, among those asked.
RoundsFair(p) ==
  \A f \in Runners[p].Finder :
    /\ \A r \in g8.round[f].got : \E i \in 1..g8.round[f].asked : r = RuntimeList(p)[i]
    /\ \A i \in 1..g8.round[f].asked :
         RuntimeList(p)[i] \notin g8.round[f].off =>
           (RuntimeList(p)[i] \in g8.round[f].got <=> RuntimeList(p)[i] \in g8.live)

\* The cache has those that answer, but for those that changed since.
CacheFair(p) ==
  \A r \in Engine(p)!Runtime : r \notin g8.off => (r \in g8.cache <=> r \in g8.live)

\* The invariant of the rounds.
RoundsHold(p) == RoundsTypes(p) /\ RoundsFair(p) /\ CacheFair(p)

\* Runtimes are listed once each.
LEMMA RuntimesAssumed ==
  ASSUME NEW p \in DOMAIN Runners
  PROVE  /\ RuntimeList(p) \in Seq(Engine(p)!Runtime) /\ Len(RuntimeList(p)) \in Nat
         /\ Engine(p)!Runtime = {RuntimeList(p)[i] : i \in Turns(p)}
         /\ \A i, j \in Turns(p) : RuntimeList(p)[i] = RuntimeList(p)[j] => i = j
         /\ Runners[p].Probed \subseteq Engine(p)!Runtime
         /\ Runners[p].Known \subseteq Engine(p)!Runtime
         /\ IsFiniteSet(Engine(p)!Runtime)
<1>1. /\ RuntimeList(p) \in Seq(Engine(p)!Runtime)
      /\ \A i, j \in DOMAIN RuntimeList(p) : RuntimeList(p)[i] = RuntimeList(p)[j] => i = j
      /\ Runners[p].Probed \subseteq Engine(p)!Runtime
      /\ Runners[p].Known \subseteq Engine(p)!Runtime
  BY EngineAssumed DEF RuntimeList, Engine!Runtime, Engine!ModelAssumption, Engine!IsInjective
<1>2. DOMAIN RuntimeList(p) = Turns(p) /\ Len(RuntimeList(p)) \in Nat
  <2> DEFINE R == Engine(p)!Runtime
  <2>1. RuntimeList(p) \in Seq(R)
    BY <1>1
  <2> HIDE DEF R
  <2> QED BY <2>1 DEF Turns
<1>3. Engine(p)!Runtime = {RuntimeList(p)[i] : i \in Turns(p)}
  BY <1>2 DEF Engine!Runtime, Engine!Range, RuntimeList
<1>4. IsFiniteSet(Engine(p)!Runtime)
  <2> DEFINE R == Engine(p)!Runtime
  <2> DEFINE n == Len(RuntimeList(p))
  <2>1. /\ RuntimeList(p) \in [1..n -> R] /\ n \in Nat
        /\ \A r \in R : \E i \in 1..n : RuntimeList(p)[i] = r
    BY <1>1, <1>2, <1>3 DEF Turns
  <2> HIDE DEF R, n
  <2>2. ExistsSurjection(1..n, R)
    BY <2>1 DEF ExistsSurjection, Surjection
  <2>3. IsFiniteSet(R)
    BY <2>1, <2>2, FS_NatSurjection
  <2> QED BY <2>3 DEF R
<1> QED BY <1>1, <1>2, <1>3, <1>4

\* Those of a set, in the order in which they are asked.
LEMMA InTurnLists ==
  ASSUME NEW p \in DOMAIN Runners, NEW S
  PROVE  /\ Engine(p)!InTurn(S) \in Seq(Engine(p)!Runtime)
         /\ ListsPart(Engine(p)!InTurn(S), RuntimeList(p), Len(RuntimeList(p)), S)
<1> DEFINE R == RuntimeList(p)
<1> DEFINE n == Len(R)
<1> DEFINE asked == Engine(p)!InTurn(S)
<1> DEFINE list == Kept(R, n, S)
<1>1. asked = list[n]
  BY Zenon DEF Engine!InTurn, RuntimeList, Kept
<1>2. /\ n \in Nat /\ \A j \in 1..n : R[j] \in Engine(p)!Runtime
      /\ \A i, j \in 1..n : R[i] = R[j] => i = j
  BY RuntimesAssumed DEF Turns
<1> HIDE DEF R, n, asked
<1>3. /\ list[0] = <<>>
      /\ \A k \in 1..n : list[k] =
           IF R[k] \in S THEN Append(list[k - 1], R[k]) ELSE list[k - 1]
  BY <1>2, KeptListed
<1> HIDE DEF list
<1>4. list[n] \in Seq(Engine(p)!Runtime) /\ ListsPart(list[n], R, n, S)
  BY <1>2, <1>3, KeptAll, Zenon
<1> QED BY <1>1, <1>4 DEF R, n, asked

\* s has what is in S, each once.
Lists(s, S) ==
  /\ s \in Seq(S)
  /\ \A a, b \in 1..Len(s) : s[a] = s[b] => a = b
  /\ \A x \in S : \E a \in 1..Len(s) : s[a] = x

\* Two lists of different things, one after the other.
LEMMA ListsJoined ==
  ASSUME NEW S, NEW T, S \cap T = {}, NEW s, Lists(s, S), NEW t, Lists(t, T)
  PROVE  Lists(s \o t, S \cup T)
<1> DEFINE m == Len(s)
<1> DEFINE n == Len(t)
<1> DEFINE both == s \o t
<1>1. s \in Seq(S) /\ t \in Seq(T) /\ s \in Seq(S \cup T) /\ t \in Seq(S \cup T)
  BY DEF Lists
<1>2. m \in Nat /\ n \in Nat
  BY <1>1
<1>3. /\ both \in Seq(S \cup T) /\ Len(both) = m + n
      /\ \A a \in 1..m : both[a] = s[a] /\ s[a] \in S
      /\ \A a \in 1..n : both[m + a] = t[a] /\ t[a] \in T
  BY <1>1
<1>4. /\ \A a, b \in 1..m : s[a] = s[b] => a = b
      /\ \A a, b \in 1..n : t[a] = t[b] => a = b
      /\ \A x \in S : \E a \in 1..m : s[a] = x
      /\ \A x \in T : \E a \in 1..n : t[a] = x
  BY DEF Lists
<1> HIDE DEF m, n, both
<1>5. ASSUME NEW c \in 1..(m + n)
      PROVE  \/ c \in 1..m /\ both[c] = s[c] /\ both[c] \in S
             \/ c - m \in 1..n /\ both[c] = t[c - m] /\ both[c] \in T
  <2>1. CASE c \in 1..m
    BY <1>3, <2>1
  <2>2. CASE c \notin 1..m
    <3>1. c - m \in 1..n /\ c = m + (c - m)
      BY <1>2, <2>2
    <3> QED BY <1>3, <3>1
  <2> QED BY <2>1, <2>2
<1>6. ASSUME NEW a \in 1..(m + n), NEW b \in 1..(m + n), both[a] = both[b] PROVE a = b
  <2>1. CASE a \in 1..m /\ both[a] = s[a] /\ both[a] \in S
    <3>1. b \in 1..m /\ both[b] = s[b]
      BY <1>5, <1>6, <2>1
    <3> QED BY <1>4, <1>6, <2>1, <3>1
  <2>2. CASE a - m \in 1..n /\ both[a] = t[a - m] /\ both[a] \in T
    <3>1. b - m \in 1..n /\ both[b] = t[b - m]
      BY <1>5, <1>6, <2>2
    <3>2. a - m = b - m
      BY <1>4, <1>6, <2>2, <3>1
    <3> QED BY <1>2, <3>2
  <2> QED BY <1>5, <2>1, <2>2
<1>7. ASSUME NEW x \in S \cup T PROVE \E c \in 1..(m + n) : both[c] = x
  <2>1. CASE x \in S
    <3>1. PICK a \in 1..m : s[a] = x
      BY <1>4, <2>1
    <3>2. a \in 1..(m + n) /\ both[a] = x
      BY <1>2, <1>3, <3>1
    <3> QED BY <3>2
  <2>2. CASE x \in T
    <3>1. PICK a \in 1..n : t[a] = x
      BY <1>4, <2>2
    <3>2. m + a \in 1..(m + n) /\ both[m + a] = x
      BY <1>2, <1>3, <3>1
    <3> QED BY <3>2
  <2> QED BY <2>1, <2>2
<1> QED BY <1>3, <1>6, <1>7 DEF Lists, both

\* What is in one of two lists is in both of them, one after the other.
LEMMA RangeJoined ==
  ASSUME NEW p, NEW S, NEW T, NEW s, Lists(s, S), NEW t, Lists(t, T)
  PROVE  Engine(p)!Range(s \o t) = S \cup T
<1> DEFINE m == Len(s)
<1> DEFINE n == Len(t)
<1> DEFINE both == s \o t
<1>1. s \in Seq(S \cup T) /\ t \in Seq(S \cup T) /\ s \in Seq(S) /\ t \in Seq(T)
  BY DEF Lists
<1>2. m \in Nat /\ n \in Nat
  BY <1>1
<1>3. /\ DOMAIN both = 1..(m + n) /\ both \in Seq(S \cup T)
      /\ \A c \in 1..(m + n) : both[c] \in S \cup T
      /\ \A a \in 1..m : both[a] = s[a]
      /\ \A a \in 1..n : both[m + a] = t[a]
  BY <1>1
<1>4. /\ \A x \in S : \E a \in 1..m : s[a] = x
      /\ \A x \in T : \E a \in 1..n : t[a] = x
  BY DEF Lists
<1> HIDE DEF m, n, both
<1>5. ASSUME NEW x \in S \cup T PROVE \E c \in DOMAIN both : both[c] = x
  <2>1. CASE x \in S
    <3>1. PICK a \in 1..m : s[a] = x
      BY <1>4, <2>1
    <3>2. a \in 1..(m + n) /\ both[a] = x
      BY <1>2, <1>3, <3>1
    <3> QED BY <1>3, <3>2
  <2>2. CASE x \in T
    <3>1. PICK a \in 1..n : t[a] = x
      BY <1>4, <2>2
    <3>2. m + a \in 1..(m + n) /\ both[m + a] = x
      BY <1>2, <1>3, <3>1
    <3> QED BY <1>3, <3>2
  <2> QED BY <2>1, <2>2
<1> QED BY <1>3, <1>5 DEF Engine!Range, both

\* The entries of S.
EntriesOf(p, S, status) == {Engine(p)!Entry(r, status) : r \in S}

\* The entries of a list.
LEMMA EntriesList ==
  ASSUME NEW p, NEW S, NEW s, Lists(s, S), NEW status
  PROVE  Lists(Engine(p)!Entries(s, status), EntriesOf(p, S, status))
<1> DEFINE n == Len(s)
<1> DEFINE es == Engine(p)!Entries(s, status)
<1> DEFINE E == EntriesOf(p, S, status)
<1>1. n \in Nat /\ \A a \in 1..n : s[a] \in S
  BY DEF Lists
<1>2. es = [i \in 1..n |-> Engine(p)!Entry(s[i], status)]
  BY DEF Engine!Entries
<1>3. \A a \in 1..n : Engine(p)!Entry(s[a], status) \in E
  BY <1>1 DEF EntriesOf
<1>4. \A x, y : Engine(p)!Entry(x, status) = Engine(p)!Entry(y, status) => x = y
  BY DEF Engine!Entry
<1>5. /\ \A a, b \in 1..n : s[a] = s[b] => a = b
      /\ \A e \in E : \E a \in 1..n : e = Engine(p)!Entry(s[a], status)
  BY DEF Lists, EntriesOf
<1> HIDE DEF n, es, E
<1>6. es \in Seq(E) /\ Len(es) = n /\ \A a \in 1..n : es[a] = Engine(p)!Entry(s[a], status)
  BY <1>1, <1>2, <1>3
<1>7. \A a, b \in 1..n : es[a] = es[b] => a = b
  BY <1>4, <1>5, <1>6
<1>8. \A e \in E : \E a \in 1..n : es[a] = e
  BY <1>5, <1>6
<1> QED BY <1>6, <1>7, <1>8 DEF Lists, es, E

\* Those of a set of runtimes, each once.
LEMMA InTurnHas ==
  ASSUME NEW p \in DOMAIN Runners, NEW S \in SUBSET Engine(p)!Runtime
  PROVE  Lists(Engine(p)!InTurn(S), S)
<1> DEFINE R == RuntimeList(p)
<1> DEFINE n == Len(R)
<1> DEFINE s == Engine(p)!InTurn(S)
<1> DEFINE T == Engine(p)!Runtime
<1>1. s \in Seq(T) /\ ListsPart(s, R, n, S)
  BY InTurnLists
<1>2. S \subseteq T /\ T = {R[j] : j \in 1..n}
  BY RuntimesAssumed DEF Turns
<1> HIDE DEF R, n, s, T
<1>3. \A a \in 1..Len(s) : s[a] \in S
  BY <1>1 DEF ListsPart
<1>4. s \in Seq(S)
  BY <1>1, <1>3
<1>5. \A r \in S : \E a \in 1..Len(s) : s[a] = r
  <2> TAKE r \in S
  <2>1. PICK j \in 1..n : r = R[j]
    BY <1>2
  <2> QED BY <1>1, <2>1 DEF ListsPart
<1> QED BY <1>1, <1>4, <1>5 DEF ListsPart, Lists, s

\* A finite set that is listed.
LEMMA ListedHas ==
  ASSUME NEW p \in DOMAIN Runners, NEW rest \in SUBSET Engine(p)!Runtime
  PROVE  Lists(Engine(p)!Listed(rest), rest)
<1> DEFINE k == Cardinality(rest)
<1> DEFINE s == Engine(p)!Listed(rest)
<1>1. IsFiniteSet(rest)
  BY RuntimesAssumed, FS_Subset
<1>2. Engine(p)!Cardinality(rest) = k
  BY Zenon DEF Engine!Cardinality, Cardinality
<1> HIDE DEF k, s
<1>3. s = Enumeration(rest, k)
  BY <1>2, Zenon DEF s, Engine!Listed, Engine!IsInjective, Enumeration
<1>4. k = Cardinality(rest)
  BY DEF k
<1>5. /\ k \in Nat /\ s \in [1..k -> rest]
      /\ \A a, b \in 1..k : s[a] = s[b] => a = b
      /\ \A x \in rest : \E a \in 1..k : s[a] = x
  BY ONLY <1>1, <1>3, <1>4, SetListed
<1>6. s \in Seq(rest) /\ Len(s) = k
  BY <1>5
<1> QED BY <1>5, <1>6 DEF Lists, s

\* What the list has: those that answer, those that the registry names, and those that the
\* cache has besides.
ListedEntries(p) ==
  (EntriesOf(p, Runners[p].Probed \cap g8.live, "online")
     \cup EntriesOf(p, Runners[p].Known, "discovered"))
   \cup EntriesOf(p, g8.cache \ ((Runners[p].Probed \cap g8.live) \cup Runners[p].Known),
                  "online")

\* It has each of them once.
LEMMA ListingHas ==
  ASSUME NEW p \in DOMAIN Runners, RoundsTypes(p)
  PROVE  Lists(Engine(p)!Listing, ListedEntries(p))
<1> DEFINE S == Runners[p].Probed \cap g8.live
<1> DEFINE K == Runners[p].Known
<1> DEFINE rest == g8.cache \ (S \cup K)
<1> DEFINE asked == Engine(p)!InTurn(S)
<1> DEFINE named == Engine(p)!InTurn(K)
<1> DEFINE added == Engine(p)!Added(asked \o named)
<1>1. S \subseteq Engine(p)!Runtime /\ K \subseteq Engine(p)!Runtime
      /\ rest \subseteq Engine(p)!Runtime
  BY RuntimesAssumed DEF RoundsTypes
<1>2. Lists(asked, S) /\ Lists(named, K)
  BY <1>1, InTurnHas
<1>3. Lists(added, rest)
  <2>1. Engine(p)!Range(asked \o named) = S \cup K
    <3> HIDE DEF asked, named, S, K
    <3> QED BY <1>2, RangeJoined
  <2>2. added = Engine(p)!Listed(rest)
    BY <2>1 DEF Engine!Added
  <2> QED BY <1>1, <2>2, ListedHas
<1>4. Engine(p)!Listing = (Engine(p)!Entries(asked, "online")
         \o Engine(p)!Entries(named, "discovered")) \o Engine(p)!Entries(added, "online")
  BY Zenon DEF Engine!Listing
<1>8. ListedEntries(p) = (EntriesOf(p, S, "online") \cup EntriesOf(p, K, "discovered"))
        \cup EntriesOf(p, rest, "online")
  BY DEF ListedEntries
<1>5. S \cap rest = {}
  OBVIOUS
<1> HIDE DEF asked, named, added, S, K, rest
<1> DEFINE online == EntriesOf(p, S, "online")
<1> DEFINE known == EntriesOf(p, K, "discovered")
<1> DEFINE more == EntriesOf(p, rest, "online")
<1>6. /\ Lists(Engine(p)!Entries(asked, "online"), online)
      /\ Lists(Engine(p)!Entries(named, "discovered"), known)
      /\ Lists(Engine(p)!Entries(added, "online"), more)
  BY <1>2, <1>3, EntriesList
<1>7. online \cap known = {} /\ (online \cup known) \cap more = {}
  BY <1>5 DEF EntriesOf, Engine!Entry
<1> HIDE DEF online, known, more
<1> DEFINE two == Engine(p)!Entries(asked, "online") \o Engine(p)!Entries(named, "discovered")
<1>9. Lists(two, online \cup known)
  BY <1>6, <1>7, ListsJoined
<1> HIDE DEF two
<1>10. Lists(two \o Engine(p)!Entries(added, "online"), (online \cup known) \cup more)
  BY <1>6, <1>7, <1>9, ListsJoined
<1> QED BY <1>4, <1>8, <1>10 DEF two, online, known, more

\* It means that the list is true.
LEMMA RoundsHoldKept ==
  ASSUME NEW p \in DOMAIN Runners, RoundsHold(p)
  PROVE  Engine(p)!ListTrue
<1> DEFINE list == Engine(p)!Listing
<1>1. Lists(list, ListedEntries(p))
  BY ListingHas DEF RoundsHold
<1> HIDE DEF list
<1>2. DOMAIN list = 1..Len(list) /\ Engine(p)!IsInjective(list)
  <2> DEFINE E == ListedEntries(p)
  <2>1. list \in Seq(E)
    BY <1>1 DEF Lists
  <2> HIDE DEF E
  <2>2. DOMAIN list = 1..Len(list)
    BY <2>1
  <2> QED BY <1>1, <2>2 DEF Lists, Engine!IsInjective
<1>3. Engine(p)!Range(list) = ListedEntries(p)
  <2> DEFINE E == ListedEntries(p)
  <2>1. /\ list \in Seq(E) /\ \A e \in E : \E a \in 1..Len(list) : list[a] = e
    BY <1>1 DEF Lists
  <2> HIDE DEF E
  <2>2. \A a \in 1..Len(list) : list[a] \in E
    BY <2>1
  <2> QED BY <1>2, <2>1, <2>2 DEF Engine!Range, E
<1>4. ASSUME NEW r \in Engine(p)!Runtime \ g8.off
      PROVE  /\ (\E e \in ListedEntries(p) : e.model = r) <=> r \in g8.live \cup Runners[p].Known
             /\ Engine(p)!Entry(r, "online") \in ListedEntries(p) => r \in g8.live
  <2>1. r \in g8.cache <=> r \in g8.live
    BY <1>4 DEF RoundsHold, CacheFair
  <2>2. ASSUME NEW e \in ListedEntries(p), e.model = r
        PROVE  /\ r \in g8.live \cup Runners[p].Known
               /\ e.status = "online" => r \in g8.live
    BY <2>1, <2>2 DEF ListedEntries, EntriesOf, Engine!Entry
  <2>3. ASSUME r \in Runners[p].Known PROVE \E e \in ListedEntries(p) : e.model = r
    <3>1. /\ Engine(p)!Entry(r, "discovered") \in ListedEntries(p)
          /\ Engine(p)!Entry(r, "discovered").model = r
      BY <2>3 DEF ListedEntries, EntriesOf, Engine!Entry
    <3> QED BY <3>1
  <2>4. ASSUME r \in g8.live, r \notin Runners[p].Known
        PROVE  \E e \in ListedEntries(p) : e.model = r
    <3>1. /\ Engine(p)!Entry(r, "online") \in ListedEntries(p)
          /\ Engine(p)!Entry(r, "online").model = r
      BY <2>1, <2>4 DEF ListedEntries, EntriesOf, Engine!Entry
    <3> QED BY <3>1
  <2>5. ASSUME Engine(p)!Entry(r, "online") \in ListedEntries(p) PROVE r \in g8.live
    <3>1. /\ Engine(p)!Entry(r, "online").model = r
          /\ Engine(p)!Entry(r, "online").status = "online"
      BY DEF Engine!Entry
    <3> QED BY <2>2, <2>5, <3>1
  <2> QED BY <2>2, <2>3, <2>4, <2>5
<1> QED BY <1>2, <1>3, <1>4 DEF Engine!ListTrue, list

\* It holds at the start.
LEMMA RoundsStart ==
  ASSUME NEW p \in DOMAIN Runners, Engine(p)!Init
  PROVE  RoundsHold(p)
<1> DEFINE none == Engine(p)!NoRound
<1> DEFINE R == Engine(p)!Runtime
<1>1. g8 = [live |-> {}, cache |-> {}, off |-> R, round |-> [f \in Runners[p].Finder |-> none]]
  BY DEF Engine!Init
<1>2. none \in RoundRecord(p) /\ none.asked = 0 /\ none.got = {}
  BY RuntimesAssumed DEF RoundRecord, Engine!NoRound
<1> HIDE DEF none, R
<1>3. /\ g8.live = {} /\ g8.cache = {} /\ g8.off = R
      /\ \A f \in Runners[p].Finder : g8.round[f] = none
  BY <1>1
<1>4. RoundsTypes(p)
  BY <1>1, <1>2 DEF RoundsTypes, R
<1>5. RoundsFair(p)
  BY <1>2, <1>3 DEF RoundsFair
<1>6. CacheFair(p)
  BY <1>3 DEF CacheFair, R
<1> QED BY <1>4, <1>5, <1>6 DEF RoundsHold

\* What is found, by field.
LEMMA RoundsFields ==
  ASSUME NEW p \in DOMAIN Runners, RoundsTypes(p)
  PROVE  /\ g8.live \subseteq Engine(p)!Runtime /\ g8.cache \subseteq Engine(p)!Runtime
         /\ g8.off \subseteq Engine(p)!Runtime
         /\ g8.round \in [Runners[p].Finder -> RoundRecord(p)]
         /\ \A f \in Runners[p].Finder :
              /\ g8.round[f] \in RoundRecord(p)
              /\ g8.round[f].asked \in 0..Len(RuntimeList(p))
              /\ g8.round[f].got \subseteq Engine(p)!Runtime
              /\ g8.round[f].off \subseteq Engine(p)!Runtime
BY DEF RoundsTypes, RoundRecord

\* A round that is replaced, and a cache and a set of runtimes beside it.
LEMMA RoundsChange ==
  ASSUME NEW p \in DOMAIN Runners, RoundsHold(p), NEW r \in Engine(p)!Runtime,
         Engine(p)!Change(r)
  PROVE  RoundsHold(p)'
<1> DEFINE R == Engine(p)!Runtime
<1> DEFINE F == Runners[p].Finder
<1> DEFINE T == RoundRecord(p)
<1> DEFINE l == IF r \in g8.live THEN g8.live \ {r} ELSE g8.live \cup {r}
<1> DEFINE o == g8.off \cup {r}
<1> DEFINE was(f) == r \in {RuntimeList(p)[i] : i \in 1..g8.round[f].asked}
<1> DEFINE new(f) == IF was(f) THEN [g8.round[f] EXCEPT !.off = @ \cup {r}] ELSE g8.round[f]
<1> DEFINE n == [f \in F |-> new(f)]
<1>1. g8' = [g8 EXCEPT !.live = l, !.off = o, !.round = n]
  BY Zenon DEF Engine!Change, RuntimeList
<1>2. \A f \in F :
        /\ new(f) \in T /\ new(f).asked = g8.round[f].asked /\ new(f).got = g8.round[f].got
        /\ new(f).off = IF was(f) THEN g8.round[f].off \cup {r} ELSE g8.round[f].off
  <2> TAKE f \in F
  <2>1. g8.round[f] \in T
    BY RoundsFields DEF RoundsHold
  <2> HIDE DEF was
  <2> QED BY <2>1 DEF RoundRecord
<1>3. n \in [F -> T]
  BY <1>2
<1>4. l \in SUBSET R /\ o \in SUBSET R
  BY RoundsFields DEF RoundsHold
<1> HIDE DEF l, o, was, new
<1>5. \A f \in F : n[f] = new(f)
  OBVIOUS
<1> HIDE DEF n
<1>6. /\ g8' \in [live : SUBSET R, cache : SUBSET R, off : SUBSET R, round : [F -> T]]
      /\ g8'.live = l /\ g8'.cache = g8.cache /\ g8'.off = o /\ g8'.round = n
  <2> HIDE DEF R, F, T
  <2>1. g8 \in [live : SUBSET R, cache : SUBSET R, off : SUBSET R, round : [F -> T]]
    BY DEF RoundsHold, RoundsTypes, R, F, T
  <2> QED BY <1>1, <1>3, <1>4, <2>1
<1>7. RoundsTypes(p)'
  BY <1>6 DEF RoundsTypes, RoundRecord, Engine!Runtime
<1>8. RoundsFair(p)'
  <2> SUFFICES ASSUME NEW f \in F
               PROVE  /\ \A q \in n[f].got : \E i \in 1..n[f].asked : q = RuntimeList(p)[i]
                      /\ \A i \in 1..n[f].asked :
                           RuntimeList(p)[i] \notin n[f].off =>
                             (RuntimeList(p)[i] \in n[f].got <=> RuntimeList(p)[i] \in l)
    BY <1>6 DEF RoundsFair, RuntimeList
  <2>1. \A q \in g8.round[f].got : \E i \in 1..g8.round[f].asked : q = RuntimeList(p)[i]
    BY DEF RoundsHold, RoundsFair
  <2>2. ASSUME NEW i \in 1..g8.round[f].asked, RuntimeList(p)[i] \notin new(f).off
        PROVE  RuntimeList(p)[i] \in g8.round[f].got <=> RuntimeList(p)[i] \in l
    <3>1. RuntimeList(p)[i] # r /\ RuntimeList(p)[i] \notin g8.round[f].off
      BY <1>2, <2>2 DEF was
    <3>2. RuntimeList(p)[i] \in g8.round[f].got <=> RuntimeList(p)[i] \in g8.live
      BY <3>1 DEF RoundsHold, RoundsFair
    <3> QED BY <3>1, <3>2 DEF l
  <2>3. /\ n[f].asked = g8.round[f].asked /\ n[f].got = g8.round[f].got
        /\ n[f].off = new(f).off
    BY <1>2, <1>5
  <2> QED BY <2>1, <2>2, <2>3, Zenon
<1>9. CacheFair(p)'
  <2>1. \A q \in R : q \notin o => (q \in g8.cache <=> q \in l)
    BY DEF RoundsHold, CacheFair, l, o
  <2> QED BY <1>6, <2>1 DEF CacheFair, Engine!Runtime
<1> QED BY <1>7, <1>8, <1>9 DEF RoundsHold

\* One round is replaced: nothing else changes but, maybe, what is cached.
LEMMA RoundReplaced ==
  ASSUME NEW p \in DOMAIN Runners, RoundsHold(p), NEW f \in Runners[p].Finder,
         NEW new \in RoundRecord(p),
         g8'.live = g8.live, g8'.round = [g8.round EXCEPT ![f] = new],
         g8' \in [live : SUBSET Engine(p)!Runtime, cache : SUBSET Engine(p)!Runtime,
                  off : SUBSET Engine(p)!Runtime, round : [Runners[p].Finder -> RoundRecord(p)]],
         \A r \in new.got : \E i \in 1..new.asked : r = RuntimeList(p)[i],
         \A i \in 1..new.asked :
           RuntimeList(p)[i] \notin new.off =>
             (RuntimeList(p)[i] \in new.got <=> RuntimeList(p)[i] \in g8.live),
         \A r \in Engine(p)!Runtime : r \notin g8'.off => (r \in g8'.cache <=> r \in g8.live)
  PROVE  RoundsHold(p)'
<1>1. /\ g8'.round[f] = new
      /\ \A k \in Runners[p].Finder : k # f => g8'.round[k] = g8.round[k]
  BY RoundsFields, OneChange DEF RoundsHold
<1>2. RoundsTypes(p)'
  BY DEF RoundsTypes, RoundRecord, Engine!Runtime, RuntimeList
<1>3. RoundsFair(p)'
  <2> SUFFICES ASSUME NEW k \in Runners[p].Finder
               PROVE  /\ \A r \in g8'.round[k].got :
                           \E i \in 1..g8'.round[k].asked : r = RuntimeList(p)[i]
                      /\ \A i \in 1..g8'.round[k].asked :
                           RuntimeList(p)[i] \notin g8'.round[k].off =>
                             (RuntimeList(p)[i] \in g8'.round[k].got
                                <=> RuntimeList(p)[i] \in g8.live)
    BY DEF RoundsFair, RuntimeList
  <2>1. CASE k = f
    BY <1>1, <2>1
  <2>2. CASE k # f
    <3>1. g8'.round[k] = g8.round[k]
      BY <1>1, <2>2
    <3> QED BY <3>1 DEF RoundsHold, RoundsFair
  <2> QED BY <2>1, <2>2
<1>4. CacheFair(p)'
  BY DEF CacheFair, Engine!Runtime
<1> QED BY <1>2, <1>3, <1>4 DEF RoundsHold

\* A round alone is replaced.
LEMMA RoundAlone ==
  ASSUME NEW p \in DOMAIN Runners, RoundsHold(p), NEW f \in Runners[p].Finder,
         NEW new \in RoundRecord(p), g8' = [g8 EXCEPT !.round[f] = new]
  PROVE  /\ g8'.live = g8.live /\ g8'.round = [g8.round EXCEPT ![f] = new]
         /\ g8'.cache = g8.cache /\ g8'.off = g8.off
         /\ g8' \in [live : SUBSET Engine(p)!Runtime, cache : SUBSET Engine(p)!Runtime,
                  off : SUBSET Engine(p)!Runtime, round : [Runners[p].Finder -> RoundRecord(p)]]
<1> DEFINE n == [g8.round EXCEPT ![f] = new]
<1> DEFINE R == Engine(p)!Runtime
<1> DEFINE S == [Runners[p].Finder -> RoundRecord(p)]
<1>1. n \in S
  BY RoundsFields DEF RoundsHold
<1>2. g8' = [g8 EXCEPT !.round = n]
  BY Zenon
<1>3. g8 \in [live : SUBSET R, cache : SUBSET R, off : SUBSET R, round : S]
  BY DEF RoundsHold, RoundsTypes
<1> HIDE DEF n, R, S
<1>4. /\ g8'.live = g8.live /\ g8'.round = n /\ g8'.cache = g8.cache /\ g8'.off = g8.off
      /\ g8' \in [live : SUBSET R, cache : SUBSET R, off : SUBSET R, round : S]
  BY <1>1, <1>2, <1>3
<1> QED BY <1>4 DEF n, R, S

\* A round begins.
LEMMA RoundsBegin ==
  ASSUME NEW p \in DOMAIN Runners, RoundsHold(p), NEW f \in Runners[p].Finder,
         Engine(p)!BeginRound(f)
  PROVE  RoundsHold(p)'
<1> DEFINE r == g8.round[f]
<1> DEFINE new == [r EXCEPT !.on = TRUE]
<1>1. g8' = [g8 EXCEPT !.round[f] = new]
  BY Zenon DEF Engine!BeginRound
<1>2. r \in RoundRecord(p)
  BY RoundsFields DEF RoundsHold
<1>3. /\ new \in RoundRecord(p) /\ new.asked = r.asked /\ new.got = r.got /\ new.off = r.off
  <2> HIDE DEF r
  <2> QED BY <1>2 DEF RoundRecord
<1> HIDE DEF new
<1>4. /\ g8'.live = g8.live /\ g8'.round = [g8.round EXCEPT ![f] = new]
      /\ g8'.cache = g8.cache /\ g8'.off = g8.off
      /\ g8' \in [live : SUBSET Engine(p)!Runtime, cache : SUBSET Engine(p)!Runtime,
                  off : SUBSET Engine(p)!Runtime, round : [Runners[p].Finder -> RoundRecord(p)]]
  BY <1>1, <1>3, RoundAlone
<1>5. \A q \in new.got : \E i \in 1..new.asked : q = RuntimeList(p)[i]
  BY <1>3 DEF RoundsHold, RoundsFair
<1>6. \A i \in 1..new.asked :
        RuntimeList(p)[i] \notin new.off =>
          (RuntimeList(p)[i] \in new.got <=> RuntimeList(p)[i] \in g8.live)
  BY <1>3 DEF RoundsHold, RoundsFair
<1>7. \A q \in Engine(p)!Runtime : q \notin g8'.off => (q \in g8'.cache <=> q \in g8.live)
  BY <1>4 DEF RoundsHold, CacheFair
<1> QED BY <1>3, <1>4, <1>5, <1>6, <1>7, RoundReplaced

\* A round asks the next runtime.
LEMMA RoundsAsk ==
  ASSUME NEW p \in DOMAIN Runners, RoundsHold(p), NEW f \in Runners[p].Finder,
         NEW answers \in BOOLEAN, Engine(p)!AskRuntime(f, answers)
  PROVE  RoundsHold(p)'
<1> DEFINE L == RuntimeList(p)
<1> DEFINE round == g8.round[f]
<1> DEFINE k == round.asked + 1
<1> DEFINE r == L[k]
<1> DEFINE got == IF answers /\ r \in g8.live THEN round.got \cup {r} ELSE round.got
<1> DEFINE off == IF answers THEN round.off ELSE round.off \cup {r}
<1> DEFINE new == [round EXCEPT !.asked = k, !.got = got, !.off = off]
<1>1. round.asked < Len(L) /\ g8' = [g8 EXCEPT !.round[f] = new]
  BY Zenon DEF Engine!AskRuntime, RuntimeList
<1>2. round \in RoundRecord(p) /\ round.asked \in Nat /\ Len(L) \in Nat /\ k \in Turns(p)
  <2>1. round \in RoundRecord(p) /\ round.asked \in 0..Len(L) /\ Len(L) \in Nat
    BY RoundsFields, RuntimesAssumed DEF RoundsHold
  <2> HIDE DEF round, L
  <2>2. k \in 1..Len(L)
    BY <1>1, <2>1
  <2> QED BY <2>1, <2>2 DEF Turns, L
<1>3. r \in Engine(p)!Runtime
  BY <1>2, RuntimesAssumed
<1>4. /\ got \subseteq Engine(p)!Runtime /\ off \subseteq Engine(p)!Runtime
  <2>1. round.got \subseteq Engine(p)!Runtime /\ round.off \subseteq Engine(p)!Runtime
    BY RoundsFields DEF RoundsHold
  <2> HIDE DEF round, r
  <2> QED BY <1>3, <2>1
<1>5. new \in RoundRecord(p) /\ new.asked = k /\ new.got = got /\ new.off = off
  <2>1. k \in 0..Len(L)
    BY <1>2 DEF Turns
  <2> HIDE DEF round, k, got, off
  <2> QED BY <1>2, <1>4, <2>1 DEF RoundRecord
<1> HIDE DEF new
<1>6. /\ g8'.live = g8.live /\ g8'.round = [g8.round EXCEPT ![f] = new]
      /\ g8'.cache = g8.cache /\ g8'.off = g8.off
      /\ g8' \in [live : SUBSET Engine(p)!Runtime, cache : SUBSET Engine(p)!Runtime,
                  off : SUBSET Engine(p)!Runtime, round : [Runners[p].Finder -> RoundRecord(p)]]
  BY <1>1, <1>5, RoundAlone
<1>7. /\ \A q \in round.got : \E i \in 1..round.asked : q = L[i]
      /\ \A i \in 1..round.asked :
           L[i] \notin round.off => (L[i] \in round.got <=> L[i] \in g8.live)
      /\ \A i \in Turns(p) : L[i] = r => i = k
      /\ 1..round.asked \subseteq Turns(p) /\ k \notin 1..round.asked
      /\ \A i \in 1..k : i # k => i \in 1..round.asked
      /\ 1..round.asked \subseteq 1..k /\ k \in 1..k
  <2>1. /\ \A q \in round.got : \E i \in 1..round.asked : q = L[i]
        /\ \A i \in 1..round.asked :
             L[i] \notin round.off => (L[i] \in round.got <=> L[i] \in g8.live)
    BY DEF RoundsHold, RoundsFair
  <2>2. \A i \in Turns(p) : L[i] = r => i = k
    BY <1>2, RuntimesAssumed
  <2> HIDE DEF round, L, r
  <2>3. /\ 1..round.asked \subseteq Turns(p) /\ k \notin 1..round.asked
        /\ \A i \in 1..k : i # k => i \in 1..round.asked
        /\ 1..round.asked \subseteq 1..k /\ k \in 1..k
    BY <1>1, <1>2 DEF Turns, L
  <2> QED BY <2>1, <2>2, <2>3 DEF L
<1> HIDE DEF round, k
<1>8. \A q \in new.got : \E i \in 1..new.asked : q = L[i]
  BY <1>5, <1>7
<1>9. ASSUME NEW i \in 1..new.asked, L[i] \notin new.off
      PROVE  L[i] \in new.got <=> L[i] \in g8.live
  <2>1. CASE i = k
    <3>1. answers
      BY <1>5, <1>9, <2>1
    <3>2. r \notin round.got
      BY <1>7
    <3> QED BY <1>5, <2>1, <3>1, <3>2
  <2>2. CASE i # k
    <3>1. i \in 1..round.asked /\ L[i] # r
      BY <1>5, <1>7, <2>2
    <3>2. L[i] \notin round.off /\ (L[i] \in got <=> L[i] \in round.got)
      BY <1>5, <1>9, <3>1
    <3> QED BY <1>5, <1>7, <3>1, <3>2
  <2> QED BY <2>1, <2>2
<1>10. \A q \in Engine(p)!Runtime : q \notin g8'.off => (q \in g8'.cache <=> q \in g8.live)
  BY <1>6 DEF RoundsHold, CacheFair
<1> QED BY <1>5, <1>6, <1>8, <1>9, <1>10, RoundReplaced

\* A round puts what it found into the cache.
LEMMA RoundsEnd ==
  ASSUME NEW p \in DOMAIN Runners, RoundsHold(p), NEW f \in Runners[p].Finder,
         Engine(p)!EndRound(f)
  PROVE  RoundsHold(p)'
<1> DEFINE round == g8.round[f]
<1> DEFINE new == Engine(p)!NoRound
<1> DEFINE n == [g8.round EXCEPT ![f] = new]
<1> DEFINE R == Engine(p)!Runtime
<1> DEFINE S == [Runners[p].Finder -> RoundRecord(p)]
<1>1. /\ round.asked = Len(RuntimeList(p))
      /\ g8' = [g8 EXCEPT !.cache = round.got, !.off = round.off, !.round[f] = new]
  BY Zenon DEF Engine!EndRound, Engine!Cached, RuntimeList
<1>2. new \in RoundRecord(p) /\ new.asked = 0 /\ new.got = {}
  BY RuntimesAssumed DEF RoundRecord, Engine!NoRound
<1> HIDE DEF new
<1>3. n \in S /\ round.got \subseteq R /\ round.off \subseteq R
  BY <1>2, RoundsFields DEF RoundsHold
<1>4. g8 \in [live : SUBSET R, cache : SUBSET R, off : SUBSET R, round : S]
  BY DEF RoundsHold, RoundsTypes
<1>5. g8' = [g8 EXCEPT !.cache = round.got, !.off = round.off, !.round = n]
  <2> HIDE DEF round, R, S
  <2> QED BY <1>1, <1>4
<1>6. /\ g8'.live = g8.live /\ g8'.round = n /\ g8'.cache = round.got /\ g8'.off = round.off
      /\ g8' \in [live : SUBSET R, cache : SUBSET R, off : SUBSET R, round : S]
  <2> HIDE DEF n, R, S, round
  <2> QED BY <1>3, <1>4, <1>5
<1>7. \A r \in R : r \notin round.off => (r \in round.got <=> r \in g8.live)
  <2> SUFFICES ASSUME NEW r \in R PROVE r \notin round.off => (r \in round.got <=> r \in g8.live)
    OBVIOUS
  <2>1. PICK i \in 1..round.asked : r = RuntimeList(p)[i]
    BY <1>1, RuntimesAssumed DEF Turns
  <2> QED BY <2>1 DEF RoundsHold, RoundsFair
<1>8. \A r \in new.got : \E i \in 1..new.asked : r = RuntimeList(p)[i]
  BY <1>2
<1>9. \A i \in 1..new.asked :
        RuntimeList(p)[i] \notin new.off =>
          (RuntimeList(p)[i] \in new.got <=> RuntimeList(p)[i] \in g8.live)
  BY <1>2
<1> HIDE DEF round
<1>10. \A r \in R : r \notin g8'.off => (r \in g8'.cache <=> r \in g8.live)
  BY <1>6, <1>7
<1> QED BY <1>2, <1>6, <1>8, <1>9, <1>10, RoundReplaced

\* Steps of other parts leave the rounds alone.
LEMMA RoundsRest ==
  ASSUME NEW p \in DOMAIN Runners, RoundsHold(p), UNCHANGED g8
  PROVE  RoundsHold(p)'
BY DEF RoundsHold, RoundsTypes, RoundRecord, RoundsFair, CacheFair, RuntimeList, Engine!Runtime

-----------------------------------------------------------------------------
(* Models: all of it. *)

\* The invariant of models: of engine, files and rounds.
ModelsHold(p) == EngineHolds(p) /\ DownloadsHold(p) /\ RoundsHold(p)

\* It holds at the start, ...
LEMMA ModelsStart ==
  ASSUME NEW p \in DOMAIN Runners, Engine(p)!Init
  PROVE  ModelsHold(p)
BY EngineStarts, FilesStart, RoundsStart DEF ModelsHold

\* ... it means that models are kept, ...
LEMMA ModelsHoldKept ==
  ASSUME NEW p \in DOMAIN Runners, ModelsHold(p)
  PROVE  Engine(p)!ModelsKept
BY EngineHoldsOwned, DownloadsHoldKept, RoundsHoldKept DEF ModelsHold, Engine!ModelsKept

\* ... and that the types are, ...
LEMMA ModelsHoldTypes ==
  ASSUME NEW p \in DOMAIN Runners, ModelsHold(p)
  PROVE  Engine(p)!TypeOK
<1>1. /\ g1 \in [running : BOOLEAN, starting : BOOLEAN, current : Runners[p].Model \cup {"none"},
                 process : Runners[p].Proc \cup {"none"}]
      /\ g2 \in [Runners[p].Proc ->
                   [life : {"alive", "ended"}, waited : BOOLEAN] \cup {Engine(p)!Free}]
      /\ g3 \in [Runners[p].Loader ->
           {Engine(p)!Idle} \cup {Engine(p)!Checking(m) : m \in Runners[p].Model}
             \cup {Engine(p)!Started(m, q) : m \in Runners[p].Model, q \in Runners[p].Proc}]
      /\ g4 \subseteq Runners[p].Proc
  BY DEF ModelsHold, EngineHolds, EngineTypes, EngineProc
<1>2. DOMAIN g5 = Runners[p].Model /\ \A m \in Runners[p].Model : g5[m] \in FileRecord(p)
  BY DEF ModelsHold, DownloadsHold, FilesTypes
<1>3. \A m \in Runners[p].Model :
        /\ g5[m].there \in BOOLEAN /\ g5[m].data \in Seq(Runners[p].Source \cup {"none"})
        /\ g5[m].by \in Runners[p].Slot \cup {"none"}
        /\ g5[m].claim \in Runners[p].Source \cup {"none"}
  BY <1>2 DEF FileRecord
<1>4. /\ g6 \in [Runners[p].Slot -> {Engine(p)!Rest} \cup
                   [at : {"asked", "writing"}, name : Runners[p].Name,
                    source : Runners[p].Source, got : 0..Runners[p].MaxSize]]
      /\ g7 \in [Runners[p].Name -> [is : {"none", "going", "done", "failed"},
                                    of : Runners[p].Slot \cup {"none"}]]
  BY DEF ModelsHold, DownloadsHold, FilesTypes, Transfer
<1>5. /\ g8.live \subseteq Engine(p)!Runtime /\ g8.cache \subseteq Engine(p)!Runtime
      /\ g8.off \subseteq Engine(p)!Runtime
      /\ g8.round \in [Runners[p].Finder ->
           [asked : 0..Len(Runners[p].Runtimes), got : SUBSET Engine(p)!Runtime,
            off : SUBSET Engine(p)!Runtime, on : BOOLEAN]]
  BY RoundsFields DEF ModelsHold, RoundsHold, RoundRecord, RuntimeList
<1> QED BY ONLY <1>1, <1>2, <1>3, <1>4, <1>5 DEF Engine!TypeOK, Engine!None

\* ... and every step keeps it.
LEMMA ModelsKeep ==
  ASSUME NEW p \in DOMAIN Runners, ModelsHold(p), Engine(p)!Next
  PROVE  ModelsHold(p)'
<1>1. ASSUME NEW l \in Runners[p].Loader, Engine(p)!Load(l) PROVE ModelsHold(p)'
  <2>1. EngineHolds(p)'
    <3>1. CASE \E m \in Runners[p].Model : Engine(p)!Begin(l, m)
      BY <3>1, EngineBegins DEF ModelsHold
    <3>2. CASE Engine(p)!Fail(l)
      BY <3>2, EngineFails DEF ModelsHold
    <3>3. CASE \E q \in Runners[p].Proc : Engine(p)!Spawn(l, q)
      BY <3>3, EngineSpawns DEF ModelsHold
    <3>4. CASE Engine(p)!Publish(l)
      BY <3>4, EnginePublishes DEF ModelsHold
    <3> QED BY <1>1, <3>1, <3>2, <3>3, <3>4 DEF Engine!Load
  <2>2. UNCHANGED <<g5, g6, g7>> /\ UNCHANGED g8
    BY <1>1 DEF Engine!Load, Engine!Begin, Engine!Fail, Engine!Spawn, Engine!Publish
  <2> QED BY <2>1, <2>2, FilesRest, RoundsRest DEF ModelsHold
<1>2. CASE Engine(p)!Stop
  <2>1. UNCHANGED <<g5, g6, g7>> /\ UNCHANGED g8
    BY <1>2 DEF Engine!Stop
  <2> QED BY <1>2, <2>1, EngineStops, FilesRest, RoundsRest DEF ModelsHold
<1>3. ASSUME NEW q \in Runners[p].Proc, Engine(p)!End(q) \/ Engine(p)!Wait(q)
      PROVE  ModelsHold(p)'
  <2>1. UNCHANGED <<g5, g6, g7>> /\ UNCHANGED g8
    BY <1>3 DEF Engine!End, Engine!Wait
  <2>2. EngineHolds(p)'
    BY <1>3, EngineEnds, EngineWaits DEF ModelsHold
  <2> QED BY <2>1, <2>2, FilesRest, RoundsRest DEF ModelsHold
<1>4. ASSUME NEW d \in Runners[p].Slot, Engine(p)!Download(d) PROVE ModelsHold(p)'
  <2>1. DownloadsHold(p)'
    <3>1. CASE \E n \in Runners[p].Name, s \in Runners[p].Source : Engine(p)!BeginDownload(d, n, s)
      BY <3>1, FilesBegin DEF ModelsHold
    <3>2. CASE Engine(p)!FailDownload(d)
      BY <3>2, FilesFail DEF ModelsHold
    <3>3. CASE Engine(p)!Create(d)
      BY <3>3, FilesCreate DEF ModelsHold
    <3>4. CASE Engine(p)!WriteBlock(d)
      BY <3>4, FilesWrite DEF ModelsHold
    <3>5. CASE Engine(p)!EndOfBody(d)
      BY <3>5, FilesEnd DEF ModelsHold
    <3> QED BY <1>4, <3>1, <3>2, <3>3, <3>4, <3>5 DEF Engine!Download
  <2>2. UNCHANGED <<g1, g2, g3, g4>> /\ UNCHANGED g8
    BY <1>4 DEF Engine!Download, Engine!BeginDownload, Engine!FailDownload, Engine!Create,
       Engine!WriteBlock, Engine!EndOfBody
  <2> QED BY <2>1, <2>2, EngineRests, RoundsRest DEF ModelsHold
<1>5. ASSUME NEW r \in Engine(p)!Runtime, Engine(p)!Change(r) PROVE ModelsHold(p)'
  <2>1. UNCHANGED <<g1, g2, g3, g4>> /\ UNCHANGED <<g5, g6, g7>>
    BY <1>5 DEF Engine!Change
  <2> QED BY <1>5, <2>1, EngineRests, FilesRest, RoundsChange DEF ModelsHold
<1>6. ASSUME NEW f \in Runners[p].Finder, Engine(p)!Discover(f) PROVE ModelsHold(p)'
  <2>1. RoundsHold(p)'
    <3>1. CASE Engine(p)!BeginRound(f)
      BY <3>1, RoundsBegin DEF ModelsHold
    <3>2. CASE \E answers \in BOOLEAN : Engine(p)!AskRuntime(f, answers)
      BY <3>2, RoundsAsk DEF ModelsHold
    <3>3. CASE Engine(p)!EndRound(f)
      BY <3>3, RoundsEnd DEF ModelsHold
    <3> QED BY <1>6, <3>1, <3>2, <3>3 DEF Engine!Discover
  <2>2. UNCHANGED <<g1, g2, g3, g4>> /\ UNCHANGED <<g5, g6, g7>>
    BY <1>6 DEF Engine!Discover, Engine!BeginRound, Engine!AskRuntime, Engine!EndRound
  <2> QED BY <2>1, <2>2, EngineRests, FilesRest DEF ModelsHold
<1> QED BY <1>1, <1>2, <1>3, <1>4, <1>5, <1>6 DEF Engine!Next

-----------------------------------------------------------------------------
(* Choices and models, among the guards. *)

\* The invariant of the pieces that are proved here.
GuardsHold ==
  /\ \A p \in DOMAIN Choosers : piece = p => ChoiceHolds(p)
  /\ \A p \in DOMAIN Runners : piece = p => ModelsHold(p)

\* A piece of one component is none of another.
LEMMA PiecesApart ==
  /\ DOMAIN Choosers \cap
       (NamedPieces \cup DOMAIN Stocks \cup DOMAIN Desks \cup DOMAIN Wires \cup DOMAIN Runners
          \cup DOMAIN Routers) = {}
  /\ DOMAIN Runners \cap
       (NamedPieces \cup DOMAIN Stocks \cup DOMAIN Desks \cup DOMAIN Wires \cup DOMAIN Choosers
          \cup DOMAIN Routers) = {}
<1>1. /\ DOMAIN Pieces = 1..7 /\ Pieces[1] = NamedPieces /\ Pieces[2] = DOMAIN Stocks
      /\ Pieces[3] = DOMAIN Desks /\ Pieces[4] = DOMAIN Wires /\ Pieces[5] = DOMAIN Choosers
      /\ Pieces[6] = DOMAIN Runners /\ Pieces[7] = DOMAIN Routers
  BY DEF Pieces
<1>2. \A i, j \in 1..7 : i # j => Pieces[i] \cap Pieces[j] = {}
  BY <1>1, NamesAssumption
<1>3. /\ \A i \in {1, 2, 3, 4, 6, 7} : Pieces[5] \cap Pieces[i] = {}
      /\ \A i \in {1, 2, 3, 4, 5, 7} : Pieces[6] \cap Pieces[i] = {}
  BY <1>2
<1> QED BY <1>1, <1>3

\* The pieces of which nothing is said here.
PiecesBeside ==
  NamedPieces \cup DOMAIN Stocks \cup DOMAIN Desks \cup DOMAIN Wires \cup DOMAIN Routers

\* The invariant holds at the start, ...
LEMMA GuardsStart == GuardsInit => GuardsHold
<1> SUFFICES ASSUME GuardsInit PROVE GuardsHold
  OBVIOUS
<1>1. \/ piece \in PiecesBeside
      \/ \E p \in DOMAIN Choosers : piece = p /\ Choice(p)!Init
      \/ \E p \in DOMAIN Runners : piece = p /\ Engine(p)!Init
  <2>1. \/ ScreenInit \/ CentreInit \/ ChatInit \/ PathInit \/ BooksInit \/ StockInit
        \/ DeskInit \/ WireInit \/ ChoiceInit \/ EngineInit \/ RouterInit
    BY DEF GuardsInit
  <2>2. ScreenInit \/ CentreInit \/ ChatInit \/ PathInit \/ BooksInit => piece \in NamedPieces
    BY DEF ScreenInit, CentreInit, ChatInit, PathInit, BooksInit, NamedPieces
  <2>3. /\ StockInit => piece \in DOMAIN Stocks
        /\ DeskInit => piece \in DOMAIN Desks
        /\ WireInit => piece \in DOMAIN Wires
        /\ RouterInit => piece \in DOMAIN Routers
    BY DEF StockInit, DeskInit, WireInit, RouterInit
  <2> QED BY <2>1, <2>2, <2>3
      DEF PiecesBeside, ChoiceInit, EngineInit
<1>2. /\ \A p \in DOMAIN Choosers : piece = p => Choice(p)!Init
      /\ \A p \in DOMAIN Runners : piece = p => Engine(p)!Init
  BY <1>1, PiecesApart DEF PiecesBeside
<1> QED BY <1>2, ChoiceStarts, ModelsStart DEF GuardsHold

\* ... nothing changes while nothing happens, ...
LEMMA GuardsStutter == GuardsHold /\ UNCHANGED guardVars => GuardsHold'
<1> SUFFICES ASSUME GuardsHold, UNCHANGED guardVars PROVE GuardsHold'
  OBVIOUS
<1>0. /\ piece' = piece /\ g1' = g1 /\ g2' = g2 /\ g3' = g3 /\ g4' = g4 /\ g5' = g5
      /\ g6' = g6 /\ g7' = g7 /\ g8' = g8 /\ g9' = g9
  BY DEF guardVars
<1>1. ASSUME NEW p \in DOMAIN Choosers, ChoiceHolds(p) PROVE ChoiceHolds(p)'
  BY <1>0, <1>1 DEF ChoiceHolds, ChoiceTypes, ChoiceTold, ChoiceMemory, ChoiceClosed,
     ChoiceSnaps
<1>2. ASSUME NEW p \in DOMAIN Runners, ModelsHold(p) PROVE ModelsHold(p)'
  <2>1. UNCHANGED <<g1, g2, g3, g4>> /\ UNCHANGED <<g5, g6, g7>> /\ UNCHANGED g8
    BY <1>0
  <2> QED BY <1>2, <2>1, EngineRests, FilesRest, RoundsRest DEF ModelsHold
<1> QED BY <1>0, <1>1, <1>2 DEF GuardsHold

\* ... and every step keeps it.
LEMMA GuardsKeep == GuardsHold /\ [GuardsNext]_guardVars => GuardsHold'
<1> SUFFICES ASSUME GuardsHold, GuardsNext PROVE GuardsHold'
  BY GuardsStutter
<1>1. /\ piece' = piece
      /\ \/ piece \in PiecesBeside
         \/ \E p \in DOMAIN Choosers : piece = p /\ Choice(p)!Next
         \/ \E p \in DOMAIN Runners : piece = p /\ Engine(p)!Next
  <2>1. \/ ScreenNext \/ CentreNext \/ ChatNext \/ PathNext \/ BooksNext \/ StockNext
        \/ DeskNext \/ WireNext \/ ChoiceNext \/ EngineNext \/ RouterNext
    BY DEF GuardsNext
  <2>2. ScreenNext \/ CentreNext \/ ChatNext \/ PathNext \/ BooksNext
          => piece' = piece /\ piece \in NamedPieces
    BY DEF ScreenNext, CentreNext, ChatNext, PathNext, BooksNext, NamedPieces
  <2>3. /\ StockNext => piece' = piece /\ piece \in DOMAIN Stocks
        /\ DeskNext => piece' = piece /\ piece \in DOMAIN Desks
        /\ WireNext => piece' = piece /\ piece \in DOMAIN Wires
        /\ RouterNext => piece' = piece /\ piece \in DOMAIN Routers
    BY DEF StockNext, DeskNext, WireNext, RouterNext
  <2> QED BY <2>1, <2>2, <2>3 DEF PiecesBeside, ChoiceNext, EngineNext
<1>2. /\ \A p \in DOMAIN Choosers : piece = p => Choice(p)!Next
      /\ \A p \in DOMAIN Runners : piece = p => Engine(p)!Next
  BY <1>1, PiecesApart DEF PiecesBeside
<1>3. ASSUME NEW p \in DOMAIN Choosers, piece' = p PROVE ChoiceHolds(p)'
  BY <1>1, <1>2, <1>3, ChoiceKeeps DEF GuardsHold
<1>4. ASSUME NEW p \in DOMAIN Runners, piece' = p PROVE ModelsHold(p)'
  BY <1>1, <1>2, <1>4, ModelsKeep DEF GuardsHold
<1> QED BY <1>3, <1>4 DEF GuardsHold

\* The invariant of the guards, at all times.
THEOREM GuardsInvariance == GuardsSpec => []GuardsHold
BY GuardsStart, GuardsKeep, PTL DEF GuardsSpec

\* adapt.go, persona.go, chainopt.go: the switches do what the last persona said, memory and
\* configuration name one persona, profiles are closed and slots bounded, as long as nothing
\* of what the code leaves open has happened: for any modules, dependencies, profiles,
\* personas, handlers, writers and rooms.
THEOREM ChoicesAlways == GuardsSpec => []ChoicesKept
<1>1. GuardsHold => ChoicesKept
  BY ChoiceHoldsChoices DEF GuardsHold, ChoicesKept
<1> QED BY <1>1, GuardsInvariance, PTL

\* models.go: processes are owned, finished files are whole, what is shown as going on goes
\* on, and the list has the runtimes that answer, once each: for any models, callers,
\* processes, sources, sizes, slots, runtimes and finders.
THEOREM ModelsAlways == GuardsSpec => []ModelsKept
<1>1. GuardsHold => ModelsKept
  BY ModelsHoldKept DEF GuardsHold, ModelsKept
<1> QED BY <1>1, GuardsInvariance, PTL

=============================================================================

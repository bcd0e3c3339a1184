--------------------------- MODULE Gateway_proofs ---------------------------
(***************************************************************************)
(* Proofs about the gateway: what bans promise (IpBan), and what the       *)
(* guards do for a request and the stores for what they tell (Guards).     *)
(*                                                                         *)
(* IpBan: for any addresses, any number of handlers and watchers and any   *)
(* length of a ban: type correctness, the bound on a ban, and the effects  *)
(* that remain when switches and bans do not meet.                         *)
(*                                                                         *)
(* Guards: that nothing goes unchecked where a check is due, in the screen *)
(* of texts, the choice of a backend and the path of a request; that the   *)
(* policy in answers, the keys that files name and the revisions of        *)
(* records are true; and that conversations and quotas are kept.           *)
(***************************************************************************)
EXTENDS IpBan, Guards, FiniteSetTheorems, SequenceTheorems, WellFoundedInduction, TLAPS

\* Only policies of S have effects.
Within(S) ==
  /\ "dynamic-ban" \notin S => \A a \in Addr : left[a] = Gone
  /\ "os-link" \notin S => \A n \in RuleName : rules[n] = 0

\* If os-link is in force, its port rule is there.
Armed == active = "os-link" => rules[PortRule] > 0

\* Until a race, one actor at a time switches, and those about to ban hold
\* the policy as it is.
Orderly ==
  /\ \A x, y \in Actor : Switching(x) /\ Switching(y) => x = y
  /\ \A x \in Actor :
       /\ actor[x].at = "insert" => actor[x].pol = policy
       /\ actor[x].at = "extend" => policy = "dynamic-ban"

\* What effects there may be at each point of a switch.
Stage(x) ==
  LET d == actor[x] IN
  /\ d.at = "loading" => policy = "passive" /\ Within({active}) /\ Armed
  /\ d.at = "align" => Within({active, policy}) /\ Armed
  /\ d.at = "clear" => active = policy /\ d.next = policy /\ Within({d.prev, policy})
  /\ d.at = "arm" => active = policy /\ policy = "os-link" /\ Within({policy})
  /\ d.at = "degrade" => active = policy /\ policy = "os-link" /\ Within({})
  /\ d.at = "yield" => active = "passive" /\ policy = "os-link" /\ Within({})

Staged ==
  /\ \A x \in Actor : Stage(x)
  /\ AtRest => active = policy /\ Within({policy}) /\ Armed

\* The inductive invariant.
IInv ==
  /\ TypeOK
  /\ BanBounded
  /\ ~raced => Orderly
  /\ ~raced /\ ~unsettled => Staged


-----------------------------------------------------------------------------
(* Numbers and shapes. *)

LEMMA Numbers ==
  /\ BanTicks \in Int /\ BanTicks > 0
  /\ Cardinality(Handler) \in Nat
  /\ Floor \in Int /\ Gone \in Int /\ Ceiling \in Int
  /\ Floor <= 0 /\ Gone < Floor
  /\ Ceiling = BanTicks * Cardinality(Handler) + BanTicks
<1>1. Cardinality(Handler) \in Nat
  BY FS_CardinalityType, ActorAssumption
<1>2. BanTicks \in Nat /\ BanTicks > 0
  BY BoundAssumption
<1>3. ASSUME NEW n \in Nat
      PROVE  BanTicks * n \in Nat /\ BanTicks * (n + 1) = BanTicks * n + BanTicks
  BY <1>2
<1> QED
  BY <1>1, <1>2, <1>3 DEF Floor, Gone, Ceiling

\* The fields of an actor's state, by what it is doing.
LEMMA Shape ==
  ASSUME TypeOK, NEW x \in Actor
  PROVE  /\ actor[x].at \in {"serving", "reap", "unrule", "ban", "insert",
                             "double", "extend"} => actor[x].ip \in Addr
         /\ actor[x].at \in {"ban", "insert"} => actor[x].rep \in BOOLEAN
         /\ actor[x].at \in {"ban", "insert", "double", "extend"} =>
              actor[x].waf \in BOOLEAN
         /\ actor[x].at \in {"insert", "loading"} => actor[x].pol \in Policy
         /\ actor[x].at = "insert" => actor[x].pol # "passive"
         /\ actor[x].at = "loading" => actor[x].align \in BOOLEAN
         /\ actor[x].at = "clear" =>
              actor[x].prev \in Policy /\ actor[x].next \in Policy
         /\ actor[x].at = "idle" => actor[x] = Idle
<1>1. actor[x] \in Doing \cup {Idle}
  BY DEF TypeOK
<1> QED
  BY <1>1 DEF Doing, Idle

LEMMA Moved ==
  ASSUME TypeOK, NEW x \in Actor, NEW do \in Doing \cup {Idle}, Goto(x, do)
  PROVE  /\ actor' \in [Actor -> Doing \cup {Idle}]
         /\ actor'[x] = do
         /\ \A y \in Actor : y # x => actor'[y] = actor[y]
  BY DEF TypeOK, Goto

\* What follows a ban and an extension.
LEMMA AfterType ==
  ASSUME NEW d, d.ip \in Addr, d.waf \in BOOLEAN
  PROVE  /\ AfterBan(d) \in Doing \cup {Idle}
         /\ AfterExtra(d) \in Doing \cup {Idle}
         /\ AfterBan(d).at \in {"double", "idle"}
         /\ AfterExtra(d).at \in {"ban", "idle"}
  BY DEF AfterBan, AfterExtra, Doing, Idle

LEMMA SweptType ==
  ASSUME TypeOK, NEW a \in Addr
  PROVE  /\ Swept(a) \in [Addr -> {n \in Int : n >= Gone}]
         /\ \A b \in Addr : Swept(a)[b] = left[b] \/ Swept(a)[b] = Gone
         /\ Swept(a)[a] <= left[a]
         /\ ~Banned(a) => Swept(a)[a] = Gone
  BY Numbers DEF TypeOK, Swept, Banned

LEMMA KeptType ==
  ASSUME TypeOK, NEW kept \in SUBSET RuleName
  PROVE  /\ Kept(kept) \in [RuleName -> 0..MaxRules]
         /\ ~FailedFor(kept) => \A n \in RuleName : Kept(kept)[n] = 0
  BY BoundAssumption DEF TypeOK, Kept, FailedFor

-----------------------------------------------------------------------------
(* Type correctness. *)

LEMMA InitType ==
  ASSUME Init
  PROVE  TypeOK
<1>1. rules \in [RuleName -> 0..MaxRules]
  BY BoundAssumption DEF Init, BootRules
<1>2. left \in [Addr -> {n \in Int : n >= Gone}]
  BY Numbers DEF Init
<1> QED
  BY <1>1, <1>2 DEF Init, TypeOK

LEMMA RequestType ==
  ASSUME TypeOK, NEW h \in Handler, Request(h)
  PROVE  TypeOK'
<1> USE DEF TypeOK
<1>0. h \in Actor
  BY DEF Actor
<1>1. ASSUME NEW a \in Addr, Arrive(h, a)
      PROVE  TypeOK'
  <2>1. (IF Admits(a) THEN [at |-> "serving", ip |-> a] ELSE Idle) \in Doing \cup {Idle}
    BY DEF Doing
  <2> QED
    BY <1>0, <1>1, <2>1, Moved, SweptType DEF Arrive
<1>2. CASE Answer(h)
  BY <1>0, <1>2, Moved DEF Answer
<1>3. ASSUME NEW waf \in BOOLEAN, NEW low \in BOOLEAN, Penalise(h, waf, low)
      PROVE  TypeOK'
  <2>1. actor[h].ip \in Addr
    BY <1>0, <1>3, Shape DEF Penalise
  <2>2. [at |-> "ban", ip |-> actor[h].ip, rep |-> low, waf |-> waf] \in Doing
    BY <2>1 DEF Doing
  <2> QED
    BY <1>0, <1>3, <2>2, Moved DEF Penalise
<1>4. CASE ReadPolicy(h)
  <2>1. /\ actor[h].ip \in Addr /\ actor[h].rep \in BOOLEAN /\ actor[h].waf \in BOOLEAN
        /\ AfterBan(actor[h]) \in Doing \cup {Idle}
    BY <1>0, <1>4, Shape, AfterType DEF ReadPolicy
  <2>2. policy # "passive" =>
          [at |-> "insert", ip |-> actor[h].ip, rep |-> actor[h].rep,
           waf |-> actor[h].waf, pol |-> policy] \in Doing
    BY <2>1 DEF Doing
  <2> QED
    BY <1>0, <1>4, <2>1, <2>2, Moved DEF ReadPolicy
<1>5. CASE InsertEntry(h)
  <2>1. actor[h].ip \in Addr /\ AfterBan(actor[h]) \in Doing \cup {Idle}
    BY <1>0, <1>5, Shape, AfterType DEF InsertEntry
  <2>2. left' \in [Addr -> {n \in Int : n >= Gone}]
    BY <1>5, <2>1, Numbers DEF InsertEntry
  <2> QED
    BY <1>0, <1>5, <2>1, <2>2, Moved DEF InsertEntry
<1>6. CASE InsertRule(h)
  <2>1. actor[h].ip \in Addr /\ AfterBan(actor[h]) \in Doing \cup {Idle}
    BY <1>0, <1>6, Shape, AfterType DEF InsertRule
  <2>2. rules' \in [RuleName -> 0..MaxRules]
    BY <1>6, <2>1, BoundAssumption DEF InsertRule, RuleName
  <2>3. raced' \in BOOLEAN
    BY <1>6, Zenon DEF InsertRule
  <2> QED
    BY <1>0, <1>6, <2>1, <2>2, <2>3, Moved DEF InsertRule
<1>7. CASE Double(h)
  <2>1. /\ actor[h].ip \in Addr /\ actor[h].waf \in BOOLEAN
        /\ AfterExtra(actor[h]) \in Doing \cup {Idle}
    BY <1>0, <1>7, Shape, AfterType DEF Double
  <2>2. [at |-> "extend", ip |-> actor[h].ip, waf |-> actor[h].waf] \in Doing
    BY <2>1 DEF Doing
  <2> QED
    BY <1>0, <1>7, <2>1, <2>2, Moved DEF Double
<1>8. CASE Extend(h)
  <2>1. actor[h].ip \in Addr /\ AfterExtra(actor[h]) \in Doing \cup {Idle}
    BY <1>0, <1>8, Shape, AfterType DEF Extend
  <2>2. Longer(actor[h].ip) \in Int /\ Longer(actor[h].ip) >= Gone
    BY <2>1, Numbers DEF Longer
  <2>3. left' \in [Addr -> {n \in Int : n >= Gone}]
    BY <1>8, <2>1, <2>2 DEF Extend
  <2> QED
    BY <1>0, <1>8, <2>1, <2>3, Moved DEF Extend
<1> QED
  BY <1>1, <1>2, <1>3, <1>4, <1>5, <1>6, <1>7, <1>8 DEF Request

LEMMA UnbanningType ==
  ASSUME TypeOK, NEW h \in Handler, Unbanning(h)
  PROVE  TypeOK'
<1> USE DEF TypeOK
<1>0. h \in Actor
  BY DEF Actor
<1>1. ASSUME NEW a \in Addr, Unban(h, a)
      PROVE  TypeOK'
  <2>1. [at |-> "reap", ip |-> a] \in Doing
    BY DEF Doing
  <2>2. left' \in [Addr -> {n \in Int : n >= Gone}]
    BY <1>1, Numbers DEF Unban
  <2> QED
    BY <1>0, <1>1, <2>1, <2>2, Moved DEF Unban
<1>2. CASE Reap(h)
  <2>1. [at |-> "unrule", ip |-> actor[h].ip] \in Doing
    BY <1>0, <1>2, Shape DEF Reap, Doing
  <2> QED
    BY <1>0, <1>2, <2>1, Moved DEF Reap
<1>3. CASE Unrule(h)
  <2>1. actor[h].ip \in RuleName
    BY <1>0, <1>3, Shape DEF Unrule, RuleName
  <2>2. rules' \in [RuleName -> 0..MaxRules]
    BY <1>3, <2>1, BoundAssumption DEF Unrule, Unruled
  <2> QED
    BY <1>0, <1>3, <2>2, Moved DEF Unrule
<1> QED
  BY <1>1, <1>2, <1>3 DEF Unbanning

LEMMA SetPolicyType ==
  ASSUME TypeOK, NEW x, NEW p \in Policy, SetPolicy(x, p)
  PROVE  policy' \in Policy /\ raced' \in BOOLEAN
<1>1. raced' \in BOOLEAN
  BY Zenon DEF SetPolicy
<1> QED
  BY <1>1 DEF SetPolicy

LEMMA SwitchType ==
  ASSUME TypeOK, NEW x \in Actor, NEW p \in Policy,
         (x \in Handler /\ (Post(x, p) \/ ConfigSet(x, p)))
           \/ Load(x, p) \/ Adopt(x)
  PROVE  TypeOK'
<1> USE DEF TypeOK
<1>1. CASE Post(x, p)
  BY <1>1, Moved, SetPolicyType DEF Post, Doing
<1>2. CASE ConfigSet(x, p)
  BY <1>2, SetPolicyType DEF ConfigSet
<1>3. CASE Load(x, p)
  <2>1. [at |-> "loading", pol |-> p, align |-> x \in Watcher] \in Doing
    <3>1. (x \in Watcher) \in BOOLEAN
      OBVIOUS
    <3> QED
      BY <3>1 DEF Doing
  <2>2. "passive" \in Policy
    BY DEF Policy
  <2> QED
    BY <1>3, <2>1, <2>2, Moved, SetPolicyType DEF Load
<1>4. CASE Adopt(x)
  <2>1. actor[x].pol \in Policy /\ actor[x].align \in BOOLEAN
    BY <1>4, Shape DEF Adopt
  <2>2. [at |-> "align"] \in Doing
    BY DEF Doing
  <2>3. actor' \in [Actor -> Doing \cup {Idle}]
    BY <1>4, <2>1, <2>2, Moved DEF Adopt
  <2>4. policy' \in Policy /\ raced' \in BOOLEAN
    BY <1>4, <2>1, SetPolicyType DEF Adopt
  <2>5. unsettled' \in BOOLEAN
    BY <1>4, <2>1 DEF Adopt
  <2> QED
    BY <1>4, <2>3, <2>4, <2>5 DEF Adopt
<1> QED
  BY <1>1, <1>2, <1>3, <1>4

LEMMA ReconcileType ==
  ASSUME TypeOK, NEW x \in Actor, Reconcile(x)
  PROVE  TypeOK'
<1> USE DEF TypeOK
<1>1. CASE Align(x)
  <2>1. [at |-> "clear", prev |-> active, next |-> policy] \in Doing
    BY DEF Doing
  <2> QED
    BY <1>1, <2>1, Moved DEF Align
<1>2. CASE Clear(x)
  <2>1. [at |-> "arm"] \in Doing
    BY DEF Doing
  <2>2. actor' \in [Actor -> Doing \cup {Idle}]
    BY <1>2, <2>1, Moved DEF Clear
  <2>3. left' \in [Addr -> {n \in Int : n >= Gone}]
    BY <1>2, Numbers DEF Clear
  <2>4. rules' \in [RuleName -> 0..MaxRules]
    BY <1>2, KeptType DEF Clear
  <2>5. unsettled' \in BOOLEAN
    BY <1>2, Zenon DEF Clear
  <2> QED
    BY <1>2, <2>2, <2>3, <2>4, <2>5 DEF Clear
<1>3. CASE Arm(x)
  <2>1. PICK kept \in SUBSET RuleName :
          /\ unsettled' = (unsettled \/ FailedFor(kept))
          /\ \/ /\ Kept(kept)[PortRule] < MaxRules
                /\ rules' = [Kept(kept) EXCEPT ![PortRule] = @ + 1]
                /\ Goto(x, Idle)
             \/ /\ rules' = Kept(kept)
                /\ Goto(x, [at |-> "degrade"])
    BY <1>3 DEF Arm
  <2>2. [at |-> "degrade"] \in Doing
    BY DEF Doing
  <2>3. actor' \in [Actor -> Doing \cup {Idle}]
    BY <2>1, <2>2, Moved
  <2>4. rules' \in [RuleName -> 0..MaxRules]
    BY <2>1, KeptType, BoundAssumption DEF RuleName
  <2>5. unsettled' \in BOOLEAN
    BY <2>1, Zenon
  <2> QED
    BY <1>3, <2>3, <2>4, <2>5 DEF Arm
<1>4. CASE Degrade(x)
  BY <1>4, Moved DEF Degrade, Doing, Policy
<1>5. CASE Yield(x)
  <2>1. "passive" \in Policy
    BY DEF Policy
  <2> QED
    BY <1>5, <2>1, Moved, SetPolicyType DEF Yield
<1> QED
  BY <1>1, <1>2, <1>3, <1>4, <1>5 DEF Reconcile

LEMMA TypeStep ==
  ASSUME TypeOK, [Next]_vars
  PROVE  TypeOK'
<1>1. ASSUME NEW h \in Handler, NEW p \in Policy,
             Request(h) \/ Unbanning(h) \/ Post(h, p) \/ ConfigSet(h, p)
      PROVE  TypeOK'
  BY <1>1, RequestType, UnbanningType, SwitchType DEF Actor
<1>2. ASSUME NEW x \in Actor, NEW p \in Policy, Load(x, p) \/ Adopt(x) \/ Reconcile(x)
      PROVE  TypeOK'
  BY <1>2, SwitchType, ReconcileType
<1>3. CASE Tick
  <2>1. left' \in [Addr -> {n \in Int : n >= Gone}]
    BY <1>3, Numbers DEF Tick, TypeOK
  <2> QED
    BY <1>3, <2>1 DEF Tick, TypeOK
<1>4. CASE Restart
  <2>1. rules' \in [RuleName -> 0..MaxRules]
    BY <1>4, BoundAssumption DEF Restart, BootRules
  <2>2. left' \in [Addr -> {n \in Int : n >= Gone}]
    BY <1>4, Numbers DEF Restart
  <2> QED
    BY <1>4, <2>1, <2>2 DEF Restart, TypeOK
<1>5. CASE UNCHANGED vars
  BY <1>5 DEF TypeOK, vars
<1>6. "passive" \in Policy
  BY DEF Policy
<1> QED
  BY <1>1, <1>2, <1>3, <1>4, <1>5, <1>6 DEF Next

-----------------------------------------------------------------------------
(* The bound on a ban. *)

LEMMA PendingFinite ==
  ASSUME NEW a
  PROVE  /\ IsFiniteSet(Pending(a)) /\ IsFiniteSet(Pending(a)')
         /\ Cardinality(Pending(a)) \in Nat /\ Cardinality(Pending(a)') \in Nat
         /\ Cardinality(Pending(a)') <= Cardinality(Handler)
<1>1. Pending(a) \subseteq Handler /\ Pending(a)' \subseteq Handler
  BY DEF Pending
<1> HIDE DEF Pending
<1> QED
  BY <1>1, ActorAssumption, FS_Subset, FS_CardinalityType

\* BanTicks * n grows with n, and by BanTicks from n to n + 1.
LEMMA Times ==
  ASSUME NEW m \in Nat, NEW n \in Nat
  PROVE  /\ BanTicks * m \in Nat
         /\ m <= n => BanTicks * m <= BanTicks * n
         /\ BanTicks * (m + 1) = BanTicks * m + BanTicks
<1>1. BanTicks \in Nat
  BY BoundAssumption
<1>2. ASSUME m <= n
      PROVE  BanTicks * m <= BanTicks * n
  <2>1. PICK k \in Nat : n = m + k
    <3>1. n - m \in Nat /\ n = m + (n - m)
      BY <1>2
    <3> QED
      BY <3>1
  <2>2. BanTicks * (m + k) = BanTicks * m + BanTicks * k
    BY <1>1
  <2>3. BanTicks * k \in Nat
    BY <1>1
  <2> QED
    BY <1>1, <2>1, <2>2, <2>3
<1> QED
  BY <1>1, <1>2

\* An entry that is no longer than one ban is in bounds whatever is pending.
LEMMA FreshBound ==
  ASSUME NEW a \in Addr, left'[a] \in Int, left'[a] <= BanTicks
  PROVE  left'[a] + BanTicks * Cardinality(Pending(a)') <= Ceiling
<1>1. BanTicks * Cardinality(Pending(a)') <= BanTicks * Cardinality(Handler)
  BY PendingFinite, Times, Numbers
<1>2. BanTicks * Cardinality(Pending(a)') \in Nat /\ BanTicks * Cardinality(Handler) \in Nat
  BY PendingFinite, Times, Numbers
<1> QED
  BY <1>1, <1>2, Numbers

\* No longer an entry, and nobody new who may extend it.
LEMMA SameBound ==
  ASSUME BanBounded, NEW a \in Addr, left[a] \in Int, left'[a] \in Int,
         left'[a] <= left[a], Pending(a)' \subseteq Pending(a)
  PROVE  left'[a] + BanTicks * Cardinality(Pending(a)') <= Ceiling
<1>1. left[a] + BanTicks * Cardinality(Pending(a)) <= Ceiling
  BY DEF BanBounded
<1>2. Cardinality(Pending(a)') <= Cardinality(Pending(a))
  BY PendingFinite, FS_Subset
<1>3. BanTicks * Cardinality(Pending(a)') <= BanTicks * Cardinality(Pending(a))
  BY <1>2, PendingFinite, Times
<1>4. BanTicks * Cardinality(Pending(a)') \in Nat /\ BanTicks * Cardinality(Pending(a)) \in Nat
  BY PendingFinite, Times
<1> QED
  BY <1>1, <1>3, <1>4, Numbers

\* Who was not pending does not become so by being moved to another state
\* than a penalty's.
LEMMA PendingMoved ==
  ASSUME NEW a, NEW x, \A y \in Handler : y # x => actor'[y] = actor[y],
         \/ actor'[x].at \notin {"serving", "ban", "insert", "double", "extend"}
         \/ actor'[x].at \in {"ban", "insert"} /\ ~actor'[x].rep
         \/ actor'[x].ip # a
         \/ x \in Pending(a)
  PROVE  Pending(a)' \subseteq Pending(a)
<1>1. ASSUME NEW y \in Pending(a)', y # x
      PROVE  y \in Pending(a)
  BY <1>1 DEF Pending
<1>2. ASSUME x \in Pending(a)'
      PROVE  x \in Pending(a)
  BY <1>2 DEF Pending
<1> QED
  BY <1>1, <1>2

\* An extension adds one ban, and uses up one penalty.
LEMMA ExtendBound ==
  ASSUME TypeOK, BanBounded, NEW h \in Handler, Extend(h), NEW a \in Addr,
         actor[h].ip = a
  PROVE  left'[a] + BanTicks * Cardinality(Pending(a)') <= Ceiling
<1>1. h \in Actor /\ actor[h].at = "extend" /\ actor[h].waf \in BOOLEAN
  BY Shape DEF Extend, Actor
<1>2. actor'[h] = AfterExtra(actor[h]) /\ \A y \in Actor : y # h => actor'[y] = actor[y]
  BY <1>1, AfterType, Moved DEF Extend
<1>3. Pending(a)' = Pending(a) \ {h} /\ h \in Pending(a)
  BY <1>1, <1>2 DEF Pending, AfterExtra, Idle, Actor
<1>4. left[a] \in Int /\ left'[a] = Longer(a)
  BY DEF TypeOK, Extend
<1> DEFINE n == Cardinality(Pending(a))
<1>5. n \in Nat /\ n > 0 /\ n <= Cardinality(Handler) /\ Cardinality(Pending(a)') = n - 1
  <2>1. Pending(a) \subseteq Handler
    BY DEF Pending
  <2>2. Cardinality(Pending(a) \ {h}) = Cardinality(Pending(a)) - 1
    BY <1>3, PendingFinite, FS_RemoveElement
  <2>3. Cardinality(Pending(a) \ {h}) \in Nat
    BY <1>3, PendingFinite
  <2>4. Cardinality(Pending(a)) <= Cardinality(Handler)
    BY <2>1, ActorAssumption, FS_Subset
  <2> QED
    BY <1>3, <2>2, <2>3, <2>4, PendingFinite
<1> HIDE DEF n
<1>6. BanTicks * n = BanTicks * (n - 1) + BanTicks /\ BanTicks * (n - 1) \in Nat
  <2>1. n - 1 \in Nat /\ (n - 1) + 1 = n
    BY <1>5
  <2> QED
    BY <2>1, Times
<1>7. BanTicks * n <= BanTicks * Cardinality(Handler) /\ BanTicks * Cardinality(Handler) \in Nat
  BY <1>5, Times, Numbers
<1>8. left[a] + BanTicks * n <= Ceiling
  BY DEF BanBounded, n
<1>9. left'[a] + BanTicks * (n - 1) <= Ceiling
  BY <1>4, <1>6, <1>7, <1>8, Numbers DEF Longer
<1> QED
  BY <1>5, <1>9

LEMMA BoundStep ==
  ASSUME TypeOK, BanBounded, [Next]_vars
  PROVE  BanBounded'
<1> SUFFICES ASSUME NEW a \in Addr
             PROVE  left'[a] + BanTicks * Cardinality(Pending(a)') <= Ceiling
  BY DEF BanBounded
<1>t. left[a] \in Int /\ left'[a] \in Int /\ left[a] >= Gone
  BY TypeStep DEF TypeOK
<1>n. Gone < 0 /\ 0 < BanTicks /\ BanTicks \in Int /\ Gone \in Int
  BY Numbers
<1>1. ASSUME NEW h \in Handler, Request(h)
      PROVE  left'[a] + BanTicks * Cardinality(Pending(a)') <= Ceiling
  <2>0. h \in Actor /\ Handler \subseteq Actor
    BY DEF Actor
  <2>1. ASSUME NEW b \in Addr, Arrive(h, b)
        PROVE  left'[a] + BanTicks * Cardinality(Pending(a)') <= Ceiling
    <3>1. CASE Banned(b) \/ a # b
      <4>1. left'[a] <= left[a]
        BY <2>1, <1>t, SweptType DEF Arrive
      <4>2. Pending(a)' \subseteq Pending(a)
        <5>1. actor'[h] = Idle \/ actor'[h] = [at |-> "serving", ip |-> b]
          BY <2>0, <2>1 DEF Arrive, Goto, TypeOK
        <5>2. Banned(b) => actor'[h] = Idle
          BY <2>0, <2>1 DEF Arrive, Goto, TypeOK, Admits
        <5>3. \A y \in Handler : y # h => actor'[y] = actor[y]
          BY <2>0, <2>1 DEF Arrive, Goto, TypeOK
        <5> QED
          BY <3>1, <5>1, <5>2, <5>3, PendingMoved DEF Idle
      <4> QED
        BY <4>1, <4>2, <1>t, SameBound
    <3>2. CASE ~Banned(b) /\ a = b
      <4>1. left'[a] <= BanTicks
        BY <2>1, <3>2, <1>t, <1>n, SweptType DEF Arrive
      <4> QED
        BY <4>1, <1>t, FreshBound
    <3> QED
      BY <3>1, <3>2
  <2>2. CASE Answer(h)
    <3>1. actor'[h] = Idle /\ \A y \in Handler : y # h => actor'[y] = actor[y]
      BY <2>0, <2>2 DEF Answer, Goto, TypeOK
    <3>2. Pending(a)' \subseteq Pending(a)
      BY <3>1, PendingMoved DEF Idle
    <3> QED
      BY <2>2, <3>2, <1>t, SameBound DEF Answer
  <2>3. ASSUME NEW waf \in BOOLEAN, NEW low \in BOOLEAN, Penalise(h, waf, low)
        PROVE  left'[a] + BanTicks * Cardinality(Pending(a)') <= Ceiling
    <3>1. \A y \in Handler : y # h => actor'[y] = actor[y]
      BY <2>0, <2>3 DEF Penalise, Goto, TypeOK
    <3>2. \/ actor'[h] = Idle
          \/ actor'[h].ip = actor[h].ip
      BY <2>0, <2>3 DEF Penalise, Goto, TypeOK
    <3>3. actor[h].ip = a => h \in Pending(a)
      BY <2>3 DEF Penalise, Pending
    <3>4. Pending(a)' \subseteq Pending(a)
      BY <3>1, <3>2, <3>3, PendingMoved DEF Idle
    <3> QED
      BY <2>3, <3>4, <1>t, SameBound DEF Penalise
  <2>4. CASE ReadPolicy(h)
    <3>1. \A y \in Handler : y # h => actor'[y] = actor[y]
      BY <2>0, <2>4 DEF ReadPolicy, Goto, TypeOK
    <3>2. \/ actor'[h] = Idle
          \/ actor[h].rep /\ actor'[h].ip = actor[h].ip
          \/ ~actor[h].rep /\ actor'[h].at = "insert" /\ ~actor'[h].rep
      <4>1. actor[h].rep \in BOOLEAN
        BY <2>0, <2>4, Shape DEF ReadPolicy
      <4> QED
        BY <2>0, <2>4, <4>1 DEF ReadPolicy, Goto, TypeOK, AfterBan
    <3>3. actor[h].rep /\ actor[h].ip = a => h \in Pending(a)
      BY <2>4 DEF ReadPolicy, Pending
    <3>4. Pending(a)' \subseteq Pending(a)
      BY <3>1, <3>2, <3>3, PendingMoved DEF Idle
    <3> QED
      BY <2>4, <3>4, <1>t, SameBound DEF ReadPolicy
  <2>5. CASE InsertEntry(h) \/ InsertRule(h)
    <3>1. CASE InsertEntry(h) /\ actor[h].ip = a
      <4>1. left'[a] = BanTicks
        BY <3>1 DEF InsertEntry, TypeOK
      <4> QED
        BY <4>1, <1>n, FreshBound
    <3>2. CASE ~(InsertEntry(h) /\ actor[h].ip = a)
      <4>1. left'[a] = left[a]
        BY <2>5, <3>2 DEF InsertEntry, InsertRule, TypeOK
      <4>2. actor[h].at = "insert" /\ Goto(h, AfterBan(actor[h]))
        BY <2>5 DEF InsertEntry, InsertRule
      <4>3. actor'[h] = AfterBan(actor[h]) /\ \A y \in Handler : y # h => actor'[y] = actor[y]
        BY <2>0, <4>2 DEF Goto, TypeOK
      <4>4. \/ actor'[h] = Idle
            \/ actor[h].rep /\ actor'[h].ip = actor[h].ip
        BY <4>3 DEF AfterBan
      <4>5. actor[h].rep /\ actor[h].ip = a => h \in Pending(a)
        BY <4>2 DEF Pending
      <4>6. Pending(a)' \subseteq Pending(a)
        BY <4>3, <4>4, <4>5, PendingMoved DEF Idle
      <4> QED
        BY <4>1, <4>6, <1>t, SameBound
    <3> QED
      BY <3>1, <3>2
  <2>6. CASE Double(h)
    <3>1. \A y \in Handler : y # h => actor'[y] = actor[y]
      BY <2>0, <2>6 DEF Double, Goto, TypeOK
    <3>2. \/ actor'[h] = Idle
          \/ actor'[h].ip = actor[h].ip
      BY <2>0, <2>6 DEF Double, Goto, TypeOK, AfterExtra
    <3>3. actor[h].ip = a => h \in Pending(a)
      BY <2>6 DEF Double, Pending
    <3>4. Pending(a)' \subseteq Pending(a)
      BY <3>1, <3>2, <3>3, PendingMoved DEF Idle
    <3> QED
      BY <2>6, <3>4, <1>t, SameBound DEF Double
  <2>7. CASE Extend(h)
    <3>1. CASE actor[h].ip = a
      BY <2>7, <3>1, ExtendBound
    <3>2. CASE actor[h].ip # a
      <4>1. left'[a] = left[a]
        BY <2>7, <3>2 DEF Extend, TypeOK
      <4>2. actor'[h] = AfterExtra(actor[h]) /\ \A y \in Handler : y # h => actor'[y] = actor[y]
        BY <2>0, <2>7 DEF Extend, Goto, TypeOK
      <4>3. actor'[h] = Idle \/ (actor'[h].at = "ban" /\ ~actor'[h].rep)
        BY <4>2 DEF AfterExtra
      <4>4. Pending(a)' \subseteq Pending(a)
        BY <4>2, <4>3, PendingMoved DEF Idle
      <4> QED
        BY <4>1, <4>4, <1>t, SameBound
    <3> QED
      BY <3>1, <3>2
  <2> QED
    BY <1>1, <2>1, <2>2, <2>3, <2>4, <2>5, <2>6, <2>7 DEF Request

\* No other step moves anyone into a penalty or prolongs a ban.
<1>2. ASSUME left'[a] <= left[a],
             \/ actor' = actor
             \/ \E x \in Actor : \E do :
                  /\ Goto(x, do)
                  /\ do.at \notin {"serving", "ban", "insert", "double", "extend"}
      PROVE  left'[a] + BanTicks * Cardinality(Pending(a)') <= Ceiling
  <2>1. Pending(a)' \subseteq Pending(a)
    <3>1. CASE actor' = actor
      BY <3>1 DEF Pending
    <3>2. ASSUME NEW x \in Actor, NEW do, Goto(x, do),
                 do.at \notin {"serving", "ban", "insert", "double", "extend"}
          PROVE  Pending(a)' \subseteq Pending(a)
      <4>1. actor'[x] = do /\ \A y \in Handler : y # x => actor'[y] = actor[y]
        BY <3>2 DEF Goto, TypeOK, Actor
      <4> QED
        BY <3>2, <4>1, PendingMoved
    <3> QED
      BY <1>2, <3>1, <3>2
  <2> QED
    BY <1>2, <2>1, <1>t, SameBound
<1>3. ASSUME NEW h \in Handler, Unbanning(h)
      PROVE  left'[a] + BanTicks * Cardinality(Pending(a)') <= Ceiling
  <2>1. h \in Actor
    BY DEF Actor
  <2>2. ASSUME NEW b \in Addr, Unban(h, b)
        PROVE  left'[a] + BanTicks * Cardinality(Pending(a)') <= Ceiling
    <3>1. left'[a] <= left[a] /\ Goto(h, [at |-> "reap", ip |-> b])
      BY <2>2, <1>t DEF Unban, TypeOK
    <3> QED
      BY <1>2, <2>1, <3>1
  <2>3. CASE Reap(h)
    <3>1. left'[a] <= left[a]
      BY <2>3, <1>t DEF Reap
    <3>2. Goto(h, Idle) \/ Goto(h, [at |-> "unrule", ip |-> actor[h].ip])
      BY <2>3 DEF Reap
    <3> QED
      BY <1>2, <2>1, <3>1, <3>2 DEF Idle
  <2>4. CASE Unrule(h)
    <3>1. left'[a] <= left[a] /\ Goto(h, Idle)
      BY <2>4, <1>t DEF Unrule
    <3> QED
      BY <1>2, <2>1, <3>1 DEF Idle
  <2> QED
    BY <1>3, <2>2, <2>3, <2>4 DEF Unbanning
<1>4. ASSUME NEW x \in Actor, NEW p \in Policy,
             Post(x, p) \/ ConfigSet(x, p) \/ Load(x, p) \/ Adopt(x) \/ Align(x)
               \/ Degrade(x) \/ Yield(x)
      PROVE  left'[a] + BanTicks * Cardinality(Pending(a)') <= Ceiling
  <2>1. left'[a] <= left[a]
    BY <1>4, <1>t DEF Post, ConfigSet, Load, Adopt, Align, Degrade, Yield
  <2>2. \/ actor' = actor
        \/ \E do : Goto(x, do)
             /\ do.at \notin {"serving", "ban", "insert", "double", "extend"}
    <3>1. CASE Post(x, p)
      BY <3>1 DEF Post
    <3>2. CASE ConfigSet(x, p)
      BY <3>2 DEF ConfigSet
    <3>3. CASE Load(x, p)
      BY <3>3 DEF Load
    <3>4. CASE Adopt(x)
      BY <3>4 DEF Adopt, Idle
    <3>5. CASE Align(x)
      BY <3>5 DEF Align, Idle
    <3>6. CASE Degrade(x) \/ Yield(x)
      BY <3>6 DEF Degrade, Yield, Idle
    <3> QED
      BY <1>4, <3>1, <3>2, <3>3, <3>4, <3>5, <3>6
  <2> QED
    BY <1>2, <2>1, <2>2
<1>5. ASSUME NEW x \in Actor, Clear(x) \/ Arm(x)
      PROVE  left'[a] + BanTicks * Cardinality(Pending(a)') <= Ceiling
  <2>1. left'[a] <= left[a]
    BY <1>5, <1>t DEF Clear, Arm
  <2>2. Goto(x, Idle) \/ Goto(x, [at |-> "arm"]) \/ Goto(x, [at |-> "degrade"])
    BY <1>5 DEF Clear, Arm
  <2> QED
    BY <1>2, <2>1, <2>2 DEF Idle
<1>6. CASE Tick
  <2>1. left'[a] <= left[a] /\ actor' = actor
    BY <1>6, <1>t DEF Tick
  <2> QED
    BY <1>2, <2>1
<1>7. CASE Restart
  <2>1. left'[a] <= BanTicks
    BY <1>7, <1>n DEF Restart
  <2> QED
    BY <2>1, <1>t, FreshBound
<1>8. CASE UNCHANGED vars
  BY <1>2, <1>8, <1>t DEF vars
<1>9. "passive" \in Policy /\ Handler \subseteq Actor
  BY DEF Policy, Actor
<1>10. ASSUME NEW x \in Actor, Reconcile(x)
       PROVE  left'[a] + BanTicks * Cardinality(Pending(a)') <= Ceiling
  BY <1>4, <1>5, <1>9, <1>10 DEF Reconcile
<1> QED
  BY <1>1, <1>3, <1>4, <1>6, <1>7, <1>8, <1>9, <1>10 DEF Next

LEMMA InitBound ==
  ASSUME Init
  PROVE  BanBounded
<1> SUFFICES ASSUME NEW a \in Addr
             PROVE  left[a] + BanTicks * Cardinality(Pending(a)) <= Ceiling
  BY DEF BanBounded
<1>1. Pending(a) = {}
  BY DEF Pending, Init, Idle, Actor
<1>2. Cardinality(Pending(a)) = 0
  BY <1>1, FS_EmptySet
<1>3. BanTicks * Cardinality(Handler) \in Nat
  BY Times, Numbers
<1> QED
  BY <1>2, <1>3, Numbers DEF Init

-----------------------------------------------------------------------------
(* Switches, one at a time. *)

SwitchAt == {"loading", "align", "clear", "arm", "degrade", "yield"}

\* A step under the same policy keeps the order if it starts no switch and
\* sets out to ban under the policy only.
LEMMA OrderlyGoto ==
  ASSUME TypeOK, Orderly, NEW x \in Actor, NEW do \in Doing \cup {Idle}, Goto(x, do),
         policy' = policy, do.at \in SwitchAt => Switching(x),
         do.at = "insert" => do.pol = policy,
         do.at = "extend" => policy = "dynamic-ban"
  PROVE  Orderly'
<1>1. actor'[x] = do /\ \A y \in Actor : y # x => actor'[y] = actor[y]
  BY Moved
<1>2. ASSUME NEW y \in Actor, Switching(y)'
      PROVE  Switching(y)
  BY <1>1, <1>2 DEF Switching, SwitchAt
<1>3. ASSUME NEW y \in Actor, NEW z \in Actor, Switching(y)', Switching(z)'
      PROVE  y = z
  BY <1>2, <1>3 DEF Orderly
<1>4. ASSUME NEW y \in Actor
      PROVE  /\ actor'[y].at = "insert" => actor'[y].pol = policy'
             /\ actor'[y].at = "extend" => policy' = "dynamic-ban"
  BY <1>1 DEF Orderly
<1> QED
  BY <1>3, <1>4 DEF Orderly

\* So does one that changes the policy and does not race.
LEMMA OrderlySet ==
  ASSUME TypeOK, NEW x \in Actor, NEW do \in Doing \cup {Idle}, Goto(x, do),
         NEW p, SetPolicy(x, p), ~raced', do.at \notin {"insert", "extend"}
  PROVE  /\ Orderly'
         /\ \A y \in Actor : y # x => ~Acting(y) /\ ~Switching(y)
<1>1. actor'[x] = do /\ \A y \in Actor : y # x => actor'[y] = actor[y]
  BY Moved
<1>2. \A y \in Actor : y # x => ~Acting(y) /\ ~Switching(y)
  BY DEF SetPolicy, Disturbs
<1>3. \A y \in Actor : y # x => ~Switching(y)'
  BY <1>1, <1>2 DEF Switching
<1>4. ASSUME NEW y \in Actor
      PROVE  actor'[y].at \notin {"insert", "extend"}
  BY <1>1, <1>2 DEF Acting
<1> QED
  BY <1>2, <1>3, <1>4 DEF Orderly

LEMMA OrderlyRequest ==
  ASSUME TypeOK, Orderly, NEW h \in Handler, Request(h) \/ Unbanning(h)
  PROVE  Orderly'
<1>0. h \in Actor /\ policy' = policy
  BY DEF Actor, Request, Unbanning, Arrive, Answer, Penalise, ReadPolicy,
         InsertEntry, InsertRule, Double, Extend, Unban, Reap, Unrule
<1>t. actor' \in [Actor -> Doing \cup {Idle}]
  BY RequestType, UnbanningType DEF TypeOK
<1>1. ASSUME NEW do, Goto(h, do), do.at \notin SwitchAt,
             do.at = "insert" => do.pol = policy,
             do.at = "extend" => policy = "dynamic-ban"
      PROVE  Orderly'
  <2>1. do \in Doing \cup {Idle}
    BY <1>0, <1>1, <1>t DEF Goto, TypeOK
  <2> QED
    BY <1>0, <1>1, <2>1, OrderlyGoto
<1>2. ASSUME NEW a \in Addr, Arrive(h, a)
      PROVE  Orderly'
  BY <1>1, <1>2 DEF Arrive, SwitchAt, Idle
<1>3. CASE Answer(h)
  BY <1>1, <1>3 DEF Answer, SwitchAt, Idle
<1>4. ASSUME NEW waf, NEW low, Penalise(h, waf, low)
      PROVE  Orderly'
  BY <1>1, <1>4 DEF Penalise, SwitchAt, Idle
<1>5. AfterBan(actor[h]).at \in {"double", "idle"} /\ AfterExtra(actor[h]).at \in {"ban", "idle"}
  BY DEF AfterBan, AfterExtra, Idle
<1>6. CASE ReadPolicy(h)
  <2>1. CASE policy = "passive"
    BY <1>1, <1>5, <1>6, <2>1 DEF ReadPolicy, SwitchAt
  <2>2. CASE policy # "passive"
    BY <1>1, <1>6, <2>2 DEF ReadPolicy, SwitchAt
  <2> QED
    BY <2>1, <2>2
<1>7. CASE InsertEntry(h) \/ InsertRule(h)
  BY <1>1, <1>5, <1>7 DEF InsertEntry, InsertRule, SwitchAt
<1>8. CASE Double(h)
  <2>1. CASE policy = "dynamic-ban"
    BY <1>1, <1>8, <2>1 DEF Double, SwitchAt
  <2>2. CASE policy # "dynamic-ban"
    BY <1>1, <1>5, <1>8, <2>2 DEF Double, SwitchAt
  <2> QED
    BY <2>1, <2>2
<1>9. CASE Extend(h)
  BY <1>1, <1>5, <1>9 DEF Extend, SwitchAt
<1>10. ASSUME NEW a \in Addr, Unban(h, a)
       PROVE  Orderly'
  BY <1>1, <1>10 DEF Unban, SwitchAt
<1>11. CASE Reap(h) \/ Unrule(h)
  <2>1. Goto(h, Idle) \/ Goto(h, [at |-> "unrule", ip |-> actor[h].ip])
    BY <1>11 DEF Reap, Unrule
  <2> QED
    BY <1>1, <2>1 DEF SwitchAt, Idle
<1> QED
  BY <1>2, <1>3, <1>4, <1>6, <1>7, <1>8, <1>9, <1>10, <1>11 DEF Request, Unbanning

LEMMA OrderlyStep ==
  ASSUME TypeOK, ~raced => Orderly, [Next]_vars, ~raced'
  PROVE  Orderly'
<1>1. ASSUME NEW h \in Handler, Request(h) \/ Unbanning(h)
      PROVE  Orderly'
  <2>1. raced => raced'
    BY <1>1 DEF Request, Unbanning, Arrive, Answer, Penalise, ReadPolicy,
         InsertEntry, InsertRule, Double, Extend, Unban, Reap, Unrule
  <2> QED
    BY <1>1, <2>1, OrderlyRequest
<1>2. ASSUME NEW x \in Actor, NEW p \in Policy,
             Post(x, p) \/ Load(x, p) \/ Adopt(x) \/ Yield(x)
      PROVE  Orderly'
  <2>1. PICK q : SetPolicy(x, q)
    BY <1>2 DEF Post, Load, Adopt, Yield
  <2>2. PICK do \in Doing \cup {Idle} : Goto(x, do) /\ do.at \notin {"insert", "extend"}
    <3>1. CASE Post(x, p)
      BY <3>1 DEF Post, Doing
    <3>2. CASE Load(x, p)
      <4> DEFINE do == [at |-> "loading", pol |-> p, align |-> x \in Watcher]
      <4>1. (x \in Watcher) \in BOOLEAN
        OBVIOUS
      <4>2. do \in Doing /\ do.at \notin {"insert", "extend"}
        BY <4>1 DEF Doing
      <4>3. Goto(x, do)
        BY <3>2 DEF Load
      <4> HIDE DEF do
      <4> QED
        BY <4>2, <4>3
    <3>3. CASE Adopt(x)
      <4>1. Goto(x, [at |-> "align"]) \/ Goto(x, Idle)
        BY <3>3 DEF Adopt
      <4> QED
        BY <4>1 DEF Doing, Idle
    <3>4. CASE Yield(x)
      BY <3>4 DEF Yield, Idle
    <3> QED
      BY <1>2, <3>1, <3>2, <3>3, <3>4
  <2> QED
    BY <2>1, <2>2, OrderlySet
<1>3. ASSUME NEW x \in Handler, NEW p \in Policy, ConfigSet(x, p)
      PROVE  Orderly'
  <2>1. x \in Actor /\ Goto(x, Idle)
    BY <1>3 DEF ConfigSet, Actor, Goto, TypeOK
  <2> QED
    BY <1>3, <2>1, OrderlySet DEF ConfigSet, Idle
<1>4. ASSUME NEW x \in Actor, Align(x) \/ Clear(x) \/ Arm(x) \/ Degrade(x)
      PROVE  Orderly'
  <2>1. policy' = policy /\ Switching(x) /\ raced' = raced
    BY <1>4 DEF Align, Clear, Arm, Degrade, Switching
  <2>2. PICK do \in Doing \cup {Idle} : Goto(x, do) /\ do.at \notin {"insert", "extend"}
    <3>1. CASE Align(x)
      BY <3>1 DEF Align, Doing, Idle, TypeOK
    <3>2. CASE Clear(x)
      BY <3>2 DEF Clear, Doing, Idle
    <3>3. CASE Arm(x) \/ Degrade(x)
      BY <3>3 DEF Arm, Degrade, Doing, Idle
    <3> QED
      BY <1>4, <3>1, <3>2, <3>3
  <2> QED
    BY <2>1, <2>2, OrderlyGoto
<1>5. CASE Restart
  BY <1>5 DEF Restart, Orderly, Switching, Idle
<1>6. CASE Tick \/ UNCHANGED vars
  BY <1>6 DEF Tick, vars, Orderly, Switching
<1>7. "passive" \in Policy /\ Handler \subseteq Actor
  BY DEF Policy, Actor
<1>8. ASSUME NEW x \in Actor, Reconcile(x)
      PROVE  Orderly'
  BY <1>2, <1>4, <1>7, <1>8 DEF Reconcile
<1> QED
  BY <1>1, <1>2, <1>3, <1>5, <1>6, <1>7, <1>8 DEF Next

-----------------------------------------------------------------------------
(* The effects, from point to point of a switch. *)

\* Nobody is somewhere in a switch that he is not in.
LEMMA StageElsewhere ==
  ASSUME NEW x
  PROVE  /\ ~Switching(x) => Stage(x)
         /\ ~Switching(x)' => Stage(x)'
  BY DEF Stage, Switching

\* A step outside of a switch that adds no effect, or one of the policy that
\* is configured while no switch to os-link is being given up.
LEMMA StagedGoto ==
  ASSUME TypeOK, Staged, NEW x \in Actor, ~Switching(x), ~Switching(x)',
         \A y \in Actor : y # x => actor'[y] = actor[y],
         policy' = policy, active' = active,
         rules'[PortRule] = rules[PortRule],
         \/ policy = "dynamic-ban"
         \/ \A a \in Addr : left'[a] = Gone \/ left[a] # Gone,
         \/ policy = "os-link" /\ \A y \in Actor : actor[y].at \notin {"degrade", "yield"}
         \/ \A n \in RuleName : rules[n] = 0 => rules'[n] = 0
  PROVE  Staged'
<1>1. \A y \in Actor : y # x => (Switching(y)' <=> Switching(y))
  BY DEF Switching
<1>2. ASSUME NEW S, policy \in S, Within(S)
      PROVE  Within(S)'
  BY <1>2 DEF Within
<1>3. Armed => Armed'
  BY DEF Armed
<1>4. ASSUME NEW y \in Actor
      PROVE  Stage(y)'
  <2>1. CASE y = x
    BY <2>1, StageElsewhere
  <2>2. CASE y # x
    <3>1. Stage(y) /\ actor'[y] = actor[y]
      BY <2>2 DEF Staged
    <3>2. ASSUME actor[y].at = "loading"
          PROVE  policy = "passive" /\ Within({active})'
      BY <3>1, <3>2 DEF Stage, Within
    <3>3. ASSUME actor[y].at = "align"
          PROVE  Within({active, policy})'
      BY <3>1, <3>3, <1>2 DEF Stage
    <3>4. ASSUME actor[y].at = "clear"
          PROVE  Within({actor[y].prev, policy})'
      <4>1. Within({actor[y].prev, policy})
        BY <3>1, <3>4 DEF Stage
      <4> QED
        BY <3>1, <4>1 DEF Within
    <3>5. ASSUME actor[y].at = "arm"
          PROVE  Within({policy})'
      BY <3>1, <3>5, <1>2 DEF Stage
    <3>6. ASSUME actor[y].at \in {"degrade", "yield"}
          PROVE  Within({})'
      BY <3>1, <3>6 DEF Stage, Within
    <3> QED
      BY <3>1, <3>2, <3>3, <3>4, <3>5, <3>6, <1>3 DEF Stage
  <2> QED
    BY <2>1, <2>2
<1>5. ASSUME AtRest'
      PROVE  active' = policy' /\ Within({policy})' /\ Armed'
  <2>1. AtRest
    BY <1>1, <1>5 DEF AtRest
  <2> QED
    BY <2>1, <1>2, <1>3 DEF Staged
<1> QED
  BY <1>4, <1>5 DEF Staged

\* A step of the only one who switches.
LEMMA StagedAlone ==
  ASSUME NEW x \in Actor, \A y \in Actor : y # x => ~Switching(y)',
         Stage(x)',
         ~Switching(x)' => active' = policy' /\ Within({policy})' /\ Armed'
  PROVE  Staged'
<1>1. \A y \in Actor : Stage(y)'
  BY StageElsewhere
<1> QED
  BY <1>1 DEF Staged, AtRest

LEMMA StagedRequest ==
  ASSUME TypeOK, Orderly, Staged, NEW h \in Handler, Request(h) \/ Unbanning(h),
         ~raced', ~unsettled'
  PROVE  Staged'
<1>0. h \in Actor /\ PortRule \in RuleName
  BY DEF Actor, RuleName
<1>1. /\ policy' = policy /\ active' = active
      /\ ~Switching(h)
      /\ \A y \in Actor : y # h => actor'[y] = actor[y]
  BY <1>0 DEF Request, Unbanning, Arrive, Answer, Penalise, ReadPolicy, InsertEntry,
       InsertRule, Double, Extend, Unban, Reap, Unrule, Switching, Goto, TypeOK, Idle
<1>2. ~Switching(h)'
  <2>1. ASSUME NEW do, Goto(h, do), do.at \notin SwitchAt
        PROVE  ~Switching(h)'
    BY <1>0, <2>1 DEF Goto, Switching, SwitchAt, TypeOK
  <2>2. AfterBan(actor[h]).at \in {"double", "idle"} /\ AfterExtra(actor[h]).at \in {"ban", "idle"}
    BY DEF AfterBan, AfterExtra, Idle
  <2>3. ASSUME NEW a, Arrive(h, a) \/ Unban(h, a)
        PROVE  ~Switching(h)'
    <3>1. \/ Goto(h, Idle)
          \/ Goto(h, [at |-> "serving", ip |-> a])
          \/ Goto(h, [at |-> "reap", ip |-> a])
      BY <2>3 DEF Arrive, Unban
    <3> QED
      BY <2>1, <3>1 DEF Idle, SwitchAt
  <2>4. ASSUME NEW waf, NEW low, Penalise(h, waf, low)
        PROVE  ~Switching(h)'
    <3>1. Goto(h, Idle) \/ Goto(h, [at |-> "ban", ip |-> actor[h].ip, rep |-> low, waf |-> waf])
      BY <2>4 DEF Penalise
    <3> QED
      BY <2>1, <3>1 DEF Idle, SwitchAt
  <2>5. CASE ReadPolicy(h)
    <3>1. \/ Goto(h, AfterBan(actor[h]))
          \/ Goto(h, [at |-> "insert", ip |-> actor[h].ip, rep |-> actor[h].rep,
                      waf |-> actor[h].waf, pol |-> policy])
      BY <2>5 DEF ReadPolicy
    <3> QED
      BY <2>1, <2>2, <3>1 DEF SwitchAt
  <2>6. CASE Double(h)
    <3>1. \/ Goto(h, AfterExtra(actor[h]))
          \/ Goto(h, [at |-> "extend", ip |-> actor[h].ip, waf |-> actor[h].waf])
      BY <2>6 DEF Double
    <3> QED
      BY <2>1, <2>2, <3>1 DEF SwitchAt
  <2>7. CASE InsertEntry(h) \/ InsertRule(h) \/ Extend(h)
    BY <2>1, <2>2, <2>7 DEF InsertEntry, InsertRule, Extend, SwitchAt
  <2>8. CASE Answer(h) \/ Reap(h) \/ Unrule(h)
    <3>1. Goto(h, Idle) \/ Goto(h, [at |-> "unrule", ip |-> actor[h].ip])
      BY <2>8 DEF Answer, Reap, Unrule
    <3> QED
      BY <2>1, <3>1 DEF Idle, SwitchAt
  <2> QED
    BY <2>3, <2>4, <2>5, <2>6, <2>7, <2>8 DEF Request, Unbanning

\* Steps that change neither the table nor the rules to more.
<1>3. ASSUME \A a \in Addr : left'[a] = Gone \/ left[a] # Gone, rules' = rules
      PROVE  Staged'
  BY <1>0, <1>1, <1>2, <1>3, StagedGoto
<1>4. ASSUME NEW a \in Addr, Arrive(h, a)
      PROVE  Staged'
  BY <1>3, <1>4, SweptType DEF Arrive
<1>5. CASE Answer(h) \/ (\E waf, low \in BOOLEAN : Penalise(h, waf, low)) \/ ReadPolicy(h)
             \/ Double(h) \/ Reap(h)
  BY <1>3, <1>5 DEF Answer, Penalise, ReadPolicy, Double, Reap
<1>6. ASSUME NEW a \in Addr, Unban(h, a)
      PROVE  Staged'
  BY <1>3, <1>6 DEF Unban, TypeOK
<1>7. CASE InsertEntry(h) \/ Extend(h)
  <2>1. policy = "dynamic-ban" /\ rules' = rules
    BY <1>0, <1>7 DEF InsertEntry, Extend, Orderly
  <2> QED
    BY <1>0, <1>1, <1>2, <2>1, StagedGoto
<1>8. CASE InsertRule(h)
  <2>1. policy = "os-link" /\ left' = left /\ actor[h].ip \in Addr
    BY <1>0, <1>8, Shape DEF InsertRule, Orderly
  <2>2. rules'[PortRule] = rules[PortRule]
    BY <1>0, <1>8, <2>1, NameAssumption DEF InsertRule, TypeOK
  <2>3. \/ \A y \in Actor : actor[y].at \notin {"degrade", "yield"}
        \/ rules' = rules
    <3>1. CASE rules' = rules
      BY <3>1
    <3>2. CASE raced' = (raced \/ \E y \in Actor : actor[y].at \in {"degrade", "yield"})
      BY <3>2
    <3> QED
      BY <1>8, <3>1, <3>2 DEF InsertRule
  <2> QED
    BY <1>0, <1>1, <1>2, <2>1, <2>2, <2>3, StagedGoto
<1>9. CASE Unrule(h)
  <2>1. actor[h].ip \in Addr /\ actor[h].ip \in RuleName
    BY <1>0, <1>9, Shape DEF Unrule, RuleName
  <2>2. rules' = rules \/ rules' = [rules EXCEPT ![actor[h].ip] = Unruled(@)]
    BY <1>9 DEF Unrule
  <2>3. rules'[PortRule] = rules[PortRule]
    BY <1>0, <2>1, <2>2, NameAssumption DEF TypeOK
  <2>4. \A n \in RuleName : rules[n] = 0 => rules'[n] = 0
    BY <2>1, <2>2 DEF TypeOK, Unruled
  <2> QED
    BY <1>0, <1>1, <1>2, <1>9, <2>3, <2>4, StagedGoto DEF Unrule
<1> QED
  BY <1>4, <1>5, <1>6, <1>7, <1>8, <1>9 DEF Request, Unbanning

\* In a switch that is the only one, everybody else stays out of switches.
LEMMA Alone ==
  ASSUME TypeOK, Orderly, NEW x \in Actor, Switching(x), NEW do \in Doing \cup {Idle},
         Goto(x, do)
  PROVE  /\ actor'[x] = do
         /\ \A y \in Actor : y # x => ~Switching(y)'
  BY Moved DEF Orderly, Switching

LEMMA StagedSwitch ==
  ASSUME TypeOK, Staged, NEW x \in Actor, NEW p \in Policy,
         Post(x, p) \/ Load(x, p) \/ Adopt(x) \/ Yield(x), ~raced', ~unsettled'
  PROVE  Staged'
<1>1. ASSUME NEW do \in Doing \cup {Idle}, Goto(x, do), do.at \notin {"insert", "extend"},
             NEW q, SetPolicy(x, q)
      PROVE  /\ actor'[x] = do
             /\ \A y \in Actor : y # x => ~Switching(y)
             /\ \A y \in Actor : y # x => ~Switching(y)'
  <2>1. actor'[x] = do /\ \A y \in Actor : y # x => actor'[y] = actor[y]
    BY <1>1, Moved
  <2>2. \A y \in Actor : y # x => ~Switching(y)
    BY <1>1, OrderlySet
  <2> QED
    BY <2>1, <2>2 DEF Switching
<1>2. CASE Post(x, p)
  <2> DEFINE do == [at |-> "align"]
  <2>1. do \in Doing /\ do.at = "align"
    BY DEF Doing
  <2>2. Goto(x, do) /\ SetPolicy(x, p) /\ UNCHANGED <<active, left, rules>> /\ ~Switching(x)
    BY <1>2 DEF Post, Switching, Idle
  <2> HIDE DEF do
  <2>3. actor'[x] = do /\ (\A y \in Actor : y # x => ~Switching(y) /\ ~Switching(y)')
    BY <1>1, <2>1, <2>2
  <2>4. active = policy /\ Within({policy}) /\ Armed
    BY <2>2, <2>3 DEF Staged, AtRest
  <2>5. Within({active, policy})' /\ Armed'
    BY <2>2, <2>4 DEF Within, Armed
  <2>6. Stage(x)' /\ Switching(x)'
    BY <2>1, <2>3, <2>5 DEF Stage, Switching
  <2> QED
    BY <2>3, <2>6, StagedAlone
<1>3. CASE Load(x, p)
  <2> DEFINE do == [at |-> "loading", pol |-> p, align |-> x \in Watcher]
  <2>1. do \in Doing /\ do.at = "loading"
    <3>1. (x \in Watcher) \in BOOLEAN
      OBVIOUS
    <3> QED
      BY <3>1 DEF Doing
  <2>2. /\ Goto(x, do) /\ SetPolicy(x, "passive") /\ UNCHANGED <<active, left, rules>>
        /\ ~Switching(x)
    BY <1>3 DEF Load, Switching, Idle
  <2> HIDE DEF do
  <2>3. actor'[x] = do /\ (\A y \in Actor : y # x => ~Switching(y) /\ ~Switching(y)')
    BY <1>1, <2>1, <2>2
  <2>4. active = policy /\ Within({policy}) /\ Armed
    BY <2>2, <2>3 DEF Staged, AtRest
  <2>5. policy' = "passive" /\ Within({active})' /\ Armed'
    BY <2>2, <2>4 DEF Within, Armed, SetPolicy
  <2>6. Stage(x)' /\ Switching(x)'
    BY <2>1, <2>3, <2>5 DEF Stage, Switching
  <2> QED
    BY <2>3, <2>6, StagedAlone
<1>4. CASE Adopt(x)
  <2> DEFINE do == [at |-> "align"]
  <2>1. do \in Doing /\ do.at = "align"
    BY DEF Doing
  <2>2. /\ Goto(x, do) /\ SetPolicy(x, actor[x].pol) /\ UNCHANGED <<active, left, rules>>
        /\ actor[x].at = "loading"
    <3>1. actor[x].align
      BY <1>4 DEF Adopt
    <3> QED
      BY <1>4, <3>1 DEF Adopt
  <2> HIDE DEF do
  <2>3. actor'[x] = do /\ (\A y \in Actor : y # x => ~Switching(y)')
    BY <1>1, <2>1, <2>2
  <2>4. Within({active}) /\ Armed
    BY <2>2 DEF Staged, Stage
  <2>5. Within({active, policy})' /\ Armed'
    BY <2>2, <2>4 DEF Within, Armed
  <2>6. Stage(x)' /\ Switching(x)'
    BY <2>1, <2>3, <2>5 DEF Stage, Switching
  <2> QED
    BY <2>3, <2>6, StagedAlone
<1>5. CASE Yield(x)
  <2>1. /\ Goto(x, Idle) /\ SetPolicy(x, "passive") /\ UNCHANGED <<active, left, rules>>
        /\ actor[x].at = "yield"
    BY <1>5 DEF Yield
  <2>2. actor'[x] = Idle /\ (\A y \in Actor : y # x => ~Switching(y)')
    BY <1>1, <2>1 DEF Idle
  <2>3. active = "passive" /\ Within({})
    BY <2>1 DEF Staged, Stage
  <2>4. active' = policy' /\ Within({policy})' /\ Armed'
    BY <2>1, <2>3 DEF Within, Armed, SetPolicy
  <2>5. ~Switching(x)'
    BY <2>2 DEF Switching, Idle
  <2> QED
    BY <2>2, <2>4, <2>5, StagedAlone, StageElsewhere
<1> QED
  BY <1>2, <1>3, <1>4, <1>5

LEMMA StagedReconcile ==
  ASSUME TypeOK, Orderly, Staged, NEW x \in Actor,
         Align(x) \/ Clear(x) \/ Arm(x) \/ Degrade(x), ~unsettled'
  PROVE  Staged'
<1>0. Stage(x)
  BY DEF Staged
<1>1. CASE Align(x)
  <2>1. /\ Switching(x) /\ active' = policy /\ UNCHANGED <<policy, left, rules>>
        /\ Within({active, policy}) /\ Armed
    BY <1>0, <1>1 DEF Align, Switching, Stage
  <2>2. CASE policy = active
    <3>1. actor'[x] = Idle /\ (\A y \in Actor : y # x => ~Switching(y)')
      BY <1>1, <2>1, <2>2, Alone DEF Align
    <3>2. active' = policy' /\ Within({policy})' /\ Armed'
      BY <2>1, <2>2 DEF Within, Armed
    <3>3. ~Switching(x)'
      BY <3>1 DEF Switching, Idle
    <3> QED
      BY <3>1, <3>2, <3>3, StagedAlone, StageElsewhere
  <2>3. CASE policy # active
    <3> DEFINE do == [at |-> "clear", prev |-> active, next |-> policy]
    <3>1. /\ do \in Doing /\ Goto(x, do)
          /\ do.at = "clear" /\ do.prev = active /\ do.next = policy
      BY <1>1, <2>3 DEF Align, Doing, TypeOK
    <3> HIDE DEF do
    <3>2. actor'[x] = do /\ (\A y \in Actor : y # x => ~Switching(y)')
      BY <2>1, <3>1, Alone
    <3>3. PICK q : q = active
      OBVIOUS
    <3>4. Within({q, policy})'
      BY <2>1, <3>3 DEF Within
    <3>5. actor'[x].at = "clear" /\ actor'[x].prev = q /\ actor'[x].next = policy'
      BY <2>1, <3>1, <3>2, <3>3
    <3>6. Stage(x)' /\ Switching(x)'
      BY <2>1, <3>4, <3>5 DEF Stage, Switching
    <3> QED
      BY <3>2, <3>6, StagedAlone
  <2> QED
    BY <2>2, <2>3
<1>2. CASE Clear(x)
  <2> DEFINE was == actor[x].prev
  <2>1. /\ Switching(x) /\ UNCHANGED <<policy, active>>
        /\ active = policy /\ actor[x].next = policy
        /\ Within({was, policy})
    BY <1>0, <1>2 DEF Clear, Switching, Stage
  <2>2. /\ was = "dynamic-ban" => \A a \in Addr : left'[a] = Gone
        /\ was # "dynamic-ban" => left' = left
    BY <1>2 DEF Clear, Clears
  <2>3. /\ was = "os-link" => \A n \in RuleName : rules'[n] = 0
        /\ was # "os-link" => rules' = rules
    <3>1. PICK kept \in SUBSET RuleName :
            IF was = "os-link"
              THEN rules' = Kept(kept) /\ unsettled' = (unsettled \/ FailedFor(kept))
              ELSE UNCHANGED <<rules, unsettled>>
      BY <1>2 DEF Clear, Clears
    <3> QED
      BY <3>1, KeptType
  <2> HIDE DEF was
  <2>4. Within({policy})'
    BY <2>1, <2>2, <2>3 DEF Within
  <2>5. CASE policy = "os-link"
    <3> DEFINE do == [at |-> "arm"]
    <3>1. do \in Doing /\ do.at = "arm" /\ Goto(x, do)
      BY <1>2, <2>1, <2>5 DEF Clear, Doing
    <3> HIDE DEF do
    <3>2. actor'[x] = do /\ (\A y \in Actor : y # x => ~Switching(y)')
      BY <2>1, <3>1, Alone
    <3>3. Stage(x)' /\ Switching(x)'
      BY <2>1, <2>4, <2>5, <3>1, <3>2 DEF Stage, Switching
    <3> QED
      BY <3>2, <3>3, StagedAlone
  <2>6. CASE policy # "os-link"
    <3>1. Goto(x, Idle)
      BY <1>2, <2>1, <2>6 DEF Clear
    <3>2. actor'[x] = Idle /\ (\A y \in Actor : y # x => ~Switching(y)')
      BY <2>1, <3>1, Alone
    <3>3. ~Switching(x)'
      BY <3>2 DEF Switching, Idle
    <3>4. active' = policy' /\ Armed'
      BY <2>1, <2>6 DEF Armed
    <3> QED
      BY <2>4, <3>2, <3>3, <3>4, StagedAlone, StageElsewhere
  <2> QED
    BY <2>5, <2>6
<1>3. CASE Arm(x)
  <2>1. /\ Switching(x) /\ UNCHANGED <<policy, active, left>>
        /\ active = policy /\ policy = "os-link" /\ Within({policy})
    BY <1>0, <1>3 DEF Arm, Switching, Stage
  <2>2. PICK kept \in SUBSET RuleName :
          /\ unsettled' = (unsettled \/ FailedFor(kept))
          /\ \/ /\ rules' = [Kept(kept) EXCEPT ![PortRule] = @ + 1]
                /\ Goto(x, Idle)
             \/ /\ rules' = Kept(kept)
                /\ Goto(x, [at |-> "degrade"])
    BY <1>3 DEF Arm
  <2>3. \A n \in RuleName : Kept(kept)[n] = 0
    BY <2>2, KeptType
  <2>4. CASE rules' = [Kept(kept) EXCEPT ![PortRule] = @ + 1] /\ Goto(x, Idle)
    <3>1. actor'[x] = Idle /\ (\A y \in Actor : y # x => ~Switching(y)')
      BY <2>1, <2>4, Alone
    <3>2. ~Switching(x)'
      BY <3>1 DEF Switching, Idle
    <3>3. rules'[PortRule] = 1
      BY <2>3, <2>4, KeptType DEF RuleName
    <3>4. active' = policy' /\ Within({policy})' /\ Armed'
      BY <2>1, <3>3 DEF Within, Armed
    <3> QED
      BY <3>1, <3>2, <3>4, StagedAlone, StageElsewhere
  <2>5. CASE rules' = Kept(kept) /\ Goto(x, [at |-> "degrade"])
    <3> DEFINE do == [at |-> "degrade"]
    <3>1. do \in Doing /\ do.at = "degrade" /\ Goto(x, do)
      BY <2>5 DEF Doing
    <3> HIDE DEF do
    <3>2. actor'[x] = do /\ (\A y \in Actor : y # x => ~Switching(y)')
      BY <2>1, <3>1, Alone
    <3>3. Within({})'
      BY <2>1, <2>3, <2>5 DEF Within
    <3>4. Stage(x)' /\ Switching(x)'
      BY <2>1, <3>1, <3>2, <3>3 DEF Stage, Switching
    <3> QED
      BY <3>2, <3>4, StagedAlone
  <2> QED
    BY <2>2, <2>4, <2>5
<1>4. CASE Degrade(x)
  <2> DEFINE do == [at |-> "yield"]
  <2>1. do \in Doing /\ do.at = "yield" /\ Goto(x, do)
    BY <1>4 DEF Degrade, Doing
  <2>2. /\ Switching(x) /\ UNCHANGED <<policy, left, rules>> /\ active' = "passive"
        /\ policy = "os-link" /\ Within({})
    BY <1>0, <1>4 DEF Degrade, Switching, Stage
  <2> HIDE DEF do
  <2>3. actor'[x] = do /\ (\A y \in Actor : y # x => ~Switching(y)')
    BY <2>1, <2>2, Alone
  <2>4. Within({})'
    BY <2>2 DEF Within
  <2>5. Stage(x)' /\ Switching(x)'
    BY <2>1, <2>2, <2>3, <2>4 DEF Stage, Switching
  <2> QED
    BY <2>3, <2>5, StagedAlone
<1> QED
  BY <1>1, <1>2, <1>3, <1>4

LEMMA InitStaged ==
  ASSUME Init
  PROVE  Orderly /\ Staged
<1>1. \A x \in Actor : ~Switching(x) /\ actor[x].at = "idle"
  BY DEF Init, Switching, Idle
<1>2. active = policy /\ Within({policy}) /\ Armed
  BY DEF Init, Within, Armed, BootRules, RuleName
<1> QED
  BY <1>1, <1>2, StageElsewhere DEF Orderly, Staged, AtRest

LEMMA RestartStaged ==
  ASSUME Restart
  PROVE  Orderly' /\ Staged'
<1>1. \A x \in Actor : ~Switching(x)' /\ actor'[x].at = "idle"
  BY DEF Restart, Switching, Idle
<1>2. active' = policy' /\ Within({policy})' /\ Armed'
  BY DEF Restart, Within, Armed, BootRules, RuleName
<1> QED
  BY <1>1, <1>2, StageElsewhere DEF Orderly, Staged, AtRest

LEMMA StagedStep ==
  ASSUME TypeOK, ~raced => Orderly, ~raced /\ ~unsettled => Staged, [Next]_vars,
         ~raced', ~unsettled'
  PROVE  Staged'
<1>1. CASE Restart
  BY <1>1, RestartStaged
<1>2. ASSUME NEW h \in Handler, Request(h) \/ Unbanning(h)
      PROVE  Staged'
  <2>1. raced => raced'
    BY <1>2 DEF Request, Unbanning, Arrive, Answer, Penalise, ReadPolicy,
         InsertEntry, InsertRule, Double, Extend, Unban, Reap, Unrule
  <2>2. unsettled => unsettled'
    BY <1>2 DEF Request, Unbanning, Arrive, Answer, Penalise, ReadPolicy,
         InsertEntry, InsertRule, Double, Extend, Unban, Reap, Unrule
  <2> QED
    BY <1>2, <2>1, <2>2, StagedRequest
<1>3. ASSUME NEW x \in Actor, NEW p \in Policy,
             Post(x, p) \/ Load(x, p) \/ Adopt(x) \/ Yield(x)
      PROVE  Staged'
  <2>1. raced => raced'
    BY <1>3 DEF Post, Load, Adopt, Yield, SetPolicy
  <2>2. unsettled => unsettled'
    <3>1. CASE Adopt(x)
      BY <3>1, Zenon DEF Adopt
    <3>2. CASE ~Adopt(x)
      BY <1>3, <3>2 DEF Post, Load, Yield
    <3> QED
      BY <3>1, <3>2
  <2> QED
    BY <1>3, <2>1, <2>2, StagedSwitch
<1>4. ASSUME NEW x, NEW p, ConfigSet(x, p)
      PROVE  Staged'
  BY <1>4 DEF ConfigSet
<1>5. ASSUME NEW x \in Actor, Align(x) \/ Clear(x) \/ Arm(x) \/ Degrade(x)
      PROVE  Staged'
  <2>1. raced => raced'
    BY <1>5 DEF Align, Clear, Arm, Degrade
  <2>2. unsettled => unsettled'
    BY <1>5 DEF Align, Clear, Arm, Degrade
  <2> QED
    BY <1>5, <2>1, <2>2, StagedReconcile
<1>6. CASE Tick
  <2>1. /\ UNCHANGED <<policy, active, rules, actor, raced, unsettled>>
        /\ \A a \in Addr : left'[a] = Gone \/ left[a] # Gone
    BY <1>6, Numbers DEF Tick, TypeOK
  <2>2. Staged
    BY <2>1
  <2>3. ASSUME NEW S, Within(S)
        PROVE  Within(S)'
    <3>1. ASSUME NEW a \in Addr, left[a] = Gone
          PROVE  left'[a] = Gone
      BY <1>6, <3>1, Numbers DEF Tick
    <3> QED
      BY <2>1, <2>3, <3>1 DEF Within
  <2>4. \A x \in Actor : Stage(x)'
    <3> SUFFICES ASSUME NEW x \in Actor
                 PROVE  Stage(x)'
      OBVIOUS
    <3>1. Stage(x)
      BY <2>2 DEF Staged
    <3>2. Armed => Armed'
      BY <2>1 DEF Armed
    <3>3. PICK d : d = actor[x]
      OBVIOUS
    <3>4. /\ Within({active}) => Within({active})'
          /\ Within({active, policy}) => Within({active, policy})'
          /\ Within({d.prev, policy}) => Within({d.prev, policy})'
          /\ Within({policy}) => Within({policy})'
          /\ Within({}) => Within({})'
      BY <2>1, <2>3
    <3> QED
      BY <2>1, <3>1, <3>2, <3>3, <3>4 DEF Stage
  <2>5. AtRest' => active' = policy' /\ Within({policy})' /\ Armed'
    BY <2>1, <2>2, <2>3 DEF Staged, AtRest, Switching, Armed
  <2> QED
    BY <2>4, <2>5 DEF Staged
<1>7. CASE UNCHANGED vars
  BY <1>7 DEF vars, Staged, Stage, AtRest, Switching, Within, Armed
<1>8. "passive" \in Policy /\ Handler \subseteq Actor
  BY DEF Policy, Actor
<1>9. ASSUME NEW x \in Actor, Reconcile(x)
      PROVE  Staged'
  BY <1>3, <1>5, <1>8, <1>9 DEF Reconcile
<1> QED
  BY <1>1, <1>2, <1>3, <1>4, <1>6, <1>7, <1>8, <1>9 DEF Next

-----------------------------------------------------------------------------
(* The theorems. *)

LEMMA InitIInv ==
  ASSUME Init
  PROVE  IInv
  BY InitType, InitBound, InitStaged DEF IInv

LEMMA StepIInv ==
  ASSUME IInv, [Next]_vars
  PROVE  IInv'
  BY TypeStep, BoundStep, OrderlyStep, StagedStep DEF IInv

LEMMA Inductive ==
  Spec => []IInv
<1>1. Init => IInv
  BY InitIInv
<1>2. IInv /\ [Next]_vars => IInv'
  BY StepIInv
<1> QED
  BY <1>1, <1>2, PTL DEF Spec

\* The state of bans, rules and switches keeps its types, for any number of
\* handlers and watchers (firewalldriver.go).
THEOREM TypeCorrect ==
  Spec => []TypeOK
<1>1. IInv => TypeOK
  BY DEF IInv
<1> QED
  BY <1>1, Inductive, PTL

\* However many penalties firewallBanIPExtra was called for at once, no ban
\* is longer than one banDuration for each handler and one more.
THEOREM Bounded ==
  Spec => []BanBounded
<1>1. IInv => BanBounded
  BY DEF IInv
<1> QED
  BY <1>1, Inductive, PTL

\* firewallReconcile leaves the effects of the configured policy only, for
\* any number of handlers and watchers, unless a switch met a ban or another
\* switch half done, was not aligned, or a firewall command failed.
THEOREM OwnEffects ==
  Spec => []OnlyOwnEffects
<1>1. ASSUME IInv
      PROVE  OnlyOwnEffects
  <2>1. ASSUME ~raced, ~unsettled, AtRest
        PROVE  active = policy /\ Within({policy}) /\ Armed
    BY <1>1, <2>1 DEF IInv, Staged
  <2> QED
    BY <2>1 DEF OnlyOwnEffects, Within, Armed
<1>2. IInv => OnlyOwnEffects
  BY <1>1
<1> QED
  BY <1>2, Inductive, PTL

-----------------------------------------------------------------------------
(* Chat routing. *)

\* What a request has on its way: left to the gateway, it stays on the machine, and its
\* target has been switched on since it arrived.
ChatFair(r) ==
  /\ r.plain => ~r.needs /\ r.model \in {"auto", "other"}
  /\ r.plain /\ r.at \in {"check", "start", "call"} => r.to \in Chat!Local
  /\ r.at \in {"start", "call"} => Chat!Switch(r.to) \subseteq r.seen

\* The invariant of chat routing.
ChatHolds ==
  /\ g1 \subseteq Chat!Module /\ g2 \subseteq Chat!Local
  /\ g3 \in [Chats.Caller -> Chat!Request \cup {Chat!Idle}]
  /\ \A c \in Chats.Caller : g3[c] # Chat!Idle => g1 \subseteq g3[c].seen /\ ChatFair(g3[c])

\* It holds at the start, ...
LEMMA ChatStarts == Chat!Init => ChatHolds
BY DEF Chat!Init, ChatHolds

\* ... it means that calls go where they may, ...
LEMMA ChatHoldsGoes == ChatHolds => Chat!GoesWhereItMay
<1> SUFFICES ASSUME ChatHolds, NEW c \in Chats.Caller, g3[c].at = "call"
             PROVE  /\ g3[c].to \in Chat!Cloud => "cloudModels" \in g3[c].seen
                    /\ g3[c].to \in Chat!Local => "localModels" \in g3[c].seen
                    /\ g3[c].plain => g3[c].to \in Chat!Local
  BY DEF Chat!GoesWhereItMay
<1>1. ChatFair(g3[c])
  BY DEF ChatHolds, Chat!Idle
<1> QED BY <1>1 DEF ChatFair, Chat!Switch, Chat!Cloud, Chat!Local

\* ... and that the types are kept.
LEMMA ChatHoldsTypes == ChatHolds => Chat!TypeOK
BY DEF ChatHolds, Chat!TypeOK

\* A caller that is on its way.
LEMMA ChatDoing ==
  ASSUME ChatHolds, NEW c \in Chats.Caller, g3[c].at # "idle"
  PROVE  g3[c] \in Chat!Request /\ g1 \subseteq g3[c].seen /\ ChatFair(g3[c])
BY DEF ChatHolds, Chat!Idle

\* A caller goes on, the switches staying.
LEMMA ChatGoes ==
  ASSUME ChatHolds, NEW c \in Chats.Caller, NEW r \in Chat!Request \cup {Chat!Idle},
         r # Chat!Idle => g1 \subseteq r.seen /\ ChatFair(r),
         g3' = [g3 EXCEPT ![c] = r], g1' = g1, g2' \subseteq Chat!Local
  PROVE  ChatHolds'
<1>1. /\ g3' \in [Chats.Caller -> Chat!Request \cup {Chat!Idle}]
      /\ g3'[c] = r /\ \A d \in Chats.Caller : d # c => g3'[d] = g3[d]
  BY DEF ChatHolds
<1>2. ASSUME NEW d \in Chats.Caller, g3'[d] # Chat!Idle
      PROVE  g1' \subseteq g3'[d].seen /\ ChatFair(g3'[d])
  BY <1>1, <1>2 DEF ChatHolds
<1> QED BY <1>1, <1>2 DEF ChatHolds, ChatFair

\* A request arrives.
LEMMA ChatBegins ==
  ASSUME ChatHolds, NEW c \in Chats.Caller, NEW place \in {"needs", "smart", "route"},
         NEW m \in Chat!Model, NEW n \in BOOLEAN, NEW s \in BOOLEAN, NEW q \in Chats.Preference,
         NEW k \in BOOLEAN, Chat!Begin(c, place, m, n, s, q, k)
  PROVE  ChatHolds'
<1> DEFINE r == [at |-> place, model |-> m, needs |-> n, smart |-> s, pref |-> q,
                 to |-> Chat!Nowhere, seen |-> g1, plain |-> m = "auto" /\ ~n, screened |-> k]
<1>1. r \in Chat!Request
  BY DEF Chat!Request, ChatHolds
<1>2. g1 \subseteq r.seen /\ ChatFair(r)
  BY DEF ChatFair
<1>3. g3' = [g3 EXCEPT ![c] = r] /\ g1' = g1 /\ g2' = g2
  BY Zenon DEF Chat!Begin, Chat!Goto
<1> HIDE DEF r
<1>4. g2' \subseteq Chat!Local
  BY <1>3 DEF ChatHolds
<1> QED BY <1>1, <1>2, <1>3, <1>4, ChatGoes

\* A request that gives up, or is done.
LEMMA ChatEnds ==
  ASSUME ChatHolds, NEW c \in Chats.Caller, Chat!Goto(c, Chat!Idle)
  PROVE  ChatHolds'
<1>1. g3' = [g3 EXCEPT ![c] = Chat!Idle] /\ g1' = g1 /\ g2' = g2
  BY DEF Chat!Goto
<1>2. g2' \subseteq Chat!Local
  BY <1>1 DEF ChatHolds
<1> QED BY <1>1, <1>2, ChatGoes

\* What a way to a backend can be.
LEMMA ChatLeads ==
  ASSUME ChatHolds, NEW c \in Chats.Caller, g3[c].at = "route",
         NEW t \in Chat!LeadsTo(c), t # Chat!Nowhere
  PROVE  t \in Chat!Target /\ (g3[c].plain => t \in Chat!Local)
<1>1. g3[c].model \in Chat!Model /\ (g3[c].plain => g3[c].model \in {"auto", "other"})
  BY ChatDoing DEF Chat!Request, ChatFair
<1>2. /\ Chat!Automatic \subseteq Chat!Local \cup {Chat!Nowhere}
      /\ Chat!Fallback(c) \subseteq Chat!Local \cup {Chat!Nowhere}
  BY DEF Chat!Automatic, Chat!Fallback, Chat!Local
<1> QED
  BY <1>1, <1>2 DEF Chat!LeadsTo, Chat!Model, Chat!Prefixed, Chat!Provided, Chat!Target,
     Chat!Cloud, Chat!Local

\* The stages keep the invariant.
LEMMA ChatReroutes ==
  ASSUME ChatHolds, NEW c \in Chats.Caller, NEW m \in Chat!Model, Chat!Reroute(c, m)
  PROVE  ChatHolds'
<1> DEFINE r == [g3[c] EXCEPT !.model = m, !.needs = FALSE,
                              !.at = IF g3[c].smart THEN "smart" ELSE "route"]
<1>1. /\ g3[c].at = "needs" /\ g3' = [g3 EXCEPT ![c] = r] /\ g1' = g1 /\ g2' = g2
      /\ m # g3[c].model => g3[c].needs
  BY Zenon DEF Chat!Reroute, Chat!Goto
<1>2. g3[c] \in Chat!Request /\ g1 \subseteq g3[c].seen /\ ChatFair(g3[c])
  BY <1>1, ChatDoing
<1>3. r \in Chat!Request /\ r.seen = g3[c].seen /\ r.plain = g3[c].plain /\ r.needs = FALSE
      /\ r.model = m /\ r.at \in {"smart", "route"}
  BY <1>2 DEF Chat!Request
<1>4. g1 \subseteq r.seen /\ ChatFair(r)
  BY <1>1, <1>2, <1>3 DEF ChatFair
<1> HIDE DEF r
<1>5. g2' \subseteq Chat!Local
  BY <1>1 DEF ChatHolds
<1> QED BY <1>1, <1>3, <1>4, <1>5, ChatGoes

\* The smart router has chosen, or has not.
LEMMA ChatRouted ==
  ASSUME ChatHolds, NEW c \in Chats.Caller, Chat!Static(c) \/ Chat!Pick(c)
  PROVE  ChatHolds'
<1>1. PICK m \in {g3[c].model, "other"} :
        /\ g3[c].at = "smart" /\ Chat!Goto(c, Chat!Routed(c, m))
        /\ m = "other" => m = g3[c].model \/ g3[c].model = "auto"
  BY DEF Chat!Static, Chat!Pick
<1> DEFINE r == [g3[c] EXCEPT !.at = "route", !.model = m, !.smart = FALSE, !.pref = {}]
<1>2. g3' = [g3 EXCEPT ![c] = r] /\ g1' = g1 /\ g2' = g2
  BY <1>1, Zenon DEF Chat!Goto, Chat!Routed
<1>3. g3[c] \in Chat!Request /\ g1 \subseteq g3[c].seen /\ ChatFair(g3[c])
  BY <1>1, ChatDoing
<1>4. /\ r \in Chat!Request /\ r.seen = g3[c].seen /\ r.plain = g3[c].plain
      /\ r.needs = g3[c].needs /\ r.model = m /\ r.at = "route"
  BY <1>3, GuardsAssumption DEF Chat!Request, Chat!Model, Chat!PreferenceAssumption
<1>5. g1 \subseteq r.seen /\ ChatFair(r)
  BY <1>1, <1>3, <1>4 DEF ChatFair
<1> HIDE DEF r
<1>6. g2' \subseteq Chat!Local
  BY <1>2 DEF ChatHolds
<1> QED BY <1>2, <1>4, <1>5, <1>6, ChatGoes

\* A model's name leads to a backend, ...
LEMMA ChatLed ==
  ASSUME ChatHolds, NEW c \in Chats.Caller, Chat!Lead(c)
  PROVE  ChatHolds'
<1>1. PICK t \in Chat!LeadsTo(c) :
        IF t = Chat!Nowhere THEN Chat!Goto(c, Chat!Idle)
        ELSE Chat!Goto(c, [g3[c] EXCEPT !.at = "check", !.to = t])
  BY DEF Chat!Lead, Chat!Fail
<1>2. CASE t = Chat!Nowhere
  BY <1>1, <1>2, ChatEnds
<1>3. CASE t # Chat!Nowhere
  <2> DEFINE r == [g3[c] EXCEPT !.at = "check", !.to = t]
  <2>1. /\ g3[c].at = "route" /\ t \in Chat!Target /\ (g3[c].plain => t \in Chat!Local)
    BY <1>3, ChatLeads DEF Chat!Lead
  <2>2. g3' = [g3 EXCEPT ![c] = r] /\ g1' = g1 /\ g2' = g2
    BY <1>1, <1>3, Zenon DEF Chat!Goto
  <2>3. g3[c] \in Chat!Request /\ g1 \subseteq g3[c].seen /\ ChatFair(g3[c])
    BY <2>1, ChatDoing
  <2>4. /\ r \in Chat!Request /\ r.seen = g3[c].seen /\ r.plain = g3[c].plain
        /\ r.needs = g3[c].needs /\ r.model = g3[c].model /\ r.at = "check" /\ r.to = t
    BY <2>1, <2>3 DEF Chat!Request
  <2>5. g1 \subseteq r.seen /\ ChatFair(r)
    BY <2>1, <2>3, <2>4 DEF ChatFair
  <2> HIDE DEF r
  <2>6. g2' \subseteq Chat!Local
    BY <2>2 DEF ChatHolds
  <2> QED BY <2>2, <2>4, <2>5, <2>6, ChatGoes
<1> QED BY <1>2, <1>3

\* ... which has to be switched on, ...
LEMMA ChatChecks ==
  ASSUME ChatHolds, NEW c \in Chats.Caller, Chat!Check(c)
  PROVE  ChatHolds'
<1>1. CASE Chat!Goto(c, Chat!Idle)
  BY <1>1, ChatEnds
<1>2. CASE /\ Chat!Switch(g3[c].to) \subseteq g1
           /\ Chat!Goto(c, [g3[c] EXCEPT !.at = IF g3[c].to = "llama" THEN "start" ELSE "call"])
  <2> DEFINE r == [g3[c] EXCEPT !.at = IF g3[c].to = "llama" THEN "start" ELSE "call"]
  <2>1. g3[c].at = "check"
    BY DEF Chat!Check
  <2>2. g3' = [g3 EXCEPT ![c] = r] /\ g1' = g1 /\ g2' = g2
    BY <1>2, Zenon DEF Chat!Goto
  <2>3. g3[c] \in Chat!Request /\ g1 \subseteq g3[c].seen /\ ChatFair(g3[c])
    BY <2>1, ChatDoing
  <2>4. /\ r \in Chat!Request /\ r.seen = g3[c].seen /\ r.plain = g3[c].plain
        /\ r.needs = g3[c].needs /\ r.model = g3[c].model /\ r.at \in {"start", "call"}
        /\ r.to = g3[c].to
    BY <2>1, <2>3 DEF Chat!Request
  <2>5. g1 \subseteq r.seen /\ ChatFair(r)
    BY <1>2, <2>1, <2>3, <2>4 DEF ChatFair
  <2> HIDE DEF r
  <2>6. g2' \subseteq Chat!Local
    BY <2>2 DEF ChatHolds
  <2> QED BY <2>2, <2>4, <2>5, <2>6, ChatGoes
<1> QED BY <1>1, <1>2 DEF Chat!Check, Chat!Fail

\* ... and to run.
LEMMA ChatStartsEngine ==
  ASSUME ChatHolds, NEW c \in Chats.Caller, Chat!Start(c)
  PROVE  ChatHolds'
<1>1. CASE Chat!Goto(c, Chat!Idle)
  BY <1>1, ChatEnds
<1>2. CASE /\ g3' = [g3 EXCEPT ![c].at = "call"] /\ g2' = g2 \cup {"llama"} /\ g1' = g1
  <2> DEFINE r == [g3[c] EXCEPT !.at = "call"]
  <2>1. g3[c].at = "start"
    BY DEF Chat!Start
  <2>2. g3' = [g3 EXCEPT ![c] = r]
    BY <1>2, Zenon
  <2>3. g3[c] \in Chat!Request /\ g1 \subseteq g3[c].seen /\ ChatFair(g3[c])
    BY <2>1, ChatDoing
  <2>4. /\ r \in Chat!Request /\ r.seen = g3[c].seen /\ r.plain = g3[c].plain
        /\ r.needs = g3[c].needs /\ r.model = g3[c].model /\ r.at = "call" /\ r.to = g3[c].to
    BY <2>1, <2>3 DEF Chat!Request
  <2>5. g1 \subseteq r.seen /\ ChatFair(r)
    BY <2>1, <2>3, <2>4 DEF ChatFair
  <2> HIDE DEF r
  <2>6. g2' \subseteq Chat!Local
    BY <1>2 DEF ChatHolds, Chat!Local
  <2> QED BY <1>2, <2>2, <2>4, <2>5, <2>6, ChatGoes
<1> QED BY <1>1, <1>2 DEF Chat!Start, Chat!Fail

\* Whoever is on its way sees what is switched on.
LEMMA ChatSees ==
  ASSUME ChatHolds, NEW m \in Chat!Module, Chat!Change(m)
  PROVE  ChatHolds'
<1> DEFINE s(c) == [g3[c] EXCEPT !.seen = g3[c].seen \cup g1']
<1>1. /\ g1' \subseteq Chat!Module /\ g2' \subseteq Chat!Local
  BY DEF ChatHolds, Chat!Change
<1>2. g3' = [c \in Chats.Caller |-> IF g3[c] = Chat!Idle THEN Chat!Idle ELSE s(c)]
  BY DEF Chat!Change
<1>3. ASSUME NEW c \in Chats.Caller, g3[c] # Chat!Idle
      PROVE  s(c) \in Chat!Request /\ g1' \subseteq s(c).seen /\ ChatFair(s(c))
  <2>1. g3[c] \in Chat!Request /\ ChatFair(g3[c])
    BY <1>3 DEF ChatHolds
  <2>2. /\ s(c) \in Chat!Request /\ s(c).seen = g3[c].seen \cup g1' /\ s(c).plain = g3[c].plain
        /\ s(c).needs = g3[c].needs /\ s(c).model = g3[c].model /\ s(c).at = g3[c].at
        /\ s(c).to = g3[c].to
    BY <1>1, <2>1 DEF Chat!Request
  <2> HIDE DEF s
  <2>3. ChatFair(s(c))
    BY <2>1, <2>2 DEF ChatFair
  <2> QED BY <2>2, <2>3
<1> HIDE DEF s
<1>4. g3' \in [Chats.Caller -> Chat!Request \cup {Chat!Idle}]
  BY <1>2, <1>3
<1>5. ASSUME NEW c \in Chats.Caller, g3'[c] # Chat!Idle
      PROVE  g1' \subseteq g3'[c].seen /\ ChatFair(g3'[c])
  BY <1>2, <1>3, <1>5
<1> QED BY <1>1, <1>4, <1>5 DEF ChatHolds, ChatFair

\* ... and so does every step.
LEMMA ChatKeeps == ChatHolds /\ Chat!Next => ChatHolds'
<1> SUFFICES ASSUME ChatHolds, Chat!Next PROVE ChatHolds'
  OBVIOUS
<1>1. ASSUME NEW c \in Chats.Caller, Chat!Arrive(c) PROVE ChatHolds'
  <2>1. {} \in Chats.Preference
    BY GuardsAssumption DEF Chat!PreferenceAssumption
  <2> QED BY <1>1, <2>1, ChatBegins DEF Chat!Arrive, Chat!Chat, Chat!V1, Chat!GuardedChat, Chat!Direct
<1>2. ASSUME NEW c \in Chats.Caller, Chat!Route(c) PROVE ChatHolds'
  <2>1. CASE Chat!Finish(c)
    BY <2>1, ChatEnds DEF Chat!Finish
  <2> QED BY <1>2, <2>1, ChatReroutes, ChatRouted, ChatLed, ChatChecks, ChatStartsEngine DEF Chat!Route
<1>3. ASSUME NEW b \in Chat!Local, Chat!ComeAndGo(b) PROVE ChatHolds'
  BY <1>3 DEF Chat!ComeAndGo, ChatHolds, ChatFair
<1> QED BY <1>1, <1>2, <1>3, ChatSees DEF Chat!Next

-----------------------------------------------------------------------------
(* The semantic guard. *)

\* What the semantic guard assumes of its constants.
LEMMA ScreenAssumed == Screen!TextAssumption /\ Screen!BoundAssumption
BY GuardsAssumption

\* The texts that the cache knows.
ScreenHeld(c) == {t \in Screen!Gray : c[t] # Screen!Absent}

\* The types; a request that is put to the engine has a gray text.
ScreenTypes ==
  /\ g1 \in BOOLEAN /\ g2 \in BOOLEAN
  /\ g3 \in [Screen!Gray -> Screen!Entry \cup {Screen!Absent}]
  /\ g4 \in [Screens.Addr -> 0..(Screens.PerMin * Screens.Minute)]
  /\ g5 \in [Screens.Handler -> Screen!Asking \cup {Screen!Idle}]
  /\ \A h \in Screens.Handler : g5[h] # Screen!Idle => g5[h].text \in Screen!Gray
  /\ g7 \in [Screens.Text -> 0..Screens.Life]

\* The cache has no more entries than it may.
ScreenBounded ==
  IsFiniteSet(ScreenHeld(g3)) /\ Cardinality(ScreenHeld(g3)) <= Screens.MaxItems

\* A cached answer that allows a text is no fresher than the engine's last one.
ScreenFresh == \A t \in Screen!Gray : g3[t].verdict = "allow" => g3[t].left <= g7[t]

\* What was decided last.
ScreenOut ==
  /\ g6 \in [text : Screens.Text, verdict : Screen!Verdict, why : Screen!Reason] \cup {Screen!Silent}
  /\ Screen!NeverLoosened

\* The invariant of the semantic guard.
ScreenHolds == ScreenTypes /\ ScreenBounded /\ ScreenFresh /\ ScreenOut

\* The module's own name of the number of elements.
LEMMA ScreenCardinality == \A S : Screen!Cardinality(S) = Cardinality(S)
BY Zenon DEF Screen!Cardinality, Cardinality

\* It holds at the start, ...
LEMMA ScreenStarts == Screen!Init => ScreenHolds
<1> SUFFICES ASSUME Screen!Init PROVE ScreenHolds
  OBVIOUS
<1> USE ScreenAssumed DEF Screen!Init, Screen!BoundAssumption
<1>1. Screens.PerMin * Screens.Minute \in Nat
  OBVIOUS
<1>2. ScreenTypes
  BY <1>1 DEF ScreenTypes, Screen!Idle
<1>3. ScreenHeld(g3) = {}
  BY DEF ScreenHeld
<1>4. ScreenBounded
  <2>1. IsFiniteSet({}) /\ Cardinality({}) = 0
    BY FS_EmptySet, Zenon
  <2>2. IsFiniteSet(ScreenHeld(g3)) /\ Cardinality(ScreenHeld(g3)) = 0
    BY ONLY <1>3, <2>1
  <2>3. Screens.MaxItems \in Nat
    OBVIOUS
  <2> QED BY ONLY <2>2, <2>3 DEF ScreenBounded
<1>5. ScreenFresh
  BY DEF ScreenFresh, Screen!Absent
<1>6. ScreenOut
  BY DEF ScreenOut, Screen!NeverLoosened
<1> QED BY <1>2, <1>4, <1>5, <1>6 DEF ScreenHolds

\* ... it means that nothing is loosened, ...
LEMMA ScreenHoldsStrict == ScreenHolds => Screen!NeverLoosened
BY DEF ScreenHolds, ScreenOut

\* ... and that the types are kept.
LEMMA ScreenHoldsTypes == ScreenHolds => Screen!TypeOK
<1> SUFFICES ASSUME ScreenHolds PROVE Screen!TypeOK
  OBVIOUS
<1>1. Screen!Cardinality({t \in Screen!Gray : g3[t] # Screen!Absent}) <= Screens.MaxItems
  BY ScreenCardinality DEF ScreenHolds, ScreenBounded, ScreenHeld
<1> QED BY <1>1 DEF ScreenHolds, ScreenTypes, ScreenOut, Screen!TypeOK

\* A decision about a text that is not refused by a rule, and that is switched off, passed
\* by a rule, blocked, or fresh.
LEMMA ScreenDecides ==
  ASSUME NEW h \in Screens.Handler, NEW t \in Screens.Text, NEW v \in Screen!Verdict,
         NEW why \in Screen!Reason, Screen!Decide(h, t, v, why),
         v = "allow" => /\ t \notin Screens.Denied
                        /\ t \in Screen!Gray /\ why # "off" => g7'[t] > 0
  PROVE  ScreenOut'
BY DEF Screen!Decide, ScreenOut, Screen!NeverLoosened, Screen!Gray, Screen!Verdict, Screen!Reason,
   Screen!Silent

\* No decision.
LEMMA ScreenSilent == g6' = Screen!Silent => ScreenOut'
BY DEF ScreenOut, Screen!NeverLoosened, Screen!Silent

\* A handler goes on.
LEMMA ScreenGoes ==
  ASSUME ScreenTypes, NEW h \in Screens.Handler, NEW r \in Screen!Asking \cup {Screen!Idle},
         r # Screen!Idle => r.text \in Screen!Gray,
         g5' = [g5 EXCEPT ![h] = r]
  PROVE  /\ g5' \in [Screens.Handler -> Screen!Asking \cup {Screen!Idle}]
         /\ \A k \in Screens.Handler : g5'[k] # Screen!Idle => g5'[k].text \in Screen!Gray
<1>1. /\ g5' \in [Screens.Handler -> Screen!Asking \cup {Screen!Idle}]
      /\ g5'[h] = r /\ \A k \in Screens.Handler : k # h => g5'[k] = g5[k]
  BY DEF ScreenTypes
<1> QED BY <1>1 DEF ScreenTypes

\* What the rules say.
LEMMA ScreenStatic ==
  ASSUME NEW t \in Screens.Text
  PROVE  /\ Screen!Static(t) \in Screen!Verdict
         /\ Screen!Static(t) = "gray" <=> t \in Screen!Gray
         /\ Screen!Static(t) = "block" <=> t \in Screens.Denied
BY ScreenAssumed DEF Screen!Static, Screen!Gray, Screen!Verdict, Screen!TextAssumption

\* A request arrives.
LEMMA ScreenClassifies ==
  ASSUME ScreenHolds, NEW h \in Screens.Handler, NEW t \in Screens.Text,
         NEW a \in Screens.Addr \cup {Screens.Local}, Screen!Classify(h, t, a)
  PROVE  ScreenHolds'
<1>1. g1' = g1 /\ g2' = g2 /\ g3' = g3 /\ g4' = g4 /\ g7' = g7
  BY DEF Screen!Classify
<1>2. /\ g5' \in [Screens.Handler -> Screen!Asking \cup {Screen!Idle}]
      /\ \A k \in Screens.Handler : g5'[k] # Screen!Idle => g5'[k].text \in Screen!Gray
  <2>1. CASE g5' = [g5 EXCEPT ![h] = Screen!Idle]
    BY <2>1, ScreenGoes DEF ScreenHolds
  <2>2. CASE Screen!Miss(h, t, a)
    <3> DEFINE r == [at |-> "meter", text |-> t, addr |-> a, reach |-> g2]
    <3>1. r \in Screen!Asking /\ r.text \in Screen!Gray
      BY <2>2, ScreenStatic DEF Screen!Miss, Screen!Asking, ScreenHolds, ScreenTypes
    <3>2. g5' = [g5 EXCEPT ![h] = r]
      BY <2>2, Zenon DEF Screen!Miss, Screen!Goto
    <3> HIDE DEF r
    <3> QED BY <3>1, <3>2, ScreenGoes DEF ScreenHolds
  <2> QED
    BY <2>1, <2>2 DEF Screen!Classify, Screen!Off, Screen!Fixed, Screen!Cached, Screen!Decide,
       Screen!Goto
<1>3. ScreenOut'
  <2>1. CASE Screen!Off(h, t)
    BY <2>1, ScreenStatic, ScreenDecides DEF Screen!Off, Screen!Verdict, Screen!Reason
  <2>2. CASE Screen!Fixed(h, t)
    BY <2>2, ScreenStatic, ScreenDecides DEF Screen!Fixed, Screen!Verdict, Screen!Reason
  <2>3. CASE Screen!Cached(h, t)
    <3>1. /\ t \in Screen!Gray /\ g3[t] # Screen!Absent /\ g3[t].left > 0
          /\ Screen!Decide(h, t, g3[t].verdict, "cache")
      BY <2>3, ScreenStatic DEF Screen!Cached, Screen!Live
    <3>2. g3[t] \in Screen!Entry /\ g7[t] \in 0..Screens.Life
      BY <3>1 DEF ScreenHolds, ScreenTypes
    <3>3. g3[t].verdict \in Screen!Verdict /\ g3[t].left \in 0..Screens.Life
      BY <3>2 DEF Screen!Entry, Screen!Verdict
    <3>4. g3[t].verdict = "allow" => g7'[t] > 0
      BY <1>1, <3>1, <3>2, <3>3, ScreenAssumed
      DEF ScreenHolds, ScreenFresh, Screen!BoundAssumption
    <3>5. t \notin Screens.Denied
      BY <3>1 DEF Screen!Gray
    <3> QED BY <3>1, <3>3, <3>4, <3>5, ScreenDecides DEF Screen!Reason
  <2>4. CASE Screen!Miss(h, t, a)
    BY <2>4, ScreenSilent DEF Screen!Miss
  <2> QED BY <2>1, <2>2, <2>3, <2>4 DEF Screen!Classify
<1>4. ScreenTypes'
  BY <1>1, <1>2 DEF ScreenHolds, ScreenTypes, Screen!Gray, Screen!Entry, Screen!Absent,
     Screen!Asking, Screen!Idle
<1>5. ScreenBounded' /\ ScreenFresh'
  BY <1>1 DEF ScreenHolds, ScreenBounded, ScreenHeld, ScreenFresh, Screen!Gray, Screen!Absent
<1> QED BY <1>3, <1>4, <1>5 DEF ScreenHolds

\* The meter is charged, or has nothing left.
LEMMA ScreenMeters ==
  ASSUME ScreenHolds, NEW h \in Screens.Handler, Screen!Metered(h)
  PROVE  ScreenHolds'
<1> DEFINE a == g5[h].addr
<1> DEFINE open == a = Screens.Local \/ g4[a] >= Screens.Minute
<1>1. g1' = g1 /\ g2' = g2 /\ g3' = g3 /\ g7' = g7 /\ g5[h].at = "meter"
  BY DEF Screen!Metered
<1>2. g5[h] \in Screen!Asking /\ g5[h].text \in Screen!Gray
  BY <1>1 DEF ScreenHolds, ScreenTypes, Screen!Idle
<1>3. g4' \in [Screens.Addr -> 0..(Screens.PerMin * Screens.Minute)]
  <2> DEFINE N == Screens.PerMin * Screens.Minute
  <2>1. N \in Nat /\ Screens.Minute \in Nat /\ g4 \in [Screens.Addr -> 0..N]
    BY ScreenAssumed DEF ScreenHolds, ScreenTypes, Screen!BoundAssumption
  <2>2. a \in Screens.Addr \cup {Screens.Local}
    BY <1>2 DEF Screen!Asking
  <2>3. g4' = IF a # Screens.Local /\ open THEN [g4 EXCEPT ![a] = g4[a] - Screens.Minute] ELSE g4
    BY DEF Screen!Metered
  <2> HIDE DEF N, a
  <2>4. g4' \in [Screens.Addr -> 0..N]
    BY <2>1, <2>2, <2>3
  <2> QED BY <2>4 DEF N
<1>4. CASE open /\ g5[h].reach
  <2> DEFINE r == [g5[h] EXCEPT !.at = "engine"]
  <2>1. g5' = [g5 EXCEPT ![h] = r] /\ g6' = Screen!Silent
    BY <1>4, Zenon DEF Screen!Metered, Screen!Goto
  <2>2. r \in Screen!Asking /\ r.text \in Screen!Gray
    BY <1>2 DEF Screen!Asking
  <2> HIDE DEF r, open, a
  <2>3. /\ g5' \in [Screens.Handler -> Screen!Asking \cup {Screen!Idle}]
        /\ \A k \in Screens.Handler : g5'[k] # Screen!Idle => g5'[k].text \in Screen!Gray
    BY <2>1, <2>2, ScreenGoes DEF ScreenHolds
  <2>4. ScreenTypes'
    BY <1>1, <1>3, <2>3 DEF ScreenHolds, ScreenTypes, Screen!Gray, Screen!Entry, Screen!Absent,
       Screen!Asking, Screen!Idle
  <2>5. ScreenBounded' /\ ScreenFresh'
    BY <1>1 DEF ScreenHolds, ScreenBounded, ScreenHeld, ScreenFresh, Screen!Gray, Screen!Absent
  <2> QED BY <2>1, <2>4, <2>5, ScreenSilent DEF ScreenHolds
<1>5. CASE ~(open /\ g5[h].reach)
  <2>1. Screen!Refuse(h)
    BY <1>5 DEF Screen!Metered
  <2> HIDE DEF open, a
  <2>2. g5' = [g5 EXCEPT ![h] = Screen!Idle]
    BY <2>1 DEF Screen!Refuse, Screen!Decide, Screen!Goto
  <2>3. /\ g5' \in [Screens.Handler -> Screen!Asking \cup {Screen!Idle}]
        /\ \A k \in Screens.Handler : g5'[k] # Screen!Idle => g5'[k].text \in Screen!Gray
    BY <2>2, ScreenGoes DEF ScreenHolds
  <2>4. ScreenTypes'
    BY <1>1, <1>3, <2>3 DEF ScreenHolds, ScreenTypes, Screen!Gray, Screen!Entry, Screen!Absent,
       Screen!Asking, Screen!Idle
  <2>5. ScreenBounded' /\ ScreenFresh'
    BY <1>1 DEF ScreenHolds, ScreenBounded, ScreenHeld, ScreenFresh, Screen!Gray, Screen!Absent
  <2>6. g5[h].text \in Screens.Text
    BY <1>2 DEF Screen!Gray
  <2>7. ScreenOut'
    BY <2>1, <2>6, ScreenDecides DEF Screen!Refuse, Screen!Verdict, Screen!Reason
  <2> QED BY <2>4, <2>5, <2>7 DEF ScreenHolds
<1> QED BY <1>4, <1>5

\* A handler refuses a text.
LEMMA ScreenRefuses ==
  ASSUME ScreenHolds, NEW h \in Screens.Handler, Screen!Fail(h)
  PROVE  ScreenHolds'
<1>1. /\ g1' = g1 /\ g2' = g2 /\ g3' = g3 /\ g4' = g4 /\ g7' = g7 /\ g5[h].at = "engine"
      /\ Screen!Refuse(h)
  BY DEF Screen!Fail
<1>2. g5[h].text \in Screen!Gray
  BY <1>1 DEF ScreenHolds, ScreenTypes, Screen!Idle
<1>3. g5' = [g5 EXCEPT ![h] = Screen!Idle]
  BY <1>1 DEF Screen!Refuse, Screen!Decide, Screen!Goto
<1>4. /\ g5' \in [Screens.Handler -> Screen!Asking \cup {Screen!Idle}]
      /\ \A k \in Screens.Handler : g5'[k] # Screen!Idle => g5'[k].text \in Screen!Gray
  BY <1>3, ScreenGoes DEF ScreenHolds
<1>5. ScreenTypes'
  BY <1>1, <1>4 DEF ScreenHolds, ScreenTypes, Screen!Gray, Screen!Entry, Screen!Absent,
     Screen!Asking, Screen!Idle
<1>6. ScreenBounded' /\ ScreenFresh'
  BY <1>1 DEF ScreenHolds, ScreenBounded, ScreenHeld, ScreenFresh, Screen!Gray, Screen!Absent
<1>7. g5[h].text \in Screens.Text
  BY <1>2 DEF Screen!Gray
<1>8. ScreenOut'
  BY <1>1, <1>7, ScreenDecides DEF Screen!Refuse, Screen!Verdict, Screen!Reason
<1> QED BY <1>5, <1>6, <1>8 DEF ScreenHolds

\* There is room in a cache that has lost an entry.
LEMMA ScreenRoom ==
  ASSUME ScreenHolds, NEW c \in Screen!Room(g3)
  PROVE  /\ c \in [Screen!Gray -> Screen!Entry \cup {Screen!Absent}]
         /\ \A t \in Screen!Gray : c[t] = g3[t] \/ c[t] = Screen!Absent
         /\ IsFiniteSet(ScreenHeld(c)) /\ Cardinality(ScreenHeld(c)) + 1 <= Screens.MaxItems
<1> DEFINE N == Cardinality(ScreenHeld(g3))
<1>1. /\ IsFiniteSet(ScreenHeld(g3)) /\ N <= Screens.MaxItems /\ Screens.MaxItems \in Nat
      /\ g3 \in [Screen!Gray -> Screen!Entry \cup {Screen!Absent}]
  BY ScreenAssumed DEF ScreenHolds, ScreenBounded, ScreenTypes, Screen!BoundAssumption
<1>2. N \in Nat
  BY <1>1, FS_CardinalityType
<1>3. Screen!Cardinality({t \in Screen!Gray : g3[t] # Screen!Absent}) = N
  BY ScreenCardinality DEF ScreenHeld
<1>4. CASE N >= Screens.MaxItems
  <2>1. PICK t \in Screen!Oldest(g3) : c = [g3 EXCEPT ![t] = Screen!Absent]
    BY <1>3, <1>4 DEF Screen!Room
  <2>2. t \in Screen!Gray /\ t \in ScreenHeld(g3)
    BY <2>1 DEF Screen!Oldest, ScreenHeld
  <2>3. ScreenHeld(c) = ScreenHeld(g3) \ {t}
    BY <1>1, <2>1, <2>2 DEF ScreenHeld
  <2>4. IsFiniteSet(ScreenHeld(c)) /\ Cardinality(ScreenHeld(c)) = N - 1
    BY <1>1, <2>2, <2>3, FS_RemoveElement
  <2>5. Cardinality(ScreenHeld(c)) + 1 <= Screens.MaxItems
    BY <1>1, <1>2, <2>4
  <2>6. /\ c \in [Screen!Gray -> Screen!Entry \cup {Screen!Absent}]
        /\ \A s \in Screen!Gray : c[s] = g3[s] \/ c[s] = Screen!Absent
    BY <1>1, <2>1, <2>2
  <2> QED BY <2>4, <2>5, <2>6
<1>5. CASE ~(N >= Screens.MaxItems)
  <2>1. c = g3
    BY <1>3, <1>5 DEF Screen!Room
  <2> QED BY <1>1, <1>2, <1>5, <2>1
<1> QED BY <1>4, <1>5

\* An answer is cached.
LEMMA ScreenPuts ==
  ASSUME ScreenHolds, NEW t \in Screen!Gray, NEW v \in Screen!Verdict, Screen!Put(t, v)
  PROVE  /\ g3' \in [Screen!Gray -> Screen!Entry \cup {Screen!Absent}]
         /\ IsFiniteSet(ScreenHeld(g3')) /\ Cardinality(ScreenHeld(g3')) <= Screens.MaxItems
         /\ \A s \in Screen!Gray :
              \/ g3'[s] = g3[s] \/ g3'[s] = Screen!Absent
              \/ s = t /\ g3'[s] = [verdict |-> v, left |-> Screens.Life]
<1>1. CASE v = "gray"
  BY <1>1 DEF Screen!Put, ScreenHolds, ScreenTypes, ScreenBounded
<1>2. CASE v # "gray"
  <2> DEFINE e == [verdict |-> v, left |-> Screens.Life]
  <2>1. PICK c \in Screen!Room(g3) : g3' = [c EXCEPT ![t] = e]
    BY <1>2 DEF Screen!Put
  <2>2. /\ c \in [Screen!Gray -> Screen!Entry \cup {Screen!Absent}]
        /\ \A s \in Screen!Gray : c[s] = g3[s] \/ c[s] = Screen!Absent
        /\ IsFiniteSet(ScreenHeld(c)) /\ Cardinality(ScreenHeld(c)) + 1 <= Screens.MaxItems
    BY ScreenRoom
  <2>3. e \in Screen!Entry /\ e # Screen!Absent
    BY <1>2, ScreenAssumed
    DEF Screen!Entry, Screen!Absent, Screen!Verdict, Screen!BoundAssumption
  <2> HIDE DEF e
  <2>4. /\ g3' \in [Screen!Gray -> Screen!Entry \cup {Screen!Absent}]
        /\ g3'[t] = e /\ \A s \in Screen!Gray : s # t => g3'[s] = c[s]
    BY <2>1, <2>2, <2>3
  <2>5. ScreenHeld(g3') = ScreenHeld(c) \cup {t}
    BY <2>3, <2>4 DEF ScreenHeld
  <2>6. /\ IsFiniteSet(ScreenHeld(c) \cup {t})
        /\ Cardinality(ScreenHeld(c) \cup {t}) =
             IF t \in ScreenHeld(c) THEN Cardinality(ScreenHeld(c))
             ELSE Cardinality(ScreenHeld(c)) + 1
        /\ Cardinality(ScreenHeld(c)) \in Nat
    BY <2>2, FS_AddElement, FS_CardinalityType
  <2>7. Screens.MaxItems \in Nat
    BY ScreenAssumed DEF Screen!BoundAssumption
  <2>8. IsFiniteSet(ScreenHeld(g3')) /\ Cardinality(ScreenHeld(g3')) <= Screens.MaxItems
    BY <2>2, <2>5, <2>6, <2>7
  <2> QED BY <2>2, <2>4, <2>8 DEF e
<1> QED BY <1>1, <1>2

\* The engine answers.
LEMMA ScreenAnswers ==
  ASSUME ScreenHolds, NEW h \in Screens.Handler, NEW ai \in Screen!Verdict, Screen!Answer(h, ai)
  PROVE  ScreenHolds'
<1> DEFINE t == g5[h].text
<1>1. g1' = g1 /\ g2' = g2 /\ g4' = g4 /\ g5[h].at = "engine"
  BY DEF Screen!Answer
<1>2. t \in Screen!Gray /\ t \in Screens.Text /\ t \notin Screens.Denied
  BY <1>1 DEF ScreenHolds, ScreenTypes, Screen!Idle, Screen!Gray
<1>3. Screen!Merge(Screen!Static(t), ai) = ai
  BY <1>2, ScreenStatic DEF Screen!Merge
<1>4. /\ Screen!Put(t, ai) /\ Screen!Decide(h, t, ai, "engine")
      /\ g7' = IF ai = "allow" THEN [g7 EXCEPT ![t] = Screens.Life] ELSE g7
  BY <1>3 DEF Screen!Answer
<1> HIDE DEF t
<1>5. Screens.Life \in Nat /\ Screens.Life > 0
  BY ScreenAssumed DEF Screen!BoundAssumption
<1>6. /\ g7' \in [Screens.Text -> 0..Screens.Life]
      /\ ai = "allow" => g7'[t] = Screens.Life
      /\ \A s \in Screens.Text : (s = t /\ ai = "allow") \/ g7'[s] = g7[s]
  BY <1>2, <1>4, <1>5 DEF ScreenHolds, ScreenTypes
<1>7. /\ g3' \in [Screen!Gray -> Screen!Entry \cup {Screen!Absent}]
      /\ IsFiniteSet(ScreenHeld(g3')) /\ Cardinality(ScreenHeld(g3')) <= Screens.MaxItems
      /\ \A s \in Screen!Gray :
           \/ g3'[s] = g3[s] \/ g3'[s] = Screen!Absent
           \/ s = t /\ g3'[s] = [verdict |-> ai, left |-> Screens.Life]
  BY <1>2, <1>4, ScreenPuts
<1>8. g5' = [g5 EXCEPT ![h] = Screen!Idle]
  BY <1>4 DEF Screen!Decide, Screen!Goto
<1>9. /\ g5' \in [Screens.Handler -> Screen!Asking \cup {Screen!Idle}]
      /\ \A k \in Screens.Handler : g5'[k] # Screen!Idle => g5'[k].text \in Screen!Gray
  BY <1>8, ScreenGoes DEF ScreenHolds
<1>10. ScreenTypes'
  BY <1>1, <1>6, <1>7, <1>9 DEF ScreenHolds, ScreenTypes, Screen!Gray, Screen!Entry, Screen!Absent,
     Screen!Asking, Screen!Idle
<1>11. ScreenBounded'
  BY <1>7 DEF ScreenBounded, ScreenHeld, Screen!Gray, Screen!Absent
<1>12. ASSUME NEW s \in Screen!Gray, g3'[s].verdict = "allow" PROVE g3'[s].left <= g7'[s]
  <2>1. s \in Screens.Text /\ g3[s] \in Screen!Entry \cup {Screen!Absent}
        /\ g7[s] \in 0..Screens.Life
    BY DEF Screen!Gray, ScreenHolds, ScreenTypes
  <2>2. CASE g3'[s] = g3[s]
    <3>1. g3[s] \in Screen!Entry /\ g3[s].left <= g7[s]
      BY <1>12, <2>1, <2>2 DEF ScreenHolds, ScreenFresh, Screen!Absent
    <3>2. g3[s].left \in 0..Screens.Life
      BY <3>1 DEF Screen!Entry
    <3> QED BY <1>5, <1>6, <2>1, <2>2, <3>1, <3>2
  <2>3. CASE s = t /\ g3'[s] = [verdict |-> ai, left |-> Screens.Life]
    BY <1>5, <1>6, <1>12, <2>3
  <2>4. CASE g3'[s] = Screen!Absent
    BY <1>12, <2>4 DEF Screen!Absent
  <2> QED BY <1>7, <2>2, <2>3, <2>4
<1>13. ScreenFresh'
  BY <1>12 DEF ScreenFresh, Screen!Gray
<1>14. ScreenOut'
  BY <1>2, <1>4, <1>5, <1>6, ScreenDecides DEF Screen!Reason
<1> QED BY <1>10, <1>11, <1>13, <1>14 DEF ScreenHolds

\* Time passes.
LEMMA ScreenTicks ==
  ASSUME ScreenHolds, Screen!Tick
  PROVE  ScreenHolds'
<1>1. /\ g1' = g1 /\ g2' = g2 /\ g5' = g5 /\ g6' = Screen!Silent
      /\ g3' = [t \in Screen!Gray |->
           IF g3[t] = Screen!Absent THEN Screen!Absent ELSE [g3[t] EXCEPT !.left = Screen!Less(g3[t].left)]]
      /\ g7' = [t \in Screens.Text |-> Screen!Less(g7[t])]
      /\ g4' = [a \in Screens.Addr |->
           Screen!Least(g4[a] + Screens.PerMin, Screens.PerMin * Screens.Minute)]
  BY DEF Screen!Tick
<1>2. Screens.Life \in Nat /\ Screens.PerMin \in Nat /\ Screens.Minute \in Nat
  BY ScreenAssumed DEF Screen!BoundAssumption
<1>3. ASSUME NEW t \in Screen!Gray
      PROVE /\ g3'[t] \in Screen!Entry \cup {Screen!Absent}
            /\ g3'[t] = Screen!Absent <=> g3[t] = Screen!Absent
            /\ g3'[t].verdict = "allow" => g3'[t].left <= g7'[t]
  <2>1. t \in Screens.Text /\ g7[t] \in 0..Screens.Life
    BY DEF Screen!Gray, ScreenHolds, ScreenTypes
  <2>2. CASE g3[t] = Screen!Absent
    BY <1>1, <2>2 DEF Screen!Absent
  <2>3. CASE g3[t] # Screen!Absent
    <3> DEFINE e == [g3[t] EXCEPT !.left = Screen!Less(g3[t].left)]
    <3>1. g3[t] \in Screen!Entry
      BY <2>3 DEF ScreenHolds, ScreenTypes
    <3>2. g3[t].left \in 0..Screens.Life /\ g3[t].verdict \in {"allow", "block"}
      BY <3>1 DEF Screen!Entry
    <3>3. Screen!Less(g3[t].left) \in 0..Screens.Life
      BY <1>2, <3>2 DEF Screen!Less
    <3>4. e \in Screen!Entry /\ e.verdict = g3[t].verdict /\ e.left = Screen!Less(g3[t].left)
      BY <3>1, <3>3 DEF Screen!Entry
    <3>5. g3'[t] = e
      BY <1>1, <2>3
    <3> HIDE DEF e
    <3>6. g3[t].verdict = "allow" => g3[t].left <= g7[t]
      BY DEF ScreenHolds, ScreenFresh
    <3>7. g7'[t] = Screen!Less(g7[t])
      BY <1>1, <2>1
    <3>8. g3'[t].verdict = "allow" => g3'[t].left <= g7'[t]
      BY <1>2, <2>1, <3>2, <3>4, <3>5, <3>6, <3>7 DEF Screen!Less
    <3>9. e # Screen!Absent
      BY <3>2, <3>4 DEF Screen!Absent
    <3> QED BY <2>3, <3>4, <3>5, <3>8, <3>9
  <2> QED BY <2>2, <2>3
<1>4. g3' \in [Screen!Gray -> Screen!Entry \cup {Screen!Absent}]
  BY <1>1, <1>3
<1>5. g7' \in [Screens.Text -> 0..Screens.Life]
  <2>1. ASSUME NEW t \in Screens.Text PROVE Screen!Less(g7[t]) \in 0..Screens.Life
    <3>1. g7[t] \in 0..Screens.Life
      BY DEF ScreenHolds, ScreenTypes
    <3> QED BY <1>2, <3>1 DEF Screen!Less
  <2> QED BY <1>1, <2>1
<1>6. g4' \in [Screens.Addr -> 0..(Screens.PerMin * Screens.Minute)]
  <2> DEFINE N == Screens.PerMin * Screens.Minute
  <2>1. N \in Nat /\ g4 \in [Screens.Addr -> 0..N]
    BY <1>2 DEF ScreenHolds, ScreenTypes
  <2>2. g4' = [a \in Screens.Addr |-> Screen!Least(g4[a] + Screens.PerMin, N)]
    BY <1>1
  <2> HIDE DEF N
  <2>3. ASSUME NEW a \in Screens.Addr PROVE Screen!Least(g4[a] + Screens.PerMin, N) \in 0..N
    BY <1>2, <2>1 DEF Screen!Least
  <2>4. g4' \in [Screens.Addr -> 0..N]
    BY <2>2, <2>3
  <2> QED BY <2>4 DEF N
<1>7. ScreenTypes'
  BY <1>1, <1>4, <1>5, <1>6 DEF ScreenHolds, ScreenTypes, Screen!Gray, Screen!Entry, Screen!Absent,
     Screen!Asking, Screen!Idle
<1>8. ScreenHeld(g3') = ScreenHeld(g3)
  BY <1>3 DEF ScreenHeld
<1>9. ScreenBounded'
  <2>1. IsFiniteSet(ScreenHeld(g3')) /\ Cardinality(ScreenHeld(g3')) <= Screens.MaxItems
    BY <1>8 DEF ScreenHolds, ScreenBounded
  <2> QED BY <2>1 DEF ScreenBounded, ScreenHeld, Screen!Gray, Screen!Absent
<1>10. ScreenFresh'
  BY <1>3 DEF ScreenFresh, Screen!Gray
<1> QED BY <1>1, <1>7, <1>9, <1>10, ScreenSilent DEF ScreenHolds

\* Every step keeps the invariant.
LEMMA ScreenKeeps == ScreenHolds /\ Screen!Next => ScreenHolds'
<1> SUFFICES ASSUME ScreenHolds, Screen!Next PROVE ScreenHolds'
  OBVIOUS
<1>1. CASE Screen!Switch \/ Screen!Configure
  <2>1. /\ g1' \in BOOLEAN /\ g2' \in BOOLEAN /\ g6' = Screen!Silent
        /\ g3' = g3 /\ g4' = g4 /\ g5' = g5 /\ g7' = g7
    BY <1>1 DEF Screen!Switch, Screen!Configure, ScreenHolds, ScreenTypes
  <2>2. ScreenTypes'
    BY <2>1 DEF ScreenHolds, ScreenTypes, Screen!Gray, Screen!Entry, Screen!Absent, Screen!Asking,
       Screen!Idle
  <2>3. ScreenBounded' /\ ScreenFresh'
    BY <2>1 DEF ScreenHolds, ScreenBounded, ScreenHeld, ScreenFresh, Screen!Gray, Screen!Absent
  <2> QED BY <2>1, <2>2, <2>3, ScreenSilent DEF ScreenHolds
<1> QED
  BY <1>1, ScreenClassifies, ScreenMeters, ScreenAnswers, ScreenRefuses, ScreenTicks
  DEF Screen!Next, Screen!Serve

-----------------------------------------------------------------------------
(* The path of a request. *)

\* What RequestPath assumes of its constants.
LEMMA PathAssumed ==
  /\ Paths.Incoming \subseteq Path!Request /\ Paths.Queue \in Nat /\ Paths.Queue > 0
  /\ Paths.Configured \subseteq Path!Conf /\ Path!None \notin Paths.Handler
BY GuardsAssumption DEF Path!RequestAssumption

\* What was intercepted is on its way out; what got past the ban, the rules and the key has
\* met each in a state that let it through.
PathFair(r) ==
  /\ r.refused => r.at \in {"emit", "panic", "done"}
  /\ r.refused /\ r.at = "done" => r.code \in {403, 500}
  /\ r.at \in {"waf", "auth", "serve", "update", "invalidate"} => r.free
  /\ r.at \in {"auth", "serve", "update", "invalidate"} =>
       ~r.req.odd /\ (r.req.text = "strict" => FALSE \in r.modes)
  /\ r.at \in {"serve", "update", "invalidate"} /\ r.req.to # "public" => r.req.role \in r.keys

\* A request has seen a configuration and a ban.
PathSees(r, c, b) == (b \/ r.free) /\ c.strict \in r.modes /\ c.keys \subseteq r.keys

\* The callers: their types, what they have met and seen, and whoever is on a copied list of
\* streams, and not known to be closed, is a stream.
PathCallers ==
  /\ g1 \in Path!Conf /\ g4 \in BOOLEAN
  /\ g5 \in [Paths.Handler -> Path!Doing \cup {Path!Idle}]
  /\ \A h \in Paths.Handler : g5[h] # Path!Idle => PathFair(g5[h]) /\ PathSees(g5[h], g1, g4)
  /\ \A h, k \in Paths.Handler :
       g5[h].at = "emit" /\ <<k, TRUE>> \in g5[h].left => g5[k].at = "stream"

\* A reload has changed the policy, or an update is about to drop it.
PathStale == g6 \/ \E h \in Paths.Handler : g5[h].at = "invalidate"

\* The policy in the cache, and the one that the holder of the lock is about to put there,
\* are in force unless that is so.
PathPolicy ==
  /\ g2 \in Paths.Policy \cup {Path!None} /\ g3 \in Paths.Handler \cup {Path!None} /\ g6 \in BOOLEAN
  /\ g2 \in {Path!None, g1.policy} \/ PathStale
  /\ \A h \in Paths.Handler :
       g5[h].at = "store" => g3 = h /\ (g5[h].draft = g1.policy \/ PathStale)

\* The invariant of the path.
PathHolds == PathCallers /\ PathPolicy

\* It holds at the start, ...
LEMMA PathStarts == Path!Init => PathHolds
<1> SUFFICES ASSUME Path!Init PROVE PathHolds
  OBVIOUS
<1>1. /\ g1 \in Path!Conf /\ g2 = Path!None /\ g3 = Path!None /\ g4 = FALSE /\ g6 = FALSE
      /\ g5 = [h \in Paths.Handler |-> Path!Idle]
  BY PathAssumed DEF Path!Init
<1>2. PathCallers
  BY <1>1 DEF PathCallers, Path!Idle
<1>3. PathPolicy
  BY <1>1 DEF PathPolicy, Path!Idle
<1> QED BY <1>2, <1>3 DEF PathHolds

\* ... it means that what is refused stays so, ...
LEMMA PathHoldsRefused == PathHolds => Path!RefusedStaysRefused
<1> SUFFICES ASSUME PathHolds, NEW h \in Paths.Handler, g5[h] # Path!Idle
             PROVE  /\ g5[h].refused => g5[h].at \in {"emit", "panic", "done"}
                    /\ g5[h].refused /\ g5[h].at = "done" => g5[h].code \in {403, 500}
                    /\ g5[h].at \in {"serve", "update", "invalidate"} =>
                         /\ g5[h].free /\ ~g5[h].req.odd
                         /\ g5[h].req.text = "strict" => g5[h].modes # {TRUE}
                         /\ g5[h].req.to # "public" => g5[h].req.role \in g5[h].keys
  BY DEF Path!RefusedStaysRefused, Path!At
<1>1. PathFair(g5[h])
  BY DEF PathHolds, PathCallers
<1>2. FALSE \in g5[h].modes => g5[h].modes # {TRUE}
  OBVIOUS
<1> QED BY ONLY <1>1, <1>2 DEF PathFair

\* ... and that the policy is fresh, ...
LEMMA PathHoldsFresh == PathHolds => Path!PolicyFresh
BY DEF PathHolds, PathPolicy, PathStale, Path!PolicyFresh, Path!At

\* ... and that the types are kept.
LEMMA PathHoldsTypes == PathHolds => Path!TypeOK
BY DEF PathHolds, PathCallers, PathPolicy, Path!TypeOK

\* A caller that is on its way.
LEMMA PathDoing ==
  ASSUME PathHolds, NEW h \in Paths.Handler, g5[h].at # "idle"
  PROVE  g5[h] \in Path!Doing /\ PathFair(g5[h]) /\ PathSees(g5[h], g1, g4)
BY DEF PathHolds, PathCallers, Path!Idle

\* It goes to another stage, ...
LEMMA PathStaged ==
  ASSUME NEW r \in Path!Doing, NEW s \in Path!Stage
  PROVE  LET n == [r EXCEPT !.at = s]
         IN /\ n \in Path!Doing /\ n.at = s /\ n.req = r.req /\ n.draft = r.draft /\ n.left = r.left
            /\ n.held = r.held /\ n.free = r.free /\ n.modes = r.modes /\ n.keys = r.keys
            /\ n.refused = r.refused /\ n.code = r.code
BY DEF Path!Doing

\* ... with another answer.
LEMMA PathEnded ==
  ASSUME NEW r \in Path!Doing, NEW c \in Path!Code
  PROVE  LET n == [r EXCEPT !.code = c]
         IN /\ n \in Path!Doing /\ n.code = c /\ n.at = r.at /\ n.req = r.req /\ n.left = r.left
            /\ n.free = r.free /\ n.modes = r.modes /\ n.keys = r.keys /\ n.refused = r.refused
BY DEF Path!Doing

\* One caller goes on.
LEMMA PathGoes ==
  ASSUME PathHolds, NEW h \in Paths.Handler, NEW r \in Path!Doing \cup {Path!Idle},
         g5' = [g5 EXCEPT ![h] = r], g1' \in Path!Conf, g1'.strict = g1.strict,
         g1'.keys = g1.keys, g4' \in BOOLEAN, g4 => g4',
         r # Path!Idle => PathFair(r) /\ PathSees(r, g1, g4),
         \A k \in Paths.Handler : r.at = "emit" /\ <<k, TRUE>> \in r.left => g5[k].at = "stream" /\ k # h,
         g5[h].at = "stream" => r.at = "stream"
  PROVE  PathCallers'
<1>1. /\ g5' \in [Paths.Handler -> Path!Doing \cup {Path!Idle}]
      /\ g5'[h] = r /\ \A k \in Paths.Handler : k # h => g5'[k] = g5[k]
  BY DEF PathHolds, PathCallers
<1>2. ASSUME NEW k \in Paths.Handler, g5'[k] # Path!Idle
      PROVE  PathFair(g5'[k]) /\ PathSees(g5'[k], g1', g4')
  <2>1. PathFair(g5'[k]) /\ PathSees(g5'[k], g1, g4)
    BY <1>1, <1>2 DEF PathHolds, PathCallers
  <2> QED BY <2>1 DEF PathSees
<1>3. ASSUME NEW j \in Paths.Handler, NEW k \in Paths.Handler,
             g5'[j].at = "emit", <<k, TRUE>> \in g5'[j].left
      PROVE  g5'[k].at = "stream"
  <2>1. g5[k].at = "stream"
    BY <1>1, <1>3 DEF PathHolds, PathCallers
  <2> QED BY <1>1, <2>1
<1> QED BY <1>1, <1>2, <1>3 DEF PathCallers, PathFair, PathSees, Path!Idle

\* Who is not at the policy leaves it alone.
LEMMA PathPolicyRests ==
  ASSUME PathHolds, NEW h \in Paths.Handler, NEW r, g5' = [g5 EXCEPT ![h] = r],
         g1'.policy = g1.policy, g2' = g2, g3' = g3, g6' = g6,
         r.at # "store", g5[h].at # "invalidate"
  PROVE  PathPolicy'
<1>1. g5'[h] = r /\ \A k \in Paths.Handler : k # h => g5'[k] = g5[k]
  BY DEF PathHolds, PathCallers
<1>2. PathStale => g6 \/ \E k \in Paths.Handler : g5'[k].at = "invalidate"
  BY <1>1 DEF PathStale
<1> QED BY <1>1, <1>2 DEF PathHolds, PathPolicy, PathStale, Path!None

\* One caller goes on, and all else stays but, maybe, the ban.
LEMMA PathMoves ==
  ASSUME PathHolds, NEW h \in Paths.Handler, NEW r \in Path!Doing \cup {Path!Idle},
         g5' = [g5 EXCEPT ![h] = r], UNCHANGED <<g1, g2, g3, g6>>, g4' \in BOOLEAN, g4 => g4',
         r # Path!Idle => PathFair(r) /\ PathSees(r, g1, g4),
         \A k \in Paths.Handler : r.at = "emit" /\ <<k, TRUE>> \in r.left => g5[k].at = "stream" /\ k # h,
         g5[h].at = "stream" => r.at = "stream",
         r.at # "store", g5[h].at # "invalidate"
  PROVE  PathHolds'
<1>1. g1' \in Path!Conf /\ g1' = g1 /\ g2' = g2 /\ g3' = g3 /\ g6' = g6
  BY DEF PathHolds, PathCallers
<1>2. PathCallers'
  BY <1>1, PathGoes
<1>3. PathPolicy'
  BY <1>1, PathPolicyRests
<1> QED BY <1>2, <1>3 DEF PathHolds

\* The same for one that announces nothing.
LEMMA PathQuietly ==
  ASSUME PathHolds, NEW h \in Paths.Handler, NEW r \in Path!Doing,
         g5' = [g5 EXCEPT ![h] = r], UNCHANGED <<g1, g2, g3, g6>>, g4' \in BOOLEAN, g4 => g4',
         PathFair(r), PathSees(r, g1, g4),
         r.at \notin {"emit", "store"}, g5[h].at # "stream", g5[h].at # "invalidate"
  PROVE  PathHolds'
BY PathMoves

\* A caller goes to another stage.
LEMMA PathTurns ==
  ASSUME PathHolds, NEW h \in Paths.Handler, NEW s \in Path!Stage, Path!Goto(h, s),
         UNCHANGED <<g1, g2, g3, g6>>, g4' \in BOOLEAN, g4 => g4',
         g5[h].at \notin {"idle", "stream", "invalidate"}, s \notin {"store", "emit"},
         g5[h].refused => s = "panic",
         s \in {"waf", "auth", "serve", "update", "invalidate"} => g5[h].free,
         s \in {"auth", "serve", "update", "invalidate"} =>
           ~g5[h].req.odd /\ (g5[h].req.text = "strict" => FALSE \in g5[h].modes),
         s \in {"serve", "update", "invalidate"} /\ g5[h].req.to # "public" =>
           g5[h].req.role \in g5[h].keys
  PROVE  PathHolds'
<1> DEFINE r == [g5[h] EXCEPT !.at = s]
<1>1. g5[h] \in Path!Doing /\ PathFair(g5[h]) /\ PathSees(g5[h], g1, g4)
  BY PathDoing
<1>2. g5' = [g5 EXCEPT ![h] = r]
  BY Zenon DEF Path!Goto, Path!Set
<1>3. /\ r \in Path!Doing /\ r.at = s /\ r.req = g5[h].req /\ r.free = g5[h].free
      /\ r.modes = g5[h].modes /\ r.keys = g5[h].keys /\ r.refused = g5[h].refused
      /\ r.code = g5[h].code
  BY <1>1, PathStaged
<1> HIDE DEF r
<1>4. PathFair(r)
  <2>1. r.refused => r.at = "panic"
    BY <1>3
  <2>2. r.at \in {"waf", "auth", "serve", "update", "invalidate"} => r.free
    BY <1>3
  <2>3. r.at \in {"auth", "serve", "update", "invalidate"} =>
          ~r.req.odd /\ (r.req.text = "strict" => FALSE \in r.modes)
    BY <1>3
  <2>4. r.at \in {"serve", "update", "invalidate"} /\ r.req.to # "public" => r.req.role \in r.keys
    BY <1>3
  <2> QED BY ONLY <2>1, <2>2, <2>3, <2>4 DEF PathFair
<1>5. PathSees(r, g1, g4)
  BY <1>1, <1>3 DEF PathSees
<1> QED BY <1>2, <1>3, <1>4, <1>5, PathMoves

\* A caller is answered.
LEMMA PathStops ==
  ASSUME PathHolds, NEW h \in Paths.Handler,
         NEW c \in Path!Code, Path!End(h, c),
         UNCHANGED <<g1, g2, g3, g6>>, g4' \in BOOLEAN, g4 => g4',
         g5[h].at \notin {"idle", "stream", "invalidate"},
         g5[h].refused => c \in {403, 500}
  PROVE  PathHolds'
<1>0. PICK s \in Path!Stage : s = "done"
  BY DEF Path!Stage
<1> DEFINE r == [g5[h] EXCEPT !.at = s, !.code = c]
<1>1. g5[h] \in Path!Doing /\ PathFair(g5[h]) /\ PathSees(g5[h], g1, g4)
  BY PathDoing
<1>2. g5' = [g5 EXCEPT ![h] = r]
  BY <1>0, Zenon DEF Path!End, Path!Set
<1> DEFINE m == [g5[h] EXCEPT !.at = s]
<1>3. /\ m \in Path!Doing /\ m.at = s /\ m.free = g5[h].free /\ m.modes = g5[h].modes
      /\ m.keys = g5[h].keys /\ m.refused = g5[h].refused
  BY <1>1, PathStaged
<1>8. r = [m EXCEPT !.code = c]
  BY Zenon
<1> HIDE DEF m, r
<1>4. /\ r \in Path!Doing /\ r.at = s /\ r.free = g5[h].free /\ r.code = c
      /\ r.modes = g5[h].modes /\ r.keys = g5[h].keys /\ r.refused = g5[h].refused
  BY <1>3, <1>8, PathEnded
<1>5. PathFair(r)
  BY <1>0, <1>4 DEF PathFair
<1>6. PathSees(r, g1, g4)
  BY <1>1, <1>4 DEF PathSees
<1>7. r.at \notin {"emit", "store"} /\ g5[h].at # "stream" /\ g5[h].at # "invalidate"
  BY <1>0, <1>4
<1> QED BY <1>2, <1>4, <1>5, <1>6, <1>7, PathQuietly

\* A request arrives.
LEMMA PathArrives ==
  ASSUME PathHolds, NEW h \in Paths.Handler, NEW q \in Paths.Incoming, Path!Arrive(h, q)
  PROVE  PathHolds'
<1> DEFINE r ==
      [at |-> IF q.to = "decoy" THEN "done" ELSE "head", req |-> q, draft |-> Path!None, left |-> {},
       held |-> 0, free |-> ~g4, modes |-> {g1.strict}, keys |-> g1.keys,
       refused |-> FALSE, code |-> IF q.to = "decoy" THEN 200 ELSE 0]
<1>1. /\ g5' = [g5 EXCEPT ![h] = r] /\ UNCHANGED <<g1, g2, g3, g6>> /\ g4' = g4
      /\ g5[h] = Path!Idle
  BY Zenon DEF Path!Arrive, Path!Set
<1>2. q \in Path!Request /\ g1.strict \in BOOLEAN /\ g1.keys \subseteq Path!Role /\ g4 \in BOOLEAN
      /\ 0 \in 0..Paths.Queue
  BY PathAssumed DEF PathHolds, PathCallers, Path!Conf
<1>3. r \in Path!Doing
  BY <1>2 DEF Path!Doing, Path!Stage, Path!Code
<1>4. PathFair(r)
  BY DEF PathFair
<1>5. PathSees(r, g1, g4)
  BY <1>2 DEF PathSees
<1>6. r.at \notin {"emit", "store", "stream"}
  OBVIOUS
<1>7. g5[h].at = "idle"
  BY <1>1 DEF Path!Idle
<1> HIDE DEF r
<1> QED BY <1>1, <1>2, <1>3, <1>4, <1>5, <1>6, <1>7, PathMoves

\* A caller is idle again.
LEMMA PathRests ==
  ASSUME PathHolds, NEW h \in Paths.Handler, Path!Rest(h)
  PROVE  PathHolds'
<1>1. /\ g5' = [g5 EXCEPT ![h] = Path!Idle] /\ UNCHANGED <<g1, g2, g3, g6>> /\ g4' = g4
      /\ g5[h].at = "done"
  BY DEF Path!Rest, Path!Set, Path!At
<1>2. g4 \in BOOLEAN
  BY DEF PathHolds, PathCallers
<1>3. Path!Idle \in Path!Doing \cup {Path!Idle} /\ Path!Idle.at = "idle"
  BY DEF Path!Idle
<1> QED BY <1>1, <1>2, <1>3, PathMoves

\* The headers, and the ban.
LEMMA PathHeads ==
  ASSUME PathHolds, NEW h \in Paths.Handler, Path!Head(h) \/ Path!Found(h)
  PROVE  PathHolds'
<1>1. PICK s \in {"policy", "ban", "done"} :
        /\ Path!Goto(h, s) /\ UNCHANGED <<g1, g2, g3, g4, g6>>
        /\ g5[h].at \in {"head", "policy", "again"}
  BY DEF Path!Head, Path!Found, Path!After, Path!At
<1>2. g4 \in BOOLEAN /\ ~g5[h].refused
  <2>1. PathFair(g5[h])
    BY <1>1, PathDoing
  <2> QED BY <1>1, <2>1 DEF PathHolds, PathCallers, PathFair
<1>3. s \in Path!Stage
  BY DEF Path!Stage
<1> QED BY <1>1, <1>2, <1>3, PathTurns

\* A request is intercepted.
LEMMA PathIntercepts ==
  ASSUME PathHolds, NEW h \in Paths.Handler, Path!Intercept(h), g5[h].at \in {"ban", "waf"},
         UNCHANGED <<g1, g2, g3, g6>>, g4' \in BOOLEAN, g4 => g4'
  PROVE  PathHolds'
<1> DEFINE L == Path!Streams \X {TRUE}
<1>0. PICK s \in Path!Stage : s = "emit"
  BY DEF Path!Stage
<1> DEFINE m == [g5[h] EXCEPT !.at = s]
<1> DEFINE r == [g5[h] EXCEPT !.at = s, !.left = L, !.refused = TRUE]
<1>1. g5[h] \in Path!Doing /\ PathSees(g5[h], g1, g4)
  BY PathDoing
<1>2. g5' = [g5 EXCEPT ![h] = r]
  BY <1>0, Zenon DEF Path!Intercept, Path!Set
<1>3. L \subseteq Paths.Handler \X BOOLEAN
  BY DEF Path!Streams
<1>4. \A k \in Paths.Handler : <<k, TRUE>> \in L => g5[k].at = "stream" /\ k # h
  BY DEF Path!Streams, Path!At
<1> HIDE DEF L
<1>5. /\ r \in Path!Doing /\ r.at = s /\ r.left = L /\ r.free = g5[h].free
      /\ r.modes = g5[h].modes /\ r.keys = g5[h].keys /\ r.refused = TRUE
  <2>1. /\ m \in Path!Doing /\ m.at = s /\ m.free = g5[h].free /\ m.modes = g5[h].modes
        /\ m.keys = g5[h].keys
    BY <1>1, PathStaged
  <2> DEFINE k == [m EXCEPT !.left = L]
  <2>2. r = [k EXCEPT !.refused = TRUE]
    BY Zenon
  <2> HIDE DEF m, r
  <2>3. /\ k \in Path!Doing /\ k.at = m.at /\ k.left = L /\ k.free = m.free /\ k.modes = m.modes
        /\ k.keys = m.keys
    BY <1>3, <2>1 DEF Path!Doing
  <2> HIDE DEF k
  <2>4. ASSUME NEW n \in Path!Doing, NEW b \in BOOLEAN
        PROVE  LET x == [n EXCEPT !.refused = b]
               IN /\ x \in Path!Doing /\ x.at = n.at /\ x.left = n.left /\ x.free = n.free
                  /\ x.modes = n.modes /\ x.keys = n.keys /\ x.refused = b
    BY DEF Path!Doing
  <2>5. /\ r \in Path!Doing /\ r.at = k.at /\ r.left = L /\ r.free = k.free /\ r.modes = k.modes
        /\ r.keys = k.keys /\ r.refused = TRUE
    BY <2>2, <2>3, <2>4
  <2> QED BY <2>1, <2>3, <2>5
<1> HIDE DEF r
<1>6. PathFair(r)
  BY <1>0, <1>5 DEF PathFair
<1>7. PathSees(r, g1, g4)
  BY <1>1, <1>5 DEF PathSees
<1> QED BY <1>0, <1>2, <1>4, <1>5, <1>6, <1>7, PathMoves

\* The ban is looked at.
LEMMA PathBans ==
  ASSUME PathHolds, NEW h \in Paths.Handler, Path!Ban(h)
  PROVE  PathHolds'
<1>1. UNCHANGED <<g1, g2, g3, g4, g6>> /\ g4 \in BOOLEAN /\ g5[h].at = "ban"
  BY DEF Path!Ban, Path!At, PathHolds, PathCallers
<1>2. CASE g4
  BY <1>1, <1>2, PathIntercepts DEF Path!Ban
<1>3. CASE ~g4
  <2>1. Path!Goto(h, "waf")
    BY <1>3 DEF Path!Ban
  <2>2. ~g5[h].refused /\ g5[h].free
    <3>1. PathFair(g5[h]) /\ PathSees(g5[h], g1, g4)
      BY <1>1, PathDoing
    <3> QED BY ONLY <1>1, <1>3, <3>1 DEF PathFair, PathSees
  <2>3. "waf" \in Path!Stage
    BY DEF Path!Stage
  <2> QED BY <1>1, <2>1, <2>2, <2>3, PathTurns
<1> QED BY <1>2, <1>3

\* The firewall finds something, or does not: what only the strict mode finds is passed by
\* a configuration that is not strict.
LEMMA PathFilters ==
  ASSUME PathHolds, NEW h \in Paths.Handler, Path!Waf(h)
  PROVE  PathHolds'
<1> DEFINE q == g5[h].req
<1>1. UNCHANGED <<g1, g2, g3, g6>> /\ g4 \in BOOLEAN /\ g5[h].at = "waf"
  BY DEF Path!Waf, Path!At, PathHolds, PathCallers
<1>2. /\ ~g5[h].refused /\ g5[h].free /\ g1.strict \in g5[h].modes /\ g1.strict \in BOOLEAN
  <2>1. PathFair(g5[h]) /\ PathSees(g5[h], g1, g4)
    BY <1>1, PathDoing
  <2>2. ~g5[h].refused /\ g5[h].free /\ g1.strict \in g5[h].modes
    BY ONLY <1>1, <2>1 DEF PathFair, PathSees
  <2>3. g1.strict \in BOOLEAN
    BY DEF PathHolds, PathCallers, Path!Conf
  <2> QED BY <2>2, <2>3
<1>3. CASE Path!Finds(q)
  <2>1. Path!Intercept(h) /\ g4' \in {g4, TRUE}
    BY <1>3 DEF Path!Waf
  <2>2. g4' = g4 \/ g4' = TRUE
    BY <2>1
  <2>3. g4' \in BOOLEAN /\ (g4 => g4')
    BY <1>1, <2>2
  <2> QED BY <1>1, <2>1, <2>3, PathIntercepts
<1>4. CASE ~Path!Finds(q)
  <2>1. g4' = g4
    BY <1>4 DEF Path!Waf
  <2>2. \/ \E c \in {204, 403} : Path!End(h, c)
        \/ \E s \in {"stream", "serve", "auth"} :
             Path!Goto(h, s) /\ (s = "serve" => q.to = "public")
    BY <1>4 DEF Path!Waf
  <2>3. ~q.odd /\ (q.text = "strict" => FALSE \in g5[h].modes)
    <3>1. ~q.odd /\ q.text \notin Path!BodyFinds(q)
      BY <1>4 DEF Path!Finds
    <3>2. g1.strict => q.text # "strict"
      BY <3>1 DEF Path!BodyFinds
    <3>3. ~g1.strict => FALSE \in g5[h].modes
      BY <1>2
    <3> QED BY <3>1, <3>2, <3>3
  <2>4. ASSUME NEW c \in {204, 403}, Path!End(h, c) PROVE PathHolds'
    BY <1>1, <1>2, <2>1, <2>4, PathStops DEF Path!Code
  <2>5. ASSUME NEW s \in {"stream", "serve", "auth"}, Path!Goto(h, s), s = "serve" => q.to = "public"
        PROVE  PathHolds'
    <3>1. s \in Path!Stage
      BY DEF Path!Stage
    <3> QED BY <1>1, <1>2, <2>1, <2>3, <2>5, <3>1, PathTurns
  <2> QED BY <2>2, <2>4, <2>5
<1> QED BY <1>3, <1>4

\* A refused request is answered, and a broken one.
LEMMA PathBlocks ==
  ASSUME PathHolds, NEW h \in Paths.Handler, Path!Block(h) \/ Path!Recover(h)
  PROVE  PathHolds'
<1>1. PICK c \in {403, 500} :
        Path!End(h, c) /\ UNCHANGED <<g1, g2, g3, g4, g6>> /\ g5[h].at \in {"emit", "panic"}
  BY DEF Path!Block, Path!Recover, Path!At
<1>2. g4 \in BOOLEAN
  BY DEF PathHolds, PathCallers
<1> QED BY <1>1, <1>2, PathStops DEF Path!Code

\* Who may.
LEMMA PathAuthorizes ==
  ASSUME PathHolds, NEW h \in Paths.Handler, Path!Auth(h)
  PROVE  PathHolds'
<1>1. UNCHANGED <<g1, g2, g3, g4, g6>> /\ g4 \in BOOLEAN /\ g5[h].at = "auth"
  BY DEF Path!Auth, Path!At, PathHolds, PathCallers
<1>2. /\ ~g5[h].refused /\ g5[h].free /\ ~g5[h].req.odd /\ g1.keys \subseteq g5[h].keys
      /\ g5[h].req.text = "strict" => FALSE \in g5[h].modes
  <2>1. PathFair(g5[h]) /\ PathSees(g5[h], g1, g4)
    BY <1>1, PathDoing
  <2> QED BY ONLY <1>1, <2>1 DEF PathFair, PathSees
<1>3. \/ \E c \in {401, 403, 429} : Path!End(h, c)
      \/ \E s \in {"update", "serve"} : Path!Goto(h, s) /\ g5[h].req.role \in g1.keys
  BY DEF Path!Auth
<1>4. ASSUME NEW c \in {401, 403, 429}, Path!End(h, c) PROVE PathHolds'
  BY <1>1, <1>2, <1>4, PathStops DEF Path!Code
<1>5. ASSUME NEW s \in {"update", "serve"}, Path!Goto(h, s), g5[h].req.role \in g1.keys
      PROVE  PathHolds'
  <2>1. s \in Path!Stage
    BY DEF Path!Stage
  <2> QED BY <1>1, <1>2, <1>5, <2>1, PathTurns
<1> QED BY <1>3, <1>4, <1>5

\* A handler answers, or breaks.
LEMMA PathServes ==
  ASSUME PathHolds, NEW h \in Paths.Handler, Path!Serve(h)
  PROVE  PathHolds'
<1>1. UNCHANGED <<g1, g2, g3, g6>> /\ g4 \in BOOLEAN /\ g5[h].at = "serve"
  BY DEF Path!Serve, Path!At, PathHolds, PathCallers
<1>2. g4' \in BOOLEAN /\ (g4 => g4')
  <2>1. g4' = g4 \/ g4' \in {g4, g5[h].req.to # "public" \/ g4}
    BY DEF Path!Serve
  <2>2. g4' = g4 \/ g4' = (g5[h].req.to # "public" \/ g4)
    BY <2>1
  <2> QED BY <1>1, <2>2
<1>3. ~g5[h].refused
  BY <1>1, PathDoing DEF PathFair
<1>4. ASSUME NEW c \in {200, 404}, Path!End(h, c) PROVE PathHolds'
  BY <1>1, <1>2, <1>3, <1>4, PathStops DEF Path!Code
<1>5. ASSUME Path!Goto(h, "panic") PROVE PathHolds'
  <2>1. "panic" \in Path!Stage
    BY DEF Path!Stage
  <2> QED BY <1>1, <1>2, <1>3, <1>5, <2>1, PathTurns
<1> QED BY <1>4, <1>5 DEF Path!Serve

\* Who holds the lock is alone in putting a policy into the cache.
LEMMA PathAlone ==
  ASSUME PathHolds, NEW h \in Paths.Handler, g3 \in {h, Path!None}
  PROVE  \A k \in Paths.Handler : g5[k].at = "store" => k = h
BY PathAssumed DEF PathHolds, PathPolicy

\* A policy is generated.
LEMMA PathGenerates ==
  ASSUME PathHolds, NEW h \in Paths.Handler, Path!Generate(h)
  PROVE  PathHolds'
<1>0. PICK s \in Path!Stage : s = "store"
  BY DEF Path!Stage
<1>1. /\ UNCHANGED <<g1, g2, g4, g6>> /\ g3' = h /\ g3 = Path!None
      /\ g5[h].at \in {"policy", "again"}
  BY DEF Path!Generate
<1> DEFINE p == g1.policy
<1> DEFINE r == [g5[h] EXCEPT !.at = s, !.draft = p]
<1>2. g5' = [g5 EXCEPT ![h] = r]
  BY <1>0, Zenon DEF Path!Generate, Path!Set
<1>3. g5[h] \in Path!Doing /\ PathFair(g5[h]) /\ PathSees(g5[h], g1, g4)
  BY <1>1, PathDoing
<1>4. g1 \in Path!Conf /\ g4 \in BOOLEAN /\ p \in Paths.Policy \cup {Path!None}
  BY DEF PathHolds, PathCallers, Path!Conf
<1> HIDE DEF p
<1>5. /\ r \in Path!Doing /\ r.at = s /\ r.draft = p /\ r.free = g5[h].free
      /\ r.modes = g5[h].modes /\ r.keys = g5[h].keys /\ r.refused = g5[h].refused
  <2> DEFINE m == [g5[h] EXCEPT !.at = s]
  <2>1. /\ m \in Path!Doing /\ m.at = s /\ m.free = g5[h].free /\ m.modes = g5[h].modes
        /\ m.keys = g5[h].keys /\ m.refused = g5[h].refused
    BY <1>3, PathStaged
  <2>2. r = [m EXCEPT !.draft = p]
    BY Zenon
  <2> HIDE DEF m, r
  <2> QED BY <1>4, <2>1, <2>2 DEF Path!Doing
<1> HIDE DEF r
<1>6. PathFair(r) /\ PathSees(r, g1, g4)
  <2>1. ~g5[h].refused
    BY ONLY <1>1, <1>3 DEF PathFair
  <2> QED BY ONLY <1>0, <1>3, <1>5, <2>1 DEF PathFair, PathSees
<1>7. PathCallers'
  BY <1>0, <1>1, <1>2, <1>4, <1>5, <1>6, PathGoes
<1>8. PathPolicy'
  <2>1. g5'[h] = r /\ \A k \in Paths.Handler : k # h => g5'[k] = g5[k]
    BY <1>2 DEF PathHolds, PathCallers
  <2>2. \A k \in Paths.Handler : k # h => g5[k].at # "store"
    BY <1>1, PathAlone
  <2>3. PathStale => g6 \/ \E k \in Paths.Handler : g5'[k].at = "invalidate"
    BY <1>1, <2>1 DEF PathStale
  <2> QED BY <1>1, <1>5, <2>1, <2>2, <2>3 DEF PathHolds, PathPolicy, PathStale, p, Path!None
<1> QED BY <1>7, <1>8 DEF PathHolds

\* A policy gets into the cache.
LEMMA PathStores ==
  ASSUME PathHolds, NEW h \in Paths.Handler, Path!Store(h)
  PROVE  PathHolds'
<1>1. /\ UNCHANGED <<g1, g4, g6>> /\ g2' = g5[h].draft /\ g5[h].at = "store"
      /\ g3' = IF g3 = h THEN Path!None ELSE g3
  BY DEF Path!Store, Path!At
<1>2. PICK s \in {"done", "ban"} : s = Path!After(h)
  BY DEF Path!After
<1>3. s \in Path!Stage
  BY DEF Path!Stage
<1> DEFINE p == Path!None
<1> DEFINE r == [g5[h] EXCEPT !.at = s, !.draft = p]
<1>4. g5' = [g5 EXCEPT ![h] = r]
  BY <1>2, Zenon DEF Path!Store, Path!Set
<1>5. g5[h] \in Path!Doing /\ PathFair(g5[h]) /\ PathSees(g5[h], g1, g4)
  BY <1>1, PathDoing
<1>6. g1 \in Path!Conf /\ g4 \in BOOLEAN /\ p \in Paths.Policy \cup {Path!None}
  BY DEF PathHolds, PathCallers
<1>7. g3 = h /\ (g5[h].draft = g1.policy \/ PathStale)
  BY <1>1 DEF PathHolds, PathPolicy
<1>8. g5[h].draft \in Paths.Policy \cup {Path!None}
  BY <1>5 DEF Path!Doing
<1> HIDE DEF p
<1>9. /\ r \in Path!Doing /\ r.at = s /\ r.free = g5[h].free
      /\ r.modes = g5[h].modes /\ r.keys = g5[h].keys /\ r.refused = g5[h].refused
  <2> DEFINE m == [g5[h] EXCEPT !.at = s]
  <2>1. /\ m \in Path!Doing /\ m.at = s /\ m.free = g5[h].free /\ m.modes = g5[h].modes
        /\ m.keys = g5[h].keys /\ m.refused = g5[h].refused
    BY <1>3, <1>5, PathStaged
  <2>2. r = [m EXCEPT !.draft = p]
    BY Zenon
  <2> HIDE DEF m, r
  <2> QED BY <1>6, <2>1, <2>2 DEF Path!Doing
<1> HIDE DEF r
<1>10. PathFair(r) /\ PathSees(r, g1, g4)
  <2>1. ~g5[h].refused
    BY ONLY <1>1, <1>5 DEF PathFair
  <2> QED BY ONLY <1>2, <1>5, <1>9, <2>1 DEF PathFair, PathSees
<1>11. PathCallers'
  <2>1. r.at # "emit" /\ g5[h].at # "stream"
    BY <1>1, <1>2, <1>9
  <2> QED BY <1>1, <1>4, <1>6, <1>9, <1>10, <2>1, PathGoes
<1>12. PathPolicy'
  <2>1. g5'[h] = r /\ \A k \in Paths.Handler : k # h => g5'[k] = g5[k]
    BY <1>4 DEF PathHolds, PathCallers
  <2>2. \A k \in Paths.Handler : k # h => g5[k].at # "store"
    BY <1>7, PathAlone
  <2>3. PathStale => g6 \/ \E k \in Paths.Handler : g5'[k].at = "invalidate"
    BY <1>1, <2>1 DEF PathStale
  <2>4. r.at # "store"
    BY <1>2, <1>9
  <2> QED BY <1>1, <1>7, <1>8, <2>1, <2>2, <2>3, <2>4 DEF PathHolds, PathPolicy, PathStale, Path!None
<1> QED BY <1>11, <1>12 DEF PathHolds

\* The policy is changed, and soon dropped from the cache.
LEMMA PathUpdates ==
  ASSUME PathHolds, NEW h \in Paths.Handler, Path!Update(h)
  PROVE  PathHolds'
<1> DEFINE to(s, c) == Path!Set(h, [g5[h] EXCEPT !.at = s, !.code = c])
<1> DEFINE posted == \E d \in Paths.Configured :
                       g1' = [g1 EXCEPT !.policy = d.policy, !.told = d.told]
<1>0. PICK s \in Path!Stage, c \in Path!Code :
        to(s, c) /\ ((s = "invalidate" /\ posted) \/ (s = "done" /\ g1' = g1))
  <2>1. "invalidate" \in Path!Stage /\ "done" \in Path!Stage
        /\ 200 \in Path!Code /\ \A c \in {400, 405} : c \in Path!Code
    BY DEF Path!Stage, Path!Code
  <2>2. \/ posted /\ to("invalidate", 200)
        \/ \E c \in {400, 405} : to("done", c) /\ g1' = g1
    BY Zenon DEF Path!Update, Path!End
  <2> HIDE DEF to, posted
  <2> QED BY <2>1, <2>2, Zenon
<1>1. UNCHANGED <<g2, g3, g4, g6>> /\ g5[h].at = "update"
  BY DEF Path!Update, Path!At
<1> DEFINE r == [g5[h] EXCEPT !.at = s, !.code = c]
<1> DEFINE m == [g5[h] EXCEPT !.at = s]
<1>2. g5' = [g5 EXCEPT ![h] = r]
  BY <1>0, Zenon DEF Path!Set
<1>3. g5[h] \in Path!Doing /\ PathFair(g5[h]) /\ PathSees(g5[h], g1, g4)
  BY <1>1, PathDoing
<1>4. g1 \in Path!Conf /\ g4 \in BOOLEAN
  BY DEF PathHolds, PathCallers
<1>5. g1' \in Path!Conf /\ g1'.strict = g1.strict /\ g1'.keys = g1.keys
  <2> SUFFICES ASSUME g1' # g1 PROVE g1' \in Path!Conf /\ g1'.strict = g1.strict /\ g1'.keys = g1.keys
    BY <1>4
  <2>1. PICK d \in Paths.Configured : g1' = [g1 EXCEPT !.policy = d.policy, !.told = d.told]
    BY <1>0
  <2>2. d.policy \in Paths.Policy /\ d.told \in BOOLEAN
    BY PathAssumed DEF Path!Conf
  <2>3. PICK p \in Paths.Policy, b \in BOOLEAN : p = d.policy /\ b = d.told
    BY <2>2
  <2> DEFINE f == [g1 EXCEPT !.policy = p]
  <2>4. f \in Path!Conf /\ f.strict = g1.strict /\ f.keys = g1.keys
    BY <1>4 DEF Path!Conf
  <2>5. g1' = [f EXCEPT !.told = b]
    BY <2>1, <2>3, Zenon
  <2> HIDE DEF f
  <2> QED BY <2>4, <2>5 DEF Path!Conf
<1>6. /\ m \in Path!Doing /\ m.at = s /\ m.req = g5[h].req /\ m.free = g5[h].free
      /\ m.modes = g5[h].modes /\ m.keys = g5[h].keys /\ m.refused = g5[h].refused
  BY <1>3, PathStaged
<1>7. r = [m EXCEPT !.code = c]
  BY Zenon
<1> HIDE DEF m, r
<1>8. /\ r \in Path!Doing /\ r.at = s /\ r.req = g5[h].req /\ r.free = g5[h].free
      /\ r.modes = g5[h].modes /\ r.keys = g5[h].keys /\ r.refused = g5[h].refused
  BY <1>6, <1>7, PathEnded
<1>9. PathFair(r) /\ PathSees(r, g1, g4)
  <2>1. ~g5[h].refused
    BY ONLY <1>1, <1>3 DEF PathFair
  <2>2. s \in {"invalidate", "done"}
    BY <1>0
  <2> QED BY ONLY <1>1, <1>3, <1>8, <2>1, <2>2 DEF PathFair, PathSees
<1>10. PathCallers'
  <2>1. r.at # "emit" /\ g5[h].at # "stream"
    BY <1>0, <1>1, <1>8
  <2> QED BY <1>1, <1>2, <1>4, <1>5, <1>8, <1>9, <2>1, PathGoes
<1>11. PathPolicy'
  <2>1. g5'[h] = r /\ \A k \in Paths.Handler : k # h => g5'[k] = g5[k]
    BY <1>2 DEF PathHolds, PathCallers
  <2>2. CASE s = "invalidate"
    BY <1>1, <1>8, <2>1, <2>2 DEF PathHolds, PathPolicy, PathStale, Path!None
  <2>3. CASE s = "done" /\ g1' = g1
    <3>1. r.at = "done"
      BY <1>8, <2>3
    <3>2. PathStale => PathStale'
      BY <1>1, <2>1 DEF PathStale
    <3> QED BY <1>1, <2>1, <2>3, <3>1, <3>2 DEF PathHolds, PathPolicy, Path!None
  <2> QED BY <1>0, <2>2, <2>3
<1> QED BY <1>10, <1>11 DEF PathHolds

\* It is dropped, when nobody puts one there.
LEMMA PathInvalidates ==
  ASSUME PathHolds, NEW h \in Paths.Handler, Path!Invalidate(h)
  PROVE  PathHolds'
<1>0. PICK s \in Path!Stage, c \in Path!Code :
        s \in {"again", "done"} /\ Path!Set(h, [g5[h] EXCEPT !.at = s, !.code = c])
  <2>1. CASE Path!Goto(h, "again")
    <3>1. g5[h] \in Path!Doing /\ "again" \in Path!Stage
      BY PathDoing DEF Path!Invalidate, Path!At, Path!Stage
    <3>2. g5[h].code \in Path!Code /\ [g5[h] EXCEPT !.at = "again", !.code = g5[h].code]
                                       = [g5[h] EXCEPT !.at = "again"]
      BY <3>1 DEF Path!Doing
    <3> QED BY <2>1, <3>1, <3>2, Zenon DEF Path!Goto
  <2>2. CASE Path!End(h, 500)
    <3>1. "done" \in Path!Stage /\ 500 \in Path!Code
      BY DEF Path!Stage, Path!Code
    <3> QED BY <2>2, <3>1, Zenon DEF Path!End
  <2> QED BY <2>1, <2>2 DEF Path!Invalidate
<1>1. /\ UNCHANGED <<g1, g3, g4>> /\ g5[h].at = "invalidate" /\ g3 = Path!None
      /\ g2' = Path!None /\ g6' = FALSE
  BY DEF Path!Invalidate, Path!At
<1> DEFINE r == [g5[h] EXCEPT !.at = s, !.code = c]
<1> DEFINE m == [g5[h] EXCEPT !.at = s]
<1>2. g5' = [g5 EXCEPT ![h] = r]
  BY <1>0, Zenon DEF Path!Set
<1>3. g5[h] \in Path!Doing /\ PathFair(g5[h]) /\ PathSees(g5[h], g1, g4)
  BY <1>1, PathDoing
<1>4. g1 \in Path!Conf /\ g4 \in BOOLEAN
  BY DEF PathHolds, PathCallers
<1>5. /\ r \in Path!Doing /\ r.at = s /\ r.free = g5[h].free
      /\ r.modes = g5[h].modes /\ r.keys = g5[h].keys /\ r.refused = g5[h].refused
  <2>1. /\ m \in Path!Doing /\ m.at = s /\ m.free = g5[h].free
        /\ m.modes = g5[h].modes /\ m.keys = g5[h].keys /\ m.refused = g5[h].refused
    BY <1>3, PathStaged
  <2>2. r = [m EXCEPT !.code = c]
    BY Zenon
  <2> HIDE DEF m, r
  <2> QED BY <2>1, <2>2, PathEnded
<1> HIDE DEF m, r
<1>6. PathFair(r) /\ PathSees(r, g1, g4)
  <2>1. ~g5[h].refused
    BY ONLY <1>1, <1>3 DEF PathFair
  <2> QED BY ONLY <1>0, <1>3, <1>5, <2>1 DEF PathFair, PathSees
<1>7. PathCallers'
  BY <1>0, <1>1, <1>2, <1>4, <1>5, <1>6, PathGoes
<1>8. PathPolicy'
  <2>1. g5'[h] = r /\ \A k \in Paths.Handler : k # h => g5'[k] = g5[k]
    BY <1>2 DEF PathHolds, PathCallers
  <2>2. \A k \in Paths.Handler : g5[k].at # "store"
    BY <1>1, PathAssumed DEF PathHolds, PathPolicy
  <2> QED BY <1>0, <1>1, <1>5, <2>1, <2>2 DEF PathPolicy, Path!None
<1> QED BY <1>7, <1>8 DEF PathHolds

\* Several callers change what they have announced or wait for, or leave their stream.
LEMMA PathMany ==
  ASSUME PathHolds, UNCHANGED <<g1, g2, g3, g4, g6>>,
         g5' \in [Paths.Handler -> Path!Doing \cup {Path!Idle}],
         \A k \in Paths.Handler : g5'[k] = g5[k] \/
           /\ g5[k] # Path!Idle /\ PathFair(g5'[k]) /\ PathSees(g5'[k], g1, g4)
           /\ g5[k].at \in {"emit", "stream"}
           /\ g5'[k].at = g5[k].at \/ (g5[k].at = "stream" /\ g5'[k].at = "done"),
         \A j, k \in Paths.Handler :
           g5'[j].at = "emit" /\ <<k, TRUE>> \in g5'[j].left => g5'[k].at = "stream"
  PROVE  PathHolds'
<1>1. PathCallers'
  <2>1. ASSUME NEW k \in Paths.Handler, g5'[k] # Path!Idle
        PROVE  PathFair(g5'[k]) /\ PathSees(g5'[k], g1, g4)
    <3>1. g5[k] # Path!Idle => PathFair(g5[k]) /\ PathSees(g5[k], g1, g4)
      BY DEF PathHolds, PathCallers
    <3> QED BY <2>1, <3>1
  <2>2. g1 \in Path!Conf /\ g4 \in BOOLEAN
    BY DEF PathHolds, PathCallers
  <2>3. g1' = g1 /\ g4' = g4
    OBVIOUS
  <2>4. ASSUME NEW k \in Paths.Handler, g5'[k] # Path!Idle
        PROVE  PathFair(g5'[k]) /\ PathSees(g5'[k], g1', g4')
    BY <2>1, <2>3, <2>4
  <2>5. ASSUME NEW j \in Paths.Handler, NEW k \in Paths.Handler,
               g5'[j].at = "emit", <<k, TRUE>> \in g5'[j].left
        PROVE  g5'[k].at = "stream"
    BY <2>5
  <2>6. g5' \in [Paths.Handler -> Path!Doing \cup {Path!Idle}]
    OBVIOUS
  <2> QED BY ONLY <2>2, <2>3, <2>4, <2>5, <2>6 DEF PathCallers, Path!Idle, PathFair, PathSees
<1>2. PathPolicy'
  <2>1. \A k \in Paths.Handler : g5[k].at = "invalidate" => g5'[k].at = "invalidate"
    OBVIOUS
  <2>2. \A k \in Paths.Handler : g5'[k].at = "store" => g5'[k] = g5[k]
    OBVIOUS
  <2>3. PathStale => PathStale'
    BY <2>1 DEF PathStale
  <2> QED BY <2>2, <2>3 DEF PathHolds, PathPolicy, Path!None
<1> QED BY <1>1, <1>2 DEF PathHolds

\* An event waits, or it was taken, ...
LEMMA PathWaits ==
  ASSUME NEW r \in Path!Doing, NEW w \in 0..Paths.Queue
  PROVE  LET n == [r EXCEPT !.held = w]
         IN /\ n \in Path!Doing /\ n.code = r.code /\ n.at = r.at /\ n.req = r.req /\ n.left = r.left
            /\ n.free = r.free /\ n.modes = r.modes /\ n.keys = r.keys /\ n.refused = r.refused
BY DEF Path!Doing

\* ... and another list of streams is left.
LEMMA PathLeft ==
  ASSUME NEW r \in Path!Doing, NEW S \in SUBSET (Paths.Handler \X BOOLEAN)
  PROVE  LET n == [r EXCEPT !.left = S]
         IN /\ n \in Path!Doing /\ n.code = r.code /\ n.at = r.at /\ n.req = r.req /\ n.left = S
            /\ n.free = r.free /\ n.modes = r.modes /\ n.keys = r.keys /\ n.refused = r.refused
BY DEF Path!Doing

\* What matters of it is the same.
PathAlike(r, q) ==
  /\ r.code = q.code /\ r.at = q.at /\ r.req = q.req /\ r.free = q.free /\ r.modes = q.modes
  /\ r.keys = q.keys /\ r.refused = q.refused

\* A refusal is announced to a stream, or breaks.
LEMMA PathEmits ==
  ASSUME PathHolds, NEW h \in Paths.Handler, Path!Emit(h)
  PROVE  PathHolds'
<1>1. UNCHANGED <<g1, g2, g3, g4, g6>> /\ g4 \in BOOLEAN /\ g5[h].at = "emit"
  BY DEF Path!Emit, Path!At, PathHolds, PathCallers
<1>2. g5[h] \in Path!Doing /\ PathFair(g5[h]) /\ PathSees(g5[h], g1, g4)
  BY <1>1, PathDoing
<1>3. PICK to \in g5[h].left :
        IF ~to[2] THEN Path!Goto(h, "panic")
        ELSE g5' = [g5 EXCEPT ![h].left = @ \ {to},
                              ![to[1]].held = IF @ < Paths.Queue THEN @ + 1 ELSE @]
  BY DEF Path!Emit
<1>4. to \in Paths.Handler \X BOOLEAN /\ g5[h].left \subseteq Paths.Handler \X BOOLEAN
  BY <1>2, <1>3 DEF Path!Doing
<1>5. CASE ~to[2]
  <2>1. "panic" \in Path!Stage
    BY DEF Path!Stage
  <2> QED BY <1>1, <1>3, <1>5, <2>1, PathTurns
<1>6. CASE to[2]
  <2> DEFINE k == to[1]
  <2> DEFINE S == g5[h].left \ {to}
  <2> DEFINE w == IF g5[k].held < Paths.Queue THEN g5[k].held + 1 ELSE g5[k].held
  <2> DEFINE r == [g5[h] EXCEPT !.left = S]
  <2> DEFINE q == [g5[k] EXCEPT !.held = w]
  <2>1. k \in Paths.Handler /\ <<k, TRUE>> \in g5[h].left
    <3>1. PICK i \in Paths.Handler, b \in BOOLEAN : to = <<i, b>>
      BY <1>4
    <3>2. b = TRUE
      BY <1>6, <3>1
    <3> QED BY <1>3, <3>1, <3>2
  <2>2. g5[k].at = "stream"
    BY <1>1, <2>1 DEF PathHolds, PathCallers
  <2>3. k # h
    BY <1>1, <2>2
  <2>4. g5[k] \in Path!Doing /\ PathFair(g5[k]) /\ PathSees(g5[k], g1, g4)
    BY <2>1, <2>2, PathDoing
  <2>5. w \in 0..Paths.Queue
    BY <2>4, PathAssumed DEF Path!Doing
  <2>6. S \in SUBSET (Paths.Handler \X BOOLEAN)
    BY <1>4
  <2>7. g5 \in [Paths.Handler -> Path!Doing \cup {Path!Idle}]
    BY DEF PathHolds, PathCallers
  <2>8. g5' = [[g5 EXCEPT ![h] = r] EXCEPT ![k] = q]
    BY <1>3, <1>6, <2>1, <2>3, <2>7
  <2> HIDE DEF w, S
  <2>9. r \in Path!Doing /\ PathAlike(r, g5[h]) /\ r.left = S
    BY <1>2, <2>6, PathLeft DEF PathAlike
  <2>10. q \in Path!Doing /\ PathAlike(q, g5[k])
    BY <2>4, <2>5, PathWaits DEF PathAlike
  <2> HIDE DEF r, q, k
  <2>11. PathFair(r) /\ PathSees(r, g1, g4) /\ r.at = "emit"
    BY <1>1, <1>2, <2>9 DEF PathAlike, PathFair, PathSees
  <2>12. PathFair(q) /\ PathSees(q, g1, g4) /\ q.at = "stream"
    BY <2>2, <2>4, <2>10 DEF PathAlike, PathFair, PathSees
  <2>13. /\ g5' \in [Paths.Handler -> Path!Doing \cup {Path!Idle}]
         /\ g5'[h] = r /\ g5'[k] = q
         /\ \A j \in Paths.Handler : j # h /\ j # k => g5'[j] = g5[j]
    BY <2>1, <2>3, <2>7, <2>8, <2>9, <2>10
  <2>14. \A j \in Paths.Handler : g5'[j] = g5[j] \/
           /\ g5[j] # Path!Idle /\ PathFair(g5'[j]) /\ PathSees(g5'[j], g1, g4)
           /\ g5[j].at \in {"emit", "stream"} /\ g5'[j].at = g5[j].at
    BY <1>1, <2>2, <2>11, <2>12, <2>13 DEF Path!Idle
  <2>15. ASSUME NEW j \in Paths.Handler, NEW i \in Paths.Handler,
                g5'[j].at = "emit", <<i, TRUE>> \in g5'[j].left
         PROVE  g5'[i].at = "stream"
    <3>1. g5[j].at = "emit" /\ <<i, TRUE>> \in g5[j].left
      BY <1>1, <2>9, <2>12, <2>13, <2>15 DEF S
    <3>2. g5[i].at = "stream"
      BY <3>1 DEF PathHolds, PathCallers
    <3> QED BY <2>14, <3>2
  <2> QED BY <1>1, <2>13, <2>14, <2>15, PathMany
<1> QED BY <1>5, <1>6

\* An event is taken.
LEMMA PathDelivers ==
  ASSUME PathHolds, NEW h \in Paths.Handler, Path!Deliver(h)
  PROVE  PathHolds'
<1> DEFINE w == g5[h].held - 1
<1> DEFINE r == [g5[h] EXCEPT !.held = w]
<1>1. /\ UNCHANGED <<g1, g2, g3, g4, g6>> /\ g4 \in BOOLEAN /\ g5[h].at = "stream"
      /\ g5[h].held > 0
  BY DEF Path!Deliver, Path!At, PathHolds, PathCallers
<1>2. g5[h] \in Path!Doing /\ PathFair(g5[h]) /\ PathSees(g5[h], g1, g4)
  BY <1>1, PathDoing
<1>3. w \in 0..Paths.Queue
  BY <1>1, <1>2, PathAssumed DEF Path!Doing
<1>4. g5' = [g5 EXCEPT ![h] = r]
  BY Zenon DEF Path!Deliver, Path!Set
<1> HIDE DEF w
<1>5. r \in Path!Doing /\ PathAlike(r, g5[h])
  BY <1>2, <1>3, PathWaits DEF PathAlike
<1> HIDE DEF r
<1>6. PathFair(r) /\ PathSees(r, g1, g4) /\ r.at = "stream"
  BY <1>1, <1>2, <1>5 DEF PathAlike, PathFair, PathSees
<1>7. r # Path!Idle /\ r.at \notin {"emit", "store"} /\ g5[h].at # "invalidate"
  BY <1>1, <1>6 DEF Path!Idle
<1> QED BY <1>1, <1>4, <1>5, <1>6, <1>7, PathMoves

\* A stream is left, and closed for those who have copied the list.
LEMMA PathLeaves ==
  ASSUME PathHolds, NEW h \in Paths.Handler, Path!Leave(h)
  PROVE  PathHolds'
<1>0. PICK s \in Path!Stage, c \in Path!Code, w \in 0..Paths.Queue : s = "done" /\ c = 200 /\ w = 0
  BY PathAssumed DEF Path!Stage, Path!Code
<1>1. UNCHANGED <<g1, g2, g3, g4, g6>> /\ g5[h].at = "stream"
  BY DEF Path!Leave, Path!At
<1> DEFINE S(g) == (g5[g].left \ {<<h, TRUE>>}) \cup {<<h, FALSE>>}
<1> DEFINE R(g) == [g5[g] EXCEPT !.left = S(g)]
<1> DEFINE Has(g) == g5[g].at = "emit" /\ <<h, TRUE>> \in g5[g].left
<1> DEFINE r == [g5[h] EXCEPT !.at = s, !.code = c, !.held = w]
<1>2. g5' = [g \in Paths.Handler |-> IF g = h THEN r ELSE IF Has(g) THEN R(g) ELSE g5[g]]
  BY <1>0, Zenon DEF Path!Leave, Path!At
<1>3. g5[h] \in Path!Doing /\ PathFair(g5[h]) /\ PathSees(g5[h], g1, g4)
  BY <1>1, PathDoing
<1>4. /\ r \in Path!Doing /\ r.at = s /\ r.free = g5[h].free
      /\ r.modes = g5[h].modes /\ r.keys = g5[h].keys /\ r.refused = g5[h].refused
  <2> DEFINE m == [g5[h] EXCEPT !.at = s]
  <2> DEFINE n == [m EXCEPT !.code = c]
  <2>1. /\ m \in Path!Doing /\ m.at = s /\ m.free = g5[h].free /\ m.modes = g5[h].modes
        /\ m.keys = g5[h].keys /\ m.refused = g5[h].refused
    BY <1>3, PathStaged
  <2>2. r = [n EXCEPT !.held = w]
    BY Zenon
  <2> HIDE DEF m, r
  <2>3. /\ n \in Path!Doing /\ n.at = s /\ n.free = g5[h].free /\ n.modes = g5[h].modes
        /\ n.keys = g5[h].keys /\ n.refused = g5[h].refused
    BY <2>1, PathEnded
  <2> HIDE DEF n
  <2> QED BY <2>2, <2>3, PathWaits
<1> HIDE DEF r
<1>5. PathFair(r) /\ PathSees(r, g1, g4)
  <2>1. ~g5[h].refused
    BY ONLY <1>1, <1>3 DEF PathFair
  <2> QED BY ONLY <1>0, <1>3, <1>4, <2>1 DEF PathFair, PathSees
<1>6. ASSUME NEW g \in Paths.Handler, Has(g)
      PROVE  /\ R(g) \in Path!Doing /\ R(g).at = "emit" /\ R(g).left = S(g)
             /\ PathFair(R(g)) /\ PathSees(R(g), g1, g4) /\ g5[g] # Path!Idle
  <2>1. g5[g] \in Path!Doing /\ PathFair(g5[g]) /\ PathSees(g5[g], g1, g4)
    BY <1>6, PathDoing
  <2>2. S(g) \in SUBSET (Paths.Handler \X BOOLEAN)
    <3>1. g5[g].left \subseteq Paths.Handler \X BOOLEAN
      BY <2>1 DEF Path!Doing
    <3>2. <<h, FALSE>> \in Paths.Handler \X BOOLEAN
      OBVIOUS
    <3> QED BY <3>1, <3>2
  <2> DEFINE T == S(g)
  <2> DEFINE q == [g5[g] EXCEPT !.left = T]
  <2> HIDE DEF S
  <2>3. T \in SUBSET (Paths.Handler \X BOOLEAN)
    BY <2>2
  <2> HIDE DEF T
  <2>4. q \in Path!Doing /\ PathAlike(q, g5[g]) /\ q.left = T
    BY <2>1, <2>3, PathLeft DEF PathAlike
  <2> HIDE DEF q
  <2>5. PathFair(q) /\ PathSees(q, g1, g4) /\ q.at = "emit"
    BY <1>6, <2>1, <2>4 DEF PathAlike, PathFair, PathSees
  <2>6. R(g) = q
    BY DEF q, T
  <2>7. g5[g] # Path!Idle
    BY <1>6 DEF Path!Idle
  <2> QED BY <2>4, <2>5, <2>6, <2>7 DEF T
<1>7. g5 \in [Paths.Handler -> Path!Doing \cup {Path!Idle}]
  BY DEF PathHolds, PathCallers
<1>8. /\ g5'[h] = r
      /\ \A g \in Paths.Handler : g # h /\ Has(g) => g5'[g] = R(g)
      /\ \A g \in Paths.Handler : g # h /\ ~Has(g) => g5'[g] = g5[g]
  <2> HIDE DEF Has, R, S
  <2> QED BY <1>2
<1>9. g5' \in [Paths.Handler -> Path!Doing \cup {Path!Idle}]
  <2> HIDE DEF Has, R, S
  <2>1. \A g \in Paths.Handler : Has(g) => R(g) \in Path!Doing
    BY <1>6
  <2> QED BY <1>2, <1>4, <1>7, <2>1
<1>10. \A g \in Paths.Handler : g5'[g] = g5[g] \/
         /\ g5[g] # Path!Idle /\ PathFair(g5'[g]) /\ PathSees(g5'[g], g1, g4)
         /\ g5[g].at \in {"emit", "stream"}
         /\ g5'[g].at = g5[g].at \/ (g5[g].at = "stream" /\ g5'[g].at = "done")
  <2>1. ASSUME NEW g \in Paths.Handler, g # h, Has(g)
        PROVE  /\ g5[g] # Path!Idle /\ PathFair(g5'[g]) /\ PathSees(g5'[g], g1, g4)
               /\ g5[g].at = "emit" /\ g5'[g].at = g5[g].at
    <3>1. g5'[g] = R(g)
      BY <1>8, <2>1
    <3> HIDE DEF R, S
    <3> QED BY <1>6, <2>1, <3>1
  <2>2. g5[h] # Path!Idle /\ r.at = "done"
    BY <1>0, <1>1, <1>4 DEF Path!Idle
  <2> HIDE DEF Has, R, S
  <2> QED BY <1>1, <1>5, <1>8, <2>1, <2>2
<1>11. ASSUME NEW j \in Paths.Handler, NEW k \in Paths.Handler,
              g5'[j].at = "emit", <<k, TRUE>> \in g5'[j].left
       PROVE  g5'[k].at = "stream"
  <2>1. j # h
    BY <1>0, <1>4, <1>8, <1>11
  <2>2. g5[j].at = "emit" /\ <<k, TRUE>> \in g5[j].left /\ k # h
    <3>1. CASE Has(j)
      <4>1. g5'[j].left = S(j)
        BY <1>6, <1>8, <2>1, <3>1
      <4> QED BY <1>11, <3>1, <4>1
    <3>2. CASE ~Has(j)
      <4>1. g5'[j] = g5[j]
        BY <1>8, <2>1, <3>2
      <4> QED BY <1>11, <3>2, <4>1
    <3> QED BY <3>1, <3>2
  <2>3. g5[k].at = "stream"
    BY <2>2 DEF PathHolds, PathCallers
  <2>4. ~Has(k)
    BY <2>3
  <2>5. g5'[k] = g5[k]
    BY <1>8, <2>2, <2>4
  <2> QED BY <2>3, <2>5
<1> HIDE DEF Has, R, S
<1> QED BY <1>1, <1>9, <1>10, <1>11, PathMany

\* Who is under way sees another configuration, or another ban.
LEMMA PathSeen ==
  ASSUME PathHolds, NEW c \in Path!Conf, NEW b \in BOOLEAN, g5' = Path!Seen(c, b),
         g1' = c, g4' = b
  PROVE  /\ PathCallers'
         /\ \A h \in Paths.Handler : g5'[h].at = g5[h].at /\ g5'[h].draft = g5[h].draft
<1> DEFINE F(h) == g5[h].free \/ ~b
<1> DEFINE M(h) == g5[h].modes \cup {c.strict}
<1> DEFINE K(h) == g5[h].keys \cup c.keys
<1> DEFINE R(h) == [g5[h] EXCEPT !.free = F(h), !.modes = M(h), !.keys = K(h)]
<1>1. g5' = [h \in Paths.Handler |-> IF g5[h] = Path!Idle THEN Path!Idle ELSE R(h)]
  BY Zenon DEF Path!Seen
<1>2. c.strict \in BOOLEAN /\ c.keys \subseteq Path!Role
  BY DEF Path!Conf
<1>3. g5 \in [Paths.Handler -> Path!Doing \cup {Path!Idle}]
  BY DEF PathHolds, PathCallers
<1>4. ASSUME NEW h \in Paths.Handler, g5[h] # Path!Idle
      PROVE  /\ R(h) \in Path!Doing /\ R(h).at = g5[h].at /\ R(h).left = g5[h].left
             /\ R(h).draft = g5[h].draft
             /\ PathFair(R(h)) /\ PathSees(R(h), c, b)
  <2> DEFINE f == F(h)
  <2> DEFINE m == M(h)
  <2> DEFINE k == K(h)
  <2>1. g5[h] \in Path!Doing /\ PathFair(g5[h])
    BY <1>4 DEF PathHolds, PathCallers
  <2>2. /\ f \in BOOLEAN /\ m \in SUBSET BOOLEAN /\ k \in SUBSET Path!Role
        /\ (g5[h].free => f) /\ (b \/ f)
        /\ g5[h].modes \subseteq m /\ c.strict \in m
        /\ g5[h].keys \subseteq k /\ c.keys \subseteq k
    <3>1. g5[h].free \in BOOLEAN /\ g5[h].modes \subseteq BOOLEAN /\ g5[h].keys \subseteq Path!Role
      BY <2>1 DEF Path!Doing
    <3>2. f \in BOOLEAN /\ (g5[h].free => f) /\ (b \/ f)
      BY <3>1
    <3>3. m \in SUBSET BOOLEAN /\ g5[h].modes \subseteq m /\ c.strict \in m
      BY <1>2, <3>1
    <3>4. k \in SUBSET Path!Role /\ g5[h].keys \subseteq k /\ c.keys \subseteq k
      BY <1>2, <3>1
    <3> QED BY <3>2, <3>3, <3>4
  <2> DEFINE r == [g5[h] EXCEPT !.free = f, !.modes = m, !.keys = k]
  <2>3. R(h) = r
    OBVIOUS
  <2> HIDE DEF f, m, k, R
  <2> DEFINE n == [g5[h] EXCEPT !.free = f]
  <2> DEFINE q == [n EXCEPT !.modes = m]
  <2>7. /\ n \in Path!Doing /\ n.code = g5[h].code /\ n.at = g5[h].at /\ n.req = g5[h].req
        /\ n.left = g5[h].left /\ n.draft = g5[h].draft /\ n.free = f /\ n.refused = g5[h].refused
        /\ n.modes = g5[h].modes /\ n.keys = g5[h].keys
    BY <2>1, <2>2 DEF Path!Doing
  <2>8. r = [q EXCEPT !.keys = k]
    BY Zenon
  <2> HIDE DEF n, r
  <2>9. /\ q \in Path!Doing /\ q.code = n.code /\ q.at = n.at /\ q.req = n.req
        /\ q.left = n.left /\ q.draft = n.draft /\ q.free = n.free /\ q.refused = n.refused
        /\ q.modes = m /\ q.keys = n.keys
    BY <2>2, <2>7 DEF Path!Doing
  <2> HIDE DEF q
  <2>10. /\ r \in Path!Doing /\ r.code = q.code /\ r.at = q.at /\ r.req = q.req
         /\ r.left = q.left /\ r.draft = q.draft /\ r.free = q.free /\ r.refused = q.refused
         /\ r.modes = q.modes /\ r.keys = k
    BY <2>2, <2>8, <2>9 DEF Path!Doing
  <2>4. /\ r \in Path!Doing /\ r.code = g5[h].code /\ r.at = g5[h].at /\ r.req = g5[h].req
        /\ r.left = g5[h].left /\ r.draft = g5[h].draft /\ r.free = f /\ r.modes = m /\ r.keys = k
        /\ r.refused = g5[h].refused
    BY ONLY <2>7, <2>9, <2>10
  <2>5. PathFair(r)
    <3>1. /\ r.refused = g5[h].refused /\ r.at = g5[h].at /\ r.code = g5[h].code
          /\ r.req = g5[h].req /\ (g5[h].free => r.free)
          /\ g5[h].modes \subseteq r.modes /\ g5[h].keys \subseteq r.keys
      BY ONLY <2>2, <2>4
    <3>2. /\ r.refused => r.at \in {"emit", "panic", "done"}
          /\ r.refused /\ r.at = "done" => r.code \in {403, 500}
      BY ONLY <2>1, <3>1 DEF PathFair
    <3>3. r.at \in {"waf", "auth", "serve", "update", "invalidate"} => r.free
      BY ONLY <2>1, <3>1 DEF PathFair
    <3>4. r.at \in {"auth", "serve", "update", "invalidate"} =>
            ~r.req.odd /\ (r.req.text = "strict" => FALSE \in r.modes)
      BY ONLY <2>1, <3>1 DEF PathFair
    <3>5. r.at \in {"serve", "update", "invalidate"} /\ r.req.to # "public" =>
            r.req.role \in r.keys
      BY ONLY <2>1, <3>1 DEF PathFair
    <3> QED BY ONLY <3>2, <3>3, <3>4, <3>5 DEF PathFair
  <2>6. PathSees(r, c, b)
    BY ONLY <2>2, <2>4 DEF PathSees
  <2> QED BY <2>3, <2>4, <2>5, <2>6
<1> HIDE DEF R
<1>5. ASSUME NEW h \in Paths.Handler
      PROVE  /\ g5[h] = Path!Idle => g5'[h] = Path!Idle
             /\ g5[h] # Path!Idle => g5'[h] = R(h)
  BY <1>1
<1>6. \A h \in Paths.Handler : g5'[h].at = g5[h].at /\ g5'[h].draft = g5[h].draft
  BY <1>4, <1>5
<1>7. g5' \in [Paths.Handler -> Path!Doing \cup {Path!Idle}]
  BY <1>1, <1>4
<1>8. ASSUME NEW h \in Paths.Handler, g5'[h] # Path!Idle
      PROVE  PathFair(g5'[h]) /\ PathSees(g5'[h], g1', g4')
  BY <1>4, <1>5, <1>8
<1>9. ASSUME NEW j \in Paths.Handler, NEW k \in Paths.Handler,
             g5'[j].at = "emit", <<k, TRUE>> \in g5'[j].left
      PROVE  g5'[k].at = "stream"
  <2>1. g5[j].at = "emit" /\ g5[j] # Path!Idle
    BY <1>6, <1>9 DEF Path!Idle
  <2>2. g5'[j].left = g5[j].left
    BY <1>4, <1>5, <2>1
  <2>3. g5[k].at = "stream"
    BY <1>9, <2>1, <2>2 DEF PathHolds, PathCallers
  <2> QED BY <1>6, <2>3
<1>10. PathCallers'
  <2>1. g1' \in Path!Conf /\ g4' \in BOOLEAN
    OBVIOUS
  <2> QED BY ONLY <1>7, <1>8, <1>9, <2>1 DEF PathCallers, Path!Idle, PathFair, PathSees
<1> QED BY <1>6, <1>10

\* The configuration is reloaded.
LEMMA PathReloads ==
  ASSUME PathHolds, NEW c \in Paths.Configured, Path!Reload(c)
  PROVE  PathHolds'
<1>1. /\ g1' = c /\ g5' = Path!Seen(c, g4) /\ UNCHANGED <<g2, g3, g4>>
      /\ g6' = (g6 \/ (c.policy # g1.policy /\ (g2 # Path!None \/ g3 # Path!None)))
  BY DEF Path!Reload
<1>2. c \in Path!Conf /\ g4 \in BOOLEAN
  BY PathAssumed DEF PathHolds, PathCallers
<1>3. PathCallers' /\ \A h \in Paths.Handler : g5'[h].at = g5[h].at /\ g5'[h].draft = g5[h].draft
  BY <1>1, <1>2, PathSeen
<1>4. PathPolicy'
  <2>1. PathStale => g6 \/ \E k \in Paths.Handler : g5'[k].at = "invalidate"
    BY <1>3 DEF PathStale
  <2>2. g6 \in BOOLEAN
    BY DEF PathHolds, PathPolicy
  <2>3. g6' \in BOOLEAN /\ (g6 => g6')
    BY <1>1, <2>2
  <2>4. \A h \in Paths.Handler : g5[h].at = "store" => g3 # Path!None
    BY PathAssumed DEF PathHolds, PathPolicy
  <2>5. c.policy # g1.policy /\ (g2 # Path!None \/ g3 # Path!None) => g6'
    BY <1>1
  <2> QED BY <1>1, <1>3, <2>1, <2>3, <2>4, <2>5 DEF PathHolds, PathPolicy, PathStale, Path!None
<1> QED BY <1>3, <1>4 DEF PathHolds

\* A ban begins or ends.
LEMMA PathSentences ==
  ASSUME PathHolds, NEW b \in BOOLEAN, Path!Sentence(b)
  PROVE  PathHolds'
<1>1. g4' = b /\ g5' = Path!Seen(g1, b) /\ UNCHANGED <<g1, g2, g3, g6>>
  BY DEF Path!Sentence
<1>2. g1 \in Path!Conf
  BY DEF PathHolds, PathCallers
<1>3. PathCallers' /\ \A h \in Paths.Handler : g5'[h].at = g5[h].at /\ g5'[h].draft = g5[h].draft
  BY <1>1, <1>2, PathSeen
<1>4. PathPolicy'
  <2>1. PathStale => g6 \/ \E k \in Paths.Handler : g5'[k].at = "invalidate"
    BY <1>3 DEF PathStale
  <2> QED BY <1>1, <1>3, <2>1 DEF PathHolds, PathPolicy, PathStale, Path!None
<1> QED BY <1>3, <1>4 DEF PathHolds

\* Every step of the path keeps its invariant.
LEMMA PathKeeps == PathHolds /\ Path!Next => PathHolds'
<1> SUFFICES ASSUME PathHolds, Path!Next PROVE PathHolds'
  OBVIOUS
<1>1. ASSUME NEW h \in Paths.Handler, Path!Handle(h) PROVE PathHolds'
  <2>1. ASSUME NEW r \in Paths.Incoming, Path!Arrive(h, r) PROVE PathHolds'
    BY <2>1, PathArrives
  <2>2. CASE Path!Head(h) \/ Path!Found(h)
    BY <2>2, PathHeads
  <2>3. CASE Path!Generate(h)
    BY <2>3, PathGenerates
  <2>4. CASE Path!Store(h)
    BY <2>4, PathStores
  <2>5. CASE Path!Ban(h)
    BY <2>5, PathBans
  <2>6. CASE Path!Waf(h)
    BY <2>6, PathFilters
  <2>7. CASE Path!Emit(h)
    BY <2>7, PathEmits
  <2>8. CASE Path!Block(h) \/ Path!Recover(h)
    BY <2>8, PathBlocks
  <2>9. CASE Path!Auth(h)
    BY <2>9, PathAuthorizes
  <2>10. CASE Path!Serve(h)
    BY <2>10, PathServes
  <2>11. CASE Path!Update(h)
    BY <2>11, PathUpdates
  <2>12. CASE Path!Invalidate(h)
    BY <2>12, PathInvalidates
  <2>13. CASE Path!Deliver(h)
    BY <2>13, PathDelivers
  <2>14. CASE Path!Leave(h)
    BY <2>14, PathLeaves
  <2>15. CASE Path!Rest(h)
    BY <2>15, PathRests
  <2> QED BY <1>1, <2>1, <2>2, <2>3, <2>4, <2>5, <2>6, <2>7, <2>8, <2>9, <2>10, <2>11, <2>12, <2>13,
             <2>14, <2>15 DEF Path!Handle
<1>2. ASSUME NEW c \in Paths.Configured, Path!Reload(c) PROVE PathHolds'
  BY <1>2, PathReloads
<1>3. ASSUME NEW b \in BOOLEAN, Path!Sentence(b) PROVE PathHolds'
  BY <1>3, PathSentences
<1> QED BY <1>1, <1>2, <1>3 DEF Path!Next

\* Every nonempty set of numbers has a least one.
LEMMA LeastNumber ==
  ASSUME NEW T \in SUBSET Nat, T # {}
  PROVE \E n \in T : \A m \in T : n <= m
<1>1. IsWellFoundedOn(OpToRel(<, Nat), Nat)
  BY NatLessThanWellFounded
<1>2. PICK n \in T : \A m \in T : ~(<<m, n>> \in OpToRel(<, Nat))
  BY <1>1, WFMin, Zenon
<1>3. ASSUME NEW m \in T, m < n PROVE <<m, n>> \in OpToRel(<, Nat)
  <2>1. m \in Nat /\ n \in Nat
    OBVIOUS
  <2>2. <<m, n>> \in Nat \X Nat /\ <<m, n>>[1] < <<m, n>>[2]
    BY <1>3, <2>1
  <2> QED BY <2>2 DEF OpToRel
<1>4. \A m \in T : ~(m < n)
  BY <1>2, <1>3, Zenon
<1>5. T \subseteq Nat /\ n \in Nat
  OBVIOUS
<1>6. \A m \in T : n <= m
  BY <1>4, <1>5, SMT
<1> QED BY <1>6

-----------------------------------------------------------------------------
(* The stores: labels and seals, and revisions. *)

\* What Knowledge assumes of the constants of a piece.
LEMMA StockAssumed ==
  ASSUME NEW p \in DOMAIN Stocks
  PROVE  /\ Stocks[p].UserKey \subseteq Nat \ {0}
         /\ \A e \in Stocks[p].Item \cup Stocks[p].Seed : e.level \in 0..3
BY GuardsAssumption DEF Stock!KnowledgeAssumption, Stock!Level

\* An entry that is put has the label of its level and of the key there was.
StockNamed(p, r) ==
  /\ "at" \in DOMAIN r /\ r.item.level \in 0..3
  /\ r.label = (CASE r.item.level = 0 -> Stock(p)!Open [] r.item.level = 1 -> "system"
                  [] r.item.level = 2 -> (IF r.saw # 0 THEN "user" ELSE "system")
                  [] OTHER -> "dual")

\* A file names what it is sealed with.
StockSealed(f) == ~f.raced => f.label = f.seal[1]

\* Revisions are given once, up to the counter.
StockGiven(T, n) ==
  /\ \A r \in T : r.rev \in Nat /\ r.rev <= n
  /\ \A r, s \in T : r.rev = s.rev => r = s

\* What the shared information consists of.
StockInfo(i) == i = [table |-> i.table, rev |-> i.rev, file |-> i.file, made |-> i.made]

\* The invariant of the stores.
StockHolds(p) ==
  /\ DOMAIN g4 = Stocks[p].Worker
  /\ \A w \in Stocks[p].Worker : g4[w].at = "save" => StockNamed(p, g4[w])
  /\ \A f \in g2 : StockSealed(f)
  /\ StockInfo(g6) /\ g6.rev \in Nat
  /\ StockGiven(g6.table, g6.rev) /\ StockGiven(g6.file, g6.rev)

\* The entries of an empty knowledge base are sealed as they say.
LEMMA StockPlants ==
  ASSUME NEW p \in DOMAIN Stocks, NEW new
  PROVE  \A f \in Stock(p)!Planted(new) : StockSealed(f)
<1> SUFFICES ASSUME NEW f \in Stock(p)!Planted(new) PROVE f.label = f.seal[1]
  BY DEF StockSealed
<1>1. PICK e \in DOMAIN new :
        f = [id |-> e, item |-> new[e], label |-> IF new[e].level = 0 THEN Stock(p)!Open ELSE "system",
             seal |-> IF new[e].level = 0 THEN <<Stock(p)!Open>> ELSE <<"system">>, raced |-> FALSE]
  BY Zenon DEF Stock!Planted
<1>2. /\ f.label = (IF new[e].level = 0 THEN Stock(p)!Open ELSE "system")
      /\ f.seal = (IF new[e].level = 0 THEN <<Stock(p)!Open>> ELSE <<"system">>)
  BY <1>1
<1>3. CASE new[e].level = 0
  <2>1. f.label = Stock(p)!Open /\ f.seal = <<Stock(p)!Open>>
    BY <1>2, <1>3
  <2> QED BY ONLY <2>1
<1>4. CASE new[e].level # 0
  BY <1>2, <1>4
<1> QED BY <1>3, <1>4

\* It holds at the start, ...
LEMMA StockStarts ==
  ASSUME NEW p \in DOMAIN Stocks, Stock(p)!Init
  PROVE  StockHolds(p)
<1>1. PICK new : g2 = Stock(p)!Planted(new)
  BY DEF Stock!Init
<1>2. /\ g4 = [w \in Stocks[p].Worker |-> Stock(p)!Idle]
      /\ g6 = [table |-> {}, file |-> {}, rev |-> 0, made |-> 0]
  BY DEF Stock!Init
<1>3. \A f \in g2 : StockSealed(f)
  BY <1>1, StockPlants
<1> QED BY <1>2, <1>3 DEF StockHolds, StockInfo, StockGiven, Stock!Idle

\* ... and it means what is said of keys and revisions.
LEMMA StockHoldsAgrees ==
  ASSUME NEW p \in DOMAIN Stocks, StockHolds(p)
  PROVE  Stock(p)!SealedAsNamed /\ Stock(p)!RevisionsLive
<1>1. Stock(p)!SealedAsNamed
  BY DEF StockHolds, StockSealed, Stock!SealedAsNamed
<1>2. Stock(p)!RevisionsLive
  BY DEF StockHolds, StockGiven, Stock!RevisionsLive
<1> QED BY <1>1, <1>2

\* One worker goes on.
LEMMA StockGoes ==
  ASSUME NEW p \in DOMAIN Stocks, StockHolds(p), NEW w \in Stocks[p].Worker, NEW r,
         g4' = [g4 EXCEPT ![w] = r], r.at = "save" => StockNamed(p, r)
  PROVE  /\ DOMAIN g4' = Stocks[p].Worker
         /\ \A v \in Stocks[p].Worker : g4'[v].at = "save" => StockNamed(p, g4'[v])
<1>1. DOMAIN g4' = Stocks[p].Worker /\ g4'[w] = r
      /\ \A v \in Stocks[p].Worker : v # w => g4'[v] = g4[v]
  BY DEF StockHolds
<1> QED BY <1>1 DEF StockHolds

\* A step that touches none of this.
LEMMA StockRests ==
  ASSUME NEW p \in DOMAIN Stocks, StockHolds(p), UNCHANGED <<g4, g6>>, g2' \subseteq g2
  PROVE  StockHolds(p)'
BY DEF StockHolds, StockNamed, StockSealed, StockInfo, StockGiven

\* An entry is labelled with the key there is.
LEMMA StockBegins ==
  ASSUME NEW p \in DOMAIN Stocks, StockHolds(p), NEW w \in Stocks[p].Worker,
         NEW e \in Stocks[p].Item, Stock(p)!Begin(w, e)
  PROVE  StockHolds(p)'
<1> DEFINE r == [at |-> "save", item |-> e, id |-> g1.made + 1, label |-> Stock(p)!Label(e),
                 saw |-> g3]
<1>1. g4' = [g4 EXCEPT ![w] = r] /\ UNCHANGED <<g2, g6>>
  BY Zenon DEF Stock!Begin, Stock!Set
<1>2. StockNamed(p, r)
  BY StockAssumed DEF StockNamed, Stock!Label
<1> HIDE DEF r
<1>3. /\ DOMAIN g4' = Stocks[p].Worker
      /\ \A v \in Stocks[p].Worker : g4'[v].at = "save" => StockNamed(p, g4'[v])
  BY <1>1, <1>2, StockGoes
<1> QED BY <1>1, <1>3 DEF StockHolds, StockNamed, StockSealed, StockInfo, StockGiven

\* It is sealed and written: under its label, unless the key was taken away.
LEMMA StockSaves ==
  ASSUME NEW p \in DOMAIN Stocks, StockHolds(p), NEW w \in Stocks[p].Worker, Stock(p)!Save(w)
  PROVE  StockHolds(p)'
<1> DEFINE q == g4[w]
<1> DEFINE keys == Stock(p)!KeyFor(q.item, q.label)
<1> DEFINE file(k) == [id |-> q.id, item |-> q.item, label |-> q.label, seal |-> k,
                       raced |-> q.saw # 0 /\ g3 = 0]
<1>1. q.at = "save" /\ UNCHANGED g6
  BY DEF Stock!Save
<1>2. StockNamed(p, q)
  BY <1>1 DEF StockHolds
<1>3. ASSUME NEW k \in keys PROVE StockSealed(file(k))
  <2>1. /\ file(k).label = q.label /\ file(k).seal = k
        /\ ~file(k).raced => (q.saw = 0 \/ g3 # 0)
    OBVIOUS
  <2> HIDE DEF file, q
  <2>2. q.saw = 0 \/ g3 # 0 => q.label = k[1]
    <3>1. CASE q.item.level = 0
      <4>1. k = <<Stock(p)!Open>> /\ q.label = Stock(p)!Open
        BY <1>2, <1>3, <3>1 DEF Stock!KeyFor, StockNamed
      <4> QED BY <4>1
    <3>2. CASE q.item.level = 1
      BY <1>2, <1>3, <3>2 DEF Stock!KeyFor, StockNamed
    <3>3. CASE q.item.level = 2
      BY <1>2, <1>3, <3>3 DEF Stock!KeyFor, StockNamed
    <3>4. CASE q.item.level = 3
      BY <1>2, <1>3, <3>4 DEF Stock!KeyFor, StockNamed
    <3>5. q.item.level \in 0..3
      BY <1>2 DEF StockNamed
    <3> QED BY <3>1, <3>2, <3>3, <3>4, <3>5
  <2> QED BY <2>1, <2>2 DEF StockSealed
<1>4. PICK r : /\ g4' = [g4 EXCEPT ![w] = r] /\ r.at # "save"
               /\ g2' = g2 \/ \E k \in keys : g2' = g2 \cup {file(k)}
  <2> HIDE DEF file
  <2>1. CASE Stock(p)!Set(w, Stock(p)!Idle) /\ g2' = g2
    <3>1. g4' = [g4 EXCEPT ![w] = Stock(p)!Idle] /\ g2' = g2
      BY <2>1, Zenon DEF Stock!Set
    <3>2. Stock(p)!Idle.at # "save"
      BY DEF Stock!Idle
    <3> QED BY <3>1, <3>2, Zenon
  <2>2. CASE \E k \in keys : /\ g2' = g2 \cup {file(k)}
                           /\ Stock(p)!Set(w, [q EXCEPT !.at = "enter"])
    <3> DEFINE r == [q EXCEPT !.at = "enter"]
    <3>1. g4' = [g4 EXCEPT ![w] = r] /\ \E k \in keys : g2' = g2 \cup {file(k)}
      BY <2>2, Zenon DEF Stock!Set
    <3>2. r.at # "save"
      BY <1>2 DEF StockNamed
    <3> QED BY <3>1, <3>2, Zenon
  <2>3. \/ Stock(p)!Set(w, Stock(p)!Idle) /\ g2' = g2
        \/ \E k \in keys : /\ g2' = g2 \cup {file(k)}
                           /\ Stock(p)!Set(w, [q EXCEPT !.at = "enter"])
    BY Zenon DEF Stock!Save, file
  <2> QED BY <2>1, <2>2, <2>3
<1> HIDE DEF file, keys
<1>5. \A f \in g2' : StockSealed(f)
  BY <1>3, <1>4 DEF StockHolds
<1>6. /\ DOMAIN g4' = Stocks[p].Worker
      /\ \A v \in Stocks[p].Worker : g4'[v].at = "save" => StockNamed(p, g4'[v])
  BY <1>4, StockGoes
<1> QED BY <1>1, <1>5, <1>6 DEF StockHolds, StockNamed, StockSealed, StockInfo, StockGiven

\* A record is added with the next revision, and saved or not.
LEMMA StockAdds ==
  ASSUME NEW p \in DOMAIN Stocks, StockHolds(p), NEW who, NEW e, Stock(p)!Add(who, e)
  PROVE  StockHolds(p)'
<1> DEFINE r == [id |-> g6.made + 1, rev |-> g6.rev + 1,
                 tenant |-> IF e THEN "*" ELSE who.tenant, everyone |-> e]
<1> DEFINE T == g6.table \cup {r}
<1>1. UNCHANGED <<g2, g4>>
  BY DEF Stock!Add
<1>2. PICK F \in {g6.file, T} : g6' = [table |-> T, rev |-> r.rev, file |-> F, made |-> r.id]
  BY DEF Stock!Add, Stock!Saved
<1>3. r.rev = g6.rev + 1 /\ g6.rev \in Nat
  BY DEF StockHolds
<1> HIDE DEF r
<1>4. StockGiven(T, r.rev) /\ StockGiven(g6.file, r.rev)
  BY <1>3 DEF StockHolds, StockGiven
<1> HIDE DEF T
<1>5. StockInfo(g6') /\ g6'.table = T /\ g6'.file = F /\ g6'.rev = r.rev /\ r.rev \in Nat
  BY <1>2, <1>3 DEF StockInfo
<1>6. StockGiven(F, r.rev)
  BY <1>2, <1>4
<1> QED BY <1>1, <1>4, <1>5, <1>6 DEF StockHolds, StockNamed, StockSealed, StockInfo, StockGiven

\* A record is deleted.
LEMMA StockDeletes ==
  ASSUME NEW p \in DOMAIN Stocks, StockHolds(p), NEW w \in Stocks[p].Worker,
         Stock(p)!DeleteRecord(w)
  PROVE  StockHolds(p)'
<1> DEFINE T == g6.table \ {g4[w].record}
<1>1. g2' = g2 /\ g4' = [g4 EXCEPT ![w] = Stock(p)!Idle]
  BY DEF Stock!DeleteRecord, Stock!Set
<1>2. PICK F \in {g6.file, T} : g6' = [g6 EXCEPT !.table = T, !.file = F]
  BY DEF Stock!DeleteRecord, Stock!Saved
<1>3. StockInfo(g6) /\ g6.rev \in Nat /\ StockGiven(T, g6.rev) /\ StockGiven(g6.file, g6.rev)
  BY DEF StockHolds, StockGiven
<1> HIDE DEF T
<1>4. StockInfo(g6') /\ g6'.table = T /\ g6'.file = F /\ g6'.rev = g6.rev
  BY <1>2, <1>3 DEF StockInfo
<1>5. StockGiven(F, g6.rev)
  BY <1>2, <1>3
<1>6. /\ DOMAIN g4' = Stocks[p].Worker
      /\ \A v \in Stocks[p].Worker : g4'[v].at = "save" => StockNamed(p, g4'[v])
  BY <1>1, StockGoes DEF Stock!Idle
<1> QED BY <1>1, <1>3, <1>4, <1>5, <1>6 DEF StockHolds, StockNamed, StockSealed, StockInfo, StockGiven

\* A bounded set of numbers has a greatest one.
LEMMA GreatestNumber ==
  ASSUME NEW n \in Nat, NEW S \in SUBSET (0..n), S # {}
  PROVE  \E m \in S : \A k \in S : m >= k
<1> DEFINE T == {i \in Nat : \A k \in S : k <= i}
<1>1. T \in SUBSET Nat /\ n \in T
  OBVIOUS
<1>2. PICK m \in T : \A i \in T : m <= i
  <2> HIDE DEF T
  <2> QED BY <1>1, LeastNumber
<1>3. m \in S
  <2>1. SUFFICES ASSUME m \notin S PROVE FALSE
    OBVIOUS
  <2>2. PICK k \in S : TRUE
    OBVIOUS
  <2>5. k \in Nat /\ k <= m /\ k # m
    BY <1>2, <2>1
  <2>3. \A i \in S : i <= m - 1
    BY <1>2, <2>1
  <2>4. m - 1 \in T
    BY <1>2, <2>5, <2>3
  <2> QED BY <1>2, <2>4
<1> QED BY <1>2, <1>3

\* The counter goes on from the greatest revision of the file.
LEMMA StockRestored ==
  ASSUME NEW p \in DOMAIN Stocks, NEW n \in Nat, NEW F, \A r \in F : r.rev \in Nat /\ r.rev <= n
  PROVE  /\ Stock(p)!Restored(F) \in Nat
         /\ \A r \in F : r.rev <= Stock(p)!Restored(F)
<1> DEFINE S == {0} \cup {r.rev : r \in F}
<1>1. S \in SUBSET (0..n) /\ S # {}
  OBVIOUS
<1>2. Stock(p)!Restored(F) = CHOOSE m \in S : \A k \in S : m >= k
  BY Zenon DEF Stock!Restored, Stock!Max
<1>3. \A r \in F : r.rev \in S
  OBVIOUS
<1> HIDE DEF S
<1>4. \E m \in S : \A k \in S : m >= k
  BY <1>1, GreatestNumber
<1>5. Stock(p)!Restored(F) \in S /\ \A k \in S : Stock(p)!Restored(F) >= k
  BY <1>2, <1>4, Zenon
<1>6. Stock(p)!Restored(F) \in Nat
  <2> DEFINE m == Stock(p)!Restored(F)
  <2>1. m \in 0..n
    BY <1>1, <1>5
  <2> HIDE DEF m
  <2>2. m \in Nat
    BY <2>1
  <2> QED BY <2>2 DEF m
<1> QED BY <1>1, <1>3, <1>5, <1>6

\* A start reads the file, puts the seeds and forgets the rest.
LEMMA StockRestarts ==
  ASSUME NEW p \in DOMAIN Stocks, StockHolds(p), Stock(p)!Restart
  PROVE  StockHolds(p)'
<1> DEFINE F == g6.file
<1> DEFINE n == Stock(p)!Restored(F)
<1>1. PICK new : g2' = g2 \cup Stock(p)!Planted(new)
  BY DEF Stock!Restart
<1>2. /\ g4' = [w \in Stocks[p].Worker |-> Stock(p)!Idle]
      /\ g6' = [g6 EXCEPT !.table = F, !.rev = n]
  BY Zenon DEF Stock!Restart
<1>3. \A f \in g2' : StockSealed(f)
  BY <1>1, StockPlants DEF StockHolds
<1>4. n \in Nat /\ StockGiven(F, n)
  BY StockRestored DEF StockHolds, StockGiven
<1>5. StockInfo(g6)
  BY DEF StockHolds
<1> HIDE DEF n
<1>6. StockInfo(g6') /\ g6'.table = F /\ g6'.file = F /\ g6'.rev = n
  BY <1>2, <1>5 DEF StockInfo
<1>7. /\ DOMAIN g4' = Stocks[p].Worker
      /\ \A w \in Stocks[p].Worker : g4'[w].at # "save"
  BY <1>2 DEF Stock!Idle
<1> QED BY <1>3, <1>4, <1>6, <1>7 DEF StockHolds, StockSealed, StockInfo, StockGiven

\* A worker enters what it put, or looks at a record.
LEMMA StockMoves ==
  ASSUME NEW p \in DOMAIN Stocks, StockHolds(p), NEW w \in Stocks[p].Worker,
         Stock(p)!Enter(w) \/ \E who \in Stocks[p].Who, r \in g6.table : Stock(p)!Look(w, who, r)
  PROVE  StockHolds(p)'
<1>1. /\ UNCHANGED <<g2, g6>>
      /\ \E r : g4' = [g4 EXCEPT ![w] = r] /\ r.at # "save"
  <2>1. CASE Stock(p)!Enter(w)
    <3>1. UNCHANGED <<g2, g6>> /\ g4' = [g4 EXCEPT ![w] = Stock(p)!Idle]
      BY <2>1 DEF Stock!Enter, Stock!Set
    <3>2. Stock(p)!Idle.at # "save"
      BY DEF Stock!Idle
    <3> QED BY <3>1, <3>2, Zenon
  <2>2. ASSUME NEW who \in Stocks[p].Who, NEW e \in g6.table, Stock(p)!Look(w, who, e)
        PROVE  /\ UNCHANGED <<g2, g6>>
               /\ \E r : g4' = [g4 EXCEPT ![w] = r] /\ r.at # "save"
    <3> DEFINE r == [at |-> "delete", record |-> e]
    <3>1. UNCHANGED <<g2, g6>> /\ g4' = [g4 EXCEPT ![w] = r]
      BY <2>2 DEF Stock!Look, Stock!Set
    <3>2. r.at # "save"
      OBVIOUS
    <3> QED BY <3>1, <3>2, Zenon
  <2> QED BY <2>1, <2>2
<1>2. PICK r : g4' = [g4 EXCEPT ![w] = r] /\ r.at # "save"
  BY <1>1
<1>3. /\ DOMAIN g4' = Stocks[p].Worker
      /\ \A v \in Stocks[p].Worker : g4'[v].at = "save" => StockNamed(p, g4'[v])
  BY <1>2, StockGoes
<1> QED BY <1>1, <1>3 DEF StockHolds, StockNamed, StockSealed, StockInfo, StockGiven

\* Every step of the stores keeps the invariant.
LEMMA StockKeeps ==
  ASSUME NEW p \in DOMAIN Stocks, StockHolds(p), Stock(p)!Next
  PROVE  StockHolds(p)'
<1>1. ASSUME NEW w \in Stocks[p].Worker, NEW id, Stock(p)!DeleteEntry(w, id)
      PROVE  StockHolds(p)'
  <2>1. UNCHANGED <<g4, g6>> /\ g2' \subseteq g2
    BY <1>1 DEF Stock!DeleteEntry
  <2> QED BY <2>1, StockRests
<1>2. ASSUME NEW w \in Stocks[p].Worker, NEW key, Stock(p)!SetUserKey(w, key)
      PROVE  StockHolds(p)'
  <2>1. UNCHANGED <<g4, g6>> /\ g2' \subseteq g2
    BY <1>2 DEF Stock!SetUserKey
  <2> QED BY <2>1, StockRests
<1>3. ASSUME NEW doc, \/ \E text \in Stocks[p].Text : Stock(p)!Ingest(doc, text)
                      \/ Stock(p)!DeleteDoc(doc)
      PROVE  StockHolds(p)'
  <2>1. UNCHANGED <<g2, g4, g6>>
    BY <1>3, Zenon DEF Stock!Ingest, Stock!DeleteDoc
  <2> QED BY <2>1, StockRests
<1>4. ASSUME NEW who, NEW n, Stock(p)!SavePack(who, n) PROVE StockHolds(p)'
  <2>1. UNCHANGED <<g2, g4, g6>>
    BY <1>4 DEF Stock!SavePack
  <2> QED BY <2>1, StockRests
<1>5. ASSUME NEW who \in Stocks[p].Who, NEW e \in BOOLEAN, Stock(p)!Add(who, e)
      PROVE  StockHolds(p)'
  BY <1>5, StockAdds
<1>6. ASSUME NEW w \in Stocks[p].Worker,
             \/ \E e \in Stocks[p].Item : Stock(p)!Begin(w, e)
             \/ Stock(p)!Save(w) \/ Stock(p)!DeleteRecord(w)
      PROVE  StockHolds(p)'
  BY <1>6, StockBegins, StockSaves, StockDeletes
<1> QED BY <1>1, <1>2, <1>3, <1>4, <1>5, <1>6, StockMoves, StockRestarts, Zenon DEF Stock!Next

-----------------------------------------------------------------------------
(* The assistant: what is kept of a conversation. *)

\* What the assistant assumes of its constants.
LEMMA DeskAssumed == ASSUME NEW p \in DOMAIN Desks PROVE Desk(p)!AssistantAssumption
BY GuardsAssumption

\* The end of a sequence.
LEMMA LastIs ==
  ASSUME NEW p, NEW S, NEW s \in Seq(S), NEW n \in 0..Len(s)
  PROVE  Desk(p)!Last(s, n) = [i \in 1..n |-> s[Len(s) - n + i]]
<1> DEFINE a == Len(s) - n + 1
           l == SubSeq(s, a, Len(s))
<1>1. a \in Int /\ Len(s) \in Int /\ \A i \in a..Len(s) : s[i] \in S
  OBVIOUS
<1>2. /\ l \in Seq(S)
      /\ Len(l) = IF a <= Len(s) THEN Len(s) - a + 1 ELSE 0
      /\ \A i \in 1..(Len(s) - a + 1) : l[i] = s[a + i - 1]
  <2> HIDE DEF a
  <2> QED BY <1>1, SubSeqProperties
<1>3. Desk(p)!Last(s, n) = l
  BY DEF Desk!Last
<1> HIDE DEF a, l
<1>4. a = Len(s) - n + 1 /\ Len(s) \in Nat /\ n \in Nat /\ n <= Len(s)
  BY DEF a
<1>5. \A i \in 1..n : l[i] = s[Len(s) - n + i]
  <2>1. Len(s) - a + 1 = n /\ \A i \in 1..n : a + i - 1 = Len(s) - n + i
    BY <1>4
  <2> QED BY <1>2, <2>1
<1>6. Len(l) = n
  BY <1>2, <1>4
<1>7. l = [i \in 1..n |-> l[i]]
  BY <1>2, <1>6
<1> QED BY <1>3, <1>5, <1>7

\* The same of every desk and sequence at once, to be cited among other facts.
LEMMA LastOf ==
  \A p, S : \A s \in Seq(S) : \A n \in 0..Len(s) :
    Desk(p)!Last(s, n) = [i \in 1..n |-> s[Len(s) - n + i]]
<1> SUFFICES ASSUME NEW p, NEW S, NEW s \in Seq(S), NEW n \in 0..Len(s)
             PROVE  Desk(p)!Last(s, n) = [i \in 1..n |-> s[Len(s) - n + i]]
  OBVIOUS
<1> QED BY LastIs

\* ... which is a sequence.
LEMMA LastIn ==
  ASSUME NEW p, NEW S, NEW s \in Seq(S), NEW n \in 0..Len(s)
  PROVE  Desk(p)!Last(s, n) \in Seq(S) /\ Len(Desk(p)!Last(s, n)) = n
<1>1. Desk(p)!Last(s, n) = [i \in 1..n |-> s[Len(s) - n + i]]
  BY ONLY LastOf, s \in Seq(S), n \in 0..Len(s)
<1>2. n \in Nat /\ \A i \in 1..n : s[Len(s) - n + i] \in S
  OBVIOUS
<1> QED BY <1>1, <1>2

\* A sequence without one of its places.
LEMMA WithoutOf ==
  ASSUME NEW p, NEW S, NEW s \in Seq(S), NEW k \in 1..Len(s)
  PROVE  /\ Desk(p)!Without(s, k) \in Seq(S) /\ Len(Desk(p)!Without(s, k)) = Len(s) - 1
         /\ \A i \in 1..(Len(s) - 1) :
              Desk(p)!Without(s, k)[i] = IF i < k THEN s[i] ELSE s[i + 1]
<1> DEFINE l == SubSeq(s, 1, k - 1)
           r == SubSeq(s, k + 1, Len(s))
<1>1. /\ l \in Seq(S) /\ Len(l) = k - 1
      /\ \A i \in 1..(k - 1) : l[i] = s[i]
  <2>1. 1 \in Int /\ k - 1 \in Int /\ \A i \in 1..(k - 1) : s[i] \in S
    OBVIOUS
  <2>2. /\ l \in Seq(S) /\ Len(l) = IF 1 <= k - 1 THEN k - 1 - 1 + 1 ELSE 0
        /\ \A i \in 1..(k - 1 - 1 + 1) : l[i] = s[1 + i - 1]
    BY <2>1, SubSeqProperties
  <2>3. k \in Nat /\ k >= 1
    OBVIOUS
  <2>4. k - 1 - 1 + 1 = k - 1 /\ \A i \in 1..(k - 1) : 1 + i - 1 = i
    BY <2>3
  <2> HIDE DEF l
  <2>5. Len(l) = k - 1
    BY <2>2, <2>3
  <2> QED BY <2>2, <2>4, <2>5
<1>2. /\ r \in Seq(S) /\ Len(r) = Len(s) - k
      /\ \A i \in 1..(Len(s) - k) : r[i] = s[k + i]
  <2>1. k + 1 \in Int /\ Len(s) \in Int /\ \A i \in (k + 1)..Len(s) : s[i] \in S
    OBVIOUS
  <2>2. /\ r \in Seq(S) /\ Len(r) = IF k + 1 <= Len(s) THEN Len(s) - (k + 1) + 1 ELSE 0
        /\ \A i \in 1..(Len(s) - (k + 1) + 1) : r[i] = s[k + 1 + i - 1]
    BY <2>1, SubSeqProperties
  <2> HIDE DEF r
  <2> QED BY <2>2
<1>3. Desk(p)!Without(s, k) = l \o r
  BY DEF Desk!Without
<1> HIDE DEF l, r
<1>4. /\ l \o r \in Seq(S) /\ Len(l \o r) = Len(l) + Len(r)
      /\ \A i \in 1..(Len(l) + Len(r)) : (l \o r)[i] = IF i <= Len(l) THEN l[i] ELSE r[i - Len(l)]
  BY <1>1, <1>2, ConcatProperties
<1>5. Len(s) \in Nat /\ k \in Nat /\ k <= Len(s) /\ k >= 1
  OBVIOUS
<1>6. ASSUME NEW i \in 1..(Len(s) - 1)
      PROVE  (l \o r)[i] = IF i < k THEN s[i] ELSE s[i + 1]
  <2>1. (l \o r)[i] = IF i <= k - 1 THEN l[i] ELSE r[i - (k - 1)]
    BY <1>1, <1>2, <1>4, <1>5
  <2>2. CASE i < k
    BY <1>1, <1>5, <2>1, <2>2
  <2>3. CASE ~(i < k)
    BY <1>2, <1>5, <2>1, <2>3
  <2> QED BY <2>2, <2>3
<1>7. Len(l \o r) = Len(s) - 1
  <2> HIDE DEF l, r
  <2> QED BY <1>1, <1>2, <1>4, <1>5
<1>8. \A i \in 1..(Len(s) - 1) : (l \o r)[i] = IF i < k THEN s[i] ELSE s[i + 1]
  BY <1>6, Zenon
<1> QED BY <1>3, <1>4, <1>7, <1>8, Zenon

\* What a conversation has of what was said, place by place, with any window: its newest
\* messages, and none of the system before them ...
Newest(s, m) ==
  /\ Len(m) <= Len(s)
  /\ \A i \in 1..Len(m) : m[i] = s[Len(s) - Len(m) + i]
  /\ \A i \in 1..(Len(s) - Len(m)) : ~s[i].system

\* ... or the first message of the system and the newest of the others.
Headed(s, m) ==
  /\ Len(m) > 0 /\ Len(m) <= Len(s) /\ m[1].system
  /\ m[1].n \in 1..Len(s) /\ m[1] = s[m[1].n]
  /\ \A i \in 1..(m[1].n - 1) : ~s[i].system
  /\ \A i \in 2..Len(m) :
       m[i] = IF Len(s) - Len(m) + i <= m[1].n THEN s[Len(s) - Len(m) + i - 1]
              ELSE s[Len(s) - Len(m) + i]

\* The messages are numbered as they are said.
Numbered(s) == \A i \in 1..Len(s) : s[i].n = i

\* One more message is said and entered.
LEMMA OneMore ==
  ASSUME NEW S, NEW s \in Seq(S), NEW m \in Seq(S), NEW x \in S,
         Newest(s, m) \/ Headed(s, m)
  PROVE  Newest(Append(s, x), Append(m, x)) \/ Headed(Append(s, x), Append(m, x))
<1> DEFINE t == Append(s, x)
           o == Append(m, x)
<1>1. /\ t \in Seq(S) /\ Len(t) = Len(s) + 1 /\ t[Len(s) + 1] = x
      /\ \A i \in 1..Len(s) : t[i] = s[i]
  BY AppendProperties
<1>2. /\ o \in Seq(S) /\ Len(o) = Len(m) + 1 /\ o[Len(m) + 1] = x
      /\ \A i \in 1..Len(m) : o[i] = m[i]
  BY AppendProperties
<1>3. Len(s) \in Nat /\ Len(m) \in Nat
  OBVIOUS
<1> HIDE DEF t, o
<1>4. CASE Newest(s, m)
  <2>1. Len(o) <= Len(t)
    BY <1>1, <1>2, <1>3, <1>4 DEF Newest
  <2>2. ASSUME NEW i \in 1..Len(o) PROVE o[i] = t[Len(t) - Len(o) + i]
    <3>1. CASE i = Len(m) + 1
      BY <1>1, <1>2, <1>3, <3>1
    <3>2. CASE i # Len(m) + 1
      <4>1. /\ i \in 1..Len(m) /\ Len(t) - Len(o) + i = Len(s) - Len(m) + i
            /\ Len(s) - Len(m) + i \in 1..Len(s)
        BY <1>1, <1>2, <1>3, <1>4, <3>2 DEF Newest
      <4> QED BY <1>1, <1>2, <1>4, <4>1 DEF Newest
    <3> QED BY <3>1, <3>2
  <2>3. ASSUME NEW i \in 1..(Len(t) - Len(o)) PROVE ~t[i].system
    <3>1. i \in 1..(Len(s) - Len(m)) /\ i \in 1..Len(s)
      BY <1>1, <1>2, <1>3
    <3> QED BY <1>1, <1>4, <3>1 DEF Newest
  <2> QED BY <2>1, <2>2, <2>3 DEF Newest, t, o
<1>5. CASE Headed(s, m)
  <2>1. /\ Len(o) > 0 /\ Len(o) <= Len(t) /\ o[1] = m[1] /\ 1 \in 1..Len(m)
        /\ m[1].n \in 1..Len(s) /\ m[1].n \in 1..Len(t) /\ t[m[1].n] = s[m[1].n]
    BY <1>1, <1>2, <1>3, <1>5 DEF Headed
  <2>2. ASSUME NEW i \in 1..(m[1].n - 1) PROVE ~t[i].system
    <3>1. i \in 1..Len(s)
      BY <1>3, <2>1
    <3> QED BY <1>1, <1>5, <3>1 DEF Headed
  <2>3. ASSUME NEW i \in 2..Len(o)
        PROVE  o[i] = IF Len(t) - Len(o) + i <= m[1].n THEN t[Len(t) - Len(o) + i - 1]
                      ELSE t[Len(t) - Len(o) + i]
    <3>0. Len(t) - Len(o) = Len(s) - Len(m) /\ Len(m) <= Len(s)
      BY <1>1, <1>2, <1>3, <1>5 DEF Headed
    <3>1. CASE i = Len(m) + 1
      <4>1. Len(t) - Len(o) + i = Len(s) + 1 /\ ~(Len(s) + 1 <= m[1].n)
        BY <1>1, <1>2, <1>3, <2>1, <3>0, <3>1
      <4> QED BY <1>1, <1>2, <3>1, <4>1
    <3>2. CASE i # Len(m) + 1
      <4> DEFINE c == Len(s) - Len(m) + i
      <4>1. /\ i \in 2..Len(m) /\ i \in 1..Len(m) /\ c \in 1..Len(s) /\ c - 1 \in 1..Len(s)
        BY <1>2, <1>3, <3>0, <3>2
      <4>2. o[i] = IF c <= m[1].n THEN s[c - 1] ELSE s[c]
        BY <1>2, <1>5, <4>1 DEF Headed
      <4>3. Len(t) - Len(o) + i = c
        BY <3>0
      <4>4. t[c - 1] = s[c - 1] /\ t[c] = s[c]
        BY <1>1, <4>1
      <4> HIDE DEF c
      <4> QED BY <4>2, <4>3, <4>4
    <3> QED BY <3>1, <3>2
  <2>4. /\ o[1].system /\ o[1] = t[o[1].n]
    BY <1>5, <2>1 DEF Headed
  <2> QED BY <2>1, <2>2, <2>3, <2>4 DEF Headed, t, o
<1> QED BY <1>4, <1>5 DEF t, o

\* The messages that are dropped are neither the newest nor the first of the system.
LEMMA TrimKeeps ==
  ASSUME NEW p \in DOMAIN Desks, NEW S, NEW s \in Seq(S), NEW t \in Seq(S),
         Numbered(s), Newest(s, t) \/ Headed(s, t), Len(t) <= Desks[p].MaxCtx + 1
  PROVE  /\ Desk(p)!Trim(t) \in Seq(S) /\ Len(Desk(p)!Trim(t)) <= Desks[p].MaxCtx
         /\ Newest(s, Desk(p)!Trim(t)) \/ Headed(s, Desk(p)!Trim(t))
<1> DEFINE w == Desks[p].MaxCtx
           systems == Desk(p)!Systems(t)
           first == Desk(p)!First(t)
           kept == IF first < Len(t) - w + 2 THEN w - 1 ELSE w - 2
<1>0. w \in Nat /\ w > 0
  BY DeskAssumed DEF Desk!AssistantAssumption
<1>1. Desk(p)!Trim(t) =
        IF Len(t) <= w THEN t
        ELSE IF systems = {} THEN Desk(p)!Last(t, w)
        ELSE <<t[first]>> \o Desk(p)!Last(Desk(p)!Without(t, first), kept)
  BY DEF Desk!Trim
<1>2. systems # {} =>
        /\ first \in 1..Len(t) /\ t[first].system
        /\ \A j \in 1..(first - 1) : ~t[j].system
  <2> SUFFICES ASSUME systems # {}
               PROVE  /\ first \in 1..Len(t) /\ t[first].system
                      /\ \A j \in 1..(first - 1) : ~t[j].system
    OBVIOUS
  <2>1. systems = {i \in 1..Len(t) : t[i].system} /\ systems \subseteq Nat
    BY DEF Desk!Systems
  <2>2. \E i \in systems : \A j \in systems : i <= j
    <3> HIDE DEF systems
    <3> QED BY <2>1, LeastNumber
  <2>3. first \in systems /\ \A j \in systems : first <= j
    <3>1. first = CHOOSE i \in systems : \A j \in systems : i <= j
      BY DEF Desk!First
    <3> HIDE DEF systems, first
    <3> QED BY <2>2, <3>1
  <2> HIDE DEF first, systems
  <2> QED BY <2>1, <2>3
<1>3. systems = {} => \A i \in 1..Len(t) : ~t[i].system
  BY DEF Desk!Systems
<1>4. Len(s) \in Nat /\ Len(t) \in Nat /\ Len(t) <= Len(s)
  BY DEF Newest, Headed
<1> HIDE DEF w, systems, first, kept
<1>5. CASE Len(t) <= w
  BY <1>1, <1>5 DEF w
<1>6. CASE ~(Len(t) <= w) /\ systems = {}
  <2> DEFINE m == SubSeq(t, 2, Len(t))
  <2>0. Len(t) = w + 1
    BY <1>0, <1>4, <1>6 DEF w
  <2>1. Desk(p)!Trim(t) = m
    <3>1. Len(t) - w + 1 = 2
      BY <1>0, <2>0
    <3> QED BY <1>1, <1>6, <3>1 DEF Desk!Last
  <2>2. /\ m \in Seq(S) /\ Len(m) = w
        /\ \A i \in 1..w : m[i] = t[i + 1]
    <3>1. 2 \in Int /\ Len(t) \in Int /\ \A i \in 2..Len(t) : t[i] \in S
      OBVIOUS
    <3>2. /\ m \in Seq(S) /\ Len(m) = IF 2 <= Len(t) THEN Len(t) - 2 + 1 ELSE 0
          /\ \A i \in 1..(Len(t) - 2 + 1) : m[i] = t[2 + i - 1]
      BY <3>1, SubSeqProperties
    <3>3. Len(t) - 2 + 1 = w /\ 2 <= Len(t) /\ \A i \in 1..w : 2 + i - 1 = i + 1
      BY <1>0, <2>0
    <3> HIDE DEF m
    <3> QED BY <3>2, <3>3
  <2> HIDE DEF m
  <2>3. Newest(s, t)
    <3>1. ~Headed(s, t)
      BY <1>3, <1>4, <1>6 DEF Headed
    <3> QED BY <3>1
  <2>4. ASSUME NEW i \in 1..Len(m) PROVE m[i] = s[Len(s) - Len(m) + i]
    <3>1. i + 1 \in 1..Len(t) /\ Len(s) - Len(t) + (i + 1) = Len(s) - Len(m) + i
      BY <1>0, <1>4, <2>0, <2>2
    <3> QED BY <2>2, <2>3, <3>1 DEF Newest
  <2>5. ASSUME NEW i \in 1..(Len(s) - Len(m)) PROVE ~s[i].system
    <3>1. CASE i = Len(s) - Len(m)
      <4>1. t[1] = s[i] /\ 1 \in 1..Len(t)
        <5>1. 1 \in 1..Len(t) /\ Len(s) - Len(t) + 1 = i
          BY <1>0, <1>4, <2>0, <2>2, <3>1
        <5> QED BY <2>3, <5>1 DEF Newest
      <4> QED BY <1>3, <1>6, <4>1
    <3>2. CASE i # Len(s) - Len(m)
      <4>1. i \in 1..(Len(s) - Len(t))
        BY <1>0, <1>4, <2>0, <2>2, <3>2
      <4> QED BY <2>3, <4>1 DEF Newest
    <3> QED BY <3>1, <3>2
  <2>6. Newest(s, m) /\ Len(m) <= w
    BY <1>0, <1>4, <2>0, <2>2, <2>4, <2>5 DEF Newest
  <2> QED BY <2>1, <2>2, <2>6 DEF w
<1>7. CASE ~(Len(t) <= w) /\ systems # {}
  <2> DEFINE r == Desk(p)!Without(t, first)
             l == Desk(p)!Last(r, kept)
             m == <<t[first]>> \o l
  <2>0. Len(t) = w + 1
    BY <1>0, <1>4, <1>7 DEF w
  <2>1. Desk(p)!Trim(t) = m
    BY <1>1, <1>7
  <2>2. first \in 1..Len(t) /\ t[first].system /\ \A j \in 1..(first - 1) : ~t[j].system
    BY <1>2, <1>7
  <2>3. /\ r \in Seq(S) /\ Len(r) = w
        /\ \A i \in 1..w : r[i] = IF i < first THEN t[i] ELSE t[i + 1]
    <3>1. /\ r \in Seq(S) /\ Len(r) = Len(t) - 1
          /\ \A i \in 1..(Len(t) - 1) : r[i] = IF i < first THEN t[i] ELSE t[i + 1]
      <4>1. first \in 1..Len(t)
        BY <2>2
      <4> QED BY <4>1, WithoutOf
    <3>2. Len(t) - 1 = w
      BY <1>0, <2>0
    <3> HIDE DEF r
    <3> QED BY <3>1, <3>2
  <2> HIDE DEF r
  <2>4. kept \in 0..w /\ kept = IF first < 3 THEN w - 1 ELSE w - 2
    <3>1. Len(t) - w + 2 = 3
      BY <1>0, <2>0
    <3>2. first \in Nat /\ first <= w + 1
      BY <1>0, <2>0, <2>2
    <3> QED BY <1>0, <3>1, <3>2 DEF kept
  <2>5. l \in Seq(S) /\ Len(l) = kept /\ \A i \in 1..kept : l[i] = r[w - kept + i]
    <3>1. kept \in 0..Len(r)
      BY <2>3, <2>4
    <3>0. r \in Seq(S)
      BY <2>3
    <3>2. l \in Seq(S) /\ Len(l) = kept
      BY <3>0, <3>1, LastIn
    <3>3. l = [i \in 1..kept |-> r[Len(r) - kept + i]]
      BY ONLY <3>0, <3>1, LastOf
    <3> HIDE DEF l
    <3> QED BY <2>3, <3>2, <3>3
  <2> HIDE DEF l
  <2>6. /\ m \in Seq(S) /\ Len(m) = kept + 1 /\ m[1] = t[first]
        /\ \A i \in 2..(kept + 1) : m[i] = r[w - kept + i - 1]
    <3>1. <<t[first]>> \in Seq(S) /\ Len(<<t[first]>>) = 1 /\ <<t[first]>>[1] = t[first]
      BY <2>2
    <3>2. /\ m \in Seq(S) /\ Len(m) = 1 + kept
          /\ \A i \in 1..(1 + kept) : m[i] = IF i <= 1 THEN <<t[first]>>[i] ELSE l[i - 1]
      BY <2>5, <3>1, ConcatProperties
    <3> HIDE DEF m
    <3>3. m[1] = t[first]
      BY <2>4, <3>1, <3>2
    <3>4. ASSUME NEW i \in 2..(kept + 1) PROVE m[i] = r[w - kept + i - 1]
      <4>1. i \in 1..(1 + kept) /\ ~(i <= 1) /\ i - 1 \in 1..kept
            /\ w - kept + (i - 1) = w - kept + i - 1
        BY <1>0, <2>4
      <4> QED BY <2>5, <3>2, <4>1
    <3>5. 1 + kept = kept + 1
      BY <2>4
    <3> QED BY <3>2, <3>3, <3>4, <3>5
  <2> HIDE DEF m
  <2>7. Headed(s, m)
    <3> DEFINE d == Len(s) - Len(t)
               k == IF Newest(s, t) THEN d + first ELSE t[1].n
    <3>0. d \in Nat /\ Len(s) = d + w + 1
      BY <1>0, <1>4, <2>0
    <3>1. /\ k \in 1..Len(s) /\ t[first] = s[k] /\ \A i \in 1..(k - 1) : ~s[i].system
          /\ \A i \in (first + 1)..Len(t) :
               t[i] = IF Newest(s, t) \/ d + i > k THEN s[d + i] ELSE s[d + i - 1]
          /\ \A i \in 1..(first - 1) : t[i] = s[d + i]
          /\ Newest(s, t) => k = d + first
          /\ ~Newest(s, t) => first = 1
      <4>1. CASE Newest(s, t)
        <5>1. k = d + first /\ k \in 1..Len(s)
          <6>1. k = d + first
            BY <4>1
          <6>2. first \in Nat /\ first >= 1 /\ first <= w + 1
            BY <1>0, <1>4, <2>0, <2>2
          <6> HIDE DEF k, d
          <6>3. d + first \in 1..Len(s)
            BY <1>0, <3>0, <6>2
          <6> QED BY <6>1, <6>3
        <5>2. \A i \in 1..Len(t) : t[i] = s[d + i]
          BY <4>1 DEF Newest
        <5>3. ASSUME NEW i \in 1..(k - 1) PROVE ~s[i].system
          <6>1. CASE i <= d
            BY <3>0, <4>1, <6>1 DEF Newest
          <6>2. CASE i > d
            <7>1. i - d \in 1..(first - 1) /\ i - d \in 1..Len(t) /\ d + (i - d) = i
              BY <2>2, <3>0, <5>1, <6>2, <1>4
            <7> QED BY <2>2, <5>2, <7>1
          <6> QED BY <3>0, <6>1, <6>2
        <5>4. \A i \in 1..(first - 1) : i \in 1..Len(t)
          BY <1>4, <2>2
        <5>5. \A i \in (first + 1)..Len(t) : i \in 1..Len(t)
          BY <1>4, <2>2
        <5> HIDE DEF k, d
        <5> QED BY <2>2, <4>1, <5>1, <5>2, <5>3, <5>4, <5>5
      <4>2. CASE ~Newest(s, t)
        <5>1. Headed(s, t)
          BY <4>2
        <5>2. first = 1
          <6>1. t[1].system /\ 1 \in 1..Len(t)
            BY <1>4, <5>1 DEF Headed
          <6>2. ~(1 \in 1..(first - 1))
            BY <2>2, <6>1
          <6> QED BY <1>4, <2>2, <6>2
        <5>3. k = t[1].n
          BY <4>2
        <5>4. \A i \in 2..Len(t) : t[i] = IF d + i <= k THEN s[d + i - 1] ELSE s[d + i]
          BY <5>1, <5>3 DEF Headed
        <5>5. k \in 1..Len(s) /\ t[1] = s[k] /\ \A i \in 1..(k - 1) : ~s[i].system
          BY <5>1, <5>3 DEF Headed
        <5>6. \A i \in (first + 1)..Len(t) : i \in 2..Len(t) /\ (d + i > k <=> ~(d + i <= k))
          BY <1>4, <3>0, <5>2, <5>5
        <5>7. 1..(first - 1) = {}
          BY <5>2
        <5> HIDE DEF k, d
        <5> QED BY <4>2, <5>2, <5>4, <5>5, <5>6, <5>7
      <4> QED BY <4>1, <4>2
    <3> HIDE DEF k, d
    <3>2. m[1] = s[k] /\ m[1].n = k /\ m[1].system
      BY <2>2, <2>6, <3>1 DEF Numbered
    <3>3. Len(s) - Len(m) = d + w - kept /\ Len(m) > 0 /\ Len(m) <= Len(s)
      <4>1. kept \in Nat /\ kept <= w /\ Len(m) = kept + 1
        BY <1>0, <2>4, <2>6
      <4> DEFINE a == Len(s)
                 b == Len(m)
      <4>2. a = d + w + 1 /\ b = kept + 1 /\ d \in Nat
        BY <3>0, <4>1
      <4> HIDE DEF a, b
      <4>3. a - b = d + w - kept /\ b > 0 /\ b <= a
        BY <1>0, <4>1, <4>2
      <4> QED BY <4>3 DEF a, b
    <3>4. ASSUME NEW i \in 2..Len(m)
          PROVE  m[i] = IF d + w - kept + i <= k THEN s[d + w - kept + i - 1]
                        ELSE s[d + w - kept + i]
      <4> DEFINE j == w - kept + i - 1
      <4>1. j \in 1..w /\ m[i] = r[j] /\ d + w - kept + i = d + j + 1 /\ j + 1 = w - kept + i
        <5>1. kept \in Nat /\ Len(m) = kept + 1 /\ i \in Nat /\ i >= 2 /\ i <= kept + 1 /\ kept <= w
          BY <1>0, <2>4, <2>6
        <5>2. i \in 2..(kept + 1)
          BY <5>1
        <5>3. m[i] = r[w - kept + i - 1]
          BY <2>6, <5>2
        <5>4. w - kept + i - 1 \in 1..w
          BY <1>0, <5>1
        <5>5. d + w - kept + i = d + (w - kept + i - 1) + 1 /\ (w - kept + i - 1) + 1 = w - kept + i
          BY <1>0, <3>0, <5>1
        <5> QED BY <5>3, <5>4, <5>5
      <4> HIDE DEF j
      <4>2. r[j] = IF j < first THEN t[j] ELSE t[j + 1]
        BY <2>3, <4>1
      <4>3. first \in Nat /\ k \in Nat /\ d \in Nat /\ j \in Nat
        BY <2>2, <3>0, <3>1, <4>1
      <4>7. j <= w /\ j + 1 \in Nat
        BY <1>0, <4>1, <4>3
      <4>4. j + 1 >= first + 1 => j + 1 \in (first + 1)..Len(t)
        BY <1>0, <2>0, <4>3, <4>7
      <4>5. r[j] = IF d + j + 1 <= k THEN s[d + j + 1 - 1] ELSE s[d + j + 1]
        <5>1. CASE j < first
          <6>1. j \in 1..(first - 1) /\ Newest(s, t)
            BY <3>1, <4>1, <4>3, <5>1
          <6>2. d + j + 1 <= k /\ d + j + 1 - 1 = d + j
            BY <3>1, <4>3, <5>1, <6>1
          <6>3. t[j] = s[d + j]
            BY <3>1, <6>1
          <6> QED BY <4>2, <5>1, <6>2, <6>3
        <5>2. CASE ~(j < first)
          <6>1. j + 1 \in (first + 1)..Len(t) /\ d + (j + 1) = d + j + 1
            BY <4>3, <4>4, <5>2
          <6>2. t[j + 1] = IF Newest(s, t) \/ d + (j + 1) > k THEN s[d + (j + 1)]
                           ELSE s[d + (j + 1) - 1]
            BY <3>1, <6>1
          <6>3. Newest(s, t) => d + j + 1 > k
            BY <3>1, <4>3, <5>2
          <6>4. d + j + 1 > k <=> ~(d + j + 1 <= k)
            BY <4>3
          <6>5. d + (j + 1) - 1 = d + j + 1 - 1
            BY <4>3
          <6> QED BY <4>2, <5>2, <6>1, <6>2, <6>3, <6>4, <6>5
        <5> QED BY <5>1, <5>2
      <4>6. /\ d + w - kept + i = d + j + 1
            /\ d + w - kept + i - 1 = d + j + 1 - 1
        BY <1>0, <2>4, <2>6, <4>1, <4>3
      <4> QED BY <4>1, <4>5, <4>6
    <3> QED BY <3>1, <3>2, <3>3, <3>4 DEF Headed
  <2>8. Len(m) <= w
    BY <1>0, <2>4, <2>6
  <2> QED BY <2>1, <2>6, <2>7, <2>8 DEF w
<1> QED BY <1>5, <1>6, <1>7

\* What is said of a conversation place by place is what the property says.
LEMMA WindowedMeans ==
  ASSUME NEW p \in DOMAIN Desks, NEW S, NEW s \in Seq(S), NEW m \in Seq(S),
         Numbered(s), Len(m) <= Desks[p].MaxCtx, Newest(s, m) \/ Headed(s, m)
  PROVE  Desk(p)!Windowed(s, m)
<1> DEFINE k == m[1].n
<1>0. Len(s) \in Nat /\ Len(m) \in Nat /\ s \in Seq(S)
  OBVIOUS
<1>1. ASSUME Newest(s, m)
      PROVE  /\ m = Desk(p)!Last(s, Len(m))
             /\ \A i \in 1..(Len(s) - Len(m)) : ~s[i].system
  <2>1. /\ Len(m) \in 0..Len(s)
        /\ \A i \in 1..Len(m) : m[i] = s[Len(s) - Len(m) + i]
        /\ \A i \in 1..(Len(s) - Len(m)) : ~s[i].system
    BY <1>0, <1>1 DEF Newest
  <2>2. m = [i \in 1..Len(m) |-> m[i]]
    OBVIOUS
  <2>4. s \in Seq(S)
    BY <1>0
  <2>5. Len(m) \in 0..Len(s)
    BY <2>1
  <2>3. Desk(p)!Last(s, Len(m)) = [i \in 1..Len(m) |-> s[Len(s) - Len(m) + i]]
    BY ONLY <2>4, <2>5, LastOf
  <2> QED BY <2>1, <2>2, <2>3
<1>2. ASSUME Headed(s, m)
      PROVE  /\ Len(m) > 0 /\ m[1].system /\ \A i \in 1..(k - 1) : ~s[i].system
             /\ Tail(m) = Desk(p)!Last(Desk(p)!Without(s, k), Len(m) - 1)
  <2> DEFINE w == Desk(p)!Without(s, k)
             n == Len(m) - 1
  <2>1. /\ Len(m) > 0 /\ Len(m) <= Len(s) /\ m[1].system /\ k \in 1..Len(s)
        /\ \A i \in 1..(k - 1) : ~s[i].system
        /\ \A i \in 2..Len(m) :
             m[i] = IF Len(s) - Len(m) + i <= k THEN s[Len(s) - Len(m) + i - 1]
                    ELSE s[Len(s) - Len(m) + i]
    BY <1>2 DEF Headed
  <2>0. s \in Seq(S)
    BY <1>0
  <2>9. k \in 1..Len(s)
    BY <2>1
  <2>10. k \in Nat /\ k >= 1 /\ k <= Len(s)
    BY <2>9, <1>0
  <2> HIDE DEF k
  <2>2. /\ w \in Seq(S) /\ Len(w) = Len(s) - 1
        /\ \A i \in 1..(Len(s) - 1) : w[i] = IF i < k THEN s[i] ELSE s[i + 1]
    BY <2>0, <2>9, WithoutOf
  <2>3. n \in Nat /\ n \in 0..Len(w) /\ Len(m) = n + 1
    BY <1>0, <2>1, <2>2
  <2> HIDE DEF w
  <2>11. w \in Seq(S)
    BY <2>2
  <2>12. n \in 0..Len(w)
    BY <2>3
  <2> HIDE DEF n
  <2>4. Desk(p)!Last(w, n) = [i \in 1..n |-> w[Len(w) - n + i]]
    BY ONLY <2>11, <2>12, LastOf
  <2>5. Tail(m) = [i \in 1..n |-> m[i + 1]]
    <3> DEFINE l == Tail(m)
    <3>1. l \in Seq(S) /\ Len(l) = Len(m) - 1 /\ \A i \in 1..Len(l) : l[i] = m[i + 1]
      <4>1. m # <<>>
        BY <2>1
      <4> QED BY <4>1, HeadTailProperties
    <3>2. Len(l) = n
      BY <1>0, <2>3, <3>1
    <3> HIDE DEF l
    <3>3. l = [i \in 1..n |-> l[i]]
      BY <3>1, <3>2
    <3> QED BY <3>1, <3>2, <3>3 DEF l
  <2>6. ASSUME NEW i \in 1..n PROVE m[i + 1] = w[Len(w) - n + i]
    <3> DEFINE c == Len(s) - Len(m) + i
    <3>1. /\ c \in 1..(Len(s) - 1) /\ Len(w) - n + i = c /\ i + 1 \in 2..Len(m)
          /\ Len(s) - Len(m) + (i + 1) = c + 1 /\ c \in Nat
      BY <1>0, <2>1, <2>2, <2>3
    <3>2. m[i + 1] = IF c + 1 <= k THEN s[c + 1 - 1] ELSE s[c + 1]
      <4>1. m[i + 1] = IF Len(s) - Len(m) + (i + 1) <= k THEN s[Len(s) - Len(m) + (i + 1) - 1]
                       ELSE s[Len(s) - Len(m) + (i + 1)]
        BY <2>1, <3>1
      <4>2. Len(s) - Len(m) + (i + 1) - 1 = c + 1 - 1
        BY <3>1
      <4> QED BY <3>1, <4>1, <4>2
    <3> HIDE DEF c
    <3>3. c + 1 - 1 = c /\ (c + 1 <= k <=> c < k)
      BY <2>10, <3>1
    <3>4. w[c] = IF c < k THEN s[c] ELSE s[c + 1]
      BY <2>2, <3>1
    <3> QED BY <3>1, <3>2, <3>3, <3>4
  <2>7. Tail(m) = Desk(p)!Last(w, n)
    BY <2>4, <2>5, <2>6
  <2> QED BY <2>1, <2>7 DEF w, n
<1>3. \/ /\ m = Desk(p)!Last(s, Len(m))
         /\ \A i \in 1..(Len(s) - Len(m)) : ~s[i].system
      \/ /\ Len(m) > 0 /\ m[1].system
         /\ \A i \in 1..(m[1].n - 1) : ~s[i].system
         /\ Tail(m) = Desk(p)!Last(Desk(p)!Without(s, m[1].n), Len(m) - 1)
  BY <1>1, <1>2
<1> QED BY <1>3 DEF Desk!Windowed

-----------------------------------------------------------------------------
(* The assistant: its invariant. *)

\* The records of conversations.
TalkRecord(p) ==
  [objects : Seq(Desk(p)!Session), table : Nat, file : Desk(p)!Session \cup {Desk(p)!Torn},
   sent : Seq(Desk(p)!Message), safe : Seq(Desk(p)!Message), behind : BOOLEAN, raced : BOOLEAN]

\* The window of what was said.
InWindow(p, s, m) == Len(m) <= Desks[p].MaxCtx /\ (Newest(s, m) \/ Headed(s, m))

\* What a handler may do.
DeskWork(p) == {Desk(p)!Idle} \cup Desk(p)!Chatting \cup Desk(p)!Entering \cup Desk(p)!Calling

\* A conversation in the file, and the object in memory beside it.
Told(p, d) ==
  /\ d \in TalkRecord(p) /\ d.table \in 0..Len(d.objects)
  /\ Numbered(d.sent) /\ Numbered(d.safe)
  /\ d.table = 0 => d.sent = d.safe
  /\ ~d.raced /\ d.file # Desk(p)!Torn => InWindow(p, d.safe, d.file.messages)
  /\ ~d.raced /\ d.table # 0 =>
       /\ InWindow(p, d.sent, d.objects[d.table].messages)
       /\ d.objects[d.table] = d.file \/ d.behind

\* Who will charge a quota.
Charging(p, u) ==
  {h \in Desks[p].Handler : g2[h].at = "execute" /\ <<g2[h].role, g2[h].tool>> = u}

\* What was used of a quota, where there is one, and what will be.
DeskSpent(p) ==
  Desks[p].QuotaMax > 0 =>
    \A u \in Desks[p].Role \X Desks[p].Tool :
      g5[u] + Cardinality(Charging(p, u)) <= Desks[p].QuotaMax + Cardinality(Desks[p].Handler)

\* The invariant of the assistant.
DeskHolds(p) ==
  /\ Told(p, g1) /\ DeskSpent(p)
  /\ g2 \in [Desks[p].Handler -> DeskWork(p)] /\ g5 \in [Desks[p].Role \X Desks[p].Tool -> Nat]

\* The module's own name of the number of elements.
LEMMA DeskCardinality == \A p, S : Desk(p)!Cardinality(S) = Cardinality(S)
BY Zenon DEF Desk!Cardinality, Cardinality

\* It means that conversations and quotas are kept.
LEMMA DeskHoldsKeeps ==
  ASSUME NEW p \in DOMAIN Desks, DeskHolds(p)
  PROVE  Desk(p)!AssistantKeeps
<1>1. Desk(p)!SessionKept
  <2>1. /\ g1.sent \in Seq(Desk(p)!Message) /\ g1.safe \in Seq(Desk(p)!Message)
        /\ Numbered(g1.sent) /\ Numbered(g1.safe)
        /\ g1.objects \in Seq(Desk(p)!Session) /\ g1.table \in 0..Len(g1.objects)
        /\ g1.file \in Desk(p)!Session \cup {Desk(p)!Torn}
    BY DEF DeskHolds, Told, TalkRecord
  <2>2. ASSUME ~g1.raced, g1.file # Desk(p)!Torn
        PROVE  Desk(p)!Windowed(g1.safe, g1.file.messages)
    <3>1. g1.file.messages \in Seq(Desk(p)!Message)
      BY <2>1, <2>2 DEF Desk!Session
    <3>2. InWindow(p, g1.safe, g1.file.messages)
      BY <2>2 DEF DeskHolds, Told
    <3> QED BY <2>1, <3>1, <3>2, WindowedMeans DEF InWindow
  <2>3. ASSUME ~g1.raced, g1.table # 0
        PROVE  /\ Desk(p)!Windowed(g1.sent, g1.objects[g1.table].messages)
               /\ g1.objects[g1.table] = g1.file \/ g1.behind
    <3>1. g1.objects[g1.table].messages \in Seq(Desk(p)!Message)
      <4>1. g1.table \in 1..Len(g1.objects)
        BY <2>1, <2>3
      <4> DEFINE S == Desk(p)!Session
      <4>2. g1.objects \in Seq(S)
        BY <2>1
      <4> HIDE DEF S
      <4>3. g1.objects[g1.table] \in S
        BY <4>1, <4>2
      <4> QED BY <4>3 DEF S, Desk!Session
    <3>2. /\ InWindow(p, g1.sent, g1.objects[g1.table].messages)
          /\ g1.objects[g1.table] = g1.file \/ g1.behind
      BY <2>3 DEF DeskHolds, Told
    <3> QED BY <2>1, <3>1, <3>2, WindowedMeans DEF InWindow
  <2> QED BY <2>2, <2>3, Zenon DEF Desk!SessionKept, Desk!Current
<1>2. Desk(p)!CallsBounded
  <2> SUFFICES ASSUME Desks[p].QuotaMax > 0, NEW u \in Desks[p].Role \X Desks[p].Tool
               PROVE  g5[u] <= Desks[p].QuotaMax + Cardinality(Desks[p].Handler)
    BY DeskCardinality DEF Desk!CallsBounded
  <2>1. IsFiniteSet(Desks[p].Handler) /\ Desks[p].QuotaMax \in Nat
    BY DeskAssumed DEF Desk!AssistantAssumption, Desk!IsFiniteSet, IsFiniteSet
  <2>2. Cardinality(Charging(p, u)) \in Nat /\ Cardinality(Desks[p].Handler) \in Nat
    BY <2>1, FS_Subset, FS_CardinalityType DEF Charging
  <2>3. g5[u] \in Nat
    BY DEF DeskHolds
  <2>4. g5[u] + Cardinality(Charging(p, u)) <= Desks[p].QuotaMax + Cardinality(Desks[p].Handler)
    BY DEF DeskHolds, DeskSpent
  <2> QED BY <2>1, <2>2, <2>3, <2>4
<1> QED BY <1>1, <1>2 DEF Desk!AssistantKeeps

\* It holds at the start.
LEMMA DeskStarts ==
  ASSUME NEW p \in DOMAIN Desks, Desk(p)!Init
  PROVE  DeskHolds(p)
<1>0. IsFiniteSet(Desks[p].Handler) /\ Desks[p].QuotaMax \in Nat /\ Desks[p].MaxCtx \in Nat
  BY DeskAssumed DEF Desk!AssistantAssumption, Desk!IsFiniteSet, IsFiniteSet
<1> DEFINE fresh == Desk(p)!Fresh
<1>1. fresh \in Desk(p)!Session /\ fresh.messages = <<>>
  BY DEF Desk!Fresh, Desk!Session
<1>2. /\ g1.objects = <<fresh>> /\ g1.table = 1 /\ g1.sent = <<>> /\ g1.safe = <<>>
      /\ g1.raced = FALSE /\ g1.file \in {fresh, Desk(p)!Torn}
      /\ g1.behind = (g1.file = Desk(p)!Torn)
      /\ g1 = [objects |-> g1.objects, table |-> g1.table, file |-> g1.file, sent |-> g1.sent,
               safe |-> g1.safe, behind |-> g1.behind, raced |-> g1.raced]
  <2>1. PICK file \in {fresh, Desk(p)!Torn} :
          g1 = [objects |-> <<fresh>>, table |-> 1, file |-> file, sent |-> <<>>,
                safe |-> <<>>, behind |-> file = Desk(p)!Torn, raced |-> FALSE]
    BY Zenon DEF Desk!Init
  <2> HIDE DEF fresh
  <2> QED BY <2>1
<1> HIDE DEF fresh
<1>3. g1.file = fresh \/ g1.behind
  BY <1>2
<1>4. /\ g1 \in TalkRecord(p) /\ g1.table \in 0..Len(g1.objects)
      /\ Numbered(g1.sent) /\ Numbered(g1.safe)
  <2>1. <<fresh>> \in Seq(Desk(p)!Session) /\ <<>> \in Seq(Desk(p)!Message)
    BY <1>1
  <2>2. Len(<<fresh>>) = 1 /\ Numbered(<<>>)
    BY DEF Numbered
  <2>3. Len(g1.objects) = 1 /\ g1.table \in Nat /\ g1.table \in 0..Len(g1.objects)
    BY <1>2, <2>2
  <2>4. /\ g1.objects \in Seq(Desk(p)!Session) /\ g1.sent \in Seq(Desk(p)!Message)
        /\ g1.safe \in Seq(Desk(p)!Message)
    BY <1>2, <2>1
  <2>5. /\ g1.file \in Desk(p)!Session \cup {Desk(p)!Torn}
        /\ g1.raced \in BOOLEAN /\ g1.behind \in BOOLEAN
    BY <1>1, <1>2
  <2>6. Numbered(g1.sent) /\ Numbered(g1.safe)
    BY <1>2, <2>2
  <2> QED BY <1>2, <2>3, <2>4, <2>5, <2>6 DEF TalkRecord
<1>5. /\ g2 \in [Desks[p].Handler -> DeskWork(p)]
      /\ g5 \in [Desks[p].Role \X Desks[p].Tool -> Nat]
  BY DEF Desk!Init, DeskWork
<1>6. Told(p, g1)
  <2>1. InWindow(p, <<>>, <<>>)
    BY <1>0 DEF Newest, InWindow
  <2>2. g1.objects[g1.table] = fresh /\ g1.table # 0
    BY <1>2
  <2>3. g1.file # Desk(p)!Torn => g1.file = fresh
    BY <1>2
  <2> QED BY <1>1, <1>2, <1>3, <1>4, <2>1, <2>2, <2>3 DEF Told
<1>7. DeskSpent(p)
  <2> SUFFICES ASSUME NEW u \in Desks[p].Role \X Desks[p].Tool
               PROVE  g5[u] + Cardinality(Charging(p, u))
                        <= Desks[p].QuotaMax + Cardinality(Desks[p].Handler)
    BY DEF DeskSpent
  <2>1. g5[u] = 0 /\ Charging(p, u) = {}
    BY DEF Desk!Init, Desk!Idle, Charging
  <2>2. Cardinality(Desks[p].Handler) \in Nat /\ Cardinality({}) = 0
    BY <1>0, FS_CardinalityType, FS_EmptySet
  <2> QED BY <1>0, <2>1, <2>2
<1> QED BY <1>5, <1>6, <1>7 DEF DeskHolds

\* The first message of the system, where there is one.
LEMMA FirstOf ==
  ASSUME NEW p \in DOMAIN Desks, NEW S, NEW t \in Seq(S), Desk(p)!Systems(t) # {}
  PROVE  Desk(p)!First(t) \in 1..Len(t)
<1> DEFINE systems == Desk(p)!Systems(t)
           first == Desk(p)!First(t)
<1>1. systems \subseteq 1..Len(t) /\ systems \subseteq Nat /\ systems # {}
  BY DEF Desk!Systems
<1>2. \E i \in systems : \A j \in systems : i <= j
  <2> HIDE DEF systems
  <2> QED BY <1>1, LeastNumber
<1>3. first = CHOOSE i \in systems : \A j \in systems : i <= j
  BY DEF Desk!First
<1> HIDE DEF systems, first
<1>4. first \in systems
  BY <1>2, <1>3
<1> QED BY <1>1, <1>4 DEF first

\* What is left of messages are messages.
LEMMA TrimIn ==
  ASSUME NEW p \in DOMAIN Desks, NEW S, NEW t \in Seq(S)
  PROVE  Desk(p)!Trim(t) \in Seq(S)
<1> DEFINE w == Desks[p].MaxCtx
           systems == Desk(p)!Systems(t)
           first == Desk(p)!First(t)
           kept == IF first < Len(t) - w + 2 THEN w - 1 ELSE w - 2
<1>0. w \in Nat /\ w > 0 /\ Len(t) \in Nat
  BY DeskAssumed DEF Desk!AssistantAssumption
<1>1. Desk(p)!Trim(t) =
        IF Len(t) <= w THEN t
        ELSE IF systems = {} THEN Desk(p)!Last(t, w)
        ELSE <<t[first]>> \o Desk(p)!Last(Desk(p)!Without(t, first), kept)
  BY DEF Desk!Trim
<1>2. systems # {} => first \in 1..Len(t)
  BY FirstOf
<1>3. systems # {} => kept \in Nat /\ kept <= w - 1
  <2> SUFFICES ASSUME systems # {} PROVE kept \in Nat /\ kept <= w - 1
    OBVIOUS
  <2>1. first \in Nat /\ first <= Len(t)
    BY <1>0, <1>2
  <2> HIDE DEF w, first, systems
  <2> QED BY <1>0, <2>1
<1> HIDE DEF w, systems, first, kept
<1>4. CASE Len(t) <= w
  BY <1>1, <1>4
<1>5. CASE ~(Len(t) <= w) /\ systems = {}
  <2>1. w \in 0..Len(t)
    BY <1>0, <1>5
  <2>2. Desk(p)!Last(t, w) \in Seq(S)
    BY <2>1, LastIn
  <2> QED BY <1>1, <1>5, <2>2
<1>6. CASE ~(Len(t) <= w) /\ systems # {}
  <2> DEFINE r == Desk(p)!Without(t, first)
             l == Desk(p)!Last(r, kept)
  <2>1. first \in 1..Len(t)
    BY <1>2, <1>6
  <2>2. r \in Seq(S) /\ Len(r) = Len(t) - 1
    BY <2>1, WithoutOf
  <2> HIDE DEF r
  <2>3. kept \in 0..Len(r)
    BY <1>0, <1>3, <1>6, <2>2
  <2>4. r \in Seq(S)
    BY <2>2
  <2>5. l \in Seq(S)
    BY <2>3, <2>4, LastIn
  <2>6. <<t[first]>> \in Seq(S)
    BY <2>1
  <2> HIDE DEF l
  <2>7. <<t[first]>> \o l \in Seq(S)
    BY <2>5, <2>6
  <2> QED BY <1>1, <1>6, <2>7 DEF l, r
<1> QED BY <1>4, <1>5, <1>6

\* A torn file is no conversation.
LEMMA TornIsNone == \A p : Desk(p)!Torn \notin Desk(p)!Session
<1> TAKE p
<1>1. "torn" \in DOMAIN Desk(p)!Torn
  BY DEF Desk!Torn
<1>2. ASSUME NEW c \in Desk(p)!Session PROVE "torn" \notin DOMAIN c
  BY DEF Desk!Session
<1> QED BY <1>1, <1>2

\* The conversation becomes c in memory, with s said, and the file what it does.
Entered(c, s, file, safe, behind) ==
  [objects |-> [g1.objects EXCEPT ![g1.table] = c], table |-> g1.table, file |-> file,
   sent |-> s, safe |-> safe, behind |-> behind, raced |-> g1.raced]

\* What is stored, and what is not.
LEMMA StoredIs ==
  ASSUME NEW p \in DOMAIN Desks, Told(p, g1), NEW c, NEW s, NEW d \in Desk(p)!Stored(c, s)
  PROVE  \/ d = Entered(c, s, c, s, FALSE)
         \/ \E file \in {g1.file, Desk(p)!Torn} : d = Entered(c, s, file, g1.safe, TRUE)
<1> DEFINE S == Desk(p)!Session
           o == [g1.objects EXCEPT ![g1.table] = c]
           x == [g1 EXCEPT !.objects = o, !.sent = s]
<1>1. g1 \in [objects : Seq(S), table : Nat, file : S \cup {Desk(p)!Torn},
              sent : Seq(Desk(p)!Message), safe : Seq(Desk(p)!Message),
              behind : BOOLEAN, raced : BOOLEAN]
  BY DEF Told, TalkRecord
<1>2. \/ d = [x EXCEPT !.file = c, !.safe = s, !.behind = FALSE]
      \/ \E file \in {g1.file, Desk(p)!Torn} : d = [x EXCEPT !.file = file, !.behind = TRUE]
  BY Zenon DEF Desk!Stored
<1>3. ASSUME NEW a, a = [x EXCEPT !.file = c, !.safe = s, !.behind = FALSE]
      PROVE  a = Entered(c, s, c, s, FALSE)
  <2>1. a = [g1 EXCEPT !.objects = o, !.sent = s, !.file = c, !.safe = s, !.behind = FALSE]
    BY <1>3
  <2>2. a = [objects |-> o, table |-> g1.table, file |-> c, sent |-> s, safe |-> s,
             behind |-> FALSE, raced |-> g1.raced]
    <3> HIDE DEF S, o
    <3> QED BY <1>1, <2>1
  <2> QED BY <2>2 DEF Entered
<1>4. ASSUME NEW a, NEW file, a = [x EXCEPT !.file = file, !.behind = TRUE]
      PROVE  a = Entered(c, s, file, g1.safe, TRUE)
  <2>1. a = [g1 EXCEPT !.objects = o, !.sent = s, !.file = file, !.behind = TRUE]
    BY <1>4
  <2>2. a = [objects |-> o, table |-> g1.table, file |-> file, sent |-> s, safe |-> g1.safe,
             behind |-> TRUE, raced |-> g1.raced]
    <3> HIDE DEF S, o
    <3> QED BY <1>1, <2>1
  <2> QED BY <2>2 DEF Entered
<1> HIDE DEF o, x
<1> QED BY <1>2, <1>3, <1>4

\* It may, if c has of s what it should.
LEMMA ToldStored ==
  ASSUME NEW p \in DOMAIN Desks, Told(p, g1), g1.table # 0,
         NEW c \in Desk(p)!Session, NEW s \in Seq(Desk(p)!Message), Numbered(s),
         ~g1.raced => InWindow(p, s, c.messages),
         NEW d \in Desk(p)!Stored(c, s)
  PROVE  Told(p, d)
<1> DEFINE S == Desk(p)!Session
           M == Desk(p)!Message
           T == Desk(p)!Torn
           o == [g1.objects EXCEPT ![g1.table] = c]
<1>1. /\ g1.objects \in Seq(S) /\ g1.table \in 1..Len(g1.objects) /\ g1.table \in Nat
      /\ g1.raced \in BOOLEAN /\ g1.safe \in Seq(M) /\ Numbered(g1.safe)
      /\ g1.file \in S \cup {T}
      /\ ~g1.raced /\ g1.file # T => InWindow(p, g1.safe, g1.file.messages)
  BY DEF Told, TalkRecord
<1>2. o \in Seq(S) /\ Len(o) = Len(g1.objects) /\ o[g1.table] = c
  <2>1. c \in S
    OBVIOUS
  <2> HIDE DEF S
  <2>2. o \in Seq(S) /\ Len(o) = Len(g1.objects)
    BY <1>1, <2>1, ExceptSeq
  <2>3. o[g1.table] = c
    BY <1>1, <2>1
  <2> QED BY <2>2, <2>3
<1>3. PICK file, safe, behind :
        /\ d = Entered(c, s, file, safe, behind)
        /\ \/ file = c /\ safe = s /\ behind = FALSE
           \/ file \in {g1.file, T} /\ safe = g1.safe /\ behind = TRUE
  BY StoredIs
<1>4. /\ d = [objects |-> o, table |-> g1.table, file |-> file, sent |-> s, safe |-> safe,
              behind |-> behind, raced |-> g1.raced]
      /\ d.objects = o /\ d.table = g1.table /\ d.file = file /\ d.sent = s
      /\ d.safe = safe /\ d.behind = behind /\ d.raced = g1.raced
  BY <1>3 DEF Entered
<1>5. /\ file \in S \cup {T} /\ safe \in Seq(M) /\ Numbered(safe) /\ behind \in BOOLEAN
      /\ file = c \/ behind
  BY <1>1, <1>3
<1>6. ~g1.raced /\ file # T => InWindow(p, safe, file.messages)
  BY <1>1, <1>3
<1> HIDE DEF o, S, M, T
<1>7. d \in TalkRecord(p) /\ d.table \in 0..Len(d.objects)
  BY <1>1, <1>2, <1>4, <1>5 DEF TalkRecord, S, M, T
<1>8. d.table # 0
  BY <1>4
<1> QED BY <1>2, <1>4, <1>5, <1>6, <1>7, <1>8 DEF Told, T

\* A conversation in memory is one, and what was said.
LEMMA CurrentIs ==
  ASSUME NEW p \in DOMAIN Desks, Told(p, g1), g1.table # 0
  PROVE  /\ Desk(p)!Current \in Desk(p)!Session /\ g1.sent \in Seq(Desk(p)!Message)
         /\ Numbered(g1.sent)
         /\ ~g1.raced => InWindow(p, g1.sent, Desk(p)!Current.messages)
<1>1. g1.objects \in Seq(Desk(p)!Session) /\ g1.table \in 1..Len(g1.objects)
  BY DEF Told, TalkRecord
<1>2. Desk(p)!Current = g1.objects[g1.table]
  BY DEF Desk!Current
<1>4. g1.objects[g1.table] \in Desk(p)!Session
  <2> DEFINE S == Desk(p)!Session
  <2> HIDE DEF S
  <2>1. g1.objects \in Seq(S)
    BY <1>1 DEF S
  <2>2. g1.objects[g1.table] \in S
    BY <1>1, <2>1
  <2> QED BY <2>2 DEF S
<1>5. g1.sent \in Seq(Desk(p)!Message)
  BY DEF Told, TalkRecord
<1> QED BY <1>2, <1>4, <1>5 DEF Told

\* A change of mode or provider leaves the messages as they are.
LEMMA ToldChanged ==
  ASSUME NEW p \in DOMAIN Desks, Told(p, g1), g1.table # 0,
         NEW c \in Desk(p)!Session, c.messages = Desk(p)!Current.messages,
         NEW d \in Desk(p)!Stored(c, g1.sent)
  PROVE  Told(p, d)
BY CurrentIs, ToldStored

\* What a conversation has is kept, when a message is added to it.
LEMMA ToldAdded ==
  ASSUME NEW p \in DOMAIN Desks, Told(p, g1), NEW system \in BOOLEAN,
         NEW d \in Desk(p)!Added(system)
  PROVE  Told(p, d)
<1> DEFINE M == Desk(p)!Message
           x == [system |-> system, n |-> Len(g1.sent) + 1]
           now == Desk(p)!Current
           m == Append(now.messages, x)
           o == Desk(p)!Trim(m)
           c == [now EXCEPT !.messages = o]
           t == Append(g1.sent, x)
<1>1. CASE g1.table = 0
  BY <1>1 DEF Desk!Added
<1>2. CASE g1.table # 0
  <2>2. /\ now \in Desk(p)!Session /\ now.messages \in Seq(M)
        /\ g1.sent \in Seq(M) /\ Len(g1.sent) \in Nat
    BY <1>2, CurrentIs DEF Desk!Session
  <2>3. x \in M /\ x.n = Len(g1.sent) + 1
    BY <2>2 DEF Desk!Message
  <2>1. d \in Desk(p)!Stored(c, t)
    <3>1. t[Len(t)] = x
      <4> HIDE DEF x, M, now
      <4> QED BY <2>2, <2>3, AppendProperties
    <3>2. d \in Desk(p)!Stored([now EXCEPT !.messages = Desk(p)!Trim(Append(@, t[Len(t)]))], t)
      BY <1>2, Zenon DEF Desk!Added
    <3>3. [now EXCEPT !.messages = Desk(p)!Trim(Append(@, t[Len(t)]))] = c
      <4> HIDE DEF x, t, now
      <4> QED BY <3>1, Zenon
    <3> HIDE DEF c, t
    <3> QED BY <3>2, <3>3
  <2> HIDE DEF x, M, now
  <2>4. /\ m \in Seq(M) /\ t \in Seq(M) /\ Len(m) = Len(now.messages) + 1
        /\ Len(t) = Len(g1.sent) + 1 /\ t[Len(g1.sent) + 1] = x
        /\ \A i \in 1..Len(g1.sent) : t[i] = g1.sent[i]
    BY <2>2, <2>3, AppendProperties
  <2>5. Numbered(t)
    <3> HIDE DEF t
    <3>1. Numbered(g1.sent)
      BY <1>2, CurrentIs
    <3> SUFFICES ASSUME NEW i \in 1..Len(t) PROVE t[i].n = i
      BY DEF Numbered
    <3>2. CASE i = Len(g1.sent) + 1
      BY <2>3, <2>4, <3>2
    <3>3. CASE i # Len(g1.sent) + 1
      <4>1. i \in 1..Len(g1.sent)
        BY <2>2, <2>4, <3>3
      <4> QED BY <2>4, <3>1, <4>1 DEF Numbered
    <3> QED BY <3>2, <3>3
  <2>6. o \in Seq(M)
    <3> HIDE DEF m
    <3> QED BY <2>4, TrimIn
  <2>7. ASSUME ~g1.raced
        PROVE  InWindow(p, t, o)
    <3>1. /\ Len(now.messages) <= Desks[p].MaxCtx
          /\ Newest(g1.sent, now.messages) \/ Headed(g1.sent, now.messages)
      BY <1>2, <2>7, CurrentIs DEF now, InWindow
    <3>2. Newest(t, m) \/ Headed(t, m)
      BY <2>2, <2>3, <3>1, OneMore
    <3>3. Len(m) <= Desks[p].MaxCtx + 1
      <4>1. Desks[p].MaxCtx \in Nat /\ Len(now.messages) \in Nat
        BY <2>2, DeskAssumed DEF Desk!AssistantAssumption
      <4> HIDE DEF m
      <4> QED BY <2>4, <3>1, <4>1
    <3> HIDE DEF m, t
    <3>4. m \in Seq(M)
      BY <2>4
    <3>5. t \in Seq(M)
      BY <2>4
    <3> QED BY <2>5, <3>2, <3>3, <3>4, <3>5, TrimKeeps DEF InWindow
  <2> HIDE DEF o, t
  <2>8. c \in Desk(p)!Session /\ c.messages = o
    <3>1. o \in Seq(Desk(p)!Message)
      BY <2>6 DEF M
    <3> QED BY <2>2, <3>1 DEF Desk!Session
  <2> HIDE DEF c
  <2>9. t \in Seq(Desk(p)!Message)
    BY <2>4 DEF M
  <2>10. d \in Desk(p)!Stored(c, t)
    BY <2>1
  <2> QED BY <1>2, <2>5, <2>7, <2>8, <2>9, <2>10, ToldStored
<1> QED BY <1>1, <1>2

-----------------------------------------------------------------------------
(* The assistant: its steps. *)

\* What a handler does, by where it is.
LEMMA DeskWorkWhere ==
  ASSUME NEW p \in DOMAIN Desks, NEW w \in DeskWork(p)
  PROVE  /\ w.at \in {"read", "mode", "pin", "say", "select", "answer", "sorry"}
              => w \in Desk(p)!Chatting
         /\ w.at = "insert" => w \in Desk(p)!Entering
         /\ w.at \in {"invoke", "execute"} => w \in Desk(p)!Calling
<1>1. w = Desk(p)!Idle => w.at = "idle"
  BY DEF Desk!Idle
<1>2. w \in Desk(p)!Chatting =>
        w.at \in {"read", "mode", "pin", "say", "select", "answer", "sorry"}
  BY DEF Desk!Chatting
<1>3. w \in Desk(p)!Entering => w.at = "insert"
  BY DEF Desk!Entering
<1>4. w \in Desk(p)!Calling => w.at \in {"invoke", "execute"}
  BY DEF Desk!Calling
<1> QED BY <1>1, <1>2, <1>3, <1>4 DEF DeskWork

\* A handler that chats goes on.
LEMMA ChattingOn ==
  ASSUME NEW p \in DOMAIN Desks, NEW w \in Desk(p)!Chatting,
         NEW at \in {"read", "mode", "pin", "say", "select", "answer", "sorry"}
  PROVE  [w EXCEPT !.at = at] \in DeskWork(p) /\ [w EXCEPT !.at = at].at = at
BY DEF Desk!Chatting, DeskWork

\* A quota is charged by no more than all handlers.
LEMMA ChargingFew ==
  ASSUME NEW p \in DOMAIN Desks, NEW u
  PROVE  /\ IsFiniteSet(Desks[p].Handler) /\ Cardinality(Desks[p].Handler) \in Nat
         /\ Desks[p].QuotaMax \in Nat
         /\ IsFiniteSet(Charging(p, u)) /\ Cardinality(Charging(p, u)) \in Nat
         /\ Cardinality(Charging(p, u)) <= Cardinality(Desks[p].Handler)
<1>1. IsFiniteSet(Desks[p].Handler) /\ Desks[p].QuotaMax \in Nat
  BY DeskAssumed DEF Desk!AssistantAssumption, Desk!IsFiniteSet, IsFiniteSet
<1>2. Charging(p, u) \subseteq Desks[p].Handler
  BY DEF Charging
<1> QED BY <1>1, <1>2, FS_Subset, FS_CardinalityType

\* ... the handlers of the next state too.
LEMMA ChargingFewNext ==
  ASSUME NEW p \in DOMAIN Desks, NEW u
  PROVE  /\ IsFiniteSet(Charging(p, u)') /\ Cardinality(Charging(p, u)') \in Nat
         /\ Cardinality(Charging(p, u)') <= Cardinality(Desks[p].Handler)
<1>1. IsFiniteSet(Desks[p].Handler)
  BY ChargingFew
<1>2. Charging(p, u)' \subseteq Desks[p].Handler
  BY DEF Charging
<1> QED BY <1>1, <1>2, FS_Subset, FS_CardinalityType

\* One handler does something else, and it charges nothing before or after that.
LEMMA SpentElse ==
  ASSUME NEW p \in DOMAIN Desks, DeskHolds(p), NEW h \in Desks[p].Handler, NEW what \in DeskWork(p),
         g2[h].at # "execute", what.at # "execute",
         g2' = [g2 EXCEPT ![h] = what], g5' = g5, Told(p, g1)'
  PROVE  DeskHolds(p)'
<1>1. g2 \in [Desks[p].Handler -> DeskWork(p)] /\ g2' \in [Desks[p].Handler -> DeskWork(p)]
  BY DEF DeskHolds
<1>2. /\ g2'[h] = what
      /\ \A k \in Desks[p].Handler : k # h => g2'[k] = g2[k]
  BY <1>1
<1>3. ASSUME NEW u PROVE Charging(p, u)' = Charging(p, u)
  BY <1>2 DEF Charging
<1>4. DeskSpent(p)'
  BY <1>3 DEF DeskHolds, DeskSpent
<1>5. (g2 \in [Desks[p].Handler -> DeskWork(p)])' /\ (g5 \in [Desks[p].Role \X Desks[p].Tool -> Nat])'
  BY <1>1 DEF DeskHolds, DeskWork, Desk!Idle, Desk!Chatting, Desk!Entering, Desk!Calling, Desk!Session, Desk!Message
<1> QED BY <1>4, <1>5 DEF DeskHolds

\* No handler does anything else.
LEMMA SpentSame ==
  ASSUME NEW p \in DOMAIN Desks, DeskHolds(p), g2' = g2, g5' = g5, Told(p, g1)'
  PROVE  DeskHolds(p)'
<1>1. DeskSpent(p)'
  BY DEF DeskHolds, DeskSpent, Charging
<1>2. (g2 \in [Desks[p].Handler -> DeskWork(p)])' /\ (g5 \in [Desks[p].Role \X Desks[p].Tool -> Nat])'
  BY DEF DeskHolds, DeskWork, Desk!Idle, Desk!Chatting, Desk!Entering, Desk!Calling, Desk!Session, Desk!Message
<1> QED BY <1>1, <1>2 DEF DeskHolds

\* What is told of a value is told of it in the next state.
LEMMA ToldNext ==
  ASSUME NEW p \in DOMAIN Desks, NEW d, g1' = d, Told(p, d)
  PROVE  Told(p, g1)'
<1>1. Told(p, g1')
  BY Zenon
<1> DEFINE R == TalkRecord(p)
           T == Desk(p)!Torn
<1>2. /\ g1' \in R /\ g1'.table \in 0..Len(g1'.objects)
      /\ Numbered(g1'.sent) /\ Numbered(g1'.safe)
      /\ g1'.table = 0 => g1'.sent = g1'.safe
      /\ ~g1'.raced /\ g1'.file # T => InWindow(p, g1'.safe, g1'.file.messages)
      /\ ~g1'.raced /\ g1'.table # 0 =>
           /\ InWindow(p, g1'.sent, g1'.objects[g1'.table].messages)
           /\ g1'.objects[g1'.table] = g1'.file \/ g1'.behind
  BY <1>1, Zenon DEF Told
<1>3. TalkRecord(p)' = R /\ Desk(p)!Torn' = T
  BY DEF TalkRecord, Desk!Session, Desk!Message, Desk!Torn
<1> HIDE DEF R, T
<1>4. /\ g1' \in TalkRecord(p)' /\ g1'.table \in 0..Len(g1'.objects)
      /\ Numbered(g1.sent)' /\ Numbered(g1.safe)'
      /\ g1'.table = 0 => g1'.sent = g1'.safe
      /\ ~g1'.raced /\ g1'.file # Desk(p)!Torn' => InWindow(p, g1.safe, g1.file.messages)'
      /\ ~g1'.raced /\ g1'.table # 0 =>
           /\ InWindow(p, g1.sent, g1.objects[g1.table].messages)'
           /\ g1'.objects[g1'.table] = g1'.file \/ g1'.behind
  BY <1>2, <1>3, Zenon DEF Numbered, Newest, Headed, InWindow
<1> QED BY <1>4, Zenon DEF Told

\* The conversation stays as it is.
LEMMA ToldStays ==
  ASSUME NEW p \in DOMAIN Desks, DeskHolds(p), g1' = g1
  PROVE  Told(p, g1)'
BY ToldNext DEF DeskHolds

\* A request arrives, a file is read, a provider is chosen.
LEMMA DeskReads ==
  ASSUME NEW p \in DOMAIN Desks, DeskHolds(p), NEW h \in Desks[p].Handler,
         \/ \E ask \in Desks[p].Ask : Desk(p)!Arrive(h, ask)
         \/ Desk(p)!Load(h) \/ Desk(p)!Choose(h)
  PROVE  DeskHolds(p)'
<1>0. g1' = g1 /\ g5' = g5 /\ Told(p, g1)'
  <2>1. g1' = g1 /\ g5' = g5
    BY DEF Desk!Arrive, Desk!Load, Desk!Choose, Desk!Rest
  <2> QED BY <2>1, ToldStays
<1>1. g2[h] \in DeskWork(p) /\ g1 \in TalkRecord(p) /\ g1.table \in Nat
  BY DEF DeskHolds, Told, TalkRecord
<1>2. ASSUME NEW ask \in Desks[p].Ask, Desk(p)!Arrive(h, ask) PROVE DeskHolds(p)'
  <2> DEFINE what == [at |-> IF g1.table = 0 THEN "read" ELSE "mode", ask |-> ask,
                      object |-> g1.table]
  <2>1. g2[h].at # "execute" /\ g2' = [g2 EXCEPT ![h] = what]
    BY <1>2 DEF Desk!Arrive, Desk!Do, Desk!Idle
  <2>2. what \in DeskWork(p) /\ what.at # "execute"
    BY <1>1 DEF Desk!Chatting, DeskWork
  <2> HIDE DEF what
  <2> QED BY <1>0, <2>1, <2>2, SpentElse
<1>3. CASE Desk(p)!Load(h)
  <2> DEFINE idle == Desk(p)!Idle
             next == [at |-> "insert", ask |-> g2[h].ask, read |-> g1.file]
             what == IF g1.file = Desk(p)!Torn THEN idle ELSE next
  <2>1. g2[h].at = "read" /\ g2' = [g2 EXCEPT ![h] = what]
    BY <1>3 DEF Desk!Load, Desk!Do
  <2>2. idle \in DeskWork(p) /\ idle.at # "execute"
    BY DEF DeskWork, Desk!Idle
  <2>3. g1.file # Desk(p)!Torn => next \in DeskWork(p)
    <3> SUFFICES ASSUME g1.file # Desk(p)!Torn PROVE next \in Desk(p)!Entering
      BY DEF DeskWork
    <3>1. g1.file \in Desk(p)!Session
      BY <1>1 DEF TalkRecord
    <3>2. g2[h].ask \in Desks[p].Ask
      BY <1>1, <2>1, DeskWorkWhere DEF Desk!Chatting
    <3> QED BY <3>1, <3>2 DEF Desk!Entering
  <2>4. next.at # "execute"
    OBVIOUS
  <2> HIDE DEF idle, next
  <2>5. what \in DeskWork(p) /\ what.at # "execute"
    BY <2>2, <2>3, <2>4
  <2> HIDE DEF what
  <2> QED BY <1>0, <2>1, <2>5, SpentElse
<1>4. CASE Desk(p)!Choose(h)
  <2>1. /\ g2[h].at = "select"
        /\ \E at \in {"answer", "sorry"} : g2' = [g2 EXCEPT ![h] = [g2[h] EXCEPT !.at = at]]
    BY <1>4, Zenon DEF Desk!Choose, Desk!Goto, Desk!Do
  <2>2. PICK at \in {"answer", "sorry"} : g2' = [g2 EXCEPT ![h] = [g2[h] EXCEPT !.at = at]]
    BY <2>1
  <2> DEFINE what == [g2[h] EXCEPT !.at = at]
  <2>5. g2[h] \in Desk(p)!Chatting
    BY <1>1, <2>1, DeskWorkWhere
  <2>6. at \in {"read", "mode", "pin", "say", "select", "answer", "sorry"}
    OBVIOUS
  <2>3. what \in DeskWork(p) /\ what.at = at
    BY <2>5, <2>6 DEF Desk!Chatting, DeskWork
  <2> HIDE DEF what
  <2>4. what.at # "execute" /\ g2' = [g2 EXCEPT ![h] = what]
    BY <2>2, <2>3 DEF what
  <2> QED BY <1>0, <2>1, <2>3, <2>4, SpentElse
<1> QED BY <1>2, <1>3, <1>4

\* What was read is entered; it is the conversation, if no one changed the file meanwhile.
LEMMA DeskInserts ==
  ASSUME NEW p \in DOMAIN Desks, DeskHolds(p), NEW h \in Desks[p].Handler, Desk(p)!Insert(h)
  PROVE  DeskHolds(p)'
<1> DEFINE S == Desk(p)!Session
           read == g2[h].read
           object == Len(g1.objects) + 1
           list == Append(g1.objects, read)
           found == IF g1.table = 0 THEN g1.file ELSE Desk(p)!Current
           met == g1.raced \/ found # read
           d == [objects |-> list, table |-> object, file |-> g1.file, sent |-> g1.sent,
                 safe |-> g1.safe, behind |-> g1.behind, raced |-> met]
           what == [at |-> "mode", ask |-> g2[h].ask, object |-> object]
<1>1. /\ g2[h].at = "insert" /\ g5' = g5 /\ g2' = [g2 EXCEPT ![h] = what]
      /\ g1' = [g1 EXCEPT !.objects = Append(@, g2[h].read), !.table = object,
                          !.raced = @ \/ found # g2[h].read]
  BY Zenon DEF Desk!Insert, Desk!Do, Desk!Rest
<1>2. read \in S /\ g2[h].ask \in Desks[p].Ask
  BY <1>1, DeskWorkWhere DEF DeskHolds, Desk!Entering
<1>3. /\ g1 \in [objects : Seq(S), table : Nat, file : S \cup {Desk(p)!Torn},
                 sent : Seq(Desk(p)!Message), safe : Seq(Desk(p)!Message),
                 behind : BOOLEAN, raced : BOOLEAN]
      /\ Told(p, g1)
  BY DEF DeskHolds, Told, TalkRecord
<1>4. read # Desk(p)!Torn
  BY <1>2, TornIsNone
<1>5. object \in Nat /\ object # 0 /\ what \in DeskWork(p) /\ what.at # "execute"
  <2>1. object \in Nat /\ object # 0
    BY <1>3
  <2> HIDE DEF object
  <2> QED BY <1>2, <2>1 DEF DeskWork, Desk!Chatting
<1> HIDE DEF S, read, found
<1>6. list \in Seq(S) /\ Len(list) = object /\ list[object] = read
  BY <1>2, <1>3, AppendProperties
<1>7. g1' = d
  <2>1. g1' = [[[g1 EXCEPT !.objects = list] EXCEPT !.table = object] EXCEPT !.raced = met]
    <3>1. g1.objects = g1.objects /\ list = Append(g1.objects, g2[h].read)
      BY DEF read
    <3>2. g1' = [g1 EXCEPT !.objects = list, !.table = object, !.raced = met]
      BY <1>1, Zenon DEF read
    <3> HIDE DEF list, object, met
    <3> QED BY <1>3, <3>2
  <2> HIDE DEF list, object, met
  <2> QED BY <1>3, <2>1
<1> HIDE DEF list, object
<1>8. Told(p, d)
  <2>1. d \in TalkRecord(p)
    <3>1. met \in BOOLEAN
      BY <1>3
    <3> HIDE DEF met
    <3> QED BY <1>3, <1>5, <1>6, <3>1 DEF TalkRecord, S
  <2>2. d.table \in 0..Len(d.objects) /\ Numbered(d.sent) /\ Numbered(d.safe)
    BY <1>3, <1>5, <1>6 DEF Told
  <2>3. ~d.raced /\ d.file # Desk(p)!Torn => InWindow(p, d.safe, d.file.messages)
    <3>1. ~met => ~g1.raced
      OBVIOUS
    <3> HIDE DEF met
    <3> QED BY <1>3, <3>1 DEF Told
  <2>4. ASSUME ~met
        PROVE  /\ InWindow(p, g1.sent, list[object].messages)
               /\ list[object] = g1.file \/ g1.behind
    <3>1. ~g1.raced /\ found = read /\ list[object] = read
      BY <1>6, <2>4
    <3>2. CASE g1.table = 0
      <4>1. found = g1.file /\ g1.sent = g1.safe
        BY <1>3, <3>2 DEF found, Told
      <4>2. InWindow(p, g1.safe, g1.file.messages)
        BY <1>3, <1>4, <3>1, <4>1 DEF Told
      <4> QED BY <3>1, <4>1, <4>2
    <3>3. CASE g1.table # 0
      <4>1. found = g1.objects[g1.table]
        BY <3>3 DEF found, Desk!Current
      <4> QED BY <1>3, <3>1, <3>3, <4>1 DEF Told
    <3> QED BY <3>2, <3>3
  <2>5. /\ d.table # 0
        /\ ~d.raced => /\ InWindow(p, d.sent, d.objects[d.table].messages)
                       /\ d.objects[d.table] = d.file \/ d.behind
    <3> HIDE DEF met
    <3> QED BY <1>5, <2>4
  <2> HIDE DEF d
  <2> QED BY <2>1, <2>2, <2>3, <2>5 DEF Told
<1> HIDE DEF d, what
<1>9. Told(p, g1)'
  BY <1>7, <1>8, ToldNext
<1> QED BY <1>1, <1>5, <1>9, SpentElse

\* The mode and the provider are set.
LEMMA DeskSets ==
  ASSUME NEW p \in DOMAIN Desks, DeskHolds(p), NEW h \in Desks[p].Handler,
         Desk(p)!Mode(h) \/ Desk(p)!Pin(h)
  PROVE  DeskHolds(p)'
<1> DEFINE now == Desk(p)!Current
           mode(b) == [now EXCEPT !.manual = b]
           pin(b) == [now EXCEPT !.pin = b]
<1>1. /\ g5' = g5
      /\ \E at \in {"pin", "say"} : g2' = [g2 EXCEPT ![h] = [g2[h] EXCEPT !.at = at]]
      /\ g2[h].at \in {"mode", "pin"}
  BY Zenon DEF Desk!Mode, Desk!Pin, Desk!Goto, Desk!Do, Desk!Rest
<1>2. g2[h] \in Desk(p)!Chatting
  BY <1>1, DeskWorkWhere DEF DeskHolds
<1>3. Told(p, g1)
  BY DEF DeskHolds
<1>4. ASSUME g1.table # 0, NEW b \in BOOLEAN, NEW d \in Desk(p)!Stored(mode(b), g1.sent)
      PROVE  Told(p, d)
  <2>1. now \in Desk(p)!Session
    BY <1>3, <1>4, CurrentIs
  <2> DEFINE c == mode(b)
  <2> HIDE DEF now
  <2>2. c \in Desk(p)!Session /\ c.messages = now.messages
    BY <2>1 DEF Desk!Session
  <2> HIDE DEF c
  <2>3. d \in Desk(p)!Stored(c, g1.sent)
    BY <1>4 DEF c, now
  <2> QED BY <1>3, <1>4, <2>2, <2>3, ToldChanged DEF now
<1>5. ASSUME g1.table # 0, NEW b \in Desks[p].Provider \cup {Desk(p)!Unset},
             NEW d \in Desk(p)!Stored(pin(b), g1.sent)
      PROVE  Told(p, d)
  <2>1. now \in Desk(p)!Session
    BY <1>3, <1>5, CurrentIs
  <2> DEFINE c == pin(b)
  <2> HIDE DEF now
  <2>2. c \in Desk(p)!Session /\ c.messages = now.messages
    BY <2>1 DEF Desk!Session
  <2> HIDE DEF c
  <2>3. d \in Desk(p)!Stored(c, g1.sent)
    BY <1>5 DEF c, now
  <2> QED BY <1>3, <1>5, <2>2, <2>3, ToldChanged DEF now
<1>6. \/ g1' = g1
      \/ g1.table # 0 /\ \E b \in BOOLEAN : g1' \in Desk(p)!Stored(mode(b), g1.sent)
      \/ g1.table # 0 /\ \E b \in Desks[p].Provider \cup {Desk(p)!Unset} :
                           g1' \in Desk(p)!Stored(pin(b), g1.sent)
  <2>1. CASE Desk(p)!Mode(h)
    <3> DEFINE b == g2[h].ask.mode = "manual"
    <3>1. g1' = g1 \/ (g1.table # 0 /\ g1' \in Desk(p)!Stored(mode(b), g1.sent))
      BY <2>1, Zenon DEF Desk!Mode
    <3>2. b \in BOOLEAN
      OBVIOUS
    <3> HIDE DEF b, mode
    <3> QED BY <3>1, <3>2
  <2>2. CASE Desk(p)!Pin(h)
    <3> DEFINE b == g2[h].ask.pin
    <3>1. g1' = g1 \/ (g1.table # 0 /\ g1' \in Desk(p)!Stored(pin(b), g1.sent))
      BY <2>2, Zenon DEF Desk!Pin
    <3>2. b \in Desks[p].Provider \cup {Desk(p)!Unset}
      <4>1. g2[h].ask \in Desks[p].Ask
        BY <1>2 DEF Desk!Chatting
      <4> DEFINE e == Desk(p)!Unset
                 P == Desks[p].Provider \cup {e}
                 M == {e, "auto", "manual"}
      <4>2. Desks[p].Ask \subseteq [mode : M, pin : P]
        BY DeskAssumed, Zenon DEF Desk!AssistantAssumption
      <4> HIDE DEF e, P, M
      <4>3. g2[h].ask.pin \in P
        BY <4>1, <4>2
      <4> QED BY <4>3 DEF P, e
    <3> HIDE DEF b, pin
    <3> QED BY <3>1, <3>2
  <2> QED BY <2>1, <2>2
<1> HIDE DEF mode, pin
<1>7. Told(p, g1)'
  BY <1>3, <1>4, <1>5, <1>6, ToldNext
<1>8. PICK at \in {"pin", "say"} : g2' = [g2 EXCEPT ![h] = [g2[h] EXCEPT !.at = at]]
  BY <1>1
<1> DEFINE what == [g2[h] EXCEPT !.at = at]
<1>11. at \in {"read", "mode", "pin", "say", "select", "answer", "sorry"}
  OBVIOUS
<1>9. what \in DeskWork(p) /\ what.at = at
  BY <1>2, <1>11 DEF Desk!Chatting, DeskWork
<1>10. g2' = [g2 EXCEPT ![h] = what]
  BY <1>8
<1> HIDE DEF what
<1> QED BY <1>1, <1>7, <1>9, <1>10, SpentElse

\* A message is added, by a user, a provider or the system.
LEMMA DeskSays ==
  ASSUME NEW p \in DOMAIN Desks, DeskHolds(p), NEW h \in Desks[p].Handler,
         Desk(p)!Say(h) \/ Desk(p)!Answer(h) \/ Desk(p)!Instruct(h)
  PROVE  DeskHolds(p)'
<1>1. g5' = g5 /\ \E b \in BOOLEAN : g1' \in Desk(p)!Added(b)
  BY Zenon DEF Desk!Say, Desk!Answer, Desk!Instruct, Desk!Rest
<1>2. Told(p, g1)'
  <2>1. PICK b \in BOOLEAN : g1' \in Desk(p)!Added(b)
    BY <1>1
  <2>2. Told(p, g1)
    BY DEF DeskHolds
  <2>3. Told(p, g1')
    BY <2>1, <2>2, ToldAdded
  <2> QED BY <2>3, ToldNext
<1>3. CASE Desk(p)!Say(h)
  <2> DEFINE what == [g2[h] EXCEPT !.at = "select"]
  <2>1. g2[h].at = "say" /\ g2' = [g2 EXCEPT ![h] = what]
    BY <1>3, Zenon DEF Desk!Say, Desk!Goto, Desk!Do
  <2>2. g2[h] \in Desk(p)!Chatting
    BY <2>1, DeskWorkWhere DEF DeskHolds
  <2>3. what \in DeskWork(p) /\ what.at = "select"
    BY <2>2, ChattingOn
  <2> HIDE DEF what
  <2> QED BY <1>1, <1>2, <2>1, <2>3, SpentElse
<1>4. CASE Desk(p)!Answer(h)
  <2> DEFINE what == Desk(p)!Idle
  <2>1. g2[h].at \in {"answer", "sorry"} /\ g2' = [g2 EXCEPT ![h] = what]
    BY <1>4, Zenon DEF Desk!Answer, Desk!Do
  <2>2. what \in DeskWork(p) /\ what.at # "execute"
    BY DEF DeskWork, Desk!Idle
  <2> HIDE DEF what
  <2> QED BY <1>1, <1>2, <2>1, <2>2, SpentElse
<1>5. CASE Desk(p)!Instruct(h)
  <2>1. g2' = g2
    BY <1>5 DEF Desk!Instruct
  <2> QED BY <1>1, <1>2, <2>1, SpentSame
<1> QED BY <1>3, <1>4, <1>5

\* A conversation is forgotten and its file may be torn: nothing else is told than was.
LEMMA DeskRestarts ==
  ASSUME NEW p \in DOMAIN Desks, DeskHolds(p), Desk(p)!Restart
  PROVE  DeskHolds(p)'
<1>1. PICK file \in {g1.file, Desk(p)!Torn} :
        g1' = [g1 EXCEPT !.objects = <<>>, !.table = 0, !.file = file, !.sent = g1.safe,
                         !.behind = FALSE]
  BY Zenon DEF Desk!Restart
<1>2. /\ g2' = [h \in Desks[p].Handler |-> Desk(p)!Idle]
      /\ g5' = [u \in Desks[p].Role \X Desks[p].Tool |-> 0]
  BY Zenon DEF Desk!Restart
<1>3. Told(p, g1)'
  <2> DEFINE d == [objects |-> <<>>, table |-> 0, file |-> file, sent |-> g1.safe,
                   safe |-> g1.safe, behind |-> FALSE, raced |-> g1.raced]
             S == Desk(p)!Session
  <2>1. /\ g1 \in [objects : Seq(S), table : Nat, file : S \cup {Desk(p)!Torn},
                   sent : Seq(Desk(p)!Message), safe : Seq(Desk(p)!Message),
                   behind : BOOLEAN, raced : BOOLEAN]
        /\ Told(p, g1)
    BY DEF DeskHolds, Told, TalkRecord
  <2> HIDE DEF S
  <2>2. g1' = d
    BY <1>1, <2>1
  <2>3. <<>> \in Seq(S) /\ Len(<<>>) = 0
    OBVIOUS
  <2>4. d \in TalkRecord(p)
    BY <2>1, <2>3 DEF TalkRecord, S
  <2>5. d.table \in 0..Len(d.objects) /\ Numbered(d.sent) /\ d.sent = d.safe
    BY <2>1, <2>3 DEF Told
  <2>6. ~d.raced /\ d.file # Desk(p)!Torn => InWindow(p, d.safe, d.file.messages)
    BY <2>1 DEF Told
  <2>7. d.table = 0
    OBVIOUS
  <2> HIDE DEF d
  <2>8. Told(p, d)
    BY <2>4, <2>5, <2>6, <2>7 DEF Told
  <2> QED BY <2>2, <2>8, ToldNext
<1>4. ASSUME NEW u \in Desks[p].Role \X Desks[p].Tool
      PROVE  g5'[u] + Cardinality(Charging(p, u)')
               <= Desks[p].QuotaMax + Cardinality(Desks[p].Handler)
  BY <1>2, ChargingFew, ChargingFewNext
<1>5. DeskSpent(p)'
  BY <1>4 DEF DeskSpent
<1>6. (g2 \in [Desks[p].Handler -> DeskWork(p)])'
  BY <1>2 DEF DeskWork, Desk!Idle
<1>7. (g5 \in [Desks[p].Role \X Desks[p].Tool -> Nat])'
  BY <1>2
<1> QED BY <1>3, <1>5, <1>6, <1>7 DEF DeskHolds

\* The quotas start anew.
LEMMA DeskResets ==
  ASSUME NEW p \in DOMAIN Desks, DeskHolds(p), Desk(p)!ResetQuotas
  PROVE  DeskHolds(p)'
<1>1. /\ g1' = g1 /\ g2' = g2 /\ g5' = [u \in Desks[p].Role \X Desks[p].Tool |-> 0]
  BY Zenon DEF Desk!ResetQuotas
<1>2. ASSUME NEW u \in Desks[p].Role \X Desks[p].Tool
      PROVE  g5'[u] + Cardinality(Charging(p, u)')
               <= Desks[p].QuotaMax + Cardinality(Desks[p].Handler)
  BY <1>1, ChargingFew, ChargingFewNext
<1>3. DeskSpent(p)'
  BY <1>2 DEF DeskSpent
<1>4. (g2 \in [Desks[p].Handler -> DeskWork(p)])'
  BY <1>1 DEF DeskHolds, DeskWork, Desk!Idle, Desk!Chatting, Desk!Entering, Desk!Calling, Desk!Session, Desk!Message
<1>5. (g5 \in [Desks[p].Role \X Desks[p].Tool -> Nat])'
  BY <1>1
<1>6. Told(p, g1)'
  BY <1>1, ToldStays
<1> QED BY <1>3, <1>4, <1>5, <1>6 DEF DeskHolds

\* A tool is asked for.
LEMMA DeskAsks ==
  ASSUME NEW p \in DOMAIN Desks, DeskHolds(p), NEW h \in Desks[p].Handler,
         NEW role \in Desks[p].Role, NEW tool \in Desks[p].Tool, NEW tokens,
         Desk(p)!PreInvoke(h, role, tool, tokens)
  PROVE  DeskHolds(p)'
<1> DEFINE ok == \E t \in tokens : Desk(p)!Checked(t)
           what == [at |-> "invoke", tool |-> tool, role |-> role, confirmed |-> ok]
<1>1. /\ g1' = g1 /\ g5' = g5 /\ g2[h].at # "execute" /\ g2' = [g2 EXCEPT ![h] = what]
  BY DEF Desk!PreInvoke, Desk!Do, Desk!Idle
<1>2. ok \in BOOLEAN
  OBVIOUS
<1> HIDE DEF ok
<1>3. what \in DeskWork(p) /\ what.at # "execute"
  BY <1>2 DEF DeskWork, Desk!Calling
<1>4. Told(p, g1)'
  BY <1>1, ToldStays
<1> HIDE DEF what
<1> QED BY <1>1, <1>3, <1>4, SpentElse

\* A tool is run only while its quota is not exceeded: whoever is about to charge it then,
\* no more than all handlers will.
LEMMA DeskInvokes ==
  ASSUME NEW p \in DOMAIN Desks, DeskHolds(p), NEW h \in Desks[p].Handler, Desk(p)!Invoke(h)
  PROVE  DeskHolds(p)'
<1> DEFINE call == g2[h]
           go == [call EXCEPT !.at = "execute"]
           idle == Desk(p)!Idle
           mine == <<call.role, call.tool>>
<1>1. /\ g1' = g1 /\ g5' = g5 /\ call.at = "invoke"
      /\ \/ Desk(p)!Within(call.role, call.tool) /\ g2' = [g2 EXCEPT ![h] = go]
         \/ g2' = [g2 EXCEPT ![h] = idle]
  BY Zenon DEF Desk!Invoke, Desk!Goto, Desk!Do
<1>2. call \in Desk(p)!Calling
  BY <1>1, DeskWorkWhere DEF DeskHolds
<1>3. Told(p, g1)'
  BY <1>1, ToldStays
<1>4. CASE g2' = [g2 EXCEPT ![h] = idle]
  <2>1. idle \in DeskWork(p) /\ idle.at # "execute" /\ g2[h].at # "execute"
    BY <1>1 DEF DeskWork, Desk!Idle
  <2> HIDE DEF idle
  <2> QED BY <1>1, <1>3, <1>4, <2>1, SpentElse
<1>5. CASE Desk(p)!Within(call.role, call.tool) /\ g2' = [g2 EXCEPT ![h] = go]
  <2>1. go \in DeskWork(p) /\ <<go.role, go.tool>> = mine /\ mine \in Desks[p].Role \X Desks[p].Tool
    BY <1>2 DEF DeskWork, Desk!Calling
  <2>2. Desks[p].QuotaMax > 0 => g5[mine] <= Desks[p].QuotaMax
    BY <1>5, ChargingFew DEF Desk!Within
  <2>3. g2 \in [Desks[p].Handler -> DeskWork(p)] /\ g5 \in [Desks[p].Role \X Desks[p].Tool -> Nat]
    BY DEF DeskHolds
  <2> HIDE DEF go, mine
  <2>4. /\ g2'[h] = go /\ g2' \in [Desks[p].Handler -> DeskWork(p)]
        /\ \A k \in Desks[p].Handler : k # h => g2'[k] = g2[k]
    BY <1>5, <2>1, <2>3
  <2>5. ASSUME Desks[p].QuotaMax > 0, NEW u \in Desks[p].Role \X Desks[p].Tool
        PROVE  g5'[u] + Cardinality(Charging(p, u)')
                 <= Desks[p].QuotaMax + Cardinality(Desks[p].Handler)
    <3>1. CASE u = mine
      <4>1. g5'[u] \in Nat /\ g5'[u] <= Desks[p].QuotaMax
        BY <1>1, <2>1, <2>2, <2>3, <2>5, <3>1
      <4> DEFINE n == Cardinality(Charging(p, u)')
                 all == Cardinality(Desks[p].Handler)
      <4>2. n \in Nat /\ all \in Nat /\ n <= all /\ Desks[p].QuotaMax \in Nat
        BY ChargingFew, ChargingFewNext
      <4> HIDE DEF n, all
      <4>3. g5'[u] + n <= Desks[p].QuotaMax + all
        BY <4>1, <4>2
      <4> QED BY <4>3 DEF n, all
    <3>2. CASE u # mine
      <4>1. Charging(p, u)' = Charging(p, u)
        BY <1>1, <2>1, <2>4, <3>2 DEF Charging
      <4> QED BY <1>1, <2>5, <4>1 DEF DeskHolds, DeskSpent
    <3> QED BY <3>1, <3>2
  <2>6. DeskSpent(p)'
    BY <2>5 DEF DeskSpent
  <2>7. (g2 \in [Desks[p].Handler -> DeskWork(p)])'
    BY <2>4 DEF DeskWork, Desk!Idle, Desk!Chatting, Desk!Entering, Desk!Calling, Desk!Session, Desk!Message
  <2>8. (g5 \in [Desks[p].Role \X Desks[p].Tool -> Nat])'
    BY <1>1, <2>3
  <2> QED BY <1>3, <2>6, <2>7, <2>8 DEF DeskHolds
<1> QED BY <1>1, <1>4, <1>5

\* A tool has run: it is charged, by one who is then no longer about to.
LEMMA DeskExecutes ==
  ASSUME NEW p \in DOMAIN Desks, DeskHolds(p), NEW h \in Desks[p].Handler, Desk(p)!Execute(h)
  PROVE  DeskHolds(p)'
<1> DEFINE call == g2[h]
           idle == Desk(p)!Idle
           mine == <<call.role, call.tool>>
<1>1. /\ g1' = g1 /\ call.at = "execute" /\ g2' = [g2 EXCEPT ![h] = idle]
      /\ g5' = [g5 EXCEPT ![mine] = @ + 1]
  BY Zenon DEF Desk!Execute, Desk!Do
<1>2. call \in Desk(p)!Calling
  BY <1>1, DeskWorkWhere DEF DeskHolds
<1>3. Told(p, g1)'
  BY <1>1, ToldStays
<1>4. idle \in DeskWork(p) /\ idle.at # "execute" /\ mine \in Desks[p].Role \X Desks[p].Tool
  BY <1>2 DEF DeskWork, Desk!Idle, Desk!Calling
<1>5. g2 \in [Desks[p].Handler -> DeskWork(p)] /\ g5 \in [Desks[p].Role \X Desks[p].Tool -> Nat]
  BY DEF DeskHolds
<1> DEFINE Q == Desks[p].Role \X Desks[p].Tool
<1> HIDE DEF idle, Q
<1>6. /\ g2'[h] = idle /\ g2' \in [Desks[p].Handler -> DeskWork(p)]
      /\ \A k \in Desks[p].Handler : k # h => g2'[k] = g2[k]
  BY <1>1, <1>4, <1>5
<1>7. /\ g5' \in [Q -> Nat] /\ g5'[mine] = g5[mine] + 1
      /\ \A u \in Q : u # mine => g5'[u] = g5[u]
  <2> HIDE DEF mine
  <2>1. mine \in Q /\ g5 \in [Q -> Nat]
    BY <1>4, <1>5 DEF Q
  <2> QED BY <1>1, <2>1
<1>8. ASSUME Desks[p].QuotaMax > 0, NEW u \in Q
      PROVE  g5'[u] + Cardinality(Charging(p, u)')
               <= Desks[p].QuotaMax + Cardinality(Desks[p].Handler)
  <2>0. g5[u] + Cardinality(Charging(p, u)) <= Desks[p].QuotaMax + Cardinality(Desks[p].Handler)
    BY <1>8 DEF DeskHolds, DeskSpent, Q
  <2>1. CASE u = mine
    <3>1. h \in Charging(p, u)
      BY <1>1, <2>1 DEF Charging
    <3>2. Charging(p, u)' = Charging(p, u) \ {h}
      BY <1>4, <1>6 DEF Charging
    <3>3. /\ Cardinality(Charging(p, u) \ {h}) = Cardinality(Charging(p, u)) - 1
          /\ Cardinality(Charging(p, u)) \in Nat
      BY <3>1, ChargingFew, FS_RemoveElement
    <3>4. g5'[u] = g5[u] + 1 /\ g5[u] \in Nat
      BY <1>5, <1>7, <2>1 DEF Q
    <3> DEFINE all == Desks[p].QuotaMax + Cardinality(Desks[p].Handler)
               n == Cardinality(Charging(p, u))
    <3>5. all \in Nat
      BY ChargingFew
    <3>6. n \in Nat /\ Cardinality(Charging(p, u)') = n - 1 /\ g5[u] + n <= all
      BY <2>0, <3>2, <3>3
    <3> HIDE DEF all, n
    <3>7. g5[u] + 1 + (n - 1) <= all
      BY <3>4, <3>5, <3>6
    <3> QED BY <3>4, <3>6, <3>7 DEF all
  <2>2. CASE u # mine
    <3>1. Charging(p, u)' = Charging(p, u)
      BY <1>4, <1>6, <2>2 DEF Charging
    <3> QED BY <1>7, <2>0, <2>2, <3>1
  <2> QED BY <2>1, <2>2
<1>9. DeskSpent(p)'
  BY <1>8 DEF DeskSpent, Q
<1>10. (g2 \in [Desks[p].Handler -> DeskWork(p)])'
  BY <1>6 DEF DeskWork, Desk!Idle, Desk!Chatting, Desk!Entering, Desk!Calling, Desk!Session, Desk!Message
<1>11. (g5 \in [Desks[p].Role \X Desks[p].Tool -> Nat])'
  BY <1>7 DEF Q
<1> QED BY <1>3, <1>9, <1>10, <1>11 DEF DeskHolds

\* Providers are looked at, and confirmations kept.
LEMMA DeskBeside ==
  ASSUME NEW p \in DOMAIN Desks, DeskHolds(p),
         \/ \E q \in Desks[p].Provider : Desk(p)!HealthCheck(q) \/ Desk(p)!Age(q)
         \/ \E t \in Desks[p].Token : Desk(p)!Request(t) \/ Desk(p)!Confirm(t) \/ Desk(p)!Expire(t)
         \/ Desk(p)!Prune
  PROVE  DeskHolds(p)'
<1>1. g1' = g1 /\ g2' = g2 /\ g5' = g5
  BY DEF Desk!HealthCheck, Desk!Age, Desk!Request, Desk!Confirm, Desk!Expire, Desk!Prune
<1> QED BY <1>1, ToldStays, SpentSame

\* Every step of the assistant keeps its invariant.
LEMMA DeskKeeps ==
  ASSUME NEW p \in DOMAIN Desks, DeskHolds(p), Desk(p)!Next
  PROVE  DeskHolds(p)'
<1>1. ASSUME NEW h \in Desks[p].Handler, Desk(p)!Chat(h) PROVE DeskHolds(p)'
  <2>1. CASE \/ \E ask \in Desks[p].Ask : Desk(p)!Arrive(h, ask)
             \/ Desk(p)!Load(h) \/ Desk(p)!Choose(h)
    BY <2>1, DeskReads
  <2>2. CASE Desk(p)!Insert(h)
    BY <2>2, DeskInserts
  <2>3. CASE Desk(p)!Mode(h) \/ Desk(p)!Pin(h)
    BY <2>3, DeskSets
  <2>4. CASE Desk(p)!Say(h) \/ Desk(p)!Answer(h) \/ Desk(p)!Instruct(h)
    BY <2>4, DeskSays
  <2> QED BY <1>1, <2>1, <2>2, <2>3, <2>4, Zenon DEF Desk!Chat
<1>2. ASSUME NEW h \in Desks[p].Handler, Desk(p)!Call(h) PROVE DeskHolds(p)'
  <2>1. \/ \E role \in Desks[p].Role, tool \in Desks[p].Tool, tokens \in {{}} \cup {{t} : t \in Desks[p].Token} :
             Desk(p)!PreInvoke(h, role, tool, tokens)
        \/ Desk(p)!Invoke(h) \/ Desk(p)!Execute(h)
    BY <1>2, Zenon DEF Desk!Call
  <2> QED BY <2>1, DeskAsks, DeskInvokes, DeskExecutes
<1>3. \/ \E h \in Desks[p].Handler : Desk(p)!Chat(h) \/ Desk(p)!Call(h)
      \/ \/ \E q \in Desks[p].Provider : Desk(p)!HealthCheck(q) \/ Desk(p)!Age(q)
         \/ \E t \in Desks[p].Token : Desk(p)!Request(t) \/ Desk(p)!Confirm(t) \/ Desk(p)!Expire(t)
         \/ Desk(p)!Prune
      \/ Desk(p)!ResetQuotas \/ Desk(p)!Restart
  BY Zenon DEF Desk!Next
<1> QED BY <1>1, <1>2, <1>3, DeskBeside, DeskResets, DeskRestarts

\* Nothing happens to the assistant.
LEMMA DeskRests ==
  ASSUME NEW p \in DOMAIN Desks, DeskHolds(p), g1' = g1, g2' = g2, g5' = g5
  PROVE  DeskHolds(p)'
BY ToldStays, SpentSame

-----------------------------------------------------------------------------
(* These guards together. *)

\* The invariant of the pieces that are proved here.
GuardsHold ==
  /\ piece = "screen" => ScreenHolds
  /\ piece = "chat" => ChatHolds
  /\ piece = "path" => PathHolds
  /\ \A p \in DOMAIN Stocks : piece = p => StockHolds(p)
  /\ \A p \in DOMAIN Desks : piece = p => DeskHolds(p)

\* A piece of one component is none of another.
LEMMA PiecesApart ==
  /\ NamedPieces \cap
       (DOMAIN Stocks \cup DOMAIN Desks \cup DOMAIN Wires \cup DOMAIN Choosers \cup DOMAIN Runners
          \cup DOMAIN Routers) = {}
  /\ DOMAIN Stocks \cap
       (NamedPieces \cup DOMAIN Desks \cup DOMAIN Wires \cup DOMAIN Choosers \cup DOMAIN Runners
          \cup DOMAIN Routers) = {}
  /\ DOMAIN Desks \cap
       (NamedPieces \cup DOMAIN Stocks \cup DOMAIN Wires \cup DOMAIN Choosers \cup DOMAIN Runners
          \cup DOMAIN Routers) = {}
<1>1. /\ DOMAIN Pieces = 1..7 /\ Pieces[1] = NamedPieces /\ Pieces[2] = DOMAIN Stocks
      /\ Pieces[3] = DOMAIN Desks /\ Pieces[4] = DOMAIN Wires /\ Pieces[5] = DOMAIN Choosers
      /\ Pieces[6] = DOMAIN Runners /\ Pieces[7] = DOMAIN Routers
  BY DEF Pieces
<1>2. \A i, j \in 1..7 : i # j => Pieces[i] \cap Pieces[j] = {}
  BY <1>1, NamesAssumption
<1>3. /\ \A i \in {2, 3, 4, 5, 6, 7} : Pieces[1] \cap Pieces[i] = {}
      /\ \A i \in {1, 3, 4, 5, 6, 7} : Pieces[2] \cap Pieces[i] = {}
      /\ \A i \in {1, 2, 4, 5, 6, 7} : Pieces[3] \cap Pieces[i] = {}
  BY <1>2
<1> QED BY <1>1, <1>3

\* The pieces of which nothing is said here.
PiecesBeside ==
  {"centre", "books"} \cup DOMAIN Wires \cup DOMAIN Choosers \cup DOMAIN Runners
    \cup DOMAIN Routers

\* The invariant holds at the start, ...
LEMMA GuardsStart == GuardsInit => GuardsHold
<1> SUFFICES ASSUME GuardsInit PROVE GuardsHold
  OBVIOUS
<1>1. \/ piece \in PiecesBeside
      \/ piece = "screen" /\ Screen!Init
      \/ piece = "chat" /\ Chat!Init
      \/ piece = "path" /\ Path!Init
      \/ \E p \in DOMAIN Stocks : piece = p /\ Stock(p)!Init
      \/ \E p \in DOMAIN Desks : piece = p /\ Desk(p)!Init
  <2>1. \/ ScreenInit \/ CentreInit \/ ChatInit \/ PathInit \/ BooksInit \/ StockInit
        \/ DeskInit \/ WireInit \/ ChoiceInit \/ EngineInit \/ RouterInit
    BY DEF GuardsInit
  <2>2. CentreInit \/ BooksInit => piece \in {"centre", "books"}
    BY DEF CentreInit, BooksInit
  <2>3. /\ WireInit => piece \in DOMAIN Wires
        /\ ChoiceInit => piece \in DOMAIN Choosers
        /\ EngineInit => piece \in DOMAIN Runners
        /\ RouterInit => piece \in DOMAIN Routers
    BY DEF WireInit, ChoiceInit, EngineInit, RouterInit
  <2> QED BY <2>1, <2>2, <2>3
      DEF PiecesBeside, ScreenInit, ChatInit, PathInit, StockInit, DeskInit
<1>2. /\ piece = "screen" => Screen!Init
      /\ piece = "chat" => Chat!Init
      /\ piece = "path" => Path!Init
      /\ \A p \in DOMAIN Stocks : piece = p => Stock(p)!Init
      /\ \A p \in DOMAIN Desks : piece = p => Desk(p)!Init
  BY <1>1, PiecesApart DEF PiecesBeside, NamedPieces
<1> QED BY <1>2, ScreenStarts, ChatStarts, PathStarts, StockStarts, DeskStarts DEF GuardsHold

\* ... nothing changes while nothing happens, ...
LEMMA GuardsStutter == GuardsHold /\ UNCHANGED guardVars => GuardsHold'
<1> SUFFICES ASSUME GuardsHold, UNCHANGED guardVars PROVE GuardsHold'
  OBVIOUS
<1>0. /\ piece' = piece /\ g1' = g1 /\ g2' = g2 /\ g3' = g3 /\ g4' = g4 /\ g5' = g5
      /\ g6' = g6 /\ g7' = g7 /\ g8' = g8 /\ g9' = g9
  BY DEF guardVars
<1>1. ASSUME NEW p \in DOMAIN Stocks, StockHolds(p) PROVE StockHolds(p)'
  BY <1>0, <1>1 DEF StockHolds, StockNamed, StockSealed, StockInfo, StockGiven
<1>2. ASSUME NEW p \in DOMAIN Desks, DeskHolds(p) PROVE DeskHolds(p)'
  BY <1>0, <1>2, DeskRests
<1>3. ScreenHolds => ScreenHolds'
  <2>1. ScreenTypes => ScreenTypes'
    BY <1>0 DEF ScreenTypes, Screen!Gray, Screen!Entry, Screen!Absent, Screen!Asking, Screen!Idle
  <2>2. ScreenBounded => ScreenBounded'
    BY <1>0 DEF ScreenBounded, ScreenHeld, Screen!Gray, Screen!Absent
  <2>3. ScreenFresh => ScreenFresh'
    BY <1>0 DEF ScreenFresh, Screen!Gray
  <2>4. ScreenOut => ScreenOut'
    BY <1>0 DEF ScreenOut, Screen!NeverLoosened, Screen!Verdict, Screen!Reason, Screen!Silent,
       Screen!Gray
  <2> QED BY <2>1, <2>2, <2>3, <2>4 DEF ScreenHolds
<1>4. ChatHolds => ChatHolds'
  BY <1>0 DEF ChatHolds, ChatFair
<1>5. PathHolds => PathHolds'
  <2>1. PathCallers => PathCallers'
    <3> SUFFICES ASSUME PathCallers PROVE PathCallers'
      OBVIOUS
    <3>1. g1' \in Path!Conf /\ g4' \in BOOLEAN
      BY <1>0 DEF PathCallers
    <3>2. g5' \in [Paths.Handler -> Path!Doing \cup {Path!Idle}]
      BY <1>0 DEF PathCallers
    <3>3. ASSUME NEW h \in Paths.Handler, g5'[h] # Path!Idle
          PROVE  PathFair(g5'[h]) /\ PathSees(g5'[h], g1', g4')
      BY <1>0, <3>3 DEF PathCallers
    <3>4. \A h, k \in Paths.Handler :
            g5'[h].at = "emit" /\ <<k, TRUE>> \in g5'[h].left => g5'[k].at = "stream"
      BY <1>0 DEF PathCallers
    <3> QED BY <3>1, <3>2, <3>3, <3>4
         DEF PathCallers, Path!Conf, Path!Doing, Path!Idle, PathFair, PathSees
  <2>2. PathPolicy => PathPolicy'
    BY <1>0 DEF PathPolicy, PathStale, Path!None
  <2> QED BY <2>1, <2>2 DEF PathHolds
<1> QED BY <1>0, <1>1, <1>2, <1>3, <1>4, <1>5 DEF GuardsHold

\* ... and every step keeps it.
LEMMA GuardsKeep == GuardsHold /\ [GuardsNext]_guardVars => GuardsHold'
<1> SUFFICES ASSUME GuardsHold, GuardsNext PROVE GuardsHold'
  BY GuardsStutter
<1>1. /\ piece' = piece
      /\ \/ piece \in PiecesBeside
         \/ piece = "screen" /\ Screen!Next
         \/ piece = "chat" /\ Chat!Next
         \/ piece = "path" /\ Path!Next
         \/ \E p \in DOMAIN Stocks : piece = p /\ Stock(p)!Next
         \/ \E p \in DOMAIN Desks : piece = p /\ Desk(p)!Next
  <2>1. \/ ScreenNext \/ CentreNext \/ ChatNext \/ PathNext \/ BooksNext \/ StockNext
        \/ DeskNext \/ WireNext \/ ChoiceNext \/ EngineNext \/ RouterNext
    BY DEF GuardsNext
  <2>2. /\ CentreNext \/ BooksNext => piece' = piece /\ piece \in {"centre", "books"}
        /\ ScreenNext => piece' = piece /\ piece = "screen" /\ Screen!Next
        /\ ChatNext => piece' = piece /\ piece = "chat" /\ Chat!Next
        /\ PathNext => piece' = piece /\ piece = "path" /\ Path!Next
    BY DEF ScreenNext, CentreNext, ChatNext, PathNext, BooksNext
  <2>3. /\ WireNext => piece' = piece /\ piece \in DOMAIN Wires
        /\ ChoiceNext => piece' = piece /\ piece \in DOMAIN Choosers
        /\ EngineNext => piece' = piece /\ piece \in DOMAIN Runners
        /\ RouterNext => piece' = piece /\ piece \in DOMAIN Routers
    BY DEF WireNext, ChoiceNext, EngineNext, RouterNext
  <2> QED BY <2>1, <2>2, <2>3 DEF PiecesBeside, StockNext, DeskNext
<1>2. /\ piece = "screen" => Screen!Next
      /\ piece = "chat" => Chat!Next
      /\ piece = "path" => Path!Next
      /\ \A p \in DOMAIN Stocks : piece = p => Stock(p)!Next
      /\ \A p \in DOMAIN Desks : piece = p => Desk(p)!Next
  BY <1>1, PiecesApart DEF PiecesBeside, NamedPieces
<1>3. ASSUME NEW p \in DOMAIN Stocks, piece' = p PROVE StockHolds(p)'
  BY <1>1, <1>2, <1>3, StockKeeps DEF GuardsHold
<1>4. ASSUME NEW p \in DOMAIN Desks, piece' = p PROVE DeskHolds(p)'
  BY <1>1, <1>2, <1>4, DeskKeeps DEF GuardsHold
<1>5. /\ piece' = "screen" => ScreenHolds'
      /\ piece' = "chat" => ChatHolds'
      /\ piece' = "path" => PathHolds'
  BY <1>1, <1>2, ScreenKeeps, ChatKeeps, PathKeeps DEF GuardsHold
<1> QED BY <1>3, <1>4, <1>5 DEF GuardsHold

\* The invariant of the guards, at all times.
THEOREM GuardsInvariance == GuardsSpec => []GuardsHold
BY GuardsStart, GuardsKeep, PTL DEF GuardsSpec

\* semanticguard.go, chat.go, main.go: a gray text passes only on a good answer that is still
\* fresh, a request goes only where a switch of its time and its own wish let it, and what was
\* intercepted is answered as refused and what is handled had a right to: for any texts,
\* addresses, life and size of the cache, preferences, callers, requests, policies and streams.
THEOREM NothingAlways == GuardsSpec => []NothingUnchecked
<1>1. GuardsHold => NothingUnchecked
  BY ScreenHoldsStrict, ChatHoldsGoes, PathHoldsRefused DEF GuardsHold, NothingUnchecked
<1> QED BY <1>1, GuardsInvariance, PTL

\* csp.go, knowledgebase.go, sharedinfo.go: the policy in answers is the configured one but
\* for a reload or an update on its way; a file of the knowledge base names the key it is
\* sealed with, whatever key is set meanwhile; and no two records have one revision, nor one
\* above the counter, in memory and in a file that is older: for any entries, keys, identities
\* and records.
THEOREM RecordsAlways == GuardsSpec => []RecordsAgree
<1>1. GuardsHold => RecordsAgree
  BY PathHoldsFresh, StockHoldsAgrees DEF GuardsHold, RecordsAgree, Stock!StoresAgree
<1> QED BY <1>1, GuardsInvariance, PTL

\* session.go, guard.go, tools.go: the conversation in memory and the one in the file are
\* the same and miss nothing of their window, unless a handler entered what it had read
\* before another changed the file; and a quota is passed once by each handler at most: for
\* any requests, handlers, providers, tools, tokens, quotas and windows.
THEOREM AssistantAlways == GuardsSpec => []AssistantKeeps
<1>1. GuardsHold => AssistantKeeps
  BY DeskHoldsKeeps DEF GuardsHold, AssistantKeeps
<1> QED BY <1>1, GuardsInvariance, PTL

=============================================================================

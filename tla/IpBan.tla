------------------------------- MODULE IpBan -------------------------------
(***************************************************************************)
(* Bans of firewalldriver.go and the penalties of iprep.go that set them.  *)
(* The policy of the configuration decides what a ban is: nothing          *)
(* (passive), an entry in a table in memory that the gateway looks at      *)
(* (dynamic-ban), or a rule of the system's firewall (os-link).            *)
(* firewallReconcile brings the effects in line after the policy changed.  *)
(*                                                                         *)
(* Each HTTP handler and the configuration watcher is an actor.  banMu     *)
(* guards the table, fwMu the policy in force, cfgMu the configured one,   *)
(* and no lock spans two of them: a penalty reads the policy and acts on   *)
(* it later, a reconciliation notes the new policy and clears the effects  *)
(* of the old one later.                                                   *)
(*                                                                         *)
(* A score is not kept: whether a penalty takes it below 40, and may ban,  *)
(* is left open.                                                           *)
(***************************************************************************)
EXTENDS Integers, FiniteSets, TLC

CONSTANTS
  Addr,        \* client addresses
  PortRule,    \* the name of the rule that closes the port to everyone
  Handler,     \* HTTP handler goroutines
  Watcher,     \* the goroutines that run watchConfig (one)
  BanTicks,    \* banDuration
  TableLimit,  \* entries beyond which isBanned sweeps the table (4096)
  MaxRules,    \* rules of one name (the bound of a run)
  Windows      \* netsh, which deletes by name; otherwise iptables, rule by rule

Actor == Handler \cup Watcher
RuleName == Addr \cup {PortRule}
Policy == {"passive", "dynamic-ban", "os-link"}

ASSUME ActorAssumption == Handler \cap Watcher = {} /\ IsFiniteSet(Handler)
ASSUME NameAssumption == PortRule \notin Addr
ASSUME BoundAssumption ==
  /\ BanTicks \in Nat \ {0}
  /\ TableLimit \in Nat
  /\ MaxRules \in Nat \ {0}
  /\ Windows \in BOOLEAN

VARIABLES
  policy,      \* cfg.Security.Firewall.Policy, as firewallPolicy reads it
  active,      \* fwActivePol
  left,        \* bannedIP: ticks until the end of the ban of an address
  rules,       \* the rules of this instance in the system's firewall
  actor,       \* what each handler and the watcher is doing
  raced,       \* history: a switch met a ban or another switch half done
  unsettled    \* history: a switch nobody aligned, or a firewall command failed

vars == <<policy, active, left, rules, actor, raced, unsettled>>

\* Entries are counted down to Floor.  No penalty that is under way can make
\* a ban of an entry that old, and whoever arrives deletes it.
Floor == -(BanTicks * Cardinality(Handler))
Gone == Floor - 1
Ceiling == BanTicks * (Cardinality(Handler) + 1)

Idle == [at |-> "idle"]
Doing ==
       [at : {"serving", "reap", "unrule"}, ip : Addr]
  \cup [at : {"ban"}, ip : Addr, rep : BOOLEAN, waf : BOOLEAN]
  \cup [at : {"insert"}, ip : Addr, rep : BOOLEAN, waf : BOOLEAN,
        pol : Policy \ {"passive"}]
  \cup [at : {"double", "extend"}, ip : Addr, waf : BOOLEAN]
  \cup [at : {"loading"}, pol : Policy, align : BOOLEAN]
  \cup [at : {"align", "degrade", "yield"}]
  \cup [at : {"clear"}, prev : Policy, next : Policy]
  \cup [at : {"arm"}]

TypeOK ==
  /\ policy \in Policy
  /\ active \in Policy
  /\ left \in [Addr -> {n \in Int : n >= Gone}]
  /\ rules \in [RuleName -> 0..MaxRules]
  /\ actor \in [Actor -> Doing \cup {Idle}]
  /\ raced \in BOOLEAN
  /\ unsettled \in BOOLEAN

-----------------------------------------------------------------------------
Goto(x, do) == actor' = [actor EXCEPT ![x] = do]

Banned(a) == left[a] > 0

Acting(x) == actor[x].at \in {"insert", "extend"}
Switching(x) ==
  actor[x].at \in {"loading", "align", "clear", "arm", "degrade", "yield"}

\* Somebody else holds a policy that x is about to change.
Disturbs(x) == \E y \in Actor \ {x} : Acting(y) \/ Switching(y)

SetPolicy(x, p) ==
  /\ policy' = p
  /\ raced' = (raced \/ Disturbs(x))

-----------------------------------------------------------------------------
(* Requests and penalties. *)

\* isBanned: the entry of the address, or of everyone if there are too many,
\* is deleted once it has expired.
Swept(a) ==
  LET crowded == Cardinality({b \in Addr : left[b] # Gone}) > TableLimit IN
  [b \in Addr |-> IF ~Banned(b) /\ (b = a \/ crowded) THEN Gone ELSE left[b]]

FaultAdmits(a) == TRUE

\* gatewayMiddleware lets a request in unless its address is banned.
Admits(a) == ~Banned(a)

Arrive(h, a) ==
  /\ actor[h] = Idle
  /\ left' = Swept(a)
  /\ Goto(h, IF Admits(a) THEN [at |-> "serving", ip |-> a] ELSE Idle)
  /\ UNCHANGED <<policy, active, rules, raced, unsettled>>

\* The request is answered without a penalty.
Answer(h) ==
  /\ actor[h].at = "serving"
  /\ Goto(h, Idle)
  /\ UNCHANGED <<policy, active, left, rules, raced, unsettled>>

\* ipRepPenalty, called for a hit of the WAF, a rate limit, a semantic block
\* or a 404; low: the score fell below 40 and may ban.  After a hit of the
\* WAF the middleware bans in any case.
Penalise(h, waf, low) ==
  LET a == actor[h].ip IN
  /\ actor[h].at = "serving"
  /\ Goto(h, IF low \/ waf
               THEN [at |-> "ban", ip |-> a, rep |-> low, waf |-> waf]
               ELSE Idle)
  /\ UNCHANGED <<policy, active, left, rules, raced, unsettled>>

\* What follows firewallBanIP: the penalty goes on to firewallBanIPExtra.
AfterBan(d) ==
  IF d.rep THEN [at |-> "double", ip |-> d.ip, waf |-> d.waf] ELSE Idle

\* What follows firewallBanIPExtra: the middleware's own ban.
AfterExtra(d) ==
  IF d.waf THEN [at |-> "ban", ip |-> d.ip, rep |-> FALSE, waf |-> TRUE]
           ELSE Idle

\* firewallBanIP reads the policy ...
ReadPolicy(h) ==
  LET d == actor[h] IN
  /\ d.at = "ban"
  /\ Goto(h, IF policy = "passive"
               THEN AfterBan(d)
               ELSE [at |-> "insert", ip |-> d.ip, rep |-> d.rep,
                     waf |-> d.waf, pol |-> policy])
  /\ UNCHANGED <<policy, active, left, rules, raced, unsettled>>

\* ... and bans under dynamic-ban, whatever the entry was.
InsertEntry(h) ==
  LET d == actor[h] IN
  /\ d.at = "insert"
  /\ d.pol = "dynamic-ban"
  /\ left' = [left EXCEPT ![d.ip] = BanTicks]
  /\ Goto(h, AfterBan(d))
  /\ UNCHANGED <<policy, active, rules, raced, unsettled>>

\* Under os-link it adds a rule, unless the command fails.
InsertRule(h) ==
  LET d == actor[h] IN
  /\ d.at = "insert"
  /\ d.pol = "os-link"
  /\ \/ /\ rules[d.ip] < MaxRules
        /\ rules' = [rules EXCEPT ![d.ip] = @ + 1]
        /\ raced' = (raced \/ \E y \in Actor : actor[y].at \in {"degrade", "yield"})
     \/ UNCHANGED <<rules, raced>>
  /\ Goto(h, AfterBan(d))
  /\ UNCHANGED <<policy, active, left, unsettled>>

\* firewallBanIPExtra reads the policy ...
Double(h) ==
  LET d == actor[h] IN
  /\ d.at = "double"
  /\ Goto(h, IF policy = "dynamic-ban"
               THEN [at |-> "extend", ip |-> d.ip, waf |-> d.waf]
               ELSE AfterExtra(d))
  /\ UNCHANGED <<policy, active, left, rules, raced, unsettled>>

FaultLonger(a) == IF left[a] = Gone THEN 2 * BanTicks ELSE left[a] + 2 * BanTicks

\* ... and extends the entry, or makes one of twice the length.
Longer(a) == IF left[a] = Gone THEN 2 * BanTicks ELSE left[a] + BanTicks

Extend(h) ==
  LET d == actor[h] IN
  /\ d.at = "extend"
  /\ left' = [left EXCEPT ![d.ip] = Longer(d.ip)]
  /\ Goto(h, AfterExtra(d))
  /\ UNCHANGED <<policy, active, rules, raced, unsettled>>

-----------------------------------------------------------------------------
(* Unbanning. *)

\* ipRepUnban, from the admin's API: firewallUnbanIP deletes the entry, ...
Unban(h, a) ==
  /\ actor[h] = Idle
  /\ left' = [left EXCEPT ![a] = Gone]
  /\ Goto(h, [at |-> "reap", ip |-> a])
  /\ UNCHANGED <<policy, active, rules, raced, unsettled>>

\* ... reads the policy, ...
Reap(h) ==
  /\ actor[h].at = "reap"
  /\ Goto(h, IF policy = "os-link" THEN [at |-> "unrule", ip |-> actor[h].ip]
                                   ELSE Idle)
  /\ UNCHANGED <<policy, active, left, rules, raced, unsettled>>

\* What is left of n rules of one name: netsh deletes by name, iptables -D the
\* first that matches.
Unruled(n) == IF Windows \/ n = 0 THEN 0 ELSE n - 1

\* ... and deletes the rule, unless the command fails.
Unrule(h) ==
  LET a == actor[h].ip IN
  /\ actor[h].at = "unrule"
  /\ \/ rules' = [rules EXCEPT ![a] = Unruled(@)] /\ UNCHANGED unsettled
     \/ UNCHANGED rules /\ unsettled' = TRUE
  /\ Goto(h, Idle)
  /\ UNCHANGED <<policy, active, left, raced>>

-----------------------------------------------------------------------------
(* Switching the policy. *)

\* POST /api/config: saves, and reconciles.
Post(h, p) ==
  /\ actor[h] = Idle
  /\ SetPolicy(h, p)
  /\ Goto(h, [at |-> "align"])
  /\ UNCHANGED <<active, left, rules, unsettled>>

\* tars_config_set saves, and leaves the rest to the watcher.
ConfigSet(h, p) ==
  /\ actor[h] = Idle
  /\ SetPolicy(h, p)
  /\ unsettled' = TRUE
  /\ UNCHANGED <<active, left, rules, actor>>

\* loadConfig first makes the configuration empty, and the policy passive;
\* p: the policy of the file.  watchConfig reconciles after it, revertConfig
\* does not.
Load(x, p) ==
  /\ actor[x] = Idle
  /\ SetPolicy(x, "passive")
  /\ Goto(x, [at |-> "loading", pol |-> p, align |-> x \in Watcher])
  /\ UNCHANGED <<active, left, rules, unsettled>>

Adopt(x) ==
  LET d == actor[x] IN
  /\ d.at = "loading"
  /\ SetPolicy(x, d.pol)
  /\ unsettled' = (unsettled \/ ~d.align)
  /\ Goto(x, IF d.align THEN [at |-> "align"] ELSE Idle)
  /\ UNCHANGED <<active, left, rules>>

\* firewallReconcile compares and notes the policy under fwMu, ...
Align(x) ==
  /\ actor[x].at = "align"
  /\ active' = policy
  /\ Goto(x, IF policy = active
               THEN Idle
               ELSE [at |-> "clear", prev |-> active, next |-> policy])
  /\ UNCHANGED <<policy, left, rules, raced, unsettled>>

\* osFirewallCleanup ignores a command that fails.
Kept(kept) == [n \in RuleName |-> IF n \in kept THEN rules[n] ELSE 0]
FailedFor(kept) == \E n \in kept : rules[n] > 0

FaultClears(prev, next) == next
\* The policy whose effects a reconciliation clears.
Clears(prev, next) == prev

\* ... clears the effects of the previous one, ...
Clear(x) ==
  LET d == actor[x]  was == Clears(d.prev, d.next) IN
  /\ d.at = "clear"
  /\ left' = IF was = "dynamic-ban" THEN [a \in Addr |-> Gone] ELSE left
  /\ \E kept \in SUBSET RuleName :
       IF was = "os-link"
         THEN rules' = Kept(kept) /\ unsettled' = (unsettled \/ FailedFor(kept))
         ELSE UNCHANGED <<rules, unsettled>>
  /\ Goto(x, IF d.next = "os-link" THEN [at |-> "arm"] ELSE Idle)
  /\ UNCHANGED <<policy, active, raced>>

\* ... and starts os-link: cleans up once more and closes the port.
Arm(x) ==
  /\ actor[x].at = "arm"
  /\ \E kept \in SUBSET RuleName :
       /\ unsettled' = (unsettled \/ FailedFor(kept))
       /\ \/ /\ Kept(kept)[PortRule] < MaxRules
             /\ rules' = [Kept(kept) EXCEPT ![PortRule] = @ + 1]
             /\ Goto(x, Idle)
          \/ /\ rules' = Kept(kept)
             /\ Goto(x, [at |-> "degrade"])
  /\ UNCHANGED <<policy, active, left, raced>>

\* If that fails, passive is in force, and then configured.
Degrade(x) ==
  /\ actor[x].at = "degrade"
  /\ active' = "passive"
  /\ Goto(x, [at |-> "yield"])
  /\ UNCHANGED <<policy, left, rules, raced, unsettled>>

Yield(x) ==
  /\ actor[x].at = "yield"
  /\ SetPolicy(x, "passive")
  /\ Goto(x, Idle)
  /\ UNCHANGED <<active, left, rules, unsettled>>

-----------------------------------------------------------------------------
Tick ==
  /\ left' = [a \in Addr |-> IF left[a] > Floor THEN left[a] - 1 ELSE left[a]]
  /\ UNCHANGED <<policy, active, rules, actor, raced, unsettled>>

\* A new process has a new instance id: of the rules there are, its own are
\* the one that main's reconciliation sets before anybody is served.
BootRules(p) ==
  [n \in RuleName |-> IF p = "os-link" /\ n = PortRule THEN 1 ELSE 0]

Init ==
  /\ policy \in Policy
  /\ active = policy
  /\ left = [a \in Addr |-> Gone]
  /\ rules = BootRules(policy)
  /\ actor = [x \in Actor |-> Idle]
  /\ raced = FALSE
  /\ unsettled = FALSE

Restart ==
  /\ policy' \in Policy
  /\ active' = policy'
  /\ left' = [a \in Addr |-> Gone]
  /\ rules' = BootRules(policy')
  /\ actor' = [x \in Actor |-> Idle]
  /\ raced' = FALSE
  /\ unsettled' = FALSE

Request(h) ==
  \/ \E a \in Addr : Arrive(h, a)
  \/ Answer(h)
  \/ \E waf, low \in BOOLEAN : Penalise(h, waf, low)
  \/ ReadPolicy(h)
  \/ InsertEntry(h)
  \/ InsertRule(h)
  \/ Double(h)
  \/ Extend(h)

Unbanning(h) ==
  \/ \E a \in Addr : Unban(h, a)
  \/ Reap(h)
  \/ Unrule(h)

Reconcile(x) ==
  \/ Align(x)
  \/ Clear(x)
  \/ Arm(x)
  \/ Degrade(x)
  \/ Yield(x)

Next ==
  \/ \E h \in Handler :
       \/ Request(h)
       \/ Unbanning(h)
       \/ \E p \in Policy : Post(h, p) \/ ConfigSet(h, p)
  \/ \E x \in Actor :
       \/ \E p \in Policy : Load(x, p)
       \/ Adopt(x)
       \/ Reconcile(x)
  \/ Tick
  \/ Restart

Spec == Init /\ [][Next]_vars

\* Time passes.
FairSpec == Spec /\ WF_vars(Tick)

-----------------------------------------------------------------------------
(* Properties. *)

\* A handler whose penalty may still extend a ban of a.
Pending(a) ==
  {h \in Handler :
     /\ actor[h].at \in {"serving", "ban", "insert", "double", "extend"}
     /\ actor[h].ip = a
     /\ actor[h].at \in {"ban", "insert"} => actor[h].rep}

\* banDuration x 2 (iprep.go:7) is what one penalty makes of a ban; penalties
\* that were let in together add one banDuration each, and nothing else ever
\* prolongs a ban: what is left of it and what those under way can add is
\* bounded.
BanBounded ==
  \A a \in Addr : left[a] + BanTicks * Cardinality(Pending(a)) <= Ceiling

AtRest == \A x \in Actor : ~Switching(x)

\* What firewallReconcile is for (firewalldriver.go:88-89): if every switch
\* was aligned, no command failed and no switch met a ban or another switch
\* half done, then whenever nobody is switching the policy in force is the
\* configured one and no other policy's effects remain, however the start of
\* os-link failed and whatever handlers are in the middle of.
OnlyOwnEffects ==
  ~raced /\ ~unsettled /\ AtRest =>
    /\ active = policy
    /\ policy # "dynamic-ban" => \A a \in Addr : left[a] = Gone
    /\ policy # "os-link" => \A n \in RuleName : rules[n] = 0
    /\ policy = "os-link" => rules[PortRule] > 0

\* Every ban in memory ends: those who are banned are not let in, and so
\* nobody can go on extending it.
BanEnds == \A a \in Addr : Banned(a) ~> ~Banned(a)

\* What the same comment says of a switch, without regard for races: once
\* the policy is passive and everyone is idle, nobody is banned.
NoStaleBan ==
  ~unsettled /\ policy = "passive" /\ (\A x \in Actor : actor[x] = Idle) =>
    \A a \in Addr : ~Banned(a)

\* Handlers are alike.
Symmetry == Permutations(Handler)

=============================================================================

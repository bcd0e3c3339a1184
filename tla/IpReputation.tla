---------------------------- MODULE IpReputation ----------------------------
(***************************************************************************)
(* The reputation of addresses (iprep.go): every address starts with a     *)
(* full score, loses some of it for hits of the WAF, scans and broken      *)
(* limits, is banned when it falls below a threshold, gets a little back   *)
(* every hour, and all of it when an administrator lifts the ban.          *)
(*                                                                         *)
(* A penalty is taken under ipRepMu; the ban follows after the lock is     *)
(* released, with the score as it was.  The worker of the resource         *)
(* guardian drives the recovery and saves the table to state/iprep.json.   *)
(*                                                                         *)
(* Whether an address is banned is all that is kept of firewalldriver.go;  *)
(* the module IpBan has the rest.                                          *)
(***************************************************************************)
EXTENDS Integers

CONSTANTS
  Addr,          \* addresses that are scored
  Handler,       \* goroutines that serve a request
  Rule,          \* rules of the WAF
  Full,          \* the score of an address nothing is known of (100)
  Low,           \* the score of one that is forgiven after a day (60)
  Threshold,     \* the score below which an address is banned (40)
  Waf, Scan, Limit,   \* what a hit, a scan and a broken limit cost
  Step,          \* what an hour gives back
  Day,           \* hours until a banned address is forgiven
  MaxEvents      \* penalties and restarts of a run (a bound)

ScoreAssumption ==
  /\ Full \in Nat /\ Low \in 0..Full /\ Threshold \in 0..Low
  /\ Waf \in Nat /\ Scan \in Nat /\ Limit \in Nat
  /\ Step \in Nat \ {0} /\ Day \in Nat \ {0}
  /\ MaxEvents \in Nat

VARIABLES
  table,      \* ipRepTable; age is the time since LastPenalty
  banned,     \* addresses the firewall driver refuses
  handler,    \* what each goroutine does
  file,       \* state/iprep.json; NoFile while none can be read
  saving,     \* the copy that ipRepSave is writing
  count,      \* penalties and restarts so far
  raised      \* history: handlers whose address got score back before their ban

vars == <<table, banned, handler, file, saving, count, raised>>

None == "none"
NoFile == <<>>
Unknown == [score |-> -1]
Stored == [score : 0..Full, age : 0..Day, marked : BOOLEAN]
Entry == [score : 0..Full, age : 0..Day, marked : BOOLEAN, scanned : BOOLEAN,
          rules : SUBSET Rule, since : {None, "now", "past"}]
Idle == [at |-> "idle"]
Doing == [at : {"ban", "mark", "middle"}, addr : Addr, waf : BOOLEAN, bans : BOOLEAN]

TypeOK ==
  /\ table \in [Addr -> Entry \cup {Unknown}]
  /\ banned \subseteq Addr
  /\ handler \in [Handler -> Doing \cup {Idle}]
  /\ file \in [Addr -> Stored \cup {Unknown}] \cup {NoFile}
  /\ saving \in [Addr -> Stored \cup {Unknown}] \cup {NoFile}
  /\ count \in 0..MaxEvents
  /\ raised \subseteq Handler

-----------------------------------------------------------------------------
Known(a) == table[a] # Unknown

Fresh == [score |-> Full, age |-> 0, marked |-> FALSE, scanned |-> FALSE,
          rules |-> {}, since |-> None]

Goto(h, do) == handler' = [handler EXCEPT ![h] = do]

FaultAbove(m, n) == m - n

Above(m, n) == IF m >= n THEN m - n ELSE 0

\* ipRepPenalty under the lock: age is the time since LastPenalty.
Penalised(e, cost, source, rule) ==
  [e EXCEPT !.score = Above(@, cost),
            !.age = 0,
            !.scanned = @ \/ source = "scan404",
            !.rules = IF source = "waf" THEN @ \cup {rule} ELSE @,
            !.since = IF @ = None THEN "now" ELSE @]

\* v4.6.2: one rule of the WAF within a minute does not ban.
MayBan(e, source) ==
  source # "waf" \/ (\E r, q \in e.rules : r # q) \/ e.since = "past"

FaultBans(e, source) == e.score <= Threshold /\ MayBan(e, source)

\* The decision, with the score under the lock.
Bans(e, source) == e.score < Threshold /\ MayBan(e, source)

Cost(source) ==
  CASE source = "waf" -> Waf [] source = "scan404" -> Scan [] source = "rate-limit" -> Limit

\* A scan costs at most once a minute.
Counts(e, source) == source # "scan404" \/ ~e.scanned

Counted == count < MaxEvents /\ count' = count + 1

\* A request that is let in is found at fault.
Penalise(h, a, source, rule) ==
  LET e == IF Known(a) THEN table[a] ELSE Fresh
      f == Penalised(e, Cost(source), source, rule)
  IN
  /\ handler[h] = Idle
  /\ a \notin banned
  /\ Counted
  /\ Counts(e, source)
  /\ table' = [table EXCEPT ![a] = f]
  /\ Goto(h, [at |-> "ban", addr |-> a, waf |-> source = "waf", bans |-> Bans(f, source)])
  /\ UNCHANGED <<banned, file, saving, raised>>

\* gatewayMiddleware goes on after a hit of the WAF.
AfterBan(h) ==
  IF handler[h].waf THEN [handler[h] EXCEPT !.at = "mark"] ELSE Idle

\* firewallBanIP and firewallBanIPExtra
Ban(h) ==
  /\ handler[h].at = "ban"
  /\ banned' = IF handler[h].bans THEN banned \cup {handler[h].addr} ELSE banned
  /\ raised' = raised \ {h}
  /\ Goto(h, AfterBan(h))
  /\ UNCHANGED <<table, file, saving, count>>

\* markIPBanned
Mark(h) ==
  LET a == handler[h].addr IN
  /\ handler[h].at = "mark"
  /\ table' = IF Known(a) THEN [table EXCEPT ![a].marked = TRUE] ELSE table
  /\ Goto(h, [handler[h] EXCEPT !.at = "middle"])
  /\ UNCHANGED <<banned, file, saving, count, raised>>

\* The middleware's own firewallBanIP.
Middle(h) ==
  /\ handler[h].at = "middle"
  /\ banned' = banned \cup {handler[h].addr}
  /\ Goto(h, Idle)
  /\ UNCHANGED <<table, file, saving, count, raised>>

-----------------------------------------------------------------------------
(* The administrator, the worker, and time. *)

About(as) == {h \in Handler : handler[h].at = "ban" /\ handler[h].addr \in as}

Pardoned(e) ==
  [e EXCEPT !.score = Full, !.marked = FALSE, !.rules = {}, !.since = None]

\* ipRepUnban, and the end of the ban.
Unban(a) ==
  /\ a \in banned
  /\ table' = IF Known(a) THEN [table EXCEPT ![a] = Pardoned(@)] ELSE table
  /\ banned' = banned \ {a}
  /\ raised' = raised \cup About({a})
  /\ UNCHANGED <<handler, file, saving, count>>

Expire(a) ==
  /\ a \in banned
  /\ banned' = banned \ {a}
  /\ UNCHANGED <<table, handler, file, saving, count, raised>>

Least(m, n) == IF m <= n THEN m ELSE n

Forgives(e) == e.score < Low /\ e.marked /\ e.age = Day

FaultGivesBack(e) == e.score < Low /\ e.age >= 1

GivesBack(e) == e.score < Full /\ e.age >= 1

\* An age of Day stands for every longer one.
Recovered(e) ==
  IF Forgives(e) THEN {[e EXCEPT !.score = Low, !.marked = FALSE]}
  ELSE IF GivesBack(e)
  THEN {[e EXCEPT !.score = Least(@ + Step, Full), !.age = g] :
          g \in IF e.age = Day THEN {Day - 1, Day} ELSE {e.age - 1}}
  ELSE {e}

\* ipRepTick
Tick ==
  /\ \E a \in Addr : Known(a) /\ (Forgives(table[a]) \/ GivesBack(table[a]))
  /\ table' \in {t \in [Addr -> UNION {Recovered(table[a]) : a \in {b \in Addr : Known(b)}}
                               \cup {Unknown}] :
                 \A a \in Addr : IF Known(a) THEN t[a] \in Recovered(table[a]) ELSE t[a] = Unknown}
  /\ raised' = raised \cup About({a \in Addr : table'[a] # table[a]})
  /\ UNCHANGED <<banned, handler, file, saving, count>>

Kept(e) == IF e = Unknown THEN Unknown
           ELSE [score |-> e.score, age |-> e.age, marked |-> e.marked]

\* ipRepSave copies under the lock and writes afterwards; the file is truncated
\* first.
Copy ==
  /\ saving = NoFile
  /\ saving' = [a \in Addr |-> Kept(table[a])]
  /\ file' = NoFile
  /\ UNCHANGED <<table, banned, handler, count, raised>>

Write ==
  /\ saving # NoFile
  /\ file' = saving /\ saving' = NoFile
  /\ UNCHANGED <<table, banned, handler, count, raised>>

Older(e) == IF e = Unknown THEN Unknown ELSE [e EXCEPT !.age = Least(@ + 1, Day)]
Later(e) == IF e = Unknown THEN Unknown
            ELSE [e EXCEPT !.scanned = FALSE, !.since = IF @ = "now" THEN "past" ELSE @]
AllOlder(f) == IF f = NoFile THEN NoFile ELSE [a \in Addr |-> Older(f[a])]

Minute ==
  /\ table' = [a \in Addr |-> Later(table[a])]
  /\ UNCHANGED <<banned, handler, file, saving, count, raised>>

Hour ==
  /\ table' = [a \in Addr |-> Older(Later(table[a]))]
  /\ file' = AllOlder(file) /\ saving' = AllOlder(saving)
  /\ UNCHANGED <<banned, handler, count, raised>>

Loaded(e) == IF e = Unknown THEN Unknown
             ELSE [Fresh EXCEPT !.score = e.score, !.age = e.age, !.marked = e.marked]

\* The process ends; ipRepLoad starts from nothing without a file it can read.
Restart ==
  /\ Counted
  /\ table' = [a \in Addr |-> IF file = NoFile THEN Unknown ELSE Loaded(file[a])]
  /\ banned' = {} /\ raised' = {} /\ saving' = NoFile
  /\ handler' = [h \in Handler |-> Idle]
  /\ UNCHANGED file

Init ==
  /\ table = [a \in Addr |-> Unknown]
  /\ banned = {} /\ raised = {}
  /\ handler = [h \in Handler |-> Idle]
  /\ file = NoFile /\ saving = NoFile
  /\ count = 0

\* What a handler has begun it brings to its end.
Finish(h) == Ban(h) \/ Mark(h) \/ Middle(h)

Serve(h) ==
  \/ \E a \in Addr, r \in Rule, source \in {"waf", "scan404", "rate-limit"} : Penalise(h, a, source, r)
  \/ Finish(h)

Worker == Tick \/ Copy \/ Write

Next ==
  \/ \E h \in Handler : Serve(h)
  \/ \E a \in Addr : Unban(a) \/ Expire(a)
  \/ Worker
  \/ Minute \/ Hour
  \/ Restart

Spec == Init /\ [][Next]_vars

-----------------------------------------------------------------------------
(* Properties. *)

\* The score of an address, full when nothing is known of it.
ScoreOf(a) == IF Known(a) THEN table[a].score ELSE Full

\* Reputation bans only an address whose score is low (iprep.go:114) at that
\* moment, though the score was read before the lock was released, unless an
\* unban or the recovery came in between.
BansJustly(h) ==
  handler[h].addr \in banned' \ banned =>
    ScoreOf(handler[h].addr) < Threshold \/ h \in raised

BanJustified == [][\A h \in Handler : Ban(h) => BansJustly(h)]_vars

\* Once penalties and restarts stop, every score becomes full again
\* (iprep.go:7), if the worker of the resource guardian runs and time passes.
Forgiven == \A a \in Addr : ScoreOf(a) = Full

AllForgiven == <>[]Forgiven

=============================================================================

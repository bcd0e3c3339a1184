---------------------------- MODULE Security360 ----------------------------
(***************************************************************************)
(* The security centre (security360.go): one scan at a time goes through   *)
(* seven categories, gives each a score and names the threats it found,    *)
(* notes new threats in a data base and then publishes its result.         *)
(*                                                                         *)
(* The scanners read the configuration and the counters one after the      *)
(* other, so that a scan may see a change in some categories and miss it   *)
(* in others; a threat's identity carries the day on which it was found.   *)
(***************************************************************************)
EXTENDS Integers, Sequences, FiniteSetsExt

CONSTANTS
  World,      \* situations that the scanners may find
  LastDay     \* bound: days of a run

\* An external MCP server; secrets: arguments that look like one.
Server == [enabled : BOOLEAN, command : {"none", "relative", "foreign", "allowed"}, secrets : Nat]

\* blocks: how often the WAF has refused a request; users: how many there are;
\* servers: a function from their names.
Situation(w) ==
  /\ w.blocks \in {"none", "some", "many"} /\ w.users \in Nat
  /\ {w.waf, w.passive, w.weakKey, w.permissive, w.loose, w.audited, w.young} \subseteq BOOLEAN
  /\ \A n \in DOMAIN w.servers : w.servers[n] \in Server

WorldAssumption == LastDay \in Nat \ {0} /\ \A w \in World : Situation(w)

VARIABLES
  world,     \* the configuration and the counters
  day,       \* the clock
  scanning,  \* scanInProgress
  scan,      \* what the goroutine of a scan does
  known,     \* threatDB
  resolved,  \* those of its threats that are Resolved
  report     \* lastScanResult

vars == <<world, day, scanning, scan, known, resolved, report>>

Categories == <<"waf", "firewall", "config", "acl", "audit", "health", "mcp">>

Idle == [at |-> "idle"]
Scanning(i, total, threats) == [at |-> "scan", next |-> i, total |-> total, threats |-> threats]
NoReport == [score |-> -1, threats |-> {}]

TypeOK ==
  /\ world \in World /\ day \in 1..LastDay
  /\ scanning <=> scan # Idle
  /\ scan.at = "scan" => scan.next \in 1..(Len(Categories) + 1) /\ scan.total \in 0..700
  /\ resolved \subseteq known
  /\ report = NoReport \/ report.score \in 0..100

-----------------------------------------------------------------------------
(* The scanners. *)

\* evaluateMCPServer.
Points(s) ==
  100 - 30 * s.secrets
      - CASE s.command = "none" -> 50
          [] s.command = "relative" -> 20 + 25
          [] s.command = "foreign" -> 25
          [] s.command = "allowed" -> 0

Risk(s) ==
  IF ~s.enabled \/ Points(s) >= 85 THEN "safe" ELSE IF Points(s) >= 60 THEN "warning" ELSE "danger"

Flaw(what, level, cost) == [what |-> what, level |-> level, cost |-> cost]
If(p, f) == IF p THEN {f} ELSE {}

\* The threats of each category, with what its scanner takes off for each.
WAFFlaws(w) ==
       If(w.blocks = "none", Flaw("waf-no-blocks", "low", 15))
  \cup If(w.blocks = "many", Flaw("waf-high-blocks", "medium", 30))
  \cup If(~w.waf, Flaw("waf-disabled", "high", 80))

FirewallFlaws(w) == If(w.passive, Flaw("fw-passive", "medium", 40))

ConfigFlaws(w) ==
       If(w.weakKey, Flaw("cfg-weak-key", "high", 40))
  \cup If(w.permissive, Flaw("cfg-permissive", "medium", 30))
  \cup If(w.users = 0, Flaw("cfg-no-rbac", "low", 10))
  \cup If(w.loose, Flaw("cfg-perm", "medium", 20))

ACLFlaws(w) == If(w.users <= 1, Flaw("acl-minimal-rbac", "low", 15))
AuditFlaws(w) == If(~w.audited, Flaw("audit-empty", "medium", 45))
HealthFlaws(w) == If(w.young, Flaw("health-recent-start", "low", 10))

Rated(w, risk) == {n \in DOMAIN w.servers : Risk(w.servers[n]) = risk}
MCPFlaws(w) ==
       If(DOMAIN w.servers = {}, Flaw("mcp-no-servers", "low", 15))
  \cup {Flaw("mcp-danger-" \o n, "high", 15) : n \in Rated(w, "danger")}
  \cup {Flaw("mcp-warning-" \o n, "medium", 8) : n \in Rated(w, "warning")}

Found(c, w) ==
  CASE c = "waf" -> WAFFlaws(w)       [] c = "firewall" -> FirewallFlaws(w)
    [] c = "config" -> ConfigFlaws(w) [] c = "acl" -> ACLFlaws(w)
    [] c = "audit" -> AuditFlaws(w)   [] c = "health" -> HealthFlaws(w)
    [] c = "mcp" -> MCPFlaws(w)

\* The score of a category that has no flaw.
Best(c) == CASE c = "acl" -> 90 [] c \in {"audit", "health"} -> 95 [] OTHER -> 100

\* The worst flaw of the WAF counts; those of the other categories add up.
Cost(c, fs) ==
  IF c = "waf" THEN Max({f.cost : f \in fs} \cup {0})
  ELSE MapThenSumSet(LAMBDA f : f.cost, fs)

Score(c, w) == Max({Best(c) - Cost(c, Found(c, w)), 0})

\* hashThreat: a threat of one day is not that of another.
Named(fs) == {[what |-> f.what, level |-> f.level, day |-> day] : f \in fs}

-----------------------------------------------------------------------------
\* handleSecurity360Scan: nothing happens while a scan is going on.
Start ==
  /\ ~scanning
  /\ scanning' = TRUE
  /\ scan' = Scanning(1, 0, {})
  /\ UNCHANGED <<world, day, known, resolved, report>>

\* runSecurityScan, one category.
Look ==
  /\ scan.at = "scan" /\ scan.next <= Len(Categories)
  /\ LET c == Categories[scan.next]
     IN scan' = Scanning(scan.next + 1, scan.total + Score(c, world),
                         scan.threats \cup Named(Found(c, world)))
  /\ UNCHANGED <<world, day, scanning, known, resolved, report>>

FaultNote ==
  /\ scan.at = "scan" /\ scan.next > Len(Categories)
  /\ scan' = [at |-> "noted", result |->
       [score |-> scan.total \div Len(Categories), threats |-> scan.threats]]
  /\ known' = known \cup {t \in scan.threats : ~\E u \in known : u.what = t.what}
  /\ UNCHANGED <<world, day, scanning, resolved, report>>

\* The end of runSecurityScan: the score, and the threats that are not known yet.
Note ==
  /\ scan.at = "scan" /\ scan.next > Len(Categories)
  /\ scan' = [at |-> "noted", result |->
       [score |-> scan.total \div Len(Categories), threats |-> scan.threats]]
  /\ known' = known \cup scan.threats
  /\ UNCHANGED <<world, day, scanning, resolved, report>>

Publish ==
  /\ scan.at = "noted"
  /\ report' = scan.result
  /\ scanning' = FALSE
  /\ scan' = Idle
  /\ UNCHANGED <<world, day, known, resolved>>

\* handleSecurity360ResolveThreat; an unknown threat is ignored.
Resolve(t) ==
  /\ t \in known
  /\ resolved' = resolved \cup {t}
  /\ UNCHANGED <<world, day, scanning, scan, known, report>>

Change(w) ==
  /\ world' = w
  /\ UNCHANGED <<day, scanning, scan, known, resolved, report>>

Midnight ==
  /\ day < LastDay
  /\ day' = day + 1
  /\ UNCHANGED <<world, scanning, scan, known, resolved, report>>

Init ==
  /\ world \in World /\ day = 1
  /\ scanning = FALSE /\ scan = Idle
  /\ known = {} /\ resolved = {} /\ report = NoReport

Handle == Start \/ \E t \in known : Resolve(t)

Next ==
  \/ Handle \/ Look \/ Note \/ Publish
  \/ \E w \in World : Change(w)
  \/ Midnight

Spec == Init /\ [][Next]_vars

-----------------------------------------------------------------------------
\* What a result takes off has a name, and an administrator finds that name: the
\* score is the best one just if the result names no threat, also when the
\* situation changed within the scan, and each of its threats is in the data
\* base, under the day on which it was found.
ScoreExplained ==
  report # NoReport =>
    /\ report.score = 97 <=> report.threats = {}
    /\ report.threats \subseteq known

=============================================================================

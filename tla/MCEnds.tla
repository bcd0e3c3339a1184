------------------------------- MODULE MCEnds -------------------------------
(***************************************************************************)
(* Small instances of components that bring to an end what they have       *)
(* begun: bans in memory, the scores of addresses, the tiers of the        *)
(* resource guardian, and the supervisors of the sidecar hub.  A behaviour *)
(* picks one of them at the start, so that their states add up and do not  *)
(* multiply.                                                               *)
(***************************************************************************)
EXTENDS Integers

VARIABLES part, v1, v2, v3, v4, v5, v6, v7

vars == <<part, v1, v2, v3, v4, v5, v6, v7>>

-----------------------------------------------------------------------------
(* One address, a handler and the watcher; every new entry sweeps the table. *)
Bans == INSTANCE IpBan WITH
  policy <- v1, active <- v2, left <- v3, rules <- v4, actor <- v5, raced <- v6, unsettled <- v7,
  Addr <- {"a"}, PortRule <- "port", Handler <- {"h"}, Watcher <- {"watch"},
  BanTicks <- 1, TableLimit <- 0, MaxRules <- 1, Windows <- FALSE

BansInit == part = "bans" /\ Bans!Init
BansNext == part = "bans" /\ Bans!Next /\ UNCHANGED part

(* One address and one handler; two hits of the WAF bring it below two. *)
Reputation == INSTANCE IpReputation WITH
  table <- v1, banned <- v2, handler <- v3, file <- v4, saving <- v5, count <- v6, raised <- v7,
  Addr <- {"a"}, Handler <- {"h"}, Rule <- {"r1", "r2"},
  Full <- 5, Low <- 3, Threshold <- 2, Waf <- 2, Scan <- 1, Limit <- 1, Step <- 1,
  Day <- 2, MaxEvents <- 4

ReputationInit == part = "reputation" /\ Reputation!Init
ReputationNext == part = "reputation" /\ Reputation!Next /\ UNCHANGED part

(* The thresholds of the code, with short times. *)
Guardian == INSTANCE ResourceGuardian WITH
  tier <- v1, fuse <- v2, since <- v3, phase <- v4, load <- v5, streak <- v6,
  Load <- {50, 55, 60, 80, 90},
  Trigger <- <<60, 80, 90>>, Held <- <<1, 2, 3>>, Recover <- <<50, 60>>, Rest <- <<2, 2>>

GuardianInit == part = "guardian" /\ Guardian!Init /\ v7 = "unused"
GuardianNext == part = "guardian" /\ Guardian!Next /\ UNCHANGED <<part, v7>>

(* One module and one supervisor; the worker of the hub and the watcher scan. *)
Hub == INSTANCE SidecarHub WITH
  hubCtx <- v1, worker <- v2, table <- v3, sup <- v4, sock <- v5, actor <- v6, raced <- v7,
  Module <- {"m"}, MaxFails <- 2, Sup <- {"s"}, Goroutine <- {"g"}, Watcher <- "watch",
  Resident <- "resident", None <- "none"

HubInit == part = "hub" /\ Hub!Init
HubNext == part = "hub" /\ Hub!Next /\ UNCHANGED part

\* What the modules assume of their constants.
ASSUME EndsAssumption == Reputation!ScoreAssumption /\ Guardian!ThresholdAssumption

-----------------------------------------------------------------------------
Init == BansInit \/ ReputationInit \/ GuardianInit \/ HubInit

Next == BansNext \/ ReputationNext \/ GuardianNext \/ HubNext

\* Time passes, timers fire, handlers finish, the worker of the guardian runs, and
\* supervisors, whose calls have timeouts, go on.
Fairness ==
  /\ WF_vars(part = "bans" /\ Bans!Tick /\ UNCHANGED part)
  /\ WF_vars(part = "reputation" /\ Reputation!Tick /\ UNCHANGED part)
  /\ WF_vars(part = "reputation" /\ Reputation!Hour /\ UNCHANGED part)
  /\ WF_vars(part = "reputation" /\ Reputation!Finish("h") /\ UNCHANGED part)
  /\ WF_vars(part = "guardian" /\ Guardian!Sampling /\ UNCHANGED <<part, v7>>)
  /\ WF_vars(part = "guardian" /\ Guardian!Shutdown /\ UNCHANGED <<part, v7>>)
  /\ WF_vars(part = "hub" /\ Hub!Progress("s") /\ UNCHANGED part)

Spec == Init /\ [][Next]_vars /\ Fairness

-----------------------------------------------------------------------------
(* The properties of the components, see there. *)

\* Each component keeps its types.
TypeOK ==
  /\ part = "bans" => Bans!TypeOK
  /\ part = "reputation" => Reputation!TypeOK
  /\ part = "guardian" => Guardian!TypeOK
  /\ part = "hub" => Hub!TypeOK

\* iprep.go, firewalldriver.go: every ban in memory ends, and scores become full again.
AllForgiven ==
  /\ (part = "bans" /\ Bans!Banned("a")) ~> (part = "bans" => ~Bans!Banned("a"))
  /\ <>[](part = "reputation" => Reputation!Forgiven)

\* resourceguardian.go: a lasting load decides where the guardian ends up.
LoadDecides ==
  /\ <>[](part = "guardian" /\ Guardian!Heavy) => []<>(part = "guardian" /\ Guardian!Draining)
  /\ (part = "guardian" /\ Guardian!Calm)
       ~> (part = "guardian" => ~Guardian!Calm \/ v1 = 0 \/ Guardian!Draining)

\* sidecarhub.go: a hub that is switched off leaves no process behind, unless it is on again.
HubOffStops ==
  (part = "hub" /\ v1 = "dead") ~> (part = "hub" => v1 = "live" \/ Hub!Processes("s") = 0)

\* sidecarhub.go: a supervisor does not try to start its module for ever.
TriesEnd ==
  (part = "hub" /\ Hub!Stage("s") = "trying")
    ~> (part = "hub" => Hub!Stage("s") \in {"serving", "over"})

\* iprep.go, resourceguardian.go: reputation bans only addresses of a low score, and
\* a tier changes only after a streak of samples.
OnlyWithCause ==
  [][/\ part = "reputation" => (Reputation!Ban("h") => Reputation!BansJustly("h"))
     /\ part = "guardian" => Guardian!Deserved]_vars

=============================================================================

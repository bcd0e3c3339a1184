---------------------------- MODULE ChatRouting ----------------------------
(***************************************************************************)
(* The way of a chat request to a backend (chat.go, router.go,             *)
(* capabilities.go): screened or not, moved to a model that has the        *)
(* capabilities it needs, given to one of the reachable local backends by  *)
(* the smart router, and routed by its model's name, which is checked      *)
(* against the module switches just before the call.                       *)
(*                                                                         *)
(* Each stage looks at switches, at what is reachable and at the           *)
(* configuration on its own, and all of them change while a request is     *)
(* under way.  A model is told apart by what its name leads to.            *)
(***************************************************************************)
EXTENDS Naturals, FiniteSets

CONSTANTS
  Caller,     \* goroutines that serve a request
  Preference  \* the preferred backends that tenants and groups may have

Local == {"llama", "lmstudio", "ollama"}
PreferenceAssumption == {} \in Preference /\ Preference \subseteq SUBSET Local

\* The module switches that matter here.
Module == {"localModels", "cloudModels", "smartRouter", "capabilityHub"}

\* A name that is empty or "auto"; one with the prefix of a local backend, of a
\* registered cloud or local provider; a model file; a model of a cloud provider
\* or of the cloud section; any other.
Prefixed == {"lmstudio/", "ollama/"}
Provided == {"cloud/", "local/"}
Model == {"auto", "file", "cloudmodel", "other"} \cup Prefixed \cup Provided

\* Where a call may go: a local backend, a registered provider of either kind,
\* or the cloud section.
Cloud == {"cloud provider", "cloud section"}
Target == Local \cup Cloud \cup {"local provider"}

VARIABLES
  on,       \* the modules that are on
  up,       \* the local backends that are reachable; the engine runs
  caller    \* what each goroutine does

vars == <<on, up, caller>>

Nowhere == "nowhere"
Idle == [at |-> "idle"]

\* needs: it needs a capability that its model may lack; smart: the caller asks
\* the smart router; seen: the switches that were on at some time since the
\* request arrived; plain: it left the choice of the model to the gateway and
\* needed no capability; screened: the semantic guard has passed it.
Request ==
  [at : {"needs", "smart", "route", "check", "start", "call"},
   model : Model, needs : BOOLEAN, smart : BOOLEAN, pref : Preference, to : Target \cup {Nowhere},
   seen : SUBSET Module, plain : BOOLEAN, screened : BOOLEAN]

TypeOK ==
  /\ on \subseteq Module /\ up \subseteq Local
  /\ \A c \in Caller : caller[c] = Idle \/ caller[c] \in Request

Goto(c, r) == caller' = [caller EXCEPT ![c] = r] /\ UNCHANGED <<on, up>>
Fail(c) == Goto(c, Idle)

-----------------------------------------------------------------------------
(* The callers. *)

Begin(c, place, m, needs, smart, pref, screened) ==
  /\ caller[c] = Idle
  /\ Goto(c, [at |-> place, model |-> m, needs |-> needs, smart |-> smart, pref |-> pref,
              to |-> Nowhere, seen |-> on, plain |-> m = "auto" /\ ~needs,
              screened |-> screened])

\* handleChat, once its masking and the semantic guard are through.
Chat(c, m, needs, pref) == Begin(c, "needs", m, needs, TRUE, pref, TRUE)

\* handleV1: no screening, and no smart router.
V1(c, m, needs) == Begin(c, "needs", m, needs, FALSE, {}, FALSE)

\* The guarded chat of the MCP server.
GuardedChat(c, m) == Begin(c, "smart", m, FALSE, TRUE, {}, TRUE)

\* handleUrgent, handleAgent, agent teams, tools, the chat test: routeChat alone.
Direct(c, m) == Begin(c, "route", m, FALSE, FALSE, {}, FALSE)

-----------------------------------------------------------------------------
(* The stages. *)

\* capabilityRoute: a model that lacks a capability is replaced by one of a ready
\* provider, if there is any; whether it lacks it is open.
Reroute(c, m) ==
  /\ caller[c].at = "needs"
  /\ m # caller[c].model =>
       caller[c].needs /\ "capabilityHub" \in on /\ m \in Provided \cup Prefixed
  /\ Goto(c, [caller[c] EXCEPT !.model = m, !.needs = FALSE,
              !.at = IF caller[c].smart THEN "smart" ELSE "route"])

Candidates(c) == IF caller[c].pref = {} THEN up ELSE up \cap caller[c].pref

Routed(c, m) == [caller[c] EXCEPT !.at = "route", !.model = m, !.smart = FALSE, !.pref = {}]

\* routeChatSmartTOpts: nothing to choose, and the static rules decide.
Static(c) ==
  /\ caller[c].at = "smart"
  /\ \/ "smartRouter" \notin on
     \/ caller[c].model # "auto"
     \/ Cardinality(Candidates(c)) <= 1
  /\ Goto(c, Routed(c, caller[c].model))

\* rtPick takes a candidate, by chance or by its record, and hands on its name
\* as that of a model, which is none of the models of this gateway.
Pick(c) ==
  /\ caller[c].at = "smart"
  /\ "smartRouter" \in on /\ caller[c].model = "auto"
  /\ Cardinality(Candidates(c)) > 1
  /\ Goto(c, Routed(c, "other"))

\* Where a name that is nobody's leads: to the first reachable backend, or to the
\* model that the engine had last, if its file is there.
Fallback(c) ==
  CASE "lmstudio" \in up -> {"lmstudio"}
    [] "lmstudio" \notin up /\ "ollama" \in up -> {"ollama"}
    [] OTHER -> {"llama", Nowhere}

\* The automatic choice: the engine if it runs, then the others.
Automatic ==
  IF "llama" \in up THEN {"llama"} ELSE IF "lmstudio" \in up THEN {"lmstudio"}
  ELSE IF "ollama" \in up THEN {"ollama"} ELSE {Nowhere}

\* routeChatEx up to its checks.
LeadsTo(c) ==
  CASE caller[c].model = "auto"       -> Automatic
    [] caller[c].model = "lmstudio/"  -> {"lmstudio"}
    [] caller[c].model = "ollama/"    -> {"ollama"}
    [] caller[c].model = "cloud/"     -> {"cloud provider"}
    [] caller[c].model = "local/"     -> {"local provider"}
    [] caller[c].model = "file"       -> {"llama"}
    [] caller[c].model = "cloudmodel" -> Cloud
    [] caller[c].model = "other"      -> Fallback(c)

Lead(c) ==
  /\ caller[c].at = "route"
  /\ \E t \in LeadsTo(c) :
       IF t = Nowhere THEN Fail(c)
       ELSE Goto(c, [caller[c] EXCEPT !.at = "check", !.to = t])

FaultSwitch(t) == IF t \in Local THEN {"localModels"} ELSE IF t = "cloud section" THEN {"cloudModels"} ELSE {}

\* The switch that a target needs; registered local providers need none.
Switch(t) ==
  IF t \in Local THEN {"localModels"} ELSE IF t \in Cloud THEN {"cloudModels"} ELSE {}

Check(c) ==
  /\ caller[c].at = "check"
  /\ IF Switch(caller[c].to) \subseteq on
     THEN Goto(c, [caller[c] EXCEPT
                     !.at = IF caller[c].to = "llama" THEN "start" ELSE "call"])
     ELSE Fail(c)

\* The engine is started if it does not run, which may fail.
Start(c) ==
  /\ caller[c].at = "start"
  /\ \/ /\ caller' = [caller EXCEPT ![c].at = "call"]
        /\ up' = up \cup {"llama"} /\ UNCHANGED on
     \/ "llama" \notin up /\ Fail(c)

\* The exchange ends, and the answer is measured, recorded and charged.
Finish(c) == caller[c].at = "call" /\ Goto(c, Idle)

-----------------------------------------------------------------------------
Change(m) ==
  /\ on' = IF m \in on THEN on \ {m} ELSE on \cup {m}
  /\ caller' = [c \in Caller |->
       IF caller[c] = Idle THEN Idle ELSE [caller[c] EXCEPT !.seen = @ \cup on']]
  /\ UNCHANGED up

ComeAndGo(b) ==
  /\ up' = IF b \in up THEN up \ {b} ELSE up \cup {b}
  /\ UNCHANGED <<on, caller>>

Init == on \in SUBSET Module /\ up \in SUBSET Local /\ caller = [c \in Caller |-> Idle]

Arrive(c) ==
  \/ \E m \in Model, n \in BOOLEAN, p \in Preference : Chat(c, m, n, p)
  \/ \E m \in Model, n \in BOOLEAN : V1(c, m, n)
  \/ \E m \in Model : GuardedChat(c, m) \/ Direct(c, m)

Route(c) ==
  \/ \E m \in Model : Reroute(c, m)
  \/ Static(c) \/ Pick(c) \/ Lead(c) \/ Check(c) \/ Start(c) \/ Finish(c)

Next ==
  \/ \E c \in Caller : Arrive(c) \/ Route(c)
  \/ \E m \in Module : Change(m)
  \/ \E b \in Local : ComeAndGo(b)

Spec == Init /\ [][Next]_vars

-----------------------------------------------------------------------------
\* By whatever way it came, a call leaves the machine only for a gateway that had
\* cloud models switched on since the request arrived, and uses a local backend
\* only for one that had local models on; and what left the choice to the gateway
\* and needs nothing special stays on the machine.
GoesWhereItMay ==
  \A c \in Caller : caller[c].at = "call" =>
    /\ caller[c].to \in Cloud => "cloudModels" \in caller[c].seen
    /\ caller[c].to \in Local => "localModels" \in caller[c].seen
    /\ caller[c].plain => caller[c].to \in Local

(* What the documents say, and the code does not do. *)

\* README.md:82: no way around the semantic guard.
AllScreened == \A c \in Caller : caller[c].at = "call" => caller[c].screened

=============================================================================

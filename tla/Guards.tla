------------------------------- MODULE Guards -------------------------------
(***************************************************************************)
(* The components that stand between a request and its answer, and the     *)
(* stores and choices they go by; they share no state.  A behaviour picks  *)
(* one of them at the start, so that their states add up and do not        *)
(* multiply; their variables are the same nine here.  A component may be   *)
(* there several times, with other constants for every kind of work.       *)
(*                                                                         *)
(* Gateway_proofs and Modules_proofs prove about seven of them for all     *)
(* values of their constants, which are the entries of tables here, by the *)
(* names of the pieces.                                                    *)
(***************************************************************************)
EXTENDS Integers, TLC

CONSTANTS
  Given,   \* the constants of the components, below
  Twins    \* goroutines of the small instances

Screens == Given.screens     \* of SemanticGuard
Centres == Given.centres     \* of Security360
Chats == Given.chats         \* of ChatRouting
Paths == Given.paths         \* of RequestPath
Ledgers == Given.ledgers     \* of Telemetry

\* By piece: of Knowledge, Assistant, Tripwire, Profiles, ModelRunner and Capabilities.
Stocks == Given.stocks
Desks == Given.desks
Wires == Given.wires
Choosers == Given.choosers
Runners == Given.runners
Routers == Given.routers

VARIABLES piece, g1, g2, g3, g4, g5, g6, g7, g8, g9

guardVars == <<piece, g1, g2, g3, g4, g5, g6, g7, g8, g9>>

\* What no piece of fewer variables uses.
Blank == "unused"
From9 == g9 = Blank
From8 == g8 = Blank /\ From9
From7 == g7 = Blank /\ From8
From6 == g6 = Blank /\ From7
From5 == g5 = Blank /\ From6
From4 == g4 = Blank /\ From5

-----------------------------------------------------------------------------
Screen == INSTANCE SemanticGuard WITH
  on <- g1, reach <- g2, cache <- g3, meter <- g4, handler <- g5, out <- g6, fresh <- g7,
  Text <- Screens.Text, Denied <- Screens.Denied, Greeting <- Screens.Greeting,
  Addr <- Screens.Addr, Local <- Screens.Local, Handler <- Screens.Handler,
  MaxItems <- Screens.MaxItems, Life <- Screens.Life, PerMin <- Screens.PerMin,
  Minute <- Screens.Minute

ScreenInit == From8 /\ piece = "screen" /\ Screen!Init
ScreenNext ==
  /\ piece = "screen" /\ Screen!Next
  /\ UNCHANGED <<piece, g8, g9>>

Centre == INSTANCE Security360 WITH
  world <- g1, day <- g2, scanning <- g3, scan <- g4, known <- g5, resolved <- g6,
  report <- g7,
  World <- Centres.World, LastDay <- Centres.LastDay

CentreInit == From8 /\ piece = "centre" /\ Centre!Init
CentreNext ==
  /\ piece = "centre" /\ Centre!Next
  /\ UNCHANGED <<piece, g8, g9>>

Chat == INSTANCE ChatRouting WITH
  on <- g1, up <- g2, caller <- g3,
  Caller <- Chats.Caller, Preference <- Chats.Preference

ChatInit == From4 /\ piece = "chat" /\ Chat!Init
ChatNext ==
  /\ piece = "chat" /\ Chat!Next
  /\ UNCHANGED <<piece, g4, g5, g6, g7, g8, g9>>

Path == INSTANCE RequestPath WITH
  conf <- g1, cache <- g2, lock <- g3, banned <- g4, caller <- g5, reloaded <- g6,
  Handler <- Paths.Handler, Incoming <- Paths.Incoming, Policy <- Paths.Policy,
  Configured <- Paths.Configured, Queue <- Paths.Queue

PathInit == From7 /\ piece = "path" /\ Path!Init
PathNext ==
  /\ piece = "path" /\ Path!Next
  /\ UNCHANGED <<piece, g7, g8, g9>>

Books == INSTANCE Telemetry WITH
  handler <- g1, traces <- g2, metric <- g3, used <- g4, meter <- g5, day <- g6,
  Handler <- Ledgers.Handler, Model <- Ledgers.Model, SpanCap <- Ledgers.SpanCap,
  TraceCap <- Ledgers.TraceCap, MeterCap <- Ledgers.MeterCap,
  Days <- Ledgers.Days, MaxTotal <- Ledgers.MaxTotal, MaxUse <- Ledgers.MaxUse,
  MaxCalls <- Ledgers.MaxCalls, LastDay <- Ledgers.LastDay

BooksInit == From7 /\ piece = "books" /\ Books!Init
BooksNext ==
  /\ piece = "books" /\ Books!Next
  /\ UNCHANGED <<piece, g7, g8, g9>>

Stock(p) == INSTANCE Knowledge WITH
  entries <- g1, disk <- g2, userKey <- g3, worker <- g4, index <- g5, info <- g6,
  packs <- g7,
  Worker <- Stocks[p].Worker, Item <- Stocks[p].Item, Seed <- Stocks[p].Seed,
  UserKey <- Stocks[p].UserKey, Doc <- Stocks[p].Doc, Text <- Stocks[p].Text,
  Who <- Stocks[p].Who, Name <- Stocks[p].Name, MaxInfo <- Stocks[p].MaxInfo,
  MaxPacks <- Stocks[p].MaxPacks, MaxMade <- Stocks[p].MaxMade

StockInit == From8 /\ \E p \in DOMAIN Stocks : piece = p /\ Stock(p)!Init
StockNext ==
  /\ \E p \in DOMAIN Stocks : piece = p /\ Stock(p)!Next
  /\ UNCHANGED <<piece, g8, g9>>

Desk(p) == INSTANCE Assistant WITH
  desk <- g1, handler <- g2, provider <- g3, gate <- g4, used <- g5,
  Handler <- Desks[p].Handler, Ask <- Desks[p].Ask, Provider <- Desks[p].Provider,
  Tool <- Desks[p].Tool, Role <- Desks[p].Role, Token <- Desks[p].Token,
  QuotaMax <- Desks[p].QuotaMax, MaxCtx <- Desks[p].MaxCtx, MaxSaid <- Desks[p].MaxSaid

DeskInit == From6 /\ \E p \in DOMAIN Desks : piece = p /\ Desk(p)!Init
DeskNext ==
  /\ \E p \in DOMAIN Desks : piece = p /\ Desk(p)!Next
  /\ UNCHANGED <<piece, g6, g7, g8, g9>>

Wire(p) == INSTANCE Tripwire WITH
  text <- g1, pass <- g2, things <- g3, result <- g4,
  Class <- Wires[p].Class, MaxRunes <- Wires[p].MaxRunes, Thing <- Wires[p].Thing,
  MaxThings <- Wires[p].MaxThings, Scanning <- Wires[p].Scanning

WireInit == From5 /\ \E p \in DOMAIN Wires : piece = p /\ Wire(p)!Init
WireNext ==
  /\ \E p \in DOMAIN Wires : piece = p /\ Wire(p)!Next
  /\ UNCHANGED <<piece, g5, g6, g7, g8, g9>>

Choice(p) == INSTANCE Profiles WITH
  mods <- g1, saved <- g2, used <- g3, handler <- g4, chosen <- g5, memory <- g6,
  writer <- g7, stored <- g8, hist <- g9,
  Module <- Choosers[p].Module, Registry <- Choosers[p].Registry,
  Deps <- Choosers[p].Deps, Optional <- Choosers[p].Optional,
  AutoStart <- Choosers[p].AutoStart, Builtin <- Choosers[p].Builtin,
  Name <- Choosers[p].Name, Persona <- Choosers[p].Persona,
  Settings <- Choosers[p].Settings, Demo <- Choosers[p].Demo,
  Handler <- Choosers[p].Handler, Writer <- Choosers[p].Writer

ChoiceInit == \E p \in DOMAIN Choosers : piece = p /\ Choice(p)!Init
ChoiceNext == (\E p \in DOMAIN Choosers : piece = p /\ Choice(p)!Next) /\ UNCHANGED piece

Engine(p) == INSTANCE ModelRunner WITH
  engine <- g1, proc <- g2, loader <- g3, early <- g4, file <- g5, down <- g6,
  shown <- g7, found <- g8,
  Model <- Runners[p].Model, Loader <- Runners[p].Loader, Proc <- Runners[p].Proc,
  Source <- Runners[p].Source, FileOf <- Runners[p].FileOf, Size <- Runners[p].Size,
  Unsized <- Runners[p].Unsized, Name <- Runners[p].Name, Slot <- Runners[p].Slot,
  MaxSize <- Runners[p].MaxSize, Runtimes <- Runners[p].Runtimes,
  Probed <- Runners[p].Probed, Known <- Runners[p].Known, Finder <- Runners[p].Finder

EngineInit == From9 /\ \E p \in DOMAIN Runners : piece = p /\ Engine(p)!Init
EngineNext ==
  /\ \E p \in DOMAIN Runners : piece = p /\ Engine(p)!Next
  /\ UNCHANGED <<piece, g9>>

Router(p) == INSTANCE Capabilities WITH
  over <- g1, auto <- g2, world <- g3, handler <- g4,
  Order <- Routers[p].Order, Registry <- Routers[p].Registry, Model <- Routers[p].Model,
  Marks <- Routers[p].Marks, Key <- Routers[p].Key, Labels <- Routers[p].Labels,
  World <- Routers[p].World, Request <- Routers[p].Request, Needs <- Routers[p].Needs,
  Handler <- Routers[p].Handler

RouterInit == From5 /\ \E p \in DOMAIN Routers : piece = p /\ Router(p)!Init
RouterNext ==
  /\ \E p \in DOMAIN Routers : piece = p /\ Router(p)!Next
  /\ UNCHANGED <<piece, g5, g6, g7, g8, g9>>

\* What the modules assume of their constants; no two pieces have one name.
ASSUME GuardsAssumption ==
  /\ Screen!TextAssumption /\ Screen!BoundAssumption
  /\ Centre!WorldAssumption
  /\ Chat!PreferenceAssumption
  /\ Path!RequestAssumption
  /\ Books!TelemetryAssumption
  /\ \A p \in DOMAIN Stocks : Stock(p)!KnowledgeAssumption
  /\ \A p \in DOMAIN Desks : Desk(p)!AssistantAssumption
  /\ \A p \in DOMAIN Wires : Wire(p)!TripwireAssumption
  /\ \A p \in DOMAIN Choosers : Choice(p)!ProfilesAssumption
  /\ \A p \in DOMAIN Runners : Engine(p)!ModelAssumption
  /\ \A p \in DOMAIN Routers : Router(p)!CapabilityAssumption

NamedPieces == {"screen", "centre", "chat", "path", "books"}

\* The names of the pieces, by component.
Pieces ==
  <<NamedPieces, DOMAIN Stocks, DOMAIN Desks, DOMAIN Wires, DOMAIN Choosers, DOMAIN Runners,
    DOMAIN Routers>>

ASSUME NamesAssumption ==
  \A i, j \in DOMAIN Pieces : i # j => Pieces[i] \cap Pieces[j] = {}

-----------------------------------------------------------------------------
GuardsInit ==
  \/ ScreenInit \/ CentreInit \/ ChatInit \/ PathInit \/ BooksInit \/ StockInit
  \/ DeskInit \/ WireInit \/ ChoiceInit \/ EngineInit \/ RouterInit

GuardsNext ==
  \/ ScreenNext \/ CentreNext \/ ChatNext \/ PathNext \/ BooksNext \/ StockNext
  \/ DeskNext \/ WireNext \/ ChoiceNext \/ EngineNext \/ RouterNext

GuardsSpec == GuardsInit /\ [][GuardsNext]_guardVars

-----------------------------------------------------------------------------
(* The properties of the components, see there. *)

\* Each component keeps its types.
GuardsTypeOK ==
  /\ piece = "screen" => Screen!TypeOK
  /\ piece = "centre" => Centre!TypeOK
  /\ piece = "chat" => Chat!TypeOK
  /\ piece = "path" => Path!TypeOK
  /\ piece = "books" => Books!TypeOK
  /\ \A p \in DOMAIN Stocks : piece = p => Stock(p)!TypeOK
  /\ \A p \in DOMAIN Desks : piece = p => Desk(p)!TypeOK
  /\ \A p \in DOMAIN Wires : piece = p => Wire(p)!TypeOK
  /\ \A p \in DOMAIN Choosers : piece = p => Choice(p)!TypeOK
  /\ \A p \in DOMAIN Runners : piece = p => Engine(p)!TypeOK
  /\ \A p \in DOMAIN Routers : piece = p => Router(p)!TypeOK

\* Nothing goes unchecked where a check is due: a gray text passes only on a good answer
\* of the engine (semanticguard.go), a request is sent only where a switch and its own
\* wish let it go (chat.go), and what is intercepted is not handled and what is handled had
\* a right to (main.go).
NothingUnchecked ==
  /\ piece = "screen" => Screen!NeverLoosened
  /\ piece = "chat" => Chat!GoesWhereItMay
  /\ piece = "path" => Path!RefusedStaysRefused

\* What is told of a state agrees with it: the policy in answers and the configured one
\* (csp.go); names of keys and revisions (knowledgebase.go, sharedinfo.go).
RecordsAgree ==
  /\ piece = "path" => Path!PolicyFresh
  /\ \A p \in DOMAIN Stocks : piece = p => Stock(p)!StoresAgree

\* crownext/assistant: conversations are kept, and quotas are.
AssistantKeeps == \A p \in DOMAIN Desks : piece = p => Desk(p)!AssistantKeeps

\* adapt.go, persona.go: what a user chose is what happens.
ChoicesKept == \A p \in DOMAIN Choosers : piece = p => Choice(p)!ChoicesKept

\* What is counted or found is what there is: traces, metrics and the meter
\* (observability.go, tokenmeter.go); the terms of documents (pkg/kb); a score and the
\* threats on record (security360.go); disguises, which are seen and undone (package
\* tripwire); and models that fit requests and personas (capabilities.go, persona.go).
ComputedRight ==
  /\ piece = "books" => Books!BooksAgree
  /\ \A p \in DOMAIN Stocks : piece = p => Stock(p)!IndexAgrees
  /\ piece = "centre" => Centre!ScoreExplained
  /\ \A p \in DOMAIN Wires : piece = p => Wire(p)!DisguisesUndone
  /\ \A p \in DOMAIN Routers : piece = p => Router(p)!ModelsMatched

\* models.go: engines, files and lists are what they are said to be.
ModelsKept == \A p \in DOMAIN Runners : piece = p => Engine(p)!ModelsKept

-----------------------------------------------------------------------------
(* Small instances. *)

\* Two handlers, a text of each fixed kind and two gray ones, room for one.
SmallScreens ==
  [Text |-> {"bad", "hello", "g1", "g2"}, Denied |-> {"bad"}, Greeting |-> {"hello"},
   Addr |-> {"a"}, Local |-> "home", Handler |-> Twins,
   MaxItems |-> 1, Life |-> 2, PerMin |-> 1, Minute |-> 2]

\* A sound situation and one with a weak key and a dangerous server; two days.
SmallCentres ==
  LET sound == [blocks |-> "some", waf |-> TRUE, passive |-> FALSE, weakKey |-> FALSE,
                permissive |-> FALSE, users |-> 2, loose |-> FALSE, audited |-> TRUE,
                young |-> FALSE,
                servers |-> "x" :> [enabled |-> TRUE, command |-> "allowed", secrets |-> 0]]
  IN [World |-> {sound, [sound EXCEPT !.weakKey = TRUE, !.servers["x"].command = "relative"]},
      LastDay |-> 2]

\* One request at a time, with and without a preference.
SmallChats == [Caller |-> {"c"}, Preference |-> {{}, {"llama", "ollama"}}]

Asked(to, method, text, role) ==
  [to |-> to, method |-> method, text |-> text, odd |-> FALSE, role |-> role]

\* Two requests at a time, of the kinds that go different ways.
SmallPaths ==
  [Handler |-> Twins, Policy |-> {"p", "q"}, Queue |-> 1,
   Configured |->
     {[strict |-> FALSE, keys |-> {"user", "global_admin"}, told |-> TRUE, policy |-> "p"],
      [strict |-> TRUE, keys |-> {}, told |-> FALSE, policy |-> "q"]},
   Incoming |->
     {Asked("stream", "read", "plain", "none"), Asked("chat", "write", "strict", "user"),
      Asked("csp", "write", "plain", "global_admin"), Asked("decoy", "read", "plain", "none"),
      Asked("public", "options", "body", "none")}]

\* Two handlers; three requests on two days.
SmallLedgers ==
  [Handler |-> Twins, Model |-> {"m"}, SpanCap |-> 1, TraceCap |-> 1, MeterCap |-> 1,
   Days |-> 1, MaxTotal |-> 3, MaxUse |-> 2, MaxCalls |-> 2, LastDay |-> 2]

\* Secrets of each level, under keys that come and go; two documents, of one and of two
\* chunks; records and packs of two identities.
SmallStocks ==
  LET none == [Worker |-> {}, Item |-> {}, Seed |-> {}, UserKey |-> {}, Doc |-> {}, Text |-> {},
               Who |-> {}, Name |-> {}, MaxInfo |-> 0, MaxPacks |-> 0, MaxMade |-> 0]
      Of(level, category) == [level |-> level, category |-> category]
  IN "vault" :>
       [none EXCEPT
          !.Worker = Twins, !.UserKey = {1}, !.MaxMade = 4, !.Seed = {Of(1, "waf")},
          !.Item = {Of(2, ""), Of(3, "policy"), Of(0, "misc")}] @@
     "papers" :>
       [none EXCEPT
          !.Doc = {"d1", "d2"}, !.Text = {<<{"s", "t"}>>, <<{"s"}, {"s", "t"}>>}, !.MaxMade = 5] @@
     "shelves" :>
       [none EXCEPT
          !.Worker = Twins, !.MaxMade = 3, !.MaxInfo = 2, !.MaxPacks = 1, !.Name = {"n"},
          !.Who = {[tenant |-> "t1", global |-> FALSE], [tenant |-> "t2", global |-> TRUE]}]

\* One request at a time, and more messages than the window holds.
AtATime(window) ==
  [Handler |-> {"h"}, Provider |-> {}, Tool |-> {}, Role |-> {}, Token |-> {},
   Ask |-> {[mode |-> "", pin |-> ""]}, QuotaMax |-> 0, MaxCtx |-> window, MaxSaid |-> 3]

\* One conversation of a window of two, and two requests; two calls at a time of two tools,
\* a dangerous one and one that only its list calls so.
SmallDesks ==
  "desk" :>
    [Handler |-> Twins, Provider |-> {"p"}, Tool |-> {}, Role |-> {}, Token |-> {},
     Ask |-> {[mode |-> "", pin |-> ""], [mode |-> "manual", pin |-> "p"]},
     QuotaMax |-> 0, MaxCtx |-> 2, MaxSaid |-> 2] @@
  "narrow" :> AtATime(1) @@
  "alone" :> AtATime(2) @@
  "tools" :>
    [Handler |-> Twins, Provider |-> {}, Ask |-> {}, Token |-> {"t1", "t2"},
     Role |-> {1, 2},
     Tool |-> {[rank |-> 2, listed |-> TRUE, marked |-> TRUE],
               [rank |-> 0, listed |-> TRUE, marked |-> FALSE]},
     QuotaMax |-> 1, MaxCtx |-> 2, MaxSaid |-> 1]

Piece(kind, label, score, sev, guise, run) ==
  [kind |-> kind, label |-> label, score |-> score, sev |-> sev, guise |-> guise, run |-> run]
Encoded(kind, label, score, sev, guise, runs) ==
  {Piece(kind, label, score, sev, guise, n) : n \in runs}

\* Texts of four runes; texts of three things, some of them in disguise.
SmallWires ==
  "runes" :>
    [Class |-> {"plain", "zero", "bidi", "tag", "mark", "alike", "wide"}, MaxRunes |-> 4,
     Thing |-> {}, MaxThings |-> 0, Scanning |-> {}] @@
  "traps" :>
    [Class |-> {}, MaxRunes |-> 0, MaxThings |-> 3,
     Thing |-> {Piece("phrase", "override", 90, 0, g, 0) : g \in {"", "folded", "rot13", "url"}}
                 \cup {Piece("phrase", "authority", 62, 0, "", 0), Piece("secret", "us_ssn", 80, 3, "", 0),
                       Piece("secret", "us_ssn", 80, 3, "url", 0), Piece("weak", "email", 35, 1, "", 0),
                       Piece("meta", "meta", 0, 0, "", 0), Piece("quote", "quote", 0, 0, "", 0),
                       Piece("foreign", "foreign", 0, 0, "", 0),
                       Piece("link", "payload", 75, 2, "", 0), Piece("link", "scheme", 95, 3, "", 0)}
                 \cup Encoded("phrase", "authority", 62, 0, "base64", {15, 16})
                 \cup Encoded("secret", "us_ssn", 80, 3, "hex", {30, 32, 33})
                 \cup Encoded("link", "scheme", 95, 3, "vs", {3, 4}),
     Scanning |-> {[out |-> FALSE, source |-> "user"], [out |-> FALSE, source |-> "tool"],
                   [out |-> TRUE, source |-> "model"]}]

\* A module that another needs, one handler of several steps and one writer; two personas
\* and two writers, and one module.
SmallChoosers ==
  "choices" :>
    [Module |-> {"tools", "local", "auto"}, Registry |-> <<"tools", "local", "auto">>,
     Deps |-> "tools" :> {} @@ "local" :> {} @@ "auto" :> {"local"},
     Optional |-> {"tools"}, AutoStart |-> {"auto"}, Builtin |-> [lean |-> {"tools"}],
     Name |-> {"mine"}, Persona |-> {"general"},
     Settings |-> [general |-> [set |-> {"tools"}, clear |-> {"local"}]],
     Demo |-> {"tools"}, Handler |-> {"h"}, Writer |-> {"w"}] @@
  "personas" :>
    [Module |-> {"tools"}, Registry |-> <<"tools">>, Deps |-> "tools" :> {},
     Optional |-> {}, AutoStart |-> {}, Builtin |-> [lean |-> {"tools"}], Name |-> {},
     Persona |-> {"general", "student"},
     Settings |-> [general |-> [set |-> {"tools"}, clear |-> {}],
                   student |-> [set |-> {}, clear |-> {"tools"}]],
     Demo |-> {}, Handler |-> {}, Writer |-> Twins]

\* Two models and two callers, a third process while two are left over; two addresses of
\* one file, of two lengths, and one that is too large or cut; a runtime that the list asks
\* as well and one that it does not, the one or the other named by the registry, and two
\* rounds.
SmallRunners ==
  LET none == [Model |-> {}, Loader |-> {}, Proc |-> {}, Source |-> {}, FileOf |-> <<>>,
               Size |-> <<>>, Unsized |-> {}, Name |-> {}, Slot |-> {}, MaxSize |-> 0,
               Runtimes |-> <<>>, Probed |-> {}, Known |-> {}, Finder |-> {}]
  IN "engine" :>
       [none EXCEPT
          !.Model = {"m1", "m2"}, !.Loader = Twins, !.Proc = {"p1", "p2", "p3"}] @@
     "downloads" :>
       [none EXCEPT
          !.Model = {"m1", "m2"}, !.Source = {"long", "short", "huge"},
          !.FileOf = [long |-> "m1", short |-> "m1", huge |-> "m2"],
          !.Size = [long |-> 2, short |-> 1, huge |-> 3], !.Unsized = {"huge"},
          !.Name = {"n1", "n2"}, !.Slot = Twins, !.MaxSize = 2] @@
     "rounds" :>
       [none EXCEPT
          !.Runtimes = <<"ollama", "llamacpp">>, !.Probed = {"ollama"},
          !.Known = {"ollama"}, !.Finder = Twins] @@
     "unknown" :>
       [none EXCEPT
          !.Runtimes = <<"lmstudio", "llamacpp">>, !.Probed = {"lmstudio"},
          !.Known = {"llamacpp"}, !.Finder = Twins]

Usage(hub, key, off, list) ==
  [hub |-> hub, local |-> TRUE, key |-> key, off |-> off, cloud |-> <<>>,
   lists |-> [ai302 |-> <<>>, ollama |-> list, openai |-> <<>>]]

Offers(kind, models, default, caps) ==
  [kind |-> kind, models |-> models, default |-> default, caps |-> caps]

\* Sections of the configuration: a provider that the registry knows, and others.
Section(name, as, models) == [name |-> name, as |-> as, models |-> models]

AdviceWorld ==
  LET mine == Section("mine", "custom", <<"gpt-4o", "qwen-32b">>)
      theirs == Section("openai", "openai", <<"o3", "gpt-4o">>)
      deep == Section("deepseek", "ai302", <<"qwen-32b", "o3">>)
  IN {[Usage(TRUE, {}, {}, <<>>) EXCEPT !.local = local, !.cloud = cloud] :
        local \in BOOLEAN,
        cloud \in {<<>>, <<theirs, mine>>, <<theirs, deep, mine>>, <<mine, deep>>}}

\* Three providers, of which some lack a key or are off, and a model that two declare:
\* requests by both kinds of names, with overrides of a provider's model and of a bare
\* name; and every persona, advised under each configuration and under overrides.
SmallRouters ==
  LET three ==
        [Order |-> <<"ai302", "ollama", "openai">>, Model |-> <<"gpt-4o", "o3", "qwen-32b">>,
         Registry |->
           [ai302  |-> Offers("cloud", <<"gpt-4o">>, {"tools", "json"}, <<>>),
            ollama |-> Offers("local", <<"qwen-32b">>, {}, <<>>),
            openai |-> Offers("cloud", <<"gpt-4o", "o3">>, {},
                              [o3 |-> {"reasoning", "tools", "longContext", "sound"}])],
         Marks |-> "gpt-4o" :> {"gpt-", "gpt-4o", "gpt-4"} @@ "o3" :> {"o3"}
                     @@ "qwen-32b" :> {"qwen", "32"},
         Key |-> {<<"openai", "gpt-4o">>, <<"", "gpt-4o">>}, Labels |-> {}, World |-> {},
         Request |-> {}, Needs |-> {}, Handler |-> {}]
  IN "routes" :>
       [three EXCEPT
          !.Labels = {{}, {"vision"}, {"json", "sound"}},
          !.World = {Usage(TRUE, {"openai"}, {}, <<>>),
                     Usage(TRUE, {"ai302", "openai"}, {"ai302"}, <<"o3">>),
                     Usage(TRUE, {}, {"ollama"}, <<>>),
                     Usage(TRUE, {"ai302", "openai"}, {}, <<"gpt-4o">>),
                     Usage(FALSE, {"ai302"}, {}, <<>>)},
          !.Request = {[pid |-> "openai", model |-> "o3"], [pid |-> "", model |-> "gpt-4o"]},
          !.Needs = {{}, {"vision"}, {"tools", "json"}, {"longContext"}},
          !.Handler = {"h"}] @@
     "advice" :>
       [three EXCEPT
          !.Key = @ \cup {<<"custom", "qwen-32b">>},
          !.Labels = {{}, {"tools", "json"}, {"longContext", "tools", "sound"}},
          !.World = AdviceWorld]

SmallGiven ==
  [screens |-> SmallScreens, centres |-> SmallCentres, chats |-> SmallChats, paths |-> SmallPaths,
   ledgers |-> SmallLedgers, stocks |-> SmallStocks, desks |-> SmallDesks, wires |-> SmallWires,
   choosers |-> SmallChoosers, runners |-> SmallRunners, routers |-> SmallRouters]

\* Goroutines may be exchanged for each other.
TwinSymmetry == Permutations(Twins)

=============================================================================

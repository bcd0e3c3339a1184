---------------------------- MODULE Capabilities ----------------------------
(***************************************************************************)
(* What the gateway believes a model can do, and what it makes of it: the  *)
(* registry of providers (providerregistry.go), the three layers of        *)
(* capabilities and the rerouting of requests (capabilities.go), and the   *)
(* models that a persona is advised to use (persona.go).                   *)
(*                                                                         *)
(* A name of a model is one value; what the code looks for in it are its   *)
(* Marks.  A request is judged in steps, one per provider, each of which   *)
(* reads the configuration by itself: overrides, keys and lists may change *)
(* between them.                                                           *)
(***************************************************************************)
EXTENDS Naturals, Sequences, FiniteSetsExt, TLC

CONSTANTS
  Order,     \* preg.order
  Registry,  \* preg.specs: kind, models, what is said of some (caps) and of all (default)
  Model,     \* names of models, in the order of their letters
  Marks,     \* what a name contains of the patterns below
  Key,       \* keys of overrides: <<provider, model>>, or <<"", model>> for a bare name
  Labels,    \* what an administrator sets a key to
  World,     \* configurations: what is below
  Request,   \* the models that requests name: [pid, model], "" for a bare name
  Needs,     \* what requests need
  Handler    \* goroutines that route a request

Provider == Range(Order)
Known == {"vision", "tools", "longContext", "json", "reasoning"}

\* An entry of the configuration's own cloud section has a name, models, and the
\* provider that their capabilities are asked of.
CapabilityAssumption ==
  /\ IsInjective(Order) /\ DOMAIN Registry = Provider
  /\ \A p \in Provider :
       /\ Registry[p].kind \in {"cloud", "local"}
       /\ Registry[p].models \in Seq(Range(Model))
       /\ DOMAIN Registry[p].caps \subseteq Range(Model)
  /\ IsInjective(Model) /\ DOMAIN Marks = Range(Model)
  /\ \A w \in World :
       /\ w.hub \in BOOLEAN /\ w.local \in BOOLEAN      \* capabilityHub, localModels
       /\ w.key \subseteq Provider /\ w.off \subseteq Provider
       /\ w.lists \in [Provider -> Seq(Range(Model))]    \* <<>>: as registered
       /\ \A i \in DOMAIN w.cloud :
            /\ w.cloud[i].as \in Provider \cup {"custom"}
            /\ w.cloud[i].models \in Seq(Range(Model))

VARIABLES
  over,     \* V33Config.ModelCaps
  auto,     \* V33Config.Capabilities.AutoReroute
  world,    \* the rest of the configuration
  handler   \* what each handler is doing

vars == <<over, auto, world, handler>>

None == "none"
Idle == [at |-> "idle"]

TypeOK ==
  /\ DOMAIN over \subseteq Key /\ \A k \in DOMAIN over : over[k] \in SUBSET Known \ {{}}
  /\ auto \in BOOLEAN
  /\ world \in World
  /\ \A h \in Handler : handler[h] # Idle =>
       /\ handler[h].at \in {"look", "scan", "done"}
       /\ handler[h].from \in Request /\ handler[h].needs \in Needs
       /\ handler[h].i \in 1..(Len(Order) + 1)

-----------------------------------------------------------------------------
(* The registry and its overrides. *)

Enabled(p) == p \notin world.off
Ready(p) == Enabled(p) /\ (Registry[p].kind = "local" \/ p \in world.key)
Models(p) == IF world.lists[p] # <<>> THEN world.lists[p] ELSE Registry[p].models

FaultDeclaring(m) == SelectSeq(Order, LAMBDA p : m \in Range(Models(p)))

Declaring(m) == SelectSeq(Order, LAMBDA p : Enabled(p) /\ m \in Range(Models(p)))

\* findCloudProviderByModel: the first that declares the model, if it is a cloud's;
\* neither a key nor a second provider is looked for.
Found(m) ==
  IF Declaring(m) # <<>> /\ Registry[Head(Declaring(m))].kind = "cloud"
  THEN Head(Declaring(m)) ELSE None

-----------------------------------------------------------------------------
(* Capabilities. *)

Pattern ==
  [vision      |-> {"vl", "vision", "llava", "gpt-4o", "gpt-4.1", "omni", "claude", "gemini",
                    "pixtral", "internvl", "grok-4"},
   tools       |-> {"gpt-", "claude", "gemini", "qwen", "deepseek", "glm", "kimi", "moonshot",
                    "mistral", "llama-3", "llama-4", "grok", "tool", "fc", "function"},
   longContext |-> {"128k", "200k", "256k", "1m", "long", "claude", "gemini", "qwen",
                    "deepseek", "kimi", "glm"},
   json        |-> {"json"},
   reasoning   |-> {"-r1", "o1", "o3", "o4", "thinking", "reasoner", "qwq", "magistral",
                    "-grok-4"}]

Inferred(m) == {c \in Known : Pattern[c] \cap Marks[m] # {}}

\* normalizeCaps
Normal(labels) == labels \cap Known

\* What is said of <<p, m>> where it is most specific; a layer that says nothing is
\* passed over, one of the registry that says nothing known is not.
Over(k) == IF k \in DOMAIN over THEN over[k] ELSE {}
Said(p, m) ==
  IF p \notin Provider THEN {}
  ELSE IF m \in DOMAIN Registry[p].caps /\ Registry[p].caps[m] # {} THEN Registry[p].caps[m]
  ELSE Registry[p].default

Caps(p, m) ==
  IF Over(<<p, m>>) # {} THEN Over(<<p, m>>)
  ELSE IF Over(<<"", m>>) # {} THEN Over(<<"", m>>)
  ELSE IF Said(p, m) # {} THEN Normal(Said(p, m))
  ELSE Inferred(m)

Capable(t, needs) == needs \subseteq Caps(t.pid, t.model)

-----------------------------------------------------------------------------
(* capabilityRoute. *)

Goto(h, r) == handler' = [handler EXCEPT ![h] = r]

Ask(h, t, needs) ==
  /\ handler[h] = Idle
  /\ Goto(h, [at |-> "look", from |-> t, to |-> t, needs |-> needs, cands |-> <<>>, i |-> 1,
              calm |-> TRUE])
  /\ UNCHANGED <<over, auto, world>>

Lacks(t, needs) == world.hub /\ auto /\ ~Capable(t, needs)

Look(h) ==
  LET r == handler[h]
  IN /\ r.at = "look"
     /\ Goto(h, [r EXCEPT !.at = IF Lacks(r.from, r.needs) THEN "scan" ELSE "done"])
     /\ UNCHANGED <<over, auto, world>>

FaultFitting(p, needs) ==
  IF Enabled(p) THEN SelectSeq(Models(p), LAMBDA m : needs \subseteq Caps(p, m)) ELSE <<>>

\* The models of a provider that is switched on and ready, in its order.
Fitting(p, needs) ==
  IF Ready(p) THEN SelectSeq(Models(p), LAMBDA m : needs \subseteq Caps(p, m)) ELSE <<>>

Scan(h) ==
  LET r == handler[h]
      p == Order[r.i]
      fit == Fitting(p, r.needs)
  IN /\ r.at = "scan" /\ r.i <= Len(Order)
     /\ Goto(h, [r EXCEPT !.i = @ + 1,
          !.cands = @ \o [j \in DOMAIN fit |-> [pid |-> p, model |-> fit[j]]]])
     /\ UNCHANGED <<over, auto, world>>

FaultPreferred(t, cands) == Head(cands)

\* A model of the same provider first, then in the order of the registry.
Preferred(t, cands) ==
  LET same == SelectSeq(cands, LAMBDA c : c.pid = t.pid)
  IN Head(same \o cands)

Choose(h) ==
  LET r == handler[h]
  IN /\ r.at = "scan" /\ r.i > Len(Order)
     /\ Goto(h, [r EXCEPT !.at = "done", !.cands = <<>>,
          !.to = IF r.cands = <<>> THEN r.from ELSE Preferred(r.from, r.cands)])
     /\ UNCHANGED <<over, auto, world>>

Leave(h) ==
  /\ handler[h].at = "done"
  /\ Goto(h, Idle)
  /\ UNCHANGED <<over, auto, world>>

-----------------------------------------------------------------------------
(* handleV33Capabilities, and every other change of the configuration. *)

Stirred ==
  handler' = [h \in Handler |->
    IF handler[h] = Idle THEN Idle ELSE [handler[h] EXCEPT !.calm = FALSE]]

\* Labels of which none is known take an override away, as none at all do.
SetOverride(k, labels) ==
  /\ over' = [j \in (DOMAIN over \ {k}) \cup (IF Normal(labels) = {} THEN {} ELSE {k}) |->
                IF j = k THEN Normal(labels) ELSE over[j]]
  /\ Stirred
  /\ UNCHANGED <<auto, world>>

SetAuto(to) ==
  /\ auto' = to
  /\ Stirred
  /\ UNCHANGED <<over, world>>

Configure(w) ==
  /\ w # world
  /\ world' = w
  /\ Stirred
  /\ UNCHANGED <<over, auto>>

-----------------------------------------------------------------------------
(* The models of a persona. *)

Wants(prefer, required, nice, window) ==
  [prefer |-> prefer, required |-> required, nice |-> nice, window |-> window]

\* builtInPersonas, ModelPrefs
Prefs ==
  [student    |-> Wants(<<"ollama", "deepseek", "openai">>, {"tools"}, {"longContext"}, 8192),
   writer     |-> Wants(<<"openai", "deepseek", "custom">>, {"longContext", "tools"},
                        {"reasoning", "json"}, 32768),
   developer  |-> Wants(<<"openai", "deepseek", "custom">>, {"tools", "json"},
                        {"reasoning", "longContext"}, 16384),
   researcher |-> Wants(<<"openai", "deepseek", "custom">>, {"longContext", "tools"},
                        {"reasoning", "json", "vision"}, 131072),
   general    |-> Wants(<<"openai", "deepseek", "ollama">>, {}, {"tools", "longContext"}, 4096)]

Persona == DOMAIN Prefs

\* inferContextLen: the first number that the name contains, of whatever it may be.
Lengths == << [mark |-> "128", length |-> 128000], [mark |-> "32", length |-> 32768],
              [mark |-> "16", length |-> 16384], [mark |-> "8", length |-> 8192],
              [mark |-> "gpt-4", length |-> 8192] >>

Window(m) ==
  LET told == SelectSeq(Lengths, LAMBDA l : l.mark \in Marks[m])
  IN IF told = <<>> THEN 4096 ELSE Head(told).length

Row(provider, model, caps, window) ==
  [provider |-> provider, model |-> model, caps |-> caps, window |-> window]

\* scanModelMatrix: the cloud section of the configuration, and two local runtimes.
Matrix ==
  LET rows(c) == [i \in DOMAIN c.models |->
                    Row(c.name, c.models[i], Caps(c.as, c.models[i]), Window(c.models[i]))]
      cloud == MapThenFoldSet(\o, <<>>, LAMBDA i : rows(world.cloud[i]), Min, DOMAIN world.cloud)
      local == << Row("ollama", "local-ollama", {"tools"}, 8192),
                  Row("lmstudio", "local-lmstudio", {}, 4096) >>
  IN cloud \o (IF world.local THEN local ELSE <<>>)

\* handleV38ModelMatrix: what of a row matches, and what is missing.
MissingOf(p, row) == {c \in Prefs[p].required : c \notin row.caps}
Suitable(p, row) == MissingOf(p, row) = {} /\ row.window >= Prefs[p].window

FaultFits(p, row) == Prefs[p].required \subseteq row.caps \/ row.window >= Prefs[p].window

\* autoMatchModels, which judges by itself.
Fits(p, row) == Prefs[p].required \subseteq row.caps /\ row.window >= Prefs[p].window

\* The place among the preferred providers; one that is not among them has the
\* first place, as a missing entry of the map does.
Rank(p, provider) ==
  LET places == {i \in DOMAIN Prefs[p].prefer : Prefs[p].prefer[i] = provider}
  IN IF places = {} THEN 1 ELSE CHOOSE i \in places : TRUE

\* The order of two names; those of local runtimes come in between.
Letters == <<"local-lmstudio", "local-ollama">> \o Model
Before(a, b) == \E i, j \in DOMAIN Letters : i < j /\ Letters[i] = a /\ Letters[j] = b

Recommended(p) ==
  SortSeq(SelectSeq(Matrix, LAMBDA row : Fits(p, row)),
    LAMBDA a, b : \/ Rank(p, a.provider) < Rank(p, b.provider)
                  \/ Rank(p, a.provider) = Rank(p, b.provider) /\ Before(a.model, b.model))

-----------------------------------------------------------------------------
(* capabilityMatrix. *)

\* Its rows of registered providers.
ShownRow(p, m) ==
  [provider |-> p, model |-> m, caps |-> Caps(p, m),
   status |-> CASE Registry[p].kind = "local" -> "local"
                [] Registry[p].kind # "local" /\ ~Ready(p) -> "needs-key"
                [] OTHER -> "online"]

Shown ==
  UNION {{ShownRow(p, m) : m \in Range(Model) \cap Range(Models(p))} :
           p \in {q \in Provider : Enabled(q)}}

-----------------------------------------------------------------------------
Init ==
  /\ over = [k \in {} |-> {}]
  /\ auto = TRUE
  /\ world \in World
  /\ handler = [h \in Handler |-> Idle]

Serve(h) ==
  \/ \E t \in Request, needs \in Needs : Ask(h, t, needs)
  \/ Look(h) \/ Scan(h) \/ Choose(h) \/ Leave(h)

Administer ==
  \/ \E k \in Key, labels \in Labels : SetOverride(k, labels)
  \/ \E to \in BOOLEAN : SetAuto(to)
  \/ \E w \in World : Configure(w)

Next == Administer \/ \E h \in Handler : Serve(h)

Spec == Init /\ [][Next]_vars

-----------------------------------------------------------------------------
(* Properties. *)

\* The models that a request could be sent to instead.
Able(needs) ==
  {row \in Shown : row.status \in {"online", "local"} /\ needs \subseteq row.caps}

\* A request that the configuration did not change under goes elsewhere only if its
\* model lacks something, and then to a model that the matrix shows as usable and
\* capable, of its own provider if there is one; it stays only if there is none.
RoutedWell ==
  \A h \in Handler :
    LET r == handler[h]
        able == Able(r.needs)
        moved == r.to # r.from
    IN r.at = "done" /\ r.calm =>
         /\ moved <=> Lacks(r.from, r.needs) /\ able # {}
         /\ moved => \E row \in able : row.provider = r.to.pid /\ row.model = r.to.model
         /\ moved /\ (\E row \in able : row.provider = r.from.pid) => r.to.pid = r.from.pid

\* A name that only one provider declares, of those that are switched on, leads there
\* if it is a cloud's.
BareLeadsThere ==
  \A m \in Range(Model), p \in Provider :
    {q \in Provider : Enabled(q) /\ m \in Range(Models(q))} = {p} /\ Registry[p].kind = "cloud" =>
      Found(m) = p

\* providerregistry.go:224 says that a bare name of a cloud's model can be used as it
\* is.  It cannot, if an earlier provider declares it and has no key.
BareIsReady ==
  \A m \in Range(Model) :
    (\E p \in Provider : Ready(p) /\ Registry[p].kind = "cloud" /\ m \in Range(Models(p))) =>
      Found(m) # None /\ Ready(Found(m))

\* What a persona is advised to use is what the matrix calls suitable, in the order of
\* its preference.
AdvisedWell ==
  \A p \in Persona :
    LET best == Recommended(p)
    IN /\ Range(best) = {row \in Range(Matrix) : Suitable(p, row)}
       /\ \A i, j \in DOMAIN best :
            i < j => Rank(p, best[i].provider) <= Rank(p, best[j].provider)

ModelsMatched == RoutedWell /\ BareLeadsThere /\ AdvisedWell

=============================================================================

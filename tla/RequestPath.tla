---------------------------- MODULE RequestPath ----------------------------
(***************************************************************************)
(* The way of a request through the gateway (main.go gatewayMiddleware,    *)
(* waf.go, csp.go, tenant.go, wsevents.go): decoys, headers with the       *)
(* content security policy, the ban, the firewall rules, preflight, the    *)
(* public pages, the key, the matrix of roles, and the handler, whose      *)
(* answer is kept back until it returns.                                   *)
(*                                                                         *)
(* A refused request is announced to the open event streams before it is   *)
(* answered.  The list of streams is copied and the copies are sent to     *)
(* without a lock, so that one of them may be closed by then: sending to   *)
(* it panics, and the middleware recovers.                                 *)
(*                                                                         *)
(* Texts are told apart by what the rules find in them.  Quotas and rate   *)
(* limits are those of Tenancy and RateLimit; here they may refuse.        *)
(***************************************************************************)
EXTENDS Naturals, FiniteSets

CONSTANTS
  Handler,   \* goroutines that serve a request
  Incoming,  \* requests that arrive
  Policy,    \* content security policies that a configuration leads to
  Configured,\* configurations that the file may hold
  Queue      \* events that a stream holds back

\* The classes of end points that the roles are granted (routeClass).
Managed == {"admin.read", "admin.write", "audit", "tenant.status"}
Class == {"app", "chat", "tools", "ext", "mcp"} \cup Managed

\* What else a path may be: a decoy, one that only scanners ask for, a public page,
\* the event stream, the update of the policy, and the end points of the classes
\* chat and tools whose bodies are not looked into.
Place == Class \cup {"decoy", "probe", "public", "stream", "csp", "agents", "search"}

ClassOf(place) ==
  CASE place = "agents" -> "chat" [] place = "search" -> "tools"
    [] place = "csp" -> "admin.read" [] place \in Class -> place [] OTHER -> "app"

\* rbacMatrix
Grants ==
  [global_admin   |-> Class,
   global_auditor |-> {"app", "admin.read", "audit", "tenant.status"},
   admin          |-> Class \ {"admin.write"},
   team_lead      |-> Class \ {"ext", "mcp", "admin.write"},
   auditor        |-> {"app", "admin.read", "audit", "tenant.status"},
   user           |-> Class \ Managed,
   readonly       |-> Class \ Managed]

Role == DOMAIN Grants
ReadsOnly(class) ==
  {"readonly"} \cup IF class \in Managed THEN {"global_auditor", "auditor", "team_lead"} ELSE {}

\* text: nothing is found in it, or something by the rules of every mode, in the
\* query or in the body, or by those of the strict mode alone; a body that cannot be read
\* is as good as none, for the rules and for the handler, and so are the messages of a chat
\* that is no JSON.  odd: its address has used up its rate, or the method, the client's
\* name, a header or the length is refused by itself.
Request ==
  [to : Place, method : {"read", "write", "options"},
   text : {"plain", "query", "body", "strict"}, odd : BOOLEAN, role : Role \cup {"none"}]

\* strict: every rule is held against every body; keys: the roles that a key or a session of
\* OAuth stands for; told: answers carry the policy.
Conf == [strict : BOOLEAN, keys : SUBSET Role, told : BOOLEAN, policy : Policy]
None == "none"
RequestAssumption ==
  /\ Incoming \subseteq Request /\ Queue \in Nat \ {0} /\ Configured \subseteq Conf
  /\ None \notin Handler

VARIABLES
  conf,      \* the configuration in force
  cache,     \* cspCache
  lock,      \* the goroutine that holds cspMu to generate a policy
  banned,    \* the clients' address is banned
  caller,    \* what each goroutine does
  reloaded   \* history: a reload changed the policy after it was generated

vars == <<conf, cache, lock, banned, caller, reloaded>>

Idle == [at |-> "idle"]

\* left: copies of the list of streams
\* still to send to, closed ones among them; held: events waiting in the stream;
\* draft: the policy being generated; free, mode, keys: the address was not banned,
\* the modes and the keys there were, at some time since the request arrived;
\* refused, code: how it went.
Stage == {"head", "policy", "store", "ban", "waf", "emit", "block", "auth",
          "serve", "stream", "update", "invalidate", "again", "panic", "done"}
Code == {0, 200, 204, 400, 401, 403, 404, 405, 429, 500}
Doing ==
  [at : Stage, req : Request, draft : Policy \cup {None},
   left : SUBSET (Handler \X BOOLEAN), held : 0..Queue,
   free : BOOLEAN, modes : SUBSET BOOLEAN, keys : SUBSET Role,
   refused : BOOLEAN, code : Code]

TypeOK ==
  /\ conf \in Conf /\ cache \in Policy \cup {None} /\ lock \in Handler \cup {None}
  /\ banned \in BOOLEAN /\ reloaded \in BOOLEAN
  /\ \A h \in Handler : caller[h] = Idle \/ caller[h] \in Doing

At(h, stage) == caller[h].at = stage
Set(h, do) == caller' = [caller EXCEPT ![h] = do]
Goto(h, stage) == Set(h, [caller[h] EXCEPT !.at = stage])
End(h, code) == Set(h, [caller[h] EXCEPT !.at = "done", !.code = code])

-----------------------------------------------------------------------------
\* A decoy answers whoever asks, after a while.
Arrive(h, r) ==
  /\ caller[h] = Idle
  /\ Set(h, [at |-> IF r.to = "decoy" THEN "done" ELSE "head", req |-> r, draft |-> None, left |-> {},
             held |-> 0, free |-> ~banned, modes |-> {conf.strict}, keys |-> conf.keys,
             refused |-> FALSE, code |-> IF r.to = "decoy" THEN 200 ELSE 0])
  /\ UNCHANGED <<conf, cache, lock, banned, reloaded>>

-----------------------------------------------------------------------------
(* The headers: applyCSPHeaders reads the configuration, then getCSPPolicy. *)

Head(h) ==
  /\ At(h, "head")
  /\ Goto(h, IF conf.told THEN "policy" ELSE "ban")
  /\ UNCHANGED <<conf, cache, lock, banned, reloaded>>

\* The answer to an update carries the policy too.
After(h) == IF caller[h].code = 200 THEN "done" ELSE "ban"

FaultGenerate(h) ==
  /\ caller[h].at \in {"policy", "again"} /\ cache = None
  /\ Set(h, [caller[h] EXCEPT !.at = "store", !.draft = conf.policy])
  /\ UNCHANGED <<conf, cache, lock, banned, reloaded>>

\* Under the lock, and only if no other has done it meanwhile.
Generate(h) ==
  /\ caller[h].at \in {"policy", "again"} /\ cache = None /\ lock = None
  /\ Set(h, [caller[h] EXCEPT !.at = "store", !.draft = conf.policy])
  /\ lock' = h
  /\ UNCHANGED <<conf, cache, banned, reloaded>>

Store(h) ==
  /\ At(h, "store")
  /\ cache' = caller[h].draft /\ lock' = IF lock = h THEN None ELSE lock
  /\ Set(h, [caller[h] EXCEPT !.at = After(h), !.draft = None])
  /\ UNCHANGED <<conf, banned, reloaded>>

Found(h) ==
  /\ caller[h].at \in {"policy", "again"} /\ cache # None
  /\ Goto(h, After(h))
  /\ UNCHANGED <<conf, cache, lock, banned, reloaded>>

-----------------------------------------------------------------------------
(* The ban and the rules. *)

Streams == {h \in Handler : At(h, "stream")}

\* sseBroadcast copies the list.
Intercept(h) ==
  Set(h, [caller[h] EXCEPT !.at = "emit", !.left = Streams \X {TRUE}, !.refused = TRUE])

Ban(h) ==
  /\ At(h, "ban")
  /\ IF banned THEN Intercept(h) ELSE Goto(h, "waf")
  /\ UNCHANGED <<conf, cache, lock, banned, reloaded>>

\* The rules that the body is held against: in the strict mode all of them, for
\* every end point.
BodyFinds(r) ==
  CASE conf.strict                         -> {"body", "strict"}
    [] ~conf.strict /\ r.to = "chat"       -> {"body", "strict"}
    [] ~conf.strict /\ r.to \in {"tools", "mcp"} -> {"body"}
    [] OTHER                               -> {}

Finds(r) == r.odd \/ r.to = "probe" \/ r.text \in {"query"} \cup BodyFinds(r)

\* A request that is found out costs reputation, and its address may be banned.
Waf(h) ==
  /\ At(h, "waf")
  /\ LET r == caller[h].req
     IN IF Finds(r) THEN Intercept(h) /\ banned' \in {banned, TRUE}
        ELSE /\ \/ r.method = "options" /\ \E code \in {204, 403} : End(h, code)
                \/ r.method # "options" /\ Goto(h,
                     CASE r.to = "stream" -> "stream" [] r.to = "public" -> "serve"
                       [] OTHER -> "auth")
             /\ UNCHANGED banned
  /\ UNCHANGED <<conf, cache, lock, reloaded>>

\* An event to one stream of the copied list: it waits there, or is dropped if
\* there is no room; a closed one panics.
Emit(h) ==
  /\ At(h, "emit")
  /\ \E to \in caller[h].left :
       IF ~to[2] THEN Goto(h, "panic")
       ELSE caller' = [caller EXCEPT
              ![h].left = @ \ {to},
              ![to[1]].held = IF @ < Queue THEN @ + 1 ELSE @]
  /\ UNCHANGED <<conf, cache, lock, banned, reloaded>>

FaultBlock(h) ==
  /\ At(h, "emit") /\ caller[h].left = {}
  /\ Goto(h, "auth")
  /\ UNCHANGED <<conf, cache, lock, banned, reloaded>>

\* blockRequest
Block(h) ==
  /\ At(h, "emit") /\ caller[h].left = {}
  /\ End(h, 403)
  /\ UNCHANGED <<conf, cache, lock, banned, reloaded>>

\* The middleware recovers from a panic of its own or of the handler.
Recover(h) ==
  /\ At(h, "panic")
  /\ End(h, 500)
  /\ UNCHANGED <<conf, cache, lock, banned, reloaded>>

-----------------------------------------------------------------------------
(* Who may, and the handler. *)

\* identityFromRequest, rbacCheck, and the refusals of quota and rate limit.
Auth(h) ==
  /\ At(h, "auth")
  /\ LET r == caller[h].req
         class == ClassOf(r.to)
     IN IF r.role \notin conf.keys THEN End(h, 401)
        ELSE IF \/ class \notin Grants[r.role]
                \/ (r.method = "write" /\ r.role \in ReadsOnly(class)) THEN End(h, 403)
        ELSE Goto(h, IF r.to = "csp" THEN "update" ELSE "serve") \/ End(h, 429)
  /\ UNCHANGED <<conf, cache, lock, banned, reloaded>>

\* The handler returns and its answer is sent; one that nothing was found for costs
\* reputation.  If it panics, nothing of its answer has been sent.
Serve(h) ==
  /\ At(h, "serve")
  /\ \/ End(h, 200) /\ UNCHANGED banned
     \/ End(h, 404) /\ banned' \in {banned, caller[h].req.to # "public" \/ banned}
     \/ Goto(h, "panic") /\ UNCHANGED banned
  /\ UNCHANGED <<conf, cache, lock, reloaded>>

\* handleAdminCSPUpdate: the configuration first, then the cache; what is not posted, or no
\* JSON, changes nothing.
Update(h) ==
  /\ At(h, "update")
  /\ \/ /\ caller[h].req.method = "write"
        /\ \E c \in Configured : conf' = [conf EXCEPT !.policy = c.policy, !.told = c.told]
        /\ Set(h, [caller[h] EXCEPT !.at = "invalidate", !.code = 200])
     \/ \E code \in {400, 405} : End(h, code) /\ UNCHANGED conf
  /\ UNCHANGED <<cache, lock, banned, reloaded>>

\* The cache, then the file, which may fail.
Invalidate(h) ==
  /\ At(h, "invalidate") /\ lock = None
  /\ cache' = None /\ reloaded' = FALSE
  /\ Goto(h, "again") \/ End(h, 500)
  /\ UNCHANGED <<conf, lock, banned>>

\* handleWSEvents sends what waits until its client leaves; then it takes its
\* stream off the list and closes it, also under those who have copied the list.
Deliver(h) ==
  /\ At(h, "stream") /\ caller[h].held > 0
  /\ Set(h, [caller[h] EXCEPT !.held = @ - 1])
  /\ UNCHANGED <<conf, cache, lock, banned, reloaded>>

Leave(h) ==
  /\ At(h, "stream")
  /\ caller' = [g \in Handler |->
       IF g = h THEN [caller[h] EXCEPT !.at = "done", !.code = 200, !.held = 0]
       ELSE IF At(g, "emit") /\ <<h, TRUE>> \in caller[g].left
       THEN [caller[g] EXCEPT !.left = (@ \ {<<h, TRUE>>}) \cup {<<h, FALSE>>}]
       ELSE caller[g]]
  /\ UNCHANGED <<conf, cache, lock, banned, reloaded>>

Rest(h) ==
  /\ At(h, "done") /\ Set(h, Idle)
  /\ UNCHANGED <<conf, cache, lock, banned, reloaded>>

-----------------------------------------------------------------------------
\* What those who are under way have seen.
Seen(c, b) ==
  [h \in Handler |-> IF caller[h] = Idle THEN Idle ELSE
     [caller[h] EXCEPT !.free = @ \/ ~b, !.modes = @ \cup {c.strict},
                       !.keys = @ \cup c.keys]]

\* A reload changes any part of the configuration and leaves the cache alone.
Reload(c) ==
  /\ conf' = c /\ caller' = Seen(c, banned)
  /\ reloaded' = (reloaded \/ (c.policy # conf.policy /\ (cache # None \/ lock # None)))
  /\ UNCHANGED <<cache, lock, banned>>

\* Bans end, and begin for what other requests of the address did.
Sentence(b) ==
  /\ banned' = b /\ caller' = Seen(conf, b)
  /\ UNCHANGED <<conf, cache, lock, reloaded>>

Init ==
  /\ conf \in Configured /\ cache = None /\ lock = None /\ banned = FALSE
  /\ caller = [h \in Handler |-> Idle] /\ reloaded = FALSE

Handle(h) ==
  \/ \E r \in Incoming : Arrive(h, r)
  \/ Head(h) \/ Generate(h) \/ Store(h) \/ Found(h)
  \/ Ban(h) \/ Waf(h) \/ Emit(h) \/ Block(h) \/ Recover(h)
  \/ Auth(h) \/ Serve(h) \/ Update(h) \/ Invalidate(h)
  \/ Deliver(h) \/ Leave(h) \/ Rest(h)

Next ==
  \/ \E h \in Handler : Handle(h)
  \/ \E c \in Configured : Reload(c)
  \/ \E b \in BOOLEAN : Sentence(b)

Spec == Init /\ [][Next]_vars

-----------------------------------------------------------------------------
\* The policy that answers carry is the one the configuration asks for, but for an
\* update that is about to drop it and for a reload since.
PolicyFresh ==
  cache \in {None, conf.policy} \/ reloaded \/ \E h \in Handler : At(h, "invalidate")

\* What was intercepted is never handled, even if announcing it fails, and is
\* answered as refused or broken; and what is handled was let through by a key, a
\* mode and an address of its time, which an update of the policy needs as well.
RefusedStaysRefused ==
  \A h \in Handler : caller[h] # Idle =>
    /\ caller[h].refused => caller[h].at \in {"emit", "panic", "done"}
    /\ caller[h].refused /\ At(h, "done") => caller[h].code \in {403, 500}
    /\ caller[h].at \in {"serve", "update", "invalidate"} =>
         /\ caller[h].free /\ ~caller[h].req.odd
         /\ caller[h].req.text = "strict" => caller[h].modes # {TRUE}
         /\ caller[h].req.to # "public" => caller[h].req.role \in caller[h].keys

=============================================================================

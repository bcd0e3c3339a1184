------------------------------- MODULE OAuth -------------------------------
(***************************************************************************)
(* Logging in through an identity provider (oauth.go): a login hands out a *)
(* state, the callback takes it, exchanges the code and checks the token   *)
(* without holding a lock, and makes a session that lives in memory only.  *)
(*                                                                         *)
(* The provider's metadata (endpoints and keys) are cached; the configured *)
(* provider may change while a callback runs.  A provider is told apart by *)
(* its name: a token of one is signed with its keys and names it.  The     *)
(* other fields of a token (audience, user, role) are a free refusal.      *)
(***************************************************************************)
EXTENDS Integers

CONSTANTS
  Issuer,      \* providers that may be configured
  State,       \* states and the sessions they lead to, never used twice
  Handler,     \* goroutines that serve a callback
  StateLife,   \* ticks for which a state is good (10 minutes)
  SessionLife, \* ticks of a session (oauthTTL)
  CacheLife    \* ticks for which metadata are cached (15 minutes)

LifeAssumption == {StateLife, SessionLife, CacheLife} \subseteq Nat \ {0}

VARIABLES
  issuer,    \* cfg.OAuth.IssuerURL; None when the configuration is not complete
  disco,     \* oidcDisco and oidcDiscoAt
  jwks,      \* oidcJWKS and oidcJWKSAt
  state,     \* oauthStates: ticks since the login, for those handed out
  session,   \* oauthSessions: ticks since it was made
  handler,   \* callbacks in progress
  made       \* history: how many sessions a state has led to

vars == <<issuer, disco, jwks, state, session, handler, made>>
cache == <<disco, jwks>>

None == "none"
Gone == -1      \* deleted, or not there yet
Unused == -2    \* a state no login has drawn yet
Least(m, n) == IF m <= n THEN m ELSE n
Older(age, life) == IF age < 0 THEN age ELSE Least(age + 1, life + 1)

Idle == [at |-> "idle"]
Taking(s, a) == [at |-> "taken", state |-> s, age |-> a]

NoMeta == [of |-> None, age |-> 0]
Meta == [of : Issuer, age : 0..(CacheLife + 1)]

TypeOK ==
  /\ issuer \in Issuer \cup {None}
  /\ disco \in Meta \cup {NoMeta} /\ jwks \in Meta \cup {NoMeta}
  /\ state \in [State -> Unused..(StateLife + 1)]
  /\ session \in [State -> Gone..(SessionLife + 1)]
  /\ handler \in [Handler ->
       {Idle} \cup [at : {"taken"}, state : State, age : Gone..(StateLife + 1)]
       \cup [at : {"exchange"}, state : State, wanted : Issuer \cup {None}]
       \cup [at : {"verify", "keys"}, state : State, wanted : Issuer \cup {None}, token : Issuer]
       \cup [at : {"create"}, state : State, age : 0..(SessionLife + 1)]]
  /\ made \in [State -> Nat]

-----------------------------------------------------------------------------
(* The metadata (oidcFetchDiscovery, oidcFetchJWKS): looked up under the     *)
(* lock, fetched without it, and stored under it again.                      *)

Good(m) == m # NoMeta /\ m.age < CacheLife

\* The document of the cache, or a new one of the provider configured now,
\* which then replaces what is there.
Discovered(i) ==
  \/ Good(disco) /\ i = disco.of /\ UNCHANGED disco
  \/ ~Good(disco) /\ i = issuer /\ issuer # None /\ disco' = [of |-> i, age |-> 0]

-----------------------------------------------------------------------------
\* handleOAuthLogin: a state that was never used.
Login(s) ==
  /\ issuer # None
  /\ \E i \in Issuer : Discovered(i)
  /\ state[s] = Unused
  /\ state' = [state EXCEPT ![s] = 0]
  /\ UNCHANGED <<issuer, jwks, session, handler, made>>

FaultTake(h, s) ==
  /\ handler[h] = Idle
  /\ issuer # None
  /\ state[s] # Unused
  /\ handler' = [handler EXCEPT ![h] = Taking(s, state[s])]
  /\ UNCHANGED <<issuer, cache, state, session, made>>

\* handleOAuthCallback: the state is taken away, whatever comes of it.
Take(h, s) ==
  /\ handler[h] = Idle
  /\ issuer # None
  /\ state[s] # Unused
  /\ handler' = [handler EXCEPT ![h] = Taking(s, state[s])]
  /\ state' = [state EXCEPT ![s] = Gone]
  /\ UNCHANGED <<issuer, cache, session, made>>

\* An unknown state or an old one ends the callback.
Accept(h) ==
  /\ handler[h].at = "taken"
  /\ handler' = [handler EXCEPT ![h] =
       IF handler[h].age \in 0..StateLife
       THEN [at |-> "exchange", state |-> handler[h].state, wanted |-> issuer]
       ELSE Idle]
  /\ UNCHANGED <<issuer, cache, state, session, made>>

\* oauthExchangeVerify: the code goes to the provider of the metadata.
Exchange(h) ==
  /\ handler[h].at = "exchange"
  /\ \E i \in Issuer :
       /\ Discovered(i)
       /\ handler' = [handler EXCEPT ![h] = [at |-> "verify", state |-> handler[h].state,
                                             wanted |-> handler[h].wanted, token |-> i]]
  /\ UNCHANGED <<issuer, jwks, state, session, made>>

\* oauthVerifyIDToken looks the metadata up again for the keys.
Look(h) ==
  /\ handler[h].at = "verify"
  /\ \E i \in Issuer :
       /\ Discovered(i)
       /\ jwks' = IF Good(jwks) THEN jwks ELSE [of |-> i, age |-> 0]
  /\ handler' = [handler EXCEPT ![h].at = "keys"]
  /\ UNCHANGED <<issuer, state, session, made>>

\* The signature, the issuer and the other claims; the session's time starts.
Verify(h) ==
  /\ handler[h].at = "keys"
  /\ jwks # NoMeta
  /\ jwks.of = handler[h].token
  /\ handler[h].token = handler[h].wanted
  /\ handler' = [handler EXCEPT ![h] = [at |-> "create", state |-> handler[h].state, age |-> 0]]
  /\ UNCHANGED <<issuer, cache, state, session, made>>

\* Any step of the exchange may fail: no session.
Refuse(h) ==
  /\ handler[h].at \in {"exchange", "verify", "keys"}
  /\ handler' = [handler EXCEPT ![h] = Idle]
  /\ UNCHANGED <<issuer, cache, state, session, made>>

\* oauthSessionCreate also sweeps what is too old.
Create(h) ==
  /\ handler[h].at = "create"
  /\ LET s == handler[h].state
         new == [session EXCEPT ![s] = handler[h].age]
     IN  /\ session' = [t \in State |-> IF new[t] > SessionLife THEN Gone ELSE new[t]]
         /\ state' = [t \in State |->
              IF state[t] > StateLife THEN Gone ELSE state[t]]
         /\ made' = [made EXCEPT ![s] = @ + 1]
  /\ handler' = [handler EXCEPT ![h] = Idle]
  /\ UNCHANGED <<issuer, cache>>

-----------------------------------------------------------------------------
\* oauthSessionLookup.
Alive(s) == session[s] \in 0..SessionLife

\* oauthSessionRevoke.
Logout(s) ==
  /\ Alive(s)
  /\ session' = [session EXCEPT ![s] = Gone]
  /\ UNCHANGED <<issuer, cache, state, handler, made>>

\* A reload of the configuration; oidcInvalidateMeta is never called.
Configure ==
  /\ issuer' \in (Issuer \cup {None}) \ {issuer}
  /\ UNCHANGED <<cache, state, session, handler, made>>

\* Time passes.
Tick ==
  /\ disco' = IF disco = NoMeta THEN disco ELSE [disco EXCEPT !.age = Least(@ + 1, CacheLife + 1)]
  /\ jwks' = IF jwks = NoMeta THEN jwks ELSE [jwks EXCEPT !.age = Least(@ + 1, CacheLife + 1)]
  /\ state' = [s \in State |-> Older(state[s], StateLife)]
  /\ session' = [s \in State |-> Older(session[s], SessionLife)]
  /\ handler' = [h \in Handler |->
       IF handler[h].at = "create" THEN [handler[h] EXCEPT !.age = Older(@, SessionLife)]
       ELSE handler[h]]
  /\ UNCHANGED <<issuer, made>>

Init ==
  /\ issuer \in Issuer \cup {None}
  /\ disco = NoMeta /\ jwks = NoMeta
  /\ state = [s \in State |-> Unused]
  /\ session = [s \in State |-> Gone]
  /\ handler = [h \in Handler |-> Idle]
  /\ made = [s \in State |-> 0]

Callback(h) ==
  \/ \E s \in State : Take(h, s)
  \/ Accept(h) \/ Exchange(h) \/ Look(h) \/ Verify(h) \/ Refuse(h) \/ Create(h)

Next ==
  \/ \E s \in State : Login(s) \/ Logout(s)
  \/ \E h \in Handler : Callback(h)
  \/ Configure \/ Tick

Spec == Init /\ [][Next]_vars

-----------------------------------------------------------------------------
(* Properties. *)

\* A login leads to one session at most (oauth.go:24, "state 一次性"), though the
\* callback checks the token between two critical sections and may run twice
\* with the same state: what was made, and what is being made of a state that
\* was good, is one together.
OnePerLogin ==
  \A s \in State :
    LET busy == {h \in Handler : handler[h] # Idle /\ handler[h].state = s
                   /\ (handler[h].at = "taken" => handler[h].age # Gone)}
    IN  /\ made[s] <= 1
        /\ made[s] = 1 => busy = {}

\* oauth.go:252: the metadata of another provider than the configured one are
\* dropped by a reload.  It does not hold: nothing drops them.
MetaFollowsConfig == Good(disco) /\ issuer # None => disco.of = issuer

=============================================================================

----------------------------- MODULE Gatekeeper -----------------------------
(***************************************************************************)
(* The gatekeeper of gatekeeper.go: executeToolAs, the wrapper every tool  *)
(* call of HTTP /api/tools and of /mcp goes through, run by many request   *)
(* goroutines at once.  It reads the configured mode, then the rules, and  *)
(* each of gkConsumeConfirm, gkRateExceeded, gkPendingCount and            *)
(* gkIssueConfirm takes gkMu on its own: between any two of them other     *)
(* calls, the clock and a configuration reload may come in.                *)
(***************************************************************************)
EXTENDS Naturals, FiniteSets, Sequences

CONSTANTS
  User,        \* Identity.Name
  Request,     \* a tool with its arguments, the reserved keys stripped
  Client,      \* request goroutines
  Token,       \* the confirmation tokens gkNewToken may draw (the bound of a run)
  NoToken, NoCall,
  Builtin,     \* gkBuiltin: the verdict of each request
  RuleLists,   \* the values config.gatekeeper.rules may take
  TTL,         \* gkConfirmTTL in clock ticks (60 s)
  RateTicks,   \* the window of gkRateExceeded in clock ticks (one minute)
  MaxPerMin,   \* gkMaxConfirmPerMin (20)
  MaxPending   \* gkMaxPending (10)

Verdict == {"allow", "confirm", "deny"}
Rule == [tools : SUBSET Request, action : Verdict]
Call == [user : User, req : Request]

ASSUME GateAssumption ==
  /\ Builtin \in [Request -> Verdict]
  /\ RuleLists \subseteq Seq(Rule)
  /\ NoToken \notin Token
  /\ NoCall \notin Call
  /\ IsFiniteSet(Client) /\ IsFiniteSet(Token)
  /\ {TTL, RateTicks, MaxPerMin, MaxPending} \subseteq Nat \ {0}

VARIABLES
  age,       \* gkPendings: the ticks since each token was issued, or Gone
  asked,     \* the call a token was issued for (User, Tool and ArgsHash)
  window,    \* gkRateWin: the ages of each user's marks of the last minute
  client,    \* what each goroutine is doing
  spent,     \* history: the tokens some confirmed call was executed with
  served     \* history: the last confirmed call executed, with its token

store == <<age, asked>>
history == <<spent, served>>
vars == <<store, window, client, history>>

\* The age of a token that is in the table no more, or not yet.
Gone == TTL + 2

Mode == {"enforce", "observe"}
Idle == [at |-> "idle"]
Doing == [at : {"decide", "redeem", "rate", "count", "issue", "run"},
          call : Call, token : Token \cup {NoToken}, mode : Mode]

TypeOK ==
  /\ age \in [Token -> 0 .. Gone]
  /\ asked \in [Token -> Call \cup {NoCall}]
  /\ window \in [User -> Seq(0 .. RateTicks - 1)]
  /\ \A u \in User : Len(window[u]) <= MaxPerMin
  /\ client \in [Client -> Doing \cup {Idle}]
  /\ spent \subseteq Token
  /\ served \in {NoCall} \cup (Token \X Call)

Init ==
  /\ age = [t \in Token |-> Gone]
  /\ asked = [t \in Token |-> NoCall]
  /\ window = [u \in User |-> <<>>]
  /\ client = [c \in Client |-> Idle]
  /\ spent = {}
  /\ served = NoCall

-----------------------------------------------------------------------------
(* The decision. *)

\* The built-in verdict and those of the configured rules that match; deny and
\* confirm can only tighten.
Verdicts(list, r) ==
  {Builtin[r]} \cup {list[i].action : i \in {j \in DOMAIN list : r \in list[j].tools}}

Decide(list, r) ==
  IF "deny" \in Verdicts(list, r) THEN "deny"
  ELSE IF "confirm" \in Verdicts(list, r) THEN "confirm" ELSE "allow"

-----------------------------------------------------------------------------
(* The tokens. *)

Live(t) == age[t] <= TTL
PendingOf(u) == {t \in Token : Live(t) /\ asked[t].user = u}

FaultAnyCall(t, call) == Live(t)
Redeemable(t, call) == Live(t) /\ asked[t] = call

FaultKeep(t) == age
Deleted(t) == [age EXCEPT ![t] = Gone]

\* The table once the expired tokens are swept out of it.
Swept == [t \in Token |-> IF Live(t) THEN age[t] ELSE Gone]

Step(c, at) == client' = [client EXCEPT ![c] = [at |-> at, call |-> @.call,
                                                token |-> @.token, mode |-> @.mode]]
Return(c) == client' = [client EXCEPT ![c] = Idle]

-----------------------------------------------------------------------------
(* executeToolAs. *)

\* A call arrives, with any token ever issued or none.  It reads the mode,
\* and then the rules (Judge), each under cfgMu: a reload may come at any time
\* and leave any of RuleLists, so both are inputs.
Start(c, call, t, mode) ==
  /\ client[c] = Idle
  /\ t # NoToken => asked[t] # NoCall
  /\ client' = [client EXCEPT ![c] = [at |-> "decide", call |-> call,
                                      token |-> t, mode |-> mode]]
  /\ UNCHANGED <<store, window, history>>

\* gkDecide.  In observe mode every call runs.
Judge(c, rules) ==
  LET v == Decide(rules, client[c].call.req) IN
  /\ client[c].at = "decide"
  /\ \/ /\ client[c].mode = "enforce" /\ v = "deny"
        /\ Return(c)
     \/ /\ client[c].mode = "enforce" /\ v = "confirm"
        /\ Step(c, IF client[c].token = NoToken THEN "rate" ELSE "redeem")
     \/ /\ client[c].mode = "observe" \/ v = "allow"
        /\ client' = [client EXCEPT ![c] = [at |-> "run", call |-> @.call,
                                            token |-> NoToken, mode |-> @.mode]]
  /\ UNCHANGED <<store, window, history>>

\* gkConsumeConfirm: the token is gone whether or not it fits the call.
Redeem(c) ==
  /\ client[c].at = "redeem"
  /\ IF Redeemable(client[c].token, client[c].call) THEN Step(c, "run") ELSE Return(c)
  /\ age' = Deleted(client[c].token)
  /\ UNCHANGED <<asked, window, history>>

Exceeded(u) == Len(window[u]) >= MaxPerMin

\* gkRateExceeded: refuse, or add a mark.
Rate(c) ==
  LET u == client[c].call.user IN
  /\ client[c].at = "rate"
  /\ IF Exceeded(u)
     THEN Return(c) /\ UNCHANGED window
     ELSE Step(c, "count") /\ window' = [window EXCEPT ![u] = Append(@, 0)]
  /\ UNCHANGED <<store, history>>

FaultFull(u) == Cardinality(PendingOf(u)) > MaxPending
Full(u) == Cardinality(PendingOf(u)) >= MaxPending

\* gkPendingCount, which sweeps the expired tokens, against gkMaxPending.
Count(c) ==
  /\ client[c].at = "count"
  /\ age' = Swept
  /\ IF Full(client[c].call.user) THEN Return(c) ELSE Step(c, "issue")
  /\ UNCHANGED <<asked, window, history>>

\* gkIssueConfirm: another sweep, then a fresh token bound to the call.
Issue(c, t) ==
  /\ client[c].at = "issue"
  /\ asked[t] = NoCall
  /\ age' = [Swept EXCEPT ![t] = 0]
  /\ asked' = [asked EXCEPT ![t] = client[c].call]
  /\ Return(c)
  /\ UNCHANGED <<window, history>>

\* executeTool.
Run(c) ==
  LET t == client[c].token IN
  /\ client[c].at = "run"
  /\ IF t = NoToken
     THEN UNCHANGED <<spent, served>>
     ELSE /\ spent' = spent \cup {t}
          /\ served' = <<t, client[c].call>>
  /\ Return(c)
  /\ UNCHANGED <<store, window>>

-----------------------------------------------------------------------------
(* Time. *)

\* A mark a minute old is dropped by the next gkRateExceeded before it counts:
\* marks are in the order of their times, and the first n of a window go.
Drops(w, n) == n <= Len(w) /\ \A i \in 1 .. Len(w) : i <= n <=> w[i] + 1 >= RateTicks
Aged(w, n) == [i \in 1 .. (Len(w) - n) |-> w[i + n] + 1]

Tick ==
  /\ age' = [t \in Token |-> IF Live(t) THEN age[t] + 1 ELSE age[t]]
  /\ \E old \in [User -> 0 .. MaxPerMin] :
       /\ \A u \in User : Drops(window[u], old[u])
       /\ window' = [u \in User |-> Aged(window[u], old[u])]
  /\ UNCHANGED <<asked, client, history>>

Handle(c) ==
  \/ \E call \in Call, t \in Token \cup {NoToken}, mode \in Mode : Start(c, call, t, mode)
  \/ \E rules \in RuleLists : Judge(c, rules)
  \/ Redeem(c) \/ Rate(c) \/ Count(c) \/ Run(c)
  \/ \E t \in Token : Issue(c, t)

Next ==
  \/ \E c \in Client : Handle(c)
  \/ Tick

Spec == Init /\ [][Next]_vars

-----------------------------------------------------------------------------
(* Properties. *)

\* The goroutines that hold a redeemed token and have not executed yet.
Holders(t) == {c \in Client : client[c].at = "run" /\ client[c].token = t}

StageOf(t) ==
  IF Holders(t) # {} THEN "granted"
  ELSE IF t \in spent THEN "spent"
  ELSE IF asked[t] = NoCall THEN "unissued"
  ELSE IF Live(t) THEN "live" ELSE "void"

TwoPhase == INSTANCE TwoPhaseConfirm
  WITH stage <- [t \in Token |-> StageOf(t)], bound <- asked, served <- served

\* The gatekeeper implements two-phase confirmation (gatekeeper.go, header):
\* a token lets one call through, within its life, for the user, tool and
\* arguments it was issued for, however calls that present it race.
ImplementsTwoPhase == TwoPhase!Spec

\* What the code-level rules forbid is never executed by a call that read the
\* enforcing mode, and what they guard only with a redeemed token, whatever
\* rules the configuration holds and when it is reloaded ("configuration can
\* only tighten").
GateHolds ==
  \A c \in Client :
    client[c].at = "run" /\ client[c].mode = "enforce" =>
      /\ Builtin[client[c].call.req] # "deny"
      /\ Builtin[client[c].call.req] = "confirm" =>
           /\ client[c].token \in Token \ spent
           /\ asked[client[c].token] = client[c].call

Issuing(u) == {c \in Client : client[c].at = "issue" /\ client[c].call.user = u}

\* The cap on a user's pending confirmations is checked in one critical
\* section and used in another, so racing calls can exceed it, by one less
\* than the number of goroutines and no more.
PendingBounded ==
  \A u \in User :
    Cardinality(PendingOf(u)) + Cardinality(Issuing(u))
      <= MaxPending + Cardinality(Client) - 1

=============================================================================

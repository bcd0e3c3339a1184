--------------------------- MODULE ProviderBreaker ---------------------------
(***************************************************************************)
(* The outbound provider path of the gateway: the per-provider circuit     *)
(* breaker of circuit.go (cbAllow, cbRecord), the call that is guarded by  *)
(* it (callProviderChatFull in adapters.go, run by many request            *)
(* goroutines at once), the response cache it consults between the two,    *)
(* and the administrators' probes, which record results too.               *)
(*                                                                         *)
(* providerHealthWorker takes no step: it is registered as the worker of   *)
(* cloudModels, whose entry in moduleRegistry has no HasWorker, so that    *)
(* reconcileModuleWorkers never starts it.                                 *)
(*                                                                         *)
(* cbMu makes cbAllow and cbRecord atomic; everything between them runs    *)
(* unlocked, so a result is recorded against whatever state the breaker    *)
(* has by then.  The audit line of a transition is written after cbMu is   *)
(* released, in a step of its own.                                         *)
(***************************************************************************)
EXTENDS Naturals, FiniteSets

CONSTANTS
  Provider,    \* the provider ids of the registry
  Cloud,       \* those with Kind = "cloud": they need a key and can be probed
  Custom,      \* those with Protocol = "custom"
  Bare,        \* the custom ones that have no template
  Caller,      \* request goroutines
  Prober,      \* goroutines of POST /api/admin/v32/providers/probe
  Threshold,   \* v32.circuit.failureThreshold (default 5)
  OpenTicks    \* v32.circuit.openSeconds, in clock ticks (default 30 s)

ASSUME ProvidersAssumption ==
  /\ Cloud \subseteq Provider
  /\ Bare \subseteq Custom /\ Custom \subseteq Provider
  /\ Caller \cap Prober = {}
ASSUME CircuitAssumption ==
  /\ Threshold \in Nat \ {0}
  /\ OpenTicks \in Nat \ {0}

VARIABLES
  breaker,   \* cbTable: the breaker of each provider
  up,        \* the providers whose upstream answers 200
  enabled,   \* the providers the configuration leaves enabled
  keyed,     \* the providers that have an API key
  cached,    \* the providers with a live response-cache entry
  actor,     \* what each caller and prober is doing
  shaky,     \* the actors whose upstream was down at some moment of the exchange
  todo,      \* the probe targets each prober has listed and not yet visited
  trail,     \* the last circuit audit line of each provider
  streak,    \* history: failed outcomes since the last success, up to Threshold
  trials     \* history: calls admitted since the breaker last opened

env == <<up, enabled, keyed>>
vars == <<breaker, env, cached, actor, shaky, todo, trail, streak, trials>>

Actor == Caller \cup Prober
State == {"absent", "closed", "open", "half-open"}
Event == {"none", "OPEN", "RECOVER"}

Breaker == [state : State, failures : 0 .. Threshold,
            halfOpenBusy : BOOLEAN, elapsed : 0 .. OpenTicks]

(***************************************************************************)
(* at: where the goroutine is.  fill: the answer goes to the response      *)
(* cache.  event: the audit line it still has to write.                    *)
(***************************************************************************)
Doing == [at : {"admitted", "inflight", "recorded"}, p : Provider,
          fill : BOOLEAN, event : Event]
Idle == [at |-> "idle"]

TypeOK ==
  /\ breaker \in [Provider -> Breaker]
  /\ up \subseteq Provider
  /\ enabled \subseteq Provider
  /\ keyed \subseteq Provider
  /\ cached \subseteq Provider
  /\ actor \in [Actor -> Doing \cup {Idle}]
  /\ shaky \subseteq Actor
  /\ todo \in [Prober -> SUBSET Provider]
  /\ trail \in [Provider -> Event]
  /\ streak \in [Provider -> 0 .. Threshold]
  /\ trials \in [Provider -> Nat]

Init ==
  /\ breaker = [p \in Provider |-> [state |-> "absent", failures |-> 0,
                                    halfOpenBusy |-> FALSE, elapsed |-> 0]]
  /\ up = Provider
  /\ enabled = Provider
  /\ keyed \in SUBSET Provider
  /\ cached = {}
  /\ actor = [a \in Actor |-> Idle]
  /\ shaky = {}
  /\ todo = [w \in Prober |-> {}]
  /\ trail = [p \in Provider |-> "none"]
  /\ streak = [p \in Provider |-> 0]
  /\ trials = [p \in Provider |-> 0]

-----------------------------------------------------------------------------
(* The breaker.  openedAt is read in the open state only, so the time since  *)
(* it is kept there and is 0 elsewhere.                                      *)

Entry(s, n, busy) ==
  [state |-> s, failures |-> n, halfOpenBusy |-> busy, elapsed |-> 0]

\* The state a record finds: a missing table entry is created closed.
StateOf(p) == IF breaker[p].state = "absent" THEN "closed" ELSE breaker[p].state

\* An open breaker whose cool-down is over: cbAllow turns it half-open.
Cooled(p) == breaker[p].state = "open" /\ breaker[p].elapsed = OpenTicks

FaultAdmitHalfOpen(p) == breaker[p].state # "open" \/ Cooled(p)
CbAllows(p) == StateOf(p) = "closed" \/ Cooled(p)

\* cbAllow's effect on the table when it lets the call through.
CbAllow(p) ==
  breaker' = IF Cooled(p)
             THEN [breaker EXCEPT ![p] = Entry("half-open", @.failures, TRUE)]
             ELSE breaker

\* The breaker after cbRecord(id, true): closed from any state.
FaultKeepFailures(b) == Entry("closed", b.failures, FALSE)
AfterSuccess(b) == Entry("closed", 0, FALSE)

\* The breaker after cbRecord(id, false); a failure found open is ignored.
AfterFailure(b) ==
  CASE b.state = "half-open" -> Entry("open", 0, FALSE)
    [] b.state = "open" -> b
    [] OTHER -> Entry(IF b.failures + 1 >= Threshold THEN "open" ELSE "closed",
                      b.failures + 1, b.halfOpenBusy)

AfterRecord(p, ok) == IF ok THEN AfterSuccess(breaker[p]) ELSE AfterFailure(breaker[p])

\* The audit line cbRecord writes once it has released cbMu.
AuditOf(prev, cur) ==
  CASE prev # cur /\ cur = "open" -> "OPEN"
    [] prev = "open" /\ cur # "open" -> "RECOVER"
    [] OTHER -> "none"

Opens(p, ok) == StateOf(p) # "open" /\ AfterRecord(p, ok).state = "open"

\* cbRecord(p, ok) by actor a, which is left with the audit line to write.
CbRecord(a, p, ok) ==
  /\ breaker' = [breaker EXCEPT ![p] = AfterRecord(p, ok)]
  /\ actor' = [actor EXCEPT
       ![a] = [at |-> "recorded", p |-> p, fill |-> IF ok THEN @.fill ELSE FALSE,
               event |-> AuditOf(StateOf(p), AfterRecord(p, ok).state)]]
  /\ trials' = IF Opens(p, ok) THEN [trials EXCEPT ![p] = 0] ELSE trials

\* History: what the outcome of an exchange does to the run of failures.
Observe(p, ok) ==
  streak' = [streak EXCEPT ![p] = IF ok THEN 0
                                  ELSE IF @ < Threshold THEN @ + 1 ELSE @]

-----------------------------------------------------------------------------
(* callProviderChatFull. *)

\* A request reaches an enabled provider and cbAllow lets it through.  A
\* request that is refused here changes nothing.
Admit(c, p) ==
  /\ actor[c] = Idle
  /\ p \in enabled
  /\ CbAllows(p)
  /\ CbAllow(p)
  /\ actor' = [actor EXCEPT ![c] = [at |-> "admitted", p |-> p,
                                    fill |-> FALSE, event |-> "none"]]
  /\ trials' = IF StateOf(p) = "closed" THEN trials ELSE [trials EXCEPT ![p] = @ + 1]
  /\ UNCHANGED <<env, cached, shaky, todo, trail, streak>>

\* The early returns between cbAllow and the exchange: a cloud provider that
\* has no key, a custom one without a template, and a response-cache hit.  None
\* records a result.
ReturnEarly(c) ==
  /\ actor[c].at = "admitted"
  /\ actor[c].p \in (Cloud \ keyed) \cup Bare \cup cached
  /\ actor' = [actor EXCEPT ![c] = Idle]
  /\ UNCHANGED <<breaker, env, cached, shaky, todo, trail, streak, trials>>

\* The request goes out.  A request with tools neither reads nor fills the
\* response cache, so fill decides whether a cached answer would have been used.
Send(c, fill) ==
  /\ actor[c].at = "admitted"
  /\ actor[c].p \notin (Cloud \ keyed) \cup Bare
  /\ fill => actor[c].p \notin cached
  /\ actor' = [actor EXCEPT ![c] = [at |-> "inflight", p |-> @.p,
                                    fill |-> fill, event |-> "none"]]
  /\ shaky' = IF actor[c].p \in up THEN shaky ELSE shaky \cup {c}
  /\ UNCHANGED <<breaker, env, cached, todo, trail, streak, trials>>

\* The exchange ends.  It can fail only if the upstream was down during it,
\* and every outcome is recorded except a success of a custom provider.
Complete(c, ok) ==
  LET p == actor[c].p IN
  /\ c \in Caller
  /\ actor[c].at = "inflight"
  /\ ok \/ c \in shaky
  /\ Observe(p, ok)
  /\ IF ok /\ p \in Custom
     THEN /\ actor' = [actor EXCEPT ![c] = [at |-> "recorded", p |-> p,
                                            fill |-> @.fill, event |-> "none"]]
          /\ UNCHANGED <<breaker, trials>>
     ELSE CbRecord(c, p, ok)
  /\ shaky' = shaky \ {c}
  /\ UNCHANGED <<env, cached, todo, trail>>

\* The audit line of cbRecord, then the cache fill, and the goroutine is done.
Finish(a) ==
  /\ actor[a].at = "recorded"
  /\ trail' = IF actor[a].event = "none" THEN trail
              ELSE [trail EXCEPT ![actor[a].p] = actor[a].event]
  /\ cached' = IF actor[a].fill THEN cached \cup {actor[a].p} ELSE cached
  /\ actor' = [actor EXCEPT ![a] = Idle]
  /\ UNCHANGED <<breaker, env, shaky, todo, streak, trials>>

-----------------------------------------------------------------------------
(* handleV32ProvidersProbe. *)

\* What a request lists to probe: the keyed cloud providers, enabled or not.
FaultSkipHalfOpen == {p \in Cloud \cap keyed : breaker[p].state # "half-open"}
Targets == Cloud \cap keyed

ProbeBegin(w, S) ==
  /\ actor[w] = Idle
  /\ todo[w] = {}
  /\ S # {}
  /\ todo' = [todo EXCEPT ![w] = S]
  /\ UNCHANGED <<breaker, env, cached, actor, shaky, trail, streak, trials>>

\* A request probes them all, or the one of its id parameter.
ProbeAll(w) == ProbeBegin(w, Targets)
ProbeOne(w, p) == ProbeBegin(w, Targets \cap {p})

\* A key removed since the target was listed makes the probe fail.
ProbeSend(w, p) ==
  /\ actor[w] = Idle
  /\ p \in todo[w]
  /\ actor' = [actor EXCEPT ![w] = [at |-> "inflight", p |-> p, fill |-> FALSE,
                                    event |-> "none"]]
  /\ shaky' = IF p \in up \cap keyed THEN shaky ELSE shaky \cup {w}
  /\ todo' = [todo EXCEPT ![w] = @ \ {p}]
  /\ UNCHANGED <<breaker, env, cached, trail, streak, trials>>

\* A probe's result is recorded like that of a call.
ProbeRecord(w, ok) ==
  LET p == actor[w].p IN
  /\ w \in Prober
  /\ actor[w].at = "inflight"
  /\ ok \/ w \in shaky
  /\ Observe(p, ok)
  /\ CbRecord(w, p, ok)
  /\ shaky' = shaky \ {w}
  /\ UNCHANGED <<env, cached, todo, trail>>

-----------------------------------------------------------------------------
(* Time, upstreams and configuration. *)

\* time.Since(openedAt) of the open breakers, as far as cbAllow can tell.
Tick ==
  /\ \E p \in Provider : breaker[p].state = "open" /\ breaker[p].elapsed < OpenTicks
  /\ breaker' = [p \in Provider |->
       IF breaker[p].state = "open" /\ breaker[p].elapsed < OpenTicks
       THEN [breaker[p] EXCEPT !.elapsed = @ + 1] ELSE breaker[p]]
  /\ UNCHANGED <<env, cached, actor, shaky, todo, trail, streak, trials>>

Fails(p) ==
  /\ p \in up
  /\ up' = up \ {p}
  /\ shaky' = shaky \cup {a \in Actor : actor[a].at = "inflight" /\ actor[a].p = p}
  /\ UNCHANGED <<breaker, enabled, keyed, cached, actor, todo, trail, streak, trials>>

Recovers(p) ==
  /\ p \notin up
  /\ up' = up \cup {p}
  /\ UNCHANGED <<breaker, enabled, keyed, cached, actor, shaky, todo, trail, streak, trials>>

\* A configuration reload switches a provider or its key on or off.
Reconfigure(p) ==
  /\ \/ enabled' = (enabled \ {p}) \cup ({p} \ enabled) /\ UNCHANGED keyed
     \/ keyed' = (keyed \ {p}) \cup ({p} \ keyed) /\ UNCHANGED enabled
  /\ UNCHANGED <<breaker, up, cached, actor, shaky, todo, trail, streak, trials>>

\* The cached answer expires, is evicted or is invalidated by a reload.
CacheExpire(p) ==
  /\ p \in cached
  /\ cached' = cached \ {p}
  /\ UNCHANGED <<breaker, env, actor, shaky, todo, trail, streak, trials>>

Call(c) ==
  \/ ReturnEarly(c)
  \/ \E fill \in BOOLEAN : Send(c, fill)
  \/ \E ok \in BOOLEAN : Complete(c, ok)
  \/ Finish(c)

Probe(w) ==
  \/ \E p \in Provider : ProbeSend(w, p)
  \/ \E ok \in BOOLEAN : ProbeRecord(w, ok)
  \/ Finish(w)

Next ==
  \/ \E c \in Caller : Call(c) \/ \E p \in Provider : Admit(c, p)
  \/ \E w \in Prober : Probe(w) \/ ProbeAll(w) \/ \E p \in Provider : ProbeOne(w, p)
  \/ Tick
  \/ \E p \in Provider : Fails(p) \/ Recovers(p) \/ Reconfigure(p) \/ CacheExpire(p)

Spec == Init /\ [][Next]_vars

\* Exchanges end (every HTTP client has a timeout), the goroutines between two
\* steps are scheduled, and time passes.
Fairness ==
  /\ \A c \in Caller : WF_vars(Call(c))
  /\ \A w \in Prober : WF_vars(Probe(w))
  /\ WF_vars(Tick)

FairSpec == Spec /\ Fairness

\* The same, with clients that go on calling every provider.
BusySpec == FairSpec /\ \A c \in Caller, p \in Provider : WF_vars(Admit(c, p))

\* The same, with an administrator who again and again asks for every probe.
AttendedSpec == FairSpec /\ \A w \in Prober : SF_vars(ProbeAll(w))

-----------------------------------------------------------------------------
(* Properties. *)

\* The fields of a breaker agree (circuit.go, breaker): the failure count of a
\* closed one is below the threshold that would have opened it, an open one
\* carries either the count that tripped it or the zero a failed trial leaves,
\* and halfOpenBusy is set exactly while it is half-open.
BreakerConsistent ==
  \A p \in Provider :
    LET b == breaker[p] IN
    /\ b.state = "absent" => b.failures = 0
    /\ b.state = "closed" => b.failures < Threshold
    /\ b.state = "open" => b.failures \in {0, Threshold}
    /\ b.halfOpenBusy <=> b.state = "half-open"

\* After the breaker of a provider opens, no call passes cbAllow until the
\* cool-down is over, and then exactly one does until a result of the provider
\* is recorded, however many goroutines ask and whatever late results of
\* earlier calls arrive meanwhile.
OneTrialPerCoolDown ==
  \A p \in Provider :
    /\ breaker[p].state = "open" => trials[p] = 0
    /\ breaker[p].state = "half-open" => trials[p] = 1

\* A closed breaker opens only at the end of Threshold failed exchanges with no
\* success among them, in the order their results are recorded by concurrent
\* callers and probers.  Custom providers are left out: their successes are
\* never recorded, so for them the code counts failures that are not
\* consecutive.
OpensAfterThreshold ==
  [][\A p \in Provider \ Custom :
       StateOf(p) = "closed" /\ breaker'[p].state = "open"
         => streak'[p] = Threshold]_vars

\* A cloud provider whose upstream has come back for good and that stays keyed
\* is closed again for good as long as an administrator goes on probing,
\* whichever requests left its breaker half-open without recording a result and
\* whatever late failures arrive.
CloudRecovers ==
  \A p \in Cloud :
    <>[](p \in up \cap keyed) => <>[](StateOf(p) = "closed")

\* The refusal of an open breaker says that it recovers by itself after the
\* cool-down (adapters.go:679): a provider that is enabled, keyed if it needs to
\* be, and up again for good, and that clients go on calling, is served again.
SelfRecovers ==
  \A p \in Provider \ Bare :
    <>[](p \in up \cap enabled /\ (p \in Cloud => p \in keyed))
      => []<>(StateOf(p) = "closed")

\* State transitions are written to the audit log (circuit.go:13): once every
\* line is written, the last line of a provider is OPEN iff it is tripped.
TrailAgrees ==
  \A p \in Provider :
    (\A a \in Actor : actor[a] = Idle)
      => (trail[p] = "OPEN" <=> breaker[p].state \in {"open", "half-open"})

=============================================================================

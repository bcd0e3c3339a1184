------------------------ MODULE ProviderBreaker_proofs ------------------------
(***************************************************************************)
(* Proofs about the circuit breaker, for any providers, callers, probers,  *)
(* threshold and cool-down.                                                *)
(*                                                                         *)
(* TypeOK is not inductive alone: that failures stays within the threshold *)
(* needs the bound BreakerConsistent keeps on closed breakers, and that a  *)
(* closed breaker opens only after a full run of failures needs the count  *)
(* kept by StreakCounts.  IInv is their conjunction.                       *)
(***************************************************************************)
EXTENDS ProviderBreaker, TLAPS

\* The failure count of a closed breaker is the run of failures its provider
\* has just shown.
StreakCounts ==
  \A p \in Provider \ Custom :
    StateOf(p) = "closed" => streak[p] = breaker[p].failures

IInv == TypeOK /\ BreakerConsistent /\ OneTrialPerCoolDown /\ StreakCounts

USE ProvidersAssumption, CircuitAssumption

-----------------------------------------------------------------------------
(* What a failure, and an outcome, do. *)

\* After a failure the breaker is open, or closed with one failure more.
LEMMA FailureCounts ==
  ASSUME NEW b \in Breaker,
         b.state \in {"absent", "closed"} => b.failures < Threshold,
         b.state = "open" => b.failures \in {0, Threshold},
         b.halfOpenBusy <=> b.state = "half-open"
  PROVE  /\ AfterFailure(b) \in Breaker
         /\ AfterFailure(b).state \in {"open", "closed"}
         /\ AfterFailure(b).halfOpenBusy = FALSE
         /\ AfterFailure(b).state = "closed" =>
              /\ b.state \in {"absent", "closed"}
              /\ AfterFailure(b).failures = b.failures + 1
              /\ b.failures + 1 < Threshold
         /\ AfterFailure(b).state = "open" =>
              /\ AfterFailure(b).failures \in {0, Threshold}
              /\ b.state \in {"absent", "closed"} => b.failures + 1 = Threshold
<1>1. CASE b.state = "half-open"
  BY <1>1 DEF AfterFailure, Entry, Breaker, State
<1>2. CASE b.state = "open"
  BY <1>2 DEF AfterFailure, Entry, Breaker, State
<1>3. CASE b.state \in {"absent", "closed"} /\ b.failures + 1 >= Threshold
  BY <1>3 DEF AfterFailure, Entry, Breaker, State
<1>4. CASE b.state \in {"absent", "closed"} /\ ~(b.failures + 1 >= Threshold)
  BY <1>4 DEF AfterFailure, Entry, Breaker, State
<1>5. QED BY <1>1, <1>2, <1>3, <1>4 DEF Breaker, State

\* The history of failed exchanges after one more outcome.
LEMMA ObserveCounts ==
  ASSUME IInv, NEW p \in Provider, NEW ok \in BOOLEAN, Observe(p, ok)
  PROVE  /\ streak' \in [Provider -> 0 .. Threshold]
         /\ \A q \in Provider \ {p} : streak'[q] = streak[q]
         /\ ok => streak'[p] = 0
         /\ ~ok /\ streak[p] < Threshold => streak'[p] = streak[p] + 1
<1>1. streak \in [Provider -> 0 .. Threshold]
  BY DEF IInv, TypeOK
<1>2. CASE ok
  BY <1>1, <1>2 DEF Observe
<1>3. CASE ~ok
  BY <1>1, <1>3 DEF Observe
<1>4. QED BY <1>2, <1>3

-----------------------------------------------------------------------------
(* The steps. *)

\* A recorded result preserves the invariant whatever state the breaker has by
\* the time the result arrives.
LEMMA RecordPreserves ==
  ASSUME IInv, NEW a \in Actor, NEW p \in Provider, NEW ok \in BOOLEAN,
         actor[a] \in Doing, Observe(p, ok), CbRecord(a, p, ok),
         shaky' = shaky \ {a}, UNCHANGED <<env, cached, todo, trail>>
  PROVE  IInv'
<1> DEFINE b == AfterRecord(p, ok)
<1>1. /\ breaker[p] \in Breaker
      /\ breaker[p].state \in {"absent", "closed"} => breaker[p].failures < Threshold
      /\ breaker[p].state = "open" => breaker[p].failures \in {0, Threshold}
      /\ breaker[p].halfOpenBusy <=> breaker[p].state = "half-open"
  BY DEF IInv, TypeOK, BreakerConsistent
<1>2. /\ ok => b = AfterSuccess(breaker[p])
      /\ ~ok => b = AfterFailure(breaker[p])
  BY DEF AfterRecord
<1>3. /\ b \in Breaker
      /\ b.state \in {"open", "closed"}
      /\ b.halfOpenBusy = FALSE
      /\ b.state = "closed" => b.failures < Threshold
      /\ b.state = "open" => b.failures \in {0, Threshold}
  <2>1. CASE ok
    <3>1. b = AfterSuccess(breaker[p])
      BY <1>2, <2>1
    <3> HIDE DEF b
    <3>2. QED BY <3>1 DEF AfterSuccess, Entry, Breaker, State
  <2>2. CASE ~ok
    <3>1. b = AfterFailure(breaker[p])
      BY <1>2, <2>2
    <3> HIDE DEF b
    <3>2. QED BY <1>1, <3>1, FailureCounts
  <2>3. QED BY <2>1, <2>2
<1>4. breaker' = [breaker EXCEPT ![p] = b]
  BY DEF CbRecord
<1>5. /\ breaker'[p] = b
      /\ \A q \in Provider \ {p} : breaker'[q] = breaker[q]
  BY <1>4 DEF IInv, TypeOK
<1>6. TypeOK'
  <2>1. breaker' \in [Provider -> Breaker]
    BY <1>3, <1>4 DEF IInv, TypeOK
  <2>2. AuditOf(StateOf(p), b.state) \in Event
    BY DEF AuditOf, Event
  <2>3. actor' \in [Actor -> Doing \cup {Idle}]
    <3> DEFINE fill == IF ok THEN actor[a].fill ELSE FALSE
    <3>1. fill \in BOOLEAN
      BY DEF Doing
    <3>2. [at |-> "recorded", p |-> p, fill |-> fill,
           event |-> AuditOf(StateOf(p), b.state)] \in Doing
      BY <3>1, <2>2 DEF Doing
    <3>3. actor' = [actor EXCEPT ![a] = [at |-> "recorded", p |-> p, fill |-> fill,
                                         event |-> AuditOf(StateOf(p), b.state)]]
      BY DEF CbRecord
    <3> HIDE DEF fill
    <3>4. QED BY <3>2, <3>3 DEF IInv, TypeOK
  <2>4. trials' \in [Provider -> Nat]
    BY DEF CbRecord, IInv, TypeOK
  <2>5. QED BY <2>1, <2>3, <2>4, ObserveCounts DEF IInv, TypeOK, env
<1>7. BreakerConsistent'
  BY <1>3, <1>5 DEF IInv, BreakerConsistent
<1>8. OneTrialPerCoolDown'
  <2>1. b.state # "half-open"
    BY <1>3
  <2>2. b.state = "open" => trials'[p] = 0
    BY DEF CbRecord, Opens, StateOf, IInv, TypeOK, OneTrialPerCoolDown
  <2>3. \A q \in Provider \ {p} : trials'[q] = trials[q]
    BY DEF CbRecord, IInv, TypeOK
  <2>4. QED BY <2>1, <2>2, <2>3, <1>5 DEF IInv, OneTrialPerCoolDown
<1>9. StreakCounts'
  <2>1. ASSUME NEW q \in Provider \ Custom, StateOf(q)' = "closed", q # p
        PROVE  streak'[q] = breaker'[q].failures
    BY <2>1, <1>5, ObserveCounts DEF IInv, StreakCounts, StateOf
  <2>2. ASSUME p \notin Custom, StateOf(p)' = "closed"
        PROVE  streak'[p] = breaker'[p].failures
    <3>1. b.state = "closed"
      BY <2>2, <1>3, <1>5 DEF StateOf
    <3>2. CASE ok
      <4>1. b = AfterSuccess(breaker[p])
        BY <1>2, <3>2
      <4> HIDE DEF b
      <4>2. breaker'[p].failures = 0
        BY <4>1, <1>5 DEF AfterSuccess, Entry
      <4>3. QED BY <4>2, <3>2, ObserveCounts
    <3>3. CASE ~ok
      <4>1. /\ breaker[p].state \in {"absent", "closed"}
            /\ b.failures = breaker[p].failures + 1
            /\ breaker[p].failures + 1 < Threshold
        BY <3>1, <3>3, <1>1, <1>2, FailureCounts
      <4>2. streak[p] = breaker[p].failures
        BY <4>1, <2>2 DEF IInv, StreakCounts, StateOf
      <4>3. streak[p] < Threshold
        BY <4>1, <4>2, <1>1 DEF Breaker
      <4>4. QED BY <4>1, <4>2, <4>3, <3>3, <1>5, ObserveCounts
    <3>4. QED BY <3>2, <3>3
  <2>3. QED BY <2>1, <2>2 DEF StreakCounts
<1>10. QED BY <1>6, <1>7, <1>8, <1>9 DEF IInv

\* Letting a call through: of an open breaker at most one, after its cool-down.
LEMMA AdmitPreserves ==
  ASSUME IInv, NEW c \in Caller, NEW p \in Provider, Admit(c, p)
  PROVE  IInv'
<1>1. actor' \in [Actor -> Doing \cup {Idle}]
  BY DEF Admit, IInv, TypeOK, Doing, Event, Actor
<1>2. CASE StateOf(p) = "closed"
  <2>1. breaker' = breaker /\ trials' = trials
    BY <1>2 DEF Admit, CbAllow, Cooled, StateOf
  <2>2. TypeOK'
    BY <1>1, <2>1 DEF Admit, IInv, TypeOK, env
  <2>3. QED BY <2>1, <2>2
       DEF Admit, IInv, BreakerConsistent, OneTrialPerCoolDown, StreakCounts, StateOf
<1>3. CASE Cooled(p)
  <2> DEFINE b == Entry("half-open", breaker[p].failures, TRUE)
  <2>1. breaker[p] \in Breaker /\ breaker[p].state = "open" /\ trials[p] = 0
    BY <1>3 DEF Cooled, IInv, TypeOK, OneTrialPerCoolDown
  <2>2. breaker' = [breaker EXCEPT ![p] = b]
    BY <1>3 DEF Admit, CbAllow
  <2>3. b \in Breaker /\ b.state = "half-open" /\ b.halfOpenBusy = TRUE
    BY <2>1 DEF Entry, Breaker, State
  <2> HIDE DEF b
  <2>4. trials' = [trials EXCEPT ![p] = trials[p] + 1]
    BY <2>1 DEF Admit, StateOf
  <2>5. breaker' \in [Provider -> Breaker] /\ trials' \in [Provider -> Nat]
    BY <2>2, <2>3, <2>4 DEF IInv, TypeOK
  <2>6. TypeOK'
    BY <1>1, <2>5 DEF Admit, IInv, TypeOK, env
  <2>7. BreakerConsistent'
    BY <2>2, <2>3 DEF IInv, TypeOK, BreakerConsistent
  <2>8. OneTrialPerCoolDown'
    BY <2>1, <2>2, <2>3, <2>4 DEF IInv, TypeOK, OneTrialPerCoolDown
  <2>9. StreakCounts'
    BY <2>2, <2>3 DEF Admit, IInv, TypeOK, StreakCounts, StateOf
  <2>10. QED BY <2>6, <2>7, <2>8, <2>9 DEF IInv
<1>4. QED BY <1>2, <1>3 DEF Admit, CbAllows

\* The steps that leave the table and the history alone.
LEMMA QuietPreserves ==
  ASSUME IInv, UNCHANGED <<breaker, streak, trials>>, TypeOK'
  PROVE  IInv'
BY DEF IInv, BreakerConsistent, OneTrialPerCoolDown, StreakCounts, StateOf

\* The audit line and the cache fill that end an exchange or a probe.
LEMMA FinishPreserves ==
  ASSUME IInv, NEW a \in Actor, Finish(a)
  PROVE  IInv'
<1>1. actor[a] \in Doing
  BY DEF Finish, IInv, TypeOK, Idle
<1>2. TypeOK'
  BY <1>1 DEF Finish, IInv, TypeOK, Doing, env
<1>3. QED BY <1>2, QuietPreserves DEF Finish

\* The steps of callProviderChatFull after it has been let through.
LEMMA CallPreserves ==
  ASSUME IInv, NEW c \in Caller, Call(c)
  PROVE  IInv'
<1>1. c \in Actor
  BY DEF Actor
<1>2. actor[c] \in Doing
  BY <1>1 DEF Call, ReturnEarly, Send, Complete, Finish, IInv, TypeOK, Idle
<1>3. CASE ReturnEarly(c)
  <2>1. TypeOK'
    BY <1>3 DEF ReturnEarly, IInv, TypeOK, env
  <2>2. QED BY <1>3, <2>1, QuietPreserves DEF ReturnEarly
<1>4. ASSUME NEW fill \in BOOLEAN, Send(c, fill)
      PROVE  IInv'
  <2>1. actor' \in [Actor -> Doing \cup {Idle}]
    BY <1>2, <1>4 DEF Send, IInv, TypeOK, Doing, Event
  <2>2. TypeOK'
    BY <2>1, <1>1, <1>4 DEF Send, IInv, TypeOK, env
  <2>3. QED BY <1>4, <2>2, QuietPreserves DEF Send
<1>5. ASSUME NEW ok \in BOOLEAN, Complete(c, ok)
      PROVE  IInv'
  <2> DEFINE p == actor[c].p
  <2>1. p \in Provider /\ Observe(p, ok) /\ shaky' = shaky \ {c}
    BY <1>2, <1>5 DEF Complete, Doing
  <2>2. UNCHANGED <<env, cached, todo, trail>>
    BY <1>5 DEF Complete
  <2>3. CASE ok /\ p \in Custom
    <3>1. UNCHANGED <<breaker, trials>>
      BY <1>5, <2>3 DEF Complete
    <3>2. actor' \in [Actor -> Doing \cup {Idle}]
      BY <1>2, <1>5, <2>3 DEF Complete, IInv, TypeOK, Doing, Event
    <3>3. TypeOK'
      BY <2>1, <2>2, <3>1, <3>2, ObserveCounts DEF IInv, TypeOK, env
    <3>4. \A q \in Provider \ Custom : streak'[q] = streak[q]
      BY <2>1, <2>3, ObserveCounts
    <3>5. QED BY <3>1, <3>3, <3>4
         DEF IInv, BreakerConsistent, OneTrialPerCoolDown, StreakCounts, StateOf
  <2>4. CASE ~(ok /\ p \in Custom)
    <3>1. CbRecord(c, p, ok)
      BY <1>5, <2>4 DEF Complete
    <3>2. QED BY <3>1, <2>1, <2>2, <1>1, <1>2, RecordPreserves
  <2>5. QED BY <2>3, <2>4
<1>6. QED BY <1>1, <1>3, <1>4, <1>5, FinishPreserves DEF Call

\* The steps of an administrator's probe.
LEMMA ProbePreserves ==
  ASSUME IInv, NEW w \in Prober, Probe(w)
  PROVE  IInv'
<1>1. w \in Actor
  BY DEF Actor
<1>4. ASSUME NEW p \in Provider, ProbeSend(w, p)
      PROVE  IInv'
  <2>1. actor' \in [Actor -> Doing \cup {Idle}]
    BY <1>4 DEF ProbeSend, IInv, TypeOK, Doing, Event
  <2>2. TypeOK'
    BY <1>1, <1>4, <2>1 DEF ProbeSend, IInv, TypeOK, env
  <2>3. QED BY <1>4, <2>2, QuietPreserves DEF ProbeSend
<1>5. ASSUME NEW ok \in BOOLEAN, ProbeRecord(w, ok)
      PROVE  IInv'
  <2>1. actor[w] \in Doing /\ actor[w].p \in Provider
    BY <1>1, <1>5 DEF ProbeRecord, IInv, TypeOK, Idle, Doing
  <2>2. QED BY <1>1, <1>5, <2>1, RecordPreserves DEF ProbeRecord
<1>6. QED BY <1>1, <1>4, <1>5, FinishPreserves DEF Probe

\* A request to probe lists keyed cloud providers.
LEMMA ListPreserves ==
  ASSUME IInv, NEW w \in Prober,
         ProbeAll(w) \/ \E p \in Provider : ProbeOne(w, p)
  PROVE  IInv'
<1>1. PICK S \in SUBSET Provider : ProbeBegin(w, S)
  BY DEF ProbeAll, ProbeOne, Targets
<1>2. TypeOK'
  BY <1>1 DEF ProbeBegin, IInv, TypeOK, env
<1>3. QED BY <1>1, <1>2, QuietPreserves DEF ProbeBegin

\* The clock: only the time since opening changes.
LEMMA TickPreserves ==
  ASSUME IInv, Tick
  PROVE  IInv'
<1>1. ASSUME NEW p \in Provider
      PROVE  /\ breaker'[p] \in Breaker
             /\ breaker'[p].state = breaker[p].state
             /\ breaker'[p].failures = breaker[p].failures
             /\ breaker'[p].halfOpenBusy = breaker[p].halfOpenBusy
  <2>1. breaker[p] \in Breaker
    BY DEF IInv, TypeOK
  <2>2. CASE breaker[p].state = "open" /\ breaker[p].elapsed < OpenTicks
    <3>1. breaker'[p] = [breaker[p] EXCEPT !.elapsed = @ + 1]
      BY <2>2 DEF Tick
    <3>2. breaker'[p] = [state |-> breaker[p].state, failures |-> breaker[p].failures,
                         halfOpenBusy |-> breaker[p].halfOpenBusy,
                         elapsed |-> breaker[p].elapsed + 1]
      BY <2>1, <3>1 DEF Breaker
    <3>3. breaker[p].elapsed + 1 \in 0 .. OpenTicks
      BY <2>1, <2>2 DEF Breaker
    <3>4. QED BY <2>1, <3>2, <3>3 DEF Breaker
  <2>3. CASE ~(breaker[p].state = "open" /\ breaker[p].elapsed < OpenTicks)
    BY <2>1, <2>3 DEF Tick
  <2>4. QED BY <2>2, <2>3
<1>2. DOMAIN breaker' = Provider /\ breaker' = [p \in Provider |-> breaker'[p]]
  BY DEF Tick
<1>3. breaker' \in [Provider -> Breaker]
  BY <1>1, <1>2
<1>4. TypeOK'
  BY <1>3 DEF Tick, IInv, TypeOK, env
<1>5. QED BY <1>1, <1>4
     DEF Tick, IInv, BreakerConsistent, OneTrialPerCoolDown, StreakCounts, StateOf

\* Upstreams, configuration and cache expiry do not touch the breakers.
LEMMA EnvironmentPreserves ==
  ASSUME IInv, NEW p \in Provider,
         Fails(p) \/ Recovers(p) \/ Reconfigure(p) \/ CacheExpire(p)
  PROVE  IInv'
<1>1. TypeOK'
  BY DEF Fails, Recovers, Reconfigure, CacheExpire, IInv, TypeOK, env
<1>2. UNCHANGED <<breaker, streak, trials>>
  BY DEF Fails, Recovers, Reconfigure, CacheExpire
<1>3. QED BY <1>1, <1>2, QuietPreserves

LEMMA InitEstablishes == Init => IInv
<1> SUFFICES ASSUME Init PROVE IInv
  OBVIOUS
<1>1. \A p \in Provider : breaker[p] \in Breaker
  BY DEF Init, Breaker, State
<1>2. TypeOK
  BY <1>1 DEF Init, TypeOK, Event
<1>3. QED BY <1>2
     DEF Init, IInv, BreakerConsistent, OneTrialPerCoolDown, StreakCounts, StateOf

LEMMA NextPreserves == IInv /\ [Next]_vars => IInv'
<1> SUFFICES ASSUME IInv, [Next]_vars PROVE IInv'
  OBVIOUS
<1>1. CASE Next
  BY <1>1, AdmitPreserves, CallPreserves, ProbePreserves, ListPreserves, TickPreserves,
     EnvironmentPreserves DEF Next
<1>2. CASE UNCHANGED vars
  <2>1. TypeOK'
    BY <1>2 DEF vars, env, IInv, TypeOK
  <2>2. QED BY <1>2, <2>1, QuietPreserves DEF vars
<1>3. QED BY <1>1, <1>2

\* The inductive invariant of the breaker path.
THEOREM Invariance == Spec => []IInv
BY InitEstablishes, NextPreserves, PTL DEF Spec

-----------------------------------------------------------------------------
(* The properties the runs check on small instances. *)

\* Type correctness of the provider path.
THEOREM TypeCorrect == Spec => []TypeOK
BY Invariance, PTL DEF IInv

\* The fields of every breaker agree (circuit.go, breaker).
THEOREM Consistent == Spec => []BreakerConsistent
BY Invariance, PTL DEF IInv

\* An open breaker admits nothing, a half-open one has admitted one call,
\* whatever late results arrive (circuit.go, cbAllow and cbRecord).
THEOREM OneTrial == Spec => []OneTrialPerCoolDown
BY Invariance, PTL DEF IInv

\* A closed breaker opens only when the last Threshold results recorded for its
\* provider were failures (circuit.go, cbRecord), custom providers excepted.
THEOREM OpensOnlyAfterThreshold == Spec => OpensAfterThreshold
<1>1. ASSUME IInv, [Next]_vars, NEW p \in Provider \ Custom,
             StateOf(p) = "closed", breaker'[p].state = "open"
      PROVE  streak'[p] = Threshold
  <2>1. breaker'[p] # breaker[p]
    BY <1>1 DEF StateOf
  <2>2. PICK a \in Actor, ok \in BOOLEAN : CbRecord(a, actor[a].p, ok) /\ Observe(actor[a].p, ok)
    <3>1. ~UNCHANGED breaker
      BY <2>1
    <3>2. ~Tick
      BY <1>1, <2>1 DEF Tick, StateOf
    <3>3. ASSUME NEW c \in Caller, NEW q \in Provider, Admit(c, q)
          PROVE  FALSE
      BY <1>1, <2>1, <3>3 DEF Admit, CbAllow, Cooled, StateOf, Entry, IInv, TypeOK
    <3>4. ASSUME NEW c \in Caller, Call(c)
          PROVE  \E ok \in BOOLEAN : CbRecord(c, actor[c].p, ok) /\ Observe(actor[c].p, ok)
      BY <3>1, <3>4 DEF Call, ReturnEarly, Send, Complete, Finish
    <3>5. ASSUME NEW w \in Prober, Probe(w)
          PROVE  \E ok \in BOOLEAN : CbRecord(w, actor[w].p, ok) /\ Observe(actor[w].p, ok)
      BY <3>1, <3>5 DEF Probe, ProbeSend, ProbeRecord, Finish
    <3>6. ASSUME NEW q \in Provider, Fails(q) \/ Recovers(q) \/ Reconfigure(q) \/ CacheExpire(q)
          PROVE  FALSE
      BY <3>1, <3>6 DEF Fails, Recovers, Reconfigure, CacheExpire
    <3>7. ASSUME NEW w \in Prober, ProbeAll(w) \/ \E q \in Provider : ProbeOne(w, q)
          PROVE  FALSE
      BY <3>1, <3>7 DEF ProbeAll, ProbeOne, ProbeBegin
    <3>8. QED BY <1>1, <3>1, <3>2, <3>3, <3>4, <3>5, <3>6, <3>7 DEF Next, vars, Actor
  <2>3. actor[a].p = p
    BY <2>1, <2>2, <1>1 DEF CbRecord, IInv, TypeOK
  <2> DEFINE b == AfterRecord(p, ok)
  <2>4. breaker'[p] = b
    BY <2>2, <2>3, <1>1 DEF CbRecord, IInv, TypeOK
  <2>5. ~ok
    BY <2>4, <1>1 DEF AfterRecord, AfterSuccess, Entry
  <2>6. b = AfterFailure(breaker[p])
    BY <2>5 DEF AfterRecord
  <2> HIDE DEF b
  <2>7. /\ breaker[p] \in Breaker
        /\ breaker[p].state \in {"absent", "closed"}
        /\ breaker[p].failures < Threshold
        /\ breaker[p].state = "open" => breaker[p].failures \in {0, Threshold}
        /\ breaker[p].halfOpenBusy <=> breaker[p].state = "half-open"
    BY <1>1 DEF IInv, TypeOK, BreakerConsistent, StateOf, Breaker, State
  <2>8. breaker[p].failures + 1 = Threshold
    <3>1. AfterFailure(breaker[p]).state = "open"
      BY <2>4, <2>6, <1>1
    <3>2. QED BY <3>1, <2>7 DEF AfterFailure, Entry, Breaker
  <2>9. streak[p] = breaker[p].failures
    BY <1>1 DEF IInv, StreakCounts
  <2>10. streak[p] < Threshold
    BY <2>8, <2>9, <2>7 DEF Breaker
  <2>11. streak'[p] = streak[p] + 1
    BY <2>2, <2>3, <2>5, <2>10, <1>1, ObserveCounts
  <2>12. QED BY <2>8, <2>9, <2>11
<1>2. IInv /\ [Next]_vars
        => [\A p \in Provider \ Custom :
              StateOf(p) = "closed" /\ breaker'[p].state = "open"
                => streak'[p] = Threshold]_vars
  BY <1>1
<1>3. QED BY <1>2, Invariance, PTL DEF Spec, OpensAfterThreshold

=============================================================================

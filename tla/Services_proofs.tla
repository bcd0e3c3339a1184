--------------------------- MODULE Services_proofs ---------------------------
(***************************************************************************)
(* Proofs about the services of the gateway, for all values of their       *)
(* constants.                                                              *)
(*                                                                         *)
(* Each service has an inductive invariant of its own, named after it and  *)
(* "Holds", with a lemma that it holds when the service starts, one that   *)
(* its steps keep it, and one that it implies the service's property.  The *)
(* last section puts them together for the module of all services.        *)
(***************************************************************************)
EXTENDS Services, Sequences, FiniteSetTheorems, TLAPS

-----------------------------------------------------------------------------
(* The probe. *)

LEMMA ProbeAssumed == Probe!TimeAssumption
BY ServicesAssumption

\* A breaker that has not tripped counts every failure in a row, and one that has tripped
\* has waited no longer than the command has been left alone.
ProbeHolds ==
  /\ Probe!TypeOK
  /\ v1.tripped => v1.wait <= v7
  /\ ~v1.tripped => v6 <= v1.fails /\ v6 < Threshold

\* It holds at the start, ...
LEMMA ProbeStarts == Probe!Init => ProbeHolds
<1> SUFFICES ASSUME Probe!Init PROVE ProbeHolds
  OBVIOUS
<1> USE ProbeAssumed DEF Probe!Init, Probe!TimeAssumption
<1>1. v1 \in [fails : 0..Threshold, tripped : BOOLEAN, wait : 0..Pause]
  OBVIOUS
<1>2. Probe!TypeOK
  BY <1>1 DEF Probe!TypeOK, Probe!Idle
<1> QED BY <1>2 DEF ProbeHolds

\* ... and every step keeps it.
LEMMA ProbeKeeps == ProbeHolds /\ Probe!Next => ProbeHolds'
<1> SUFFICES ASSUME ProbeHolds, Probe!Next PROVE ProbeHolds'
  OBVIOUS
<1> USE ProbeAssumed
    DEF ProbeHolds, Probe!TypeOK, Probe!TimeAssumption, Probe!NoFile, Probe!Forged,
        Probe!Idle, Probe!Running, Probe!history
<1>1. CASE Probe!Off
  BY <1>1 DEF Probe!Off
<1>2. CASE Probe!Hit
  BY <1>2 DEF Probe!Hit
<1>3. CASE Probe!Miss
  BY <1>3 DEF Probe!Miss
<1>4. CASE Probe!Degrade
  BY <1>4 DEF Probe!Degrade
<1>5. CASE Probe!Run
  BY <1>5 DEF Probe!Run, Probe!MayRun
<1>6. CASE Probe!Succeed
  <2>1. v1' = [fails |-> 0, tripped |-> FALSE, wait |-> v1.wait]
    BY <1>6 DEF Probe!Succeed, Probe!Succeeded
  <2> QED BY <1>6, <2>1 DEF Probe!Succeed
<1>7. CASE Probe!Break
  <2>1. CASE ~v1.tripped /\ v1.fails + 1 >= Threshold
    BY <1>7, <2>1 DEF Probe!Break, Probe!Failed, Probe!Least
  <2>2. CASE ~(~v1.tripped /\ v1.fails + 1 >= Threshold)
    <3>1. v1' = [fails |-> Probe!Least(v1.fails + 1, Threshold), tripped |-> v1.tripped,
                 wait |-> v1.wait]
      BY <1>7, <2>2 DEF Probe!Break, Probe!Failed
    <3> QED BY <1>7, <2>2, <3>1 DEF Probe!Break, Probe!Least
  <2> QED BY <2>1, <2>2
<1>8. CASE Probe!Store
  <2>1. v3' \in [kind : {"signed"}, data : Probe!Data, age : 0..(Life + 1)]
    BY <1>8 DEF Probe!Store, Probe!Signed, Probe!Data
  <2> QED BY <1>8, <2>1 DEF Probe!Store
<1>9. CASE Probe!Invalidate
  BY <1>9 DEF Probe!Invalidate
<1>10. CASE Probe!Forge
  BY <1>10 DEF Probe!Forge
<1>11. CASE Probe!Tick
  <2>1. v1' = [fails |-> v1.fails, tripped |-> v1.tripped,
               wait |-> Probe!Least(v1.wait + 1, Pause)]
    BY <1>11 DEF Probe!Tick
  <2>2. v3' \in {Probe!NoFile, Probe!Forged}
             \cup [kind : {"signed"}, data : Probe!Data, age : 0..(Life + 1)]
    BY <1>11 DEF Probe!Tick, Probe!Least
  <2> QED BY <1>11, <2>1, <2>2 DEF Probe!Tick, Probe!Least
<1> QED
  BY <1>1, <1>2, <1>3, <1>4, <1>5, <1>6, <1>7, <1>8, <1>9, <1>10, <1>11
  DEF Probe!Next, Probe!Snapshot

\* A command that is started has not failed too often, or has been left alone for a pause.
LEMMA ProbeSpaced ==
  ProbeHolds /\ Probe!Run /\ v4' = "running" => v6 < Threshold \/ v7 = Pause
BY ProbeAssumed
   DEF ProbeHolds, Probe!TypeOK, Probe!TimeAssumption, Probe!Run, Probe!MayRun, Probe!Running

-----------------------------------------------------------------------------
(* Logins. *)

LEMMA LoginAssumed == Logins!LifeAssumption
BY ServicesAssumption

\* What a callback does, and whether it may still make a session of a state.
LoginSteps ==
  {Logins!Idle} \cup [at : {"taken"}, state : State, age : Logins!Gone..(StateLife + 1)]
  \cup [at : {"exchange"}, state : State, wanted : Issuer \cup {Logins!None}]
  \cup [at : {"verify", "keys"}, state : State, wanted : Issuer \cup {Logins!None},
        token : Issuer]
  \cup [at : {"create"}, state : State, age : 0..(SessionLife + 1)]
Works(r, s) == r # Logins!Idle /\ r.state = s /\ (r.at = "taken" => r.age # Logins!Gone)

\* A state that is still in the table has led to nothing; one that was taken is in the
\* hands of one callback at most, which has made no session yet, or has led to one session.
LoginHolds ==
  /\ v1 \in Issuer \cup {Logins!None}
  /\ v4 \in [State -> Logins!Unused..(StateLife + 1)]
  /\ v6 \in [Handler -> LoginSteps]
  /\ v7 \in [State -> {0, 1}]
  /\ \A s \in State, h \in Handler :
       Works(v6[h], s) => /\ v4[s] = Logins!Gone /\ v7[s] = 0
                          /\ \A k \in Handler : Works(v6[k], s) => k = h
  /\ \A s \in State : v4[s] # Logins!Gone => v7[s] = 0

LEMMA LoginStarts == Logins!Init => LoginHolds
<1> SUFFICES ASSUME Logins!Init PROVE LoginHolds
  OBVIOUS
<1> USE LoginAssumed DEF Logins!LifeAssumption, Logins!Init
<1>1. v4 \in [State -> Logins!Unused..(StateLife + 1)] /\ v7 \in [State -> {0, 1}]
  BY DEF Logins!Unused
<1>2. v6 \in [Handler -> LoginSteps] /\ \A h \in Handler : v6[h] = Logins!Idle
  BY DEF LoginSteps
<1>3. v1 \in Issuer \cup {Logins!None} /\ \A s \in State : v7[s] = 0
  OBVIOUS
<1> QED BY <1>1, <1>2, <1>3 DEF LoginHolds, Works

\* Refused by the state's age, or going on: a callback works for no other state than before.
LEMMA LoginMoves ==
  ASSUME LoginHolds, NEW h \in Handler, NEW new \in LoginSteps, v6' = [v6 EXCEPT ![h] = new],
         \A s \in State : Works(new, s) => Works(v6[h], s), v1' = v1, v4' = v4,
         v7' = v7
  PROVE  LoginHolds'
<1>1. v6' \in [Handler -> LoginSteps]
  BY DEF LoginHolds
<1>2. \A k \in Handler, s \in State : Works(v6'[k], s) => Works(v6[k], s)
  BY DEF LoginHolds
<1> QED BY <1>1, <1>2 DEF LoginHolds

LEMMA LoginKeeps == LoginHolds /\ Logins!Next => LoginHolds'
<1> SUFFICES ASSUME LoginHolds, Logins!Next PROVE LoginHolds'
  OBVIOUS
<1> USE LoginAssumed DEF Logins!LifeAssumption
<1>0. Logins!Idle \in LoginSteps /\ \A s : ~Works(Logins!Idle, s)
  BY DEF LoginSteps, Works
<1>1. ASSUME NEW s \in State, Logins!Login(s) PROVE LoginHolds'
  <2>1. v4' = [v4 EXCEPT ![s] = 0] /\ v4[s] = Logins!Unused /\ v6' = v6 /\ v7' = v7 /\ v1' = v1
    BY <1>1 DEF Logins!Login
  <2>2. v4' \in [State -> Logins!Unused..(StateLife + 1)] /\ v4'[s] = 0 /\ v4[s] = -2
        /\ \A t \in State : t # s => v4'[t] = v4[t]
    BY <2>1 DEF LoginHolds, Logins!Unused
  <2> QED BY <2>1, <2>2 DEF LoginHolds, Logins!Gone
<1>2. ASSUME NEW s \in State, Logins!Logout(s) PROVE LoginHolds'
  BY <1>2 DEF Logins!Logout, LoginHolds
<1>3. ASSUME NEW h \in Handler, NEW s \in State, Logins!Take(h, s) PROVE LoginHolds'
  <2> DEFINE new == Logins!Taking(s, v4[s])
  <2>1. v4' = [v4 EXCEPT ![s] = Logins!Gone] /\ v4[s] # Logins!Unused
        /\ v6' = [v6 EXCEPT ![h] = new] /\ v6[h] = Logins!Idle /\ v7' = v7
        /\ v1' = v1
    BY <1>3 DEF Logins!Take
  <2>2. v4' \in [State -> Logins!Unused..(StateLife + 1)] /\ v4'[s] = Logins!Gone
        /\ \A t \in State : t # s => v4'[t] = v4[t]
    BY <2>1 DEF LoginHolds, Logins!Unused, Logins!Gone
  <2>3. new \in LoginSteps
    BY <2>1 DEF LoginHolds, LoginSteps, Logins!Unused, Logins!Gone, Logins!Taking
  <2>4. \A t \in State : Works(new, t) => t = s /\ v4[s] # Logins!Gone
    BY DEF Works, Logins!Taking
  <2> HIDE DEF new
  <2>5. v6' \in [Handler -> LoginSteps] /\ v6'[h] = new
        /\ \A k \in Handler : k # h => v6'[k] = v6[k]
    BY <2>1, <2>3 DEF LoginHolds
  <2>6. ASSUME NEW t \in State, NEW k \in Handler, Works(v6'[k], t)
        PROVE  /\ v4'[t] = Logins!Gone /\ v7'[t] = 0
               /\ \A l \in Handler : Works(v6'[l], t) => l = k
    <3>1. CASE t = s /\ v4[s] # Logins!Gone
      <4>1. \A l \in Handler : ~Works(v6[l], s) /\ v7[s] = 0
        BY <3>1 DEF LoginHolds
      <4> QED BY <2>1, <2>2, <2>5, <2>6, <3>1, <4>1
    <3>2. CASE ~(t = s /\ v4[s] # Logins!Gone)
      <4>1. \A l \in Handler : Works(v6'[l], t) => Works(v6[l], t)
        BY <2>4, <2>5, <3>2
      <4>2. v4[t] = Logins!Gone /\ v7[t] = 0
        BY <2>6, <4>1 DEF LoginHolds
      <4>3. v4'[t] = Logins!Gone /\ v7'[t] = 0
        BY <2>1, <2>2, <4>2
      <4> QED BY <2>6, <4>1, <4>3 DEF LoginHolds
    <3> QED BY <3>1, <3>2
  <2>7. \A t \in State : v4'[t] # Logins!Gone => v7'[t] = 0
    BY <2>1, <2>2 DEF LoginHolds
  <2> QED BY <2>1, <2>2, <2>5, <2>6, <2>7 DEF LoginHolds
<1>4. ASSUME NEW h \in Handler, Logins!Accept(h) PROVE LoginHolds'
  <2> DEFINE next == [at |-> "exchange", state |-> v6[h].state, wanted |-> v1]
  <2>1. v6[h].at = "taken" /\ v4' = v4 /\ v7' = v7 /\ v1' = v1
    BY <1>4 DEF Logins!Accept
  <2>2. CASE v6[h].age \in 0..StateLife
    <3>1. v6' = [v6 EXCEPT ![h] = next]
      BY <1>4, <2>2 DEF Logins!Accept
    <3>2. v6[h] \in [at : {"taken"}, state : State, age : Logins!Gone..(StateLife + 1)]
      BY <2>1 DEF LoginHolds, LoginSteps, Logins!Idle
    <3>3. next \in LoginSteps /\ \A s \in State : Works(next, s) => Works(v6[h], s)
      BY <2>2, <3>2 DEF Works, Logins!Gone, Logins!Idle, LoginSteps, LoginHolds
    <3> HIDE DEF next
    <3> QED BY <2>1, <3>1, <3>3, LoginMoves
  <2>3. CASE v6[h].age \notin 0..StateLife
    <3>1. v6' = [v6 EXCEPT ![h] = Logins!Idle]
      BY <1>4, <2>3 DEF Logins!Accept
    <3> QED BY <1>0, <2>1, <3>1, LoginMoves
  <2> QED BY <2>2, <2>3
<1>5. ASSUME NEW h \in Handler, Logins!Exchange(h) PROVE LoginHolds'
  <2>1. PICK i \in Issuer :
          v6' = [v6 EXCEPT ![h] = [at |-> "verify", state |-> v6[h].state,
                                   wanted |-> v6[h].wanted, token |-> i]]
    BY <1>5 DEF Logins!Exchange
  <2> DEFINE next == [at |-> "verify", state |-> v6[h].state, wanted |-> v6[h].wanted,
                      token |-> i]
  <2>2. v6[h].at = "exchange" /\ v4' = v4 /\ v7' = v7 /\ v1' = v1
    BY <1>5 DEF Logins!Exchange
  <2>3. v6[h] \in [at : {"exchange"}, state : State, wanted : Issuer \cup {Logins!None}]
    BY <2>2 DEF LoginHolds, LoginSteps, Logins!Idle
  <2>4. next \in LoginSteps /\ \A s \in State : Works(next, s) => Works(v6[h], s)
    BY <2>3 DEF Works, Logins!Idle, LoginSteps
  <2> HIDE DEF next
  <2> QED BY <2>1, <2>2, <2>4, LoginMoves DEF next
<1>6. ASSUME NEW h \in Handler, Logins!Look(h) PROVE LoginHolds'
  <2> DEFINE next == [v6[h] EXCEPT !.at = "keys"]
  <2>1. v6[h].at = "verify" /\ v6' = [v6 EXCEPT ![h] = next] /\ v4' = v4 /\ v7' = v7 /\ v1' = v1
    BY <1>6 DEF Logins!Look
  <2>2. v6[h] \in [at : {"verify", "keys"}, state : State, wanted : Issuer \cup {Logins!None},
                   token : Issuer]
    BY <2>1 DEF LoginHolds, LoginSteps, Logins!Idle
  <2>3. next = [at |-> "keys", state |-> v6[h].state, wanted |-> v6[h].wanted,
                token |-> v6[h].token]
    BY <2>2
  <2>4. next \in LoginSteps /\ \A s \in State : Works(next, s) => Works(v6[h], s)
    BY <2>1, <2>2, <2>3 DEF Works, Logins!Idle, LoginSteps
  <2> HIDE DEF next
  <2> QED BY <2>1, <2>4, LoginMoves
<1>7. ASSUME NEW h \in Handler, Logins!Verify(h) PROVE LoginHolds'
  <2> DEFINE next == [at |-> "create", state |-> v6[h].state, age |-> 0]
  <2>1. v6[h].at = "keys" /\ v6' = [v6 EXCEPT ![h] = next] /\ v4' = v4 /\ v7' = v7 /\ v1' = v1
    BY <1>7 DEF Logins!Verify
  <2>2. v6[h] \in [at : {"verify", "keys"}, state : State, wanted : Issuer \cup {Logins!None},
                   token : Issuer]
    BY <2>1 DEF LoginHolds, LoginSteps, Logins!Idle
  <2>3. next \in LoginSteps /\ \A s \in State : Works(next, s) => Works(v6[h], s)
    BY <2>1, <2>2 DEF Works, Logins!Idle, LoginSteps
  <2> HIDE DEF next
  <2> QED BY <2>1, <2>3, LoginMoves
<1>8. ASSUME NEW h \in Handler, Logins!Refuse(h) PROVE LoginHolds'
  BY <1>0, <1>8, LoginMoves DEF Logins!Refuse
<1>9. ASSUME NEW h \in Handler, Logins!Create(h) PROVE LoginHolds'
  <2> DEFINE s == v6[h].state
  <2>1. v6[h].at = "create" /\ v1' = v1 /\ v6' = [v6 EXCEPT ![h] = Logins!Idle]
        /\ v4' = [t \in State |-> IF v4[t] > StateLife THEN Logins!Gone ELSE v4[t]]
        /\ v7' = [v7 EXCEPT ![s] = v7[s] + 1]
    BY <1>9 DEF Logins!Create
  <2>2. v6[h] \in [at : {"create"}, state : State, age : 0..(SessionLife + 1)]
    BY <2>1 DEF LoginHolds, LoginSteps, Logins!Idle
  <2>3. s \in State /\ Works(v6[h], s)
    BY <2>2 DEF Works, Logins!Idle
  <2> HIDE DEF s
  <2>4. v7[s] = 0 /\ v4[s] = Logins!Gone /\ \A k \in Handler : k # h => ~Works(v6[k], s)
    BY <2>3 DEF LoginHolds
  <2>5. v7' \in [State -> {0, 1}] /\ \A t \in State : t # s => v7'[t] = v7[t]
    BY <2>1, <2>3, <2>4 DEF LoginHolds
  <2>6. v4' \in [State -> Logins!Unused..(StateLife + 1)]
        /\ \A t \in State : v4[t] = Logins!Gone => v4'[t] = Logins!Gone
    BY <2>1 DEF LoginHolds, Logins!Unused, Logins!Gone
  <2>7. \A t \in State : v4'[t] # Logins!Gone => v4[t] # Logins!Gone
    BY <2>6
  <2>8. v6' \in [Handler -> LoginSteps] /\ v6'[h] = Logins!Idle
        /\ \A k \in Handler : k # h => v6'[k] = v6[k]
    BY <1>0, <2>1 DEF LoginHolds
  <2>9. \A k \in Handler, t \in State : Works(v6'[k], t) => Works(v6[k], t) /\ t # s
    BY <1>0, <2>4, <2>8
  <2> QED BY <2>1, <2>4, <2>5, <2>6, <2>7, <2>8, <2>9 DEF LoginHolds
<1>10. CASE Logins!Configure
  BY <1>10 DEF Logins!Configure, LoginHolds
<1>11. CASE Logins!Tick
  <2>1. v1' = v1 /\ v7' = v7 /\ v4' = [s \in State |-> Logins!Older(v4[s], StateLife)]
        /\ v6' = [h \in Handler |->
             IF v6[h].at = "create"
             THEN [v6[h] EXCEPT !.age = Logins!Older(v6[h].age, SessionLife)] ELSE v6[h]]
    BY <1>11 DEF Logins!Tick
  <2>2. v4' \in [State -> Logins!Unused..(StateLife + 1)]
        /\ \A s \in State : v4[s] = Logins!Gone <=> v4'[s] = Logins!Gone
    BY <2>1 DEF LoginHolds, Logins!Unused, Logins!Gone, Logins!Older, Logins!Least
  <2>3. ASSUME NEW h \in Handler
        PROVE  v6'[h] \in LoginSteps /\ \A s \in State : Works(v6'[h], s) => Works(v6[h], s)
    <3>1. CASE v6[h].at # "create"
      BY <2>1, <3>1 DEF LoginHolds
    <3>2. CASE v6[h].at = "create"
      <4> DEFINE n == Logins!Older(v6[h].age, SessionLife)
      <4>1. v6[h] \in [at : {"create"}, state : State, age : 0..(SessionLife + 1)]
        BY <3>2 DEF LoginHolds, LoginSteps, Logins!Idle
      <4>2. n \in 0..(SessionLife + 1)
        BY <4>1 DEF Logins!Older, Logins!Least
      <4>3. v6'[h] = [v6[h] EXCEPT !.age = n]
        BY <2>1, <3>2
      <4> HIDE DEF n
      <4>4. v6'[h] = [at |-> "create", state |-> v6[h].state, age |-> n]
        BY <4>1, <4>3
      <4> QED BY <4>1, <4>2, <4>4 DEF LoginSteps, Works, Logins!Idle
    <3> QED BY <3>1, <3>2
  <2>4. v6' \in [Handler -> LoginSteps]
    BY <2>1, <2>3
  <2> QED BY <2>1, <2>2, <2>3, <2>4 DEF LoginHolds
<1> QED
  BY <1>1, <1>2, <1>3, <1>4, <1>5, <1>6, <1>7, <1>8, <1>9, <1>10, <1>11
  DEF Logins!Next, Logins!Callback

\* It implies the property.
LEMMA LoginOnce == LoginHolds => Logins!OnePerLogin
BY DEF LoginHolds, Logins!OnePerLogin, Works

-----------------------------------------------------------------------------
(* The election. *)

\* Until a clash, whoever takes itself for the leader holds the key, with a lease that
\* is not over before its term; and who resigns no longer leads.
ElectionHolds ==
  /\ Election!TypeOK
  /\ \A c \in Candidate : v3[c] = "resigning" => v4[c] = 0
  /\ ~v5 => \A c \in Candidate : v4[c] > 0 => v1 = c /\ v2 # Election!Forever /\ v2 >= v4[c]

LEMMA ElectionAssumed == Election!TtlAssumption
BY ServicesAssumption

\* It holds at the start, and every step of the election keeps it.
LEMMA ElectionStarts == Election!Init => ElectionHolds
<1> SUFFICES ASSUME Election!Init PROVE ElectionHolds
  OBVIOUS
<1> USE ElectionAssumed DEF Election!Init, Election!TtlAssumption
<1>1. v3 \in [Candidate -> {"idle", "winning", "resigning"}] /\ v4 \in [Candidate -> 0..Ttl]
  OBVIOUS
<1>2. v1 \in Candidate \cup {Election!None} /\ v2 \in {Election!Forever} \cup (0..Ttl)
  OBVIOUS
<1>3. v5 \in BOOLEAN
  OBVIOUS
<1>4. Election!TypeOK
  BY <1>1, <1>2, <1>3, Zenon DEF Election!TypeOK
<1>5. \A c \in Candidate : v4[c] = 0
  OBVIOUS
<1> QED BY <1>4, <1>5 DEF ElectionHolds

LEMMA ElectionKeeps ==
  ElectionHolds /\ Election!Next => ElectionHolds'
<1> SUFFICES ASSUME ElectionHolds, Election!Next PROVE ElectionHolds'
  OBVIOUS
<1> USE ElectionAssumed
    DEF ElectionHolds, Election!TypeOK, Election!TtlAssumption, Election!None,
        Election!Forever, Election!Above, Election!Found, Election!Held
<1>1. ASSUME NEW c \in Candidate, Election!Lose(c) PROVE ElectionHolds'
  BY <1>1 DEF Election!Lose, Election!vars
<1>2. ASSUME NEW c \in Candidate, Election!Look(c) PROVE ElectionHolds'
  BY <1>2 DEF Election!Look
<1>3. ASSUME NEW c \in Candidate, Election!Win(c) PROVE ElectionHolds'
  <2>1. v4' = [v4 EXCEPT ![c] = Ttl] /\ v3[c] = "winning" /\ v3' = [v3 EXCEPT ![c] = "idle"]
    BY <1>3 DEF Election!Win
  <2>2. Election!TypeOK'
    BY <1>3, <2>1 DEF Election!Win, Election!Put
  <2>3. \A d \in Candidate : v3'[d] = "resigning" => v4'[d] = 0
    BY <2>1
  <2>4. ASSUME ~v5', NEW d \in Candidate, v4'[d] > 0
        PROVE  v1' = d /\ v2' = Ttl /\ v4'[d] \in 0..Ttl
    <3>1. ~v5 /\ ~Election!Held(c) /\ v2' = Ttl /\ v1' = c
      BY <1>3, <2>4 DEF Election!Win, Election!Put
    <3>2. CASE c # d
      <4>1. v4[d] > 0 /\ v1 = d /\ v2 # 0 /\ v1 # "none"
        BY <2>1, <2>4, <3>1, <3>2
      <4> QED BY <3>1, <3>2, <4>1
    <3> QED BY <2>1, <2>2, <3>1, <3>2
  <2> QED BY <2>2, <2>3, <2>4
<1>4. ASSUME NEW c \in Candidate, Election!Renew(c) PROVE ElectionHolds'
  <2>1. v4' = [v4 EXCEPT ![c] = Ttl] /\ v4[c] \in 0..Ttl /\ v4[c] > 0
    BY <1>4 DEF Election!Renew
  <2>2. Election!TypeOK'
    BY <1>4, <2>1 DEF Election!Renew
  <2>3. \A d \in Candidate : v3'[d] = "resigning" => v4'[d] = 0
    BY <1>4, <2>1 DEF Election!Renew
  <2>4. ASSUME ~v5', NEW d \in Candidate, v4'[d] > 0
        PROVE  v1' = d /\ v2' = Ttl /\ v4'[d] \in 0..Ttl
    <3>1. ~v5 /\ ~Election!Held(c) /\ v2' = Ttl /\ v1' = v1
      BY <1>4, <2>4 DEF Election!Renew
    <3>2. v1 = c /\ v2 >= v4[c]
      BY <2>1, <3>1
    <3> QED BY <2>1, <2>2, <2>4, <3>1, <3>2
  <2> QED BY <2>2, <2>3, <2>4
<1>5. ASSUME NEW c \in Candidate, Election!StepDown(c) PROVE ElectionHolds'
  BY <1>5 DEF Election!StepDown
<1>6. ASSUME NEW c \in Candidate, Election!Resign(c) PROVE ElectionHolds'
  <2>1. v4' = v4 /\ v4[c] = 0 /\ v3' = [v3 EXCEPT ![c] = "idle"]
    BY <1>6 DEF Election!Resign
  <2>2. Election!TypeOK'
    BY <1>6, <2>1 DEF Election!Resign, Election!Erased
  <2>3. \A d \in Candidate : v3'[d] = "resigning" => v4'[d] = 0
    BY <2>1
  <2>4. ASSUME ~v5', NEW d \in Candidate, v4'[d] > 0
        PROVE  FALSE
    <3>1. ~v5 /\ ~Election!Held(c) /\ v4[d] > 0
      BY <1>6, <2>1, <2>4 DEF Election!Resign
    <3>2. v1 = d /\ v2 # 0 /\ v1 # "none"
      BY <3>1
    <3> QED BY <2>1, <3>1, <3>2
  <2> QED BY <2>2, <2>3, <2>4
<1>7. ASSUME Election!Compact PROVE ElectionHolds'
  BY <1>7 DEF Election!Compact, Election!Erased
<1>8. ASSUME Election!Tick PROVE ElectionHolds'
  BY <1>8 DEF Election!Tick
<1> QED
  BY <1>1, <1>2, <1>3, <1>4, <1>5, <1>6, <1>7, <1>8 DEF Election!Next, Election!Campaign


-----------------------------------------------------------------------------
(* Integrations. *)

LEMMA IntegrationAssumed == Integration!RestartAssumption
BY ServicesAssumption

Born == {Integration!Unborn} \cup
  [life : {"alive", "zombie", "gone"}, count : 0..MaxRestart, recent : BOOLEAN]
Waits == {Integration!Waiting(p, next) : p \in Proc, next \in {"start", "disable"}}
Acting == [Integration!Actor -> {Integration!Idle, Integration!Starting} \cup Waits]
Awaited(p) == \E a \in Integration!Actor : v4[a].at = "wait" /\ v4[a].proc = p

\* The types, and: a process that lives is the manager's or somebody waits for it.
IntegrationHolds ==
  /\ v1 \in Proc \cup {Integration!None} /\ v2 \in [Proc -> Born] /\ v3 \in BOOLEAN
  /\ v4 \in Acting
  /\ \A p \in Proc : v2[p].life = "alive" => p = v1 \/ Awaited(p)

LEMMA IntegrationForm ==
  /\ IntegrationHolds' <=>
       /\ v1' \in Proc \cup {Integration!None} /\ v2' \in [Proc -> Born] /\ v3' \in BOOLEAN
       /\ v4' \in Acting
       /\ \A p \in Proc : v2'[p].life = "alive" => p = v1' \/ Awaited(p)'
  /\ IntegrationHolds => Integration!NoneLost
<1>1. IntegrationHolds => Integration!NoneLost
  BY DEF IntegrationHolds, Integration!NoneLost, Awaited
<1> QED BY <1>1, Zenon DEF IntegrationHolds, Acting, Born

\* What an actor does that waits for a process, or for none.
LEMMA Forms ==
  /\ \A p \in Proc, next \in {"start", "disable"} : Integration!Waiting(p, next) \in Waits
  /\ \A w \in Waits : w.at = "wait" /\ w.proc \in Proc
  /\ Integration!Idle.at # "wait" /\ Integration!Starting.at # "wait"
<1>1. \A p \in Proc, next \in {"start", "disable"} : Integration!Waiting(p, next) \in Waits
  BY SMT DEF Waits
<1>2. ASSUME NEW w \in Waits PROVE w.at = "wait" /\ w.proc \in Proc
  <2>1. PICK p \in Proc, next \in {"start", "disable"} : w = Integration!Waiting(p, next)
    BY SMT DEF Waits
  <2> QED BY <2>1 DEF Integration!Waiting
<1>3. Integration!Idle.at # "wait" /\ Integration!Starting.at # "wait"
  BY DEF Integration!Idle, Integration!Starting
<1> QED BY <1>1, <1>2, <1>3, Zenon

\* It holds at the start, ...
LEMMA IntegrationStarts == Integration!Init => IntegrationHolds
<1> SUFFICES ASSUME Integration!Init PROVE IntegrationHolds
  OBVIOUS
<1> USE IntegrationAssumed DEF Integration!Init, Integration!RestartAssumption, Integration!Unborn,
      Integration!Idle, Integration!Starting, Integration!None
<1>1. v1 \in Proc \cup {Integration!None} /\ v3 \in BOOLEAN
  OBVIOUS
<1>2. v2 \in [Proc -> {Integration!Unborn} \cup
       [life : {"alive", "zombie", "gone"}, count : 0..MaxRestart, recent : BOOLEAN]]
  OBVIOUS
<1>3. v4 \in [Integration!Actor -> {Integration!Idle, Integration!Starting}]
  OBVIOUS
<1>4. \A p \in Proc : v2[p].life = "unborn"
  OBVIOUS
<1> QED BY <1>1, <1>2, <1>3, <1>4 DEF IntegrationHolds, Acting, Born

\* What the manager knows of a process.
Known == [life : {"unborn", "alive", "zombie", "gone"}, count : 0..MaxRestart, recent : BOOLEAN]

LEMMA KnownProcesses ==
  ASSUME IntegrationHolds
  PROVE  v2 \in [Proc -> Born] /\ \A p \in Proc : v2[p] \in Known
<1>1. v2 \in [Proc -> Born]
  BY DEF IntegrationHolds
<1>2. Integration!Unborn \in Known
  BY IntegrationAssumed, SMT DEF Known, Integration!Unborn, Integration!RestartAssumption
<1>3. \A r \in [life : {"alive", "zombie", "gone"}, count : 0..MaxRestart, recent : BOOLEAN] :
        r \in Known
  BY SMT DEF Known
<1> QED BY <1>1, <1>2, <1>3 DEF Born

\* What the steps make of such a record.
LEMMA KnownRecords ==
  ASSUME NEW r \in Known, NEW n, NEW b
  PROVE  /\ [r EXCEPT !.life = "gone"] = [life |-> "gone", count |-> r.count, recent |-> r.recent]
         /\ [r EXCEPT !.life = "zombie"]
              = [life |-> "zombie", count |-> r.count, recent |-> r.recent]
         /\ [r EXCEPT !.recent = b] = [life |-> r.life, count |-> r.count, recent |-> b]
         /\ [life |-> r.life, count |-> n, recent |-> b].life = r.life
<1>5. [r EXCEPT !.recent = b] = [life |-> r.life, count |-> r.count, recent |-> b]
  BY DEF Known
<1>6. [r EXCEPT !.life = "gone"] = [life |-> "gone", count |-> r.count, recent |-> r.recent]
  BY DEF Known
<1>7. [r EXCEPT !.life = "zombie"] = [life |-> "zombie", count |-> r.count, recent |-> r.recent]
  BY DEF Known
<1>8. [life |-> r.life, count |-> n, recent |-> b].life = r.life
  OBVIOUS
<1> QED BY <1>5, <1>6, <1>7, <1>8, Zenon

LEMMA Counted ==
  ASSUME NEW r \in Known, NEW n, NEW b
  PROVE  [r EXCEPT !.count = n, !.recent = b] = [life |-> r.life, count |-> n, recent |-> b]
<1>1. [r EXCEPT !.count = n, !.recent = b] = [[r EXCEPT !.count = n] EXCEPT !.recent = b]
  BY Zenon
<1>2. [r EXCEPT !.count = n] = [life |-> r.life, count |-> n, recent |-> r.recent]
  BY DEF Known
<1>3. [[life |-> r.life, count |-> n, recent |-> r.recent] EXCEPT !.recent = b]
        = [life |-> r.life, count |-> n, recent |-> b]
  BY DEF Known
<1> QED BY <1>1, <1>2, <1>3, Zenon

LEMMA Forgotten ==
  ASSUME NEW r \in Born, NEW b, b = FALSE
  PROVE  [life |-> r.life, count |-> r.count, recent |-> b] \in Born
<1>1. CASE r = Integration!Unborn
  BY <1>1 DEF Integration!Unborn, Born
<1>2. CASE r # Integration!Unborn
  BY <1>2 DEF Born
<1> QED BY <1>1, <1>2

\* A process whose record is replaced by one of a process that was born.
LEMMA Replaced ==
  ASSUME IntegrationHolds, NEW p \in Proc, NEW life \in {"alive", "zombie", "gone"},
         NEW n \in 0..MaxRestart, NEW b \in BOOLEAN,
         v2' = [v2 EXCEPT ![p] = [life |-> life, count |-> n, recent |-> b]]
  PROVE  /\ v2' \in [Proc -> Born]
         /\ v2'[p].life = life
         /\ \A q \in Proc : q # p => v2'[q] = v2[q]
<1>1. [life |-> life, count |-> n, recent |-> b] \in Born
  BY DEF Born
<1> QED BY <1>1, KnownProcesses

\* Telling the process to end keeps the types, and somebody waits for it.
LEMMA Halting ==
  ASSUME IntegrationHolds, NEW a \in Integration!Actor, v4[a] = Integration!Idle,
         NEW next \in {"start", "disable"}, Integration!Halt(a, next)
  PROVE  /\ v1' \in Proc \cup {Integration!None} /\ v4' \in Acting
         /\ \A p \in Proc : p = v1 \/ Awaited(p) => Awaited(p)'
<1>1. v1' = Integration!None /\ v4 \in Acting /\ v1 \in Proc \cup {Integration!None}
  BY DEF IntegrationHolds, Integration!Halt
<1>2. CASE v1 = Integration!None
  <2> DEFINE new == IF next = "start" THEN Integration!Starting ELSE Integration!Idle
  <2>1. v4' = [v4 EXCEPT ![a] = new] /\ v1 \notin Proc
    BY <1>2, IntegrationAssumed DEF Integration!Halt, Integration!RestartAssumption
  <2>2. \A b \in Integration!Actor : v4[b].at = "wait" => b # a /\ v4'[b] = v4[b]
    BY <1>1, <2>1, Forms DEF Acting
  <2>3. v4' \in Acting
    BY <1>1, <2>1 DEF Acting
  <2> QED BY <1>1, <2>1, <2>2, <2>3 DEF Awaited
<1>3. CASE v1 # Integration!None
  <2>1. v4' = [v4 EXCEPT ![a] = Integration!Waiting(v1, next)] /\ v1 \in Proc
    BY <1>1, <1>3 DEF Integration!Halt
  <2>2. v4'[a] = Integration!Waiting(v1, next)
    BY <1>1, <2>1 DEF Acting
  <2>3. v4'[a].at = "wait" /\ v4'[a].proc = v1
    BY <2>2 DEF Integration!Waiting
  <2>4. \A b \in Integration!Actor : v4[b].at = "wait" => b # a /\ v4'[b] = v4[b]
    BY <1>1, <2>1, Forms DEF Acting
  <2>5. v4' \in Acting
    BY <1>1, <2>1, Forms DEF Acting
  <2> QED BY <1>1, <2>3, <2>4, <2>5 DEF Awaited
<1> QED BY <1>2, <1>3

\* ... and every step keeps it.
LEMMA IntegrationKeeps == IntegrationHolds /\ Integration!Next => IntegrationHolds'
<1> SUFFICES ASSUME IntegrationHolds, Integration!Next PROVE IntegrationHolds'
  OBVIOUS
<1>0. /\ v1 \in Proc \cup {Integration!None} /\ v2 \in [Proc -> Born] /\ v3 \in BOOLEAN
      /\ v4 \in Acting
      /\ \A p \in Proc : v2[p].life = "alive" => p = v1 \/ Awaited(p)
  BY DEF IntegrationHolds
\* An actor that was not waiting and does not wait now makes no difference.
<1>a. ASSUME NEW a \in Integration!Actor, v4[a] \in {Integration!Idle, Integration!Starting},
             NEW new \in {Integration!Idle, Integration!Starting}, v4' = [v4 EXCEPT ![a] = new]
      PROVE  v4' \in Acting /\ \A p \in Proc : Awaited(p) => Awaited(p)'
  <2>1. v4' \in Acting /\ \A b \in Integration!Actor : b # a => v4'[b] = v4[b]
    BY <1>0, <1>a DEF Acting
  <2>2. \A b \in Integration!Actor : v4[b].at = "wait" => b # a
    BY <1>a, Forms
  <2> QED BY <2>1, <2>2 DEF Awaited
<1>1. ASSUME NEW a \in Integration!Actor, Integration!Keep(a) \/ Integration!Fail(a)
      PROVE  IntegrationHolds'
  <2>1. v1' = v1 /\ v2' = v2 /\ v3' = v3 /\ v4[a] = Integration!Starting
        /\ v4' = [v4 EXCEPT ![a] = Integration!Idle]
    BY <1>1 DEF Integration!Keep, Integration!Fail
  <2> QED BY <1>0, <1>a, <2>1, IntegrationForm
<1>3. ASSUME NEW a \in Integration!Actor, Integration!Reap(a) PROVE IntegrationHolds'
  <2> DEFINE p == v4[a].proc
  <2>1. v4[a] \in Waits /\ v4[a].at = "wait" /\ p \in Proc
    BY <1>0, <1>3, Forms DEF Integration!Reap, Acting
  <2> HIDE DEF p
  <2>2. v2[p] \in Known
    BY <2>1, KnownProcesses
  <2>3. v2' = [v2 EXCEPT ![p] = [life |-> "gone", count |-> v2[p].count,
                                 recent |-> v2[p].recent]]
    <3>1. v2' = [v2 EXCEPT ![p] = [v2[p] EXCEPT !.life = "gone"]]
      BY <1>3, <2>1, Zenon DEF Integration!Reap, p
    <3> QED BY <2>2, <3>1, KnownRecords, Zenon
  <2>4. /\ v2' \in [Proc -> Born] /\ v2'[p].life = "gone"
        /\ \A q \in Proc : q # p => v2'[q] = v2[q]
    <3>1. v2[p].count \in 0..MaxRestart /\ v2[p].recent \in BOOLEAN
      BY <2>2 DEF Known
    <3> QED BY <2>1, <2>3, <3>1, Replaced
  <2>5. /\ v1' = v1 /\ v3' \in BOOLEAN
        /\ \E new \in {Integration!Idle, Integration!Starting} : v4' = [v4 EXCEPT ![a] = new]
    BY <1>0, <1>3 DEF Integration!Reap
  <2>6. v4' \in Acting /\ \A b \in Integration!Actor : b # a => v4'[b] = v4[b]
    BY <1>0, <2>5 DEF Acting
  <2>7. ASSUME NEW q \in Proc, v2'[q].life = "alive" PROVE q = v1' \/ Awaited(q)'
    <3>1. q # p /\ v2[q].life = "alive"
      BY <2>1, <2>4, <2>7
    <3>2. Awaited(q) => Awaited(q)'
      BY <2>6, <3>1 DEF Awaited, p
    <3> QED BY <1>0, <2>5, <3>1, <3>2
  <2> QED BY <1>0, <2>4, <2>5, <2>6, <2>7, IntegrationForm
<1>4. ASSUME NEW a \in Integration!Actor, NEW p \in Proc, Integration!Spawn(a, p)
      PROVE  IntegrationHolds'
  <2>1. /\ v2' = [v2 EXCEPT ![p] = [life |-> "alive", count |-> 0, recent |-> TRUE]]
        /\ v1' = p /\ v3' = TRUE
        /\ v4' = [v4 EXCEPT ![a] = Integration!Idle] /\ v4[a] = Integration!Starting
    BY <1>4 DEF Integration!Spawn
  <2>2. v2' \in [Proc -> Born] /\ \A q \in Proc : q # p => v2'[q] = v2[q]
    <3>1. 0 \in 0..MaxRestart
      BY IntegrationAssumed DEF Integration!RestartAssumption
    <3> QED BY <2>1, <3>1, Replaced
  <2>3. ASSUME NEW q \in Proc, v2'[q].life = "alive", q # p PROVE Awaited(q)'
    <3>1. v2[q].life = "alive"
      BY <2>2, <2>3
    <3>2. q # v1
      BY <1>4, <3>1, IntegrationAssumed
      DEF Integration!Spawn, Integration!Up, Integration!Running, Integration!RestartAssumption
    <3> QED BY <1>0, <1>a, <2>1, <2>3, <3>1, <3>2
  <2> QED BY <1>0, <1>a, <2>1, <2>2, <2>3, IntegrationForm
<1>5. ASSUME NEW c \in Caller, Integration!Enable(c) PROVE IntegrationHolds'
  <2>1. v1' = v1 /\ v2' = v2 /\ v3' = TRUE /\ v4[c] = Integration!Idle
        /\ v4' = [v4 EXCEPT ![c] = Integration!Starting] /\ c \in Integration!Actor
    BY <1>5 DEF Integration!Enable, Integration!Actor
  <2> QED BY <1>0, <1>a, <2>1, IntegrationForm
<1>6. ASSUME NEW c \in Caller, Integration!Disable(c) \/ Integration!Upgrade(c)
      PROVE  IntegrationHolds'
  <2>1. /\ v4[c] = Integration!Idle /\ v2' = v2 /\ v3' \in BOOLEAN /\ c \in Integration!Actor
        /\ \E next \in {"start", "disable"} : Integration!Halt(c, next)
    BY <1>0, <1>6 DEF Integration!Disable, Integration!Upgrade, Integration!Actor
  <2> QED BY <1>0, <2>1, Halting, IntegrationForm
<1>8. ASSUME NEW p \in Proc, Integration!Exit(p) PROVE IntegrationHolds'
  <2>1. v2' = [v2 EXCEPT ![p] = [life |-> "zombie", count |-> v2[p].count,
                                 recent |-> v2[p].recent]]
    <3>1. v2' = [v2 EXCEPT ![p] = [v2[p] EXCEPT !.life = "zombie"]]
      BY <1>8, Zenon DEF Integration!Exit
    <3> QED BY <3>1, KnownProcesses, KnownRecords, Zenon
  <2>2. /\ v2' \in [Proc -> Born] /\ v2'[p].life = "zombie"
        /\ \A q \in Proc : q # p => v2'[q] = v2[q]
    <3>1. v2[p].count \in 0..MaxRestart /\ v2[p].recent \in BOOLEAN
      BY KnownProcesses DEF Known
    <3> QED BY <2>1, <3>1, Replaced
  <2>3. v1' = v1 /\ v3' = v3 /\ v4' = v4
    BY <1>8 DEF Integration!Exit
  <2>4. \A q \in Proc : v2'[q].life = "alive" => v2[q].life = "alive"
    BY <2>2
  <2> QED BY <1>0, <2>2, <2>3, <2>4, IntegrationForm DEF Awaited
<1>9. ASSUME NEW p \in Proc, Integration!Dog(p) PROVE IntegrationHolds'
  <2> DEFINE n == IF v2[p].count < MaxRestart THEN v2[p].count + 1 ELSE v2[p].count
  <2>1. v2[p].life = "gone" /\ v2[p] \in Known
    BY <1>9, KnownProcesses DEF Integration!Dog
  <2>2. n \in 0..MaxRestart
    BY <2>1, IntegrationAssumed DEF Known, Integration!RestartAssumption
  <2>3. v2' = [v2 EXCEPT ![p] = [v2[p] EXCEPT !.count = n, !.recent = TRUE]]
    BY <1>9, Zenon DEF Integration!Dog
  <2> HIDE DEF n
  <2>4. v2' = [v2 EXCEPT ![p] = [life |-> v2[p].life, count |-> n, recent |-> TRUE]]
    <3>1. ASSUME NEW b
          PROVE  [v2[p] EXCEPT !.count = n, !.recent = b]
                   = [life |-> v2[p].life, count |-> n, recent |-> b]
      BY <2>1, Counted, Zenon
    <3> QED BY <2>3, <3>1, Zenon
  <2>5. v2' \in [Proc -> Born] /\ \A q \in Proc : v2'[q].life = v2[q].life
    <3>1. v2'[p].life = v2[p].life /\ v2' \in [Proc -> Born]
      BY <2>1, <2>2, <2>4, Replaced
    <3>2. \A q \in Proc : q # p => v2'[q] = v2[q]
      BY <2>1, <2>2, <2>4, Replaced
    <3> QED BY <3>1, <3>2
  <2>6. Integration!Halt(p, "start") /\ v4[p] = Integration!Idle /\ v3' = v3
        /\ p \in Integration!Actor
    BY <1>9 DEF Integration!Dog, Integration!Actor
  <2> QED BY <1>0, <2>5, <2>6, Halting, IntegrationForm
<1>10. CASE Integration!Hour
  <2>1. v2' = [p \in Proc |-> [v2[p] EXCEPT !.recent = FALSE]]
    BY <1>10 DEF Integration!Hour
  <2>2. ASSUME NEW p \in Proc
        PROVE  v2'[p] = [life |-> v2[p].life, count |-> v2[p].count, recent |-> FALSE]
    <3>1. v2'[p] = [v2[p] EXCEPT !.recent = FALSE]
      BY <2>1, Zenon
    <3> QED BY <3>1, KnownProcesses, KnownRecords, Zenon
  <2>3. ASSUME NEW p \in Proc PROVE v2'[p] \in Born /\ v2'[p].life = v2[p].life
    <3>1. v2[p] \in Born /\ v2[p] \in Known
      BY KnownProcesses
    <3>2. v2'[p].life = v2[p].life
      <4>1. ASSUME NEW b
            PROVE  [life |-> v2[p].life, count |-> v2[p].count, recent |-> b].life = v2[p].life
        OBVIOUS
      <4> QED BY <2>2, <4>1, Zenon
    <3> QED BY <2>2, <3>1, <3>2, Forgotten, Zenon
  <2>4. v1' = v1 /\ v3' = v3 /\ v4' = v4
    BY <1>10 DEF Integration!Hour
  <2>5. v2' \in [Proc -> Born]
    BY <2>1, <2>3
  <2> QED BY <1>0, <2>3, <2>4, <2>5, IntegrationForm DEF Awaited
<1> QED
  BY <1>1, <1>3, <1>4, <1>5, <1>6, <1>8, <1>9, <1>10
  DEF Integration!Next, Integration!Work

-----------------------------------------------------------------------------
(* The white lists. *)

LEMMA ListsAssumed == Lists!KindAssumption
BY ServicesAssumption

\* Besides the list in force, the audit records have named the one that the next reload
\* compares with, and the one that the next start compares with.
ListsHold ==
  /\ Lists!TypeOK
  /\ Lists!AllNamed
  /\ v1 => \A k \in Kind : v4[k] \in v6[k] \cup {Lists!NoList} \/ k \in v7
  /\ \A k \in Kind : v5[k] \in v6[k] \cup {Lists!NoList} \/ k \in v7

\* It holds at the start, ...
LEMMA ListsStart == Lists!Init => ListsHold
<1> SUFFICES ASSUME Lists!Init PROVE ListsHold
  OBVIOUS
<1> USE ListsAssumed
    DEF Lists!Init, Lists!KindAssumption, Lists!Partial, Lists!Lists, Lists!NoFile
<1>1. /\ v1 \in BOOLEAN /\ v2 \in Lists!Lists /\ v3 \in Lists!Lists
      /\ v4 \in Lists!Partial /\ v5 \in Lists!Partial
  OBVIOUS
<1>2. v6 \in [Kind -> SUBSET Value] /\ v7 \subseteq Kind
  OBVIOUS
<1>3. Lists!TypeOK
  BY <1>1, <1>2, Zenon DEF Lists!TypeOK
<1>4. ~v1 /\ \A k \in Kind : v5[k] \in v6[k] \cup {Lists!NoList}
  OBVIOUS
<1> QED BY <1>3, <1>4 DEF ListsHold, Lists!AllNamed

\* ... and every step keeps it.
LEMMA ListsKeep == ListsHold /\ Lists!Next => ListsHold'
<1> SUFFICES ASSUME ListsHold, Lists!Next PROVE ListsHold'
  OBVIOUS
<1> USE ListsAssumed
    DEF ListsHold, Lists!TypeOK, Lists!AllNamed, Lists!KindAssumption, Lists!Partial,
        Lists!Lists, Lists!NoFile, Lists!Persist
<1>1. CASE Lists!Bootstrap
  BY <1>1 DEF Lists!Bootstrap, Lists!Naming
<1>2. CASE Lists!Start
  BY <1>2 DEF Lists!Start, Lists!RolledBack
<1>3. CASE Lists!Reload
  BY <1>3 DEF Lists!Reload, Lists!Differs
<1>4. ASSUME NEW k \in Kind, NEW v \in Value, Lists!Set(k, v) PROVE ListsHold'
  BY <1>4 DEF Lists!Set
<1>5. ASSUME NEW k \in Kind, NEW v \in Value, Lists!Edit(k, v) PROVE ListsHold'
  BY <1>5 DEF Lists!Edit
<1>6. CASE Lists!Stop
  BY <1>6 DEF Lists!Stop
<1> QED
  BY <1>1, <1>2, <1>3, <1>4, <1>5, <1>6 DEF Lists!Next

-----------------------------------------------------------------------------
(* The rate limiter. *)

LEMMA LimitAssumed == Limiter!QuotaAssumption /\ Limiter!TimeAssumption
BY ServicesAssumption


\* Who asks a bucket of a class or of a user has such a class or such a user.
Asks(r) ==
  /\ r # Limiter!Idle /\ r.at # "iptotal" => r.cls \in Class
  /\ r # Limiter!Idle /\ r.at = "key" => r.user \in Client
AskersKnown == \A h \in Server : Asks(v2[h])

\* What a bucket gave and what it has fit together.
Conserved ==
  \A k \in Limiter!Key :
    v3[k] + Limiter!Level(v1[k], MaxQuota) <= MaxQuota * Minute

LimitHolds == Limiter!TypeOK /\ AskersKnown /\ Conserved

\* A smaller quota fills less.
LEMMA Smaller ==
  ASSUME NEW m \in Nat, NEW q \in Nat, NEW top \in Nat, q <= top
  PROVE  m * q <= m * top /\ q * m <= top * m /\ m * q \in Nat /\ q * m \in Nat
OBVIOUS

\* What a bucket has is between nothing and a full one, and no more at a smaller quota.
LEMMA Levels ==
  ASSUME Limiter!QuotaAssumption, Limiter!TimeAssumption,
         NEW b \in Limiter!Bucket \cup {Limiter!Absent}, NEW q \in 1..MaxQuota
  PROVE  /\ Limiter!Level(b, q) \in 0..(MaxQuota * Minute)
         /\ Limiter!Level(b, q) <= Limiter!Level(b, MaxQuota)
<1>1. /\ q * Minute <= MaxQuota * Minute
      /\ q * Minute \in Nat /\ MaxQuota * Minute \in Nat
  BY Smaller DEF Limiter!QuotaAssumption, Limiter!TimeAssumption
<1>2. CASE b = Limiter!Absent
  BY <1>1, <1>2 DEF Limiter!Level
<1>3. CASE b # Limiter!Absent
  <2>1. b.tokens \in Nat /\ b.idle \in Nat
    BY <1>1, <1>3, b \in Limiter!Bucket DEF Limiter!Bucket, Limiter!TimeAssumption
  <2>2. b.idle * q <= b.idle * MaxQuota /\ b.idle * q \in Nat /\ b.idle * MaxQuota \in Nat
    BY <2>1, Smaller DEF Limiter!QuotaAssumption
  <2>3. /\ Limiter!Level(b, q) = Limiter!Least(b.tokens + b.idle * q, q * Minute)
        /\ Limiter!Level(b, MaxQuota)
               = Limiter!Least(b.tokens + b.idle * MaxQuota, MaxQuota * Minute)
    BY <1>3 DEF Limiter!Level
  <2>4. QED BY <1>1, <2>1, <2>2, <2>3 DEF Limiter!Least
<1>4. QED BY <1>2, <1>3

\* A bucket just used has what it was left with.
LEMMA JustUsed ==
  ASSUME Limiter!QuotaAssumption, Limiter!TimeAssumption, NEW n \in 0..(MaxQuota * Minute)
  PROVE  /\ [tokens |-> n, idle |-> 0] \in Limiter!Bucket
         /\ Limiter!Level([tokens |-> n, idle |-> 0], MaxQuota) = n
<1> DEFINE b == [tokens |-> n, idle |-> 0]
<1>1. MaxQuota * Minute \in Nat
  BY Smaller DEF Limiter!QuotaAssumption, Limiter!TimeAssumption
<1>2. b \in Limiter!Bucket /\ b # Limiter!Absent /\ b.tokens = n /\ b.idle = 0
  BY <1>1 DEF Limiter!Bucket, Limiter!Absent, Limiter!TimeAssumption
<1>3. 0 * MaxQuota = 0
  BY DEF Limiter!QuotaAssumption
<1>4. Limiter!Level(b, MaxQuota) = Limiter!Least(n + 0, MaxQuota * Minute)
  BY <1>2, <1>3 DEF Limiter!Level
<1>5. QED BY <1>1, <1>2, <1>4 DEF Limiter!Least

\* A bucket that a sweep removes is full.
LEMMA StaleIsFull ==
  ASSUME Limiter!QuotaAssumption, Limiter!TimeAssumption, NEW b \in Limiter!Bucket, Limiter!Stale(b)
  PROVE  Limiter!Level(b, MaxQuota) = MaxQuota * Minute
<1>1. /\ b.idle \in Nat /\ b.tokens \in Nat /\ Minute <= b.idle /\ b # Limiter!Absent
      /\ MaxQuota \in Nat /\ Minute \in Nat
  <2>1. MaxQuota * Minute \in Nat
    BY Smaller DEF Limiter!QuotaAssumption, Limiter!TimeAssumption
  <2>2. QED BY <2>1
    DEF Limiter!Bucket, Limiter!Stale, Limiter!TimeAssumption, Limiter!QuotaAssumption
<1>2. MaxQuota * Minute <= MaxQuota * b.idle
  BY <1>1, Smaller
<1>3. /\ MaxQuota * Minute \in Nat /\ b.idle * MaxQuota = MaxQuota * b.idle
      /\ MaxQuota * b.idle \in Nat
  BY <1>1, Smaller
<1>4. Limiter!Level(b, MaxQuota)
       = Limiter!Least(b.tokens + b.idle * MaxQuota, MaxQuota * Minute)
  BY <1>1 DEF Limiter!Level
<1>5. QED BY <1>1, <1>2, <1>3, <1>4 DEF Limiter!Least

\* Every step but a refusal, a grant or the passing of time leaves meters and levels alone.
LEMMA Sweeping ==
  ASSUME Limiter!QuotaAssumption, Limiter!TimeAssumption,
         NEW buckets \in [Limiter!Key -> Limiter!Bucket \cup {Limiter!Absent}]
  PROVE  /\ Limiter!Swept(buckets) \in [Limiter!Key -> Limiter!Bucket \cup {Limiter!Absent}]
         /\ \A k \in Limiter!Key : Limiter!Level(Limiter!Swept(buckets)[k], MaxQuota)
                = Limiter!Level(buckets[k], MaxQuota)
<1>1. Limiter!Swept(buckets) \in [Limiter!Key -> Limiter!Bucket \cup {Limiter!Absent}]
  BY DEF Limiter!Swept
<1>2. ASSUME NEW k \in Limiter!Key
      PROVE  Limiter!Level(Limiter!Swept(buckets)[k], MaxQuota)
             = Limiter!Level(buckets[k], MaxQuota)
  <2>1. CASE Limiter!Stale(buckets[k])
    <3>1. Limiter!Swept(buckets)[k] = Limiter!Absent
      BY <2>1 DEF Limiter!Swept
    <3>2. buckets[k] \in Limiter!Bucket
      BY <2>1 DEF Limiter!Stale
    <3>3. QED BY <2>1, <3>1, <3>2, StaleIsFull DEF Limiter!Level
  <2>2. CASE ~Limiter!Stale(buckets[k])
    BY <2>2 DEF Limiter!Swept
  <2>3. QED BY <2>1, <2>2
<1>3. QED BY <1>1, <1>2

\* A request asks a bucket that there may be, at a quota in force.
LEMMA AskedKnown ==
  ASSUME Limiter!QuotaAssumption, LimitHolds, NEW h \in Server, v2[h] # Limiter!Idle
  PROVE  /\ Limiter!KeyOf(v2[h]) \in Limiter!Key
         /\ Limiter!QuotaOf(v2[h]) \in 1..MaxQuota
         /\ Limiter!Later(v2[h]) \in Limiter!Request \cup {Limiter!Idle}
         /\ Limiter!Later(v2[h]) # Limiter!Idle =>
              /\ Limiter!Later(v2[h]).at # "iptotal" => Limiter!Later(v2[h]).cls \in Class
              /\ Limiter!Later(v2[h]).at = "key" => Limiter!Later(v2[h]).user \in Client
<1> DEFINE r == v2[h]
<1>1. /\ r \in Limiter!Request
      /\ r.at # "iptotal" => r.cls \in Class
      /\ r.at = "key" => r.user \in Client
  BY DEF LimitHolds, Limiter!TypeOK, AskersKnown, Asks
<1>2. Limiter!QuotaOf(r) \in 1..MaxQuota
  BY <1>1 DEF Limiter!QuotaOf, Limiter!Request, Limiter!QuotaAssumption
<1>3. CASE r.at = "ip"
  <2>1. Limiter!KeyOf(r) \in Limiter!Key
    BY <1>1, <1>3 DEF Limiter!KeyOf, Limiter!Key, Limiter!Request
  <2>2. CASE r.user # Limiter!Anybody
    <3>1. Limiter!Later(r) = [r EXCEPT !.at = "key"]
      BY <1>3, <2>2 DEF Limiter!Later
    <3>2. r.user \in Client /\ r.cls \in Class
      BY <1>1, <1>3, <2>2 DEF Limiter!Request
    <3>3. /\ Limiter!Later(r) \in Limiter!Request /\ Limiter!Later(r).at = "key"
          /\ Limiter!Later(r).user = r.user /\ Limiter!Later(r).cls = r.cls
      BY <1>1, <3>1 DEF Limiter!Request
    <3>4. QED BY <1>2, <2>1, <3>2, <3>3
  <2>3. CASE r.user = Limiter!Anybody
    <3>1. Limiter!Later(r) = [r EXCEPT !.at = "iptotal"]
      BY <1>3, <2>3 DEF Limiter!Later
    <3>2. Limiter!Later(r) \in Limiter!Request /\ Limiter!Later(r).at = "iptotal"
      BY <1>1, <3>1 DEF Limiter!Request
    <3>3. QED BY <1>2, <2>1, <3>2
  <2>4. QED BY <2>2, <2>3
<1>4. CASE r.at = "key"
  <2>1. Limiter!KeyOf(r) \in Limiter!Key
    BY <1>1, <1>4 DEF Limiter!KeyOf, Limiter!Key, Limiter!Request
  <2>2. Limiter!Later(r) = [r EXCEPT !.at = "iptotal"]
    BY <1>4 DEF Limiter!Later
  <2>3. Limiter!Later(r) \in Limiter!Request /\ Limiter!Later(r).at = "iptotal"
    BY <1>1, <2>2 DEF Limiter!Request
  <2>4. QED BY <1>2, <2>1, <2>3
<1>5. CASE r.at = "iptotal"
  <2>1. Limiter!KeyOf(r) \in Limiter!Key
    <3>1. Limiter!KeyOf(r) = [dim |-> "iptotal", id |-> r.addr, cls |-> Limiter!Whole]
      BY <1>5 DEF Limiter!KeyOf
    <3>2. QED BY <1>1, <3>1 DEF Limiter!Key, Limiter!Request
  <2>2. Limiter!Later(r) = Limiter!Idle
    BY <1>5 DEF Limiter!Later
  <2>3. QED BY <1>2, <2>1, <2>2
<1>6. QED BY <1>1, <1>3, <1>4, <1>5 DEF Limiter!Request

\* Whether a bucket gives or refuses, what it gave and what it has fit together.
LEMMA TakeConserves ==
  ASSUME Limiter!QuotaAssumption, Limiter!TimeAssumption, LimitHolds,
         NEW k \in Limiter!Key, NEW q \in 1..MaxQuota, Limiter!Take(k, q)
  PROVE  /\ v1' \in [Limiter!Key -> Limiter!Bucket \cup {Limiter!Absent}]
         /\ v3' \in [Limiter!Key -> Nat]
         /\ Conserved'
<1> DEFINE has == Limiter!Level(v1[k], q)
           left(n) == [tokens |-> n, idle |-> 0]
<1>1. /\ v1 \in [Limiter!Key -> Limiter!Bucket \cup {Limiter!Absent}]
      /\ v3 \in [Limiter!Key -> Nat]
      /\ \A j \in Limiter!Key : v3[j] + Limiter!Level(v1[j], MaxQuota) <= MaxQuota * Minute
      /\ MaxQuota * Minute \in Nat /\ Minute \in Nat \ {0} /\ MaxQuota \in 1..MaxQuota
  <2>1. MaxQuota * Minute \in Nat
    BY Smaller DEF Limiter!QuotaAssumption, Limiter!TimeAssumption
  <2>2. QED BY <2>1
    DEF LimitHolds, Limiter!TypeOK, Conserved, Limiter!QuotaAssumption, Limiter!TimeAssumption
<1>2. has \in 0..(MaxQuota * Minute) /\ has <= Limiter!Level(v1[k], MaxQuota)
      /\ Limiter!Level(v1[k], MaxQuota) \in 0..(MaxQuota * Minute)
  BY <1>1, Levels
<1>3. CASE Limiter!Grants(k, q)
  <2>1. has >= Minute /\ has - Minute \in 0..(MaxQuota * Minute)
    BY <1>1, <1>2, <1>3 DEF Limiter!Grants
  <2>2. /\ left(has - Minute) \in Limiter!Bucket
        /\ Limiter!Level(left(has - Minute), MaxQuota) = has - Minute
    BY <2>1, JustUsed
  <2>3. v1' = [v1 EXCEPT ![k] = left(has - Minute)]
        /\ v3' = [v3 EXCEPT ![k] = @ + Minute]
    BY <1>3 DEF Limiter!Take, Limiter!Taken
  <2> HIDE DEF has, left
  <2>4. /\ v1' \in [Limiter!Key -> Limiter!Bucket \cup {Limiter!Absent}]
        /\ v3' \in [Limiter!Key -> Nat]
    BY <1>1, <2>2, <2>3
  <2>5. ASSUME NEW j \in Limiter!Key
        PROVE  v3'[j] + Limiter!Level(v1'[j], MaxQuota) <= MaxQuota * Minute
    <3>1. CASE j = k
      <4>1. v1'[k] = left(has - Minute) /\ v3'[k] = v3[k] + Minute
        BY <1>1, <2>3
      <4>2. v3[k] \in Nat /\ v3[k] + Limiter!Level(v1[k], MaxQuota) <= MaxQuota * Minute
        BY <1>1
      <4>3. QED BY <1>1, <1>2, <2>2, <3>1, <4>1, <4>2
    <3>2. CASE j # k
      BY <1>1, <2>3, <3>2
    <3>3. QED BY <3>1, <3>2
  <2>6. QED BY <2>4, <2>5 DEF Conserved
<1>4. CASE ~Limiter!Grants(k, q)
  <2> DEFINE used == [v1 EXCEPT ![k] = left(has)]
  <2>1. left(has) \in Limiter!Bucket /\ Limiter!Level(left(has), MaxQuota) = has
    BY <1>2, JustUsed
  <2>2. v3' = v3 /\ (v1' = used \/ v1' = Limiter!Swept(used))
    BY <1>4 DEF Limiter!Take, Limiter!Refused
  <2> HIDE DEF has, left
  <2>3. used \in [Limiter!Key -> Limiter!Bucket \cup {Limiter!Absent}]
    BY <1>1, <2>1
  <2>4. ASSUME NEW j \in Limiter!Key
        PROVE  v3[j] + Limiter!Level(used[j], MaxQuota) <= MaxQuota * Minute
    <3>1. CASE j = k
      <4>1. used[k] = left(has)
        BY <1>1
      <4>2. v3[k] \in Nat /\ v3[k] + Limiter!Level(v1[k], MaxQuota) <= MaxQuota * Minute
        BY <1>1
      <4>3. QED BY <1>1, <1>2, <2>1, <3>1, <4>1, <4>2
    <3>2. CASE j # k
      BY <1>1, <3>2
    <3>3. QED BY <3>1, <3>2
  <2> HIDE DEF used
  <2>5. /\ Limiter!Swept(used) \in [Limiter!Key -> Limiter!Bucket \cup {Limiter!Absent}]
        /\ \A j \in Limiter!Key : Limiter!Level(Limiter!Swept(used)[j], MaxQuota)
               = Limiter!Level(used[j], MaxQuota)
    BY <2>3, Sweeping
  <2>6. QED BY <1>1, <2>2, <2>3, <2>4, <2>5 DEF Conserved
<1>5. QED BY <1>3, <1>4

\* While time passes a bucket gains no more than its meter leaks.
LEMMA TickConserves ==
  ASSUME Limiter!QuotaAssumption, Limiter!TimeAssumption, LimitHolds, Limiter!Tick
  PROVE  /\ v1' \in [Limiter!Key -> Limiter!Bucket \cup {Limiter!Absent}]
         /\ v3' \in [Limiter!Key -> Nat]
         /\ Conserved'
<1>1. /\ v1 \in [Limiter!Key -> Limiter!Bucket \cup {Limiter!Absent}]
      /\ v3 \in [Limiter!Key -> Nat]
      /\ \A j \in Limiter!Key : v3[j] + Limiter!Level(v1[j], MaxQuota) <= MaxQuota * Minute
      /\ MaxQuota * Minute \in Nat /\ MaxQuota \in Nat \ {0} /\ MaxQuota \in 1..MaxQuota
      /\ SweepAge \in Nat
  <2>1. MaxQuota * Minute \in Nat
    BY Smaller DEF Limiter!QuotaAssumption, Limiter!TimeAssumption
  <2>2. QED BY <2>1
    DEF LimitHolds, Limiter!TypeOK, Conserved, Limiter!QuotaAssumption, Limiter!TimeAssumption
<1>2. ASSUME NEW k \in Limiter!Key
      PROVE  /\ v1'[k] \in Limiter!Bucket \cup {Limiter!Absent}
             /\ v3'[k] \in Nat
             /\ v3'[k] + Limiter!Level(v1'[k], MaxQuota) <= MaxQuota * Minute
  <2>1. /\ v3'[k] = Limiter!Above(v3[k], MaxQuota)
        /\ v3'[k] \in Nat /\ v3[k] \in Nat
        /\ v3'[k] + MaxQuota = v3[k] \/ v3'[k] = 0
    BY <1>1 DEF Limiter!Tick, Limiter!Above
  <2>2. CASE v1[k] = Limiter!Absent
    <3>1. v1'[k] = Limiter!Absent
      BY <2>2 DEF Limiter!Tick
    <3>2. Limiter!Level(Limiter!Absent, MaxQuota) = MaxQuota * Minute
      BY DEF Limiter!Level
    <3>3. QED BY <1>1, <2>1, <2>2, <3>1, <3>2
  <2>3. CASE v1[k] # Limiter!Absent
    <3>1. /\ v1[k] \in Limiter!Bucket
          /\ v1[k].idle \in Nat /\ v1[k].idle <= SweepAge + 1
          /\ v1[k].tokens \in Nat
      BY <1>1, <2>3 DEF Limiter!Bucket
    <3> DEFINE b == v1[k]
               idle == Limiter!Least(b.idle + 1, SweepAge + 1)
               c == [b EXCEPT !.idle = idle]
    <3>2. idle \in 0..(SweepAge + 1) /\ idle <= b.idle + 1
      BY <1>1, <3>1 DEF Limiter!Least
    <3>3. v1'[k] = c
      BY <2>3 DEF Limiter!Tick
    <3>4. c \in Limiter!Bucket /\ c.idle = idle /\ c.tokens = b.tokens /\ c # Limiter!Absent
      BY <1>1, <3>1, <3>2 DEF Limiter!Bucket, Limiter!Absent
    <3>5. /\ idle * MaxQuota <= (b.idle + 1) * MaxQuota
          /\ (b.idle + 1) * MaxQuota = b.idle * MaxQuota + MaxQuota
          /\ idle * MaxQuota \in Nat /\ b.idle * MaxQuota \in Nat
      <4>1. idle \in Nat /\ b.idle + 1 \in Nat
        BY <1>1, <3>1, <3>2
      <4>2. QED BY <1>1, <3>1, <3>2, <4>1, Smaller
    <3>6. /\ Limiter!Level(c, MaxQuota)
           = Limiter!Least(b.tokens + idle * MaxQuota, MaxQuota * Minute)
          /\ Limiter!Level(b, MaxQuota)
                 = Limiter!Least(b.tokens + b.idle * MaxQuota, MaxQuota * Minute)
      BY <2>3, <3>4 DEF Limiter!Level
    <3>7. /\ Limiter!Level(c, MaxQuota) <= MaxQuota * Minute /\ Limiter!Level(c, MaxQuota) \in Nat
          /\ Limiter!Level(c, MaxQuota) <= Limiter!Level(b, MaxQuota) + MaxQuota
          /\ Limiter!Level(b, MaxQuota) \in Nat
      <4> HIDE DEF idle, c, b
      <4>1. b.tokens \in Nat
        BY <3>1 DEF b
      <4>2. QED BY <1>1, <3>5, <3>6, <4>1 DEF Limiter!Least
    <3>8. v3[k] + Limiter!Level(b, MaxQuota) <= MaxQuota * Minute
      BY <1>1
    <3> HIDE DEF idle, c, b
    <3>9. QED BY <1>1, <2>1, <3>3, <3>4, <3>7, <3>8
  <2>4. QED BY <2>2, <2>3
<1>3. v1' = [k \in Limiter!Key |-> v1'[k]] /\ v3' = [k \in Limiter!Key |-> v3'[k]]
  BY DEF Limiter!Tick
<1>4. QED BY <1>2, <1>3 DEF Conserved

LEMMA LimitStarts ==
  ASSUME Limiter!QuotaAssumption, Limiter!TimeAssumption, Limiter!Init
  PROVE  LimitHolds
<1>1. MaxQuota * Minute \in Nat
  BY Smaller DEF Limiter!QuotaAssumption, Limiter!TimeAssumption
<1>2. Limiter!Level(Limiter!Absent, MaxQuota) = MaxQuota * Minute
  BY DEF Limiter!Level
<1>3. QED BY <1>1, <1>2
  DEF Limiter!Init, LimitHolds, Limiter!TypeOK, AskersKnown, Asks, Conserved

LEMMA LimitKeeps ==
  ASSUME Limiter!QuotaAssumption, Limiter!TimeAssumption, LimitHolds, Limiter!Next
  PROVE  LimitHolds'
<1>1. ASSUME NEW h \in Server, NEW a \in Addr, NEW u \in Client \cup {Limiter!Anybody},
             NEW c \in Class \cup {Limiter!Other}, NEW q \in Rate, NEW t \in Rate,
             Limiter!Arrive(h, a, u, c, q, t)
      PROVE  LimitHolds'
  <2> DEFINE r == [at |-> Limiter!First(c), addr |-> a, user |-> u, cls |-> c, quota |-> q, total |-> t]
  <2>1. r \in Limiter!Request /\ (r.at # "iptotal" => r.cls \in Class) /\ r.at # "key"
    BY DEF Limiter!Request, Limiter!First
  <2>2. v2' = [v2 EXCEPT ![h] = r] /\ UNCHANGED <<v1, v3>>
    BY <1>1 DEF Limiter!Arrive
  <2> HIDE DEF r
  <2>3. QED BY <2>1, <2>2 DEF LimitHolds, Limiter!TypeOK, AskersKnown, Asks, Conserved
<1>2. ASSUME NEW h \in Server, Limiter!Ask(h)
      PROVE  LimitHolds'
  <2> DEFINE next == IF Limiter!Grants(Limiter!KeyOf(v2[h]), Limiter!QuotaOf(v2[h]))
                     THEN Limiter!Later(v2[h]) ELSE Limiter!Idle
  <2>1. /\ v2[h] # Limiter!Idle
        /\ Limiter!Take(Limiter!KeyOf(v2[h]), Limiter!QuotaOf(v2[h]))
        /\ v2' = [v2 EXCEPT ![h] = next]
    BY <1>2 DEF Limiter!Ask
  <2>2. next \in Limiter!Request \cup {Limiter!Idle} /\ Asks(next)
    BY <2>1, AskedKnown DEF Asks
  <2>3. /\ v1' \in [Limiter!Key -> Limiter!Bucket \cup {Limiter!Absent}]
        /\ v3' \in [Limiter!Key -> Nat]
        /\ Conserved'
    BY <2>1, AskedKnown, TakeConserves
  <2> HIDE DEF next
  <2>4. v2' \in [Server -> Limiter!Request \cup {Limiter!Idle}]
    BY <2>1, <2>2 DEF LimitHolds, Limiter!TypeOK
  <2>5. AskersKnown'
    <3>1. v2'[h] = next /\ \A g \in Server : g # h => v2'[g] = v2[g]
      BY <2>1 DEF LimitHolds, Limiter!TypeOK
    <3> QED BY <2>2, <3>1 DEF LimitHolds, AskersKnown
  <2>6. QED BY <2>3, <2>4, <2>5 DEF LimitHolds, Limiter!TypeOK
<1>3. CASE Limiter!Sweep
  <2>1. /\ v1' \in [Limiter!Key -> Limiter!Bucket \cup {Limiter!Absent}]
        /\ \A k \in Limiter!Key : Limiter!Level(v1'[k], MaxQuota)
               = Limiter!Level(v1[k], MaxQuota)
    BY <1>3, Sweeping DEF Limiter!Sweep, LimitHolds, Limiter!TypeOK
  <2>2. QED BY <1>3, <2>1 DEF Limiter!Sweep, LimitHolds, Limiter!TypeOK, AskersKnown, Conserved
<1>4. CASE Limiter!Tick
  BY <1>4, TickConserves DEF Limiter!Tick, LimitHolds, Limiter!TypeOK, AskersKnown
<1>5. QED BY <1>1, <1>2, <1>3, <1>4 DEF Limiter!Next, Limiter!Serve

\* It bounds what a bucket gave.
LEMMA LimitBounded == LimitHolds => Limiter!RateBounded
<1> SUFFICES ASSUME LimitHolds, NEW k \in Limiter!Key
             PROVE  v3[k] <= MaxQuota * Minute
  BY DEF Limiter!RateBounded
<1>1. /\ v3[k] \in Nat /\ v1[k] \in Limiter!Bucket \cup {Limiter!Absent}
      /\ MaxQuota \in 1..MaxQuota
      /\ v3[k] + Limiter!Level(v1[k], MaxQuota) <= MaxQuota * Minute
  BY LimitAssumed DEF LimitHolds, Limiter!TypeOK, Conserved, Limiter!QuotaAssumption
<1>2. Limiter!Level(v1[k], MaxQuota) \in 0..(MaxQuota * Minute)
  BY <1>1, LimitAssumed, Levels
<1>3. MaxQuota * Minute \in Nat
  BY LimitAssumed, Smaller DEF Limiter!QuotaAssumption, Limiter!TimeAssumption
<1> QED BY <1>1, <1>2, <1>3

-----------------------------------------------------------------------------
(* Tenants and quotas. *)

\* What the tables give a user, and whether a key is among those of what they give him.
Assigned(u) == {us[u] : us \in {vs \in UserTables : u \in DOMAIN vs}}
Bears(u, k) == \E who \in Assigned(u) : k \in Tenants!Keys(who, u)

\* What a handler does, with the identity of some table and no day to come.
Charging(day) ==
  [at : {"charge"}, user : User, who : Tenants!Entry, day : 1..day, cost : 1..MaxCost]
CopyUpTo(day) == [day : 1..day, usage : Tenants!Usage]
Sound(a, day) ==
  \/ a = Tenants!Idle
  \/ /\ a \in [at : {"check"}, user : User, who : Tenants!Entry, day : Tenants!Day]
     /\ a.who \in Assigned(a.user)
  \/ /\ a \in [at : {"call"}, user : User, who : Tenants!Who]
     /\ a.who \in Assigned(a.user) \cup {Unreadable}
  \/ a \in Charging(day) /\ a.who \in Assigned(a.user)
  \/ a \in [at : {"copy"}]
  \/ a \in [at : {"open", "write"}, copy : CopyUpTo(day)]

\* Of the quotas: the types, and that no day to come has been charged.
QuotasHold ==
  /\ v5 \in Tenants!Day
  /\ v6 \in [Tenants!Day -> Tenants!Usage]
  /\ \A d \in Tenants!Day : d > v5 => v6[d] = Tenants!Zero
  /\ v7 \in CopyUpTo(v5) \cup {Unreadable}
  /\ DOMAIN v8 = Handler /\ \A h \in Handler : Sound(v8[h], v5)

\* Of the configuration: the list in force is one that was accepted.
ConfigHolds ==
  /\ v1 \in UserTables \cup {Tenants!NoUsers}
  /\ v3 \in UserTables \cup {Tenants!NoUsers}
  /\ v2 \in TenantCfgs /\ Tenants!Valid(v2)
  /\ v4 \in {Tenants!Ready} \cup
       [at : {"users", "tenants"}, users : UserTables, tenants : TenantCfgs]
  /\ v10 \in BOOLEAN

\* A call that is past its check may still charge the key today, and so may one that read
\* the clock before midnight and checks the quotas of yesterday.
May(a, k, day) ==
  \/ a.at = "call" /\ Bears(a.user, k)
  \/ a.at = "charge" /\ a.day = day /\ k \in Tenants!Keys(a.who, a.user)
  \/ a.at = "check" /\ a.day # day /\ Bears(a.user, k)
Pending(doing, day, k) == {h \in Handler : May(doing[h], k, day)}

\* The part of the bound that is left for others than those that may still charge.
Bounded(k, n, m) == \E tc \in TenantCfgs : n < Tenants!Limit(tc, k) + MaxCost * m
CopyBounded(k, c, day) ==
  c # Unreadable /\ c.day = day => Bounded(k, c.usage[k], Cardinality(Handler))
SpendingHolds ==
  \A k \in Tenants!Key : Tenants!Steady(k) =>
    /\ Bounded(k, v6[v5][k], Cardinality(Handler) - Cardinality(Pending(v8, v5, k)))
    /\ CopyBounded(k, v7, v5)
    /\ \A h \in Handler : v8[h].at \in {"open", "write"} => CopyBounded(k, v8[h].copy, v5)

\* What a start would restore from a copy is what is in memory: of the copy that is being
\* written, if there is one, and else of the file; unless a copy is still to be taken.
FromCopy(c, day) == IF c # Unreadable /\ c.day = day THEN c.usage ELSE Tenants!Zero
FileHolds ==
  ~v9 =>
    /\ \A g, h \in Handler : Tenants!Writing(g) /\ Tenants!Writing(h) => g = h
    /\ (\A h \in Handler : v8[h].at # "copy") =>
         /\ \A h \in Handler : Tenants!Writing(h) => FromCopy(v8[h].copy, v5) = v6[v5]
         /\ (\A h \in Handler : ~Tenants!Writing(h)) => FromCopy(v7, v5) = v6[v5]

\* While nothing was mixed, the last good table fits the list in force, except in a reload
\* that has accepted its users already and has yet to look at its tenants.
PlacedHolds ==
  /\ v4 = Tenants!Ready /\ ~v10 => Tenants!Placed(v1, v2) /\ Tenants!Placed(v3, v2)
  /\ v4.at = "users" => v1 = v4.users /\ (~v10 => Tenants!Placed(v3, v2))
  /\ v4.at = "tenants" =>
       LET fit == Tenants!Placed(v4.users, v4.tenants) IN
       /\ v1 = IF fit THEN v4.users ELSE v3
       /\ IF fit /\ v4.users # Tenants!NoUsers THEN v3 = v4.users
          ELSE ~v10 => Tenants!Placed(v3, v2)

LEMMA TenantsAssumed ==
  Tenants!ConfigAssumption /\ Tenants!BoundAssumption /\ Tenants!FileAssumption
BY ServicesAssumption

\* The tables give known users an identity.
LEMMA Tables ==
  ASSUME NEW us \in UserTables \cup {Tenants!NoUsers}, NEW u \in DOMAIN us
  PROVE  us \in UserTables /\ u \in User /\ us[u] \in Tenants!Entry /\ us[u] \in Assigned(u)
<1>1. us \in UserTables
  BY DEF Tenants!NoUsers
<1>2. PICK U \in SUBSET User : us \in [U -> Tenants!Entry]
  BY <1>1, TenantsAssumed DEF Tenants!ConfigAssumption
<1> QED BY <1>1, <1>2 DEF Assigned

LEMMA AssignedEntries ==
  ASSUME NEW u
  PROVE  Assigned(u) \subseteq Tenants!Entry
<1> SUFFICES ASSUME NEW us \in UserTables, u \in DOMAIN us PROVE us[u] \in Tenants!Entry
  BY DEF Assigned
<1> QED BY Tables

LEMMA Identified ==
  ASSUME ConfigHolds, NEW u
  PROVE  Tenants!Identity(u) \in Assigned(u) \cup {Unreadable}
BY Tables DEF ConfigHolds, Tenants!Identity

\* A limit of a listed tenant is a number.
LEMMA LimitNumber ==
  ASSUME NEW tc \in TenantCfgs, NEW k \in Tenants!Key, k[1] \in Tenants!Known(tc)
  PROVE  Tenants!Limit(tc, k) \in Nat
<1>1. PICK T \in SUBSET Tenant : tc.list \in [T -> Tenants!Quota]
  BY TenantsAssumed DEF Tenants!ConfigAssumption
<1>2. tc.list[k[1]] \in Tenants!Quota
  BY <1>1 DEF Tenants!Known
<1>3. k[2] = "tenant" \/ k[2] \in User \/ k[2] \in Group
  BY DEF Tenants!Key
<1> QED BY <1>2, <1>3 DEF Tenants!Limit, Tenants!Quota

\* The list in force is accepted, and clamping it changes nothing.
LEMMA ClampNothing ==
  ASSUME NEW tc \in TenantCfgs, Tenants!Valid(tc)
  PROVE  Tenants!Clamped(tc) = tc
<1>1. tc.cap \in Nat
  BY TenantsAssumed DEF Tenants!ConfigAssumption
<1> QED BY <1>1 DEF Tenants!Valid, Tenants!Clamped

\* What steps leave alone.
LEMMA RequestsLeave ==
  ASSUME NEW h \in Handler, Tenants!Request(h)
  PROVE  v1' = v1 /\ v2' = v2 /\ v3' = v3 /\ v4' = v4 /\ v5' = v5 /\ v10' = v10
BY DEF Tenants!Request, Tenants!Arrive, Tenants!Check, Tenants!Uncharged, Tenants!Answer,
  Tenants!Charge, Tenants!TakeCopy, Tenants!OpenFile, Tenants!WriteFile, Tenants!Unwritten,
  Tenants!configVars, Tenants!quotaVars

LEMMA ReloadsLeave ==
  ASSUME Tenants!Reload
  PROVE  v5' = v5 /\ v6' = v6 /\ v7' = v7 /\ v8' = v8 /\ v9' = v9
BY DEF Tenants!Reload, Tenants!Load, Tenants!CheckUsers, Tenants!ApplyTenants, Tenants!quotaVars

LEMMA RestartPlaces ==
  ASSUME Tenants!Restart
  PROVE  \E us \in UserTables, tc \in TenantCfgs :
           /\ v1' = us /\ v2' = tc /\ v3' = us /\ v4' = Tenants!Ready /\ v10' = FALSE
           /\ Tenants!Placed(us, tc) /\ Tenants!Valid(tc)
BY DEF Tenants!Restart

\* The configuration.
LEMMA ConfigKeeps ==
  ASSUME ConfigHolds, PlacedHolds, Tenants!Next
  PROVE  ConfigHolds' /\ PlacedHolds'
<1> DEFINE Unchanged == v1' = v1 /\ v2' = v2 /\ v3' = v3 /\ v4' = v4 /\ v10' = v10
           Loading == [at : {"users", "tenants"}, users : UserTables, tenants : TenantCfgs]
<1>1. CASE Unchanged
  BY <1>1 DEF ConfigHolds, PlacedHolds
<1>2. ASSUME NEW us \in UserTables, NEW tc \in TenantCfgs, Tenants!Load(us, tc)
      PROVE  ConfigHolds' /\ PlacedHolds'
  <2>1. /\ v1' = us /\ v4' = [at |-> "users", users |-> us, tenants |-> tc]
        /\ v2' = v2 /\ v3' = v3 /\ v10' = v10 /\ v4 = Tenants!Ready
    BY <1>2 DEF Tenants!Load
  <2>2. v4' \in Loading /\ v4'.at = "users" /\ v4'.users = us /\ v4' # Tenants!Ready
    BY <2>1 DEF Tenants!Ready
  <2> QED BY <2>1, <2>2 DEF ConfigHolds, PlacedHolds
<1>3. CASE Tenants!CheckUsers
  <2> DEFINE fit == Tenants!Placed(v4.users, v4.tenants)
  <2>1. /\ v4.at = "users" /\ v2' = v2 /\ v10' = v10 /\ v4' = [v4 EXCEPT !.at = "tenants"]
        /\ v1' = IF fit THEN v1 ELSE v3
        /\ v3' = IF fit /\ v4.users # Tenants!NoUsers THEN v4.users ELSE v3
    BY <1>3 DEF Tenants!CheckUsers, Tenants!Fits
  <2>2. v4 \in Loading
    BY <2>1 DEF ConfigHolds, Tenants!Ready
  <2>3. /\ v4' \in Loading /\ v4'.at = "tenants" /\ v4' # Tenants!Ready
        /\ v4'.users = v4.users /\ v4'.tenants = v4.tenants
    BY <2>1, <2>2 DEF Tenants!Ready
  <2>4. v1 = v4.users /\ (~v10 => Tenants!Placed(v3, v2))
    BY <2>1 DEF PlacedHolds
  <2>5. ConfigHolds'
    BY <2>1, <2>2, <2>3 DEF ConfigHolds
  <2>6. Tenants!Placed(v4'.users, v4'.tenants) <=> fit
    BY <2>3
  <2> HIDE DEF fit
  <2>7. v1' = IF fit THEN v4'.users ELSE v3'
    BY <2>1, <2>3, <2>4
  <2>8. IF fit /\ v4'.users # Tenants!NoUsers THEN v3' = v4'.users
        ELSE ~v10' => Tenants!Placed(v3', v2')
    BY <2>1, <2>3, <2>4
  <2> QED BY <2>3, <2>5, <2>6, <2>7, <2>8 DEF PlacedHolds
<1>4. CASE Tenants!ApplyTenants
  <2> DEFINE fit == Tenants!Placed(v4.users, v4.tenants)
             valid == Tenants!Valid(v4.tenants)
  <2>1. /\ v4.at = "tenants" /\ v1' = v1 /\ v3' = v3 /\ v4' = Tenants!Ready
        /\ v2' = Tenants!Clamped(IF valid THEN v4.tenants ELSE v2)
        /\ v10' = IF valid /\ fit THEN v4.users = Tenants!NoUsers /\ v3 # Tenants!NoUsers
                  ELSE v10 \/ valid \/ fit
    BY <1>4 DEF Tenants!ApplyTenants, Tenants!Fits
  <2>2. v4 \in Loading
    BY <2>1 DEF ConfigHolds, Tenants!Ready
  <2>3. v2' = IF valid THEN v4.tenants ELSE v2
    BY <2>1, <2>2, ClampNothing DEF ConfigHolds
  <2>4. ConfigHolds'
    BY <2>1, <2>2, <2>3 DEF ConfigHolds
  <2>5. /\ v1 = IF fit THEN v4.users ELSE v3
        /\ IF fit /\ v4.users # Tenants!NoUsers THEN v3 = v4.users
           ELSE ~v10 => Tenants!Placed(v3, v2)
    BY <2>1 DEF PlacedHolds
  <2>6. ~v10' => Tenants!Placed(v1', v2') /\ Tenants!Placed(v3', v2')
    <3>1. CASE valid /\ fit /\ v4.users # Tenants!NoUsers
      BY <2>1, <2>3, <2>5, <3>1
    <3>2. CASE valid /\ fit /\ v4.users = Tenants!NoUsers
      <4>1. \A tc : Tenants!Placed(Tenants!NoUsers, tc)
        BY DEF Tenants!Placed, Tenants!NoUsers
      <4> HIDE DEF fit, valid
      <4> QED BY <2>1, <2>3, <2>5, <3>2, <4>1
    <3>3. CASE ~(valid /\ fit)
      <4> HIDE DEF fit, valid
      <4> QED BY <2>1, <2>3, <2>5, <3>3
    <3> QED BY <3>1, <3>2, <3>3
  <2>7. v4' = Tenants!Ready /\ v4'.at # "users" /\ v4'.at # "tenants"
    BY <2>1 DEF Tenants!Ready
  <2> QED BY <2>4, <2>6, <2>7 DEF PlacedHolds
<1>5. CASE Tenants!Restart
  <2>1. Tenants!Ready.at # "users" /\ Tenants!Ready.at # "tenants"
    BY DEF Tenants!Ready
  <2> QED BY <1>5, <2>1, RestartPlaces DEF ConfigHolds, PlacedHolds
<1>6. CASE Tenants!Midnight
  BY <1>1, <1>6 DEF Tenants!Midnight
<1>7. ASSUME NEW h \in Handler, Tenants!Request(h) PROVE ConfigHolds' /\ PlacedHolds'
  BY <1>1, <1>7, RequestsLeave
<1> QED BY <1>2, <1>3, <1>4, <1>5, <1>6, <1>7 DEF Tenants!Next, Tenants!Reload

\* The quotas and the handlers.
LEMMA Sounds ==
  ASSUME NEW d \in Nat, NEW a, Sound(a, d)
  PROVE  /\ a.at \in {"idle", "check", "call", "charge", "copy", "open", "write"}
         /\ a.at = "check" => a.user \in User /\ a.who \in Assigned(a.user)
         /\ a.at = "call" => a.user \in User /\ a.who \in Assigned(a.user) \cup {Unreadable}
         /\ a.at = "charge" => a \in Charging(d) /\ a.who \in Assigned(a.user)
         /\ a.at \in {"open", "write"} => a \in [at : {"open", "write"}, copy : CopyUpTo(d)]
BY DEF Sound, Charging, Tenants!Idle

LEMMA SoundLater ==
  ASSUME NEW a, NEW d \in Nat, NEW e \in Nat, d <= e, Sound(a, d)
  PROVE  Sound(a, e)
<1>1. 1..d \subseteq 1..e
  OBVIOUS
<1>2. Charging(d) \subseteq Charging(e) /\ CopyUpTo(d) \subseteq CopyUpTo(e)
  BY <1>1 DEF Charging, CopyUpTo
<1>3. [at : {"open", "write"}, copy : CopyUpTo(d)] \subseteq
      [at : {"open", "write"}, copy : CopyUpTo(e)]
  BY <1>2
<1> HIDE DEF CopyUpTo, Charging
<1> QED BY <1>2, <1>3 DEF Sound

\* A handler goes on to something sound, the rest staying as it is.
LEMMA HandlersKept ==
  ASSUME QuotasHold, NEW h \in Handler, NEW new, Sound(new, v5), v5' = v5,
         v8' = [v8 EXCEPT ![h] = new]
  PROVE  /\ DOMAIN v8' = Handler /\ \A g \in Handler : Sound(v8'[g], v5')
         /\ v8'[h] = new /\ \A g \in Handler : g # h => v8'[g] = v8[g]
<1>1. DOMAIN v8' = Handler /\ v8'[h] = new /\ \A g \in Handler : g # h => v8'[g] = v8[g]
  BY DEF QuotasHold
<1> QED BY <1>1 DEF QuotasHold

LEMMA Days ==
  ASSUME QuotasHold
  PROVE  /\ v5 \in 1..v5 /\ v5 \in Nat /\ 1..v5 \subseteq Tenants!Day
         /\ Tenants!Zero \in Tenants!Usage /\ \A k \in Tenants!Key : Tenants!Zero[k] = 0
BY TenantsAssumed
DEF QuotasHold, Tenants!Day, Tenants!Zero, Tenants!Usage, Tenants!BoundAssumption

\* What one step of a handler does.
LEMMA ArriveStep ==
  ASSUME ConfigHolds, QuotasHold, NEW h \in Handler, NEW u \in User, Tenants!Arrive(h, u)
  PROVE  \E new : /\ v8' = [v8 EXCEPT ![h] = new] /\ Sound(new, v5)
                  /\ new.at = "check" /\ new.day = v5
                  /\ v8[h].at = "idle" /\ v6' = v6 /\ v7' = v7 /\ v9' = v9
<1> DEFINE new == [at |-> "check", user |-> u, who |-> Tenants!Identity(u), day |-> v5]
<1>1. v8' = [v8 EXCEPT ![h] = new] /\ v6' = v6 /\ v7' = v7 /\ v9' = v9 /\ v8[h] = Tenants!Idle
      /\ Tenants!Identity(u) # Unreadable
  BY DEF Tenants!Arrive, Tenants!Goto, Tenants!quotaVars
<1>2. Tenants!Identity(u) \in Assigned(u) /\ Tenants!Identity(u) \in Tenants!Entry
  BY <1>1, Identified, AssignedEntries
<1>3. Sound(new, v5) /\ new.at = "check" /\ new.day = v5
  BY <1>2 DEF Sound, QuotasHold
<1>4. v8[h].at = "idle"
  BY <1>1 DEF Tenants!Idle
<1> HIDE DEF new
<1> QED BY <1>1, <1>3, <1>4

LEMMA CheckStep ==
  ASSUME ConfigHolds, QuotasHold, NEW h \in Handler, Tenants!Check(h)
  PROVE  /\ v6' = v6 /\ v7' = v7 /\ v9' = v9 /\ v8[h].at = "check"
         /\ \E new :
              /\ v8' = [v8 EXCEPT ![h] = new] /\ Sound(new, v5)
              /\ \/ new.at = "idle"
                 \/ /\ new.at = "call" /\ new.user = v8[h].user
                    /\ ~Tenants!Exhausted(v8[h].who, v8[h].user, v8[h].day)
<1> DEFINE new == [at |-> "call", user |-> v8[h].user, who |-> Tenants!Identity(v8[h].user)]
<1>1. v6' = v6 /\ v7' = v7 /\ v9' = v9 /\ v8[h].at = "check"
      /\ IF Tenants!Exhausted(v8[h].who, v8[h].user, v8[h].day)
         THEN v8' = [v8 EXCEPT ![h] = Tenants!Idle] ELSE v8' = [v8 EXCEPT ![h] = new]
  BY DEF Tenants!Check, Tenants!Goto, Tenants!quotaVars
<1>2. v8[h].user \in User
  BY <1>1, Sounds, Days DEF QuotasHold
<1>3. /\ Tenants!Identity(v8[h].user) \in Assigned(v8[h].user) \cup {Unreadable}
      /\ Tenants!Identity(v8[h].user) \in Tenants!Who
  BY Identified, AssignedEntries DEF Tenants!Who
<1>4. Sound(new, v5) /\ new.at = "call" /\ new.user = v8[h].user
  BY <1>2, <1>3 DEF Sound
<1>5. Sound(Tenants!Idle, v5) /\ Tenants!Idle.at = "idle"
  BY DEF Sound, Tenants!Idle
<1> HIDE DEF new
<1> QED BY <1>1, <1>4, <1>5

LEMMA AnswerStep ==
  ASSUME ConfigHolds, QuotasHold, NEW h \in Handler, Tenants!Answer(h)
  PROVE  /\ v6' = v6 /\ v7' = v7 /\ v9' = v9 /\ v8[h].at = "call"
         /\ \E new :
              /\ v8' = [v8 EXCEPT ![h] = new] /\ Sound(new, v5)
              /\ new.at = "charge" /\ new.user = v8[h].user /\ new.day = v5
<1>1. v6' = v6 /\ v7' = v7 /\ v9' = v9 /\ v8[h].at = "call"
  BY DEF Tenants!Answer, Tenants!quotaVars
<1>2. PICK who \in {v8[h].who, Tenants!Identity(v8[h].user)} \ {Unreadable}, c \in 1..MaxCost :
        v8' = [v8 EXCEPT ![h] = [at |-> "charge", user |-> v8[h].user, who |-> who,
                                 day |-> v5, cost |-> c]]
  BY DEF Tenants!Answer, Tenants!Goto
<1> DEFINE new == [at |-> "charge", user |-> v8[h].user, who |-> who, day |-> v5, cost |-> c]
<1>3. v8[h].user \in User /\ v8[h].who \in Assigned(v8[h].user) \cup {Unreadable}
  BY <1>1, Sounds, Days DEF QuotasHold
<1>4. who \in Assigned(v8[h].user) /\ who \in Tenants!Entry
  BY <1>2, <1>3, Identified, AssignedEntries
<1>5. new \in Charging(v5) /\ new.who \in Assigned(new.user)
  BY <1>3, <1>4, Days DEF Charging
<1>6. Sound(new, v5) /\ new.at = "charge" /\ new.user = v8[h].user /\ new.day = v5
  BY <1>5 DEF Sound
<1> HIDE DEF new
<1> QED BY <1>1, <1>2, <1>6 DEF new

LEMMA IdleStep ==
  ASSUME QuotasHold, NEW h \in Handler, Tenants!Uncharged(h) \/ Tenants!WriteFile(h)
  PROVE  /\ v6' = v6 /\ v9' = v9 /\ v8' = [v8 EXCEPT ![h] = Tenants!Idle]
         /\ Sound(Tenants!Idle, v5) /\ Tenants!Idle.at = "idle"
         /\ v7' = v7 \/ v7' = Unreadable \/ (v8[h].at = "write" /\ v7' = v8[h].copy)
BY DEF Tenants!Uncharged, Tenants!WriteFile, Tenants!Goto, Tenants!quotaVars, Sound, Tenants!Idle

LEMMA LostStep ==
  ASSUME NEW h \in Handler, Tenants!Unwritten(h)
  PROVE  /\ v6' = v6 /\ v9' = TRUE /\ v8' = [v8 EXCEPT ![h] = Tenants!Idle]
         /\ Sound(Tenants!Idle, v5) /\ Tenants!Idle.at = "idle"
         /\ v7' = v7 \/ v7' = Unreadable
BY DEF Tenants!Unwritten, Tenants!Goto, Sound, Tenants!Idle

LEMMA ChargeStep ==
  ASSUME QuotasHold, NEW h \in Handler, Tenants!Charge(h)
  PROVE  /\ v7' = v7 /\ v9' = v9 /\ v8' = [v8 EXCEPT ![h] = [at |-> "copy"]]
         /\ Sound([at |-> "copy"], v5) /\ v8[h] \in Charging(v5)
         /\ v8[h].who \in Assigned(v8[h].user)
         /\ v6' = [d \in Tenants!Day |-> [k \in Tenants!Key |->
              IF d # v8[h].day THEN 0
              ELSE v6[d][k] + (IF k \in Tenants!Keys(v8[h].who, v8[h].user) THEN v8[h].cost
                               ELSE 0)]]
<1>1. v8[h].at = "charge"
  BY DEF Tenants!Charge
<1>2. v8[h] \in Charging(v5) /\ v8[h].who \in Assigned(v8[h].user)
  BY <1>1, Sounds, Days DEF QuotasHold
<1> QED BY <1>2 DEF Tenants!Charge, Tenants!Goto, Sound

LEMMA CopyStep ==
  ASSUME QuotasHold, NEW h \in Handler, Tenants!TakeCopy(h)
  PROVE  /\ v6' = v6 /\ v7' = v7 /\ v8[h].at = "copy"
         /\ Tenants!Copied \in CopyUpTo(v5)
         /\ v8' = [v8 EXCEPT ![h] = [at |-> "open", copy |-> Tenants!Copied]]
         /\ Sound([at |-> "open", copy |-> Tenants!Copied], v5)
         /\ v9' = (v9 \/ \E g \in Handler \ {h} : Tenants!Writing(g))
<1>1. Tenants!Copied \in CopyUpTo(v5)
  BY Days DEF Tenants!Copied, CopyUpTo, QuotasHold
<1>2. Sound([at |-> "open", copy |-> Tenants!Copied], v5)
  BY <1>1 DEF Sound
<1> QED BY <1>1, <1>2 DEF Tenants!TakeCopy, Tenants!Goto

LEMMA OpenStep ==
  ASSUME QuotasHold, NEW h \in Handler, Tenants!OpenFile(h)
  PROVE  /\ v6' = v6 /\ v7' = Unreadable /\ v9' = v9 /\ v8[h].at = "open"
         /\ \E new : /\ v8' = [v8 EXCEPT ![h] = new] /\ Sound(new, v5)
                     /\ new.at = "write" /\ new.copy = v8[h].copy
<1> DEFINE new == [v8[h] EXCEPT !.at = "write"]
<1>1. v6' = v6 /\ v7' = Unreadable /\ v9' = v9 /\ v8[h].at = "open" /\ v8' = [v8 EXCEPT ![h] = new]
  BY DEF Tenants!OpenFile, Tenants!Goto
<1>2. v8[h] \in [at : {"open", "write"}, copy : CopyUpTo(v5)]
  BY <1>1, Sounds, Days DEF QuotasHold
<1>3. new = [at |-> "write", copy |-> v8[h].copy]
  BY <1>2
<1>4. Sound(new, v5) /\ new.at = "write" /\ new.copy = v8[h].copy
  BY <1>2, <1>3 DEF Sound
<1> HIDE DEF new
<1> QED BY <1>1, <1>4

LEMMA QuotasKeep ==
  ASSUME ConfigHolds, QuotasHold, Tenants!Next
  PROVE  QuotasHold'
<1>1. ASSUME NEW h \in Handler, NEW new, v8' = [v8 EXCEPT ![h] = new], Sound(new, v5),
             v5' = v5, v6' = v6,
             v7' = v7 \/ v7' = Unreadable \/ v7' \in CopyUpTo(v5)
      PROVE  QuotasHold'
  BY <1>1, HandlersKept DEF QuotasHold
<1>2. ASSUME NEW h \in Handler, Tenants!Request(h) PROVE QuotasHold'
  <2>0. v5' = v5
    BY <1>2, RequestsLeave
  <2>1. CASE \E u \in User : Tenants!Arrive(h, u)
    BY <1>1, <2>0, <2>1, ArriveStep
  <2>2. CASE Tenants!Check(h)
    BY <1>1, <2>0, <2>2, CheckStep
  <2>3. CASE Tenants!Uncharged(h) \/ Tenants!WriteFile(h)
    <3>1. v8[h].at = "write" => v8[h].copy \in CopyUpTo(v5)
      BY Sounds, Days DEF QuotasHold
    <3> QED BY <1>1, <2>0, <2>3, <3>1, IdleStep
  <2>4. CASE Tenants!Answer(h)
    BY <1>1, <2>0, <2>4, AnswerStep
  <2>5. CASE Tenants!Charge(h)
    <3>1. v6' \in [Tenants!Day -> Tenants!Usage]
          /\ \A d \in Tenants!Day : d > v5 => v6'[d] = Tenants!Zero
      <4>1. v8[h].day \in 1..v5 /\ v8[h].cost \in Nat
        BY <2>5, ChargeStep DEF Charging
      <4>2. v6' = [d \in Tenants!Day |-> [k \in Tenants!Key |->
              IF d # v8[h].day THEN 0
              ELSE v6[d][k] + (IF k \in Tenants!Keys(v8[h].who, v8[h].user) THEN v8[h].cost
                               ELSE 0)]]
        BY <2>5, ChargeStep
      <4>3. \A d \in Tenants!Day : d # v8[h].day => v6'[d] = Tenants!Zero
        BY <4>2 DEF Tenants!Zero
      <4>4. ASSUME NEW d \in Tenants!Day PROVE v6'[d] \in Tenants!Usage
        BY <4>1, <4>2 DEF Tenants!Usage, QuotasHold
      <4>5. \A d \in Tenants!Day : d > v5 => d # v8[h].day
        BY <4>1, Days DEF Tenants!Day
      <4> QED BY <4>2, <4>3, <4>4, <4>5
    <3>2. /\ DOMAIN v8' = Handler /\ \A g \in Handler : Sound(v8'[g], v5')
      BY <2>0, <2>5, ChargeStep, HandlersKept
    <3>3. v7' = v7
      BY <2>5, ChargeStep
    <3> QED BY <2>0, <3>1, <3>2, <3>3 DEF QuotasHold
  <2>6. CASE Tenants!TakeCopy(h)
    BY <1>1, <2>0, <2>6, CopyStep
  <2>7. CASE Tenants!OpenFile(h)
    BY <1>1, <2>0, <2>7, OpenStep
  <2>8. CASE Tenants!Unwritten(h)
    BY <1>1, <2>0, <2>8, LostStep
  <2> QED BY <1>2, <2>1, <2>2, <2>3, <2>4, <2>5, <2>6, <2>7, <2>8 DEF Tenants!Request
<1>3. CASE Tenants!Reload
  BY <1>3, ReloadsLeave DEF QuotasHold
<1>4. CASE Tenants!Midnight
  <2>1. v5' = v5 + 1 /\ v6' = v6 /\ v7' = v7 /\ v8' = v8 /\ v5' \in Tenants!Day /\ v5 \in Nat
    BY <1>4, Days, TenantsAssumed
    DEF Tenants!Midnight, QuotasHold, Tenants!Day, Tenants!BoundAssumption
  <2>2. CopyUpTo(v5) \subseteq CopyUpTo(v5')
    BY <2>1 DEF CopyUpTo
  <2>3. \A h \in Handler : Sound(v8'[h], v5')
    BY <2>1, SoundLater DEF QuotasHold
  <2>4. \A d \in Tenants!Day : d > v5' => v6'[d] = Tenants!Zero
    BY <2>1 DEF QuotasHold, Tenants!Day
  <2> QED BY <2>1, <2>2, <2>3, <2>4 DEF QuotasHold
<1>5. CASE Tenants!Restart
  <2>1. v5' = v5 /\ v7' = v7 /\ v6' = Tenants!Restored /\ v8' = [h \in Handler |-> Tenants!Idle]
    BY <1>5 DEF Tenants!Restart
  <2>2. /\ v6' \in [Tenants!Day -> Tenants!Usage]
        /\ \A d \in Tenants!Day : d > v5 => v6'[d] = Tenants!Zero
    BY <2>1, Days DEF Tenants!Restored, QuotasHold, CopyUpTo
  <2>3. DOMAIN v8' = Handler /\ \A h \in Handler : Sound(v8'[h], v5')
    BY <2>1 DEF Sound
  <2> QED BY <2>1, <2>2, <2>3 DEF QuotasHold
<1> QED BY <1>2, <1>3, <1>4, <1>5 DEF Tenants!Next

\* The file.
LEMMA FileForm ==
  FileHolds' <=>
    (~v9' =>
      /\ \A g, h \in Handler :
           v8'[g].at \in {"open", "write"} /\ v8'[h].at \in {"open", "write"} => g = h
      /\ (\A h \in Handler : v8'[h].at # "copy") =>
           /\ \A h \in Handler :
                v8'[h].at \in {"open", "write"} => FromCopy(v8'[h].copy, v5') = v6'[v5']
           /\ (\A h \in Handler : v8'[h].at \notin {"open", "write"})
                => FromCopy(v7', v5') = v6'[v5'])
BY DEF FileHolds, Tenants!Writing

LEMMA FileNow ==
  ASSUME FileHolds, ~v9
  PROVE  /\ \A g, h \in Handler :
              v8[g].at \in {"open", "write"} /\ v8[h].at \in {"open", "write"} => g = h
         /\ (\A h \in Handler : v8[h].at # "copy") =>
              /\ \A h \in Handler :
                   v8[h].at \in {"open", "write"} => FromCopy(v8[h].copy, v5) = v6[v5]
              /\ (\A h \in Handler : v8[h].at \notin {"open", "write"})
                   => FromCopy(v7, v5) = v6[v5]
BY DEF FileHolds, Tenants!Writing

\* A copy of an earlier day restores nothing.
LEMMA OldCopy ==
  ASSUME NEW d \in Nat, NEW e \in Nat, d < e, NEW c \in CopyUpTo(d) \cup {Unreadable}
  PROVE  FromCopy(c, e) = Tenants!Zero
BY DEF CopyUpTo, FromCopy

LEMMA FileKeeps ==
  ASSUME ConfigHolds, QuotasHold, FileHolds, Tenants!Next
  PROVE  FileHolds'
<1>1. ASSUME NEW h \in Handler, NEW new, v8' = [v8 EXCEPT ![h] = new], Sound(new, v5),
             v5' = v5, v6' = v6, v7' = v7, v9' = v9,
             v8[h].at \notin {"copy", "open", "write"},
             new.at \notin {"copy", "open", "write"}
      PROVE  FileHolds'
  <2>1. v8'[h] = new /\ \A g \in Handler : g # h => v8'[g] = v8[g]
    BY <1>1, HandlersKept
  <2>2. \A g \in Handler : (v8'[g].at = "copy" <=> v8[g].at = "copy") /\
          (v8'[g].at \in {"open", "write"} =>
             v8[g].at \in {"open", "write"} /\ v8'[g].copy = v8[g].copy)
    BY <1>1, <2>1
  <2>3. (\A g \in Handler : v8'[g].at \notin {"open", "write"})
          => \A g \in Handler : v8[g].at \notin {"open", "write"}
    BY <1>1, <2>1
  <2> QED BY <1>1, <2>2, <2>3, FileNow, FileForm
<1>2. ASSUME NEW h \in Handler, Tenants!Request(h) PROVE FileHolds'
  <2>0. v5' = v5
    BY <1>2, RequestsLeave
  <2>1. CASE \E u \in User : Tenants!Arrive(h, u)
    BY <1>1, <2>0, <2>1, ArriveStep
  <2>2. CASE Tenants!Check(h)
    BY <1>1, <2>0, <2>2, CheckStep
  <2>3. CASE Tenants!Uncharged(h)
    <3>1. v7' = v7 /\ v8[h].at = "call"
      BY <2>3 DEF Tenants!Uncharged, Tenants!quotaVars
    <3> QED BY <1>1, <2>0, <2>3, <3>1, IdleStep
  <2>4. CASE Tenants!Answer(h)
    BY <1>1, <2>0, <2>4, AnswerStep
  <2>5. CASE Tenants!Charge(h)
    <3>1. v9' = v9 /\ v8[h].at = "charge" /\ v8'[h] = [at |-> "copy"]
          /\ \A g \in Handler : g # h => v8'[g] = v8[g]
      BY <2>0, <2>5, ChargeStep, HandlersKept DEF Tenants!Charge
    <3>2. v8'[h].at = "copy"
      BY <3>1
    <3>3. \A g \in Handler : v8'[g].at \in {"open", "write"} => v8[g].at \in {"open", "write"}
      BY <3>1, <3>2
    <3> QED BY <3>1, <3>2, <3>3, FileNow, FileForm
  <2>6. CASE Tenants!TakeCopy(h)
    <3> DEFINE new == [at |-> "open", copy |-> Tenants!Copied]
    <3>1. /\ v6' = v6 /\ v7' = v7 /\ v8'[h] = new /\ v8[h].at = "copy"
          /\ \A g \in Handler : g # h => v8'[g] = v8[g]
          /\ v9' = (v9 \/ \E g \in Handler \ {h} : v8[g].at \in {"open", "write"})
      BY <2>0, <2>6, CopyStep, HandlersKept DEF Tenants!Writing
    <3>2. new.at = "open" /\ new.copy = Tenants!Copied
      OBVIOUS
    <3>3. FromCopy(Tenants!Copied, v5) = v6[v5]
      <4>1. Tenants!Copied \in Tenants!Copy
        BY <2>6, CopyStep, Days DEF CopyUpTo, Tenants!Copy
      <4>2. Tenants!Copied.day = v5 /\ Tenants!Copied.usage = v6[v5]
        BY DEF Tenants!Copied
      <4> QED BY <4>1, <4>2, TenantsAssumed DEF FromCopy, Tenants!FileAssumption
    <3> HIDE DEF new
    <3>4. ~v9' => \A g \in Handler : v8'[g].at \in {"open", "write"} => g = h
      BY <3>1
    <3> QED BY <2>0, <3>1, <3>2, <3>3, <3>4, FileForm
  <2>7. CASE Tenants!OpenFile(h)
    <3>1. PICK new : /\ v8' = [v8 EXCEPT ![h] = new] /\ Sound(new, v5)
                     /\ new.at = "write" /\ new.copy = v8[h].copy
      BY <2>7, OpenStep
    <3>2. v6' = v6 /\ v9' = v9 /\ v8[h].at = "open" /\ v8'[h] = new
          /\ \A g \in Handler : g # h => v8'[g] = v8[g]
      BY <2>0, <2>7, <3>1, OpenStep, HandlersKept
    <3>3. \A g \in Handler : (v8'[g].at = "copy" <=> v8[g].at = "copy") /\
            (v8'[g].at \in {"open", "write"} =>
               v8[g].at \in {"open", "write"} /\ v8'[g].copy = v8[g].copy)
      BY <3>1, <3>2
    <3>4. v8'[h].at \in {"open", "write"}
      BY <3>1, <3>2
    <3> QED BY <2>0, <3>2, <3>3, <3>4, FileNow, FileForm
  <2>8. CASE Tenants!WriteFile(h)
    <3>1. v6' = v6 /\ v9' = v9 /\ v8'[h] = Tenants!Idle /\ Tenants!Idle.at = "idle"
          /\ \A g \in Handler : g # h => v8'[g] = v8[g]
      BY <2>0, <2>8, IdleStep, HandlersKept
    <3>2. v8[h].at = "write" /\ (~v9 => v7' = v8[h].copy)
      BY <2>8 DEF Tenants!WriteFile
    <3>3. \A g \in Handler : v8'[g].at = "copy" <=> v8[g].at = "copy"
      BY <3>1, <3>2
    <3>4. ~v9 => \A g \in Handler : v8'[g].at \notin {"open", "write"}
      BY <3>1, <3>2, FileNow
    <3> QED BY <2>0, <3>1, <3>2, <3>3, <3>4, FileNow, FileForm
  <2>9. CASE Tenants!Unwritten(h)
    BY <2>9, LostStep, FileForm
  <2> QED
    BY <1>2, <2>1, <2>2, <2>3, <2>4, <2>5, <2>6, <2>7, <2>8, <2>9 DEF Tenants!Request
<1>3. CASE Tenants!Reload
  BY <1>3, ReloadsLeave, FileNow, FileForm
<1>4. CASE Tenants!Midnight
  <2>1. v5' = v5 + 1 /\ v6' = v6 /\ v7' = v7 /\ v8' = v8 /\ v9' = v9
        /\ v5' \in Tenants!Day /\ v5 \in Nat
    BY <1>4, Days, TenantsAssumed
    DEF Tenants!Midnight, QuotasHold, Tenants!Day, Tenants!BoundAssumption
  <2>2. v6'[v5'] = Tenants!Zero
    BY <2>1 DEF QuotasHold, Tenants!Day
  <2>3. FromCopy(v7', v5') = Tenants!Zero
    BY <2>1, OldCopy DEF QuotasHold
  <2>4. ASSUME NEW h \in Handler, v8'[h].at \in {"open", "write"}
        PROVE  FromCopy(v8'[h].copy, v5') = Tenants!Zero
    <3>1. v8[h].copy \in CopyUpTo(v5)
      BY <2>1, <2>4, Sounds DEF QuotasHold
    <3> QED BY <2>1, <3>1, OldCopy
  <2> QED BY <2>1, <2>2, <2>3, <2>4, FileNow, FileForm
<1>5. CASE Tenants!Restart
  <2>1. /\ v5' = v5 /\ v7' = v7 /\ v6' = Tenants!Restored
        /\ v8' = [h \in Handler |-> Tenants!Idle]
    BY <1>5 DEF Tenants!Restart
  <2>2. v6'[v5'] = FromCopy(v7', v5')
    BY <2>1, Days DEF Tenants!Restored, FromCopy, QuotasHold
  <2>3. \A h \in Handler : v8'[h].at = "idle"
    BY <2>1 DEF Tenants!Idle
  <2> QED BY <2>2, <2>3, FileForm
<1> QED BY <1>2, <1>3, <1>4, <1>5 DEF Tenants!Next

\* What a start restores is current, and tables are placed.
LEMMA FileIsCurrent ==
  ASSUME QuotasHold, FileHolds
  PROVE  Tenants!FileCurrent
<1> SUFFICES ASSUME ~v9, \A h \in Handler : v8[h] = Tenants!Idle
             PROVE  Tenants!Restored[v5] = v6[v5]
  BY DEF Tenants!FileCurrent
<1>1. \A h \in Handler : v8[h].at = "idle"
  BY DEF Tenants!Idle
<1>2. FromCopy(v7, v5) = v6[v5]
  BY <1>1, FileNow
<1> QED BY <1>2 DEF Tenants!Restored, FromCopy, QuotasHold

LEMMA TablesPlaced == PlacedHolds => Tenants!PlacedUnlessMixed
BY DEF PlacedHolds, Tenants!PlacedUnlessMixed

\* How many handlers there are, and how many of them are left.
LEMMA SameCardinality ==
  /\ IsFiniteSet(Handler) /\ Cardinality(Handler) \in Nat /\ MaxCost \in Nat
  /\ Tenants!Cardinality(Handler) = Cardinality(Handler)
<1>1. Tenants!IsFiniteSet(Handler) /\ MaxCost \in Nat
  BY TenantsAssumed DEF Tenants!BoundAssumption
<1>2. IsFiniteSet(Handler)
  BY <1>1 DEF Tenants!IsFiniteSet, IsFiniteSet
<1>3. Tenants!Cardinality(Handler) = Cardinality(Handler)
  BY Zenon DEF Tenants!Cardinality, Cardinality
<1> QED BY <1>1, <1>2, <1>3, FS_CardinalityType

LEMMA Rooms ==
  ASSUME NEW P \in SUBSET Handler
  PROVE  /\ Cardinality(Handler) - Cardinality(P) \in Nat
         /\ Cardinality(Handler) - Cardinality(P) <= Cardinality(Handler)
         /\ \A Q \in SUBSET P : /\ Q \in SUBSET Handler
                                /\ Cardinality(Q) <= Cardinality(P)
         /\ \A h \in P : \A Q \in SUBSET (P \ {h}) :
              Cardinality(Handler) - Cardinality(Q) >= Cardinality(Handler) - Cardinality(P) + 1
<1>1. IsFiniteSet(P) /\ Cardinality(P) <= Cardinality(Handler)
  BY SameCardinality, FS_Subset
<1>2. Cardinality(P) \in Nat
  BY <1>1, FS_CardinalityType
<1>3. \A Q \in SUBSET P : Cardinality(Q) <= Cardinality(P) /\ IsFiniteSet(Q)
  BY <1>1, FS_Subset
<1>4. ASSUME NEW h \in P, NEW Q \in SUBSET (P \ {h})
      PROVE  Cardinality(Q) + 1 <= Cardinality(P) /\ Cardinality(Q) \in Nat
  <2>1. Cardinality(P \ {h}) = Cardinality(P) - 1 /\ IsFiniteSet(P \ {h})
    BY <1>1, FS_RemoveElement
  <2>2. Cardinality(Q) <= Cardinality(P \ {h}) /\ IsFiniteSet(Q)
    BY <2>1, FS_Subset
  <2> QED BY <1>2, <2>1, <2>2, FS_CardinalityType
<1> QED BY <1>1, <1>2, <1>3, <1>4, SameCardinality

\* What every list that may be in force gives a steady key.
LEMMA SteadyLimits ==
  ASSUME NEW k \in Tenants!Key, Tenants!Steady(k), NEW tc \in TenantCfgs
  PROVE  /\ Tenants!Limited(tc, k[1]) /\ Tenants!Limit(tc, k) \in Nat
         /\ Tenants!Limit(tc, k) > 0
BY LimitNumber DEF Tenants!Steady, Tenants!Limited

LEMMA SteadyKeys ==
  ASSUME NEW k \in Tenants!Key, Tenants!Steady(k), NEW u, Bears(u, k), NEW who \in Assigned(u)
  PROVE  k \in Tenants!Keys(who, u)
BY DEF Tenants!Steady, Bears, Assigned

\* The bound grows with the room that is left, ...
LEMMA Multiples ==
  ASSUME NEW c \in Nat, NEW m \in Nat, NEW n \in Nat
  PROVE  /\ c * m \in Nat /\ (m <= n => c * m <= c * n)
         /\ m + 1 <= n => c * m + c <= c * n
<1>1. c * m \in Nat /\ (m <= n => c * m <= c * n)
  BY Smaller
<1>2. ASSUME m + 1 <= n PROVE c * m + c <= c * n
  <2>1. c * (m + 1) <= c * n
    BY <1>2, Smaller
  <2>2. c * (m + 1) = c * m + c
    OBVIOUS
  <2> QED BY <2>1, <2>2
<1> QED BY <1>1, <1>2

LEMMA MoreRoom ==
  ASSUME NEW k \in Tenants!Key, Tenants!Steady(k), NEW n \in Nat, NEW m \in Nat,
         NEW l \in Nat, NEW c \in 0..MaxCost, Bounded(k, n, m), m <= l,
         m + 1 <= l \/ c = 0
  PROVE  Bounded(k, n + c, l)
<1>1. PICK tc \in TenantCfgs : n < Tenants!Limit(tc, k) + MaxCost * m
  BY DEF Bounded
<1>2. Tenants!Limit(tc, k) \in Nat /\ MaxCost \in Nat
  BY SteadyLimits, SameCardinality
<1>3. /\ MaxCost * m \in Nat /\ MaxCost * l \in Nat /\ MaxCost * m <= MaxCost * l
      /\ m + 1 <= l => MaxCost * m + MaxCost <= MaxCost * l
  BY <1>2, Multiples
<1>4. n + c < Tenants!Limit(tc, k) + MaxCost * l
  <2> DEFINE x == MaxCost * m
             y == MaxCost * l
             z == Tenants!Limit(tc, k)
  <2>1. x \in Nat /\ y \in Nat /\ z \in Nat /\ x <= y /\ (m + 1 <= l => x + MaxCost <= y)
        /\ n < z + x
    BY <1>1, <1>2, <1>3
  <2> HIDE DEF x, y, z
  <2>2. n + c < z + y
    BY <1>2, <2>1
  <2> QED BY <2>2 DEF y, z
<1> QED BY <1>4 DEF Bounded

\* ... and what is below a limit is below the bound, in whatever room.
LEMMA AnyRoom ==
  ASSUME NEW k \in Tenants!Key, Tenants!Steady(k), NEW n \in Nat, NEW m \in Nat,
         NEW tc \in TenantCfgs, n < Tenants!Limit(tc, k)
  PROVE  Bounded(k, n, m)
<1>1. MaxCost * m \in Nat /\ Tenants!Limit(tc, k) \in Nat
  BY SteadyLimits, SameCardinality, Multiples
<1>2. n < Tenants!Limit(tc, k) + MaxCost * m
  BY <1>1
<1> QED BY <1>2 DEF Bounded

LEMMA SpendingForm ==
  SpendingHolds' <=>
    \A k \in Tenants!Key : Tenants!Steady(k) =>
      /\ Bounded(k, v6'[v5'][k], Cardinality(Handler) - Cardinality(Pending(v8', v5', k)))
      /\ CopyBounded(k, v7', v5')
      /\ \A h \in Handler : v8'[h].at \in {"open", "write"} => CopyBounded(k, v8'[h].copy, v5')
BY DEF SpendingHolds

LEMMA Used ==
  ASSUME QuotasHold, NEW k \in Tenants!Key
  PROVE  v6[v5][k] \in Nat
BY DEF QuotasHold, Tenants!Usage

LEMMA CopyWithin ==
  ASSUME QuotasHold, SpendingHolds, NEW k \in Tenants!Key, Tenants!Steady(k)
  PROVE  Bounded(k, v6[v5][k], Cardinality(Handler))
<1> DEFINE P == Pending(v8, v5, k)
<1>1. P \in SUBSET Handler /\ v6[v5][k] \in Nat
  BY Used DEF Pending
<1>2. Bounded(k, v6[v5][k], Cardinality(Handler) - Cardinality(P))
  BY DEF SpendingHolds
<1> HIDE DEF P
<1>3. /\ Cardinality(Handler) - Cardinality(P) \in Nat
      /\ Cardinality(Handler) - Cardinality(P) <= Cardinality(Handler)
      /\ Cardinality(Handler) \in Nat
  BY <1>1, Rooms, SameCardinality
<1>4. 0 \in 0..MaxCost
  BY SameCardinality
<1>5. Bounded(k, v6[v5][k] + 0, Cardinality(Handler))
  BY <1>1, <1>2, <1>3, <1>4, MoreRoom
<1>6. v6[v5][k] + 0 = v6[v5][k]
  BY <1>1
<1> QED BY <1>5, <1>6

\* It is the property.
LEMMA Overshoots ==
  ASSUME QuotasHold, SpendingHolds
  PROVE  Tenants!OvershootBounded
<1> SUFFICES ASSUME NEW k \in Tenants!Key, Tenants!Steady(k)
             PROVE  \E tc \in TenantCfgs :
                      v6[v5][k] < Tenants!Limit(tc, k) + MaxCost * Cardinality(Handler)
  BY SameCardinality DEF Tenants!OvershootBounded
<1> QED BY CopyWithin DEF Bounded

\* A handler that goes on may charge no key that it could not charge before, except one
\* whose quota was not exhausted.
LEMMA Going ==
  ASSUME QuotasHold, SpendingHolds, NEW h \in Handler, NEW new, v8' = [v8 EXCEPT ![h] = new],
         Sound(new, v5), v5' = v5, v6' = v6,
         v7' = v7 \/ v7' = Unreadable \/ (v8[h].at = "write" /\ v7' = v8[h].copy),
         \A k \in Tenants!Key : Tenants!Steady(k) /\ May(new, k, v5) =>
           May(v8[h], k, v5) \/ \E tc \in TenantCfgs : v6[v5][k] < Tenants!Limit(tc, k),
         \A k \in Tenants!Key : Tenants!Steady(k) /\ new.at \in {"open", "write"} =>
           CopyBounded(k, new.copy, v5)
  PROVE  SpendingHolds'
<1>0. v8'[h] = new /\ \A g \in Handler : g # h => v8'[g] = v8[g]
  BY HandlersKept
<1> SUFFICES ASSUME NEW k \in Tenants!Key, Tenants!Steady(k)
             PROVE  /\ Bounded(k, v6'[v5'][k],
                               Cardinality(Handler) - Cardinality(Pending(v8', v5', k)))
                    /\ CopyBounded(k, v7', v5')
                    /\ \A g \in Handler : v8'[g].at \in {"open", "write"}
                                            => CopyBounded(k, v8'[g].copy, v5')
  BY SpendingForm
<1>1. CopyBounded(k, v7', v5')
  BY DEF SpendingHolds, CopyBounded
<1>2. ASSUME NEW g \in Handler, v8'[g].at \in {"open", "write"}
      PROVE  CopyBounded(k, v8'[g].copy, v5')
  BY <1>0, <1>2 DEF SpendingHolds
<1> DEFINE P == Pending(v8, v5, k)
           Q == Pending(v8', v5', k)
<1>3. P \in SUBSET Handler /\ Q \in SUBSET Handler /\ v6[v5][k] \in Nat
  BY Used DEF Pending
<1>4. Bounded(k, v6'[v5'][k], Cardinality(Handler) - Cardinality(Q))
  <2>1. CASE \E tc \in TenantCfgs : v6[v5][k] < Tenants!Limit(tc, k)
    <3> HIDE DEF Q
    <3> QED BY <1>3, <2>1, Rooms, AnyRoom
  <2>2. CASE May(new, k, v5) => May(v8[h], k, v5)
    <3>1. Q \in SUBSET P
      BY <1>0, <2>2 DEF Pending
    <3>2. Bounded(k, v6[v5][k], Cardinality(Handler) - Cardinality(P))
      BY DEF SpendingHolds
    <3> HIDE DEF P, Q
    <3>3. /\ Cardinality(Handler) - Cardinality(P) \in Nat
          /\ Cardinality(Handler) - Cardinality(Q) \in Nat
          /\ Cardinality(Q) <= Cardinality(P)
      BY <1>3, <3>1, Rooms
    <3>4. Cardinality(Handler) - Cardinality(P) <= Cardinality(Handler) - Cardinality(Q)
      <4>1. Cardinality(P) \in Nat /\ Cardinality(Q) \in Nat
        BY <1>3, SameCardinality, FS_Subset, FS_CardinalityType
      <4> QED BY <3>3, <4>1, SameCardinality
    <3>5. 0 \in 0..MaxCost
      BY SameCardinality
    <3>6. Bounded(k, v6[v5][k] + 0, Cardinality(Handler) - Cardinality(Q))
      BY <1>3, <3>2, <3>3, <3>4, <3>5, MoreRoom
    <3>7. v6[v5][k] + 0 = v6'[v5'][k]
      BY <1>3
    <3> QED BY <3>6, <3>7
  <2> QED BY <2>1, <2>2
<1> QED BY <1>1, <1>2, <1>4

LEMMA ChargeSpends ==
  ASSUME ConfigHolds, QuotasHold, SpendingHolds, NEW h \in Handler, Tenants!Charge(h), v5' = v5
  PROVE  SpendingHolds'
<1> DEFINE a == v8[h]
<1>0. /\ v7' = v7 /\ a \in Charging(v5) /\ a.at = "charge"
      /\ v8'[h] = [at |-> "copy"] /\ \A g \in Handler : g # h => v8'[g] = v8[g]
  BY ChargeStep, HandlersKept DEF Tenants!Charge
<1>1. \A g \in Handler : v8'[g].at \in {"open", "write"} => g # h
  BY <1>0
<1> SUFFICES ASSUME NEW k \in Tenants!Key, Tenants!Steady(k)
             PROVE  Bounded(k, v6'[v5'][k],
                            Cardinality(Handler) - Cardinality(Pending(v8', v5', k)))
  BY <1>0, <1>1, SpendingForm DEF SpendingHolds
<1> DEFINE P == Pending(v8, v5, k)
           Q == Pending(v8', v5', k)
<1>2. ~May([at |-> "copy"], k, v5)
  BY DEF May
<1>3. P \in SUBSET Handler /\ Q \in SUBSET (P \ {h})
  BY <1>0, <1>2 DEF Pending
<1>4. v6[v5][k] \in Nat /\ a.cost \in 0..MaxCost /\ 0 \in 0..MaxCost /\ v5 \in Tenants!Day
  BY <1>0, Used, SameCardinality DEF Charging, QuotasHold
<1>5. v6'[v5'][k] = IF v5 # a.day THEN 0
                    ELSE v6[v5][k] + (IF k \in Tenants!Keys(a.who, a.user) THEN a.cost ELSE 0)
  BY <1>4, ChargeStep
<1>6. Bounded(k, v6[v5][k], Cardinality(Handler) - Cardinality(P))
  BY DEF SpendingHolds
<1>7. a.day = v5 /\ k \in Tenants!Keys(a.who, a.user) => h \in P
  BY <1>0 DEF Pending, May
<1> HIDE DEF P, Q, a
<1>8. /\ Cardinality(Handler) - Cardinality(P) \in Nat
      /\ Cardinality(Handler) - Cardinality(Q) \in Nat
      /\ Cardinality(Handler) - Cardinality(P) <= Cardinality(Handler) - Cardinality(Q)
      /\ h \in P => Cardinality(Handler) - Cardinality(Q)
                      >= Cardinality(Handler) - Cardinality(P) + 1
  <2>1. Q \in SUBSET P /\ Q \in SUBSET Handler
    BY <1>3
  <2>2. Cardinality(P) \in Nat /\ Cardinality(Q) \in Nat /\ Cardinality(Q) <= Cardinality(P)
    BY <1>3, <2>1, Rooms, SameCardinality, FS_Subset, FS_CardinalityType
  <2> QED BY <1>3, <2>1, <2>2, Rooms, SameCardinality
<1>9. CASE v5 # a.day
  <2>1. 0 < Tenants!Limit(v2, k) /\ v2 \in TenantCfgs
    BY SteadyLimits DEF ConfigHolds
  <2> QED BY <1>5, <1>8, <1>9, <2>1, AnyRoom DEF Q
<1>10. CASE v5 = a.day /\ k \in Tenants!Keys(a.who, a.user)
  <2>1. Bounded(k, v6[v5][k] + a.cost, Cardinality(Handler) - Cardinality(Q))
    BY <1>4, <1>6, <1>7, <1>8, <1>10, MoreRoom
  <2> QED BY <1>5, <1>10, <2>1 DEF Q
<1>11. CASE v5 = a.day /\ k \notin Tenants!Keys(a.who, a.user)
  <2>1. Bounded(k, v6[v5][k] + 0, Cardinality(Handler) - Cardinality(Q))
    BY <1>4, <1>6, <1>8, MoreRoom
  <2> QED BY <1>5, <1>11, <2>1 DEF Q
<1> QED BY <1>9, <1>10, <1>11

LEMMA SpendingKeeps ==
  ASSUME ConfigHolds, QuotasHold, SpendingHolds, Tenants!Next
  PROVE  SpendingHolds'
<1>1. ASSUME NEW h \in Handler, Tenants!Request(h) PROVE SpendingHolds'
  <2>0. v5' = v5
    BY <1>1, RequestsLeave
  <2>1. CASE \E u \in User : Tenants!Arrive(h, u)
    <3>1. PICK new : /\ v8' = [v8 EXCEPT ![h] = new] /\ Sound(new, v5)
                     /\ new.at = "check" /\ new.day = v5
                     /\ v6' = v6 /\ v7' = v7
      BY <2>1, ArriveStep
    <3>2. \A k : ~May(new, k, v5)
      BY <3>1 DEF May
    <3> QED BY <2>0, <3>1, <3>2, Going
  <2>2. CASE Tenants!Check(h)
    <3>1. v6' = v6 /\ v7' = v7 /\ v8[h].at = "check"
      BY <2>2, CheckStep
    <3>2. PICK new : /\ v8' = [v8 EXCEPT ![h] = new] /\ Sound(new, v5)
                     /\ \/ new.at = "idle"
                        \/ /\ new.at = "call" /\ new.user = v8[h].user
                           /\ ~Tenants!Exhausted(v8[h].who, v8[h].user, v8[h].day)
      BY <2>2, CheckStep
    <3>3. ASSUME NEW k \in Tenants!Key, Tenants!Steady(k), May(new, k, v5)
          PROVE  May(v8[h], k, v5) \/ \E tc \in TenantCfgs : v6[v5][k] < Tenants!Limit(tc, k)
      <4>1. /\ new.at = "call" /\ Bears(v8[h].user, k)
            /\ ~Tenants!Exhausted(v8[h].who, v8[h].user, v8[h].day)
        BY <3>2, <3>3 DEF May
      <4>2. CASE v8[h].day # v5
        BY <3>1, <4>1, <4>2 DEF May
      <4>3. CASE v8[h].day = v5
        <5>1. v8[h].who \in Assigned(v8[h].user)
          BY <3>1, Sounds, Days DEF QuotasHold
        <5>2. k \in Tenants!Keys(v8[h].who, v8[h].user)
          BY <3>3, <4>1, <5>1, SteadyKeys
        <5>3. k[1] = v8[h].who.tenant
          BY <5>2 DEF Tenants!Keys
        <5>4. /\ v2 \in TenantCfgs /\ Tenants!Limited(v2, k[1])
              /\ Tenants!Limit(v2, k) \in Nat /\ Tenants!Limit(v2, k) > 0
          BY <3>3, SteadyLimits DEF ConfigHolds
        <5>5. ~(v6[v5][k] >= Tenants!Limit(v2, k))
          BY <4>1, <4>3, <5>2, <5>3, <5>4 DEF Tenants!Exhausted
        <5> QED BY <3>3, <5>4, <5>5, Used
      <4> QED BY <4>2, <4>3
    <3>4. new.at \notin {"open", "write"}
      BY <3>2
    <3> QED BY <2>0, <3>1, <3>2, <3>3, <3>4, Going
  <2>3. CASE Tenants!Uncharged(h) \/ Tenants!WriteFile(h)
    <3>1. \A k : ~May(Tenants!Idle, k, v5)
      BY DEF May, Tenants!Idle
    <3> QED BY <2>0, <2>3, <3>1, IdleStep, Going
  <2>4. CASE Tenants!Answer(h)
    <3>1. v6' = v6 /\ v7' = v7 /\ v8[h].at = "call"
      BY <2>4, AnswerStep
    <3>2. PICK new : /\ v8' = [v8 EXCEPT ![h] = new] /\ Sound(new, v5)
                     /\ new.at = "charge" /\ new.user = v8[h].user /\ new.day = v5
      BY <2>4, AnswerStep
    <3>3. ASSUME NEW k, May(new, k, v5) PROVE May(v8[h], k, v5)
      <4>1. new.who \in Assigned(v8[h].user) /\ k \in Tenants!Keys(new.who, v8[h].user)
        BY <3>2, <3>3, Sounds, Days DEF May
      <4> QED BY <3>1, <4>1 DEF May, Bears
    <3>4. new.at \notin {"open", "write"}
      BY <3>2
    <3> QED BY <2>0, <3>1, <3>2, <3>3, <3>4, Going
  <2>5. CASE Tenants!Charge(h)
    BY <2>0, <2>5, ChargeSpends
  <2>6. CASE Tenants!TakeCopy(h)
    <3> DEFINE new == [at |-> "open", copy |-> Tenants!Copied]
    <3>1. v6' = v6 /\ v7' = v7 /\ v8' = [v8 EXCEPT ![h] = new] /\ Sound(new, v5)
      BY <2>6, CopyStep
    <3>2. \A k : ~May(new, k, v5)
      BY DEF May
    <3>3. new.copy = Tenants!Copied /\ Tenants!Copied.usage = v6[v5]
      BY DEF Tenants!Copied
    <3> HIDE DEF new
    <3>4. ASSUME NEW k \in Tenants!Key, Tenants!Steady(k)
          PROVE  CopyBounded(k, new.copy, v5)
      BY <3>3, <3>4, CopyWithin DEF CopyBounded
    <3> QED BY <2>0, <3>1, <3>2, <3>4, Going
  <2>7. CASE Tenants!OpenFile(h)
    <3>1. v6' = v6 /\ v7' = Unreadable /\ v8[h].at = "open"
      BY <2>7, OpenStep
    <3>2. PICK new : /\ v8' = [v8 EXCEPT ![h] = new] /\ Sound(new, v5)
                     /\ new.at = "write" /\ new.copy = v8[h].copy
      BY <2>7, OpenStep
    <3>3. \A k : ~May(new, k, v5)
      BY <3>2 DEF May
    <3>4. ASSUME NEW k \in Tenants!Key, Tenants!Steady(k)
          PROVE  CopyBounded(k, new.copy, v5)
      BY <3>1, <3>2, <3>4 DEF SpendingHolds
    <3> QED BY <2>0, <3>1, <3>2, <3>3, <3>4, Going
  <2>8. CASE Tenants!Unwritten(h)
    <3>1. \A k : ~May(Tenants!Idle, k, v5)
      BY DEF May, Tenants!Idle
    <3> QED BY <2>0, <2>8, <3>1, LostStep, Going
  <2> QED BY <1>1, <2>1, <2>2, <2>3, <2>4, <2>5, <2>6, <2>7, <2>8 DEF Tenants!Request
<1>2. CASE Tenants!Reload
  BY <1>2, ReloadsLeave, SpendingForm DEF SpendingHolds
\* Nothing is used yet, or what may be charged is not known to the process any more.
<1>3. ASSUME NEW k \in Tenants!Key, Tenants!Steady(k)
      PROVE  \A P \in SUBSET Handler :
               Bounded(k, 0, Cardinality(Handler) - Cardinality(P))
  <2>1. 0 < Tenants!Limit(v2, k) /\ v2 \in TenantCfgs
    BY <1>3, SteadyLimits DEF ConfigHolds
  <2> QED BY <1>3, <2>1, Rooms, AnyRoom
<1>4. CASE Tenants!Midnight
  <2>1. v5' = v5 + 1 /\ v6' = v6 /\ v7' = v7 /\ v8' = v8
        /\ v5' \in Tenants!Day /\ v5 \in Nat
    BY <1>4, Days, TenantsAssumed
    DEF Tenants!Midnight, QuotasHold, Tenants!Day, Tenants!BoundAssumption
  <2>2. \A k \in Tenants!Key : v6'[v5'][k] = 0
    BY <2>1, Days DEF QuotasHold, Tenants!Day
  <2>3. \A k, c : c \in CopyUpTo(v5) \cup {Unreadable} => CopyBounded(k, c, v5')
    BY <2>1 DEF CopyUpTo, CopyBounded
  <2>4. \A k : CopyBounded(k, v7', v5')
    BY <2>1, <2>3 DEF QuotasHold
  <2>5. ASSUME NEW h \in Handler, v8'[h].at \in {"open", "write"}, NEW k
        PROVE  CopyBounded(k, v8'[h].copy, v5')
    <3>1. v8[h].copy \in CopyUpTo(v5)
      BY <2>1, <2>5, Sounds DEF QuotasHold
    <3> QED BY <2>1, <2>3, <3>1
  <2>6. \A k : Pending(v8', v5', k) \in SUBSET Handler
    BY DEF Pending
  <2> QED BY <1>3, <2>2, <2>4, <2>5, <2>6, SpendingForm
<1>5. CASE Tenants!Restart
  <2>1. /\ v5' = v5 /\ v7' = v7 /\ v6' = Tenants!Restored
        /\ v8' = [h \in Handler |-> Tenants!Idle]
    BY <1>5 DEF Tenants!Restart
  <2>2. \A h \in Handler : v8'[h].at = "idle"
    BY <2>1 DEF Tenants!Idle
  <2>3. \A k : Pending(v8', v5', k) = {}
    BY <2>2 DEF Pending, May
  <2>4. v6'[v5'] = FromCopy(v7, v5)
    BY <2>1, Days DEF Tenants!Restored, FromCopy, QuotasHold
  <2>5. ASSUME NEW k \in Tenants!Key, Tenants!Steady(k)
        PROVE  /\ Bounded(k, v6'[v5'][k], Cardinality(Handler) - Cardinality({}))
               /\ CopyBounded(k, v7', v5')
    <3>1. CopyBounded(k, v7, v5)
      BY <2>5 DEF SpendingHolds
    <3>2. CASE v7 # Unreadable /\ v7.day = v5
      <4>1. Bounded(k, v6'[v5'][k], Cardinality(Handler))
        BY <2>4, <3>1, <3>2 DEF FromCopy, CopyBounded
      <4>2. Cardinality(Handler) - Cardinality({}) = Cardinality(Handler)
        BY FS_EmptySet, SameCardinality
      <4> QED BY <2>1, <3>1, <4>1, <4>2
    <3>3. CASE ~(v7 # Unreadable /\ v7.day = v5)
      <4>1. v6'[v5'][k] = 0
        BY <2>4, <2>5, <3>3, Days DEF FromCopy
      <4> QED BY <1>3, <2>1, <2>5, <3>1, <4>1
    <3> QED BY <3>2, <3>3
  <2> QED BY <2>2, <2>3, <2>5, SpendingForm
<1> QED BY <1>1, <1>2, <1>4, <1>5 DEF Tenants!Next

\* At the start.
LEMMA TenantsStart ==
  ASSUME Tenants!Init
  PROVE  ConfigHolds /\ PlacedHolds /\ QuotasHold /\ FileHolds /\ SpendingHolds
<1>1. PICK us \in UserTables, tc \in TenantCfgs :
        /\ Tenants!Placed(us, tc) /\ Tenants!Valid(tc) /\ v1 = us /\ v2 = tc
  BY DEF Tenants!Init
<1>2. v3 = v1 /\ v4 = Tenants!Ready /\ v10 = FALSE
  BY DEF Tenants!Init
<1>3. v4.at # "users" /\ v4.at # "tenants"
  BY <1>2 DEF Tenants!Ready
<1>4. ConfigHolds /\ PlacedHolds
  BY <1>1, <1>2, <1>3 DEF ConfigHolds, PlacedHolds
<1>5. /\ v5 = 1 /\ v6 = [d \in Tenants!Day |-> Tenants!Zero] /\ v7 = Unreadable
      /\ v8 = [h \in Handler |-> Tenants!Idle]
  BY DEF Tenants!Init
<1>6. v5 \in Tenants!Day
  BY <1>5, TenantsAssumed DEF Tenants!Day, Tenants!BoundAssumption
<1>7. v6 \in [Tenants!Day -> Tenants!Usage]
  BY <1>5 DEF Tenants!Zero, Tenants!Usage
<1>8. \A h \in Handler : Sound(v8[h], v5) /\ v8[h].at = "idle" /\ v8[h] = Tenants!Idle
  BY <1>5 DEF Sound, Tenants!Idle
<1>9. QuotasHold
  BY <1>5, <1>6, <1>7, <1>8 DEF QuotasHold
<1>10. v6[v5] = Tenants!Zero
  BY <1>5, <1>6
<1>11. FileHolds
  BY <1>5, <1>8, <1>10 DEF FileHolds, FromCopy, Tenants!Writing
<1>12. SpendingHolds
  <2> SUFFICES ASSUME NEW k \in Tenants!Key, Tenants!Steady(k)
               PROVE  Bounded(k, v6[v5][k],
                              Cardinality(Handler) - Cardinality(Pending(v8, v5, k)))
    BY <1>5, <1>8 DEF SpendingHolds, CopyBounded
  <2>1. v6[v5][k] = 0 /\ Pending(v8, v5, k) \in SUBSET Handler
    BY <1>9, <1>10, Days DEF Pending
  <2>2. 0 < Tenants!Limit(v2, k) /\ v2 \in TenantCfgs
    BY <1>4, SteadyLimits DEF ConfigHolds
  <2> QED BY <2>1, <2>2, Rooms, AnyRoom
<1> QED BY <1>4, <1>9, <1>11, <1>12

\* All of it, at the start and after every step.
TenantsHold == ConfigHolds /\ PlacedHolds /\ QuotasHold /\ FileHolds /\ SpendingHolds

LEMMA TenantsKeep == TenantsHold /\ Tenants!Next => TenantsHold'
BY ConfigKeeps, QuotasKeep, FileKeeps, SpendingKeeps DEF TenantsHold

-----------------------------------------------------------------------------
(* Updates. *)

LEMMA UpdateAssumed == Installer!VersionAssumption /\ Installer!JobAssumption
BY ServicesAssumption

\* A version that may be started: installed by hand, or with a whole binary in its place.
Good(v) == v \in Version => v2[v].whole
GoodAll(s) == \A i \in 1..Len(s) : Good(s[i])

\* Until two jobs meet: one is at work, it has a whole file beside its place when it has
\* downloaded one, and a whole file in its place from then on; and so have all versions
\* that the pointer, the process, the history, and what was read of it lead to.
Alone == \A i, j \in Job : v6[i] # Installer!Idle /\ v6[j] # Installer!Idle => i = j
Sure(j) ==
  /\ v6[j].at = "write" => v3[v6[j].version].by = j
  /\ v6[j].at = "downloaded" => v3[v6[j].version].whole
  /\ v6[j].at \in {"staged", "unlinked", "switched", "read"} => v2[v6[j].version].whole
  /\ v6[j].at = "read" => GoodAll(v6[j].old)
Led ==
  /\ Good(v4) /\ Good(v1)
  /\ v5 # Installer!Torn => GoodAll(v5)

UpdateHolds ==
  /\ Installer!TypeOK
  /\ ~v7 => Alone /\ Led /\ \A j \in Job : Sure(j)

LEMMA UpdateStarts == Installer!Init => UpdateHolds
<1> SUFFICES ASSUME Installer!Init PROVE UpdateHolds
  OBVIOUS
<1> USE UpdateAssumed DEF Installer!Init, Installer!VersionAssumption
<1>1. v2 \in [Version -> Installer!File \cup {Installer!NoDir}] /\ v3 \in [Version -> Installer!File]
  BY DEF Installer!File
<1>2. v5 = Installer!Torn \/ v5 \in Seq(Version)
  OBVIOUS
<1>3. Installer!TypeOK
  BY <1>1, <1>2 DEF Installer!TypeOK
<1>4. Led /\ Alone /\ \A j \in Job : Sure(j)
  BY DEF Led, Good, GoodAll, Alone, Sure, Installer!None, Installer!Idle
<1> QED BY <1>3, <1>4 DEF UpdateHolds

\* What a file is after a job has finished or left it: still a file, and whole if it was.
LEMMA Finishes ==
  ASSUME NEW f \in Installer!File \cup {Installer!NoDir}, NEW j \in Job
  PROVE  /\ Installer!Finished(f, j) \in Installer!File \cup {Installer!NoDir}
         /\ f \in Installer!File => Installer!Finished(f, j) \in Installer!File
         /\ f.whole => Installer!Finished(f, j).whole
         /\ f.by = j => Installer!Finished(f, j).whole
<1>1. CASE f.by # j
  BY <1>1 DEF Installer!Finished
<1>2. CASE f.by = j
  <2>1. f \in [by : Job \cup {"nobody"}, whole : BOOLEAN]
    BY <1>2, UpdateAssumed
    DEF Installer!File, Installer!NoDir, Installer!Absent, Installer!JobAssumption
  <2>2. /\ [f EXCEPT !.whole = TRUE] \in [by : Job \cup {"nobody"}, whole : BOOLEAN]
        /\ [f EXCEPT !.whole = TRUE].whole
    BY <2>1
  <2> QED BY <1>2, <2>2 DEF Installer!Finished, Installer!File
<1> QED BY <1>1, <1>2

LEMMA JobLeaves ==
  ASSUME NEW f \in Installer!File \cup {Installer!NoDir}
  PROVE  /\ Installer!Left(f, Job) \in Installer!File \cup {Installer!NoDir}
         /\ f \in Installer!File => Installer!Left(f, Job) \in Installer!File
         /\ Installer!Left(f, Job).whole = f.whole
         /\ \A j \in Job :
              /\ Installer!Left(f, {j}) \in Installer!File \cup {Installer!NoDir}
              /\ f \in Installer!File => Installer!Left(f, {j}) \in Installer!File
              /\ Installer!Left(f, {j}).whole = f.whole
<1>1. CASE f.by \notin Job
  BY <1>1 DEF Installer!Left
<1>2. CASE f.by \in Job
  <2>1. f \in [by : Job \cup {"nobody"}, whole : BOOLEAN]
    BY <1>2, UpdateAssumed
    DEF Installer!File, Installer!NoDir, Installer!Absent, Installer!JobAssumption
  <2>2. /\ [f EXCEPT !.by = "nobody"] \in [by : Job \cup {"nobody"}, whole : BOOLEAN]
        /\ [f EXCEPT !.by = "nobody"].whole = f.whole
    BY <2>1
  <2> QED BY <1>2, <2>2 DEF Installer!Left, Installer!File
<1> QED BY <1>1, <1>2

\* A job goes on to another step, or is over.
LEMMA JobGoes ==
  ASSUME Installer!TypeOK, NEW j \in Job, v6[j].at # "idle",
         NEW at \in {"download", "write", "downloaded", "staged", "unlinked", "switched", "read"}
  PROVE  /\ v6[j] \in Installer!Working
         /\ v6[j].version \in Version
         /\ Installer!Goto(j, at) \in [Job -> {Installer!Idle} \cup Installer!Working]
         /\ [v6 EXCEPT ![j] = Installer!Idle] \in [Job -> {Installer!Idle} \cup Installer!Working]
BY DEF Installer!TypeOK, Installer!Working, Installer!Idle, Installer!Goto

\* The types, ...
LEMMA UpdateTypes ==
  ASSUME Installer!TypeOK, Installer!Next PROVE Installer!TypeOK'
<1> USE UpdateAssumed DEF Installer!TypeOK
<1> DEFINE Jobs == [Job -> {Installer!Idle} \cup Installer!Working]
           Dirs == [Version -> Installer!File \cup {Installer!NoDir}]
           Tmps == [Version -> Installer!File]
<1>a. \A v \in Version : Installer!Absent \in Installer!File
  BY DEF Installer!File
<1>1. ASSUME NEW j \in Job, NEW v \in Version, Installer!Begin(j, v) PROVE Installer!TypeOK'
  <2>1. v6' \in [Job -> {Installer!Idle} \cup Installer!Working]
    BY <1>1 DEF Installer!Begin, Installer!Apply, Installer!Working
  <2>2. v2' \in [Version -> Installer!File \cup {Installer!NoDir}]
    BY <1>1 DEF Installer!Begin, Installer!File
  <2>3. v7' \in BOOLEAN
    BY <1>1, Zenon DEF Installer!Begin, Installer!Busy
  <2> QED BY <1>1, <2>1, <2>2, <2>3 DEF Installer!Begin
<1>2. ASSUME NEW j \in Job, Installer!Open(j) PROVE Installer!TypeOK'
  BY <1>2 DEF Installer!Open, Installer!File, Installer!Goto, Installer!Working, Installer!Idle
<1>3. ASSUME NEW j \in Job, Installer!Copied(j) PROVE Installer!TypeOK'
  <2>1. v6' \in Jobs /\ v6[j].version \in Version
    BY <1>3, JobGoes DEF Installer!Copied
  <2>2. v2' \in Dirs /\ v3' \in Tmps
    BY <1>3, <2>1, Finishes DEF Installer!Copied
  <2> QED BY <1>3, <2>1, <2>2 DEF Installer!Copied
<1>4. ASSUME NEW j \in Job, Installer!Broken(j) PROVE Installer!TypeOK'
  <2>1. v6' \in Jobs /\ v6[j].version \in Version
    BY <1>4, JobGoes DEF Installer!Broken
  <2>2. v2' \in Dirs /\ v3' \in Tmps
    BY <1>4, <2>1, JobLeaves DEF Installer!Broken
  <2> QED BY <1>4, <2>1, <2>2 DEF Installer!Broken
<1>5. ASSUME NEW j \in Job, Installer!Refused(j) PROVE Installer!TypeOK'
  <2>1. v6' \in Jobs /\ v6[j].version \in Version
    BY <1>5, JobGoes DEF Installer!Refused
  <2> QED BY <1>5, <1>a, <2>1 DEF Installer!Refused, Installer!Removed
<1>6. ASSUME NEW j \in Job, Installer!Stage(j) PROVE Installer!TypeOK'
  <2>1. v6' \in Jobs /\ v6[j].version \in Version
    BY <1>6, JobGoes DEF Installer!Stage
  <2> QED BY <1>6, <1>a, <2>1 DEF Installer!Stage
<1>7. ASSUME NEW j \in Job, Installer!Unlink(j) PROVE Installer!TypeOK'
  <2>1. v6' \in Jobs
    BY <1>7, JobGoes DEF Installer!Unlink
  <2> QED BY <1>7, <2>1 DEF Installer!Unlink, Installer!files
<1>8. ASSUME NEW j \in Job, Installer!Link(j) PROVE Installer!TypeOK'
  <2>1. v6' \in Jobs /\ v6[j].version \in Version
    BY <1>8, JobGoes DEF Installer!Link
  <2> QED BY <1>8, <2>1 DEF Installer!Link, Installer!files
<1>9. ASSUME NEW j \in Job, Installer!Unlinkable(j) PROVE Installer!TypeOK'
  <2>1. v6' \in Jobs /\ v6[j].version \in Version
    BY <1>9, JobGoes DEF Installer!Unlinkable
  <2> QED BY <1>9, <1>a, <2>1 DEF Installer!Unlinkable, Installer!Removed
<1>10. ASSUME NEW j \in Job, Installer!Read(j) PROVE Installer!TypeOK'
  <2>1. v6[j] \in Installer!Working
    BY <1>10, JobGoes DEF Installer!Read
  <2>2. (IF v5 = Installer!Torn THEN <<>> ELSE v5) \in Seq(Version)
    OBVIOUS
  <2>3. v6' \in Jobs
    BY <1>10, <2>1, <2>2 DEF Installer!Read, Installer!Working
  <2> QED BY <1>10, <2>3 DEF Installer!Read, Installer!files
<1>11. ASSUME NEW j \in Job, Installer!Record(j) PROVE Installer!TypeOK'
  <2>1. v6' \in Jobs /\ v6[j].version \in Version /\ v6[j] \in Installer!Working
    BY <1>11, JobGoes DEF Installer!Record
  <2>2. v5' \in Seq(Version)
    BY <1>11, <2>1 DEF Installer!Record, Installer!Working
  <2> QED BY <1>11, <1>a, <2>1, <2>2 DEF Installer!Record, Installer!Removed
<1>12. ASSUME NEW j \in Job, Installer!Rollback(j) PROVE Installer!TypeOK'
  <2>1. v5 \in Seq(Version) /\ Len(v5) - 1 \in 1..Len(v5)
    BY <1>12 DEF Installer!Rollback
  <2>2. v5[Len(v5) - 1] \in Version
    BY <2>1
  <2>3. v6' \in Jobs
    BY <1>12, <2>2 DEF Installer!Rollback, Installer!Working
  <2>4. v7' \in BOOLEAN
    BY <1>12, Zenon DEF Installer!Rollback, Installer!Busy
  <2> QED BY <1>12, <2>3, <2>4 DEF Installer!Rollback, Installer!files
<1>13. ASSUME Installer!Stopped PROVE v6' \in Jobs /\ v2' \in Dirs /\ v3' \in Tmps
  BY <1>13, JobLeaves DEF Installer!Stopped
<1>14. ASSUME Installer!Crash PROVE Installer!TypeOK'
  BY <1>13, <1>14 DEF Installer!Crash
<1>15. ASSUME Installer!Start PROVE Installer!TypeOK'
  BY <1>13, <1>15 DEF Installer!Start
<1> QED
  BY <1>1, <1>2, <1>3, <1>4, <1>5, <1>6, <1>7, <1>8, <1>9, <1>10, <1>11, <1>12, <1>14, <1>15, Zenon
  DEF Installer!Next, Installer!Install, Installer!Switch

\* ... and what is led to.  No other job is at work beside one that was alone.
LEMMA Others ==
  ASSUME Alone, NEW j \in Job, v6[j] # Installer!Idle
  PROVE  \A i \in Job \ {j} : v6[i] = Installer!Idle
BY DEF Alone

LEMMA OneSure ==
  ASSUME NEW j \in Job, \A i \in Job \ {j} : v6'[i] = Installer!Idle, Sure(j)'
  PROVE  Alone' /\ \A i \in Job : Sure(i)'
BY DEF Alone, Sure, Installer!Idle

\* Where binaries stay whole, what was good stays good.
Rises == \A v \in Version : v2[v].whole => v2'[v].whole

LEMMA GoodStays ==
  ASSUME Rises
  PROVE  /\ \A v : Good(v) => Good(v)'
         /\ \A s : GoodAll(s) => GoodAll(s)'
BY DEF Rises, Good, GoodAll

LEMMA LedStays ==
  ASSUME Rises, Led, UNCHANGED <<v1, v4, v5>>
  PROVE  Led'
<1>1. Good(v1)' /\ Good(v4)'
  BY GoodStays DEF Led, Good
<1>2. v5 # Installer!Torn => GoodAll(v5)'
  BY GoodStays DEF Led, GoodAll
<1> QED BY <1>1, <1>2 DEF Led

LEMMA UpdateKeeps ==
  ASSUME UpdateHolds, Installer!Next
  PROVE  UpdateHolds'
<1>1. Installer!TypeOK'
  BY UpdateTypes DEF UpdateHolds
<1> SUFFICES ASSUME ~v7' PROVE Alone' /\ Led' /\ \A j \in Job : Sure(j)'
  BY <1>1 DEF UpdateHolds
<1> DEFINE Done == Alone' /\ Led' /\ \A j \in Job : Sure(j)'
<1> USE UpdateAssumed
<1>2. Installer!TypeOK
  BY DEF UpdateHolds
<1>3. ~v7 => Alone /\ Led /\ \A j \in Job : Sure(j)
  BY DEF UpdateHolds
<1>4. ASSUME NEW j \in Job, NEW v \in Version, Installer!Begin(j, v) PROVE Done
  <2>1. ~v7 /\ \A i \in Job \ {j} : v6'[i] = Installer!Idle
    BY <1>2, <1>4 DEF Installer!Begin, Installer!Busy, Installer!TypeOK
  <2>2. Sure(j)'
    BY <1>2, <1>4 DEF Installer!Begin, Installer!TypeOK, Installer!Apply, Sure
  <2>3. Rises
    BY <1>2, <1>4 DEF Installer!Begin, Installer!TypeOK, Rises, Installer!NoDir
  <2> QED BY <1>3, <1>4, <2>1, <2>2, <2>3, OneSure, LedStays DEF Installer!Begin
\* Of a job that was at work already.
<1>5. ASSUME NEW j \in Job, v6[j].at # "idle", ~v7,
             \A i \in Job \ {j} : v6'[i] = v6[i], Sure(j)', Led'
      PROVE  Done
  <2>1. v6[j] # Installer!Idle
    BY <1>5 DEF Installer!Idle
  <2> QED BY <1>3, <1>5, <2>1, Others, OneSure
<1>6. ASSUME NEW j \in Job, Installer!Open(j) PROVE Done
  <2>1. v6[j] \in Installer!Working /\ v6[j].version \in Version
    BY <1>2, <1>6, JobGoes DEF Installer!Open
  <2>2. Sure(j)'
    BY <1>2, <1>6, <2>1 DEF Installer!Open, Installer!Goto, Sure, Installer!TypeOK
  <2>3. Led'
    BY <1>3, <1>6, LedStays DEF Installer!Open, Rises
  <2> QED BY <1>2, <1>5, <1>6, <2>2, <2>3 DEF Installer!Open, Installer!Goto, Installer!TypeOK
<1>7. ASSUME NEW j \in Job, Installer!Copied(j) PROVE Done
  <2>1. v6[j] \in Installer!Working /\ v6[j].version \in Version
    BY <1>2, <1>7, JobGoes DEF Installer!Copied
  <2>2. Rises
    BY <1>2, <1>7, <2>1, Finishes DEF Installer!Copied, Installer!TypeOK, Rises
  <2>3. Sure(j)'
    <3>1. v3[v6[j].version] \in Installer!File /\ v3[v6[j].version].by = j
      BY <1>2, <1>3, <1>7, <2>1 DEF Installer!Copied, Installer!TypeOK, Sure
    <3>2. v3'[v6[j].version].whole
      BY <1>2, <1>7, <2>1, <3>1, Finishes DEF Installer!Copied, Installer!TypeOK
    <3> QED BY <1>2, <1>7, <2>1, <3>2 DEF Installer!Copied, Installer!Goto, Sure, Installer!TypeOK
  <2>4. Led'
    BY <1>3, <1>7, <2>2, LedStays DEF Installer!Copied
  <2> QED BY <1>2, <1>5, <1>7, <2>3, <2>4 DEF Installer!Copied, Installer!Goto, Installer!TypeOK
<1>8. ASSUME NEW j \in Job, v6[j].at # "idle", v6' = [v6 EXCEPT ![j] = Installer!Idle],
             ~v7, Led' PROVE Done
  BY <1>2, <1>5, <1>8 DEF Sure, Installer!Idle, Installer!TypeOK
<1>9. ASSUME NEW j \in Job, Installer!Broken(j) PROVE Done
  <2>1. v6[j].version \in Version
    BY <1>2, <1>9, JobGoes DEF Installer!Broken
  <2>2. Rises
    BY <1>2, <1>9, <2>1, JobLeaves DEF Installer!Broken, Installer!TypeOK, Rises
  <2> QED BY <1>3, <1>8, <1>9, <2>2, LedStays DEF Installer!Broken
<1>10. ASSUME NEW j \in Job, Installer!Refused(j) PROVE Done
  BY <1>3, <1>8, <1>10, LedStays DEF Installer!Refused, Rises
<1>11. ASSUME NEW j \in Job, Installer!Stage(j) PROVE Done
  <2>1. v6[j] \in Installer!Working /\ v6[j].version \in Version
    BY <1>2, <1>11, JobGoes DEF Installer!Stage
  <2>2. v2'[v6[j].version].whole
    BY <1>2, <1>3, <1>11, <2>1 DEF Installer!Stage, Installer!TypeOK, Sure
  <2>3. Rises
    BY <1>2, <1>11, <2>1, <2>2 DEF Installer!Stage, Installer!TypeOK, Rises
  <2>4. Sure(j)'
    BY <1>2, <1>11, <2>1, <2>2 DEF Installer!Stage, Installer!Goto, Sure, Installer!TypeOK
  <2>5. Led'
    BY <1>3, <1>11, <2>3, LedStays DEF Installer!Stage
  <2> QED BY <1>2, <1>5, <1>11, <2>4, <2>5 DEF Installer!Stage, Installer!Goto, Installer!TypeOK
<1>12. ASSUME NEW j \in Job, Installer!Unlink(j) PROVE Done
  <2>1. v6[j] \in Installer!Working /\ v6[j].version \in Version /\ Installer!None \notin Version
    BY <1>2, <1>12, JobGoes DEF Installer!Unlink, Installer!VersionAssumption, Installer!None
  <2>2. Sure(j)'
    BY <1>2, <1>3, <1>12, <2>1
    DEF Installer!Unlink, Installer!Goto, Installer!files, Sure, Installer!TypeOK
  <2>3. Rises
    BY <1>12 DEF Installer!Unlink, Installer!files, Rises
  <2>4. Led'
    BY <1>3, <1>12, <2>1, <2>3, GoodStays DEF Installer!Unlink, Led, Good, GoodAll
  <2> QED BY <1>2, <1>5, <1>12, <2>2, <2>4 DEF Installer!Unlink, Installer!Goto, Installer!TypeOK
<1>13. ASSUME NEW j \in Job, Installer!Link(j) PROVE Done
  <2>1. v6[j] \in Installer!Working /\ v6[j].version \in Version
    BY <1>2, <1>13, JobGoes DEF Installer!Link
  <2>2. Sure(j)'
    BY <1>2, <1>3, <1>13, <2>1
    DEF Installer!Link, Installer!Goto, Installer!files, Sure, Installer!TypeOK
  <2>3. Rises
    BY <1>13 DEF Installer!Link, Installer!files, Rises
  <2>4. Good(v4)'
    BY <1>3, <1>13, <2>1 DEF Installer!Link, Installer!files, Sure, Good
  <2>5. Led'
    BY <1>3, <1>13, <2>3, <2>4, GoodStays DEF Installer!Link, Led, Good, GoodAll
  <2> QED BY <1>2, <1>5, <1>13, <2>2, <2>5 DEF Installer!Link, Installer!Goto, Installer!TypeOK
<1>14. ASSUME NEW j \in Job, Installer!Unlinkable(j) PROVE Done
  BY <1>3, <1>8, <1>14, LedStays DEF Installer!Unlinkable, Rises
<1>15. ASSUME NEW j \in Job, Installer!Read(j) PROVE Done
  <2>1. v6[j] \in Installer!Working /\ v6[j].version \in Version
    BY <1>2, <1>15, JobGoes DEF Installer!Read
  <2> DEFINE old == IF v5 = Installer!Torn THEN <<>> ELSE v5
  <2>2. GoodAll(old)
    BY <1>3, <1>15 DEF Led, GoodAll, Installer!Read
  <2>3. v6'[j] = [v6[j] EXCEPT !.at = "read", !.old = old]
    BY <1>2, <1>15 DEF Installer!Read, Installer!TypeOK
  <2> HIDE DEF old
  <2>4. v6'[j].at = "read" /\ v6'[j].old = old /\ v6'[j].version = v6[j].version
    BY <2>1, <2>3 DEF Installer!Working
  <2>5. Rises /\ v2' = v2 /\ ~v7
    BY <1>15 DEF Installer!Read, Installer!files, Rises
  <2>6. v2[v6[j].version].whole
    BY <1>3, <1>15, <2>5 DEF Sure, Installer!Read
  <2>7. GoodAll(v6[j].old)'
    BY <2>2, <2>4, <2>5 DEF GoodAll, Good
  <2>8. Sure(j)'
    BY <2>4, <2>5, <2>6, <2>7 DEF Sure
  <2>9. Led'
    BY <1>3, <1>15, <2>5, LedStays DEF Installer!Read
  <2> QED BY <1>2, <1>5, <1>15, <2>8, <2>9 DEF Installer!Read, Installer!TypeOK
<1>16. ASSUME NEW j \in Job, Installer!Record(j) PROVE Done
  <2>1. v6[j] \in Installer!Working /\ v6[j].version \in Version /\ v6[j].old \in Seq(Version)
    BY <1>2, <1>16, JobGoes DEF Installer!Record, Installer!Working
  <2>2. GoodAll(v6[j].old) /\ Good(v6[j].version)
    BY <1>3, <1>16 DEF Installer!Record, Sure, Good
  <2>3. GoodAll(v5)'
    BY <1>16, <2>1, <2>2 DEF Installer!Record, GoodAll, Good
  <2>4. Led'
    BY <1>3, <1>16, <2>3 DEF Installer!Record, Led, Good
  <2> QED BY <1>8, <1>16, <2>4 DEF Installer!Record
<1>17. ASSUME NEW j \in Job, Installer!Rollback(j) PROVE Done
  <2>1. v5 \in Seq(Version) /\ Len(v5) - 1 \in 1..Len(v5) /\ ~v7
    BY <1>2, <1>17 DEF Installer!Rollback, Installer!TypeOK
  <2>2. v5[Len(v5) - 1] \in Version
    BY <2>1
  <2>3. v2[v5[Len(v5) - 1]].whole
    BY <1>3, <1>17, <2>1, <2>2 DEF Installer!Rollback, Led, GoodAll, Good
  <2>4. Sure(j)'
    BY <1>2, <1>17, <2>3 DEF Installer!Rollback, Installer!files, Installer!TypeOK, Sure
  <2>5. \A i \in Job \ {j} : v6'[i] = Installer!Idle
    BY <1>2, <1>17 DEF Installer!Rollback, Installer!Busy, Installer!TypeOK
  <2>6. Led'
    BY <1>3, <1>17, <2>1, LedStays DEF Installer!Rollback, Installer!files, Rises
  <2> QED BY <2>4, <2>5, <2>6, OneSure
<1>18. ASSUME Installer!Stopped PROVE Rises /\ Alone' /\ \A j \in Job : Sure(j)'
  <2>1. Rises
    BY <1>2, <1>18, JobLeaves DEF Installer!Stopped, Installer!TypeOK, Rises
  <2> QED BY <1>18, <2>1 DEF Installer!Stopped, Alone, Sure, Installer!Idle
<1>19. ASSUME Installer!Crash PROVE Done
  BY <1>3, <1>18, <1>19, GoodStays DEF Installer!Crash, Led, Good, GoodAll
<1>20. ASSUME Installer!Start PROVE Done
  BY <1>3, <1>18, <1>20, GoodStays DEF Installer!Start, Led, Good, GoodAll
<1> QED
  BY <1>4, <1>6, <1>7, <1>9, <1>10, <1>11, <1>12, <1>13, <1>14, <1>15, <1>16, <1>17, <1>19, <1>20,
     Zenon
  DEF Installer!Next, Installer!Install, Installer!Switch

\* What the pointer, the process and the history lead to is whole.
LEMMA UpdateWhole == UpdateHolds => Installer!CurrentIsWhole
BY DEF UpdateHolds, Led, Good, GoodAll, Installer!CurrentIsWhole

-----------------------------------------------------------------------------
(* The shared memory. *)

\* A set of numbers has a least one.
LEMMA Least ==
  ASSUME NEW T, T \subseteq Nat, T # {}
  PROVE  \E x \in T : \A y \in T : x <= y
<1> DEFINE U == {1..x : x \in T}
<1>1. IsWellFoundedOn(StrictSubsetOrdering(Nat), FiniteSubsetsOf(Nat))
  BY FS_StrictSubsetOrderingWellFounded
<1>2. U \subseteq FiniteSubsetsOf(Nat) /\ U # {}
  <2>1. \A x \in T : IsFiniteSet(1..x) /\ 1..x \subseteq Nat
    BY FS_Interval
  <2> QED BY <2>1 DEF FiniteSubsetsOf
<1>3. PICK I \in U : \A J \in U : ~ (<<J, I>> \in StrictSubsetOrdering(Nat))
  <2> HIDE DEF U
  <2> QED BY <1>1, <1>2, WFMin, Zenon
<1>4. PICK x \in T : I = 1..x
  BY <1>3
<1>5. ASSUME NEW y \in T, y < x PROVE FALSE
  <2>1. 1..y \in U
    OBVIOUS
  <2>2. 1..y \subseteq 1..x /\ 1..y \subseteq Nat /\ 1..x \subseteq Nat
    BY <1>5
  <2>3. x \in 1..x /\ x \notin 1..y
    BY <1>5
  <2>4. <<1..y, 1..x>> \in StrictSubsetOrdering(Nat)
    BY <2>2, <2>3, Zenon DEF StrictSubsetOrdering
  <2> QED BY <1>3, <1>4, <2>1, <2>4, Zenon
<1> QED BY <1>5

LEMMA MemoryAssumed == PerNS \subseteq Nat \ {0} /\ MaxWrites \in Nat
BY ServicesAssumption DEF Memory!LimitAssumption

LEMMA CountedInMemory == ASSUME NEW S PROVE Memory!Cardinality(S) = Cardinality(S)
BY Zenon DEF Memory!Cardinality, Cardinality, Memory!IsFiniteSet, IsFiniteSet

\* A name space of which all entries were written by now.
Written(m, now) ==
  /\ Memory!Fits(m) /\ IsFiniteSet(DOMAIN m)
  /\ \A k \in DOMAIN m : m[k].at <= now

MemoryHolds ==
  /\ DOMAIN v1 = Memory!NS /\ DOMAIN v4 = Memory!NS
  /\ \A n \in Memory!NS : Written(v1[n], v2) /\ Written(v4[n], v2)
  /\ v2 \in 0..MaxWrites /\ v3 \in 0..v2 /\ v5 \in BOOLEAN
  /\ Memory!KeptAcrossRestarts

\* An empty namespace, whatever was written.
LEMMA NothingKept == \A n : Written(<< >>, n)
<1>1. DOMAIN << >> = {}
  OBVIOUS
<1>2. << >> \in [{} -> Memory!Entry]
  OBVIOUS
<1> QED BY <1>1, <1>2, FS_EmptySet DEF Written, Memory!Fits

LEMMA MemoryStarts == Memory!Init => MemoryHolds
<1> SUFFICES ASSUME Memory!Init PROVE MemoryHolds
  OBVIOUS
<1>1. /\ v1 = [n \in Memory!NS |-> << >>] /\ v4 = [n \in Memory!NS |-> << >>]
      /\ v2 = 0 /\ v3 = 0 /\ v5 = FALSE
  BY DEF Memory!Init
<1>2. Written(<< >>, 0)
  BY NothingKept
<1>3. \A n \in Memory!NS : v1[n] = << >> /\ v4[n] = << >>
  BY <1>1
<1>4. Memory!KeptAcrossRestarts
  BY <1>3 DEF Memory!KeptAcrossRestarts
<1>5. \A n \in Memory!NS : Written(v1[n], v2) /\ Written(v4[n], v2)
  BY <1>1, <1>2, <1>3
<1>6. DOMAIN v1 = Memory!NS /\ DOMAIN v4 = Memory!NS
  BY <1>1
<1>7. v2 \in 0..MaxWrites /\ v3 \in 0..v2
  BY <1>1, MemoryAssumed
<1>8. v5 \in BOOLEAN
  BY <1>1
<1> QED BY <1>4, <1>5, <1>6, <1>7, <1>8 DEF MemoryHolds

\* The limit is that of the name space: what is left is less.
LEMMA Leaves ==
  ASSUME NEW m, NEW now, Written(m, now), NEW cap \in PerNS
  PROVE  /\ DOMAIN Memory!Evicted(m, cap) \subseteq DOMAIN m
         /\ IsFiniteSet(DOMAIN Memory!Evicted(m, cap))
         /\ Cardinality(DOMAIN Memory!Evicted(m, cap)) < cap
         /\ \A k \in DOMAIN Memory!Evicted(m, cap) : Memory!Evicted(m, cap)[k] = m[k]
<1> DEFINE K == {k \in DOMAIN m : Memory!Cardinality(Memory!Newer(m, k)) < cap - 1}
<1>1. /\ DOMAIN Memory!Evicted(m, cap) = K
      /\ \A k \in K : Memory!Evicted(m, cap)[k] = m[k]
  BY DEF Memory!Evicted, Memory!Restrict
<1>2. IsFiniteSet(DOMAIN m) /\ K \subseteq DOMAIN m
  BY DEF Written
<1>3. IsFiniteSet(K) /\ Cardinality(K) \in Nat
  BY <1>2, FS_Subset, FS_CardinalityType
<1>4. cap \in Nat /\ cap > 0
  BY MemoryAssumed
<1>5. CASE K = {}
  BY <1>1, <1>3, <1>4, <1>5, FS_EmptySet
<1>6. CASE K # {}
  <2>1. \A k \in K : m[k].at \in Nat
    BY <1>2, MemoryAssumed DEF Written, Memory!Fits, Memory!Entry
  <2> DEFINE T == {m[k].at : k \in K}
  <2>2. T \subseteq Nat /\ T # {}
    BY <1>6, <2>1
  <2>3. PICK t \in T : \A u \in T : t <= u
    <3> HIDE DEF T
    <3> QED BY <2>2, Least
  <2>4. PICK o \in K : \A k \in K : m[o].at <= m[k].at
    BY <2>3
  <2>5. K \ {o} \subseteq Memory!Newer(m, o)
    <3> SUFFICES ASSUME NEW k \in K, k # o PROVE k \in DOMAIN m /\ m[k].at > m[o].at
      BY DEF Memory!Newer
    <3>1. m[k].at # m[o].at
      BY <1>2 DEF Written, Memory!Fits
    <3> QED BY <2>1, <2>4, <3>1
  <2>6. IsFiniteSet(Memory!Newer(m, o))
    BY <1>2, FS_Subset DEF Memory!Newer
  <2>7. Cardinality(K \ {o}) <= Cardinality(Memory!Newer(m, o))
    BY <2>5, <2>6, FS_Subset
  <2>8. Cardinality(K \ {o}) = Cardinality(K) - 1
    BY <1>3, FS_RemoveElement
  <2>9. Cardinality(Memory!Newer(m, o)) < cap - 1 /\ Cardinality(Memory!Newer(m, o)) \in Nat
    BY <2>6, CountedInMemory, FS_CardinalityType
  <2> HIDE DEF K
  <2> QED BY <1>1, <1>2, <1>3, <1>4, <2>7, <2>8, <2>9
<1> QED BY <1>5, <1>6

LEMMA PartWritten ==
  ASSUME NEW m, NEW now, Written(m, now), NEW r, DOMAIN r \subseteq DOMAIN m,
         r = [k \in DOMAIN r |-> m[k]]
  PROVE  Written(r, now)
<1>1. IsFiniteSet(DOMAIN m) /\ IsFiniteSet(DOMAIN r)
      /\ Cardinality(DOMAIN r) <= Cardinality(DOMAIN m)
      /\ Cardinality(DOMAIN r) \in Nat /\ Cardinality(DOMAIN m) \in Nat
  BY FS_Subset, FS_CardinalityType DEF Written
<1>2. DOMAIN r = {} \/ \E cap \in PerNS : Cardinality(DOMAIN r) <= cap
  BY <1>1, MemoryAssumed, CountedInMemory DEF Written, Memory!Fits
<1>3. r \in [DOMAIN r -> Memory!Entry] /\ DOMAIN r \subseteq MemKey
  BY DEF Written, Memory!Fits
<1>4. /\ \A k, l \in DOMAIN r : r[k].at = r[l].at => k = l
      /\ \A k \in DOMAIN r : r[k].at <= now
  BY DEF Written, Memory!Fits
<1> QED BY <1>1, <1>2, <1>3, <1>4, CountedInMemory DEF Written, Memory!Fits

LEMMA PutWritten ==
  ASSUME NEW m, NEW now \in Nat, Written(m, now), now < MaxWrites,
         NEW cap \in PerNS, NEW k \in MemKey,
         NEW e \in Memory!Entry, e.at = now + 1
  PROVE  Written(Memory!Put(IF k \in DOMAIN m THEN m ELSE Memory!Evicted(m, cap), k, e), now + 1)
<1> DEFINE rest == IF k \in DOMAIN m THEN m ELSE Memory!Evicted(m, cap)
           new == Memory!Put(rest, k, e)
<1>1. Written(Memory!Evicted(m, cap), now)
  <2>1. Memory!Evicted(m, cap) = [l \in DOMAIN Memory!Evicted(m, cap) |-> m[l]]
    BY DEF Memory!Evicted, Memory!Restrict
  <2> QED BY <2>1, Leaves, PartWritten
<1>2. Written(rest, now)
  BY <1>1
<1>3. /\ DOMAIN new = DOMAIN rest \cup {k}
      /\ new = [l \in DOMAIN rest \cup {k} |-> IF l = k THEN e ELSE rest[l]]
  BY DEF Memory!Put
<1>4. \E c \in PerNS : Cardinality(DOMAIN new) <= c
  <2>1. CASE k \in DOMAIN m
    <3>1. DOMAIN new = DOMAIN m
      BY <1>3, <2>1
    <3> QED BY <2>1, <3>1, CountedInMemory DEF Written, Memory!Fits
  <2>2. CASE k \notin DOMAIN m
    <3>1. DOMAIN new = DOMAIN Memory!Evicted(m, cap) \cup {k}
      BY <1>3, <2>2
    <3>2. Cardinality(DOMAIN new) <= Cardinality(DOMAIN Memory!Evicted(m, cap)) + 1
      BY <3>1, Leaves, FS_AddElement, FS_CardinalityType
    <3>3. Cardinality(DOMAIN Memory!Evicted(m, cap)) < cap
          /\ Cardinality(DOMAIN Memory!Evicted(m, cap)) \in Nat
      BY Leaves, FS_CardinalityType
    <3>4. Cardinality(DOMAIN new) \in Nat
      BY <3>1, Leaves, FS_AddElement, FS_CardinalityType
    <3> QED BY <3>2, <3>3, <3>4, MemoryAssumed
  <2> QED BY <2>1, <2>2
<1> HIDE DEF rest
<1>5. /\ DOMAIN rest \subseteq MemKey /\ rest \in [DOMAIN rest -> Memory!Entry]
      /\ IsFiniteSet(DOMAIN rest)
      /\ \A i, j \in DOMAIN rest : rest[i].at = rest[j].at => i = j
      /\ \A i \in DOMAIN rest : rest[i].at <= now /\ rest[i].at \in Nat
  BY <1>2, MemoryAssumed DEF Written, Memory!Fits, Memory!Entry
<1>6. IsFiniteSet(DOMAIN new)
  BY <1>3, <1>5, FS_AddElement
<1> HIDE DEF new
<1>7. new \in [DOMAIN new -> Memory!Entry] /\ DOMAIN new \subseteq MemKey
  BY <1>3, <1>5
<1>8. \A i, j \in DOMAIN new : new[i].at = new[j].at => i = j
  BY <1>3, <1>5
<1>9. \A i \in DOMAIN new : new[i].at <= now + 1
  BY <1>3, <1>5
<1> QED
  BY <1>4, <1>6, <1>7, <1>8, <1>9, CountedInMemory DEF Written, Memory!Fits, new, rest

LEMMA LaterWritten ==
  ASSUME NEW m, NEW now \in Nat, Written(m, now)
  PROVE  Written(m, now + 1)
BY MemoryAssumed DEF Written, Memory!Fits, Memory!Entry

LEMMA ExpiredWritten ==
  ASSUME NEW m, NEW now, Written(m, now)
  PROVE  Written(Memory!Expired(m), now)
<1> DEFINE x == Memory!Expired(m)
<1>1. /\ DOMAIN x = DOMAIN m
      /\ \A k \in DOMAIN m : m[k] \in Memory!Entry /\ x[k] \in Memory!Entry /\ x[k].at = m[k].at
      /\ x = [k \in DOMAIN m |-> x[k]]
  BY DEF Memory!Expired, Written, Memory!Fits, Memory!Entry
<1> HIDE DEF x
<1>2. x \in [DOMAIN x -> Memory!Entry]
  BY <1>1
<1> QED BY <1>1, <1>2, CountedInMemory DEF Written, Memory!Fits, x

\* What readers find depends on what they found before only.
LEMMA ValidTwice == ASSUME NEW m PROVE Memory!Valid(Memory!Valid(m)) = Memory!Valid(m)
BY DEF Memory!Valid, Memory!Restrict

LEMMA ValidForm ==
  ASSUME NEW a, NEW b
  PROVE  Memory!Valid(a) = Memory!Valid(b) <=>
           /\ {k \in DOMAIN a : a[k].life # "past"} = {k \in DOMAIN b : b[k].life # "past"}
           /\ \A k \in DOMAIN a : a[k].life # "past" => a[k] = b[k]
BY DEF Memory!Valid, Memory!Restrict

LEMMA ValidExpires ==
  ASSUME NEW a, NEW b, NEW now, Written(a, now), Written(b, now),
         Memory!Valid(a) = Memory!Valid(b)
  PROVE  Memory!Valid(Memory!Expired(a)) = Memory!Valid(Memory!Expired(b))
<1> DEFINE x == Memory!Expired(a)
           y == Memory!Expired(b)
<1>1. /\ {k \in DOMAIN a : a[k].life # "past"} = {k \in DOMAIN b : b[k].life # "past"}
      /\ \A k \in DOMAIN a : a[k].life # "past" => a[k] = b[k]
  BY ValidForm
<1>2. /\ DOMAIN x = DOMAIN a /\ DOMAIN y = DOMAIN b
      /\ \A k \in DOMAIN x : x[k] = IF a[k].life = "soon" THEN [a[k] EXCEPT !.life = "past"] ELSE a[k]
      /\ \A k \in DOMAIN y : y[k] = IF b[k].life = "soon" THEN [b[k] EXCEPT !.life = "past"] ELSE b[k]
  BY DEF Memory!Expired
<1>3. (\A k \in DOMAIN a : a[k] \in Memory!Entry) /\ (\A k \in DOMAIN b : b[k] \in Memory!Entry)
  BY DEF Written, Memory!Fits
<1> HIDE DEF x, y
<1>4. \A k \in DOMAIN x : x[k].life # "past" <=> a[k].life = "ever"
  BY <1>2, <1>3 DEF Memory!Entry
<1>5. \A k \in DOMAIN y : y[k].life # "past" <=> b[k].life = "ever"
  BY <1>2, <1>3 DEF Memory!Entry
<1>6. {k \in DOMAIN x : x[k].life # "past"} = {k \in DOMAIN y : y[k].life # "past"}
  BY <1>1, <1>2, <1>4, <1>5
<1>7. \A k \in DOMAIN x : x[k].life # "past" => x[k] = y[k]
  BY <1>1, <1>2, <1>4, <1>5
<1> QED BY <1>6, <1>7, ValidForm DEF x, y

LEMMA MemoryKeeps == MemoryHolds /\ Memory!Next => MemoryHolds'
<1> SUFFICES ASSUME MemoryHolds, Memory!Next PROVE MemoryHolds'
  OBVIOUS
<1> USE MemoryAssumed
<1>0. /\ DOMAIN v1 = Memory!NS /\ DOMAIN v4 = Memory!NS
      /\ \A n \in Memory!NS : Written(v1[n], v2) /\ Written(v4[n], v2)
      /\ v2 \in 0..MaxWrites /\ v3 \in 0..v2 /\ v5 \in BOOLEAN
      /\ ~v5 => \A n \in Memory!NS : Memory!Valid(v1[n]) = Memory!Valid(v4[n])
  BY DEF MemoryHolds, Memory!KeptAcrossRestarts
\* A change is saved, or known not to be.
<1>1. ASSUME Memory!Save, v2' \in v2..MaxWrites, v3' \in 0..v2', DOMAIN v1' = Memory!NS,
             \A n \in Memory!NS : Written(v1'[n], v2'),
             \A n \in Memory!NS : Written(v4[n], v2')
      PROVE  MemoryHolds'
  <2>1. (v4' = v1' /\ v5' = FALSE) \/ (v4' = v4 /\ v5' = TRUE)
    BY <1>1 DEF Memory!Save
  <2>2. DOMAIN v4' = Memory!NS /\ \A n \in Memory!NS : Written(v4'[n], v2')
    BY <1>0, <1>1, <2>1
  <2>3. ~v5' => \A n \in Memory!NS : Memory!Valid(v1'[n]) = Memory!Valid(v4'[n])
    BY <2>1
  <2>4. v5' \in BOOLEAN
    BY <2>1
  <2> QED BY <1>0, <1>1, <2>2, <2>3, <2>4 DEF MemoryHolds, Memory!KeptAcrossRestarts
<1>2. ASSUME NEW u \in Member, NEW n \in Memory!NS, NEW k \in MemKey, NEW t \in Text,
             NEW life \in {"ever", "soon"}, NEW cap \in PerNS, NEW total \in MaxKeys,
             Memory!Set(u, n, k, [text |-> t, at |-> v2 + 1, rev |-> v3 + 1, life |-> life],
                        cap, total)
      PROVE  MemoryHolds'
  <2>1. PICK e : e = [text |-> t, at |-> v2 + 1, rev |-> v3 + 1, life |-> life]
    OBVIOUS
  <2>2. /\ v2 < MaxWrites /\ v2' = v2 + 1 /\ v3' = v3 + 1 /\ Memory!Save
        /\ v1' = [v1 EXCEPT ![n] = Memory!Put(
              IF k \in DOMAIN v1[n] THEN v1[n] ELSE Memory!Evicted(v1[n], cap), k, e)]
    BY <1>0, <1>2, <2>1 DEF Memory!Set
  <2>3. e \in Memory!Entry /\ e.at = v2 + 1
    BY <1>0, <2>1, <2>2 DEF Memory!Entry
  <2>4. Written(v1'[n], v2 + 1)
    BY <1>0, <2>2, <2>3, PutWritten
  <2>5. \A x \in Memory!NS : Written(v1[x], v2 + 1) /\ Written(v4[x], v2 + 1)
    BY <1>0, LaterWritten
  <2>6. \A x \in Memory!NS : Written(v1'[x], v2')
    BY <1>0, <2>2, <2>4, <2>5
  <2>7. DOMAIN v1' = Memory!NS
    BY <1>0, <2>2
  <2> QED BY <1>0, <1>1, <2>2, <2>5, <2>6, <2>7
<1>3. ASSUME NEW u \in Member, NEW n \in Memory!NS, NEW k \in MemKey, Memory!Delete(u, n, k)
      PROVE  MemoryHolds'
  <2>1. /\ v1' = [v1 EXCEPT ![n] = Memory!Without(v1[n], k)]
        /\ Memory!Save /\ v2' = v2 /\ v3' = v3
    BY <1>0, <1>3 DEF Memory!Delete
  <2>2. Written(Memory!Without(v1[n], k), v2)
    <3> DEFINE r == Memory!Without(v1[n], k)
    <3>1. DOMAIN r \subseteq DOMAIN v1[n] /\ r = [l \in DOMAIN r |-> v1[n][l]]
      BY DEF Memory!Without, Memory!Restrict
    <3> HIDE DEF r
    <3> QED BY <1>0, <3>1, PartWritten DEF r
  <2>3. \A x \in Memory!NS : Written(v1'[x], v2')
    BY <1>0, <2>1, <2>2
  <2>4. DOMAIN v1' = Memory!NS
    BY <1>0, <2>1
  <2> QED BY <1>0, <1>1, <2>1, <2>3, <2>4
<1>4. CASE Memory!Sweep
  <2>1. /\ v1' = [n \in Memory!NS |-> Memory!Valid(v1[n])]
        /\ v2' = v2 /\ v3' = v3 /\ v4' = v4 /\ v5' = v5
    BY <1>4 DEF Memory!Sweep
  <2>2. ASSUME NEW n \in Memory!NS PROVE Written(Memory!Valid(v1[n]), v2)
    <3> DEFINE r == Memory!Valid(v1[n])
    <3>1. DOMAIN r \subseteq DOMAIN v1[n] /\ r = [l \in DOMAIN r |-> v1[n][l]]
      BY DEF Memory!Valid, Memory!Restrict
    <3> HIDE DEF r
    <3> QED BY <1>0, <3>1, PartWritten DEF r
  <2>3. DOMAIN v1' = Memory!NS /\ \A n \in Memory!NS : Written(v1'[n], v2')
    BY <2>1, <2>2
  <2>4. ~v5' => \A n \in Memory!NS : Memory!Valid(v1'[n]) = Memory!Valid(v4'[n])
    BY <1>0, <2>1, ValidTwice
  <2> QED BY <1>0, <2>1, <2>3, <2>4 DEF MemoryHolds, Memory!KeptAcrossRestarts
<1>5. CASE Memory!Expire
  <2>1. /\ v1' = [n \in Memory!NS |-> Memory!Expired(v1[n])]
        /\ v4' = [n \in Memory!NS |-> Memory!Expired(v4[n])]
        /\ v2' = v2 /\ v3' = v3 /\ v5' = v5
    BY <1>5 DEF Memory!Expire
  <2>2. /\ DOMAIN v1' = Memory!NS /\ DOMAIN v4' = Memory!NS
        /\ \A n \in Memory!NS : Written(v1'[n], v2') /\ Written(v4'[n], v2')
    BY <1>0, <2>1, ExpiredWritten
  <2>3. ~v5' => \A n \in Memory!NS : Memory!Valid(v1'[n]) = Memory!Valid(v4'[n])
    BY <1>0, <2>1, ValidExpires
  <2> QED BY <1>0, <2>1, <2>2, <2>3 DEF MemoryHolds, Memory!KeptAcrossRestarts
<1>6. CASE Memory!Restart
  <2>1. /\ v4' = v4 /\ v2' = v2 /\ v3' = 0
        /\ \/ v1' = v4 /\ v5' = FALSE
           \/ v1' = [n \in Memory!NS |-> << >>] /\ v5' = TRUE
    BY <1>6 DEF Memory!Restart
  <2>2. /\ DOMAIN v1' = Memory!NS /\ DOMAIN v4' = Memory!NS
        /\ \A n \in Memory!NS : Written(v1'[n], v2') /\ Written(v4'[n], v2')
        /\ v2' \in 0..MaxWrites /\ v3' \in 0..v2'
    <3>1. CASE v1' = v4
      BY <1>0, <2>1, <3>1
    <3>2. CASE v1' = [n \in Memory!NS |-> << >>]
      BY <1>0, <2>1, <3>2, NothingKept
    <3> QED BY <2>1, <3>1, <3>2
  <2>3. v5' \in BOOLEAN
    BY <2>1
  <2>4. ~v5' => \A n \in Memory!NS : Memory!Valid(v1'[n]) = Memory!Valid(v4'[n])
    BY <2>1
  <2> QED BY <2>2, <2>3, <2>4 DEF MemoryHolds, Memory!KeptAcrossRestarts
<1> QED
  BY <1>2, <1>3, <1>4, <1>5, <1>6 DEF Memory!Next, Memory!Write

LEMMA MemoryTypes == MemoryHolds => Memory!TypeOK
BY DEF MemoryHolds, Written, Memory!TypeOK

LEMMA MemoryKept == MemoryHolds => Memory!KeptAcrossRestarts
BY DEF MemoryHolds

-----------------------------------------------------------------------------
(* The vault. *)

Keyed(s) == [master : 0..Store(s)!Gone, salt : 0..Store(s)!Gone]
Sealed(s) == [name : Stores[s].names, value : Stores[s].secrets, key : Keyed(s)]

\* A key that is worth something is that of the files, which are whole.
Filed(s, key) ==
  Store(s)!Good(key) =>
    key = Store(s)!Derivation(v1.master, v1.salt) /\ Store(s)!Whole(v1.master)

\* What is in memory was read from the files or written to them, unless it was wiped.
FilesHold(s) ==
  /\ v1 \in [salt : 0..Store(s)!Torn, master : 0..Store(s)!Torn]
  /\ v3 \in 0..Stores[s].made
  /\ v2 \in {Store(s)!Down} \cup [at : {"salted"}, salt : 1..Stores[s].made]
       \cup [at : {"up"}, salt : 1..Stores[s].made, master : 0..Store(s)!Gone, key : Keyed(s),
             cache : [Stores[s].names -> Stores[s].secrets \cup {Store(s)!None}]]
  /\ v2.at # "down" => v2.salt = v1.salt
  /\ v2.at = "up" =>
       /\ v2.master # Store(s)!Gone => v2.master = v1.master /\ Store(s)!Whole(v1.master)
       /\ v2.key # Store(s)!NoKey => v2.key = Store(s)!Derivation(v2.master, v2.salt)

\* What was sealed, and what is cached of it.
BlobsHold(s) ==
  /\ v5 \subseteq Sealed(s) /\ IsFiniteSet(v5) /\ Cardinality(v5) <= Stores[s].blobs
  /\ v6 \in BOOLEAN
  /\ ~v6 => \A b \in v5 : Filed(s, b.key)
  /\ v2.at = "up" => \A n \in Stores[s].names : v2.cache[n] # Store(s)!None =>
       \E b \in v5 : b.name = n /\ b.value = v2.cache[n]

\* What a handler has in its hands.
Setting(s, do) ==
  /\ do \in [at : {"seal", "keep"}, name : Stores[s].names, value : Stores[s].secrets,
             key : Keyed(s)]
  /\ Filed(s, do.key)
Missing(s, do) == do \in [at : {"miss"}, blob : v5]
Opening(s, do) ==
  /\ do \in [at : {"open", "fill"}, blob : v5, key : Keyed(s)]
  /\ Filed(s, do.key)
Answered(s, do) ==
  /\ do \in [at : {"done"}, blob : v5, got : Stores[s].secrets \cup {Store(s)!Error},
             key : Keyed(s)]
  /\ do.got # Store(s)!Error => \E b \in v5 : b.name = do.blob.name /\ b.value = do.got
  /\ do.got = Store(s)!Error => v6 \/ ~Store(s)!Good(do.key) \/ ~Store(s)!Good(do.blob.key)

HandlersHold(s) ==
  /\ DOMAIN v4 = Stores[s].handlers
  /\ \A h \in Stores[s].handlers :
       \/ v4[h] = Store(s)!Idle
       \/ /\ v2.at = "up"
          /\ \/ Setting(s, v4[h]) \/ Missing(s, v4[h])
             \/ Opening(s, v4[h]) \/ Answered(s, v4[h])

ProtectorHolds(s) ==
  /\ v7 \in [value : Stores[s].bytes \cup {Store(s)!None}, masks : SUBSET (1..v3),
             mask : 0..v3, stopped : BOOLEAN, broken : BOOLEAN]
  /\ v7.value # Store(s)!None => v7.mask # 0
  /\ Store(s)!RevealsTrue

VaultHolds(s) == FilesHold(s) /\ BlobsHold(s) /\ HandlersHold(s) /\ ProtectorHolds(s)

LEMMA VaultAssumed ==
  ASSUME NEW s \in DOMAIN Stores
  PROVE  /\ Stores[s].made \in Nat /\ Stores[s].blobs \in Nat
         /\ Store(s)!None \notin Stores[s].secrets /\ Store(s)!Error \notin Stores[s].secrets
         /\ Store(s)!None \notin Stores[s].bytes
BY ServicesAssumption DEF Store!VaultAssumption

LEMMA SameSize ==
  ASSUME NEW s \in DOMAIN Stores, NEW S
  PROVE  Store(s)!Cardinality(S) = Cardinality(S)
BY Zenon DEF Store!Cardinality, Cardinality, Store!IsFiniteSet, IsFiniteSet

LEMMA VaultStarts ==
  ASSUME NEW s \in DOMAIN Stores, Store(s)!Init
  PROVE  VaultHolds(s)
<1> USE VaultAssumed DEF Store!Init, Store!Down, Store!NoFile, Store!Unprotected, Store!Idle
<1>1. FilesHold(s)
  BY DEF FilesHold, Store!Torn
<1> HIDE DEF Store!Down, Store!Idle, Store!Unprotected
<1>2. BlobsHold(s)
  <2>1. v5 = {} /\ v6 = FALSE /\ v2.at # "up"
    BY DEF Store!Down
  <2>2. IsFiniteSet(v5) /\ Cardinality(v5) = 0
    BY <2>1, FS_EmptySet
  <2>3. v6 \in BOOLEAN
    OBVIOUS
  <2> QED BY <2>1, <2>2, <2>3 DEF BlobsHold
<1>3. HandlersHold(s)
  BY DEF HandlersHold
<1>4. ProtectorHolds(s)
  BY DEF ProtectorHolds, Store!RevealsTrue, Store!Unprotected
<1> QED BY <1>1, <1>2, <1>3, <1>4 DEF VaultHolds

\* The keys that are told apart.
LEMMA KeysApart ==
  ASSUME NEW s \in DOMAIN Stores
  PROVE  /\ Store(s)!Torn \in Nat /\ Store(s)!Gone \in Nat
         /\ Store(s)!Torn = Stores[s].made + 1 /\ Store(s)!Gone = Stores[s].made + 2
         /\ Store(s)!NoKey \in Keyed(s) /\ Store(s)!Zero \in Keyed(s)
         /\ Store(s)!Mixed \in Keyed(s)
         /\ ~Store(s)!Good(Store(s)!Zero) /\ ~Store(s)!Good(Store(s)!Mixed)
         /\ ~Store(s)!Good(Store(s)!NoKey)
BY VaultAssumed DEF Store!Torn, Store!Gone, Store!NoKey, Store!Zero, Store!Mixed, Store!Derivation,
  Keyed, Store!Good, Store!Whole

\* What Derive hands out.
LEMMA Derives ==
  ASSUME NEW s \in DOMAIN Stores, FilesHold(s), v2.at = "up"
  PROVE  /\ Store(s)!Derived = Store(s)!Derivation(v2.master, v2.salt)
         /\ Store(s)!Derived \in Keyed(s)
         /\ Filed(s, Store(s)!Derived)
<1>1. v2.salt \in 1..Stores[s].made /\ v2.master \in 0..Store(s)!Gone
  BY DEF FilesHold, Store!Down
<1>2. Store(s)!Derived = Store(s)!Derivation(v2.master, v2.salt)
  BY DEF FilesHold, Store!Derived
<1>3. Store(s)!Derivation(v2.master, v2.salt) \in Keyed(s)
  BY <1>1, KeysApart, VaultAssumed DEF Keyed, Store!Derivation
<1>4. Store(s)!Good(Store(s)!Derivation(v2.master, v2.salt)) => v2.master # Store(s)!Gone
  BY DEF Store!Good, Store!Derivation
<1>5. v2.salt = v1.salt
  BY DEF FilesHold
<1>6. v2.master # Store(s)!Gone => v2.master = v1.master /\ Store(s)!Whole(v1.master)
  BY DEF FilesHold
<1> QED BY <1>2, <1>3, <1>4, <1>5, <1>6 DEF Filed

LEMMA FilesKeep ==
  ASSUME NEW s \in DOMAIN Stores, VaultHolds(s), Store(s)!Next
  PROVE  FilesHold(s)'
<1> USE VaultAssumed, KeysApart
<1>0. FilesHold(s)
  BY DEF VaultHolds
<1> USE <1>0
<1>1. CASE Store(s)!LoadSalt
  BY <1>1 DEF Store!LoadSalt, FilesHold, Store!Salted, Store!Whole, Store!Down
<1>2. CASE Store(s)!CreateSalt
  <2>1. PICK o \in Store(s)!Outcomes(v1.salt, v3') :
          /\ v1' = [v1 EXCEPT !.salt = o.file]
          /\ v2' = IF o.ok THEN Store(s)!Salted(v3') ELSE Store(s)!Down
    BY <1>2 DEF Store!CreateSalt
  <2>2. v3' \in 1..Stores[s].made
    BY <1>2 DEF Store!CreateSalt, Store!Draw, FilesHold
  <2>3. o.file \in 0..Store(s)!Torn /\ (o.ok => o.file = v3')
    BY <2>1, <2>2 DEF Store!Outcomes, FilesHold
  <2> QED BY <2>1, <2>2, <2>3 DEF FilesHold, Store!Salted, Store!Down
<1>3. CASE Store(s)!LoadMaster
  <2>1. v2 \in [at : {"salted"}, salt : 1..Stores[s].made]
    BY <1>3 DEF Store!LoadMaster, FilesHold, Store!Down
  <2>2. v1' = v1 /\ v3' = v3 /\ v2' = Store(s)!Up(v2.salt, v1.master) /\ Store(s)!Whole(v1.master)
    BY <1>3 DEF Store!LoadMaster
  <2> QED BY <2>1, <2>2 DEF FilesHold, Store!Up, Store!Whole, Store!Down
<1>4. ASSUME NEW given \in BOOLEAN, Store(s)!CreateMaster(given) PROVE FilesHold(s)'
  <2>1. v2 \in [at : {"salted"}, salt : 1..Stores[s].made]
    BY <1>4 DEF Store!CreateMaster, FilesHold, Store!Down
  <2> DEFINE m == IF given THEN v2.salt ELSE v3'
  <2>2. PICK o \in Store(s)!Outcomes(v1.master, m) :
          /\ v1' = [v1 EXCEPT !.master = o.file]
          /\ v2' = IF o.ok THEN Store(s)!Up(v2.salt, m) ELSE Store(s)!Down
    BY <1>4 DEF Store!CreateMaster
  <2>3. v3' \in 0..Stores[s].made /\ m \in 1..Stores[s].made
    BY <1>4, <2>1 DEF Store!CreateMaster, Store!Draw, FilesHold
  <2> HIDE DEF m
  <2>4. o.file \in 0..Store(s)!Torn /\ (o.ok => o.file = m)
    BY <2>2, <2>3 DEF Store!Outcomes, FilesHold
  <2>5. CASE o.ok
    BY <2>1, <2>2, <2>3, <2>4, <2>5 DEF FilesHold, Store!Up, Store!Whole, Store!Down
  <2>6. CASE ~o.ok
    BY <2>1, <2>2, <2>3, <2>4, <2>6 DEF FilesHold, Store!Down
  <2> QED BY <2>5, <2>6
<1>5. CASE Store(s)!Restart
  BY <1>5 DEF Store!Restart, FilesHold, Store!Down
<1>6. CASE Store(s)!WipeVault
  <2>1. v1' = v1 /\ v3' = v3 /\ v2.at = "up"
        /\ v2' = [v2 EXCEPT !.master = Store(s)!Gone, !.key = Store(s)!NoKey]
    BY <1>6 DEF Store!WipeVault
  <2>2. /\ v2.salt \in 1..Stores[s].made /\ v2.salt = v1.salt
        /\ v2.cache \in [Stores[s].names -> Stores[s].secrets \cup {Store(s)!None}]
        /\ v2 = [at |-> "up", salt |-> v2.salt, master |-> v2.master, key |-> v2.key,
                 cache |-> v2.cache]
    BY <2>1 DEF FilesHold, Store!Down
  <2>3. v2' = [at |-> "up", salt |-> v2.salt, master |-> Store(s)!Gone, key |-> Store(s)!NoKey,
               cache |-> v2.cache]
    BY <2>1, <2>2
  <2> QED BY <2>1, <2>2, <2>3 DEF FilesHold
<1>7. CASE Store(s)!WipeStore
  BY <1>7 DEF Store!WipeStore, FilesHold, Store!Down
<1>8. CASE Store(s)!Guard
  <2>1. v1' = v1 /\ v2' = v2 /\ (v3' = v3 \/ Store(s)!Draw)
    BY <1>8 DEF Store!Guard, Store!Protect, Store!Rotate, Store!RotateFails, Store!Stop,
      Store!WipeProtector
  <2>2. v3' \in 0..Stores[s].made
    BY <2>1 DEF Store!Draw, FilesHold
  <2> QED BY <2>1, <2>2 DEF FilesHold
<1>9. ASSUME NEW h \in Stores[s].handlers, NEW do, Store(s)!Derive(h, do) PROVE FilesHold(s)'
  <2>1. v1' = v1 /\ v3' = v3 /\ v2.at = "up" /\ v2' = [v2 EXCEPT !.key = Store(s)!Derived]
    BY <1>9 DEF Store!Derive
  <2> QED BY <2>1, Derives DEF FilesHold, Store!Down
<1>10. ASSUME NEW n \in Stores[s].names, NEW x \in Stores[s].secrets, v2.at = "up",
              v2' = [v2 EXCEPT !.cache[n] = x], v1' = v1, v3' = v3
       PROVE  FilesHold(s)'
  <2>1. v2.cache \in [Stores[s].names -> Stores[s].secrets \cup {Store(s)!None}]
    BY <1>10 DEF FilesHold, Store!Down
  <2> DEFINE c == [v2.cache EXCEPT ![n] = x]
  <2>2. c \in [Stores[s].names -> Stores[s].secrets \cup {Store(s)!None}]
    BY <2>1
  <2>3. v2' = [v2 EXCEPT !.cache = c]
    BY <1>10
  <2> HIDE DEF c
  <2> QED BY <1>10, <2>2, <2>3 DEF FilesHold, Store!Down
<1>11. ASSUME NEW h \in Stores[s].handlers, Store(s)!Serve(h) PROVE FilesHold(s)'
  <2>1. CASE \E n \in Stores[s].names, x \in Stores[s].secrets : Store(s)!Set(h, n, x)
    BY <2>1, <1>9 DEF Store!Set
  <2>2. CASE Store(s)!Miss(h)
    BY <2>2, <1>9 DEF Store!Miss
  <2>3. CASE Store(s)!Keep(h)
    <3>1. Setting(s, v4[h]) /\ v2.at = "up"
      BY <2>3 DEF Store!Keep, VaultHolds, HandlersHold, Store!Idle, Missing, Opening, Answered
    <3> QED BY <2>3, <3>1, <1>10 DEF Store!Keep, Setting
  <2>4. CASE Store(s)!Fill(h)
    <3>1. Opening(s, v4[h]) /\ v2.at = "up"
      BY <2>4 DEF Store!Fill, VaultHolds, HandlersHold, Store!Idle, Setting, Missing, Answered
    <3>2. v4[h].blob \in Sealed(s)
      BY <3>1 DEF Opening, VaultHolds, BlobsHold
    <3> QED BY <2>4, <3>1, <3>2, <1>10 DEF Store!Fill, Sealed
  <2>5. CASE \/ Store(s)!Seal(h) \/ Store(s)!Open(h) \/ Store(s)!Leave(h)
             \/ \E b \in v5 : Store(s)!Get(h, b)
    BY <2>5 DEF Store!Seal, Store!Open, Store!Leave, Store!Get, FilesHold
  <2> QED BY <1>11, <2>1, <2>2, <2>3, <2>4, <2>5 DEF Store!Serve
<1> QED
  BY <1>1, <1>2, <1>3, <1>4, <1>5, <1>6, <1>7, <1>8, <1>11
  DEF Store!Next, Store!Load, Store!Wipe

\* A whole file changes only if it could not be read.
LEMMA FiledStays ==
  ASSUME NEW s \in DOMAIN Stores, NEW key, VaultHolds(s), Store(s)!Next, ~v6', ~v6 => Filed(s, key)
  PROVE  ~v6 /\ Filed(s, key)'
<1>1. CASE v1' = v1 /\ v6' = v6
  BY <1>1 DEF Filed
<1>2. CASE Store(s)!CreateSalt
  <2>1. PICK o \in Store(s)!Outcomes(v1.salt, v3') :
          v1' = [v1 EXCEPT !.salt = o.file] /\ Store(s)!Misread(v1.salt, o.file)
    BY <1>2 DEF Store!CreateSalt
  <2>2. ~v6 /\ (Store(s)!Whole(v1.salt) => o.file = v1.salt)
    BY <2>1 DEF Store!Misread, VaultHolds, BlobsHold
  <2>3. Store(s)!Good(key) => Store(s)!Whole(v1.salt)
    BY <2>2 DEF Filed, Store!Good, Store!Derivation
  <2>4. v1' = v1 \/ ~Store(s)!Good(key)
    BY <2>1, <2>2, <2>3 DEF VaultHolds, FilesHold
  <2> QED BY <2>2, <2>4 DEF Filed
<1>3. ASSUME NEW given \in BOOLEAN, Store(s)!CreateMaster(given)
      PROVE  ~v6 /\ Filed(s, key)'
  <2>1. PICK o \in Store(s)!Outcomes(v1.master, IF given THEN v2.salt ELSE v3') :
          v1' = [v1 EXCEPT !.master = o.file] /\ Store(s)!Misread(v1.master, o.file)
    BY <1>3 DEF Store!CreateMaster
  <2>2. ~v6 /\ (Store(s)!Whole(v1.master) => o.file = v1.master)
    BY <2>1 DEF Store!Misread, VaultHolds, BlobsHold
  <2>3. Store(s)!Good(key) => Store(s)!Whole(v1.master)
    BY <2>2 DEF Filed
  <2>4. v1' = v1 \/ ~Store(s)!Good(key)
    BY <2>1, <2>2, <2>3 DEF VaultHolds, FilesHold
  <2> QED BY <2>2, <2>4 DEF Filed
<1>4. CASE Store(s)!LoadSalt \/ Store(s)!LoadMaster \/ Store(s)!Restart \/ Store(s)!Wipe
  BY <1>1, <1>4 DEF Store!LoadSalt, Store!LoadMaster, Store!Restart, Store!Wipe, Store!WipeVault,
    Store!WipeStore
<1>5. CASE Store(s)!Guard
  BY <1>1, <1>5 DEF Store!Guard, Store!Protect, Store!Rotate, Store!RotateFails, Store!Stop,
    Store!WipeProtector
<1>6. ASSUME NEW h \in Stores[s].handlers, Store(s)!Serve(h)
      PROVE  v1' = v1 /\ v6' = v6
  BY <1>6 DEF Store!Serve, Store!Set, Store!Derive, Store!Seal, Store!Keep, Store!Get, Store!Miss,
    Store!Open, Store!Fill, Store!Leave
<1> QED
  BY <1>1, <1>2, <1>3, <1>4, <1>5, <1>6 DEF Store!Next, Store!Load

\* While the process is up its files stay, and what was sealed, and what is known of it.
LEMMA UpStays ==
  ASSUME NEW s \in DOMAIN Stores, v2.at = "up", Store(s)!Next, ~Store(s)!Restart
  PROVE  v1' = v1 /\ v5 \subseteq v5' /\ v6' = v6
<1>1. ~Store(s)!Load
  BY DEF Store!Load, Store!LoadSalt, Store!LoadMaster, Store!CreateSalt, Store!CreateMaster,
    Store!Down
<1>2. CASE Store(s)!Wipe \/ Store(s)!Guard
  BY <1>2 DEF Store!Wipe, Store!WipeVault, Store!WipeStore, Store!Guard, Store!Protect,
    Store!Rotate, Store!RotateFails, Store!Stop, Store!WipeProtector
<1>3. ASSUME NEW h \in Stores[s].handlers, Store(s)!Serve(h)
      PROVE  v1' = v1 /\ v5 \subseteq v5' /\ v6' = v6
  BY <1>3 DEF Store!Serve, Store!Set, Store!Derive, Store!Seal, Store!Keep, Store!Get, Store!Miss,
    Store!Open, Store!Fill, Store!Leave
<1> QED BY <1>1, <1>2, <1>3 DEF Store!Next

LEMMA HandsStay ==
  ASSUME NEW s \in DOMAIN Stores, NEW do, v1' = v1, v5 \subseteq v5', v6' = v6
  PROVE  /\ Setting(s, do) => Setting(s, do)'
         /\ Missing(s, do) => Missing(s, do)'
         /\ Opening(s, do) => Opening(s, do)'
         /\ Answered(s, do) => Answered(s, do)'
<1>1. Setting(s, do) => Setting(s, do)'
  BY DEF Setting, Filed
<1>2. Missing(s, do) => Missing(s, do)'
  BY DEF Missing
<1>3. Opening(s, do) => Opening(s, do)'
  BY DEF Opening, Filed
<1>4. Answered(s, do) => Answered(s, do)'
  BY DEF Answered
<1> QED BY <1>1, <1>2, <1>3, <1>4

\* What a handler is doing, from where it is.
LEMMA AtWork ==
  ASSUME NEW s \in DOMAIN Stores, HandlersHold(s), NEW h \in Stores[s].handlers
  PROVE  /\ v4[h].at # "idle" => v2.at = "up"
         /\ v4[h].at \in {"seal", "keep"} => Setting(s, v4[h])
         /\ v4[h].at = "miss" => Missing(s, v4[h])
         /\ v4[h].at \in {"open", "fill"} => Opening(s, v4[h])
         /\ v4[h].at = "done" => Answered(s, v4[h])
         /\ v4[h].at \in {"idle", "seal", "keep", "miss", "open", "fill", "done"}
BY DEF HandlersHold, Store!Idle, Setting, Missing, Opening, Answered

LEMMA BlobsKeep ==
  ASSUME NEW s \in DOMAIN Stores, VaultHolds(s), Store(s)!Next
  PROVE  BlobsHold(s)'
<1> USE VaultAssumed DEF VaultHolds
<1>1. v6' \in BOOLEAN
  BY DEF BlobsHold, Store!Next, Store!Load, Store!LoadSalt, Store!CreateSalt, Store!LoadMaster,
    Store!CreateMaster, Store!Misread, Store!Restart, Store!Wipe, Store!WipeVault,
    Store!WipeStore, Store!Guard, Store!Protect, Store!Rotate, Store!RotateFails, Store!Stop,
    Store!WipeProtector, Store!Serve, Store!Set, Store!Derive, Store!Seal, Store!Keep, Store!Get,
    Store!Miss, Store!Open, Store!Fill, Store!Leave
<1>2. ASSUME ~v6', NEW b \in v5 PROVE Filed(s, b.key)'
  BY <1>2, FiledStays DEF BlobsHold
<1>3. CASE v5' = v5 /\ (v2'.at = "up" => v2.at = "up" /\ v2'.cache = v2.cache)
  BY <1>1, <1>2, <1>3 DEF BlobsHold
<1>4. CASE v5' = v5 /\ (v2'.at = "up" => v2'.cache = [n \in Stores[s].names |-> Store(s)!None])
  BY <1>1, <1>2, <1>4 DEF BlobsHold
<1>5. CASE Store(s)!Load
  BY <1>4, <1>5 DEF Store!Load, Store!LoadSalt, Store!CreateSalt, Store!LoadMaster,
    Store!CreateMaster, Store!Salted, Store!Up, Store!Down
<1>6. CASE Store(s)!Restart
  BY <1>4, <1>6 DEF Store!Restart, Store!Down
<1>7. CASE Store(s)!Guard
  BY <1>3, <1>7 DEF Store!Guard, Store!Protect, Store!Rotate, Store!RotateFails, Store!Stop,
    Store!WipeProtector
<1>8. CASE Store(s)!WipeVault
  BY <1>3, <1>8 DEF Store!WipeVault, FilesHold, Store!Down
<1>9. CASE Store(s)!WipeStore
  BY <1>4, <1>9 DEF Store!WipeStore, FilesHold, Store!Down
<1>10. ASSUME NEW h \in Stores[s].handlers, Store(s)!Keep(h) PROVE BlobsHold(s)'
  <2>0. PICK do : do = v4[h]
    OBVIOUS
  <2> DEFINE b == [name |-> do.name, value |-> do.value, key |-> do.key]
  <2>1. Setting(s, do) /\ v2.at = "up"
    BY <1>10, <2>0, AtWork DEF Store!Keep
  <2>2. b \in Sealed(s) /\ Filed(s, b.key)
    BY <2>1 DEF Setting, Sealed
  <2>3. /\ v5' = v5 \cup {b} /\ v2' = [v2 EXCEPT !.cache[do.name] = do.value]
        /\ Store(s)!Cardinality(v5 \cup {b}) <= Stores[s].blobs
    BY <1>10, <2>0 DEF Store!Keep
  <2>4. v2.cache \in [Stores[s].names -> Stores[s].secrets \cup {Store(s)!None}]
    BY <2>1 DEF FilesHold, Store!Down
  <2>5. v2'.cache = [v2.cache EXCEPT ![do.name] = do.value]
    BY <2>1, <2>3 DEF FilesHold, Store!Down
  <2>6. do.name \in Stores[s].names
    BY <2>1 DEF Setting
  <2>7. b.name = do.name /\ b.value = do.value
    OBVIOUS
  <2> HIDE DEF b
  <2>8. v5' \subseteq Sealed(s) /\ IsFiniteSet(v5') /\ Cardinality(v5') <= Stores[s].blobs
    BY <2>2, <2>3, SameSize, FS_AddElement DEF BlobsHold
  <2>9. ASSUME NEW n \in Stores[s].names, v2'.cache[n] # Store(s)!None
        PROVE  \E c \in v5' : c.name = n /\ c.value = v2'.cache[n]
    <3>1. CASE n = do.name
      BY <2>3, <2>4, <2>5, <2>6, <2>7, <3>1
    <3>2. CASE n # do.name
      <4>1. v2'.cache[n] = v2.cache[n]
        BY <2>4, <2>5, <3>2
      <4> QED BY <2>1, <2>3, <2>9, <4>1 DEF BlobsHold
    <3> QED BY <3>1, <3>2
  <2>10. ~v6' => Filed(s, b.key)'
    BY <2>2, FiledStays
  <2> QED BY <1>1, <1>2, <2>3, <2>8, <2>9, <2>10 DEF BlobsHold
<1>11. ASSUME NEW h \in Stores[s].handlers, Store(s)!Fill(h) PROVE BlobsHold(s)'
  <2> DEFINE b == v4[h].blob
  <2>1. b \in v5 /\ v2.at = "up"
    BY <1>11, AtWork DEF Store!Fill, Opening
  <2>2. v5' = v5 /\ v2' = [v2 EXCEPT !.cache[b.name] = b.value]
    BY <1>11 DEF Store!Fill
  <2>3. v2.cache \in [Stores[s].names -> Stores[s].secrets \cup {Store(s)!None}]
    BY <2>1 DEF FilesHold, Store!Down
  <2>4. v2'.cache = [v2.cache EXCEPT ![b.name] = b.value]
    BY <2>1, <2>2 DEF FilesHold, Store!Down
  <2>5. b.name \in Stores[s].names
    BY <2>1 DEF BlobsHold, Sealed
  <2> HIDE DEF b
  <2>6. ASSUME NEW n \in Stores[s].names, v2'.cache[n] # Store(s)!None
        PROVE  \E c \in v5' : c.name = n /\ c.value = v2'.cache[n]
    <3>1. CASE n = b.name
      BY <2>1, <2>2, <2>3, <2>4, <2>5, <3>1
    <3>2. CASE n # b.name
      <4>1. v2'.cache[n] = v2.cache[n]
        BY <2>3, <2>4, <3>2
      <4> QED BY <2>1, <2>2, <2>6, <4>1 DEF BlobsHold
    <3> QED BY <3>1, <3>2
  <2> QED BY <1>1, <1>2, <2>2, <2>6 DEF BlobsHold
<1>12. ASSUME NEW h \in Stores[s].handlers, NEW do, Store(s)!Derive(h, do) PROVE BlobsHold(s)'
  BY <1>3, <1>12 DEF Store!Derive, FilesHold, Store!Down
<1>13. ASSUME NEW h \in Stores[s].handlers, Store(s)!Serve(h) PROVE BlobsHold(s)'
  <2>1. CASE Store(s)!Seal(h) \/ Store(s)!Open(h) \/ Store(s)!Leave(h) \/ \E b \in v5 : Store(s)!Get(h, b)
    BY <1>3, <2>1 DEF Store!Seal, Store!Open, Store!Leave, Store!Get
  <2>2. CASE \E n \in Stores[s].names, x \in Stores[s].secrets : Store(s)!Set(h, n, x)
    BY <1>12, <2>2 DEF Store!Set
  <2>3. CASE Store(s)!Miss(h)
    BY <1>12, <2>3 DEF Store!Miss
  <2> QED BY <1>10, <1>11, <1>13, <2>1, <2>2, <2>3 DEF Store!Serve
<1> QED
  BY <1>5, <1>6, <1>7, <1>8, <1>9, <1>13 DEF Store!Next, Store!Wipe

\* What HandlersHold says of one handler.
Busy(s, h) ==
  \/ v4[h] = Store(s)!Idle
  \/ /\ v2.at = "up"
     /\ \/ Setting(s, v4[h]) \/ Missing(s, v4[h])
        \/ Opening(s, v4[h]) \/ Answered(s, v4[h])

LEMMA HandlersKeep ==
  ASSUME NEW s \in DOMAIN Stores, VaultHolds(s), Store(s)!Next
  PROVE  HandlersHold(s)'
<1> USE VaultAssumed DEF VaultHolds
<1>0. /\ DOMAIN v4 = Stores[s].handlers
      /\ \A h \in Stores[s].handlers : Busy(s, h)
  BY DEF HandlersHold, Busy
<1>1. SUFFICES /\ DOMAIN v4' = Stores[s].handlers
               /\ \A h \in Stores[s].handlers : Busy(s, h)'
  BY DEF HandlersHold, Busy
<1>2. ASSUME NEW x \in Stores[s].handlers, ~Store(s)!Restart, v4'[x] = v4[x], v2'.at = v2.at
      PROVE  Busy(s, x)'
  <2>1. CASE v4[x] = Store(s)!Idle
    BY <1>2, <2>1 DEF Busy, Store!Idle
  <2>2. CASE v4[x] # Store(s)!Idle
    <3>1. PICK do : do = v4[x]
      OBVIOUS
    <3>2. v2.at = "up"
      BY <1>0, <2>2 DEF Busy
    <3>3. Setting(s, do) \/ Missing(s, do) \/ Opening(s, do) \/ Answered(s, do)
      BY <1>0, <2>2, <3>1 DEF Busy
    <3>4. v1' = v1 /\ v5 \subseteq v5' /\ v6' = v6
      BY <1>2, <3>2, UpStays
    <3>5. Setting(s, do)' \/ Missing(s, do)' \/ Opening(s, do)' \/ Answered(s, do)'
      BY <3>3, <3>4, HandsStay
    <3>6. v4'[x] = do /\ v2'.at = "up"
      BY <1>2, <3>1, <3>2
    <3>7. (Setting(s, do)' => Setting(s, v4[x])') /\ (Missing(s, do)' => Missing(s, v4[x])')
          /\ (Opening(s, do)' => Opening(s, v4[x])') /\ (Answered(s, do)' => Answered(s, v4[x])')
      BY <3>6 DEF Setting, Missing, Opening, Answered, Filed
    <3> QED BY <3>5, <3>6, <3>7 DEF Busy
  <2> QED BY <2>1, <2>2
<1>3. CASE Store(s)!Load
  <2>1. v2.at # "up" /\ v4' = v4
    BY <1>3 DEF Store!Load, Store!LoadSalt, Store!LoadMaster, Store!CreateSalt,
      Store!CreateMaster, Store!Down
  <2>2. \A h \in Stores[s].handlers : v4[h] = Store(s)!Idle
    BY <1>0, <2>1 DEF Busy
  <2> QED BY <1>0, <2>1, <2>2 DEF Busy, Store!Idle
<1>4. CASE Store(s)!Restart
  <2>1. v4' = [h \in Stores[s].handlers |-> Store(s)!Idle]
    BY <1>4 DEF Store!Restart
  <2> QED BY <2>1 DEF Busy, Store!Idle
<1>5. CASE Store(s)!Guard \/ Store(s)!WipeStore
  <2>1. v4' = v4 /\ v2'.at = v2.at
    BY <1>5 DEF Store!WipeStore, Store!Guard, Store!Protect, Store!Rotate, Store!RotateFails,
      Store!Stop, Store!WipeProtector, FilesHold, Store!Down
  <2>2. ~Store(s)!Restart
    BY <2>1 DEF Store!Restart, Store!Down, FilesHold
  <2> QED BY <1>0, <1>2, <2>1, <2>2
<1>6. CASE Store(s)!WipeVault
  <2>1. PICK left \in [Stores[s].handlers -> {Store(s)!Zero, Store(s)!Mixed}] :
          v4' = [h \in Stores[s].handlers |->
            IF v4[h].at \in {"seal", "open"} THEN [v4[h] EXCEPT !.key = left[h]] ELSE v4[h]]
    BY <1>6 DEF Store!WipeVault
  <2>2. v2.at = "up" /\ v2'.at = "up" /\ v1' = v1 /\ v5' = v5 /\ v6' = v6
    BY <1>6 DEF Store!WipeVault, FilesHold, Store!Down
  <2>3. ~Store(s)!Restart
    BY <2>2 DEF Store!Restart, Store!Down
  <2>4. ASSUME NEW h \in Stores[s].handlers PROVE Busy(s, h)'
    <3>1. CASE v4[h].at \notin {"seal", "open"}
      BY <1>2, <2>1, <2>2, <2>3, <3>1
    <3>2. CASE v4[h].at = "seal"
      <4>1. PICK do : do = v4[h]
        OBVIOUS
      <4>2. Setting(s, do)
        BY <3>2, <4>1, AtWork
      <4>3. v4'[h] = [do EXCEPT !.key = left[h]]
        BY <2>1, <3>2, <4>1
      <4>4. left[h] \in Keyed(s) /\ ~Store(s)!Good(left[h])
        BY KeysApart
      <4> QED BY <2>2, <4>2, <4>3, <4>4 DEF Busy, Setting, Filed
    <3>3. CASE v4[h].at = "open"
      <4>1. PICK do : do = v4[h]
        OBVIOUS
      <4>2. Opening(s, do)
        BY <3>3, <4>1, AtWork
      <4>3. v4'[h] = [do EXCEPT !.key = left[h]]
        BY <2>1, <3>3, <4>1
      <4>4. left[h] \in Keyed(s) /\ ~Store(s)!Good(left[h])
        BY KeysApart
      <4> QED BY <2>2, <4>2, <4>3, <4>4 DEF Busy, Opening, Filed
    <3> QED BY <3>1, <3>2, <3>3
  <2> QED BY <2>1, <2>4
<1>7. ASSUME NEW h \in Stores[s].handlers, Store(s)!Serve(h)
      PROVE  /\ DOMAIN v4' = Stores[s].handlers
             /\ \A x \in Stores[s].handlers : Busy(s, x)'
  <2>1. v2.at = "up"
    <3>1. v2.at = "up" \/ v4[h].at \in {"seal", "keep", "open", "fill", "done"}
      BY <1>7 DEF Store!Serve, Store!Set, Store!Derive, Store!Seal, Store!Keep, Store!Get,
        Store!Miss, Store!Open, Store!Fill, Store!Leave
    <3> QED BY <3>1, AtWork
  <2>2. v2'.at = "up"
    BY <1>7, <2>1 DEF Store!Serve, Store!Set, Store!Derive, Store!Seal, Store!Keep, Store!Get,
      Store!Miss, Store!Open, Store!Fill, Store!Leave, FilesHold, Store!Down
  <2>3. \E do : v4' = [v4 EXCEPT ![h] = do]
    BY <1>7 DEF Store!Serve, Store!Set, Store!Derive, Store!Seal, Store!Keep, Store!Get,
      Store!Miss, Store!Open, Store!Fill, Store!Leave, Store!Goto
  <2>4. ~Store(s)!Restart
    BY <2>2 DEF Store!Restart, Store!Down
  <2>5. ASSUME NEW x \in Stores[s].handlers, x # h PROVE Busy(s, x)'
    BY <1>0, <1>2, <2>1, <2>2, <2>3, <2>4, <2>5
  <2>6. Busy(s, h)'
    <3>1. v1' = v1 /\ v5 \subseteq v5' /\ v6' = v6
      BY <2>1, <2>4, UpStays
    <3>2. PICK k : k = Store(s)!Derived
      OBVIOUS
    <3>3. k \in Keyed(s) /\ Filed(s, k)'
      BY <2>1, <3>1, <3>2, Derives DEF Filed
    <3>4. PICK do : do = v4[h]
      OBVIOUS
    <3>5. ASSUME NEW n \in Stores[s].names, NEW x \in Stores[s].secrets, Store(s)!Set(h, n, x)
          PROVE  Busy(s, h)'
      <4>1. v4'[h] = [at |-> "seal", name |-> n, value |-> x, key |-> k]
        BY <1>0, <3>2, <3>5 DEF Store!Set, Store!Derive, Store!Goto
      <4> QED BY <2>2, <3>3, <4>1 DEF Busy, Setting, Filed
    <3>6. CASE Store(s)!Seal(h)
      <4>1. v4'[h] = [do EXCEPT !.at = "keep"] /\ Setting(s, do)
        BY <1>0, <3>4, <3>6, AtWork DEF Store!Seal, Store!Goto
      <4>2. Setting(s, do)'
        BY <3>1, <4>1, HandsStay
      <4> QED BY <2>2, <4>1, <4>2 DEF Busy, Setting, Filed
    <3>7. CASE Store(s)!Keep(h) \/ Store(s)!Leave(h)
      BY <1>0, <3>7 DEF Store!Keep, Store!Leave, Store!Goto, Busy, Store!Idle
    <3>8. ASSUME NEW b \in v5, Store(s)!Get(h, b) PROVE Busy(s, h)'
      <4>1. PICK hit : hit = v2.cache[b.name]
        OBVIOUS
      <4>2. v4'[h] = IF hit # Store(s)!None
                     THEN [at |-> "done", blob |-> b, got |-> hit, key |-> Store(s)!NoKey]
                     ELSE [at |-> "miss", blob |-> b]
        BY <1>0, <3>8, <4>1 DEF Store!Get, Store!Done, Store!Goto
      <4>3. CASE hit = Store(s)!None
        BY <2>2, <3>1, <4>2, <4>3 DEF Busy, Missing
      <4>4. CASE hit # Store(s)!None
        <5>1. b.name \in Stores[s].names
          BY DEF BlobsHold, Sealed
        <5>2. hit \in Stores[s].secrets
          BY <2>1, <4>1, <4>4, <5>1 DEF FilesHold, Store!Down
        <5>3. \E c \in v5 : c.name = b.name /\ c.value = hit
          BY <2>1, <4>1, <4>4, <5>1 DEF BlobsHold
        <5>4. hit # Store(s)!Error
          BY <5>2
        <5> QED BY <2>2, <3>1, <4>2, <4>4, <5>2, <5>3, <5>4, KeysApart DEF Busy, Answered
      <4> QED BY <4>3, <4>4
    <3>9. CASE Store(s)!Miss(h)
      <4>1. Missing(s, do)
        BY <3>4, <3>9, AtWork DEF Store!Miss
      <4>2. v4'[h] = [at |-> "open", blob |-> do.blob, key |-> k]
        BY <1>0, <3>2, <3>4, <3>9 DEF Store!Miss, Store!Derive, Store!Goto
      <4> QED BY <2>2, <3>1, <3>3, <4>1, <4>2 DEF Busy, Missing, Opening, Filed
    <3>10. CASE Store(s)!Open(h)
      <4>1. Opening(s, do)
        BY <3>4, <3>10, AtWork DEF Store!Open
      <4>2. v4'[h] = IF Store(s)!Opens(do.key, do.blob) THEN [do EXCEPT !.at = "fill"]
                     ELSE [at |-> "done", blob |-> do.blob, got |-> Store(s)!Error,
                           key |-> do.key]
        BY <1>0, <3>4, <3>10 DEF Store!Open, Store!Done, Store!Goto
      <4>3. Opening(s, do)'
        BY <3>1, <4>1, HandsStay
      <4>4. CASE Store(s)!Opens(do.key, do.blob)
        BY <2>2, <4>2, <4>3, <4>4 DEF Busy, Opening, Filed
      <4>5. CASE ~Store(s)!Opens(do.key, do.blob)
        <5>1. do.blob \in v5 /\ do.blob \in v5' /\ do.key \in Keyed(s) /\ Filed(s, do.key)
          BY <3>1, <4>1 DEF Opening
        <5>2. v6 \/ Filed(s, do.blob.key)
          BY <5>1 DEF BlobsHold
        <5>3. v6 \/ ~Store(s)!Good(do.key) \/ ~Store(s)!Good(do.blob.key)
          BY <4>5, <5>1, <5>2, KeysApart DEF Filed, Store!Opens
        <5>4. v6' \/ ~Store(s)!Good(do.key) \/ ~Store(s)!Good(do.blob.key)
          BY <3>1, <5>3
        <5> QED BY <2>2, <4>2, <4>5, <5>1, <5>4 DEF Busy, Answered
      <4> QED BY <4>4, <4>5
    <3>11. CASE Store(s)!Fill(h)
      <4>1. Opening(s, do)
        BY <3>4, <3>11, AtWork DEF Store!Fill
      <4>2. v4'[h] = [at |-> "done", blob |-> do.blob, got |-> do.blob.value, key |-> do.key]
        BY <1>0, <3>4, <3>11 DEF Store!Fill, Store!Done, Store!Goto
      <4>3. do.blob \in v5' /\ do.blob.value \in Stores[s].secrets /\ do.key \in Keyed(s)
        BY <3>1, <4>1 DEF Opening, BlobsHold, Sealed
      <4> QED BY <2>2, <4>2, <4>3 DEF Busy, Answered
    <3> QED
      BY <1>7, <3>5, <3>6, <3>7, <3>8, <3>9, <3>10, <3>11 DEF Store!Serve
  <2> QED BY <1>0, <2>3, <2>5, <2>6
<1> QED
  BY <1>3, <1>4, <1>5, <1>6, <1>7 DEF Store!Next, Store!Wipe

LEMMA ProtectorKeeps ==
  ASSUME NEW s \in DOMAIN Stores, VaultHolds(s), Store(s)!Next
  PROVE  ProtectorHolds(s)'
<1> USE VaultAssumed DEF VaultHolds
<1>0. v3 \in Nat /\ ProtectorHolds(s)
  BY DEF FilesHold
<1>1. v3' \in Nat /\ v3 <= v3'
  <2>1. v3' = v3 \/ Store(s)!Draw
    BY DEF Store!Next, Store!Load, Store!LoadSalt, Store!CreateSalt, Store!LoadMaster,
      Store!CreateMaster, Store!Restart, Store!Wipe, Store!WipeVault, Store!WipeStore,
      Store!Guard, Store!Protect, Store!Rotate, Store!RotateFails, Store!Stop,
      Store!WipeProtector, Store!Serve, Store!Set, Store!Derive, Store!Seal, Store!Keep,
      Store!Get, Store!Miss, Store!Open, Store!Fill, Store!Leave
  <2> QED BY <1>0, <2>1 DEF Store!Draw
<1>2. CASE v7' = v7
  <2>1. 1..v3 \subseteq 1..v3' /\ 0..v3 \subseteq 0..v3'
    BY <1>0, <1>1
  <2> QED BY <1>0, <1>2, <2>1 DEF ProtectorHolds, Store!RevealsTrue
<1>3. ASSUME NEW b \in BOOLEAN,
             v7' = [value |-> Store(s)!None, masks |-> {}, mask |-> 0, stopped |-> b,
                    broken |-> FALSE]
      PROVE  ProtectorHolds(s)'
  BY <1>1, <1>3 DEF ProtectorHolds, Store!RevealsTrue
<1>4. ASSUME NEW x \in Stores[s].bytes, Store(s)!Protect(x) PROVE ProtectorHolds(s)'
  <2>1. v7' = [v7 EXCEPT !.value = x, !.masks = {v3'}, !.mask = v3', !.broken = FALSE]
        /\ v3' = v3 + 1
    BY <1>4 DEF Store!Protect, Store!Draw
  <2>2. v7' = [value |-> x, masks |-> {v3'}, mask |-> v3', stopped |-> v7.stopped,
               broken |-> FALSE] /\ v7.stopped \in BOOLEAN
    BY <1>0, <2>1 DEF ProtectorHolds
  <2>3. v3' \in 1..v3' /\ v3' \in 0..v3' /\ v3' # 0
    BY <1>0, <2>1
  <2> QED BY <2>2, <2>3 DEF ProtectorHolds, Store!RevealsTrue
<1>5. CASE Store(s)!Rotate
  <2>1. v7' = [v7 EXCEPT !.masks = Store(s)!Xor(Store(s)!Xor(v7.masks, v7.mask), v3'),
                         !.mask = v3']
        /\ v3' = v3 + 1 /\ v7.value # Store(s)!None
    BY <1>0, <1>5 DEF Store!Rotate, Store!Masked, Store!Draw, ProtectorHolds
  <2>2. v7.masks \subseteq 1..v3 /\ v7.mask \in 1..v3
    BY <1>0, <2>1 DEF ProtectorHolds
  <2> DEFINE M == Store(s)!Xor(Store(s)!Xor(v7.masks, v7.mask), v3')
  <2>3. M \subseteq 1..v3'
    BY <1>0, <2>1, <2>2 DEF Store!Xor
  <2>4. v7.masks = {v7.mask} => M = {v3'}
    BY <1>0, <2>1, <2>2 DEF Store!Xor
  <2> HIDE DEF M
  <2>5. v7' = [value |-> v7.value, masks |-> M, mask |-> v3', stopped |-> v7.stopped,
               broken |-> v7.broken]
        /\ v7.stopped \in BOOLEAN /\ v7.broken \in BOOLEAN
        /\ v7.value \in Stores[s].bytes \cup {Store(s)!None}
    BY <1>0, <2>1 DEF ProtectorHolds, M
  <2>6. v3' \in 0..v3' /\ v3' # 0
    BY <1>0, <2>1
  <2>7. ~v7.broken => M = {v3'}
    BY <1>0, <2>1, <2>4 DEF ProtectorHolds, Store!RevealsTrue
  <2> QED BY <2>3, <2>5, <2>6, <2>7 DEF ProtectorHolds, Store!RevealsTrue
<1>6. CASE Store(s)!RotateFails
  <2>1. v7' = [v7 EXCEPT !.masks = Store(s)!Xor(v7.masks, v7.mask), !.broken = TRUE]
        /\ v3' = v3 /\ v7.value # Store(s)!None
    BY <1>0, <1>6 DEF Store!RotateFails, ProtectorHolds
  <2>2. Store(s)!Xor(v7.masks, v7.mask) \subseteq 1..v3 /\ v7.mask # 0
    BY <1>0, <2>1 DEF ProtectorHolds, Store!Xor
  <2>3. v7' = [value |-> v7.value, masks |-> Store(s)!Xor(v7.masks, v7.mask), mask |-> v7.mask,
               stopped |-> v7.stopped, broken |-> TRUE]
        /\ v7.stopped \in BOOLEAN /\ v7.value \in Stores[s].bytes \cup {Store(s)!None}
        /\ v7.mask \in 0..v3
    BY <1>0, <2>1 DEF ProtectorHolds
  <2> QED BY <2>1, <2>2, <2>3 DEF ProtectorHolds, Store!RevealsTrue
<1>7. CASE Store(s)!Stop \/ Store(s)!WipeProtector
  <2>1. \E b \in BOOLEAN :
          v7' = [value |-> Store(s)!None, masks |-> {}, mask |-> 0, stopped |-> b,
                 broken |-> FALSE]
    BY <1>0, <1>7 DEF Store!Stop, Store!WipeProtector, Store!Forgotten, ProtectorHolds
  <2> QED BY <1>3, <2>1
<1>8. CASE Store(s)!Restart
  BY <1>3, <1>8 DEF Store!Restart, Store!Unprotected
<1>9. CASE Store(s)!Load \/ Store(s)!Wipe \/ \E h \in Stores[s].handlers : Store(s)!Serve(h)
  BY <1>2, <1>9 DEF Store!Load, Store!LoadSalt, Store!CreateSalt, Store!LoadMaster,
    Store!CreateMaster, Store!Wipe, Store!WipeVault, Store!WipeStore, Store!Serve, Store!Set,
    Store!Derive, Store!Seal, Store!Keep, Store!Get, Store!Miss, Store!Open, Store!Fill,
    Store!Leave
<1> QED
  BY <1>4, <1>5, <1>6, <1>7, <1>8, <1>9 DEF Store!Next, Store!Guard

LEMMA VaultKept ==
  ASSUME NEW s \in DOMAIN Stores, VaultHolds(s), Store(s)!Next
  PROVE  VaultHolds(s)'
BY FilesKeep, BlobsKeep, HandlersKeep, ProtectorKeeps DEF VaultHolds

LEMMA VaultTypes ==
  ASSUME NEW s \in DOMAIN Stores, VaultHolds(s)
  PROVE  Store(s)!TypeOK
<1> USE VaultAssumed DEF VaultHolds
<1>1. v1 \in [salt : 0..Store(s)!Torn, master : 0..Store(s)!Torn] /\ v3 \in 0..Stores[s].made
      /\ v2.at \in {"down", "salted", "up"}
  BY DEF FilesHold, Store!Down
<1>2. v2.at = "up" =>
        /\ v2.cache \in [Stores[s].names -> Stores[s].secrets \cup {Store(s)!None}]
        /\ v2.key # Store(s)!NoKey => v2.key.salt = v2.salt
  BY DEF FilesHold, Store!Down, Store!Derivation
<1>3. \A h \in Stores[s].handlers :
        v4[h].at \in {"idle", "seal", "keep", "miss", "open", "fill", "done"}
  BY AtWork
<1>4. /\ \A b \in v5 : b.name \in Stores[s].names /\ b.value \in Stores[s].secrets
      /\ Store(s)!Cardinality(v5) <= Stores[s].blobs /\ v6 \in BOOLEAN
  BY SameSize DEF BlobsHold, Sealed
<1>5. v7.value \in Stores[s].bytes \cup {Store(s)!None} /\ v7.masks \subseteq 1..v3
  BY DEF ProtectorHolds
<1> QED BY <1>1, <1>2, <1>3, <1>4, <1>5 DEF Store!TypeOK

LEMMA OneValue ==
  ASSUME NEW S, IsFiniteSet(S), Cardinality(S) = 1, NEW x \in S, NEW y \in S
  PROVE  x = y
<1>1. IsFiniteSet(S \ {x}) /\ Cardinality(S \ {x}) = 0
  BY FS_RemoveElement
<1> QED BY <1>1, FS_EmptySet

LEMMA VaultTrue ==
  ASSUME NEW s \in DOMAIN Stores, VaultHolds(s)
  PROVE  Store(s)!VaultKeeps
<1> USE VaultAssumed DEF VaultHolds
<1>1. Store(s)!SealedOpens
  <2> SUFFICES ASSUME ~v6, NEW b \in v5, Store(s)!Good(b.key)
               PROVE  /\ b.key = Store(s)!Derivation(v1.master, v1.salt)
                      /\ v2.at = "up" /\ v2.master # Store(s)!Gone => Store(s)!Derived = b.key
    BY DEF Store!SealedOpens
  <2>1. b.key = Store(s)!Derivation(v1.master, v1.salt)
    BY DEF BlobsHold, Filed
  <2>2. v2.at = "up" /\ v2.master # Store(s)!Gone
          => Store(s)!Derived = Store(s)!Derivation(v1.master, v1.salt)
    BY Derives DEF FilesHold
  <2> QED BY <2>1, <2>2
<1>2. Store(s)!GotWell
  <2> SUFFICES ASSUME NEW h \in Stores[s].handlers, v4[h].at = "done"
               PROVE  LET do == v4[h]
                          of == {b \in v5 : b.name = do.blob.name}
                      IN /\ do.got # Store(s)!Error => \E b \in of : b.value = do.got
                         /\ do.got # Store(s)!Error
                              /\ Store(s)!Cardinality({b.value : b \in of}) = 1
                              => do.got = do.blob.value
                         /\ do.got = Store(s)!Error =>
                              v6 \/ ~Store(s)!Good(do.key) \/ ~Store(s)!Good(do.blob.key)
    BY DEF Store!GotWell
  <2> DEFINE do == v4[h]
             of == {b \in v5 : b.name = do.blob.name}
             values == {b.value : b \in of}
  <2>1. Answered(s, do)
    BY AtWork
  <2>2. do.got # Store(s)!Error => \E b \in of : b.value = do.got
    BY <2>1 DEF Answered
  <2>3. ASSUME do.got # Store(s)!Error, Cardinality(values) = 1
        PROVE  do.got = do.blob.value
    <3>1. do.got \in values /\ do.blob.value \in values
      BY <2>1, <2>2, <2>3 DEF Answered
    <3>2. IsFiniteSet(of)
      BY FS_Subset DEF BlobsHold
    <3>3. IsFiniteSet(values)
      <4>1. [b \in of |-> b.value] \in Surjection(of, values)
        BY DEF Surjection
      <4> QED BY <3>2, <4>1, FS_Surjection
    <3> QED BY <2>3, <3>1, <3>3, OneValue
  <2>4. do.got = Store(s)!Error => v6 \/ ~Store(s)!Good(do.key) \/ ~Store(s)!Good(do.blob.key)
    BY <2>1 DEF Answered
  <2> QED BY <2>2, <2>3, <2>4, SameSize
<1>3. Store(s)!RevealsTrue
  BY DEF ProtectorHolds
<1> QED BY <1>1, <1>2, <1>3 DEF Store!VaultKeeps

-----------------------------------------------------------------------------
(* The locks. *)

Steps == [do : {"rlock", "runlock", "lock", "unlock"}, lock : Locks!Lock]

\* How often a step lies ahead.
Places(t, do, lock) == {i \in DOMAIN t : t[i] = [do |-> do, lock |-> lock]}
Times(t, do, lock) == Cardinality(Places(t, do, lock))

\* What is released more often than it is taken is held.
ReadBy(t, lock) == Times(t, "runlock", lock) > Times(t, "rlock", lock)
WrittenBy(t, lock) == Times(t, "unlock", lock) > Times(t, "lock", lock)

LEMMA Finite ==
  ASSUME NEW t \in Seq(Steps), NEW do, NEW lock
  PROVE  IsFiniteSet(Places(t, do, lock)) /\ Times(t, do, lock) \in Nat
<1>1. Places(t, do, lock) \subseteq 1..Len(t) /\ Len(t) \in Nat
  BY DEF Places
<1>2. IsFiniteSet(1..Len(t))
  BY <1>1, FS_Interval
<1> QED BY <1>1, <1>2, FS_Subset, FS_CardinalityType DEF Times

LEMMA Shifted ==
  ASSUME NEW S, IsFiniteSet(S), S \subseteq Nat, NEW n \in Nat
  PROVE  /\ IsFiniteSet({i + n : i \in S})
         /\ Cardinality({i + n : i \in S}) = Cardinality(S)
<1> DEFINE T == {i + n : i \in S}
           f == [i \in S |-> i + n]
<1>1. f \in [S -> T] /\ \A i, j \in S : f[i] = f[j] => i = j
  OBVIOUS
<1>2. f \in Surjection(S, T)
  BY <1>1 DEF Surjection
<1>3. f \in Injection(S, T)
  BY <1>1 DEF Injection, IsInjective
<1> QED BY <1>2, <1>3, FS_Surjection

LEMMA TimesJoined ==
  ASSUME NEW s \in Seq(Steps), NEW t \in Seq(Steps), NEW do, NEW lock
  PROVE  Times(s \o t, do, lock) = Times(s, do, lock) + Times(t, do, lock)
<1> DEFINE x == [do |-> do, lock |-> lock]
           n == Len(s)
           A == Places(s, do, lock)
           B == Places(t, do, lock)
           C == {i + n : i \in B}
<1>1. n \in Nat /\ A \subseteq 1..n /\ B \subseteq 1..Len(t) /\ Len(t) \in Nat
  BY DEF Places
<1>2. Places(s \o t, do, lock) = A \cup C
  <2>1. /\ DOMAIN (s \o t) = 1..(n + Len(t))
        /\ \A i \in 1..n : (s \o t)[i] = s[i]
        /\ \A i \in 1..Len(t) : (s \o t)[i + n] = t[i]
    OBVIOUS
  <2>2. ASSUME NEW i \in Places(s \o t, do, lock) PROVE i \in A \cup C
    <3>1. i \in 1..(n + Len(t)) /\ (s \o t)[i] = x
      BY <2>1 DEF Places
    <3>2. CASE i <= n
      BY <1>1, <2>1, <3>1, <3>2 DEF Places
    <3>3. CASE i > n
      <4>1. i - n \in 1..Len(t) /\ i = (i - n) + n
        BY <1>1, <3>1, <3>3
      <4>2. t[i - n] = x
        BY <2>1, <3>1, <4>1
      <4> QED BY <4>1, <4>2 DEF Places
    <3> QED BY <1>1, <3>1, <3>2, <3>3
  <2>3. ASSUME NEW i \in A PROVE i \in Places(s \o t, do, lock)
    BY <1>1, <2>1 DEF Places
  <2>4. ASSUME NEW i \in B PROVE i + n \in Places(s \o t, do, lock)
    BY <1>1, <2>1 DEF Places
  <2> QED BY <2>2, <2>3, <2>4
<1>3. IsFiniteSet(A) /\ IsFiniteSet(B)
  BY Finite
<1>4. IsFiniteSet(C) /\ Cardinality(C) = Cardinality(B)
  <2>1. B \subseteq Nat
    BY <1>1
  <2> HIDE DEF B
  <2> QED BY <1>1, <1>3, <2>1, Shifted
<1>5. A \cap C = {}
  BY <1>1
<1> HIDE DEF A, C
<1> HIDE DEF B
<1>6. Cardinality(A \cup C) = Cardinality(A) + Cardinality(C) - Cardinality(A \cap C)
  BY <1>3, <1>4, FS_Union
<1>7. Cardinality(A \cap C) = 0
  BY <1>5, FS_EmptySet
<1>8. Cardinality(A) \in Nat /\ Cardinality(B) \in Nat
  BY <1>3, FS_CardinalityType
<1> QED BY <1>2, <1>4, <1>6, <1>7, <1>8 DEF Times, A, B

LEMMA TimesOnce ==
  ASSUME NEW x \in Steps, NEW do, NEW lock
  PROVE  Times(<<x>>, do, lock) = IF x = [do |-> do, lock |-> lock] THEN 1 ELSE 0
<1>1. Places(<<x>>, do, lock) = IF x = [do |-> do, lock |-> lock] THEN {1} ELSE {}
  BY DEF Places
<1> QED BY <1>1, FS_EmptySet, FS_Singleton DEF Times

LEMMA TimesNever ==
  ASSUME NEW do, NEW lock
  PROVE  Times(<< >>, do, lock) = 0
<1>1. Places(<< >>, do, lock) = {}
  BY DEF Places
<1> QED BY <1>1, FS_EmptySet DEF Times

LEMMA TimesTail ==
  ASSUME NEW t \in Seq(Steps), t # << >>, NEW do, NEW lock
  PROVE  Times(t, do, lock) =
           Times(Tail(t), do, lock)
             + (IF Head(t) = [do |-> do, lock |-> lock] THEN 1 ELSE 0)
<1>1. Head(t) \in Steps /\ Tail(t) \in Seq(Steps)
  OBVIOUS
<1>2. <<Head(t)>> \in Seq(Steps)
  BY <1>1
<1>3. t = <<Head(t)>> \o Tail(t)
  OBVIOUS
<1>4. Times(<<Head(t)>> \o Tail(t), do, lock) =
        Times(<<Head(t)>>, do, lock) + Times(Tail(t), do, lock)
  <2>1. \A x, u \in Seq(Steps) :
          Times(x \o u, do, lock) = Times(x, do, lock) + Times(u, do, lock)
    BY TimesJoined
  <2> QED BY <1>1, <1>2, <2>1
<1>5. Times(<<Head(t)>>, do, lock) = IF Head(t) = [do |-> do, lock |-> lock] THEN 1 ELSE 0
  BY <1>1, TimesOnce
<1>6. Times(<<Head(t)>>, do, lock) \in Nat /\ Times(Tail(t), do, lock) \in Nat
  BY <1>1, <1>2, Finite
<1>7. Times(t, do, lock) = Times(<<Head(t)>>, do, lock) + Times(Tail(t), do, lock)
  BY <1>3, <1>4
<1> QED BY <1>5, <1>6, <1>7

-----------------------------------------------------------------------------
\* Locks are taken in this order; those of equal rank never within each other.
Rank(lock) ==
  IF lock = "tier1SnapMu" THEN 1
  ELSE IF lock \in {"auditV2Mu", "toolSlimMu"} THEN 3
  ELSE IF lock \in {"cfgMu", "v3cfgMu"} THEN 4
  ELSE 2

Acquires(x) == x.do \in {"rlock", "lock"}

HeldBy(t, lock) == ReadBy(t, lock) \/ WrittenBy(t, lock)

\* Whoever asks for a lock has only locks of lesser rank, or this one already.
Ordered(t) ==
  /\ \A lock \in Locks!Lock : Times(t, "lock", lock) <= Times(t, "unlock", lock)
  /\ t # << >> /\ Acquires(Head(t)) =>
       \A lock \in Locks!Lock :
         HeldBy(t, lock) => lock = Head(t).lock \/ Rank(lock) < Rank(Head(t).lock)

\* X holds with a sequence all that is left of it later on, and is sound; L has
\* what is locked meanwhile.
Covers(X, L) ==
  /\ X \subseteq Seq(Steps)
  /\ \A t \in X :
       /\ Ordered(t)
       /\ t # << >> => Tail(t) \in X /\ (Acquires(Head(t)) => Head(t).lock \in L)

Neutral(t) ==
  \A lock \in Locks!Lock :
    /\ Times(t, "rlock", lock) = Times(t, "runlock", lock)
    /\ Times(t, "lock", lock) = Times(t, "unlock", lock)

Legal(t) == \E X, L : t \in X /\ Covers(X, L)

Block(t, L) ==
  /\ t \in Seq(Steps) /\ Neutral(t)
  /\ \E X : t \in X /\ Covers(X, L)

LEMMA EmptyBlock == Block(<< >>, {})
<1>1. \A do, lock : Times(<< >>, do, lock) = 0
  BY TimesNever
<1>2. Neutral(<< >>) /\ Ordered(<< >>)
  BY <1>1 DEF Neutral, Ordered
<1>3. Covers({<< >>}, {})
  BY <1>2 DEF Covers
<1> QED BY <1>2, <1>3 DEF Block

LEMMA JoinedOrdered ==
  ASSUME NEW s \in Seq(Steps), NEW t \in Seq(Steps), s # << >>, Ordered(s), Neutral(t)
  PROVE  Ordered(s \o t)
<1>1. Head(s \o t) = Head(s) /\ s \o t # << >>
  OBVIOUS
<1>2. \A do, lock : Times(s \o t, do, lock) = Times(s, do, lock) + Times(t, do, lock)
  BY TimesJoined
<1>3. \A do, lock : Times(s, do, lock) \in Nat /\ Times(t, do, lock) \in Nat
  BY Finite
<1>4. \A lock \in Locks!Lock : HeldBy(s \o t, lock) => HeldBy(s, lock)
  BY <1>2, <1>3 DEF HeldBy, ReadBy, WrittenBy, Neutral
<1>5. \A lock \in Locks!Lock :
        Times(s \o t, "lock", lock) <= Times(s \o t, "unlock", lock)
  <2>1. \A lock \in Locks!Lock : /\ Times(s, "lock", lock) <= Times(s, "unlock", lock)
                                /\ Times(t, "lock", lock) = Times(t, "unlock", lock)
    BY DEF Ordered, Neutral
  <2> QED BY <1>2, <1>3, <2>1
<1>6. Acquires(Head(s)) =>
        \A lock \in Locks!Lock :
          HeldBy(s, lock) => lock = Head(s).lock \/ Rank(lock) < Rank(Head(s).lock)
  BY DEF Ordered
<1> QED BY <1>1, <1>4, <1>5, <1>6, Zenon DEF Ordered

LEMMA JoinedBlock ==
  ASSUME NEW s, NEW t, NEW L, NEW M, Block(s, L), Block(t, M)
  PROVE  Block(s \o t, L \cup M)
<1>1. s \in Seq(Steps) /\ t \in Seq(Steps) /\ s \o t \in Seq(Steps)
  BY DEF Block
<1>2. PICK X : s \in X /\ Covers(X, L)
  BY DEF Block
<1>3. PICK Y : t \in Y /\ Covers(Y, M)
  BY DEF Block
<1> DEFINE Z == {x \o t : x \in X} \cup Y
<1>4. Neutral(s \o t)
  <2>1. \A do, lock : Times(s \o t, do, lock) = Times(s, do, lock) + Times(t, do, lock)
    BY <1>1, TimesJoined
  <2> QED BY <2>1 DEF Block, Neutral
<1>5. ASSUME NEW z \in Z
      PROVE  /\ z \in Seq(Steps) /\ Ordered(z)
             /\ z # << >> => Tail(z) \in Z /\ (Acquires(Head(z)) => Head(z).lock \in L \cup M)
  <2>1. CASE z \in Y
    BY <1>3, <2>1 DEF Covers
  <2>2. ASSUME NEW x \in X, z = x \o t
        PROVE  /\ z \in Seq(Steps) /\ Ordered(z)
               /\ z # << >> =>
                    Tail(z) \in Z /\ (Acquires(Head(z)) => Head(z).lock \in L \cup M)
    <3>1. x \in Seq(Steps) /\ Ordered(x)
      BY <1>2 DEF Covers
    <3>2. CASE x = << >>
      <4>1. z = t
        BY <1>1, <2>2, <3>2
      <4> QED BY <1>3, <2>1, <4>1
    <3>3. CASE x # << >>
      <4>1. Head(z) = Head(x) /\ Tail(z) = Tail(x) \o t /\ z \in Seq(Steps)
        BY <1>1, <2>2, <3>1, <3>3
      <4>2. Tail(x) \in X /\ (Acquires(Head(x)) => Head(x).lock \in L)
        BY <1>2, <3>3 DEF Covers
      <4>3. Ordered(z)
        BY <1>1, <2>2, <3>1, <3>3, JoinedOrdered DEF Block
      <4> QED BY <4>1, <4>2, <4>3
    <3> QED BY <3>2, <3>3
  <2> QED BY <2>1, <2>2
<1>6. Covers(Z, L \cup M)
  BY <1>5 DEF Covers
<1>7. s \o t \in Z
  BY <1>2
<1> QED BY <1>1, <1>4, <1>6, <1>7 DEF Block

\* What is done with a lock held.
LEMMA WithinBlock ==
  ASSUME NEW t, NEW L, Block(t, L), NEW lock \in Locks!Lock,
         \A m \in L : m = lock \/ Rank(lock) < Rank(m),
         NEW take \in {"rlock", "lock"}, NEW drop \in {"runlock", "unlock"},
         take = "rlock" <=> drop = "runlock"
  PROVE  Block(Locks!Step(take, lock) \o t \o Locks!Step(drop, lock), L \cup {lock})
<1> DEFINE a == [do |-> take, lock |-> lock]
           b == [do |-> drop, lock |-> lock]
           va == <<a>>
           vb == <<b>>
           w == (va \o t) \o vb
<1>1. /\ a \in Steps /\ b \in Steps /\ t \in Seq(Steps)
      /\ va \in Seq(Steps) /\ vb \in Seq(Steps)
  BY DEF Block, Steps
<1>2. PICK X : t \in X /\ Covers(X, L)
  BY DEF Block
<1>3. \A do, m : /\ Times(va, do, m) = IF a = [do |-> do, lock |-> m] THEN 1 ELSE 0
                 /\ Times(vb, do, m) = IF b = [do |-> do, lock |-> m] THEN 1 ELSE 0
  BY <1>1, TimesOnce
<1>4. \A x \in Seq(Steps) : \A do, m :
        /\ Times(x, do, m) \in Nat
        /\ Times(x \o vb, do, m) = Times(x, do, m) + Times(vb, do, m)
  <2>1. \A x \in Seq(Steps) : \A do, m : Times(x, do, m) \in Nat
    BY Finite
  <2>2. \A x, y \in Seq(Steps) : \A do, m :
          Times(x \o y, do, m) = Times(x, do, m) + Times(y, do, m)
    BY TimesJoined
  <2> HIDE DEF vb
  <2> QED BY <1>1, <2>1, <2>2
<1>5. \A do, m : Times(w, do, m) = (Times(va, do, m) + Times(t, do, m)) + Times(vb, do, m)
  <2>1. va \o t \in Seq(Steps)
    BY <1>1
  <2>2. \A do, m : Times(va \o t, do, m) = Times(va, do, m) + Times(t, do, m)
    BY <1>1, TimesJoined
  <2> HIDE DEF a, b
  <2> QED BY <1>4, <2>1, <2>2
<1>6. Neutral(w)
  <2>1. \A m \in Locks!Lock :
          /\ Times(t, "rlock", m) = Times(t, "runlock", m)
          /\ Times(t, "lock", m) = Times(t, "unlock", m)
    BY DEF Block, Neutral
  <2>2. ASSUME NEW m \in Locks!Lock
        PROVE  /\ Times(w, "rlock", m) = Times(w, "runlock", m)
               /\ Times(w, "lock", m) = Times(w, "unlock", m)
    <3>1. \A do : Times(t, do, m) \in Nat
      BY <1>1, <1>4
    <3>2. \A do : /\ Times(va, do, m) = IF do = take /\ m = lock THEN 1 ELSE 0
                  /\ Times(vb, do, m) = IF do = drop /\ m = lock THEN 1 ELSE 0
      BY <1>3
    <3>3. \/ take = "rlock" /\ drop = "runlock"
          \/ take = "lock" /\ drop = "unlock"
      OBVIOUS
    <3> HIDE DEF w, va, vb
    <3>4. \A do : Times(w, do, m) = Times(t, do, m)
                    + ((IF do = take /\ m = lock THEN 1 ELSE 0)
                         + (IF do = drop /\ m = lock THEN 1 ELSE 0))
      BY <1>5, <3>1, <3>2
    <3> QED BY <2>1, <3>1, <3>3, <3>4
  <2> HIDE DEF w
  <2> QED BY <2>2 DEF Neutral
<1>7. Ordered(w)
  <2>1. \A m \in Locks!Lock : ~HeldBy(w, m) /\ Times(w, "lock", m) <= Times(w, "unlock", m)
    <3>0. w \in Seq(Steps)
      BY <1>1
    <3> HIDE DEF w
    <3>1. \A do, m : Times(w, do, m) \in Nat
      BY <3>0, Finite
    <3> QED BY <1>6, <3>1 DEF HeldBy, ReadBy, WrittenBy, Neutral
  <2> HIDE DEF w
  <2> QED BY <2>1 DEF Ordered
<1> DEFINE Y == {x \o vb : x \in X}
           Z == {w, << >>} \cup Y
<1>8. w \in Seq(Steps) /\ Head(w) = a /\ Tail(w) = t \o vb
  BY <1>1
<1>9. ASSUME NEW x \in X
      PROVE  /\ x \o vb \in Seq(Steps) /\ Ordered(x \o vb)
             /\ Tail(x \o vb) \in Z
             /\ Acquires(Head(x \o vb)) => Head(x \o vb).lock \in L \cup {lock}
  <2>1. x \in Seq(Steps) /\ Ordered(x)
    BY <1>2 DEF Covers
  <2>2. x \o vb \in Seq(Steps)
    BY <1>1, <2>1
  <2>3. \A m \in Locks!Lock :
          Times(x \o vb, "lock", m) <= Times(x \o vb, "unlock", m)
    <3>1. \A m \in Locks!Lock : Times(x, "lock", m) <= Times(x, "unlock", m)
      BY <2>1 DEF Ordered
    <3>2. \A do, m : Times(vb, do, m) = IF do = drop /\ m = lock THEN 1 ELSE 0
      BY <1>3
    <3> HIDE DEF vb
    <3> QED BY <1>4, <2>1, <3>1, <3>2
  <2>4. CASE x = << >>
    <3>1. x \o vb = vb /\ Head(vb) = b /\ Tail(vb) = << >>
      BY <1>1, <2>4
    <3>2. ~Acquires(b)
      BY DEF Acquires
    <3> QED BY <2>2, <2>3, <3>1, <3>2 DEF Ordered
  <2>5. CASE x # << >>
    <3>1. Head(x \o vb) = Head(x) /\ Tail(x \o vb) = Tail(x) \o vb
      BY <1>1, <2>1, <2>5
    <3>2. Tail(x) \in X /\ (Acquires(Head(x)) => Head(x).lock \in L)
      BY <1>2, <2>5 DEF Covers
    <3>3. ASSUME NEW m \in Locks!Lock, HeldBy(x \o vb, m), m # lock
          PROVE  HeldBy(x, m)
      <4>1. \A do : Times(vb, do, m) = 0
        BY <1>3, <3>3
      <4> HIDE DEF vb
      <4> QED BY <1>4, <2>1, <3>3, <4>1 DEF HeldBy, ReadBy, WrittenBy
    <3>4. Ordered(x \o vb)
      <4>1. ASSUME Acquires(Head(x)), NEW m \in Locks!Lock, HeldBy(x \o vb, m)
            PROVE  m = Head(x).lock \/ Rank(m) < Rank(Head(x).lock)
        <5>1. CASE m = lock
          BY <3>2, <4>1, <5>1
        <5>2. CASE m # lock
          BY <2>1, <2>5, <3>3, <4>1, <5>2 DEF Ordered
        <5> QED BY <5>1, <5>2
      <4> HIDE DEF vb
      <4> QED BY <2>3, <3>1, <4>1 DEF Ordered
    <3> QED BY <2>2, <3>1, <3>2, <3>4
  <2> QED BY <2>4, <2>5
<1>10. ASSUME NEW z \in Z
       PROVE  /\ z \in Seq(Steps) /\ Ordered(z)
              /\ z # << >> =>
                   Tail(z) \in Z /\ (Acquires(Head(z)) => Head(z).lock \in L \cup {lock})
  <2>1. CASE z = w
    <3>1. Tail(w) \in Z
      BY <1>2, <1>8
    <3>2. Head(w).lock = lock
      BY <1>8
    <3> HIDE DEF w, Z
    <3> QED BY <1>7, <1>8, <2>1, <3>1, <3>2
  <2>2. CASE z = << >>
    BY <2>2, EmptyBlock DEF Block, Covers
  <2>3. CASE z \in Y
    BY <1>9, <2>3
  <2> QED BY <2>1, <2>2, <2>3
<1>11. Covers(Z, L \cup {lock})
  <2> HIDE DEF Z
  <2> QED BY <1>10 DEF Covers
<1>12. w \in Z
  OBVIOUS
<1>13. Block(w, L \cup {lock})
  <2> HIDE DEF w, Z
  <2> QED BY <1>6, <1>8, <1>11, <1>12 DEF Block
<1>14. Locks!Step(take, lock) \o t \o Locks!Step(drop, lock) = w
  BY DEF Locks!Step
<1> QED BY <1>13, <1>14

LEMMA ReadingBlock ==
  ASSUME NEW t, NEW L, Block(t, L), NEW lock \in Locks!Lock,
         \A m \in L : m = lock \/ Rank(lock) < Rank(m)
  PROVE  Block(Locks!Reading(lock, t), L \cup {lock})
BY WithinBlock DEF Locks!Reading

LEMMA LockingBlock ==
  ASSUME NEW t, NEW L, Block(t, L), NEW lock \in Locks!Lock,
         \A m \in L : m = lock \/ Rank(lock) < Rank(m)
  PROVE  Block(Locks!Locking(lock, t), L \cup {lock})
BY WithinBlock DEF Locks!Locking

LEMMA BlockLegal ==
  ASSUME NEW t, NEW L, Block(t, L)
  PROVE  t \in Seq(Steps) /\ Legal(t)
BY DEF Block, Legal

\* What is locked last.
Last == {"cfgMu", "v3cfgMu"}
Plain == Locks!Lock \ {"tier1SnapMu", "auditV2Mu", "toolSlimMu", "cfgMu", "v3cfgMu"}

LEMMA SmallBlocks ==
  /\ Block(Locks!Nothing, {})
  /\ Block(Locks!ReadConfig, {"cfgMu"}) /\ Block(Locks!WriteConfig, {"cfgMu"})
  /\ Block(Locks!AuditEntry, {"cfgMu", "auditV2Mu"})
  /\ Block(Locks!Audited, {"cfgMu", "auditV2Mu"})
  /\ Block(Locks!Reading("v3cfgMu", Locks!Nothing), {"v3cfgMu"})
  /\ Block(Locks!Locking("v3cfgMu", Locks!Nothing), {"v3cfgMu"})
<1>0. {"cfgMu", "v3cfgMu", "auditV2Mu"} \subseteq Locks!Lock
  BY DEF Locks!Lock
<1>1. Block(Locks!Nothing, {})
  BY EmptyBlock DEF Locks!Nothing
<1>2. /\ Block(Locks!Reading("cfgMu", Locks!Nothing), {} \cup {"cfgMu"})
      /\ Block(Locks!Reading("v3cfgMu", Locks!Nothing), {} \cup {"v3cfgMu"})
  BY <1>0, <1>1, ReadingBlock
<1>3. /\ Block(Locks!Locking("cfgMu", Locks!Nothing), {} \cup {"cfgMu"})
      /\ Block(Locks!Locking("v3cfgMu", Locks!Nothing), {} \cup {"v3cfgMu"})
  BY <1>0, <1>1, LockingBlock
<1>4. {} \cup {"cfgMu"} = {"cfgMu"} /\ {} \cup {"v3cfgMu"} = {"v3cfgMu"}
  OBVIOUS
<1>5. Block(Locks!ReadConfig, {"cfgMu"}) /\ Block(Locks!WriteConfig, {"cfgMu"})
  BY <1>2, <1>3, <1>4 DEF Locks!ReadConfig, Locks!WriteConfig
<1>6. Block(Locks!AuditEntry, {"cfgMu"} \cup {"auditV2Mu"})
  <2>1. \A m \in {"cfgMu"} : Rank("auditV2Mu") < Rank(m)
    BY DEF Rank
  <2> QED BY <1>0, <1>5, <2>1, LockingBlock DEF Locks!AuditEntry
<1>7. {"cfgMu"} \cup {"auditV2Mu"} = {"cfgMu", "auditV2Mu"}
  OBVIOUS
<1>8. Block(Locks!Audited, {"cfgMu"} \cup {"cfgMu", "auditV2Mu"})
  BY <1>5, <1>6, <1>7, JoinedBlock DEF Locks!Audited
<1>9. {"cfgMu"} \cup {"cfgMu", "auditV2Mu"} = {"cfgMu", "auditV2Mu"}
  OBVIOUS
<1> QED BY <1>1, <1>2, <1>3, <1>4, <1>5, <1>6, <1>7, <1>8, <1>9

\* A lock of its own around one thing that is locked after it.
LEMMA PlainBlocks ==
  ASSUME NEW lock \in Plain, NEW t, NEW L, Block(t, L),
         L \subseteq {"cfgMu", "v3cfgMu", "auditV2Mu", "toolSlimMu"}
  PROVE  /\ Block(Locks!Reading(lock, t), L \cup {lock})
         /\ Block(Locks!Locking(lock, t), L \cup {lock})
<1>1. lock \in Locks!Lock /\ \A m \in L : Rank(lock) < Rank(m)
  BY DEF Plain, Rank
<1> QED BY <1>1, ReadingBlock, LockingBlock

\* Every section is sound from its beginning to its end.
LEMMA SectionsLegal ==
  ASSUME NEW g, NEW t \in Locks!Sections(g)
  PROVE  t \in Seq(Steps) /\ Legal(t)
<1> DEFINE Proper(x) == x \in Seq(Steps) /\ Legal(x)
           Below == {"cfgMu", "v3cfgMu", "auditV2Mu", "toolSlimMu"}
<1>1. Proper(Locks!ReadConfig) /\ Proper(Locks!WriteConfig) /\ Proper(Locks!AuditEntry)
  BY SmallBlocks, BlockLegal
<1>2. Proper(Locks!Locking("v3cfgMu", Locks!Nothing))
  BY SmallBlocks, BlockLegal
<1>3. /\ {"modMu", "fwMu", "banMu", "cspMu", "rtMu", "meterMu", "sharedMemMu", "sharedInfoMu",
          "tier1CacheMu", "sbMu", "guardMu", "ipRepMu", "wlMu"} \subseteq Plain
      /\ {"cfgMu", "v3cfgMu", "toolSlimMu", "tier1SnapMu"} \subseteq Locks!Lock
  BY DEF Plain, Locks!Lock
<1>4. \A lock \in Plain : \A x, L :
        Block(x, L) /\ L \subseteq Below
          => /\ Block(Locks!Reading(lock, x), L \cup {lock})
             /\ Block(Locks!Locking(lock, x), L \cup {lock})
  BY PlainBlocks
<1>5. \A x, L : Block(x, L) => Proper(x)
  BY BlockLegal
<1> HIDE DEF Proper
<1>6. \A lock \in Plain : \A x, L :
        Block(x, L) /\ L \subseteq Below
          => Proper(Locks!Reading(lock, x)) /\ Proper(Locks!Locking(lock, x))
  BY <1>4, <1>5
<1>7. \A lock \in Plain :
        /\ Proper(Locks!Reading(lock, Locks!Nothing))
        /\ Proper(Locks!Locking(lock, Locks!Nothing))
        /\ Proper(Locks!Locking(lock, Locks!ReadConfig))
        /\ Proper(Locks!Locking(lock, Locks!Audited))
        /\ Proper(Locks!Locking(lock, Locks!Reading("v3cfgMu", Locks!Nothing)))
  BY <1>6, SmallBlocks
<1>8. Proper(Locks!Reading("cfgMu", Locks!ReadConfig))
  BY <1>3, <1>5, SmallBlocks, ReadingBlock
<1>9. Proper(Locks!Locking("meterMu", Locks!Locking("toolSlimMu", Locks!Nothing)))
  <2>1. Block(Locks!Locking("toolSlimMu", Locks!Nothing), {} \cup {"toolSlimMu"})
    BY <1>3, SmallBlocks, LockingBlock
  <2> QED BY <1>3, <1>6, <2>1
<1>10. Proper(Locks!Locking("sbMu", Locks!Locking("sbMu", Locks!Nothing)))
  <2>1. Block(Locks!Locking("sbMu", Locks!Nothing), {} \cup {"sbMu"})
    BY <1>3, <1>4, SmallBlocks
  <2>2. "sbMu" \in Locks!Lock
    BY <1>3 DEF Plain
  <2>3. Block(Locks!Locking("sbMu", Locks!Locking("sbMu", Locks!Nothing)),
              ({} \cup {"sbMu"}) \cup {"sbMu"})
    BY <2>1, <2>2, LockingBlock
  <2> QED BY <1>5, <2>3
<1>11. Block(Locks!Reading("v3cfgMu", Locks!Nothing) \o Locks!Audited,
             {"v3cfgMu"} \cup {"cfgMu", "auditV2Mu"})
  BY SmallBlocks, JoinedBlock
<1>12. Block(Locks!Tier1CacheLoad, ({"v3cfgMu"} \cup {"cfgMu", "auditV2Mu"}) \cup {"tier1CacheMu"})
  BY <1>3, <1>4, <1>11 DEF Locks!Tier1CacheLoad
<1>13. \A x \in Locks!Tier1HardwareSnapshot : Proper(x)
  <2>1. Block(Locks!Reading("v3cfgMu", Locks!Nothing) \o Locks!Tier1CacheLoad,
              {"v3cfgMu"} \cup (({"v3cfgMu"} \cup {"cfgMu", "auditV2Mu"}) \cup {"tier1CacheMu"}))
    BY <1>12, SmallBlocks, JoinedBlock
  <2> DEFINE body == Locks!Reading("v3cfgMu", Locks!Nothing) \o Locks!Tier1CacheLoad
             M == {"v3cfgMu"} \cup (({"v3cfgMu"} \cup {"cfgMu", "auditV2Mu"}) \cup {"tier1CacheMu"})
  <2>2. \A m \in M : Rank("tier1SnapMu") < Rank(m)
    BY DEF Rank
  <2> HIDE DEF body, M
  <2>3. Block(body, M) /\ "tier1SnapMu" \in Locks!Lock
    BY <1>3, <2>1 DEF body, M
  <2>4. Block(Locks!Locking("tier1SnapMu", body), M \cup {"tier1SnapMu"})
    BY <2>2, <2>3, LockingBlock
  <2>5. Proper(Locks!Locking("tier1SnapMu", body))
    BY <1>5, <2>4
  <2> QED BY <2>5 DEF Locks!Tier1HardwareSnapshot, body
<1>14. \A x \in Locks!WlReconcile : Proper(x)
  <2>1. Block(Locks!ReadConfig \o Locks!Audited, {"cfgMu"} \cup {"cfgMu", "auditV2Mu"})
    BY SmallBlocks, JoinedBlock
  <2>2. Block(Locks!ReadConfig \o Locks!Audited \o Locks!WriteConfig,
              ({"cfgMu"} \cup {"cfgMu", "auditV2Mu"}) \cup {"cfgMu"})
    BY <2>1, SmallBlocks, JoinedBlock
  <2>3. Block(Locks!ReadConfig \o Locks!Audited \o Locks!WriteConfig
                \o Locks!Locking("v3cfgMu", Locks!Nothing),
              (({"cfgMu"} \cup {"cfgMu", "auditV2Mu"}) \cup {"cfgMu"}) \cup {"v3cfgMu"})
    BY <2>2, SmallBlocks, JoinedBlock
  <2> QED BY <1>3, <1>6, <2>3 DEF Locks!WlReconcile
<1>15. \A x \in Locks!WlRegistryView : Proper(x)
  <2>1. Block(Locks!ReadConfig \o Locks!Reading("v3cfgMu", Locks!Nothing), {"cfgMu"} \cup {"v3cfgMu"})
    BY SmallBlocks, JoinedBlock
  <2> QED BY <1>3, <1>6, <2>1 DEF Locks!WlRegistryView
<1>16. \A x \in Locks!AuditLog \cup Locks!ModuleEnabledByID \cup Locks!CapabilityRoute
            \cup Locks!FirewallReconcile : Proper(x)
  BY <1>1, <1>3, <1>7
  DEF Locks!AuditLog, Locks!ModuleEnabledByID, Locks!CapabilityRoute, Locks!FirewallReconcile
<1>17. \A x \in Locks!IdentityFromRequest \cup Locks!ScanModelMatrix \cup Locks!SetModuleEnabled
            \cup Locks!ApplyModulesFromConfig \cup Locks!GetCSPPolicy \cup Locks!RtPick
            \cup Locks!SmSet \cup Locks!SiAdd \cup Locks!Tier1CacheInvalidate
            \cup Locks!HandleScoreBoard \cup Locks!StepResourceGuardian \cup Locks!IpRepTick : Proper(x)
  BY <1>3, <1>7, <1>8, <1>10
  DEF Locks!IdentityFromRequest, Locks!GatewayAPIKey, Locks!ScanModelMatrix,
      Locks!SetModuleEnabled, Locks!ApplyModulesFromConfig, Locks!GetCSPPolicy, Locks!RtPick,
      Locks!SmSet, Locks!SiAdd, Locks!Tier1CacheInvalidate, Locks!HandleScoreBoard,
      Locks!StepResourceGuardian, Locks!IpRepTick
<1>18. \A x \in Locks!FirewallBanIP \cup Locks!HandleConfig \cup Locks!HandleV34Meter
            \cup Locks!ApplyTenantsFromLoad : Proper(x)
  BY <1>1, <1>3, <1>7, <1>9, <1>16
  DEF Locks!FirewallBanIP, Locks!HandleConfig, Locks!HandleV34Meter, Locks!ApplyTenantsFromLoad
<1>19. Proper(t)
  BY <1>2, <1>13, <1>14, <1>15, <1>16, <1>17, <1>18
  DEF Locks!Sections, Locks!FirewallBanIPExtra, Locks!SmDelete, Locks!Reload
<1> QED BY <1>19 DEF Proper

-----------------------------------------------------------------------------
LEMMA LocksAssumed == Unused \notin Locks!Goroutine
BY ServicesAssumption DEF Locks!NoneAssumption

LegalLater == \A g \in Locks!Goroutine : Legal(v1[g])

\* Whoever is written down as the writer of a lock has it, or wants it now.
Writing(t, lock) ==
  WrittenBy(t, lock) \/ (t # << >> /\ Head(t) = [do |-> "lock", lock |-> lock])

LocksHold ==
  /\ v1 \in [Locks!Goroutine -> Seq(Steps)]
  /\ v2 \in [Locks!Lock -> Locks!Goroutine \cup {Unused}]
  /\ LegalLater
  /\ \A g \in Locks!Goroutine, lock \in Locks!Lock : v2[lock] = g => Writing(v1[g], lock)

LEMMA LegalTail ==
  ASSUME NEW t \in Seq(Steps), t # << >>, Legal(t)
  PROVE  /\ Head(t) \in Steps /\ Tail(t) \in Seq(Steps) /\ Legal(Tail(t)) /\ Ordered(t)
<1>1. PICK X, L : t \in X /\ Covers(X, L)
  BY DEF Legal
<1>2. Tail(t) \in X /\ Ordered(t)
  BY <1>1 DEF Covers
<1>3. Legal(Tail(t))
  BY <1>1, <1>2 DEF Legal
<1> QED BY <1>2, <1>3

LEMMA EmptyLegal == << >> \in Seq(Steps) /\ Legal(<< >>)
BY EmptyBlock, BlockLegal

LEMMA LocksStart == Locks!Init => LocksHold
<1> SUFFICES ASSUME Locks!Init PROVE LocksHold
  OBVIOUS
<1> QED BY EmptyLegal, LocksAssumed DEF Locks!Init, Locks!Nothing, LocksHold, LegalLater

\* A step leaves of what is written what it is not about.
LEMMA WritingLater ==
  ASSUME NEW t \in Seq(Steps), t # << >>, Legal(t), NEW lock \in Locks!Lock,
         Writing(t, lock), Head(t) # [do |-> "unlock", lock |-> lock]
  PROVE  Writing(Tail(t), lock)
<1>1. \A do : Times(t, do, lock) = Times(Tail(t), do, lock)
                + (IF Head(t) = [do |-> do, lock |-> lock] THEN 1 ELSE 0)
  BY TimesTail
<1>2. Head(t) \in Steps /\ Tail(t) \in Seq(Steps) /\ Ordered(t)
  BY LegalTail
<1>3. \A do : Times(t, do, lock) \in Nat /\ Times(Tail(t), do, lock) \in Nat
  BY <1>2, Finite
<1>4. CASE WrittenBy(t, lock)
  <2>1. Times(t, "unlock", lock) = Times(Tail(t), "unlock", lock)
    BY <1>1, <1>3
  <2>2. Times(Tail(t), "lock", lock) <= Times(t, "lock", lock)
    BY <1>1, <1>3
  <2> QED BY <1>3, <1>4, <2>1, <2>2 DEF WrittenBy, Writing
<1>5. CASE Head(t) = [do |-> "lock", lock |-> lock]
  <2>1. Times(t, "unlock", lock) = Times(Tail(t), "unlock", lock)
    BY <1>1, <1>3
  <2>2. Times(t, "lock", lock) = Times(Tail(t), "lock", lock) + 1
    BY <1>1, <1>5
  <2>3. Times(t, "lock", lock) <= Times(t, "unlock", lock)
    BY <1>2 DEF Ordered
  <2> QED BY <1>3, <2>1, <2>2, <2>3 DEF WrittenBy, Writing
<1> QED BY <1>4, <1>5 DEF Writing

LEMMA NothingWritten == \A lock : ~Writing(<< >>, lock)
BY TimesNever DEF Writing, WrittenBy

LEMMA LocksKeep == LocksHold /\ Locks!Next => LocksHold'
<1> SUFFICES ASSUME LocksHold, Locks!Next PROVE LocksHold'
  OBVIOUS
<1>0. /\ v1 \in [Locks!Goroutine -> Seq(Steps)]
      /\ v2 \in [Locks!Lock -> Locks!Goroutine \cup {Unused}]
      /\ \A g \in Locks!Goroutine : Legal(v1[g])
      /\ \A g \in Locks!Goroutine, lock \in Locks!Lock : v2[lock] = g => Writing(v1[g], lock)
  BY DEF LocksHold, LegalLater
<1>1. PICK g \in Locks!Goroutine :
        \/ Locks!Begin(g) \/ Locks!RLock(g) \/ Locks!RUnlock(g)
        \/ Locks!Announce(g) \/ Locks!Acquire(g) \/ Locks!Unlock(g)
  BY DEF Locks!Next
<1> DEFINE t == v1[g]
<1>2. t \in Seq(Steps) /\ Legal(t)
  BY <1>0
<1>3. ASSUME t # << >>
      PROVE  Head(t) \in Steps /\ Tail(t) \in Seq(Steps) /\ Legal(Tail(t))
  BY <1>2, <1>3, LegalTail
<1>4. ASSUME NEW new \in Seq(Steps), Legal(new), v1' = [v1 EXCEPT ![g] = new],
             v2' \in [Locks!Lock -> Locks!Goroutine \cup {Unused}],
             \A h \in Locks!Goroutine, lock \in Locks!Lock :
               v2'[lock] = h => v2[lock] = h,
             \A lock \in Locks!Lock : v2'[lock] = g => Writing(new, lock)
      PROVE  LocksHold'
  <2>1. /\ v1' \in [Locks!Goroutine -> Seq(Steps)] /\ v1'[g] = new
        /\ \A h \in Locks!Goroutine : h # g => v1'[h] = v1[h]
    BY <1>0, <1>4
  <2>2. \A h \in Locks!Goroutine : Legal(v1'[h])
    BY <1>0, <1>4, <2>1
  <2>3. \A h \in Locks!Goroutine, lock \in Locks!Lock : v2'[lock] = h => Writing(v1'[h], lock)
    BY <1>0, <1>4, <2>1
  <2> QED BY <1>4, <2>1, <2>2, <2>3 DEF LocksHold, LegalLater
<1>5. CASE Locks!Begin(g)
  <2>1. PICK new \in Locks!Sections(g) : v1' = [v1 EXCEPT ![g] = new]
    BY <1>5 DEF Locks!Begin
  <2>2. new \in Seq(Steps) /\ Legal(new)
    BY SectionsLegal
  <2>3. v2' = v2 /\ t = << >>
    BY <1>5 DEF Locks!Begin, Locks!Nothing
  <2>4. \A lock \in Locks!Lock : v2[lock] # g
    BY <1>0, <2>3, NothingWritten
  <2> QED BY <1>0, <1>4, <2>1, <2>2, <2>3, <2>4
<1>6. CASE Locks!RLock(g) \/ Locks!RUnlock(g) \/ Locks!Acquire(g)
  <2>1. t # << >> /\ Head(t).do # "unlock" /\ v1' = [v1 EXCEPT ![g] = Tail(t)] /\ v2' = v2
    BY <1>6
    DEF Locks!RLock, Locks!RUnlock, Locks!Acquire, Locks!At, Locks!Proceed, Locks!Nothing
  <2>2. \A lock \in Locks!Lock : Head(t) # [do |-> "unlock", lock |-> lock]
    BY <2>1
  <2>3. \A lock \in Locks!Lock : v2'[lock] = g => Writing(Tail(t), lock)
    BY <1>0, <1>2, <2>1, <2>2, WritingLater
  <2> QED BY <1>0, <1>3, <1>4, <2>1, <2>3
<1>7. CASE Locks!Announce(g)
  <2>1. /\ t # << >> /\ Head(t).do = "lock" /\ v1' = v1
        /\ v2' = [v2 EXCEPT ![Head(t).lock] = g]
    BY <1>7 DEF Locks!Announce, Locks!At, Locks!Wanted, Locks!Nothing
  <2>2. Head(t) = [do |-> "lock", lock |-> Head(t).lock] /\ Head(t).lock \in Locks!Lock
    BY <1>3, <2>1 DEF Steps
  <2>3. ASSUME NEW h \in Locks!Goroutine, NEW lock \in Locks!Lock, v2'[lock] = h
        PROVE  Writing(v1[h], lock)
    <3>1. CASE lock = Head(t).lock
      <4>1. h = g
        BY <1>0, <2>1, <2>2, <2>3, <3>1
      <4> QED BY <2>1, <2>2, <3>1, <4>1 DEF Writing
    <3>2. CASE lock # Head(t).lock
      BY <1>0, <2>1, <2>3, <3>2
    <3> QED BY <3>1, <3>2
  <2>4. v2' \in [Locks!Lock -> Locks!Goroutine \cup {Unused}]
    BY <1>0, <2>1
  <2> QED BY <1>0, <2>1, <2>3, <2>4 DEF LocksHold, LegalLater
<1>8. CASE Locks!Unlock(g)
  <2>1. /\ t # << >> /\ Head(t).do = "unlock" /\ v1' = [v1 EXCEPT ![g] = Tail(t)]
        /\ v2' = [v2 EXCEPT ![Head(t).lock] = Unused]
    BY <1>8 DEF Locks!Unlock, Locks!At, Locks!Wanted, Locks!Proceed, Locks!Nothing
  <2>2. Head(t).lock \in Locks!Lock
    BY <1>3, <2>1 DEF Steps
  <2>3. /\ v2' \in [Locks!Lock -> Locks!Goroutine \cup {Unused}]
        /\ v2'[Head(t).lock] = Unused
        /\ \A lock \in Locks!Lock : lock # Head(t).lock => v2'[lock] = v2[lock]
    BY <1>0, <2>1, <2>2
  <2>4. \A h \in Locks!Goroutine, lock \in Locks!Lock : v2'[lock] = h => v2[lock] = h
    BY <2>3, LocksAssumed
  <2>5. \A lock \in Locks!Lock : v2'[lock] = g => Writing(Tail(t), lock)
    <3>1. SUFFICES ASSUME NEW lock \in Locks!Lock, v2'[lock] = g
                   PROVE  Writing(Tail(t), lock)
      OBVIOUS
    <3>2. lock # Head(t).lock /\ v2[lock] = g
      BY <2>3, <2>4, <3>1, LocksAssumed
    <3>3. Head(t) # [do |-> "unlock", lock |-> lock] /\ Writing(t, lock)
      BY <1>0, <3>2
    <3> QED BY <1>2, <2>1, <3>3, WritingLater
  <2> QED BY <1>3, <1>4, <2>1, <2>3, <2>4, <2>5
<1> QED BY <1>1, <1>5, <1>6, <1>7, <1>8

LEMMA LocksTypes == LocksHold => Locks!TypeOK
BY DEF LocksHold, Locks!TypeOK, Steps

-----------------------------------------------------------------------------
(* Who holds what, as LockOrder counts it. *)

LEMMA LocksCardinality == \A S : Locks!Cardinality(S) = Cardinality(S)
BY Zenon DEF Locks!Cardinality, Cardinality

LEMMA Counts ==
  ASSUME NEW g, NEW lock
  PROVE  /\ Locks!Reads(g, lock) <=> ReadBy(v1[g], lock)
         /\ Locks!Writes(g, lock) <=> WrittenBy(v1[g], lock)
<1>1. \A do : Locks!Ahead(g, do, lock) = Times(v1[g], do, lock)
  BY LocksCardinality DEF Locks!Ahead, Times, Places
<1> QED BY <1>1 DEF Locks!Reads, Locks!Writes, ReadBy, WrittenBy

Asking(g) == Locks!At(g, "rlock") \/ Locks!At(g, "lock")

LEMMA Higher ==
  ASSUME LocksHold, NEW g \in Locks!Goroutine, Asking(g), ~Locks!Reenters(g),
         NEW lock \in Locks!Lock, HeldBy(v1[g], lock)
  PROVE  Rank(lock) < Rank(Locks!Wanted(g))
<1>1. v1[g] \in Seq(Steps) /\ Legal(v1[g])
  BY DEF LocksHold, LegalLater
<1>2. v1[g] # << >> /\ Acquires(Head(v1[g]))
  BY DEF Asking, Locks!At, Locks!Nothing, Acquires
<1>3. ~HeldBy(v1[g], Locks!Wanted(g))
  BY Counts DEF Asking, Locks!Reenters, HeldBy
<1>4. Ordered(v1[g])
  BY <1>1, <1>2, LegalTail
<1> QED BY <1>2, <1>3, <1>4 DEF Ordered, Locks!Wanted

LEMMA Wants ==
  ASSUME LocksHold, NEW g \in Locks!Goroutine, Asking(g)
  PROVE  Locks!Wanted(g) \in Locks!Lock /\ Rank(Locks!Wanted(g)) \in 1..4
<1>1. v1[g] \in Seq(Steps) /\ v1[g] # << >>
  BY DEF LocksHold, Asking, Locks!At, Locks!Nothing
<1>2. Head(v1[g]) \in Steps
  BY <1>1
<1> QED BY <1>2 DEF Steps, Locks!Wanted, Rank

\* Behind somebody who waits there is another, who waits for a lock of greater rank.
LEMMA Behind ==
  ASSUME LocksHold, NEW S \in SUBSET Locks!Goroutine, Locks!Knot(S),
         \A g \in S : ~Locks!Reenters(g), NEW g \in S
  PROVE  \E h \in S : Rank(Locks!Wanted(g)) < Rank(Locks!Wanted(h))
<1>1. \A h \in S : h \in Locks!Goroutine /\ Asking(h) /\ \E k \in S : Locks!WaitsFor(h, k)
  BY DEF Locks!Knot, Locks!WaitsFor, Asking
<1> DEFINE w == Locks!Wanted(g)
<1>2. w \in Locks!Lock
  BY <1>1, Wants
<1>3. \A h \in S : HeldBy(v1[h], w) => Rank(w) < Rank(Locks!Wanted(h))
  BY <1>1, <1>2, Higher
<1>4. PICK h \in S : Locks!WaitsFor(g, h)
  BY <1>1
<1>5. CASE Locks!At(g, "lock") /\ Locks!Announced(g) /\ Locks!Reads(h, w)
  BY <1>3, <1>5, Counts DEF HeldBy
<1>6. CASE v2[w] = h /\ ~(Locks!At(g, "lock") /\ Locks!Announced(g))
  <2>1. Writing(v1[h], w)
    BY <1>1, <1>2, <1>6 DEF LocksHold
  <2>2. CASE WrittenBy(v1[h], w)
    BY <1>3, <2>2 DEF HeldBy
  <2>3. CASE ~WrittenBy(v1[h], w)
    <3>1. Head(v1[h]) = [do |-> "lock", lock |-> w] /\ v1[h] # << >>
      BY <2>1, <2>3 DEF Writing
    <3>2. Locks!Wanted(h) = w /\ Locks!At(h, "lock") /\ ~Locks!At(h, "rlock")
      BY <3>1 DEF Locks!Wanted, Locks!At, Locks!Nothing
    <3>3. Locks!Announced(h)
      BY <1>6, <2>3, <3>2, Counts DEF Locks!Announced
    <3>4. PICK k \in S : Locks!WaitsFor(h, k)
      BY <1>1
    <3>5. Locks!Reads(k, w)
      BY <3>2, <3>3, <3>4 DEF Locks!WaitsFor
    <3>6. ReadBy(v1[k], w)
      BY <3>5, Counts
    <3> QED BY <1>3, <3>6 DEF HeldBy
  <2> QED BY <2>2, <2>3
<1>7. Locks!At(g, "rlock") => ~Locks!At(g, "lock")
  BY DEF Locks!At
<1> QED BY <1>4, <1>5, <1>6, <1>7 DEF Locks!WaitsFor

LEMMA LocksOnlyReentry == LocksHold => Locks!OnlyReentryBlocks
<1> SUFFICES ASSUME LocksHold, NEW S \in SUBSET Locks!Goroutine, Locks!Knot(S),
                    \A g \in S : ~Locks!Reenters(g)
             PROVE  FALSE
  BY DEF Locks!OnlyReentryBlocks
<1>1. \A g \in S : Rank(Locks!Wanted(g)) \in 1..4
  <2>1. \A g \in S : g \in Locks!Goroutine /\ Asking(g)
    BY DEF Locks!Knot, Locks!WaitsFor, Asking
  <2> QED BY <2>1, Wants
<1>2. \A g \in S : \E h \in S : Rank(Locks!Wanted(g)) < Rank(Locks!Wanted(h))
  BY Behind
<1>3. ~\E g \in S : Rank(Locks!Wanted(g)) \in 4..4
  BY <1>1, <1>2
<1>4. ~\E g \in S : Rank(Locks!Wanted(g)) \in 3..4
  BY <1>1, <1>2, <1>3
<1>5. ~\E g \in S : Rank(Locks!Wanted(g)) \in 2..4
  BY <1>1, <1>2, <1>4
<1>6. ~\E g \in S : Rank(Locks!Wanted(g)) \in 1..4
  BY <1>1, <1>2, <1>5
<1> QED BY <1>1, <1>6 DEF Locks!Knot

-----------------------------------------------------------------------------
(* Types that no other property needs. *)

\* What is cached of a provider, and the sessions.
CacheHolds ==
  /\ v2 \in Logins!Meta \cup {Logins!NoMeta} /\ v3 \in Logins!Meta \cup {Logins!NoMeta}
  /\ v5 \in [State -> Logins!Gone..(SessionLife + 1)]

LEMMA CacheStarts == Logins!Init => CacheHolds
BY LoginAssumed
DEF CacheHolds, Logins!Init, Logins!Meta, Logins!NoMeta, Logins!Gone, Logins!LifeAssumption

LEMMA Discovering ==
  ASSUME CacheHolds, NEW i \in Issuer, Logins!Discovered(i)
  PROVE  v2' \in Logins!Meta \cup {Logins!NoMeta}
BY LoginAssumed DEF CacheHolds, Logins!Discovered, Logins!Meta, Logins!LifeAssumption

LEMMA CacheAges ==
  ASSUME NEW m \in Logins!Meta \cup {Logins!NoMeta}
  PROVE  (IF m = Logins!NoMeta THEN m
          ELSE [m EXCEPT !.age = Logins!Least(@ + 1, CacheLife + 1)])
           \in Logins!Meta \cup {Logins!NoMeta}
<1>1. CASE m = Logins!NoMeta
  BY <1>1
<1>2. CASE m # Logins!NoMeta
  <2>1. Logins!Least(m.age + 1, CacheLife + 1) \in 0..(CacheLife + 1)
    BY <1>2, LoginAssumed DEF Logins!Meta, Logins!Least, Logins!LifeAssumption
  <2> QED BY <1>2, <2>1 DEF Logins!Meta
<1> QED BY <1>1, <1>2

LEMMA SessionAges ==
  ASSUME NEW age \in Logins!Gone..(SessionLife + 1)
  PROVE  Logins!Older(age, SessionLife) \in Logins!Gone..(SessionLife + 1)
BY LoginAssumed DEF Logins!Older, Logins!Least, Logins!Gone, Logins!LifeAssumption

LEMMA CacheKeeps == LoginHolds /\ CacheHolds /\ Logins!Next => CacheHolds'
<1> SUFFICES ASSUME LoginHolds, CacheHolds, Logins!Next PROVE CacheHolds'
  OBVIOUS
<1>0. /\ v2 \in Logins!Meta \cup {Logins!NoMeta} /\ v3 \in Logins!Meta \cup {Logins!NoMeta}
      /\ v5 \in [State -> Logins!Gone..(SessionLife + 1)]
      /\ v6 \in [Handler -> LoginSteps]
  BY DEF CacheHolds, LoginHolds
<1>1. ASSUME NEW s \in State, Logins!Login(s) PROVE CacheHolds'
  BY <1>0, <1>1, Discovering DEF Logins!Login, CacheHolds
<1>2. ASSUME NEW s \in State, Logins!Logout(s) PROVE CacheHolds'
  <2>1. -1 \in Logins!Gone..(SessionLife + 1)
    BY LoginAssumed DEF Logins!Gone, Logins!LifeAssumption
  <2> QED BY <1>0, <1>2, <2>1 DEF Logins!Logout, Logins!cache, CacheHolds, Logins!Gone
<1>3. ASSUME NEW h \in Handler, NEW s \in State, Logins!Take(h, s) PROVE CacheHolds'
  BY <1>0, <1>3 DEF Logins!Take, Logins!cache, CacheHolds
<1>4. ASSUME NEW h \in Handler, Logins!Accept(h) \/ Logins!Verify(h) \/ Logins!Refuse(h)
      PROVE  CacheHolds'
  BY <1>0, <1>4 DEF Logins!Accept, Logins!Verify, Logins!Refuse, Logins!cache, CacheHolds
<1>5. ASSUME NEW h \in Handler, Logins!Exchange(h) PROVE CacheHolds'
  BY <1>0, <1>5, Discovering DEF Logins!Exchange, CacheHolds
<1>6. ASSUME NEW h \in Handler, Logins!Look(h) PROVE CacheHolds'
  <2>1. PICK i \in Issuer :
          Logins!Discovered(i) /\ v3' = IF Logins!Good(v3) THEN v3 ELSE [of |-> i, age |-> 0]
    BY <1>6 DEF Logins!Look
  <2>2. [of |-> i, age |-> 0] \in Logins!Meta
    BY LoginAssumed DEF Logins!Meta, Logins!LifeAssumption
  <2>3. v5' = v5
    BY <1>6 DEF Logins!Look
  <2> QED BY <1>0, <2>1, <2>2, <2>3, Discovering DEF CacheHolds
<1>7. ASSUME NEW h \in Handler, Logins!Create(h) PROVE CacheHolds'
  <2> DEFINE s == v6[h].state
             new == [v5 EXCEPT ![s] = v6[h].age]
  <2>1. /\ v6[h].at = "create" /\ v2' = v2 /\ v3' = v3
        /\ v5' = [t \in State |-> IF new[t] > SessionLife THEN Logins!Gone ELSE new[t]]
    BY <1>7 DEF Logins!Create, Logins!cache
  <2>2. s \in State /\ v6[h].age \in 0..(SessionLife + 1)
    BY <1>0, <2>1 DEF LoginSteps, Logins!Idle
  <2>3. \A t \in State : new[t] \in Logins!Gone..(SessionLife + 1)
    BY <1>0, <2>2, LoginAssumed DEF Logins!Gone, Logins!LifeAssumption
  <2>4. Logins!Gone \in Logins!Gone..(SessionLife + 1)
    BY LoginAssumed DEF Logins!Gone, Logins!LifeAssumption
  <2> HIDE DEF new
  <2> QED BY <1>0, <2>1, <2>3, <2>4 DEF CacheHolds
<1>8. CASE Logins!Configure
  BY <1>0, <1>8 DEF Logins!Configure, Logins!cache, CacheHolds
<1>9. CASE Logins!Tick
  <2>1. /\ v2' = IF v2 = Logins!NoMeta THEN v2
                 ELSE [v2 EXCEPT !.age = Logins!Least(@ + 1, CacheLife + 1)]
        /\ v3' = IF v3 = Logins!NoMeta THEN v3
                 ELSE [v3 EXCEPT !.age = Logins!Least(@ + 1, CacheLife + 1)]
        /\ v5' = [s \in State |-> Logins!Older(v5[s], SessionLife)]
    BY <1>9 DEF Logins!Tick
  <2>2. v2' \in Logins!Meta \cup {Logins!NoMeta}
    BY <1>0, <2>1, CacheAges
  <2>3. v3' \in Logins!Meta \cup {Logins!NoMeta}
    BY <1>0, <2>1, CacheAges
  <2>4. v5' \in [State -> Logins!Gone..(SessionLife + 1)]
    BY <1>0, <2>1, SessionAges
  <2> QED BY <2>2, <2>3, <2>4 DEF CacheHolds
<1> QED
  BY <1>1, <1>2, <1>3, <1>4, <1>5, <1>6, <1>7, <1>8, <1>9 DEF Logins!Next, Logins!Callback

LEMMA LoginTypes == LoginHolds /\ CacheHolds => Logins!TypeOK
BY DEF LoginHolds, CacheHolds, LoginSteps, Logins!TypeOK

LEMMA IntegrationTypes == IntegrationHolds => Integration!TypeOK
BY DEF IntegrationHolds, Integration!TypeOK, Born, Acting, Waits

\* What handlers do is a function of them, and whether two copies met a yes or no.
ActorsHold == v9 \in BOOLEAN /\ \E S : v8 \in [Handler -> S]

LEMMA ActorsStart == Tenants!Init => ActorsHold
<1> SUFFICES ASSUME Tenants!Init PROVE ActorsHold
  OBVIOUS
<1>1. v9 = FALSE /\ v8 = [h \in Handler |-> Tenants!Idle]
  BY DEF Tenants!Init
<1>2. v8 \in [Handler -> {Tenants!Idle}]
  BY <1>1
<1> QED BY <1>1, <1>2 DEF ActorsHold

LEMMA ActorsKeep ==
  ASSUME ActorsHold, Tenants!Next
  PROVE  ActorsHold'
<1>0. PICK S : v8 \in [Handler -> S]
  BY DEF ActorsHold
<1>1. ASSUME NEW h \in Handler, Tenants!TakeCopy(h) PROVE v9' \in BOOLEAN
  BY <1>1, Zenon DEF Tenants!TakeCopy
<1>2. ASSUME NEW h \in Handler, Tenants!Request(h)
      PROVE  /\ Tenants!TakeCopy(h) \/ v9' = v9 \/ v9' = TRUE
             /\ \E do : v8' = [v8 EXCEPT ![h] = do]
  BY <1>2
  DEF Tenants!Request, Tenants!Arrive, Tenants!Check, Tenants!Uncharged, Tenants!Answer,
      Tenants!Charge, Tenants!TakeCopy, Tenants!OpenFile, Tenants!WriteFile, Tenants!Unwritten,
      Tenants!quotaVars, Tenants!Goto
<1>3. ASSUME NEW h \in Handler, NEW do, v8' = [v8 EXCEPT ![h] = do]
      PROVE  v8' \in [Handler -> S \cup {do}]
  BY <1>0, <1>3
<1>4. ASSUME Tenants!Reload \/ Tenants!Midnight PROVE v9' = v9 /\ v8' = v8
  BY <1>4
  DEF Tenants!Reload, Tenants!Load, Tenants!CheckUsers, Tenants!ApplyTenants,
      Tenants!Midnight, Tenants!quotaVars
<1>5. ASSUME Tenants!Restart PROVE v9' = FALSE /\ v8' \in [Handler -> {Tenants!Idle}]
  BY <1>5 DEF Tenants!Restart
<1>6. v9' = v9 \/ v9' = FALSE \/ v9' \in BOOLEAN
  BY <1>1, <1>2, <1>4, <1>5 DEF Tenants!Next
<1>7. v9' \in BOOLEAN
  BY <1>6, Zenon DEF ActorsHold
<1>8. \E T : v8' \in [Handler -> T]
  BY <1>0, <1>2, <1>3, <1>4, <1>5 DEF Tenants!Next
<1> QED BY <1>7, <1>8 DEF ActorsHold

LEMMA TenantTypes == TenantsHold /\ ActorsHold => Tenants!TypeOK
<1> SUFFICES ASSUME TenantsHold, ActorsHold PROVE Tenants!TypeOK
  OBVIOUS
<1>1. v5 \in Tenants!Day /\ LastDay \in Nat
  BY TenantsAssumed DEF TenantsHold, QuotasHold, Tenants!BoundAssumption
<1>2. CopyUpTo(v5) \subseteq Tenants!Copy
  BY <1>1 DEF CopyUpTo, Tenants!Copy, Tenants!Day
<1>3. ASSUME NEW h \in Handler PROVE v8[h] \in Tenants!Doing \cup {Tenants!Idle}
  <2>1. Sound(v8[h], v5)
    BY DEF TenantsHold, QuotasHold
  <2>2. Charging(v5) \subseteq [at : {"charge"}, user : User, who : Tenants!Entry,
                               day : Tenants!Day, cost : 1..MaxCost]
    BY <1>1 DEF Charging, Tenants!Day
  <2>3. [at : {"open", "write"}, copy : CopyUpTo(v5)]
          \subseteq [at : {"open", "write"}, copy : Tenants!Copy]
    BY <1>2
  <2> QED BY <2>1, <2>2, <2>3 DEF Sound, Tenants!Doing
<1>4. v7 \in Tenants!Copy \cup {Unreadable}
  BY <1>2 DEF TenantsHold, QuotasHold
<1>5. v8 \in [Handler -> Tenants!Doing \cup {Tenants!Idle}]
  <2>1. PICK S : v8 \in [Handler -> S]
    BY DEF ActorsHold
  <2> QED BY <1>3, <2>1
<1>6. v10 \in BOOLEAN /\ v9 \in BOOLEAN
  BY DEF TenantsHold, ConfigHolds, ActorsHold
<1> QED BY <1>1, <1>4, <1>5, <1>6 DEF TenantsHold, ConfigHolds, QuotasHold, Tenants!TypeOK

-----------------------------------------------------------------------------
(* All services. *)

\* A behaviour is one of one service, of which the service's invariant holds.
Holds ==
  /\ part = "probe" => ProbeHolds
  /\ part = "login" => LoginHolds /\ CacheHolds
  /\ part = "update" => UpdateHolds
  /\ part = "election" => ElectionHolds
  /\ part = "integration" => IntegrationHolds
  /\ part = "lists" => ListsHold
  /\ part = "limit" => LimitHolds
  /\ part = "tenants" => TenantsHold /\ ActorsHold
  /\ part = "memory" => MemoryHolds
  /\ part = "locks" => LocksHold
  /\ \A s \in DOMAIN Stores : part = s => VaultHolds(s)

\* The name of a vault is that of no other service.
LEMMA StoresApart == \A s \in DOMAIN Stores : s \notin NamedParts
BY ServicesAssumption

LEMMA Starts == Init => Holds
<1> SUFFICES ASSUME Init PROVE Holds
  OBVIOUS
<1> USE DEF ProbeInit, LoginInit, UpdateInit, ElectionInit, IntegrationInit, ListsInit,
    LimitInit, TenantsInit, MemoryInit, LocksInit, StoreInit
<1>1. \/ TenantsInit \/ ProbeInit \/ LoginInit \/ UpdateInit \/ ElectionInit
      \/ IntegrationInit \/ ListsInit \/ LimitInit \/ MemoryInit \/ LocksInit \/ StoreInit
  BY DEF Init
<1>2. /\ part = "probe" => Probe!Init
      /\ part = "login" => Logins!Init
      /\ part = "update" => Installer!Init
      /\ part = "election" => Election!Init
      /\ part = "integration" => Integration!Init
      /\ part = "lists" => Lists!Init
      /\ part = "limit" => Limiter!Init
      /\ part = "tenants" => Tenants!Init
      /\ part = "memory" => Memory!Init
      /\ part = "locks" => Locks!Init
  BY <1>1, StoresApart DEF NamedParts
<1>3. \A s \in DOMAIN Stores : part = s => Store(s)!Init
  BY <1>1, StoresApart DEF NamedParts
<1>4. \A s \in DOMAIN Stores : part = s => VaultHolds(s)
  BY <1>3, VaultStarts
<1> HIDE DEF ProbeInit, LoginInit, UpdateInit, ElectionInit, IntegrationInit, ListsInit,
    LimitInit, TenantsInit, MemoryInit, LocksInit, StoreInit
<1> QED
  BY <1>2, <1>4, ProbeStarts, LoginStarts, CacheStarts, UpdateStarts, ElectionStarts,
     IntegrationStarts, ListsStart, LimitAssumed, LimitStarts, TenantsStart, ActorsStart,
     MemoryStarts, LocksStart
  DEF Holds, TenantsHold

\* Nothing of a service changes while nothing happens.
LEMMA Stuttering == Holds /\ UNCHANGED vars => Holds'
<1> SUFFICES ASSUME Holds, UNCHANGED vars PROVE Holds'
  OBVIOUS
<1>0. /\ part' = part /\ v1' = v1 /\ v2' = v2 /\ v3' = v3 /\ v4' = v4 /\ v5' = v5
      /\ v6' = v6 /\ v7' = v7 /\ v8' = v8 /\ v9' = v9 /\ v10' = v10
  BY DEF vars
<1>1. ProbeHolds => ProbeHolds'
  BY <1>0 DEF ProbeHolds, Probe!TypeOK
<1>2. LoginHolds /\ CacheHolds => LoginHolds' /\ CacheHolds'
  BY <1>0 DEF LoginHolds, CacheHolds
<1>3. ElectionHolds => ElectionHolds'
  BY <1>0 DEF ElectionHolds, Election!TypeOK
<1>4. IntegrationHolds => IntegrationHolds'
  BY <1>0, IntegrationForm DEF IntegrationHolds, Awaited
<1>5. ListsHold => ListsHold'
  BY <1>0 DEF ListsHold, Lists!TypeOK, Lists!AllNamed
<1>6. LimitHolds => LimitHolds'
  BY <1>0 DEF LimitHolds, Limiter!TypeOK, AskersKnown, Conserved
<1>7. TenantsHold /\ ActorsHold => TenantsHold' /\ ActorsHold'
  <2>1. ConfigHolds /\ PlacedHolds => ConfigHolds' /\ PlacedHolds'
    BY <1>0 DEF ConfigHolds, PlacedHolds
  <2>2. QuotasHold => QuotasHold'
    BY <1>0 DEF QuotasHold
  <2>3. FileHolds => FileHolds'
    BY <1>0, FileForm, FileNow
  <2>4. SpendingHolds => SpendingHolds'
    BY <1>0, SpendingForm DEF SpendingHolds
  <2>5. ActorsHold => ActorsHold'
    BY <1>0 DEF ActorsHold
  <2> QED BY <2>1, <2>2, <2>3, <2>4, <2>5 DEF TenantsHold
<1>8. UpdateHolds => UpdateHolds'
  <2>1. Led => Led'
    BY <1>0 DEF Led, Good, GoodAll
  <2>2. (\A j \in Job : Sure(j)) => (\A j \in Job : Sure(j)')
    BY <1>0 DEF Sure, GoodAll, Good
  <2> QED BY <1>0, <2>1, <2>2 DEF UpdateHolds, Installer!TypeOK, Alone
<1>9. MemoryHolds => MemoryHolds'
  BY <1>0 DEF MemoryHolds, Memory!KeptAcrossRestarts
<1>10. LocksHold => LocksHold'
  BY <1>0 DEF LocksHold, LegalLater
<1>11. ASSUME NEW s \in DOMAIN Stores, VaultHolds(s) PROVE VaultHolds(s)'
  <2>1. FilesHold(s)' /\ BlobsHold(s)'
    BY <1>0, <1>11 DEF VaultHolds, FilesHold, BlobsHold, Filed
  <2>2. HandlersHold(s)'
    BY <1>0, <1>11 DEF VaultHolds, HandlersHold, Setting, Missing, Opening, Answered, Filed
  <2>3. ProtectorHolds(s)'
    BY <1>0, <1>11 DEF VaultHolds, ProtectorHolds, Store!RevealsTrue
  <2> QED BY <2>1, <2>2, <2>3 DEF VaultHolds
<1> QED
  BY <1>0, <1>1, <1>2, <1>3, <1>4, <1>5, <1>6, <1>7, <1>8, <1>9, <1>10, <1>11 DEF Holds

LEMMA Keeps == Holds /\ [Next]_vars => Holds'
<1> SUFFICES ASSUME Holds, Next PROVE Holds'
  BY Stuttering
<1> USE DEF ProbeNext, LoginNext, UpdateNext, ElectionNext, IntegrationNext, ListsNext,
    LimitNext, TenantsNext, MemoryNext, LocksNext, StoreNext
<1>1. \/ TenantsNext \/ ProbeNext \/ LoginNext \/ UpdateNext \/ ElectionNext
      \/ IntegrationNext \/ ListsNext \/ LimitNext \/ MemoryNext \/ LocksNext \/ StoreNext
  BY DEF Next
<1>2. part' = part
  BY <1>1
<1>3. /\ part = "probe" => Probe!Next
      /\ part = "login" => Logins!Next
      /\ part = "update" => Installer!Next
      /\ part = "election" => Election!Next
      /\ part = "integration" => Integration!Next
      /\ part = "lists" => Lists!Next
      /\ part = "limit" => Limiter!Next
      /\ part = "tenants" => Tenants!Next
      /\ part = "memory" => Memory!Next
      /\ part = "locks" => Locks!Next
  BY <1>1, StoresApart DEF NamedParts
<1>4. \A s \in DOMAIN Stores : part = s => Store(s)!Next
  BY <1>1, StoresApart DEF NamedParts
<1>5. \A s \in DOMAIN Stores : part = s => VaultHolds(s)'
  BY <1>4, VaultKept DEF Holds
<1> HIDE DEF ProbeNext, LoginNext, UpdateNext, ElectionNext, IntegrationNext, ListsNext,
    LimitNext, TenantsNext, MemoryNext, LocksNext, StoreNext
<1> QED
  BY <1>2, <1>3, <1>5, ProbeKeeps, LoginKeeps, CacheKeeps, UpdateKeeps, ElectionKeeps,
     IntegrationKeeps, ListsKeep, LimitAssumed, LimitKeeps, TenantsKeep, ActorsKeep,
     MemoryKeeps, LocksKeep
  DEF Holds

\* The invariant of every service, at all times.
THEOREM Invariance == Spec => []Holds
BY Starts, Keeps, PTL DEF Spec

\* One session of a login at most, one leader until two steps clash, and no process of an
\* integration that nobody holds (oauth.go, crownext/skylink/coord.go, pkg/mcp/manager.go):
\* for any handlers, states, candidates, callers and processes.
THEOREM OneOfEachHolds == Spec => []OneOfEach
<1>1. Holds => OneOfEach
  <2>1. ElectionHolds => Election!OneLeaderUnlessClash
    BY DEF ElectionHolds, Election!OneLeaderUnlessClash
  <2> QED BY <2>1, LoginOnce, IntegrationForm DEF Holds, OneOfEach
<1> QED BY <1>1, Invariance, PTL

\* whitelist.go: every list in force has been named by an audit record, for any kinds and
\* values, over crashes and edits of the files.
THEOREM NamedAlways == Spec => []AllNamed
<1>1. Holds => AllNamed
  BY DEF Holds, AllNamed, ListsHold
<1> QED BY <1>1, Invariance, PTL

\* tier1.go: a failing command is started once a pause at most, for any threshold and pause.
THEOREM SpacedAlways == Spec => SpacedRuns
<1>1. Holds /\ [Next]_vars
        => [part = "probe" => (Probe!Run /\ v4' = "running" => v6 < Threshold \/ v7 = Pause)]_vars
  BY ProbeSpaced DEF Holds
<1> QED BY <1>1, Invariance, PTL DEF Spec, SpacedRuns

\* ratelimit.go: no bucket gives more than a full one at once and the largest quota a
\* minute after that, for any quotas, requests, sweeps and times.
THEOREM BucketsBounded == Spec => []RateBounded
<1>1. Holds => RateBounded
  BY LimitBounded DEF Holds, RateBounded
<1> QED BY <1>1, Invariance, PTL

\* tenant.go, main.go, chat.go: calls under way together overshoot a quota by less than
\* what one call may cost for each handler, for any tables, lists, costs and handlers.
THEOREM QuotasBounded == Spec => []OvershootBounded
<1>1. Holds => OvershootBounded
  BY Overshoots DEF Holds, OvershootBounded, TenantsHold
<1> QED BY <1>1, Invariance, PTL

\* tenant.go: a restart finds the usage that was in memory, once every charge has been
\* written and no two copies met.
THEOREM UsageKept == Spec => []FileCurrent
<1>1. Holds => FileCurrent
  BY FileIsCurrent DEF Holds, FileCurrent, TenantsHold
<1> QED BY <1>1, Invariance, PTL

\* tenant.go: between two reloads every user belongs to a tenant in force, unless one half
\* of a reload was refused and the other not, or an empty table came between.
THEOREM UsersPlaced == Spec => []PlacedUnlessMixed
<1>1. Holds => PlacedUnlessMixed
  BY TablesPlaced DEF Holds, PlacedUnlessMixed, TenantsHold
<1> QED BY <1>1, Invariance, PTL

\* pkg/update, sharedmemory.go, crownext/vault: what is kept survives.  The pointer and the
\* history lead to whole versions while no two jobs met, readers find the same after a
\* restart once every write was saved, and what was sealed or masked comes back: for any
\* versions, jobs, keys and limits, and vaults of any names, secrets and handlers.
THEOREM DurableAlways == Spec => []Durable
<1>1. Holds => Durable
  BY UpdateWhole, MemoryKept, VaultTrue DEF Holds, Durable
<1> QED BY <1>1, Invariance, PTL

\* Goroutines block each other only behind one that asks for a lock it holds: for any number
\* of handlers and workers (handlers.go:260-264 and the functions that lock).
THEOREM ReentryOnly == Spec => []OnlyReentryBlocks
<1>1. Holds => OnlyReentryBlocks
  BY LocksOnlyReentry DEF Holds, OnlyReentryBlocks
<1> QED BY <1>1, Invariance, PTL

\* Every service keeps its types, the bounds of what it stores among them.
THEOREM TypesKept == Spec => []TypeOK
<1>1. Holds => TypeOK
  <2>1. /\ ProbeHolds => Probe!TypeOK
        /\ UpdateHolds => Installer!TypeOK
        /\ ElectionHolds => Election!TypeOK
        /\ ListsHold => Lists!TypeOK
        /\ LimitHolds => Limiter!TypeOK
    BY DEF ProbeHolds, UpdateHolds, ElectionHolds, ListsHold, LimitHolds
  <2> QED
    BY <2>1, LoginTypes, IntegrationTypes, TenantTypes, MemoryTypes, LocksTypes, VaultTypes
    DEF Holds, TypeOK
<1> QED BY <1>1, Invariance, PTL

=============================================================================

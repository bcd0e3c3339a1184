------------------------- MODULE SidecarHub_proofs -------------------------
(***************************************************************************)
(* Proofs about SidecarHub, for any modules, supervisors and goroutines    *)
(* and any number of scans, switches, reloads and failures: each           *)
(* supervisor keeps the promises of SidecarLifecycle, and a module that    *)
(* nobody raced for has one supervisor at a time, which the table knows.   *)
(*                                                                         *)
(* The refinement rests on IInv: a supervisor has a process only where it  *)
(* knows of it.  The rest rests on RInv, which keeps the books of a module *)
(* that is not raced for: one goroutine at most is changing it, it has     *)
(* taken the entry out of the table before it waits or loads, and whoever  *)
(* still works for the module is in the table or waited for.               *)
(***************************************************************************)
EXTENDS SidecarHub, TLAPS

\* A supervisor has one process at most, and none before it starts one, while it
\* pauses, and when it is over.
Alone ==
  \A s \in Sup :
    Born(s) => /\ sup[s].alive \in {0, 1}
               /\ sup[s].at \in {"start", "sleep", "done"} => sup[s].alive = 0

\* Who is in the table, or waited for, has begun.
ListedBorn == \A m \in Module : table[m] # None => Born(table[m])
WaitedBorn ==
  \A a \in Actor :
    /\ actor[a].at \in {"reap", "swept"} => Born(actor[a].wait)
    /\ actor[a].at = "reload" => \A s \in actor[a].wait : Born(s)

IInv == TypeOK /\ Alone /\ ListedBorn /\ WaitedBorn

-----------------------------------------------------------------------------
\* Cancelling changes nothing but off.
LEMMA Cancelling ==
  ASSUME sup \in [Sup -> Supervisor \cup {Unborn}], NEW S
  PROVE  /\ Cancelled(S) \in [Sup -> Supervisor \cup {Unborn}]
         /\ \A s \in Sup :
              /\ Cancelled(S)[s] = Unborn <=> sup[s] = Unborn
              /\ sup[s] # Unborn => /\ Cancelled(S)[s].at = sup[s].at
                                    /\ Cancelled(S)[s].alive = sup[s].alive
<1>1. ASSUME NEW s \in Sup
      PROVE  /\ Cancelled(S)[s] \in Supervisor \cup {Unborn}
             /\ Cancelled(S)[s] = Unborn <=> sup[s] = Unborn
             /\ sup[s] # Unborn => /\ Cancelled(S)[s].at = sup[s].at
                                   /\ Cancelled(S)[s].alive = sup[s].alive
  <2>1. CASE s \in S /\ Born(s)
    <3>1. Cancelled(S)[s] = [sup[s] EXCEPT !.off = TRUE]
      BY <2>1 DEF Cancelled
    <3>2. sup[s] \in Supervisor
      BY <2>1 DEF Born
    <3>3. [sup[s] EXCEPT !.off = TRUE] \in Supervisor
      BY <3>2 DEF Supervisor
    <3>4. /\ [sup[s] EXCEPT !.off = TRUE].at = sup[s].at
          /\ [sup[s] EXCEPT !.off = TRUE].alive = sup[s].alive
      BY <3>2 DEF Supervisor
    <3>5. sup[s] # Unborn /\ Cancelled(S)[s] # Unborn
      BY <3>1, <3>2, <3>4, <2>1 DEF Born, Supervisor, Unborn
    <3>6. QED BY <3>1, <3>2, <3>3, <3>4, <3>5
  <2>2. CASE ~(s \in S /\ Born(s))
    BY <2>2 DEF Cancelled
  <2>3. QED BY <2>1, <2>2
<1>2. Cancelled(S) = [s \in Sup |-> Cancelled(S)[s]]
  BY DEF Cancelled
<1>3. QED BY <1>1, <1>2

\* Has no process where it may have none.
Sound(q) == /\ q \in Supervisor
            /\ q.alive \in {0, 1}
            /\ q.at \in {"start", "sleep", "done"} => q.alive = 0

\* What SidecarLifecycle sees of a supervisor.
View(q) ==
  [stage |-> IF q = Unborn THEN "none"
             ELSE IF q.at = "done" THEN "over"
             ELSE IF q.at \in {"watch", "stop"} THEN "serving" ELSE "trying",
   processes |-> IF q = Unborn THEN 0 ELSE q.alive]

\* A step of its life, or none.
Moves(p, q) == View(q) = View(p) \/ Life!Step(View(p), View(q))

\* What a supervisor is when it has returned, was disabled, or failed.
LEMMA Outcomes ==
  ASSUME NEW r \in Supervisor, r.alive \in {0, 1}, NEW n \in Nat
  PROVE  /\ Ended(r) \in Supervisor /\ Ended(r).at = "done" /\ Ended(r).alive = r.alive
         /\ Disabled(r) \in Supervisor /\ Disabled(r).at = "done" /\ Disabled(r).alive = 0
         /\ AfterFailure(r, n) \in Supervisor
         /\ \/ AfterFailure(r, n).at = "done" /\ AfterFailure(r, n).alive = 0
            \/ AfterFailure(r, n).at = "sleep" /\ AfterFailure(r, n).alive = r.alive
<1>1. Ended(r) \in Supervisor /\ Ended(r).at = "done" /\ Ended(r).alive = r.alive
  BY DEF Ended, Supervisor
<1>2. Disabled(r) \in Supervisor /\ Disabled(r).at = "done" /\ Disabled(r).alive = 0
  <2>1. Disabled(r) = [Ended(r) EXCEPT !.alive = Killed(@)]
    BY DEF Disabled
  <2>2. Killed(Ended(r).alive) = 0
    BY <1>1 DEF Killed
  <2>3. Disabled(r) = [Ended(r) EXCEPT !.alive = 0]
    BY <2>1, <2>2
  <2>4. QED BY <1>1, <2>3 DEF Supervisor
<1>3. CASE TooMany(r.fails + n)
  BY <1>1, <1>2, <1>3 DEF AfterFailure
<1>4. CASE ~TooMany(r.fails + n)
  <2>1. AfterFailure(r, n) = [r EXCEPT !.fails = @ + n, !.at = "sleep"]
    BY <1>4 DEF AfterFailure
  <2>2. r.fails + n \in Nat
    BY DEF Supervisor
  <2>3. QED BY <1>1, <1>2, <2>1, <2>2 DEF Supervisor
<1>5. QED BY <1>3, <1>4

\* A supervisor whose process is killed.
LEMMA Dropping ==
  ASSUME NEW s \in Sup, sup[s] \in Supervisor, sup[s].alive \in {0, 1}
  PROVE  /\ Dropped(s) \in Supervisor /\ Dropped(s).at = sup[s].at
         /\ Dropped(s).alive = 0 /\ Dropped(s).fails = sup[s].fails
<1>1. Killed(sup[s].alive) = 0
  BY DEF Killed
<1>2. Dropped(s) = [sup[s] EXCEPT !.alive = 0]
  BY <1>1 DEF Dropped
<1>3. QED BY <1>2 DEF Supervisor

\* What a step of a supervisor comes to.
Goes(s) ==
  /\ \E q \in Supervisor : Sound(q) /\ Moves(sup[s], q) /\ Becomes(s, q)
  /\ sock' \in [Module -> Sup \cup {None}]
  /\ UNCHANGED <<hubCtx, worker, table, actor, raced>>
\* A supervisor that is somewhere has begun, with all that the invariant says of it.
LEMMA Working1 ==
  ASSUME IInv, NEW s \in Sup, NEW at, at # "unborn", sup[s].at = at
  PROVE  /\ sup[s] \in Supervisor /\ Sound(sup[s]) /\ sup[s] # Unborn
         /\ sup[s].mod \in Module
         /\ Torn(s) \in [Module -> Sup \cup {None}]
<1>1. sup[s] \in Supervisor /\ sup[s] # Unborn
  BY DEF IInv, TypeOK, Unborn, Supervisor
<1>2. sup[s].mod \in Module
  BY <1>1 DEF Supervisor
<1>3. Torn(s) \in [Module -> Sup \cup {None}]
  BY <1>2 DEF Torn, IInv, TypeOK
<1>4. QED BY <1>1, <1>2, <1>3 DEF IInv, Alone, Born, Sound

\* The steps that a life allows, by where a supervisor is and what it has.
Trying == {"start", "await", "init", "sleep"}

\* Such a step is a step of SidecarLifecycle, or none.
LEMMA Moving ==
  ASSUME NEW p, NEW q, Sound(p), Sound(q),
         \/ q.alive = p.alive /\ q.at = p.at
         \/ q.alive = p.alive /\ q.at \in Trying /\ p.at \in Trying
         \/ q.alive = p.alive /\ q.at \in {"watch", "stop"} /\ p.at \in {"watch", "stop"}
         \/ q.alive = 1 /\ p.alive = 0 /\ q.at \in Trying /\ p.at \in Trying
         \/ q.alive = 0 /\ p.alive = 1 /\ q.at \in Trying /\ p.at \in Trying
         \/ q.alive = 0 /\ p.alive = 1 /\ q.at = p.at
         \/ q.alive = 1 /\ p.alive = 1 /\ q.at = "watch" /\ p.at \in Trying
         \/ q.alive = 0 /\ p.alive = 0 /\ q.at \in Trying /\ p.at = "watch"
         \/ q.at = "done" /\ p.at # "done"
  PROVE  Moves(p, q)
<1> DEFINE stage(r) == IF r.at = "done" THEN "over"
                       ELSE IF r.at \in {"watch", "stop"} THEN "serving" ELSE "trying"
<1>1. /\ p # Unborn /\ q # Unborn /\ p.alive \in {0, 1} /\ q.alive \in {0, 1}
      /\ q.at = "done" => q.alive = 0
      /\ p.at = "done" => p.alive = 0
  BY DEF Sound, Supervisor, Unborn
<1>2. /\ View(p) = [stage |-> stage(p), processes |-> p.alive]
      /\ View(q) = [stage |-> stage(q), processes |-> q.alive]
  BY <1>1 DEF View
<1>3. stage(p) \in {"over", "serving", "trying"} /\ stage(q) \in {"over", "serving", "trying"}
  OBVIOUS
<1>4. \/ q.alive = p.alive /\ stage(q) = stage(p)
      \/ q.alive = 1 /\ p.alive = 0 /\ stage(q) = "trying" /\ stage(p) = "trying"
      \/ q.alive = 0 /\ p.alive = 1 /\ stage(q) = stage(p)
      \/ q.alive = 1 /\ p.alive = 1 /\ stage(q) = "serving" /\ stage(p) = "trying"
      \/ q.alive = 0 /\ p.alive = 0 /\ stage(q) = "trying" /\ stage(p) = "serving"
      \/ stage(q) = "over" /\ q.alive = 0 /\ stage(p) # "over"
  BY <1>1 DEF Trying
<1> HIDE DEF stage
<1>5. CASE q.alive = p.alive /\ stage(q) = stage(p)
  BY <1>2, <1>5 DEF Moves
<1>6. CASE q.alive = 1 /\ p.alive = 0 /\ stage(q) = "trying" /\ stage(p) = "trying"
  BY <1>2, <1>6 DEF Moves, Life!Step, Life!Spawn
<1>7. CASE q.alive = 0 /\ p.alive = 1 /\ stage(q) = stage(p)
  BY <1>2, <1>7 DEF Moves, Life!Step, Life!Lose
<1>8. CASE q.alive = 1 /\ p.alive = 1 /\ stage(q) = "serving" /\ stage(p) = "trying"
  BY <1>2, <1>8 DEF Moves, Life!Step, Life!Serve
<1>9. CASE q.alive = 0 /\ p.alive = 0 /\ stage(q) = "trying" /\ stage(p) = "serving"
  BY <1>2, <1>9 DEF Moves, Life!Step, Life!Retry
<1>10. CASE stage(q) = "over" /\ q.alive = 0 /\ stage(p) # "over"
  BY <1>2, <1>3, <1>10 DEF Moves, Life!Step, Life!End
<1>11. QED BY <1>4, <1>5, <1>6, <1>7, <1>8, <1>9, <1>10

\* A supervisor that failed with its process gone, or with none, goes on living.
LEMMA Failing ==
  ASSUME NEW p, NEW r, NEW n \in Nat,
         Sound(p), p.at \in Trying \cup {"watch"},
         r \in Supervisor, r.alive = 0, p.at = "watch" => p.alive = 0
  PROVE  Sound(AfterFailure(r, n)) /\ Moves(p, AfterFailure(r, n))
<1> DEFINE q == AfterFailure(r, n)
<1>1. /\ q \in Supervisor /\ q.alive = 0 /\ q.at \in {"done", "sleep"}
  BY Outcomes
<1>2. p.alive \in {0, 1} /\ p.at # "done"
  BY DEF Sound, Trying
<1> HIDE DEF q
<1>3. Sound(q)
  BY <1>1 DEF Sound
<1>4. Moves(p, q)
  BY <1>1, <1>2, <1>3, Moving DEF Trying
<1>5. QED BY <1>3, <1>4 DEF q

\* Every step of a supervisor, or of its process, is a step of its life.
LEMMA Steps ==
  ASSUME IInv, NEW s \in Sup,
         Progress(s) \/ Healthy(s) \/ Unhealthy(s) \/ Exit(s)
  PROVE  Goes(s)
<1> DEFINE p == sup[s]
<1>0. sock \in [Module -> Sup \cup {None}] /\ 1 \in Nat /\ 2 \in Nat
  BY DEF IInv, TypeOK
<1>a. ASSUME p.at # "unborn"
      PROVE  /\ p \in Supervisor /\ Sound(p) /\ p.alive \in {0, 1}
             /\ p.at \in {"start", "sleep", "done"} => p.alive = 0
             /\ Torn(s) \in [Module -> Sup \cup {None}]
             /\ Ended(p) \in Supervisor /\ Ended(p).at = "done" /\ Ended(p).alive = p.alive
             /\ Disabled(p) \in Supervisor /\ Disabled(p).at = "done" /\ Disabled(p).alive = 0
             /\ Dropped(s) \in Supervisor /\ Dropped(s).alive = 0
  <2>1. p \in Supervisor /\ Sound(p) /\ Torn(s) \in [Module -> Sup \cup {None}]
    BY <1>a, Working1
  <2>2. p.alive \in {0, 1} /\ (p.at \in {"start", "sleep", "done"} => p.alive = 0)
    BY <2>1 DEF Sound
  <2>3. QED BY <1>0, <2>1, <2>2, Outcomes, Dropping
<1>1. CASE Return(s)
  <2>1. p.at = "start" /\ Becomes(s, Ended(p)) /\ UNCHANGED <<hubCtx, worker, table, sock, actor, raced>>
    BY <1>1 DEF Return
  <2>2. Sound(Ended(p)) /\ Moves(p, Ended(p))
    BY <1>a, <2>1, Moving DEF Sound
  <2>3. QED BY <1>0, <1>a, <2>1, <2>2 DEF Goes
<1>2. CASE Spawn(s)
  <2>1. p.at = "start" /\ sock' = Torn(s) /\ UNCHANGED <<hubCtx, worker, table, actor, raced>>
        /\ Becomes(s, [p EXCEPT !.at = "await", !.alive = @ + 1])
    BY <1>2 DEF Spawn
  <2>2. p.alive + 1 = 1
    BY <1>a, <2>1
  <2> DEFINE q == [p EXCEPT !.at = "await", !.alive = 1]
  <2>3. Becomes(s, q)
    BY <2>1, <2>2
  <2>4. q \in Supervisor /\ q.at = "await" /\ q.alive = 1
    BY <1>a, <2>1 DEF Supervisor
  <2> HIDE DEF q
  <2>5. Sound(q) /\ Moves(p, q)
    BY <1>a, <2>1, <2>4, Moving DEF Sound, Trying
  <2>6. QED BY <1>a, <2>1, <2>3, <2>4, <2>5 DEF Goes
<1>3. CASE NoSpawn(s)
  <2>1. p.at = "start" /\ sock' = Torn(s) /\ UNCHANGED <<hubCtx, worker, table, actor, raced>>
        /\ Becomes(s, AfterFailure(p, 1))
    BY <1>3 DEF NoSpawn
  <2>2. Sound(AfterFailure(p, 1)) /\ Moves(p, AfterFailure(p, 1))
    BY <1>0, <1>a, <2>1, Failing DEF Trying
  <2>3. QED BY <1>a, <2>1, <2>2 DEF Goes, Sound
<1>4. CASE Ready(s)
  <2> DEFINE q == [p EXCEPT !.at = "init"]
  <2>1. p.at = "await" /\ UNCHANGED <<hubCtx, worker, table, sock, actor, raced>> /\ Becomes(s, q)
    BY <1>4 DEF Ready
  <2>2. q \in Supervisor /\ q.at = "init" /\ q.alive = p.alive
    BY <1>a, <2>1 DEF Supervisor
  <2> HIDE DEF q
  <2>3. Sound(q) /\ Moves(p, q)
    BY <1>a, <2>1, <2>2, Moving DEF Sound, Trying
  <2>4. QED BY <1>0, <2>1, <2>2, <2>3 DEF Goes
<1>5. CASE EndedEarly(s)
  <2>1. p.at = "await" /\ p.alive = 0 /\ Becomes(s, AfterFailure(p, 1))
        /\ sock' \in {Torn(s), sock} /\ UNCHANGED <<hubCtx, worker, table, actor, raced>>
    BY <1>5 DEF EndedEarly
  <2>2. Sound(AfterFailure(p, 1)) /\ Moves(p, AfterFailure(p, 1))
    BY <1>0, <1>a, <2>1, Failing DEF Trying
  <2>3. QED BY <1>0, <1>a, <2>1, <2>2 DEF Goes, Sound
<1>6. CASE TooLate(s) \/ InitFails(s)
  <2>1. p.at \in {"await", "init"} /\ Becomes(s, AfterFailure(Dropped(s), 1))
        /\ sock' = Torn(s) /\ UNCHANGED <<hubCtx, worker, table, actor, raced>>
    BY <1>6 DEF TooLate, InitFails
  <2>2. Sound(AfterFailure(Dropped(s), 1)) /\ Moves(p, AfterFailure(Dropped(s), 1))
    BY <1>0, <1>a, <2>1, Failing DEF Trying
  <2>3. QED BY <1>0, <1>a, <2>1, <2>2 DEF Goes, Sound
<1>7. CASE InitDone(s)
  <2> DEFINE q == [p EXCEPT !.at = "watch", !.fails = 0]
  <2>1. p.at = "init" /\ p.alive > 0 /\ UNCHANGED <<hubCtx, worker, table, sock, actor, raced>>
        /\ Becomes(s, q)
    BY <1>7 DEF InitDone
  <2>a. p.alive = 1 /\ p \in Supervisor
    BY <1>a, <2>1
  <2>2. q \in Supervisor /\ q.at = "watch" /\ q.alive = 1 /\ p.alive = 1
    BY <2>a DEF Supervisor
  <2> HIDE DEF q
  <2>3. Sound(q) /\ Moves(p, q)
    BY <1>a, <2>1, <2>2, Moving DEF Sound, Trying
  <2>4. QED BY <1>0, <2>1, <2>2, <2>3 DEF Goes
<1>8. CASE Healthy(s)
  <2> DEFINE q == [p EXCEPT !.fails = 0]
  <2>1. p.at = "watch" /\ UNCHANGED <<hubCtx, worker, table, sock, actor, raced>> /\ Becomes(s, q)
    BY <1>8 DEF Healthy
  <2>2. q \in Supervisor /\ q.at = "watch" /\ q.alive = p.alive
    BY <1>a, <2>1 DEF Supervisor
  <2> HIDE DEF q
  <2>3. Sound(q) /\ Moves(p, q)
    BY <1>a, <2>1, <2>2, Moving DEF Sound
  <2>4. QED BY <1>0, <2>1, <2>2, <2>3 DEF Goes
<1>9. CASE Unhealthy(s)
  <2>1. p.at = "watch" /\ UNCHANGED <<hubCtx, worker, table, actor, raced>>
    BY <1>9 DEF Unhealthy
  <2>2. CASE GivesUp(s, 1)
    <3>1. Becomes(s, Disabled(p)) /\ sock' = Torn(s)
      BY <1>9, <2>2 DEF Unhealthy
    <3>2. Sound(Disabled(p)) /\ Moves(p, Disabled(p))
      BY <1>a, <2>1, Moving DEF Sound
    <3>3. QED BY <1>a, <2>1, <3>1, <3>2 DEF Goes
  <2>3. CASE ~GivesUp(s, 1)
    <3> DEFINE q == [p EXCEPT !.fails = @ + 1]
    <3>1. Becomes(s, q) /\ UNCHANGED sock
      BY <1>9, <2>3 DEF Unhealthy
    <3>2. p.fails + 1 \in Nat
      BY <1>a, <2>1 DEF Supervisor
    <3>3. q \in Supervisor /\ q.at = "watch" /\ q.alive = p.alive
      BY <1>a, <2>1, <3>2 DEF Supervisor
    <3> HIDE DEF q
    <3>4. Sound(q) /\ Moves(p, q)
      BY <1>a, <2>1, <3>3, Moving DEF Sound
    <3>5. QED BY <1>0, <2>1, <3>1, <3>3, <3>4 DEF Goes
  <2>4. QED BY <2>2, <2>3
<1>10. ASSUME NEW n \in {1, 2}, Crashed(s, n)
       PROVE  Goes(s)
  <2>1. p.at = "watch" /\ p.alive = 0 /\ UNCHANGED <<hubCtx, worker, table, actor, raced>>
    BY <1>10 DEF Crashed
  <2>2. CASE p.off
    <3>1. Becomes(s, Ended(p)) /\ UNCHANGED sock
      BY <1>10, <2>2 DEF Crashed
    <3>2. Sound(Ended(p)) /\ Moves(p, Ended(p))
      BY <1>a, <2>1, Moving DEF Sound
    <3>3. QED BY <1>0, <1>a, <2>1, <3>1, <3>2 DEF Goes
  <2>3. CASE ~p.off
    <3>1. Becomes(s, AfterFailure(p, n)) /\ sock' \in {Torn(s), sock}
      BY <1>10, <2>3 DEF Crashed
    <3>2. n \in Nat
      BY <1>0
    <3>3. Sound(AfterFailure(p, n)) /\ Moves(p, AfterFailure(p, n))
      BY <1>a, <2>1, <3>2, Failing
    <3>4. QED BY <1>0, <1>a, <2>1, <3>1, <3>3 DEF Goes, Sound
  <2>4. QED BY <2>2, <2>3
<1>11. CASE BeginStop(s)
  <2> DEFINE q == [p EXCEPT !.at = "stop"]
  <2>1. p.at = "watch" /\ UNCHANGED <<hubCtx, worker, table, sock, actor, raced>> /\ Becomes(s, q)
    BY <1>11 DEF BeginStop
  <2>2. q \in Supervisor /\ q.at = "stop" /\ q.alive = p.alive
    BY <1>a, <2>1 DEF Supervisor
  <2> HIDE DEF q
  <2>3. Sound(q) /\ Moves(p, q)
    BY <1>a, <2>1, <2>2, Moving DEF Sound
  <2>4. QED BY <1>0, <2>1, <2>2, <2>3 DEF Goes
<1>12. CASE Stop(s)
  <2>1. p.at = "stop" /\ sock' = Torn(s) /\ UNCHANGED <<hubCtx, worker, table, actor, raced>>
        /\ Becomes(s, Disabled(p))
    BY <1>12 DEF Stop
  <2>2. Sound(Disabled(p)) /\ Moves(p, Disabled(p))
    BY <1>a, <2>1, Moving DEF Sound
  <2>3. QED BY <1>a, <2>1, <2>2 DEF Goes
<1>13. CASE Wake(s)
  <2>1. p.at = "sleep" /\ UNCHANGED <<hubCtx, worker, table, sock, actor, raced>>
    BY <1>13 DEF Wake
  <2>2. CASE p.off
    <3>1. Becomes(s, Ended(p))
      BY <1>13, <2>2 DEF Wake
    <3>2. Sound(Ended(p)) /\ Moves(p, Ended(p))
      BY <1>a, <2>1, Moving DEF Sound
    <3>3. QED BY <1>0, <1>a, <2>1, <3>1, <3>2 DEF Goes
  <2>3. CASE ~p.off
    <3> DEFINE q == [p EXCEPT !.at = "start"]
    <3>1. Becomes(s, q)
      BY <1>13, <2>3 DEF Wake
    <3>2. q \in Supervisor /\ q.at = "start" /\ q.alive = p.alive
      BY <1>a, <2>1 DEF Supervisor
    <3> HIDE DEF q
    <3>3. Sound(q) /\ Moves(p, q)
      BY <1>a, <2>1, <3>2, Moving DEF Sound, Trying
    <3>4. QED BY <1>0, <2>1, <3>1, <3>2, <3>3 DEF Goes
  <2>4. QED BY <2>2, <2>3
<1>14. CASE Exit(s)
  <2>1. p.at \in {"await", "init", "watch", "stop"} /\ p.alive > 0
        /\ UNCHANGED <<hubCtx, worker, table, sock, actor, raced>>
        /\ Becomes(s, [p EXCEPT !.alive = @ - 1])
    BY <1>14 DEF Exit
  <2>2. p.alive = 1 /\ p.alive - 1 = 0
    BY <1>a, <2>1
  <2> DEFINE q == [p EXCEPT !.alive = 0]
  <2>3. Becomes(s, q)
    BY <2>1, <2>2
  <2>4. q \in Supervisor /\ q.at = p.at /\ q.alive = 0
    BY <1>a, <2>1 DEF Supervisor
  <2> HIDE DEF q
  <2>5. Sound(q) /\ Moves(p, q)
    BY <1>a, <2>1, <2>2, <2>4, Moving DEF Sound
  <2>6. QED BY <1>0, <2>1, <2>3, <2>4, <2>5 DEF Goes
<1>15. QED
  BY <1>1, <1>2, <1>3, <1>4, <1>5, <1>6, <1>7, <1>8, <1>9, <1>10, <1>11, <1>12, <1>13, <1>14
  DEF Progress

-----------------------------------------------------------------------------
(* The goroutines that scan. *)

\* What a scan does to the supervisors: nothing, or it cancels some, or it begins one.
Begun(s) ==
  /\ ~Born(s)
  /\ \E q \in Supervisor : q.at = "start" /\ q.alive = 0 /\ sup' = [sup EXCEPT ![s] = q]
Scans == sup' = sup \/ (\E S : sup' = Cancelled(S)) \/ (\E s \in Sup : Begun(s))

\* The tasks of a goroutine, by where it is.
LEMMA Tasks ==
  ASSUME TypeOK, NEW a \in Actor
  PROVE  LET do == actor[a] IN
         /\ do.at \in {"pick", "unload", "load", "reap"} =>
              /\ do.todo \in SUBSET Module /\ do.seen \in SUBSET Module /\ do.hub \in BOOLEAN
         /\ do.at = "pick" =>
              do \in [at : {"pick"}, todo : SUBSET Module, seen : SUBSET Module, hub : BOOLEAN]
         /\ do.at \in {"unload", "load", "reap", "swept"} => do.mod \in Module
         /\ do.at \in {"unload", "reap"} => do.man \in {"refused", "fit"}
         /\ do.at \in {"reap", "swept"} => do.wait \in Sup
         /\ do.at \in {"sweep", "swept"} => do.gone \in SUBSET Module /\ do.hub \in BOOLEAN
         /\ do.at = "sweep" => do \in [at : {"sweep"}, gone : SUBSET Module, hub : BOOLEAN]
         /\ do.at = "reload" => do.wait \in SUBSET Sup
<1>1. actor[a] \in Doing \cup {Idle}
  BY DEF TypeOK
<1>2. QED BY <1>1 DEF Doing, Idle

\* Where a scan goes on.
LEMMA GoingOn ==
  ASSUME NEW do, do.todo \in SUBSET Module, do.seen \in SUBSET Module, do.hub \in BOOLEAN,
         NEW m \in Module, NEW man \in {"refused", "fit"}
  PROVE  Onward(do) \in Doing /\ Judged(do, m, man) \in Doing
<1>1. Onward(do) \in Doing
  BY DEF Onward, Doing
<1>2. [at |-> "load", todo |-> do.todo, seen |-> do.seen, hub |-> do.hub, mod |-> m] \in Doing
  BY DEF Doing
<1>3. QED BY <1>1, <1>2 DEF Judged

\* A goroutine that turns to a task has one.
LEMMA Going ==
  ASSUME TypeOK, NEW a \in Actor, NEW do \in Doing \cup {Idle}, Goto(a, do)
  PROVE  actor' \in [Actor -> Doing \cup {Idle}]
BY DEF TypeOK, Goto

\* Who races and who is waited for are modules.
LEMMA Racers ==
  ASSUME TypeOK, NEW a \in Actor, NEW S \in SUBSET Module
  PROVE  Meets(a, S) \in SUBSET Module
BY DEF Meets

\* Supervisors stay what the invariant says of them, and those that began have begun.
LEMMA Scanning ==
  ASSUME IInv, Scans
  PROVE  /\ sup' \in [Sup -> Supervisor \cup {Unborn}]
         /\ Alone'
         /\ \A s \in Sup : Born(s) => Born(s)'
         /\ \A s \in Sup : Moves(sup[s], sup'[s])
<1>1. sup \in [Sup -> Supervisor \cup {Unborn}] /\ Alone
  BY DEF IInv, TypeOK
<1>2. CASE sup' = sup
  BY <1>1, <1>2 DEF Alone, Born, Moves
<1>3. ASSUME NEW S, sup' = Cancelled(S)
      PROVE  /\ sup' \in [Sup -> Supervisor \cup {Unborn}]
             /\ Alone'
             /\ \A s \in Sup : Born(s) => Born(s)'
             /\ \A s \in Sup : Moves(sup[s], sup'[s])
  <2>1. /\ sup' \in [Sup -> Supervisor \cup {Unborn}]
        /\ \A s \in Sup :
             /\ sup'[s] = Unborn <=> sup[s] = Unborn
             /\ sup[s] # Unborn => /\ sup'[s].at = sup[s].at
                                   /\ sup'[s].alive = sup[s].alive
    BY <1>1, <1>3, Cancelling
  <2>2. \A s \in Sup : View(sup'[s]) = View(sup[s])
    BY <2>1 DEF View
  <2>3. QED BY <1>1, <2>1, <2>2 DEF Alone, Born, Moves
<1>4. ASSUME NEW s \in Sup, Begun(s)
      PROVE  /\ sup' \in [Sup -> Supervisor \cup {Unborn}]
             /\ Alone'
             /\ \A t \in Sup : Born(t) => Born(t)'
             /\ \A t \in Sup : Moves(sup[t], sup'[t])
  <2>1. PICK q \in Supervisor :
          q.at = "start" /\ q.alive = 0 /\ sup' = [sup EXCEPT ![s] = q]
    BY <1>4 DEF Begun
  <2>2. sup[s] = Unborn /\ q # Unborn /\ sup'[s] = q
    BY <1>1, <1>4, <2>1 DEF Begun, Born, Unborn
  <2>3. /\ View(Unborn) = [stage |-> "none", processes |-> 0]
        /\ View(q) = [stage |-> "trying", processes |-> 0]
    BY <2>1, <2>2 DEF View
  <2>4. Moves(sup[s], sup'[s])
    BY <2>2, <2>3 DEF Moves, Life!Step, Life!Launch
  <2>5. \A t \in Sup \ {s} : sup'[t] = sup[t]
    BY <1>1, <2>1
  <2>6. QED BY <1>1, <2>1, <2>2, <2>4, <2>5 DEF Alone, Born, Moves
<1>5. QED BY <1>2, <1>3, <1>4 DEF Scans

\* A step of a scan keeps the invariant, if what it writes is of its kind.
LEMMA Acting ==
  ASSUME IInv, Scans, NEW a \in Actor, NEW do \in Doing \cup {Idle}, Goto(a, do),
         do.at \in {"reap", "swept"} => do.wait \in Sup /\ Born(do.wait),
         do.at = "reload" => \A s \in do.wait : s \in Sup /\ Born(s),
         hubCtx' \in {"none", "live", "dead"}, worker' \in Goroutine \cup {Resident, None},
         table' \in [Module -> Sup \cup {None}],
         \A m \in Module : table'[m] # None => sup'[table'[m]] # Unborn,
         raced' \subseteq Module, UNCHANGED sock
  PROVE  IInv' /\ \A s \in Sup : Moves(sup[s], sup'[s])
<1>1. /\ sup' \in [Sup -> Supervisor \cup {Unborn}]
      /\ Alone'
      /\ \A s \in Sup : sup[s] # Unborn => sup'[s] # Unborn
      /\ \A s \in Sup : Moves(sup[s], sup'[s])
  BY Scanning DEF Born
<1>2. actor' \in [Actor -> Doing \cup {Idle}]
  BY Going DEF IInv
<1>3. TypeOK'
  BY <1>1, <1>2 DEF IInv, TypeOK
<1>4. ListedBorn'
  BY DEF ListedBorn, Born
<1>5. ASSUME NEW b \in Actor
      PROVE  /\ actor'[b].at \in {"reap", "swept"} => sup'[actor'[b].wait] # Unborn
             /\ actor'[b].at = "reload" => \A s \in actor'[b].wait : sup'[s] # Unborn
  <2>1. CASE b = a
    <3>1. actor'[b] = do
      BY <2>1 DEF Goto, IInv, TypeOK
    <3>2. QED BY <1>1, <3>1 DEF Born
  <2>2. CASE b # a
    <3>1. actor'[b] = actor[b]
      BY <2>2 DEF Goto, IInv, TypeOK
    <3>2. /\ actor[b].at \in {"reap", "swept"} => actor[b].wait \in Sup /\ sup[actor[b].wait] # Unborn
          /\ actor[b].at = "reload" => \A s \in actor[b].wait : s \in Sup /\ sup[s] # Unborn
      BY Tasks DEF IInv, WaitedBorn, Born
    <3>3. QED BY <1>1, <3>1, <3>2
  <2>3. QED BY <2>1, <2>2
<1>6. WaitedBorn'
  BY <1>5 DEF WaitedBorn, Born
<1>7. QED BY <1>1, <1>3, <1>4, <1>6 DEF IInv

\* The same for a step that leaves the table alone, and what the table holds.
LEMMA Passing ==
  ASSUME IInv, Scans, NEW a \in Actor, NEW do \in Doing \cup {Idle}, Goto(a, do),
         do.at \notin {"reap", "swept", "reload"},
         hubCtx' \in {"none", "live", "dead"}, worker' \in Goroutine \cup {Resident, None},
         UNCHANGED <<table, sock>>, raced' \subseteq Module
  PROVE  IInv' /\ \A s \in Sup : Moves(sup[s], sup'[s])
<1>1. \A m \in Module : table'[m] # None => sup'[table'[m]] # Unborn
  BY Scanning DEF IInv, TypeOK, ListedBorn, Born
<1>2. table' \in [Module -> Sup \cup {None}]
  BY DEF IInv, TypeOK
<1>3. QED BY <1>1, <1>2, Acting

\* A supervisor in the table, and one that is waited for.
LEMMA Known ==
  ASSUME IInv
  PROVE  /\ Listed \in SUBSET Sup /\ \A s \in Listed : Born(s)
         /\ \A m \in Module : table[m] # None => table[m] \in Sup /\ Born(table[m])
         /\ \A s \in Sup : Born(s) => sup[s].mod \in Module /\ Waited(s) \in SUBSET Module
<1>1. \A m \in Module : table[m] # None => table[m] \in Sup /\ Born(table[m])
  BY DEF IInv, TypeOK, ListedBorn
<1>2. Listed \in SUBSET Sup /\ \A s \in Listed : Born(s)
  BY <1>1 DEF Listed
<1>3. \A s \in Sup : Born(s) => sup[s].mod \in Module /\ Waited(s) \in SUBSET Module
  BY DEF IInv, TypeOK, Born, Supervisor, Waited
<1>4. QED BY <1>1, <1>2, <1>3

\* What Acting asks of what a step leaves alone.
LEMMA Kinds ==
  ASSUME IInv
  PROVE  /\ hubCtx \in {"none", "live", "dead"} /\ worker \in Goroutine \cup {Resident, None}
         /\ raced \in SUBSET Module
         /\ table \in [Module -> Sup \cup {None}]
BY DEF IInv, TypeOK
\* The invariant is kept, and every supervisor lives on.
Kept == IInv' /\ \A s \in Sup : Moves(sup[s], sup'[s])

\* Every step of a scan.
LEMMA ScanKeeps ==
  ASSUME IInv, NEW a \in Actor, Scan(a)
  PROVE  Kept
<1> DEFINE do == actor[a]
<1>0. /\ hubCtx \in {"none", "live", "dead"} /\ worker \in Goroutine \cup {Resident, None}
      /\ raced \in SUBSET Module /\ table \in [Module -> Sup \cup {None}]
      /\ TypeOK
  BY Kinds DEF IInv
<1>1. CASE Unload(a)
  <2>1. /\ do.mod \in Module /\ do.man \in {"refused", "fit"}
        /\ do.todo \in SUBSET Module /\ do.seen \in SUBSET Module /\ do.hub \in BOOLEAN
    BY <1>0, <1>1, Tasks DEF Unload
  <2>2. UNCHANGED <<hubCtx, worker, sock, raced>>
    BY <1>1 DEF Unload
  <2>3. CASE table[do.mod] = None
    <3> DEFINE next == Judged(do, do.mod, do.man)
    <3>1. Goto(a, next) /\ UNCHANGED <<table, sup>>
      BY <1>1, <2>3 DEF Unload
    <3>2. next \in Doing /\ next.at \notin {"reap", "swept", "reload"}
      BY <2>1, GoingOn DEF Judged, Onward
    <3> HIDE DEF next
    <3>3. QED BY <1>0, <2>2, <3>1, <3>2, Passing DEF Scans, Kept
  <2>4. CASE table[do.mod] # None
    <3> DEFINE next == [at |-> "reap", todo |-> do.todo, seen |-> do.seen, hub |-> do.hub,
                        mod |-> do.mod, man |-> do.man, wait |-> table[do.mod]]
    <3>1. /\ table' = [table EXCEPT ![do.mod] = None]
          /\ sup' = Cancelled({table[do.mod]}) /\ Goto(a, next)
      BY <1>1, <2>4 DEF Unload
    <3>2. table[do.mod] \in Sup /\ Born(table[do.mod])
      BY <2>1, <2>4, Known
    <3>3. next \in Doing /\ next.at = "reap" /\ next.wait = table[do.mod]
      BY <2>1, <3>2 DEF Doing
    <3>4. Scans
      BY <3>1 DEF Scans
    <3>5. /\ table' \in [Module -> Sup \cup {None}]
          /\ \A m \in Module : table'[m] # None => sup'[table'[m]] # Unborn
      BY <1>0, <3>1, <3>4, Known, Scanning DEF Born
    <3> HIDE DEF next
    <3>6. QED BY <1>0, <2>2, <3>1, <3>2, <3>3, <3>4, <3>5, Acting DEF Kept
  <2>5. QED BY <2>3, <2>4
<1>2. CASE Reap(a)
  <2> DEFINE next == Judged(do, do.mod, do.man)
  <2>1. /\ do.at = "reap" /\ Goto(a, next) /\ raced' = raced \cup Waited(do.wait)
        /\ UNCHANGED <<hubCtx, worker, table, sup, sock>>
    BY <1>2 DEF Reap
  <2>2. /\ do.mod \in Module /\ do.man \in {"refused", "fit"} /\ do.wait \in Sup
        /\ do.todo \in SUBSET Module /\ do.seen \in SUBSET Module /\ do.hub \in BOOLEAN
    BY <1>0, <2>1, Tasks
  <2>3. Waited(do.wait) \in SUBSET Module
    BY <2>1, <2>2, Known DEF IInv, WaitedBorn
  <2>4. next \in Doing /\ next.at \notin {"reap", "swept", "reload"}
    BY <2>2, GoingOn DEF Judged, Onward
  <2> HIDE DEF next
  <2>5. QED BY <1>0, <2>1, <2>3, <2>4, Passing DEF Scans, Kept
<1>3. CASE Missing(a)
  <2> DEFINE next == [at |-> "sweep", hub |-> do.hub,
                      gone |-> {m \in Module \ do.seen : table[m] # None}]
  <2>1. do.at = "pick" /\ Goto(a, next) /\ UNCHANGED <<hubCtx, worker, table, sup, sock, raced>>
    BY <1>3 DEF Missing
  <2>2. do.hub \in BOOLEAN
    BY <1>0, <2>1, Tasks
  <2>3. next \in Doing /\ next.at = "sweep"
    BY <2>2 DEF Doing
  <2> HIDE DEF next
  <2>4. QED BY <1>0, <2>1, <2>3, Passing DEF Scans, Kept
<1>4. CASE Swept(a)
  <2> DEFINE next == [at |-> "sweep", gone |-> do.gone, hub |-> do.hub]
  <2>1. /\ do.at = "swept" /\ Goto(a, next) /\ raced' = raced \cup Waited(do.wait)
        /\ UNCHANGED <<hubCtx, worker, table, sup, sock>>
    BY <1>4 DEF Swept
  <2>2. do.wait \in Sup /\ do.gone \in SUBSET Module /\ do.hub \in BOOLEAN
    BY <1>0, <2>1, Tasks
  <2>3. Waited(do.wait) \in SUBSET Module
    BY <2>1, <2>2, Known DEF IInv, WaitedBorn
  <2>4. next \in Doing /\ next.at = "sweep"
    BY <2>2 DEF Doing
  <2> HIDE DEF next
  <2>5. QED BY <1>0, <2>1, <2>3, <2>4, Passing DEF Scans, Kept
<1>5. CASE Finish(a)
  <2> DEFINE next == IF do.hub /\ worker # a THEN [at |-> "leave"] ELSE Idle
  <2>1. /\ Goto(a, next) /\ UNCHANGED <<hubCtx, table, sup, sock, raced>>
        /\ worker' \in {Resident, worker}
    BY <1>5 DEF Finish
  <2>2. next \in Doing \cup {Idle} /\ next.at \notin {"reap", "swept", "reload"}
    BY DEF Doing, Idle
  <2> HIDE DEF next
  <2>3. QED BY <1>0, <2>1, <2>2, Passing DEF Scans, Kept
<1>6. ASSUME NEW m \in Module, Sweep(a, m)
      PROVE  Kept
  <2>1. /\ do.at = "sweep" /\ do.gone \in SUBSET Module /\ do.hub \in BOOLEAN
        /\ do \in [at : {"sweep"}, gone : SUBSET Module, hub : BOOLEAN]
        /\ UNCHANGED <<hubCtx, worker, sock>>
    BY <1>0, <1>6, Tasks DEF Sweep
  <2>2. CASE table[m] = None
    <3> DEFINE next == [do EXCEPT !.gone = @ \ {m}]
    <3>1. Goto(a, next) /\ UNCHANGED <<table, sup, raced>>
      BY <1>6, <2>2 DEF Sweep
    <3>2. next \in Doing /\ next.at = "sweep"
      BY <2>1 DEF Doing
    <3> HIDE DEF next
    <3>3. QED BY <1>0, <2>1, <3>1, <3>2, Passing DEF Scans, Kept
  <2>3. CASE table[m] # None
    <3> DEFINE next == [at |-> "swept", gone |-> do.gone \ {m}, hub |-> do.hub,
                        mod |-> m, wait |-> table[m]]
    <3>1. /\ table' = [table EXCEPT ![m] = None]
          /\ sup' = Cancelled({table[m]}) /\ Goto(a, next)
          /\ raced' = raced \cup Meets(a, {m})
      BY <1>6, <2>3 DEF Sweep
    <3>2. table[m] \in Sup /\ Born(table[m])
      BY <2>3, Known
    <3>3. next \in Doing /\ next.at = "swept" /\ next.wait = table[m]
      BY <2>1, <3>2 DEF Doing
    <3>4. Scans
      BY <3>1 DEF Scans
    <3>5. /\ table' \in [Module -> Sup \cup {None}]
          /\ \A n \in Module : table'[n] # None => sup'[table'[n]] # Unborn
      BY <1>0, <3>1, <3>4, Known, Scanning DEF Born
    <3>6. raced' \in SUBSET Module
      BY <1>0, <3>1 DEF Meets
    <3> HIDE DEF next
    <3>7. QED BY <1>0, <2>1, <3>1, <3>2, <3>3, <3>4, <3>5, <3>6, Acting DEF Kept
  <2>4. QED BY <2>2, <2>3
<1>7. ASSUME NEW m \in Module, NEW man \in Manifest, Read(a, m, man)
      PROVE  Kept
  <2> DEFINE next == [do EXCEPT !.todo = @ \ {m}, !.seen = @ \cup {m}]
  <2>1. /\ do.at = "pick" /\ UNCHANGED <<hubCtx, worker, table, sup, sock>>
        /\ do \in [at : {"pick"}, todo : SUBSET Module, seen : SUBSET Module, hub : BOOLEAN]
    BY <1>0, <1>7, Tasks DEF Read
  <2>2. /\ next \in Doing /\ next.at = "pick" /\ next.todo \in SUBSET Module
        /\ next.seen \in SUBSET Module /\ next.hub \in BOOLEAN
    BY <2>1 DEF Doing
  <2>3. CASE man = "unseen"
    <3> DEFINE skip == [do EXCEPT !.todo = @ \ {m}]
    <3>1. Goto(a, skip) /\ UNCHANGED raced
      BY <1>7, <2>3 DEF Read
    <3>2. skip \in Doing /\ skip.at = "pick"
      BY <2>1 DEF Doing
    <3> HIDE DEF skip
    <3>3. QED BY <1>0, <2>1, <3>1, <3>2, Passing DEF Scans, Kept
  <2>4. CASE man = "same"
    <3>1. Goto(a, next) /\ UNCHANGED raced
      BY <1>7, <2>4 DEF Read
    <3> HIDE DEF next
    <3>2. QED BY <1>0, <2>1, <2>2, <3>1, Passing DEF Scans, Kept
  <2>5. CASE man \in {"refused", "fit"}
    <3> DEFINE unload == [at |-> "unload", todo |-> next.todo, seen |-> next.seen,
                          hub |-> do.hub, mod |-> m, man |-> man]
               then == IF table[m] = None THEN Judged(next, m, man) ELSE unload
    <3>1. Goto(a, then) /\ raced' = raced \cup Meets(a, {m})
      BY <1>7, <2>5 DEF Read
    <3>2. raced' \in SUBSET Module
      BY <1>0, <3>1 DEF Meets
    <3>3. unload \in Doing /\ unload.at = "unload"
      BY <2>1, <2>2, <2>5 DEF Doing
    <3> HIDE DEF next
    <3>4. Judged(next, m, man) \in Doing
      BY <2>2, <2>5, GoingOn
    <3>5. Judged(next, m, man).at \in {"pick", "load"}
      BY DEF Judged, Onward
    <3> HIDE DEF unload
    <3>6. then \in Doing /\ then.at \in {"pick", "load", "unload"}
      BY <3>3, <3>4, <3>5
    <3> HIDE DEF then
    <3>7. QED BY <1>0, <2>1, <3>1, <3>2, <3>6, Passing DEF Scans, Kept
  <2>6. QED BY <2>3, <2>4, <2>5 DEF Manifest
<1>8. ASSUME NEW s \in Sup, Load(a, s)
      PROVE  Kept
  <2> DEFINE new == [at |-> "start", mod |-> do.mod, off |-> Inherited, fails |-> 0, alive |-> 0]
             next == Onward(do)
  <2>1. /\ do.at = "load" /\ ~Born(s) /\ table' = [table EXCEPT ![do.mod] = s]
        /\ sup' = [sup EXCEPT ![s] = new] /\ Goto(a, next)
        /\ UNCHANGED <<hubCtx, worker, sock, raced>>
    BY <1>8 DEF Load
  <2>2. /\ do.mod \in Module /\ do.todo \in SUBSET Module /\ do.seen \in SUBSET Module
        /\ do.hub \in BOOLEAN
    BY <1>0, <2>1, Tasks
  <2>3. new \in Supervisor /\ new.at = "start" /\ new.alive = 0
    BY <2>2 DEF Supervisor, Inherited
  <2>4. new # Unborn
    BY <2>3 DEF Unborn
  <2>5. next \in Doing /\ next.at = "pick"
    BY <2>2 DEF Doing, Onward
  <2> HIDE DEF new, next
  <2>6. Begun(s)
    BY <2>1, <2>3 DEF Begun
  <2>7. Scans
    BY <2>6 DEF Scans
  <2>8. sup'[s] = new
    BY <1>0, <2>1 DEF TypeOK
  <2>9. /\ table' \in [Module -> Sup \cup {None}]
        /\ \A m \in Module : table'[m] # None => sup'[table'[m]] # Unborn
    BY <1>0, <2>1, <2>4, <2>7, <2>8, Known, Scanning DEF Born
  <2>10. QED BY <1>0, <2>1, <2>5, <2>7, <2>9, Acting DEF Kept
<1>9. QED
  BY <1>1, <1>2, <1>3, <1>4, <1>5, <1>6, <1>7, <1>8 DEF Scan
\* The switch, the watcher and the reload handler.
LEMMA SwitchOffKeeps ==
  ASSUME IInv, SwitchOff
  PROVE  Kept
<1>1. /\ hubCtx' = "dead" /\ worker' = None /\ sup' = Cancelled(Sup)
      /\ UNCHANGED <<table, sock, actor, raced>>
  BY DEF SwitchOff
<1>2. /\ sup' \in [Sup -> Supervisor \cup {Unborn}] /\ Alone'
      /\ \A s \in Sup : sup[s] # Unborn => sup'[s] # Unborn
      /\ \A s \in Sup : Moves(sup[s], sup'[s])
  BY <1>1, Scanning DEF Scans, Born
<1>3. TypeOK'
  BY <1>1, <1>2 DEF IInv, TypeOK
<1>4. ListedBorn'
  BY <1>1, <1>2 DEF IInv, TypeOK, ListedBorn, Born
<1>5. \A a \in Actor : /\ actor[a].at \in {"reap", "swept"} => actor[a].wait \in Sup
                       /\ actor[a].at = "reload" => actor[a].wait \in SUBSET Sup
  BY Tasks DEF IInv
<1>6. WaitedBorn'
  BY <1>1, <1>2, <1>5 DEF IInv, WaitedBorn, Born
<1>7. QED BY <1>2, <1>3, <1>4, <1>6 DEF IInv, Kept
\* Also a step of the watcher, of a hub worker that begins or leaves, or of a reload.
LEMMA HandlersKeep ==
  ASSUME IInv, Rescan \/ \E a \in Goroutine : SwitchOn(a) \/ Leave(a) \/ Reload(a) \/ Reset(a)
  PROVE  Kept
<1>0. /\ hubCtx \in {"none", "live", "dead"} /\ worker \in Goroutine \cup {Resident, None}
      /\ raced \in SUBSET Module /\ table \in [Module -> Sup \cup {None}]
      /\ TypeOK
  BY Kinds DEF IInv
<1>1. CASE Rescan
  <2> DEFINE next == [at |-> "pick", todo |-> Module, seen |-> {}, hub |-> FALSE]
  <2>1. Goto(Watcher, next) /\ UNCHANGED <<hubCtx, worker, table, sup, sock, raced>>
    BY <1>1 DEF Rescan
  <2>2. next \in Doing /\ next.at = "pick" /\ Watcher \in Actor
    BY DEF Doing, Actor
  <2> HIDE DEF next
  <2>3. QED BY <1>0, <2>1, <2>2, Passing DEF Scans, Kept
<1>2. ASSUME NEW a \in Goroutine, SwitchOn(a)
      PROVE  Kept
  <2> DEFINE next == [at |-> "pick", todo |-> Module, seen |-> {}, hub |-> TRUE]
  <2>1. /\ Goto(a, next) /\ hubCtx' = "live" /\ worker' = a
        /\ UNCHANGED <<table, sup, sock, raced>>
    BY <1>2 DEF SwitchOn
  <2>2. next \in Doing /\ next.at = "pick" /\ a \in Actor
    BY DEF Doing, Actor
  <2> HIDE DEF next
  <2>3. QED BY <1>0, <2>1, <2>2, Passing DEF Scans, Kept
<1>3. ASSUME NEW a \in Goroutine, Leave(a)
      PROVE  Kept
  <2>1. sup' = Cancelled(Listed) /\ Goto(a, Idle) /\ UNCHANGED <<hubCtx, worker, table, sock, raced>>
    BY <1>3 DEF Leave
  <2>2. Idle.at \notin {"reap", "swept", "reload"} /\ a \in Actor
    BY DEF Idle, Actor
  <2>3. Scans
    BY <2>1 DEF Scans
  <2>4. QED BY <1>0, <2>1, <2>2, <2>3, Passing DEF Kept
<1>4. ASSUME NEW a \in Goroutine, Reload(a)
      PROVE  Kept
  <2> DEFINE next == [at |-> "reload", wait |-> Listed]
  <2>1. /\ sup' = Cancelled(Listed) /\ Goto(a, next)
        /\ raced' = raced \cup Meets(a, Module) /\ UNCHANGED <<hubCtx, worker, table, sock>>
    BY <1>4 DEF Reload
  <2>2. a \in Actor /\ raced' \in SUBSET Module
    BY <1>0, <2>1 DEF Actor, Meets
  <2>3. next \in Doing /\ next.at = "reload" /\ next.wait = Listed
    BY Known DEF Doing
  <2>4. Scans
    BY <2>1 DEF Scans
  <2>5. \A m \in Module : table'[m] # None => sup'[table'[m]] # Unborn
    BY <2>1, <2>4, Known, Scanning DEF Born
  <2> HIDE DEF next
  <2>6. QED BY <1>0, <2>1, <2>2, <2>3, <2>4, <2>5, Known, Acting DEF Kept
<1>5. ASSUME NEW a \in Goroutine, Reset(a)
      PROVE  Kept
  <2> DEFINE next == [at |-> "pick", todo |-> Module, seen |-> {}, hub |-> FALSE]
  <2>1. /\ actor[a].at = "reload" /\ table' = [m \in Module |-> None] /\ Goto(a, next)
        /\ raced' = raced \cup {sup[s].mod : s \in {t \in actor[a].wait : ~Over(t)}}
        /\ UNCHANGED <<hubCtx, worker, sup, sock>>
    BY <1>5 DEF Reset
  <2>2. a \in Actor /\ next \in Doing /\ next.at = "pick"
    BY DEF Actor, Doing
  <2>3. \A s \in actor[a].wait : s \in Sup /\ Born(s)
    BY <1>0, <2>1, <2>2, Tasks DEF IInv, WaitedBorn
  <2>4. raced' \in SUBSET Module
    BY <1>0, <2>1, <2>3, Known
  <2>5. /\ table' \in [Module -> Sup \cup {None}]
        /\ \A m \in Module : table'[m] # None => sup'[table'[m]] # Unborn
    BY <2>1
  <2> HIDE DEF next
  <2>6. QED BY <1>0, <2>1, <2>2, <2>4, <2>5, Acting DEF Scans, Kept
<1>6. QED BY <1>1, <1>2, <1>3, <1>4, <1>5

\* The supervisors and their processes.
LEMMA SupervisorsKeep ==
  ASSUME IInv, NEW s \in Sup,
         Progress(s) \/ Healthy(s) \/ Unhealthy(s) \/ Listen(s) \/ Exit(s)
  PROVE  Kept
<1>0. \A a \in Actor : /\ actor[a].at \in {"reap", "swept"} => actor[a].wait \in Sup
                       /\ actor[a].at = "reload" => actor[a].wait \in SUBSET Sup
  BY Tasks DEF IInv
<1>1. CASE Listen(s)
  <2>1. sup[s].at = "await" /\ sock' = [sock EXCEPT ![sup[s].mod] = s]
        /\ UNCHANGED <<hubCtx, worker, table, sup, actor, raced>>
    BY <1>1 DEF Listen
  <2>2. TypeOK'
    BY <2>1 DEF IInv, TypeOK
  <2>3. Alone' /\ ListedBorn' /\ WaitedBorn'
    BY <2>1 DEF IInv, Alone, ListedBorn, WaitedBorn, Born
  <2>4. \A t \in Sup : Moves(sup[t], sup'[t])
    BY <2>1 DEF Moves
  <2>5. QED BY <2>2, <2>3, <2>4 DEF IInv, Kept
<1>2. CASE Progress(s) \/ Healthy(s) \/ Unhealthy(s) \/ Exit(s)
  <2>1. PICK q \in Supervisor : Sound(q) /\ Moves(sup[s], q) /\ Becomes(s, q)
    BY <1>2, Steps DEF Goes
  <2>2. /\ sock' \in [Module -> Sup \cup {None}]
        /\ UNCHANGED <<hubCtx, worker, table, actor, raced>>
    BY <1>2, Steps DEF Goes
  <2>3. sup \in [Sup -> Supervisor \cup {Unborn}]
    BY DEF IInv, TypeOK
  <2>4. /\ sup' \in [Sup -> Supervisor \cup {Unborn}] /\ sup'[s] = q
        /\ \A t \in Sup \ {s} : sup'[t] = sup[t]
    BY <2>1, <2>3 DEF Becomes
  <2>5. q # Unborn
    BY <2>1 DEF Supervisor, Unborn
  <2>6. \A t \in Sup : sup[t] # Unborn => sup'[t] # Unborn
    BY <2>4, <2>5
  <2>7. \A t \in Sup : Moves(sup[t], sup'[t])
    BY <2>1, <2>4 DEF Moves
  <2>8. Alone'
    BY <2>1, <2>4 DEF IInv, Alone, Sound, Born
  <2>9. TypeOK'
    BY <2>2, <2>4 DEF IInv, TypeOK
  <2>10. ListedBorn'
    BY <2>2, <2>6 DEF IInv, TypeOK, ListedBorn, Born
  <2>11. WaitedBorn'
    BY <1>0, <2>2, <2>6 DEF IInv, WaitedBorn, Born
  <2>12. QED BY <2>7, <2>8, <2>9, <2>10, <2>11 DEF IInv, Kept
<1>3. QED BY <1>1, <1>2

-----------------------------------------------------------------------------
\* At first nobody has begun, here and in SidecarLifecycle.
LEMMA InitKeeps == Init => IInv /\ Life!Init
<1> SUFFICES ASSUME Init PROVE IInv /\ Life!Init
  OBVIOUS
<1>1. TypeOK
  BY DEF Init, TypeOK, Actor
<1>2. Alone /\ ListedBorn /\ WaitedBorn
  BY DEF Init, Alone, ListedBorn, WaitedBorn, Born, Idle
<1>3. \A s \in Sup : Stage(s) = "none" /\ Processes(s) = 0
  BY DEF Init, Stage, Processes, Born
<1>4. Life!Init
  BY <1>3 DEF Life!Init
<1>5. QED BY <1>1, <1>2, <1>4 DEF IInv
\* Every step of the hub keeps the invariant, and every supervisor lives on.
LEMMA NextKeeps == IInv /\ [Next]_vars => Kept
<1> SUFFICES ASSUME IInv, [Next]_vars PROVE Kept
  OBVIOUS
<1>1. CASE UNCHANGED vars
  BY <1>1 DEF vars, IInv, TypeOK, Alone, ListedBorn, WaitedBorn, Born, Kept, Moves
<1>2. CASE Next
  BY <1>2, ScanKeeps, SwitchOffKeeps, HandlersKeep, SupervisorsKeep DEF Next
<1>3. QED BY <1>1, <1>2

\* What the refinement maps to is the view of each supervisor.
LEMMA Lives ==
  ASSUME \A s \in Sup : Moves(sup[s], sup'[s])
  PROVE  [Life!Next]_([s \in Sup |-> [stage |-> Stage(s), processes |-> Processes(s)]])
<1>1. \A s \in Sup : [stage |-> Stage(s), processes |-> Processes(s)] = View(sup[s])
  BY DEF Stage, Processes, View, Born, Over
<1>2. \A s \in Sup : [stage |-> Stage(s)', processes |-> Processes(s)'] = View(sup'[s])
  BY DEF Stage, Processes, View, Born, Over
<1>3. Life!Next
  BY <1>1, <1>2 DEF Life!Next, Moves
<1>4. QED BY <1>3
\* So it holds always.
LEMMA Inductive == Spec => []IInv
<1>1. IInv /\ [Next]_vars => IInv'
  BY NextKeeps DEF Kept
<1>2. QED BY <1>1, InitKeeps, PTL DEF Spec
\* The state of the hub keeps its types, for any modules, supervisors and goroutines.
THEOREM TypeCorrect == Spec => []TypeOK
<1>1. IInv => TypeOK
  BY DEF IInv
<1>2. QED BY <1>1, Inductive, PTL
\* Every supervisor keeps the promises of SidecarLifecycle, whatever races for its
\* module: never two processes, none left behind when it is over.
THEOREM Implements == Spec => ImplementsLifecycle
<1>1. IInv /\ [Next]_vars =>
        [Life!Next]_([s \in Sup |-> [stage |-> Stage(s), processes |-> Processes(s)]])
  BY NextKeeps, Lives DEF Kept
<1>2. QED BY <1>1, InitKeeps, Inductive, PTL DEF Spec, ImplementsLifecycle, Life!Spec
-----------------------------------------------------------------------------
(* Modules that were not raced for. *)

Awaits(a, s, m) == actor[a].at \in {"reap", "swept"} /\ actor[a].mod = m /\ actor[a].wait = s

\* One goroutine at most is in the middle of changing m.
Single(m) == \A a, b \in Actor : m \in Busy(actor[a]) /\ m \in Busy(actor[b]) => a = b

\* It has taken m out of the table, and a reload waits for what is in it.
Vacated(m) ==
  \A a \in Actor :
    actor[a].at \in {"load", "reap", "swept"} /\ actor[a].mod = m => table[m] = None
Covered(m) ==
  \A a \in Actor : actor[a].at = "reload" /\ table[m] # None => table[m] \in actor[a].wait

\* Whoever works for m is in the table, or its end is awaited, and whoever
\* serves for m has the socket path.
Accounted(m) ==
  \A s \in Sup :
    Working(s) /\ sup[s].mod = m => s = table[m] \/ \E a \in Actor : Awaits(a, s, m)
Owned(m) ==
  \A s \in Sup :
    Born(s) /\ sup[s].mod = m /\ sup[s].at \in {"init", "watch"} => sock[m] = s

\* Who is in the table is there for its module; who is awaited is cancelled.
ListedMod == \A m \in Module : table[m] # None => sup[table[m]].mod = m
WaitedMod ==
  \A a \in Actor :
    actor[a].at \in {"reap", "swept"} =>
      sup[actor[a].wait].mod = actor[a].mod /\ sup[actor[a].wait].off

Fit(m) == Single(m) /\ Vacated(m) /\ Covered(m) /\ Accounted(m) /\ Owned(m)
RInv == IInv /\ ListedMod /\ WaitedMod /\ \A m \in Module \ raced : Fit(m)

\* What a supervisor's record keeps when it returns, is disabled, or fails.
LEMMA Heirs ==
  ASSUME NEW r \in Supervisor, NEW n \in Nat
  PROVE  /\ Ended(r).mod = r.mod /\ Ended(r).off = TRUE /\ Ended(r).at = "done"
         /\ Disabled(r).mod = r.mod /\ Disabled(r).off = TRUE /\ Disabled(r).at = "done"
         /\ AfterFailure(r, n).mod = r.mod /\ AfterFailure(r, n).at \in {"done", "sleep"}
         /\ r.off = TRUE => AfterFailure(r, n).off = TRUE
<1>1. /\ Ended(r).mod = r.mod /\ Ended(r).off = TRUE /\ Ended(r).at = "done"
      /\ Ended(r) \in Supervisor
  BY DEF Ended, Supervisor
<1>2. Disabled(r).mod = r.mod /\ Disabled(r).off = TRUE /\ Disabled(r).at = "done"
  BY <1>1 DEF Disabled, Supervisor
<1>3. CASE TooMany(r.fails + n)
  BY <1>1, <1>2, <1>3 DEF AfterFailure
<1>4. CASE ~TooMany(r.fails + n)
  <2>1. AfterFailure(r, n) = [r EXCEPT !.fails = @ + n, !.at = "sleep"]
    BY <1>4 DEF AfterFailure
  <2>2. QED BY <1>1, <1>2, <2>1 DEF Supervisor
<1>5. QED BY <1>3, <1>4

\* A step of a supervisor keeps its module and its cancellation; it removes the
\* socket path only when it does not serve from now on, and begins to serve only
\* when the path is its own.
Heir(s, q) ==
  /\ sup[s].at # "done" /\ q.mod = sup[s].mod /\ (sup[s].off = TRUE => q.off = TRUE)
  /\ \/ sock' = Torn(s) /\ q.at \notin {"init", "watch"}
     \/ /\ sock' = sock
        /\ q.at \in {"init", "watch"} =>
             sup[s].at \in {"init", "watch"} \/ sock[sup[s].mod] = s
\* All of their steps are such.
LEMMA Inheriting ==
  ASSUME IInv, NEW s \in Sup,
         Progress(s) \/ Healthy(s) \/ Unhealthy(s) \/ Exit(s)
  PROVE  sup[s] \in Supervisor /\ \E q : Becomes(s, q) /\ Heir(s, q)
<1> DEFINE p == sup[s]
<1>0. 1 \in Nat /\ 2 \in Nat
  OBVIOUS
<1>1. p.at # "unborn"
  BY DEF Progress, Healthy, Unhealthy, Exit, Return, Spawn, NoSpawn, Ready, EndedEarly,
         TooLate, InitFails, InitDone, Crashed, BeginStop, Stop, Wake
<1>2. p \in Supervisor
  BY <1>1 DEF IInv, TypeOK, Unborn, Supervisor
<1>b. ASSUME NEW n \in {1, 2}
      PROVE  /\ AfterFailure(p, n).mod = p.mod /\ AfterFailure(p, n).at \in {"done", "sleep"}
             /\ p.off = TRUE => AfterFailure(p, n).off = TRUE
  <2>1. n \in Nat
    OBVIOUS
  <2>2. QED BY <1>2, <2>1, Heirs
<1>3. /\ Dropped(s) \in Supervisor /\ Dropped(s).mod = p.mod /\ Dropped(s).off = p.off
  <2>1. p.alive \in {0, 1}
    BY <1>1, Working1 DEF Sound
  <2>2. Dropped(s) = [p EXCEPT !.alive = 0]
    BY <2>1 DEF Dropped, Killed
  <2>3. QED BY <1>2, <2>2 DEF Supervisor
<1>4. CASE Return(s)
  BY <1>0, <1>2, <1>4, Heirs DEF Return, Heir
<1>5. CASE Spawn(s)
  <2> DEFINE q == [p EXCEPT !.at = "await", !.alive = @ + 1]
  <2>1. p.at = "start" /\ Becomes(s, q) /\ sock' = Torn(s)
    BY <1>5 DEF Spawn
  <2>2. q.at = "await" /\ q.mod = p.mod /\ q.off = p.off
    BY <1>2 DEF Supervisor
  <2> HIDE DEF q
  <2>3. QED BY <1>2, <2>1, <2>2 DEF Heir
<1>6. CASE NoSpawn(s)
  BY <1>0, <1>2, <1>6, Heirs DEF NoSpawn, Heir
<1>7. CASE Ready(s)
  <2> DEFINE q == [p EXCEPT !.at = "init"]
  <2>1. p.at = "await" /\ sock[p.mod] = s /\ Becomes(s, q) /\ sock' = sock
    BY <1>7 DEF Ready
  <2>2. q.at = "init" /\ q.mod = p.mod /\ q.off = p.off
    BY <1>2 DEF Supervisor
  <2> HIDE DEF q
  <2>3. QED BY <1>2, <2>1, <2>2 DEF Heir
<1>8. CASE EndedEarly(s)
  <2>1. p.at = "await" /\ Becomes(s, AfterFailure(p, 1)) /\ sock' \in {Torn(s), sock}
    BY <1>8 DEF EndedEarly
  <2>2. Heir(s, AfterFailure(p, 1))
    BY <1>b, <2>1 DEF Heir
  <2>3. QED BY <1>2, <2>1, <2>2
<1>9. CASE TooLate(s) \/ InitFails(s)
  <2>1. /\ p.at \in {"await", "init"} /\ Becomes(s, AfterFailure(Dropped(s), 1))
        /\ sock' = Torn(s)
    BY <1>9 DEF TooLate, InitFails
  <2>2. /\ AfterFailure(Dropped(s), 1).mod = p.mod
        /\ AfterFailure(Dropped(s), 1).at \in {"done", "sleep"}
        /\ p.off = TRUE => AfterFailure(Dropped(s), 1).off = TRUE
    BY <1>0, <1>3, Heirs
  <2>3. Heir(s, AfterFailure(Dropped(s), 1))
    BY <2>1, <2>2 DEF Heir
  <2>4. QED BY <1>2, <2>1, <2>3
<1>10. CASE InitDone(s)
  <2> DEFINE q == [p EXCEPT !.at = "watch", !.fails = 0]
  <2>1. p.at = "init" /\ Becomes(s, q) /\ sock' = sock
    BY <1>10 DEF InitDone
  <2>2. q.at = "watch" /\ q.mod = p.mod /\ q.off = p.off
    BY <1>2 DEF Supervisor
  <2> HIDE DEF q
  <2>3. QED BY <1>2, <2>1, <2>2 DEF Heir
<1>11. CASE Healthy(s)
  <2> DEFINE q == [p EXCEPT !.fails = 0]
  <2>1. p.at = "watch" /\ Becomes(s, q) /\ sock' = sock
    BY <1>11 DEF Healthy
  <2>2. q.at = "watch" /\ q.mod = p.mod /\ q.off = p.off
    BY <1>2, <2>1 DEF Supervisor
  <2> HIDE DEF q
  <2>3. QED BY <1>2, <2>1, <2>2 DEF Heir
<1>12. CASE Unhealthy(s)
  <2>1. CASE GivesUp(s, 1)
    BY <1>0, <1>2, <1>12, <2>1, Heirs DEF Unhealthy, Heir
  <2>2. CASE ~GivesUp(s, 1)
    <3> DEFINE q == [p EXCEPT !.fails = @ + 1]
    <3>1. p.at = "watch" /\ Becomes(s, q) /\ sock' = sock
      BY <1>12, <2>2 DEF Unhealthy
    <3>2. q.at = "watch" /\ q.mod = p.mod /\ q.off = p.off
      BY <1>2, <3>1 DEF Supervisor
    <3> HIDE DEF q
    <3>3. QED BY <1>2, <3>1, <3>2 DEF Heir
  <2>3. QED BY <2>1, <2>2
<1>13. ASSUME NEW n \in {1, 2}, Crashed(s, n)
       PROVE  sup[s] \in Supervisor /\ \E q : Becomes(s, q) /\ Heir(s, q)
  <2>1. CASE p.off
    BY <1>0, <1>2, <1>13, <2>1, Heirs DEF Crashed, Heir
  <2>2. CASE ~p.off
    <3>1. p.at = "watch" /\ Becomes(s, AfterFailure(p, n)) /\ sock' \in {Torn(s), sock}
      BY <1>13, <2>2 DEF Crashed
    <3>2. Heir(s, AfterFailure(p, n))
      BY <1>b, <3>1 DEF Heir
    <3>3. QED BY <1>2, <3>1, <3>2
  <2>3. QED BY <2>1, <2>2
<1>14. CASE BeginStop(s)
  <2> DEFINE q == [p EXCEPT !.at = "stop"]
  <2>1. p.at = "watch" /\ Becomes(s, q) /\ sock' = sock
    BY <1>14 DEF BeginStop
  <2>2. q.at = "stop" /\ q.mod = p.mod /\ q.off = p.off
    BY <1>2 DEF Supervisor
  <2> HIDE DEF q
  <2>3. QED BY <1>2, <2>1, <2>2 DEF Heir
<1>15. CASE Stop(s)
  BY <1>0, <1>2, <1>15, Heirs DEF Stop, Heir
<1>16. CASE Wake(s)
  <2>1. CASE p.off
    BY <1>0, <1>2, <1>16, <2>1, Heirs DEF Wake, Heir
  <2>2. CASE ~p.off
    <3> DEFINE q == [p EXCEPT !.at = "start"]
    <3>1. p.at = "sleep" /\ Becomes(s, q) /\ sock' = sock
      BY <1>16, <2>2 DEF Wake
    <3>2. q.at = "start" /\ q.mod = p.mod /\ q.off = p.off
      BY <1>2 DEF Supervisor
    <3> HIDE DEF q
    <3>3. QED BY <1>2, <3>1, <3>2 DEF Heir
  <2>3. QED BY <2>1, <2>2
<1>17. CASE Exit(s)
  <2> DEFINE q == [p EXCEPT !.alive = @ - 1]
  <2>1. p.at \in {"await", "init", "watch", "stop"} /\ Becomes(s, q) /\ sock' = sock
    BY <1>17 DEF Exit
  <2>2. q.at = p.at /\ q.mod = p.mod /\ q.off = p.off
    BY <1>2 DEF Supervisor
  <2> HIDE DEF q
  <2>3. QED BY <1>2, <2>1, <2>2 DEF Heir
<1>18. QED
  BY <1>4, <1>5, <1>6, <1>7, <1>8, <1>9, <1>10, <1>11, <1>12, <1>13, <1>14, <1>15, <1>16, <1>17
  DEF Progress
\* Two supervisors that work for a module nobody raced for are one.
LEMMA Exclusive ==
  ASSUME RInv, NEW m \in Module \ raced, NEW s \in Sup, NEW t \in Sup,
         Working(s), Working(t), sup[s].mod = m, sup[t].mod = m
  PROVE  s = t
<1>1. Single(m) /\ Vacated(m) /\ Accounted(m)
  BY DEF RInv, Fit
<1>2. s # None /\ t # None
  BY NameAssumption
<1>3. \A a \in Actor : \A x : Awaits(a, x, m) => m \in Busy(actor[a]) /\ table[m] = None
  BY <1>1 DEF Awaits, Busy, Vacated
<1>4. s = table[m] \/ \E a \in Actor : Awaits(a, s, m)
  BY <1>1 DEF Accounted
<1>5. t = table[m] \/ \E a \in Actor : Awaits(a, t, m)
  BY <1>1 DEF Accounted
<1>6. \A a, b \in Actor : Awaits(a, s, m) /\ Awaits(b, t, m) => s = t
  BY <1>1, <1>3 DEF Single, Awaits
<1>7. QED BY <1>2, <1>3, <1>4, <1>5, <1>6

\* The steps of supervisors and processes do not disturb the books.
LEMMA SupervisorsFit ==
  ASSUME RInv, NEW s \in Sup,
         Progress(s) \/ Healthy(s) \/ Unhealthy(s) \/ Listen(s) \/ Exit(s)
  PROVE  RInv'
<1>0. /\ IInv /\ sup \in [Sup -> Supervisor \cup {Unborn}] /\ sock \in [Module -> Sup \cup {None}]
      /\ \A m \in Module : table[m] # None => table[m] \in Sup
      /\ \A a \in Actor : actor[a].at \in {"reap", "swept"} => actor[a].wait \in Sup
  BY Known, Tasks DEF RInv, IInv, TypeOK
<1>1. IInv'
  BY <1>0, SupervisorsKeep DEF Kept
<1>2. CASE Listen(s)
  <2>1. /\ sup[s].at = "await" /\ sock' = [sock EXCEPT ![sup[s].mod] = s]
        /\ UNCHANGED <<table, sup, actor, raced>>
    BY <1>2 DEF Listen
  <2>2. ListedMod' /\ WaitedMod'
    BY <2>1 DEF RInv, ListedMod, WaitedMod
  <2>3. ASSUME NEW m \in Module \ raced
        PROVE  Fit(m)'
    <3>1. Fit(m)
      BY DEF RInv
    <3>2. Single(m)' /\ Vacated(m)' /\ Covered(m)' /\ Accounted(m)'
      BY <2>1, <3>1 DEF Fit, Single, Vacated, Covered, Accounted, Awaits, Working, Born
    <3>3. ASSUME NEW t \in Sup, sup[t] # Unborn, sup[t].mod = m, sup[t].at \in {"init", "watch"}
          PROVE  sock'[m] = t
      <4>1. sock[m] = t
        BY <3>1, <3>3 DEF Fit, Owned, Born
      <4>2. sup[s].mod # m
        BY <2>1, <3>3, Exclusive DEF Working, Born, Unborn
      <4>3. QED BY <1>0, <2>1, <4>1, <4>2
    <3>4. Owned(m)'
      BY <2>1, <3>3 DEF Owned, Born
    <3>5. QED BY <3>2, <3>4 DEF Fit
  <2>4. QED BY <1>1, <2>1, <2>2, <2>3 DEF RInv
<1>3. CASE Progress(s) \/ Healthy(s) \/ Unhealthy(s) \/ Exit(s)
  <2>1. PICK q : Becomes(s, q) /\ Heir(s, q)
    BY <1>0, <1>3, Inheriting
  <2>2. sup[s] \in Supervisor /\ UNCHANGED <<table, actor, raced>>
    BY <1>0, <1>3, Inheriting, Steps DEF Goes
  <2>3. sup'[s] = q /\ \A t \in Sup \ {s} : sup'[t] = sup[t]
    BY <1>0, <2>1 DEF Becomes
  <2>4. sup[s] # Unborn /\ Working(s)
    BY <2>1, <2>2 DEF Heir, Working, Born, Unborn, Supervisor
  <2>5. \A t \in Sup : /\ sup'[t] # Unborn /\ sup'[t].at # "done" => Working(t)
                       /\ Born(t) => /\ sup'[t].mod = sup[t].mod
                                     /\ sup[t].off = TRUE => sup'[t].off = TRUE
    BY <2>1, <2>3, <2>4 DEF Working, Born, Heir
  <2>6. ListedMod'
    BY <1>0, <2>2, <2>5, Known DEF RInv, ListedMod
  <2>7. WaitedMod'
    <3> SUFFICES ASSUME NEW a \in Actor, actor[a].at \in {"reap", "swept"}
                 PROVE  sup'[actor[a].wait].mod = actor[a].mod /\ sup'[actor[a].wait].off
      BY <2>2 DEF WaitedMod
    <3>1. actor[a].wait \in Sup /\ Born(actor[a].wait)
      BY <1>0 DEF IInv, WaitedBorn
    <3>2. sup[actor[a].wait].mod = actor[a].mod /\ sup[actor[a].wait].off
      BY DEF RInv, WaitedMod
    <3>3. sup[actor[a].wait].off = TRUE
      BY <1>0, <3>1, <3>2 DEF Born, Supervisor
    <3>4. QED BY <2>5, <3>1, <3>2, <3>3
  <2>8. ASSUME NEW m \in Module \ raced
        PROVE  Fit(m)'
    <3>1. Fit(m)
      BY DEF RInv
    <3>2. Single(m)' /\ Vacated(m)' /\ Covered(m)'
      BY <2>2, <3>1 DEF Fit, Single, Vacated, Covered
    <3>3. Accounted(m)'
      BY <2>2, <2>5, <3>1 DEF Fit, Accounted, Awaits, Working, Born
    <3>4. ASSUME NEW t \in Sup, sup'[t] # Unborn, sup'[t].mod = m,
                 sup'[t].at \in {"init", "watch"}
          PROVE  sock'[m] = t
      <4>1. Working(t) /\ sup[t].mod = m
        BY <2>5, <3>4 DEF Working
      <4>2. CASE t = s
        <5>1. sock' = sock /\ (sup[s].at \in {"init", "watch"} \/ sock[m] = s)
          BY <2>1, <2>3, <3>4, <4>1, <4>2 DEF Heir
        <5>2. QED BY <3>1, <4>1, <4>2, <5>1 DEF Fit, Owned, Working
      <4>3. CASE t # s
        <5>1. sock[m] = t
          BY <2>3, <3>1, <3>4, <4>1, <4>3 DEF Fit, Owned, Working
        <5>2. sup[s].mod # m
          BY <2>4, <4>1, <4>3, Exclusive
        <5>3. sock' \in {sock, Torn(s)}
          BY <2>1 DEF Heir
        <5>4. QED BY <1>0, <5>1, <5>2, <5>3 DEF Torn
      <4>4. QED BY <4>2, <4>3
    <3>5. Owned(m)'
      BY <3>4 DEF Owned, Born
    <3>6. QED BY <3>2, <3>3, <3>5 DEF Fit
  <2>9. QED BY <1>1, <2>2, <2>6, <2>7, <2>8 DEF RInv
<1>4. QED BY <1>2, <1>3
\* What a scan leaves of the supervisors that have begun.
LEMMA Untold ==
  ASSUME IInv, Scans, NEW s \in Sup
  PROVE  /\ Born(s) => /\ sup'[s].mod = sup[s].mod /\ sup'[s].at = sup[s].at
                       /\ sup[s].off = TRUE => sup'[s].off = TRUE
                       /\ sup'[s] # Unborn
         /\ ~Born(s) /\ sup'[s] # Unborn => sup'[s].at = "start"
<1>0. sup \in [Sup -> Supervisor \cup {Unborn}]
  BY DEF IInv, TypeOK
<1>1. CASE sup' = sup
  BY <1>1 DEF Born
<1>2. ASSUME NEW S, sup' = Cancelled(S)
      PROVE  /\ Born(s) => /\ sup'[s].mod = sup[s].mod /\ sup'[s].at = sup[s].at
                           /\ sup[s].off = TRUE => sup'[s].off = TRUE
                           /\ sup'[s] # Unborn
             /\ ~Born(s) => sup'[s] = Unborn
  <2>1. CASE s \in S /\ Born(s)
    <3>1. sup'[s] = [sup[s] EXCEPT !.off = TRUE] /\ sup[s] \in Supervisor
      BY <1>0, <1>2, <2>1 DEF Cancelled, Born
    <3>2. sup'[s] # Unborn
      BY <3>1 DEF Supervisor, Unborn
    <3>3. QED BY <2>1, <3>1, <3>2 DEF Supervisor
  <2>2. CASE ~(s \in S /\ Born(s))
    BY <1>2, <2>2 DEF Cancelled, Born
  <2>3. QED BY <2>1, <2>2
<1>3. ASSUME NEW t \in Sup, Begun(t)
      PROVE  /\ Born(s) => sup'[s] = sup[s]
             /\ ~Born(s) /\ sup'[s] # Unborn => sup'[s].at = "start"
  BY <1>0, <1>3 DEF Begun, Born
<1>4. QED BY <1>1, <1>2, <1>3 DEF Scans, Born

\* What goroutine a must see to when it turns to do, for module m.
Turns(a, do, m) ==
  /\ m \in Busy(do) =>
       m \in Busy(actor[a]) \/ \A b \in Actor \ {a} : m \notin Busy(actor[b])
  /\ do.at \in {"load", "reap", "swept"} /\ do.mod = m => table'[m] = None
  /\ do.at = "reload" /\ table'[m] # None => table'[m] \in do.wait
  /\ \/ table'[m] \in {None, table[m]}
     \/ \A b \in Actor \ {a} : m \notin Busy(actor[b])
  /\ \A s \in Sup :
       sup'[s] # Unborn /\ sup'[s].at # "done" /\ sup'[s].mod = m =>
         \/ s = table'[m]
         \/ do.at \in {"reap", "swept"} /\ do.mod = m /\ do.wait = s
         \/ \E b \in Actor \ {a} : Awaits(b, s, m)
\* A step of a goroutine that sees to it keeps the books of all modules.
LEMMA Turning ==
  ASSUME RInv, IInv', Scans, NEW a \in Actor, NEW do, Goto(a, do), UNCHANGED sock,
         raced \subseteq raced',
         \A m \in Module :
           table'[m] # None /\ table'[m] # table[m] => sup'[table'[m]].mod = m,
         do.at \in {"reap", "swept"} => sup'[do.wait].mod = do.mod /\ sup'[do.wait].off,
         \A m \in Module \ raced' : Turns(a, do, m)
  PROVE  RInv'
<1>0. /\ IInv
      /\ \A m \in Module : table[m] # None => table[m] \in Sup /\ Born(table[m])
      /\ \A b \in Actor : actor[b].at \in {"reap", "swept"} =>
           actor[b].wait \in Sup /\ Born(actor[b].wait) /\ sup[actor[b].wait] \in Supervisor
  BY Known, Tasks DEF RInv, IInv, TypeOK, WaitedBorn, Born
<1>1. actor'[a] = do /\ \A b \in Actor \ {a} : actor'[b] = actor[b]
  BY <1>0 DEF IInv, TypeOK, Goto
<1>2. ListedMod'
  <2> SUFFICES ASSUME NEW m \in Module, table'[m] # None
               PROVE  sup'[table'[m]].mod = m
    BY DEF ListedMod
  <2>1. CASE table'[m] = table[m]
    <3>1. table[m] \in Sup /\ Born(table[m]) /\ sup[table[m]].mod = m
      BY <1>0, <2>1 DEF RInv, ListedMod
    <3>2. QED BY <1>0, <2>1, <3>1, Untold
  <2>2. QED BY <2>1
<1>3. WaitedMod'
  <2> SUFFICES ASSUME NEW b \in Actor, actor'[b].at \in {"reap", "swept"}
               PROVE  sup'[actor'[b].wait].mod = actor'[b].mod /\ sup'[actor'[b].wait].off
    BY DEF WaitedMod
  <2>1. CASE b = a
    BY <1>1, <2>1
  <2>2. CASE b # a
    <3>1. actor'[b] = actor[b]
      BY <1>1, <2>2
    <3>2. sup[actor[b].wait].mod = actor[b].mod /\ sup[actor[b].wait].off
      BY <3>1 DEF RInv, WaitedMod
    <3>3. sup[actor[b].wait].off = TRUE
      BY <1>0, <3>1, <3>2 DEF Supervisor
    <3>4. QED BY <1>0, <3>1, <3>2, <3>3, Untold
  <2>3. QED BY <2>1, <2>2
<1>4. ASSUME NEW m \in Module \ raced'
      PROVE  Fit(m)'
  <2>1. Fit(m) /\ Turns(a, do, m)
    BY <1>4 DEF RInv
  <2>2. Single(m)'
    BY <1>1, <2>1 DEF Fit, Single, Turns
  <2>3. \A b \in Actor :
          /\ actor[b].at \in {"load", "reap", "swept"} /\ actor[b].mod = m => m \in Busy(actor[b])
          /\ actor[b].at = "reload" => m \in Busy(actor[b])
    BY DEF Busy
  <2>4. Vacated(m)'
    BY <1>1, <2>1, <2>3 DEF Fit, Vacated, Turns
  <2>5. Covered(m)'
    BY <1>1, <2>1, <2>3 DEF Fit, Covered, Turns
  <2>6. Accounted(m)'
    BY <1>1, <2>1 DEF Turns, Accounted, Awaits, Working, Born
  <2>7. Owned(m)'
    <3> SUFFICES ASSUME NEW s \in Sup, sup'[s] # Unborn, sup'[s].mod = m,
                        sup'[s].at \in {"init", "watch"}
                 PROVE  sock[m] = s
      BY DEF Owned, Born
    <3>1. Born(s) /\ sup[s].mod = m /\ sup[s].at \in {"init", "watch"}
      BY <1>0, Untold
    <3>2. QED BY <2>1, <3>1 DEF Fit, Owned
  <2>8. QED BY <2>2, <2>4, <2>5, <2>6, <2>7 DEF Fit
<1>5. QED BY <1>2, <1>3, <1>4 DEF RInv
\* Cancelling or doing nothing makes nobody work who did not.
LEMMA NobodyBegins ==
  ASSUME IInv, sup' = sup \/ \E S : sup' = Cancelled(S), NEW s \in Sup
  PROVE  /\ sup'[s] # Unborn <=> Born(s)
         /\ Born(s) => sup'[s].mod = sup[s].mod /\ sup'[s].at = sup[s].at
         /\ Scans
<1>1. Scans
  BY DEF Scans
<1>2. sup'[s] # Unborn <=> Born(s)
  BY Cancelling DEF Born, IInv, TypeOK
<1>3. QED BY <1>1, <1>2, Untold

\* A step that leaves the table alone, of a goroutine that awaits nobody.
LEMMA Calm ==
  ASSUME RInv, IInv', sup' = sup \/ \E S : sup' = Cancelled(S),
         NEW a \in Actor, NEW do, Goto(a, do), UNCHANGED <<table, sock>>,
         raced \subseteq raced', actor[a].at \notin {"reap", "swept"},
         do.at \in {"idle", "leave", "pick", "sweep", "unload", "load"},
         do.at \in {"unload", "load"} =>
           \/ do.mod \in raced'
           \/ do.mod \in Busy(actor[a])
           \/ \A b \in Actor \ {a} : do.mod \notin Busy(actor[b]),
         do.at = "load" => table[do.mod] = None
  PROVE  RInv'
<1>1. IInv
  BY DEF RInv
<1>2. Scans
  BY DEF Scans
<1>3. ASSUME NEW m \in Module \ raced'
      PROVE  Turns(a, do, m)
  <2>1. Accounted(m)
    BY <1>3 DEF RInv, Fit
  <2>2. m \in Busy(do) => do.at \in {"unload", "load"} /\ do.mod = m
    BY DEF Busy
  <2>3. ASSUME NEW s \in Sup, sup'[s] # Unborn, sup'[s].at # "done", sup'[s].mod = m
        PROVE  s = table[m] \/ \E b \in Actor \ {a} : Awaits(b, s, m)
    <3>1. Working(s) /\ sup[s].mod = m
      BY <1>1, <2>3, NobodyBegins DEF Working
    <3>2. \A b \in Actor : Awaits(b, s, m) => b # a
      BY DEF Awaits
    <3>3. QED BY <2>1, <3>1, <3>2 DEF Accounted
  <2>4. QED BY <1>3, <2>2, <2>3 DEF Turns
<1>4. QED BY <1>2, <1>3, Turning

\* Whoever is not met at m is not there.
LEMMA Unmet ==
  ASSUME NEW a \in Actor, NEW S, NEW m \in S, m \notin Meets(a, S)
  PROVE  \A b \in Actor \ {a} : m \notin Busy(actor[b])
BY DEF Meets
\* So every step of a scan keeps them,
LEMMA ScanFits ==
  ASSUME RInv, NEW a \in Actor, Scan(a)
  PROVE  RInv'
<1> DEFINE do == actor[a]
<1>0. /\ IInv /\ IInv' /\ TypeOK /\ table \in [Module -> Sup \cup {None}]
      /\ \A s \in Sup : s # None
  BY ScanKeeps, NameAssumption DEF Kept, RInv, IInv, TypeOK
<1>1. CASE Unload(a)
  <2>1. do.at = "unload" /\ do.mod \in Module /\ UNCHANGED <<sock, raced>>
    BY <1>0, <1>1, Tasks DEF Unload
  <2>2. do.mod \in Busy(do)
    BY <2>1 DEF Busy
  <2>3. CASE table[do.mod] = None
    <3> DEFINE next == Judged(do, do.mod, do.man)
    <3>1. Goto(a, next) /\ UNCHANGED <<table, sup>>
      BY <1>1, <2>3 DEF Unload
    <3>2. next.at = "pick" \/ (next.at = "load" /\ next.mod = do.mod)
      BY DEF Judged, Onward
    <3> HIDE DEF next
    <3>3. QED BY <1>0, <2>1, <2>2, <2>3, <3>1, <3>2, Calm
  <2>4. CASE table[do.mod] # None
    <3> DEFINE k == do.mod
               next == [at |-> "reap", todo |-> do.todo, seen |-> do.seen, hub |-> do.hub,
                        mod |-> k, man |-> do.man, wait |-> table[k]]
    <3>1. /\ table' = [table EXCEPT ![k] = None] /\ sup' = Cancelled({table[k]})
          /\ Goto(a, next)
      BY <1>1, <2>4 DEF Unload
    <3>2. table[k] \in Sup /\ Born(table[k]) /\ sup[table[k]].mod = k
      BY <1>0, <2>1, <2>4, Known DEF RInv, ListedMod
    <3>3. sup'[table[k]].mod = k /\ sup'[table[k]].off
      <4>1. sup'[table[k]] = [sup[table[k]] EXCEPT !.off = TRUE] /\ sup[table[k]] \in Supervisor
        BY <1>0, <3>1, <3>2 DEF Cancelled, Born, TypeOK
      <4>2. QED BY <3>2, <4>1 DEF Supervisor
    <3>4. /\ next.at = "reap" /\ next.mod = k /\ next.wait = table[k]
          /\ Busy(next) = {k}
      BY DEF Busy
    <3> HIDE DEF next
    <3>5. ASSUME NEW m \in Module \ raced
          PROVE  Turns(a, next, m)
      <4>1. table'[m] = IF m = k THEN None ELSE table[m]
        BY <1>0, <3>1
      <4>2. ASSUME NEW s \in Sup, sup'[s] # Unborn, sup'[s].at # "done", sup'[s].mod = m
            PROVE  \/ s = table'[m]
                   \/ next.mod = m /\ next.wait = s
                   \/ \E b \in Actor \ {a} : Awaits(b, s, m)
        <5>1. Working(s) /\ sup[s].mod = m
          BY <1>0, <3>1, <4>2, NobodyBegins DEF Working
        <5>2. s = table[m] \/ \E b \in Actor : Awaits(b, s, m)
          BY <5>1 DEF RInv, Fit, Accounted
        <5>3. \A b \in Actor : Awaits(b, s, m) => b # a
          BY <2>1 DEF Awaits
        <5>4. QED BY <3>4, <4>1, <5>2, <5>3
      <4>3. QED BY <2>2, <3>4, <4>1, <4>2 DEF Turns
    <3>6. \A m \in Module : table'[m] # None => table'[m] = table[m]
      BY <1>0, <3>1
    <3>7. QED BY <1>0, <2>1, <3>1, <3>3, <3>4, <3>5, <3>6, Turning DEF Scans
  <2>5. QED BY <2>3, <2>4
<1>2. ASSUME NEW next, Goto(a, next), do.at \in {"reap", "swept"},
             raced' = raced \cup Waited(do.wait), UNCHANGED <<table, sup, sock>>,
             \/ next.at \in {"pick", "sweep"}
             \/ next.at = "load" /\ next.mod = do.mod
      PROVE  RInv'
  <2>1. do.wait \in Sup /\ Born(do.wait) /\ sup[do.wait].mod = do.mod /\ do.mod \in Busy(do)
    BY <1>0, <1>2, Tasks DEF IInv, WaitedBorn, RInv, WaitedMod, Busy
  <2>2. ASSUME NEW m \in Module \ raced'
        PROVE  Turns(a, next, m)
    <3>1. m \in Module \ raced /\ Fit(m)
      BY <1>2, <2>2 DEF RInv
    <3>2. m \in Busy(next) => next.at = "load" /\ next.mod = m
      BY <1>2 DEF Busy
    <3>3. next.at = "load" /\ next.mod = m => table[m] = None
      BY <1>2, <3>1 DEF Fit, Vacated
    <3>4. ASSUME NEW s \in Sup, sup[s] # Unborn, sup[s].at # "done", sup[s].mod = m
          PROVE  s = table[m] \/ \E b \in Actor \ {a} : Awaits(b, s, m)
      <4>1. s = table[m] \/ \E b \in Actor : Awaits(b, s, m)
        BY <3>1, <3>4 DEF Fit, Accounted, Working, Born
      <4>2. ~Awaits(a, s, m)
        <5> SUFFICES ASSUME Awaits(a, s, m) PROVE FALSE
          OBVIOUS
        <5>1. do.wait = s /\ do.mod = m
          BY DEF Awaits
        <5>2. Over(s)
          BY <1>2, <2>1, <2>2, <5>1 DEF Waited
        <5>3. QED BY <3>4, <5>2 DEF Over
      <4>3. QED BY <4>1, <4>2
    <3>5. QED BY <1>2, <2>1, <3>2, <3>3, <3>4 DEF Turns
  <2>3. Scans /\ \A m \in Module : table'[m] = table[m]
    BY <1>2 DEF Scans
  <2>4. QED BY <1>0, <1>2, <2>2, <2>3, Turning
<1>3. CASE Reap(a)
  <2>1. \/ Judged(do, do.mod, do.man).at = "pick"
        \/ /\ Judged(do, do.mod, do.man).at = "load"
           /\ Judged(do, do.mod, do.man).mod = do.mod
    BY DEF Judged, Onward
  <2>2. QED BY <1>2, <1>3, <2>1 DEF Reap
<1>4. CASE Swept(a)
  BY <1>2, <1>4 DEF Swept
<1>5. CASE Missing(a)
  <2> DEFINE next == [at |-> "sweep", hub |-> do.hub,
                      gone |-> {m \in Module \ do.seen : table[m] # None}]
  <2>1. do.at = "pick" /\ Goto(a, next) /\ UNCHANGED <<table, sup, sock, raced>>
    BY <1>5 DEF Missing
  <2>2. next.at = "sweep"
    OBVIOUS
  <2> HIDE DEF next
  <2>3. QED BY <1>0, <2>1, <2>2, Calm
<1>6. CASE Finish(a)
  <2> DEFINE next == IF do.hub /\ worker # a THEN [at |-> "leave"] ELSE Idle
  <2>1. do.at = "sweep" /\ Goto(a, next) /\ UNCHANGED <<table, sup, sock, raced>>
    BY <1>6 DEF Finish
  <2>2. next.at \in {"leave", "idle"}
    BY DEF Idle
  <2> HIDE DEF next
  <2>3. QED BY <1>0, <2>1, <2>2, Calm
<1>7. ASSUME NEW m \in Module, Sweep(a, m)
      PROVE  RInv'
  <2>1. do.at = "sweep" /\ UNCHANGED sock
    BY <1>7 DEF Sweep
  <2>2. CASE table[m] = None
    <3> DEFINE next == [do EXCEPT !.gone = @ \ {m}]
    <3>1. Goto(a, next) /\ UNCHANGED <<table, sup, raced>>
      BY <1>7, <2>2 DEF Sweep
    <3>2. next.at = "sweep"
      BY <1>0, <2>1, Tasks
    <3> HIDE DEF next
    <3>3. QED BY <1>0, <2>1, <3>1, <3>2, Calm
  <2>3. CASE table[m] # None
    <3> DEFINE next == [at |-> "swept", gone |-> do.gone \ {m}, hub |-> do.hub,
                        mod |-> m, wait |-> table[m]]
    <3>1. /\ table' = [table EXCEPT ![m] = None] /\ sup' = Cancelled({table[m]})
          /\ Goto(a, next) /\ raced' = raced \cup Meets(a, {m})
      BY <1>7, <2>3 DEF Sweep
    <3>2. table[m] \in Sup /\ Born(table[m]) /\ sup[table[m]].mod = m
      BY <1>0, <2>3, Known DEF RInv, ListedMod
    <3>3. sup'[table[m]].mod = m /\ sup'[table[m]].off
      <4>1. sup'[table[m]] = [sup[table[m]] EXCEPT !.off = TRUE] /\ sup[table[m]] \in Supervisor
        BY <1>0, <3>1, <3>2 DEF Cancelled, Born, TypeOK
      <4>2. QED BY <3>2, <4>1 DEF Supervisor
    <3>4. next.at = "swept" /\ next.mod = m /\ next.wait = table[m] /\ Busy(next) = {m}
      BY DEF Busy
    <3> HIDE DEF next
    <3>5. ASSUME NEW n \in Module \ raced'
          PROVE  Turns(a, next, n)
      <4>1. table'[n] = IF n = m THEN None ELSE table[n]
        BY <1>0, <3>1
      <4>2. ASSUME NEW s \in Sup, sup'[s] # Unborn, sup'[s].at # "done", sup'[s].mod = n
            PROVE  \/ s = table'[n]
                   \/ next.mod = n /\ next.wait = s
                   \/ \E b \in Actor \ {a} : Awaits(b, s, n)
        <5>1. Working(s) /\ sup[s].mod = n
          BY <1>0, <3>1, <4>2, NobodyBegins DEF Working
        <5>2. s = table[n] \/ \E b \in Actor : Awaits(b, s, n)
          BY <3>1, <3>5, <5>1 DEF RInv, Fit, Accounted
        <5>3. \A b \in Actor : Awaits(b, s, n) => b # a
          BY <2>1 DEF Awaits
        <5>4. QED BY <3>4, <4>1, <5>2, <5>3
      <4>3. n \in Busy(next) => \A b \in Actor \ {a} : n \notin Busy(actor[b])
        BY <3>1, <3>4, <3>5, Unmet
      <4>4. QED BY <3>4, <4>1, <4>2, <4>3 DEF Turns
    <3>6. \A n \in Module : table'[n] # None => table'[n] = table[n]
      BY <1>0, <3>1
    <3>7. QED BY <1>0, <2>1, <3>1, <3>3, <3>4, <3>5, <3>6, Turning DEF Scans
  <2>4. QED BY <2>2, <2>3
<1>8. ASSUME NEW m \in Module, NEW man \in Manifest, Read(a, m, man)
      PROVE  RInv'
  <2>1. /\ do.at = "pick" /\ UNCHANGED <<table, sup, sock>>
        /\ do \in [at : {"pick"}, todo : SUBSET Module, seen : SUBSET Module, hub : BOOLEAN]
    BY <1>0, <1>8, Tasks DEF Read
  <2>2. CASE man \in {"unseen", "same"}
    <3>1. PICK next : next.at = "pick" /\ Goto(a, next) /\ UNCHANGED raced
      <4>1. /\ [do EXCEPT !.todo = @ \ {m}].at = "pick"
            /\ [do EXCEPT !.todo = @ \ {m}, !.seen = @ \cup {m}].at = "pick"
        BY <2>1
      <4>2. QED BY <1>8, <2>2, <4>1 DEF Read
    <3>2. QED BY <1>0, <2>1, <3>1, Calm
  <2>3. CASE man \in {"refused", "fit"}
    <3> DEFINE seen == [do EXCEPT !.todo = @ \ {m}, !.seen = @ \cup {m}]
               next == IF table[m] = None THEN Judged(seen, m, man)
                       ELSE [at |-> "unload", todo |-> seen.todo, seen |-> seen.seen,
                             hub |-> do.hub, mod |-> m, man |-> man]
    <3>1. Goto(a, next) /\ raced' = raced \cup Meets(a, {m})
      BY <1>8, <2>3 DEF Read
    <3>2. /\ next.at \in {"pick", "load", "unload"}
          /\ next.at \in {"load", "unload"} => next.mod = m
          /\ next.at = "load" => table[m] = None
      BY DEF Judged, Onward
    <3> HIDE DEF next
    <3>3. m \in raced' \/ \A b \in Actor \ {a} : m \notin Busy(actor[b])
      BY <3>1, Unmet
    <3>4. QED BY <1>0, <2>1, <3>1, <3>2, <3>3, Calm
  <2>4. QED BY <2>2, <2>3 DEF Manifest
<1>9. ASSUME NEW s \in Sup, Load(a, s)
      PROVE  RInv'
  <2> DEFINE k == do.mod
             new == [at |-> "start", mod |-> k, off |-> Inherited, fails |-> 0, alive |-> 0]
             next == Onward(do)
  <2>1. /\ do.at = "load" /\ ~Born(s) /\ table' = [table EXCEPT ![k] = s]
        /\ sup' = [sup EXCEPT ![s] = new] /\ Goto(a, next) /\ UNCHANGED <<sock, raced>>
    BY <1>9 DEF Load
  <2>2. k \in Module /\ k \in Busy(do)
    BY <1>0, <2>1, Tasks DEF Busy
  <2>3. next.at = "pick" /\ Busy(next) = {}
    BY DEF Onward, Busy
  <2>4. new \in Supervisor /\ new.at = "start" /\ new.alive = 0 /\ new.mod = k
    BY <2>2 DEF Supervisor, Inherited
  <2> HIDE DEF new, next
  <2>5. Scans
    BY <2>1, <2>4 DEF Scans, Begun
  <2>6. sup'[s] = new /\ \A t \in Sup \ {s} : sup'[t] = sup[t]
    BY <1>0, <2>1 DEF TypeOK
  <2>7. \A m \in Module : table'[m] = IF m = k THEN s ELSE table[m]
    BY <1>0, <2>1
  <2>8. ASSUME NEW m \in Module \ raced
        PROVE  Turns(a, next, m)
    <3>1. Fit(m)
      BY DEF RInv
    <3>2. m = k => table[m] = None /\ \A b \in Actor \ {a} : m \notin Busy(actor[b])
      BY <2>1, <2>2, <3>1 DEF Fit, Vacated, Single
    <3>3. ASSUME NEW t \in Sup, sup'[t] # Unborn, sup'[t].at # "done", sup'[t].mod = m
          PROVE  t = table'[m] \/ \E b \in Actor \ {a} : Awaits(b, t, m)
      <4>1. CASE t = s
        BY <2>4, <2>6, <2>7, <3>3, <4>1
      <4>2. CASE t # s
        <5>1. Working(t) /\ sup[t].mod = m
          BY <2>6, <3>3, <4>2 DEF Working, Born
        <5>2. t = table[m] \/ \E b \in Actor : Awaits(b, t, m)
          BY <3>1, <5>1 DEF Fit, Accounted
        <5>3. \A b \in Actor : Awaits(b, t, m) => b # a
          BY <2>1 DEF Awaits
        <5>4. QED BY <1>0, <2>7, <3>2, <5>2, <5>3
      <4>3. QED BY <4>1, <4>2
    <3>4. QED BY <2>3, <2>7, <3>2, <3>3 DEF Turns
  <2>9. \A m \in Module :
          table'[m] # None /\ table'[m] # table[m] => sup'[table'[m]].mod = m
    BY <2>4, <2>6, <2>7
  <2>10. QED BY <1>0, <2>1, <2>3, <2>5, <2>8, <2>9, Turning
<1>10. QED
  BY <1>1, <1>3, <1>4, <1>5, <1>6, <1>7, <1>8, <1>9 DEF Scan
\* and every step of the watcher, the hub workers and the reload handler,
LEMMA HandlersFit ==
  ASSUME RInv, Rescan \/ \E a \in Goroutine : SwitchOn(a) \/ Leave(a) \/ Reload(a) \/ Reset(a)
  PROVE  RInv'
<1>0. /\ IInv /\ IInv' /\ TypeOK /\ table \in [Module -> Sup \cup {None}]
      /\ \A s \in Sup : s # None
      /\ \A a \in Goroutine : a \in Actor
  BY HandlersKeep, NameAssumption DEF Kept, RInv, IInv, TypeOK, Actor
<1>1. CASE Rescan
  <2>1. /\ Watcher \in Actor /\ actor[Watcher] = Idle /\ UNCHANGED <<table, sup, sock, raced>>
        /\ Goto(Watcher, [at |-> "pick", todo |-> Module, seen |-> {}, hub |-> FALSE])
    BY <1>1 DEF Rescan, Actor
  <2>2. QED BY <2>1, <1>0, Calm DEF Idle
<1>2. ASSUME NEW a \in Goroutine, SwitchOn(a)
      PROVE  RInv'
  <2>1. /\ actor[a] = Idle /\ UNCHANGED <<table, sup, sock, raced>>
        /\ Goto(a, [at |-> "pick", todo |-> Module, seen |-> {}, hub |-> TRUE])
    BY <1>2 DEF SwitchOn
  <2>2. QED BY <2>1, <1>0, Calm DEF Idle
<1>3. ASSUME NEW a \in Goroutine, Leave(a)
      PROVE  RInv'
  <2>1. /\ actor[a].at = "leave" /\ UNCHANGED <<table, sock, raced>>
        /\ sup' = Cancelled(Listed) /\ Goto(a, Idle)
    BY <1>3 DEF Leave
  <2>2. Idle.at = "idle"
    BY DEF Idle
  <2>3. QED BY <2>1, <2>2, <1>0, Calm
<1>4. ASSUME NEW a \in Goroutine, Reload(a)
      PROVE  RInv'
  <2> DEFINE next == [at |-> "reload", wait |-> Listed]
  <2>1. /\ actor[a] = Idle /\ sup' = Cancelled(Listed) /\ Goto(a, next)
        /\ raced' = raced \cup Meets(a, Module) /\ UNCHANGED <<table, sock>>
    BY <1>4 DEF Reload
  <2>2. next.at = "reload" /\ next.wait = Listed
    OBVIOUS
  <2> HIDE DEF next
  <2>3. ASSUME NEW m \in Module \ raced'
        PROVE  Turns(a, next, m)
    <3>1. \A b \in Actor \ {a} : m \notin Busy(actor[b])
      BY <1>0, <2>1, <2>3, Unmet
    <3>2. table'[m] = table[m] /\ (table[m] # None => table[m] \in Listed)
      BY <2>1 DEF Listed
    <3>3. ASSUME NEW s \in Sup, sup'[s] # Unborn, sup'[s].at # "done", sup'[s].mod = m
          PROVE  s = table[m] \/ \E b \in Actor \ {a} : Awaits(b, s, m)
      <4>1. Working(s) /\ sup[s].mod = m
        BY <1>0, <2>1, <3>3, NobodyBegins DEF Working
      <4>2. s = table[m] \/ \E b \in Actor : Awaits(b, s, m)
        BY <2>1, <2>3, <4>1 DEF RInv, Fit, Accounted
      <4>3. \A b \in Actor : Awaits(b, s, m) => b # a
        BY <2>1 DEF Awaits, Idle
      <4>4. QED BY <4>2, <4>3
    <3>4. QED BY <2>2, <3>1, <3>2, <3>3 DEF Turns
  <2>4. Scans /\ \A m \in Module : table'[m] = table[m]
    BY <2>1 DEF Scans
  <2>5. QED BY <1>0, <2>1, <2>2, <2>3, <2>4, Turning
<1>5. ASSUME NEW a \in Goroutine, Reset(a)
      PROVE  RInv'
  <2> DEFINE next == [at |-> "pick", todo |-> Module, seen |-> {}, hub |-> FALSE]
  <2>1. /\ actor[a].at = "reload" /\ table' = [m \in Module |-> None] /\ Goto(a, next)
        /\ raced' = raced \cup {sup[s].mod : s \in {t \in actor[a].wait : ~Over(t)}}
        /\ UNCHANGED <<sup, sock>>
    BY <1>5 DEF Reset
  <2>2. next.at = "pick" /\ Busy(next) = {} /\ Busy(actor[a]) = Module
    BY <2>1 DEF Busy
  <2> HIDE DEF next
  <2>3. ASSUME NEW m \in Module \ raced'
        PROVE  Turns(a, next, m)
    <3>1. Fit(m)
      BY <2>1, <2>3 DEF RInv
    <3>2. \A b \in Actor \ {a} : m \notin Busy(actor[b])
      BY <1>0, <2>2, <3>1 DEF Fit, Single
    <3>3. ASSUME NEW s \in Sup, sup[s] # Unborn, sup[s].at # "done", sup[s].mod = m
          PROVE  FALSE
      <4>1. \A b \in Actor : ~Awaits(b, s, m)
        BY <2>1, <3>2 DEF Awaits, Busy
      <4>2. s = table[m]
        BY <3>1, <3>3, <4>1 DEF Fit, Accounted, Working, Born
      <4>3. s \in actor[a].wait
        BY <1>0, <2>1, <3>1, <4>2 DEF Fit, Covered
      <4>4. ~Over(s)
        BY <3>3 DEF Over
      <4>5. QED BY <2>1, <2>3, <3>3, <4>3, <4>4
    <3>4. QED BY <2>1, <2>2, <3>3 DEF Turns
  <2>4. Scans /\ \A m \in Module : table'[m] = None
    BY <2>1 DEF Scans
  <2>5. raced \subseteq raced'
    BY <2>1
  <2>6. QED BY <1>0, <2>1, <2>2, <2>3, <2>4, <2>5, Turning
<1>6. QED BY <1>1, <1>2, <1>3, <1>4, <1>5
\* and the end of the hub's context.
LEMMA SwitchOffFits ==
  ASSUME RInv, SwitchOff
  PROVE  RInv'
<1>1. IInv /\ IInv'
  BY SwitchOffKeeps DEF Kept, RInv
<1>2. sup' = Cancelled(Sup) /\ UNCHANGED <<table, sock, actor, raced>>
  BY DEF SwitchOff
<1>3. \A s \in Sup : /\ sup'[s] # Unborn <=> Born(s)
                     /\ Born(s) => sup'[s].mod = sup[s].mod /\ sup'[s].at = sup[s].at
                     /\ Born(s) /\ sup[s].off = TRUE => sup'[s].off = TRUE
  BY <1>1, <1>2, NobodyBegins, Untold
<1>4. ListedMod'
  BY <1>1, <1>2, <1>3, Known DEF RInv, ListedMod
<1>5. WaitedMod'
  <2> SUFFICES ASSUME NEW a \in Actor, actor[a].at \in {"reap", "swept"}
               PROVE  sup'[actor[a].wait].mod = actor[a].mod /\ sup'[actor[a].wait].off
    BY <1>2 DEF WaitedMod
  <2>1. actor[a].wait \in Sup /\ Born(actor[a].wait)
    BY <1>1, Tasks DEF IInv, WaitedBorn
  <2>2. sup[actor[a].wait].mod = actor[a].mod /\ sup[actor[a].wait].off
    BY DEF RInv, WaitedMod
  <2>3. sup[actor[a].wait].off = TRUE
    BY <1>1, <2>1, <2>2 DEF IInv, TypeOK, Born, Supervisor
  <2>4. QED BY <1>3, <2>1, <2>2, <2>3
<1>6. ASSUME NEW m \in Module \ raced
      PROVE  Fit(m)'
  <2>1. Fit(m)
    BY DEF RInv
  <2>2. Single(m)' /\ Vacated(m)' /\ Covered(m)'
    BY <1>2, <2>1 DEF Fit, Single, Vacated, Covered
  <2>3. Accounted(m)'
    BY <1>2, <1>3, <2>1 DEF Fit, Accounted, Awaits, Working, Born
  <2>4. Owned(m)'
    BY <1>2, <1>3, <2>1 DEF Fit, Owned, Born
  <2>5. QED BY <2>2, <2>3, <2>4 DEF Fit
<1>7. QED BY <1>1, <1>2, <1>4, <1>5, <1>6 DEF RInv
\* The books are kept from the first state on.
LEMMA InitFits == Init => RInv
<1> SUFFICES ASSUME Init PROVE RInv
  OBVIOUS
<1>1. IInv /\ ListedMod /\ WaitedMod
  BY InitKeeps DEF Init, ListedMod, WaitedMod, Idle
<1>2. ASSUME NEW m \in Module
      PROVE  Fit(m)
  <2>1. \A a \in Actor : actor[a].at = "idle" /\ Busy(actor[a]) = {}
    BY DEF Init, Idle, Busy
  <2>2. \A s \in Sup : ~Born(s)
    BY DEF Init, Born
  <2>3. QED BY <2>1, <2>2 DEF Fit, Single, Vacated, Covered, Accounted, Owned, Working
<1>3. QED BY <1>1, <1>2 DEF RInv
\* Every step of the hub keeps them.
LEMMA NextFits == RInv /\ [Next]_vars => RInv'
<1> SUFFICES ASSUME RInv, [Next]_vars PROVE RInv'
  OBVIOUS
<1>1. CASE UNCHANGED vars
  <2>1. IInv'
    BY <1>1, NextKeeps DEF RInv, Kept
  <2>2. /\ sup' = sup /\ table' = table /\ sock' = sock /\ actor' = actor /\ raced' = raced
    BY <1>1 DEF vars
  <2>3. QED
    BY <2>1, <2>2 DEF RInv, ListedMod, WaitedMod, Fit, Single, Vacated, Covered, Accounted,
                      Owned, Awaits, Working, Born
<1>2. CASE Next
  BY <1>2, ScanFits, SwitchOffFits, HandlersFit, SupervisorsFit DEF Next
<1>3. QED BY <1>1, <1>2
\* So they are always kept.
LEMMA Recorded == Spec => []RInv
BY InitFits, NextFits, PTL DEF Spec

\* A module that no two goroutines handled together, and whose old supervisor was
\* waited for, has one supervisor at a time, whose process has the socket path.
THEOREM One == Spec => []OneAtATime
<1>1. RInv => OneAtATime
  <2> SUFFICES ASSUME RInv, NEW s \in Sup, NEW t \in Sup, Working(s), Working(t),
                      sup[s].mod = sup[t].mod, sup[s].mod \notin raced
               PROVE  /\ s = t
                      /\ sup[s].at \in {"init", "watch"} => sock[sup[s].mod] = s
    BY DEF OneAtATime
  <2>1. sup[s].mod \in Module \ raced
    BY Known DEF RInv, Working
  <2>2. s = t
    BY <2>1, Exclusive
  <2>3. Owned(sup[s].mod)
    BY <2>1 DEF RInv, Fit
  <2>4. QED BY <2>2, <2>3 DEF Owned, Working
<1>2. QED BY <1>1, Recorded, PTL

\* A supervisor that nobody cancelled is in hubMods, for a module nobody raced for.
THEOREM Remembered == Spec => []NothingForgotten
<1>1. RInv => NothingForgotten
  <2> SUFFICES ASSUME RInv, NEW s \in Sup, Working(s), ~sup[s].off, sup[s].mod \notin raced
               PROVE  s \in Listed
    BY DEF NothingForgotten
  <2> DEFINE m == sup[s].mod
  <2>1. m \in Module \ raced
    BY Known DEF RInv, Working
  <2>2. s = table[m] \/ \E a \in Actor : Awaits(a, s, m)
    BY <2>1 DEF RInv, Fit, Accounted
  <2>3. \A a \in Actor : ~Awaits(a, s, m)
    BY DEF RInv, WaitedMod, Awaits
  <2>4. QED BY <2>1, <2>2, <2>3, NameAssumption DEF Listed
<1>2. QED BY <1>1, Recorded, PTL
=============================================================================

-------------------------- MODULE Gatekeeper_proofs --------------------------
(***************************************************************************)
(* Proofs about Gatekeeper: for any number of users, requests, goroutines  *)
(* and tokens it implements two-phase confirmation.  The argument needs    *)
(* one fact about the goroutines: a token that lets a call through has     *)
(* left the table by then and never comes back, so nobody else holds it.   *)
(***************************************************************************)
EXTENDS Gatekeeper, FiniteSetTheorems, SequenceTheorems, TLAPS

Types ==
  /\ age \in [Token -> 0 .. Gone]
  /\ asked \in [Token -> Call \cup {NoCall}]
  /\ client \in [Client -> Doing \cup {Idle}]
  /\ spent \subseteq Token

\* The table holds issued tokens only, and a spent token is out of it.
TableSound ==
  /\ \A t \in Token : asked[t] = NoCall => age[t] = Gone
  /\ \A t \in spent : age[t] = Gone /\ asked[t] # NoCall

\* A goroutine presents an issued token; one about to execute with a token
\* holds it alone, unspent, out of the table and for its own call.
HoldersSound ==
  \A c \in Client :
    client[c].at # "idle" /\ client[c].token # NoToken =>
      /\ asked[client[c].token] # NoCall
      /\ client[c].at = "run" =>
           /\ age[client[c].token] = Gone
           /\ client[c].token \notin spent
           /\ asked[client[c].token] = client[c].call
           /\ \A d \in Client \ {c} :
                client[d].at = "run" => client[d].token # client[c].token

IInv == Types /\ TableSound /\ HoldersSound

\* Initially no token is issued and every goroutine is idle.
THEOREM InitIInv == Init => IInv
  BY GateAssumption DEF Init, IInv, Types, TableSound, HoldersSound, Gone, Idle

\* What a goroutine that goes on, and one that returns, leave of the others.
LEMMA StepKeeps ==
  ASSUME Types, NEW c \in Client, client[c] \in Doing,
         NEW at \in {"redeem", "rate", "count", "issue", "run"}, Step(c, at)
  PROVE  /\ client' \in [Client -> Doing \cup {Idle}]
         /\ client'[c].at = at
         /\ client'[c].call = client[c].call
         /\ client'[c].token = client[c].token
         /\ client'[c].mode = client[c].mode
         /\ \A d \in Client \ {c} : client'[d] = client[d]
<1> DEFINE new == [at |-> at, call |-> client[c].call,
                   token |-> client[c].token, mode |-> client[c].mode]
<1>1. client' = [client EXCEPT ![c] = new]
  BY DEF Step
<1>2. new \in Doing
  BY DEF Doing
<1>3. client \in [Client -> Doing \cup {Idle}]
  BY DEF Types
<1>4. client'[c] = new
  BY <1>1, <1>3
<1>5. /\ client' \in [Client -> Doing \cup {Idle}]
      /\ \A d \in Client \ {c} : client'[d] = client[d]
  <2> HIDE DEF new
  <2> QED BY <1>1, <1>2, <1>3
<1> QED
  BY <1>4, <1>5

LEMMA ReturnKeeps ==
  ASSUME Types, NEW c \in Client, Return(c)
  PROVE  /\ client' \in [Client -> Doing \cup {Idle}]
         /\ client'[c].at = "idle"
         /\ \A d \in Client \ {c} : client'[d] = client[d]
  BY DEF Types, Return, Idle

\* A step that grants nothing: the goroutine does not come to hold a token,
\* issued tokens keep their calls, and none comes back into the table.
LEMMA QuietStep ==
  ASSUME IInv, NEW c \in Client,
         \A d \in Client \ {c} : client'[d] = client[d],
         client'[c].at = "run" => client'[c].token = NoToken,
         client'[c].at # "idle" =>
           client'[c].token = NoToken \/ asked'[client'[c].token] # NoCall,
         \A t \in Token : asked[t] # NoCall =>
           asked'[t] = asked[t] /\ (age[t] = Gone => age'[t] = Gone),
         spent' = spent
  PROVE  HoldersSound'
<1>0. \A d \in Client : client[d].at # "idle" => client[d].token \in Token \cup {NoToken}
  BY DEF IInv, Types, Doing, Idle
<1>1. ASSUME NEW d \in Client, client'[d].at # "idle", client'[d].token # NoToken
      PROVE  asked'[client'[d].token] # NoCall
  BY <1>0, <1>1 DEF IInv, HoldersSound
<1>2. ASSUME NEW d \in Client, client'[d].at = "run", client'[d].token # NoToken
      PROVE  /\ d # c
             /\ age'[client'[d].token] = Gone
             /\ client'[d].token \notin spent'
             /\ asked'[client'[d].token] = client'[d].call
  BY <1>0, <1>2 DEF IInv, HoldersSound
<1>3. ASSUME NEW d \in Client, client'[d].at = "run", client'[d].token # NoToken,
             NEW e \in Client \ {d}, client'[e].at = "run"
      PROVE  client'[e].token # client'[d].token
  <2>1. d # c
    BY <1>2, <1>3
  <2>2. client[d].at = "run" /\ client[d].token = client'[d].token
    BY <1>3, <2>1
  <2> QED
    BY <1>3, <2>1, <2>2 DEF IInv, HoldersSound
<1> QED
  BY <1>1, <1>2, <1>3 DEF HoldersSound

\* Every step of the gatekeeper preserves IInv.
THEOREM NextIInv == IInv /\ [Next]_vars => IInv'
<1> SUFFICES ASSUME IInv, [Next]_vars PROVE IInv'
  OBVIOUS
<1> USE GateAssumption
<1>0. \A c \in Client : client[c].at # "idle" => client[c] \in Doing
  BY DEF IInv, Types, Idle
<1>a. \A c \in Client : client[c].at # "idle" =>
        /\ client[c].token \in Token \cup {NoToken}
        /\ client[c].token # NoToken => asked[client[c].token] # NoCall
  BY <1>0 DEF Doing, IInv, HoldersSound
<1>1. ASSUME NEW c \in Client, NEW call \in Call, NEW t \in Token \cup {NoToken},
             NEW mode \in Mode, Start(c, call, t, mode)
      PROVE IInv'
  <2> DEFINE new == [at |-> "decide", call |-> call, token |-> t, mode |-> mode]
  <2>1. new \in Doing
    BY DEF Doing
  <2>2. client'[c] = new
    BY <1>1 DEF Start, IInv, Types
  <2>3. /\ client' \in [Client -> Doing \cup {Idle}]
        /\ \A d \in Client \ {c} : client'[d] = client[d]
    BY <1>1, <2>1 DEF Start, IInv, Types
  <2>4. UNCHANGED <<age, asked, spent>>
    BY <1>1 DEF Start, store, history
  <2>5. HoldersSound'
    BY <1>1, <2>2, <2>3, <2>4, QuietStep DEF Start
  <2> QED
    BY <2>3, <2>4, <2>5 DEF IInv, Types, TableSound
<1>2. ASSUME NEW c \in Client, NEW rules \in RuleLists, Judge(c, rules)
      PROVE IInv'
  <2>1. client[c] \in Doing /\ client[c].at # "idle"
    BY <1>0, <1>2 DEF Judge
  <2>2. UNCHANGED <<age, asked, spent>>
    BY <1>2 DEF Judge, store, history
  <2>3. CASE Return(c)
    <3>1. HoldersSound'
      BY <2>2, <2>3, ReturnKeeps, QuietStep DEF IInv
    <3> QED
      BY <2>2, <2>3, <3>1, ReturnKeeps DEF IInv, Types, TableSound
  <2>4. CASE Step(c, IF client[c].token = NoToken THEN "rate" ELSE "redeem")
    <3>1. PICK at \in {"rate", "redeem"} : Step(c, at)
      BY <2>4
    <3>2. /\ client' \in [Client -> Doing \cup {Idle}]
          /\ client'[c].at = at /\ client'[c].token = client[c].token
          /\ \A d \in Client \ {c} : client'[d] = client[d]
      BY <2>1, <3>1, StepKeeps DEF IInv
    <3>3. HoldersSound'
      BY <1>a, <2>1, <2>2, <3>2, QuietStep
    <3> QED
      BY <2>2, <3>2, <3>3 DEF IInv, Types, TableSound
  <2>5. CASE client' = [client EXCEPT ![c] = [at |-> "run", call |-> @.call,
                                            token |-> NoToken, mode |-> @.mode]]
    <3> DEFINE new == [at |-> "run", call |-> client[c].call,
                       token |-> NoToken, mode |-> client[c].mode]
    <3>1. new \in Doing
      BY <2>1 DEF Doing
    <3>2. client'[c] = new
      BY <2>5 DEF IInv, Types
    <3>3. /\ client' \in [Client -> Doing \cup {Idle}]
          /\ \A d \in Client \ {c} : client'[d] = client[d]
      BY <2>5, <3>1 DEF IInv, Types
    <3>4. HoldersSound'
      BY <2>2, <3>2, <3>3, QuietStep
    <3> QED
      BY <2>2, <3>3, <3>4 DEF IInv, Types, TableSound
  <2> QED
    BY <1>2, <2>3, <2>4, <2>5 DEF Judge
<1>3. ASSUME NEW c \in Client, Redeem(c)
      PROVE IInv'
  <2> DEFINE t == client[c].token
  <2>1. client[c] \in Doing /\ t \in Token \cup {NoToken} /\ client[c].at # "idle"
    BY <1>0, <1>3 DEF Redeem, Doing
  <2>2. /\ age' = [age EXCEPT ![t] = Gone]
        /\ asked' = asked /\ spent' = spent
    BY <1>3 DEF Redeem, Deleted, history
  <2>3. /\ age' \in [Token -> 0 .. Gone]
        /\ \A s \in Token : age[s] = Gone => age'[s] = Gone
        /\ t \in Token => age'[t] = Gone
    <3>1. Gone \in 0 .. Gone
      BY DEF Gone
    <3>2. age \in [Token -> 0 .. Gone]
      BY DEF IInv, Types
    <3> HIDE DEF t
    <3> QED
      BY <2>2, <3>1, <3>2
  <2>4. TableSound'
    BY <2>2, <2>3 DEF IInv, Types, TableSound
  <2>5. CASE Redeemable(t, client[c].call)
    <3>1. Step(c, "run")
      BY <1>3, <2>5 DEF Redeem
    <3>2. /\ client' \in [Client -> Doing \cup {Idle}]
          /\ client'[c].at = "run" /\ client'[c].token = t
          /\ client'[c].call = client[c].call
          /\ \A d \in Client \ {c} : client'[d] = client[d]
      BY <2>1, <3>1, StepKeeps DEF IInv
    <3>3. t # NoToken =>
            /\ t \in Token /\ t \notin spent /\ asked[t] = client[c].call
            /\ asked[t] # NoCall /\ age[t] # Gone
      BY <1>a, <2>1, <2>5 DEF Redeemable, Live, IInv, Types, TableSound, Gone
    <3>4. \A d \in Client : client[d].at = "run" /\ t # NoToken => client[d].token # t
      BY <3>3 DEF IInv, HoldersSound
    <3>5. \A d \in Client \ {c} : client[d].at # "idle" => client[d].token \in Token \cup {NoToken}
      BY <1>a
    <3>6. ASSUME NEW d \in Client \ {c}, client[d].at # "idle", client[d].token # NoToken
          PROVE  /\ asked[client[d].token] # NoCall
                 /\ client[d].at = "run" =>
                      /\ age'[client[d].token] = Gone
                      /\ client[d].token \notin spent
                      /\ asked[client[d].token] = client[d].call
                      /\ \A e \in Client \ {d} :
                           client'[e].at = "run" => client'[e].token # client[d].token
      BY <2>3, <3>2, <3>4, <3>5, <3>6 DEF IInv, HoldersSound
    <3>7. HoldersSound'
      BY <2>2, <2>3, <3>2, <3>3, <3>4, <3>6 DEF HoldersSound
    <3> QED
      BY <2>2, <2>3, <2>4, <3>2, <3>7 DEF IInv, Types
  <2>6. CASE ~Redeemable(t, client[c].call)
    <3>1. Return(c)
      BY <1>3, <2>6 DEF Redeem
    <3>2. HoldersSound'
      BY <2>2, <2>3, <3>1, ReturnKeeps, QuietStep DEF IInv
    <3> QED
      BY <2>2, <2>3, <2>4, <3>1, <3>2, ReturnKeeps DEF IInv, Types
  <2> QED
    BY <2>5, <2>6
<1>4. ASSUME NEW c \in Client, Rate(c)
      PROVE IInv'
  <2>1. client[c] \in Doing /\ client[c].at # "idle"
    BY <1>0, <1>4 DEF Rate
  <2>2. UNCHANGED <<age, asked, spent>>
    BY <1>4 DEF Rate, store, history
  <2>3. CASE Return(c)
    <3>1. HoldersSound'
      BY <2>2, <2>3, ReturnKeeps, QuietStep DEF IInv
    <3> QED
      BY <2>2, <2>3, <3>1, ReturnKeeps DEF IInv, Types, TableSound
  <2>4. CASE Step(c, "count")
    <3>1. /\ client' \in [Client -> Doing \cup {Idle}]
          /\ client'[c].at = "count" /\ client'[c].token = client[c].token
          /\ \A d \in Client \ {c} : client'[d] = client[d]
      BY <2>1, <2>4, StepKeeps DEF IInv
    <3>2. HoldersSound'
      BY <1>a, <2>1, <2>2, <3>1, QuietStep
    <3> QED
      BY <2>2, <3>1, <3>2 DEF IInv, Types, TableSound
  <2> QED
    BY <1>4, <2>3, <2>4 DEF Rate
<1>5. ASSUME NEW c \in Client, Count(c)
      PROVE IInv'
  <2>1. client[c] \in Doing /\ client[c].at # "idle"
    BY <1>0, <1>5 DEF Count
  <2>2. /\ age' \in [Token -> 0 .. Gone]
        /\ \A t \in Token : age[t] = Gone => age'[t] = Gone
        /\ asked' = asked /\ spent' = spent
    BY <1>5 DEF Count, Swept, Live, IInv, Types, Gone, history
  <2>3. CASE Return(c)
    <3>1. HoldersSound'
      BY <2>2, <2>3, ReturnKeeps, QuietStep DEF IInv
    <3> QED
      BY <2>2, <2>3, <3>1, ReturnKeeps DEF IInv, Types, TableSound
  <2>4. CASE Step(c, "issue")
    <3>1. /\ client' \in [Client -> Doing \cup {Idle}]
          /\ client'[c].at = "issue" /\ client'[c].token = client[c].token
          /\ \A d \in Client \ {c} : client'[d] = client[d]
      BY <2>1, <2>4, StepKeeps DEF IInv
    <3>2. HoldersSound'
      BY <1>a, <2>1, <2>2, <3>1, QuietStep
    <3> QED
      BY <2>2, <3>1, <3>2 DEF IInv, Types, TableSound
  <2> QED
    BY <1>5, <2>3, <2>4 DEF Count
<1>6. ASSUME NEW c \in Client, NEW t \in Token, Issue(c, t)
      PROVE IInv'
  <2>1. client[c].call \in Call /\ Return(c) /\ asked[t] = NoCall
    BY <1>0, <1>6 DEF Issue, Doing
  <2>2. /\ age' \in [Token -> 0 .. Gone]
        /\ \A s \in Token \ {t} : age[s] = Gone => age'[s] = Gone
    BY <1>6 DEF Issue, Swept, Live, IInv, Types, Gone
  <2>3. /\ asked' \in [Token -> Call \cup {NoCall}]
        /\ asked'[t] # NoCall
        /\ \A s \in Token \ {t} : asked'[s] = asked[s]
        /\ spent' = spent
    BY <1>6, <2>1 DEF Issue, IInv, Types, history
  <2>4. t \notin spent
    BY <2>1 DEF IInv, TableSound
  <2>5. HoldersSound'
    BY <2>1, <2>2, <2>3, ReturnKeeps, QuietStep DEF IInv
  <2>6. TableSound'
    BY <2>2, <2>3, <2>4 DEF IInv, Types, TableSound
  <2> QED
    BY <2>1, <2>2, <2>3, <2>5, <2>6, ReturnKeeps DEF IInv, Types
<1>7. ASSUME NEW c \in Client, Run(c)
      PROVE IInv'
  <2> DEFINE t == client[c].token
  <2>1. t \in Token \cup {NoToken} /\ client[c].at = "run" /\ Return(c)
    BY <1>0, <1>7 DEF Run, Doing
  <2>2. age' = age /\ asked' = asked
    BY <1>7 DEF Run, store
  <2>3. spent' = IF t = NoToken THEN spent ELSE spent \cup {t}
    BY <1>7 DEF Run
  <2>4. t # NoToken => /\ t \in Token /\ age[t] = Gone /\ asked[t] # NoCall
                       /\ \A d \in Client \ {c} : client[d].at = "run" => client[d].token # t
    BY <2>1 DEF IInv, HoldersSound
  <2>5. Types' /\ TableSound'
    BY <2>1, <2>2, <2>3, <2>4, ReturnKeeps DEF IInv, Types, TableSound
  <2>6. HoldersSound'
    BY <2>1, <2>2, <2>3, <2>4, ReturnKeeps DEF IInv, HoldersSound
  <2> QED
    BY <2>5, <2>6 DEF IInv
<1>8. CASE Tick
  <2>1. /\ age' \in [Token -> 0 .. Gone]
        /\ \A t \in Token : age[t] = Gone <=> age'[t] = Gone
    BY <1>8 DEF Tick, Live, IInv, Types, Gone
  <2>2. UNCHANGED <<asked, client, spent>>
    BY <1>8 DEF Tick, history
  <2>3. Types' /\ TableSound'
    BY <2>1, <2>2 DEF IInv, Types, TableSound
  <2>4. HoldersSound'
    BY <1>a, <2>1, <2>2 DEF IInv, HoldersSound
  <2> QED
    BY <2>3, <2>4 DEF IInv
<1>9. CASE UNCHANGED vars
  BY <1>9 DEF vars, store, history, IInv, Types, TableSound, HoldersSound
<1> QED
  BY <1>1, <1>2, <1>3, <1>4, <1>5, <1>6, <1>7, <1>8, <1>9 DEF Next, Handle

\* Every behaviour keeps IInv.
THEOREM Invariance == Spec => []IInv
  BY InitIInv, NextIInv, PTL DEF Spec

-----------------------------------------------------------------------------
(* The refinement. *)

\* Under the invariant the stage of a token is read off its age, except for a
\* goroutine about to execute with it.
LEMMA StageCases ==
  ASSUME IInv, NEW t \in Token
  PROVE  /\ Holders(t) # {} => /\ StageOf(t) = "granted" /\ t \notin spent
                               /\ age[t] = Gone /\ asked[t] # NoCall
         /\ Live(t) => StageOf(t) = "live" /\ asked[t] # NoCall
         /\ asked[t] = NoCall => StageOf(t) = "unissued"
         /\ Holders(t) = {} /\ asked[t] # NoCall /\ ~Live(t) =>
              StageOf(t) = IF t \in spent THEN "spent" ELSE "void"
<1> USE GateAssumption
<1>1. Holders(t) # {} => t \notin spent /\ age[t] = Gone /\ asked[t] # NoCall
  BY DEF Holders, IInv, HoldersSound
<1>2. Live(t) => asked[t] # NoCall /\ age[t] # Gone
  BY DEF IInv, Types, TableSound, Live, Gone
<1>3. asked[t] = NoCall => ~Live(t) /\ t \notin spent /\ Holders(t) = {}
  BY <1>1, <1>2 DEF IInv, TableSound
<1>4. Live(t) => t \notin spent /\ Holders(t) = {}
  BY <1>1, <1>2 DEF IInv, TableSound
<1> QED
  BY <1>1, <1>2, <1>3, <1>4 DEF StageOf

\* The initial states map to the abstract initial states.
THEOREM RefineInit == Init => TwoPhase!Init
<1> SUFFICES ASSUME Init PROVE TwoPhase!Init
  OBVIOUS
<1>1. ASSUME NEW t \in Token PROVE StageOf(t) = "unissued"
  BY InitIInv, StageCases, <1>1 DEF Init
<1> QED
  BY <1>1 DEF Init, TwoPhase!Init

\* A token keeps its stage in a step that keeps what the stage is read from.
LEMMA StageKept ==
  ASSUME NEW t \in Token, Holders(t)' = Holders(t), asked'[t] = asked[t],
         t \in spent' <=> t \in spent, Live(t)' <=> Live(t)
  PROVE  StageOf(t)' = StageOf(t)
  BY DEF StageOf

\* The holders of a token only change at the goroutine c that moves.
LEMMA HoldersKept ==
  ASSUME NEW c \in Client, NEW t, \A d \in Client \ {c} : client'[d] = client[d],
         (client'[c].at = "run" /\ client'[c].token = t)
            <=> (client[c].at = "run" /\ client[c].token = t)
  PROVE  Holders(t)' = Holders(t)
  BY DEF Holders

\* Every step maps to a step of TwoPhaseConfirm or to a stutter.
THEOREM RefineNext ==
  IInv /\ IInv' /\ [Next]_vars
    => [TwoPhase!Next]_<<[t \in Token |-> StageOf(t)], asked, served>>
<1> DEFINE Quiet == /\ \A t \in Token : StageOf(t)' = StageOf(t)
                    /\ UNCHANGED <<asked, served>>
<1> SUFFICES ASSUME IInv, IInv', [Next]_vars
             PROVE  TwoPhase!Next \/ Quiet
  OBVIOUS
<1> USE GateAssumption
<1>0. \A c \in Client : client[c].at # "idle" =>
        client[c] \in Doing /\ client[c].token \in Token \cup {NoToken}
  BY DEF IInv, Types, Idle, Doing
<1>1. ASSUME NEW c \in Client, NEW call \in Call, NEW t \in Token \cup {NoToken},
             NEW mode \in Mode, Start(c, call, t, mode)
      PROVE  Quiet
  <2>1. /\ client'[c].at = "decide" /\ client[c].at = "idle"
        /\ \A d \in Client \ {c} : client'[d] = client[d]
    BY <1>1 DEF Start, IInv, Types, Idle
  <2>2. UNCHANGED <<age, asked, spent, served>>
    BY <1>1 DEF Start, store, history
  <2>3. ASSUME NEW s \in Token PROVE StageOf(s)' = StageOf(s)
    BY <2>1, <2>2, HoldersKept, StageKept DEF Live
  <2> QED
    BY <2>2, <2>3
<1>2. ASSUME NEW c \in Client, NEW rules \in RuleLists, Judge(c, rules)
      PROVE  Quiet
  <2>1. client[c] \in Doing /\ client[c].at = "decide"
    BY <1>0, <1>2 DEF Judge
  <2>2. UNCHANGED <<age, asked, spent, served>>
    BY <1>2 DEF Judge, store, history
  <2>3. /\ \A d \in Client \ {c} : client'[d] = client[d]
        /\ client'[c].at = "run" => client'[c].token = NoToken
    <3>1. CASE Return(c)
      BY <3>1, ReturnKeeps DEF IInv
    <3>2. CASE Step(c, IF client[c].token = NoToken THEN "rate" ELSE "redeem")
      <4>1. PICK at \in {"rate", "redeem"} : Step(c, at)
        BY <3>2
      <4> QED
        BY <2>1, <4>1, StepKeeps DEF IInv
    <3>3. CASE client' = [client EXCEPT ![c] = [at |-> "run", call |-> @.call,
                                              token |-> NoToken, mode |-> @.mode]]
      BY <3>3 DEF IInv, Types
    <3> QED
      BY <1>2, <3>1, <3>2, <3>3 DEF Judge
  <2>4. ASSUME NEW s \in Token PROVE StageOf(s)' = StageOf(s)
    BY <2>1, <2>2, <2>3, HoldersKept, StageKept DEF Live
  <2> QED
    BY <2>2, <2>4
<1>3. ASSUME NEW c \in Client, Redeem(c)
      PROVE  TwoPhase!Next \/ Quiet
  <2>0. PICK t : t = client[c].token
    OBVIOUS
  <2>1. client[c] \in Doing /\ t \in Token \cup {NoToken} /\ client[c].at = "redeem"
    BY <2>0, <1>0, <1>3 DEF Redeem
  <2>2. /\ UNCHANGED <<asked, spent, served>>
        /\ age' = [age EXCEPT ![t] = Gone]
    BY <2>0, <1>3 DEF Redeem, Deleted, history
  <2>3. /\ \A s \in Token \ {t} : Live(s)' <=> Live(s)
        /\ t \in Token => ~Live(t)'
    <3>1. /\ \A s \in Token \ {t} : age'[s] = age[s]
          /\ t \in Token => age'[t] = Gone
      <4> QED BY <2>0, <2>2 DEF IInv, Types
    <3> QED
      BY <2>0, <3>1 DEF Live, Gone
  <2>4. CASE Redeemable(t, client[c].call) /\ t \in Token
    <3>1. Step(c, "run")
      BY <2>0, <1>3, <2>4 DEF Redeem
    <3>2. /\ client'[c].at = "run" /\ client'[c].token = t
          /\ \A d \in Client \ {c} : client'[d] = client[d]
      BY <2>0, <2>1, <3>1, StepKeeps DEF IInv
    <3>3. StageOf(t) = "live"
      BY <2>0, <2>4, StageCases DEF Redeemable
    <3>4. StageOf(t)' = "granted"
      <4>1. c \in Holders(t)'
        BY <3>2 DEF Holders
      <4> QED
        BY <4>1 DEF StageOf
    <3>5. ASSUME NEW s \in Token \ {t} PROVE StageOf(s)' = StageOf(s)
      BY <2>0, <2>1, <2>2, <2>3, <3>2, HoldersKept, StageKept
    <3>6. TwoPhase!Grant(t)
      BY <2>0, <2>2, <2>4, <3>3, <3>4, <3>5 DEF TwoPhase!Grant
    <3> QED
      BY <2>0, <2>4, <3>6 DEF TwoPhase!Next
  <2>5. CASE ~(Redeemable(t, client[c].call) /\ t \in Token)
    <3>1. /\ \A d \in Client \ {c} : client'[d] = client[d]
          /\ client'[c].at = "run" => client'[c].token \notin Token
      <4>1. CASE Return(c)
        BY <2>0, <4>1, ReturnKeeps DEF IInv
      <4>2. CASE Step(c, "run") /\ t \notin Token
        BY <2>0, <2>1, <4>2, StepKeeps DEF IInv
      <4> QED
        BY <2>0, <1>3, <2>5, <4>1, <4>2 DEF Redeem
    <3>2. \A s \in Token : Holders(s)' = Holders(s)
      BY <2>0, <2>1, <3>1, HoldersKept
    <3>3. ASSUME NEW s \in Token \ {t} PROVE StageOf(s)' = StageOf(s)
      BY <2>0, <2>2, <2>3, <3>2, StageKept
    <3>4. CASE t \in Token /\ Live(t)
      <4>1. StageOf(t) = "live" /\ asked[t] # NoCall
        BY <2>0, <3>4, StageCases
      <4>2. Holders(t) = {} /\ t \notin spent
        BY <2>0, <3>4, StageCases DEF IInv, TableSound, Live, Gone
      <4>3. StageOf(t)' = "void"
        BY <2>0, <2>2, <2>3, <3>2, <3>4, <4>1, <4>2 DEF StageOf
      <4>4. TwoPhase!Lapse({t})
        BY <2>0, <2>2, <3>3, <3>4, <4>1, <4>3 DEF TwoPhase!Lapse
      <4> QED
        BY <2>0, <3>4, <4>4 DEF TwoPhase!Next
    <3>5. CASE ~(t \in Token /\ Live(t))
      <4>1. t \in Token => StageOf(t)' = StageOf(t)
        BY <2>0, <2>2, <2>3, <3>2, <3>5, StageKept
      <4> QED
        BY <2>0, <2>2, <3>3, <4>1
    <3> QED
      BY <2>0, <3>4, <3>5
  <2> QED
    BY <2>0, <2>4, <2>5
<1>4. ASSUME NEW c \in Client, Rate(c) \/ Count(c)
      PROVE  Quiet
  <2>1. client[c] \in Doing /\ client[c].at \notin {"idle", "run"}
    BY <1>0, <1>4 DEF Rate, Count
  <2>2. /\ UNCHANGED <<asked, spent, served>>
        /\ \A s \in Token : Live(s)' <=> Live(s)
    BY <1>4 DEF Rate, Count, Swept, Live, Gone, store, history
  <2>3. /\ \A d \in Client \ {c} : client'[d] = client[d]
        /\ client'[c].at # "run"
    <3>1. CASE Return(c)
      BY <3>1, ReturnKeeps DEF IInv
    <3>2. CASE Step(c, "count")
      BY <2>1, <3>2, StepKeeps DEF IInv
    <3>3. CASE Step(c, "issue")
      BY <2>1, <3>3, StepKeeps DEF IInv
    <3> QED
      BY <1>4, <3>1, <3>2, <3>3 DEF Rate, Count
  <2>4. ASSUME NEW s \in Token PROVE StageOf(s)' = StageOf(s)
    BY <2>1, <2>2, <2>3, HoldersKept, StageKept
  <2> QED
    BY <2>2, <2>4
<1>5. ASSUME NEW c \in Client, NEW t \in Token, Issue(c, t)
      PROVE  TwoPhase!Next
  <2>1. /\ client[c].call \in Call /\ client[c].at = "issue" /\ Return(c)
        /\ asked[t] = NoCall
    BY <1>0, <1>5 DEF Issue, Doing
  <2>2. /\ UNCHANGED <<spent, served>>
        /\ asked' = [asked EXCEPT ![t] = client[c].call]
        /\ \A s \in Token \ {t} : asked'[s] = asked[s]
        /\ \A s \in Token \ {t} : Live(s)' <=> Live(s)
        /\ Live(t)'
    BY <1>5 DEF Issue, Swept, Live, Gone, IInv, Types, history
  <2>3. \A s \in Token : Holders(s)' = Holders(s)
    BY <2>1, ReturnKeeps, HoldersKept DEF IInv
  <2>4. StageOf(t) = "unissued"
    BY <2>1, StageCases
  <2>5. StageOf(t)' = "live"
    <3>1. Holders(t)' = {} /\ t \notin spent'
      BY <2>1, <2>2, <2>3, StageCases DEF IInv, TableSound
    <3>2. asked'[t] # NoCall
      BY <2>1, <2>2 DEF IInv, Types
    <3> QED
      BY <2>2, <3>1, <3>2 DEF StageOf
  <2>6. ASSUME NEW s \in Token \ {t} PROVE StageOf(s)' = StageOf(s)
    BY <2>2, <2>3, StageKept
  <2>7. TwoPhase!Ask(t, client[c].call)
    BY <2>2, <2>4, <2>5, <2>6 DEF TwoPhase!Ask
  <2> QED
    BY <2>1, <2>7 DEF TwoPhase!Next
<1>6. ASSUME NEW c \in Client, Run(c)
      PROVE  TwoPhase!Next \/ Quiet
  <2>0. PICK t : t = client[c].token
    OBVIOUS
  <2>1. /\ t \in Token \cup {NoToken} /\ client[c].at = "run"
        /\ client'[c].at = "idle"
        /\ \A d \in Client \ {c} : client'[d] = client[d]
    BY <2>0, <1>0, <1>6, ReturnKeeps DEF Run, IInv
  <2>2. UNCHANGED <<age, asked>>
    BY <2>0, <1>6 DEF Run, store
  <2>3. \A s \in Token \ {t} : Holders(s)' = Holders(s)
    BY <2>0, <2>1, HoldersKept
  <2>4. CASE t = NoToken
    <3>1. UNCHANGED <<spent, served>>
      BY <2>0, <1>6, <2>4 DEF Run
    <3>2. ASSUME NEW s \in Token PROVE StageOf(s)' = StageOf(s)
      BY <2>0, <2>2, <2>3, <2>4, <3>1, StageKept DEF Live
    <3> QED
      BY <2>0, <2>2, <3>1, <3>2
  <2>5. CASE t \in Token
    <3>1. spent' = spent \cup {t} /\ served' = <<t, client[c].call>>
      BY <2>0, <1>6, <2>5 DEF Run
    <3>2. ASSUME NEW s \in Token \ {t} PROVE StageOf(s)' = StageOf(s)
      BY <2>0, <2>2, <2>3, <3>1, StageKept DEF Live
    <3>3. StageOf(t) = "granted"
      <4>1. c \in Holders(t)
        BY <2>0, <2>1 DEF Holders
      <4> QED
        BY <4>1 DEF StageOf
    <3>4. asked[t] = client[c].call
          /\ \A d \in Client \ {c} : client[d].at = "run" => client[d].token # t
      BY <2>0, <2>1, <2>5 DEF IInv, HoldersSound
    <3>5. StageOf(t)' = "spent"
      <4>1. Holders(t)' = {}
        BY <2>0, <2>1, <3>4 DEF Holders
      <4>2. t \in spent'
        BY <3>1
      <4> QED
        BY <4>1, <4>2 DEF StageOf
    <3>6. TwoPhase!Execute(t)
      BY <2>0, <2>2, <2>5, <3>1, <3>2, <3>3, <3>4, <3>5 DEF TwoPhase!Execute
    <3> QED
      BY <2>0, <2>5, <3>6 DEF TwoPhase!Next
  <2> QED
    BY <2>0, <2>1, <2>4, <2>5
<1>7. ASSUME Tick
      PROVE  TwoPhase!Next
  <2> DEFINE S == {t \in Token : Live(t) /\ ~Live(t)'}
  <2>1. UNCHANGED <<asked, client, spent, served>>
    BY <1>7 DEF Tick, history
  <2>2. \A s \in Token : Holders(s)' = Holders(s)
    BY <2>1 DEF Holders
  <2>3. \A s \in Token \ S : Live(s)' <=> Live(s)
    BY <1>7 DEF Tick, Live, IInv, Types
  <2>4. ASSUME NEW s \in Token \ S PROVE StageOf(s)' = StageOf(s)
    BY <2>1, <2>2, <2>3, StageKept
  <2>5. ASSUME NEW s \in S PROVE StageOf(s) = "live" /\ StageOf(s)' = "void"
    <3>1. StageOf(s) = "live" /\ asked[s] # NoCall /\ Holders(s) = {} /\ s \notin spent
      BY <2>5, StageCases DEF IInv, TableSound, Live, Gone
    <3> QED
      BY <2>1, <2>2, <2>5, <3>1 DEF StageOf
  <2>6. TwoPhase!Lapse(S)
    BY <2>1, <2>4, <2>5 DEF TwoPhase!Lapse
  <2> QED
    BY <2>6 DEF TwoPhase!Next
<1>8. CASE UNCHANGED vars
  <2>1. UNCHANGED <<age, asked, client, spent, served>>
    BY <1>8 DEF vars, store, history
  <2>2. ASSUME NEW s \in Token PROVE StageOf(s)' = StageOf(s)
    BY <2>1 DEF StageOf, Holders, Live
  <2> QED
    BY <2>1, <2>2
<1> QED
  BY <1>1, <1>2, <1>3, <1>4, <1>5, <1>6, <1>7, <1>8 DEF Next, Handle

\* The gatekeeper implements two-phase confirmation.
THEOREM Implements == Spec => ImplementsTwoPhase
  BY Invariance, RefineInit, RefineNext, PTL
     DEF Spec, ImplementsTwoPhase, TwoPhase!Spec

-----------------------------------------------------------------------------
(* The cap on pending confirmations. *)

\* The sets counted are finite, so their cardinalities are numbers.
LEMMA Counted ==
  ASSUME NEW u
  PROVE  /\ IsFiniteSet(PendingOf(u)) /\ Cardinality(PendingOf(u)) \in Nat
         /\ IsFiniteSet(Issuing(u)) /\ Cardinality(Issuing(u)) \in Nat
         /\ Cardinality(Issuing(u)) <= Cardinality(Client)
         /\ Cardinality(Client) \in Nat
<1>1. PendingOf(u) \subseteq Token /\ Issuing(u) \subseteq Client
  BY DEF PendingOf, Issuing
<1> QED
  BY <1>1, GateAssumption, FS_Subset, FS_CardinalityType

LEMMA CountedNext ==
  ASSUME NEW u
  PROVE  /\ IsFiniteSet(PendingOf(u)') /\ Cardinality(PendingOf(u)') \in Nat
         /\ IsFiniteSet(Issuing(u)') /\ Cardinality(Issuing(u)') \in Nat
         /\ Cardinality(Issuing(u)') <= Cardinality(Client)
<1>1. PendingOf(u)' \subseteq Token /\ Issuing(u)' \subseteq Client
  BY DEF PendingOf, Issuing
<1> QED
  BY <1>1, GateAssumption, FS_Subset, FS_CardinalityType

\* A step that lets no user have more pending tokens or more goroutines about
\* to issue one keeps the bound.
LEMMA NoMore ==
  ASSUME PendingBounded,
         \A u \in User : PendingOf(u)' \subseteq PendingOf(u) /\ Issuing(u)' \subseteq Issuing(u)
  PROVE  PendingBounded'
<1> SUFFICES ASSUME NEW u \in User
             PROVE  Cardinality(PendingOf(u)') + Cardinality(Issuing(u)')
                      <= MaxPending + Cardinality(Client) - 1
  BY DEF PendingBounded
<1>1. /\ Cardinality(PendingOf(u)') <= Cardinality(PendingOf(u))
      /\ Cardinality(Issuing(u)') <= Cardinality(Issuing(u))
  BY Counted, FS_Subset
<1> QED
  BY <1>1, Counted, CountedNext, GateAssumption DEF PendingBounded

\* Every step of the gatekeeper preserves the bound.
THEOREM NextPendingBounded == IInv /\ PendingBounded /\ [Next]_vars => PendingBounded'
<1> SUFFICES ASSUME IInv, PendingBounded, [Next]_vars PROVE PendingBounded'
  OBVIOUS
<1> USE GateAssumption
<1>0. \A c \in Client : client[c].at # "idle" => client[c] \in Doing
  BY DEF IInv, Types, Idle
<1>1. ASSUME NEW c \in Client, \A d \in Client \ {c} : client'[d] = client[d],
             client'[c].at # "issue"
      PROVE  \A u \in User : Issuing(u)' \subseteq Issuing(u)
  BY <1>1 DEF Issuing
<1>2. ASSUME UNCHANGED store
      PROVE  \A u \in User : PendingOf(u)' \subseteq PendingOf(u)
  BY <1>2 DEF PendingOf, Live, store
<1>3. ASSUME NEW c \in Client, NEW call \in Call, NEW t \in Token \cup {NoToken},
             NEW mode \in Mode, Start(c, call, t, mode)
      PROVE PendingBounded'
  <2>1. client'[c].at # "issue" /\ \A d \in Client \ {c} : client'[d] = client[d]
    BY <1>3 DEF Start, IInv, Types
  <2>2. UNCHANGED store
    BY <1>3 DEF Start
  <2> QED
    BY <1>1, <1>2, <2>1, <2>2, NoMore
<1>4. ASSUME NEW c \in Client, NEW rules \in RuleLists, Judge(c, rules)
      PROVE PendingBounded'
  <2>1. client[c] \in Doing
    BY <1>0, <1>4 DEF Judge
  <2>2. client'[c].at # "issue" /\ \A d \in Client \ {c} : client'[d] = client[d]
    <3>1. CASE Return(c)
      BY <3>1, ReturnKeeps DEF IInv
    <3>2. CASE Step(c, IF client[c].token = NoToken THEN "rate" ELSE "redeem")
      <4>1. PICK at \in {"rate", "redeem"} : Step(c, at)
        BY <3>2
      <4> QED
        BY <2>1, <4>1, StepKeeps DEF IInv
    <3>3. CASE client' = [client EXCEPT ![c] = [at |-> "run", call |-> @.call,
                                              token |-> NoToken, mode |-> @.mode]]
      BY <3>3 DEF IInv, Types
    <3> QED
      BY <1>4, <3>1, <3>2, <3>3 DEF Judge
  <2>3. UNCHANGED store
    BY <1>4 DEF Judge
  <2> QED
    BY <1>1, <1>2, <2>2, <2>3, NoMore
<1>5. ASSUME NEW c \in Client, Redeem(c)
      PROVE PendingBounded'
  <2>1. client[c] \in Doing
    BY <1>0, <1>5 DEF Redeem
  <2>2. client'[c].at # "issue" /\ \A d \in Client \ {c} : client'[d] = client[d]
    BY <1>5, <2>1, ReturnKeeps, StepKeeps DEF Redeem, IInv
  <2>3. \A t \in Token : age'[t] = age[t] \/ age'[t] = Gone
    BY <1>5 DEF Redeem, Deleted, IInv, Types
  <2>4. \A u \in User : PendingOf(u)' \subseteq PendingOf(u)
    BY <1>5, <2>3 DEF Redeem, PendingOf, Live, Gone
  <2> QED
    BY <1>1, <2>2, <2>4, NoMore
<1>6. ASSUME NEW c \in Client, Rate(c)
      PROVE PendingBounded'
  <2>1. client[c] \in Doing
    BY <1>0, <1>6 DEF Rate
  <2>2. client'[c].at # "issue" /\ \A d \in Client \ {c} : client'[d] = client[d]
    BY <1>6, <2>1, ReturnKeeps, StepKeeps DEF Rate, IInv
  <2>3. UNCHANGED store
    BY <1>6 DEF Rate
  <2> QED
    BY <1>1, <1>2, <2>2, <2>3, NoMore
<1>7. ASSUME NEW c \in Client, Count(c)
      PROVE PendingBounded'
  <2> DEFINE v == client[c].call.user
  <2>1. client[c] \in Doing
    BY <1>0, <1>7 DEF Count
  <2>2. \A u \in User : PendingOf(u)' \subseteq PendingOf(u)
    BY <1>7 DEF Count, Swept, PendingOf, Live, Gone
  <2>3. CASE Full(v)
    <3>1. Return(c)
      BY <1>7, <2>3 DEF Count
    <3>2. client'[c].at # "issue" /\ \A d \in Client \ {c} : client'[d] = client[d]
      BY <3>1, ReturnKeeps DEF IInv
    <3> QED
      BY <1>1, <2>2, <3>2, NoMore
  <2>4. CASE ~Full(v)
    <3>1. Step(c, "issue")
      BY <1>7, <2>4 DEF Count
    <3>2. /\ client'[c].call = client[c].call
          /\ \A d \in Client \ {c} : client'[d] = client[d]
      BY <2>1, <3>1, StepKeeps DEF IInv
    <3> SUFFICES ASSUME NEW u \in User
                 PROVE  Cardinality(PendingOf(u)') + Cardinality(Issuing(u)')
                          <= MaxPending + Cardinality(Client) - 1
      BY DEF PendingBounded
    <3>3. Cardinality(PendingOf(u)') <= Cardinality(PendingOf(u))
      BY <2>2, Counted, FS_Subset
    <3>4. CASE u = v
      <4>1. Cardinality(PendingOf(u)) < MaxPending
        BY <2>4, <3>4, Counted DEF Full
      <4> QED
        BY <3>3, <4>1, Counted, CountedNext
    <3>5. CASE u # v
      <4>1. Issuing(u)' \subseteq Issuing(u)
        BY <3>2, <3>5 DEF Issuing
      <4>2. Cardinality(Issuing(u)') <= Cardinality(Issuing(u))
        BY <4>1, Counted, FS_Subset
      <4> QED
        BY <3>3, <4>2, Counted, CountedNext DEF PendingBounded
    <3> QED
      BY <3>4, <3>5
  <2> QED
    BY <2>3, <2>4
<1>8. ASSUME NEW c \in Client, NEW t \in Token, Issue(c, t)
      PROVE PendingBounded'
  <2>1. client'[c].at # "issue" /\ \A d \in Client \ {c} : client'[d] = client[d]
    BY <1>8, ReturnKeeps DEF Issue, IInv
  <2>2. /\ asked' = [asked EXCEPT ![t] = client[c].call]
        /\ \A s \in Token \ {t} : age'[s] <= TTL => Live(s)
    BY <1>8 DEF Issue, Swept, Live, Gone, IInv, Types
  <2> SUFFICES ASSUME NEW u \in User
               PROVE  Cardinality(PendingOf(u)') + Cardinality(Issuing(u)')
                        <= MaxPending + Cardinality(Client) - 1
    BY DEF PendingBounded
  <2>3. Issuing(u)' \subseteq Issuing(u)
    BY <1>1, <2>1
  <2>4. CASE client[c].call.user = u
    <3>1. PendingOf(u)' \subseteq PendingOf(u) \cup {t}
      BY <2>2 DEF PendingOf, Live, IInv, Types
    <3>2. Cardinality(PendingOf(u)') <= Cardinality(PendingOf(u)) + 1
      <4>1. /\ IsFiniteSet(PendingOf(u) \cup {t})
            /\ Cardinality(PendingOf(u) \cup {t}) <= Cardinality(PendingOf(u)) + 1
        <5>1. IsFiniteSet(PendingOf(u)) /\ Cardinality(PendingOf(u)) \in Nat
          BY Counted
        <5>2. /\ IsFiniteSet(PendingOf(u) \cup {t})
              /\ Cardinality(PendingOf(u) \cup {t}) =
                   IF t \in PendingOf(u) THEN Cardinality(PendingOf(u))
                   ELSE Cardinality(PendingOf(u)) + 1
          BY <5>1, FS_AddElement, Zenon
        <5> QED
          BY <5>1, <5>2
      <4>2. Cardinality(PendingOf(u) \cup {t}) \in Nat
        BY <4>1, FS_CardinalityType
      <4> QED
        BY <3>1, <4>1, <4>2, FS_Subset, Counted, CountedNext
    <3>3. c \in Issuing(u) /\ Issuing(u)' \subseteq Issuing(u) \ {c}
      BY <1>8, <2>1, <2>4 DEF Issue, Issuing
    <3>4. Cardinality(Issuing(u)') <= Cardinality(Issuing(u)) - 1
      <4>1. /\ IsFiniteSet(Issuing(u) \ {c})
            /\ Cardinality(Issuing(u) \ {c}) = Cardinality(Issuing(u)) - 1
        BY <3>3, Counted, FS_RemoveElement
      <4> QED
        BY <3>3, <4>1, FS_Subset
    <3> QED
      BY <3>2, <3>4, Counted, CountedNext DEF PendingBounded
  <2>5. CASE client[c].call.user # u
    <3>1. PendingOf(u)' \subseteq PendingOf(u)
      BY <2>2, <2>5 DEF PendingOf, Live, IInv, Types
    <3>2. /\ Cardinality(PendingOf(u)') <= Cardinality(PendingOf(u))
          /\ Cardinality(Issuing(u)') <= Cardinality(Issuing(u))
      BY <2>3, <3>1, Counted, FS_Subset
    <3> QED
      BY <3>2, Counted, CountedNext DEF PendingBounded
  <2> QED
    BY <2>4, <2>5
<1>9. ASSUME NEW c \in Client, Run(c)
      PROVE PendingBounded'
  <2>1. client'[c].at # "issue" /\ \A d \in Client \ {c} : client'[d] = client[d]
    BY <1>9, ReturnKeeps DEF Run, IInv
  <2>2. UNCHANGED store
    BY <1>9 DEF Run
  <2> QED
    BY <1>1, <1>2, <2>1, <2>2, NoMore
<1>10. ASSUME Tick
       PROVE  PendingBounded'
  <2>1. \A s \in Token : Live(s)' => Live(s)
    BY <1>10 DEF Tick, Live, IInv, Types
  <2>2. \A u \in User : PendingOf(u)' \subseteq PendingOf(u) /\ Issuing(u)' \subseteq Issuing(u)
    BY <1>10, <2>1 DEF Tick, PendingOf, Issuing
  <2> QED
    BY <2>2, NoMore
<1>11. CASE UNCHANGED vars
  <2>1. \A u \in User : PendingOf(u)' \subseteq PendingOf(u) /\ Issuing(u)' \subseteq Issuing(u)
    BY <1>11 DEF vars, store, PendingOf, Live, Issuing
  <2> QED
    BY <2>1, NoMore
<1> QED
  BY <1>3, <1>4, <1>5, <1>6, <1>7, <1>8, <1>9, <1>10, <1>11 DEF Next, Handle

\* Initially nothing is pending and nobody issues.
LEMMA InitPendingBounded == Init => PendingBounded
<1> SUFFICES ASSUME Init, NEW u \in User
             PROVE  Cardinality(PendingOf(u)) + Cardinality(Issuing(u))
                      <= MaxPending + Cardinality(Client) - 1
  BY DEF PendingBounded
<1>1. PendingOf(u) = {} /\ Issuing(u) = {}
  BY GateAssumption DEF Init, PendingOf, Issuing, Live, Gone, Idle
<1> QED
  BY <1>1, Counted, FS_EmptySet, GateAssumption

\* However many goroutines race, a user's pending confirmations exceed the cap
\* by at most the number of goroutines less one.
THEOREM Bounded == Spec => []PendingBounded
  BY Invariance, InitPendingBounded, NextPendingBounded, PTL DEF Spec

-----------------------------------------------------------------------------
(* What the goroutines may do. *)

\* A goroutine that read the enforcing mode is past the decision only with a
\* call that is not forbidden, and past the token only with a token if the
\* call is guarded.
Gated ==
  \A c \in Client : client[c].at # "idle" /\ client[c].mode = "enforce" =>
    /\ client[c].at # "decide" => Builtin[client[c].call.req] # "deny"
    /\ client[c].at = "redeem" => client[c].token # NoToken
    /\ client[c].at = "run" /\ Builtin[client[c].call.req] = "confirm" =>
         client[c].token # NoToken

\* The decision is as strict as the built-in verdict, whatever the rules.
LEMMA DecideTightens ==
  ASSUME NEW list \in RuleLists, NEW r \in Request
  PROVE  /\ Builtin[r] = "deny" => Decide(list, r) = "deny"
         /\ Builtin[r] = "confirm" => Decide(list, r) \in {"confirm", "deny"}
  BY DEF Decide, Verdicts

\* A step of one goroutine preserves Gated if it does for that goroutine.
LEMMA GatedStep ==
  ASSUME Gated, NEW c \in Client,
         \A d \in Client \ {c} : client'[d] = client[d],
         client'[c].at # "idle" /\ client'[c].mode = "enforce" =>
           /\ client'[c].at # "decide" => Builtin[client'[c].call.req] # "deny"
           /\ client'[c].at = "redeem" => client'[c].token # NoToken
           /\ client'[c].at = "run" /\ Builtin[client'[c].call.req] = "confirm" =>
                client'[c].token # NoToken
  PROVE  Gated'
  BY DEF Gated

LEMMA NextGated == IInv /\ Gated /\ [Next]_vars => Gated'
<1> SUFFICES ASSUME IInv, Gated, [Next]_vars PROVE Gated'
  OBVIOUS
<1>0. \A c \in Client : client[c].at # "idle" => client[c] \in Doing
  BY DEF IInv, Types, Idle
<1>1. ASSUME NEW c \in Client, NEW call \in Call, NEW t \in Token \cup {NoToken},
             NEW mode \in Mode, Start(c, call, t, mode)
      PROVE  Gated'
  <2>1. /\ client'[c].at = "decide"
        /\ \A d \in Client \ {c} : client'[d] = client[d]
    BY <1>1 DEF Start, IInv, Types
  <2> QED
    BY <2>1, GatedStep
<1>2. ASSUME NEW c \in Client, NEW rules \in RuleLists, Judge(c, rules)
      PROVE  Gated'
  <2> DEFINE v == Decide(rules, client[c].call.req)
  <2>1. client[c] \in Doing /\ client[c].call.req \in Request
    BY <1>0, <1>2 DEF Judge, Doing, Call
  <2>2. CASE Return(c)
    BY <2>2, ReturnKeeps, GatedStep DEF IInv
  <2>3. CASE /\ client[c].mode = "enforce" /\ v = "confirm"
             /\ Step(c, IF client[c].token = NoToken THEN "rate" ELSE "redeem")
    <3> DEFINE at == IF client[c].token = NoToken THEN "rate" ELSE "redeem"
    <3>1. at \in {"rate", "redeem"} /\ (at = "redeem" => client[c].token # NoToken)
      OBVIOUS
    <3>2. Step(c, at)
      BY <2>3
    <3>3. Builtin[client[c].call.req] # "deny"
      BY <2>1, <2>3, DecideTightens
    <3> HIDE DEF at, v
    <3>4. /\ client'[c].at = at /\ client'[c].call = client[c].call
          /\ client'[c].token = client[c].token
          /\ \A d \in Client \ {c} : client'[d] = client[d]
      BY <2>1, <3>1, <3>2, StepKeeps DEF IInv
    <3> QED
      BY <3>1, <3>3, <3>4, GatedStep
  <2>4. CASE /\ client[c].mode = "observe" \/ v = "allow"
             /\ client' = [client EXCEPT ![c] = [at |-> "run", call |-> @.call,
                                                 token |-> NoToken, mode |-> @.mode]]
    <3>1. /\ client'[c].call = client[c].call /\ client'[c].mode = client[c].mode
          /\ client'[c].at = "run"
          /\ \A d \in Client \ {c} : client'[d] = client[d]
      BY <2>4 DEF IInv, Types
    <3>2. client[c].mode = "enforce" =>
            /\ Builtin[client[c].call.req] # "deny"
            /\ Builtin[client[c].call.req] # "confirm"
      <4>1. client[c].mode = "enforce" => v = "allow"
        BY <2>4
      <4> HIDE DEF v
      <4>2. /\ Builtin[client[c].call.req] = "deny" => v = "deny"
            /\ Builtin[client[c].call.req] = "confirm" => v \in {"confirm", "deny"}
        BY <2>1, DecideTightens DEF v
      <4> QED
        BY <4>1, <4>2
    <3> QED
      BY <3>1, <3>2, GatedStep
  <2> QED
    BY <1>2, <2>2, <2>3, <2>4 DEF Judge
<1>3. ASSUME NEW c \in Client, NEW at \in {"count", "issue", "run"}, Step(c, at),
             client[c].at \in {"redeem", "rate", "count"},
             at = "run" => client[c].at = "redeem"
      PROVE  Gated'
  <2>1. /\ client'[c].at = at /\ client'[c].call = client[c].call
        /\ client'[c].token = client[c].token /\ client'[c].mode = client[c].mode
        /\ \A d \in Client \ {c} : client'[d] = client[d]
    BY <1>0, <1>3, StepKeeps DEF IInv
  <2>2. client[c].mode = "enforce" =>
          /\ Builtin[client[c].call.req] # "deny"
          /\ client[c].at = "redeem" => client[c].token # NoToken
    BY <1>3 DEF Gated
  <2> QED
    BY <1>3, <2>1, <2>2, GatedStep
<1>4. ASSUME NEW c \in Client, Return(c)
      PROVE  Gated'
  BY <1>4, ReturnKeeps, GatedStep DEF IInv
<1>5. ASSUME NEW c \in Client, Redeem(c) \/ Rate(c) \/ Count(c)
      PROVE  Gated'
  BY <1>3, <1>4, <1>5 DEF Redeem, Rate, Count
<1>6. ASSUME NEW c \in Client, Run(c) \/ \E t \in Token : Issue(c, t)
      PROVE  Gated'
  BY <1>4, <1>6 DEF Run, Issue
<1>7. CASE Tick \/ UNCHANGED vars
  BY <1>7 DEF Tick, vars, Gated
<1> QED
  BY <1>1, <1>2, <1>5, <1>6, <1>7 DEF Next, Handle

\* What a redeemed token stands for, with Gated, is what GateHolds asks.
LEMMA GateImplied == IInv /\ Gated => GateHolds
<1> SUFFICES ASSUME IInv, Gated, NEW c \in Client,
                    client[c].at = "run", client[c].mode = "enforce"
             PROVE  /\ Builtin[client[c].call.req] # "deny"
                    /\ Builtin[client[c].call.req] = "confirm" =>
                         /\ client[c].token \in Token \ spent
                         /\ asked[client[c].token] = client[c].call
  BY DEF GateHolds
<1>1. client[c].token \in Token \cup {NoToken}
  BY DEF IInv, Types, Doing, Idle
<1> QED
  BY <1>1 DEF IInv, HoldersSound, Gated

\* For any rules, reloaded at any time, the gate holds: a call that read the
\* enforcing mode is executed only if the code-level rules let it through, and
\* with a redeemed token of its own if they ask for one.
THEOREM Gate == Spec => []GateHolds
<1>1. Init => Gated
  BY DEF Init, Gated, Idle
<1> QED
  BY <1>1, Invariance, NextGated, GateImplied, PTL DEF Spec

-----------------------------------------------------------------------------
(* Types. *)

WindowTyped ==
  /\ window \in [User -> Seq(0 .. RateTicks - 1)]
  /\ \A u \in User : Len(window[u]) <= MaxPerMin

\* A window without its first n marks, and each of the others a tick older.
LEMMA AgedTyped ==
  ASSUME NEW w \in Seq(0 .. RateTicks - 1), NEW n \in Nat, Drops(w, n)
  PROVE  Aged(w, n) \in Seq(0 .. RateTicks - 1) /\ Len(Aged(w, n)) <= Len(w)
<1> USE GateAssumption
<1>1. Len(w) - n \in Nat
  BY DEF Drops
<1>2. ASSUME NEW i \in 1 .. (Len(w) - n)
      PROVE  w[i + n] + 1 \in 0 .. RateTicks - 1
  <2>1. i + n \in 1 .. Len(w) /\ ~(i + n <= n)
    BY <1>2
  <2>2. w[i + n] \in 0 .. RateTicks - 1 /\ ~(w[i + n] + 1 >= RateTicks)
    BY <2>1 DEF Drops
  <2> QED
    BY <2>2
<1>3. Aged(w, n) \in [1 .. (Len(w) - n) -> 0 .. RateTicks - 1]
  BY <1>2 DEF Aged
<1>4. Aged(w, n) \in Seq(0 .. RateTicks - 1)
  <2>1. PICK m \in Nat : m = Len(w) - n
    BY <1>1
  <2>2. Aged(w, n) \in [1 .. m -> 0 .. RateTicks - 1]
    BY <1>3, <2>1
  <2>3. Seq(0 .. RateTicks - 1) = UNION {[1 .. k -> 0 .. RateTicks - 1] : k \in Nat}
    BY SeqDef
  <2> QED
    BY <2>2, <2>3, Zenon
<1>5. Len(Aged(w, n)) = Len(w) - n
  BY <1>1, <1>3, <1>4
<1> QED
  BY <1>4, <1>5

LEMMA NextWindow == IInv /\ WindowTyped /\ [Next]_vars => WindowTyped'
<1> SUFFICES ASSUME IInv, WindowTyped, [Next]_vars PROVE WindowTyped'
  OBVIOUS
<1> USE GateAssumption
<1>1. ASSUME NEW c \in Client, Rate(c)
      PROVE  WindowTyped'
  <2> DEFINE u == client[c].call.user
  <2>1. u \in User
    BY <1>1 DEF Rate, IInv, Types, Doing, Idle, Call
  <2>2. CASE UNCHANGED window
    BY <2>2 DEF WindowTyped
  <2>3. CASE ~Exceeded(u) /\ window' = [window EXCEPT ![u] = Append(@, 0)]
    <3>1. window[u] \in Seq(0 .. RateTicks - 1) /\ Len(window[u]) < MaxPerMin
      BY <2>1, <2>3 DEF WindowTyped, Exceeded
    <3>2. /\ Append(window[u], 0) \in Seq(0 .. RateTicks - 1)
          /\ Len(Append(window[u], 0)) <= MaxPerMin
      BY <3>1
    <3> QED
      BY <2>1, <2>3, <3>2 DEF WindowTyped
  <2> QED
    BY <1>1, <2>2, <2>3 DEF Rate
<1>2. CASE Tick
  <2>1. PICK old \in [User -> 0 .. MaxPerMin] :
          /\ \A u \in User : Drops(window[u], old[u])
          /\ window' = [u \in User |-> Aged(window[u], old[u])]
    BY <1>2 DEF Tick
  <2>2. ASSUME NEW u \in User
        PROVE  /\ Aged(window[u], old[u]) \in Seq(0 .. RateTicks - 1)
               /\ Len(Aged(window[u], old[u])) <= MaxPerMin
    <3>1. window[u] \in Seq(0 .. RateTicks - 1) /\ old[u] \in Nat /\ Drops(window[u], old[u])
      BY <2>1 DEF WindowTyped
    <3>2. /\ Aged(window[u], old[u]) \in Seq(0 .. RateTicks - 1)
          /\ Len(Aged(window[u], old[u])) <= Len(window[u])
      BY <3>1, AgedTyped
    <3> QED
      BY <3>1, <3>2 DEF WindowTyped
  <2> QED
    BY <2>1, <2>2 DEF WindowTyped
<1>3. CASE UNCHANGED window
  BY <1>3 DEF WindowTyped
<1> QED
  BY <1>1, <1>2, <1>3 DEF Next, Handle, Start, Judge, Redeem, Count, Run, Issue, vars

ServedTyped == served \in {NoCall} \cup (Token \X Call)

LEMMA NextServed == IInv /\ ServedTyped /\ [Next]_vars => ServedTyped'
<1> SUFFICES ASSUME IInv, ServedTyped, [Next]_vars PROVE ServedTyped'
  OBVIOUS
<1>1. ASSUME NEW c \in Client, Run(c)
      PROVE  ServedTyped'
  <2>1. client[c].token \in Token \cup {NoToken} /\ client[c].call \in Call
    BY <1>1 DEF Run, IInv, Types, Doing, Idle
  <2> QED
    BY <1>1, <2>1 DEF Run, ServedTyped
<1>2. CASE UNCHANGED served
  BY <1>2 DEF ServedTyped
<1> QED
  BY <1>1, <1>2
  DEF Next, Handle, Start, Judge, Redeem, Rate, Count, Issue, Tick, history, vars

\* The gatekeeper keeps its types: no user's window holds more marks than
\* gkMaxConfirmPerMin, nor one that is a minute old.
THEOREM TypeCorrect == Spec => []TypeOK
<1>1. Init => WindowTyped /\ ServedTyped
  BY GateAssumption DEF Init, WindowTyped, ServedTyped
<1>2. IInv /\ WindowTyped /\ ServedTyped => TypeOK
  BY DEF IInv, Types, WindowTyped, ServedTyped, TypeOK
<1> QED
  BY <1>1, <1>2, Invariance, NextWindow, NextServed, PTL DEF Spec

=============================================================================

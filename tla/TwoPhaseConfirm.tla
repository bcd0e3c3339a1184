--------------------------- MODULE TwoPhaseConfirm ---------------------------
(***************************************************************************)
(* What the gatekeeper promises of its confirmation tokens (header of      *)
(* gatekeeper.go, "Two-phase confirm"): a token is valid for a while, once,*)
(* for the user, tool and arguments it was issued for.  A token goes       *)
(* through its stages in one direction only, and what it lets through is   *)
(* the call it was asked for.                                              *)
(***************************************************************************)
CONSTANTS Token, Call, NoCall

VARIABLES
  stage,    \* how far each token has come
  bound,    \* the call each issued token was asked for
  served    \* the last confirmed call that was executed, with its token

Stage == {"unissued", "live", "granted", "spent", "void"}

TypeOK ==
  /\ stage \in [Token -> Stage]
  /\ bound \in [Token -> Call \cup {NoCall}]
  /\ served \in {NoCall} \cup (Token \X Call)

Init ==
  /\ stage = [t \in Token |-> "unissued"]
  /\ bound = [t \in Token |-> NoCall]
  /\ served = NoCall

Ask(t, call) ==
  /\ stage[t] = "unissued"
  /\ stage' = [stage EXCEPT ![t] = "live"]
  /\ bound' = [bound EXCEPT ![t] = call]
  /\ UNCHANGED served

\* Tokens run out of time, or one is burned by a call it was not issued for.
Lapse(S) ==
  /\ \A t \in S : stage[t] = "live"
  /\ stage' = [t \in Token |-> IF t \in S THEN "void" ELSE stage[t]]
  /\ UNCHANGED <<bound, served>>

Grant(t) ==
  /\ stage[t] = "live"
  /\ stage' = [stage EXCEPT ![t] = "granted"]
  /\ UNCHANGED <<bound, served>>

Execute(t) ==
  /\ stage[t] = "granted"
  /\ stage' = [stage EXCEPT ![t] = "spent"]
  /\ served' = <<t, bound[t]>>
  /\ UNCHANGED bound

Next ==
  \/ \E t \in Token : Grant(t) \/ Execute(t) \/ \E call \in Call : Ask(t, call)
  \/ \E S \in SUBSET Token : Lapse(S)

Spec == Init /\ [][Next]_<<stage, bound, served>>

=============================================================================

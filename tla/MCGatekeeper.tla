---------------------------- MODULE MCGatekeeper ----------------------------
(***************************************************************************)
(* A small instance of Gatekeeper: a read-only request, a guarded one and  *)
(* a forbidden one, and rule lists that tighten them and try to loosen     *)
(* them in both orders.                                                    *)
(***************************************************************************)
EXTENDS Gatekeeper, SequencesExt

CONSTANTS u1, u2, c1, c2, t1, t2, look, guarded, forbidden

MCBuiltin == look :> "allow" @@ guarded :> "confirm" @@ forbidden :> "deny"

MCRuleLists ==
  LET ask == [tools |-> {look}, action |-> "confirm"]
      open == [tools |-> {look, guarded, forbidden}, action |-> "allow"]
      shut == [tools |-> {guarded}, action |-> "deny"]
  IN {<<ask, open>>, <<open, shut, ask>>}

(***************************************************************************)
(* The loop of gkDecide itself: it takes the rules in their order.         *)
(***************************************************************************)
Tighten(v, rule) ==
  CASE rule.action = "deny" -> "deny"
    [] rule.action = "confirm" /\ v = "allow" -> "confirm"
    [] OTHER -> v

Loop(list, r) ==
  FoldLeft(LAMBDA v, rule : IF r \in rule.tools THEN Tighten(v, rule) ELSE v,
           Builtin[r], list)

\* It ends with the strictest verdict, for every list of up to three rules.
ASSUME LoopDecides ==
  LET rules == [tools : SUBSET {guarded, look}, action : Verdict]
  IN \A list \in UNION {[1 .. n -> rules] : n \in 0 .. 3}, r \in Request :
       Loop(list, r) = Decide(list, r)

Symmetry == Permutations(Client) \cup Permutations(Token) \cup Permutations(User)

=============================================================================

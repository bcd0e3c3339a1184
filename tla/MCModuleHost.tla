---------------------------- MODULE MCModuleHost ----------------------------
(***************************************************************************)
(* A small instance of ModuleHost: localModels, and autoStartModel, which  *)
(* depends on it and whose worker ends by itself.                          *)
(***************************************************************************)
EXTENDS ModuleHost, SequencesExt

CONSTANTS local, autoStart, h1, h2, watch, w1, w2, w3

MCDeps == [m \in Module |-> IF m = autoStart THEN {local} ELSE {}]
MCWorkerSeq == <<autoStart>>
MCPersona == {[set |-> {autoStart}, clear |-> {}], [set |-> {}, clear |-> {local}]}

Symmetry == Permutations(Handler) \cup Permutations(Worker)

(***************************************************************************)
(* The loop of applyModulesFromConfig itself, over a registry that lists   *)
(* each module after its dependencies: a pass handles the modules in       *)
(* order, and passes are repeated until nothing changes.                   *)
(***************************************************************************)
Correct(S, m) ==
  IF m \in S THEN S \cup Deps[m] ELSE S \ {n \in Module : m \in Deps[n]}
Pass(S, registry) == FoldLeft(Correct, S, registry)

Registries ==
  {r \in SetToAllKPermutations(Module) : Len(r) = Cardinality(Module)}
Ordered(r) ==
  \A i, j \in DOMAIN r : r[i] \in Deps[r[j]] => i < j

\* One pass reaches Met, and a second one changes nothing.
ASSUME LoopComputesMet ==
  \A r \in {q \in Registries : Ordered(q)} : \A S \in SUBSET Module :
    Pass(S, r) = Met(S) /\ Pass(Met(S), r) = Met(S)

=============================================================================

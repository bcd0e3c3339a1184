-------------------------- MODULE SidecarLifecycle --------------------------
(***************************************************************************)
(* What the sidecar hub promises of each supervised module (header of      *)
(* sidecarhub.go, "lifecycle" and "supervision"): it is tried until it     *)
(* serves, tried again when it fails, and at last given up or stopped.  At *)
(* no time does a supervisor have two processes, and when it is over it    *)
(* has none and starts none.                                               *)
(***************************************************************************)
EXTENDS Naturals

CONSTANT Sup

VARIABLE life   \* of each supervisor: how far it is, and how many live processes it has

Init == life = [s \in Sup |-> [stage |-> "none", processes |-> 0]]

Launch(p, q) ==
  p.stage = "none" /\ q = [p EXCEPT !.stage = "trying"]

Spawn(p, q) ==
  p.stage = "trying" /\ p.processes = 0 /\ q = [p EXCEPT !.processes = 1]

\* A process ends by itself or is killed; the supervisor may notice later.
Lose(p, q) ==
  p.processes = 1 /\ q = [p EXCEPT !.processes = 0]

\* Only a module whose process is there becomes one that serves.
Serve(p, q) ==
  p.stage = "trying" /\ p.processes = 1 /\ q = [p EXCEPT !.stage = "serving"]

\* A supervisor that has to start again has nothing left of the last try.
Retry(p, q) ==
  p.stage = "serving" /\ p.processes = 0 /\ q = [p EXCEPT !.stage = "trying"]

End(p, q) ==
  p.stage \in {"trying", "serving"} /\ q = [stage |-> "over", processes |-> 0]

Step(p, q) ==
  Launch(p, q) \/ Spawn(p, q) \/ Lose(p, q) \/ Serve(p, q) \/ Retry(p, q) \/ End(p, q)

Next == \A s \in Sup : life'[s] = life[s] \/ Step(life[s], life'[s])

Spec == Init /\ [][Next]_life

=============================================================================

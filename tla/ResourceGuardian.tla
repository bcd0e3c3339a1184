-------------------------- MODULE ResourceGuardian --------------------------
(***************************************************************************)
(* The resource guardian (resourceguardian.go): a worker that samples the  *)
(* memory of the process and climbs through four tiers, each entered when  *)
(* the load stayed over its threshold for a time and left when it stayed   *)
(* under a lower one.  Tier 2 refuses to load models, tier 3 drains the    *)
(* server and ends the process, which a start script may start again.      *)
(*                                                                         *)
(* A timer is the time since a condition was first seen to hold; it is     *)
(* only looked at in the tiers that need it.  The worker is a module that  *)
(* can be switched off, and time passes without samples then.              *)
(***************************************************************************)
EXTENDS Integers

CONSTANTS
  Load,       \* loads in per cent of the limit
  Trigger,    \* for a tier: the load that leads into it
  Held,       \* for a tier: the ticks it must stay there
  Recover,    \* for tiers 1 and 2: the load that leads out of it
  Rest        \* for tiers 1 and 2: the ticks it must stay there

Tier == 0..3

ThresholdAssumption ==
  /\ Load \subseteq Nat
  /\ Trigger \in [1..3 -> Nat] /\ Held \in [1..3 -> Nat]
  /\ Recover \in [1..2 -> Nat] /\ Rest \in [1..2 -> Nat]

VARIABLES
  tier,     \* guardTier
  fuse,     \* modelLoadFuse: no model is loaded
  since,    \* guardSince: ages of the timers, None for one that is not set
  phase,    \* serving, draining after tier 3, or ended
  load,     \* the load the last sample saw
  streak    \* history: for each timer, the ticks of samples that all met its condition

vars == <<tier, fuse, since, phase, load, streak>>

None == -1
Longest == 5   \* ages are told apart up to this (a bound)

\* The timers into a tier and out of a tier.
Timer == [into : {TRUE}, tier : 1..3] \cup [into : {FALSE}, tier : 1..2]
Into(t) == [into |-> TRUE, tier |-> t]
OutOf(t) == [into |-> FALSE, tier |-> t]

TypeOK ==
  /\ tier \in Tier
  /\ fuse = (tier >= 2)
  /\ since \in [Timer -> {None} \cup 0..Longest]
  /\ phase \in {"serving", "draining", "ended"}
  /\ tier = 3 <=> phase # "serving"
  /\ load \in Load
  /\ streak \in [Timer -> {None} \cup 0..Longest]

-----------------------------------------------------------------------------
Meets(x, p) == IF x.into THEN p >= Trigger[x.tier] ELSE p <= Recover[x.tier]
Needs(x) == IF x.into THEN Held[x.tier] ELSE Rest[x.tier]

Older(n) == IF n = None THEN None ELSE IF n < Longest THEN n + 1 ELSE Longest

FaultKept(s, x, p) == [s EXCEPT ![x] = IF @ = None /\ Meets(x, p) THEN 0 ELSE @]

FaultSet(s, x, p) == [s EXCEPT ![x] = IF Meets(x, p) THEN 0 ELSE None]

\* tierHold and tierRecovered: the timer is set the first time and removed when
\* the condition fails.
Timed(s, x, p) ==
  [s EXCEPT ![x] = IF ~Meets(x, p) THEN None ELSE IF @ = None THEN 0 ELSE @]

Due(s, x, p) == Meets(x, p) /\ s[x] # None /\ s[x] >= Needs(x)

Forget(s, x) == [s EXCEPT ![x] = None]

\* enterTier and exitTier; every way out of a tier leads to tier 0.
Enter(t, s) ==
  /\ tier' = t
  /\ since' = Forget(s, Into(t))
  /\ fuse' = (fuse \/ t = 2)
  /\ phase' = IF t = 3 THEN "draining" ELSE phase

Leave(s) ==
  /\ tier' = 0
  /\ since' = Forget(s, OutOf(tier))
  /\ fuse' = (fuse /\ tier # 2)
  /\ UNCHANGED phase

Stay(s) == since' = s /\ UNCHANGED <<tier, fuse, phase>>

\* stepResourceGuardian: upwards first, and the timer of the way out is only
\* looked at when the tier is not left upwards.
Step(aged, p) ==
  LET up == Timed(aged, Into(tier + 1), p)
      both == Timed(up, OutOf(tier), p)
  IN
  CASE tier = 3 -> Stay(aged)
    [] tier < 3 /\ Due(aged, Into(tier + 1), p) -> Enter(tier + 1, up)
    [] tier = 0 /\ ~Due(aged, Into(1), p) -> Stay(up)
    [] tier \in 1..2 /\ ~Due(aged, Into(tier + 1), p) ->
         IF Due(aged, OutOf(tier), p) THEN Leave(both) ELSE Stay(both)

Aged == [x \in Timer |-> Older(since[x])]

Continued(p) ==
  [x \in Timer |-> IF ~Meets(x, p) THEN None
                   ELSE IF streak[x] = None THEN 0 ELSE Older(streak[x])]

\* A tick passes and the worker samples.
Sample(p) ==
  /\ phase # "ended"
  /\ load' = p
  /\ Step(Aged, p)
  /\ streak' = Continued(p)

\* The worker is switched off for a tick; its timers stay.
Pause ==
  /\ phase # "ended"
  /\ since' = Aged
  /\ streak' = [x \in Timer |-> Older(streak[x])]
  /\ UNCHANGED <<tier, fuse, phase, load>>

\* gracefulResourceShutdown
Shutdown ==
  /\ phase = "draining"
  /\ phase' = "ended"
  /\ UNCHANGED <<tier, fuse, since, load, streak>>

Unset == [x \in Timer |-> None]

\* The start script; the tier starts at 0 whatever the last process came to.
Restart ==
  /\ phase = "ended"
  /\ tier' = 0 /\ fuse' = FALSE /\ phase' = "serving"
  /\ since' = Unset /\ streak' = Unset
  /\ UNCHANGED load

Init ==
  /\ tier = 0 /\ fuse = FALSE /\ phase = "serving"
  /\ since = Unset /\ streak = Unset
  /\ load \in Load

Sampling == \E p \in Load : Sample(p)

Next ==
  \/ Sampling
  \/ Pause \/ Shutdown \/ Restart

Spec == Init /\ [][Next]_vars

-----------------------------------------------------------------------------
(* Properties. *)

\* A tier is entered and left only after every sample of the time it takes met
\* the condition (resourceguardian.go:124-136): no timer that was set in an
\* earlier tier, or before the load went the other way, is ever taken for the
\* present one.
Deserved ==
  /\ tier' > tier => streak'[Into(tier')] >= Held[tier']
  /\ tier' < tier /\ phase = "serving" => streak'[OutOf(tier)] >= Rest[tier]

OnlyAfterAStreak == [][Deserved]_vars

Calm == \A t \in 1..2 : load <= Recover[t]
Heavy == phase # "ended" /\ \A t \in 1..3 : load >= Trigger[t]
Draining == phase # "serving"

\* Under a load that stays at the top the process is drained and ended, and
\* under one that stays low the guardian comes back to tier 0 and loads models
\* again, from whichever tier; only draining is not taken back.
LoadDecides ==
  /\ <>[]Heavy => []<>Draining
  /\ Calm ~> (~Calm \/ tier = 0 \/ Draining)

=============================================================================

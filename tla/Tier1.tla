------------------------------- MODULE Tier1 -------------------------------
(***************************************************************************)
(* The hardware probe of the gateway (tier1.go): a snapshot of static      *)
(* properties, taken from a signed cache file or by running a command of   *)
(* the white list, behind a circuit breaker per command.                   *)
(*                                                                         *)
(* A snapshot runs under tier1SnapMu, but the file has a lock of its own,  *)
(* and a reload of the configuration or a violation of the white list      *)
(* deletes it at any time.  One command stands for the three of a platform,*)
(* and the check of the preset script of Windows is left out.              *)
(***************************************************************************)
EXTENDS Integers

CONSTANTS
  Threshold,   \* tier1FailThreshold
  Pause,       \* ticks between two probes of a tripped command (60 seconds)
  Life         \* ticks for which the cache is good (tier1CacheTTL)

TimeAssumption == Threshold \in Nat \ {0} /\ Pause \in Nat \ {0} /\ Life \in Nat \ {0}

VARIABLES
  breaker,   \* tier1Breakers: failures in a row, tripped, ticks since the last probe
  pending,   \* tier1TamperPending
  file,      \* state/tier1-cache.json
  snap,      \* the snapshot in progress
  seen,      \* history: what the last snapshot returned
  bad,       \* history: failures of the command in a row
  gap        \* history: ticks since it was started last

vars == <<breaker, pending, file, snap, seen, bad, gap>>
history == <<bad, gap>>

Least(m, n) == IF m <= n THEN m ELSE n

\* The file: signed by this process, or by nobody.
NoFile == [kind |-> "none", data |-> "-", age |-> 0]
Forged == [kind |-> "forged", data |-> "-", age |-> 0]
Signed(d) == [kind |-> "signed", data |-> d, age |-> 0]

\* What a probe finds: the properties, or nothing when the command failed.
Data == {"properties", "nothing"}

Idle == "idle"
Running == "running"

TypeOK ==
  /\ breaker \in [fails : 0..Threshold, tripped : BOOLEAN, wait : 0..Pause]
  /\ pending \in BOOLEAN
  /\ file \in {NoFile, Forged} \cup [kind : {"signed"}, data : Data, age : 0..(Life + 1)]
  /\ snap \in {Idle, "looked", Running, "found", "failed"}
  /\ seen \in {"-", "off", "cached", "degraded", "probed"}
  /\ bad \in 0..Threshold
  /\ gap \in 0..Pause

-----------------------------------------------------------------------------
(* tier1CacheLoad, the first step of a snapshot. *)

Good == file.kind = "signed" /\ file.age <= Life

\* The probe is switched off.
Off ==
  /\ snap = Idle
  /\ seen' = "off"
  /\ UNCHANGED <<breaker, pending, file, snap, history>>

Hit ==
  /\ snap = Idle
  /\ ~pending /\ Good
  /\ seen' = "cached"
  /\ UNCHANGED <<breaker, pending, file, snap, history>>

\* A file with a wrong signature is deleted and remembered.
Miss ==
  /\ snap = Idle
  /\ pending \/ ~Good
  /\ file' = IF ~pending /\ file.kind = "forged" THEN NoFile ELSE file
  /\ pending' = (pending \/ file.kind = "forged")
  /\ snap' = "looked"
  /\ UNCHANGED <<breaker, seen, history>>

\* tier1TamperNow: a second look at the mark, under the lock again.
Degrade ==
  /\ snap = "looked" /\ pending
  /\ snap' = Idle
  /\ seen' = "degraded"
  /\ UNCHANGED <<breaker, pending, file, history>>

-----------------------------------------------------------------------------
(* tier1Run. *)

\* tier1BreakerAllow.
MayRun == breaker.tripped => breaker.wait = Pause

Run ==
  /\ snap = "looked" /\ ~pending
  /\ IF MayRun
     THEN /\ snap' = Running
          /\ breaker' = IF breaker.tripped THEN [breaker EXCEPT !.wait = 0] ELSE breaker
          /\ gap' = 0
     ELSE snap' = "failed" /\ UNCHANGED <<breaker, gap>>
  /\ UNCHANGED <<pending, file, seen, bad>>

\* tier1BreakerRecord.
FaultFailed ==
  IF breaker.fails + 1 >= Threshold
  THEN [fails |-> 0, tripped |-> ~breaker.tripped, wait |-> 0]
  ELSE [breaker EXCEPT !.fails = Least(@ + 1, Threshold)]

Succeeded == [breaker EXCEPT !.fails = 0, !.tripped = FALSE]

Failed ==
  IF ~breaker.tripped /\ breaker.fails + 1 >= Threshold
  THEN [fails |-> Threshold, tripped |-> TRUE, wait |-> 0]
  ELSE [breaker EXCEPT !.fails = Least(@ + 1, Threshold)]

\* The command ends well.
Succeed ==
  /\ snap = Running
  /\ breaker' = Succeeded
  /\ snap' = "found"
  /\ bad' = 0
  /\ UNCHANGED <<pending, file, seen, gap>>

\* It is missing, refused, too late, or ends with an error.
Break ==
  /\ snap = Running
  /\ breaker' = Failed
  /\ snap' = "failed"
  /\ bad' = Least(bad + 1, Threshold)
  /\ UNCHANGED <<pending, file, seen, gap>>

\* tier1CacheStore: a probe of which every command failed is still an active one
\* and is stored.
Store ==
  /\ snap \in {"found", "failed"}
  /\ file' = Signed(IF snap = "found" THEN "properties" ELSE "nothing")
  /\ pending' = FALSE
  /\ snap' = Idle
  /\ seen' = "probed"
  /\ UNCHANGED <<breaker, history>>

-----------------------------------------------------------------------------
\* tier1CacheInvalidate: a reload, or a call that is not on the white list.
Invalidate ==
  /\ file' = NoFile
  /\ pending' = FALSE
  /\ UNCHANGED <<breaker, snap, seen, history>>

\* Somebody else writes the file.
Forge ==
  /\ file # Forged
  /\ file' = Forged
  /\ UNCHANGED <<breaker, pending, snap, seen, history>>

\* Time passes.
Tick ==
  /\ breaker' = [breaker EXCEPT !.wait = Least(@ + 1, Pause)]
  /\ file' = IF file.kind = "signed" THEN [file EXCEPT !.age = Least(@ + 1, Life + 1)] ELSE file
  /\ gap' = Least(gap + 1, Pause)
  /\ UNCHANGED <<pending, snap, seen, bad>>

Init ==
  /\ breaker = [fails |-> 0, tripped |-> FALSE, wait |-> Pause]
  /\ pending = FALSE
  /\ file = NoFile
  /\ snap = Idle
  /\ seen = "-"
  /\ bad = 0
  /\ gap = Pause

Snapshot == Off \/ Hit \/ Miss \/ Degrade \/ Run \/ Succeed \/ Break \/ Store

Next == Snapshot \/ Invalidate \/ Forge \/ Tick

Spec == Init /\ [][Next]_vars

-----------------------------------------------------------------------------
(* Properties. *)

\* A command that failed Threshold times in a row is started once a pause at
\* most, until it has succeeded (tier1.go:12, TIER1_PROC_TIMEOUT), however its
\* runs fall between reloads, forged files and answers from the cache.
SpacedRuns == [][Run /\ snap' = Running => bad < Threshold \/ gap = Pause]_vars

\* tier1.go:403 says that after a forged file only this round is degraded and
\* the next one probes again.  It does not hold: the mark is cleared by a store,
\* which the mark itself prevents, and by a reload.
ForgedOnceOnly == [](pending /\ snap = Idle => seen # "degraded")

=============================================================================

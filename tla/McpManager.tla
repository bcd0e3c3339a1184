----------------------------- MODULE McpManager -----------------------------
(***************************************************************************)
(* The child process of one integration (pkg/mcp): enabled, disabled and   *)
(* updated through the marketplace, and looked after by a watchdog for     *)
(* each process that was ever started.                                     *)
(*                                                                         *)
(* Start runs under the manager's lock; Stop takes the entry away under it *)
(* and waits without.  A process that ended stays a zombie until Stop      *)
(* waits for it, and a zombie answers the signal by which Running asks.    *)
(* No watchdog is ever told to end.                                        *)
(***************************************************************************)
EXTENDS Integers

CONSTANTS
  Caller,      \* requests of the marketplace
  Proc,        \* processes, in the order of their start
  MaxRestart   \* restarts of one watchdog in an hour

VARIABLES
  entry,     \* procs[name]
  proc,      \* the processes and their watchdogs' counters
  enabled,   \* the file of the integration says enabled
  actor      \* what each request and each watchdog does

vars == <<entry, proc, enabled, actor>>

None == "none"
Actor == Caller \cup Proc

RestartAssumption == MaxRestart \in Nat /\ None \notin Proc

Unborn == [life |-> "unborn", count |-> 0, recent |-> FALSE]
Idle == [at |-> "idle"]
Starting == [at |-> "start"]
Waiting(p, next) == [at |-> "wait", proc |-> p, next |-> next]

TypeOK ==
  /\ entry \in Proc \cup {None}
  /\ proc \in [Proc -> {Unborn} \cup
       [life : {"alive", "zombie", "gone"}, count : 0..MaxRestart, recent : BOOLEAN]]
  /\ enabled \in BOOLEAN
  /\ actor \in [Actor -> {Idle, Starting} \cup
       {Waiting(p, next) : p \in Proc, next \in {"start", "disable"}}]

\* Running: everything but a process that was waited for.
Running(p) == proc[p].life \in {"alive", "zombie"}

-----------------------------------------------------------------------------
FaultUp == FALSE

Up == entry # None /\ Running(entry)

\* Start: nothing to do, or a new process; the file is written back as it was
\* when the integration was enabled.
Keep(a) ==
  /\ actor[a] = Starting
  /\ Up
  /\ actor' = [actor EXCEPT ![a] = Idle]
  /\ UNCHANGED <<entry, proc, enabled>>

Spawn(a, p) ==
  /\ actor[a] = Starting
  /\ ~Up
  /\ proc[p] = Unborn
  /\ proc' = [proc EXCEPT ![p] = [life |-> "alive", count |-> 0, recent |-> TRUE]]
  /\ entry' = p
  /\ enabled' = TRUE
  /\ actor' = [actor EXCEPT ![a] = Idle]

\* The binary is missing or does not start.
Fail(a) ==
  /\ actor[a] = Starting
  /\ ~Up
  /\ actor' = [actor EXCEPT ![a] = Idle]
  /\ UNCHANGED <<entry, proc, enabled>>

\* Stop: the entry goes, then the process is told to end.
Halt(a, next) ==
  /\ entry' = None
  /\ actor' = [actor EXCEPT ![a] =
       IF entry # None THEN Waiting(entry, next)
       ELSE IF next = "start" THEN Starting ELSE Idle]

\* It ends, or is killed after five seconds, and is waited for.
Reap(a) ==
  /\ actor[a].at = "wait"
  /\ proc' = [proc EXCEPT ![actor[a].proc].life = "gone"]
  /\ IF actor[a].next = "start"
     THEN actor' = [actor EXCEPT ![a] = Starting] /\ UNCHANGED enabled
     ELSE actor' = [actor EXCEPT ![a] = Idle] /\ enabled' = FALSE
  /\ UNCHANGED entry

-----------------------------------------------------------------------------
(* The marketplace. *)

Enable(c) ==
  /\ actor[c] = Idle
  /\ enabled' = TRUE
  /\ actor' = [actor EXCEPT ![c] = Starting]
  /\ UNCHANGED <<entry, proc>>

Disable(c) ==
  /\ actor[c] = Idle
  /\ Halt(c, "disable")
  /\ enabled' = IF entry = None THEN FALSE ELSE enabled
  /\ UNCHANGED proc

Upgrade(c) ==
  /\ actor[c] = Idle
  /\ enabled
  /\ Halt(c, "start")
  /\ UNCHANGED <<proc, enabled>>

\* The process ends by itself.
Exit(p) ==
  /\ proc[p].life = "alive"
  /\ proc' = [proc EXCEPT ![p].life = "zombie"]
  /\ UNCHANGED <<entry, enabled, actor>>

\* The watchdog of a process that was stopped restarts whatever there is, at
\* most MaxRestart times without an hour's pause.
Dog(p) ==
  /\ actor[p] = Idle
  /\ proc[p].life = "gone"
  /\ proc[p].count < MaxRestart \/ ~proc[p].recent
  /\ proc' = [proc EXCEPT ![p].count = IF @ < MaxRestart THEN @ + 1 ELSE @, ![p].recent = TRUE]
  /\ Halt(p, "start")
  /\ UNCHANGED enabled

Hour ==
  /\ \E p \in Proc : proc[p].recent
  /\ proc' = [p \in Proc |-> [proc[p] EXCEPT !.recent = FALSE]]
  /\ UNCHANGED <<entry, enabled, actor>>

\* ScanOnBoot starts what was enabled.
Init ==
  /\ entry = None
  /\ proc = [p \in Proc |-> Unborn]
  /\ enabled \in BOOLEAN
  /\ \E c \in Caller :
       actor = [a \in Actor |-> IF enabled /\ a = c THEN Starting ELSE Idle]

Work(a) == Keep(a) \/ Fail(a) \/ Reap(a) \/ \E p \in Proc : Spawn(a, p)

Next ==
  \/ \E a \in Actor : Work(a)
  \/ \E c \in Caller : Enable(c) \/ Disable(c) \/ Upgrade(c)
  \/ \E p \in Proc : Exit(p) \/ Dog(p)
  \/ Hour

Spec == Init /\ [][Next]_vars

-----------------------------------------------------------------------------
(* Properties. *)

\* No process is lost: one that lives is the manager's, or somebody is waiting
\* for its end, however requests and watchdogs of earlier processes overlap.
NoneLost ==
  \A p \in Proc : proc[p].life = "alive" =>
    p = entry \/ \E a \in Actor : actor[a].at = "wait" /\ actor[a].proc = p

\* marketplace.go:132 marks an integration as disabled: it stays so until somebody
\* enables it.  It does not hold: the watchdog of the stopped process starts it
\* again and writes the file back.
DisabledStays == [][enabled' => enabled \/ \E c \in Caller : Enable(c)]_vars

=============================================================================

----------------------------- MODULE Whitelist -----------------------------
(***************************************************************************)
(* The white lists of the configuration (whitelist.go) and the baseline    *)
(* they are compared with: at a start a list that differs is refused, at a *)
(* reload it is announced and becomes the baseline.  A list is one value.  *)
(*                                                                         *)
(* The lists of the configuration in memory are replaced by those of the   *)
(* file, which is then written back, before the comparison (config.go).    *)
(***************************************************************************)
EXTENDS FiniteSets

CONSTANTS
  Kind,        \* the dynamic kinds
  Enforced,    \* those a start puts back (addresses and file roots)
  Value        \* lists


VARIABLES
  up,         \* the program runs and has reconciled (wlLoaded)
  memory,     \* the lists in force
  conf,       \* those of config.json
  base,       \* wlBaseline; NoList for a kind it does not know
  saved,      \* whitelist-integrity.json; NoFile when it is missing or torn
  named,      \* history: the lists each kind's audit records have named
  open        \* history: kinds whose list was set by the API since the last
              \* reload, or taken because the baseline did not know the kind

vars == <<up, memory, conf, base, saved, named, open>>

NoList == "none"

KindAssumption == Enforced \subseteq Kind /\ NoList \notin Value

NoFile == [k \in Kind |-> NoList]

Lists == [Kind -> Value]
Partial == [Kind -> Value \cup {NoList}]

TypeOK ==
  /\ up \in BOOLEAN
  /\ memory \in Lists /\ conf \in Lists
  /\ base \in Partial /\ saved \in Partial
  /\ named \in [Kind -> SUBSET Value]
  /\ open \subseteq Kind

-----------------------------------------------------------------------------
FaultDiffers(k) == base[k] # NoList /\ memory[k] # base[k]

Differs(k) == base[k] # NoList /\ conf[k] # base[k]

\* An audit record names the list it found, and the one it keeps.
Naming(lists) == named' = [k \in Kind |-> named[k] \cup ({lists[k]} \ {NoList})]

\* wlPersistBaselineLocked; a crash may tear the file.
Persist == saved' = base' \/ saved' = NoFile

\* The first start: every list becomes the baseline and is named.
Bootstrap ==
  /\ ~up /\ saved = NoFile
  /\ up' = TRUE
  /\ memory' = conf /\ base' = conf
  /\ Persist
  /\ Naming(conf)
  /\ open' = {}
  /\ UNCHANGED conf

\* wlRollbackKind.
RolledBack(k) ==
  IF saved[k] # NoList /\ saved[k] # conf[k] /\ k \in Enforced THEN saved[k] ELSE conf[k]

\* A later start: the file of the configuration keeps what was refused.
Start ==
  /\ ~up /\ saved # NoFile
  /\ up' = TRUE
  /\ base' = saved
  /\ memory' = [k \in Kind |-> RolledBack(k)]
  /\ named' = [k \in Kind |->
       IF saved[k] \notin {NoList, conf[k]} THEN named[k] \cup {saved[k], conf[k]} ELSE named[k]]
  /\ open' = {k \in Kind : saved[k] = NoList \/ (k \in open /\ saved[k] = conf[k])}
  /\ UNCHANGED <<conf, saved>>

\* A reload; a kind that the baseline does not know is taken without a record.
Reload ==
  /\ up
  /\ memory' = conf /\ base' = conf
  /\ Persist
  /\ named' = [k \in Kind |-> IF Differs(k) THEN named[k] \cup {conf[k]} ELSE named[k]]
  /\ open' = {k \in Kind : base[k] = NoList \/ (k \in open /\ ~Differs(k))}
  /\ UNCHANGED <<up, conf>>

\* A change by the API, saved but not compared before the next reload.
Set(k, v) ==
  /\ up
  /\ memory' = [memory EXCEPT ![k] = v]
  /\ conf' = memory'
  /\ open' = open \cup {k}
  /\ UNCHANGED <<up, base, saved, named>>

\* Somebody edits the file.
Edit(k, v) ==
  /\ conf[k] # v
  /\ conf' = [conf EXCEPT ![k] = v]
  /\ UNCHANGED <<up, memory, base, saved, named, open>>

Stop ==
  /\ up
  /\ up' = FALSE
  /\ UNCHANGED <<memory, conf, base, saved, named, open>>

\* A file of an earlier version may know fewer kinds.
Init ==
  /\ up = FALSE
  /\ conf \in Lists /\ memory = conf
  /\ base = NoFile
  /\ saved \in Partial
  /\ named = [k \in Kind |-> {saved[k]} \ {NoList}]
  /\ open = {}

Next ==
  \/ Bootstrap \/ Start \/ Reload \/ Stop
  \/ \E k \in Kind, v \in Value : Set(k, v) \/ Edit(k, v)

Spec == Init /\ [][Next]_vars

-----------------------------------------------------------------------------
(* Properties. *)

\* Every list in force has been named by an audit record (whitelist.go:16: every
\* change of a white list is bound to be audited), over starts, reloads, edits of
\* the file in any order and torn files, except one the API has set since the
\* last reload and one of a kind that the baseline did not know.
AllNamed == up => \A k \in Kind : memory[k] \in named[k] \/ k \in open

\* config.go:298 says that what a start refused is gone from the file too.  It
\* does not hold: the file is written before the comparison, and the next reload
\* takes the refused list.
RefusedIsGone == [][Start => conf' = memory']_vars

=============================================================================

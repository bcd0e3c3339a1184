---------------------------- MODULE SharedMemory ----------------------------
(***************************************************************************)
(* The shared memory of clients (sharedmemory.go): keys in name spaces, of *)
(* a user, a tenant or everybody, under limits, with an expiry, saved as a *)
(* whole after each change and read back at the next start.                *)
(*                                                                         *)
(* Every operation runs under one lock.  The times of writes are counted,  *)
(* over restarts.  Entries with an expiry all expire in the same tick,     *)
(* here and in the file.                                                   *)
(***************************************************************************)
EXTENDS Integers, FiniteSets, Functions

CONSTANTS
  User,        \* users, all of one tenant
  Admin,       \* those of a global role
  Keys,        \* keys
  Text,        \* values
  PerNS,       \* limits of keys in a name space that may be configured
  Total,       \* limits of keys in all that may be configured
  MaxWrites    \* bound: writes

LimitAssumption == PerNS \subseteq Nat \ {0} /\ MaxWrites \in Nat

VARIABLES
  mem,       \* sharedMem
  clock,     \* the time of the last write
  rev,       \* sharedMemRev
  file,      \* shared-memory.json
  unsaved    \* history: a change that could not be saved, or a file that could not be
             \* read, and none saved since

vars == <<mem, clock, rev, file, unsaved>>

TenantNS == "tenant"
GlobalNS == "global"
NS == User \cup {TenantNS, GlobalNS}

\* What a name space holds: its keys with their entries, at is UpdatedAt.
Entry == [text : Text, at : 1..MaxWrites, rev : 1..MaxWrites, life : {"ever", "soon", "past"}]

\* No two entries of a name space are of the same time, and no limit is exceeded.
Fits(m) ==
  /\ DOMAIN m \subseteq Keys /\ m \in [DOMAIN m -> Entry]
  /\ \A k, l \in DOMAIN m : m[k].at = m[l].at => k = l
  /\ DOMAIN m = {} \/ \E cap \in PerNS : Cardinality(DOMAIN m) <= cap

TypeOK ==
  /\ DOMAIN mem = NS /\ DOMAIN file = NS
  /\ \A n \in NS : Fits(mem[n]) /\ Fits(file[n])
  /\ clock \in 0..MaxWrites /\ rev \in 0..clock
  /\ \A n \in NS : \A k \in DOMAIN mem[n] : mem[n][k].at <= clock
  /\ unsaved \in BOOLEAN

-----------------------------------------------------------------------------
\* smNormalizeNS.
Writable(u) == {u, TenantNS} \cup (IF u \in Admin THEN {GlobalNS} ELSE {})

Put(m, k, e) == [l \in DOMAIN m \cup {k} |-> IF l = k THEN e ELSE m[l]]
Without(m, k) == Restrict(m, DOMAIN m \ {k})
Size(m) == FoldFunction(+, 0, [n \in NS |-> Cardinality(DOMAIN m[n])])

\* smSaveLocked: all of it or nothing, and errors are ignored.
Save ==
  \/ file' = mem' /\ unsaved' = FALSE
  \/ UNCHANGED file /\ unsaved' = TRUE

Newer(m, k) == {l \in DOMAIN m : m[l].at > m[k].at}

FaultEvicted(m, cap) == Restrict(m, {k \in DOMAIN m : Cardinality(Newer(m, k)) < cap})

\* smEvictOldestLocked: the oldest go until there is room for one.
Evicted(m, cap) == Restrict(m, {k \in DOMAIN m : Cardinality(Newer(m, k)) < cap - 1})

\* smSet; a new key is refused when all name spaces together are full.
Set(u, n, k, e, cap, total) ==
  LET known == k \in DOMAIN mem[n]
  IN  /\ n \in Writable(u)
      /\ known \/ Size(mem) < total
      /\ clock < MaxWrites
      /\ clock' = clock + 1
      /\ rev' = rev + 1
      /\ e.at = clock' /\ e.rev = rev'
      /\ mem' = [mem EXCEPT ![n] = Put(IF known THEN @ ELSE Evicted(@, cap), k, e)]
      /\ Save

FaultDelete(u, n, k) ==
  /\ n \in Writable(u)
  /\ k \in DOMAIN mem[n]
  /\ mem' = [mem EXCEPT ![n] = Without(@, k)]
  /\ UNCHANGED <<clock, rev, file, unsaved>>

\* smDelete.
Delete(u, n, k) ==
  /\ n \in Writable(u)
  /\ k \in DOMAIN mem[n]
  /\ mem' = [mem EXCEPT ![n] = Without(@, k)]
  /\ Save
  /\ UNCHANGED <<clock, rev>>

-----------------------------------------------------------------------------
Valid(m) == Restrict(m, {k \in DOMAIN m : m[k].life # "past"})

\* smGet and smList sweep what has expired, and do not save.
Sweep ==
  /\ mem' = [n \in NS |-> Valid(mem[n])]
  /\ mem' # mem
  /\ UNCHANGED <<clock, rev, file, unsaved>>

\* An expiry is a time: it comes for all copies of an entry.
Expired(m) == [k \in DOMAIN m |->
  IF m[k].life = "soon" THEN [m[k] EXCEPT !.life = "past"] ELSE m[k]]

Expire ==
  /\ mem' = [n \in NS |-> Expired(mem[n])] /\ file' = [n \in NS |-> Expired(file[n])]
  /\ UNCHANGED <<clock, rev, unsaved>>

\* loadSharedMemory: the file, or nothing if it cannot be read; the revisions start again.
Restart ==
  /\ \/ mem' = file /\ unsaved' = FALSE
     \/ mem' = [n \in NS |-> <<>>] /\ unsaved' = TRUE
  /\ rev' = 0
  /\ UNCHANGED <<clock, file>>

Init ==
  /\ mem = [n \in NS |-> <<>>] /\ file = [n \in NS |-> <<>>]
  /\ clock = 0 /\ rev = 0
  /\ unsaved = FALSE

Write(u) ==
  \E n \in NS, k \in Keys :
    \/ \E t \in Text, life \in {"ever", "soon"}, cap \in PerNS, total \in Total :
         Set(u, n, k, [text |-> t, at |-> clock + 1, rev |-> rev + 1, life |-> life], cap, total)
    \/ Delete(u, n, k)

Next == (\E u \in User : Write(u)) \/ Sweep \/ Expire \/ Restart

Spec == Init /\ [][Next]_vars

-----------------------------------------------------------------------------
(* Properties. *)

\* What readers find after a restart is what they found before it: nothing that
\* was deleted, evicted, replaced or has expired comes back, though sweeps are
\* not saved and the limits change, unless a save failed (smSaveLocked).
KeptAcrossRestarts == ~unsaved => \A n \in NS : Valid(mem[n]) = Valid(file[n])

\* sharedmemory.go:52 calls the revision monotone: a later entry of a name space
\* has a larger one.  It does not hold across a restart.
RevisionsGrow ==
  \A n \in NS : \A k, l \in DOMAIN mem[n] : mem[n][k].at < mem[n][l].at => mem[n][k].rev < mem[n][l].rev

=============================================================================

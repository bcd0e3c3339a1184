------------------------------- MODULE Coord -------------------------------
(***************************************************************************)
(* Leader election over the coordination store of skylink (coord.go): one  *)
(* key with a lease.  The store's operations are atomic; the primitives of *)
(* the election are built from two of them each.                           *)
(*                                                                         *)
(* A candidate that won leads until the time it knows of is over: the ttl  *)
(* of its campaign, or of its last renewal.                                *)
(***************************************************************************)
EXTENDS Integers, FiniteSets

CONSTANTS
  Candidate,   \* participants of one election
  Ttl          \* ticks of a lease

VARIABLES
  store,   \* the value of the key
  lease,   \* ticks until its lease is over; Forever without a lease
  doing,   \* what each candidate does
  term,    \* ticks for which a candidate takes itself for the leader
  clash    \* history: a write upon the key of another leader

vars == <<store, lease, doing, term, clash>>

None == "none"
Forever == -1

TtlAssumption == Ttl \in Nat \ {0} /\ None \notin Candidate

TypeOK ==
  /\ store \in Candidate \cup {None}
  /\ lease \in {Forever} \cup (0..Ttl)
  /\ doing \in [Candidate -> {"idle", "winning", "resigning"}]
  /\ term \in [Candidate -> 0..Ttl]
  /\ clash \in BOOLEAN

Above(m, n) == IF m >= n THEN m - n ELSE 0

-----------------------------------------------------------------------------
(* The store. *)

\* Get: a key whose lease is over counts as missing.
Found == store # None /\ lease # 0

\* A key that another candidate holds and relies on.
Held(c) == Found /\ store # c /\ term[store] > 0

\* PutWithLease.
Put(c) == store' = c /\ lease' = Ttl

\* Delete.
Erased == store' = None /\ lease' = Forever

FaultCompact ==
  /\ lease # Forever
  /\ Erased
  /\ UNCHANGED <<doing, term, clash>>

\* Compact removes what is over.
Compact ==
  /\ lease = 0
  /\ Erased
  /\ UNCHANGED <<doing, term, clash>>

-----------------------------------------------------------------------------
(* Campaign: a look, and a write when nothing was found. *)

Lose(c) ==
  /\ doing[c] = "idle" /\ Found
  /\ UNCHANGED vars

Look(c) ==
  /\ doing[c] = "idle" /\ ~Found
  /\ doing' = [doing EXCEPT ![c] = "winning"]
  /\ UNCHANGED <<store, lease, term, clash>>

Win(c) ==
  /\ doing[c] = "winning"
  /\ clash' = (clash \/ Held(c))
  /\ Put(c)
  /\ term' = [term EXCEPT ![c] = Ttl]
  /\ doing' = [doing EXCEPT ![c] = "idle"]

\* KeepAlive: any key that is in the store is renewed, for whoever asks.
Renew(c) ==
  /\ doing[c] = "idle" /\ term[c] > 0
  /\ store # None
  /\ clash' = (clash \/ Held(c))
  /\ lease' = Ttl
  /\ term' = [term EXCEPT ![c] = Ttl]
  /\ UNCHANGED <<store, doing>>

\* Resign: a look, and a deletion when the key was the candidate's.
StepDown(c) ==
  /\ doing[c] = "idle"
  /\ Found /\ store = c
  /\ doing' = [doing EXCEPT ![c] = "resigning"]
  /\ term' = [term EXCEPT ![c] = 0]
  /\ UNCHANGED <<store, lease, clash>>

Resign(c) ==
  /\ doing[c] = "resigning"
  /\ clash' = (clash \/ Held(c))
  /\ Erased
  /\ doing' = [doing EXCEPT ![c] = "idle"]
  /\ UNCHANGED term

-----------------------------------------------------------------------------
\* Time passes, for leases and for candidates alike.
Tick ==
  /\ lease' = IF lease = Forever THEN Forever ELSE Above(lease, 1)
  /\ term' = [c \in Candidate |-> Above(term[c], 1)]
  /\ UNCHANGED <<store, doing, clash>>

Init ==
  /\ store = None /\ lease = Forever
  /\ doing = [c \in Candidate |-> "idle"]
  /\ term = [c \in Candidate |-> 0]
  /\ clash = FALSE

Campaign(c) == Lose(c) \/ Look(c) \/ Win(c)

Next ==
  \/ \E c \in Candidate : Campaign(c) \/ Renew(c) \/ StepDown(c) \/ Resign(c)
  \/ Compact \/ Tick

Spec == Init /\ [][Next]_vars

-----------------------------------------------------------------------------
(* Properties. *)

\* There is one leader at a time, until a candidate has written upon the key of
\* another that relies on it: the look and the write of Campaign and of Resign
\* are two steps, and KeepAlive asks for no owner.
OneLeaderUnlessClash ==
  ~clash => \A c, d \in Candidate : term[c] > 0 /\ term[d] > 0 => c = d

\* coord.go:152 calls Campaign a compare-and-swap: one leader at a time.  It does
\* not hold.
OneLeader == \A c, d \in Candidate : term[c] > 0 /\ term[d] > 0 => c = d

=============================================================================

----------------------------- MODULE RateLimit -----------------------------
(***************************************************************************)
(* The rate limiter of the gateway (ratelimit.go): token buckets by        *)
(* address and class of endpoint, by user and class, and by address.  A    *)
(* request takes one token of each in turn, each in a critical section of  *)
(* its own, and keeps what it took when a later bucket refuses it.         *)
(*                                                                         *)
(* A bucket is refilled when it is used, at the quota of the request that  *)
(* uses it: quotas follow the configuration and the tenant of the user.    *)
(* Buckets that lie idle are removed, and one that is missing is full.     *)
(*                                                                         *)
(* A minute has Minute ticks.  Tokens are counted in parts of 1/Minute, so *)
(* that a quota q refills q parts a tick and a full bucket has q * Minute. *)
(***************************************************************************)
EXTENDS Integers, FiniteSets

CONSTANTS
  Addr,        \* client addresses
  User,        \* authenticated users
  Class,       \* limited classes of endpoint
  Quota,       \* the quotas per minute that may be in force
  MaxQuota,    \* the largest of them
  Handler,     \* goroutines that serve a request
  Minute,      \* ticks in a minute
  SweepAge,    \* ticks after which an idle bucket may go (30 minutes)
  Crowd        \* the number of buckets above which a refusal sweeps (4096)

QuotaAssumption ==
  /\ MaxQuota \in Nat \ {0}
  /\ Quota \subseteq 1..MaxQuota
TimeAssumption ==
  /\ Minute \in Nat \ {0}
  /\ SweepAge \in Nat /\ SweepAge >= Minute
  /\ Crowd \in Nat

VARIABLES
  bucket,    \* rlBuckets
  handler,   \* what each goroutine does
  meter      \* history: a leaky count of what each bucket gave, see RateBounded

vars == <<bucket, handler, meter>>

Anybody == "-"      \* the user of an unauthenticated request
Other == "other"    \* the class that has no quota
Whole == "*"

Key ==
       [dim : {"ip"}, id : Addr, cls : Class]
  \cup [dim : {"key"}, id : User, cls : Class]
  \cup [dim : {"iptotal"}, id : Addr, cls : {Whole}]

Absent == [tokens |-> 0, idle |-> -1]
Bucket == [tokens : 0..(MaxQuota * Minute), idle : 0..(SweepAge + 1)]

Idle == [at |-> "idle"]
Request == [at : {"ip", "key", "iptotal"}, addr : Addr, user : User \cup {Anybody},
            cls : Class \cup {Other}, quota : Quota, total : Quota]

TypeOK ==
  /\ bucket \in [Key -> Bucket \cup {Absent}]
  /\ handler \in [Handler -> Request \cup {Idle}]
  /\ meter \in [Key -> Nat]

-----------------------------------------------------------------------------
Least(m, n) == IF m <= n THEN m ELSE n
Above(m, n) == IF m >= n THEN m - n ELSE 0

\* What a bucket has for a request of quota q.
Level(b, q) ==
  IF b = Absent THEN q * Minute
  ELSE Least(b.tokens + b.idle * q, q * Minute)

Live == {k \in Key : bucket[k] # Absent}

FaultStale(b) == b # Absent

\* Idle for longer than the cut-off of the sweeps.
Stale(b) == b # Absent /\ b.idle > SweepAge

Swept(buckets) == [k \in Key |-> IF Stale(buckets[k]) THEN Absent ELSE buckets[k]]

\* takeToken: a bucket without a token is refilled all the same, and a crowd of
\* buckets is swept.
Grants(k, q) == Level(bucket[k], q) >= Minute

Taken(k, q) == [bucket EXCEPT ![k] = [tokens |-> Level(bucket[k], q) - Minute, idle |-> 0]]

Refused(k, q) ==
  LET used == [bucket EXCEPT ![k] = [tokens |-> Level(bucket[k], q), idle |-> 0]]
      crowded == Cardinality({j \in Key : used[j] # Absent}) > Crowd
  IN  IF crowded THEN Swept(used) ELSE used

Take(k, q) ==
  IF Grants(k, q)
  THEN /\ bucket' = Taken(k, q)
       /\ meter' = [meter EXCEPT ![k] = @ + Minute]
  ELSE /\ bucket' = Refused(k, q)
       /\ UNCHANGED meter

-----------------------------------------------------------------------------
(* A request.  The quota is that of the class, lowered to the tenant's. *)

First(c) == IF c = Other THEN "iptotal" ELSE "ip"

Arrive(h, a, u, c, q, t) ==
  /\ handler[h] = Idle
  /\ handler' = [handler EXCEPT ![h] =
       [at |-> First(c), addr |-> a, user |-> u, cls |-> c, quota |-> q, total |-> t]]
  /\ UNCHANGED <<bucket, meter>>

\* Where a granted request goes on; anonymous ones have no bucket of a user.
Later(r) ==
  CASE r.at = "ip" /\ r.user # Anybody -> [r EXCEPT !.at = "key"]
    [] r.at = "ip" /\ r.user = Anybody -> [r EXCEPT !.at = "iptotal"]
    [] r.at = "key" -> [r EXCEPT !.at = "iptotal"]
    [] r.at = "iptotal" -> Idle

KeyOf(r) ==
  CASE r.at = "ip" -> [dim |-> "ip", id |-> r.addr, cls |-> r.cls]
    [] r.at = "key" -> [dim |-> "key", id |-> r.user, cls |-> r.cls]
    [] r.at = "iptotal" -> [dim |-> "iptotal", id |-> r.addr, cls |-> Whole]

QuotaOf(r) == IF r.at = "iptotal" THEN r.total ELSE r.quota

\* One dimension of allowRateLimited; a refusal ends the request with 429.
Ask(h) ==
  LET r == handler[h] IN
  /\ r # Idle
  /\ Take(KeyOf(r), QuotaOf(r))
  /\ handler' = [handler EXCEPT ![h] =
       IF Grants(KeyOf(r), QuotaOf(r)) THEN Later(r) ELSE Idle]

-----------------------------------------------------------------------------
\* The sweep of every five minutes.
Sweep ==
  /\ \E k \in Key : Stale(bucket[k])
  /\ bucket' = Swept(bucket)
  /\ UNCHANGED <<handler, meter>>

\* Time passes; the age of a bucket is told apart up to the cut-off.
Tick ==
  /\ bucket' = [k \in Key |->
       IF bucket[k] = Absent THEN Absent
       ELSE [bucket[k] EXCEPT !.idle = Least(@ + 1, SweepAge + 1)]]
  /\ meter' = [k \in Key |-> Above(meter[k], MaxQuota)]
  /\ UNCHANGED handler

Init ==
  /\ bucket = [k \in Key |-> Absent]
  /\ handler = [h \in Handler |-> Idle]
  /\ meter = [k \in Key |-> 0]

Serve(h) ==
  \/ \E a \in Addr, u \in User \cup {Anybody}, c \in Class \cup {Other}, q, t \in Quota :
       Arrive(h, a, u, c, q, t)
  \/ Ask(h)

Next == (\E h \in Handler : Serve(h)) \/ Sweep \/ Tick

Spec == Init /\ [][Next]_vars

-----------------------------------------------------------------------------
(* Properties. *)

\* No bucket gives more than a full one at once and the largest quota a minute
\* after that (takeToken, "容量 = 速率"), whichever quotas the requests bring,
\* and whenever idle buckets are swept: a sweep may only remove a bucket that is
\* full again.  The meter counts Minute for a token given and leaks MaxQuota a
\* tick.
RateBounded == \A k \in Key : meter[k] <= MaxQuota * Minute

=============================================================================

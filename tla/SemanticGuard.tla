--------------------------- MODULE SemanticGuard ---------------------------
(***************************************************************************)
(* The semantic guard of chat requests (semanticguard.go): fixed rules     *)
(* refuse or pass a text, and what they leave open, the gray texts, is put *)
(* to a local engine.  Answers are cached under the fingerprint of the     *)
(* text for a time, the calls of one address are metered, and whatever     *)
(* goes wrong with the engine refuses the text.                            *)
(*                                                                         *)
(* The cache is looked up, the meter charged, the engine asked and the     *)
(* answer cached one after the other, without a lock across them: several  *)
(* requests may ask about one text and get different answers.              *)
(*                                                                         *)
(* A text stands for its fingerprint.                                      *)
(***************************************************************************)
EXTENDS Integers, FiniteSets

CONSTANTS
  Text,       \* texts of requests
  Denied,     \* those that a fixed rule refuses
  Greeting,   \* those that a fixed rule passes
  Addr,       \* addresses whose gray calls are metered
  Local,      \* the machine itself, which is not
  Handler,    \* goroutines that serve a request
  MaxItems,   \* entries of the cache
  Life,       \* ticks for which an answer is good (CacheTTLMin)
  PerMin,     \* gray calls of an address in a minute
  Minute      \* ticks in a minute

TextAssumption ==
  /\ Denied \subseteq Text /\ Greeting \subseteq Text
  /\ Denied \cap Greeting = {}
  /\ Local \notin Addr
BoundAssumption ==
  /\ MaxItems \in Nat \ {0} /\ Life \in Nat \ {0}
  /\ PerMin \in Nat \ {0} /\ Minute \in Nat \ {0}

VARIABLES
  on,        \* the guard is switched on
  reach,     \* an engine is configured
  cache,     \* sgCache
  meter,     \* sgGrayIP: tokens in parts of 1/Minute
  handler,   \* what each goroutine does
  out,       \* history: the decision of the last step, if it made one
  fresh      \* history: ticks for which an allowing answer about a text is good

vars == <<on, reach, cache, meter, handler, out, fresh>>

Gray == Text \ (Denied \cup Greeting)
Verdict == {"allow", "gray", "block"}
Reason == {"static", "off", "cache", "engine", "fail-close"}

Absent == [verdict |-> "none", left |-> 0]
Silent == [verdict |-> "none"]
Entry == [verdict : {"allow", "block"}, left : 0..Life]
Idle == [at |-> "idle"]
Asking == [at : {"meter", "engine"}, text : Text, addr : Addr \cup {Local}, reach : BOOLEAN]

TypeOK ==
  /\ on \in BOOLEAN /\ reach \in BOOLEAN
  /\ cache \in [Gray -> Entry \cup {Absent}]
  /\ Cardinality({t \in Gray : cache[t] # Absent}) <= MaxItems
  /\ meter \in [Addr -> 0..(PerMin * Minute)]
  /\ handler \in [Handler -> Asking \cup {Idle}]
  /\ out \in [text : Text, verdict : Verdict, why : Reason] \cup {Silent}
  /\ fresh \in [Text -> 0..Life]

-----------------------------------------------------------------------------
(* sgClassify up to the cache. *)

Goto(h, do) == handler' = [handler EXCEPT ![h] = do]

Decide(h, t, v, why) ==
  /\ out' = [text |-> t, verdict |-> v, why |-> why]
  /\ Goto(h, Idle)

\* sgStaticCheck
Static(t) ==
  IF t \in Denied THEN "block" ELSE IF t \in Greeting THEN "allow" ELSE "gray"

FaultLive(t) == cache[t] # Absent

Live(t) == cache[t] # Absent /\ cache[t].left > 0

\* Switched off, only the refusing rules stay.
Off(h, t) ==
  /\ ~on
  /\ IF Static(t) = "block" THEN Decide(h, t, "block", "static")
     ELSE Decide(h, t, "allow", "off")

Fixed(h, t) ==
  /\ on
  /\ Static(t) # "gray"
  /\ Decide(h, t, Static(t), "static")

Cached(h, t) ==
  /\ on
  /\ Static(t) = "gray" /\ Live(t)
  /\ Decide(h, t, cache[t].verdict, "cache")

Miss(h, t, a) ==
  /\ on
  /\ Static(t) = "gray" /\ ~Live(t)
  /\ Goto(h, [at |-> "meter", text |-> t, addr |-> a, reach |-> reach])
  /\ out' = Silent

Classify(h, t, a) ==
  /\ handler[h] = Idle
  /\ Off(h, t) \/ Fixed(h, t) \/ Cached(h, t) \/ Miss(h, t, a)
  /\ UNCHANGED <<on, reach, cache, meter, fresh>>

-----------------------------------------------------------------------------
(* The meter and the engine. *)

Refuse(h) == Decide(h, handler[h].text, "block", "fail-close")

\* sgTakeGrayQuota, and the check that an engine is configured.  A bucket that
\* was removed after ten idle minutes was full.
Metered(h) ==
  LET a == handler[h].addr
      open == a = Local \/ meter[a] >= Minute
  IN
  /\ handler[h].at = "meter"
  /\ meter' = IF a # Local /\ open THEN [meter EXCEPT ![a] = @ - Minute] ELSE meter
  /\ IF open /\ handler[h].reach
     THEN Goto(h, [handler[h] EXCEPT !.at = "engine"]) /\ out' = Silent
     ELSE Refuse(h)
  /\ UNCHANGED <<on, reach, cache, fresh>>

\* sgMerge: the engine decides about a gray text and never loosens a block.
Merge(static, ai) == IF static = "block" THEN "block" ELSE ai

Oldest(c) == {t \in Gray : c[t] # Absent
                /\ \A s \in Gray : c[s] # Absent => c[t].left <= c[s].left}

FaultRoom(c) ==
  IF Cardinality({t \in Gray : c[t] # Absent}) > MaxItems
  THEN {[c EXCEPT ![t] = Absent] : t \in Oldest(c)}
  ELSE {c}

\* sgCachePut: a full cache loses its oldest entry first, even to a text that
\* has one; an undecided answer is not kept.
Room(c) ==
  IF Cardinality({t \in Gray : c[t] # Absent}) >= MaxItems
  THEN {[c EXCEPT ![t] = Absent] : t \in Oldest(c)}
  ELSE {c}

Put(t, v) ==
  IF v = "gray" THEN UNCHANGED cache
  ELSE \E c \in Room(cache) : cache' = [c EXCEPT ![t] = [verdict |-> v, left |-> Life]]

Answer(h, ai) ==
  LET t == handler[h].text
      final == Merge(Static(t), ai)
  IN
  /\ handler[h].at = "engine"
  /\ Put(t, final)
  /\ Decide(h, t, final, "engine")
  /\ fresh' = IF ai = "allow" THEN [fresh EXCEPT ![t] = Life] ELSE fresh
  /\ UNCHANGED <<on, reach, meter>>

\* No answer, or one that cannot be read.
Fail(h) ==
  /\ handler[h].at = "engine"
  /\ Refuse(h)
  /\ UNCHANGED <<on, reach, cache, meter, fresh>>

-----------------------------------------------------------------------------
Switch ==
  /\ on' = ~on
  /\ out' = Silent
  /\ UNCHANGED <<reach, cache, meter, handler, fresh>>

Configure ==
  /\ reach' = ~reach
  /\ out' = Silent
  /\ UNCHANGED <<on, cache, meter, handler, fresh>>

Least(m, n) == IF m <= n THEN m ELSE n
Less(n) == IF n = 0 THEN 0 ELSE n - 1

Tick ==
  /\ cache' = [t \in Gray |->
       IF cache[t] = Absent THEN Absent ELSE [cache[t] EXCEPT !.left = Less(@)]]
  /\ fresh' = [t \in Text |-> Less(fresh[t])]
  /\ meter' = [a \in Addr |-> Least(meter[a] + PerMin, PerMin * Minute)]
  /\ out' = Silent
  /\ UNCHANGED <<on, reach, handler>>

Init ==
  /\ on \in BOOLEAN /\ reach = TRUE
  /\ cache = [t \in Gray |-> Absent]
  /\ meter = [a \in Addr |-> PerMin * Minute]
  /\ handler = [h \in Handler |-> Idle]
  /\ out = Silent
  /\ fresh = [t \in Text |-> 0]

Serve(h) ==
  \/ \E t \in Text, a \in Addr \cup {Local} : Classify(h, t, a)
  \/ Metered(h)
  \/ \E ai \in Verdict : Answer(h, ai)
  \/ Fail(h)

Next == (\E h \in Handler : Serve(h)) \/ Switch \/ Configure \/ Tick

Spec == Init /\ [][Next]_vars

-----------------------------------------------------------------------------
(* Properties. *)

\* Fail-close and one-way merge (semanticguard.go:9-12): a text that a rule
\* refuses is never let through, and a gray one that is let through while the
\* guard is on has been allowed by the engine, no longer ago than an answer is
\* good for, whatever other requests, evictions, failures and switches came
\* between.
NeverLoosened ==
  out # Silent /\ out.verdict = "allow" =>
    /\ out.text \notin Denied
    /\ out.text \in Gray /\ out.why # "off" => fresh[out.text] > 0

=============================================================================

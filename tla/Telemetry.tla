----------------------------- MODULE Telemetry -----------------------------
(***************************************************************************)
(* What the gateway remembers about its requests (observability.go,        *)
(* tokenmeter.go): the traces under way and the last ones that ended, the  *)
(* metrics that a scrape reads one after the other, and the meter of       *)
(* tokens by day and by model.                                             *)
(*                                                                         *)
(* A request of /metrics is itself a request: it prints the metrics and is *)
(* counted when it is done.  A gauge is computed, noted in its metric and  *)
(* printed in three steps, each under a lock of its own, and what was      *)
(* noted is never taken out again.                                         *)
(*                                                                         *)
(* Of the metrics there are a counter, a histogram of two buckets and the  *)
(* gauge of what a tenant used today; of the labels and values only what   *)
(* the steps tell apart.                                                   *)
(***************************************************************************)
EXTENDS Naturals, Sequences, FiniteSets, SequencesExt, FiniteSetsExt

CONSTANTS
  Handler,    \* goroutines that serve a request
  Model,      \* models that calls are metered for
  SpanCap,    \* obsSpanCap
  TraceCap,   \* obsTraceRingCap
  MeterCap,   \* meterRingSize
  Days,       \* days that the meter keeps
  MaxTotal,   \* bound on the requests
  MaxUse,     \* bound on what the tenant uses a day
  MaxCalls,   \* bound on the calls that are metered
  LastDay     \* bound on the days

TelemetryAssumption ==
  /\ {SpanCap, TraceCap, MeterCap, Days} \subseteq Nat \ {0}
  /\ {MaxTotal, MaxUse, MaxCalls, LastDay} \subseteq Nat

VARIABLES
  handler,    \* what each goroutine does
  traces,     \* obsTraceTotal, obsActive, obsRing
  metric,     \* the counter, the histogram and the noted gauge
  used,       \* what the tenant used today, None if nothing
  meter,      \* meterRing, meterStats, meterByModel, and history: calls of days let go
  day

vars == <<handler, traces, metric, used, meter, day>>

None == MaxUse + 1
Use == 0..None

Idle == [at |-> "idle"]
Stage == {"serve", "gauge", "note", "print", "count", "observe", "finish"}

\* scrape: it is one of /metrics; got: what the gauge was computed to be;
\* seen: history, what the tenant had used at some time since it was computed; alone:
\* history, no other scrape ran meanwhile; shown: what was printed.
Doing ==
  [at : Stage, id : 0..MaxTotal, scrape : BOOLEAN, spans : 0..SpanCap,
   got : Use, seen : SUBSET Use, alone : BOOLEAN, shown : Use]

Trace == [id : 1..MaxTotal, spans : 0..SpanCap]
Entry == [model : Model, day : 1..LastDay]

TypeOK ==
  /\ \A h \in Handler : handler[h] = Idle \/ handler[h] \in Doing
  /\ traces.total \in 0..MaxTotal /\ traces.active \subseteq 1..MaxTotal
  /\ traces.ring \in BoundedSeq(Trace, TraceCap)
  /\ metric.requests \in 0..MaxTotal /\ metric.buckets \in [1..2 -> 0..MaxTotal]
  /\ metric.observed \in 0..MaxTotal /\ metric.gauge \in Use
  /\ used \in Use /\ day \in 1..LastDay
  /\ meter.ring \in BoundedSeq(Entry, MeterCap)
  /\ DOMAIN meter.days \subseteq 1..LastDay /\ DOMAIN meter.models \subseteq Model

At(h, stage) == handler[h].at = stage
Set(h, do) == handler' = [handler EXCEPT ![h] = do]
Goto(h, stage) == Set(h, [handler[h] EXCEPT !.at = stage])

Busy == {h \in Handler : handler[h] # Idle}
Scraping == {h \in Handler : handler[h].at \in {"gauge", "note", "print"}}

-----------------------------------------------------------------------------
(* A request: obsMiddleware. *)

\* The requests of /metrics and /health leave no trace.
Begin(h, path) ==
  /\ handler[h] = Idle /\ metric.requests + Cardinality(Busy) < MaxTotal
  /\ LET id == IF path = "other" THEN traces.total + 1 ELSE 0
     IN /\ traces' = IF path = "other"
                     THEN [traces EXCEPT !.total = id, !.active = @ \cup {id}] ELSE traces
        /\ Set(h, [at |-> IF path = "metrics" THEN "gauge" ELSE "serve", id |-> id,
                   scrape |-> path = "metrics", spans |-> 0, got |-> None,
                   seen |-> {}, alone |-> TRUE, shown |-> None])
  /\ UNCHANGED <<metric, used, meter, day>>

\* obsStageByTrace: a span, while the trace is active and there is room.
Span(h) ==
  /\ At(h, "serve") /\ handler[h].id \in traces.active /\ handler[h].spans < SpanCap
  /\ Set(h, [handler[h] EXCEPT !.spans = @ + 1])
  /\ UNCHANGED <<traces, metric, used, meter, day>>

\* The handler returns, or the middleware below has recovered from its panic.
Served(h) ==
  /\ At(h, "serve") /\ Goto(h, "count")
  /\ UNCHANGED <<traces, metric, used, meter, day>>

Count(h) ==
  /\ At(h, "count")
  /\ metric' = [metric EXCEPT !.requests = @ + 1]
  /\ Set(h, [handler[h] EXCEPT !.at = "observe", !.got = None, !.seen = {}, !.shown = None])
  /\ UNCHANGED <<traces, used, meter, day>>

\* Every bucket whose bound is not below the value: the last one, or both.
Observe(h) ==
  /\ At(h, "observe")
  /\ \E least \in 1..2 :
       metric' = [metric EXCEPT
         !.buckets = [b \in 1..2 |-> IF b < least THEN @[b] ELSE @[b] + 1],
         !.observed = @ + 1]
  /\ IF handler[h].id = 0 THEN Set(h, Idle) ELSE Goto(h, "finish")
  /\ UNCHANGED <<traces, used, meter, day>>

FaultFinish(h) ==
  /\ At(h, "finish")
  /\ traces' = [traces EXCEPT !.ring =
       LET t == <<[id |-> handler[h].id, spans |-> handler[h].spans]>> \o @
       IN SubSeq(t, 1, Min({Len(t), TraceCap}))]
  /\ Set(h, Idle)
  /\ UNCHANGED <<metric, used, meter, day>>

Finish(h) ==
  /\ At(h, "finish")
  /\ LET t == <<[id |-> handler[h].id, spans |-> handler[h].spans]>> \o traces.ring
     IN traces' = [traces EXCEPT
          !.active = @ \ {handler[h].id},
          !.ring = SubSeq(t, 1, Min({Len(t), TraceCap}))]
  /\ Set(h, Idle)
  /\ UNCHANGED <<metric, used, meter, day>>

-----------------------------------------------------------------------------
(* A scrape: handleMetrics. *)

Overlapped(h) ==
  [g \in Handler |-> IF g # h /\ g \in Scraping THEN [handler[g] EXCEPT !.alone = FALSE]
                     ELSE handler[g]]

\* The tenants of today only.
Gauge(h) ==
  /\ At(h, "gauge")
  /\ handler' = [Overlapped(h) EXCEPT ![h] =
       [handler[h] EXCEPT !.at = "note", !.got = used, !.seen = {used},
                          !.alone = Scraping = {h}]]
  /\ UNCHANGED <<traces, metric, used, meter, day>>

\* One who has used nothing today is not among them: what was noted of him stays.
Note(h) ==
  /\ At(h, "note")
  /\ metric' = [metric EXCEPT !.gauge = IF handler[h].got = None THEN @ ELSE handler[h].got]
  /\ Goto(h, "print")
  /\ UNCHANGED <<traces, used, meter, day>>

Tell(h) ==
  /\ At(h, "print")
  /\ Set(h, [handler[h] EXCEPT !.at = "count", !.shown = metric.gauge])
  /\ UNCHANGED <<traces, metric, used, meter, day>>

-----------------------------------------------------------------------------
(* The meter. *)

Bump(f, k) == [x \in DOMAIN f \cup {k} |-> IF x \in DOMAIN f THEN f[x] + (IF x = k THEN 1 ELSE 0) ELSE 1]
Sum(f) == MapThenSumSet(LAMBDA x : f[x], DOMAIN f)

\* The last days that are kept.
FaultKept(days) == {d \in days : Cardinality({e \in days : e <= d}) <= Days}
Kept(days) == {d \in days : Cardinality({e \in days : e > d}) < Days}

\* meterRecord, by the handler of a call; the quota is charged likewise.
Record(h, m) ==
  /\ At(h, "serve") /\ Len(meter.ring) + meter.gone < MaxCalls
  /\ LET days == Bump(meter.days, day)
         entry == [model |-> m, day |-> day]
     IN meter' = [meter EXCEPT
          !.ring = IF Len(@) >= MeterCap THEN Append(Tail(@), entry) ELSE Append(@, entry),
          !.gone = IF Len(meter.ring) >= MeterCap THEN @ + 1 ELSE @,
          !.days = [d \in Kept(DOMAIN days) |-> days[d]],
          !.dropped = @ + Sum([d \in DOMAIN days \ Kept(DOMAIN days) |-> days[d]]),
          !.models = Bump(@, m)]
  /\ used' = IF used = None THEN 1 ELSE Min({used + 1, MaxUse})
  /\ handler' = [g \in Handler |->
       IF g \in Scraping THEN [handler[g] EXCEPT !.seen = @ \cup {used'}] ELSE handler[g]]
  /\ UNCHANGED <<traces, metric, day>>

NoMeter == [ring |-> <<>>, days |-> <<>>, models |-> <<>>, gone |-> 0, dropped |-> 0]

\* handleV34Meter, POST.
Reset(h) ==
  /\ At(h, "serve") /\ meter' = NoMeter
  /\ UNCHANGED <<handler, traces, metric, used, day>>

Midnight ==
  /\ day < LastDay /\ day' = day + 1 /\ used' = None
  /\ handler' = [g \in Handler |->
       IF g \in Scraping THEN [handler[g] EXCEPT !.seen = @ \cup {None}] ELSE handler[g]]
  /\ UNCHANGED <<traces, metric, meter>>

-----------------------------------------------------------------------------
Init ==
  /\ handler = [h \in Handler |-> Idle]
  /\ traces = [total |-> 0, active |-> {}, ring |-> <<>>]
  /\ metric = [requests |-> 0, buckets |-> <<0, 0>>, observed |-> 0, gauge |-> None]
  /\ used = None /\ meter = NoMeter /\ day = 1

Handle(h) ==
  \/ \E path \in {"other", "health", "metrics"} : Begin(h, path)
  \/ Span(h) \/ Served(h) \/ Count(h) \/ Observe(h) \/ Finish(h)
  \/ Gauge(h) \/ Note(h) \/ Tell(h)
  \/ \E m \in Model : Record(h, m)
  \/ Reset(h)

Next == Midnight \/ \E h \in Handler : Handle(h)

Spec == Init /\ [][Next]_vars

-----------------------------------------------------------------------------
\* A trace is active while its request runs, and the last that ended are kept, each once.
TracesCounted ==
  LET ended == traces.total - Cardinality(traces.active)
  IN /\ traces.active = {handler[h].id : h \in Busy} \ {0}
     /\ Len(traces.ring) = Min({ended, TraceCap})
     /\ Cardinality({traces.ring[i].id : i \in DOMAIN traces.ring}) = Len(traces.ring)
     /\ \A i \in DOMAIN traces.ring : traces.ring[i].id \notin traces.active

\* The sums by model and by day are those of the same calls, but for the days that were
\* let go; no day that is kept is older than one of these, and what the ring still has
\* is among them.
MeterAgrees ==
  /\ Sum(meter.models) = Sum(meter.days) + meter.dropped
  /\ Sum(meter.models) = Len(meter.ring) + meter.gone
  /\ \A m \in Model : Cardinality({i \in DOMAIN meter.ring : meter.ring[i].model = m})
       <= IF m \in DOMAIN meter.models THEN meter.models[m] ELSE 0
  /\ meter.ring # <<>> => Last(meter.ring).day \in DOMAIN meter.days

\* A scrape prints what the tenant has used today, if he has used anything and no
\* other scrape ran meanwhile.
GaugeFresh ==
  \A h \in Busy : At(h, "count") /\ handler[h].scrape /\ handler[h].alone
    /\ handler[h].got # None => handler[h].shown \in handler[h].seen

\* The histogram is one of as many requests as were counted, but for those between
\* the two.
HistogramAgrees ==
  /\ metric.buckets[1] <= metric.buckets[2] /\ metric.buckets[2] = metric.observed
  /\ metric.requests = metric.observed + Cardinality({h \in Busy : At(h, "observe")})

BooksAgree == TracesCounted /\ MeterAgrees /\ GaugeFresh /\ HistogramAgrees

=============================================================================

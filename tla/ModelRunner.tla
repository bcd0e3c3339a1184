---------------------------- MODULE ModelRunner ----------------------------
(***************************************************************************)
(* The models of the gateway (models.go): its own engine, the files that   *)
(* the engine loads, and what other runtimes of the machine offer.         *)
(*                                                                         *)
(* Engine: one llama-server process at a time, started by whoever needs a  *)
(* local model and stopped by an administrator.  The flags are written     *)
(* under mu, but the checks and the start of the process run between two   *)
(* critical sections, and a goroutine per process waits for its end and    *)
(* then clears the flags.  Processes are slots: one that has ended and     *)
(* been waited for is free again.  A process may end by itself at any      *)
(* time; a second engine does, when it finds the port taken.               *)
(*                                                                         *)
(* Files: a download is a goroutine that creates the file of the last part *)
(* of its address and writes the blocks of the body into it as they come.  *)
(* Nothing keeps two downloads from one file: each writes at its own       *)
(* offset, and creating the file empties it under the other.               *)
(*                                                                         *)
(* Runtimes: a round asks each of them in turn, and then replaces what the *)
(* last round found.  Rounds are started by a worker and by the demo.  The *)
(* list has the runtimes that answer, then whatever the registry names of  *)
(* a local provider, and from the last round what is not there yet.  A     *)
(* runtime stands for a model that it offers, or would offer.              *)
(***************************************************************************)
EXTENDS Naturals, Sequences, FiniteSets, Functions

CONSTANTS
  Model,    \* names of models, each of one file
  Loader,   \* goroutines that call startLocalModel
  Proc,     \* slots for processes
  Source,   \* addresses of downloads
  FileOf,   \* the model that the file of an address is
  Size,     \* the blocks of its body
  Unsized,  \* the addresses whose answers do not tell the length
  Name,     \* names that downloads are listed under
  Slot,     \* goroutines of downloads
  MaxSize,  \* maxModelDownloadBytes
  Runtimes, \* the other runtimes, in the order in which they are asked
  Probed,   \* those that getModels asks as well
  Known,    \* those whose model the registry of providers names
  Finder    \* goroutines of refreshDiscoveredModels

ModelAssumption ==
  /\ FileOf \in [Source -> Model] /\ Size \in [Source -> Nat] /\ Unsized \subseteq Source
  /\ MaxSize \in Nat
  /\ Runtimes \in Seq(Range(Runtimes)) /\ IsInjective(Runtimes)
  /\ Probed \subseteq Range(Runtimes) /\ Known \subseteq Range(Runtimes)
  /\ "none" \notin Proc \cup Slot \cup Source

VARIABLES
  engine,    \* modelRunning, starting, currentModel, modelProcess
  proc,      \* the processes: their life, and whether a goroutine waits for them
  loader,    \* what each caller does
  early,     \* history: processes published while an older one was not waited for yet
  file,      \* the files of modelDir: their blocks, by the address they came from;
             \* history: the download that created it and alone has written since, and
             \* the address of such a download that was done
  down,      \* the downloads
  shown,     \* dlState
  found      \* the runtimes that offer a model, discoveredModels and the rounds;
             \* history: those that changed since they were asked

vars == <<engine, proc, loader, early, file, down, shown, found>>

None == "none"

Free == [life |-> "none", waited |-> FALSE]
Idle == [at |-> "idle"]
Checking(m) == [at |-> "checking", model |-> m]
Started(m, p) == [at |-> "started", model |-> m, proc |-> p]

NoFile == [there |-> FALSE, data |-> <<>>, by |-> None, claim |-> None]
Rest == [at |-> "idle"]
Getting(at, n, s, got) == [at |-> at, name |-> n, source |-> s, got |-> got]

Runtime == Range(Runtimes)
NoRound == [asked |-> 0, got |-> {}, off |-> {}, on |-> FALSE]

TypeOK ==
  /\ engine \in [running : BOOLEAN, starting : BOOLEAN, current : Model \cup {None},
                 process : Proc \cup {None}]
  /\ proc \in [Proc -> [life : {"alive", "ended"}, waited : BOOLEAN] \cup {Free}]
  /\ loader \in [Loader ->
       {Idle} \cup {Checking(m) : m \in Model} \cup {Started(m, p) : m \in Model, p \in Proc}]
  /\ early \subseteq Proc
  /\ DOMAIN file = Model
  /\ \A m \in Model :
       /\ file[m].there \in BOOLEAN
       /\ file[m].data \in Seq(Source \cup {None})
       /\ file[m].by \in Slot \cup {None} /\ file[m].claim \in Source \cup {None}
  /\ down \in [Slot -> {Rest} \cup
       [at : {"asked", "writing"}, name : Name, source : Source, got : 0..MaxSize]]
  /\ shown \in [Name -> [is : {"none", "going", "done", "failed"}, of : Slot \cup {None}]]
  /\ found.live \subseteq Runtime /\ found.cache \subseteq Runtime /\ found.off \subseteq Runtime
  /\ found.round \in [Finder ->
       [asked : 0..Len(Runtimes), got : SUBSET Runtime, off : SUBSET Runtime, on : BOOLEAN]]

-----------------------------------------------------------------------------
(* startLocalModel. *)

FaultMayLoad == ~engine.running

\* A running engine is taken as it is, whatever it runs; a second start at the
\* same time is refused.
MayLoad == ~engine.running /\ ~engine.starting

Begin(l, m) ==
  /\ loader[l] = Idle
  /\ MayLoad
  /\ engine' = [engine EXCEPT !.starting = TRUE]
  /\ loader' = [loader EXCEPT ![l] = Checking(m)]
  /\ UNCHANGED <<proc, early, file, down, shown, found>>

\* No such model, no file, no engine, or the process does not start.
Fail(l) ==
  /\ loader[l].at = "checking"
  /\ engine' = [engine EXCEPT !.starting = FALSE]
  /\ loader' = [loader EXCEPT ![l] = Idle]
  /\ UNCHANGED <<proc, early, file, down, shown, found>>

\* A file is enough, whatever is in it.
Spawn(l, p) ==
  /\ loader[l].at = "checking"
  /\ file[loader[l].model].there
  /\ proc[p] = Free
  /\ proc' = [proc EXCEPT ![p] = [life |-> "alive", waited |-> FALSE]]
  /\ loader' = [loader EXCEPT ![l] = Started(loader[l].model, p)]
  /\ UNCHANGED <<engine, early, file, down, shown, found>>

\* The second critical section; the goroutine that waits follows it.
Publish(l) ==
  /\ loader[l].at = "started"
  /\ engine' = [running |-> TRUE, starting |-> FALSE,
                current |-> loader[l].model, process |-> loader[l].proc]
  /\ proc' = [proc EXCEPT ![loader[l].proc].waited = TRUE]
  /\ early' = IF \E p \in Proc : proc[p].waited THEN early \cup {loader[l].proc} ELSE early
  /\ loader' = [loader EXCEPT ![l] = Idle]
  /\ UNCHANGED <<file, down, shown, found>>

-----------------------------------------------------------------------------
Cleared ==
  engine' = [engine EXCEPT !.running = FALSE, !.current = None, !.process = None]

\* stopLocalModel; a start in progress is not stopped.
Stop ==
  /\ engine.process # None \/ engine.running
  /\ proc' = [p \in Proc |->
       IF p = engine.process THEN [proc[p] EXCEPT !.life = "ended"] ELSE proc[p]]
  /\ Cleared
  /\ UNCHANGED <<loader, early, file, down, shown, found>>

\* The engine ends by itself.
End(p) ==
  /\ proc[p].life = "alive"
  /\ proc' = [proc EXCEPT ![p].life = "ended"]
  /\ UNCHANGED <<engine, loader, early, file, down, shown, found>>

\* cmd.Wait returns: the flags are cleared, whichever process they are about.
Wait(p) ==
  /\ proc[p] = [life |-> "ended", waited |-> TRUE]
  /\ proc' = [proc EXCEPT ![p] = Free]
  /\ early' = early \ {p}
  /\ Cleared
  /\ UNCHANGED <<loader, file, down, shown, found>>

-----------------------------------------------------------------------------
(* downloadModel. *)

\* The status is replaced by that of the new download; the goroutine of the old
\* one keeps a pointer to its own, which nobody reads any more.
BeginDownload(d, n, s) ==
  /\ down[d] = Rest
  /\ down' = [down EXCEPT ![d] = Getting("asked", n, s, 0)]
  /\ shown' = [shown EXCEPT ![n] = [is |-> "going", of |-> d]]
  /\ UNCHANGED <<engine, proc, loader, early, file, found>>

FaultTold(d, is) ==
  [n \in Name |->
     IF shown[n].of = d /\ down[d].at = "writing" THEN [is |-> is, of |-> None] ELSE shown[n]]

\* What the list shows when download d has ended.
Told(d, is) ==
  [n \in Name |-> IF shown[n].of = d THEN [is |-> is, of |-> None] ELSE shown[n]]

\* The file is left as it is, with what was written so far.
FailDownload(d) ==
  /\ down[d] # Rest
  /\ down' = [down EXCEPT ![d] = Rest]
  /\ shown' = Told(d, "failed")
  /\ file' = [m \in Model |-> IF file[m].by = d THEN [file[m] EXCEPT !.by = None] ELSE file[m]]
  /\ UNCHANGED <<engine, proc, loader, early, found>>

FaultEmptied(data) == data

\* os.Create
Emptied(data) == <<>>

Create(d) ==
  /\ down[d].at = "asked"
  /\ down' = [down EXCEPT ![d].at = "writing"]
  /\ LET m == FileOf[down[d].source]
     IN file' = [file EXCEPT ![m] = [there |-> TRUE, data |-> Emptied(@.data),
                                     by |-> d, claim |-> None]]
  /\ UNCHANGED <<engine, proc, loader, early, shown, found>>

\* The blocks of data after block i is written; a gap reads as zeros.
Written(data, i, s) ==
  [j \in 1..(IF i > Len(data) THEN i ELSE Len(data)) |->
     IF j = i THEN s ELSE IF j <= Len(data) THEN data[j] ELSE None]

\* The block that exceeds the limit is written before the download is given up.
WriteBlock(d) ==
  /\ down[d].at = "writing"
  /\ LET s == down[d].source
         m == FileOf[s]
         i == down[d].got + 1
         over == i > MaxSize
     IN /\ i <= Size[s]
        /\ file' = [file EXCEPT
             ![m].data = Written(@, i, s),
             ![m].by = IF @ = d /\ ~over THEN d ELSE None,
             ![m].claim = None]
        /\ down' = [down EXCEPT ![d] = IF over THEN Rest ELSE [@ EXCEPT !.got = i]]
        /\ shown' = IF over THEN Told(d, "failed") ELSE shown
  /\ UNCHANGED <<engine, proc, loader, early, found>>

\* The body ends: where it should, or at any block if the length was not told.
EndOfBody(d) ==
  /\ down[d].at = "writing"
  /\ down[d].got = Size[down[d].source] \/ down[d].source \in Unsized
  /\ down' = [down EXCEPT ![d] = Rest]
  /\ shown' = Told(d, "done")
  /\ file' = [m \in Model |->
       IF file[m].by = d THEN [file[m] EXCEPT !.by = None, !.claim = down[d].source] ELSE file[m]]
  /\ UNCHANGED <<engine, proc, loader, early, found>>

-----------------------------------------------------------------------------
(* refreshDiscoveredModels and getModels. *)

\* A runtime comes up with a model, or goes away.
Change(r) ==
  /\ found' = [found EXCEPT
       !.live = IF r \in found.live THEN found.live \ {r} ELSE found.live \cup {r},
       !.off = found.off \cup {r},
       !.round = [f \in Finder |->
         LET round == found.round[f]
         IN IF r \in {Runtimes[i] : i \in 1..round.asked} THEN [round EXCEPT !.off = @ \cup {r}]
            ELSE round]]
  /\ UNCHANGED <<engine, proc, loader, early, file, down, shown>>

BeginRound(f) ==
  /\ ~found.round[f].on
  /\ found' = [found EXCEPT !.round[f].on = TRUE]
  /\ UNCHANGED <<engine, proc, loader, early, file, down, shown>>

\* A runtime that does not answer in time, or not twice, is as good as none.
AskRuntime(f, answers) ==
  LET round == found.round[f]
      r == Runtimes[round.asked + 1]
  IN /\ round.on /\ round.asked < Len(Runtimes)
     /\ found' = [found EXCEPT !.round[f] = [round EXCEPT
          !.asked = @ + 1,
          !.got = IF answers /\ r \in found.live THEN @ \cup {r} ELSE @,
          !.off = IF answers THEN @ ELSE @ \cup {r}]]
     /\ UNCHANGED <<engine, proc, loader, early, file, down, shown>>

FaultCached(f) == found.cache \cup found.round[f].got

\* What was found before is forgotten.
Cached(f) == found.round[f].got

EndRound(f) ==
  /\ found.round[f].on /\ found.round[f].asked = Len(Runtimes)
  /\ found' = [found EXCEPT !.cache = Cached(f), !.off = found.round[f].off,
                            !.round[f] = NoRound]
  /\ UNCHANGED <<engine, proc, loader, early, file, down, shown>>

\* A Go map gives its entries in any order.
Listed(S) == CHOOSE s \in [1..Cardinality(S) -> S] : IsInjective(s)

\* The cache repeats nothing that is in the list.
FaultAdded(list) == Listed(found.cache)

Added(list) == Listed(found.cache \ Range(list))

\* The runtimes of S, in turn.
InTurn(S) ==
  LET list[i \in 0..Len(Runtimes)] ==
        IF i = 0 THEN <<>>
        ELSE IF Runtimes[i] \in S THEN Append(list[i - 1], Runtimes[i]) ELSE list[i - 1]
  IN list[Len(Runtimes)]

Entry(r, status) == [model |-> r, status |-> status]
Entries(list, status) == [i \in 1..Len(list) |-> Entry(list[i], status)]

\* getModels, of runtimes.  The registry is appended as it is: nobody looks whether the
\* model is listed already, or the runtime is there, or even enabled.
Listing ==
  LET asked == InTurn(Probed \cap found.live)
      named == InTurn(Known)
  IN (Entries(asked, "online") \o Entries(named, "discovered"))
       \o Entries(Added(asked \o named), "online")

-----------------------------------------------------------------------------
Init ==
  /\ engine = [running |-> FALSE, starting |-> FALSE, current |-> None, process |-> None]
  /\ proc = [p \in Proc |-> Free]
  /\ loader = [l \in Loader |-> Idle]
  /\ early = {}
  /\ file \in [Model -> {NoFile, [NoFile EXCEPT !.there = TRUE]}]
  /\ down = [d \in Slot |-> Rest]
  /\ shown = [n \in Name |-> [is |-> "none", of |-> None]]
  /\ found = [live |-> {}, cache |-> {}, off |-> Runtime, round |-> [f \in Finder |-> NoRound]]

Load(l) ==
  \/ \E m \in Model : Begin(l, m)
  \/ Fail(l)
  \/ \E p \in Proc : Spawn(l, p)
  \/ Publish(l)

Download(d) ==
  \/ \E n \in Name, s \in Source : BeginDownload(d, n, s)
  \/ FailDownload(d)
  \/ Create(d)
  \/ WriteBlock(d)
  \/ EndOfBody(d)

Discover(f) ==
  \/ BeginRound(f)
  \/ \E answers \in BOOLEAN : AskRuntime(f, answers)
  \/ EndRound(f)

Next ==
  \/ \E l \in Loader : Load(l)
  \/ Stop
  \/ \E p \in Proc : End(p) \/ Wait(p)
  \/ \E d \in Slot : Download(d)
  \/ \E r \in Runtime : Change(r)
  \/ \E f \in Finder : Discover(f)

Spec == Init /\ [][Next]_vars

-----------------------------------------------------------------------------
(* Properties. *)

\* The engine that runs is the one that can be stopped: a process that lives is
\* modelProcess, except one that was started after a stop and before the old
\* process was waited for (its flags are cleared by the old goroutine, see
\* Orphaned), and there is at most one start at a time.
Owned ==
  /\ \A p \in Proc :
       proc[p].waited /\ proc[p].life = "alive" => engine.process = p \/ p \in early
  /\ Cardinality({l \in Loader : loader[l] # Idle}) <= 1

\* models.go:237-241 clears the flags when "the local model has stopped": that a
\* live engine is always the one the flags name.  It does not hold: a stop and a
\* new start may come before the old goroutine's turn.
Orphaned ==
  \E p \in Proc : proc[p].waited /\ proc[p].life = "alive" /\ engine.process # p

\* A file is all of one body, and nothing else, once the download that created it
\* last is done, unless another download has written into it since, or the answer
\* did not tell how long it is.
DoneIsWhole ==
  \A m \in Model :
    LET s == file[m].claim
    IN s \notin Unsized \cup {None} => file[m].data = [i \in 1..Size[s] |-> s]

\* No download seems to go on after its goroutine has ended.
GoingIsGoing ==
  \A n \in Name :
    shown[n].is = "going" => \E d \in Slot : down[d] # Rest /\ down[d].name = n

\* The list has a model once as one that is online, and once at most by the registry.  Of
\* a runtime that has not changed since the round was there, and that has answered it, the
\* model is listed if it is there or if the registry names it, and as online only if it is
\* there.
ListTrue ==
  /\ IsInjective(Listing)
  /\ \A r \in Runtime \ found.off :
       /\ (\E e \in Range(Listing) : e.model = r) <=> r \in found.live \cup Known
       /\ Entry(r, "online") \in Range(Listing) => r \in found.live

\* Engines, files and lists are what they are said to be.
ModelsKept == Owned /\ DoneIsWhole /\ GoingIsGoing /\ ListTrue

=============================================================================

----------------------------- MODULE AuditChain -----------------------------
(***************************************************************************)
(* The hash chain of auditv2.go: auditV2Write appends one JSON line per    *)
(* event to the file of the day, each line carrying the hash of the one    *)
(* before it, and auditV2Verify recomputes the chain of a file.  The chain *)
(* head lives in memory; it is read back from the last line of the file    *)
(* when the file is first opened and after a restart (auditV2SeedFor).     *)
(*                                                                         *)
(* One process writes, and auditV2Mu is held for the whole of a write, so  *)
(* what can come between its steps is midnight, a crash, a write that      *)
(* fails half-way, a file that cannot be read, and somebody editing it.    *)
(* A hash is modelled by the sequence number it covers and a number drawn  *)
(* once per write.                                                         *)
(***************************************************************************)
EXTENDS Integers, Sequences, SequencesExt

CONSTANTS
  LastDay,    \* the days of a behaviour are 1 .. LastDay (bound of a run)
  MaxWrites,  \* the number of writes begun (bound of a run)
  Numbers     \* the numbers an edited line may have

ASSUME BoundsAssumption ==
  LastDay \in Nat \ {0} /\ MaxWrites \in Nat /\ Numbers \subseteq Nat

VARIABLES
  today,    \* time.Now(), as a day
  file,     \* the lines of audit-<day>.jsonl
  cut,      \* the days whose file ends without a newline
  mem,      \* auditV2Day, auditV2Seq, auditV2PrevHash; day 0: no file is open
  busy,     \* a write holds auditV2Mu and has its file open
  writes,   \* the number of writes begun
  acked,    \* history: the writes of each day that returned with no error
  hurt      \* history: the first thing that went wrong with a day's file

vars == <<today, file, cut, mem, busy, writes, acked, hurt>>

Day == 1 .. LastDay
Hash == Nat \X Int
Genesis == <<0, 0>>
CorruptTail == <<0, -1>>    \* the hash of "corrupted-tail:" and the line
NoHash == <<0, -2>>         \* the empty string
Rehash(n) == <<n, -3>>      \* what an editor makes of a line numbered n: the hash has no key

\* form: an entry whose hash is that of its content, one whose hash is not, or a line that is
\* not JSON.
Line == [seq : Nat, prev : Hash, hash : Hash, form : {"sound", "altered", "junk"}]
Junk == [seq |-> 0, prev |-> Genesis, hash |-> Genesis, form |-> "junk"]

NoHarm == [what |-> "none", at |-> 0]
Harm == [what : {"none", "torn", "unread", "edited", "end"}, at : Nat]

TypeOK ==
  /\ today \in Day
  /\ file \in [Day -> Seq(Line)]
  /\ cut \subseteq Day
  /\ mem \in [day : {0} \cup Day, seq : Nat, prev : Hash]
  /\ busy \in BOOLEAN
  /\ busy => mem.day # 0
  /\ writes \in 0 .. MaxWrites
  /\ acked \in [Day -> Nat]
  /\ hurt \in [Day -> Harm]

Closed == [day |-> 0, seq |-> 0, prev |-> Genesis]

Init ==
  /\ today = 1
  /\ file = [d \in Day |-> <<>>]
  /\ cut = {}
  /\ mem = Closed
  /\ busy = FALSE
  /\ writes = 0
  /\ acked = [d \in Day |-> 0]
  /\ hurt = [d \in Day |-> NoHarm]

-----------------------------------------------------------------------------
(* auditV2Write. *)

Start(d, seq, prev) == [day |-> d, seq |-> seq, prev |-> prev]

\* auditV2SeedFor: the chain head a file leaves off at.
Seed(d) ==
  IF file[d] = <<>> THEN Start(d, 0, Genesis)
  ELSE LET last == Last(file[d]) IN
       IF last.form = "junk" \/ last.hash = NoHash THEN Start(d, 0, CorruptTail)
       ELSE Start(d, last.seq, last.hash)

\* The next entry of the chain in memory.
Entry == [seq |-> mem.seq + 1, prev |-> mem.prev,
          hash |-> <<mem.seq + 1, writes>>, form |-> "sound"]

Worsen(d, what, at) ==
  IF hurt[d] = NoHarm THEN [hurt EXCEPT ![d] = [what |-> what, at |-> at]] ELSE hurt

\* A file that cannot be read is taken for one that is not there, and a new chain is begun at
\* its end.
Seeds ==
  \/ mem' = Seed(today) /\ UNCHANGED hurt
  \/ /\ file[today] # <<>>
     /\ mem' = Start(today, 0, Genesis)
     /\ hurt' = Worsen(today, "unread", Len(file[today]) + 1)

\* A write takes the lock and rolls the file over if the day has changed.
Begin ==
  /\ ~busy
  /\ writes < MaxWrites
  /\ IF mem.day = today THEN UNCHANGED <<mem, hurt>> ELSE Seeds
  /\ busy' = TRUE
  /\ writes' = writes + 1
  /\ UNCHANGED <<today, file, cut, acked>>

\* The new file cannot be opened: the write is dropped, the next one retries.
OpenFails ==
  /\ ~busy
  /\ mem.day # today
  /\ mem' \in {[Seed(today) EXCEPT !.day = 0], Closed}
  /\ UNCHANGED <<today, file, cut, busy, writes, acked, hurt>>

\* Bytes at the end of a file that ends in mid-line make that line longer, and
\* two entries on one line, or pieces of them, are not JSON.
Extended(d, line) ==
  IF d \in cut THEN [file EXCEPT ![d] = Append(Front(@), Junk)]
  ELSE [file EXCEPT ![d] = Append(@, line)]

FaultKeepHead == UNCHANGED mem
Advance == mem' = [mem EXCEPT !.seq = @ + 1, !.prev = Entry.hash]

\* The line reaches the file with its newline and the head moves on.
Commit ==
  LET d == mem.day IN
  /\ busy
  /\ file' = Extended(d, Entry)
  /\ cut' = cut \ {d}
  /\ Advance
  /\ acked' = [acked EXCEPT ![d] = @ + 1]
  /\ busy' = FALSE
  /\ UNCHANGED <<today, writes, hurt>>

\* Only a part of the line reaches the file, or all of it but the newline.
Torn(line) ==
  /\ file' = Extended(mem.day, line)
  /\ cut' = cut \cup {mem.day}
  /\ hurt' = Worsen(mem.day, "torn", Len(file[mem.day]) + 1)

\* The write returns an error and leaves the head as it was.
WriteFails ==
  /\ busy
  /\ \/ UNCHANGED <<file, cut, hurt>>
     \/ Torn(Junk)
     \/ Torn(Entry)
  /\ busy' = FALSE
  /\ UNCHANGED <<today, mem, writes, acked>>

\* The process dies, in the middle of a write or not, and starts again.
Crash ==
  /\ \/ UNCHANGED <<file, cut, hurt>>
     \/ busy /\ Torn(Junk)
     \/ busy /\ Torn(Entry)
     \/ /\ busy
        /\ file' = Extended(mem.day, Entry)
        /\ cut' = cut \ {mem.day}
        /\ UNCHANGED hurt
  /\ mem' = Closed
  /\ busy' = FALSE
  /\ UNCHANGED <<today, writes, acked>>

-----------------------------------------------------------------------------
(* What happens around it. *)

NextDay ==
  /\ today < LastDay
  /\ today' = today + 1
  /\ UNCHANGED <<file, cut, mem, busy, writes, acked, hurt>>

\* The lines that may come to stand where the line before has hash `prev`: the hash fits and
\* is believed, or it does not fit, or the line names something else before it.  A prevHash of
\* fewer than 8 characters is NoHash too.
Believed(prev) ==
  {[seq |-> n, prev |-> prev, hash |-> Rehash(n), form |-> "sound"] : n \in Numbers}
Doubtful(prev) ==
  {[seq |-> n, prev |-> names[1], hash |-> names[2], form |-> "altered"] :
     n \in Numbers, names \in {<<prev, Rehash(0)>>, <<NoHash, NoHash>>}}

\* The first line of the edited file that does not fit, if there is any.
Edited(d, at) ==
  hurt' = Worsen(d, IF at \in DOMAIN file'[d] THEN "edited" ELSE "end", at)

\* The hash a line must name as the one before it.
Before(d, i) == IF i = 1 THEN Genesis ELSE file[d][i - 1].hash

\* Somebody changes a line, or puts one in; a line is changed for another that reads as an
\* entry, with any number, and with its hash as it was, gone, or computed anew.
Alter(d, i) ==
  /\ hurt[d] = NoHarm
  /\ i \in DOMAIN file[d]
  /\ \/ \E line \in Believed(Before(d, i)) :
          file' = [file EXCEPT ![d][i] = line] /\ Edited(d, i + 1)
     \/ \E line \in Doubtful(Before(d, i)) \cup {[file[d][i] EXCEPT !.form = "altered"]} :
          file' = [file EXCEPT ![d][i] = line] /\ Edited(d, i)
  /\ UNCHANGED <<today, cut, mem, busy, writes, acked>>

Insert(d, i) ==
  /\ hurt[d] = NoHarm
  /\ i \in 1 .. Len(file[d]) + 1
  /\ \/ \E line \in Believed(Before(d, i)) :
          file' = [file EXCEPT ![d] = InsertAt(@, i, line)] /\ Edited(d, i + 1)
     \/ \E line \in Doubtful(Before(d, i)) :
          file' = [file EXCEPT ![d] = InsertAt(@, i, line)] /\ Edited(d, i)
  /\ UNCHANGED <<today, cut, mem, busy, writes, acked>>

\* ... or removes a line.
Excise(d, i) ==
  /\ hurt[d] = NoHarm
  /\ i \in DOMAIN file[d]
  /\ file' = [file EXCEPT ![d] = RemoveAt(@, i)]
  /\ Edited(d, i)
  /\ UNCHANGED <<today, cut, mem, busy, writes, acked>>

Next ==
  \/ Begin \/ OpenFails \/ Commit \/ WriteFails \/ Crash
  \/ NextDay
  \/ \E d \in Day, i \in 1 .. MaxWrites + 1 : Alter(d, i) \/ Insert(d, i) \/ Excise(d, i)

Spec == Init /\ [][Next]_vars

-----------------------------------------------------------------------------
(* auditV2Verify. *)

FaultLinked(d, i) == file[d][i].form = "sound"
Linked(d, i) == file[d][i].prev = Before(d, i) /\ file[d][i].form = "sound"

\* The lines the scan stops at; the one before the first of them is the last
\* it counts.
Stops(d) == {i \in DOMAIN file[d] : ~Linked(d, i)}
FirstStop(d) == CHOOSE i \in Stops(d) : \A j \in Stops(d) : i <= j
Checked(d) == IF Stops(d) = {} THEN Len(file[d]) ELSE FirstStop(d) - 1

\* The last sequence number seen, and that of the line the scan stopped at: a
\* line that is not JSON has none.
Total(d) == IF Checked(d) = 0 THEN 0 ELSE file[d][Checked(d)].seq
Broken(d) == IF Stops(d) = {} THEN 0 ELSE file[d][FirstStop(d)].seq

\* A line that names nothing, or too little, before it makes the report panic, and there is
\* no verdict.
Panics(d) ==
  /\ Stops(d) # {}
  /\ file[d][FirstStop(d)].form # "junk"
  /\ file[d][FirstStop(d)].prev = NoHash

\* handleAuditVerify's verdict.
Intact(d) == ~Panics(d) /\ Broken(d) = 0 /\ Total(d) > 0

-----------------------------------------------------------------------------
(* Properties. *)

\* A file nothing has harmed verifies, with every line counted and every
\* acknowledged write among them, across midnights, crashes between writes,
\* writes that failed before a byte was out, and restarts that read the head
\* back from the file ("restart continues the chain", auditv2.go:10).
UnharmedIntact ==
  \A d \in Day : hurt[d] = NoHarm =>
    /\ Stops(d) = {}
    /\ Total(d) = Len(file[d])
    /\ acked[d] <= Total(d)

\* After a line of a file was changed, put in or removed (auditv2.go:8), no line is counted
\* any more from the first on that does not fit: the line itself, or the one after it if the
\* line was given the hash of its new content.  The verdict is then not "intact", unless that
\* line says it has number 0 (auditv2.go:291).  Nothing is said of an edit behind which no
\* line is left that does not fit ("end"), nor of several edits.
TamperLocated ==
  \A d \in Day : hurt[d].what = "edited" =>
    LET line == file[d][hurt[d].at] IN
    /\ Checked(d) = hurt[d].at - 1
    /\ Broken(d) = line.seq
    /\ Intact(d) => line.seq = 0

\* The comment on a corrupt tail (auditv2.go:113): the chain goes on from the
\* hash of the corrupt line and the verifier reports it.
CorruptTailReported ==
  \A d \in Day : (\E i \in DOMAIN file[d] : file[d][i].form = "junk") => ~Intact(d)

=============================================================================

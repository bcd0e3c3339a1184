------------------------------- MODULE Update -------------------------------
(***************************************************************************)
(* Installing versions (pkg/update, pkg/install, pkg/data): a version is   *)
(* downloaded beside its place, renamed into it, and a pointer is switched *)
(* to its directory; a history of what was installed leads back.           *)
(*                                                                         *)
(* Nothing is locked: two requests may install at once, and both write the *)
(* same temporary file.  A file that is open keeps its content under every *)
(* name, so a download that goes on after the rename writes the installed  *)
(* binary.  A file is whole when its last writer has finished.             *)
(***************************************************************************)
EXTENDS Integers, Sequences

CONSTANTS
  Version,      \* versions that are offered, numbered in their order
  Old,          \* the version that runs first, installed by hand
  Job,          \* requests and command lines that install or roll back
  MaxHistory    \* bound: entries of the history

VersionAssumption == Version \subseteq Nat /\ Old \in Nat \ Version
JobAssumption == {"nobody", "nofile", "nodir"} \cap Job = {}

VARIABLES
  running,   \* the version of the process
  dir,       \* per version: the binary in its directory
  tmp,       \* per version: the temporary file beside it
  pointer,   \* the link "current"
  history,   \* state/install_history.json; Torn when it cannot be parsed
  job,       \* what each request does
  overlap    \* history: two jobs were at work at the same time

vars == <<running, dir, tmp, pointer, history, job, overlap>>
files == <<dir, tmp>>

None == -1            \* no link
Torn == <<None>>

\* A file: who wrote it last, if that job is still at work, and whether it is
\* whole.
Absent == [by |-> "nofile", whole |-> FALSE]
NoDir == [by |-> "nodir", whole |-> FALSE]
File == [by : Job \cup {"nobody"}, whole : BOOLEAN] \cup {Absent}

Idle == [at |-> "idle"]
Apply(v) == [at |-> "download", version |-> v, action |-> "install", old |-> <<>>]
Working ==
  [at : {"download", "write", "downloaded", "staged", "unlinked", "switched", "read"},
   version : Version, action : {"install", "rollback"}, old : Seq(Version)]

TypeOK ==
  /\ running \in Version \cup {Old}
  /\ dir \in [Version -> File \cup {NoDir}]
  /\ tmp \in [Version -> File]
  /\ pointer \in Version \cup {None}
  /\ history = Torn \/ history \in Seq(Version)
  /\ job \in [Job -> {Idle} \cup Working]
  /\ overlap \in BOOLEAN

-----------------------------------------------------------------------------
(* Apply. *)

Goto(j, w) == [job EXCEPT ![j].at = w]

\* Another job is at work.
Busy(j) == \E i \in Job \ {j} : job[i] # Idle

\* Check: a newer version than the one that runs; its directory is made.
Begin(j, v) ==
  /\ job[j] = Idle
  /\ v > running
  /\ dir' = [dir EXCEPT ![v] = IF @ = NoDir THEN Absent ELSE @]
  /\ job' = [job EXCEPT ![j] = Apply(v)]
  /\ overlap' = (overlap \/ Busy(j))
  /\ UNCHANGED <<running, tmp, pointer, history>>

\* os.Create truncates the file that is there, or makes one.
Open(j) ==
  /\ job[j].at = "download"
  /\ tmp' = [tmp EXCEPT ![job[j].version] = [by |-> j, whole |-> FALSE]]
  /\ job' = Goto(j, "write")
  /\ UNCHANGED <<running, dir, pointer, history, overlap>>

Finished(file, j) == IF file.by = j THEN [file EXCEPT !.whole = TRUE] ELSE file

\* The copy is complete, wherever the file is by now.
Copied(j) ==
  LET v == job[j].version IN
  /\ job[j].at = "write"
  /\ tmp' = [tmp EXCEPT ![v] = Finished(@, j)]
  /\ dir' = [dir EXCEPT ![v] = Finished(@, j)]
  /\ job' = Goto(j, "downloaded")
  /\ UNCHANGED <<running, pointer, history, overlap>>

Left(file, jobs) == IF file.by \in jobs THEN [file EXCEPT !.by = "nobody"] ELSE file

\* The download fails; what was written stays.
Broken(j) ==
  LET v == job[j].version IN
  /\ job[j].at \in {"download", "write"}
  /\ tmp' = [tmp EXCEPT ![v] = Left(@, {j})]
  /\ dir' = [dir EXCEPT ![v] = Left(@, {j})]
  /\ job' = [job EXCEPT ![j] = Idle]
  /\ UNCHANGED <<running, pointer, history, overlap>>

\* os.Remove(tmpBin), at every way out after the download.
Removed(j) == tmp' = [tmp EXCEPT ![job[j].version] = Absent]

\* verifySHA256 looks for the name of the temporary file, which no list of sums
\* has: a release with sums is refused.  So is one whose file is gone.
Refused(j) ==
  /\ job[j].at = "downloaded"
  /\ Removed(j)
  /\ job' = [job EXCEPT ![j] = Idle]
  /\ UNCHANGED <<running, dir, pointer, history, overlap>>

FaultStage(j) ==
  LET v == job[j].version IN
  /\ job[j].at \in {"write", "downloaded"}
  /\ tmp[v] # Absent
  /\ dir' = [dir EXCEPT ![v] = tmp[v]]
  /\ tmp' = [tmp EXCEPT ![v] = Absent]
  /\ job' = Goto(j, "staged")
  /\ UNCHANGED <<running, pointer, history, overlap>>

\* Moved into place; the configuration is backed up.
Stage(j) ==
  LET v == job[j].version IN
  /\ job[j].at = "downloaded"
  /\ tmp[v] # Absent
  /\ dir' = [dir EXCEPT ![v] = tmp[v]]
  /\ tmp' = [tmp EXCEPT ![v] = Absent]
  /\ job' = Goto(j, "staged")
  /\ UNCHANGED <<running, pointer, history, overlap>>

-----------------------------------------------------------------------------
(* SetCurrent and the history. *)

\* No directory is ever removed.
Unlink(j) ==
  /\ job[j].at = "staged"
  /\ pointer' = None
  /\ job' = Goto(j, "unlinked")
  /\ UNCHANGED <<running, files, history, overlap>>

Link(j) ==
  /\ job[j].at = "unlinked"
  /\ pointer = None
  /\ pointer' = job[j].version
  /\ job' = Goto(j, "switched")
  /\ UNCHANGED <<running, files, history, overlap>>

\* A link that somebody else made in between makes it fail.
Unlinkable(j) ==
  /\ job[j].at = "unlinked"
  /\ pointer # None
  /\ IF job[j].action = "install" THEN Removed(j) ELSE UNCHANGED tmp
  /\ job' = [job EXCEPT ![j] = Idle]
  /\ UNCHANGED <<running, dir, pointer, history, overlap>>

\* AppendInstallHistory reads the file, a torn one as an empty one, ...
Read(j) ==
  /\ job[j].at = "switched"
  /\ job' = [job EXCEPT ![j].at = "read",
                        ![j].old = IF history = Torn THEN <<>> ELSE history]
  /\ UNCHANGED <<running, files, pointer, history, overlap>>

\* ... and writes it back with one entry more.
Record(j) ==
  /\ job[j].at = "read"
  /\ Len(job[j].old) < MaxHistory
  /\ history' = Append(job[j].old, job[j].version)
  /\ IF job[j].action = "install" THEN Removed(j) ELSE UNCHANGED tmp
  /\ job' = [job EXCEPT ![j] = Idle]
  /\ UNCHANGED <<running, dir, pointer, overlap>>

\* Rollback: to the entry before the last.  With fewer than two, or a torn file,
\* it looks for a copy of the program that nothing makes.
Rollback(j) ==
  /\ job[j] = Idle
  /\ history # Torn /\ Len(history) >= 2
  /\ job' = [job EXCEPT ![j] = [at |-> "staged", version |-> history[Len(history) - 1],
                                action |-> "rollback", old |-> <<>>]]
  /\ overlap' = (overlap \/ Busy(j))
  /\ UNCHANGED <<running, files, pointer, history>>

-----------------------------------------------------------------------------
(* The process. *)

Stopped ==
  /\ job' = [j \in Job |-> Idle]
  /\ tmp' = [v \in Version |-> Left(tmp[v], Job)]
  /\ dir' = [v \in Version |-> Left(dir[v], Job)]

\* Restart starts the binary that runs, not the one the pointer names, and a
\* crash may come at any step; a write of the history may be cut off.
Crash ==
  /\ Stopped
  /\ \/ UNCHANGED history
     \/ /\ \E j \in Job : job[j].at = "read"
        /\ history' = Torn
  /\ UNCHANGED <<running, pointer, overlap>>

\* Somebody starts the program by the pointer.
Start ==
  /\ pointer # None
  /\ Stopped
  /\ running' = pointer
  /\ UNCHANGED <<pointer, history, overlap>>

Init ==
  /\ running = Old
  /\ dir = [v \in Version |-> NoDir]
  /\ tmp = [v \in Version |-> Absent]
  /\ pointer = None
  /\ history = <<>>
  /\ job = [j \in Job |-> Idle]
  /\ overlap = FALSE

Install(j) ==
  \/ \E v \in Version : Begin(j, v)
  \/ Open(j) \/ Copied(j) \/ Broken(j) \/ Refused(j) \/ Stage(j)

Switch(j) == Unlink(j) \/ Link(j) \/ Unlinkable(j) \/ Read(j) \/ Record(j)

Next ==
  \/ \E j \in Job : Install(j) \/ Switch(j) \/ Rollback(j)
  \/ Crash \/ Start

Spec == Init /\ [][Next]_vars

-----------------------------------------------------------------------------
(* Properties. *)

\* The pointer, the version that runs, and every version the history can lead
\* back to have a whole binary, whatever downloads failed and wherever the
\* program crashed, unless two jobs were at work at once.
CurrentIsWhole ==
  ~overlap =>
    LET good(v) == v \in Version => dir[v].whole
    IN  /\ pointer # None => good(pointer)
        /\ good(running)
        /\ history # Torn => \A i \in 1..Len(history) : good(history[i])

\* update_cli.go:71 reports that the new version is running after a restart: the
\* program that starts is the one the pointer names.  Restart starts the binary
\* of the process instead.
RestartsIntoCurrent == [][Crash => running' = pointer \/ pointer = None]_vars

=============================================================================

----------------------------- MODULE Knowledge -----------------------------
(***************************************************************************)
(* Where the gateway keeps what it knows: the knowledge base, sealed by    *)
(* level (knowledgebase.go), the index of documents (pkg/kb), the shared   *)
(* information with its file (sharedinfo.go), and the named packs of       *)
(* context (contextmcp.go).                                                *)
(*                                                                         *)
(* An entry of the knowledge base is put in three steps: it is labelled    *)
(* with the key that will seal it, sealed and written, and entered; the    *)
(* user's key may change in between.  The files lie in a directory for     *)
(* each category, and a start reads the directory above them.              *)
(*                                                                         *)
(* Contents are told apart by their terms, keys by a number.               *)
(***************************************************************************)
EXTENDS Naturals, Sequences, FiniteSets, FiniteSetsExt, TLC

CONSTANTS
  Worker,    \* goroutines that serve a request
  Item,      \* entries that callers put: their level and their category
  Seed,      \* the entries of an empty knowledge base
  UserKey,   \* keys that the user may set
  Doc,       \* names of documents
  Text,      \* their contents: for every chunk the set of its terms
  Who,       \* identities: tenant, and whether the role is global
  Name,      \* names of packs
  MaxInfo,   \* siMaxRecords
  MaxPacks,  \* ctxPackMaxCount
  MaxMade    \* bound on the records and entries ever made

Level == 0..3
Top == ""     \* no category: the directory itself
Open == ""    \* the label of an entry that is not sealed
Misc == "misc"
Identity == [tenant : STRING, global : BOOLEAN]

KnowledgeAssumption ==
  /\ Item \cup Seed \subseteq [level : Level, category : STRING]
  /\ Text \subseteq Seq(SUBSET STRING) /\ Who \subseteq Identity
  /\ UserKey \subseteq Nat \ {0}
  /\ {MaxInfo, MaxPacks, MaxMade} \subseteq Nat

VARIABLES
  entries,   \* the knowledge base in memory, and how many were ever made
  disk,      \* its files
  userKey,   \* ukh, 0 for none
  worker,    \* what each goroutine does
  index,     \* the documents, their chunks and the inverted index
  info,      \* the shared information, its counter and its file
  packs      \* ctxPacks, in memory only

vars == <<entries, disk, userKey, worker, index, info, packs>>

Idle == [at |-> "idle"]
Labels == {Open, "system", "user", "dual"}
\* What a file is sealed with: nothing, the system's key, the user's, or both.
Seals == {<<Open>>, <<"system">>} \cup {<<s, k>> : s \in {"user", "dual"}, k \in UserKey}

Put == [at : {"save", "enter"}, item : Item \cup Seed, id : 1..MaxMade, label : Labels,
        saw : {0} \cup UserKey]
\* raced: the user's key was taken away while the entry was put.
File == [id : 1..MaxMade, item : Item \cup Seed, label : Labels, seal : Seals, raced : BOOLEAN]
Record == [id : 1..MaxMade, rev : 1..MaxMade, tenant : STRING, everyone : BOOLEAN]
Delete == [at : {"delete"}, record : Record]

Terms == UNION {UNION {t[i] : i \in DOMAIN t} : t \in Text}

TypeOK ==
  /\ entries.made \in 0..MaxMade /\ DOMAIN entries.table \subseteq 1..MaxMade
  /\ disk \subseteq File /\ userKey \in {0} \cup UserKey
  /\ \A w \in Worker : worker[w] = Idle \/ worker[w] \in Put \/ worker[w] \in Delete
  /\ index.docs \subseteq Doc /\ index.df \in [Terms -> Nat] /\ index.total \in Nat
  /\ index.posted \subseteq Terms \X (Doc \X Nat)
  /\ info.table \subseteq Record /\ info.file \subseteq Record /\ info.rev \in 0..MaxMade
  /\ DOMAIN packs \subseteq Name

Set(w, do) == worker' = [worker EXCEPT ![w] = do]

-----------------------------------------------------------------------------
(* The knowledge base. *)

\* The way an entry is to be sealed (Put).
Label(item) ==
  CASE item.level = 0 -> Open [] item.level = 1 -> "system"
    [] item.level = 2 -> (IF userKey # 0 THEN "user" ELSE "system") [] OTHER -> "dual"

FaultKeyFor(item, label) ==
  CASE item.level = 0 -> {<<Open>>} [] item.level = 1 -> {<<"system">>}
    [] item.level = 2 -> {IF userKey # 0 THEN <<"user", userKey>> ELSE <<"system">>}
    [] OTHER -> {<<"dual", k>> : k \in {userKey} \ {0}}

\* resolveKey: at most one.  A sensitive entry falls back to the system's key.
KeyFor(item, label) ==
  CASE item.level = 0 -> {<<Open>>} [] item.level = 1 -> {<<"system">>}
    [] item.level = 2 -> {IF label = "user" /\ userKey # 0
                          THEN <<"user", userKey>> ELSE <<"system">>}
    [] OTHER -> {<<"dual", k>> : k \in {userKey} \ {0}}

Begin(w, item) ==
  /\ worker[w] = Idle /\ entries.made < MaxMade
  /\ entries' = [entries EXCEPT !.made = @ + 1]
  /\ Set(w, [at |-> "save", item |-> item, id |-> entries.made + 1, label |-> Label(item),
             saw |-> userKey])
  /\ UNCHANGED <<disk, userKey, index, info, packs>>

\* saveEntry: nothing is entered without a key, or when its file cannot be written.
Save(w) ==
  /\ worker[w].at = "save"
  /\ LET p == worker[w]
     IN \/ Set(w, Idle) /\ UNCHANGED disk
        \/ \E key \in KeyFor(p.item, p.label) :
             /\ disk' = disk \cup {[id |-> p.id, item |-> p.item, label |-> p.label,
                                    seal |-> key, raced |-> p.saw # 0 /\ userKey = 0]}
             /\ Set(w, [p EXCEPT !.at = "enter"])
  /\ UNCHANGED <<entries, userKey, index, info, packs>>

Enter(w) ==
  /\ worker[w].at = "enter"
  /\ entries' = [entries EXCEPT !.table =
       [id \in DOMAIN @ \cup {worker[w].id} |->
          IF id = worker[w].id THEN worker[w].item ELSE @[id]]]
  /\ Set(w, Idle)
  /\ UNCHANGED <<disk, userKey, index, info, packs>>

\* The path is looked for when the entry is gone, and is then that of "misc".
DeleteEntry(w, id) ==
  /\ worker[w] = Idle
  /\ entries' = [entries EXCEPT !.table = [i \in DOMAIN @ \ {id} |-> @[i]]]
  /\ disk' = {f \in disk : ~(f.id = id /\ f.item.category = Misc)}
  /\ UNCHANGED <<userKey, worker, index, info, packs>>

SetUserKey(w, key) ==
  /\ worker[w] = Idle /\ userKey' = key
  /\ UNCHANGED <<entries, disk, worker, index, info, packs>>

-----------------------------------------------------------------------------
(* The index of documents. *)

Posted(doc, text) ==
  UNION {{<<t, <<doc, i>>>> : t \in text[i]} : i \in DOMAIN text}
Chunks(doc, text) == [i \in DOMAIN text |-> <<doc, i>>]

\* A document that is there already is not taken out first: its chunks are added
\* once more.
Ingest(doc, text) ==
  /\ Len(index.chunks) + Len(text) <= MaxMade /\ \A t \in Terms : index.df[t] < MaxMade
  /\ index' = [index EXCEPT
       !.again = @ \/ doc \in index.docs, !.docs = @ \cup {doc},
       !.chunks = @ \o Chunks(doc, text), !.posted = @ \cup Posted(doc, text),
       !.df = [t \in Terms |-> @[t] + Cardinality({i \in DOMAIN text : t \in text[i]})],
       !.total = @ + Len(text)]
  /\ UNCHANGED <<entries, disk, userKey, worker, info, packs>>

FaultLess(t, chunks) == Cardinality({c \in Range(chunks) : <<t, c>> \in index.posted}) - 1

\* How often a term occurs less when the chunks are removed, each in its turn.
Less(t, chunks) == Cardinality({c \in Range(chunks) : <<t, c>> \in index.posted})

DeleteDoc(doc) ==
  LET its == SelectSeq(index.chunks, LAMBDA c : c[1] = doc)
  IN /\ index' = [index EXCEPT
          !.docs = @ \ {doc},
          !.chunks = SelectSeq(@, LAMBDA c : c[1] # doc),
          !.posted = {p \in @ : p[2] \notin Range(its)},
          !.df = [t \in Terms |-> Max({0, @[t] - Less(t, its)})],
          !.total = Max({0, @ - Len(its)})]
     /\ UNCHANGED <<entries, disk, userKey, worker, info, packs>>

-----------------------------------------------------------------------------
(* The shared information. *)

\* siSaveLocked: to another file, which takes the place of the first; or in vain.
Saved(table) == {info.file, table}

Add(who, everyone) ==
  /\ everyone => who.global
  /\ Cardinality(info.table) < MaxInfo /\ info.made < MaxMade
  /\ LET record == [id |-> info.made + 1, rev |-> info.rev + 1,
                    tenant |-> IF everyone THEN "*" ELSE who.tenant, everyone |-> everyone]
         table == info.table \cup {record}
     IN \E file \in Saved(table) :
          info' = [table |-> table, rev |-> record.rev, file |-> file, made |-> record.id]
  /\ UNCHANGED <<entries, disk, userKey, worker, index, packs>>

May(who, record) == who.global \/ (~record.everyone /\ record.tenant = who.tenant)

\* siDelete looks, and deletes in another critical section.
Look(w, who, record) ==
  /\ worker[w] = Idle /\ May(who, record)
  /\ Set(w, [at |-> "delete", record |-> record])
  /\ UNCHANGED <<entries, disk, userKey, index, info, packs>>

DeleteRecord(w) ==
  /\ worker[w].at = "delete"
  /\ LET table == info.table \ {worker[w].record}
     IN \E file \in Saved(table) : info' = [info EXCEPT !.table = table, !.file = file]
  /\ Set(w, Idle)
  /\ UNCHANGED <<entries, disk, userKey, index, packs>>

FaultRestored(file) == 0
\* loadSharedInfo: the counter goes on from what the file has.
Restored(file) == Max({0} \cup {r.rev : r \in file})

-----------------------------------------------------------------------------
(* Named packs, and the start of the gateway. *)

\* ctxPackSave: a global role may take another tenant's pack over.
SavePack(who, name) ==
  /\ name \in DOMAIN packs => (who.global \/ packs[name] = who.tenant)
  /\ name \notin DOMAIN packs => Cardinality(DOMAIN packs) < MaxPacks
  /\ packs' = [n \in DOMAIN packs \cup {name} |-> IF n = name THEN who.tenant ELSE packs[n]]
  /\ UNCHANGED <<entries, disk, userKey, worker, index, info>>

NoIndex == [docs |-> {}, chunks |-> <<>>, posted |-> {}, df |-> [t \in Terms |-> 0],
            total |-> 0, again |-> FALSE]

\* The seeds, in some order.
Seeds == CHOOSE s \in [1..Cardinality(Seed) -> Seed] : IsInjective(s)

\* seedBuiltin, on a start: the user's key is not known yet.
Planted(new) ==
  {[id |-> i, item |-> new[i], label |-> IF new[i].level = 0 THEN Open ELSE "system",
    seal |-> IF new[i].level = 0 THEN <<Open>> ELSE <<"system">>, raced |-> FALSE] :
     i \in DOMAIN new}

\* loadAll does not go into the directories of the categories; if it finds nothing,
\* the seeds are put again.
Restart ==
  LET found == {f \in disk : f.item.category = Top}
      made == entries.made + IF found = {} THEN Cardinality(Seed) ELSE 0
      new == [i \in (entries.made + 1)..made |-> Seeds[i - entries.made]]
      old == [i \in {f.id : f \in found} |-> (CHOOSE f \in found : f.id = i).item]
  IN /\ made <= MaxMade
     /\ entries' = [made |-> made, table |-> old @@ new]
     /\ disk' = disk \cup Planted(new)
     /\ userKey' = 0 /\ packs' = <<>>
     /\ worker' = [w \in Worker |-> Idle]
     /\ index' = NoIndex
     /\ info' = [info EXCEPT !.table = info.file, !.rev = Restored(info.file)]

-----------------------------------------------------------------------------
\* The first start, in an empty directory.
Init ==
  LET new == Seeds
  IN /\ entries = [made |-> Len(new), table |-> new]
     /\ disk = Planted(new) /\ userKey = 0 /\ worker = [w \in Worker |-> Idle]
     /\ index = NoIndex /\ info = [table |-> {}, file |-> {}, rev |-> 0, made |-> 0]
     /\ packs = <<>>

Next ==
  \/ \E w \in Worker :
       \/ \E item \in Item : Begin(w, item)
       \/ Save(w) \/ Enter(w)
       \/ \E id \in DOMAIN entries.table : DeleteEntry(w, id)
       \/ \E key \in {0} \cup UserKey : SetUserKey(w, key)
       \/ \E who \in Who, record \in info.table : Look(w, who, record)
       \/ DeleteRecord(w)
  \/ \E doc \in Doc : (\E text \in Text : Ingest(doc, text)) \/ DeleteDoc(doc)
  \/ \E who \in Who :
       (\E everyone \in BOOLEAN : Add(who, everyone)) \/ (\E n \in Name : SavePack(who, n))
  \/ Restart

Spec == Init /\ [][Next]_vars

-----------------------------------------------------------------------------
\* The key that a file names unseals it, whatever key the user sets while it is put;
\* only to take the key away then leaves a file that names a key it is not sealed with.
SealedAsNamed == \A f \in disk : ~f.raced => f.label = f.seal[1]

\* The counts that a search weighs terms with are those of the chunks and of the terms
\* in them, whatever is taken in and deleted; unless a document was taken in twice.
IndexAgrees ==
  ~index.again =>
    /\ \A t \in Terms : index.df[t] = Cardinality({p \in index.posted : p[1] = t})
    /\ index.total = Len(index.chunks)

\* No two records that are there together have one revision, nor one that the counter
\* has not given, although the file may be older than the memory it is read into.
RevisionsLive ==
  \A table \in {info.table, info.file} :
    /\ \A r, s \in table : r.rev = s.rev => r = s
    /\ \A r \in table : r.rev <= info.rev

\* knowledgebase.go and sharedinfo.go: what is kept beside the contents, the names of keys
\* and the revisions, is true of them.
StoresAgree == SealedAsNamed /\ RevisionsLive

=============================================================================

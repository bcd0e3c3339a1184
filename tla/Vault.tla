------------------------------- MODULE Vault -------------------------------
(***************************************************************************)
(* Package crownext/vault: the keys that secrets are sealed with, their    *)
(* two files, the store that caches what was opened, the protector that    *)
(* keeps bytes under a changing mask, and the emergency that wipes them    *)
(* all.                                                                    *)
(*                                                                         *)
(* A derived key is the pair of what it was derived from.  Derive hands    *)
(* out the slice that the vault keeps, and sealing and opening go on with  *)
(* it after the lock is given up; a wipe overwrites it under them.         *)
(***************************************************************************)
EXTENDS Naturals, FiniteSets

CONSTANTS
  Name,     \* keys of the store
  Secret,   \* what is stored
  Bytes,    \* what is protected
  Handler,  \* goroutines that use the store
  MaxMade,  \* salts, master keys and masks that are drawn (a bound of the run)
  MaxBlobs  \* sealed values that callers keep (a bound of the run)

VARIABLES
  disk,     \* vault.salt and master.key
  vault,    \* KeyVault and SecretStore in memory
  made,     \* how often something was drawn at random
  handler,  \* what each handler is doing
  blobs,    \* sealed values that Set has returned, with what is in them
  misread,  \* history: a whole file could not be read, and was made anew
  prot      \* MemoryProtector

vars == <<disk, vault, made, handler, blobs, misread, prot>>

None == "none"
Error == "error"
Idle == [at |-> "idle"]
Down == [at |-> "down"]
Unprotected == [value |-> None, masks |-> {}, mask |-> 0, stopped |-> FALSE, broken |-> FALSE]

\* Files and keys are told apart by what was drawn for them, from 1 on.
NoFile == 0
Torn == MaxMade + 1    \* a file of which only a part was written
Gone == MaxMade + 2    \* a master key that is nil

Derivation(master, salt) == [master |-> master, salt |-> salt]
Zero == Derivation(0, 0)      \* a key that was overwritten with zeros
Mixed == Derivation(0, Torn)  \* a key that was read while it was overwritten
NoKey == Derivation(0, Gone)

VaultAssumption ==
  /\ MaxMade \in Nat /\ MaxBlobs \in Nat
  /\ Secret \cap {None, Error} = {} /\ None \notin Bytes

Whole(file) == file \in 1..MaxMade
Good(key) == Whole(key.salt) /\ key.master # Gone

TypeOK ==
  /\ disk \in [salt : 0..Torn, master : 0..Torn]
  /\ vault.at \in {"down", "salted", "up"}
  /\ vault.at = "up" =>
       /\ vault.cache \in [Name -> Secret \cup {None}]
       /\ vault.key # NoKey => vault.key.salt = vault.salt
  /\ made \in 0..MaxMade
  /\ \A h \in Handler : handler[h].at \in {"idle", "seal", "keep", "miss", "open", "fill", "done"}
  /\ \A b \in blobs : b.name \in Name /\ b.value \in Secret
  /\ Cardinality(blobs) <= MaxBlobs
  /\ misread \in BOOLEAN
  /\ prot.value \in Bytes \cup {None} /\ prot.masks \subseteq 1..made

Draw == made < MaxMade /\ made' = made + 1

-----------------------------------------------------------------------------
(* NewKeyVault. *)

\* How os.WriteFile can end: with the file, at once, or in the middle.
FaultOutcomes(file, new) == {[file |-> f, ok |-> TRUE] : f \in {file, Torn, new}}

Outcomes(file, new) ==
  {[file |-> new, ok |-> TRUE], [file |-> file, ok |-> FALSE], [file |-> Torn, ok |-> FALSE]}

Salted(salt) == [at |-> "salted", salt |-> salt]
Up(salt, master) ==
  [at |-> "up", salt |-> salt, master |-> master, key |-> NoKey,
   cache |-> [n \in Name |-> None]]

Misread(file, now) == misread' = (misread \/ (Whole(file) /\ now # file))

LoadSalt ==
  /\ vault = Down
  /\ Whole(disk.salt)
  /\ vault' = Salted(disk.salt)
  /\ UNCHANGED <<disk, made, handler, blobs, misread, prot>>

\* Whatever keeps a file from being read, it is made anew.
CreateSalt ==
  /\ vault = Down
  /\ Draw
  /\ \E o \in Outcomes(disk.salt, made') :
       /\ disk' = [disk EXCEPT !.salt = o.file]
       /\ vault' = IF o.ok THEN Salted(made') ELSE Down
       /\ Misread(disk.salt, o.file)
  /\ UNCHANGED <<handler, blobs, prot>>

LoadMaster ==
  /\ vault.at = "salted"
  /\ Whole(disk.master)
  /\ vault' = Up(vault.salt, disk.master)
  /\ UNCHANGED <<disk, made, handler, blobs, misread, prot>>

\* From the pass phrase of the environment, if there is one, and the salt; such a key
\* has the number of the salt.
CreateMaster(given) ==
  /\ vault.at = "salted"
  /\ IF given THEN UNCHANGED made ELSE Draw
  /\ LET master == IF given THEN vault.salt ELSE made'
     IN \E o \in Outcomes(disk.master, master) :
          /\ disk' = [disk EXCEPT !.master = o.file]
          /\ vault' = IF o.ok THEN Up(vault.salt, master) ELSE Down
          /\ Misread(disk.master, o.file)
  /\ UNCHANGED <<handler, blobs, prot>>

\* The process ends; callers keep what was sealed for them.
Restart ==
  /\ vault # Down
  /\ vault' = Down
  /\ handler' = [h \in Handler |-> Idle]
  /\ prot' = Unprotected
  /\ UNCHANGED <<disk, made, blobs, misread>>

-----------------------------------------------------------------------------
(* The store. *)

Goto(h, do) == handler' = [handler EXCEPT ![h] = do]

\* Derive, from whatever the master key is.
Derived ==
  IF vault.key # NoKey THEN vault.key ELSE Derivation(vault.master, vault.salt)

Derive(h, do) ==
  /\ vault.at = "up"
  /\ vault' = [vault EXCEPT !.key = Derived]
  /\ Goto(h, do)
  /\ UNCHANGED <<disk, made, blobs, misread, prot>>

Set(h, n, s) ==
  /\ handler[h] = Idle
  /\ Derive(h, [at |-> "seal", name |-> n, value |-> s, key |-> Derived])

Seal(h) ==
  /\ handler[h].at = "seal"
  /\ Goto(h, [handler[h] EXCEPT !.at = "keep"])
  /\ UNCHANGED <<disk, vault, made, blobs, misread, prot>>

\* Set caches the value and returns the sealed one.
Keep(h) ==
  LET do == handler[h]
      blob == [name |-> do.name, value |-> do.value, key |-> do.key]
  IN /\ do.at = "keep"
     /\ Cardinality(blobs \cup {blob}) <= MaxBlobs
     /\ vault' = [vault EXCEPT !.cache[do.name] = do.value]
     /\ blobs' = blobs \cup {blob}
     /\ Goto(h, Idle)
     /\ UNCHANGED <<disk, made, misread, prot>>

Done(b, got, key) == [at |-> "done", blob |-> b, got |-> got, key |-> key]

\* What is cached under the name is returned, whatever is in the sealed value.
Get(h, b) ==
  LET hit == vault.cache[b.name]
  IN /\ vault.at = "up" /\ handler[h] = Idle
     /\ Goto(h, IF hit # None THEN Done(b, hit, NoKey) ELSE [at |-> "miss", blob |-> b])
     /\ UNCHANGED <<disk, vault, made, blobs, misread, prot>>

Miss(h) ==
  /\ handler[h].at = "miss"
  /\ Derive(h, [at |-> "open", blob |-> handler[h].blob, key |-> Derived])

\* Keys that were read while they were overwritten are never the same again.
Opens(key, blob) == key = blob.key /\ key # Mixed

Open(h) ==
  LET do == handler[h]
  IN /\ do.at = "open"
     /\ Goto(h, IF Opens(do.key, do.blob) THEN [do EXCEPT !.at = "fill"]
                ELSE Done(do.blob, Error, do.key))
     /\ UNCHANGED <<disk, vault, made, blobs, misread, prot>>

Fill(h) ==
  LET do == handler[h]
  IN /\ do.at = "fill"
     /\ vault' = [vault EXCEPT !.cache[do.blob.name] = do.blob.value]
     /\ Goto(h, Done(do.blob, do.blob.value, do.key))
     /\ UNCHANGED <<disk, made, blobs, misread, prot>>

Leave(h) ==
  /\ handler[h].at = "done"
  /\ Goto(h, Idle)
  /\ UNCHANGED <<disk, vault, made, blobs, misread, prot>>

-----------------------------------------------------------------------------
(* The protector: its bytes are those of value under the masks, and it      *)
(* takes mask off again to reveal them.                                    *)

Protect(s) ==
  /\ Draw
  /\ prot' = [prot EXCEPT !.value = s, !.masks = {made'}, !.mask = made', !.broken = FALSE]
  /\ UNCHANGED <<disk, vault, handler, blobs, misread>>

Xor(masks, mask) == (masks \ {mask}) \cup ({mask} \ masks)

FaultMasked(p, new) == [p EXCEPT !.masks = Xor(@, new), !.mask = new]

\* The old mask comes off and the new one on.
Masked(p, new) == [p EXCEPT !.masks = Xor(Xor(@, p.mask), new), !.mask = new]

Rotate ==
  /\ prot.value # None /\ ~prot.stopped
  /\ Draw
  /\ prot' = Masked(prot, made')
  /\ UNCHANGED <<disk, vault, handler, blobs, misread>>

\* Nothing can be drawn: the bytes are left without a mask, and the mask as it was.
RotateFails ==
  /\ prot.value # None /\ ~prot.stopped
  /\ prot' = [prot EXCEPT !.masks = Xor(@, prot.mask), !.broken = TRUE]
  /\ UNCHANGED <<disk, vault, made, handler, blobs, misread>>

Forgotten(p) == [p EXCEPT !.value = None, !.masks = {}, !.mask = 0, !.broken = FALSE]

\* Stop, a second time, is a panic; nothing rotates any more.
Stop ==
  /\ prot.value # None /\ ~prot.stopped
  /\ prot' = [Forgotten(prot) EXCEPT !.stopped = TRUE]
  /\ UNCHANGED <<disk, vault, made, handler, blobs, misread>>

-----------------------------------------------------------------------------
(* EmergencyWipe: every target in its own critical section, in the order    *)
(* they were registered in.                                                *)

\* Keys in the hands of others are overwritten, if need be while they are read.
WipeVault ==
  /\ vault.at = "up"
  /\ vault' = [vault EXCEPT !.master = Gone, !.key = NoKey]
  /\ \E left \in [Handler -> {Zero, Mixed}] :
       handler' = [h \in Handler |->
         IF handler[h].at \in {"seal", "open"} THEN [handler[h] EXCEPT !.key = left[h]]
         ELSE handler[h]]
  /\ UNCHANGED <<disk, made, blobs, misread, prot>>

WipeStore ==
  /\ vault.at = "up"
  /\ vault' = [vault EXCEPT !.cache = [n \in Name |-> None]]
  /\ UNCHANGED <<disk, made, handler, blobs, misread, prot>>

WipeProtector ==
  /\ prot' = Forgotten(prot)
  /\ UNCHANGED <<disk, vault, made, handler, blobs, misread>>

-----------------------------------------------------------------------------
Init ==
  /\ disk = [salt |-> NoFile, master |-> NoFile]
  /\ vault = Down
  /\ made = 0
  /\ handler = [h \in Handler |-> Idle]
  /\ blobs = {}
  /\ misread = FALSE
  /\ prot = Unprotected

Load == LoadSalt \/ CreateSalt \/ LoadMaster \/ \E given \in BOOLEAN : CreateMaster(given)

Serve(h) ==
  \/ \E n \in Name, s \in Secret : Set(h, n, s)
  \/ Seal(h) \/ Keep(h)
  \/ \E b \in blobs : Get(h, b)
  \/ Miss(h) \/ Open(h) \/ Fill(h) \/ Leave(h)

Wipe == WipeVault \/ WipeStore

Guard == (\E s \in Bytes : Protect(s)) \/ Rotate \/ RotateFails \/ Stop \/ WipeProtector

Next == Load \/ Restart \/ Wipe \/ Guard \/ \E h \in Handler : Serve(h)

Spec == Init /\ [][Next]_vars

-----------------------------------------------------------------------------
(* Properties. *)

\* vault.go: what was sealed with a key of the files can be opened with the files, and
\* with a vault that was not wiped, through failed writes, crashes and restarts, unless
\* a file that was whole could not be read.
SealedOpens ==
  ~misread => \A b \in blobs : Good(b.key) =>
    /\ b.key = Derivation(disk.master, disk.salt)
    /\ vault.at = "up" /\ vault.master # Gone => Derived = b.key

\* store.go: what Get returns was sealed under that name, and it only fails if a wipe
\* came between or had come before.
GotWell ==
  \A h \in Handler : handler[h].at = "done" =>
    LET do == handler[h]
        of == {b \in blobs : b.name = do.blob.name}
    IN /\ do.got # Error => \E b \in of : b.value = do.got
       /\ do.got # Error /\ Cardinality({b.value : b \in of}) = 1 => do.got = do.blob.value
       /\ do.got = Error => misread \/ ~Good(do.key) \/ ~Good(do.blob.key)

\* memory.go: what is revealed is what was protected, unless no mask could be drawn.
RevealsTrue == prot.value # None /\ ~prot.broken => prot.masks = {prot.mask}

VaultKeeps == SealedOpens /\ GotWell /\ RevealsTrue

=============================================================================

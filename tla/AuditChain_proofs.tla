-------------------------- MODULE AuditChain_proofs --------------------------
(***************************************************************************)
(* Proofs about AuditChain, for any number of days and writes: a file      *)
(* nothing has harmed verifies, and after one edit of it no line is        *)
(* counted from the first on that does not fit.                            *)
(*                                                                         *)
(* The invariant says of every file up to which line its chain is good,    *)
(* and of the head in memory that it belongs to the end of an unharmed     *)
(* file.  A hash covers the sequence number of its line, which is what     *)
(* makes the line after a removed one fail to link, and it is never that   *)
(* of other content, which is what makes the one after a changed line do.  *)
(***************************************************************************)
EXTENDS AuditChain, SequenceTheorems, TLAPS

\* The first n lines of a file form a chain numbered from 1.
Good(d, n) ==
  \A i \in 1 .. n : /\ Linked(d, i)
                    /\ file[d][i].seq = i
                    /\ file[d][i].hash[1] = i
                    /\ file[d][i].hash[2] \in Nat

UnharmedGood(d) ==
  hurt[d] = NoHarm => /\ d \notin cut
                      /\ Good(d, Len(file[d]))
                      /\ acked[d] <= Len(file[d])

\* The lines before n are counted, and n is not.
StopsAt(d, n) == (\A i \in 1 .. n - 1 : Linked(d, i)) /\ ~Linked(d, n)

EditedStops(d) ==
  hurt[d].what = "edited" =>
    LET n == hurt[d].at IN
    /\ n \in 1 .. Len(file[d])
    /\ StopsAt(d, n)
    /\ d \in cut => n < Len(file[d])

\* The head in memory continues an unharmed file.
HeadSound ==
  mem.day # 0 /\ hurt[mem.day] = NoHarm =>
    LET n == Len(file[mem.day]) IN
    /\ mem.seq = n
    /\ mem.prev = IF n = 0 THEN Genesis ELSE file[mem.day][n].hash

IInv == /\ TypeOK
        /\ \A d \in cut : file[d] # <<>>
        /\ \A d \in Day : UnharmedGood(d) /\ EditedStops(d)
        /\ HeadSound

-----------------------------------------------------------------------------
(* Lines and files. *)

LEMMA LineTypes ==
  /\ Junk \in Line /\ Genesis \in Hash /\ CorruptTail \in Hash /\ NoHarm \in Harm
  /\ TypeOK => Entry \in Line
  BY DEF Junk, Line, Hash, Genesis, CorruptTail, NoHarm, Harm, Entry, TypeOK

LEMMA LineAt ==
  ASSUME TypeOK
  PROVE  \A d \in Day : \A i \in 1 .. Len(file[d]) :
           file[d][i] \in Line /\ file[d][i].seq \in Nat
<1> SUFFICES ASSUME NEW d \in Day, NEW i \in 1 .. Len(file[d])
             PROVE  file[d][i] \in Line /\ file[d][i].seq \in Nat
  OBVIOUS
<1>1. file[d] \in Seq(Line)
  BY DEF TypeOK
<1>2. file[d][i] \in Line
  BY <1>1, ElementOfSeq
<1> QED
  BY <1>2 DEF Line

\* What writing a line at the end of a file does to it.
LEMMA ExtendedFile ==
  ASSUME TypeOK, \A d \in cut : file[d] # <<>>,
         NEW d \in Day, NEW line \in Line, file' = Extended(d, line)
  PROVE  /\ file' \in [Day -> Seq(Line)]
         /\ \A e \in Day \ {d} : file'[e] = file[e]
         /\ d \notin cut =>
              /\ Len(file'[d]) = Len(file[d]) + 1
              /\ \A i \in 1 .. Len(file[d]) : file'[d][i] = file[d][i]
              /\ file'[d][Len(file[d]) + 1] = line
         /\ d \in cut =>
              /\ Len(file'[d]) = Len(file[d])
              /\ \A i \in 1 .. Len(file[d]) - 1 : file'[d][i] = file[d][i]
              /\ file'[d][Len(file[d])] = Junk
         /\ Len(file'[d]) > 0
<1>0. file \in [Day -> Seq(Line)] /\ file[d] \in Seq(Line) /\ Len(file[d]) \in Nat
  BY LenProperties DEF TypeOK
<1>1. CASE d \notin cut
  <2>1. file' = [file EXCEPT ![d] = Append(file[d], line)]
    BY <1>1 DEF Extended
  <2>2. file'[d] = Append(file[d], line)
    BY <1>0, <2>1
  <2>3. /\ Append(file[d], line) \in Seq(Line)
        /\ Len(Append(file[d], line)) = Len(file[d]) + 1
        /\ \A i \in 1 .. Len(file[d]) : Append(file[d], line)[i] = file[d][i]
        /\ Append(file[d], line)[Len(file[d]) + 1] = line
    BY <1>0, AppendProperties
  <2> QED
    BY <1>0, <1>1, <2>1, <2>2, <2>3
<1>2. CASE d \in cut
  <2> DEFINE front == SubSeq(file[d], 1, Len(file[d]) - 1)
  <2>0. Len(file[d]) > 0
    BY <1>0, <1>2, EmptySeq
  <2>1. /\ front \in Seq(Line)
        /\ Len(front) = Len(file[d]) - 1
        /\ \A i \in 1 .. Len(file[d]) - 1 : front[i] = file[d][i]
    <3> DEFINE m == Len(file[d]) - 1
    <3>1. m \in Int /\ \A i \in 1 .. m : file[d][i] \in Line
      BY <1>0, <2>0, ElementOfSeq
    <3>2. /\ SubSeq(file[d], 1, m) \in Seq(Line)
          /\ Len(SubSeq(file[d], 1, m)) = IF 1 <= m THEN m - 1 + 1 ELSE 0
          /\ \A i \in 1 .. m - 1 + 1 : SubSeq(file[d], 1, m)[i] = file[d][1 + i - 1]
      <4> HIDE DEF m
      <4> QED BY <3>1, SubSeqProperties
    <3>3. m \in Nat
      BY <1>0, <2>0
    <3>4. /\ Len(SubSeq(file[d], 1, m)) = m
          /\ \A i \in 1 .. m : SubSeq(file[d], 1, m)[i] = file[d][i]
      <4> HIDE DEF m
      <4>1. \A i \in 1 .. m : i \in 1 .. m - 1 + 1 /\ 1 + i - 1 = i
        BY <3>3
      <4> QED BY <3>2, <3>3, <4>1
    <3> QED
      BY <3>2, <3>4
  <2>2. file' = [file EXCEPT ![d] = Append(front, Junk)]
    BY <1>2 DEF Extended, Front
  <2>3. file'[d] = Append(front, Junk)
    BY <1>0, <2>2
  <2>4. /\ Append(front, Junk) \in Seq(Line)
        /\ Len(Append(front, Junk)) = Len(front) + 1
        /\ \A i \in 1 .. Len(front) : Append(front, Junk)[i] = front[i]
        /\ Append(front, Junk)[Len(front) + 1] = Junk
    <3> HIDE DEF front
    <3> QED BY <2>1, LineTypes, AppendProperties
  <2> HIDE DEF front
  <2> QED
    BY <1>0, <1>2, <2>0, <2>1, <2>2, <2>3, <2>4
<1> QED
  BY <1>1, <1>2

\* Lines up to n that do not change keep the chain up to n.
LEMMA LinkedKept ==
  ASSUME NEW d, NEW i \in Nat \ {0}, file'[d][i] = file[d][i],
         i > 1 => file'[d][i - 1] = file[d][i - 1]
  PROVE  Linked(d, i)' <=> Linked(d, i)
  BY DEF Linked, Before

LEMMA GoodKept ==
  ASSUME NEW d, NEW n \in Int, \A i \in 1 .. n : file'[d][i] = file[d][i]
  PROVE  Good(d, n)' <=> Good(d, n)
<1>1. ASSUME NEW i \in 1 .. n PROVE Linked(d, i)' <=> Linked(d, i)
  <2>1. i \in Nat \ {0} /\ (i > 1 => i - 1 \in 1 .. n)
    BY <1>1
  <2> QED
    BY <2>1, LinkedKept
<1> QED
  BY <1>1 DEF Good

-----------------------------------------------------------------------------
(* Writing at the end of a file. *)

\* An edited file still stops at the edit after more is written to it.
LEMMA EditedKept ==
  ASSUME IInv, NEW d \in Day, NEW line \in Line, file' = Extended(d, line),
         hurt'[d] = hurt[d], hurt[d].what = "edited",
         cut' \in {cut \cup {d}, cut \ {d}}
  PROVE  EditedStops(d)'
<1> DEFINE n == hurt[d].at
<1>1. /\ n \in 1 .. Len(file[d]) /\ StopsAt(d, n)
      /\ d \in cut => n < Len(file[d])
  BY DEF IInv, EditedStops
<1>2. Len(file[d]) \in Nat /\ n \in Nat \ {0}
  BY <1>1, LenProperties DEF IInv, TypeOK
<1>3. /\ Len(file'[d]) >= Len(file[d])
      /\ d \notin cut => Len(file'[d]) = Len(file[d]) + 1
      /\ \A i \in 1 .. n : file'[d][i] = file[d][i]
  <2>1. /\ d \notin cut =>
             /\ Len(file'[d]) = Len(file[d]) + 1
             /\ \A i \in 1 .. Len(file[d]) : file'[d][i] = file[d][i]
        /\ d \in cut =>
             /\ Len(file'[d]) = Len(file[d])
             /\ \A i \in 1 .. Len(file[d]) - 1 : file'[d][i] = file[d][i]
    BY ExtendedFile DEF IInv
  <2>2. n \in 1 .. Len(file[d]) /\ (d \in cut => n < Len(file[d]))
    BY <1>1
  <2> HIDE DEF n
  <2>3. \A i \in 1 .. n :
          i \in 1 .. Len(file[d]) /\ (d \in cut => i \in 1 .. Len(file[d]) - 1)
    BY <1>2, <2>2
  <2> QED
    BY <1>2, <2>1, <2>3
<1>4. Len(file'[d]) \in Nat
  BY ExtendedFile, LenProperties DEF IInv
<1> HIDE DEF n
<1>5. StopsAt(d, n)'
  <2>1. \A i \in 1 .. n : Linked(d, i)' <=> Linked(d, i)
    <3> SUFFICES ASSUME NEW i \in 1 .. n PROVE Linked(d, i)' <=> Linked(d, i)
      OBVIOUS
    <3>1. i \in Nat \ {0} /\ (i > 1 => i - 1 \in 1 .. n)
      BY <1>2
    <3> QED
      BY <1>3, <3>1, LinkedKept
  <2>2. n' = n
    BY DEF n
  <2>3. \A i \in 1 .. n - 1 : i \in 1 .. n
    BY <1>2
  <2> QED
    BY <1>1, <1>2, <2>1, <2>2, <2>3 DEF StopsAt
<1>8. n \in 1 .. Len(file'[d]) /\ (d \in cut' => n < Len(file'[d]))
  BY <1>1, <1>2, <1>3, <1>4
<1> QED
  BY <1>5, <1>8 DEF EditedStops, n

\* A file that is not written to keeps what is known of it.
LEMMA OtherKept ==
  ASSUME NEW d, file'[d] = file[d], hurt'[d] = hurt[d],
         d \in cut' <=> d \in cut, acked'[d] = acked[d]
  PROVE  (UnharmedGood(d) /\ EditedStops(d))' <=> (UnharmedGood(d) /\ EditedStops(d))
<1>1. ASSUME NEW i PROVE Linked(d, i)' <=> Linked(d, i)
  BY DEF Linked, Before
<1>2. ASSUME NEW n PROVE Good(d, n)' <=> Good(d, n)
  BY <1>1 DEF Good
<1> QED
  BY <1>1, <1>2 DEF UnharmedGood, EditedStops, StopsAt

\* A whole line written to an unharmed file lengthens its chain by one.
LEMMA WholeLine ==
  ASSUME IInv, busy, NEW d \in Day, d = mem.day, file' = Extended(d, Entry),
         cut' = cut \ {d}, hurt' = hurt,
         acked'[d] \in {acked[d], acked[d] + 1},
         \A e \in Day \ {d} : acked'[e] = acked[e]
  PROVE  /\ \A e \in Day : UnharmedGood(e)' /\ EditedStops(e)'
         /\ hurt[d] = NoHarm => /\ Len(file'[d]) = mem.seq + 1
                               /\ file'[d][mem.seq + 1].hash = Entry.hash
         /\ \A e \in cut' : file'[e] # <<>>
<1>0. Entry \in Line /\ Len(file[d]) \in Nat /\ mem.seq \in Nat
  BY LineTypes, LenProperties DEF IInv, TypeOK
<1>1. ASSUME NEW e \in Day \ {d} PROVE UnharmedGood(e)' /\ EditedStops(e)'
  <2>1. file'[e] = file[e] /\ (e \in cut' <=> e \in cut)
    BY <1>0, ExtendedFile DEF IInv
  <2> QED
    BY <2>1, OtherKept DEF IInv
<1>2. ASSUME hurt[d] = NoHarm
      PROVE  /\ UnharmedGood(d)' /\ Len(file'[d]) = mem.seq + 1
             /\ file'[d][mem.seq + 1].hash = Entry.hash
  <2>0. PICK n \in Nat : n = Len(file[d])
    BY <1>0
  <2>1. /\ d \notin cut /\ Good(d, n) /\ acked[d] <= n
        /\ mem.seq = n /\ mem.prev = IF n = 0 THEN Genesis ELSE file[d][n].hash
    BY <1>2, <2>0 DEF IInv, UnharmedGood, HeadSound, TypeOK
  <2>2. /\ Len(file'[d]) = n + 1
        /\ \A i \in 1 .. n : file'[d][i] = file[d][i]
        /\ file'[d][n + 1] = Entry
    BY <1>0, <2>0, <2>1, ExtendedFile DEF IInv
  <2>3. \A i \in 1 .. n : Linked(d, i)' /\ file'[d][i].seq = i /\ file'[d][i].hash[1] = i
          /\ file'[d][i].hash[2] \in Nat
    <3> SUFFICES ASSUME NEW i \in 1 .. n
                 PROVE  Linked(d, i)' /\ file'[d][i].seq = i /\ file'[d][i].hash[1] = i
          /\ file'[d][i].hash[2] \in Nat
      BY <2>1
    <3>1. Linked(d, i) /\ file[d][i].seq = i /\ file[d][i].hash[1] = i
          /\ file[d][i].hash[2] \in Nat
      BY <2>1 DEF Good
    <3>2. i \in Nat \ {0} /\ (i > 1 => i - 1 \in 1 .. n)
      OBVIOUS
    <3> QED
      BY <2>2, <3>1, <3>2, LinkedKept
  <2>4. Entry.prev = mem.prev /\ Entry.seq = mem.seq + 1 /\ Entry.hash[1] = mem.seq + 1
        /\ Entry.form = "sound" /\ Entry.hash[2] \in Nat
    BY BoundsAssumption DEF Entry, IInv, TypeOK
  <2>5. Linked(d, n + 1)' /\ file'[d][n + 1].seq = n + 1 /\ file'[d][n + 1].hash[1] = n + 1
        /\ file'[d][n + 1].hash[2] \in Nat
    <3>2. file'[d][n + 1].prev = IF n + 1 = 1 THEN Genesis ELSE file'[d][n + 1 - 1].hash
      <4>1. n # 0 => n \in 1 .. n
        OBVIOUS
      <4> QED BY <1>0, <2>1, <2>2, <2>4, <4>1
    <3> QED
      BY <2>1, <2>2, <2>4, <3>2 DEF Linked, Before
  <2>6. Good(d, n + 1)'
    <3> SUFFICES ASSUME NEW i \in 1 .. n + 1
                 PROVE  Linked(d, i)' /\ file'[d][i].seq = i /\ file'[d][i].hash[1] = i
          /\ file'[d][i].hash[2] \in Nat
      BY DEF Good
    <3>1. i \in 1 .. n \/ i = n + 1
      OBVIOUS
    <3> QED
      BY <2>3, <2>5, <3>1
  <2>7. UnharmedGood(d)'
    <3>1. acked'[d] <= n + 1
      <4>1. acked[d] \in Nat
        BY DEF IInv, TypeOK
      <4> QED BY <2>1, <4>1
    <3> QED
      BY <2>2, <2>6, <3>1 DEF UnharmedGood
  <2> QED
    BY <2>1, <2>2, <2>4, <2>7
<1>3. EditedStops(d)'
  BY <1>0, EditedKept DEF EditedStops
<1>4. hurt[d] # NoHarm => UnharmedGood(d)'
  BY DEF UnharmedGood
<1>5. \A e \in cut' : file'[e] # <<>>
  BY <1>0, ExtendedFile DEF IInv, TypeOK
<1> QED
  BY <1>1, <1>2, <1>3, <1>4, <1>5

\* A piece of a line harms an unharmed file and changes no other verdict.
LEMMA TornLine ==
  ASSUME IInv, NEW line \in Line, mem.day \in Day, Torn(line), acked' = acked
  PROVE  /\ file' \in [Day -> Seq(Line)] /\ cut' \subseteq Day /\ hurt' \in [Day -> Harm]
         /\ \A e \in Day : UnharmedGood(e)' /\ EditedStops(e)'
         /\ \A e \in cut' : file'[e] # <<>>
         /\ hurt'[mem.day] # NoHarm
         /\ \A e \in Day \ {mem.day} : file'[e] = file[e] /\ hurt'[e] = hurt[e]
<1>0. PICK d \in Day : d = mem.day
  OBVIOUS
<1>1. file' = Extended(d, line) /\ cut' = cut \cup {d}
      /\ hurt' = Worsen(d, "torn", Len(file[d]) + 1)
  BY <1>0 DEF Torn
<1>2. /\ file' \in [Day -> Seq(Line)] /\ Len(file'[d]) > 0
      /\ \A e \in Day \ {d} : file'[e] = file[e]
  BY <1>1, ExtendedFile DEF IInv
<1>3. /\ hurt' \in [Day -> Harm]
      /\ hurt'[d] = IF hurt[d] = NoHarm THEN [what |-> "torn", at |-> Len(file[d]) + 1]
                    ELSE hurt[d]
      /\ \A e \in Day \ {d} : hurt'[e] = hurt[e]
  <2>1. Len(file[d]) + 1 \in Nat
    BY LenProperties DEF IInv, TypeOK
  <2>2. [what |-> "torn", at |-> Len(file[d]) + 1] \in Harm
    BY <2>1 DEF Harm
  <2> QED
    BY <1>1, <2>2 DEF Worsen, IInv, TypeOK
<1>4. hurt'[d] # NoHarm
  BY <1>3 DEF NoHarm
<1>5. ASSUME NEW e \in Day \ {d} PROVE UnharmedGood(e)' /\ EditedStops(e)'
  BY <1>1, <1>2, <1>3, OtherKept DEF IInv
<1>6. UnharmedGood(d)'
  BY <1>4 DEF UnharmedGood
<1>7. EditedStops(d)'
  <2>1. CASE hurt[d].what = "edited"
    <3>1. hurt'[d] = hurt[d]
      BY <1>3, <2>1 DEF NoHarm
    <3> QED
      BY <1>1, <2>1, <3>1, EditedKept
  <2>2. CASE hurt[d].what # "edited"
    BY <1>3, <2>2 DEF EditedStops
  <2> QED
    BY <2>1, <2>2
<1>8. \A e \in cut' : file'[e] # <<>>
  BY <1>1, <1>2 DEF IInv, TypeOK
<1>9. cut' \subseteq Day
  BY <1>1 DEF IInv, TypeOK
<1> QED
  BY <1>0, <1>2, <1>3, <1>4, <1>5, <1>6, <1>7, <1>8, <1>9

-----------------------------------------------------------------------------
(* Editing a file. *)

\* An edited file, of which it is known where it stops, if it does.
LEMMA EditKeeps ==
  ASSUME IInv, NEW d \in Day, NEW at \in Nat \ {0}, hurt[d] = NoHarm, Edited(d, at),
         file' \in [Day -> Seq(Line)], \A e \in Day \ {d} : file'[e] = file[e],
         UNCHANGED <<today, cut, mem, busy, writes, acked>>,
         at \in 1 .. Len(file'[d]) => StopsAt(d, at)'
  PROVE  IInv'
<1>1. DOMAIN file'[d] = 1 .. Len(file'[d]) /\ d \notin cut
  BY LenProperties DEF IInv, UnharmedGood
<1>2. PICK what \in {"edited", "end"} :
        /\ what = "edited" <=> at \in 1 .. Len(file'[d])
        /\ hurt' = [hurt EXCEPT ![d] = [what |-> what, at |-> at]]
  BY <1>1 DEF Edited, Worsen
<1>3. /\ hurt' \in [Day -> Harm]
      /\ hurt'[d] = [what |-> what, at |-> at]
      /\ \A e \in Day \ {d} : hurt'[e] = hurt[e]
  <2>1. [what |-> what, at |-> at] \in Harm
    BY DEF Harm
  <2> QED
    BY <1>2, <2>1 DEF IInv, TypeOK
<1>4. TypeOK'
  BY <1>3 DEF IInv, TypeOK
<1>5. \A e \in cut' : file'[e] # <<>>
  BY <1>1 DEF IInv, TypeOK
<1>6. ASSUME NEW e \in Day \ {d} PROVE UnharmedGood(e)' /\ EditedStops(e)'
  BY <1>3, OtherKept DEF IInv
<1>7. hurt'[d] # NoHarm
  BY <1>3 DEF NoHarm
<1>8. UnharmedGood(d)'
  BY <1>7 DEF UnharmedGood
<1>9. EditedStops(d)'
  <2>1. hurt'[d].at = at /\ hurt'[d].what = what
    BY <1>3
  <2> QED
    BY <1>1, <1>2, <2>1 DEF EditedStops, StopsAt
<1>10. HeadSound'
  BY <1>3, <1>7 DEF IInv, TypeOK, HeadSound
<1> QED
  BY <1>4, <1>5, <1>6, <1>8, <1>9, <1>10 DEF IInv

\* In a file that is not harmed, no line names a hash that an editor makes.
LEMMA NamesNoRehash ==
  ASSUME IInv, NEW d \in Day, hurt[d] = NoHarm, NEW i \in 1 .. Len(file[d]), NEW n
  PROVE  /\ Linked(d, i) /\ file[d][i].prev = Before(d, i) /\ file[d][i].prev # Rehash(n)
         /\ i # 1 => file[d][i].prev = file[d][i - 1].hash
<1>1. Len(file[d]) \in Nat
  BY LenProperties DEF IInv, TypeOK
<1>2. \A j \in 1 .. Len(file[d]) : Linked(d, j) /\ file[d][j].hash[2] \in Nat
  BY DEF IInv, UnharmedGood, Good
<1>3. i # 1 => i - 1 \in 1 .. Len(file[d])
  BY <1>1
<1>4. i # 1 => file[d][i - 1].hash[2] # -3
  BY <1>2, <1>3
<1>5. Genesis # Rehash(n) /\ Rehash(n)[2] = -3
  BY DEF Genesis, Rehash
<1> QED
  BY <1>2, <1>4, <1>5 DEF Linked, Before

\* The lines that an editor can leave are lines.
LEMMA LeftLines ==
  ASSUME NEW prev \in Hash
  PROVE  /\ Believed(prev) \subseteq Line /\ Doubtful(prev) \subseteq Line
         /\ \A line \in Believed(prev) :
              line.prev = prev /\ line.form = "sound" /\ \E n \in Numbers : line.hash = Rehash(n)
         /\ \A line \in Doubtful(prev) : line.form = "altered"
<1>1. NoHash \in Hash /\ \A n \in Nat : Rehash(n) \in Hash
  BY DEF NoHash, Rehash, Hash
<1>2. ASSUME NEW line \in Believed(prev)
      PROVE  /\ line \in Line /\ line.prev = prev /\ line.form = "sound"
             /\ \E n \in Numbers : line.hash = Rehash(n)
  <2>1. PICK n \in Numbers :
          line = [seq |-> n, prev |-> prev, hash |-> Rehash(n), form |-> "sound"]
    BY DEF Believed
  <2>2. n \in Nat /\ Rehash(n) \in Hash
    BY <1>1, BoundsAssumption
  <2> QED
    BY <2>1, <2>2 DEF Line
<1>3. ASSUME NEW line \in Doubtful(prev)
      PROVE  line \in Line /\ line.form = "altered"
  <2>1. PICK n \in Numbers, p \in {prev, NoHash}, h \in {Rehash(0), NoHash} :
          line = [seq |-> n, prev |-> p, hash |-> h, form |-> "altered"]
    BY DEF Doubtful
  <2>2. n \in Nat /\ p \in Hash /\ h \in Hash
    BY <1>1, BoundsAssumption
  <2> QED
    BY <2>1, <2>2 DEF Line
<1> QED
  BY <1>2, <1>3

LEMMA BeforeHash ==
  ASSUME IInv, NEW d \in Day, NEW i \in 1 .. Len(file[d]) + 1
  PROVE  Before(d, i) \in Hash
<1>1. Len(file[d]) \in Nat
  BY LenProperties DEF IInv, TypeOK
<1>2. CASE i = 1
  BY <1>2, LineTypes DEF Before
<1>3. CASE i # 1
  <2>1. i - 1 \in 1 .. Len(file[d])
    BY <1>1, <1>3
  <2>2. file[d][i - 1] \in Line
    BY <2>1, LineAt DEF IInv
  <2> QED
    BY <1>3, <2>2 DEF Before, Line
<1> QED
  BY <1>2, <1>3

\* A file whose first i - 1 lines are those of an unharmed one stops behind line i, if that
\* fits and the next does not name its hash, or at line i, if that does not fit.
LEMMA StopsThere ==
  ASSUME IInv, NEW d \in Day, hurt[d] = NoHarm, NEW i \in 1 .. Len(file[d]) + 1,
         NEW line, file'[d][i] = line, \A j \in 1 .. i - 1 : file'[d][j] = file[d][j]
  PROVE  /\ line.form # "sound" => StopsAt(d, i)'
         /\ line \in Believed(Before(d, i)) /\ file'[d][i + 1].prev # line.hash
              => StopsAt(d, i + 1)'
<1>1. Len(file[d]) \in Nat
  BY LenProperties DEF IInv, TypeOK
<1>2. \A j \in 1 .. i - 1 : Linked(d, j)'
  <2> SUFFICES ASSUME NEW j \in 1 .. i - 1 PROVE Linked(d, j)'
    OBVIOUS
  <2>1. j \in 1 .. Len(file[d]) /\ j \in Nat \ {0} /\ (j > 1 => j - 1 \in 1 .. i - 1)
    BY <1>1
  <2>2. Linked(d, j)
    BY <2>1 DEF IInv, UnharmedGood, Good
  <2> QED
    BY <2>1, <2>2, LinkedKept
<1>3. ASSUME line.form # "sound" PROVE StopsAt(d, i)'
  BY <1>2, <1>3 DEF StopsAt, Linked
<1>4. ASSUME line \in Believed(Before(d, i)), file'[d][i + 1].prev # line.hash
      PROVE  StopsAt(d, i + 1)'
  <2>1. line.prev = Before(d, i) /\ line.form = "sound"
    BY <1>4, BeforeHash, LeftLines
  <2>2. Before(d, i)' = Before(d, i)
    <3>1. i # 1 => i - 1 \in 1 .. i - 1
      BY <1>1
    <3> QED
      BY <3>1 DEF Before
  <2>3. Linked(d, i)'
    BY <2>1, <2>2 DEF Linked
  <2>4. i + 1 # 1 /\ i + 1 - 1 = i /\ \A j \in 1 .. (i + 1) - 1 : j \in 1 .. i - 1 \/ j = i
    BY <1>1
  <2>5. ~Linked(d, i + 1)'
    BY <1>4, <2>4 DEF Linked, Before
  <2> QED
    BY <1>2, <2>3, <2>4, <2>5 DEF StopsAt
<1> QED
  BY <1>3, <1>4

LEMMA AlteredFile ==
  ASSUME IInv, NEW d \in Day, NEW i \in Nat \ {0}, Alter(d, i)
  PROVE  IInv'
<1>0. /\ hurt[d] = NoHarm /\ i \in 1 .. Len(file[d]) /\ Len(file[d]) \in Nat
      /\ file[d] \in Seq(Line) /\ UNCHANGED <<today, cut, mem, busy, writes, acked>>
  BY LenProperties DEF Alter, IInv, TypeOK
<1>1. PICK line \in Line, at \in {i, i + 1} :
        /\ file' = [file EXCEPT ![d] = [file[d] EXCEPT ![i] = line]] /\ Edited(d, at)
        /\ at = i => line.form # "sound"
        /\ at = i + 1 => line \in Believed(Before(d, i))
  <2>1. Believed(Before(d, i)) \subseteq Line /\ Doubtful(Before(d, i)) \subseteq Line
        /\ \A line \in Doubtful(Before(d, i)) : line.form = "altered"
    <3>1. i \in 1 .. Len(file[d]) + 1
      BY <1>0
    <3> QED
      BY <3>1, BeforeHash, LeftLines
  <2>2. [file[d][i] EXCEPT !.form = "altered"] \in Line
        /\ [file[d][i] EXCEPT !.form = "altered"].form = "altered"
    BY <1>0, LineAt DEF IInv, Line
  <2>3. ASSUME NEW line \in Believed(Before(d, i)),
               file' = [file EXCEPT ![d][i] = line] /\ Edited(d, i + 1)
        PROVE  /\ line \in Line /\ i + 1 # i
               /\ file' = [file EXCEPT ![d] = [file[d] EXCEPT ![i] = line]]
    BY <2>1, <2>3
  <2>4. ASSUME NEW line \in Doubtful(Before(d, i)) \cup {[file[d][i] EXCEPT !.form = "altered"]},
               file' = [file EXCEPT ![d][i] = line] /\ Edited(d, i)
        PROVE  /\ line \in Line /\ line.form # "sound" /\ i + 1 # i
               /\ file' = [file EXCEPT ![d] = [file[d] EXCEPT ![i] = line]]
    <3>1. line \in Doubtful(Before(d, i)) \/ line = [file[d][i] EXCEPT !.form = "altered"]
      BY <2>4
    <3>2. line \in Line /\ line.form = "altered"
      BY <2>1, <2>2, <3>1
    <3>3. file' = [file EXCEPT ![d] = [file[d] EXCEPT ![i] = line]]
      BY <2>4
    <3> QED
      BY <3>2, <3>3
  <2> QED
    BY <2>3, <2>4 DEF Alter
<1>2. /\ [file[d] EXCEPT ![i] = line] \in Seq(Line)
      /\ Len([file[d] EXCEPT ![i] = line]) = Len(file[d])
      /\ [file[d] EXCEPT ![i] = line][i] = line
      /\ \A j \in 1 .. Len(file[d]) : j # i => [file[d] EXCEPT ![i] = line][j] = file[d][j]
  BY <1>0, ExceptSeq
<1>3. /\ file' \in [Day -> Seq(Line)]
      /\ \A e \in Day \ {d} : file'[e] = file[e]
      /\ Len(file'[d]) = Len(file[d]) /\ file'[d][i] = line
      /\ \A j \in 1 .. Len(file[d]) : j # i => file'[d][j] = file[d][j]
  BY <1>1, <1>2 DEF IInv, TypeOK
<1>4. i \in 1 .. Len(file[d]) + 1 /\ \A j \in 1 .. i - 1 : file'[d][j] = file[d][j]
  BY <1>0, <1>3
<1>5. at \in 1 .. Len(file'[d]) => StopsAt(d, at)'
  <2>1. CASE at = i
    BY <1>0, <1>1, <1>3, <1>4, <2>1, StopsThere
  <2>2. CASE at = i + 1 /\ at \in 1 .. Len(file'[d])
    <3>1. i + 1 \in 1 .. Len(file[d]) /\ i + 1 # i /\ i + 1 # 1 /\ i + 1 - 1 = i
      BY <1>0, <1>3, <2>2
    <3>2. PICK n \in Numbers : line.hash = Rehash(n)
      BY <1>1, <1>4, <2>2, BeforeHash, LeftLines
    <3>3. file'[d][i + 1].prev # line.hash
      BY <1>0, <1>3, <3>1, <3>2, NamesNoRehash
    <3> QED
      BY <1>0, <1>1, <1>3, <1>4, <2>2, <3>3, StopsThere
  <2> QED
    BY <1>1, <2>1, <2>2
<1>6. at \in Nat \ {0}
  BY <1>1
<1> QED
  BY <1>0, <1>1, <1>3, <1>5, <1>6, EditKeeps

LEMMA RemovedAt ==
  ASSUME NEW S, NEW s \in Seq(S), NEW i \in 1 .. Len(s)
  PROVE  /\ RemoveAt(s, i) \in Seq(S)
         /\ Len(RemoveAt(s, i)) = Len(s) - 1
         /\ \A j \in 1 .. Len(s) - 1 :
              RemoveAt(s, i)[j] = IF j < i THEN s[j] ELSE s[j + 1]
<1>0. PICK n \in Nat : n = Len(s)
  BY LenProperties
<1>1. \A j \in 1 .. n : s[j] \in S
  BY <1>0, ElementOfSeq
<1>2. i - 1 \in Nat /\ i + 1 \in Int /\ i \in 1 .. n
  BY <1>0
<1>3. PICK l : l = SubSeq(s, 1, i - 1)
  OBVIOUS
<1>4. PICK r : r = SubSeq(s, i + 1, n)
  OBVIOUS
<1>5. l \in Seq(S) /\ Len(l) = i - 1 /\ \A j \in 1 .. i - 1 : l[j] = s[j]
  <2>1. \A j \in 1 .. i - 1 : s[j] \in S
    BY <1>1, <1>2
  <2>2. /\ SubSeq(s, 1, i - 1) \in Seq(S)
        /\ Len(SubSeq(s, 1, i - 1)) = IF 1 <= i - 1 THEN (i - 1) - 1 + 1 ELSE 0
        /\ \A j \in 1 .. (i - 1) - 1 + 1 : SubSeq(s, 1, i - 1)[j] = s[1 + j - 1]
    BY <1>2, <2>1, SubSeqProperties
  <2>3. \A j \in 1 .. i - 1 : j \in 1 .. (i - 1) - 1 + 1 /\ 1 + j - 1 = j
    BY <1>2
  <2> QED
    BY <1>2, <1>3, <2>2, <2>3
<1>6. r \in Seq(S) /\ Len(r) = n - i /\ \A j \in 1 .. n - i : r[j] = s[i + j]
  <2>1. \A j \in i + 1 .. n : s[j] \in S
    BY <1>1, <1>2
  <2>2. /\ SubSeq(s, i + 1, n) \in Seq(S)
        /\ Len(SubSeq(s, i + 1, n)) = IF i + 1 <= n THEN n - (i + 1) + 1 ELSE 0
        /\ \A j \in 1 .. n - (i + 1) + 1 : SubSeq(s, i + 1, n)[j] = s[(i + 1) + j - 1]
    BY <1>0, <1>2, <2>1, SubSeqProperties
  <2>3. \A j \in 1 .. n - i : j \in 1 .. n - (i + 1) + 1 /\ (i + 1) + j - 1 = i + j
    BY <1>0, <1>2
  <2> QED
    BY <1>0, <1>2, <1>4, <2>2, <2>3
<1>7. RemoveAt(s, i) = l \o r
  BY <1>0, <1>3, <1>4 DEF RemoveAt
<1>8. /\ l \o r \in Seq(S) /\ Len(l \o r) = Len(l) + Len(r)
      /\ \A j \in 1 .. Len(l) + Len(r) :
           (l \o r)[j] = IF j <= Len(l) THEN l[j] ELSE r[j - Len(l)]
  BY <1>5, <1>6, ConcatProperties
<1>9. ASSUME NEW j \in 1 .. n - 1
      PROVE  (l \o r)[j] = IF j < i THEN s[j] ELSE s[j + 1]
  <2>1. j \in 1 .. Len(l) + Len(r)
    BY <1>0, <1>2, <1>5, <1>6
  <2>2. CASE j < i
    <3>1. j \in 1 .. i - 1
      BY <1>2, <2>2
    <3> QED
      BY <1>2, <1>5, <1>8, <2>1, <2>2, <3>1
  <2>3. CASE j >= i
    <3>1. j - (i - 1) \in 1 .. n - i /\ i + (j - (i - 1)) = j + 1 /\ ~(j <= i - 1) /\ ~(j < i)
      BY <1>0, <1>2, <2>3
    <3>2. (l \o r)[j] = r[j - (i - 1)]
      BY <1>5, <1>8, <2>1, <3>1
    <3>3. r[j - (i - 1)] = s[j + 1]
      BY <1>6, <3>1
    <3> QED
      BY <3>1, <3>2, <3>3
  <2>4. j < i \/ j >= i
    BY <1>0, <1>2
  <2> QED
    BY <2>2, <2>3, <2>4, Zenon
<1> QED
  BY <1>0, <1>2, <1>5, <1>6, <1>7, <1>8, <1>9

LEMMA InsertedAt ==
  ASSUME NEW S, NEW s \in Seq(S), NEW i \in 1 .. Len(s) + 1, NEW x \in S
  PROVE  /\ InsertAt(s, i, x) \in Seq(S)
         /\ Len(InsertAt(s, i, x)) = Len(s) + 1
         /\ \A j \in 1 .. i - 1 : InsertAt(s, i, x)[j] = s[j]
         /\ InsertAt(s, i, x)[i] = x
         /\ i <= Len(s) => InsertAt(s, i, x)[i + 1] = s[i]
<1>0. PICK n \in Nat : n = Len(s)
  BY LenProperties
<1>1. \A j \in 1 .. n : s[j] \in S
  BY <1>0, ElementOfSeq
<1>2. i \in 1 .. n + 1 /\ i - 1 \in Nat /\ i \in Int /\ n \in Int
  BY <1>0
<1>3. PICK l : l = SubSeq(s, 1, i - 1)
  OBVIOUS
<1>4. PICK r : r = SubSeq(s, i, n)
  OBVIOUS
<1>5. l \in Seq(S) /\ Len(l) = i - 1 /\ \A j \in 1 .. i - 1 : l[j] = s[j]
  <2>1. \A j \in 1 .. i - 1 : s[j] \in S
    BY <1>1, <1>2
  <2>2. /\ SubSeq(s, 1, i - 1) \in Seq(S)
        /\ Len(SubSeq(s, 1, i - 1)) = IF 1 <= i - 1 THEN (i - 1) - 1 + 1 ELSE 0
        /\ \A j \in 1 .. (i - 1) - 1 + 1 : SubSeq(s, 1, i - 1)[j] = s[1 + j - 1]
    BY <1>2, <2>1, SubSeqProperties
  <2>3. \A j \in 1 .. i - 1 : j \in 1 .. (i - 1) - 1 + 1 /\ 1 + j - 1 = j
    BY <1>2
  <2> QED
    BY <1>2, <1>3, <2>2, <2>3
<1>6. r \in Seq(S) /\ Len(r) = n - i + 1 /\ (i <= n => r[1] = s[i])
  <2>1. \A j \in i .. n : s[j] \in S
    BY <1>1, <1>2
  <2>2. /\ SubSeq(s, i, n) \in Seq(S)
        /\ Len(SubSeq(s, i, n)) = IF i <= n THEN n - i + 1 ELSE 0
        /\ \A j \in 1 .. n - i + 1 : SubSeq(s, i, n)[j] = s[i + j - 1]
    BY <1>2, <2>1, SubSeqProperties
  <2>3. (i <= n => 1 \in 1 .. n - i + 1 /\ i + 1 - 1 = i) /\ (~(i <= n) => n - i + 1 = 0)
    BY <1>2
  <2> QED
    BY <1>4, <2>2, <2>3
<1>7. /\ Append(l, x) \in Seq(S) /\ Len(Append(l, x)) = i /\ Append(l, x)[i] = x
      /\ \A j \in 1 .. i - 1 : Append(l, x)[j] = s[j]
  <2>1. /\ Append(l, x) \in Seq(S) /\ Len(Append(l, x)) = Len(l) + 1
        /\ Append(l, x)[Len(l) + 1] = x
        /\ \A j \in 1 .. Len(l) : Append(l, x)[j] = l[j]
    BY <1>5, AppendProperties
  <2>2. Len(l) + 1 = i
    BY <1>2, <1>5
  <2> QED
    BY <1>5, <2>1, <2>2
<1>8. InsertAt(s, i, x) = Append(l, x) \o r
  <2>1. l \o <<x>> = Append(l, x)
    BY <1>5, AppendIsConcat
  <2> QED
    BY <1>0, <1>3, <1>4, <2>1 DEF InsertAt
<1>9. PICK a \in Seq(S) : a = Append(l, x)
  BY <1>7
<1>10. /\ a \o r \in Seq(S) /\ Len(a \o r) = Len(a) + Len(r)
       /\ \A j \in 1 .. Len(a) + Len(r) :
            (a \o r)[j] = IF j <= Len(a) THEN a[j] ELSE r[j - Len(a)]
  BY <1>6, <1>9, ConcatProperties
<1>11. /\ Len(a) = i /\ Len(a) + Len(r) = n + 1 /\ \A j \in 1 .. i : j \in 1 .. n + 1 /\ j <= i
       /\ \A j \in 1 .. i - 1 : j \in 1 .. i
       /\ i \in 1 .. i /\ (i <= n => i + 1 \in 1 .. n + 1 /\ ~(i + 1 <= i) /\ i + 1 - i = 1)
  <2>1. Len(a) = i /\ Len(r) = n - i + 1
    BY <1>6, <1>7, <1>9
  <2>2. i + (n - i + 1) = n + 1 /\ \A j \in 1 .. i : j \in 1 .. n + 1 /\ j <= i
    BY <1>2
  <2>3. /\ \A j \in 1 .. i - 1 : j \in 1 .. i
        /\ i \in 1 .. i /\ (i <= n => i + 1 \in 1 .. n + 1 /\ ~(i + 1 <= i) /\ i + 1 - i = 1)
    BY <1>2
  <2> QED
    BY <2>1, <2>2, <2>3
<1>12. \A j \in 1 .. i : (a \o r)[j] = a[j]
  BY <1>10, <1>11
<1>13. i <= n => (a \o r)[i + 1] = s[i]
  BY <1>6, <1>10, <1>11
<1>14. InsertAt(s, i, x) = a \o r /\ a[i] = x /\ \A j \in 1 .. i - 1 : a[j] = s[j]
  BY <1>7, <1>8, <1>9
<1> QED
  BY <1>0, <1>10, <1>11, <1>12, <1>13, <1>14

LEMMA InsertedFile ==
  ASSUME IInv, NEW d \in Day, NEW i \in Nat \ {0}, Insert(d, i)
  PROVE  IInv'
<1>0. /\ hurt[d] = NoHarm /\ i \in 1 .. Len(file[d]) + 1 /\ Len(file[d]) \in Nat
      /\ file[d] \in Seq(Line) /\ UNCHANGED <<today, cut, mem, busy, writes, acked>>
  BY LenProperties DEF Insert, IInv, TypeOK
<1>1. PICK line \in Line, at \in {i, i + 1} :
        /\ file' = [file EXCEPT ![d] = InsertAt(file[d], i, line)] /\ Edited(d, at)
        /\ at = i => line.form # "sound"
        /\ at = i + 1 => line \in Believed(Before(d, i))
  <2>1. Believed(Before(d, i)) \subseteq Line /\ Doubtful(Before(d, i)) \subseteq Line
        /\ \A line \in Doubtful(Before(d, i)) : line.form = "altered"
    BY <1>0, BeforeHash, LeftLines
  <2>2. i + 1 # i
    OBVIOUS
  <2> QED
    BY <2>1, <2>2 DEF Insert
<1>2. /\ InsertAt(file[d], i, line) \in Seq(Line)
      /\ Len(InsertAt(file[d], i, line)) = Len(file[d]) + 1
      /\ \A j \in 1 .. i - 1 : InsertAt(file[d], i, line)[j] = file[d][j]
      /\ InsertAt(file[d], i, line)[i] = line
      /\ i <= Len(file[d]) => InsertAt(file[d], i, line)[i + 1] = file[d][i]
  <2>1. file[d] \in Seq(Line) /\ i \in 1 .. Len(file[d]) + 1 /\ line \in Line
    BY <1>0
  <2>2. PICK s \in Seq(Line) : s = file[d]
    BY <2>1
  <2>3. i \in 1 .. Len(s) + 1
    BY <2>1, <2>2
  <2>4. /\ InsertAt(s, i, line) \in Seq(Line)
        /\ Len(InsertAt(s, i, line)) = Len(s) + 1
        /\ \A j \in 1 .. i - 1 : InsertAt(s, i, line)[j] = s[j]
        /\ InsertAt(s, i, line)[i] = line
        /\ i <= Len(s) => InsertAt(s, i, line)[i + 1] = s[i]
    BY <2>3, InsertedAt
  <2> QED
    BY <2>2, <2>4
<1>3. /\ file' \in [Day -> Seq(Line)]
      /\ \A e \in Day \ {d} : file'[e] = file[e]
      /\ file'[d] = InsertAt(file[d], i, line)
  BY <1>1, <1>2 DEF IInv, TypeOK
<1>5. at \in 1 .. Len(file'[d]) => StopsAt(d, at)'
  <2>1. CASE at = i
    BY <1>0, <1>1, <1>2, <1>3, <2>1, StopsThere
  <2>2. CASE at = i + 1 /\ at \in 1 .. Len(file'[d])
    <3>1. i \in 1 .. Len(file[d])
      BY <1>0, <1>2, <1>3, <2>2
    <3>2. PICK n \in Numbers : line.hash = Rehash(n)
      BY <1>0, <1>1, <2>2, BeforeHash, LeftLines
    <3>3. file'[d][i + 1].prev # line.hash
      BY <1>0, <1>2, <1>3, <3>1, <3>2, NamesNoRehash
    <3> QED
      BY <1>0, <1>1, <1>2, <1>3, <2>2, <3>3, StopsThere
  <2> QED
    BY <1>1, <2>1, <2>2
<1>6. at \in Nat \ {0}
  BY <1>1
<1> QED
  BY <1>0, <1>1, <1>3, <1>5, <1>6, EditKeeps

\* The line after a removed one names a hash that covers another number.
LEMMA ExcisedFile ==
  ASSUME IInv, NEW d \in Day, NEW i \in Nat \ {0}, Excise(d, i)
  PROVE  IInv'
<1>0. PICK n \in Nat : n = Len(file[d])
  BY LenProperties DEF IInv, TypeOK
<1>1. /\ hurt[d] = NoHarm /\ i \in 1 .. n /\ file[d] \in Seq(Line)
      /\ file \in [Day -> Seq(Line)] /\ Edited(d, i)
      /\ UNCHANGED <<today, cut, mem, busy, writes, acked>>
  BY <1>0, LenProperties DEF Excise, IInv, TypeOK
<1>2. Good(d, n)
  BY <1>0, <1>1 DEF IInv, UnharmedGood
<1>3. file' = [file EXCEPT ![d] = RemoveAt(file[d], i)]
  BY DEF Excise
<1>4. /\ RemoveAt(file[d], i) \in Seq(Line)
      /\ Len(RemoveAt(file[d], i)) = n - 1
      /\ \A j \in 1 .. n - 1 :
           RemoveAt(file[d], i)[j] = IF j < i THEN file[d][j] ELSE file[d][j + 1]
  BY <1>0, <1>1, RemovedAt
<1>5. /\ file' \in [Day -> Seq(Line)]
      /\ \A e \in Day \ {d} : file'[e] = file[e]
      /\ Len(file'[d]) = n - 1
      /\ \A j \in 1 .. n - 1 :
           file'[d][j] = IF j < i THEN file[d][j] ELSE file[d][j + 1]
  BY <1>1, <1>3, <1>4
<1>6. ASSUME i \in 1 .. n - 1 PROVE StopsAt(d, i)'
  <2>1. i + 1 \in 1 .. n /\ i \in Nat \ {0} /\ i \in 1 .. n
    BY <1>6
  <2>2. ASSUME NEW j \in 1 .. i - 1 PROVE Linked(d, j)'
    <3>1. /\ j \in 1 .. n - 1 /\ j < i /\ j \in 1 .. n /\ j \in Nat \ {0}
          /\ j > 1 => j - 1 \in 1 .. n - 1 /\ j - 1 < i
      BY <2>1
    <3>2. Linked(d, j) /\ file'[d][j] = file[d][j] /\ (j > 1 => file'[d][j - 1] = file[d][j - 1])
      BY <1>2, <1>5, <3>1 DEF Good
    <3> QED
      BY <3>1, <3>2, LinkedKept
  <2>3. file'[d][i] = file[d][i + 1]
    BY <1>5, <1>6, <2>1
  <2>4. file[d][i + 1].prev = file[d][i].hash /\ file[d][i].hash[1] = i
    <3>1. Linked(d, i + 1) /\ file[d][i].hash[1] = i
      BY <1>2, <2>1 DEF Good
    <3>2. i + 1 # 1 /\ (i + 1) - 1 = i
      BY <2>1
    <3> QED
      BY <3>1, <3>2 DEF Linked, Before
  <2>5. ~Linked(d, i)'
    <3>1. CASE i = 1
      BY <2>3, <2>4, <3>1 DEF Linked, Before, Genesis
    <3>2. CASE i # 1
      <4>1. i - 1 \in 1 .. n /\ i - 1 \in 1 .. n - 1 /\ i - 1 < i
        BY <2>1, <3>2
      <4>2. file'[d][i - 1] = file[d][i - 1]
        BY <1>5, <4>1
      <4>3. file[d][i - 1].hash[1] = i - 1
        BY <1>2, <4>1 DEF Good
      <4>4. i - 1 # i
        BY <2>1
      <4> QED
        BY <2>3, <2>4, <3>2, <4>2, <4>3, <4>4 DEF Linked, Before
    <3> QED
      BY <3>1, <3>2
  <2> QED
    BY <2>2, <2>5 DEF StopsAt
<1> QED
  BY <1>1, <1>5, <1>6, EditKeeps


-----------------------------------------------------------------------------
(* The steps. *)

\* The head read back from an unharmed file is the end of its chain.
LEMMA SeedSound ==
  ASSUME IInv, NEW d \in Day
  PROVE  /\ Seed(d) = [day |-> d, seq |-> Seed(d).seq, prev |-> Seed(d).prev]
         /\ Seed(d).seq \in Nat /\ Seed(d).prev \in Hash
         /\ hurt[d] = NoHarm =>
              /\ Seed(d).seq = Len(file[d])
              /\ Seed(d).prev = IF Len(file[d]) = 0 THEN Genesis
                                ELSE file[d][Len(file[d])].hash
<1>0. PICK n \in Nat : n = Len(file[d])
  BY LenProperties DEF IInv, TypeOK
<1>2. file[d] \in Seq(Line) /\ (file[d] = <<>> <=> n = 0)
  BY <1>0, EmptySeq DEF IInv, TypeOK
<1>3. CASE n = 0
  <2>1. Seed(d) = [day |-> d, seq |-> 0, prev |-> Genesis]
    BY <1>2, <1>3 DEF Seed, Start
  <2> QED
    BY <1>0, <1>3, <2>1, LineTypes
<1>4. CASE n # 0
  <2>1. n \in 1 .. n
    BY <1>4
  <2>2. PICK last \in Line : last = file[d][n] /\ last.seq \in Nat
    BY <1>0, <2>1, LineAt DEF IInv
  <2>3. last.hash \in Hash
    BY <2>2 DEF Line
  <2>4. hurt[d] = NoHarm => last.form = "sound" /\ last.seq = n /\ last.hash # NoHash
    BY <1>0, <2>1, <2>2 DEF IInv, UnharmedGood, Good, Linked, NoHash
  <2>5. Seed(d) = IF last.form = "junk" \/ last.hash = NoHash THEN [day |-> d, seq |-> 0, prev |-> CorruptTail]
                  ELSE [day |-> d, seq |-> last.seq, prev |-> last.hash]
    BY <1>0, <1>2, <1>4, <2>2 DEF Seed, Start, Last
  <2> QED
    BY <1>0, <1>4, <2>2, <2>3, <2>4, <2>5, LineTypes
<1> QED
  BY <1>3, <1>4

\* Every file is as it was.
LEMMA FilesKept ==
  ASSUME IInv, UNCHANGED <<file, cut, hurt, acked>>
  PROVE  /\ \A d \in cut' : file'[d] # <<>>
         /\ \A d \in Day : UnharmedGood(d)' /\ EditedStops(d)'
  BY OtherKept DEF IInv

\* A file that could not be read is harmed, and the others are as they were.
LEMMA UnreadKept ==
  ASSUME IInv, NEW d \in Day, UNCHANGED <<file, cut, acked>>,
         hurt' \in {hurt, Worsen(d, "unread", Len(file[d]) + 1)}
  PROVE  /\ hurt' \in [Day -> Harm]
         /\ \A e \in cut' : file'[e] # <<>>
         /\ \A e \in Day : UnharmedGood(e)' /\ EditedStops(e)'
<1>1. CASE hurt' = hurt
  BY <1>1, FilesKept DEF IInv, TypeOK
<1>2. CASE hurt[d] = NoHarm /\ hurt' = Worsen(d, "unread", Len(file[d]) + 1)
  <2>1. [what |-> "unread", at |-> Len(file[d]) + 1] \in Harm
    BY LenProperties DEF IInv, TypeOK, Harm
  <2>2. /\ hurt' \in [Day -> Harm] /\ hurt'[d] = [what |-> "unread", at |-> Len(file[d]) + 1]
        /\ \A e \in Day \ {d} : hurt'[e] = hurt[e]
    BY <1>2, <2>1 DEF Worsen, IInv, TypeOK
  <2>3. hurt'[d] # NoHarm /\ hurt'[d].what = "unread"
    BY <2>2 DEF NoHarm
  <2>4. \A e \in Day \ {d} : UnharmedGood(e)' /\ EditedStops(e)'
    BY <2>2, OtherKept DEF IInv
  <2>5. UnharmedGood(d)' /\ EditedStops(d)'
    BY <2>3 DEF UnharmedGood, EditedStops
  <2> QED
    BY <2>2, <2>4, <2>5 DEF IInv
<1> QED
  BY <1>1, <1>2 DEF Worsen

LEMMA BeginKeeps ==
  ASSUME IInv, Begin
  PROVE  IInv'
<1>0. /\ ~busy /\ writes < MaxWrites /\ busy' = TRUE /\ writes' = writes + 1
      /\ UNCHANGED <<today, file, cut, acked>>
  BY DEF Begin
<1>1. today \in Day /\ today # 0 /\ writes \in 0 .. MaxWrites /\ MaxWrites \in Nat
  BY BoundsAssumption DEF IInv, TypeOK, Day
<1>2. \/ mem.day = today /\ mem' = mem /\ hurt' = hurt
      \/ mem' = Seed(today) /\ hurt' = hurt
      \/ mem' = Start(today, 0, Genesis) /\ hurt' = Worsen(today, "unread", Len(file[today]) + 1)
  BY DEF Begin, Seeds
<1>3. mem' \in [day : {0} \cup Day, seq : Nat, prev : Hash] /\ mem'.day = today
  <2>1. CASE mem.day = today /\ mem' = mem
    BY <2>1 DEF IInv, TypeOK
  <2>2. CASE mem' = Seed(today)
    <3>1. PICK q \in Nat, h \in Hash : Seed(today) = [day |-> today, seq |-> q, prev |-> h]
      BY <1>1, SeedSound
    <3> QED
      BY <1>1, <2>2, <3>1
  <2>3. CASE mem' = Start(today, 0, Genesis)
    BY <1>1, <2>3, LineTypes DEF Start
  <2> QED
    BY <1>2, <2>1, <2>2, <2>3
<1>4. /\ hurt' \in [Day -> Harm]
      /\ \A d \in cut' : file'[d] # <<>>
      /\ \A d \in Day : UnharmedGood(d)' /\ EditedStops(d)'
  BY <1>0, <1>1, <1>2, UnreadKept
<1>5. TypeOK'
  BY <1>0, <1>1, <1>3, <1>4 DEF IInv, TypeOK
<1>6. HeadSound'
  <2> SUFFICES ASSUME hurt'[today] = NoHarm
               PROVE  LET n == Len(file[today]) IN
                      /\ mem'.seq = n
                      /\ mem'.prev = IF n = 0 THEN Genesis ELSE file[today][n].hash
    BY <1>0, <1>3 DEF HeadSound
  <2>1. CASE mem.day = today /\ mem' = mem /\ hurt' = hurt
    BY <1>1, <2>1 DEF IInv, HeadSound
  <2>2. CASE mem' = Seed(today) /\ hurt' = hurt
    BY <1>1, <2>2, SeedSound
  <2>3. hurt' # Worsen(today, "unread", Len(file[today]) + 1) \/ hurt[today] # NoHarm
    BY <1>1 DEF Worsen, NoHarm, IInv, TypeOK
  <2>4. hurt[today] # NoHarm => Worsen(today, "unread", Len(file[today]) + 1) = hurt
    BY DEF Worsen
  <2> QED
    BY <1>2, <2>1, <2>2, <2>3, <2>4
<1> QED
  BY <1>4, <1>5, <1>6 DEF IInv

LEMMA OpenFailsKeeps ==
  ASSUME IInv, OpenFails
  PROVE  IInv'
<1>0. /\ ~busy /\ mem' \in {[Seed(today) EXCEPT !.day = 0], Closed}
      /\ UNCHANGED <<today, file, cut, busy, writes, acked, hurt>>
  BY DEF OpenFails
<1>1. PICK q \in Nat, h \in Hash : mem' = [day |-> 0, seq |-> q, prev |-> h]
  <2>1. PICK q \in Nat, h \in Hash : Seed(today) = [day |-> today, seq |-> q, prev |-> h]
    BY SeedSound DEF IInv, TypeOK
  <2> QED
    BY <1>0, <2>1, LineTypes DEF Closed
<1>2. TypeOK'
  BY <1>0, <1>1 DEF IInv, TypeOK
<1>3. HeadSound'
  BY <1>1 DEF HeadSound
<1> QED
  BY <1>0, <1>2, <1>3, FilesKept DEF IInv

\* The parts of IInv about the files after a write that has ended, whole or torn.
LEMMA EndedWrite ==
  ASSUME IInv, busy, ~busy', UNCHANGED <<today, writes>>,
         \/ /\ file' = Extended(mem.day, Entry) /\ cut' = cut \ {mem.day} /\ hurt' = hurt
            /\ \/ acked' = acked
               \/ acked' = [acked EXCEPT ![mem.day] = @ + 1]
         \/ (UNCHANGED <<file, cut, hurt>> \/ Torn(Junk) \/ Torn(Entry)) /\ acked' = acked
  PROVE  /\ file' \in [Day -> Seq(Line)] /\ cut' \subseteq Day
         /\ hurt' \in [Day -> Harm] /\ acked' \in [Day -> Nat]
         /\ \A d \in cut' : file'[d] # <<>>
         /\ \A d \in Day : UnharmedGood(d)' /\ EditedStops(d)'
<1>0. mem.day \in Day /\ writes \in Nat /\ mem.seq \in Nat /\ acked \in [Day -> Nat]
  BY BoundsAssumption DEF IInv, TypeOK
<1>3. Junk \in Line /\ Entry \in Line
  BY LineTypes DEF IInv
<1>4. CASE /\ file' = Extended(mem.day, Entry) /\ cut' = cut \ {mem.day} /\ hurt' = hurt
           /\ \/ acked' = acked
              \/ acked' = [acked EXCEPT ![mem.day] = @ + 1]
  <2>1. /\ acked' \in [Day -> Nat]
        /\ acked'[mem.day] \in {acked[mem.day], acked[mem.day] + 1}
        /\ \A e \in Day \ {mem.day} : acked'[e] = acked[e]
    BY <1>0, <1>4
  <2>2. file' \in [Day -> Seq(Line)]
    BY <1>0, <1>3, <1>4, ExtendedFile DEF IInv
  <2>3. cut' \subseteq Day /\ hurt' \in [Day -> Harm]
    BY <1>4 DEF IInv, TypeOK
  <2>5. /\ \A e \in Day : UnharmedGood(e)' /\ EditedStops(e)'
        /\ \A e \in cut' : file'[e] # <<>>
    <3>1. PICK d \in Day : d = mem.day
      BY <1>0
    <3>2. file' = Extended(d, Entry) /\ cut' = cut \ {d}
          /\ acked'[d] \in {acked[d], acked[d] + 1}
          /\ \A e \in Day \ {d} : acked'[e] = acked[e]
      BY <1>4, <2>1, <3>1
    <3> QED
      BY <1>4, <3>1, <3>2, WholeLine
  <2> QED
    BY <2>1, <2>2, <2>3, <2>5
<1>5. CASE UNCHANGED <<file, cut, hurt>> /\ acked' = acked
  <2>1. /\ file' \in [Day -> Seq(Line)] /\ cut' \subseteq Day
        /\ hurt' \in [Day -> Harm] /\ acked' \in [Day -> Nat]
    BY <1>5 DEF IInv, TypeOK
  <2> QED
    BY <1>5, <2>1, FilesKept
<1>6. ASSUME NEW line \in Line, Torn(line), acked' = acked
      PROVE  /\ file' \in [Day -> Seq(Line)] /\ cut' \subseteq Day
             /\ hurt' \in [Day -> Harm] /\ acked' \in [Day -> Nat]
             /\ \A d \in cut' : file'[d] # <<>>
             /\ \A d \in Day : UnharmedGood(d)' /\ EditedStops(d)'
  BY <1>0, <1>6, TornLine
<1>7. CASE (Torn(Junk) \/ Torn(Entry)) /\ acked' = acked
  BY <1>3, <1>6, <1>7
<1> QED
  BY <1>4, <1>5, <1>7

LEMMA CommitKeeps ==
  ASSUME IInv, Commit
  PROVE  IInv'
<1>0. /\ busy /\ ~busy' /\ busy' = FALSE /\ UNCHANGED <<today, writes>>
      /\ file' = Extended(mem.day, Entry) /\ cut' = cut \ {mem.day} /\ hurt' = hurt
      /\ acked' = [acked EXCEPT ![mem.day] = @ + 1]
  BY DEF Commit
<1>1. mem.day \in Day /\ mem.day # 0 /\ mem.seq \in Nat /\ writes \in Nat
      /\ acked \in [Day -> Nat] /\ Entry.hash \in Hash
  <2>1. Entry.hash \in Hash
    BY LineTypes DEF IInv, Line
  <2> QED
    BY <1>0, <2>1, BoundsAssumption DEF IInv, TypeOK
<1>2. mem' = [day |-> mem.day, seq |-> mem.seq + 1, prev |-> Entry.hash]
  BY DEF Commit, Advance, IInv, TypeOK
<1>3. /\ file' \in [Day -> Seq(Line)] /\ cut' \subseteq Day
      /\ hurt' \in [Day -> Harm] /\ acked' \in [Day -> Nat]
      /\ \A d \in cut' : file'[d] # <<>>
      /\ \A d \in Day : UnharmedGood(d)' /\ EditedStops(d)'
  BY <1>0, EndedWrite
<1>4. TypeOK'
  <2>1. mem' \in [day : {0} \cup Day, seq : Nat, prev : Hash]
    BY <1>0, <1>1, <1>2
  <2> QED
    BY <1>0, <1>3, <2>1 DEF IInv, TypeOK
<1>5. HeadSound'
  <2>1. PICK d \in Day : d = mem.day
    BY <1>1
  <2>2. hurt[d] = NoHarm => /\ Len(file'[d]) = mem.seq + 1
                            /\ file'[d][mem.seq + 1].hash = Entry.hash
    <3>1. /\ file' = Extended(d, Entry) /\ cut' = cut \ {d}
          /\ acked'[d] \in {acked[d], acked[d] + 1}
          /\ \A e \in Day \ {d} : acked'[e] = acked[e]
      BY <1>0, <1>1, <2>1
    <3> QED
      BY <1>0, <2>1, <3>1, WholeLine
  <2>3. mem.seq + 1 # 0
    BY <1>1
  <2> QED
    BY <1>0, <1>2, <2>1, <2>2, <2>3 DEF HeadSound
<1> QED
  BY <1>3, <1>4, <1>5 DEF IInv

LEMMA WriteFailsKeeps ==
  ASSUME IInv, WriteFails
  PROVE  IInv'
<1>0. /\ busy /\ busy' = FALSE /\ UNCHANGED <<today, mem, writes, acked>>
      /\ UNCHANGED <<file, cut, hurt>> \/ Torn(Junk) \/ Torn(Entry)
  BY DEF WriteFails
<1>1. /\ file' \in [Day -> Seq(Line)] /\ cut' \subseteq Day
      /\ hurt' \in [Day -> Harm] /\ acked' \in [Day -> Nat]
      /\ \A d \in cut' : file'[d] # <<>>
      /\ \A d \in Day : UnharmedGood(d)' /\ EditedStops(d)'
  BY <1>0, EndedWrite
<1>2. mem.day \in Day /\ mem.day # 0 /\ mem.seq \in Nat /\ writes \in Nat
  BY <1>0, BoundsAssumption DEF IInv, TypeOK
<1>3. TypeOK'
  BY <1>0, <1>1 DEF IInv, TypeOK
<1>4. HeadSound'
  <2>1. CASE UNCHANGED <<file, cut, hurt>>
    BY <1>0, <2>1 DEF IInv, HeadSound
  <2>2. CASE Torn(Junk) \/ Torn(Entry)
    <3>1. hurt'[mem.day] # NoHarm
      BY <1>0, <1>2, <2>2, LineTypes, TornLine DEF IInv
    <3> QED
      BY <1>0, <3>1 DEF HeadSound
  <2> QED
    BY <1>0, <2>1, <2>2
<1> QED
  BY <1>1, <1>3, <1>4 DEF IInv

LEMMA CrashKeeps ==
  ASSUME IInv, Crash
  PROVE  IInv'
<1>0. /\ mem' = Closed /\ busy' = FALSE /\ UNCHANGED <<today, writes, acked>>
      /\ \/ UNCHANGED <<file, cut, hurt>>
         \/ busy /\ (Torn(Junk) \/ Torn(Entry))
         \/ busy /\ file' = Extended(mem.day, Entry) /\ cut' = cut \ {mem.day} /\ hurt' = hurt
  BY DEF Crash
<1>1. writes \in 0 .. MaxWrites /\ writes \in Nat
  BY BoundsAssumption DEF IInv, TypeOK
<1>2. /\ file' \in [Day -> Seq(Line)] /\ cut' \subseteq Day
      /\ hurt' \in [Day -> Harm] /\ acked' \in [Day -> Nat]
      /\ \A d \in cut' : file'[d] # <<>>
      /\ \A d \in Day : UnharmedGood(d)' /\ EditedStops(d)'
  <2>1. CASE busy
    BY <1>0, <2>1, EndedWrite
  <2>2. CASE ~busy
    BY <1>0, <2>2, FilesKept DEF IInv, TypeOK
  <2> QED
    BY <2>1, <2>2
<1>3. TypeOK'
  <2>1. mem' \in [day : {0} \cup Day, seq : Nat, prev : Hash]
    BY <1>0, <1>1, LineTypes DEF Closed
  <2> QED
    BY <1>0, <1>2, <2>1 DEF IInv, TypeOK
<1>4. HeadSound'
  BY <1>0 DEF HeadSound, Closed
<1> QED
  BY <1>2, <1>3, <1>4 DEF IInv

-----------------------------------------------------------------------------
(* The theorems. *)

LEMMA InitIInv == Init => IInv
<1> SUFFICES ASSUME Init PROVE IInv
  OBVIOUS
<1>1. TypeOK
  <2>1. <<>> \in Seq(Line) /\ 1 \in Day /\ writes \in 0 .. MaxWrites
    BY BoundsAssumption, EmptySeq DEF Day, Init
  <2>2. mem \in [day : {0} \cup Day, seq : Nat, prev : Hash]
    BY LineTypes DEF Init, Closed
  <2> QED
    BY <2>1, <2>2, LineTypes DEF Init, TypeOK
<1>2. \A d \in Day : Len(file[d]) = 0 /\ acked[d] = 0 /\ hurt[d] = NoHarm
  BY EmptySeq DEF Init
<1>3. \A d \in Day : UnharmedGood(d)
  BY <1>2 DEF UnharmedGood, Good, Init
<1>4. \A d \in Day : EditedStops(d)
  BY <1>2 DEF EditedStops, NoHarm
<1>5. HeadSound
  BY <1>2 DEF Init, Closed, HeadSound
<1> QED
  BY <1>1, <1>3, <1>4, <1>5 DEF IInv, Init

LEMMA NextIInv == IInv /\ [Next]_vars => IInv'
<1> SUFFICES ASSUME IInv, [Next]_vars PROVE IInv'
  OBVIOUS
<1>1. CASE Begin
  BY <1>1, BeginKeeps
<1>2. CASE OpenFails
  BY <1>2, OpenFailsKeeps
<1>3. CASE Commit
  BY <1>3, CommitKeeps
<1>4. CASE WriteFails
  BY <1>4, WriteFailsKeeps
<1>5. CASE Crash
  BY <1>5, CrashKeeps
<1>6. CASE NextDay
  <2>1. today' \in Day
    BY <1>6, BoundsAssumption DEF NextDay, IInv, TypeOK, Day
  <2>2. TypeOK' /\ HeadSound'
    BY <1>6, <2>1 DEF NextDay, IInv, TypeOK, HeadSound
  <2> QED
    BY <1>6, <2>2, FilesKept DEF NextDay, IInv
<1>7. ASSUME NEW d \in Day, NEW i \in 1 .. MaxWrites + 1, Alter(d, i) \/ Insert(d, i)
      PROVE  IInv'
  BY <1>7, AlteredFile, InsertedFile, BoundsAssumption
<1>8. ASSUME NEW d \in Day, NEW i \in 1 .. MaxWrites + 1, Excise(d, i)
      PROVE  IInv'
  BY <1>8, ExcisedFile, BoundsAssumption
<1>9. CASE UNCHANGED vars
  <2>1. TypeOK' /\ HeadSound'
    BY <1>9 DEF vars, IInv, TypeOK, HeadSound
  <2> QED
    BY <1>9, <2>1, FilesKept DEF vars, IInv
<1> QED
  BY <1>1, <1>2, <1>3, <1>4, <1>5, <1>6, <1>7, <1>8, <1>9 DEF Next

LEMMA Invariance == Spec => []IInv
  BY InitIInv, NextIInv, PTL DEF Spec

\* The variables keep their types: no write, crash, midnight or edit leaves a
\* head or a line auditV2SeedFor could not read back.
THEOREM TypeCorrect == Spec => []TypeOK
<1>1. IInv => TypeOK
  BY DEF IInv
<1> QED
  BY <1>1, Invariance, PTL

\* A file that nothing harmed verifies with every acknowledged write counted,
\* whatever crashes, midnights and failed writes auditV2Write has met.
THEOREM Unharmed == Spec => []UnharmedIntact
<1>1. IInv => UnharmedIntact
  <2> SUFFICES ASSUME IInv, NEW d \in Day, hurt[d] = NoHarm
               PROVE  Stops(d) = {} /\ Total(d) = Len(file[d]) /\ acked[d] <= Total(d)
    BY DEF UnharmedIntact
  <2>0. PICK n \in Nat : n = Len(file[d]) /\ DOMAIN file[d] = 1 .. n
    BY LenProperties DEF IInv, TypeOK
  <2>1. Good(d, n) /\ acked[d] <= n
    BY <2>0 DEF IInv, UnharmedGood
  <2>2. Stops(d) = {}
    BY <2>0, <2>1 DEF Stops, Good
  <2>3. Checked(d) = n
    BY <2>0, <2>2 DEF Checked
  <2>4. Total(d) = n
    <3>1. n # 0 => n \in 1 .. n
      OBVIOUS
    <3> QED
      BY <2>0, <2>1, <2>3, <3>1 DEF Total, Good
  <2> QED
    BY <2>0, <2>1, <2>2, <2>4
<1> QED
  BY <1>1, Invariance, PTL

\* auditV2Verify counts no line from the first on that an edit left unfit, and handleAuditVerify
\* calls the file intact only if that line is numbered 0.
THEOREM Located == Spec => []TamperLocated
<1>1. IInv => TamperLocated
  <2> SUFFICES ASSUME IInv, NEW d \in Day, hurt[d].what = "edited"
               PROVE  LET line == file[d][hurt[d].at] IN
                      /\ Checked(d) = hurt[d].at - 1
                      /\ Broken(d) = line.seq
                      /\ Intact(d) => line.seq = 0
    BY DEF TamperLocated
  <2>0. PICK n \in Nat : n = Len(file[d]) /\ DOMAIN file[d] = 1 .. n
    BY LenProperties DEF IInv, TypeOK
  <2>1. PICK a \in 1 .. n : a = hurt[d].at /\ StopsAt(d, a)
    BY <2>0 DEF IInv, EditedStops
  <2>2. \A i \in 1 .. n : i < a => Linked(d, i)
    <3>1. \A i \in 1 .. n : i < a => i \in 1 .. a - 1
      OBVIOUS
    <3> QED
      BY <2>1, <3>1 DEF StopsAt
  <2>3. a \in Stops(d) /\ \A i \in Stops(d) : a <= i /\ i \in Nat
    BY <2>0, <2>1, <2>2 DEF Stops, StopsAt
  <2>4. FirstStop(d) = a
    <3>1. \A i \in Stops(d) : (\A j \in Stops(d) : i <= j) => i = a
      BY <2>3
    <3> QED
      BY <2>3, <3>1 DEF FirstStop
  <2>5. Broken(d) = file[d][a].seq /\ Checked(d) = a - 1
    BY <2>3, <2>4 DEF Broken, Checked
  <2> QED
    BY <2>1, <2>5 DEF Intact
<1> QED
  BY <1>1, Invariance, PTL

=============================================================================

------------------------------ MODULE Tripwire ------------------------------
(***************************************************************************)
(* The detector of injected instructions and leaks (package tripwire, and  *)
(* tripwire_bridge.go): a pipeline that undoes disguises of characters,    *)
(* looks for phrases, secrets and links, decodes what looks encoded and    *)
(* looks again.                                                            *)
(*                                                                         *)
(* Analyze reads a text rune by rune; here a rune is its class.  For Scan  *)
(* a text is the sequence of the things in it that the patterns can find,  *)
(* each in some disguise.  A thing that is encoded has the length of its   *)
(* encoding with it; a thing other than a quote is taken for longer than   *)
(* the 64 bytes in which a mention is looked for.  Scores are in           *)
(* hundredths.                                                             *)
(***************************************************************************)
EXTENDS Naturals, Sequences, FiniteSets, FiniteSetsExt

CONSTANTS
  Class,      \* classes of runes that texts are made of
  MaxRunes,   \* bound on the runes of a text
  Thing,      \* what texts are made of for Scan
  MaxThings,  \* bound on the things of a text
  Scanning    \* direction and source of the texts that are scanned

Hidden == {"zero", "bidi", "tag", "mark"}
AllClasses == Hidden \cup {"plain", "alike", "accent", "wide"}
Guises == {"", "folded", "base64", "hex", "vs", "url", "rot13"}
Kinds == {"phrase", "secret", "weak", "link", "meta", "quote", "foreign"}
Levels == 0..4

TripwireAssumption ==
  /\ Class \subseteq AllClasses /\ {MaxRunes, MaxThings} \subseteq Nat
  /\ \A x \in Thing :
       x \in [kind : Kinds, label : STRING, score : 0..100, sev : Levels, guise : Guises, run : Nat]
  /\ Scanning \subseteq [out : BOOLEAN, source : {"user", "model", "tool"}]

VARIABLES
  text,    \* the runes of the text
  pass,    \* what Analyze has made of the first of them
  things,  \* the text as Scan sees it
  result   \* what Scan found in it, and how it was asked

vars == <<text, pass, things, result>>

-----------------------------------------------------------------------------
(* Normalisation. *)

\* How many bytes of UTF-8 a rune has, and how many are left of it: of a tag its letter.
Bytes(c) ==
  CASE c = "plain" -> 1 [] c \in {"alike", "accent"} -> 2 [] c \in {"tag", "mark"} -> 4 [] OTHER -> 3
\* confusableToASCII and simpleNFKC make one letter of one rune.
Left(c) == CASE c \in {"zero", "bidi", "mark"} -> 0 [] c = "wide" -> 3 [] OTHER -> 1

\* smuggleOf, and the runs of look-alikes.
Smuggles(c) ==
  CASE c \in {"tag", "mark"} -> "tag" [] c \in {"zero", "bidi"} -> c
    [] c = "alike" -> "alike" [] OTHER -> ""

None == [of |-> "", start |-> 0, end |-> 0]
Started == [at |-> 0, offset |-> 0, map |-> <<>>, run |-> None, found |-> <<>>]

Flushed(run, found) == IF run = None THEN found ELSE Append(found, run)

FaultNextRun(run, c, offset, end) ==
  IF Smuggles(c) = "" THEN None ELSE [of |-> Smuggles(c), start |-> offset, end |-> end]

\* The run that goes on, or begins, with a rune.  Of the two runs of the code, of
\* smuggled runes and of look-alikes, each ends when the other begins.
NextRun(run, c, offset, end) ==
  CASE Smuggles(c) = "" -> None
    [] Smuggles(c) # "" /\ run.of = Smuggles(c) -> [run EXCEPT !.end = end]
    [] OTHER -> [of |-> Smuggles(c), start |-> offset, end |-> end]

Read ==
  /\ pass.at < Len(text)
  /\ LET c == text[pass.at + 1]
         end == pass.offset + Bytes(c)
         next == NextRun(pass.run, c, pass.offset, end)
     IN pass' = [at |-> pass.at + 1, offset |-> end,
                 map |-> IF Left(c) = 0 THEN pass.map ELSE Append(pass.map, pass.offset),
                 run |-> next,
                 found |-> IF next # None /\ next.start = pass.run.start /\ pass.run # None
                           THEN pass.found ELSE Flushed(pass.run, pass.found)]
  /\ UNCHANGED <<text, things, result>>

\* The end of the text: the last run is told, and the map gets its last entry.
Flush ==
  /\ pass.at = Len(text) /\ text # <<>>
  /\ pass' = [pass EXCEPT !.at = Len(text) + 1, !.run = None, !.map = Append(@, pass.offset),
                          !.found = Flushed(pass.run, @)]
  /\ UNCHANGED <<text, things, result>>

ToOriginal(byte) == IF byte < Len(pass.map) THEN pass.map[byte + 1] ELSE pass.offset

-----------------------------------------------------------------------------
(* Scanning. *)

Severity(score) ==
  CASE score >= 90 -> 4 [] score >= 70 -> 3 [] score >= 50 -> 2 [] score >= 30 -> 1 [] OTHER -> 0

\* What the patterns can read of a text that was only normalised, and of one decoded: quotes
\* and digits have no letters to rotate.
Foreign(t) == \E i \in DOMAIN t : t[i].kind = "foreign"
Noise == [kind |-> "noise", label |-> "", score |-> 0, sev |-> 0, guise |-> "", run |-> 0]
Readable(t, guises) == [i \in DOMAIN t |-> IF t[i].guise \in guises THEN t[i] ELSE Noise]
Normal == {"", "folded"}
Unescaped == {"", "url"}
Lettered(x) == x.guise = "" /\ x.label \notin {"quote", "date", "us_ssn"}
Rotated(t) ==
  [i \in DOMAIN t |-> IF t[i].guise \in {"", "rot13"} /\ ~Lettered(t[i]) THEN t[i] ELSE Noise]

\* base64RunRe, hexRunRe and vsMinRun: what is long enough to be tried, and of hex digits an
\* even number.
LongEnough(x) ==
  CASE x.guise = "base64" -> x.run >= 16
    [] x.guise = "hex" -> x.run >= 32 /\ x.run % 2 = 0
    [] x.guise = "vs" -> x.run >= 4
    [] OTHER -> FALSE

\* DecodeCandidates, of the text as it came: a run of base64, of hex or of variation
\* selectors by itself, escapes and letters in the whole text; what comes out must be
\* ASCII for the most part.
Layers(t) ==
  {<<t[i].guise, <<t[i]>>>> : i \in {j \in DOMAIN t : LongEnough(t[j])}}
    \cup (IF Foreign(t) THEN {}
          ELSE {<<"rot13", Rotated(t)>>}
                 \cup (IF \E i \in DOMAIN t : t[i].guise = "url"
                       THEN {<<"url", Readable(t, Unescaped)>>} ELSE {}))

\* metaMultiplier: the text right before speaks about phrases, or ends with a quote.
Multiplier(view, i) ==
  LET Is(kind, k) == k > 0 /\ view[k].kind = kind
  IN CASE Is("meta", i - 1) \/ (Is("quote", i - 1) /\ Is("meta", i - 2)) -> 25
       [] Is("quote", i - 1) -> 40
       [] OTHER -> 100

\* emitFinding, and 0 for a score that is too low.
Rated(view, i, source) ==
  LET score == Min({100, (view[i].score * (IF source = "tool" THEN 115 ELSE 100)
                            * Multiplier(view, i)) \div 10000})
  IN IF score < 10 THEN 0 ELSE score

\* The score of what was decoded is raised; its severity is what it was before.
Finding(layer, label, score, sev) ==
  [layer |-> layer, label |-> label, sev |-> sev,
   score |-> IF layer = "" THEN score ELSE Min({100, score + 5})]

\* ScanInjection, in what comes in; ScanExfil; ScanMarkdown in what goes out.
Injections(layer, view, how) ==
  LET hits == SelectSeq([i \in DOMAIN view |-> i],
                        LAMBDA i : view[i].kind = "phrase" /\ Rated(view, i, how.source) > 0)
      Hit(k) == Rated(view, hits[k], how.source)
  IN IF how.out THEN <<>>
     ELSE [k \in DOMAIN hits |-> Finding(layer, view[hits[k]].label, Hit(k), Severity(Hit(k)))]

\* Signs of a person that say little alone; a number of the social security is one of them.
Personal(view) ==
  {x.label : x \in {view[i] : i \in {j \in DOMAIN view :
                                       view[j].kind = "weak" \/ view[j].label = "us_ssn"}}}

Exfils(layer, view, how) ==
  LET hits == SelectSeq(view, LAMBDA x : x.score > 0 /\ (x.kind \in {"secret", "weak"}
                                                           \/ (x.kind = "link" /\ how.out)))
  IN [k \in DOMAIN hits |-> Finding(layer, hits[k].label, hits[k].score, hits[k].sev)]
       \o (IF Cardinality(Personal(view)) > 1 THEN <<Finding(layer, "pii_cluster", 60, 2)>>
           ELSE <<>>)

\* The links of a text as it came, when a model or a tool wrote it or it goes out.
Links(t, how) ==
  LET hits == SelectSeq(t, LAMBDA x : x.kind = "link" /\ x.guise = "")
  IN IF how.out \/ how.source # "user"
     THEN [k \in DOMAIN hits |-> Finding("", hits[k].label, hits[k].score, hits[k].sev)]
     ELSE <<>>

\* dedup: the first finding of a label and a layer stays, whatever its score.
Dedup(findings) ==
  LET First(i) == \A j \in 1..(i - 1) :
        findings[j].label # findings[i].label \/ findings[j].layer # findings[i].layer
  IN {findings[i] : i \in {k \in DOMAIN findings : First(k)}}

\* Findings that only inform are dropped at the end.
Found(t, how) ==
  LET Both(layer, view) == Injections(layer, view, how) \o Exfils(layer, view, how)
      Deep(l) == Both(l[1], l[2])
      Any(S) == CHOOSE l \in S : TRUE
      all == Both("", Readable(t, Normal)) \o Links(t, how)
               \o MapThenFoldSet(\o, <<>>, Deep, Any, Layers(t))
  IN {f \in Dedup(all) : f.sev > 0}

\* scanInbound and scanOutbound: something of a high severity.
Blocks(findings) == \E f \in findings : f.sev >= 3

Scan(how) ==
  /\ things # <<>>
  /\ result' = [how |-> how, of |-> things, found |-> Found(things, how)]
  /\ UNCHANGED <<text, pass, things>>

-----------------------------------------------------------------------------
(* The texts. *)

WriteRune(c) ==
  /\ pass = Started /\ Len(text) < MaxRunes /\ text' = Append(text, c)
  /\ UNCHANGED <<pass, things, result>>

WriteThing(thing) ==
  /\ Len(things) < MaxThings /\ things' = Append(things, thing)
  /\ UNCHANGED <<text, pass, result>>

NoResult == [how |-> [out |-> FALSE, source |-> "user"], of |-> <<>>, found |-> {}]

Init == text = <<>> /\ pass = Started /\ things = <<>> /\ result = NoResult

Next ==
  \/ \E c \in Class : WriteRune(c)
  \/ Read \/ Flush
  \/ \E thing \in Thing : WriteThing(thing)
  \/ \E how \in Scanning : Scan(how)

Spec == Init /\ [][Next]_vars

TypeOK ==
  /\ text \in Seq(Class) /\ things \in Seq(Thing)
  /\ pass.at \in 0..(Len(text) + 1) /\ pass.map \in Seq(0..pass.offset)
  /\ result.how \in Scanning \cup {NoResult.how} /\ result.of \in Seq(Thing)

-----------------------------------------------------------------------------
\* Where a rune begins in the text as it came.
Start(i) == SumFunction([j \in 1..(i - 1) |-> Bytes(text[j])])

\* The longest stretches of runes of one disguise.
Stretches ==
  {[of |-> Smuggles(text[s[1]]), start |-> Start(s[1]), end |-> Start(s[2] + 1)] :
     s \in {r \in (1..Len(text)) \X (1..Len(text)) :
       /\ r[1] <= r[2] /\ Smuggles(text[r[1]]) # ""
       /\ \A k \in r[1]..r[2] : Smuggles(text[k]) = Smuggles(text[r[1]])
       /\ r[1] > 1 => Smuggles(text[r[1] - 1]) # Smuggles(text[r[1]])
       /\ r[2] < Len(text) => Smuggles(text[r[2] + 1]) # Smuggles(text[r[1]])}}

\* When a text is read, each stretch of disguised runes is told once, with its place, and
\* the map leads from every letter that is left to the rune it comes from, as long as no
\* rune of several bytes is left before it.
RunesTold ==
  pass.at = Len(text) + 1 =>
    /\ Range(pass.found) = Stretches /\ Len(pass.found) = Cardinality(Stretches)
    /\ \A i \in 1..Len(text) :
         (Left(text[i]) > 0 /\ \A j \in 1..(i - 1) : Left(text[j]) < 2)
           => ToOriginal(Cardinality({j \in 1..(i - 1) : Left(text[j]) > 0})) = Start(i)

Plain(t) == [i \in DOMAIN t |-> [t[i] EXCEPT !.guise = ""]]

\* A text that is blocked as it is stays so when one thing in it is disguised, by its
\* characters or by an encoding that is long enough to be tried, whatever is said around it.
\* Apart from links that come in, text that is not ASCII, and two things of one label, of
\* which only the first counts.
NoShield ==
  LET t == result.of
  IN (/\ Cardinality({i \in DOMAIN t : t[i].guise # ""}) = 1
      /\ \A i \in DOMAIN t : t[i].guise \in {"base64", "hex", "vs"} => LongEnough(t[i])
      /\ ~Foreign(t) /\ IsInjective([i \in DOMAIN t |-> t[i].label])
      /\ result.how.out \/ \A i \in DOMAIN t : t[i].kind # "link"
      /\ Blocks(Found(Plain(t), result.how)))
       => Blocks(result.found)

\* package tripwire: disguises are seen and undone.
DisguisesUndone == RunesTold /\ NoShield

=============================================================================

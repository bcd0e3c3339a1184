----------------------------- MODULE Assistant -----------------------------
(***************************************************************************)
(* The assistant (crownext/assistant): one conversation, the providers     *)
(* that may answer it, and the tools with their quotas and confirmations.  *)
(*                                                                         *)
(* A conversation is an object in memory and a file.  A handler that does  *)
(* not find it in memory reads the file and then enters a new object, in   *)
(* two steps; it keeps the object it got, while messages go to the one     *)
(* that is in memory then.  Every change of the object is saved at once;   *)
(* the server does not look whether that succeeded, and a crash may leave  *)
(* a torn file.                                                            *)
(*                                                                         *)
(* The server itself never calls a tool: a call is what the package        *)
(* offers, PreInvoke with a token and then Invoke.                         *)
(***************************************************************************)
EXTENDS Naturals, Sequences, FiniteSets

CONSTANTS
  Handler,   \* goroutines that serve a request
  Ask,       \* what a request of the chat may set: a mode (Unset for none), a provider
  Provider,  \* the registered providers
  Tool,      \* tools: rank required, in the list of the guard, marked in its definition
  Role,      \* ranks of the callers
  Token,     \* tokens of confirmation ever given
  QuotaMax,  \* quotaMax; 0 for no quota
  MaxCtx,    \* maxCtx
  MaxSaid    \* bound: no request comes in after so many messages

Unset == ""

AssistantAssumption ==
  /\ Ask \subseteq [mode : {Unset, "auto", "manual"}, pin : Provider \cup {Unset}]
  /\ Tool \subseteq [rank : 0..2, listed : BOOLEAN, marked : BOOLEAN] /\ Role \subseteq 0..2
  /\ {QuotaMax, MaxSaid} \subseteq Nat /\ MaxCtx \in Nat \ {0}
  /\ IsFiniteSet(Handler)

VARIABLES
  desk,      \* the objects of the conversation, which is in memory, the file, what was
             \* said, that much of it at the last save (safe), the last save failed (behind)
  handler,   \* what each handler does
  provider,  \* health of the providers
  gate,      \* pending confirmations
  used       \* the quotas that were used

vars == <<desk, handler, provider, gate, used>>

Idle == [at |-> "idle"]
Torn == [torn |-> TRUE]
Message == [system : BOOLEAN, n : Nat]
Session == [messages : Seq(Message), manual : BOOLEAN, pin : Provider \cup {Unset}]
Fresh == [messages |-> <<>>, manual |-> FALSE, pin |-> Unset]

Chatting == [at : {"read", "mode", "pin", "say", "select", "answer", "sorry"}, ask : Ask, object : Nat]
Entering == [at : {"insert"}, ask : Ask, read : Session]
Calling == [at : {"invoke", "execute"}, tool : Tool, role : Role, confirmed : BOOLEAN]

TypeOK ==
  /\ \A i \in DOMAIN desk.objects : desk.objects[i] \in Session
  /\ desk.table \in 0..Len(desk.objects) /\ desk.file \in Session \cup {Torn}
  /\ desk.behind \in BOOLEAN
  /\ \A h \in Handler :
       handler[h] = Idle \/ handler[h] \in Chatting \/ handler[h] \in Entering
         \/ handler[h] \in Calling
  /\ provider \in [Provider -> [healthy : BOOLEAN, stale : BOOLEAN]]
  /\ \A t \in DOMAIN gate : gate[t] \in [confirmed : BOOLEAN, expired : BOOLEAN]
  /\ used \in [Role \X Tool -> Nat]

Do(h, what) == handler' = [handler EXCEPT ![h] = what]
Goto(h, at) == Do(h, [handler[h] EXCEPT !.at = at])

-----------------------------------------------------------------------------
(* The conversation. *)

\* A sequence without one of its places; the end of a sequence.
Without(s, i) == SubSeq(s, 1, i - 1) \o SubSeq(s, i + 1, Len(s))
Last(s, n) == SubSeq(s, Len(s) - n + 1, Len(s))

\* The first message of the system.
Systems(messages) == {i \in 1..Len(messages) : messages[i].system}
First(messages) == CHOOSE i \in Systems(messages) : \A j \in Systems(messages) : i <= j

FaultTrim(messages) ==
  IF Len(messages) <= MaxCtx THEN messages
  ELSE IF Systems(messages) = {} THEN Last(messages, MaxCtx)
  ELSE <<messages[First(messages)]>> \o Last(messages, MaxCtx - 1)

\* AddMessage: the first message of the system comes to the front, with the most recent
\* ones; if it is one of these itself, there is one less.
Trim(messages) ==
  LET first == First(messages)
      kept == IF first < Len(messages) - MaxCtx + 2 THEN MaxCtx - 1 ELSE MaxCtx - 2
  IN IF Len(messages) <= MaxCtx THEN messages
     ELSE IF Systems(messages) = {} THEN Last(messages, MaxCtx)
     ELSE <<messages[first]>> \o Last(Without(messages, first), kept)

Current == desk.objects[desk.table]

\* The object that is in memory is changed, and saved, or not: the file cannot be opened,
\* or the disk is full once it is empty.
Stored(session, sent) ==
  LET changed == [desk EXCEPT !.objects[desk.table] = session, !.sent = sent]
  IN {[changed EXCEPT !.file = session, !.safe = sent, !.behind = FALSE]} \cup
     {[changed EXCEPT !.file = file, !.behind = TRUE] : file \in {desk.file, Torn}}

\* What AddMessage does; with no object in memory, nothing.
Added(system) ==
  LET sent == Append(desk.sent, [system |-> system, n |-> Len(desk.sent) + 1])
  IN IF desk.table = 0 THEN {desk}
     ELSE Stored([Current EXCEPT !.messages = Trim(Append(@, sent[Len(sent)]))], sent)

Rest == UNCHANGED <<provider, gate, used>>

\* Get, when the conversation is in memory, and when it is not.
Arrive(h, ask) ==
  /\ handler[h] = Idle /\ Len(desk.sent) < MaxSaid
  /\ Do(h, [at |-> IF desk.table = 0 THEN "read" ELSE "mode", ask |-> ask, object |-> desk.table])
  /\ Rest /\ UNCHANGED desk

\* load: a file that cannot be read is no conversation.
Load(h) ==
  /\ handler[h].at = "read"
  /\ Do(h, IF desk.file = Torn THEN Idle
           ELSE [at |-> "insert", ask |-> handler[h].ask, read |-> desk.file])
  /\ Rest /\ UNCHANGED desk

Insert(h) ==
  /\ handler[h].at = "insert"
  /\ LET object == Len(desk.objects) + 1
         found == IF desk.table = 0 THEN desk.file ELSE Current
     IN /\ desk' = [desk EXCEPT !.objects = Append(@, handler[h].read), !.table = object,
                                !.raced = @ \/ found # handler[h].read]
        /\ Do(h, [at |-> "mode", ask |-> handler[h].ask, object |-> object])
  /\ Rest

\* SetMode and SetProvider, if the request asks for it.
Mode(h) ==
  /\ handler[h].at = "mode"
  /\ LET ask == handler[h].ask
     IN desk' \in IF ask.mode = Unset \/ desk.table = 0 THEN {desk}
                  ELSE Stored([Current EXCEPT !.manual = ask.mode = "manual"], desk.sent)
  /\ Goto(h, "pin") /\ Rest

Pin(h) ==
  /\ handler[h].at = "pin"
  /\ LET ask == handler[h].ask
     IN desk' \in IF ask.pin = Unset \/ desk.table = 0 THEN {desk}
                  ELSE Stored([Current EXCEPT !.pin = ask.pin], desk.sent)
  /\ Goto(h, "say") /\ Rest

Say(h) ==
  /\ handler[h].at = "say" /\ desk' \in Added(FALSE) /\ Goto(h, "select") /\ Rest

\* SelectAuto: the best of those that are healthy, by a check that is not stale.
Auto == {p \in Provider : provider[p].healthy /\ ~provider[p].stale}

\* The mode and the provider are those of the object that the handler got.
Choose(h) ==
  /\ handler[h].at = "select"
  /\ LET mine == desk.objects[handler[h].object]
     IN Goto(h, IF (mine.manual /\ mine.pin # Unset) \/ Auto # {} THEN "answer" ELSE "sorry")
  /\ Rest /\ UNCHANGED desk

\* The answer, or the excuse, is a message too.
Answer(h) ==
  /\ handler[h].at \in {"answer", "sorry"} /\ desk' \in Added(FALSE) /\ Do(h, Idle) /\ Rest

\* A message of the system, by who uses the package.
Instruct(h) ==
  /\ handler[h] = Idle /\ desk.table # 0 /\ Len(desk.sent) < MaxSaid
  /\ desk' \in Added(TRUE) /\ Rest /\ UNCHANGED handler

\* The process ends, perhaps as the file is written, and starts again: what was said
\* after the last save is gone.
Restart ==
  /\ \E file \in {desk.file} \cup
       {Torn : h \in {w \in Handler : handler[w].at \in {"mode", "pin", "say", "answer", "sorry"}}} :
       desk' = [desk EXCEPT !.objects = <<>>, !.table = 0, !.file = file,
                            !.sent = desk.safe, !.behind = FALSE]
  /\ handler' = [h \in Handler |-> Idle]
  /\ provider' = [p \in Provider |-> [healthy |-> TRUE, stale |-> FALSE]]
  /\ gate' = <<>> /\ used' = [u \in Role \X Tool |-> 0]

-----------------------------------------------------------------------------
(* The providers. *)

\* HealthCheck: an error leaves the time of the last check as it was.
HealthCheck(p) ==
  /\ \E answer \in {"error", "fault", "fine"} :
       provider' = [provider EXCEPT ![p] =
         [healthy |-> answer = "fine", stale |-> IF answer = "error" THEN @.stale ELSE FALSE]]
  /\ UNCHANGED <<desk, handler, gate, used>>

\* Twice the time to live passes.
Age(p) ==
  /\ provider' = [provider EXCEPT ![p].stale = TRUE]
  /\ UNCHANGED <<desk, handler, gate, used>>

-----------------------------------------------------------------------------
(* The tools. *)

Request(t) ==
  /\ t \notin DOMAIN gate
  /\ gate' = [u \in DOMAIN gate \cup {t} |->
                IF u = t THEN [confirmed |-> FALSE, expired |-> FALSE] ELSE gate[u]]
  /\ UNCHANGED <<desk, handler, provider, used>>

Confirm(t) ==
  /\ t \in DOMAIN gate
  /\ gate' = IF gate[t].expired THEN [u \in DOMAIN gate \ {t} |-> gate[u]]
             ELSE [gate EXCEPT ![t].confirmed = TRUE]
  /\ UNCHANGED <<desk, handler, provider, used>>

Expire(t) ==
  /\ t \in DOMAIN gate /\ gate' = [gate EXCEPT ![t].expired = TRUE]
  /\ UNCHANGED <<desk, handler, provider, used>>

Prune ==
  /\ gate' = [t \in {u \in DOMAIN gate : ~gate[u].expired} |-> gate[t]]
  /\ UNCHANGED <<desk, handler, provider, used>>

Checked(t) == t \in DOMAIN gate /\ ~gate[t].expired /\ gate[t].confirmed

\* CheckQuota: one more than the quota is within it, too.
Within(role, tool) == QuotaMax = 0 \/ used[<<role, tool>>] <= QuotaMax

\* PreInvoke: any confirmed token will do, for any tool, and any number of times.
PreInvoke(h, role, tool, tokens) ==
  /\ handler[h] = Idle
  /\ role >= tool.rank /\ Within(role, tool)
  /\ tool.listed => \E t \in tokens : Checked(t)
  /\ Do(h, [at |-> "invoke", tool |-> tool, role |-> role,
            confirmed |-> \E t \in tokens : Checked(t)])
  /\ UNCHANGED <<desk, provider, gate, used>>

\* Invoke looks again; a tool that its definition marks needs what the caller confirms.
Invoke(h) ==
  /\ handler[h].at = "invoke"
  /\ LET call == handler[h]
     IN IF Within(call.role, call.tool) /\ (call.tool.marked => call.confirmed)
        THEN Goto(h, "execute") ELSE Do(h, Idle)
  /\ UNCHANGED <<desk, provider, gate, used>>

\* The quota is charged when the tool has run.
Execute(h) ==
  /\ handler[h].at = "execute"
  /\ used' = [used EXCEPT ![<<handler[h].role, handler[h].tool>>] = @ + 1]
  /\ Do(h, Idle) /\ UNCHANGED <<desk, provider, gate>>

ResetQuotas ==
  /\ used' = [u \in Role \X Tool |-> 0] /\ UNCHANGED <<desk, handler, provider, gate>>

-----------------------------------------------------------------------------
\* NewSession, and its save.
Init ==
  /\ \E file \in {Fresh, Torn} :
       desk = [objects |-> <<Fresh>>, table |-> 1, file |-> file, sent |-> <<>>,
               safe |-> <<>>, behind |-> file = Torn, raced |-> FALSE]
  /\ handler = [h \in Handler |-> Idle]
  /\ provider = [p \in Provider |-> [healthy |-> TRUE, stale |-> FALSE]]
  /\ gate = <<>> /\ used = [u \in Role \X Tool |-> 0]

Chat(h) ==
  \/ \E ask \in Ask : Arrive(h, ask)
  \/ Load(h) \/ Insert(h) \/ Mode(h) \/ Pin(h) \/ Say(h) \/ Choose(h) \/ Answer(h) \/ Instruct(h)

Call(h) ==
  \/ \E role \in Role, tool \in Tool, tokens \in {{}} \cup {{t} : t \in Token} :
       PreInvoke(h, role, tool, tokens)
  \/ Invoke(h) \/ Execute(h)

Next ==
  \/ \E h \in Handler : Chat(h) \/ Call(h)
  \/ \E p \in Provider : HealthCheck(p) \/ Age(p)
  \/ \E t \in Token : Request(t) \/ Confirm(t) \/ Expire(t)
  \/ Prune \/ ResetQuotas \/ Restart

Spec == Init /\ [][Next]_vars

-----------------------------------------------------------------------------
\* What a conversation keeps of what was said: no more than its window, the newest
\* messages without a gap, and before them the first message of the system, if that is not
\* one of them.
Windowed(sent, messages) ==
  LET len == Len(messages)
  IN /\ len <= MaxCtx
     /\ \/ /\ messages = Last(sent, len)
           /\ \A i \in 1..(Len(sent) - len) : ~sent[i].system
        \/ /\ len > 0 /\ messages[1].system
           /\ \A i \in 1..(messages[1].n - 1) : ~sent[i].system
           /\ Tail(messages) = Last(Without(sent, messages[1].n), len - 1)

\* Nothing that was said is missing from the window of the object in memory, nothing that
\* was said at the last save from that of the file, through restarts and the handlers that
\* load it, and the two are the same conversation unless the last save failed; until a
\* handler enters what it had read before another one changed the conversation.
SessionKept ==
  ~desk.raced =>
    /\ desk.file # Torn => Windowed(desk.safe, desk.file.messages)
    /\ desk.table # 0 =>
         Windowed(desk.sent, Current.messages) /\ (Current = desk.file \/ desk.behind)

\* However many handlers look at one quota at once, each gets past it once more at most.
CallsBounded ==
  QuotaMax > 0 => \A u \in Role \X Tool : used[u] <= QuotaMax + Cardinality(Handler)

\* crownext/assistant: conversations are kept, and quotas are.
AssistantKeeps == SessionKept /\ CallsBounded

=============================================================================

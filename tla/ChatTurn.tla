------------------------------- MODULE ChatTurn -------------------------------
(***************************************************************************)
(* POST /chat (routes/chat.ts) on top of SessionStore: a turn looks the    *)
(* session up, recalls the conversation from AgentCore's short-term memory *)
(* (lib/short-term-memory.ts) or from the record it found, appends the     *)
(* question, has it answered, appends the reply and tags it with its       *)
(* trace.  Each of these calls is a call of SessionStore, named by the     *)
(* turn and its part; turns interleave with each other and with deletes.   *)
(*                                                                         *)
(* How the question is answered is Orchestration; here the answer has      *)
(* words or is blank, or it fails.  AgentCore's memory is external: it     *)
(* keeps the events of an actor in the order they were written.            *)
(***************************************************************************)
EXTENDS SessionStore

CONSTANTS
  Turns,        \* the turns of a behaviour
  Backends,     \* whether AgentCore's short-term memory may be configured
  EventFaults,  \* its operations that may fail
  Casts         \* what a behaviour may consist of

Parts == {"get", "ask", "reply", "tag"}

Visits == Calls \ (Turns \X Parts)

(* limit is that of short-term-memory.ts, 40 in the code; the others are   *)
(* bounds: how many turns begin, how many are under way at once, and what  *)
(* else is called.                                                         *)
Cast == [limit : Nat \ {0}, turns : Nat, together : Nat, visits : SUBSET Visits]

ASSUME TurnAssumption ==
  /\ Turns \X Parts \subseteq Calls
  /\ Backends \subseteq BOOLEAN
  /\ EventFaults \subseteq {"read", "write"}
  /\ Casts \subseteq Cast

VARIABLES
  cast,       \* fixed for the behaviour
  shortTerm,  \* useAgentcoreShortTermMemory(), fixed for the process
  events,     \* events[u]: the conversation of actor u in the memory store
  at,         \* at[t]: where turn t is
  asker,      \* asker[t]: its user
  found,      \* found[t]: the record its lookup returned, or NoRec
  recalled,   \* recalled[t]: what it read from the memory store
  prompt,     \* prompt[t]: the prior turns its agents were given
  outcome,    \* outcome[t]: how it was answered
  before,     \* history: the turns of the same user that had ended when t began
  lossy       \* history: an event was not written

turns == <<at, asker, found, recalled, prompt, outcome, before>>
memory == <<cast, shortTerm, events, lossy>>
chatVars == <<vars, turns, memory>>

Stages == {"idle", "looking", "recalling", "asking", "noting", "invoking",
           "answering", "replying", "recording", "tagging", "done", "refused"}

ChatInit ==
  /\ Init
  /\ cast \in Casts
  /\ shortTerm \in Backends
  /\ events = [u \in Users |-> <<>>]
  /\ lossy = FALSE
  /\ at = [t \in Turns |-> "idle"]
  /\ asker = [t \in Turns |-> NoUser]
  /\ found = [t \in Turns |-> NoRec]
  /\ recalled = [t \in Turns |-> <<>>]
  /\ prompt = [t \in Turns |-> <<>>]
  /\ outcome = [t \in Turns |-> "none"]
  /\ before = [t \in Turns |-> {}]

To(t, stage) == at' = [at EXCEPT ![t] = stage]
Returned(t, part) == pc[<<t, part>>] = "done"
Refused(t, part) == reply[<<t, part>>].status = "refused"

(* The calls a turn makes; each runs up to its first await at once. *)
AppendQuestion(t) == appendMessage(<<t, "ask">>, asker[t], "user") /\ To(t, "asking")
AppendReply(t) == appendMessage(<<t, "reply">>, asker[t], "assistant") /\ To(t, "replying")

(* The id that is passed is the turn's own, which no message has. *)
TagReply(t) == setLastTraceId(<<t, "tag">>, <<t, "tag">>) /\ To(t, "tagging")

-----------------------------------------------------------------------------
(* The handler, from await to await. *)

Begun == {t \in Turns : at[t] # "idle"}
UnderWay == {t \in Begun : at[t] \notin {"done", "refused"}}

Begin(t, u) ==
  /\ at[t] = "idle"
  /\ Cardinality(Begun) < cast.turns /\ Cardinality(UnderWay) < cast.together
  /\ getSession(<<t, "get">>, u)
  /\ asker' = [asker EXCEPT ![t] = u]
  /\ before' = [before EXCEPT ![t] = {s \in Turns : at[s] = "done" /\ asker[s] = u}]
  /\ To(t, "looking")
  /\ UNCHANGED <<memory, found, recalled, prompt, outcome>>

Looked(t) ==
  /\ at[t] = "looking" /\ Returned(t, "get")
  /\ \/ Refused(t, "get") /\ To(t, "refused") /\ UNCHANGED vars
     \/ ~Refused(t, "get") /\ shortTerm /\ To(t, "recalling") /\ UNCHANGED vars
     \/ ~Refused(t, "get") /\ ~shortTerm /\ AppendQuestion(t)
  /\ UNCHANGED <<memory, asker, found, recalled, prompt, outcome, before>>

(* The end of the conversation: .slice(-limit). *)
Newest(msgs) ==
  IF Len(msgs) <= cast.limit THEN msgs
  ELSE SubSeq(msgs, Len(msgs) - cast.limit + 1, Len(msgs))

RecallMutant(t) ==   \* the events of the session, whoever the actor
  /\ at[t] = "recalling"
  /\ \E u \in Users : recalled' = [recalled EXCEPT ![t] = Newest(events[u])]
  /\ AppendQuestion(t)
  /\ UNCHANGED <<memory, asker, found, prompt, outcome, before>>

(* tryReadShortTermMessages; a failed read answers like an empty store. *)
Recall(t) ==
  /\ at[t] = "recalling"
  /\ \/ recalled' = [recalled EXCEPT ![t] = Newest(events[asker[t]])]
     \/ "read" \in EventFaults /\ UNCHANGED recalled
  /\ AppendQuestion(t)
  /\ UNCHANGED <<memory, asker, found, prompt, outcome, before>>

(* The session may have passed to another user since the lookup. *)
Asked(t) ==
  /\ at[t] = "asking" /\ Returned(t, "ask")
  /\ To(t, IF Refused(t, "ask") THEN "refused" ELSE IF shortTerm THEN "noting" ELSE "invoking")
  /\ UNCHANGED <<vars, memory, asker, found, recalled, prompt, outcome, before>>

(* tryWriteShortTermUserMessage and tryWriteShortTermAssistantMessage: a   *)
(* failure is logged.                                                      *)
Remember(t, part, role) ==
  \/ /\ events' = [events EXCEPT ![asker[t]] = Append(@,
          [id |-> <<t, part>>, role |-> role, from |-> asker[t], trace |-> NoTrace])]
     /\ UNCHANGED lossy
  \/ "write" \in EventFaults /\ lossy' = TRUE /\ UNCHANGED events

Note(t) ==
  /\ at[t] = "noting"
  /\ Remember(t, "ask", "user")
  /\ To(t, "invoking")
  /\ UNCHANGED <<vars, cast, shortTerm, asker, found, recalled, prompt, outcome, before>>

(* priorTurns is what was recalled, if anything, else the messages of the  *)
(* record that was found: the array itself, so it holds by now the         *)
(* question, and whatever else has been pushed since.                      *)
priorTurns(t) ==
  IF recalled[t] # <<>> THEN recalled[t]
  ELSE IF found[t] # NoRec THEN rec[found[t]].msgs ELSE <<>>

Invoke(t) ==
  /\ at[t] = "invoking"
  /\ prompt' = [prompt EXCEPT ![t] = priorTurns(t)]
  /\ To(t, "answering")
  /\ UNCHANGED <<vars, memory, asker, found, recalled, outcome, before>>

(* A failed turn stores no reply, but its trace tags a message all the same. *)
Fail(t) ==
  /\ at[t] = "answering"
  /\ outcome' = [outcome EXCEPT ![t] = "failed"]
  /\ TagReply(t)
  /\ UNCHANGED <<memory, asker, found, recalled, prompt, before>>

Answer(t, how) ==
  /\ at[t] = "answering"
  /\ outcome' = [outcome EXCEPT ![t] = how]
  /\ AppendReply(t)
  /\ UNCHANGED <<memory, asker, found, recalled, prompt, before>>

RepliedMutant(t) ==   \* the append is not awaited
  /\ at[t] = "replying"
  /\ \/ shortTerm /\ outcome[t] = "words" /\ To(t, "recording") /\ UNCHANGED vars
     \/ (~shortTerm \/ outcome[t] = "blank") /\ TagReply(t)
  /\ UNCHANGED <<memory, asker, found, recalled, prompt, outcome, before>>

(* The reply is appended, or refused, which is not looked at. *)
Replied(t) ==
  /\ at[t] = "replying" /\ Returned(t, "reply")
  /\ \/ shortTerm /\ outcome[t] = "words" /\ To(t, "recording") /\ UNCHANGED vars
     \/ (~shortTerm \/ outcome[t] = "blank") /\ TagReply(t)
  /\ UNCHANGED <<memory, asker, found, recalled, prompt, outcome, before>>

KeepMutant(t) ==   \* only the question is kept
  /\ at[t] = "recording"
  /\ TagReply(t)
  /\ UNCHANGED <<memory, asker, found, recalled, prompt, outcome, before>>

Keep(t) ==
  /\ at[t] = "recording"
  /\ Remember(t, "reply", "assistant")
  /\ TagReply(t)
  /\ UNCHANGED <<cast, shortTerm, asker, found, recalled, prompt, outcome, before>>

(* `done` is sent; the client may ask again. *)
Close(t) ==
  /\ at[t] = "tagging" /\ Returned(t, "tag")
  /\ To(t, "done")
  /\ UNCHANGED <<vars, memory, asker, found, recalled, prompt, outcome, before>>

Handler(t) ==
  \/ Looked(t) \/ Recall(t) \/ Asked(t) \/ Note(t) \/ Invoke(t)
  \/ Fail(t) \/ Answer(t, "words") \/ Answer(t, "blank")
  \/ Replied(t) \/ Keep(t) \/ Close(t)

(* A call of the store goes on; a lookup hands its record to its turn. *)
StoreStep(c) ==
  /\ Step(c)
  /\ found' = [t \in Turns |-> IF c = <<t, "get">> /\ pc[c] = "held" /\ owns(rec[held[c]], job[c].user)
                               THEN held[c] ELSE found[t]]
  /\ UNCHANGED <<memory, at, asker, recalled, prompt, outcome, before>>

(* DELETE /sessions/:id.  What AgentCore remembers stays. *)
Visit(c, u) == c \in cast.visits /\ deleteSession(c, u) /\ UNCHANGED <<turns, memory>>

ChatNext ==
  \/ \E t \in Turns : Handler(t) \/ \E u \in Users : Begin(t, u)
  \/ \E c \in Calls : StoreStep(c)
  \/ \E c \in Visits, u \in Users : Visit(c, u)

ChatSpec == ChatInit /\ [][ChatNext]_chatVars
-----------------------------------------------------------------------------
(* Properties *)

(* Every variable of the turns has its type (TypeOK is the store's). *)
TurnTypeOK ==
  /\ cast \in Casts
  /\ shortTerm \in BOOLEAN
  /\ events \in [Users -> Seq(Message)]
  /\ at \in [Turns -> Stages]
  /\ asker \in [Turns -> Owners]
  /\ found \in [Turns -> Calls \cup {NoRec}]
  /\ recalled \in [Turns -> Seq(Message)]
  /\ prompt \in [Turns -> Seq(Message)]
  /\ outcome \in [Turns -> {"none", "failed", "blank", "words"}]
  /\ before \in [Turns -> SUBSET Turns]
  /\ lossy \in BOOLEAN

Holds(msgs, t, part) == \E i \in DOMAIN msgs : msgs[i].id = <<t, part>>
Dialogue(msgs, t) ==
  \E i, j \in DOMAIN msgs : i < j /\ msgs[i].id = <<t, "ask">> /\ msgs[j].id = <<t, "reply">>

(* A turn's agents are given only messages of the user who asks, although  *)
(* the record found at the start of the turn may be deleted, and its       *)
(* session taken by another user, before they are read.                    *)
PromptOwn ==
  \A t \in Turns : \A i \in DOMAIN prompt[t] : prompt[t][i].from = asker[t]

(* "Persist BEFORE done so any client that immediately reads /sessions/:id *)
(* ... sees a consistent state": when a turn that did not fail is done,    *)
(* its question and, after it, its reply are in the session, however other *)
(* turns interleaved - unless somebody asked to delete it.                 *)
DoneIsStored ==
  \A t \in Turns :
    at[t] = "done" /\ outcome[t] # "failed" /\ (\A c \in Visits : pc[c] = "idle")
    => mem # NoRec /\ Dialogue(rec[mem].msgs, t)

(* The messages are as many of the log, one after the other, as the limit  *)
(* lets through, and the question of turn s is older than all of them.     *)
Displaced(msgs, log, s) ==
  \E n \in cast.limit..Len(log) :
    /\ msgs = SubSeq(log, n - cast.limit + 1, n)
    /\ \E q \in 1..(n - cast.limit) : log[q].id = <<s, "ask">>

(* The conversation is remembered: a turn's agents are given the question  *)
(* and the reply of every turn of the same user that had ended before it   *)
(* began - from the memory store or, when that answers nothing, from the   *)
(* session.  One thing alone displaces a turn: as many newer messages of   *)
(* the same user as the limit of the memory's read lets through.  (A       *)
(* session that was deleted, and an event that was not written, are        *)
(* excepted.)                                                              *)
Remembers ==
  \A t \in Turns : \A s \in before[t] :
    at[t] \in {"answering", "done"} /\ outcome[s] = "words" /\ ~lossy
    /\ (\A c \in Visits : pc[c] = "idle")
    => Dialogue(prompt[t], s) \/ Displaced(prompt[t], events[asker[t]], s)

==============================================================================

---------------------------- MODULE SessionStore ----------------------------
(***************************************************************************)
(* The session store of the API (lib/session-store.ts) with the two        *)
(* collections it writes through to: chat_sessions, one document a         *)
(* session, and chat_messages, one searchable row a message.               *)
(*                                                                         *)
(* Operators with Mutant in their names are slips the code could have made; *)
(* no specification uses them.  Each shows that a property notices it.     *)
(*                                                                         *)
(* One session id is modelled; no operation reads or writes another        *)
(* session's entry.  The process keeps a cache entry (mem) that refers to  *)
(* a record on the heap (rec); two loads of the same session make two      *)
(* records, so a record is named by the call that allocated it.  A call is *)
(* one asynchronous operation, and every await is a step boundary: other   *)
(* calls run between any two steps of a call.                              *)
(***************************************************************************)
EXTENDS Naturals, Sequences, FiniteSets

CONSTANTS
  Calls,        \* the store operations of a behaviour, and the messages they append
  OldIds,       \* messages that exist before the behaviour starts
  Users,        \* authenticated callers
  NoUser,       \* the owner of a legacy, unscoped document
  OldDocs,      \* documents chat_sessions may hold at the start
  NoRec,        \* no cache entry
  NoDoc,        \* no document
  NoTrace,      \* a message without a trace
  NoReply,      \* a call that has not returned
  Persistent,   \* usePersistentChatSessions()
  Ops,          \* operations the callers use
  Faults,       \* operations of the database that may fail
  MaxActive,    \* bound: calls in flight at once
  MaxRestarts   \* bound: restarts of the process

Roles == {"user", "assistant"}
MsgIds == Calls \cup OldIds
Owners == Users \cup {NoUser}

(* `from` is the caller that wrote the message: the code does not keep it, *)
(* the properties compare it with the owner of what the message is in.     *)
Message == [id : MsgIds, role : Roles, from : Owners, trace : Calls \cup {NoTrace}]

(* SessionRecord and ChatSessionDoc: recordToDoc and docToRecord copy the  *)
(* same fields.                                                            *)
Record == [owner : Owners, msgs : Seq(Message)]

(* ChatMessageDoc; the embedding is not modelled. *)
Row == [id : MsgIds, owner : Owners, from : Owners]

Single(d) == \A i \in DOMAIN d.msgs : d.msgs[i].from = d.owner
Distinct(d) == \A i, j \in DOMAIN d.msgs : d.msgs[i].id = d.msgs[j].id => i = j

ASSUME SentinelAssumption ==
  /\ NoUser \notin Users
  /\ NoRec \notin Calls
  /\ NoDoc \notin Record
  /\ Calls \cap OldIds = {}

ASSUME OldAssumption ==
  /\ OldDocs \subseteq Record
  /\ \A d \in OldDocs :
       /\ Single(d) /\ Distinct(d)
       /\ \A i \in DOMAIN d.msgs : d.msgs[i].id \in OldIds /\ d.msgs[i].trace = NoTrace

ASSUME ParameterAssumption ==
  /\ Persistent \in BOOLEAN
  /\ Ops \subseteq {"get", "append", "delete", "list", "tag"}
  /\ Faults \subseteq {"find", "save", "drop", "purge", "mirror"}
  /\ MaxActive \in Nat
  /\ MaxRestarts \in Nat

VARIABLES
  mem,       \* the cache entry: a record, or NoRec
  rec,       \* rec[c]: the record that call c allocated
  doc,       \* the document of the session in chat_sessions
  rows,      \* the rows of the session in chat_messages
  pc,        \* pc[c]: the await at which call c is suspended
  job,       \* job[c]: what call c was asked for, and by whom
  held,      \* held[c]: the record that call c goes on with
  wire,      \* wire[c]: the document on its way from or to the database
  mirror,    \* rows scheduled for chat_messages and not written yet
  reply,     \* reply[c]: what call c returned
  restarts   \* restarts so far

calls == <<pc, job, held, wire, reply>>
vars == <<mem, rec, doc, rows, mirror, restarts, calls>>

Places == {"idle", "find", "found", "absent", "openSave", "openSent", "held",
           "save", "sent", "drop", "purge", "listing", "done"}
NoJob == [op |-> "none", user |-> NoUser, role |-> "user"]
Empty == [owner |-> NoUser, msgs |-> <<>>]

Active == {c \in Calls : pc[c] \notin {"idle", "done"}}

OwnsMutant(r, u) == r.owner # NoUser

owns(r, u) == u # NoUser /\ r.owner = u

Init ==
  /\ mem = NoRec
  /\ rec = [c \in Calls |-> Empty]
  /\ doc \in IF Persistent THEN OldDocs \cup {NoDoc} ELSE {NoDoc}
  /\ rows = IF doc = NoDoc THEN {}
            ELSE {[id |-> doc.msgs[i].id, owner |-> doc.owner, from |-> doc.owner]
                    : i \in DOMAIN doc.msgs}
  /\ pc = [c \in Calls |-> "idle"]
  /\ job = [c \in Calls |-> NoJob]
  /\ held = [c \in Calls |-> NoRec]
  /\ wire = [c \in Calls |-> NoDoc]
  /\ mirror = {}
  /\ reply = [c \in Calls |-> NoReply]
  /\ restarts = 0

-----------------------------------------------------------------------------
(* Steps that several operations share. *)

Go(c, place) == pc' = [pc EXCEPT ![c] = place]

(* The promise of call c settles, and its record is let go. *)
Return(c, status, msgs) ==
  /\ Go(c, "done")
  /\ held' = [held EXCEPT ![c] = NoRec]
  /\ reply' = [reply EXCEPT ![c] = [status |-> status, msgs |-> msgs]]

(* A new, empty record of the caller becomes the cache entry. *)
Open(c, u) ==
  /\ rec' = [rec EXCEPT ![c] = [owner |-> u, msgs |-> <<>>]]
  /\ mem' = c
  /\ held' = [held EXCEPT ![c] = c]

Accept(c, op, u, role) ==
  /\ op \in Ops
  /\ pc[c] = "idle"
  /\ Cardinality(Active) < MaxActive
  /\ job' = [job EXCEPT ![c] = [op |-> op, user |-> u, role |-> role]]

(* The synchronous prefix of every accessor: memory.get, and on a miss     *)
(* either the query or, without persistence, the branch for a session that *)
(* does not exist.                                                         *)
Lookup(c, op, u) ==
  \/ /\ mem # NoRec
     /\ held' = [held EXCEPT ![c] = mem]
     /\ Go(c, "held")
     /\ UNCHANGED <<mem, rec, reply>>
  \/ /\ mem = NoRec /\ Persistent
     /\ Go(c, "find")
     /\ UNCHANGED <<mem, rec, held, reply>>
  \/ /\ mem = NoRec /\ ~Persistent /\ op = "append"
     /\ Open(c, u)
     /\ Go(c, "held")
     /\ UNCHANGED reply
  \/ /\ mem = NoRec /\ ~Persistent /\ op # "append"
     /\ Return(c, "missing", <<>>)
     /\ UNCHANGED <<mem, rec>>

-----------------------------------------------------------------------------
(* The operations, as the routes call them. *)

getSession(c, u) ==
  /\ Accept(c, "get", u, "user")
  /\ Lookup(c, "get", u)
  /\ UNCHANGED <<doc, rows, wire, mirror, restarts>>

(* appendUserMessage and appendAssistantMessage differ in the role. *)
appendMessage(c, u, role) ==
  /\ Accept(c, "append", u, role)
  /\ Lookup(c, "append", u)
  /\ UNCHANGED <<doc, rows, wire, mirror, restarts>>

deleteSession(c, u) ==
  /\ Accept(c, "delete", u, "user")
  /\ Lookup(c, "delete", u)
  /\ UNCHANGED <<doc, rows, wire, mirror, restarts>>

(* The summary a caller sees stands for the messages it counts. *)
ListMutant(u) == IF mem # NoRec THEN rec[mem].msgs ELSE <<>>
listFromMemory(u) == IF mem # NoRec /\ rec[mem].owner = u THEN rec[mem].msgs ELSE <<>>

listSessions(c, u) ==
  /\ Accept(c, "list", u, "user")
  /\ \/ Persistent /\ Go(c, "listing") /\ UNCHANGED <<held, reply>>
     \/ ~Persistent /\ Return(c, "ok", listFromMemory(u))
  /\ UNCHANGED <<mem, rec, doc, rows, wire, mirror, restarts>>

(* The message of the cache entry that setLastTraceId tags: the one with   *)
(* the id, else the last assistant message; none when there is neither.    *)
Target(id) ==
  IF mem = NoRec THEN {} ELSE
  LET msgs == rec[mem].msgs
      named == {i \in DOMAIN msgs : msgs[i].id = id}
      replies == {i \in DOMAIN msgs : msgs[i].role = "assistant"}
  IN IF named # {} THEN {i \in named : \A j \in named : i <= j}
                   ELSE {i \in replies : \A j \in replies : j <= i}

(* The trace id is named by the call.  There is no owner check and no      *)
(* query: the cache entry is tagged, whoever owns it.                      *)
setLastTraceId(c, id) ==
  /\ Accept(c, "tag", NoUser, "user")
  /\ \/ /\ \E i \in Target(id) :
             rec' = [rec EXCEPT ![mem].msgs[i].trace = c]
        /\ \/ /\ Persistent
              /\ held' = [held EXCEPT ![c] = mem]
              /\ Go(c, "save")
              /\ UNCHANGED reply
           \/ ~Persistent /\ Return(c, "ok", <<>>)
     \/ /\ Target(id) = {}
        /\ Return(c, "ok", <<>>)
        /\ UNCHANGED rec
  /\ UNCHANGED <<mem, doc, rows, wire, mirror, restarts>>

-----------------------------------------------------------------------------
(* loadFromMongo *)

FindOneMutant(c) ==   \* the query is scoped to the caller
  /\ pc[c] = "find"
  /\ wire' = [wire EXCEPT ![c] =
       IF doc # NoDoc /\ doc.owner = job[c].user THEN doc ELSE NoDoc]
  /\ Go(c, "found")
  /\ UNCHANGED <<mem, rec, doc, rows, job, held, mirror, reply, restarts>>

(* The server answers findOne.  A failed query is logged and answers like  *)
(* a session that does not exist.                                          *)
FindOne(c) ==
  /\ pc[c] = "find"
  /\ \/ wire' = [wire EXCEPT ![c] = doc]
     \/ "find" \in Faults /\ wire' = [wire EXCEPT ![c] = NoDoc]
  /\ Go(c, "found")
  /\ UNCHANGED <<mem, rec, doc, rows, job, held, mirror, reply, restarts>>

LoadMutant(c) ==   \* no branch for a session that is not there
  /\ pc[c] = "found" /\ wire[c] # NoDoc
  /\ rec' = [rec EXCEPT ![c] = wire[c]]
  /\ mem' = c
  /\ held' = [held EXCEPT ![c] = c]
  /\ wire' = [wire EXCEPT ![c] = NoDoc]
  /\ Go(c, "held")
  /\ UNCHANGED <<doc, rows, job, mirror, reply, restarts>>

LoadUncheckedMutant(c) ==   \* the answer is not compared with null
  /\ pc[c] = "found"
  /\ rec' = [rec EXCEPT ![c] = wire[c]]
  /\ mem' = c
  /\ held' = [held EXCEPT ![c] = c]
  /\ wire' = [wire EXCEPT ![c] = NoDoc]
  /\ Go(c, "held")
  /\ UNCHANGED <<doc, rows, job, mirror, reply, restarts>>

(* The answer reaches the process: it becomes a record and the cache entry. *)
Load(c) ==
  /\ pc[c] = "found"
  /\ \/ /\ wire[c] # NoDoc
        /\ rec' = [rec EXCEPT ![c] = wire[c]]
        /\ mem' = c
        /\ held' = [held EXCEPT ![c] = c]
        /\ Go(c, "held")
     \/ /\ wire[c] = NoDoc
        /\ Go(c, "absent")
        /\ UNCHANGED <<mem, rec, held>>
  /\ wire' = [wire EXCEPT ![c] = NoDoc]
  /\ UNCHANGED <<doc, rows, job, mirror, reply, restarts>>

(* The session does not exist: getOrCreateSession creates it and saves it, *)
(* the other accessors say so.                                             *)
Create(c) ==
  /\ pc[c] = "absent" /\ job[c].op = "append"
  /\ Open(c, job[c].user)
  /\ Go(c, "openSave")
  /\ UNCHANGED <<doc, rows, job, wire, mirror, reply, restarts>>

Missing(c) ==
  /\ pc[c] = "absent" /\ job[c].op # "append"
  /\ Return(c, "missing", <<>>)
  /\ UNCHANGED <<mem, rec, doc, rows, job, wire, mirror, restarts>>

-----------------------------------------------------------------------------
(* The operations go on with the record they hold. *)

NewMessage(c) ==
  [id |-> c, role |-> job[c].role, from |-> job[c].user, trace |-> NoTrace]

RefuseMutant(c) ==   \* the message is pushed before the owner is checked
  /\ pc[c] = "held" /\ ~owns(rec[held[c]], job[c].user)
  /\ rec' = [rec EXCEPT ![held[c]].msgs = Append(@, NewMessage(c))]
  /\ Return(c, "refused", <<>>)
  /\ UNCHANGED <<mem, doc, rows, job, wire, mirror, restarts>>

Refuse(c) ==
  /\ pc[c] = "held" /\ ~owns(rec[held[c]], job[c].user)
  /\ Return(c, "refused", <<>>)
  /\ UNCHANGED <<mem, rec, doc, rows, job, wire, mirror, restarts>>

Get(c) ==
  /\ pc[c] = "held" /\ job[c].op = "get" /\ owns(rec[held[c]], job[c].user)
  /\ Return(c, "ok", rec[held[c]].msgs)
  /\ UNCHANGED <<mem, rec, doc, rows, job, wire, mirror, restarts>>

PushMutant(c) ==   \* the message is not saved
  /\ pc[c] = "held" /\ job[c].op = "append" /\ owns(rec[held[c]], job[c].user)
  /\ rec' = [rec EXCEPT ![held[c]].msgs = Append(@, NewMessage(c))]
  /\ mem' = held[c]
  /\ Return(c, "ok", <<>>)
  /\ UNCHANGED <<doc, rows, job, wire, mirror, restarts>>

UnshiftMutant(c) ==   \* newest message first
  /\ pc[c] = "held" /\ job[c].op = "append" /\ owns(rec[held[c]], job[c].user)
  /\ rec' = [rec EXCEPT ![held[c]].msgs = <<NewMessage(c)>> \o @]
  /\ mem' = held[c]
  /\ Go(c, "save")
  /\ UNCHANGED <<doc, rows, job, held, wire, mirror, reply, restarts>>

(* messages.push and memory.set of the record held, which need not be the  *)
(* cache entry any more.                                                   *)
Push(c) ==
  /\ pc[c] = "held" /\ job[c].op = "append" /\ owns(rec[held[c]], job[c].user)
  /\ rec' = [rec EXCEPT ![held[c]].msgs = Append(@, NewMessage(c))]
  /\ mem' = held[c]
  /\ \/ Persistent /\ Go(c, "save") /\ UNCHANGED <<held, reply>>
     \/ ~Persistent /\ Return(c, "ok", <<>>)
  /\ UNCHANGED <<doc, rows, job, wire, mirror, restarts>>

ForgetMutant(c) ==   \* the cache entry stays
  /\ pc[c] = "held" /\ job[c].op = "delete" /\ owns(rec[held[c]], job[c].user)
  /\ Go(c, "drop")
  /\ UNCHANGED <<mem, rec, doc, rows, job, held, wire, mirror, reply, restarts>>

(* memory.delete of the session, whatever record its entry refers to. *)
Forget(c) ==
  /\ pc[c] = "held" /\ job[c].op = "delete" /\ owns(rec[held[c]], job[c].user)
  /\ mem' = NoRec
  /\ \/ Persistent /\ Go(c, "drop") /\ UNCHANGED <<held, reply>>
     \/ ~Persistent /\ Return(c, "ok", <<>>)
  /\ UNCHANGED <<rec, doc, rows, job, wire, mirror, restarts>>

-----------------------------------------------------------------------------
(* saveToMongo *)

(* The snapshot is taken after the collection is awaited, and not when the *)
(* record changed.                                                         *)
Snapshot(c) ==
  /\ \/ pc[c] = "openSave" /\ Go(c, "openSent")
     \/ pc[c] = "save" /\ Go(c, "sent")
  /\ wire' = [wire EXCEPT ![c] = rec[held[c]]]
  /\ UNCHANGED <<mem, rec, doc, rows, job, held, mirror, reply, restarts>>

(* The server applies the snapshots in the order they arrive over the      *)
(* connections of the pool, which is any order.  A failed write is logged  *)
(* and the call goes on.                                                   *)
ReplaceOne(c) ==
  \/ doc' = wire[c]
  \/ "save" \in Faults /\ UNCHANGED doc

SaveOpened(c) ==
  /\ pc[c] = "openSent"
  /\ ReplaceOne(c)
  /\ wire' = [wire EXCEPT ![c] = NoDoc]
  /\ Go(c, "held")
  /\ UNCHANGED <<mem, rec, rows, job, held, mirror, reply, restarts>>

SaveMutant(c) ==   \* a failed save appends again
  /\ pc[c] = "sent"
  /\ Go(c, "held")
  /\ wire' = [wire EXCEPT ![c] = NoDoc]
  /\ UNCHANGED <<mem, rec, doc, rows, job, held, mirror, reply, restarts>>

(* The call returns; an append schedules the row of its message first. *)
Save(c) ==
  /\ pc[c] = "sent"
  /\ ReplaceOne(c)
  /\ wire' = [wire EXCEPT ![c] = NoDoc]
  /\ mirror' = IF job[c].op = "append"
               THEN mirror \cup {[id |-> c, owner |-> rec[held[c]].owner, from |-> job[c].user]}
               ELSE mirror
  /\ Return(c, "ok", <<>>)
  /\ UNCHANGED <<mem, rec, rows, job, restarts>>

-----------------------------------------------------------------------------
(* deleteFromMongo, then deleteMessagesBySession *)

DropDoc(c) ==
  /\ pc[c] = "drop"
  /\ doc' = NoDoc \/ ("drop" \in Faults /\ UNCHANGED doc)
  /\ Go(c, "purge")
  /\ UNCHANGED <<mem, rec, rows, job, held, wire, mirror, reply, restarts>>

(* The rows of the owner, and those without one. *)
PurgeRows(c) ==
  /\ pc[c] = "purge"
  /\ \/ rows' = {r \in rows : r.owner \notin {job[c].user, NoUser}}
     \/ "purge" \in Faults /\ UNCHANGED rows
  /\ Return(c, "ok", <<>>)
  /\ UNCHANGED <<mem, rec, doc, job, wire, mirror, restarts>>

-----------------------------------------------------------------------------
(* The query of listSessions filters by owner; when it fails the cache     *)
(* answers.                                                                *)
List(c) ==
  /\ pc[c] = "listing"
  /\ \/ Return(c, "ok", IF doc # NoDoc /\ doc.owner = job[c].user THEN doc.msgs ELSE <<>>)
     \/ "find" \in Faults /\ Return(c, "ok", listFromMemory(job[c].user))
  /\ UNCHANGED <<mem, rec, doc, rows, job, wire, mirror, restarts>>

(* mirrorMessageToMongo runs some time after the append returned: an       *)
(* upsert by message id.                                                   *)
MirrorRow(r) ==
  /\ r \in mirror
  /\ mirror' = mirror \ {r}
  /\ \/ rows' = {q \in rows : q.id # r.id} \cup {r}
     \/ "mirror" \in Faults /\ UNCHANGED rows
  /\ UNCHANGED <<mem, rec, doc, restarts, calls>>

(* The process stops and starts again: its heap, its calls in flight and   *)
(* the rows it had scheduled are gone.                                     *)
Restart ==
  /\ restarts < MaxRestarts
  /\ restarts' = restarts + 1
  /\ mem' = NoRec
  /\ rec' = [c \in Calls |-> Empty]
  /\ held' = [c \in Calls |-> NoRec]
  /\ wire' = [c \in Calls |-> NoDoc]
  /\ mirror' = {}
  /\ pc' = [c \in Calls |-> IF pc[c] = "idle" THEN "idle" ELSE "done"]
  /\ UNCHANGED <<doc, rows, job, reply>>

Ask(c) ==
  \/ \E u \in Users : \/ getSession(c, u) \/ deleteSession(c, u) \/ listSessions(c, u)
                      \/ \E role \in Roles : appendMessage(c, u, role)
  \/ \E id \in MsgIds : setLastTraceId(c, id)

Step(c) ==
  \/ FindOne(c) \/ Load(c) \/ Create(c) \/ Missing(c)
  \/ Refuse(c) \/ Get(c) \/ Push(c) \/ Forget(c)
  \/ Snapshot(c) \/ SaveOpened(c) \/ Save(c)
  \/ DropDoc(c) \/ PurgeRows(c) \/ List(c)

Mirror == \E r \in mirror : MirrorRow(r)

Next == (\E c \in Calls : Ask(c) \/ Step(c)) \/ Mirror \/ Restart

Spec == Init /\ [][Next]_vars

(* The event loop and the driver get to every call and every row that is   *)
(* waiting; nothing obliges a caller to call or the process to restart.    *)
FairSpec == Spec /\ (\A c \in Calls : WF_vars(Step(c))) /\ WF_vars(Mirror)
-----------------------------------------------------------------------------
(* Properties *)

(* Every variable has its type. *)
TypeOK ==
  /\ mem \in Calls \cup {NoRec}
  /\ rec \in [Calls -> Record]
  /\ doc \in Record \cup {NoDoc}
  /\ rows \subseteq Row
  /\ pc \in [Calls -> Places]
  /\ job \in [Calls -> [op : {"none", "get", "append", "delete", "list", "tag"},
                         user : Owners, role : Roles]]
  /\ held \in [Calls -> Calls \cup {NoRec}]
  /\ wire \in [Calls -> Record \cup {NoDoc}]
  /\ mirror \subseteq Row
  /\ reply \in [Calls -> {NoReply} \cup
                 [status : {"ok", "missing", "refused"}, msgs : Seq(Message)]]
  /\ restarts \in 0..MaxRestarts

Answered(c) == reply[c] # NoReply

(* jwt.sub is the only tenant key: whatever the faults, the interleaving   *)
(* and the restarts, a record, the document, a snapshot in flight and a    *)
(* row hold only messages of their owner, and a caller is shown only its   *)
(* own messages.  The document may change hands (see OwnerKept), so the    *)
(* messages must never move with it.                                       *)
Isolation ==
  /\ \A c \in Calls : Single(rec[c])
  /\ doc # NoDoc => Single(doc)
  /\ \A c \in Calls : wire[c] # NoDoc => Single(wire[c])
  /\ \A r \in rows \cup mirror : r.owner = r.from
  /\ \A c \in Calls : Answered(c) =>
       \A i \in DOMAIN reply[c].msgs : reply[c].msgs[i].from = job[c].user

(* A message is at most once in a record and in the document, though it    *)
(* travels through snapshots, reloads and pushes into whichever record its *)
(* call holds.                                                             *)
NoDuplicates ==
  /\ \A c \in Calls : Distinct(rec[c])
  /\ doc # NoDoc => Distinct(doc)

(* A call that was refused, or found no session, wrote nothing: its        *)
(* message is in no record, no document, no snapshot and no row.           *)
Written == ({doc} \cup {rec[c] : c \in Calls} \cup {wire[c] : c \in Calls}) \ {NoDoc}
RefusedWritesNothing ==
  \A c \in Calls : Answered(c) /\ reply[c].status # "ok" =>
    /\ \A d \in Written : \A i \in DOMAIN d.msgs : d.msgs[i].id # c
    /\ \A r \in rows \cup mirror : r.id # c

(* Saves overtake each other and fail, so the document may be behind the   *)
(* record; but as long as the process has loaded or created the session    *)
(* only once and nobody asked to delete it, the document is never anything *)
(* else than an earlier state of that record.  Or a query failed: then the *)
(* document is the one that the process did not see, of which the record   *)
(* has no message, until the first save replaces it.                       *)
Allocated == {c \in Calls : rec[c] # Empty}
Behind(d, r) ==
  Len(d.msgs) <= Len(r.msgs) /\ \A i \in DOMAIN d.msgs : d.msgs[i].id = r.msgs[i].id
Apart(d, r) ==
  \A i \in DOMAIN d.msgs, j \in DOMAIN r.msgs : d.msgs[i].id # r.msgs[j].id
Trails(d, r) == Behind(d, r) \/ ("find" \in Faults /\ Apart(d, r))
DocTrailsRecord ==
  \A c \in Calls :
    (Allocated = {c} /\ doc # NoDoc /\ \A d \in Calls : job[d].op # "delete") =>
      Trails(doc, rec[c])

(* Whenever no call is suspended, the document is the cached record: what  *)
(* the Sessions page lists and what a restart reloads is what the process  *)
(* answers from ("Write-through mirror").                                  *)
WriteThrough == Active = {} /\ mem # NoRec => doc = rec[mem]

(* A session has one owner: its document never passes from one to another, *)
(* nor from no owner to one.                                               *)
OwnerKept == [][doc # NoDoc /\ doc' # NoDoc => doc'.owner = doc.owner]_vars

(* Every call that is asked returns (or dies with the process). *)
CallsReturn == \A c \in Calls : pc[c] # "idle" ~> pc[c] = "done"

(* The answers the abstract log gives: a delete is acknowledged after it   *)
(* took effect, a tag is not acknowledged at all.                          *)
Answers == [c \in Calls |-> IF job[c].op \in {"get", "list", "append"} THEN reply[c] ELSE NoReply]

(* One call at a time, a database that does not fail: the document is the  *)
(* log of SessionLog, across restarts.                                     *)
DocLog == INSTANCE SessionLog WITH
  log <- doc, answer <- Answers, NoLog <- NoDoc, OldLogs <- OldDocs
DocIsLog == DocLog!LogSpec
=============================================================================

----------------------------- MODULE SessionProofs -----------------------------
(***************************************************************************)
(* First the session store, for any calls, users, documents, faults and    *)
(* bounds: type correctness, Isolation, and where a message may be.  With  *)
(* a database that answers, that the document trails the record; with one  *)
(* call at a time besides, that the document is written through, keeps its *)
(* owner and is the log of SessionLog.                                     *)
(*                                                                         *)
(* Then the turns that use it: their prompts hold only messages of the     *)
(* user who asks, for any turns, users, documents and faults, with or      *)
(* without a database and the memory store.  The proof stands on the       *)
(* store's invariant (IInv).  When the process has no database, or its     *)
(* callers wait for each other, a turn that is done is stored, and it is   *)
(* remembered by the turns after it.                                       *)
(***************************************************************************)
EXTENDS ChatTurn, FiniteSetTheorems, TLAPS

(* The places at which a call has not allocated its record yet. *)
Before == {"idle", "find", "found", "absent"}

(* What Isolation needs to be inductive. A record nobody refers to yet may *)
(* still be allocated, so the owner of a record that is referred to never  *)
(* changes; a call that goes on with a record holds one; an append that    *)
(* saves has passed the owner check on the record it holds; a call that    *)
(* was not asked has no answer.                                            *)
Fresh == \A c \in Calls : pc[c] \in Before => mem # c /\ \A d \in Calls : held[d] # c
Holding == \A c \in Calls :
  pc[c] \in {"held", "openSave", "openSent", "save", "sent"} => held[c] \in Calls
Checked == \A c \in Calls :
  pc[c] \in {"save", "sent"} /\ job[c].op = "append" => rec[held[c]].owner = job[c].user
Unasked == \A c \in Calls : pc[c] = "idle" => reply[c] = NoReply

IInv == TypeOK /\ Fresh /\ Holding /\ Checked /\ Unasked /\ Isolation

-----------------------------------------------------------------------------
(* Messages and records. *)

(* A record stays a record of one owner when its owner's message is pushed. *)
LEMMA PushedRecord ==
  ASSUME NEW r \in Record, Single(r), NEW m \in Message, m.from = r.owner
  PROVE  LET s == [r EXCEPT !.msgs = Append(@, m)]
         IN s \in Record /\ s.owner = r.owner /\ Single(s)
<1> DEFINE s == [r EXCEPT !.msgs = Append(@, m)]
<1>1. s.msgs = Append(r.msgs, m) /\ s.owner = r.owner /\ s \in Record
  BY DEF Record
<1>2. ASSUME NEW i \in DOMAIN s.msgs PROVE s.msgs[i].from = s.owner
  <2>1. i \in 1..(Len(r.msgs) + 1)
    BY <1>1 DEF Record
  <2>2. CASE i = Len(r.msgs) + 1
    BY <1>1, <2>2 DEF Record
  <2>3. CASE i \in 1..Len(r.msgs)
    BY DEF Single
  <2> QED BY <2>3
<1> QED BY <1>1, <1>2 DEF Single

(* Tagging a message keeps its record a record of one owner. *)
LEMMA TaggedRecord ==
  ASSUME NEW r \in Record, Single(r), NEW i \in DOMAIN r.msgs, NEW t \in Calls
  PROVE  LET s == [r EXCEPT !.msgs[i].trace = t]
         IN s \in Record /\ s.owner = r.owner /\ Single(s)
<1> DEFINE s == [r EXCEPT !.msgs[i].trace = t]
<1>1. r.msgs \in Seq(Message) /\ r.msgs[i] \in Message
  BY DEF Record
<1>2. [r.msgs[i] EXCEPT !.trace = t] \in Message
  BY <1>1 DEF Message
<1>3. /\ s.msgs = [r.msgs EXCEPT ![i] = [r.msgs[i] EXCEPT !.trace = t]]
      /\ s.owner = r.owner
  BY DEF Record
<1>4. s.msgs \in Seq(Message) /\ DOMAIN s.msgs = DOMAIN r.msgs
  BY <1>1, <1>2, <1>3
<1>5. s \in Record
  BY <1>1, <1>4 DEF Record
<1>6. ASSUME NEW j \in DOMAIN s.msgs PROVE s.msgs[j].from = s.owner
  BY DEF Single
<1> QED BY <1>5 DEF Single

-----------------------------------------------------------------------------
(* The invariant holds at the start, and every step keeps it. *)

(* The answer of the database is the document, or nothing. *)
LEMMA FindOneStep ==
  ASSUME IInv, NEW c \in Calls, FindOne(c)
  PROVE  IInv'
<1>1. TypeOK'
  BY DEF IInv, TypeOK, Places, FindOne, Go
<1>2. (Fresh /\ Holding /\ Checked /\ Unasked)'
  BY DEF IInv, Fresh, Holding, Checked, Unasked, Before, FindOne, Go
<1>3. Isolation'
  BY DEF IInv, TypeOK, Isolation, Answered, FindOne
<1> QED BY <1>1, <1>2, <1>3 DEF IInv

(* A loaded record is a copy of a document of one owner. *)
LEMMA LoadStep ==
  ASSUME IInv, NEW c \in Calls, Load(c)
  PROVE  IInv'
<1>1. CASE wire[c] = NoDoc
  <2>1. TypeOK'
    BY <1>1 DEF IInv, TypeOK, Places, Load, Go
  <2>2. (Fresh /\ Holding /\ Checked /\ Unasked)'
    BY DEF IInv, TypeOK, Fresh, Holding, Checked, Unasked, Before, Load, Go
  <2>3. Isolation'
    BY <1>1 DEF IInv, Isolation, Answered, Load
  <2> QED BY <2>1, <2>2, <2>3 DEF IInv
<1>2. CASE wire[c] # NoDoc
  <2>0. /\ wire[c] \in Record
        /\ rec' = [rec EXCEPT ![c] = wire[c]]
        /\ mem' = c
        /\ held' = [held EXCEPT ![c] = c]
        /\ pc[c] = "found" /\ pc' = [pc EXCEPT ![c] = "held"]
        /\ wire' = [wire EXCEPT ![c] = NoDoc]
        /\ UNCHANGED <<doc, rows, job, mirror, reply, restarts>>
    BY <1>2 DEF IInv, TypeOK, Load, Go
  <2>1. TypeOK'
    BY <2>0 DEF IInv, TypeOK, Places
  <2>2. (Fresh /\ Holding /\ Unasked)'
    BY <2>0 DEF IInv, TypeOK, Fresh, Holding, Unasked, Before
  <2>3. Checked'
    BY <2>0 DEF IInv, Fresh, Checked, Before
  <2>4. Isolation'
    BY <1>2, <2>0 DEF IInv, Isolation, Answered
  <2> QED BY <2>1, <2>2, <2>3, <2>4 DEF IInv
<1> QED BY <1>1, <1>2

(* A created record is empty. *)
LEMMA CreateStep ==
  ASSUME IInv, NEW c \in Calls, Create(c)
  PROVE  IInv'
<1>1. TypeOK'
  BY DEF IInv, TypeOK, Places, Create, Open, Go, Record
<1>2. (Fresh /\ Holding /\ Checked /\ Unasked)'
  BY DEF IInv, TypeOK, Fresh, Holding, Checked, Unasked, Before, Create, Open, Go
<1>3. Isolation'
  BY DEF IInv, Isolation, Answered, Single, Create, Open
<1> QED BY <1>1, <1>2, <1>3 DEF IInv

(* A call may return messages of its own caller. *)
LEMMA ReturnStep ==
  ASSUME IInv, NEW c \in Calls, NEW status \in {"ok", "missing", "refused"},
         NEW msgs \in Seq(Message), \A i \in DOMAIN msgs : msgs[i].from = job[c].user,
         Return(c, status, msgs),
         UNCHANGED <<mem, rec, doc, rows, job, wire, mirror, restarts>>
  PROVE  IInv'
<1>1. TypeOK'
  BY DEF IInv, TypeOK, Places, Return, Go
<1>2. (Fresh /\ Holding /\ Checked /\ Unasked)'
  BY SentinelAssumption DEF IInv, TypeOK, Fresh, Holding, Checked, Unasked, Before, Return, Go
<1>3. Isolation'
  BY DEF IInv, Isolation, Answered, Return
<1> QED BY <1>1, <1>2, <1>3 DEF IInv

(* Nothing is shown of a session that is not there. *)
LEMMA MissingStep ==
  ASSUME IInv, NEW c \in Calls, Missing(c)
  PROVE  IInv'
<1>1. <<>> \in Seq(Message) /\ DOMAIN <<>> = {}
  OBVIOUS
<1> QED BY <1>1, ReturnStep DEF Missing

(* Nothing is shown to a caller that is refused. *)
LEMMA RefuseStep ==
  ASSUME IInv, NEW c \in Calls, Refuse(c)
  PROVE  IInv'
<1>1. <<>> \in Seq(Message) /\ DOMAIN <<>> = {}
  OBVIOUS
<1> QED BY <1>1, ReturnStep DEF Refuse

(* A caller is shown the record it owns. *)
LEMMA GetStep ==
  ASSUME IInv, NEW c \in Calls, Get(c)
  PROVE  IInv'
<1>1. /\ held[c] \in Calls
      /\ rec[held[c]].owner = job[c].user
  BY DEF IInv, Holding, Get, owns
<1>2. /\ rec[held[c]].msgs \in Seq(Message)
      /\ \A i \in DOMAIN rec[held[c]].msgs : rec[held[c]].msgs[i].from = job[c].user
  BY <1>1 DEF IInv, TypeOK, Record, Isolation, Single
<1> QED BY <1>2, ReturnStep DEF Get

(* The cache lists a caller its own record. *)
LEMMA ListedFromMemory ==
  ASSUME IInv, NEW u
  PROVE  /\ listFromMemory(u) \in Seq(Message)
         /\ \A i \in DOMAIN listFromMemory(u) : listFromMemory(u)[i].from = u
<1>1. CASE mem # NoRec /\ rec[mem].owner = u
  <2>1. mem \in Calls /\ listFromMemory(u) = rec[mem].msgs
    BY <1>1 DEF IInv, TypeOK, listFromMemory
  <2> QED BY <1>1, <2>1 DEF IInv, TypeOK, Record, Isolation, Single
<1>2. CASE ~(mem # NoRec /\ rec[mem].owner = u)
  <2>1. listFromMemory(u) = <<>>
    BY <1>2 DEF listFromMemory
  <2> QED BY <2>1
<1> QED BY <1>1, <1>2

(* A caller is listed what it owns. *)
LEMMA ListStep ==
  ASSUME IInv, NEW c \in Calls, List(c)
  PROVE  IInv'
<1> DEFINE own == doc # NoDoc /\ doc.owner = job[c].user
           msgs == IF own THEN doc.msgs ELSE <<>>
<1>1. msgs \in Seq(Message) /\ \A i \in DOMAIN msgs : msgs[i].from = job[c].user
  <2>1. CASE own
    BY DEF IInv, TypeOK, Record, Isolation, Single
  <2>2. CASE ~own
    BY <2>2
  <2> QED BY <2>1, <2>2
<1>2. CASE Return(c, "ok", msgs)
  <2> HIDE DEF msgs
  <2> QED BY <1>1, <1>2, ReturnStep DEF List
<1>3. CASE Return(c, "ok", listFromMemory(job[c].user))
  BY <1>3, ListedFromMemory, ReturnStep DEF List
<1> QED BY <1>2, <1>3 DEF List

(* Forgetting a session leaves every record as it was. *)
LEMMA ForgetStep ==
  ASSUME IInv, NEW c \in Calls, Forget(c)
  PROVE  IInv'
<1>1. CASE Persistent
  <2>0. /\ pc[c] = "held" /\ pc' = [pc EXCEPT ![c] = "drop"]
        /\ mem' = NoRec
        /\ UNCHANGED <<rec, doc, rows, job, held, wire, mirror, reply, restarts>>
    BY <1>1 DEF Forget, Go
  <2>1. TypeOK'
    BY <2>0 DEF IInv, TypeOK, Places
  <2>2. (Fresh /\ Holding /\ Checked /\ Unasked)'
    BY <2>0, SentinelAssumption DEF IInv, Fresh, Holding, Checked, Unasked, Before
  <2>3. Isolation'
    BY <2>0 DEF IInv, Isolation, Answered
  <2> QED BY <2>1, <2>2, <2>3 DEF IInv
<1>2. CASE ~Persistent
  <2>0. /\ mem' = NoRec /\ Return(c, "ok", <<>>)
        /\ UNCHANGED <<rec, doc, rows, job, wire, mirror, restarts>>
    BY <1>2 DEF Forget
  <2>1. TypeOK'
    BY <2>0 DEF IInv, TypeOK, Places, Return, Go
  <2>2. (Fresh /\ Holding /\ Checked /\ Unasked)'
    BY <2>0, SentinelAssumption
    DEF IInv, TypeOK, Fresh, Holding, Checked, Unasked, Before, Return, Go
  <2>3. Isolation'
    BY <2>0 DEF IInv, Isolation, Answered, Return
  <2> QED BY <2>1, <2>2, <2>3 DEF IInv
<1> QED BY <1>1, <1>2

(* Taking a snapshot copies the record the call holds. *)
LEMMA SnapshotStep ==
  ASSUME IInv, NEW c \in Calls, Snapshot(c)
  PROVE  IInv'
<1>0. rec[held[c]] \in Record /\ Single(rec[held[c]])
  BY DEF IInv, TypeOK, Holding, Snapshot, Isolation
<1>1. TypeOK'
  BY <1>0 DEF IInv, TypeOK, Places, Snapshot, Go
<1>2. (Fresh /\ Holding /\ Checked /\ Unasked)'
  BY DEF IInv, TypeOK, Fresh, Holding, Checked, Unasked, Before, Snapshot, Go
<1>3. Isolation'
  <2>1. wire' = [wire EXCEPT ![c] = rec[held[c]]]
        /\ UNCHANGED <<rec, doc, rows, job, mirror, reply>>
    BY DEF Snapshot
  <2>2. \A d \in Calls : wire'[d] # NoDoc => Single(wire'[d])
    BY <1>0, <2>1 DEF IInv, Isolation
  <2> QED BY <2>1, <2>2 DEF IInv, Isolation, Answered
<1> QED BY <1>1, <1>2, <1>3 DEF IInv

(* The document becomes a snapshot of one owner. *)
LEMMA SaveOpenedStep ==
  ASSUME IInv, NEW c \in Calls, SaveOpened(c)
  PROVE  IInv'
<1>1. TypeOK'
  BY DEF IInv, TypeOK, Places, SaveOpened, ReplaceOne, Go
<1>2. (Fresh /\ Holding /\ Checked /\ Unasked)'
  BY DEF IInv, Fresh, Holding, Checked, Unasked, Before, SaveOpened, Go
<1>3. Isolation'
  BY DEF IInv, Isolation, Answered, SaveOpened, ReplaceOne
<1> QED BY <1>1, <1>2, <1>3 DEF IInv

(* The row that is scheduled has the owner the append checked. *)
LEMMA SaveStep ==
  ASSUME IInv, NEW c \in Calls, Save(c)
  PROVE  IInv'
<1>1. TypeOK'
  BY DEF IInv, TypeOK, Places, Save, ReplaceOne, Return, Go, Checked, Row, MsgIds
<1>2. (Fresh /\ Holding /\ Checked /\ Unasked)'
  BY SentinelAssumption DEF IInv, TypeOK, Fresh, Holding, Checked, Unasked, Before, Save, Return, Go, Holding
<1>3. Isolation'
  BY DEF IInv, Isolation, Answered, Save, ReplaceOne, Return, Checked
<1> QED BY <1>1, <1>2, <1>3 DEF IInv

(* Deleting the document leaves every record as it was. *)
LEMMA DropDocStep ==
  ASSUME IInv, NEW c \in Calls, DropDoc(c)
  PROVE  IInv'
<1>1. TypeOK'
  BY DEF IInv, TypeOK, Places, DropDoc, Go
<1>2. (Fresh /\ Holding /\ Checked /\ Unasked)'
  BY DEF IInv, Fresh, Holding, Checked, Unasked, Before, DropDoc, Go
<1>3. Isolation'
  BY DEF IInv, Isolation, Answered, DropDoc
<1> QED BY <1>1, <1>2, <1>3 DEF IInv

(* Purging only removes rows. *)
LEMMA PurgeRowsStep ==
  ASSUME IInv, NEW c \in Calls, PurgeRows(c)
  PROVE  IInv'
<1>1. TypeOK'
  BY DEF IInv, TypeOK, Places, PurgeRows, Return, Go
<1>2. (Fresh /\ Holding /\ Checked /\ Unasked)'
  BY SentinelAssumption DEF IInv, Fresh, Holding, Checked, Unasked, Before, PurgeRows, Return, Go
<1>3. Isolation'
  BY DEF IInv, Isolation, Answered, PurgeRows, Return
<1> QED BY <1>1, <1>2, <1>3 DEF IInv

(* The owner's message is pushed into the record the owner's call holds. *)
LEMMA PushStep ==
  ASSUME IInv, NEW c \in Calls, Push(c)
  PROVE  IInv'
<1> DEFINE r == held[c]
           new == [rec[r] EXCEPT !.msgs = Append(@, NewMessage(c))]
<1>1. /\ r \in Calls /\ rec[r] \in Record /\ Single(rec[r])
      /\ rec[r].owner = job[c].user
      /\ NewMessage(c) \in Message /\ NewMessage(c).from = rec[r].owner
  BY DEF IInv, TypeOK, Holding, Isolation, Push, owns, NewMessage, Message, MsgIds
<1>2. new \in Record /\ new.owner = job[c].user /\ Single(new)
  BY <1>1, PushedRecord
<1>3. rec' = [rec EXCEPT ![r] = new]
  BY DEF Push
<1> HIDE DEF new
<1>4. CASE Persistent
  <2>0. /\ pc[c] = "held" /\ pc' = [pc EXCEPT ![c] = "save"]
        /\ mem' = r
        /\ UNCHANGED <<doc, rows, job, held, wire, mirror, reply, restarts>>
    BY <1>4 DEF Push, Go
  <2>1. TypeOK'
    BY <1>2, <1>3, <2>0 DEF IInv, TypeOK, Places
  <2>2. (Fresh /\ Holding /\ Checked /\ Unasked)'
    BY <1>1, <1>2, <1>3, <2>0
    DEF IInv, TypeOK, Fresh, Holding, Checked, Unasked, Before
  <2>3. Isolation'
    <3>1. \A d \in Calls : Single(rec'[d])
      BY <1>2, <1>3 DEF IInv, Isolation
    <3> QED BY <2>0, <3>1 DEF IInv, Isolation, Answered
  <2> QED BY <2>1, <2>2, <2>3 DEF IInv
<1>5. CASE ~Persistent
  <2>0. /\ pc[c] = "held" /\ Return(c, "ok", <<>>)
        /\ mem' = r
        /\ UNCHANGED <<doc, rows, job, wire, mirror, restarts>>
    BY <1>5 DEF Push, Go
  <2>1. TypeOK'
    BY <1>1, <1>2, <1>3, <2>0 DEF IInv, TypeOK, Places, Return, Go
  <2>2. (Fresh /\ Holding /\ Checked /\ Unasked)'
    BY <1>1, <1>2, <1>3, <2>0, SentinelAssumption
    DEF IInv, TypeOK, Fresh, Holding, Checked, Unasked, Before, Return, Go
  <2>3. Isolation'
    <3>1. \A d \in Calls : Single(rec'[d])
      BY <1>2, <1>3 DEF IInv, Isolation
    <3>2. \A d \in Calls : Answered(d)' =>
            \A i \in DOMAIN reply'[d].msgs : reply'[d].msgs[i].from = job'[d].user
      BY <2>0 DEF IInv, Isolation, Answered, Return
    <3> QED BY <2>0, <3>1, <3>2 DEF IInv, Isolation
  <2> QED BY <2>1, <2>2, <2>3 DEF IInv
<1> QED BY <1>4, <1>5

(* A tag changes neither the owner of a record nor who wrote its messages. *)
LEMMA TagStep ==
  ASSUME IInv, NEW c \in Calls, NEW id \in MsgIds, setLastTraceId(c, id)
  PROVE  IInv'
<1> DEFINE asked == [op |-> "tag", user |-> NoUser, role |-> "user"]
<1>1. /\ pc[c] = "idle" /\ reply[c] = NoReply
      /\ job' = [job EXCEPT ![c] = asked]
      /\ UNCHANGED <<mem, doc, rows, wire, mirror, restarts>>
  BY DEF IInv, Unasked, setLastTraceId, Accept
<1>2. PICK new \in [Calls -> Record] :
        /\ rec' = new
        /\ \A d \in Calls : new[d].owner = rec[d].owner /\ Single(new[d])
  <2>1. CASE UNCHANGED rec
    BY <2>1 DEF IInv, TypeOK, Isolation
  <2>2. ASSUME NEW i \in Target(id), rec' = [rec EXCEPT ![mem].msgs[i].trace = c]
        PROVE  /\ rec' \in [Calls -> Record]
               /\ \A d \in Calls : rec'[d].owner = rec[d].owner /\ Single(rec'[d])
    <3>1. mem \in Calls /\ i \in DOMAIN rec[mem].msgs
      BY DEF IInv, TypeOK, Target
    <3> DEFINE tagged == [rec[mem] EXCEPT !.msgs[i].trace = c]
    <3>2. tagged \in Record /\ tagged.owner = rec[mem].owner /\ Single(tagged)
      BY <3>1, TaggedRecord DEF IInv, TypeOK, Isolation
    <3>3. rec' = [rec EXCEPT ![mem] = tagged]
      BY <2>2
    <3> HIDE DEF tagged
    <3> QED BY <3>2, <3>3 DEF IInv, TypeOK, Isolation
  <2> QED BY <2>1, <2>2 DEF setLastTraceId
<1>3. CASE pc' = [pc EXCEPT ![c] = "save"] /\ held' = [held EXCEPT ![c] = mem]
           /\ mem \in Calls /\ UNCHANGED reply
  <2>1. TypeOK'
    BY <1>1, <1>2, <1>3 DEF IInv, TypeOK, Places, Owners, Roles
  <2>2. (Fresh /\ Holding /\ Checked /\ Unasked)'
    BY <1>1, <1>2, <1>3, SentinelAssumption
    DEF IInv, TypeOK, Fresh, Holding, Checked, Unasked, Before
  <2>3. Isolation'
    BY <1>1, <1>2, <1>3 DEF IInv, Isolation, Answered
  <2> QED BY <2>1, <2>2, <2>3 DEF IInv
<1>4. CASE Return(c, "ok", <<>>)
  <2>1. TypeOK'
    BY <1>1, <1>2, <1>4 DEF IInv, TypeOK, Places, Owners, Roles, Return, Go
  <2>2. (Fresh /\ Holding /\ Checked /\ Unasked)'
    BY <1>1, <1>2, <1>4, SentinelAssumption
    DEF IInv, TypeOK, Fresh, Holding, Checked, Unasked, Before, Return, Go
  <2>3. Isolation'
    BY <1>1, <1>2, <1>4 DEF IInv, Isolation, Answered, Return
  <2> QED BY <2>1, <2>2, <2>3 DEF IInv
<1> QED BY <1>3, <1>4 DEF setLastTraceId, Go, IInv, TypeOK, Target

(* The synchronous prefix of an accessor, asked for by one user. *)
LEMMA LookupStep ==
  ASSUME IInv, NEW c \in Calls, NEW u \in Users, NEW role \in Roles,
         NEW op \in {"get", "append", "delete"},
         Accept(c, op, u, role), Lookup(c, op, u),
         UNCHANGED <<doc, rows, wire, mirror, restarts>>
  PROVE  IInv'
<1>1. /\ pc[c] = "idle" /\ reply[c] = NoReply
      /\ job' = [job EXCEPT ![c] = [op |-> op, user |-> u, role |-> role]]
      /\ u \in Owners
  BY DEF IInv, Unasked, Accept, Owners
<1>2. CASE /\ mem # NoRec /\ held' = [held EXCEPT ![c] = mem] /\ pc' = [pc EXCEPT ![c] = "held"]
           /\ UNCHANGED <<mem, rec, reply>>
  <2>1. TypeOK'
    BY <1>1, <1>2 DEF IInv, TypeOK, Places
  <2>2. (Fresh /\ Holding /\ Checked /\ Unasked)'
    BY <1>1, <1>2 DEF IInv, TypeOK, Fresh, Holding, Checked, Unasked, Before
  <2>3. Isolation'
    BY <1>1, <1>2 DEF IInv, Isolation, Answered
  <2> QED BY <2>1, <2>2, <2>3 DEF IInv
<1>3. CASE pc' = [pc EXCEPT ![c] = "find"] /\ UNCHANGED <<mem, rec, held, reply>>
  <2>1. TypeOK'
    BY <1>1, <1>3 DEF IInv, TypeOK, Places
  <2>2. (Fresh /\ Holding /\ Checked /\ Unasked)'
    BY <1>1, <1>3 DEF IInv, Fresh, Holding, Checked, Unasked, Before
  <2>3. Isolation'
    BY <1>1, <1>3 DEF IInv, Isolation, Answered
  <2> QED BY <2>1, <2>2, <2>3 DEF IInv
<1>4. CASE /\ rec' = [rec EXCEPT ![c] = [owner |-> u, msgs |-> <<>>]]
           /\ mem' = c /\ held' = [held EXCEPT ![c] = c] /\ pc' = [pc EXCEPT ![c] = "held"]
           /\ UNCHANGED reply
  <2>1. TypeOK'
    BY <1>1, <1>4 DEF IInv, TypeOK, Places, Record
  <2>2. (Fresh /\ Holding /\ Unasked)'
    BY <1>4 DEF IInv, TypeOK, Fresh, Holding, Unasked, Before
  <2>3. Checked'
    BY <1>1, <1>4 DEF IInv, Fresh, Checked, Before
  <2>4. Isolation'
    <3>1. \A d \in Calls : Single(rec'[d])
      BY <1>4 DEF IInv, Isolation, Single
    <3> QED BY <1>1, <1>4, <3>1 DEF IInv, Isolation, Answered
  <2> QED BY <2>1, <2>2, <2>3, <2>4 DEF IInv
<1>5. CASE Return(c, "missing", <<>>) /\ UNCHANGED <<mem, rec>>
  <2>1. TypeOK'
    BY <1>1, <1>5 DEF IInv, TypeOK, Places, Return, Go
  <2>2. (Fresh /\ Holding /\ Checked /\ Unasked)'
    BY <1>1, <1>5, SentinelAssumption
    DEF IInv, TypeOK, Fresh, Holding, Checked, Unasked, Before, Return, Go
  <2>3. Isolation'
    BY <1>1, <1>5 DEF IInv, Isolation, Answered, Return
  <2> QED BY <2>1, <2>2, <2>3 DEF IInv
<1> QED BY <1>2, <1>3, <1>4, <1>5 DEF Lookup, Open, Go

(* A list reads the cache at once, or waits for the query. *)
LEMMA ListSessionsStep ==
  ASSUME IInv, NEW c \in Calls, NEW u \in Users, listSessions(c, u)
  PROVE  IInv'
<1>1. /\ pc[c] = "idle" /\ reply[c] = NoReply
      /\ job' = [job EXCEPT ![c] = [op |-> "list", user |-> u, role |-> "user"]]
      /\ UNCHANGED <<mem, rec, doc, rows, wire, mirror, restarts>>
      /\ u \in Owners
  BY DEF IInv, Unasked, listSessions, Accept, Owners
<1>2. CASE pc' = [pc EXCEPT ![c] = "listing"] /\ UNCHANGED <<held, reply>>
  <2>1. TypeOK'
    BY <1>1, <1>2 DEF IInv, TypeOK, Places, Roles
  <2>2. (Fresh /\ Holding /\ Checked /\ Unasked)'
    BY <1>1, <1>2 DEF IInv, Fresh, Holding, Checked, Unasked, Before
  <2>3. Isolation'
    BY <1>1, <1>2 DEF IInv, Isolation, Answered
  <2> QED BY <2>1, <2>2, <2>3 DEF IInv
<1>3. CASE Return(c, "ok", listFromMemory(u))
  <2>0. /\ listFromMemory(u) \in Seq(Message)
        /\ \A i \in DOMAIN listFromMemory(u) : listFromMemory(u)[i].from = u
    BY ListedFromMemory
  <2>1. TypeOK'
    BY <1>1, <1>3, <2>0 DEF IInv, TypeOK, Places, Roles, Return, Go
  <2>2. (Fresh /\ Holding /\ Checked /\ Unasked)'
    BY <1>1, <1>3, SentinelAssumption
    DEF IInv, TypeOK, Fresh, Holding, Checked, Unasked, Before, Return, Go
  <2>3. Isolation'
    BY <1>1, <1>3, <2>0 DEF IInv, TypeOK, Isolation, Answered, Return
  <2> QED BY <2>1, <2>2, <2>3 DEF IInv
<1> QED BY <1>2, <1>3 DEF listSessions, Go

(* A scheduled row replaces the row of its message. *)
LEMMA MirrorStep ==
  ASSUME IInv, NEW r \in mirror, MirrorRow(r)
  PROVE  IInv'
<1>1. TypeOK'
  BY DEF IInv, TypeOK, MirrorRow, calls
<1>2. (Fresh /\ Holding /\ Checked /\ Unasked)'
  BY DEF IInv, Fresh, Holding, Checked, Unasked, MirrorRow, calls
<1>3. Isolation'
  <2>1. UNCHANGED <<mem, rec, doc, job, wire, reply>> /\ rows' \cup mirror' \subseteq rows \cup mirror
    BY DEF MirrorRow, calls
  <2> QED BY <2>1 DEF IInv, Isolation, Answered
<1> QED BY <1>1, <1>2, <1>3 DEF IInv

(* A restart forgets every record and every call in flight. *)
LEMMA RestartStep ==
  ASSUME IInv, Restart
  PROVE  IInv'
<1>1. TypeOK'
  BY ParameterAssumption DEF IInv, TypeOK, Places, Restart, Empty, Record, Owners
<1>2. (Fresh /\ Holding /\ Checked /\ Unasked)'
  BY SentinelAssumption
  DEF IInv, TypeOK, Fresh, Holding, Checked, Unasked, Before, Restart
<1>3. Isolation'
  BY DEF IInv, Isolation, Answered, Single, Restart, Empty
<1> QED BY <1>1, <1>2, <1>3 DEF IInv

(* The invariant holds at the start. *)
LEMMA InitIInv == Init => IInv
<1> SUFFICES ASSUME Init PROVE IInv
  OBVIOUS
<1>1. doc \in Record \cup {NoDoc} /\ (doc # NoDoc => Single(doc))
  BY OldAssumption DEF Init
<1>2. rows \subseteq Row /\ \A r \in rows : r.owner = r.from
  <2>1. CASE doc = NoDoc
    BY <2>1 DEF Init
  <2>2. CASE doc # NoDoc
    <3>1. ASSUME NEW i \in DOMAIN doc.msgs
          PROVE  doc.msgs[i].id \in MsgIds /\ doc.owner \in Owners
      <4>1. doc \in Record /\ doc.msgs \in Seq(Message)
        BY <1>1, <2>2 DEF Record
      <4>2. doc.msgs[i] \in Message
        BY <4>1
      <4> QED BY <4>1, <4>2 DEF Record, Message
    <3> QED BY <3>1 DEF Init, Row
  <2> QED BY <2>1, <2>2
<1>3. TypeOK
  BY <1>1, <1>2, ParameterAssumption
  DEF Init, TypeOK, Places, NoJob, Empty, Record, Owners, Roles
<1>4. Fresh /\ Holding /\ Checked /\ Unasked
  BY SentinelAssumption DEF Init, Fresh, Holding, Checked, Unasked
<1>5. Isolation
  BY <1>1 DEF Init, Isolation, Answered, Single, Empty
<1> QED BY <1>3, <1>4, <1>5 DEF IInv

(* Every step keeps the invariant, one action at a time. *)
LEMMA NextIInv == IInv /\ [Next]_vars => IInv'
<1> SUFFICES ASSUME IInv, [Next]_vars PROVE IInv'
  OBVIOUS
<1>1. ASSUME NEW c \in Calls, Ask(c) PROVE IInv'
  <2>1. ASSUME NEW u \in Users, getSession(c, u) PROVE IInv'
    BY <2>1, LookupStep DEF getSession, Roles
  <2>2. ASSUME NEW u \in Users, deleteSession(c, u) PROVE IInv'
    BY <2>2, LookupStep DEF deleteSession, Roles
  <2>3. ASSUME NEW u \in Users, NEW role \in Roles, appendMessage(c, u, role) PROVE IInv'
    BY <2>3, LookupStep DEF appendMessage
  <2> QED BY <1>1, <2>1, <2>2, <2>3, ListSessionsStep, TagStep DEF Ask
<1>2. ASSUME NEW c \in Calls, Step(c) PROVE IInv'
  BY <1>2, FindOneStep, LoadStep, CreateStep, MissingStep, RefuseStep, GetStep, PushStep,
     ForgetStep, SnapshotStep, SaveOpenedStep, SaveStep, DropDocStep, PurgeRowsStep, ListStep
  DEF Step
<1>3. CASE Mirror
  BY <1>3, MirrorStep DEF Mirror
<1>4. CASE Restart
  BY <1>4, RestartStep
<1>5. CASE UNCHANGED vars
  <2>1. TypeOK'
    BY <1>5 DEF IInv, TypeOK, vars, calls
  <2>2. (Fresh /\ Holding /\ Checked /\ Unasked)'
    BY <1>5 DEF IInv, Fresh, Holding, Checked, Unasked, vars, calls
  <2>3. Isolation'
    BY <1>5 DEF IInv, Isolation, Answered, vars, calls
  <2> QED BY <2>1, <2>2, <2>3 DEF IInv
<1> QED BY <1>1, <1>2, <1>3, <1>4, <1>5 DEF Next

-----------------------------------------------------------------------------
(* Every reachable state of the store satisfies the inductive invariant. *)
LEMMA Inductive == Spec => []IInv
BY InitIInv, NextIInv, PTL DEF Spec

(* Every variable of the session store keeps its type. *)
THEOREM TypeCorrect == Spec => []TypeOK
<1>1. IInv => TypeOK
  BY DEF IInv
<1> QED BY <1>1, Inductive, PTL

(* Whatever fails, overtakes or restarts, a record, the document, a row    *)
(* and an answer hold only messages of their owner.                        *)
THEOREM TenantsIsolated == Spec => []Isolation
<1>1. IInv => Isolation
  BY DEF IInv
<1> QED BY <1>1, Inductive, PTL

-----------------------------------------------------------------------------
(* Where a message of the session store may be: at most once in a record,  *)
(* a snapshot or the document, and nowhere if its call was refused, for    *)
(* any calls, users, documents, faults and bounds.                         *)

(* A call that has not pushed its message, or never will.  (One that died  *)
(* with the process may have.)                                             *)
Quiet(c) ==
  \/ pc[c] \in Places \ {"save", "sent", "done"}
  \/ pc[c] = "done" /\ Answered(c) /\ reply[c].status # "ok"

Unwritten(c) ==
  /\ \A d \in Written : \A i \in DOMAIN d.msgs : d.msgs[i].id # c
  /\ \A r \in rows \cup mirror : r.id # c

(* A call is answered when it is done; the message of a quiet call is      *)
(* nowhere; nothing that is written or on its way has a message twice.     *)
Late == \A c \in Calls : Answered(c) => pc[c] = "done"
Clean == \A c \in Calls : Quiet(c) => Unwritten(c)
Once == \A d \in Written : Distinct(d)

MInv == Late /\ Clean /\ Once

-----------------------------------------------------------------------------
(* All that is written is a record. *)
LEMMA WrittenRecords == IInv => Written \subseteq Record
BY DEF IInv, TypeOK, Written

LEMMA EmptyDistinct == ASSUME NEW u PROVE Distinct([owner |-> u, msgs |-> <<>>])
BY DEF Distinct

(* A message that is not in a record is once in it when it is pushed. *)
LEMMA PushedOnce ==
  ASSUME NEW r \in Record, Distinct(r), NEW m \in Message,
         \A i \in DOMAIN r.msgs : r.msgs[i].id # m.id
  PROVE  LET s == [r EXCEPT !.msgs = Append(@, m)]
         IN /\ Distinct(s)
            /\ \A i \in DOMAIN s.msgs :
                 s.msgs[i].id = m.id \/ \E j \in DOMAIN r.msgs : s.msgs[i].id = r.msgs[j].id
<1> DEFINE s == [r EXCEPT !.msgs = Append(@, m)]
<1>1. /\ r.msgs \in Seq(Message) /\ s.msgs = Append(r.msgs, m)
      /\ DOMAIN s.msgs = 1..(Len(r.msgs) + 1)
  BY DEF Record
<1>2. /\ DOMAIN r.msgs = 1..Len(r.msgs)
      /\ \A i \in 1..Len(r.msgs) : s.msgs[i] = r.msgs[i]
      /\ s.msgs[Len(r.msgs) + 1] = m
  BY <1>1
<1>3. \A i \in DOMAIN s.msgs : i \in DOMAIN r.msgs \/ i = Len(r.msgs) + 1
  BY <1>1, <1>2
<1>4. Distinct(s)
  <2> SUFFICES ASSUME NEW i \in DOMAIN s.msgs, NEW j \in DOMAIN s.msgs, s.msgs[i].id = s.msgs[j].id
               PROVE  i = j
    BY DEF Distinct
  <2> HIDE DEF s
  <2> QED BY <1>2, <1>3 DEF Distinct
<1> HIDE DEF s
<1>5. \A i \in DOMAIN s.msgs :
        s.msgs[i].id = m.id \/ \E j \in DOMAIN r.msgs : s.msgs[i].id = r.msgs[j].id
  BY <1>2, <1>3
<1> QED BY <1>4, <1>5 DEF s

(* Records with the same messages, but for their traces. *)
SameIds(d, e) ==
  /\ DOMAIN d.msgs = DOMAIN e.msgs
  /\ \A i \in DOMAIN d.msgs : d.msgs[i].id = e.msgs[i].id

LEMMA TaggedIds ==
  ASSUME NEW r \in Record, NEW i \in DOMAIN r.msgs, NEW t
  PROVE  SameIds([r EXCEPT !.msgs[i].trace = t], r)
<1> DEFINE s == [r EXCEPT !.msgs[i].trace = t]
<1>1. r.msgs \in Seq(Message) /\ s.msgs = [r.msgs EXCEPT ![i] = [r.msgs[i] EXCEPT !.trace = t]]
  BY DEF Record
<1>2. r.msgs[i] \in Message
  BY <1>1
<1>3. [r.msgs[i] EXCEPT !.trace = t].id = r.msgs[i].id
  BY <1>2 DEF Message
<1> HIDE DEF s
<1>4. SameIds(s, r)
  BY <1>1, <1>3 DEF SameIds
<1> QED BY <1>4 DEF s

(* A step copies when what is written after it is empty, or was there      *)
(* before, and so were its rows.                                           *)
Copies ==
  /\ \A d \in Written' : d.msgs = <<>> \/ \E e \in Written : SameIds(d, e)
  /\ \A r \in (rows \cup mirror)' : r \in rows \cup mirror \/ ~Quiet(r.id)'

(* Such a step, if it makes no call quiet, keeps messages where they were. *)
LEMMA Carry ==
  ASSUME MInv, Late', Copies, \A c \in Calls : Quiet(c)' => Quiet(c)
  PROVE  MInv'
<1>1. ASSUME NEW c \in Calls, Quiet(c)' PROVE Unwritten(c)'
  <2>1. Unwritten(c)
    BY <1>1 DEF MInv, Clean
  <2>2. ASSUME NEW d \in Written', NEW i \in DOMAIN d.msgs PROVE d.msgs[i].id # c
    <3>1. CASE d.msgs = <<>>
      BY <2>2, <3>1
    <3>2. CASE \E e \in Written : SameIds(d, e)
      BY <2>1, <2>2, <3>2 DEF Unwritten, SameIds
    <3> QED BY <3>1, <3>2 DEF Copies
  <2>3. \A r \in (rows \cup mirror)' : r.id # c
    BY <1>1, <2>1 DEF Unwritten, Copies
  <2> QED BY <2>2, <2>3 DEF Unwritten
<1>2. ASSUME NEW d \in Written' PROVE Distinct(d)
  <2>1. CASE d.msgs = <<>>
    BY <2>1 DEF Distinct
  <2>2. CASE \E e \in Written : SameIds(d, e)
    BY <2>2 DEF MInv, Once, SameIds, Distinct
  <2> QED BY <2>1, <2>2 DEF Copies
<1> QED BY <1>1, <1>2 DEF MInv, Clean, Once

(* A step of call c makes no other call quiet, and answers only the call   *)
(* that it ends.                                                           *)
OfCall(c) ==
  /\ pc[c] # "done" /\ (pc'[c] = "done" \/ reply'[c] = reply[c])
  /\ \A d \in Calls : d # c => pc'[d] = pc[d] /\ reply'[d] = reply[d]
  /\ Quiet(c)' => Quiet(c)

LEMMA CallKeeps ==
  ASSUME MInv, NEW c \in Calls, OfCall(c), Copies
  PROVE  MInv'
<1>1. Late'
  BY DEF MInv, Late, Answered, OfCall
<1>2. \A d \in Calls : Quiet(d)' => Quiet(d)
  BY DEF OfCall, Quiet, Answered
<1> QED BY <1>1, <1>2, Carry

LEMMA Same == ASSUME NEW d PROVE SameIds(d, d)
BY DEF SameIds

-----------------------------------------------------------------------------
(* One lemma for each action. *)

LEMMA MessagesInit == Init => MInv
<1> SUFFICES ASSUME Init PROVE MInv
  OBVIOUS
<1>1. Written \subseteq {doc, Empty} \ {NoDoc}
  BY DEF Init, Written
<1>2. doc # NoDoc => doc \in OldDocs
  BY DEF Init
<1>3. Late
  BY DEF Init, Late, Answered
<1>4. ASSUME NEW c \in Calls PROVE Unwritten(c)
  <2>1. ASSUME NEW d \in Written, NEW i \in DOMAIN d.msgs PROVE d.msgs[i].id # c
    BY <1>1, <1>2, <2>1, OldAssumption, SentinelAssumption DEF Empty
  <2>2. ASSUME NEW r \in rows \cup mirror PROVE r.id # c
    BY <1>2, <2>2, OldAssumption, SentinelAssumption DEF Init
  <2> QED BY <2>1, <2>2 DEF Unwritten
<1>5. Once
  BY <1>1, <1>2, OldAssumption DEF Once, Empty, Distinct
<1> QED BY <1>3, <1>4, <1>5 DEF MInv, Clean

(* A call that is quiet goes on, or ends.                                  *)
LEMMA QuietCall ==
  ASSUME IInv, NEW c \in Calls, pc[c] \in Places \ {"save", "sent", "done"},
         \A d \in Calls : d # c => pc'[d] = pc[d] /\ reply'[d] = reply[d],
         pc'[c] = "done" \/ reply'[c] = reply[c]
  PROVE  OfCall(c)
BY DEF OfCall, Quiet

LEMMA FindOneMessages ==
  ASSUME IInv, MInv, NEW c \in Calls, FindOne(c)
  PROVE  MInv'
<1>1. OfCall(c)
  BY QuietCall DEF IInv, TypeOK, Places, FindOne, Go
<1>2. Written' \subseteq Written /\ (rows \cup mirror)' = rows \cup mirror
  BY DEF IInv, TypeOK, Written, FindOne
<1> QED BY <1>1, <1>2, Same, CallKeeps DEF Copies

LEMMA LoadMessages ==
  ASSUME IInv, MInv, NEW c \in Calls, Load(c)
  PROVE  MInv'
<1>1. OfCall(c)
  BY QuietCall DEF IInv, TypeOK, Places, Load, Go
<1>2. Written' \subseteq Written /\ (rows \cup mirror)' = rows \cup mirror
  BY DEF IInv, TypeOK, Written, Load
<1> QED BY <1>1, <1>2, Same, CallKeeps DEF Copies

LEMMA CreateMessages ==
  ASSUME IInv, MInv, NEW c \in Calls, Create(c)
  PROVE  MInv'
<1>1. OfCall(c)
  BY QuietCall DEF IInv, TypeOK, Places, Create, Go
<1>2. /\ Written' \subseteq Written \cup {[owner |-> job[c].user, msgs |-> <<>>]}
      /\ (rows \cup mirror)' = rows \cup mirror
  BY DEF IInv, TypeOK, Written, Create, Open
<1> QED BY <1>1, <1>2, Same, CallKeeps DEF Copies

(* Steps that end a call, or go on to delete, without a message.           *)
LEMMA SilentMessages ==
  ASSUME IInv, MInv, NEW c \in Calls, Missing(c) \/ Refuse(c) \/ Get(c) \/ List(c) \/ Forget(c)
  PROVE  MInv'
<1>1. OfCall(c)
  BY QuietCall DEF IInv, TypeOK, Places, Missing, Refuse, Get, List, Forget, Return, Go
<1>2. Written' = Written /\ (rows \cup mirror)' = rows \cup mirror
  BY DEF Written, Missing, Refuse, Get, List, Forget
<1> QED BY <1>1, <1>2, Same, CallKeeps DEF Copies

LEMMA SnapshotMessages ==
  ASSUME IInv, MInv, NEW c \in Calls, Snapshot(c)
  PROVE  MInv'
<1>1. OfCall(c)
  BY DEF IInv, TypeOK, Places, Snapshot, Go, OfCall, Quiet
<1>2. Written' \subseteq Written /\ (rows \cup mirror)' = rows \cup mirror
  BY DEF IInv, TypeOK, Holding, Written, Snapshot
<1> QED BY <1>1, <1>2, Same, CallKeeps DEF Copies

LEMMA SaveOpenedMessages ==
  ASSUME IInv, MInv, NEW c \in Calls, SaveOpened(c)
  PROVE  MInv'
<1>1. OfCall(c)
  BY QuietCall DEF IInv, TypeOK, Places, SaveOpened, Go
<1>2. Written' \subseteq Written /\ (rows \cup mirror)' = rows \cup mirror
  BY DEF IInv, TypeOK, Written, SaveOpened, ReplaceOne
<1> QED BY <1>1, <1>2, Same, CallKeeps DEF Copies

(* The row that is scheduled is of a call that is not refused any more.    *)
LEMMA SaveMessages ==
  ASSUME IInv, MInv, NEW c \in Calls, Save(c)
  PROVE  MInv'
<1>0. pc[c] = "sent" /\ pc'[c] = "done" /\ reply'[c].status = "ok" /\ ~Quiet(c)'
  BY DEF IInv, TypeOK, Save, Return, Go, Quiet
<1>1. OfCall(c)
  BY <1>0 DEF IInv, TypeOK, Save, Return, Go, OfCall
<1>2. Written' \subseteq Written
  BY DEF IInv, TypeOK, Written, Save, ReplaceOne
<1>3. \A r \in (rows \cup mirror)' : r \in rows \cup mirror \/ r.id = c
  BY DEF Save
<1> QED BY <1>0, <1>1, <1>2, <1>3, Same, CallKeeps DEF Copies

LEMMA DropMessages ==
  ASSUME IInv, MInv, NEW c \in Calls, DropDoc(c) \/ PurgeRows(c)
  PROVE  MInv'
<1>1. OfCall(c)
  BY QuietCall DEF IInv, TypeOK, Places, DropDoc, PurgeRows, Return, Go
<1>2. Written' \subseteq Written /\ (rows \cup mirror)' \subseteq rows \cup mirror
  BY DEF Written, DropDoc, PurgeRows
<1> QED BY <1>1, <1>2, Same, CallKeeps DEF Copies

(* The message of a call that holds a record is nowhere yet, so it is once *)
(* where it is pushed; the call is not quiet any more.                     *)
LEMMA PushMessages ==
  ASSUME IInv, MInv, NEW c \in Calls, Push(c)
  PROVE  MInv'
<1> DEFINE r == held[c]
           new == [rec[r] EXCEPT !.msgs = Append(@, NewMessage(c))]
<1>1. /\ r \in Calls /\ rec[r] \in Record /\ rec[r] \in Written
      /\ NewMessage(c) \in Message /\ NewMessage(c).id = c
  BY SentinelAssumption DEF IInv, TypeOK, Holding, Push, NewMessage, Message, MsgIds, Written
<1>2. Quiet(c) /\ Unwritten(c) /\ Distinct(rec[r])
  BY <1>1 DEF Push, Quiet, Places, MInv, Clean, Once
<1>3. /\ Distinct(new)
      /\ \A i \in DOMAIN new.msgs :
           new.msgs[i].id = c \/ \E j \in DOMAIN rec[r].msgs : new.msgs[i].id = rec[r].msgs[j].id
  BY <1>1, <1>2, PushedOnce DEF Unwritten
<1>4. rec' = [rec EXCEPT ![r] = new] /\ UNCHANGED <<doc, wire, rows, mirror>>
  BY DEF Push
<1> HIDE DEF new
<1>5. Written' \subseteq Written \cup {new}
  BY <1>1, <1>4 DEF IInv, TypeOK, Written
<1>6. /\ pc[c] = "held"
      /\ \A d \in Calls : d # c => pc'[d] = pc[d] /\ reply'[d] = reply[d]
      /\ \/ pc'[c] = "save" /\ reply'[c] = reply[c]
         \/ pc'[c] = "done" /\ reply'[c].status = "ok"
  BY DEF IInv, TypeOK, Push, Return, Go
<1>7. ~Quiet(c)' /\ \A d \in Calls : Quiet(d)' => Quiet(d) /\ d # c
  BY <1>6 DEF Quiet, Answered
<1>8. Late'
  BY <1>6 DEF MInv, Late, Answered
<1>9. Once'
  BY <1>3, <1>5 DEF MInv, Once
<1>10. ASSUME NEW d \in Calls, Quiet(d)' PROVE Unwritten(d)'
  <2>1. Unwritten(d) /\ d # c
    BY <1>7, <1>10 DEF MInv, Clean
  <2>2. \A i \in DOMAIN new.msgs : new.msgs[i].id # d
    BY <1>1, <1>3, <2>1 DEF Unwritten
  <2> QED BY <1>4, <1>5, <2>1, <2>2 DEF Unwritten
<1> QED BY <1>8, <1>9, <1>10 DEF MInv, Clean

(* A tag keeps the messages of the record it changes. *)
LEMMA TagMessages ==
  ASSUME IInv, MInv, NEW c \in Calls, NEW id \in MsgIds, setLastTraceId(c, id)
  PROVE  MInv'
<1>1. OfCall(c)
  <2>1. pc[c] = "idle"
    BY DEF setLastTraceId, Accept
  <2> QED BY <2>1, QuietCall DEF IInv, TypeOK, Places, setLastTraceId, Return, Go
<1>2. \A d \in Written' : \E e \in Written : SameIds(d, e)
  <2>1. CASE UNCHANGED rec
    BY <2>1, Same DEF Written, setLastTraceId
  <2>2. ASSUME NEW i \in Target(id), rec' = [rec EXCEPT ![mem].msgs[i].trace = c]
        PROVE  \A d \in Written' : \E e \in Written : SameIds(d, e)
    <3>1. mem \in Calls /\ i \in DOMAIN rec[mem].msgs /\ rec[mem] \in Record /\ rec[mem] \in Written
      BY SentinelAssumption DEF IInv, TypeOK, Target, Written
    <3> DEFINE tagged == [rec[mem] EXCEPT !.msgs[i].trace = c]
    <3>2. SameIds(tagged, rec[mem])
      BY <3>1, TaggedIds
    <3>3. rec' = [rec EXCEPT ![mem] = tagged]
      BY <2>2
    <3> HIDE DEF tagged
    <3>4. Written' \subseteq Written \cup {tagged}
      BY <3>1, <3>3 DEF IInv, TypeOK, Written, setLastTraceId
    <3> QED BY <3>1, <3>2, <3>4, Same
  <2> QED BY <2>1, <2>2 DEF setLastTraceId
<1>3. (rows \cup mirror)' = rows \cup mirror
  BY DEF setLastTraceId
<1> QED BY <1>1, <1>2, <1>3, CallKeeps DEF Copies

(* What begins with a lookup opens an empty record at most. *)
LEMMA LookupMessages ==
  ASSUME IInv, MInv, NEW c \in Calls, NEW u \in Users, NEW role \in Roles,
         NEW op \in {"get", "append", "delete"},
         Accept(c, op, u, role), Lookup(c, op, u),
         UNCHANGED <<doc, rows, wire, mirror, restarts>>
  PROVE  MInv'
<1>1. OfCall(c)
  <2>1. pc[c] = "idle"
    BY DEF Accept
  <2> QED BY <2>1, QuietCall DEF IInv, TypeOK, Places, Lookup, Return, Go
<1>2. Written' \subseteq Written \cup {[owner |-> u, msgs |-> <<>>]}
  BY DEF IInv, TypeOK, Written, Lookup, Open
<1> QED BY <1>1, <1>2, Same, CallKeeps DEF Copies

LEMMA ListSessionsMessages ==
  ASSUME IInv, MInv, NEW c \in Calls, NEW u \in Users, listSessions(c, u)
  PROVE  MInv'
<1>1. OfCall(c)
  <2>1. pc[c] = "idle"
    BY DEF listSessions, Accept
  <2> QED BY <2>1, QuietCall DEF IInv, TypeOK, Places, listSessions, Return, Go
<1>2. Written' = Written /\ (rows \cup mirror)' = rows \cup mirror
  BY DEF Written, listSessions
<1> QED BY <1>1, <1>2, Same, CallKeeps DEF Copies

LEMMA MirrorMessages ==
  ASSUME IInv, MInv, NEW r \in mirror, MirrorRow(r)
  PROVE  MInv'
<1>1. Late' /\ \A c \in Calls : Quiet(c)' => Quiet(c)
  BY DEF MInv, Late, Answered, Quiet, MirrorRow, calls
<1>2. Written' = Written /\ (rows \cup mirror)' \subseteq rows \cup mirror
  BY DEF Written, MirrorRow, calls
<1> QED BY <1>1, <1>2, Same, Carry DEF Copies

(* What dies with the process makes no message appear. *)
LEMMA RestartMessages ==
  ASSUME IInv, MInv, Restart
  PROVE  MInv'
<1>1. Late'
  BY DEF MInv, Late, Answered, Restart
<1>2. \A c \in Calls : Quiet(c)' => Quiet(c)
  BY DEF IInv, TypeOK, Restart, Quiet, Answered, MInv, Late
<1>3. Written' \subseteq Written \cup {Empty} /\ (rows \cup mirror)' \subseteq rows \cup mirror
  BY DEF Written, Restart
<1> QED BY <1>1, <1>2, <1>3, Same, Carry DEF Copies, Empty

-----------------------------------------------------------------------------
LEMMA MessagesNext == IInv /\ MInv /\ [Next]_vars => MInv'
<1> SUFFICES ASSUME IInv, MInv, [Next]_vars PROVE MInv'
  OBVIOUS
<1>1. ASSUME NEW c \in Calls, Ask(c) PROVE MInv'
  <2>1. ASSUME NEW u \in Users, getSession(c, u) PROVE MInv'
    BY <2>1, LookupMessages DEF getSession, Roles
  <2>2. ASSUME NEW u \in Users, deleteSession(c, u) PROVE MInv'
    BY <2>2, LookupMessages DEF deleteSession, Roles
  <2>3. ASSUME NEW u \in Users, NEW role \in Roles, appendMessage(c, u, role) PROVE MInv'
    BY <2>3, LookupMessages DEF appendMessage
  <2> QED BY <1>1, <2>1, <2>2, <2>3, ListSessionsMessages, TagMessages DEF Ask
<1>2. ASSUME NEW c \in Calls, Step(c) PROVE MInv'
  BY <1>2, FindOneMessages, LoadMessages, CreateMessages, SilentMessages, PushMessages,
     SnapshotMessages, SaveOpenedMessages, SaveMessages, DropMessages
  DEF Step
<1>3. CASE UNCHANGED vars
  BY <1>3 DEF vars, calls, MInv, Late, Clean, Once, Answered, Quiet, Unwritten, Written
<1> QED BY <1>1, <1>2, <1>3, MirrorMessages, RestartMessages DEF Next, Mirror

LEMMA MessagesInvariant == Spec => []MInv
BY MessagesInit, Inductive, MessagesNext, PTL DEF Spec

(* No interleaving of snapshots, reloads, saves and pushes, no fault and   *)
(* no restart puts a message twice into a record or the document.          *)
THEOREM MessagesOnce == Spec => []NoDuplicates
<1>1. IInv /\ MInv => NoDuplicates
  BY SentinelAssumption DEF IInv, TypeOK, MInv, Once, Written, NoDuplicates
<1> QED BY <1>1, Inductive, MessagesInvariant, PTL

(* The message of a call that was refused, or found no session, is in no   *)
(* record, document, snapshot or row, ever after.                          *)
THEOREM RefusalsWriteNothing == Spec => []RefusedWritesNothing
<1>1. MInv => RefusedWritesNothing
  BY DEF MInv, Late, Clean, Quiet, Unwritten, RefusedWritesNothing
<1> QED BY <1>1, MessagesInvariant, PTL

-----------------------------------------------------------------------------
(* The document trails the record. *)

(* Without persistence there is no document, and no call waits for one.    *)
Volatile == ~Persistent => doc = NoDoc /\ \A c \in Calls : pc[c] \in {"idle", "held", "done"}

(* A call saves a record that has been made, with a snapshot on its way    *)
(* once it was taken; what is removed was asked to be.                     *)
Made ==
  \A c \in Calls :
    /\ pc[c] \in Before => rec[c] = Empty
    /\ pc[c] \in {"openSave", "openSent", "save", "sent"} => rec[held[c]] # Empty
    /\ pc[c] \in {"openSent", "sent"} => wire[c] # NoDoc
    /\ pc[c] \in {"drop", "purge"} => job[c].op = "delete"
    /\ pc[c] = "idle" => job[c].op # "delete"
    /\ job[c].op = "append" => job[c].user # NoUser

NoDelete == \A c \in Calls : job[c].op # "delete"

(* Before the process has a record, what it is answered is the document,   *)
(* or nothing by a query that failed; with one record, the snapshots on    *)
(* their way are behind it, and the document trails it.                    *)
Trailing ==
  NoDelete =>
    /\ Allocated = {} => \A c \in Calls :
         /\ pc[c] = "found" => wire[c] = doc \/ (wire[c] = NoDoc /\ "find" \in Faults)
         /\ pc[c] = "absent" => doc = NoDoc \/ "find" \in Faults
    /\ \A c \in Calls : Allocated = {c} =>
         /\ doc # NoDoc => Trails(doc, rec[c])
         /\ \A d \in Calls : pc[d] \in {"openSent", "sent"} => Behind(wire[d], rec[c])

TInv == Volatile /\ Made /\ Trailing

-----------------------------------------------------------------------------
(* What is behind a record stays behind it when a message is pushed to it, *)
(* and a tag changes no message's place.                                   *)
LEMMA BehindPushed ==
  ASSUME NEW d \in Record, NEW r \in Record, NEW m \in Message, Behind(d, r)
  PROVE  Behind(d, [r EXCEPT !.msgs = Append(@, m)])
<1> DEFINE s == [r EXCEPT !.msgs = Append(@, m)]
<1>1. /\ r.msgs \in Seq(Message) /\ d.msgs \in Seq(Message) /\ s.msgs = Append(r.msgs, m)
      /\ DOMAIN d.msgs = 1..Len(d.msgs) /\ Len(d.msgs) \in Nat /\ Len(r.msgs) \in Nat
  BY DEF Record
<1>2. Len(s.msgs) = Len(r.msgs) + 1 /\ \A i \in 1..Len(r.msgs) : s.msgs[i] = r.msgs[i]
  BY <1>1
<1> HIDE DEF s
<1>3. Len(d.msgs) <= Len(s.msgs)
  BY <1>1, <1>2 DEF Behind
<1>4. ASSUME NEW i \in DOMAIN d.msgs PROVE d.msgs[i].id = s.msgs[i].id
  <2>1. i \in 1..Len(r.msgs)
    BY <1>1 DEF Behind
  <2> QED BY <1>2, <2>1 DEF Behind
<1>5. Behind(d, s)
  BY <1>3, <1>4 DEF Behind
<1> QED BY <1>5 DEF s

LEMMA BehindTagged ==
  ASSUME NEW d \in Record, NEW r \in Record, NEW i \in DOMAIN r.msgs, NEW trace, Behind(d, r)
  PROVE  Behind(d, [r EXCEPT !.msgs[i].trace = trace])
<1> DEFINE s == [r EXCEPT !.msgs[i].trace = trace]
<1>1. r.msgs \in Seq(Message) /\ d.msgs \in Seq(Message)
  BY DEF Record
<1>2. /\ s.msgs = [r.msgs EXCEPT ![i].trace = trace]
      /\ DOMAIN s.msgs = DOMAIN r.msgs /\ Len(s.msgs) = Len(r.msgs)
  BY <1>1 DEF Record
<1>3. \A j \in DOMAIN r.msgs : s.msgs[j].id = r.msgs[j].id
  <2>1. \A j \in DOMAIN r.msgs : r.msgs[j] \in Message
    BY <1>1
  <2> QED BY <1>2, <2>1 DEF Message
<1> HIDE DEF s
<1>4. \A j \in DOMAIN d.msgs : j \in DOMAIN r.msgs
  BY <1>1 DEF Behind
<1>5. Behind(d, s)
  BY <1>2, <1>3, <1>4 DEF Behind
<1> QED BY <1>5 DEF s

LEMMA BehindItself == ASSUME NEW r \in Record PROVE Behind(r, r)
BY DEF Behind, Record

(* What trails a record trails it when a message it does not have is       *)
(* pushed to the record, and when the record is tagged.                    *)
LEMMA TrailsPushed ==
  ASSUME NEW d \in Record, NEW r \in Record, NEW m \in Message, Trails(d, r),
         \A i \in DOMAIN d.msgs : d.msgs[i].id # m.id
  PROVE  Trails(d, [r EXCEPT !.msgs = Append(@, m)])
<1> DEFINE s == [r EXCEPT !.msgs = Append(@, m)]
<1>1. r.msgs \in Seq(Message) /\ s.msgs = Append(r.msgs, m)
  BY DEF Record
<1>2. Apart(d, r) => Apart(d, s)
  <2>1. \A j \in DOMAIN s.msgs : s.msgs[j] = m \/ (j \in DOMAIN r.msgs /\ s.msgs[j] = r.msgs[j])
    BY <1>1
  <2> HIDE DEF s
  <2> QED BY <2>1 DEF Apart
<1>3. Behind(d, r) => Behind(d, s)
  BY BehindPushed
<1> QED BY <1>2, <1>3 DEF Trails

LEMMA TrailsTagged ==
  ASSUME NEW d \in Record, NEW r \in Record, NEW i \in DOMAIN r.msgs, NEW trace, Trails(d, r)
  PROVE  Trails(d, [r EXCEPT !.msgs[i].trace = trace])
<1> DEFINE s == [r EXCEPT !.msgs[i].trace = trace]
<1>1. SameIds(s, r)
  BY TaggedIds
<1>2. Behind(d, r) => Behind(d, s)
  BY BehindTagged
<1> HIDE DEF s
<1>3. Apart(d, r) => Apart(d, s)
  BY <1>1 DEF Apart, SameIds
<1> QED BY <1>2, <1>3 DEF Trails, s

-----------------------------------------------------------------------------
(* One lemma for each kind of action. *)

LEMMA TrailInit == Init => TInv
<1> SUFFICES ASSUME Init PROVE TInv
  OBVIOUS
<1>1. Allocated = {}
  BY DEF Init, Allocated
<1> QED BY <1>1 DEF Init, TInv, Volatile, Made, Trailing, NoJob, Before, Allocated

(* A step of a call that makes no record, and after which it neither waits *)
(* for the document nor saves one.                                         *)
LEMMA TrailPlain ==
  ASSUME IInv, TInv, NEW c \in Calls, UNCHANGED <<rec, doc>>,
         \A d \in Calls \ {c} : /\ pc'[d] = pc[d] /\ wire'[d] = wire[d]
                                 /\ held'[d] = held[d] /\ job'[d] = job[d],
         pc'[c] \in {"find", "held", "drop", "purge", "listing", "done"},
         pc'[c] = "find" => pc[c] = "idle",
         pc'[c] \in {"drop", "purge"} => job'[c].op = "delete",
         job'[c].op = "append" => job'[c].user # NoUser,
         pc[c] = "idle" \/ UNCHANGED job,
         ~Persistent => pc'[c] \in {"held", "done"}
  PROVE  TInv'
<1>1. Volatile'
  BY DEF TInv, Volatile
<1>2. Made'
  BY DEF TInv, Made, Before
<1>3. NoDelete' => NoDelete
  BY DEF TInv, Made, NoDelete
<1>4. Allocated' = Allocated
  BY DEF Allocated
<1>5. Trailing'
  <2>1. \A d \in Calls : pc'[d] \in {"found", "absent", "openSent", "sent"} =>
                          pc'[d] = pc[d] /\ wire'[d] = wire[d]
    OBVIOUS
  <2> QED BY <1>3, <1>4, <2>1 DEF TInv, Trailing
<1> QED BY <1>1, <1>2, <1>5 DEF TInv

LEMMA TrailPlainSteps ==
  ASSUME IInv, TInv, NEW c \in Calls,
         Missing(c) \/ Refuse(c) \/ Get(c) \/ List(c) \/ Forget(c) \/ PurgeRows(c)
  PROVE  TInv'
<1>0. Forget(c) => job[c].op = "delete"
  BY DEF Forget
<1>1. /\ UNCHANGED <<rec, doc, job, wire>>
      /\ \A d \in Calls \ {c} : pc'[d] = pc[d] /\ held'[d] = held[d]
      /\ \/ pc'[c] = "done"
         \/ pc'[c] = "drop" /\ Persistent /\ job[c].op = "delete"
  BY <1>0 DEF IInv, TypeOK, Missing, Refuse, Get, List, Forget, PurgeRows, Return, Go
<1>2. job'[c].op = "append" => job'[c].user # NoUser
  BY <1>1 DEF TInv, Made
<1> QED BY <1>1, <1>2, TrailPlain

(* Every answer of the database is the document at that time, or nothing   *)
(* when the query fails.                                                   *)
LEMMA TrailFindOne ==
  ASSUME IInv, TInv, NEW c \in Calls, FindOne(c)
  PROVE  TInv'
<1>1. /\ pc[c] = "find" /\ pc' = [pc EXCEPT ![c] = "found"]
      /\ \/ wire' = [wire EXCEPT ![c] = doc]
         \/ wire' = [wire EXCEPT ![c] = NoDoc] /\ "find" \in Faults
      /\ UNCHANGED <<rec, doc, job, held>>
  BY DEF FindOne, Go
<1>2. Volatile' /\ Made'
  BY <1>1 DEF IInv, TypeOK, TInv, Volatile, Made, Before
<1>3. Allocated' = Allocated /\ (NoDelete' => NoDelete)
  BY <1>1 DEF Allocated, NoDelete
<1>4. Trailing'
  BY <1>1, <1>3 DEF IInv, TypeOK, TInv, Trailing
<1> QED BY <1>2, <1>4 DEF TInv

(* The first record loaded is the document.  (A document that says nothing *)
(* and is nobody's is loaded as a record nobody can write.)                *)
LEMMA TrailLoad ==
  ASSUME IInv, TInv, NEW c \in Calls, Load(c)
  PROVE  TInv'
<1>1. /\ pc[c] = "found" /\ UNCHANGED <<doc, job>> /\ wire' = [wire EXCEPT ![c] = NoDoc]
      /\ \/ /\ wire[c] # NoDoc
            /\ rec' = [rec EXCEPT ![c] = wire[c]]
            /\ held' = [held EXCEPT ![c] = c]
            /\ pc' = [pc EXCEPT ![c] = "held"]
         \/ /\ wire[c] = NoDoc
            /\ pc' = [pc EXCEPT ![c] = "absent"]
            /\ UNCHANGED <<rec, held>>
  BY DEF Load, Go
<1>2. Volatile'
  BY <1>1 DEF IInv, TypeOK, TInv, Volatile
<1>3. Persistent /\ rec[c] = Empty /\ \A d \in Calls : held[d] # c
  BY <1>1 DEF TInv, Volatile, Made, IInv, Fresh, Before
<1>4. Made'
  <2>1. /\ \A d \in Calls : pc'[d] = IF d = c THEN IF wire[c] # NoDoc THEN "held" ELSE "absent" ELSE pc[d]
        /\ \A d \in Calls \ {c} : wire'[d] = wire[d] /\ rec'[d] = rec[d] /\ held'[d] = held[d]
        /\ wire[c] = NoDoc => rec'[c] = Empty
    BY <1>1, <1>3 DEF IInv, TypeOK
  <2> QED BY <1>1, <1>3, <2>1 DEF TInv, Made, Before, IInv, Holding
<1>5. NoDelete' => NoDelete
  BY <1>1 DEF NoDelete
<1>6. CASE UNCHANGED rec
  <2>1. Allocated' = Allocated
    BY <1>6 DEF Allocated
  <2>2. Trailing'
    BY <1>1, <1>5, <1>6, <2>1 DEF IInv, TypeOK, TInv, Trailing
  <2> QED BY <1>2, <1>4, <2>2 DEF TInv
<1>7. CASE wire[c] # NoDoc /\ rec' = [rec EXCEPT ![c] = wire[c]] /\ pc' = [pc EXCEPT ![c] = "held"]
           /\ wire[c] # Empty
  <2>1. Allocated' = Allocated \cup {c} /\ c \notin Allocated
    BY <1>3, <1>7 DEF IInv, TypeOK, Allocated
  <2>2. SUFFICES ASSUME NoDelete, NEW a \in Calls, Allocated' = {a}
                 PROVE  /\ doc # NoDoc => Behind(doc, rec'[a])
                        /\ \A d \in Calls : pc'[d] \in {"openSent", "sent"} => Behind(wire'[d], rec'[a])
    BY <1>1, <1>2, <1>4, <1>5, <2>1 DEF TInv, Trailing, Trails
  <2>3. a = c /\ Allocated = {}
    BY <2>1, <2>2
  <2>4. wire[c] = doc /\ rec'[c] = doc
    BY <1>1, <1>7, <2>2, <2>3 DEF IInv, TypeOK, TInv, Trailing
  <2>5. \A d \in Calls : pc'[d] \notin {"openSent", "sent"}
    <3>1. ASSUME NEW d \in Calls, pc[d] \in {"openSent", "sent"} PROVE FALSE
      BY <2>3, <3>1 DEF TInv, Made, IInv, Holding, Allocated
    <3> QED BY <1>7, <3>1 DEF IInv, TypeOK
  <2> QED BY <1>1, <2>3, <2>4, <2>5, BehindItself DEF IInv, TypeOK
<1>8. CASE wire[c] = Empty /\ rec' = [rec EXCEPT ![c] = wire[c]]
  <2>1. rec' = rec
    BY <1>3, <1>8 DEF IInv, TypeOK
  <2> QED BY <1>6, <2>1
<1> QED BY <1>1, <1>6, <1>7, <1>8

(* The first record created belongs to a session that has no document, or  *)
(* one that a failed query hid.                                            *)
LEMMA TrailCreate ==
  ASSUME IInv, TInv, NEW c \in Calls, Create(c)
  PROVE  TInv'
<1>1. /\ pc[c] = "absent" /\ pc' = [pc EXCEPT ![c] = "openSave"] /\ UNCHANGED <<doc, job, wire>>
      /\ rec' = [rec EXCEPT ![c] = [owner |-> job[c].user, msgs |-> <<>>]]
      /\ held' = [held EXCEPT ![c] = c] /\ job[c].op = "append"
  BY DEF Create, Open, Go
<1>2. job[c].user # NoUser /\ Persistent /\ rec[c] = Empty /\ \A d \in Calls : held[d] # c
  BY <1>1 DEF TInv, Volatile, Made, IInv, Fresh, Before
<1>3. Volatile'
  BY <1>1 DEF IInv, TypeOK, TInv, Volatile
<1>4. rec'[c] # Empty
  BY <1>1, <1>2 DEF Empty, IInv, TypeOK
<1>5. Made'
  BY <1>1, <1>2, <1>4 DEF IInv, TypeOK, TInv, Made, Before, Holding
<1>6. Allocated' = Allocated \cup {c} /\ c \notin Allocated
  BY <1>1, <1>2, <1>4 DEF IInv, TypeOK, Allocated
<1>7. ASSUME NoDelete', NEW a \in Calls, Allocated' = {a}
      PROVE  (doc # NoDoc => Trails(doc, rec'[a])) /\ \A d \in Calls : pc'[d] \notin {"openSent", "sent"}
  <2>1. NoDelete /\ Allocated = {}
    BY <1>1, <1>6, <1>7 DEF NoDelete
  <2>2. doc # NoDoc => Trails(doc, rec'[a])
    <3>1. doc = NoDoc \/ "find" \in Faults
      BY <1>1, <2>1 DEF TInv, Trailing
    <3>2. a = c /\ rec'[c].msgs = <<>>
      BY <1>1, <1>6, <1>7 DEF IInv, TypeOK
    <3> QED BY <3>1, <3>2 DEF Trails, Apart
  <2>3. ASSUME NEW d \in Calls, pc[d] \in {"openSent", "sent"} PROVE FALSE
    BY <2>1, <2>3 DEF TInv, Made, IInv, Holding, Allocated
  <2> QED BY <1>1, <2>2, <2>3 DEF IInv, TypeOK
<1>8. Trailing'
  BY <1>1, <1>6, <1>7 DEF Trailing
<1> QED BY <1>3, <1>5, <1>8 DEF TInv

(* A record that grows leaves what was behind it behind. *)
LEMMA TrailPush ==
  ASSUME IInv, MInv, TInv, NEW c \in Calls, Push(c)
  PROVE  TInv'
<1> DEFINE r == held[c]
           new == [rec[r] EXCEPT !.msgs = Append(@, NewMessage(c))]
<1>1. /\ r \in Calls /\ rec[r] \in Record /\ NewMessage(c) \in Message
      /\ rec[r].owner # NoUser /\ r \in Allocated
  BY SentinelAssumption
  DEF IInv, TypeOK, Holding, Push, owns, NewMessage, Message, MsgIds, Allocated, Empty
<1>2. /\ rec' = [rec EXCEPT ![r] = new] /\ UNCHANGED <<doc, job, wire>> /\ pc[c] = "held"
      /\ \A d \in Calls \ {c} : pc'[d] = pc[d] /\ held'[d] = held[d]
      /\ \/ Persistent /\ pc'[c] = "save" /\ held'[c] = r
         \/ ~Persistent /\ pc'[c] = "done"
  BY DEF IInv, TypeOK, Push, Return, Go
<1>3. /\ new # Empty /\ \A d \in Record : Behind(d, rec[r]) => Behind(d, new)
      /\ doc # NoDoc /\ Trails(doc, rec[r]) => Trails(doc, new)
  <2>1. new.owner # NoUser
    BY <1>1 DEF Record
  <2>2. doc # NoDoc => doc \in Record /\ \A i \in DOMAIN doc.msgs : doc.msgs[i].id # NewMessage(c).id
    <3>1. Quiet(c)
      BY DEF Push, Quiet, Places
    <3> QED BY <3>1 DEF MInv, Clean, Unwritten, Written, NewMessage, IInv, TypeOK
  <2> QED BY <1>1, <2>1, <2>2, BehindPushed, TrailsPushed DEF Empty
<1> HIDE DEF new
<1>4. rec'[r] = new /\ \A d \in Calls \ {r} : rec'[d] = rec[d]
  BY <1>1, <1>2 DEF IInv, TypeOK
<1>5. Volatile'
  BY <1>2 DEF TInv, Volatile
<1>6. Made'
  BY <1>1, <1>2, <1>3, <1>4 DEF TInv, Made, Before, IInv, Fresh
<1>7. Allocated' = Allocated
  BY <1>1, <1>3, <1>4 DEF Allocated
<1>8. NoDelete' => NoDelete
  BY <1>2 DEF NoDelete
<1>9. Trailing'
  <2>1. SUFFICES ASSUME NoDelete, NEW a \in Calls, Allocated = {a}
                 PROVE  /\ doc # NoDoc => Trails(doc, rec'[a])
                        /\ \A d \in Calls : pc'[d] \in {"openSent", "sent"} => Behind(wire[d], rec'[a])
    BY <1>1, <1>2, <1>7, <1>8 DEF Trailing
  <2>2. a = r
    BY <1>1, <2>1
  <2>3. doc # NoDoc => Trails(doc, rec[r])
    BY <2>1, <2>2 DEF IInv, TypeOK, TInv, Trailing
  <2>4. ASSUME NEW d \in Calls, pc'[d] \in {"openSent", "sent"} PROVE wire[d] \in Record /\ Behind(wire[d], rec[r])
    BY <1>2, <2>1, <2>2, <2>4 DEF IInv, TypeOK, TInv, Made, Trailing
  <2> QED BY <1>3, <1>4, <2>2, <2>3, <2>4
<1> QED BY <1>5, <1>6, <1>9 DEF TInv

(* So does a record that is tagged. *)
LEMMA TrailTag ==
  ASSUME IInv, TInv, NEW c \in Calls, NEW id \in MsgIds, setLastTraceId(c, id)
  PROVE  TInv'
<1>1. /\ pc[c] = "idle" /\ UNCHANGED <<doc, wire>> /\ job' = [job EXCEPT ![c] = [op |-> "tag", user |-> NoUser, role |-> "user"]]
      /\ \A d \in Calls \ {c} : pc'[d] = pc[d] /\ held'[d] = held[d]
  BY DEF IInv, TypeOK, setLastTraceId, Accept, Return, Go
<1>2. CASE Target(id) = {} /\ UNCHANGED rec
  <2>1. /\ pc'[c] = "done" /\ job'[c].op = "tag"
        /\ \A d \in Calls \ {c} : job'[d] = job[d]
    BY <1>1, <1>2 DEF IInv, TypeOK, setLastTraceId, Return, Go
  <2> QED BY <1>1, <1>2, <2>1, TrailPlain
<1>3. ASSUME NEW i \in Target(id), rec' = [rec EXCEPT ![mem].msgs[i].trace = c],
             \/ Persistent /\ pc'[c] = "save" /\ held'[c] = mem
             \/ ~Persistent /\ pc'[c] = "done"
      PROVE  TInv'
  <2> DEFINE new == [rec[mem] EXCEPT !.msgs[i].trace = c]
  <2>1. mem \in Calls /\ i \in DOMAIN rec[mem].msgs /\ rec[mem] \in Record
    BY DEF IInv, TypeOK, Target
  <2>2. rec' = [rec EXCEPT ![mem] = new]
    BY <1>3
  <2>3. /\ new # Empty /\ mem \in Allocated
        /\ \A d \in Record : /\ Behind(d, rec[mem]) => Behind(d, new)
                             /\ Trails(d, rec[mem]) => Trails(d, new)
    <3>1. rec[mem].msgs \in Seq(Message) /\ DOMAIN new.msgs = DOMAIN rec[mem].msgs
      BY <2>1 DEF Record
    <3>2. new # Empty /\ rec[mem] # Empty
      BY <2>1, <3>1 DEF Empty
    <3> QED BY <2>1, <3>2, BehindTagged, TrailsTagged DEF Allocated
  <2> HIDE DEF new
  <2>4. rec'[mem] = new /\ \A d \in Calls \ {mem} : rec'[d] = rec[d]
    BY <2>1, <2>2 DEF IInv, TypeOK
  <2>5. Volatile'
    BY <1>1, <1>3 DEF TInv, Volatile
  <2>6. Made'
    <3>1. /\ \A d \in Calls \ {c} : pc'[d] = pc[d] /\ held'[d] = held[d] /\ job'[d] = job[d]
          /\ job'[c].op = "tag" /\ pc'[c] \in {"save", "done"}
          /\ pc'[c] = "save" => rec'[held'[c]] # Empty
          /\ \A d \in Calls : pc[d] \in Before => d # mem
      BY <1>1, <1>3, <2>1, <2>3, <2>4 DEF IInv, TypeOK, Fresh
    <3>2. \A d \in Calls : rec[d] # Empty => rec'[d] # Empty
      BY <2>3, <2>4
    <3> QED BY <1>1, <2>4, <3>1, <3>2 DEF TInv, Made, Before, IInv, Holding
  <2>7. Allocated' = Allocated
    BY <2>1, <2>3, <2>4 DEF Allocated
  <2>8. NoDelete' => NoDelete
    BY <1>1 DEF NoDelete, TInv, Made, IInv, TypeOK
  <2>9. Trailing'
    <3>1. SUFFICES ASSUME NoDelete, NEW a \in Calls, Allocated = {a}
                   PROVE  /\ doc # NoDoc => Trails(doc, rec'[a])
                          /\ \A d \in Calls : pc'[d] \in {"openSent", "sent"} => Behind(wire[d], rec'[a])
      BY <1>1, <2>3, <2>7, <2>8 DEF Trailing
    <3>2. a = mem
      BY <2>3, <3>1
    <3>3. doc # NoDoc => doc \in Record /\ Trails(doc, rec[mem])
      BY <3>1, <3>2 DEF IInv, TypeOK, TInv, Trailing
    <3>4. ASSUME NEW d \in Calls, pc'[d] \in {"openSent", "sent"}
          PROVE  wire[d] \in Record /\ Behind(wire[d], rec[mem])
      BY <1>1, <1>3, <3>1, <3>2, <3>4 DEF IInv, TypeOK, TInv, Made, Trailing
    <3> QED BY <2>3, <2>4, <3>2, <3>3, <3>4
  <2> QED BY <2>5, <2>6, <2>9 DEF TInv
<1>4. Target(id) # {} =>
        \E i \in Target(id) : /\ rec' = [rec EXCEPT ![mem].msgs[i].trace = c]
                              /\ \/ Persistent /\ pc'[c] = "save" /\ held'[c] = mem
                                 \/ ~Persistent /\ pc'[c] = "done"
  BY DEF IInv, TypeOK, setLastTraceId, Return, Go
<1> QED BY <1>2, <1>3, <1>4 DEF setLastTraceId

(* The snapshot of the record a call holds is that record. *)
LEMMA TrailSnapshot ==
  ASSUME IInv, TInv, NEW c \in Calls, Snapshot(c)
  PROVE  TInv'
<1>1. /\ UNCHANGED <<rec, doc, job, held>> /\ wire' = [wire EXCEPT ![c] = rec[held[c]]]
      /\ held[c] \in Calls /\ rec[held[c]] \in Record
      /\ \/ pc[c] = "openSave" /\ pc' = [pc EXCEPT ![c] = "openSent"]
         \/ pc[c] = "save" /\ pc' = [pc EXCEPT ![c] = "sent"]
  BY DEF Snapshot, Go, IInv, TypeOK, Holding
<1>2. Volatile'
  BY <1>1 DEF IInv, TypeOK, TInv, Volatile
<1>3. /\ wire'[c] = rec[held[c]] /\ \A d \in Calls \ {c} : wire'[d] = wire[d] /\ pc'[d] = pc[d]
      /\ pc'[c] \in {"openSent", "sent"} /\ pc[c] \in {"openSave", "save"}
  BY <1>1 DEF IInv, TypeOK
<1>4. Made'
  BY <1>1, <1>3, SentinelAssumption DEF TInv, Made, Before
<1>5. Allocated' = Allocated /\ (NoDelete' <=> NoDelete) /\ held[c] \in Allocated
  BY <1>1 DEF Allocated, NoDelete, TInv, Made
<1>6. Trailing'
  BY <1>1, <1>3, <1>5, BehindItself DEF TInv, Trailing
<1> QED BY <1>2, <1>4, <1>6 DEF TInv

(* What is saved is a snapshot on its way. *)
LEMMA TrailSaves ==
  ASSUME IInv, TInv, NEW c \in Calls, SaveOpened(c) \/ Save(c)
  PROVE  TInv'
<1>1. /\ UNCHANGED <<rec, job>> /\ wire' = [wire EXCEPT ![c] = NoDoc]
      /\ pc[c] \in {"openSent", "sent"} /\ wire[c] \in Record
      /\ doc' = wire[c] \/ doc' = doc
      /\ \/ pc' = [pc EXCEPT ![c] = "held"] /\ held' = held
         \/ pc' = [pc EXCEPT ![c] = "done"]
      /\ \A d \in Calls \ {c} : held'[d] = held[d]
  BY DEF SaveOpened, Save, ReplaceOne, Return, Go, IInv, TypeOK, TInv, Made
<1>2. Persistent
  BY <1>1 DEF TInv, Volatile
<1>3. /\ \A d \in Calls \ {c} : wire'[d] = wire[d] /\ pc'[d] = pc[d]
      /\ pc'[c] \in {"held", "done"}
  BY <1>1 DEF IInv, TypeOK
<1>4. Made'
  BY <1>1, <1>3 DEF TInv, Made, Before
<1>5. /\ Allocated' = Allocated /\ (NoDelete' <=> NoDelete) /\ Allocated # {}
  BY <1>1 DEF Allocated, NoDelete, TInv, Made, IInv, Holding
<1>6. Trailing'
  BY <1>1, <1>3, <1>5 DEF TInv, Trailing, Trails
<1>7. Volatile'
  BY <1>2 DEF Volatile, IInv
<1> QED BY <1>4, <1>6, <1>7 DEF TInv

(* A document is dropped because somebody asked for it. *)
LEMMA TrailDropDoc ==
  ASSUME IInv, TInv, NEW c \in Calls, DropDoc(c)
  PROVE  TInv'
<1>1. /\ UNCHANGED <<rec, job, held, wire>> /\ pc[c] = "drop" /\ pc' = [pc EXCEPT ![c] = "purge"]
  BY DEF DropDoc, Go
<1>2. Persistent /\ job[c].op = "delete"
  BY <1>1 DEF TInv, Volatile, Made
<1>3. Made'
  BY <1>1, <1>2 DEF TInv, Made, Before, IInv, TypeOK
<1>4. Volatile' /\ Trailing'
  BY <1>1, <1>2 DEF Volatile, Trailing, NoDelete
<1> QED BY <1>3, <1>4 DEF TInv

(* An accessor goes on with the cache entry, waits for the document or,    *)
(* without persistence, makes a record.                                    *)
LEMMA TrailLookup ==
  ASSUME IInv, TInv, NEW c \in Calls, NEW u \in Users, NEW role \in Roles,
         NEW op \in {"get", "append", "delete"}, Accept(c, op, u, role), Lookup(c, op, u),
         UNCHANGED <<doc, wire>>
  PROVE  TInv'
<1>1. /\ pc[c] = "idle" /\ job' = [job EXCEPT ![c] = [op |-> op, user |-> u, role |-> role]]
      /\ \A d \in Calls \ {c} : job'[d] = job[d] /\ pc'[d] = pc[d] /\ held'[d] = held[d]
      /\ job'[c].op = op /\ job'[c].user = u /\ u # NoUser
  BY SentinelAssumption DEF Accept, Lookup, Open, Return, Go, IInv, TypeOK
<1>2. CASE UNCHANGED rec
  <2>1. /\ pc'[c] \in {"find", "held", "done"}
        /\ ~Persistent => pc'[c] \in {"held", "done"}
    BY <1>1, <1>2 DEF Lookup, Return, Go, IInv, TypeOK
  <2> QED BY <1>1, <1>2, <2>1, TrailPlain
<1>3. CASE ~Persistent /\ Open(c, u) /\ Go(c, "held")
  <2>1. doc = NoDoc /\ \A d \in Calls : pc[d] \in {"idle", "held", "done"}
    BY <1>3 DEF TInv, Volatile
  <2>2. pc' = [pc EXCEPT ![c] = "held"] /\ rec' = [rec EXCEPT ![c] = [owner |-> u, msgs |-> <<>>]]
    BY <1>3 DEF Open, Go
  <2>3. \A d \in Calls : pc'[d] = IF d = c THEN "held" ELSE pc[d]
    BY <2>2 DEF IInv, TypeOK
  <2>4. Volatile'
    BY <1>3, <2>1, <2>3 DEF Volatile
  <2>5. \A d \in Calls \ {c} : rec'[d] = rec[d]
    BY <2>2 DEF IInv, TypeOK
  <2>6. Made'
    BY <1>1, <2>1, <2>3, <2>5 DEF TInv, Made, Before
  <2>7. Trailing'
    BY <2>1, <2>3 DEF Trailing
  <2> QED BY <2>4, <2>6, <2>7 DEF TInv
<1> QED BY <1>2, <1>3 DEF Lookup

LEMMA TrailAsk ==
  ASSUME IInv, TInv, NEW c \in Calls, Ask(c)
  PROVE  TInv'
<1>1. ASSUME NEW u \in Users, getSession(c, u) \/ deleteSession(c, u) PROVE TInv'
  BY <1>1, TrailLookup DEF getSession, deleteSession, Roles
<1>2. ASSUME NEW u \in Users, NEW role \in Roles, appendMessage(c, u, role) PROVE TInv'
  BY <1>2, TrailLookup DEF appendMessage
<1>3. ASSUME NEW u \in Users, listSessions(c, u) PROVE TInv'
  <2>1. /\ UNCHANGED <<rec, doc, wire>> /\ pc[c] = "idle" /\ job'[c].op = "list"
        /\ \A d \in Calls \ {c} : pc'[d] = pc[d] /\ held'[d] = held[d] /\ job'[d] = job[d]
        /\ pc'[c] \in {"listing", "done"} /\ (~Persistent => pc'[c] = "done")
    BY <1>3 DEF listSessions, Accept, Return, Go, IInv, TypeOK
  <2> QED BY <2>1, TrailPlain
<1> QED BY <1>1, <1>2, <1>3, TrailTag DEF Ask

LEMMA TrailStep ==
  ASSUME IInv, MInv, TInv, NEW c \in Calls, Step(c)
  PROVE  TInv'
BY TrailFindOne, TrailLoad, TrailCreate, TrailPlainSteps, TrailPush, TrailSnapshot,
   TrailSaves, TrailDropDoc DEF Step

(* After a restart the process has no record, and nothing is under way. *)
LEMMA TrailRestart == ASSUME IInv, TInv, Restart PROVE TInv'
<1>1. /\ UNCHANGED <<doc, job>> /\ rec' = [c \in Calls |-> Empty]
      /\ pc' = [c \in Calls |-> IF pc[c] = "idle" THEN "idle" ELSE "done"]
  BY DEF Restart
<1>2. Allocated' = {} /\ \A c \in Calls : pc'[c] \in {"idle", "done"} /\ rec'[c] = Empty
  BY <1>1 DEF Allocated
<1>3. Volatile' /\ Trailing'
  BY <1>1, <1>2 DEF TInv, Volatile, Trailing
<1>4. \A c \in Calls : pc'[c] = "idle" => pc[c] = "idle"
  BY <1>1
<1>5. Made'
  BY <1>1, <1>2, <1>4 DEF TInv, Made
<1> QED BY <1>3, <1>5 DEF TInv

LEMMA TrailNext ==
  ASSUME IInv, MInv, TInv, [Next]_vars
  PROVE  TInv'
<1>1. CASE Mirror
  <2>1. UNCHANGED <<rec, doc, pc, job, held, wire>>
    BY <1>1 DEF Mirror, MirrorRow, calls
  <2> QED BY <2>1 DEF TInv, Volatile, Made, Trailing, Allocated, NoDelete
<1>2. CASE UNCHANGED vars
  BY <1>2 DEF vars, calls, TInv, Volatile, Made, Trailing, Allocated, NoDelete
<1> QED BY <1>1, <1>2, TrailAsk, TrailStep, TrailRestart DEF Next

(* The document is never anything else than an earlier state of the one    *)
(* record the process made of the session: saves overtake each other and   *)
(* fail, but none invents or reorders messages.  Only a document that a    *)
(* failed query hid is another, and shares no message with the record.     *)
THEOREM DocTrails == Spec => []DocTrailsRecord
<1>1. Init => IInv /\ MInv /\ TInv
  BY InitIInv, MessagesInit, TrailInit
<1>2. IInv /\ MInv /\ TInv /\ [Next]_vars => (IInv /\ MInv /\ TInv)'
  BY NextIInv, MessagesNext, TrailNext
<1>3. IInv /\ TInv => DocTrailsRecord
  BY DEF TInv, Trailing, DocTrailsRecord, NoDelete
<1> QED BY <1>1, <1>2, <1>3, PTL DEF Spec

-----------------------------------------------------------------------------
(* One call at a time. *)

(* One call at a time: no two calls are suspended together. *)
Alone == \A c, d \in Active : c = d

(* A call that waits for the document, or removes it, has no cache entry;  *)
(* one that goes on with a record goes on with the cache entry, and saves  *)
(* it as it is.                                                            *)
Cached ==
  \A c \in Calls :
    /\ pc[c] \in {"find", "found", "absent", "drop", "purge"} => mem = NoRec
    /\ pc[c] \in {"held", "openSave", "openSent", "save", "sent"} => held[c] = mem
    /\ pc[c] \in {"openSent", "sent"} => wire[c] = rec[mem]
    /\ pc[c] = "found" => wire[c] \in {doc, NoDoc}

(* A database that answers says what the document is, so the cache entry   *)
(* has the owner of the document.                                          *)
Answering == Persistent /\ "find" \notin Faults =>
  /\ \A c \in Calls : /\ pc[c] = "found" => wire[c] = doc
                      /\ pc[c] = "absent" => doc = NoDoc
  /\ mem # NoRec /\ doc # NoDoc => rec[mem].owner = doc.owner

(* A database that saves holds the cache entry, except while it is saved.  *)
Saving == {c \in Calls : pc[c] \in {"openSave", "openSent", "save", "sent"}}
Through == Persistent /\ "save" \notin Faults =>
  (mem # NoRec /\ Saving = {} => doc = rec[mem])

CInv == Alone /\ Cached /\ Answering /\ Through

-----------------------------------------------------------------------------
(* What is asked while at most one call may be in flight finds none.       *)
LEMMA NoneActive ==
  ASSUME MaxActive <= 1, IInv, Alone, Cardinality(Active) < MaxActive
  PROVE  Active = {}
<1>1. ASSUME NEW c \in Active PROVE FALSE
  <2>1. Active = {c}
    BY <1>1 DEF Alone
  <2>2. Cardinality(Active) = 1
    BY <2>1, FS_Singleton
  <2> QED BY <2>2, ParameterAssumption
<1> QED BY <1>1

(* A step of one call while the others rest. *)
LEMMA StillAlone ==
  ASSUME NEW c \in Calls, Active \subseteq {c}, \A d \in Calls \ {c} : pc'[d] = pc[d]
  PROVE  Alone' /\ \A d \in Calls \ {c} : pc'[d] \in {"idle", "done"}
<1>1. \A d \in Calls \ {c} : pc[d] \in {"idle", "done"}
  BY DEF Active
<1> QED BY <1>1 DEF Alone, Active

LEMMA OnlyOne ==
  ASSUME Alone, NEW c \in Calls, pc[c] \notin {"idle", "done"}
  PROVE  Active \subseteq {c}
BY DEF Alone, Active

(* A call that makes no record and touches no document. *)
LEMMA CachedLookup ==
  ASSUME MaxActive <= 1, IInv, CInv, NEW c \in Calls, NEW u \in Users, NEW role \in Roles,
         NEW op \in {"get", "append", "delete"}, Accept(c, op, u, role), Lookup(c, op, u),
         UNCHANGED doc
  PROVE  CInv'
<1>1. Active = {}
  BY NoneActive DEF Accept, CInv
<1>2. /\ \A d \in Calls \ {c} : pc'[d] = pc[d]
      /\ pc'[c] \in {"held", "find", "done"}
      /\ pc'[c] = "held" => held'[c] = mem'
      /\ pc'[c] = "find" => mem' = NoRec
      /\ Persistent => mem' = mem /\ rec' = rec
  BY DEF IInv, TypeOK, Lookup, Open, Return, Go
<1>3. Alone' /\ \A d \in Calls \ {c} : pc'[d] \in {"idle", "done"}
  BY <1>1, <1>2, StillAlone
<1>4. Cached'
  BY <1>2, <1>3 DEF Cached
<1>5. Answering'
  BY <1>2, <1>3 DEF CInv, Answering
<1>6. Through'
  BY <1>1, <1>2 DEF CInv, Through, Saving, Active
<1> QED BY <1>3, <1>4, <1>5, <1>6 DEF CInv

LEMMA CachedList ==
  ASSUME MaxActive <= 1, IInv, CInv, NEW c \in Calls, NEW u \in Users, listSessions(c, u)
  PROVE  CInv'
<1>1. Active = {}
  BY NoneActive DEF listSessions, Accept, CInv
<1>2. /\ \A d \in Calls \ {c} : pc'[d] = pc[d]
      /\ pc'[c] \in {"listing", "done"} /\ UNCHANGED <<mem, rec, doc>>
  BY DEF IInv, TypeOK, listSessions, Return, Go
<1>3. Alone' /\ \A d \in Calls \ {c} : pc'[d] \in {"idle", "done"}
  BY <1>1, <1>2, StillAlone
<1>4. Cached' /\ Answering'
  BY <1>2, <1>3 DEF CInv, Cached, Answering
<1>5. Through'
  BY <1>1, <1>2 DEF CInv, Through, Saving, Active
<1> QED BY <1>3, <1>4, <1>5 DEF CInv

LEMMA CachedTag ==
  ASSUME MaxActive <= 1, IInv, CInv, NEW c \in Calls, NEW id \in MsgIds, setLastTraceId(c, id)
  PROVE  CInv'
<1>1. Active = {}
  BY NoneActive DEF setLastTraceId, Accept, CInv
<1>2. /\ \A d \in Calls \ {c} : pc'[d] = pc[d]
      /\ UNCHANGED <<mem, doc>>
      /\ \/ pc'[c] = "save" /\ held'[c] = mem
         \/ pc'[c] = "done" /\ (Persistent => rec' = rec)
  BY DEF IInv, TypeOK, setLastTraceId, Return, Go
<1>3. Alone' /\ \A d \in Calls \ {c} : pc'[d] \in {"idle", "done"}
  BY <1>1, <1>2, StillAlone
<1>4. mem # NoRec => rec'[mem].owner = rec[mem].owner
  BY DEF IInv, TypeOK, Record, setLastTraceId
<1>5. Cached' /\ Answering'
  BY <1>2, <1>3, <1>4 DEF CInv, Cached, Answering
<1>6. Through'
  <2>1. Saving = {}
    BY <1>1 DEF Saving, Active
  <2> QED BY <1>2, <2>1 DEF CInv, Through, Saving
<1> QED BY <1>3, <1>5, <1>6 DEF CInv

LEMMA CachedLoad ==
  ASSUME IInv, CInv, NEW c \in Calls, FindOne(c) \/ Load(c) \/ Create(c)
  PROVE  CInv'
<1>1. Active \subseteq {c}
  BY OnlyOne DEF CInv, FindOne, Load, Create
<1>2. \A d \in Calls \ {c} : pc'[d] = pc[d]
  BY DEF IInv, TypeOK, FindOne, Load, Create, Open, Go
<1>3. Alone' /\ \A d \in Calls \ {c} : pc'[d] \in {"idle", "done"}
  BY <1>1, <1>2, StillAlone
<1>4. CASE FindOne(c)
  <2>1. /\ pc'[c] = "found" /\ UNCHANGED <<mem, rec, doc>> /\ mem = NoRec
        /\ wire'[c] = doc \/ ("find" \in Faults /\ wire'[c] = NoDoc)
    BY <1>4 DEF IInv, TypeOK, FindOne, Go, CInv, Cached
  <2> QED BY <1>3, <2>1 DEF CInv, Cached, Answering, Through
<1>5. CASE Load(c)
  <2>1. /\ pc[c] = "found" /\ UNCHANGED doc /\ wire[c] \in {doc, NoDoc} /\ mem = NoRec
        /\ \/ pc'[c] = "held" /\ held'[c] = mem' /\ rec'[mem'] = doc
           \/ pc'[c] = "absent" /\ wire[c] = NoDoc /\ mem' = NoRec
    BY <1>5 DEF IInv, TypeOK, Load, Go, CInv, Cached
  <2> QED BY <1>3, <2>1 DEF CInv, Cached, Answering, Through
<1>6. CASE Create(c)
  <2>1. pc[c] = "absent" /\ UNCHANGED doc /\ pc'[c] = "openSave" /\ held'[c] = mem'
    BY <1>6 DEF IInv, TypeOK, Create, Open, Go
  <2>2. c \in Saving'
    BY <2>1 DEF Saving
  <2> QED BY <1>3, <2>1, <2>2 DEF CInv, Cached, Answering, Through
<1> QED BY <1>4, <1>5, <1>6

(* A call that goes on with the cache entry, or ends. *)
LEMMA CachedHeld ==
  ASSUME IInv, CInv, NEW c \in Calls,
         Missing(c) \/ Refuse(c) \/ Get(c) \/ Forget(c) \/ PurgeRows(c) \/ List(c)
  PROVE  CInv'
<1>1. Active \subseteq {c} /\ pc[c] \in {"absent", "held", "purge", "listing"}
  BY OnlyOne DEF CInv, Missing, Refuse, Get, Forget, PurgeRows, List
<1>2. /\ \A d \in Calls \ {c} : pc'[d] = pc[d]
      /\ UNCHANGED <<rec, doc>>
      /\ \/ pc'[c] = "done" /\ (mem' = mem \/ mem' = NoRec)
         \/ pc'[c] = "drop" /\ mem' = NoRec
  BY DEF IInv, TypeOK, Missing, Refuse, Get, Forget, PurgeRows, List, Return, Go
<1>3. Alone' /\ \A d \in Calls \ {c} : pc'[d] \in {"idle", "done"}
  BY <1>1, <1>2, StillAlone
<1>4. Cached' /\ Answering'
  BY <1>2, <1>3 DEF CInv, Cached, Answering
<1>5. Through'
  <2>1. Saving = {}
    BY <1>1 DEF Saving, Active
  <2> QED BY <1>2, <2>1 DEF CInv, Through, Saving
<1> QED BY <1>3, <1>4, <1>5 DEF CInv

LEMMA CachedPush ==
  ASSUME IInv, CInv, NEW c \in Calls, Push(c)
  PROVE  CInv'
<1>1. Active \subseteq {c} /\ pc[c] = "held" /\ held[c] = mem /\ mem \in Calls
  BY OnlyOne DEF CInv, Push, Cached, IInv, Holding
<1>2. /\ \A d \in Calls \ {c} : pc'[d] = pc[d]
      /\ UNCHANGED doc /\ mem' = mem
      /\ \/ Persistent /\ pc'[c] = "save" /\ held'[c] = mem
         \/ ~Persistent /\ pc'[c] = "done"
  BY <1>1 DEF IInv, TypeOK, Push, Return, Go
<1>3. Alone' /\ \A d \in Calls \ {c} : pc'[d] \in {"idle", "done"}
  BY <1>1, <1>2, StillAlone
<1>4. rec'[mem].owner = rec[mem].owner
  BY <1>1 DEF IInv, TypeOK, Record, Push
<1>5. Cached' /\ Answering'
  BY <1>1, <1>2, <1>3, <1>4 DEF CInv, Cached, Answering
<1>6. Through'
  BY <1>2 DEF Through, Saving
<1> QED BY <1>3, <1>5, <1>6 DEF CInv

LEMMA CachedSave ==
  ASSUME IInv, CInv, NEW c \in Calls, Snapshot(c) \/ SaveOpened(c) \/ Save(c)
  PROVE  CInv'
<1>1. /\ Active \subseteq {c} /\ pc[c] \in {"openSave", "openSent", "save", "sent"}
      /\ held[c] = mem /\ mem \in Calls
      /\ pc[c] \in {"openSent", "sent"} => wire[c] = rec[mem]
  BY OnlyOne DEF CInv, Snapshot, SaveOpened, Save, Cached, IInv, Holding
<1>2. /\ \A d \in Calls \ {c} : pc'[d] = pc[d]
      /\ UNCHANGED <<mem, rec>>
      /\ \/ /\ UNCHANGED doc /\ held'[c] = mem /\ wire'[c] = rec[mem]
            /\ pc'[c] \in {"openSent", "sent"}
         \/ /\ doc' = rec[mem] \/ ("save" \in Faults /\ UNCHANGED doc)
            /\ \/ pc'[c] = "held" /\ held'[c] = mem
               \/ pc'[c] = "done"
  <2>1. CASE Snapshot(c)
    BY <1>1, <2>1 DEF IInv, TypeOK, Snapshot, Go
  <2>2. CASE SaveOpened(c)
    BY <1>1, <2>2 DEF IInv, TypeOK, SaveOpened, ReplaceOne, Go
  <2>3. CASE Save(c)
    BY <1>1, <2>3 DEF IInv, TypeOK, Save, ReplaceOne, Return, Go
  <2> QED BY <2>1, <2>2, <2>3
<1>3. Alone' /\ \A d \in Calls \ {c} : pc'[d] \in {"idle", "done"}
  BY <1>1, <1>2, StillAlone
<1>4. Cached' /\ Answering'
  BY <1>1, <1>2, <1>3 DEF CInv, Cached, Answering
<1>5. Through'
  <2>1. pc'[c] \in {"openSent", "sent"} => c \in Saving'
    BY DEF Saving
  <2> QED BY <1>2, <2>1 DEF Through
<1> QED BY <1>3, <1>4, <1>5 DEF CInv

LEMMA CachedDropDoc ==
  ASSUME IInv, CInv, NEW c \in Calls, DropDoc(c)
  PROVE  CInv'
<1>1. Active \subseteq {c} /\ mem = NoRec
  BY OnlyOne DEF CInv, DropDoc, Cached
<1>2. pc'[c] = "purge" /\ UNCHANGED <<mem, rec>> /\ \A d \in Calls \ {c} : pc'[d] = pc[d]
  BY DEF IInv, TypeOK, DropDoc, Go
<1>3. Alone' /\ \A d \in Calls \ {c} : pc'[d] \in {"idle", "done"}
  BY <1>1, <1>2, StillAlone
<1> QED BY <1>1, <1>2, <1>3 DEF CInv, Cached, Answering, Through

LEMMA CachedNext ==
  ASSUME MaxActive <= 1, IInv, CInv, [Next]_vars
  PROVE  CInv'
<1>1. ASSUME NEW c \in Calls, Ask(c) PROVE CInv'
  <2>1. ASSUME NEW u \in Users, getSession(c, u) \/ deleteSession(c, u) PROVE CInv'
    BY <2>1, CachedLookup DEF getSession, deleteSession, Roles
  <2>2. ASSUME NEW u \in Users, NEW role \in Roles, appendMessage(c, u, role) PROVE CInv'
    BY <2>2, CachedLookup DEF appendMessage
  <2> QED BY <1>1, <2>1, <2>2, CachedList, CachedTag DEF Ask
<1>2. ASSUME NEW c \in Calls, Step(c) PROVE CInv'
  BY <1>2, CachedLoad, CachedHeld, CachedPush, CachedSave, CachedDropDoc DEF Step
<1>3. CASE Restart
  <2>1. mem' = NoRec /\ \A c \in Calls : pc'[c] \in {"idle", "done"}
    BY <1>3 DEF Restart
  <2> QED BY <2>1 DEF CInv, Alone, Active, Cached, Answering, Through
<1>4. CASE Mirror \/ UNCHANGED vars
  <2>1. UNCHANGED <<mem, rec, doc, pc, job, held, wire>>
    BY <1>4 DEF Mirror, MirrorRow, vars, calls
  <2> QED BY <2>1 DEF CInv, Alone, Active, Cached, Answering, Through, Saving
<1> QED BY <1>1, <1>2, <1>3, <1>4 DEF Next

LEMMA CachedInit == Init => CInv
BY DEF Init, CInv, Alone, Active, Cached, Answering, Through

(* One call at a time: whenever no call is suspended, a database that      *)
(* saves holds what the process answers from.                              *)
THEOREM WritesThrough ==
  ASSUME MaxActive <= 1, Persistent, "save" \notin Faults
  PROVE  Spec => []WriteThrough
<1>1. Init => IInv /\ CInv
  BY InitIInv, CachedInit
<1>2. IInv /\ CInv /\ [Next]_vars => (IInv /\ CInv)'
  BY NextIInv, CachedNext
<1>3. CInv => WriteThrough
  BY DEF CInv, Through, Saving, WriteThrough, Active
<1> QED BY <1>1, <1>2, <1>3, PTL DEF Spec

(* One call at a time, a database that answers: the document never passes  *)
(* from one owner to another, though it is removed and made again.         *)
THEOREM OwnersKept ==
  ASSUME MaxActive <= 1, "find" \notin Faults
  PROVE  Spec => OwnerKept
<1>1. Init => IInv /\ MInv /\ TInv /\ CInv
  BY InitIInv, MessagesInit, CachedInit, TrailInit
<1>2. IInv /\ MInv /\ TInv /\ CInv /\ [Next]_vars => (IInv /\ MInv /\ TInv /\ CInv)'
  BY NextIInv, MessagesNext, CachedNext, TrailNext
<1>3. ASSUME IInv, CInv, Persistent, NEW c \in Calls, SaveOpened(c) \/ Save(c), doc # NoDoc
      PROVE  doc'.owner = doc.owner
  <2>1. wire[c] = rec[mem] /\ mem \in Calls
    BY <1>3 DEF CInv, Cached, SaveOpened, Save, IInv, Holding
  <2> QED BY <1>3, <2>1, SentinelAssumption DEF CInv, Answering, SaveOpened, Save, ReplaceOne
<1>4. ASSUME IInv, TInv, CInv, TInv', [Next]_vars, doc # NoDoc, doc' # NoDoc
      PROVE  doc'.owner = doc.owner
  <2>1. Persistent
    BY <1>4 DEF TInv, Volatile
  <2>2. ASSUME NEW c \in Calls, Ask(c) PROVE doc' = doc
    BY <2>2 DEF Ask, getSession, deleteSession, listSessions, appendMessage, setLastTraceId
  <2>3. ASSUME NEW c \in Calls, Step(c) PROVE doc'.owner = doc.owner
    <3>1. CASE SaveOpened(c) \/ Save(c)
      BY <1>3, <1>4, <2>1, <3>1
    <3>2. CASE DropDoc(c)
      BY <1>4, <3>2 DEF DropDoc
    <3> QED BY <2>3, <3>1, <3>2
        DEF Step, FindOne, Load, Create, Missing, Refuse, Get, Push, Forget, Snapshot,
            PurgeRows, List
  <2> QED BY <1>4, <2>2, <2>3 DEF Next, Mirror, MirrorRow, Restart, vars
<1>5. IInv /\ TInv /\ CInv /\ TInv' /\ [Next]_vars =>
        (doc # NoDoc /\ doc' # NoDoc => doc'.owner = doc.owner)
  BY <1>4
<1> QED BY <1>1, <1>2, <1>5, PTL DEF Spec, OwnerKept
-----------------------------------------------------------------------------
(* The document is the log. *)

Pushed(d, c) == [d EXCEPT !.msgs = Append(@, NewMessage(c))]
Tagged(d, i, c) == [d EXCEPT !.msgs[i].trace = c]

(* A caller is a user, and what the save or the removal of a call will do  *)
(* to the document is one step of the log.                                 *)
Questioned == \A c \in Calls : job[c].op \in {"get", "append", "delete", "list"} => job[c].user \in Users
Opened(c) == doc = NoDoc /\ job[c].op = "append" /\ rec[mem] = [owner |-> job[c].user, msgs |-> <<>>]
Changed(c) ==
  /\ doc # NoDoc
  /\ \/ job[c].op = "append" /\ rec[mem] = Pushed(doc, c)
     \/ job[c].op = "tag" /\ \E i \in DOMAIN doc.msgs : rec[mem] = Tagged(doc, i, c)
Pending ==
  \A c \in Calls :
    /\ pc[c] \in {"openSave", "openSent"} => Opened(c)
    /\ pc[c] \in {"save", "sent"} => Changed(c)
    /\ pc[c] = "drop" => doc # NoDoc /\ job[c].op = "delete" /\ doc.owner = job[c].user
LInv == Questioned /\ Pending

(* One call at a time, and a database that answers and saves. *)
Sequential == MaxActive <= 1 /\ Persistent /\ {"find", "save"} \cap Faults = {}

LEMMA AskedNext == IInv /\ Questioned /\ [Next]_vars => Questioned'
<1> SUFFICES ASSUME IInv, Questioned, [Next]_vars PROVE Questioned'
  OBVIOUS
<1>1. ASSUME NEW c \in Calls, Ask(c) PROVE Questioned'
  <2>1. \E u \in Owners, op \in {"get", "append", "delete", "list", "tag"}, role \in Roles :
          /\ job' = [job EXCEPT ![c] = [op |-> op, user |-> u, role |-> role]]
          /\ op # "tag" => u \in Users
    BY <1>1 DEF Ask, getSession, deleteSession, listSessions, appendMessage, setLastTraceId,
                Accept, Roles, Owners
  <2> QED BY <2>1 DEF IInv, TypeOK, Questioned
<1>2. UNCHANGED job => Questioned'
  BY DEF Questioned
<1>3. ASSUME NEW c \in Calls, Step(c) PROVE UNCHANGED job
  BY <1>3 DEF Step, FindOne, Load, Create, Missing, Refuse, Get, Push, Forget, Snapshot,
              SaveOpened, Save, DropDoc, PurgeRows, List
<1> QED BY <1>1, <1>2, <1>3 DEF Next, Mirror, MirrorRow, Restart, vars, calls

(* A call that goes on with a record goes on with the document. *)
LEMMA HeldIsDoc ==
  ASSUME Sequential, IInv, CInv, NEW c \in Calls, pc[c] = "held"
  PROVE  doc = rec[mem] /\ held[c] = mem /\ mem \in Calls /\ doc # NoDoc
<1>1. held[c] = mem /\ mem \in Calls
  BY DEF IInv, Holding, CInv, Cached
<1>2. Saving = {}
  BY OnlyOne DEF CInv, Saving, Active
<1>3. doc = rec[mem]
  BY <1>1, <1>2, SentinelAssumption DEF CInv, Through, Sequential
<1> QED BY <1>1, <1>3, SentinelAssumption DEF IInv, TypeOK

(* A step after which its call neither saves nor removes. *)
LEMMA PendingNone ==
  ASSUME NEW c \in Calls, \A d \in Calls \ {c} : pc'[d] \in {"idle", "done"},
         pc'[c] \notin {"openSave", "openSent", "save", "sent", "drop"}
  PROVE  Pending'
BY DEF Pending

LEMMA PendingAsk ==
  ASSUME Sequential, IInv, CInv, NEW c \in Calls, Ask(c)
  PROVE  Pending'
<1>1. Active = {}
  BY NoneActive
  DEF CInv, Sequential, Ask, getSession, deleteSession, listSessions, appendMessage,
      setLastTraceId, Accept
<1>2. \A d \in Calls \ {c} : pc'[d] = pc[d]
  BY DEF Sequential, IInv, TypeOK, Ask, getSession, deleteSession, listSessions, appendMessage,
         setLastTraceId, Lookup, Open, Return, Go
<1>3. \A d \in Calls \ {c} : pc'[d] \in {"idle", "done"}
  BY <1>1, <1>2, StillAlone
<1>4. ASSUME NEW id \in MsgIds, setLastTraceId(c, id) PROVE Pending'
  <2>1. CASE UNCHANGED rec /\ Return(c, "ok", <<>>)
    BY <1>3, <2>1, PendingNone DEF Return, Go, IInv, TypeOK
  <2>2. ASSUME NEW i \in Target(id), rec' = [rec EXCEPT ![mem].msgs[i].trace = c], Go(c, "save")
        PROVE  Pending'
    <3>1. mem \in Calls /\ i \in DOMAIN rec[mem].msgs
      BY DEF IInv, TypeOK, Target
    <3>2. Saving = {}
      BY <1>1 DEF Saving, Active
    <3>3. doc = rec[mem] /\ doc # NoDoc /\ UNCHANGED <<doc, mem>>
      BY <1>4, <3>1, <3>2, SentinelAssumption
      DEF CInv, Through, Sequential, IInv, TypeOK, setLastTraceId
    <3>4. rec'[mem] = Tagged(doc, i, c)
      BY <2>2, <3>1, <3>3 DEF IInv, TypeOK, Tagged
    <3>5. job'[c].op = "tag" /\ pc'[c] = "save"
      BY <1>4, <2>2 DEF setLastTraceId, Accept, Go, IInv, TypeOK
    <3>6. Changed(c)'
      BY <3>1, <3>3, <3>4, <3>5 DEF Changed, Tagged
    <3> QED BY <1>3, <3>5, <3>6 DEF Pending
  <2> QED BY <1>4, <2>1, <2>2 DEF setLastTraceId, Sequential
<1>5. ASSUME ~ \E id \in MsgIds : setLastTraceId(c, id) PROVE Pending'
  <2>1. pc'[c] \in {"held", "find", "listing"}
    BY <1>5 DEF Sequential, IInv, TypeOK, Ask, getSession, deleteSession, listSessions,
                appendMessage, Lookup, Go
  <2> QED BY <1>3, <2>1, PendingNone
<1> QED BY <1>4, <1>5

LEMMA PendingStep ==
  ASSUME Sequential, IInv, TInv, CInv, LInv, NEW c \in Calls, Step(c)
  PROVE  Pending'
<1>1. Active \subseteq {c} /\ \A d \in Calls \ {c} : pc'[d] = pc[d]
  BY OnlyOne
  DEF CInv, IInv, TypeOK, Step, FindOne, Load, Create, Missing, Refuse, Get, Push, Forget, Snapshot,
      SaveOpened, Save, DropDoc, PurgeRows, List, Return, Open, Go
<1>2. \A d \in Calls \ {c} : pc'[d] \in {"idle", "done"}
  BY <1>1, StillAlone
<1>3. CASE \/ FindOne(c) \/ Load(c) \/ Missing(c) \/ Refuse(c) \/ Get(c) \/ SaveOpened(c) \/ Save(c)
           \/ DropDoc(c) \/ PurgeRows(c) \/ List(c)
  <2>1. pc'[c] \in {"found", "held", "absent", "purge", "done"}
    BY <1>3 DEF IInv, TypeOK, FindOne, Load, Missing, Refuse, Get, SaveOpened, Save, DropDoc,
                PurgeRows, List, Return, Go
  <2> QED BY <1>2, <2>1, PendingNone
<1>4. CASE Create(c)
  <2>1. pc'[c] = "openSave" /\ Opened(c)'
    BY <1>4 DEF IInv, TypeOK, Create, Open, Go, Opened, CInv, Answering, Sequential
  <2> QED BY <1>2, <2>1 DEF Pending
<1>5. CASE Push(c)
  <2>1. doc = rec[mem] /\ held[c] = mem /\ mem \in Calls /\ doc # NoDoc
    BY <1>5, HeldIsDoc DEF Push
  <2>2. /\ pc'[c] = "save" /\ UNCHANGED <<doc, job>> /\ job[c].op = "append" /\ mem' = mem
        /\ rec'[mem] = Pushed(doc, c)
    BY <1>5, <2>1 DEF Sequential, IInv, TypeOK, Push, Go, Pushed
  <2>3. Changed(c)'
    BY <2>1, <2>2 DEF Changed, Pushed, NewMessage
  <2> QED BY <1>2, <2>2, <2>3 DEF Pending
<1>6. CASE Forget(c)
  <2>1. doc = rec[held[c]] /\ doc # NoDoc
    BY <1>6, HeldIsDoc DEF Forget
  <2>2. /\ pc'[c] = "drop" /\ UNCHANGED <<doc, job>> /\ job[c].op = "delete"
        /\ doc.owner = job[c].user
    BY <1>6, <2>1 DEF Sequential, IInv, TypeOK, Forget, Go, owns
  <2> QED BY <1>2, <2>1, <2>2 DEF Pending
<1>7. CASE Snapshot(c)
  <2>1. /\ \/ pc[c] = "openSave" /\ pc'[c] = "openSent"
           \/ pc[c] = "save" /\ pc'[c] = "sent"
        /\ UNCHANGED <<doc, rec, mem, job>>
    BY <1>7 DEF IInv, TypeOK, Snapshot, Go
  <2>2. Opened(c)' = Opened(c) /\ Changed(c)' = Changed(c)
    BY <2>1 DEF Opened, Changed, Pushed, Tagged, NewMessage
  <2> QED BY <1>2, <2>1, <2>2 DEF LInv, Pending
<1> QED BY <1>3, <1>4, <1>5, <1>6, <1>7 DEF Step

LEMMA PendingNext ==
  ASSUME Sequential, IInv, TInv, CInv, LInv, [Next]_vars
  PROVE  LInv'
<1>1. Restart => Pending'
  BY DEF Restart, Pending
<1>2. ASSUME Mirror \/ UNCHANGED vars PROVE Pending'
  <2>1. UNCHANGED <<mem, rec, doc, pc, job>>
    BY <1>2 DEF Mirror, MirrorRow, vars, calls
  <2>2. \A c \in Calls : Opened(c)' = Opened(c) /\ Changed(c)' = Changed(c)
    BY <2>1 DEF Opened, Changed, Pushed, Tagged, NewMessage
  <2> QED BY <2>1, <2>2 DEF LInv, Pending
<1> QED BY <1>1, <1>2, PendingAsk, PendingStep, AskedNext DEF Next, LInv

-----------------------------------------------------------------------------
(* A step answers no call of the log, or the one that takes it. *)

OfOne(c) == \A d \in Calls \ {c} : job'[d] = job[d] /\ reply'[d] = reply[d]

LEMMA NoAnswer ==
  ASSUME NEW c \in Calls, OfOne(c), reply[c] = NoReply,
         reply'[c] = NoReply \/ job'[c].op \notin {"get", "list", "append"}
  PROVE  Answers' = Answers
BY DEF OfOne, Answers

LEMMA OneAnswer ==
  ASSUME NEW c \in Calls, OfOne(c), reply[c] = NoReply,
         job'[c].op \in {"get", "list", "append"}
  PROVE  Answers[c] = NoReply /\ Answers' = [Answers EXCEPT ![c] = reply'[c]]
BY DEF OfOne, Answers

LEMMA LogStart == Init /\ Persistent => DocLog!LogInit
BY DEF Init, DocLog!LogInit, Answers

(* Nothing that is asked changes the log yet. *)
LEMMA LogAsk ==
  ASSUME Sequential, IInv, MInv, NEW c \in Calls, Ask(c)
  PROVE  UNCHANGED <<doc, Answers>>
<1>1. reply[c] = NoReply /\ UNCHANGED doc /\ OfOne(c)
  BY DEF MInv, Late, Answered, IInv, TypeOK, Ask, getSession, deleteSession, listSessions,
         appendMessage, setLastTraceId, Accept, Lookup, Open, Return, OfOne
<1>2. reply'[c] = NoReply \/ job'[c].op = "tag"
  BY <1>1 DEF Sequential, IInv, TypeOK, Ask, getSession, deleteSession, listSessions,
              appendMessage, setLastTraceId, Accept, Lookup
<1> QED BY <1>1, <1>2, NoAnswer

(* Nor what is done to the records. *)
LEMMA LogQuiet ==
  ASSUME Sequential, IInv, MInv, NEW c \in Calls,
         FindOne(c) \/ Load(c) \/ Create(c) \/ Push(c) \/ Forget(c) \/ Snapshot(c)
  PROVE  UNCHANGED <<doc, Answers>>
BY DEF Sequential, Answers, FindOne, Load, Create, Push, Forget, Snapshot

(* The answers. *)
LEMMA LogAnswers ==
  ASSUME Sequential, IInv, CInv, MInv, LInv, NEW c \in Calls, Missing(c) \/ Refuse(c) \/ Get(c) \/ List(c)
  PROVE  DocLog!LogNext \/ UNCHANGED <<doc, Answers>>
<1>1. reply[c] = NoReply /\ OfOne(c) /\ UNCHANGED <<doc, job>>
  BY DEF MInv, Late, Answered, IInv, TypeOK, Missing, Refuse, Get, List, Return, OfOne
<1>2. CASE job[c].op \notin {"get", "list", "append"}
  BY <1>1, <1>2, NoAnswer
<1>3. CASE job[c].op \in {"get", "list", "append"}
  <2>1. /\ job[c].user \in Users /\ Answers[c] = NoReply
        /\ Answers' = [Answers EXCEPT ![c] = reply'[c]]
    BY <1>1, <1>3, OneAnswer DEF LInv, Questioned
  <2>2. CASE Missing(c)
    <3>1. doc = NoDoc /\ reply'[c] = [status |-> "missing", msgs |-> <<>>]
      BY <2>2 DEF Missing, Return, CInv, Answering, Sequential, IInv, TypeOK
    <3>2. DocLog!Read(c, job[c].user)
      BY <1>1, <2>1, <3>1 DEF DocLog!Read, DocLog!Answer
    <3> QED BY <2>1, <3>2 DEF DocLog!LogNext
  <2>3. CASE Refuse(c)
    <3>1. doc # NoDoc /\ doc.owner # job[c].user /\ reply'[c] = [status |-> "refused", msgs |-> <<>>]
      BY <2>1, <2>3, HeldIsDoc, SentinelAssumption DEF Refuse, Return, IInv, TypeOK, owns
    <3>2. DocLog!Refuse(c)
      BY <1>1, <2>1, <3>1 DEF DocLog!Refuse, DocLog!Answer, DocLog!Owned
    <3> QED BY <3>2 DEF DocLog!LogNext
  <2>4. CASE Get(c)
    <3>1. doc # NoDoc /\ doc.owner = job[c].user /\ reply'[c] = [status |-> "ok", msgs |-> doc.msgs]
      BY <2>1, <2>4, HeldIsDoc DEF Get, Return, IInv, TypeOK, owns
    <3>2. DocLog!Read(c, job[c].user)
      BY <1>1, <2>1, <3>1 DEF DocLog!Read, DocLog!Answer, DocLog!Owned
    <3> QED BY <2>1, <3>2 DEF DocLog!LogNext
  <2>5. CASE List(c)
    <3>1. reply'[c] = [status |-> "ok",
                       msgs |-> IF DocLog!Owned(job[c].user) THEN doc.msgs ELSE <<>>]
      BY <2>5 DEF List, Return, IInv, TypeOK, Sequential, DocLog!Owned
    <3>2. DocLog!List(c, job[c].user)
      BY <1>1, <2>1, <3>1 DEF DocLog!List, DocLog!Answer
    <3> QED BY <2>1, <3>2 DEF DocLog!LogNext
  <2> QED BY <2>2, <2>3, <2>4, <2>5
<1> QED BY <1>2, <1>3

(* The effects: the log is opened, written, tagged or removed. *)
LEMMA LogOpened ==
  ASSUME Sequential, IInv, CInv, MInv, LInv, NEW c \in Calls, SaveOpened(c)
  PROVE  DocLog!LogNext
<1>1. doc = NoDoc /\ doc' = [owner |-> job[c].user, msgs |-> <<>>] /\ job[c].user \in Users
  BY DEF SaveOpened, ReplaceOne, Sequential, CInv, Cached, LInv, Pending, Opened, Questioned
<1>2. UNCHANGED Answers
  BY DEF SaveOpened, Answers
<1>3. DocLog!Open
  BY <1>1, <1>2 DEF DocLog!Open
<1> QED BY <1>3 DEF DocLog!LogNext

LEMMA LogSaved ==
  ASSUME Sequential, IInv, CInv, MInv, LInv, NEW c \in Calls, Save(c)
  PROVE  DocLog!LogNext
<1>1. /\ reply[c] = NoReply /\ OfOne(c) /\ UNCHANGED job /\ doc # NoDoc /\ doc \in Record
      /\ reply'[c] = [status |-> "ok", msgs |-> <<>>]
  BY DEF MInv, Late, Answered, IInv, TypeOK, Save, Return, OfOne, LInv, Pending, Changed
<1>2. held[c] = mem /\ doc' = rec[mem] /\ mem \in Calls
  BY DEF Save, ReplaceOne, Sequential, CInv, Cached, IInv, Holding
<1>3. CASE job[c].op = "append" /\ rec[mem] = Pushed(doc, c)
  <2>1. doc.owner = job[c].user /\ job[c].user \in Users /\ job[c].role \in {"user", "assistant"}
    <3>1. rec[mem].owner = job[c].user
      BY <1>2, <1>3 DEF IInv, Checked, Save
    <3>2. Pushed(doc, c).owner = doc.owner
      BY <1>1 DEF Pushed, Record
    <3> QED BY <1>3, <3>1, <3>2 DEF LInv, Questioned, IInv, TypeOK, Roles
  <2>2. \A i \in DOMAIN doc.msgs : doc.msgs[i].id # c
    <3>1. rec[mem] \in Written /\ Distinct(rec[mem])
      BY <1>2, SentinelAssumption DEF MInv, Once, Written, IInv, TypeOK
    <3>2. rec[mem].msgs = Append(doc.msgs, NewMessage(c)) /\ doc.msgs \in Seq(Message)
      BY <1>1, <1>3 DEF Pushed, Record
    <3>3. ASSUME NEW i \in DOMAIN doc.msgs, doc.msgs[i].id = c PROVE FALSE
      <4> DEFINE n == Len(doc.msgs) + 1
      <4>1. /\ i \in 1..Len(doc.msgs) /\ rec[mem].msgs[i] = doc.msgs[i] /\ i # n
            /\ rec[mem].msgs[n].id = c /\ {i, n} \subseteq DOMAIN rec[mem].msgs
        BY <3>2 DEF NewMessage
      <4> QED BY <3>1, <3>3, <4>1 DEF Distinct
    <3> QED BY <3>3
  <2>3. /\ Answers[c] = NoReply
        /\ Answers' = [Answers EXCEPT ![c] = [status |-> "ok", msgs |-> <<>>]]
    BY <1>1, <1>3, OneAnswer
  <2>4. doc' = [doc EXCEPT !.msgs = Append(@, [id |-> c, role |-> job[c].role,
                                               from |-> job[c].user, trace |-> NoTrace])]
    BY <1>2, <1>3 DEF Pushed, NewMessage
  <2>5. DocLog!Write(c)
    BY <1>1, <2>1, <2>2, <2>3, <2>4 DEF DocLog!Write, DocLog!Owned, DocLog!Answer
  <2> QED BY <2>5 DEF DocLog!LogNext
<1>4. CASE job[c].op = "tag" /\ \E i \in DOMAIN doc.msgs : rec[mem] = Tagged(doc, i, c)
  <2>1. UNCHANGED Answers
    BY <1>1, <1>4, NoAnswer
  <2>2. DocLog!Tag(c)
    BY <1>1, <1>2, <1>4, <2>1 DEF DocLog!Tag, Tagged
  <2> QED BY <2>2 DEF DocLog!LogNext
<1> QED BY <1>3, <1>4 DEF LInv, Pending, Changed, Save

LEMMA LogDropped ==
  ASSUME IInv, MInv, TInv, LInv, NEW c \in Calls, DropDoc(c) \/ PurgeRows(c)
  PROVE  DocLog!LogNext \/ UNCHANGED <<doc, Answers>>
<1>1. CASE DropDoc(c)
  <2>1. /\ doc # NoDoc /\ doc.owner = job[c].user /\ job[c].user \in Users
        /\ doc' = NoDoc \/ UNCHANGED doc
    BY <1>1 DEF DropDoc, LInv, Pending, Questioned
  <2>2. UNCHANGED Answers
    BY <1>1 DEF DropDoc, Answers
  <2>3. doc' = NoDoc => DocLog!Remove(job[c].user)
    BY <2>1, <2>2 DEF DocLog!Remove, DocLog!Owned
  <2> QED BY <2>1, <2>2, <2>3 DEF DocLog!LogNext
<1>2. CASE PurgeRows(c)
  <2>1. reply[c] = NoReply /\ OfOne(c) /\ UNCHANGED <<doc, job>> /\ job[c].op = "delete"
    BY <1>2 DEF MInv, Late, Answered, IInv, TypeOK, PurgeRows, Return, OfOne, TInv, Made
  <2> QED BY <2>1, NoAnswer
<1> QED BY <1>1, <1>2

LEMMA LogTaken ==
  ASSUME Sequential, IInv, TInv, CInv, MInv, LInv, [Next]_vars
  PROVE  DocLog!LogNext \/ UNCHANGED <<doc, Answers>>
<1>1. CASE Mirror \/ Restart \/ UNCHANGED vars
  BY <1>1 DEF Mirror, MirrorRow, Restart, vars, calls, Answers
<1>2. ASSUME NEW c \in Calls, Step(c) PROVE DocLog!LogNext \/ UNCHANGED <<doc, Answers>>
  BY <1>2, LogQuiet, LogAnswers, LogOpened, LogSaved, LogDropped DEF Step
<1> QED BY <1>1, <1>2, LogAsk DEF Next

(* One call at a time, and a database that answers and saves: the document *)
(* is the log of SessionLog.  Every acknowledged message is appended once, *)
(* every read is of the caller's own log, a delete is one removal, and a   *)
(* restart is no step at all, although a call is a dozen awaits and the    *)
(* cache comes and goes.                                                   *)
THEOREM LogKept ==
  ASSUME MaxActive <= 1, Persistent, "find" \notin Faults, "save" \notin Faults
  PROVE  Spec => DocIsLog
<1> DEFINE Inv == IInv /\ TInv /\ CInv /\ MInv /\ LInv
<1>0. Sequential
  BY DEF Sequential
<1>1. Init => Inv
  <2>1. Init => LInv
    BY DEF Init, LInv, Questioned, Pending, NoJob
  <2> QED BY <2>1, InitIInv, TrailInit, CachedInit, MessagesInit
<1>2. Inv /\ [Next]_vars => Inv'
  BY <1>0, NextIInv, TrailNext, CachedNext, MessagesNext, PendingNext
<1>3. Init => DocLog!LogInit
  BY LogStart
<1>4. Inv /\ [Next]_vars => [DocLog!LogNext]_(DocLog!logVars)
  BY <1>0, LogTaken DEF DocLog!logVars
<1> QED BY <1>1, <1>2, <1>3, <1>4, PTL DEF Spec, DocIsLog, DocLog!LogSpec

-----------------------------------------------------------------------------
(* The turns.  What is recalled or put into a prompt is its user's own.    *)
Own(msgs, u) == \A i \in DOMAIN msgs : msgs[i].from = u

(* A turn that has not begun has made no lookup; one that has begun made   *)
(* it for its user.  The record its lookup found belongs to that user and  *)
(* is allocated already, so its owner will not change, although the cache  *)
(* and the database may forget it.                                         *)
TurnInv(t) ==
  /\ at[t] = "idle" => /\ pc[<<t, "get">>] = "idle"
                       /\ found[t] = NoRec /\ recalled[t] = <<>> /\ prompt[t] = <<>>
  /\ at[t] # "idle" => /\ pc[<<t, "get">>] # "idle"
                       /\ asker[t] \in Users /\ job[<<t, "get">>].user = asker[t]
  /\ found[t] # NoRec => pc[found[t]] \notin Before /\ rec[found[t]].owner = asker[t]
  /\ Own(recalled[t], asker[t]) /\ Own(prompt[t], asker[t])

Turnwise == \A t \in Turns : TurnInv(t)
Remembered == \A u \in Users : Own(events[u], u)

ChatInv == IInv /\ TurnTypeOK /\ Turnwise /\ Remembered

-----------------------------------------------------------------------------
(* What a call of the store does to the others: it keeps their places and  *)
(* jobs, and the owner of every record that is allocated.                  *)
LEMMA StoreCall ==
  ASSUME IInv, NEW c \in Calls, Ask(c) \/ Step(c)
  PROVE  /\ \A d \in Calls \ {c} : pc'[d] = pc[d] /\ job'[d] = job[d]
         /\ pc'[c] # "idle" /\ (pc[c] # "idle" => job'[c] = job[c])
         /\ pc[c] \notin Before => pc'[c] \notin Before
         /\ \A d \in Calls : pc[d] \notin Before => rec'[d].owner = rec[d].owner
<1>0. /\ rec \in [Calls -> Record] /\ pc \in [Calls -> Places]
      /\ job \in [Calls -> [op : {"none", "get", "append", "delete", "list", "tag"},
                            user : Owners, role : Roles]]
  BY DEF IInv, TypeOK
<1> DEFINE Kept == \A d \in Calls : pc[d] \notin Before => rec'[d].owner = rec[d].owner
           Moved == /\ \A d \in Calls \ {c} : pc'[d] = pc[d]
                    /\ pc'[c] # "idle" /\ (pc[c] \notin Before => pc'[c] \notin Before)
           New == pc[c] = "idle" /\ \A d \in Calls \ {c} : job'[d] = job[d]
<1>1. ASSUME NEW u \in Users, NEW op, NEW role,
             Accept(c, op, u, role), Lookup(c, op, u)
      PROVE  Kept /\ Moved /\ New
  BY <1>0, <1>1 DEF Accept, Lookup, Open, Go, Return, Before
<1>2. ASSUME NEW u \in Users, listSessions(c, u)
      PROVE  Kept /\ Moved /\ New
  BY <1>0, <1>2 DEF listSessions, Accept, Go, Return, Before
<1>3. ASSUME NEW id \in MsgIds, setLastTraceId(c, id)
      PROVE  Kept /\ Moved /\ New
  <2>1. Moved /\ New
    BY <1>0, <1>3 DEF setLastTraceId, Accept, Go, Return, Before
  <2>2. Kept
    <3>1. CASE UNCHANGED rec
      BY <3>1
    <3>2. ASSUME NEW i \in Target(id), rec' = [rec EXCEPT ![mem].msgs[i].trace = c] PROVE Kept
      <4> DEFINE tagged == [rec[mem] EXCEPT !.msgs[i].trace = c]
      <4>1. rec' = [rec EXCEPT ![mem] = tagged] /\ (mem \in Calls => tagged.owner = rec[mem].owner)
        BY <1>0, <3>2 DEF Record
      <4> HIDE DEF tagged
      <4> QED BY <1>0, <4>1
    <3> QED BY <1>3, <3>2 DEF setLastTraceId
  <2> QED BY <2>1, <2>2
<1>4. ASSUME Step(c) PROVE Kept /\ Moved /\ UNCHANGED job
  <2>1. CASE FindOne(c) \/ Load(c) \/ Create(c) \/ Missing(c)
    BY <1>0, <2>1 DEF FindOne, Load, Create, Missing, Open, Go, Return, Before
  <2>2. CASE Refuse(c) \/ Get(c) \/ Forget(c)
    BY <1>0, <2>2 DEF Refuse, Get, Forget, Go, Return, Before
  <2>5. CASE Push(c)
    <3>1. Moved /\ UNCHANGED job
      BY <1>0, <2>5 DEF Push, Go, Return, Before
    <3> DEFINE pushed == [rec[held[c]] EXCEPT !.msgs = Append(@, NewMessage(c))]
    <3>2. rec' = [rec EXCEPT ![held[c]] = pushed]
      BY <2>5 DEF Push
    <3>3. held[c] \in Calls => pushed.owner = rec[held[c]].owner
      BY <1>0 DEF Record
    <3> HIDE DEF pushed
    <3>4. Kept
      BY <1>0, <3>2, <3>3
    <3> QED BY <3>1, <3>4
  <2>3. CASE Snapshot(c) \/ SaveOpened(c) \/ Save(c)
    BY <1>0, <2>3 DEF Snapshot, SaveOpened, Save, Go, Return, Before
  <2>4. CASE DropDoc(c) \/ PurgeRows(c) \/ List(c)
    BY <1>0, <2>4 DEF DropDoc, PurgeRows, List, Go, Return, Before
  <2> QED BY <1>4, <2>1, <2>2, <2>3, <2>4, <2>5 DEF Step
<1>5. ASSUME Ask(c) PROVE Kept /\ Moved /\ New
  BY <1>1, <1>2, <1>3, <1>5 DEF Ask, getSession, appendMessage, deleteSession
<1> HIDE DEF Kept, Moved, New
<1>6. CASE Ask(c)
  BY <1>5, <1>6 DEF Kept, Moved, New
<1>7. CASE Step(c)
  BY <1>4, <1>7 DEF Kept, Moved
<1> QED BY <1>6, <1>7

-----------------------------------------------------------------------------
(* The steps of the handler. *)

(* The calls of a turn are calls of the store, and the lookup is none of   *)
(* the others.                                                             *)
LEMMA TurnCalls ==
  ASSUME NEW t \in Turns
  PROVE  /\ \A part \in Parts : <<t, part>> \in Calls /\ <<t, part>> \in MsgIds
         /\ \A s \in Turns : \A part \in {"ask", "reply", "tag"} : <<s, "get">> # <<t, part>>
BY TurnAssumption DEF Parts, MsgIds

(* A step of the handler leaves the store alone, or makes a call that is   *)
(* not a lookup.                                                           *)
LEMMA HandlerCall ==
  ASSUME NEW t \in Turns, TurnTypeOK, at[t] # "idle" => asker[t] \in Users, Handler(t)
  PROVE  UNCHANGED vars \/ \E part \in {"ask", "reply", "tag"} : Ask(<<t, part>>)
<1>1. at[t] # "idle" /\ asker[t] \in Users
  BY DEF Handler, Looked, Recall, Asked, Note, Invoke, Fail, Answer, Replied, Keep, Close
<1>2. AppendQuestion(t) => Ask(<<t, "ask">>)
  BY <1>1 DEF AppendQuestion, Ask, Roles
<1>3. AppendReply(t) => Ask(<<t, "reply">>)
  BY <1>1 DEF AppendReply, Ask, Roles
<1>4. TagReply(t) => Ask(<<t, "tag">>)
  BY TurnCalls DEF TagReply, Ask, Parts
<1> QED BY <1>2, <1>3, <1>4
        DEF Handler, Looked, Recall, Asked, Note, Invoke, Fail, Answer, Replied, Keep, Close

(* What such a step does to the state of the turns. *)
LEMMA HandlerTurn ==
  ASSUME NEW t \in Turns, ChatInv, Handler(t)
  PROVE  /\ at[t] # "idle" /\ \E stage \in Stages \ {"idle"} : at' = [at EXCEPT ![t] = stage]
         /\ UNCHANGED <<cast, shortTerm, asker, found, before>>
         /\ recalled' \in {recalled, [recalled EXCEPT ![t] = Newest(events[asker[t]])]}
         /\ prompt' \in {prompt, [prompt EXCEPT ![t] = priorTurns(t)]}
         /\ UNCHANGED outcome
              \/ \E how \in {"failed", "words", "blank"} : outcome' = [outcome EXCEPT ![t] = how]
         /\ lossy' \in {lossy, TRUE}
         /\ \/ UNCHANGED events
            \/ \E part \in Parts, role \in Roles :
                 events' = [events EXCEPT ![asker[t]] = Append(@,
                   [id |-> <<t, part>>, role |-> role, from |-> asker[t], trace |-> NoTrace])]
BY DEF Handler, Looked, Recall, Asked, Note, Invoke, Fail, Answer, Replied, Keep, Close,
       AppendQuestion, AppendReply, TagReply, To, Remember, memory, turns, Stages, Parts, Roles

-----------------------------------------------------------------------------
(* The invariant holds at the start, and every step keeps it. *)

(* What a step of the store leaves to a turn that does not move: its       *)
(* lookup, and the owner of the record it found.                           *)
Kept(t) ==
  /\ pc[<<t, "get">>] = "idle" => pc'[<<t, "get">>] = "idle"
  /\ pc[<<t, "get">>] # "idle" => /\ pc'[<<t, "get">>] # "idle"
                                  /\ job'[<<t, "get">>] = job[<<t, "get">>]
  /\ found[t] # NoRec => /\ pc'[found[t]] \notin Before
                         /\ rec'[found[t]].owner = rec[found[t]].owner

(* A call other than a lookup that has not been made keeps the turns.      *)
LEMMA KeptByCall ==
  ASSUME ChatInv, NEW c \in Calls, Ask(c) \/ Step(c),
         NEW t \in Turns, c = <<t, "get">> => pc[c] # "idle"
  PROVE  Kept(t)
<1>1. <<t, "get">> \in Calls /\ (found[t] # NoRec => found[t] \in Calls)
  BY TurnCalls DEF ChatInv, TurnTypeOK, Parts
<1>2. found[t] # NoRec => pc[found[t]] \notin Before
  BY DEF ChatInv, Turnwise, TurnInv
<1>3. /\ \A d \in Calls \ {c} : pc'[d] = pc[d] /\ job'[d] = job[d]
      /\ pc'[c] # "idle" /\ (pc[c] # "idle" => job'[c] = job[c])
      /\ pc[c] \notin Before => pc'[c] \notin Before
      /\ \A d \in Calls : pc[d] \notin Before => rec'[d].owner = rec[d].owner
  BY StoreCall DEF ChatInv
<1> QED BY <1>1, <1>2, <1>3 DEF Kept

(* The last n messages of a log. *)
LEMMA EndOfLog ==
  ASSUME NEW log \in Seq(Message), NEW n \in Nat, NEW first \in Nat, first + n = Len(log)
  PROVE  LET new == SubSeq(log, first + 1, Len(log))
         IN  /\ new \in Seq(Message) /\ DOMAIN new = 1..n
             /\ \A k \in 1..n : k + first \in DOMAIN log /\ new[k] = log[k + first]
OBVIOUS

(* The newest messages of a user's log are the user's. *)
LEMMA NewestOwn ==
  ASSUME TurnTypeOK, NEW msgs \in Seq(Message), NEW u, Own(msgs, u)
  PROVE  Newest(msgs) \in Seq(Message) /\ Own(Newest(msgs), u)
<1>1. cast.limit \in Nat \ {0}
  BY TurnAssumption DEF TurnTypeOK, Cast
<1>2. CASE Len(msgs) <= cast.limit
  BY <1>2 DEF Newest
<1>3. CASE Len(msgs) > cast.limit
  <2> DEFINE first == Len(msgs) - cast.limit
  <2>1. first \in Nat /\ first + cast.limit = Len(msgs)
    BY <1>1, <1>3
  <2>2. Newest(msgs) = SubSeq(msgs, first + 1, Len(msgs))
    <3>1. ~(Len(msgs) <= cast.limit)
      BY <1>1, <1>3
    <3> QED BY <3>1 DEF Newest
  <2> HIDE DEF first
  <2>3. /\ Newest(msgs) \in Seq(Message)
        /\ \A i \in DOMAIN Newest(msgs) : i + first \in DOMAIN msgs /\ Newest(msgs)[i] = msgs[i + first]
    BY <1>1, <2>1, <2>2, EndOfLog, SMTT(20)
  <2> QED BY <2>3 DEF Own
<1> QED BY <1>1, <1>2, <1>3

(* The handler gives a turn only what its user wrote. *)
LEMMA HandlerStep ==
  ASSUME ChatInv, NEW t \in Turns, Handler(t)
  PROVE  ChatInv'
<1> DEFINE after == /\ at[t] # "idle" /\ \E stage \in Stages \ {"idle"} : at' = [at EXCEPT ![t] = stage]
                    /\ UNCHANGED <<cast, shortTerm, asker, found, before>>
<1>1. asker[t] \in Users /\ after
  BY HandlerTurn DEF ChatInv, Turnwise, TurnInv
<1>2. UNCHANGED vars \/ \E part \in {"ask", "reply", "tag"} : Ask(<<t, part>>)
  BY <1>1, HandlerCall DEF ChatInv
<1>3. IInv'
  BY <1>2, TurnCalls, NextIInv DEF ChatInv, Next, Parts
<1>4. \A s \in Turns : Kept(s)
  <2>1. CASE UNCHANGED vars
    BY <2>1 DEF Kept, vars, calls, ChatInv, Turnwise, TurnInv
  <2>2. ASSUME NEW part \in {"ask", "reply", "tag"}, Ask(<<t, part>>), NEW s \in Turns
        PROVE  Kept(s)
    BY <2>2, TurnCalls, KeptByCall DEF Parts
  <2> QED BY <1>2, <2>1, <2>2
<1>5. Newest(events[asker[t]]) \in Seq(Message) /\ Own(Newest(events[asker[t]]), asker[t])
      /\ events[asker[t]] \in Seq(Message) /\ Own(events[asker[t]], asker[t])
  <2>1. events[asker[t]] \in Seq(Message) /\ Own(events[asker[t]], asker[t])
    BY <1>1 DEF ChatInv, TurnTypeOK, Remembered
  <2> QED BY <2>1, NewestOwn DEF ChatInv
<1>6. priorTurns(t) \in Seq(Message) /\ Own(priorTurns(t), asker[t])
  <2>1. CASE recalled[t] # <<>>
    BY <2>1 DEF priorTurns, ChatInv, TurnTypeOK, Turnwise, TurnInv
  <2>2. CASE recalled[t] = <<>> /\ found[t] # NoRec
    <3>1. found[t] \in Calls /\ rec[found[t]] \in Record /\ Single(rec[found[t]])
          /\ rec[found[t]].owner = asker[t]
      <4>1. found[t] \in Calls
        BY <2>2 DEF ChatInv, TurnTypeOK
      <4>2. rec \in [Calls -> Record] /\ \A c \in Calls : Single(rec[c])
        BY DEF ChatInv, IInv, TypeOK, Isolation
      <4>3. rec[found[t]].owner = asker[t]
        BY <2>2 DEF ChatInv, Turnwise, TurnInv
      <4> QED BY <4>1, <4>2, <4>3
    <3>2. priorTurns(t) = rec[found[t]].msgs
      BY <2>2 DEF priorTurns
    <3> QED BY <3>1, <3>2 DEF Own, Single, Record
  <2>3. CASE recalled[t] = <<>> /\ found[t] = NoRec
    BY <2>3 DEF priorTurns, Own
  <2> QED BY <2>1, <2>2, <2>3
<1>7. /\ recalled' \in [Turns -> Seq(Message)] /\ prompt' \in [Turns -> Seq(Message)]
      /\ \A s \in Turns : Own(recalled'[s], asker[s]) /\ Own(prompt'[s], asker[s])
      /\ \A s \in Turns : at[s] = "idle" => recalled'[s] = <<>> /\ prompt'[s] = <<>>
  <2>1. /\ recalled \in [Turns -> Seq(Message)] /\ prompt \in [Turns -> Seq(Message)]
        /\ \A s \in Turns : Own(recalled[s], asker[s]) /\ Own(prompt[s], asker[s])
        /\ \A s \in Turns : at[s] = "idle" => recalled[s] = <<>> /\ prompt[s] = <<>>
    BY DEF ChatInv, TurnTypeOK, Turnwise, TurnInv
  <2>2. recalled' \in {recalled, [recalled EXCEPT ![t] = Newest(events[asker[t]])]}
        /\ prompt' \in {prompt, [prompt EXCEPT ![t] = priorTurns(t)]}
    BY HandlerTurn
  <2> QED BY <1>1, <1>5, <1>6, <2>1, <2>2
<1>8. Turnwise'
  <2> SUFFICES ASSUME NEW s \in Turns PROVE TurnInv(s)'
    BY DEF Turnwise
  <2>1. TurnInv(s) /\ Kept(s) /\ UNCHANGED <<found, asker>>
    BY <1>1, <1>4 DEF ChatInv, Turnwise
  <2>2. at'[s] = "idle" <=> at[s] = "idle"
    BY <1>1 DEF ChatInv, TurnTypeOK
  <2>3. Own(recalled'[s], asker[s]) /\ Own(prompt'[s], asker[s])
        /\ (at[s] = "idle" => recalled'[s] = <<>> /\ prompt'[s] = <<>>)
    BY <1>7
  <2> QED BY <2>1, <2>2, <2>3 DEF TurnInv, Kept
<1>9. events' \in [Users -> Seq(Message)] /\ Remembered'
  <2>1. CASE UNCHANGED events
    BY <2>1 DEF ChatInv, TurnTypeOK, Remembered
  <2>2. ASSUME NEW m \in Message, m.from = asker[t],
               events' = [events EXCEPT ![asker[t]] = Append(@, m)]
        PROVE  events' \in [Users -> Seq(Message)] /\ Remembered'
    <3> DEFINE grown == Append(events[asker[t]], m)
    <3>1. grown \in Seq(Message) /\ Own(grown, asker[t])
      BY <1>5, <2>2 DEF Own
    <3>2. events' = [events EXCEPT ![asker[t]] = grown]
      BY <2>2
    <3> HIDE DEF grown
    <3> QED BY <3>1, <3>2 DEF ChatInv, TurnTypeOK, Remembered
  <2>3. ASSUME NEW part \in Parts, NEW role \in Roles
        PROVE  [id |-> <<t, part>>, role |-> role, from |-> asker[t], trace |-> NoTrace] \in Message
    BY <1>1, TurnCalls DEF Message, Owners
  <2>4. ASSUME NEW part \in Parts, NEW role \in Roles,
               events' = [events EXCEPT ![asker[t]] = Append(@,
                 [id |-> <<t, part>>, role |-> role, from |-> asker[t], trace |-> NoTrace])]
        PROVE  events' \in [Users -> Seq(Message)] /\ Remembered'
    <3> DEFINE m == [id |-> <<t, part>>, role |-> role, from |-> asker[t], trace |-> NoTrace]
    <3>1. m \in Message /\ m.from = asker[t]
      BY <2>3
    <3>2. events' = [events EXCEPT ![asker[t]] = Append(@, m)]
      BY <2>4
    <3> HIDE DEF m
    <3> QED BY <3>1, <3>2, <2>2
  <2>5. \/ UNCHANGED events
        \/ \E part \in Parts, role \in Roles :
             events' = [events EXCEPT ![asker[t]] = Append(@,
               [id |-> <<t, part>>, role |-> role, from |-> asker[t], trace |-> NoTrace])]
    BY HandlerTurn, Zenon
  <2> QED BY <2>1, <2>4, <2>5
<1>10. TurnTypeOK'
  <2>1. outcome' \in [Turns -> {"none", "failed", "blank", "words"}] /\ lossy' \in BOOLEAN
    BY HandlerTurn DEF ChatInv, TurnTypeOK
  <2> QED BY <1>1, <1>7, <1>9, <2>1 DEF ChatInv, TurnTypeOK
<1> QED BY <1>3, <1>8, <1>9, <1>10 DEF ChatInv

(* A turn begins with a lookup for its user. *)
LEMMA BeginStep ==
  ASSUME ChatInv, NEW t \in Turns, NEW u \in Users, Begin(t, u)
  PROVE  ChatInv'
<1> DEFINE get == <<t, "get">>
<1>1. get \in Calls /\ Ask(get) /\ at[t] = "idle" /\ pc[get] = "idle"
  BY TurnCalls DEF Begin, Ask, getSession, Accept, Parts
<1>2. IInv'
  BY <1>1, NextIInv DEF ChatInv, Next
<1>3. pc'[get] # "idle" /\ job'[get].user = u
  <2>1. pc'[get] # "idle"
    BY <1>1, StoreCall DEF ChatInv
  <2>2. job' = [job EXCEPT ![get] = [op |-> "get", user |-> u, role |-> "user"]]
    BY DEF Begin, getSession, Accept
  <2> QED BY <1>1, <2>1, <2>2 DEF ChatInv, IInv, TypeOK
<1>4. /\ at' = [at EXCEPT ![t] = "looking"] /\ asker' = [asker EXCEPT ![t] = u]
      /\ UNCHANGED <<cast, events, found, recalled, prompt, outcome, shortTerm, lossy>>
      /\ before' \in [Turns -> SUBSET Turns]
  BY DEF Begin, To, memory, ChatInv, TurnTypeOK
<1>5. TurnTypeOK' /\ Remembered'
  BY <1>4 DEF ChatInv, TurnTypeOK, Remembered, Stages, Owners
<1>6. ASSUME NEW s \in Turns PROVE TurnInv(s)'
  <2>1. CASE s = t
    <3>1. found'[t] = NoRec /\ recalled'[t] = <<>> /\ prompt'[t] = <<>>
          /\ at'[t] = "looking" /\ asker'[t] = u
      BY <1>1, <1>4 DEF ChatInv, TurnTypeOK, Turnwise, TurnInv
    <3> QED BY <1>3, <2>1, <3>1 DEF TurnInv, Own
  <2>2. CASE s # t
    <3>1. TurnInv(s) /\ Kept(s)
      BY <1>1, <2>2, KeptByCall DEF ChatInv, Turnwise
    <3>2. at'[s] = at[s] /\ asker'[s] = asker[s] /\ found'[s] = found[s]
          /\ recalled'[s] = recalled[s] /\ prompt'[s] = prompt[s]
      BY <1>4, <2>2
    <3> QED BY <3>1, <3>2 DEF TurnInv, Kept
  <2> QED BY <2>1, <2>2
<1> QED BY <1>2, <1>5, <1>6 DEF ChatInv, Turnwise

(* A lookup hands its turn a record the turn's user owns. *)
LEMMA StoreStepStep ==
  ASSUME ChatInv, NEW c \in Calls, StoreStep(c)
  PROVE  ChatInv'
<1>1. Step(c) /\ pc[c] # "idle" /\ UNCHANGED <<memory, at, asker, recalled, prompt, outcome, before>>
  BY DEF StoreStep, Step, FindOne, Load, Create, Missing, Refuse, Get, Push, Forget,
         Snapshot, SaveOpened, Save, DropDoc, PurgeRows, List
<1>2. IInv'
  BY <1>1, NextIInv DEF ChatInv, Next
<1> DEFINE hands(s) == c = <<s, "get">> /\ pc[c] = "held" /\ owns(rec[held[c]], job[c].user)
<1>3. \A s \in Turns : found'[s] = IF hands(s) THEN held[c] ELSE found[s]
  BY DEF StoreStep
<1>4. pc[c] = "held" => held[c] \in Calls /\ pc[held[c]] \notin Before
  BY DEF ChatInv, IInv, Holding, Fresh
<1>5. TurnTypeOK'
  <2>1. found' \in [Turns -> Calls \cup {NoRec}]
    BY <1>4 DEF StoreStep, ChatInv, TurnTypeOK
  <2> QED BY <1>1, <2>1 DEF memory, ChatInv, TurnTypeOK
<1>6. Remembered'
  BY <1>1 DEF memory, ChatInv, Remembered
<1>7. ASSUME NEW s \in Turns PROVE TurnInv(s)'
  <2>1. TurnInv(s) /\ Kept(s)
    BY <1>1, KeptByCall DEF ChatInv, Turnwise
  <2>2. CASE ~hands(s)
    BY <1>1, <1>3, <2>1, <2>2 DEF TurnInv, Kept
  <2>3. CASE hands(s)
    <3>1. at[s] # "idle" /\ job[c].user = asker[s] /\ rec[held[c]].owner = asker[s]
      BY <2>1, <2>3 DEF TurnInv, owns
    <3>2. held[c] \in Calls /\ pc'[held[c]] \notin Before /\ rec'[held[c]].owner = asker[s]
      BY <1>1, <1>4, <2>3, <3>1, StoreCall DEF ChatInv
    <3> QED BY <1>1, <1>3, <2>1, <3>2 DEF TurnInv, Kept
  <2> QED BY <2>2, <2>3
<1> QED BY <1>2, <1>5, <1>6, <1>7 DEF ChatInv, Turnwise

(* A delete takes nothing from a turn that holds its record. *)
LEMMA VisitStep ==
  ASSUME ChatInv, NEW c \in Visits, NEW u \in Users, Visit(c, u)
  PROVE  ChatInv'
<1>1. c \in Calls /\ Ask(c) /\ \A t \in Turns : c # <<t, "get">>
  BY DEF Visits, Visit, Ask, Parts
<1>2. IInv'
  BY <1>1, NextIInv DEF ChatInv, Next
<1>3. UNCHANGED <<cast, at, asker, found, recalled, prompt, outcome, before, shortTerm, events, lossy>>
  BY DEF Visit, turns, memory
<1>4. TurnTypeOK' /\ Remembered'
  BY <1>3 DEF ChatInv, TurnTypeOK, Remembered
<1>5. ASSUME NEW s \in Turns PROVE TurnInv(s)'
  <2>1. TurnInv(s) /\ Kept(s)
    BY <1>1, KeptByCall DEF ChatInv, Turnwise
  <2> QED BY <1>3, <2>1 DEF TurnInv, Kept
<1> QED BY <1>2, <1>4, <1>5 DEF ChatInv, Turnwise

(* No turn has begun, and nothing is remembered. *)
LEMMA InitChatInv == ChatInit => ChatInv
<1> SUFFICES ASSUME ChatInit PROVE ChatInv
  OBVIOUS
<1>1. IInv
  BY InitIInv DEF ChatInit
<1>0. <<>> \in Seq(Message) /\ \A u : Own(<<>>, u)
  BY DEF Own
<1>2. TurnTypeOK /\ Remembered
  <2>1. events \in [Users -> Seq(Message)] /\ Remembered
    BY <1>0 DEF ChatInit, Remembered
  <2>2. recalled \in [Turns -> Seq(Message)] /\ prompt \in [Turns -> Seq(Message)]
    BY <1>0 DEF ChatInit
  <2>3. at \in [Turns -> Stages] /\ asker \in [Turns -> Owners]
        /\ found \in [Turns -> Calls \cup {NoRec}] /\ lossy \in BOOLEAN /\ shortTerm \in BOOLEAN /\ cast \in Casts
    BY TurnAssumption DEF ChatInit, Stages, Owners
  <2>4. outcome \in [Turns -> {"none", "failed", "blank", "words"}]
        /\ before \in [Turns -> SUBSET Turns]
    BY DEF ChatInit
  <2> QED BY <2>1, <2>2, <2>3, <2>4 DEF TurnTypeOK
<1>3. Turnwise
  <2> SUFFICES ASSUME NEW t \in Turns PROVE TurnInv(t)
    BY DEF Turnwise
  <2>1. at[t] = "idle" /\ found[t] = NoRec /\ recalled[t] = <<>> /\ prompt[t] = <<>>
    BY DEF ChatInit
  <2>2. pc[<<t, "get">>] = "idle"
    BY TurnCalls DEF ChatInit, Init, Parts
  <2> QED BY <1>0, <2>1, <2>2 DEF TurnInv
<1> QED BY <1>1, <1>2, <1>3 DEF ChatInv

(* Every step of the turns and of the store keeps the invariant. *)
LEMMA NextChatInv == ChatInv /\ [ChatNext]_chatVars => ChatInv'
<1> SUFFICES ASSUME ChatInv, [ChatNext]_chatVars PROVE ChatInv'
  OBVIOUS
<1>1. CASE UNCHANGED chatVars
  <2>1. UNCHANGED vars /\ UNCHANGED <<turns, memory>>
    BY <1>1 DEF chatVars
  <2>2. IInv'
    BY <2>1, NextIInv DEF ChatInv
  <2>3. TurnTypeOK' /\ Remembered'
    BY <2>1 DEF ChatInv, TurnTypeOK, Remembered, turns, memory
  <2>4. Turnwise'
    BY <2>1 DEF ChatInv, Turnwise, TurnInv, turns, vars, calls
  <2> QED BY <2>2, <2>3, <2>4 DEF ChatInv
<1> QED BY <1>1, HandlerStep, BeginStep, StoreStepStep, VisitStep DEF ChatNext

(* Every reachable state of the turns satisfies the inductive invariant. *)
LEMMA ChatInductive == ChatSpec => []ChatInv
BY InitChatInv, NextChatInv, PTL DEF ChatSpec

(* Every variable of the turns keeps its type. *)
THEOREM TurnTypeCorrect == ChatSpec => []TurnTypeOK
<1>1. ChatInv => TurnTypeOK
  BY DEF ChatInv
<1> QED BY <1>1, ChatInductive, PTL

(* Whatever is deleted, taken over or forgotten while a turn is answered,  *)
(* its agents are given only messages of the user who asks.                *)
THEOREM PromptsOwn == ChatSpec => []PromptOwn
<1>1. ChatInv => PromptOwn
  BY DEF ChatInv, Turnwise, TurnInv, Own, PromptOwn
<1> QED BY <1>1, ChatInductive, PTL

-----------------------------------------------------------------------------
(* What is stored of a turn.                                               *)

(* A process without a database, or one whose callers wait for each other: *)
(* its store has no more than one record, until somebody deletes it.       *)
Orderly == ~Persistent \/ MaxActive <= 1

NoVisit == \A c \in Visits : pc[c] = "idle"
Waits == {"find", "found", "absent"}
GoesOn == {"held", "openSave", "openSent", "save", "sent"}
Elsewhere == {"drop", "purge", "listing"}

InTurn ==
  /\ Persistent => Alone
  /\ ~Persistent => \A c \in Calls : pc[c] \notin Waits

OneRecord ==
  \A c \in Calls : /\ pc[c] \notin Elsewhere
                   /\ pc[c] \in Waits => mem = NoRec
                   /\ pc[c] \in GoesOn => mem # NoRec /\ held[c] = mem

(* What the calls of a turn were asked for. *)
OpOf(part) == IF part = "get" THEN "get" ELSE IF part = "tag" THEN "tag" ELSE "append"
Tasks(t) ==
  \A part \in Parts : pc[<<t, part>>] # "idle" =>
    job[<<t, part>>].op = OpOf(part) /\ (part # "tag" => job[<<t, part>>].user = asker[t])

(* Which calls are over, by where the turn is. *)
Asks == {"noting", "invoking", "answering", "replying", "recording", "tagging", "done"}
Replies == {"replying", "recording", "tagging", "done"}
Follows(t) ==
  /\ at[t] \in {"idle", "looking", "recalling"} => pc[<<t, "ask">>] = "idle"
  /\ at[t] \in Asks => Returned(t, "ask") /\ ~Refused(t, "ask")
  /\ at[t] \notin Replies => pc[<<t, "reply">>] = "idle" /\ outcome[t] = "none"
  /\ at[t] = "replying" => outcome[t] \in {"words", "blank"} /\ pc[<<t, "reply">>] # "idle"
  /\ at[t] = "recording" => shortTerm
  /\ at[t] \in {"recording", "tagging", "done"} =>
       outcome[t] # "none" /\ (outcome[t] # "failed" => Returned(t, "reply"))

(* The message of a call is in the record. *)
Appended(c) == pc[c] \in {"save", "sent"} \/ (pc[c] = "done" /\ reply[c].status # "refused")
Stored(t) ==
  /\ Appended(<<t, "ask">>) => /\ mem # NoRec /\ rec[mem].owner = asker[t]
                               /\ Holds(rec[mem].msgs, t, "ask")
  /\ Appended(<<t, "reply">>) => Dialogue(rec[mem].msgs, t)
  /\ Returned(t, "reply") => ~Refused(t, "reply")

DoneInv ==
  /\ InTurn
  /\ \A t \in Turns : Tasks(t) /\ Follows(t)
  /\ NoVisit => OneRecord /\ \A t \in Turns : Stored(t)

-----------------------------------------------------------------------------
(* One call of the store. *)

(* A call leaves the others alone; it is asked while it is idle and goes   *)
(* on while it is under way.                                               *)
LEMMA OthersRest ==
  ASSUME IInv, NEW c \in Calls, Ask(c) \/ Step(c)
  PROVE  /\ \A d \in Calls \ {c} : /\ pc'[d] = pc[d] /\ job'[d] = job[d]
                                   /\ held'[d] = held[d] /\ reply'[d] = reply[d]
         /\ Step(c) => pc[c] \notin {"idle", "done"} /\ job' = job
         /\ Ask(c) => pc[c] = "idle" /\ Cardinality(Active) < MaxActive
         /\ pc'[c] # "idle"
<1>0. /\ held \in [Calls -> Calls \cup {NoRec}]
      /\ reply \in [Calls -> {NoReply} \cup
                 [status : {"ok", "missing", "refused"}, msgs : Seq(Message)]]
      /\ pc \in [Calls -> Places]
  BY DEF IInv, TypeOK
<1> DEFINE Rest == \A d \in Calls \ {c} : held'[d] = held[d] /\ reply'[d] = reply[d]
           Start == pc[c] = "idle" /\ Cardinality(Active) < MaxActive
           Way == pc[c] \notin {"idle", "done"} /\ job' = job
<1>1. ASSUME Ask(c) PROVE Rest /\ Start
  <2>1. ASSUME NEW u \in Users, NEW op, NEW role, Accept(c, op, u, role), Lookup(c, op, u)
        PROVE  Rest /\ Start
    BY <1>0, <2>1 DEF Accept, Lookup, Open, Go, Return
  <2>2. ASSUME NEW u \in Users, listSessions(c, u)
        PROVE  Rest /\ Start
    BY <1>0, <2>2 DEF listSessions, Accept, Go, Return
  <2>3. ASSUME NEW id \in MsgIds, setLastTraceId(c, id)
        PROVE  Rest /\ Start
    <3>1. UNCHANGED <<held, reply>> \/ (UNCHANGED reply /\ held' = [held EXCEPT ![c] = mem])
          \/ Return(c, "ok", <<>>)
      BY <2>3 DEF setLastTraceId
    <3>2. Start
      BY <2>3 DEF setLastTraceId, Accept
    <3> QED BY <1>0, <3>1, <3>2 DEF Return
  <2> QED BY <1>1, <2>1, <2>2, <2>3 DEF Ask, getSession, appendMessage, deleteSession
<1>2. ASSUME Step(c) PROVE Rest /\ Way
  <2>1. CASE FindOne(c) \/ Load(c) \/ Create(c) \/ Missing(c)
    BY <1>0, <2>1 DEF FindOne, Load, Create, Missing, Open, Return
  <2>2. CASE Refuse(c) \/ Get(c) \/ Push(c) \/ Forget(c)
    BY <1>0, <2>2 DEF Refuse, Get, Push, Forget, Return
  <2>3. CASE Snapshot(c) \/ SaveOpened(c) \/ Save(c)
    BY <1>0, <2>3 DEF Snapshot, SaveOpened, Save, Return
  <2>4. CASE DropDoc(c) \/ PurgeRows(c) \/ List(c)
    BY <1>0, <2>4 DEF DropDoc, PurgeRows, List, Return
  <2> QED BY <1>2, <2>1, <2>2, <2>3, <2>4 DEF Step
<1>3. \A d \in Calls \ {c} : pc'[d] = pc[d] /\ job'[d] = job[d]
  BY StoreCall
<1>4. pc'[c] # "idle"
  BY StoreCall
<1> HIDE DEF Rest, Start, Way
<1>5. Rest
  BY <1>1, <1>2
<1>6. Step(c) => pc[c] \notin {"idle", "done"} /\ job' = job
  BY <1>2 DEF Way
<1>7. Ask(c) => pc[c] = "idle" /\ Cardinality(Active) < MaxActive
  BY <1>1 DEF Start
<1> QED BY <1>3, <1>4, <1>5, <1>6, <1>7 DEF Rest

(* Callers that wait for each other still do, and without a database no    *)
(* call waits for it.                                                      *)
LEMMA InTurnCall ==
  ASSUME Orderly, IInv, InTurn, NEW c \in Calls, Ask(c) \/ Step(c)
  PROVE  InTurn' /\ (Persistent => \A d \in Calls \ {c} : pc'[d] \in {"idle", "done"})
<1>0. pc \in [Calls -> Places]
  BY DEF IInv, TypeOK
<1>1. CASE Persistent
  <2>1. Active \subseteq {c}
    <3>1. CASE Ask(c)
      <4>1. MaxActive <= 1 /\ Alone /\ Cardinality(Active) < MaxActive
        BY <1>1, <3>1, OthersRest DEF Orderly, InTurn
      <4> QED BY <4>1, NoneActive
    <3>2. CASE Step(c)
      <4>1. Alone /\ pc[c] \notin {"idle", "done"}
        BY <1>1, <3>2, OthersRest DEF InTurn
      <4> QED BY <4>1, OnlyOne
    <3> QED BY <3>1, <3>2
  <2>2. \A d \in Calls \ {c} : pc'[d] = pc[d]
    BY OthersRest
  <2> QED BY <1>1, <2>1, <2>2, StillAlone DEF InTurn
<1>2. CASE ~Persistent
  <2>1. pc[c] \notin Waits
    BY <1>2 DEF InTurn
  <2>2. pc'[c] \notin Waits
    <3>1. CASE Ask(c)
      <4>1. ASSUME NEW u \in Users, NEW op, Lookup(c, op, u) PROVE pc'[c] \notin Waits
        BY <1>0, <1>2, <4>1 DEF Lookup, Go, Return, Waits
      <4>2. ASSUME NEW u \in Users, listSessions(c, u) PROVE pc'[c] \notin Waits
        BY <1>0, <1>2, <4>2 DEF listSessions, Go, Return, Waits
      <4>3. ASSUME NEW id \in MsgIds, setLastTraceId(c, id) PROVE pc'[c] \notin Waits
        <5>1. Go(c, "save") \/ Return(c, "ok", <<>>)
          BY <4>3 DEF setLastTraceId
        <5> QED BY <1>0, <5>1 DEF Go, Return, Waits
      <4> QED BY <3>1, <4>1, <4>2, <4>3 DEF Ask, getSession, appendMessage, deleteSession
    <3>2. CASE Step(c)
      <4>1. CASE FindOne(c) \/ Load(c) \/ Create(c) \/ Missing(c)
        BY <2>1, <4>1 DEF FindOne, Load, Create, Missing, Waits
      <4>2. CASE Refuse(c) \/ Get(c) \/ Push(c) \/ Forget(c)
        BY <1>0, <4>2 DEF Refuse, Get, Push, Forget, Return, Go, Waits
      <4>3. CASE Snapshot(c) \/ SaveOpened(c) \/ Save(c)
        BY <1>0, <4>3 DEF Snapshot, SaveOpened, Save, Return, Go, Waits
      <4>4. CASE DropDoc(c) \/ PurgeRows(c) \/ List(c)
        BY <1>0, <4>4 DEF DropDoc, PurgeRows, List, Return, Go, Waits
      <4> QED BY <3>2, <4>1, <4>2, <4>3, <4>4 DEF Step
    <3> QED BY <3>1, <3>2
  <2>3. \A d \in Calls \ {c} : pc'[d] = pc[d]
    BY OthersRest
  <2> QED BY <1>2, <2>2, <2>3 DEF InTurn
<1> QED BY <1>1, <1>2 DEF InTurn

(* The call pushes its message to the one record. *)
Joins(c) ==
  /\ pc[c] = "held" /\ mem # NoRec /\ owns(rec[mem], job[c].user)
  /\ rec'[mem].msgs = Append(rec[mem].msgs, NewMessage(c))

(* While nothing is deleted the cache entry stays, its messages keep their *)
(* places, and every call goes on with it; a message is appended by a push *)
(* and by nothing else, and refused to those who do not own the record.    *)
MovesOn(c) ==
  /\ pc'[c] \notin Elsewhere
  /\ mem # NoRec => mem' = mem /\ Behind(rec[mem], rec'[mem])
  /\ pc'[c] \in Waits => mem' = NoRec
  /\ pc'[c] \in GoesOn => mem' # NoRec /\ held'[c] = mem'
  /\ job'[c].op = "append" /\ Appended(c)' => Appended(c) \/ Joins(c)
  /\ job'[c].op = "append" /\ pc'[c] = "done" /\ reply'[c].status = "refused"
       => pc[c] = "held" /\ mem # NoRec /\ ~owns(rec[mem], job[c].user)

LEMMA SameRecords ==
  ASSUME IInv, UNCHANGED <<mem, rec>>
  PROVE  mem # NoRec => mem' = mem /\ Behind(rec[mem], rec'[mem])
BY BehindItself DEF IInv, TypeOK

LEMMA LookupMovesOn ==
  ASSUME IInv, NEW c \in Calls, NEW op, NEW u, NEW role, Accept(c, op, u, role), Lookup(c, op, u)
  PROVE  MovesOn(c)
<1>1. mem # NoRec => UNCHANGED <<mem, rec>>
  BY DEF Lookup
<1>2. job' = [job EXCEPT ![c] = [op |-> op, user |-> u, role |-> role]]
  BY DEF Accept
<1>3. mem # NoRec => mem' = mem /\ Behind(rec[mem], rec'[mem])
  BY <1>1, SameRecords
<1>4. /\ pc'[c] \in Waits => mem' = NoRec
      /\ pc'[c] \in GoesOn => mem' # NoRec /\ held'[c] = mem'
      /\ pc'[c] \in {"held", "find", "done"}
      /\ pc'[c] = "done" => op # "append" /\ reply'[c].status # "refused"
  BY SentinelAssumption DEF IInv, TypeOK, Lookup, Open, Go, Return, Waits, GoesOn
<1>5. job'[c].op = op
  BY <1>2 DEF IInv, TypeOK
<1> QED BY <1>3, <1>4, <1>5 DEF MovesOn, Appended, Elsewhere

LEMMA TagMovesOn ==
  ASSUME IInv, NEW c \in Calls, NEW id \in MsgIds, setLastTraceId(c, id)
  PROVE  MovesOn(c)
<1>1. job'[c].op = "tag" /\ UNCHANGED mem
  BY DEF setLastTraceId, Accept, IInv, TypeOK
<1>2. mem # NoRec => mem' = mem /\ Behind(rec[mem], rec'[mem])
  <2>1. CASE UNCHANGED rec
    BY <1>1, <2>1, SameRecords
  <2>2. ASSUME NEW i \in Target(id), rec' = [rec EXCEPT ![mem].msgs[i].trace = c]
        PROVE  mem # NoRec => mem' = mem /\ Behind(rec[mem], rec'[mem])
    <3> DEFINE new == [rec[mem] EXCEPT !.msgs[i].trace = c]
    <3>1. mem \in Calls /\ i \in DOMAIN rec[mem].msgs /\ rec[mem] \in Record
      BY DEF IInv, TypeOK, Target
    <3>2. Behind(rec[mem], new)
      BY <3>1, BehindTagged, BehindItself
    <3>3. rec' = [rec EXCEPT ![mem] = new]
      BY <2>2
    <3> HIDE DEF new
    <3> QED BY <1>1, <3>1, <3>2, <3>3 DEF IInv, TypeOK
  <2> QED BY <2>1, <2>2 DEF setLastTraceId
<1>3. (Go(c, "save") /\ held' = [held EXCEPT ![c] = mem] /\ mem # NoRec) \/ Return(c, "ok", <<>>)
  BY DEF setLastTraceId, Target
<1>4. /\ pc'[c] \notin Waits /\ pc'[c] \notin Elsewhere
      /\ pc'[c] \in GoesOn => mem' # NoRec /\ held'[c] = mem'
  BY <1>1, <1>3 DEF IInv, TypeOK, Go, Return, Waits, GoesOn, Elsewhere
<1> QED BY <1>1, <1>2, <1>4 DEF MovesOn

LEMMA PushMovesOn ==
  ASSUME IInv, OneRecord, NEW c \in Calls, Push(c)
  PROVE  MovesOn(c)
<1> DEFINE new == [rec[mem] EXCEPT !.msgs = Append(@, NewMessage(c))]
<1>1. pc[c] = "held" /\ mem # NoRec /\ held[c] = mem /\ owns(rec[mem], job[c].user)
  BY DEF Push, OneRecord, GoesOn
<1>2. mem \in Calls /\ rec[mem] \in Record /\ NewMessage(c) \in Message
  BY <1>1 DEF IInv, TypeOK, NewMessage, Message, MsgIds
<1>3. rec' = [rec EXCEPT ![mem] = new] /\ mem' = mem
  BY <1>1 DEF Push
<1>4. Behind(rec[mem], new) /\ new.msgs = Append(rec[mem].msgs, NewMessage(c))
  BY <1>2, BehindPushed, BehindItself DEF Record
<1> HIDE DEF new
<1>5. rec'[mem] = new
  BY <1>2, <1>3 DEF IInv, TypeOK
<1>6. Joins(c)
  BY <1>1, <1>4, <1>5 DEF Joins
<1>7. (pc'[c] = "save" /\ UNCHANGED held) \/ (pc'[c] = "done" /\ reply'[c].status = "ok")
  BY DEF Push, Go, Return, IInv, TypeOK
<1> QED BY <1>1, <1>3, <1>4, <1>5, <1>6, <1>7 DEF MovesOn, Waits, GoesOn, Elsewhere

LEMMA StepMovesOn ==
  ASSUME IInv, OneRecord, NEW c \in Calls, Step(c), job[c].op \in {"get", "append", "tag"}
  PROVE  MovesOn(c)
<1>0. /\ mem \in Calls \cup {NoRec} /\ rec \in [Calls -> Record] /\ pc \in [Calls -> Places]
      /\ held \in [Calls -> Calls \cup {NoRec}]
      /\ reply \in [Calls -> {NoReply} \cup
                 [status : {"ok", "missing", "refused"}, msgs : Seq(Message)]]
  BY DEF IInv, TypeOK
<1>1. /\ pc[c] \in Waits => mem = NoRec
      /\ pc[c] \in GoesOn => mem # NoRec /\ held[c] = mem
  BY DEF OneRecord
<1>2. CASE FindOne(c)
  <2>1. UNCHANGED <<mem, rec, job, held, reply>> /\ pc[c] = "find" /\ pc'[c] = "found"
    BY <1>0, <1>2 DEF FindOne, Go
  <2> QED BY <1>1, <2>1, SameRecords DEF MovesOn, Waits, GoesOn, Elsewhere, Appended
<1>3. CASE Load(c)
  <2>1. mem = NoRec /\ pc'[c] \in {"held", "absent"} /\ (pc'[c] = "absent" => mem' = NoRec)
        /\ (pc'[c] = "held" => mem' = c /\ held'[c] = c)
    BY <1>0, <1>1, <1>3 DEF Load, Go, Waits
  <2> QED BY <2>1, SentinelAssumption DEF MovesOn, Waits, GoesOn, Elsewhere, Appended
<1>4. CASE Create(c)
  <2>1. mem = NoRec /\ mem' = c /\ held'[c] = c /\ pc'[c] = "openSave"
    BY <1>0, <1>1, <1>4 DEF Create, Open, Go, Waits
  <2> QED BY <2>1, SentinelAssumption DEF MovesOn, Waits, GoesOn, Elsewhere, Appended
<1>5. CASE Missing(c) \/ Get(c)
  <2>1. UNCHANGED <<mem, rec, job>> /\ pc'[c] = "done" /\ job[c].op # "append"
    BY <1>0, <1>5 DEF Missing, Get, Go, Return
  <2> QED BY <2>1, SameRecords DEF MovesOn, Waits, GoesOn, Elsewhere
<1>6. CASE Refuse(c)
  <2>1. UNCHANGED <<mem, rec, job>> /\ pc'[c] = "done" /\ pc[c] = "held"
        /\ ~owns(rec[held[c]], job[c].user) /\ reply'[c].status = "refused"
    BY <1>0, <1>6 DEF Refuse, Go, Return
  <2> QED BY <1>1, <2>1, SameRecords DEF MovesOn, Waits, GoesOn, Elsewhere, Appended
<1>7. CASE Push(c)
  BY <1>7, PushMovesOn
<1>8. CASE Snapshot(c)
  <2>1. UNCHANGED <<mem, rec, job, held, reply>>
        /\ \/ pc[c] = "openSave" /\ pc'[c] = "openSent"
           \/ pc[c] = "save" /\ pc'[c] = "sent"
    BY <1>0, <1>8 DEF Snapshot, Go
  <2> QED BY <1>1, <2>1, SameRecords DEF MovesOn, Waits, GoesOn, Elsewhere, Appended
<1>9. CASE SaveOpened(c)
  <2>1. UNCHANGED <<mem, rec, job, held, reply>> /\ pc[c] = "openSent" /\ pc'[c] = "held"
    BY <1>0, <1>9 DEF SaveOpened, Go
  <2> QED BY <1>1, <2>1, SameRecords DEF MovesOn, Waits, GoesOn, Elsewhere, Appended
<1>10. CASE Save(c)
  <2>1. UNCHANGED <<mem, rec, job>> /\ pc[c] = "sent" /\ pc'[c] = "done" /\ reply'[c].status = "ok"
    BY <1>0, <1>10 DEF Save, Go, Return
  <2> QED BY <1>1, <2>1, SameRecords DEF MovesOn, Waits, GoesOn, Elsewhere, Appended
<1>11. ~DropDoc(c) /\ ~PurgeRows(c) /\ ~List(c)
  BY DEF DropDoc, PurgeRows, List, OneRecord, Elsewhere
<1>12. ~Forget(c)
  BY DEF Forget
<1> QED BY <1>2, <1>3, <1>4, <1>5, <1>6, <1>7, <1>8, <1>9, <1>10, <1>11, <1>12 DEF Step

LEMMA AskMovesOn ==
  ASSUME IInv, NEW c \in Calls, Ask(c), job'[c].op # "list"
  PROVE  MovesOn(c)
<1>1. ASSUME NEW u \in Users, listSessions(c, u) PROVE FALSE
  BY <1>1 DEF listSessions, Accept, IInv, TypeOK
<1> QED BY <1>1, LookupMovesOn, TagMovesOn DEF Ask, getSession, appendMessage, deleteSession

(* The other calls have gone on with the one record, or are not there. *)
LEMMA OneRecordCall ==
  ASSUME Orderly, IInv, InTurn, OneRecord, NEW c \in Calls, Ask(c) \/ Step(c), MovesOn(c)
  PROVE  OneRecord'
<1>1. \A d \in Calls \ {c} : pc'[d] = pc[d] /\ held'[d] = held[d]
  BY OthersRest
<1>2. InTurn' /\ (Persistent => \A d \in Calls \ {c} : pc'[d] \in {"idle", "done"})
  BY InTurnCall
<1>3. ASSUME NEW d \in Calls \ {c}
      PROVE  /\ pc'[d] \notin Elsewhere
             /\ pc'[d] \notin Waits
             /\ pc'[d] \in GoesOn => mem' # NoRec /\ held'[d] = mem'
  <2>1. pc'[d] \notin Elsewhere
    BY <1>1 DEF OneRecord
  <2>2. pc'[d] \notin Waits
    BY <1>2 DEF InTurn, Waits
  <2>3. pc'[d] \in GoesOn => mem # NoRec /\ held[d] = mem
    BY <1>1 DEF OneRecord
  <2> QED BY <1>1, <2>1, <2>2, <2>3 DEF MovesOn
<1>4. /\ pc'[c] \notin Elsewhere /\ (pc'[c] \in Waits => mem' = NoRec)
      /\ pc'[c] \in GoesOn => mem' # NoRec /\ held'[c] = mem'
  BY DEF MovesOn
<1> QED BY <1>3, <1>4 DEF OneRecord, Waits, GoesOn, Elsewhere

(* What a record holds it goes on holding. *)
LEMMA StillHolds ==
  ASSUME NEW d \in Record, NEW r \in Record, Behind(d, r), NEW t
  PROVE  /\ \A part \in Parts : Holds(d.msgs, t, part) => Holds(r.msgs, t, part)
         /\ Dialogue(d.msgs, t) => Dialogue(r.msgs, t)
<1>1. DOMAIN d.msgs \subseteq DOMAIN r.msgs /\ \A i \in DOMAIN d.msgs : d.msgs[i].id = r.msgs[i].id
  BY DEF Record, Behind
<1> QED BY <1>1 DEF Holds, Dialogue

LEMMA StillStored ==
  ASSUME ChatInv, IInv', NEW c \in Calls, Ask(c) \/ Step(c), MovesOn(c), mem # NoRec
  PROVE  /\ mem' = mem /\ mem \in Calls /\ rec[mem] \in Record /\ rec'[mem] \in Record
         /\ rec'[mem].owner = rec[mem].owner
         /\ Behind(rec[mem], rec'[mem])
<1>1. mem \in Calls /\ pc[mem] \notin Before /\ rec[mem] \in Record
  BY DEF ChatInv, IInv, TypeOK, Fresh
<1>2. rec'[mem] \in Record
  BY <1>1 DEF IInv, TypeOK
<1>3. rec'[mem].owner = rec[mem].owner
  BY <1>1, StoreCall DEF ChatInv
<1> QED BY <1>1, <1>2, <1>3 DEF MovesOn

(* The message of a turn that a call pushes, after what the record holds. *)
LEMMA JoinsAfter ==
  ASSUME NEW t \in Turns, NEW c, NEW d \in Record, NEW r \in Record,
         r.msgs = Append(d.msgs, NewMessage(c))
  PROVE  /\ c = <<t, "ask">> => Holds(r.msgs, t, "ask")
         /\ c = <<t, "reply">> /\ Holds(d.msgs, t, "ask") => Dialogue(r.msgs, t)
<1> DEFINE n == Len(d.msgs) + 1
<1>1. d.msgs \in Seq(Message) /\ DOMAIN r.msgs = 1..n /\ n \in Nat
      /\ r.msgs[n] = NewMessage(c) /\ \A i \in DOMAIN d.msgs : i < n /\ i \in 1..n /\ r.msgs[i] = d.msgs[i]
  BY DEF Record
<1>2. n \in DOMAIN r.msgs /\ r.msgs[n].id = c
  BY <1>1 DEF NewMessage
<1> HIDE DEF n
<1> QED BY <1>1, <1>2 DEF Holds, Dialogue

-----------------------------------------------------------------------------
(* What a call of the store does to what is stored of the turns. *)
Turning == \A t \in Turns : Tasks(t) /\ Follows(t)
SameAsker(t) ==
  asker'[t] = asker[t] \/ (pc'[<<t, "ask">>] = "idle" /\ pc'[<<t, "reply">>] = "idle")

LEMMA StoredCall ==
  ASSUME ChatInv, IInv', Turning, Turning', OneRecord, \A s \in Turns : Stored(s),
         NEW c \in Calls, Ask(c) \/ Step(c), MovesOn(c), NEW t \in Turns, SameAsker(t)
  PROVE  Stored(t)'
<1> DEFINE ask == <<t, "ask">>
           answer == <<t, "reply">>
<1>0. ask \in Calls /\ answer \in Calls /\ ask # answer
  BY TurnCalls DEF Parts
<1>1. /\ \A d \in Calls \ {c} : pc'[d] = pc[d] /\ reply'[d] = reply[d]
      /\ Step(c) => pc[c] \notin {"idle", "done"} /\ job' = job
      /\ Ask(c) => pc[c] = "idle"
  BY OthersRest DEF ChatInv
<1>2. /\ pc[ask] # "idle" => job[ask].op = "append" /\ job[ask].user = asker[t]
      /\ pc[answer] # "idle" => job[answer].op = "append" /\ job[answer].user = asker[t]
      /\ pc'[ask] # "idle" => job'[ask].op = "append"
      /\ pc'[answer] # "idle" => job'[answer].op = "append"
  <2>1. \A part \in Parts : pc[<<t, part>>] # "idle" =>
          job[<<t, part>>].op = OpOf(part) /\ (part # "tag" => job[<<t, part>>].user = asker[t])
    BY DEF Turning, Tasks
  <2>2. \A part \in Parts : pc'[<<t, part>>] # "idle" => job'[<<t, part>>].op = OpOf(part)
    BY DEF Turning, Tasks, OpOf
  <2> QED BY <2>1, <2>2 DEF Parts, OpOf
<1>3. pc'[answer] # "idle" => Appended(ask) /\ c # ask
  <2>1. ASSUME pc'[answer] # "idle" PROVE Returned(t, "ask")' /\ ~Refused(t, "ask")'
    BY <2>1 DEF Turning, Follows, Replies, Asks
  <2>2. c # ask => (Returned(t, "ask")' /\ ~Refused(t, "ask")' => Appended(ask))
    BY <1>0, <1>1 DEF Returned, Refused, Appended
  <2>3. ASSUME pc'[answer] # "idle", c = ask PROVE FALSE
    <3>1. pc[ask] # "done" /\ pc'[answer] = pc[answer]
      BY <1>0, <1>1, <2>3
    <3> QED BY <2>3, <3>1 DEF Turning, Follows, Replies, Asks, Returned
  <2> QED BY <2>1, <2>2, <2>3
<1>4. Appended(ask) => mem # NoRec /\ rec[mem].owner = asker[t] /\ Holds(rec[mem].msgs, t, "ask")
  BY DEF Stored
<1>5. mem # NoRec => /\ mem' = mem /\ mem \in Calls /\ rec[mem] \in Record /\ rec'[mem] \in Record
                     /\ rec'[mem].owner = rec[mem].owner /\ Behind(rec[mem], rec'[mem])
  BY StillStored
<1>6. mem # NoRec => /\ Holds(rec[mem].msgs, t, "ask") => Holds(rec'[mem].msgs, t, "ask")
                     /\ Dialogue(rec[mem].msgs, t) => Dialogue(rec'[mem].msgs, t)
  BY <1>5, StillHolds DEF Parts
<1>7. Joins(c) => /\ mem # NoRec /\ pc[c] = "held" /\ owns(rec[mem], job[c].user)
                  /\ c = ask => Holds(rec'[mem].msgs, t, "ask")
                  /\ c = answer /\ Holds(rec[mem].msgs, t, "ask") => Dialogue(rec'[mem].msgs, t)
  BY <1>5, JoinsAfter DEF Joins
<1>8. ASSUME Appended(ask)'
      PROVE  mem' # NoRec /\ rec'[mem'].owner = asker'[t] /\ Holds(rec'[mem'].msgs, t, "ask")
  <2>1. pc'[ask] # "idle" /\ asker'[t] = asker[t]
    BY <1>8 DEF Appended, SameAsker
  <2>2. CASE Appended(ask)
    BY <1>4, <1>5, <1>6, <2>1, <2>2
  <2>3. CASE ~Appended(ask)
    <3>1. c = ask
      BY <1>0, <1>1, <1>8, <2>3 DEF Appended
    <3>2. Joins(ask)
      BY <1>2, <1>8, <2>1, <2>3, <3>1 DEF MovesOn
    <3> QED BY <1>2, <1>5, <1>7, <2>1, <3>1, <3>2 DEF owns
  <2> QED BY <2>2, <2>3
<1>9. ASSUME Appended(answer)' PROVE Dialogue(rec'[mem'].msgs, t)
  <2>1. pc'[answer] # "idle" /\ mem # NoRec /\ Holds(rec[mem].msgs, t, "ask")
    <3>1. pc'[answer] # "idle"
      BY <1>9 DEF Appended
    <3> QED BY <1>3, <1>4, <3>1
  <2>2. CASE Appended(answer)
    BY <1>5, <1>6, <2>1, <2>2 DEF Stored
  <2>3. CASE ~Appended(answer)
    <3>1. c = answer
      BY <1>0, <1>1, <1>9, <2>3 DEF Appended
    <3>2. Joins(answer)
      BY <1>2, <1>9, <2>1, <2>3, <3>1 DEF MovesOn
    <3> QED BY <1>5, <1>7, <2>1, <3>1, <3>2
  <2> QED BY <2>2, <2>3
<1>10. ASSUME Returned(t, "reply")' PROVE ~Refused(t, "reply")'
  <2>1. pc'[answer] = "done"
    BY <1>10 DEF Returned
  <2>2. CASE c # answer
    <3>1. Returned(t, "reply") /\ Refused(t, "reply")' = Refused(t, "reply")
      BY <1>0, <1>1, <2>1, <2>2 DEF Returned, Refused
    <3> QED BY <3>1 DEF Stored
  <2>3. ASSUME c = answer, reply'[answer].status = "refused" PROVE FALSE
    <3>1. pc[answer] = "held" /\ mem # NoRec /\ ~owns(rec[mem], job[answer].user)
      BY <1>2, <2>1, <2>3 DEF MovesOn
    <3>2. rec[mem].owner = asker[t] /\ job[answer].user = asker[t]
      BY <1>2, <1>3, <1>4, <2>1, <3>1
    <3>3. asker[t] \in Users
      <4>1. at[t] # "idle"
        BY <3>1 DEF Turning, Follows, Replies
      <4> QED BY <4>1 DEF ChatInv, Turnwise, TurnInv
    <3> QED BY <3>1, <3>2, <3>3, SentinelAssumption DEF owns
  <2> QED BY <2>2, <2>3 DEF Refused
<1> QED BY <1>8, <1>9, <1>10 DEF Stored

(* What the calls are asked for is what the turn's user asks. *)
LEMMA TasksCall ==
  ASSUME ChatInv, Turning, NEW c \in Calls, Ask(c) \/ Step(c), NEW t \in Turns, SameAsker(t),
         asker'[t] = asker[t] \/ pc[<<t, "get">>] = "idle",
         \A part \in Parts : c = <<t, part>> /\ Ask(c) =>
           job'[c].op = OpOf(part) /\ (part # "tag" => job'[c].user = asker'[t])
  PROVE  Tasks(t)'
<1>1. /\ \A d \in Calls \ {c} : pc'[d] = pc[d] /\ job'[d] = job[d]
      /\ Step(c) => pc[c] # "idle" /\ job' = job
  BY OthersRest DEF ChatInv
<1>2. SUFFICES ASSUME NEW part \in Parts, pc'[<<t, part>>] # "idle"
      PROVE  job'[<<t, part>>].op = OpOf(part) /\ (part # "tag" => job'[<<t, part>>].user = asker'[t])
  BY DEF Tasks, OpOf
<1>3. <<t, part>> \in Calls
  BY TurnCalls
<1>4. CASE c = <<t, part>> /\ Ask(c)
  BY <1>4
<1>5. CASE ~(c = <<t, part>> /\ Ask(c))
  <2>1. pc[<<t, part>>] # "idle" /\ job'[<<t, part>>] = job[<<t, part>>]
    BY <1>1, <1>2, <1>3, <1>5
  <2>2. job[<<t, part>>].op = OpOf(part) /\ (part # "tag" => job[<<t, part>>].user = asker[t])
    BY <2>1 DEF Turning, Tasks
  <2>3. part # "tag" => asker'[t] = asker[t]
    BY <1>2, <2>1 DEF SameAsker, Parts
  <2> QED BY <2>1, <2>2, <2>3
<1> QED BY <1>4, <1>5

(* While nobody asks to delete the session, a call is one of a turn's.     *)
LEMMA TurnMovesOn ==
  ASSUME ChatInv, DoneInv, Turning', NoVisit', NEW c \in Calls, Ask(c) \/ Step(c)
  PROVE  NoVisit /\ OneRecord /\ MovesOn(c)
<1>1. /\ \A d \in Calls \ {c} : pc'[d] = pc[d]
      /\ pc'[c] # "idle" /\ (Step(c) => job' = job)
  BY OthersRest DEF ChatInv
<1>2. NoVisit /\ c \notin Visits
  <2>1. c \notin Visits
    BY <1>1 DEF NoVisit
  <2> QED BY <1>1, <2>1 DEF NoVisit, Visits
<1>3. job'[c].op \in {"get", "append", "tag"}
  <2>1. PICK t \in Turns, part \in Parts : c = <<t, part>>
    BY <1>2 DEF Visits
  <2>2. job'[<<t, part>>].op = OpOf(part)
    BY <1>1, <2>1 DEF Turning, Tasks, OpOf
  <2> QED BY <2>1, <2>2 DEF OpOf
<1>4. OneRecord
  BY <1>2 DEF DoneInv
<1> QED BY <1>1, <1>2, <1>3, <1>4, AskMovesOn, StepMovesOn DEF ChatInv

(* A call keeps what is stored, as long as nobody asks to delete it. *)
LEMMA DoneCall ==
  ASSUME Orderly, ChatInv, IInv', DoneInv, Turning', NEW c \in Calls, Ask(c) \/ Step(c),
         \A t \in Turns : SameAsker(t)
  PROVE  DoneInv'
<1>1. InTurn' /\ InTurn /\ Turning
  BY InTurnCall DEF ChatInv, DoneInv, Turning
<1>2. ASSUME NoVisit' PROVE OneRecord' /\ \A t \in Turns : Stored(t)'
  <2>1. OneRecord /\ MovesOn(c) /\ \A s \in Turns : Stored(s)
    BY <1>2, TurnMovesOn DEF DoneInv
  <2> QED BY <1>1, <2>1, OneRecordCall, StoredCall DEF ChatInv
<1> QED BY <1>1, <1>2 DEF DoneInv, Turning

-----------------------------------------------------------------------------
(* The steps of the turns. *)

(* A step of the handler goes to the next stage when the calls before it   *)
(* are over.                                                               *)
LEMMA HandlerFollows ==
  ASSUME ChatInv, Turning, NEW t \in Turns, Handler(t)
  PROVE  /\ Follows(t)'
         /\ \/ UNCHANGED vars
            \/ Ask(<<t, "ask">>) /\ job' = [job EXCEPT ![<<t, "ask">>] =
                 [op |-> "append", user |-> asker[t], role |-> "user"]]
            \/ Ask(<<t, "reply">>) /\ job' = [job EXCEPT ![<<t, "reply">>] =
                 [op |-> "append", user |-> asker[t], role |-> "assistant"]]
            \/ Ask(<<t, "tag">>) /\ job' = [job EXCEPT ![<<t, "tag">>] =
                 [op |-> "tag", user |-> NoUser, role |-> "user"]]
<1> DEFINE ask == <<t, "ask">>
           answer == <<t, "reply">>
           tag == <<t, "tag">>
<1>0. /\ ask \in Calls /\ answer \in Calls /\ tag \in Calls /\ tag \in MsgIds
      /\ ask # answer /\ ask # tag /\ answer # tag
      /\ at \in [Turns -> Stages] /\ outcome \in [Turns -> {"none", "failed", "blank", "words"}]
      /\ Follows(t) /\ shortTerm \in BOOLEAN
  BY TurnCalls DEF Parts, ChatInv, TurnTypeOK, Turning
<1>1. at[t] # "idle" /\ asker[t] \in Users
  BY HandlerTurn DEF ChatInv, Turnwise, TurnInv
<1>2. ASSUME NEW c \in Calls, Ask(c)
      PROVE  pc'[c] # "idle" /\ \A d \in Calls \ {c} : pc'[d] = pc[d] /\ reply'[d] = reply[d]
  BY <1>2, OthersRest DEF ChatInv
<1>3. AppendQuestion(t) => Ask(ask) /\ at' = [at EXCEPT ![t] = "asking"]
        /\ job' = [job EXCEPT ![ask] = [op |-> "append", user |-> asker[t], role |-> "user"]]
  BY <1>1 DEF AppendQuestion, To, appendMessage, Accept, Ask, Roles
<1>4. AppendReply(t) => Ask(answer) /\ at' = [at EXCEPT ![t] = "replying"]
        /\ job' = [job EXCEPT ![answer] = [op |-> "append", user |-> asker[t], role |-> "assistant"]]
  BY <1>1 DEF AppendReply, To, appendMessage, Accept, Ask, Roles
<1>5. TagReply(t) => Ask(tag) /\ at' = [at EXCEPT ![t] = "tagging"]
        /\ job' = [job EXCEPT ![tag] = [op |-> "tag", user |-> NoUser, role |-> "user"]]
  BY <1>0 DEF TagReply, To, setLastTraceId, Accept, Ask
<1>6. CASE Looked(t)
  <2>0. at[t] = "looking" /\ outcome' = outcome /\ shortTerm' = shortTerm
        /\ \/ at' = [at EXCEPT ![t] = "refused"] /\ UNCHANGED vars
           \/ at' = [at EXCEPT ![t] = "recalling"] /\ UNCHANGED vars
           \/ AppendQuestion(t)
    BY <1>6 DEF Looked, To, memory
  <2>1. CASE UNCHANGED vars
    BY <1>0, <1>3, <2>0, <2>1 DEF Follows, Returned, Refused, vars, calls, Asks, Replies
  <2>2. CASE AppendQuestion(t)
    BY <1>0, <1>2, <1>3, <2>0, <2>2 DEF Follows, Returned, Refused, Asks, Replies
  <2> QED BY <2>0, <2>1, <2>2, <1>3
<1>7. CASE Recall(t)
  <2>0. at[t] = "recalling" /\ outcome' = outcome /\ shortTerm' = shortTerm /\ AppendQuestion(t)
    BY <1>7 DEF Recall, memory
  <2> QED BY <1>0, <1>2, <1>3, <2>0 DEF Follows, Returned, Refused, Asks, Replies
<1>8. CASE Asked(t) \/ Note(t) \/ Invoke(t) \/ Close(t)
  <2>0. outcome' = outcome /\ shortTerm' = shortTerm /\ UNCHANGED vars
        /\ \/ /\ at[t] = "asking" /\ Returned(t, "ask")
              /\ \/ Refused(t, "ask") /\ at'[t] = "refused"
                 \/ ~Refused(t, "ask") /\ at'[t] \in {"noting", "invoking"}
           \/ at[t] = "noting" /\ at'[t] = "invoking"
           \/ at[t] = "invoking" /\ at'[t] = "answering"
           \/ at[t] = "tagging" /\ at'[t] = "done"
    BY <1>0, <1>8 DEF Asked, Note, Invoke, Close, To, memory
  <2> QED BY <1>0, <2>0 DEF Follows, Returned, Refused, vars, calls, Asks, Replies
<1>9. CASE Fail(t)
  <2>0. at[t] = "answering" /\ outcome'[t] = "failed" /\ shortTerm' = shortTerm /\ TagReply(t)
    BY <1>0, <1>9 DEF Fail, memory
  <2> QED BY <1>0, <1>2, <1>5, <2>0 DEF Follows, Returned, Refused, Asks, Replies
<1>10. CASE Answer(t, "words") \/ Answer(t, "blank")
  <2>0. at[t] = "answering" /\ outcome'[t] \in {"words", "blank"} /\ shortTerm' = shortTerm /\ AppendReply(t)
    BY <1>0, <1>10 DEF Answer, memory
  <2> QED BY <1>0, <1>2, <1>4, <2>0 DEF Follows, Returned, Refused, Asks, Replies
<1>11. CASE Replied(t)
  <2>0. at[t] = "replying" /\ Returned(t, "reply") /\ outcome' = outcome /\ shortTerm' = shortTerm
        /\ \/ shortTerm /\ at' = [at EXCEPT ![t] = "recording"] /\ UNCHANGED vars
           \/ TagReply(t)
    BY <1>11 DEF Replied, To, memory
  <2>1. CASE UNCHANGED vars /\ shortTerm /\ at' = [at EXCEPT ![t] = "recording"]
    BY <1>0, <2>0, <2>1 DEF Follows, Returned, Refused, vars, calls, Asks, Replies
  <2>2. CASE TagReply(t)
    BY <1>0, <1>2, <1>5, <2>0, <2>2 DEF Follows, Returned, Refused, Asks, Replies
  <2> QED BY <2>0, <2>1, <2>2, <1>5
<1>12. CASE Keep(t)
  <2>0. at[t] = "recording" /\ outcome' = outcome /\ shortTerm' = shortTerm /\ TagReply(t)
    BY <1>12 DEF Keep
  <2> QED BY <1>0, <1>2, <1>5, <2>0 DEF Follows, Returned, Refused, Asks, Replies
<1> QED BY <1>6, <1>7, <1>8, <1>9, <1>10, <1>11, <1>12 DEF Handler

(* A turn that does not move follows its calls still. *)
LEMMA FollowsCall ==
  ASSUME ChatInv, Turning, NEW c \in Calls, Ask(c) \/ Step(c), NEW t \in Turns,
         at'[t] = at[t], outcome'[t] = outcome[t], shortTerm' = shortTerm,
         Ask(c) => c # <<t, "ask">> /\ c # <<t, "reply">>
  PROVE  Follows(t)'
<1>1. <<t, "ask">> \in Calls /\ <<t, "reply">> \in Calls /\ <<t, "ask">> # <<t, "reply">>
  BY TurnCalls DEF Parts
<1>2. /\ \A d \in Calls \ {c} : pc'[d] = pc[d] /\ reply'[d] = reply[d]
      /\ Step(c) => pc[c] \notin {"idle", "done"}
      /\ pc'[c] # "idle"
  BY OthersRest DEF ChatInv
<1>3. Follows(t) /\ at[t] \in Stages
  BY DEF Turning, ChatInv, TurnTypeOK
<1>4. CASE c # <<t, "ask">> /\ c # <<t, "reply">>
  BY <1>1, <1>2, <1>3, <1>4 DEF Follows, Returned, Refused
<1>5. CASE c = <<t, "ask">> /\ pc[c] \notin {"idle", "done"}
  BY <1>1, <1>2, <1>3, <1>5 DEF Follows, Returned, Refused, Asks, Replies, Stages
<1>6. CASE c = <<t, "reply">> /\ pc[c] \notin {"idle", "done"}
  BY <1>1, <1>2, <1>3, <1>6 DEF Follows, Returned, Refused, Asks, Replies, Stages
<1> QED BY <1>2, <1>4, <1>5, <1>6

LEMMA SameDone ==
  ASSUME DoneInv, UNCHANGED <<vars, asker>>, Turning'
  PROVE  DoneInv'
<1>1. UNCHANGED <<mem, rec, pc, job, held, reply, asker>>
  BY DEF vars, calls
<1>2. InTurn' /\ (NoVisit' => NoVisit) /\ (OneRecord => OneRecord')
  BY <1>1 DEF DoneInv, InTurn, NoVisit, OneRecord, Alone, Active
<1>3. ASSUME NEW t \in Turns, Stored(t) PROVE Stored(t)'
  BY <1>1, <1>3 DEF Stored, Appended, Returned, Refused
<1> QED BY <1>2, <1>3 DEF DoneInv, Turning

LEMMA HandlerDone ==
  ASSUME Orderly, ChatInv, ChatInv', DoneInv, NEW t \in Turns, Handler(t)
  PROVE  DoneInv'
<1>1. /\ UNCHANGED <<shortTerm, asker>>
      /\ \A s \in Turns \ {t} : at'[s] = at[s] /\ outcome'[s] = outcome[s]
  <2>1. /\ UNCHANGED <<shortTerm, asker>> /\ \E stage \in Stages : at' = [at EXCEPT ![t] = stage]
        /\ outcome' = outcome \/ \E how \in {"failed", "words", "blank"} : outcome' = [outcome EXCEPT ![t] = how]
    BY HandlerTurn
  <2>2. at \in [Turns -> Stages] /\ outcome \in [Turns -> {"none", "failed", "blank", "words"}]
    BY DEF ChatInv, TurnTypeOK
  <2> QED BY <2>1, <2>2
<1>2. Turning /\ Follows(t)'
  BY HandlerFollows DEF DoneInv, Turning
<1>3. CASE UNCHANGED vars
  <2>1. ASSUME NEW s \in Turns PROVE Tasks(s)'
    <3>1. UNCHANGED <<pc, job, asker>>
      BY <1>1, <1>3 DEF vars, calls
    <3> QED BY <1>2, <3>1 DEF Turning, Tasks, OpOf
  <2>2. ASSUME NEW s \in Turns \ {t} PROVE Follows(s)'
    <3>1. UNCHANGED <<pc, reply>>
      BY <1>3 DEF vars, calls
    <3> QED BY <1>1, <1>2, <3>1 DEF Turning, Follows, Returned, Refused
  <2>3. Turning'
    BY <1>2, <2>1, <2>2 DEF Turning
  <2> QED BY <1>1, <1>3, <2>3, SameDone
<1>4. ASSUME NEW part \in {"ask", "reply", "tag"}, NEW j, Ask(<<t, part>>),
             job' = [job EXCEPT ![<<t, part>>] = j],
             j.op = OpOf(part), part # "tag" => j.user = asker[t]
      PROVE  DoneInv'
  <2> DEFINE c == <<t, part>>
  <2>1. c \in Calls /\ part \in Parts
    BY TurnCalls DEF Parts
  <2>2. job'[c] = j
    BY <1>4, <2>1 DEF ChatInv, IInv, TypeOK
  <2> HIDE DEF c
  <2>3. Ask(c) /\ \A s \in Turns : \A p \in Parts : c = <<s, p>> => s = t /\ p = part
    BY <1>4 DEF c
  <2>4. ASSUME NEW s \in Turns PROVE Tasks(s)' /\ SameAsker(s)
    <3>1. SameAsker(s) /\ asker'[s] = asker[s]
      BY <1>1 DEF SameAsker
    <3> QED BY <1>1, <1>2, <1>4, <2>1, <2>2, <2>3, <3>1, TasksCall
  <2>5. ASSUME NEW s \in Turns \ {t} PROVE Follows(s)'
    <3>1. c # <<s, "ask">> /\ c # <<s, "reply">>
      BY <2>3 DEF Parts
    <3> QED BY <1>1, <1>2, <2>1, <2>3, <3>1, FollowsCall
  <2>6. Turning' /\ \A s \in Turns : SameAsker(s)
    BY <1>2, <2>4, <2>5 DEF Turning
  <2> QED BY <2>1, <2>3, <2>6, DoneCall DEF ChatInv
<1>5. Ask(<<t, "ask">>) /\ job' = [job EXCEPT ![<<t, "ask">>] =
        [op |-> "append", user |-> asker[t], role |-> "user"]] => DoneInv'
  BY <1>4 DEF OpOf
<1>6. Ask(<<t, "reply">>) /\ job' = [job EXCEPT ![<<t, "reply">>] =
        [op |-> "append", user |-> asker[t], role |-> "assistant"]] => DoneInv'
  BY <1>4 DEF OpOf
<1>7. Ask(<<t, "tag">>) /\ job' = [job EXCEPT ![<<t, "tag">>] =
        [op |-> "tag", user |-> NoUser, role |-> "user"]] => DoneInv'
  BY <1>4 DEF OpOf
<1> QED BY <1>2, <1>3, <1>5, <1>6, <1>7, HandlerFollows

LEMMA BeginDone ==
  ASSUME Orderly, ChatInv, ChatInv', DoneInv, NEW t \in Turns, NEW u \in Users, Begin(t, u)
  PROVE  DoneInv'
<1> DEFINE c == <<t, "get">>
<1>1. /\ c \in Calls /\ Ask(c) /\ at[t] = "idle" /\ pc[c] = "idle"
      /\ \A s \in Turns : \A p \in Parts : c = <<s, p>> => s = t /\ p = "get"
  BY TurnCalls DEF Begin, Ask, getSession, Accept, Parts
<1>2. /\ at' = [at EXCEPT ![t] = "looking"] /\ asker' = [asker EXCEPT ![t] = u]
      /\ UNCHANGED <<outcome, shortTerm>>
      /\ job' = [job EXCEPT ![c] = [op |-> "get", user |-> u, role |-> "user"]]
  BY DEF Begin, To, memory, getSession, Accept
<1> HIDE DEF c
<1>3. job'[c].op = "get" /\ job'[c].user = u /\ asker'[t] = u /\ at'[t] = "looking"
      /\ \A s \in Turns \ {t} : at'[s] = at[s] /\ asker'[s] = asker[s]
  BY <1>1, <1>2 DEF ChatInv, IInv, TypeOK, TurnTypeOK
<1>4. Turning
  BY DEF DoneInv, Turning
<1>5. /\ pc[<<t, "ask">>] = "idle" /\ pc[<<t, "reply">>] = "idle"
      /\ pc'[<<t, "ask">>] = "idle" /\ pc'[<<t, "reply">>] = "idle" /\ outcome[t] = "none"
  <2>1. /\ pc[<<t, "ask">>] = "idle" /\ pc[<<t, "reply">>] = "idle" /\ outcome[t] = "none"
    BY <1>1, <1>4 DEF Turning, Follows, Replies
  <2>2. <<t, "ask">> \in Calls \ {c} /\ <<t, "reply">> \in Calls \ {c}
    BY <1>1, TurnCalls DEF Parts
  <2> QED BY <1>1, <2>1, <2>2, OthersRest DEF ChatInv
<1>6. \A s \in Turns : SameAsker(s)
  BY <1>3, <1>5 DEF SameAsker
<1>7. ASSUME NEW s \in Turns PROVE Tasks(s)'
  <2>1. asker'[s] = asker[s] \/ pc[<<s, "get">>] = "idle"
    BY <1>1, <1>3 DEF c
  <2>2. \A part \in Parts : c = <<s, part>> /\ Ask(c) =>
          job'[c].op = OpOf(part) /\ (part # "tag" => job'[c].user = asker'[s])
    BY <1>1, <1>3 DEF OpOf
  <2> QED BY <1>1, <1>4, <1>6, <2>1, <2>2, TasksCall
<1>8. ASSUME NEW s \in Turns PROVE Follows(s)'
  <2>1. CASE s = t
    BY <1>2, <1>3, <1>5, <2>1 DEF Follows, Asks, Replies
  <2>2. CASE s # t
    <3>1. c # <<s, "ask">> /\ c # <<s, "reply">>
      BY <1>1 DEF Parts
    <3> QED BY <1>1, <1>2, <1>3, <1>4, <2>2, <3>1, FollowsCall
  <2> QED BY <2>1, <2>2
<1>9. Turning'
  BY <1>7, <1>8 DEF Turning
<1> QED BY <1>1, <1>6, <1>9, DoneCall DEF ChatInv

LEMMA StoreStepDone ==
  ASSUME Orderly, ChatInv, ChatInv', DoneInv, NEW c \in Calls, StoreStep(c)
  PROVE  DoneInv'
<1>1. Step(c) /\ UNCHANGED <<at, asker, outcome, shortTerm>> /\ Turning
  BY DEF StoreStep, memory, DoneInv, Turning
<1>2. ~Ask(c)
  BY <1>1, OthersRest DEF ChatInv
<1>3. \A t \in Turns : SameAsker(t) /\ Tasks(t)' /\ Follows(t)'
  <2>1. \A t \in Turns : SameAsker(t)
    BY <1>1 DEF SameAsker
  <2> QED BY <1>1, <1>2, <2>1, TasksCall, FollowsCall
<1>4. Turning'
  BY <1>3 DEF Turning
<1> QED BY <1>1, <1>3, <1>4, DoneCall DEF ChatInv

LEMMA VisitDone ==
  ASSUME Orderly, ChatInv, ChatInv', DoneInv, NEW c \in Visits, NEW u \in Users, Visit(c, u)
  PROVE  DoneInv'
<1>1. /\ c \in Calls /\ Ask(c) /\ UNCHANGED <<at, asker, outcome, shortTerm>> /\ Turning
      /\ \A t \in Turns : \A part \in Parts : c # <<t, part>>
  BY DEF Visits, Visit, Ask, turns, memory, DoneInv, Turning
<1>2. \A t \in Turns : SameAsker(t) /\ Tasks(t)' /\ Follows(t)'
  <2>1. \A t \in Turns : SameAsker(t) /\ c # <<t, "ask">> /\ c # <<t, "reply">>
    BY <1>1 DEF SameAsker, Parts
  <2> QED BY <1>1, <2>1, TasksCall, FollowsCall
<1>3. Turning'
  BY <1>2 DEF Turning
<1> QED BY <1>1, <1>2, <1>3, DoneCall DEF ChatInv

LEMMA InitDone == ChatInit => DoneInv
<1> SUFFICES ASSUME ChatInit PROVE DoneInv
  OBVIOUS
<1>1. /\ \A c \in Calls : pc[c] = "idle"
      /\ \A t \in Turns : at[t] = "idle" /\ outcome[t] = "none"
  BY DEF ChatInit, Init
<1>2. InTurn /\ OneRecord
  BY <1>1 DEF InTurn, OneRecord, Alone, Active, Waits, GoesOn, Elsewhere
<1>3. ASSUME NEW t \in Turns PROVE Tasks(t) /\ Follows(t) /\ Stored(t)
  <2>1. \A part \in Parts : pc[<<t, part>>] = "idle"
    BY <1>1, TurnCalls
  <2> QED BY <1>1, <2>1 DEF Parts, Tasks, Follows, Stored, Appended, Returned, Asks, Replies
<1> QED BY <1>2, <1>3 DEF DoneInv

LEMMA NextDone ==
  ASSUME Orderly
  PROVE  ChatInv /\ ChatInv' /\ DoneInv /\ [ChatNext]_chatVars => DoneInv'
<1> SUFFICES ASSUME ChatInv, ChatInv', DoneInv, [ChatNext]_chatVars PROVE DoneInv'
  OBVIOUS
<1>1. CASE UNCHANGED chatVars
  <2>1. UNCHANGED <<vars, asker, at, outcome, shortTerm>>
    BY <1>1 DEF chatVars, turns, memory
  <2>2. UNCHANGED <<pc, job, reply>>
    BY <2>1 DEF vars, calls
  <2>3. ASSUME NEW t \in Turns PROVE Tasks(t)'
    BY <2>1, <2>2 DEF DoneInv, Tasks, OpOf
  <2>4. ASSUME NEW t \in Turns PROVE Follows(t)'
    BY <2>1, <2>2 DEF DoneInv, Follows, Returned, Refused
  <2>5. Turning'
    BY <2>3, <2>4 DEF Turning
  <2> QED BY <2>1, <2>5, SameDone
<1> QED BY <1>1, HandlerDone, BeginDone, StoreStepDone, VisitDone DEF ChatNext

LEMMA DoneNow == DoneInv => DoneIsStored
<1> SUFFICES ASSUME DoneInv, NEW t \in Turns, at[t] = "done", outcome[t] # "failed", NoVisit
             PROVE  mem # NoRec /\ Dialogue(rec[mem].msgs, t)
  BY DEF DoneIsStored, NoVisit
<1>1. Returned(t, "ask") /\ ~Refused(t, "ask") /\ Returned(t, "reply") /\ Stored(t)
  BY DEF DoneInv, Follows, Asks
<1> QED BY <1>1 DEF Stored, Appended, Returned, Refused

(* When a turn that did not fail is done, its question and its reply are   *)
(* in the session: of a process without a database however its turns       *)
(* interleave, and with a database, whether it answers or not, as long as  *)
(* one call is under way at a time.  (Two calls that load the session at   *)
(* once make two records, of which one is lost.)                           *)
THEOREM DoneStored ==
  ASSUME Orderly
  PROVE  ChatSpec => []DoneIsStored
<1>1. ChatSpec => []DoneInv
  BY InitDone, NextDone, ChatInductive, PTL DEF ChatSpec
<1>2. DoneInv => DoneIsStored
  BY DoneNow
<1> QED BY <1>1, <1>2, PTL

-----------------------------------------------------------------------------
(* What is remembered of a turn. *)

(* What the memory store holds of it. *)
Noted(t) ==
  shortTerm /\ ~lossy =>
    /\ at[t] \in Asks \ {"noting"} => Holds(events[asker[t]], t, "ask")
    /\ at[t] \in {"tagging", "done"} /\ outcome[t] = "words" => Dialogue(events[asker[t]], t)

(* A turn that was over before t began, and was not forgotten since, is in *)
(* the record that t's lookup holds, and in what t recalled and its prompt *)
(* unless newer messages displaced it.                                     *)
Among(msgs, t, s) == Dialogue(msgs, s) \/ Displaced(msgs, events[asker[t]], s)
Undisturbed(s) == outcome[s] = "words" /\ ~lossy /\ NoVisit
Given(t, s) ==
  /\ at[t] = "looking" => \/ pc[<<t, "get">>] = "held"
                          \/ Returned(t, "get") /\ (Refused(t, "get") \/ found[t] = mem)
  /\ at[t] \notin {"looking", "refused"} => found[t] = mem
  /\ recalled[t] # <<>> => Among(recalled[t], t, s)
  /\ at[t] \in Asks \ {"noting", "invoking"} => Among(prompt[t], t, s)

Recalls(t) ==
  /\ at[t] = "recalling" => shortTerm
  /\ at[t] \in {"idle", "looking", "recalling"} \/ ~shortTerm => recalled[t] = <<>>
  /\ at[t] = "idle" => before[t] = {}
  /\ \A s \in before[t] : at[s] = "done" /\ asker[s] = asker[t] /\ (Undisturbed(s) => Given(t, s))

RecallInv == \A t \in Turns : Noted(t) /\ Recalls(t)

(* A turn that is over stays as it was, and the record it is stored in     *)
(* stays the cache entry.                                                  *)
LEMMA PastKept ==
  ASSUME ChatInv, DoneInv, DoneInv', ChatNext, NEW s \in Turns, at[s] = "done"
  PROVE  /\ at'[s] = "done" /\ asker'[s] = asker[s] /\ outcome'[s] = outcome[s]
         /\ Undisturbed(s)' => /\ Undisturbed(s)
                               /\ mem # NoRec /\ mem' = mem /\ Dialogue(rec[mem].msgs, s)
<1>0. at \in [Turns -> Stages] /\ outcome \in [Turns -> {"none", "failed", "blank", "words"}]
      /\ asker \in [Turns -> Owners] /\ lossy \in BOOLEAN
  BY DEF ChatInv, TurnTypeOK
<1> DEFINE Past == /\ at'[s] = "done" /\ asker'[s] = asker[s] /\ outcome'[s] = outcome[s]
                   /\ lossy' = lossy \/ lossy' = TRUE
                   /\ UNCHANGED vars \/ \E c \in Calls : Ask(c) \/ Step(c)
<1>1. Past
  <2>1. ASSUME NEW t \in Turns, Handler(t) PROVE Past
    <3>1. s # t
      BY <2>1 DEF Handler, Looked, Recall, Asked, Note, Invoke, Fail, Answer, Replied, Keep, Close
    <3>2. /\ UNCHANGED asker /\ (\E stage \in Stages : at' = [at EXCEPT ![t] = stage])
          /\ outcome' = outcome \/ \E how \in {"failed", "words", "blank"} : outcome' = [outcome EXCEPT ![t] = how]
          /\ lossy' \in {lossy, TRUE}
      BY <2>1, HandlerTurn
    <3>3. UNCHANGED vars \/ \E part \in {"ask", "reply", "tag"} : Ask(<<t, part>>)
      BY <2>1, HandlerCall DEF ChatInv, Turnwise, TurnInv
    <3>4. UNCHANGED vars \/ \E c \in Calls : Ask(c)
      BY <3>3, TurnCalls DEF Parts
    <3> QED BY <1>0, <3>1, <3>2, <3>4
  <2>2. ASSUME NEW t \in Turns, NEW u \in Users, Begin(t, u) PROVE Past
    <3>1. s # t /\ Ask(<<t, "get">>) /\ <<t, "get">> \in Calls
      BY <2>2, TurnCalls DEF Begin, Ask, Parts
    <3> QED BY <1>0, <2>2, <3>1 DEF Begin, To, memory
  <2>3. ASSUME NEW c \in Calls, StoreStep(c) PROVE Past
    BY <2>3 DEF StoreStep, memory
  <2>4. ASSUME NEW c \in Visits, NEW u \in Users, Visit(c, u) PROVE Past
    BY <2>4 DEF Visit, Visits, turns, memory, Ask
  <2> QED BY <2>1, <2>2, <2>3, <2>4 DEF ChatNext
<1>2. ASSUME Undisturbed(s)'
      PROVE  Undisturbed(s) /\ mem # NoRec /\ mem' = mem /\ Dialogue(rec[mem].msgs, s)
  <2>1. NoVisit /\ (UNCHANGED vars \/ \E c \in Calls : MovesOn(c))
    <3>1. CASE UNCHANGED vars
      BY <1>2, <3>1 DEF Undisturbed, NoVisit, vars, calls
    <3>2. CASE \E c \in Calls : Ask(c) \/ Step(c)
      <4>1. Turning'
        BY DEF DoneInv, Turning
      <4> QED BY <1>2, <3>2, <4>1, TurnMovesOn DEF Undisturbed
    <3> QED BY <1>1, <3>1, <3>2
  <2>2. outcome[s] = "words" /\ ~lossy
    BY <1>1, <1>2 DEF Undisturbed
  <2>3. mem # NoRec /\ Dialogue(rec[mem].msgs, s)
    BY <2>1, <2>2, DoneNow DEF DoneIsStored, NoVisit
  <2>4. mem' = mem
    BY <2>1, <2>3 DEF MovesOn, vars
  <2> QED BY <2>1, <2>2, <2>3, <2>4 DEF Undisturbed
<1> QED BY <1>1, <1>2

(* The memory store only grows. *)
LEMMA EventsGrow ==
  ASSUME ChatInv, NEW t \in Turns, Handler(t), NEW u \in Users, NEW s
  PROVE  /\ \A part \in Parts : Holds(events[u], s, part) => Holds(events'[u], s, part)
         /\ Dialogue(events[u], s) => Dialogue(events'[u], s)
<1>1. events \in [Users -> Seq(Message)] /\ asker[t] \in Users
  BY HandlerTurn DEF ChatInv, TurnTypeOK, Turnwise, TurnInv
<1> DEFINE Grown == /\ DOMAIN events[u] \subseteq DOMAIN events'[u]
                    /\ \A i \in DOMAIN events[u] : events'[u][i] = events[u][i]
<1>2. Grown
  <2>1. ASSUME NEW m, events' = [events EXCEPT ![asker[t]] = Append(@, m)] PROVE Grown
    <3>1. events'[u] = IF u = asker[t] THEN Append(events[u], m) ELSE events[u]
      BY <1>1, <2>1
    <3>2. events[u] \in Seq(Message)
      BY <1>1
    <3> QED BY <3>1, <3>2
  <2>2. CASE UNCHANGED events
    BY <2>2
  <2> QED BY <2>1, <2>2, HandlerTurn
<1> QED BY <1>2 DEF Holds, Dialogue

(* Whatever happens, a user's log is at most extended. *)
LEMMA LogExtends ==
  ASSUME ChatInv, ChatNext, NEW u \in Users
  PROVE  /\ cast' = cast /\ events[u] \in Seq(Message) /\ events'[u] \in Seq(Message)
         /\ Len(events[u]) <= Len(events'[u])
         /\ \A i \in 1..Len(events[u]) : events'[u][i] = events[u][i]
<1> DEFINE Extended == /\ cast' = cast /\ events[u] \in Seq(Message) /\ events'[u] \in Seq(Message)
                       /\ Len(events[u]) <= Len(events'[u])
                       /\ \A i \in 1..Len(events[u]) : events'[u][i] = events[u][i]
<1>1. events \in [Users -> Seq(Message)]
  BY DEF ChatInv, TurnTypeOK
<1>2. ASSUME NEW t \in Turns, Handler(t) PROVE Extended
  <2>1. asker[t] \in Users /\ cast' = cast
    BY <1>2, HandlerTurn DEF ChatInv, Turnwise, TurnInv
  <2>2. events' \in [Users -> Seq(Message)]
    BY <1>2, HandlerStep DEF ChatInv, TurnTypeOK
  <2>3. ASSUME NEW m, events' = [events EXCEPT ![asker[t]] = Append(@, m)] PROVE Extended
    <3>1. events'[u] = IF u = asker[t] THEN Append(events[u], m) ELSE events[u]
      BY <1>1, <2>1, <2>3
    <3>2. events[u] \in Seq(Message) /\ events'[u] \in Seq(Message)
      BY <1>1, <2>2
    <3> QED BY <2>1, <3>1, <3>2
  <2>4. CASE UNCHANGED events
    BY <1>1, <2>1, <2>4
  <2> QED BY <1>2, <2>3, <2>4, HandlerTurn
<1>3. CASE UNCHANGED <<cast, events>>
  BY <1>1, <1>3
<1> QED BY <1>2, <1>3 DEF ChatNext, Begin, StoreStep, Visit, memory

(* A place behind the first ones of a log is a place of its end. *)
LEMMA PlaceFromEnd ==
  ASSUME NEW n \in Nat, NEW m \in Nat, NEW first \in Nat, first + n = m,
         NEW i \in 1..m, i > first
  PROVE  i - first \in 1..n /\ i - first + first = i
OBVIOUS

(* Of the newest messages of a log that holds a turn, the turn is one, or  *)
(* they displaced it.                                                      *)
LEMMA NewestAmong ==
  ASSUME TurnTypeOK, NEW log \in Seq(Message), NEW s, Dialogue(log, s)
  PROVE  Dialogue(Newest(log), s) \/ Displaced(Newest(log), log, s)
<1>1. cast.limit \in Nat \ {0} /\ Len(log) \in Nat
  BY TurnAssumption DEF TurnTypeOK, Cast
<1>2. CASE Len(log) <= cast.limit
  BY <1>2 DEF Newest
<1>3. CASE Len(log) > cast.limit
  <2> DEFINE first == Len(log) - cast.limit
             new == SubSeq(log, first + 1, Len(log))
  <2>1. first \in Nat /\ first + cast.limit = Len(log)
    BY <1>1, <1>3
  <2>2. Newest(log) = new
    <3>1. ~(Len(log) <= cast.limit)
      BY <1>1, <1>3
    <3> QED BY <3>1 DEF Newest
  <2>3. PICK i, j \in 1..Len(log) : i < j /\ log[i].id = <<s, "ask">> /\ log[j].id = <<s, "reply">>
    BY DEF Dialogue
  <2>4. CASE i <= first
    <3>1. i \in 1..(Len(log) - cast.limit) /\ Len(log) \in cast.limit..Len(log)
      BY <1>1, <1>3, <2>4
    <3> QED BY <2>2, <2>3, <3>1 DEF Displaced
  <2>5. CASE i > first
    <3> HIDE DEF first
    <3>1. DOMAIN new = 1..cast.limit /\ \A k \in 1..cast.limit : new[k] = log[k + first]
      BY <1>1, <2>1, EndOfLog, SMTT(20)
    <3> HIDE DEF new
    <3>2. i \in Int /\ j \in Int /\ first \in Nat /\ cast.limit \in Nat /\ i < j /\ j > first
      BY <1>1, <2>1, <2>3, <2>5
    <3>3. i - first \in 1..cast.limit /\ i - first + first = i
      BY <1>1, <2>1, <2>5, <3>2, PlaceFromEnd
    <3>4. j - first \in 1..cast.limit /\ j - first + first = j
      BY <1>1, <2>1, <3>2, PlaceFromEnd
    <3>5. i - first < j - first
      <4>1. \A a, b, d \in Int : a < b => a - d < b - d
        OBVIOUS
      <4> QED BY <3>2, <4>1
    <3> QED BY <2>2, <2>3, <3>1, <3>3, <3>4, <3>5 DEF Dialogue
  <2> QED BY <2>1, <2>4, <2>5
<1> QED BY <1>1, <1>2, <1>3

(* What displaced a turn goes on doing so. *)
LEMMA StaysAmong ==
  ASSUME ChatInv, ChatNext, NEW t \in Turns, at[t] # "idle", asker'[t] = asker[t], NEW s
  PROVE  /\ recalled'[t] = recalled[t] /\ Among(recalled[t], t, s) => Among(recalled[t], t, s)'
         /\ prompt'[t] = prompt[t] /\ Among(prompt[t], t, s) => Among(prompt[t], t, s)'
<1> DEFINE log == events[asker[t]]
           next == events'[asker[t]]
<1>1. asker[t] \in Users /\ cast.limit \in Nat \ {0}
  <2>1. cast.limit \in Nat \ {0}
    BY TurnAssumption DEF ChatInv, TurnTypeOK, Cast
  <2> QED BY <2>1 DEF ChatInv, Turnwise, TurnInv
<1>2. /\ cast' = cast /\ log \in Seq(Message) /\ next \in Seq(Message)
      /\ Len(log) <= Len(next)
      /\ \A i \in 1..Len(log) : next[i] = log[i]
  BY <1>1, LogExtends
<1> HIDE DEF log, next
<1>3. ASSUME NEW n \in cast.limit..Len(log)
      PROVE  /\ n \in cast.limit..Len(next)
             /\ \A q \in 1..(n - cast.limit) : next[q] = log[q]
             /\ SubSeq(next, n - cast.limit + 1, n) = SubSeq(log, n - cast.limit + 1, n)
  <2>1. n \in cast.limit..Len(next) /\ \A q \in 1..n : next[q] = log[q]
    BY <1>1, <1>2
  <2> DEFINE first == n - cast.limit + 1
  <2>2. first \in 1..n
    BY <1>1
  <2> HIDE DEF first
  <2>3. SubSeq(next, first, n) = SubSeq(log, first, n)
    BY <1>1, <1>2, <2>1, <2>2
  <2>4. \A q \in 1..(n - cast.limit) : q \in 1..n
    BY <1>1
  <2> QED BY <2>1, <2>3, <2>4 DEF first
<1>4. \A msgs : Displaced(msgs, log, s) => Displaced(msgs, next, s)
  BY <1>3 DEF Displaced
<1>5. \A msgs : Displaced(msgs, log, s) =>
        \E n \in cast'.limit..Len(next) :
          /\ msgs = SubSeq(next, n - cast'.limit + 1, n)
          /\ \E q \in 1..(n - cast'.limit) : next[q].id = <<s, "ask">>
  BY <1>2, <1>4 DEF Displaced
<1>6. ASSUME recalled'[t] = recalled[t], Among(recalled[t], t, s) PROVE Among(recalled[t], t, s)'
  <2>1. CASE Dialogue(recalled[t], s)
    BY <1>6, <2>1 DEF Among, Dialogue
  <2>2. CASE Displaced(recalled[t], log, s)
    <3>1. \E n \in cast'.limit..Len(next) :
            /\ recalled'[t] = SubSeq(next, n - cast'.limit + 1, n)
            /\ \E q \in 1..(n - cast'.limit) : next[q].id = <<s, "ask">>
      BY <1>5, <1>6, <2>2
    <3> QED BY <3>1 DEF Among, Displaced, next
  <2> QED BY <1>6, <2>1, <2>2 DEF Among, log
<1>7. ASSUME prompt'[t] = prompt[t], Among(prompt[t], t, s) PROVE Among(prompt[t], t, s)'
  <2>1. CASE Dialogue(prompt[t], s)
    BY <1>7, <2>1 DEF Among, Dialogue
  <2>2. CASE Displaced(prompt[t], log, s)
    <3>1. \E n \in cast'.limit..Len(next) :
            /\ prompt'[t] = SubSeq(next, n - cast'.limit + 1, n)
            /\ \E q \in 1..(n - cast'.limit) : next[q].id = <<s, "ask">>
      BY <1>5, <1>7, <2>2
    <3> QED BY <3>1 DEF Among, Displaced, next
  <2> QED BY <1>7, <2>1, <2>2 DEF Among, log
<1> QED BY <1>6, <1>7

(* Appending a message of a turn to the events. *)
LEMMA EventJoins ==
  ASSUME ChatInv, NEW t \in Turns, asker[t] \in Users, NEW part \in Parts, NEW role,
         Remember(t, part, role), ~lossy'
  PROVE  /\ Holds(events'[asker[t]], t, part)
         /\ part = "reply" /\ Holds(events[asker[t]], t, "ask") => Dialogue(events'[asker[t]], t)
<1> DEFINE m == [id |-> <<t, part>>, role |-> role, from |-> asker[t], trace |-> NoTrace]
           old == events[asker[t]]
           n == Len(old) + 1
<1>1. old \in Seq(Message) /\ events' = [events EXCEPT ![asker[t]] = Append(old, m)]
  BY DEF ChatInv, TurnTypeOK, Remember
<1>2. events'[asker[t]] = Append(old, m) /\ m.id = <<t, part>>
  BY <1>1 DEF ChatInv, TurnTypeOK
<1> HIDE DEF m, old
<1>3. n \in DOMAIN events'[asker[t]] /\ events'[asker[t]][n].id = <<t, part>>
      /\ \A i \in DOMAIN old : i \in DOMAIN events'[asker[t]] /\ i < n /\ events'[asker[t]][i] = old[i]
  BY <1>1, <1>2
<1> HIDE DEF n
<1>4. Holds(events'[asker[t]], t, part)
  BY <1>3 DEF Holds
<1>5. part = "reply" /\ Holds(old, t, "ask") => Dialogue(events'[asker[t]], t)
  BY <1>3 DEF Holds, Dialogue
<1> QED BY <1>4, <1>5 DEF old

(* The handler writes both messages of a turn to the memory store, or      *)
(* knows that it did not.                                                  *)
LEMMA HandlerNoted ==
  ASSUME ChatInv, NEW t \in Turns, Handler(t), NEW s \in Turns, Noted(s), asker[s] \in Users \/ at[s] = "idle"
  PROVE  Noted(s)'
<1>0. /\ at \in [Turns -> Stages] /\ outcome \in [Turns -> {"none", "failed", "blank", "words"}]
      /\ lossy \in BOOLEAN /\ shortTerm \in BOOLEAN
      /\ UNCHANGED <<shortTerm, asker>> /\ lossy' \in {lossy, TRUE}
      /\ at[t] # "idle" /\ asker[t] \in Users
  BY HandlerTurn DEF ChatInv, TurnTypeOK, Turnwise, TurnInv
<1>1. SUFFICES ASSUME shortTerm, ~lossy'
               PROVE  /\ at'[s] \in Asks \ {"noting"} => Holds(events'[asker[s]], s, "ask")
                      /\ at'[s] \in {"tagging", "done"} /\ outcome'[s] = "words" => Dialogue(events'[asker[s]], s)
  BY <1>0 DEF Noted, Asks
<1>2. /\ at[s] \in Asks \ {"noting"} => Holds(events[asker[s]], s, "ask")
      /\ at[s] \in {"tagging", "done"} /\ outcome[s] = "words" => Dialogue(events[asker[s]], s)
  BY <1>0, <1>1 DEF Noted
<1>3. asker[s] \in Users =>
        /\ Holds(events[asker[s]], s, "ask") => Holds(events'[asker[s]], s, "ask")
        /\ Dialogue(events[asker[s]], s) => Dialogue(events'[asker[s]], s)
  BY EventsGrow DEF Parts
<1>4. CASE s # t
  <2>1. at'[s] = at[s] /\ outcome'[s] = outcome[s]
    <3>1. /\ \E stage \in Stages : at' = [at EXCEPT ![t] = stage]
          /\ outcome' = outcome \/ \E how \in {"failed", "words", "blank"} : outcome' = [outcome EXCEPT ![t] = how]
      BY HandlerTurn
    <3> QED BY <1>0, <1>4, <3>1
  <2> QED BY <1>2, <1>3, <2>1 DEF Asks
<1>5. CASE s = t
  <2>1. CASE Looked(t) \/ Recall(t)
    <3>1. at'[t] \in {"refused", "recalling", "asking"}
      BY <1>0, <2>1 DEF Looked, Recall, AppendQuestion, To
    <3> QED BY <1>5, <3>1 DEF Asks
  <2>2. CASE Asked(t)
    <3>1. at'[t] \in {"refused", "noting"}
      BY <1>0, <1>1, <2>2 DEF Asked, To
    <3> QED BY <1>5, <3>1 DEF Asks
  <2>3. CASE Note(t)
    <3>1. at'[t] = "invoking" /\ Holds(events'[asker[t]], t, "ask")
      BY <1>0, <1>1, <2>3, EventJoins DEF Note, To, Parts
    <3> QED BY <1>5, <3>1
  <2>4. CASE Invoke(t) \/ Answer(t, "words") \/ Answer(t, "blank")
    <3>1. at[t] \in {"invoking", "answering"} /\ at'[t] \in {"answering", "replying"}
      BY <1>0, <2>4 DEF Invoke, Answer, AppendReply, To
    <3> QED BY <1>0, <1>2, <1>3, <1>5, <3>1 DEF Asks
  <2>5. CASE Fail(t)
    <3>1. at[t] = "answering" /\ at'[t] = "tagging" /\ outcome'[t] = "failed"
      BY <1>0, <2>5 DEF Fail, TagReply, To
    <3> QED BY <1>0, <1>2, <1>3, <1>5, <3>1 DEF Asks
  <2>6. CASE Replied(t)
    <3>1. at[t] = "replying" /\ (at'[t] = "recording" \/ (at'[t] = "tagging" /\ outcome'[t] = "blank"))
      BY <1>0, <1>1, <2>6 DEF Replied, TagReply, To
    <3> QED BY <1>0, <1>2, <1>3, <1>5, <3>1 DEF Asks
  <2>7. CASE Keep(t)
    <3>1. at[t] = "recording" /\ at'[t] = "tagging" /\ Remember(t, "reply", "assistant")
      BY <1>0, <2>7 DEF Keep, TagReply, To
    <3>2. Dialogue(events'[asker[t]], t)
      BY <1>0, <1>1, <1>2, <1>5, <3>1, EventJoins DEF Parts, Asks
    <3> QED BY <1>0, <1>2, <1>3, <1>5, <3>1, <3>2 DEF Asks
  <2>8. CASE Close(t)
    <3>1. at[t] = "tagging" /\ at'[t] = "done" /\ outcome' = outcome
      BY <1>0, <2>8 DEF Close, To
    <3> QED BY <1>0, <1>2, <1>3, <1>5, <3>1 DEF Asks
  <2> QED BY <2>1, <2>2, <2>3, <2>4, <2>5, <2>6, <2>7, <2>8 DEF Handler
<1> QED BY <1>4, <1>5

(* A turn that does not move keeps what it was given. *)
LEMMA RecallsFrame ==
  ASSUME ChatInv, DoneInv, DoneInv', ChatNext, RecallInv, NEW t \in Turns,
         UNCHANGED shortTerm, at'[t] = at[t], asker'[t] = asker[t], found'[t] = found[t],
         recalled'[t] = recalled[t], prompt'[t] = prompt[t], before'[t] = before[t],
         pc'[<<t, "get">>] = pc[<<t, "get">>], reply'[<<t, "get">>] = reply[<<t, "get">>]
  PROVE  Recalls(t)'
<1>1. Recalls(t) /\ before[t] \subseteq Turns
  BY DEF RecallInv, ChatInv, TurnTypeOK
<1>2. ASSUME NEW s \in before[t]
      PROVE  /\ at'[s] = "done" /\ asker'[s] = asker'[t]
             /\ Undisturbed(s)' => Undisturbed(s) /\ mem' = mem
  BY <1>1, PastKept DEF Recalls
<1>3. ASSUME NEW s \in before[t], Undisturbed(s)' PROVE Given(t, s)'
  <2>1. Given(t, s) /\ mem' = mem
    BY <1>1, <1>2, <1>3 DEF Recalls
  <2>2. at[t] # "idle"
    BY <1>1, <1>3 DEF Recalls
  <2>3. /\ Among(recalled[t], t, s) => Among(recalled[t], t, s)'
        /\ Among(prompt[t], t, s) => Among(prompt[t], t, s)'
    BY <2>2, StaysAmong
  <2> QED BY <2>1, <2>3 DEF Given, Returned, Refused, Asks
<1>4. /\ at'[t] = "recalling" => shortTerm'
      /\ at'[t] \in {"idle", "looking", "recalling"} \/ ~shortTerm' => recalled'[t] = <<>>
      /\ at'[t] = "idle" => before'[t] = {}
  BY <1>1 DEF Recalls
<1> QED BY <1>2, <1>3, <1>4 DEF Recalls

(* A turn is given what it looked up or recalled. *)
LEMMA HandlerRecalls ==
  ASSUME ChatInv, DoneInv, DoneInv', RecallInv, NEW t \in Turns, Handler(t)
  PROVE  \A r \in Turns : Recalls(r)'
<1>0. /\ at \in [Turns -> Stages] /\ recalled \in [Turns -> Seq(Message)]
      /\ prompt \in [Turns -> Seq(Message)] /\ before \in [Turns -> SUBSET Turns]
      /\ shortTerm \in BOOLEAN /\ ChatNext
  BY DEF ChatInv, TurnTypeOK, ChatNext
<1>1. /\ UNCHANGED <<shortTerm, asker, found, before>> /\ at[t] # "idle"
      /\ \A r \in Turns \ {t} : at'[r] = at[r] /\ recalled'[r] = recalled[r] /\ prompt'[r] = prompt[r]
  <2>1. /\ UNCHANGED <<shortTerm, asker, found, before>> /\ at[t] # "idle"
        /\ \E stage \in Stages : at' = [at EXCEPT ![t] = stage]
        /\ recalled' \in {recalled, [recalled EXCEPT ![t] = Newest(events[asker[t]])]}
        /\ prompt' \in {prompt, [prompt EXCEPT ![t] = priorTurns(t)]}
    BY HandlerTurn
  <2> QED BY <1>0, <2>1
<1>2. \A r \in Turns : pc'[<<r, "get">>] = pc[<<r, "get">>] /\ reply'[<<r, "get">>] = reply[<<r, "get">>]
  <2>1. UNCHANGED vars \/ \E part \in {"ask", "reply", "tag"} : Ask(<<t, part>>)
    BY HandlerCall DEF ChatInv, Turnwise, TurnInv
  <2>2. ASSUME NEW part \in {"ask", "reply", "tag"}, Ask(<<t, part>>), NEW r \in Turns
        PROVE  pc'[<<r, "get">>] = pc[<<r, "get">>] /\ reply'[<<r, "get">>] = reply[<<r, "get">>]
    <3>1. <<t, part>> \in Calls /\ <<r, "get">> \in Calls \ {<<t, part>>}
      BY TurnCalls DEF Parts
    <3> QED BY <2>2, <3>1, OthersRest DEF ChatInv
  <2> QED BY <2>1, <2>2 DEF vars, calls
<1>3. ASSUME NEW r \in Turns \ {t} PROVE Recalls(r)'
  BY <1>0, <1>1, <1>2, RecallsFrame
<1> DEFINE Ahead == /\ at'[t] # "idle"
                    /\ at'[t] = "recalling" => shortTerm'
                    /\ at'[t] \in {"idle", "looking", "recalling"} \/ ~shortTerm' => recalled'[t] = <<>>
           Handed == \A s \in before[t] : Undisturbed(s)' => Given(t, s)'
<1>4. /\ at[t] = "recalling" => shortTerm
      /\ at[t] \in {"idle", "looking", "recalling"} \/ ~shortTerm => recalled[t] = <<>>
  BY DEF RecallInv, Recalls
<1>5. ASSUME NEW s \in before[t]
      PROVE  /\ s \in Turns /\ at'[s] = "done" /\ asker'[s] = asker'[t]
             /\ Undisturbed(s)' => /\ Undisturbed(s) /\ Given(t, s)
                                   /\ mem # NoRec /\ mem' = mem /\ Dialogue(rec[mem].msgs, s)
                                   /\ shortTerm => Among(Newest(events[asker[t]]), t, s)
             /\ recalled'[t] = recalled[t] /\ Among(recalled[t], t, s) => Among(recalled[t], t, s)'
             /\ prompt'[t] = prompt[t] /\ Among(prompt[t], t, s) => Among(prompt[t], t, s)'
  <2>1. s \in Turns /\ at[s] = "done" /\ asker[s] = asker[t] /\ (Undisturbed(s) => Given(t, s)) /\ Noted(s)
    BY <1>0 DEF RecallInv, Recalls
  <2>2. Undisturbed(s) /\ shortTerm => Dialogue(events[asker[t]], s)
    BY <2>1 DEF Noted, Undisturbed
  <2>3. events[asker[t]] \in Seq(Message)
    BY <1>1 DEF ChatInv, TurnTypeOK, Turnwise, TurnInv
  <2>4. Undisturbed(s) /\ shortTerm => Among(Newest(events[asker[t]]), t, s)
    BY <2>2, <2>3, NewestAmong DEF Among, ChatInv
  <2>5. /\ recalled'[t] = recalled[t] /\ Among(recalled[t], t, s) => Among(recalled[t], t, s)'
        /\ prompt'[t] = prompt[t] /\ Among(prompt[t], t, s) => Among(prompt[t], t, s)'
    BY <1>0, <1>1, StaysAmong
  <2> QED BY <1>0, <1>1, <2>1, <2>4, <2>5, PastKept
<1>6. Ahead /\ Handed
  <2>1. CASE Looked(t)
    <3>1. /\ at[t] = "looking" /\ Returned(t, "get") /\ recalled' = recalled
          /\ \/ at'[t] = "refused"
             \/ ~Refused(t, "get") /\ shortTerm /\ at'[t] = "recalling"
             \/ ~Refused(t, "get") /\ ~shortTerm /\ at'[t] = "asking"
      BY <1>0, <2>1 DEF Looked, AppendQuestion, To
    <3>2. ASSUME NEW s \in before[t], Undisturbed(s)' PROVE Given(t, s)'
      BY <1>1, <1>4, <1>5, <3>1, <3>2 DEF Given, Returned, Asks
    <3> QED BY <1>1, <1>4, <3>1, <3>2
  <2>2. CASE Recall(t)
    <3>1. /\ at[t] = "recalling" /\ at'[t] = "asking" /\ shortTerm
          /\ recalled'[t] \in {<<>>, Newest(events[asker[t]])}
          /\ UNCHANGED <<cast, events>>
      BY <1>0, <1>4, <2>2 DEF Recall, AppendQuestion, To, memory
    <3>2. ASSUME NEW s \in before[t], Undisturbed(s)' PROVE Given(t, s)'
      <4>1. recalled'[t] # <<>> => Among(recalled'[t], t, s)
        BY <1>5, <3>1, <3>2
      <4>2. recalled'[t] # <<>> => Among(recalled[t], t, s)'
        BY <1>1, <3>1, <4>1 DEF Among, Displaced, Dialogue
      <4> QED BY <1>1, <1>5, <3>1, <3>2, <4>2 DEF Given, Asks
    <3> QED BY <1>1, <3>1, <3>2
  <2>3. CASE Asked(t) \/ Note(t)
    <3>1. /\ at[t] \in {"asking", "noting"} /\ at'[t] \in {"refused", "noting", "invoking"}
          /\ recalled' = recalled
      BY <1>0, <2>3 DEF Asked, Note, To
    <3>2. ASSUME NEW s \in before[t], Undisturbed(s)' PROVE Given(t, s)'
      BY <1>1, <1>5, <3>1, <3>2 DEF Given, Asks
    <3> QED BY <1>1, <1>4, <3>1, <3>2
  <2>4. CASE Invoke(t)
    <3>1. /\ at[t] = "invoking" /\ at'[t] = "answering" /\ recalled' = recalled
          /\ prompt'[t] = priorTurns(t) /\ UNCHANGED <<cast, events>>
      BY <1>0, <2>4 DEF Invoke, To, memory
    <3>2. ASSUME NEW s \in before[t], Undisturbed(s)' PROVE Given(t, s)'
      <4>1. Given(t, s) /\ mem # NoRec /\ mem' = mem /\ Dialogue(rec[mem].msgs, s)
        BY <1>5, <3>2
      <4>2. found[t] = mem /\ (recalled[t] # <<>> => Among(recalled[t], t, s))
        BY <3>1, <4>1 DEF Given, Asks
      <4>3. Among(priorTurns(t), t, s)
        BY <4>1, <4>2 DEF priorTurns, Among
      <4>4. Among(prompt[t], t, s)'
        BY <1>1, <3>1, <4>3 DEF Among, Displaced, Dialogue
      <4>5. recalled'[t] # <<>> => Among(recalled[t], t, s)'
        BY <1>5, <3>1, <4>2
      <4> QED BY <1>1, <3>1, <4>1, <4>2, <4>4, <4>5 DEF Given
    <3> QED BY <1>1, <1>4, <3>1, <3>2
  <2>5. CASE Fail(t) \/ Answer(t, "words") \/ Answer(t, "blank") \/ Replied(t) \/ Keep(t) \/ Close(t)
    <3>1. /\ at[t] \in Asks \ {"noting", "invoking"} /\ at'[t] \in Asks \ {"noting", "invoking"}
          /\ UNCHANGED <<recalled, prompt>>
      BY <1>0, <2>5 DEF Fail, Answer, Replied, Keep, Close, AppendReply, TagReply, To, Asks
    <3>2. ASSUME NEW s \in before[t], Undisturbed(s)' PROVE Given(t, s)'
      BY <1>1, <1>5, <3>1, <3>2 DEF Given, Asks
    <3> QED BY <1>1, <1>4, <3>1, <3>2 DEF Asks
  <2> QED BY <2>1, <2>2, <2>3, <2>4, <2>5 DEF Handler
<1>7. Recalls(t)'
  BY <1>1, <1>5, <1>6 DEF Recalls
<1> QED BY <1>3, <1>7

(* A turn begins on the record that holds the turns before it. *)
LEMMA BeginRecalls ==
  ASSUME ChatInv, DoneInv, DoneInv', RecallInv, NEW t \in Turns, NEW u \in Users, Begin(t, u)
  PROVE  \A r \in Turns : Recalls(r)'
<1> DEFINE c == <<t, "get">>
<1>0. /\ c \in Calls /\ Ask(c) /\ ChatNext /\ at[t] = "idle"
      /\ \A r \in Turns \ {t} : <<r, "get">> \in Calls \ {c}
  BY TurnCalls DEF Begin, Ask, ChatNext, Parts
<1>1. /\ UNCHANGED <<shortTerm, found, recalled, prompt>>
      /\ at' = [at EXCEPT ![t] = "looking"] /\ asker' = [asker EXCEPT ![t] = u]
      /\ before' = [before EXCEPT ![t] = {s \in Turns : at[s] = "done" /\ asker[s] = u}]
      /\ Lookup(c, "get", u)
  BY DEF Begin, To, memory, getSession
<1>2. /\ at'[t] = "looking" /\ asker'[t] = u /\ recalled'[t] = <<>>
      /\ before'[t] = {s \in Turns : at[s] = "done" /\ asker[s] = u}
      /\ \A r \in Turns \ {t} : at'[r] = at[r] /\ asker'[r] = asker[r] /\ before'[r] = before[r]
  BY <1>0, <1>1 DEF ChatInv, TurnTypeOK, Turnwise, TurnInv
<1>3. mem # NoRec => pc'[c] = "held"
  BY <1>0, <1>1 DEF Lookup, Go, ChatInv, IInv, TypeOK
<1> HIDE DEF c
<1>4. ASSUME NEW r \in Turns \ {t} PROVE Recalls(r)'
  <2>1. pc'[<<r, "get">>] = pc[<<r, "get">>] /\ reply'[<<r, "get">>] = reply[<<r, "get">>]
    BY <1>0, OthersRest DEF ChatInv
  <2> QED BY <1>0, <1>1, <1>2, <2>1, RecallsFrame
<1>5. ASSUME NEW s \in before'[t]
      PROVE  at'[s] = "done" /\ asker'[s] = asker'[t] /\ (Undisturbed(s)' => Given(t, s)')
  <2>1. s \in Turns /\ at[s] = "done" /\ asker[s] = u
    BY <1>2
  <2>2. at'[s] = "done" /\ asker'[s] = u /\ (Undisturbed(s)' => mem # NoRec)
    BY <1>0, <2>1, PastKept
  <2> QED BY <1>2, <1>3, <2>2 DEF Given, c, Asks
<1>6. Recalls(t)'
  BY <1>2, <1>5 DEF Recalls
<1> QED BY <1>4, <1>6

(* A lookup ends with the record that it holds. *)
LEMMA StoreStepRecalls ==
  ASSUME ChatInv, DoneInv, DoneInv', RecallInv, NEW c \in Calls, StoreStep(c)
  PROVE  \A r \in Turns : Recalls(r)'
<1>0. Step(c) /\ ChatNext /\ pc[c] \notin {"idle", "done"} /\ ~Ask(c)
      /\ UNCHANGED <<shortTerm, at, asker, recalled, prompt, before>>
  BY OthersRest DEF StoreStep, ChatNext, memory, ChatInv
<1>1. ASSUME NEW r \in Turns, c # <<r, "get">> PROVE Recalls(r)'
  <2>1. /\ found'[r] = found[r]
        /\ pc'[<<r, "get">>] = pc[<<r, "get">>] /\ reply'[<<r, "get">>] = reply[<<r, "get">>]
    <3>1. <<r, "get">> \in Calls \ {c}
      BY <1>1, TurnCalls DEF Parts
    <3> QED BY <1>0, <1>1, <3>1, OthersRest DEF StoreStep, ChatInv
  <2> QED BY <1>0, <2>1, RecallsFrame
<1>2. ASSUME NEW r \in Turns, c = <<r, "get">> PROVE Recalls(r)'
  <2>1. Recalls(r) /\ before[r] \subseteq Turns
    BY DEF RecallInv, ChatInv, TurnTypeOK
  <2>2. found'[r] = IF pc[c] = "held" /\ owns(rec[held[c]], job[c].user) THEN held[c] ELSE found[r]
    BY <1>2 DEF StoreStep
  <2>3. job[c].op = "get"
    BY <1>0, <1>2 DEF DoneInv, Tasks, Parts, OpOf
  <2>4. ASSUME NEW s \in before[r], Undisturbed(s)' PROVE Given(r, s)'
    <3>1. NoVisit /\ mem' = mem /\ Given(r, s)
      BY <1>0, <2>1, <2>4, PastKept DEF Recalls, Undisturbed
    <3>2. pc[c] = "held" => held[c] = mem
      BY <3>1 DEF DoneInv, OneRecord, GoesOn
    <3>3. pc[c] = "held" /\ ~owns(rec[held[c]], job[c].user) => Returned(r, "get")' /\ Refused(r, "get")'
      BY <1>0, <1>2, <2>3 DEF Step, FindOne, Load, Create, Missing, Refuse, Get, Push, Forget, Snapshot,
           SaveOpened, Save, DropDoc, PurgeRows, List, Return, Go, Returned, Refused, ChatInv, IInv, TypeOK
    <3>4. pc[c] = "held" /\ owns(rec[held[c]], job[c].user) => Returned(r, "get")'
      BY <1>0, <1>2, <2>3 DEF Step, FindOne, Load, Create, Missing, Refuse, Get, Push, Forget, Snapshot,
           SaveOpened, Save, DropDoc, PurgeRows, List, Return, Go, Returned, ChatInv, IInv, TypeOK
    <3>5. at[r] = "looking" => pc[c] = "held"
      BY <1>0, <1>2, <3>1 DEF Given, Returned
    <3>6. /\ Among(recalled[r], r, s) => Among(recalled[r], r, s)'
          /\ Among(prompt[r], r, s) => Among(prompt[r], r, s)'
      <4>1. at[r] # "idle"
        BY <2>1, <2>4 DEF Recalls
      <4> QED BY <1>0, <4>1, StaysAmong
    <3> QED BY <1>0, <2>2, <3>1, <3>2, <3>3, <3>4, <3>5, <3>6 DEF Given, Asks
  <2>5. ASSUME NEW s \in before[r] PROVE at'[s] = "done" /\ asker'[s] = asker'[r]
    BY <1>0, <2>1 DEF Recalls
  <2> QED BY <1>0, <2>1, <2>4, <2>5 DEF Recalls
<1> QED BY <1>1, <1>2

LEMMA VisitRecalls ==
  ASSUME ChatInv, DoneInv, DoneInv', RecallInv, NEW c \in Visits, NEW u \in Users, Visit(c, u)
  PROVE  \A r \in Turns : Recalls(r)'
<1>1. /\ c \in Calls /\ Ask(c) /\ ChatNext
      /\ UNCHANGED <<shortTerm, at, asker, found, recalled, prompt, before>>
  BY DEF Visits, Visit, Ask, turns, memory, ChatNext
<1>2. ASSUME NEW r \in Turns
      PROVE  pc'[<<r, "get">>] = pc[<<r, "get">>] /\ reply'[<<r, "get">>] = reply[<<r, "get">>]
  <2>1. <<r, "get">> # c
    BY DEF Visits, Parts
  <2>2. <<r, "get">> \in Calls \ {c}
    BY <2>1, TurnCalls DEF Parts
  <2> QED BY <1>1, <2>2, OthersRest DEF ChatInv
<1> QED BY <1>1, <1>2, RecallsFrame

LEMMA NextRecalls ==
  ASSUME ChatInv, DoneInv, DoneInv', RecallInv, [ChatNext]_chatVars
  PROVE  RecallInv'
<1>1. CASE UNCHANGED chatVars
  <2>1. UNCHANGED <<vars, turns, memory>>
    BY <1>1 DEF chatVars
  <2>2. UNCHANGED <<mem, rec, pc, reply, cast, shortTerm, events, lossy, at, asker, found, recalled, prompt, outcome, before>>
    BY <2>1 DEF vars, calls, turns, memory
  <2>3. ASSUME NEW t \in Turns, NEW s PROVE Given(t, s)' = Given(t, s)
    BY <2>2 DEF Given, Among, Displaced, Dialogue, Returned, Refused
  <2>4. ASSUME NEW s PROVE Undisturbed(s)' = Undisturbed(s)
    BY <2>2 DEF Undisturbed, NoVisit
  <2> QED BY <2>2, <2>3, <2>4 DEF RecallInv, Noted, Recalls, Asks
<1>2. CASE ChatNext
  <2>1. \A t \in Turns : Recalls(t)'
    BY <1>2, HandlerRecalls, BeginRecalls, StoreStepRecalls, VisitRecalls DEF ChatNext
  <2>2. ASSUME NEW t \in Turns PROVE Noted(t)'
    <3>1. Noted(t) /\ (asker[t] \in Users \/ at[t] = "idle")
      BY DEF RecallInv, ChatInv, Turnwise, TurnInv
    <3>2. CASE \E s \in Turns : Handler(s)
      BY <3>1, <3>2, HandlerNoted
    <3>3. ASSUME NEW s \in Turns, NEW u \in Users, Begin(s, u) PROVE Noted(t)'
      <4>1. /\ UNCHANGED <<shortTerm, events, lossy, outcome>> /\ at[s] = "idle"
            /\ at' = [at EXCEPT ![s] = "looking"] /\ asker' = [asker EXCEPT ![s] = u]
        BY <3>3 DEF Begin, To, memory
      <4> QED BY <3>1, <4>1 DEF Noted, Asks, ChatInv, TurnTypeOK
    <3>4. CASE \/ \E c \in Calls : StoreStep(c)
               \/ \E c \in Visits, u \in Users : Visit(c, u)
      <4>1. UNCHANGED <<shortTerm, events, lossy, outcome, at, asker>>
        BY <3>4 DEF StoreStep, Visit, turns, memory
      <4> QED BY <3>1, <4>1 DEF Noted
    <3> QED BY <1>2, <3>2, <3>3, <3>4 DEF ChatNext
  <2> QED BY <2>1, <2>2 DEF RecallInv
<1> QED BY <1>1, <1>2

LEMMA InitRecalls == ChatInit => RecallInv
BY DEF ChatInit, RecallInv, Noted, Recalls, Asks

(* A turn's agents are given the question and the reply of every turn of   *)
(* the same user that was over before it began: from the memory store, or  *)
(* from the record when the store answers nothing.  What displaces a turn  *)
(* is newer messages, as many as the limit of the memory's read.           *)
THEOREM PastRemembered ==
  ASSUME Orderly
  PROVE  ChatSpec => []Remembers
<1>1. ChatSpec => [](ChatInv /\ DoneInv)
  BY InitDone, NextDone, ChatInductive, PTL DEF ChatSpec
<1>2. ChatInv /\ DoneInv /\ DoneInv' /\ RecallInv /\ [ChatNext]_chatVars => RecallInv'
  BY NextRecalls
<1>3. RecallInv => Remembers
  <2> SUFFICES ASSUME RecallInv, NEW t \in Turns, NEW s \in before[t],
                      at[t] \in {"answering", "done"}, Undisturbed(s)
               PROVE  Among(prompt[t], t, s)
    BY DEF Remembers, Among, Undisturbed, NoVisit
  <2>1. Given(t, s)
    BY DEF RecallInv, Recalls
  <2> QED BY <2>1 DEF Given, Asks
<1> QED BY <1>1, <1>2, <1>3, InitRecalls, PTL DEF ChatSpec
================================================================================

------------------------------ MODULE TraceStore ------------------------------
(***************************************************************************)
(* The trace store of the API (lib/trace-store.ts): a ring buffer in the   *)
(* process and the collection `traces`, written through and read through.  *)
(*                                                                         *)
(* A trace is a collector that goes on growing while its turn, and what    *)
(* the turn left running, record events.  What is stored is a snapshot, so *)
(* a snapshot is the number of events it holds; 0 stands for no trace.  A  *)
(* trace is stored by its turn and again by the two writers that outlive   *)
(* it: the mirror of the assistant message, when its embedding failed      *)
(* (lib/session-store.ts), and the long-term memory write                  *)
(* (routes/chat.ts).                                                       *)
(***************************************************************************)
EXTENDS Naturals, Sequences, FiniteSets

CONSTANTS
  Calls,        \* the writes and reads of a behaviour
  Traces,       \* one a turn: a trace id and its "sessionId:messageId" key
  NoTrace,      \* the trace of a call that was not made
  Cap,          \* TRACE_RING_BUFFER_SIZE
  Persistent,   \* persistChatSessions()
  Faults,       \* operations of the database that may fail
  MaxEvents,    \* bound: events of a trace
  MaxActive,    \* bound: calls in flight at once
  MaxRestarts   \* bound: restarts of the process

ASSUME TraceAssumption == NoTrace \notin Traces
ASSUME CapAssumption == Cap \in Nat \ {0}
ASSUME BoundAssumption ==
  /\ Persistent \in BOOLEAN
  /\ Faults \subseteq {"find", "save"}
  /\ MaxEvents \in Nat /\ MaxActive \in Nat /\ MaxRestarts \in Nat

VARIABLES
  live,      \* live[t]: events the collector of t has recorded
  ring,      \* byTraceId: the snapshot of t, or 0
  keys,      \* byMessageKey: the traces whose key is in it
  order,     \* insertOrder
  docs,      \* the document of t in `traces`, or 0
  pc,        \* pc[c]: the await at which call c is suspended
  job,       \* job[c]: what c is, its trace, and the snapshot it carries
  gone,      \* traces whose collectors died with the process
  disturbed, \* history: traces two calls worked on at once, or whose save failed
  restarts   \* restarts so far

vars == <<live, ring, keys, order, docs, pc, job, gone, disturbed, restarts>>

Snapshots == 0..MaxEvents
Writers == {"turn", "mirror", "memory"}
Readers == {"byId", "byMessage"}
Places == {"idle", "collected", "sent", "find", "found", "done"}
NoJob == [op |-> "none", trace |-> NoTrace, events |-> 0]

Active == {c \in Calls : pc[c] \notin {"idle", "done"}}
Made(op, t) == {c \in Calls : job[c].op = op /\ job[c].trace = t}

Init ==
  /\ live = [t \in Traces |-> 0]
  /\ ring = [t \in Traces |-> 0]
  /\ keys = {}
  /\ order = <<>>
  /\ docs = [t \in Traces |-> 0]
  /\ pc = [c \in Calls |-> "idle"]
  /\ job = [c \in Calls |-> NoJob]
  /\ gone = {}
  /\ disturbed = {}
  /\ restarts = 0

Go(c, place) == pc' = [pc EXCEPT ![c] = place]

Accept(c, op, t, n) ==
  /\ pc[c] = "idle"
  /\ Cardinality(Active) < MaxActive
  /\ job' = [job EXCEPT ![c] = [op |-> op, trace |-> t, events |-> n]]
  /\ disturbed' = disturbed \cup {u \in {t} : \E d \in Active : job[d].trace = u}

(* The collector of a turn records an event. *)
CollectorGrows(t) ==
  /\ t \notin gone /\ live[t] < MaxEvents
  /\ live' = [live EXCEPT ![t] = @ + 1]
  /\ UNCHANGED <<ring, keys, order, docs, pc, job, gone, disturbed, restarts>>

-----------------------------------------------------------------------------
(* The ring.  An id is pushed at every write, also when it is in the ring  *)
(* already, and the oldest id is shifted out with its trace and its key.   *)
(* There is never more than one id too many.                               *)

Evicted(t) == IF Len(order) < Cap THEN {} ELSE {Head(Append(order, t))}

RingMutant(t, n) ==   \* the key of the evicted trace stays
  /\ order' = IF Len(order) < Cap THEN Append(order, t) ELSE Tail(Append(order, t))
  /\ ring' = [u \in Traces |->
       IF u \in Evicted(t) THEN 0 ELSE IF u = t THEN n ELSE ring[u]]
  /\ keys' = keys \cup {t}

rememberInRing(t, n) ==
  /\ order' = IF Len(order) < Cap THEN Append(order, t) ELSE Tail(Append(order, t))
  /\ ring' = [u \in Traces |->
       IF u \in Evicted(t) THEN 0 ELSE IF u = t THEN n ELSE ring[u]]
  /\ keys' = (keys \cup {t}) \ Evicted(t)

-----------------------------------------------------------------------------
(* Writes *)

(* The ring at once, the document after an await. *)
persistTrace(c, t, n) ==
  /\ rememberInRing(t, n)
  /\ Go(c, IF Persistent THEN "sent" ELSE "done")

(* The turn takes its snapshot, then awaits setLastTraceId ... *)
Collect(c, t) ==
  /\ live[t] > 0 /\ Made("turn", t) = {}
  /\ Accept(c, "turn", t, live[t])
  /\ Go(c, "collected")
  /\ UNCHANGED <<live, ring, keys, order, docs, gone, restarts>>

(* ... and stores the snapshot it took. *)
PersistTurn(c) ==
  /\ pc[c] = "collected"
  /\ persistTrace(c, job[c].trace, job[c].events)
  /\ UNCHANGED <<live, docs, job, gone, disturbed, restarts>>

(* The mirror of the assistant message stores what the collector holds by  *)
(* then; the message was appended before the turn took its snapshot, so    *)
(* this may come before or after it.                                       *)
PersistMirror(c, t) ==
  /\ Persistent
  /\ live[t] > 0 /\ Made("mirror", t) = {}
  /\ Accept(c, "mirror", t, live[t])
  /\ persistTrace(c, t, live[t])
  /\ UNCHANGED <<live, docs, gone, restarts>>

(* So does the long-term memory write, which is started after `done`. *)
PersistMemory(c, t) ==
  /\ \E d \in Made("turn", t) : pc[d] = "done"
  /\ live[t] > 0 /\ Made("memory", t) = {}
  /\ Accept(c, "memory", t, live[t])
  /\ persistTrace(c, t, live[t])
  /\ UNCHANGED <<live, docs, gone, restarts>>

ReplaceOneMutant(c) ==   \* an existing document is not replaced
  /\ pc[c] = "sent"
  /\ docs' = [docs EXCEPT ![job[c].trace] = IF @ = 0 THEN job[c].events ELSE @]
  /\ Go(c, "done")
  /\ UNCHANGED <<live, ring, keys, order, job, gone, disturbed, restarts>>

(* The server replaces the document.  A failure is logged. *)
ReplaceOne(c) ==
  /\ pc[c] = "sent"
  /\ \/ docs' = [docs EXCEPT ![job[c].trace] = job[c].events] /\ UNCHANGED disturbed
     \/ "save" \in Faults /\ disturbed' = disturbed \cup {job[c].trace} /\ UNCHANGED docs
  /\ Go(c, "done")
  /\ UNCHANGED <<live, ring, keys, order, job, gone, restarts>>

-----------------------------------------------------------------------------
(* Reads.  A finished read has what it returned in its job. *)

InRing(op, t) == ring[t] # 0 /\ (op = "byMessage" => t \in keys)

(* getTraceById and getTraceForMessage *)
getTrace(c, op, t) ==
  /\ \/ InRing(op, t) /\ Accept(c, op, t, ring[t]) /\ Go(c, "done")
     \/ /\ ~InRing(op, t)
        /\ Accept(c, op, t, 0)
        /\ Go(c, IF Persistent THEN "find" ELSE "done")
  /\ UNCHANGED <<live, ring, keys, order, docs, gone, restarts>>

FindOne(c) ==
  /\ pc[c] = "find"
  /\ \/ /\ job' = [job EXCEPT ![c].events = docs[job[c].trace]]
        /\ Go(c, "found")
     \/ /\ "find" \in Faults
        /\ Go(c, "done")
        /\ UNCHANGED job
  /\ UNCHANGED <<live, ring, keys, order, docs, gone, disturbed, restarts>>

(* What was found becomes the entry of the ring, whatever has been stored  *)
(* there since the query was answered.                                     *)
Found(c) ==
  /\ pc[c] = "found"
  /\ \/ job[c].events # 0 /\ rememberInRing(job[c].trace, job[c].events)
     \/ job[c].events = 0 /\ UNCHANGED <<ring, keys, order>>
  /\ Go(c, "done")
  /\ UNCHANGED <<live, docs, job, gone, disturbed, restarts>>

-----------------------------------------------------------------------------
(* The process stops and starts again: rings, collectors and calls in      *)
(* flight are gone.                                                        *)
Restart ==
  /\ restarts < MaxRestarts
  /\ restarts' = restarts + 1
  /\ gone' = gone \cup {t \in Traces : live[t] > 0}
  /\ live' = [t \in Traces |-> 0]
  /\ ring' = [t \in Traces |-> 0]
  /\ keys' = {}
  /\ order' = <<>>
  /\ pc' = [c \in Calls |-> IF pc[c] = "done" THEN "done" ELSE "idle"]
  /\ job' = [c \in Calls |-> IF pc[c] = "done" THEN job[c] ELSE NoJob]
  /\ UNCHANGED <<docs, disturbed>>

Ask(c) == \E t \in Traces :
  \/ Collect(c, t) \/ PersistMirror(c, t) \/ PersistMemory(c, t)
  \/ \E op \in Readers : getTrace(c, op, t)

Step(c) == PersistTurn(c) \/ ReplaceOne(c) \/ FindOne(c) \/ Found(c)

Next == (\E c \in Calls : Ask(c) \/ Step(c)) \/ (\E t \in Traces : CollectorGrows(t)) \/ Restart

Spec == Init /\ [][Next]_vars
-----------------------------------------------------------------------------
(* Properties *)

(* Every variable has its type. *)
TypeOK ==
  /\ live \in [Traces -> Snapshots]
  /\ ring \in [Traces -> Snapshots]
  /\ keys \subseteq Traces
  /\ order \in Seq(Traces)
  /\ docs \in [Traces -> Snapshots]
  /\ pc \in [Calls -> Places]
  /\ job \in [Calls -> [op : Writers \cup Readers \cup {"none"},
                         trace : Traces \cup {NoTrace}, events : Snapshots]]
  /\ gone \subseteq Traces
  /\ disturbed \subseteq Traces
  /\ restarts \in 0..MaxRestarts

(* The three structures of the ring agree, though an id may be in          *)
(* insertOrder several times: it holds at most Cap ids, a trace it holds   *)
(* can be reached by eviction, and the two maps have the same traces - so  *)
(* nothing is ever stuck in memory.                                        *)
RingShape ==
  /\ Len(order) <= Cap
  /\ \A t \in Traces : ring[t] # 0 => \E i \in 1..Len(order) : order[i] = t
  /\ keys = {t \in Traces : ring[t] # 0}

Writes(t) == {c \in Calls : pc[c] = "done" /\ job[c].op \in Writers /\ job[c].trace = t}

(* When no call is suspended, what the ring would answer is what the       *)
(* document says, whatever was evicted, re-read and stored again in        *)
(* between; only two calls on one trace at once, or a failed save, can     *)
(* part them.                                                              *)
RingIsDocument ==
  Active = {} => \A t \in Traces \ disturbed : ring[t] \in {0, docs[t]}

(* The stored copy includes the events recorded after the turn: when no    *)
(* call is suspended, the document of a trace is no older than any         *)
(* snapshot that was stored, with the same two exceptions.                 *)
StoredIsNewest ==
  Active = {} => \A t \in Traces \ disturbed, c \in Calls :
    c \in Writes(t) => docs[t] >= job[c].events
==============================================================================

------------------------------ MODULE TraceProofs ------------------------------
(***************************************************************************)
(* The traces of the API.  First the store: the shape of the ring buffer   *)
(* and its agreement with the documents, for any traces, any capacity, any *)
(* number of concurrent writes and reads, any faults and restarts.  Then   *)
(* the collectors: that nothing is filed under a span that has ended, that *)
(* what is spliced hangs in one hierarchy, and that what a turn does is    *)
(* counted once, for any specialists, byte caps, calls and streams that    *)
(* break off (the counts: streams that do not).                            *)
(***************************************************************************)
EXTENDS TraceStore, TraceRelay, SequenceTheorems, FiniteSetTheorems, WellFoundedInduction, TLAPS

(* A call that is suspended is about a trace, and a turn that has taken its *)
(* snapshot has one: only a trace that exists is ever written to the ring.  *)
Asked == \A c \in Calls :
  /\ pc[c] \in {"collected", "sent", "find", "found"} => job[c].trace \in Traces
  /\ pc[c] = "collected" => job[c].events # 0

RInv == TypeOK /\ Asked /\ RingShape

(* Writing one trace keeps the ring in shape.  The trace evicted is the    *)
(* one at the head; every other trace in the ring still has the place it   *)
(* had, one step nearer to the head.                                       *)
LEMMA RingStep ==
  ASSUME RInv, NEW t \in Traces, NEW n \in Snapshots \ {0}, rememberInRing(t, n)
  PROVE  /\ ring' \in [Traces -> Snapshots] /\ keys' \subseteq Traces /\ order' \in Seq(Traces)
         /\ RingShape'
<1>0. /\ Cap \in Nat \ {0} /\ 0 \in Snapshots /\ order \in Seq(Traces)
      /\ ring \in [Traces -> Snapshots] /\ keys \subseteq Traces
  BY CapAssumption, BoundAssumption DEF RInv, TypeOK, Snapshots
<1>1. CASE Len(order) < Cap
  <2>1. /\ order' = Append(order, t)
        /\ ring' = [u \in Traces |-> IF u = t THEN n ELSE ring[u]]
        /\ keys' = keys \cup {t}
    BY <1>1 DEF rememberInRing, Evicted
  <2>2. order' \in Seq(Traces) /\ Len(order') = Len(order) + 1 /\ Len(order') <= Cap
    BY <1>0, <1>1, <2>1
  <2>3. ASSUME NEW u \in Traces, ring'[u] # 0
        PROVE  \E i \in 1..Len(order') : order'[i] = u
    <3>1. CASE u = t
      BY <2>1, <3>1
    <3>2. CASE u # t
      <4>1. PICK i \in 1..Len(order) : order[i] = u
        BY <2>1, <2>3, <3>2 DEF RInv, RingShape
      <4> QED BY <2>1, <4>1
    <3> QED BY <3>1, <3>2
  <2>4. keys' = {u \in Traces : ring'[u] # 0}
    BY <2>1 DEF RInv, RingShape
  <2>5. ring' \in [Traces -> Snapshots] /\ keys' \subseteq Traces
    BY <1>0, <2>1
  <2> QED BY <2>2, <2>3, <2>4, <2>5 DEF RingShape
<1>2. CASE ~(Len(order) < Cap)
  <2> DEFINE all == Append(order, t)
             evicted == Head(all)
  <2>1. /\ Len(order) = Cap /\ all \in Seq(Traces) /\ Len(all) = Cap + 1
        /\ \A i \in 1..Cap : all[i] = order[i]
        /\ all[Cap + 1] = t
    BY <1>0, <1>2 DEF RInv, RingShape
  <2>2. /\ order' = Tail(all)
        /\ ring' = [u \in Traces |-> IF u = evicted THEN 0 ELSE IF u = t THEN n ELSE ring[u]]
        /\ keys' = (keys \cup {t}) \ {evicted}
    BY <1>2 DEF rememberInRing, Evicted
  <2>3. /\ order' \in Seq(Traces) /\ Len(order') = Cap /\ evicted = all[1] /\ evicted \in Traces
        /\ \A i \in 1..Cap : order'[i] = all[i + 1]
    BY <1>0, <2>1, <2>2
  <2>4. ASSUME NEW u \in Traces, ring'[u] # 0
        PROVE  \E i \in 1..Len(order') : order'[i] = u
    <3>0. u # evicted
      BY <2>2, <2>4
    <3>1. CASE u = t
      BY <1>0, <2>1, <2>3, <3>1
    <3>2. CASE u # t
      <4>1. PICK i \in 1..Cap : order[i] = u
        BY <2>1, <2>2, <2>4, <3>2 DEF RInv, RingShape
      <4>2. i # 1
        BY <2>1, <3>0, <4>1
      <4>3. i - 1 \in 1..Cap /\ order'[i - 1] = u
        BY <2>1, <2>3, <4>1, <4>2
      <4> QED BY <2>3, <4>3
    <3> QED BY <3>1, <3>2
  <2>5. keys' = {u \in Traces : ring'[u] # 0}
    BY <2>2 DEF RInv, RingShape
  <2>6. ring' \in [Traces -> Snapshots] /\ keys' \subseteq Traces
    BY <1>0, <2>2
  <2> QED BY <2>3, <2>4, <2>5, <2>6 DEF RingShape
<1> QED BY <1>1, <1>2

-----------------------------------------------------------------------------

(* A call that is accepted can only add its own trace to the disturbed ones. *)
LEMMA Disturbs ==
  ASSUME RInv, NEW c, NEW op, NEW t \in Traces, NEW n, Accept(c, op, t, n)
  PROVE  disturbed' \subseteq Traces
BY DEF RInv, TypeOK, Accept

LEMMA RingInit == Init => RInv
<1>1. ASSUME Init PROVE TypeOK
  BY <1>1, BoundAssumption DEF Init, TypeOK, Snapshots, Places, NoJob
<1>2. ASSUME Init PROVE Asked
  BY <1>2 DEF Init, Asked
<1>3. ASSUME Init PROVE RingShape
  BY <1>3, CapAssumption DEF Init, RingShape
<1> QED BY <1>1, <1>2, <1>3 DEF RInv

(* The turn writes the snapshot it took. *)
LEMMA PersistTurnStep ==
  ASSUME RInv, NEW c \in Calls, PersistTurn(c)
  PROVE  RInv'
<1>1. job[c].trace \in Traces /\ job[c].events \in Snapshots \ {0}
  BY DEF RInv, TypeOK, Asked, PersistTurn
<1>2. rememberInRing(job[c].trace, job[c].events)
  BY DEF PersistTurn, persistTrace
<1>3. /\ ring' \in [Traces -> Snapshots] /\ keys' \subseteq Traces /\ order' \in Seq(Traces)
      /\ RingShape'
  BY <1>1, <1>2, RingStep
<1>4. TypeOK'
  BY <1>3 DEF RInv, TypeOK, PersistTurn, persistTrace, Go, Places
<1>5. Asked'
  BY DEF RInv, Asked, PersistTurn, persistTrace, Go
<1> QED BY <1>3, <1>4, <1>5 DEF RInv

(* The two writers that outlive the turn write what the collector holds. *)
LEMMA PersistAgainStep ==
  ASSUME RInv, NEW c \in Calls, NEW t \in Traces, PersistMirror(c, t) \/ PersistMemory(c, t)
  PROVE  RInv'
<1>1. live[t] \in Snapshots \ {0}
  BY DEF RInv, TypeOK, PersistMirror, PersistMemory
<1>2. rememberInRing(t, live[t])
  BY DEF PersistMirror, PersistMemory, persistTrace
<1>3. /\ ring' \in [Traces -> Snapshots] /\ keys' \subseteq Traces /\ order' \in Seq(Traces)
      /\ RingShape'
  BY <1>1, <1>2, RingStep
<1>4. /\ job' = [job EXCEPT ![c] = [op |-> job'[c].op, trace |-> t, events |-> live[t]]]
      /\ job'[c].op \in Writers
      /\ pc' = [pc EXCEPT ![c] = "sent"] \/ pc' = [pc EXCEPT ![c] = "done"]
      /\ UNCHANGED <<live, docs, gone, restarts>>
  BY DEF RInv, TypeOK, PersistMirror, PersistMemory, persistTrace, Accept, Go, Writers
<1>5. disturbed' \subseteq Traces
  BY DEF RInv, TypeOK, PersistMirror, PersistMemory, Accept
<1>6. job' \in [Calls -> [op : Writers \cup Readers \cup {"none"},
                         trace : Traces \cup {NoTrace}, events : Snapshots]]
  BY <1>4 DEF RInv, TypeOK
<1>7. pc' \in [Calls -> Places]
  BY <1>4 DEF RInv, TypeOK, Places
<1>8. TypeOK'
  BY <1>3, <1>4, <1>5, <1>7 DEF RInv, TypeOK
<1>9. Asked'
  BY <1>4 DEF RInv, TypeOK, Asked
<1> QED BY <1>3, <1>8, <1>9 DEF RInv

(* A document that was found is written to the ring. *)
LEMMA FoundStep ==
  ASSUME RInv, NEW c \in Calls, Found(c)
  PROVE  RInv'
<1>1. job[c].trace \in Traces /\ job[c].events \in Snapshots
  BY DEF RInv, TypeOK, Asked, Found
<1>2. /\ ring' \in [Traces -> Snapshots] /\ keys' \subseteq Traces /\ order' \in Seq(Traces)
      /\ RingShape'
  <2>1. CASE job[c].events # 0
    <3>1. rememberInRing(job[c].trace, job[c].events)
      BY <2>1 DEF Found
    <3> QED BY <1>1, <2>1, <3>1, RingStep
  <2>2. CASE job[c].events = 0
    BY <2>2 DEF Found, RInv, TypeOK, RingShape
  <2> QED BY <2>1, <2>2
<1>3. TypeOK'
  BY <1>2 DEF RInv, TypeOK, Found, Go, Places
<1>4. Asked'
  BY DEF RInv, Asked, Found, Go
<1> QED BY <1>2, <1>3, <1>4 DEF RInv

(* The other steps of a call leave the ring alone. *)
LEMMA CollectStep ==
  ASSUME RInv, NEW c \in Calls, NEW t \in Traces, Collect(c, t)
  PROVE  RInv'
<1>1. live[t] \in Snapshots \ {0}
  BY DEF RInv, TypeOK, Collect
<1>2. /\ job' = [job EXCEPT ![c] = [op |-> "turn", trace |-> t, events |-> live[t]]]
      /\ pc' = [pc EXCEPT ![c] = "collected"]
      /\ UNCHANGED <<live, ring, keys, order, docs, gone, restarts>>
  BY DEF Collect, Accept, Go
<1>0. disturbed' \subseteq Traces
  BY Disturbs DEF Collect
<1>3. TypeOK'
  BY <1>0, <1>2 DEF RInv, TypeOK, Places, Writers
<1>4. Asked'
  BY <1>1, <1>2 DEF RInv, TypeOK, Asked
<1> QED BY <1>2, <1>3, <1>4 DEF RInv, RingShape

LEMMA ReplaceOneStep ==
  ASSUME RInv, NEW c \in Calls, ReplaceOne(c)
  PROVE  RInv'
<1>1. job[c].trace \in Traces /\ job[c].events \in Snapshots
  BY DEF RInv, TypeOK, Asked, ReplaceOne
<1>2. TypeOK'
  BY <1>1 DEF RInv, TypeOK, ReplaceOne, Go, Places
<1>3. Asked'
  BY DEF RInv, Asked, ReplaceOne, Go
<1> QED BY <1>2, <1>3 DEF RInv, RingShape, ReplaceOne

LEMMA GetStep ==
  ASSUME RInv, NEW c \in Calls, NEW op \in Readers, NEW t \in Traces, getTrace(c, op, t)
  PROVE  RInv'
<1>1. PICK n \in Snapshots, place \in {"find", "done"} :
        /\ job' = [job EXCEPT ![c] = [op |-> op, trace |-> t, events |-> n]]
        /\ pc' = [pc EXCEPT ![c] = place]
        /\ UNCHANGED <<live, ring, keys, order, docs, gone, restarts>>
  <2>1. 0 \in Snapshots /\ ring[t] \in Snapshots
    BY BoundAssumption DEF RInv, TypeOK, Snapshots
  <2>2. CASE InRing(op, t)
    BY <2>1 DEF getTrace, Accept, Go
  <2>3. CASE ~InRing(op, t)
    BY <2>1 DEF getTrace, Accept, Go
  <2> QED BY <2>2, <2>3
<1>0. disturbed' \subseteq Traces
  BY Disturbs DEF getTrace
<1>2. TypeOK'
  BY <1>0, <1>1 DEF RInv, TypeOK, Places
<1>3. Asked'
  BY <1>1 DEF RInv, TypeOK, Asked
<1> QED BY <1>1, <1>2, <1>3 DEF RInv, RingShape

LEMMA FindOneStep ==
  ASSUME RInv, NEW c \in Calls, FindOne(c)
  PROVE  RInv'
<1>1. job[c].trace \in Traces /\ docs[job[c].trace] \in Snapshots
  BY DEF RInv, TypeOK, Asked, FindOne
<1>2. PICK n \in Snapshots, place \in {"found", "done"} :
        /\ job' = [job EXCEPT ![c].events = n]
        /\ pc' = [pc EXCEPT ![c] = place]
        /\ UNCHANGED <<live, ring, keys, order, docs, gone, disturbed, restarts>>
  <2>1. CASE job' = [job EXCEPT ![c].events = docs[job[c].trace]] /\ Go(c, "found")
    BY <1>1, <2>1 DEF FindOne, Go
  <2>2. CASE Go(c, "done") /\ UNCHANGED job
    <3>1. job[c].events \in Snapshots /\ job' = [job EXCEPT ![c].events = job[c].events]
      BY <2>2 DEF RInv, TypeOK
    <3> QED BY <3>1 DEF FindOne, Go
  <2> QED BY <2>1, <2>2 DEF FindOne
<1>3. TypeOK'
  BY <1>2 DEF RInv, TypeOK, Places
<1>4. Asked'
  BY <1>1, <1>2 DEF RInv, TypeOK, Asked
<1> QED BY <1>2, <1>3, <1>4 DEF RInv, RingShape

(* An event is recorded without touching the ring. *)
LEMMA EventStep ==
  ASSUME RInv, NEW t \in Traces, CollectorGrows(t)
  PROVE  RInv'
<1>1. TypeOK'
  BY BoundAssumption DEF RInv, TypeOK, CollectorGrows, Snapshots
<1>2. Asked'
  BY DEF RInv, Asked, CollectorGrows
<1> QED BY <1>1, <1>2 DEF RInv, RingShape, CollectorGrows

(* After a restart the ring is empty. *)
LEMMA RestartStep ==
  ASSUME RInv, Restart
  PROVE  RInv'
<1>1. TypeOK'
  BY BoundAssumption DEF RInv, TypeOK, Restart, NoJob, Places, Snapshots
<1>2. Asked'
  BY DEF Asked, Restart
<1>3. RingShape'
  BY CapAssumption DEF Restart, RingShape
<1> QED BY <1>1, <1>2, <1>3 DEF RInv

LEMMA RingNext == RInv /\ [Next]_vars => RInv'
<1> SUFFICES ASSUME RInv, [Next]_vars PROVE RInv'
  OBVIOUS
<1>1. ASSUME NEW c \in Calls, Ask(c) PROVE RInv'
  BY <1>1, CollectStep, PersistAgainStep, GetStep DEF Ask
<1>2. ASSUME NEW c \in Calls, Step(c) PROVE RInv'
  BY <1>2, PersistTurnStep, ReplaceOneStep, FindOneStep, FoundStep DEF Step
<1>3. CASE UNCHANGED vars
  BY <1>3 DEF RInv, TypeOK, Asked, RingShape, vars
<1> QED BY <1>1, <1>2, <1>3, EventStep, RestartStep DEF Next

LEMMA RingInvariant == Spec => []RInv
BY RingInit, RingNext, PTL DEF Spec

(* Every variable of the trace store has its type. *)
THEOREM TraceTypeCorrect == Spec => []TypeOK
<1>1. RInv => TypeOK
  BY DEF RInv
<1> QED BY <1>1, RingInvariant, PTL

(* The ring buffer never holds more than TRACE_RING_BUFFER_SIZE ids, every *)
(* trace in it can be evicted, and its two maps agree, however often a     *)
(* trace is re-persisted or read through.                                  *)
THEOREM RingInShape == Spec => []RingShape
<1>1. RInv => RingShape
  BY DEF RInv
<1> QED BY <1>1, RingInvariant, PTL
-----------------------------------------------------------------------------
(* That ring and document agree, and that the document is the newest.      *)
(* Both say something of a store at rest; the invariant below says what    *)
(* holds while calls are under way.                                        *)

(* Writes write and reads read. *)
Roles == \A c \in Calls :
  /\ pc[c] \in {"collected", "sent"} => job[c].op \in Writers
  /\ pc[c] \in {"find", "found"} => job[c].op \in Readers
  /\ job[c].op \in Writers => job[c].trace \in Traces

On(c, t) == c \in Active /\ job[c].trace = t

(* An undisturbed trace has one call at a time. *)
Lone == \A t \in Traces \ disturbed : \A c, d \in Calls : On(c, t) /\ On(d, t) => c = d

(* A collector only grows, until it dies with the process: no snapshot of  *)
(* it holds more than it does now.                                         *)
Grown ==
  /\ \A t \in gone : live[t] = 0
  /\ \A c \in Calls : job[c].op \in Writers /\ job[c].trace \notin gone
       => job[c].events <= live[job[c].trace]

(* The ring has what the document says; between the two halves of a write, *)
(* what is on its way there.  What a read has found is still what is       *)
(* stored.                                                                 *)
Agreeing == \A t \in Traces \ disturbed :
  /\ (\A c \in Calls : ~(pc[c] = "sent" /\ job[c].trace = t)) => ring[t] \in {0, docs[t]}
  /\ \A c \in Calls : job[c].trace = t =>
       /\ pc[c] = "sent" => ring[t] \in {0, job[c].events}
       /\ pc[c] = "found" => job[c].events = docs[t]

(* No finished write holds more than the document, or than a write under   *)
(* way will store.                                                         *)
Newest == \A t \in Traces \ disturbed : \A d \in Calls : d \in Writes(t) =>
  /\ job[d].events <= docs[t]
  /\ \A c \in Calls : job[c].trace = t /\ pc[c] \in {"collected", "sent"} => job[d].events <= job[c].events

AInv == Roles /\ Lone /\ Grown /\ Agreeing /\ Newest

(* What the writes and reads count with are numbers. *)
LEMMA Numbers ==
  ASSUME RInv
  PROVE  /\ \A t \in Traces : live[t] \in Nat /\ docs[t] \in Nat /\ ring[t] \in Nat
         /\ \A c \in Calls : job[c].events \in Nat
BY BoundAssumption DEF RInv, TypeOK, Snapshots

(* Of the ring a write changes one entry, and it may evict others. *)
LEMMA RingValues ==
  ASSUME NEW t \in Traces, NEW n, rememberInRing(t, n)
  PROVE  /\ ring'[t] \in {0, n}
         /\ \A u \in Traces : u # t => ring'[u] \in {0, ring[u]}
BY DEF rememberInRing

(* A call that is accepted is the only one about its trace, or the trace   *)
(* counts as disturbed from then on.                                       *)
LEMMA AcceptStep ==
  ASSUME RInv, AInv, NEW c \in Calls, NEW op, NEW t \in Traces, NEW n, NEW place,
         Accept(c, op, t, n), Go(c, place)
  PROVE  /\ pc[c] = "idle" /\ pc'[c] = place /\ job'[c] = [op |-> op, trace |-> t, events |-> n]
         /\ \A d \in Calls : d # c => pc'[d] = pc[d] /\ job'[d] = job[d]
         /\ \A u \in Traces \ disturbed' : u \notin disturbed
         /\ t \notin disturbed' => \A d \in Calls : ~On(d, t)
         /\ Lone'
<1>1. /\ pc[c] = "idle" /\ pc'[c] = place /\ job'[c] = [op |-> op, trace |-> t, events |-> n]
      /\ \A d \in Calls : d # c => pc'[d] = pc[d] /\ job'[d] = job[d]
  BY DEF RInv, TypeOK, Accept, Go
<1>2. \A u \in Traces \ disturbed' : u \notin disturbed
  BY DEF Accept
<1>3. t \notin disturbed' => \A d \in Calls : ~On(d, t)
  BY DEF Accept, On
<1>4. Lone'
  BY <1>1, <1>2, <1>3 DEF AInv, Lone, On, Active
<1> QED BY <1>1, <1>2, <1>3, <1>4

LEMMA AgreeInit == Init => AInv
<1> SUFFICES ASSUME Init PROVE AInv
  OBVIOUS
<1> QED BY DEF Init, AInv, Roles, Lone, On, Active, Grown, Agreeing, Newest, Writes, NoJob, Writers

(* The turn takes its snapshot. *)
LEMMA CollectKeeps ==
  ASSUME RInv, AInv, NEW c \in Calls, NEW t \in Traces, Collect(c, t)
  PROVE  AInv'
<1>0. PICK op \in {"turn"} : Accept(c, op, t, live[t]) /\ Go(c, "collected")
  BY DEF Collect
<1>1. /\ pc[c] = "idle" /\ pc'[c] = "collected"
      /\ job'[c] = [op |-> op, trace |-> t, events |-> live[t]]
      /\ \A d \in Calls : d # c => pc'[d] = pc[d] /\ job'[d] = job[d]
      /\ \A u \in Traces \ disturbed' : u \notin disturbed
      /\ t \notin disturbed' => \A d \in Calls : ~On(d, t)
      /\ Lone'
  BY <1>0, AcceptStep
<1>2. live[t] > 0 /\ UNCHANGED <<live, ring, docs, gone>>
  BY DEF Collect
<1>3. Roles'
  BY <1>1 DEF AInv, Roles, Writers
<1>4. Grown'
  BY <1>1, <1>2, Numbers DEF AInv, Grown
<1>5. Agreeing'
  BY <1>1, <1>2 DEF AInv, Agreeing
<1>6. Newest'
  BY <1>1, <1>2, Numbers DEF AInv, Newest, Writes, Grown
<1> QED BY <1>1, <1>3, <1>4, <1>5, <1>6 DEF AInv

(* The turn stores it: the ring has it, and the document will. *)
LEMMA PersistTurnKeeps ==
  ASSUME Persistent, RInv, AInv, NEW c \in Calls, PersistTurn(c)
  PROVE  AInv'
<1> DEFINE t == job[c].trace
<1>1. /\ t \in Traces /\ pc[c] = "collected" /\ pc'[c] = "sent"
      /\ \A d \in Calls : d # c => pc'[d] = pc[d]
      /\ UNCHANGED <<live, docs, job, gone, disturbed>>
      /\ rememberInRing(t, job[c].events)
  BY DEF RInv, TypeOK, Asked, PersistTurn, persistTrace, Go
<1>2. ring'[t] \in {0, job[c].events} /\ \A u \in Traces : u # t => ring'[u] \in {0, ring[u]}
  BY <1>1, RingValues
<1>3. Roles'
  BY <1>1 DEF AInv, Roles
<1>4. Lone'
  BY <1>1 DEF AInv, Lone, On, Active
<1>5. Grown'
  BY <1>1 DEF AInv, Grown
<1>6. Agreeing'
  BY <1>1, <1>2 DEF AInv, Agreeing, Lone, On, Active
<1>7. Newest'
  BY <1>1 DEF AInv, Newest, Writes
<1> QED BY <1>3, <1>4, <1>5, <1>6, <1>7 DEF AInv

(* The mirror and the memory write store what the collector holds. *)
LEMMA PersistAgainKeeps ==
  ASSUME Persistent, RInv, AInv, NEW c \in Calls, NEW t \in Traces, PersistMirror(c, t) \/ PersistMemory(c, t)
  PROVE  AInv'
<1>1. PICK op \in {"mirror", "memory"} : Accept(c, op, t, live[t]) /\ Go(c, "sent")
  BY DEF PersistMirror, PersistMemory, persistTrace
<1>2. /\ live[t] > 0 /\ UNCHANGED <<live, docs, gone>>
      /\ rememberInRing(t, live[t])
  BY DEF PersistMirror, PersistMemory, persistTrace
<1>3. /\ pc[c] = "idle" /\ pc'[c] = "sent"
      /\ job'[c] = [op |-> op, trace |-> t, events |-> live[t]]
      /\ \A d \in Calls : d # c => pc'[d] = pc[d] /\ job'[d] = job[d]
      /\ \A u \in Traces \ disturbed' : u \notin disturbed
      /\ t \notin disturbed' => \A d \in Calls : ~On(d, t)
      /\ Lone'
  BY <1>1, AcceptStep
<1>4. ring'[t] \in {0, live[t]} /\ \A u \in Traces : u # t => ring'[u] \in {0, ring[u]}
  BY <1>2, RingValues
<1>5. Roles'
  BY <1>3 DEF AInv, Roles, Writers
<1>6. Grown'
  BY <1>2, <1>3, Numbers DEF AInv, Grown
<1>7. Agreeing'
  BY <1>2, <1>3, <1>4 DEF AInv, Agreeing, On, Active
<1>8. Newest'
  BY <1>2, <1>3, Numbers DEF AInv, Newest, Writes, Grown
<1> QED BY <1>3, <1>5, <1>6, <1>7, <1>8 DEF AInv

(* The document arrives, or does not, which disturbs the trace. *)
LEMMA ReplaceOneKeeps ==
  ASSUME RInv, AInv, NEW c \in Calls, ReplaceOne(c)
  PROVE  AInv'
<1> DEFINE t == job[c].trace
<1>1. /\ t \in Traces /\ pc[c] = "sent" /\ pc'[c] = "done"
      /\ \A d \in Calls : d # c => pc'[d] = pc[d]
      /\ UNCHANGED <<live, ring, job, gone>>
      /\ \A u \in Traces \ disturbed' : u \notin disturbed
      /\ \A u \in Traces : u # t => docs'[u] = docs[u]
      /\ t \notin disturbed' => docs'[t] = job[c].events
  BY DEF RInv, TypeOK, Asked, ReplaceOne, Go
<1>2. Roles'
  BY <1>1 DEF AInv, Roles
<1>3. Lone'
  BY <1>1 DEF AInv, Lone, On, Active
<1>4. Grown'
  BY <1>1 DEF AInv, Grown
<1>5. Agreeing'
  BY <1>1 DEF AInv, Agreeing, Lone, On, Active
<1>6. Newest'
  BY <1>1, Numbers DEF AInv, Newest, Writes, Lone, On, Active
<1> QED BY <1>2, <1>3, <1>4, <1>5, <1>6 DEF AInv

(* A read that begins changes nothing that is stored. *)
LEMMA GetKeeps ==
  ASSUME RInv, AInv, NEW c \in Calls, NEW op \in Readers, NEW t \in Traces, getTrace(c, op, t)
  PROVE  AInv'
<1>1. PICK n \in Snapshots : \E place \in {"find", "done"} : Accept(c, op, t, n) /\ Go(c, place)
  <2>1. 0 \in Snapshots /\ ring[t] \in Snapshots
    BY BoundAssumption DEF RInv, TypeOK, Snapshots
  <2>2. CASE InRing(op, t)
    BY <2>1, <2>2 DEF getTrace
  <2>3. CASE ~InRing(op, t)
    BY <2>1, <2>3 DEF getTrace
  <2> QED BY <2>2, <2>3
<1>0. PICK place \in {"find", "done"} : Accept(c, op, t, n) /\ Go(c, place)
  BY <1>1
<1>2. UNCHANGED <<live, ring, docs, gone>>
  BY DEF getTrace
<1>3. /\ pc[c] = "idle" /\ pc'[c] = place /\ job'[c] = [op |-> op, trace |-> t, events |-> n]
      /\ \A d \in Calls : d # c => pc'[d] = pc[d] /\ job'[d] = job[d]
      /\ \A u \in Traces \ disturbed' : u \notin disturbed
      /\ t \notin disturbed' => \A d \in Calls : ~On(d, t)
      /\ Lone'
  BY <1>0, AcceptStep
<1>4. op \notin Writers
  BY DEF Readers, Writers
<1>5. Roles'
  BY <1>3, <1>4 DEF AInv, Roles
<1>6. Grown'
  BY <1>2, <1>3, <1>4 DEF AInv, Grown
<1>7. Agreeing'
  BY <1>2, <1>3 DEF AInv, Agreeing
<1>8. Newest'
  BY <1>2, <1>3, <1>4 DEF AInv, Newest, Writes
<1> QED BY <1>3, <1>5, <1>6, <1>7, <1>8 DEF AInv

(* The query is answered. *)
LEMMA FindOneKeeps ==
  ASSUME RInv, AInv, NEW c \in Calls, FindOne(c)
  PROVE  AInv'
<1> DEFINE t == job[c].trace
<1>1. /\ t \in Traces /\ pc[c] = "find" /\ pc'[c] \in {"found", "done"}
      /\ job'[c].op = job[c].op /\ job'[c].trace = t
      /\ pc'[c] = "found" => job'[c].events = docs[t]
      /\ \A d \in Calls : d # c => pc'[d] = pc[d] /\ job'[d] = job[d]
      /\ UNCHANGED <<live, ring, docs, gone, disturbed>>
  BY DEF RInv, TypeOK, Asked, FindOne, Go
<1>2. job[c].op \in Readers /\ job[c].op \notin Writers
  BY <1>1 DEF AInv, Roles, Readers, Writers
<1>3. Roles'
  BY <1>1, <1>2 DEF AInv, Roles
<1>4. Lone'
  BY <1>1 DEF AInv, Lone, On, Active
<1>5. Grown'
  BY <1>1, <1>2 DEF AInv, Grown
<1>6. Agreeing'
  BY <1>1 DEF AInv, Agreeing
<1>7. Newest'
  BY <1>1, <1>2 DEF AInv, Newest, Writes
<1> QED BY <1>3, <1>4, <1>5, <1>6, <1>7 DEF AInv

(* What was found becomes the entry of the ring. *)
LEMMA FoundKeeps ==
  ASSUME RInv, AInv, NEW c \in Calls, Found(c)
  PROVE  AInv'
<1> DEFINE t == job[c].trace
<1>1. /\ t \in Traces /\ pc[c] = "found" /\ pc'[c] = "done"
      /\ \A d \in Calls : d # c => pc'[d] = pc[d]
      /\ UNCHANGED <<live, docs, job, gone, disturbed>>
  BY DEF RInv, TypeOK, Asked, Found, Go
<1>2. /\ ring'[t] \in {0, job[c].events, ring[t]} /\ (ring'[t] = ring[t] \/ ring'[t] \in {0, job[c].events})
      /\ \A u \in Traces : u # t => ring'[u] \in {0, ring[u]}
  <2>1. CASE rememberInRing(t, job[c].events)
    BY <1>1, <2>1, RingValues
  <2>2. CASE UNCHANGED ring
    BY <1>1, <2>2 DEF RInv, TypeOK
  <2> QED BY <2>1, <2>2 DEF Found
<1>3. job[c].op \in Readers /\ job[c].op \notin Writers
  BY <1>1 DEF AInv, Roles, Readers, Writers
<1>4. Roles'
  BY <1>1, <1>3 DEF AInv, Roles
<1>5. Lone'
  BY <1>1 DEF AInv, Lone, On, Active
<1>6. Grown'
  BY <1>1 DEF AInv, Grown
<1>7. Agreeing'
  BY <1>1, <1>2 DEF AInv, Agreeing, Lone, On, Active
<1>8. Newest'
  BY <1>1, <1>3 DEF AInv, Newest, Writes
<1> QED BY <1>4, <1>5, <1>6, <1>7, <1>8 DEF AInv

(* A collector that grows takes no snapshot with it. *)
LEMMA EventKeeps ==
  ASSUME RInv, AInv, NEW t \in Traces, CollectorGrows(t)
  PROVE  AInv'
<1>1. Grown'
  BY Numbers DEF CollectorGrows, AInv, Grown, Roles, RInv, TypeOK
<1> QED BY <1>1 DEF CollectorGrows, AInv, Roles, Lone, On, Active, Agreeing, Newest, Writes

(* After a restart nothing is under way, and a dead collector stays dead. *)
LEMMA RestartKeeps ==
  ASSUME RInv, AInv, Restart
  PROVE  AInv'
<1>1. /\ \A c \in Calls : IF pc[c] = "done" THEN pc'[c] = "done" /\ job'[c] = job[c]
                                            ELSE pc'[c] = "idle" /\ job'[c] = NoJob
      /\ \A t \in Traces : ring'[t] = 0 /\ live'[t] = 0
      /\ gone' = gone \cup {t \in Traces : live[t] > 0}
      /\ UNCHANGED <<docs, disturbed>>
  BY DEF Restart
<1>2. NoJob.op \notin Writers
  BY DEF NoJob, Writers
<1>3. Roles'
  BY <1>1, <1>2 DEF AInv, Roles
<1>4. Lone'
  BY <1>1 DEF Lone, On, Active
<1>5. Grown'
  <2>1. \A t \in gone' : live'[t] = 0
    BY <1>1 DEF RInv, TypeOK
  <2>2. ASSUME NEW c \in Calls, job'[c].op \in Writers, job'[c].trace \notin gone'
        PROVE  job'[c].events <= live'[job'[c].trace]
    <3>1. job'[c] = job[c] /\ job[c].trace \in Traces \ gone /\ job[c].events \in Nat
      BY <1>1, <1>2, <2>2, Numbers DEF AInv, Roles
    <3>2. live[job[c].trace] \in Nat /\ ~(live[job[c].trace] > 0)
      BY <1>1, <2>2, <3>1, Numbers
    <3>3. job[c].events <= live[job[c].trace]
      BY <2>2, <3>1 DEF AInv, Grown
    <3> QED BY <1>1, <3>1, <3>2, <3>3
  <2> QED BY <2>1, <2>2 DEF Grown
<1>6. Agreeing'
  BY <1>1 DEF Agreeing
<1>7. Newest'
  BY <1>1, <1>2 DEF AInv, Newest, Writes
<1> QED BY <1>3, <1>4, <1>5, <1>6, <1>7 DEF AInv

LEMMA AgreeInvariant == Persistent => (Spec => []AInv)
<1> SUFFICES ASSUME Persistent PROVE Spec => []AInv
  OBVIOUS
<1>1. RInv /\ AInv /\ [Next]_vars => AInv'
  <2> SUFFICES ASSUME RInv, AInv, [Next]_vars PROVE AInv'
    OBVIOUS
  <2>1. ASSUME NEW c \in Calls, Ask(c) PROVE AInv'
    BY <2>1, CollectKeeps, PersistAgainKeeps, GetKeeps DEF Ask
  <2>2. ASSUME NEW c \in Calls, Step(c) PROVE AInv'
    BY <2>2, PersistTurnKeeps, ReplaceOneKeeps, FindOneKeeps, FoundKeeps DEF Step
  <2>3. CASE UNCHANGED vars
    BY <2>3 DEF vars, AInv, Roles, Lone, On, Active, Grown, Agreeing, Newest, Writes
  <2> QED BY <2>1, <2>2, <2>3, EventKeeps, RestartKeeps DEF Next
<1> QED BY AgreeInit, RingInvariant, <1>1, PTL DEF Spec

(* Where traces are persisted, a store at rest answers from its ring what  *)
(* it would answer from the database, whatever was evicted, read through,  *)
(* stored again or lost with the process; not so of a trace two calls      *)
(* worked on at once, or whose save failed.                                *)
THEOREM RingAgrees == Persistent => (Spec => []RingIsDocument)
<1>1. AInv => RingIsDocument
  BY DEF AInv, Agreeing, RingIsDocument, Active
<1> QED BY <1>1, AgreeInvariant, PTL

(* Nor does an earlier snapshot of a trace replace a later one, though     *)
(* three writers of the turn store it independently.                       *)
THEOREM DocumentNewest == Persistent => (Spec => []StoredIsNewest)
<1>1. RInv /\ AInv => StoredIsNewest
  BY Numbers DEF AInv, Newest, StoredIsNewest, Writes
<1> QED BY <1>1, AgreeInvariant, RingInvariant, PTL

-----------------------------------------------------------------------------
(* Nothing is filed under a span that has ended. *)

Ids == Procs \X Nat

(* Whose events may be among those of a process. *)
Of(p) == IF p = "api" THEN Procs ELSE IF p = "orchestrator" THEN Runtimes ELSE {p}
EventsOf(p) ==
  [id : Of(p) \X Nat, parent : Ids \cup {NoId}, kind : Kinds, half : {"start", "one", "end"}, size : Nat]

Collectors(p) ==
  [name : {p}, maxTurnBytes : Nat, next : Nat \ {0}, events : Seq(EventsOf(p)), stack : Seq(Ids),
   bytes : Nat, dropped : Nat, capHits : Nat, nestedDropped : Nat, tools : Nat, mcp : Nat, hops : Nat]

OnStack(c) == {c.stack[i] : i \in DOMAIN c.stack}
EndsOwn(c, i) == c.events[i].half = "end" /\ c.events[i].id[1] = c.name
EndedSpans(c) == {c.events[i].parent : i \in {j \in DOMAIN c.events : EndsOwn(c, j)}}

(* A span is on the stack once, was named by this collector, and has not   *)
(* ended; of the spans that have ended, each has nothing behind its end.   *)
Sound(c) ==
  /\ \A i, j \in DOMAIN c.stack : c.stack[i] = c.stack[j] => i = j
  /\ \A id \in OnStack(c) \cup EndedSpans(c) : id \in Ids /\ id[1] = c.name /\ id[2] < c.next
  /\ OnStack(c) \cap EndedSpans(c) = {}
  /\ \A i, j \in DOMAIN c.events :
       i < j /\ EndsOwn(c, i) /\ c.events[j].id[1] = c.name => c.events[j].parent # c.events[i].parent

SoundOf(p) == {c \in Collectors(p) : Sound(c)}

(* An event that may follow: not under a span that has ended, and if it    *)
(* ends one, that one was begun, and is off the stack.                     *)
Follows(c, ev) ==
  ev.id[1] = c.name =>
    /\ ev.parent \notin EndedSpans(c)
    /\ ev.half = "end" => /\ ev.parent \in Ids /\ ev.parent[1] = c.name /\ ev.parent[2] < c.next
                          /\ ev.parent \notin OnStack(c)

LEMMA KeepFields ==
  ASSUME NEW p \in Procs, NEW c \in Collectors(p), NEW ev \in EventsOf(p)
  PROVE  /\ Keep(c, ev) \in Collectors(p)
         /\ Keep(c, ev).events = Append(c.events, ev)
         /\ Keep(c, ev).stack = c.stack /\ Keep(c, ev).next = c.next /\ Keep(c, ev).name = c.name
<1>1. /\ ev.size \in Nat /\ c.bytes \in Nat /\ c.events \in Seq(EventsOf(p))
  BY DEF Collectors, EventsOf
<1>2. Append(c.events, ev) \in Seq(EventsOf(p)) /\ c.bytes + ev.size \in Nat
  BY <1>1
<1> QED BY <1>2 DEF Keep, Collectors

LEMMA KeepSound ==
  ASSUME NEW p \in Procs, NEW c \in SoundOf(p), NEW ev \in EventsOf(p), Follows(c, ev)
  PROVE  LET d == Keep(c, ev)
         IN /\ d \in SoundOf(p) /\ d.stack = c.stack /\ d.next = c.next
            /\ ev.half # "end" \/ ev.id[1] # p => EndedSpans(d) = EndedSpans(c)
<1> DEFINE d == Keep(c, ev)
<1>1. c \in Collectors(p) /\ Sound(c) /\ c.name = p
  BY DEF SoundOf, Collectors
<1>2. /\ d \in Collectors(p) /\ d.events = Append(c.events, ev)
      /\ d.stack = c.stack /\ d.next = c.next /\ d.name = p
  BY <1>1, KeepFields
<1>3. c.events \in Seq(EventsOf(p)) /\ Len(c.events) \in Nat
  BY <1>1 DEF Collectors
<1> DEFINE n == Len(c.events) + 1
<1>4. /\ DOMAIN d.events = 1..n /\ d.events[n] = ev /\ n \notin DOMAIN c.events
      /\ DOMAIN c.events = 1..(n - 1)
      /\ \A i \in DOMAIN c.events : d.events[i] = c.events[i] /\ i < n
  BY <1>2, <1>3
<1>5. OnStack(d) = OnStack(c)
  BY <1>2 DEF OnStack
<1> HIDE DEF d
<1>6. /\ \A i \in DOMAIN c.events : EndsOwn(d, i) <=> EndsOwn(c, i)
      /\ EndsOwn(d, n) <=> ev.half = "end" /\ ev.id[1] = p
  BY <1>1, <1>2, <1>4 DEF EndsOwn
<1>7. EndedSpans(d) = EndedSpans(c) \cup (IF ev.half = "end" /\ ev.id[1] = p THEN {ev.parent} ELSE {})
  <2> HIDE DEF n
  <2>1. DOMAIN d.events = DOMAIN c.events \cup {n}
    BY <1>4, <1>3 DEF n
  <2>2. \A x : x \in EndedSpans(d) <=>
               (x \in EndedSpans(c)) \/ (ev.half = "end" /\ ev.id[1] = p /\ x = ev.parent)
    <3>1. \A e, x : x \in EndedSpans(e) <=> \E i \in DOMAIN e.events : EndsOwn(e, i) /\ x = e.events[i].parent
      BY DEF EndedSpans
    <3>2. ASSUME NEW x, x \in EndedSpans(d)
          PROVE  (x \in EndedSpans(c)) \/ (ev.half = "end" /\ ev.id[1] = p /\ x = ev.parent)
      <4>1. PICK i \in DOMAIN d.events : EndsOwn(d, i) /\ x = d.events[i].parent
        BY <3>1, <3>2
      <4>2. CASE i = n
        BY <1>4, <1>6, <4>1, <4>2
      <4>3. CASE i \in DOMAIN c.events
        <5>1. EndsOwn(c, i) /\ x = c.events[i].parent
          BY <1>4, <1>6, <4>1, <4>3
        <5> QED BY <3>1, <4>3, <5>1
      <4> QED BY <2>1, <4>2, <4>3
    <3>3. ASSUME NEW x, x \in EndedSpans(c) PROVE x \in EndedSpans(d)
      <4>1. PICK i \in DOMAIN c.events : EndsOwn(c, i) /\ x = c.events[i].parent
        BY <3>1, <3>3
      <4>2. i \in DOMAIN d.events /\ EndsOwn(d, i) /\ x = d.events[i].parent
        BY <1>4, <1>6, <2>1, <4>1
      <4> QED BY <3>1, <4>2
    <3>4. ASSUME ev.half = "end", ev.id[1] = p PROVE ev.parent \in EndedSpans(d)
      <4>1. n \in DOMAIN d.events /\ EndsOwn(d, n) /\ ev.parent = d.events[n].parent
        BY <1>4, <1>6, <2>1, <3>4
      <4> QED BY <3>1, <4>1
    <3> QED BY <3>2, <3>3, <3>4
  <2> QED BY <2>2
<1>8. \A i, j \in DOMAIN d.events :
        i < j /\ EndsOwn(d, i) /\ d.events[j].id[1] = d.name => d.events[j].parent # d.events[i].parent
  <2> SUFFICES ASSUME NEW i \in DOMAIN d.events, NEW j \in DOMAIN d.events, i < j,
                      EndsOwn(d, i), d.events[j].id[1] = d.name
               PROVE  d.events[j].parent # d.events[i].parent
    OBVIOUS
  <2>1. i \in DOMAIN c.events /\ EndsOwn(c, i)
    BY <1>3, <1>4, <1>6
  <2>2. CASE j = n
    <3>1. c.events[i].parent \in EndedSpans(c)
      BY <2>1 DEF EndedSpans
    <3> QED BY <1>1, <1>2, <1>4, <2>1, <2>2, <3>1 DEF Follows
  <2>3. CASE j # n
    <3>1. j \in DOMAIN c.events
      BY <1>3, <1>4, <2>3
    <3> QED BY <1>1, <1>2, <1>4, <2>1, <3>1 DEF Sound
  <2> QED BY <2>2, <2>3
<1>9. Sound(d)
  <2>1. \A id \in OnStack(d) \cup EndedSpans(d) : id \in Ids /\ id[1] = d.name /\ id[2] < d.next
    BY <1>1, <1>2, <1>5, <1>7 DEF Sound, Follows
  <2>2. OnStack(d) \cap EndedSpans(d) = {}
    BY <1>1, <1>2, <1>5, <1>7 DEF Sound, Follows
  <2> QED BY <1>1, <1>2, <1>8, <2>1, <2>2 DEF Sound
<1> QED BY <1>2, <1>7, <1>9 DEF SoundOf, d

(* What a mark, or an event that is dropped, leaves behind. *)
Unmoved(p, c, d) ==
  /\ d \in SoundOf(p) /\ d.stack = c.stack /\ c.next <= d.next /\ EndedSpans(d) = EndedSpans(c)

LEMMA TopSpan ==
  ASSUME NEW p \in Procs, NEW c \in SoundOf(p)
  PROVE  /\ currentSpanId(c) \in OnStack(c) \cup {NoId} /\ currentSpanId(c) \in Ids \cup {NoId}
         /\ currentSpanId(c) \notin EndedSpans(c) /\ NewId(c) \in Ids /\ NewId(c) \in Of(p) \X Nat
         /\ NewId(c) = <<p, c.next>> /\ NewId(c) \notin OnStack(c) \cup EndedSpans(c)
<1>1. c \in Collectors(p) /\ Sound(c) /\ c.stack \in Seq(Ids) /\ c.name = p /\ c.next \in Nat \ {0}
  BY DEF SoundOf, Collectors
<1>2. currentSpanId(c) \in OnStack(c) \cup {NoId}
  <2>1. CASE c.stack = <<>>
    BY <2>1 DEF currentSpanId
  <2>2. CASE c.stack # <<>>
    <3>1. Len(c.stack) \in DOMAIN c.stack
      BY <1>1, <2>2
    <3> QED BY <2>2, <3>1 DEF currentSpanId, OnStack, Last
  <2> QED BY <2>1, <2>2
<1>3. NoId \notin Ids
  BY RelayAssumption DEF Ids
<1>4. OnStack(c) \cup EndedSpans(c) \subseteq Ids /\ OnStack(c) \cap EndedSpans(c) = {}
  BY <1>1 DEF Sound
<1>5. NewId(c) = <<p, c.next>> /\ NewId(c) \in Ids /\ NewId(c) \in Of(p) \X Nat
  BY <1>1 DEF NewId, Ids, Of, Runtimes
<1>6. NewId(c) \notin OnStack(c) \cup EndedSpans(c)
  BY <1>1, <1>5 DEF Sound
<1> QED BY <1>2, <1>3, <1>4, <1>5, <1>6

(* Counters do not matter. *)
Same(p, c, d) ==
  d \in Collectors(p) /\ d.stack = c.stack /\ d.next >= c.next /\ d.events = c.events

LEMMA Restacked ==
  ASSUME NEW p \in Procs, NEW c \in SoundOf(p), NEW d \in Collectors(p),
         d.events = c.events, c.next <= d.next,
         \A i, j \in DOMAIN d.stack : d.stack[i] = d.stack[j] => i = j,
         \A id \in OnStack(d) : id \in Ids /\ id[1] = p /\ id[2] < d.next /\ id \notin EndedSpans(c)
  PROVE  d \in SoundOf(p) /\ EndedSpans(d) = EndedSpans(c)
<1>1. c.name = p /\ d.name = p /\ Sound(c) /\ c.next \in Nat /\ d.next \in Nat
  BY DEF SoundOf, Collectors
<1>2. \A i : EndsOwn(d, i) <=> EndsOwn(c, i)
  BY <1>1 DEF EndsOwn
<1>3. EndedSpans(d) = EndedSpans(c)
  BY <1>2 DEF EndedSpans
<1>4. \A id \in OnStack(d) \cup EndedSpans(d) : id \in Ids /\ id[1] = d.name /\ id[2] < d.next
  <2> SUFFICES ASSUME NEW id \in EndedSpans(c) PROVE id \in Ids /\ id[1] = p /\ id[2] < d.next
    BY <1>1, <1>3
  <2>1. id \in Ids /\ id[1] = p /\ id[2] < c.next
    BY <1>1 DEF Sound
  <2>2. id[2] \in Nat
    BY <2>1 DEF Ids
  <2> QED BY <1>1, <2>1, <2>2
<1>5. Sound(d)
  BY <1>1, <1>2, <1>3, <1>4 DEF Sound
<1> QED BY <1>3, <1>5 DEF SoundOf

LEMMA SameSound ==
  ASSUME NEW p \in Procs, NEW c \in SoundOf(p), NEW d, Same(p, c, d)
  PROVE  Unmoved(p, c, d) /\ d.name = c.name
<1>1. c.name = p /\ d.name = p /\ Sound(c) /\ c.next \in Nat /\ d.next \in Nat
  BY DEF SoundOf, Same, Collectors
<1>2. \A id \in OnStack(c) : id \in Ids /\ id[1] = p /\ id[2] < c.next /\ id \notin EndedSpans(c)
  BY <1>1 DEF Sound
<1>3. \A id \in OnStack(d) : id \in Ids /\ id[1] = p /\ id[2] < d.next /\ id \notin EndedSpans(c)
  <2>1. OnStack(d) = OnStack(c)
    BY DEF OnStack, Same
  <2>2. \A id \in Ids : id[2] \in Nat
    BY DEF Ids
  <2> QED BY <1>1, <1>2, <2>1, <2>2 DEF Same
<1>4. \A i, j \in DOMAIN d.stack : d.stack[i] = d.stack[j] => i = j
  BY <1>1 DEF Sound, Same
<1>5. d \in SoundOf(p) /\ EndedSpans(d) = EndedSpans(c)
  BY <1>3, <1>4, Restacked DEF Same
<1> QED BY <1>1, <1>5 DEF Same, Unmoved

LEMMA MarkUnmoved ==
  ASSUME NEW p \in Procs, NEW c \in SoundOf(p), NEW ev
  PROVE  Unmoved(p, c, emitByteCapHit(c, ev))
<1>1. CASE emitByteCapHit(c, ev) = c
  <2>1. c.next \in Nat
    BY DEF SoundOf, Collectors
  <2> QED BY <1>1, <2>1 DEF Unmoved
<1>2. CASE emitByteCapHit(c, ev) # c
  <2> DEFINE d == [c EXCEPT !.capHits = @ + 1, !.next = @ + 1]
             mark == Event(NewId(c), currentSpanId(c), "dev.byte_cap_hit", "one", 1)
  <2>1. emitByteCapHit(c, ev) = Keep(d, mark)
    BY <1>2 DEF emitByteCapHit
  <2>2. Same(p, c, d)
    <3>1. c \in Collectors(p)
      BY DEF SoundOf
    <3>2. c.next \in Nat /\ c.capHits \in Nat
      BY <3>1 DEF Collectors
    <3>3. c.next + 1 \in Nat \ {0} /\ c.capHits + 1 \in Nat /\ c.next + 1 >= c.next
      BY <3>2
    <3>4. d \in Collectors(p)
      BY <3>1, <3>3 DEF Collectors
    <3>5. d.stack = c.stack /\ d.events = c.events /\ d.next = c.next + 1
      BY <3>1 DEF Collectors
    <3> QED BY <3>3, <3>4, <3>5 DEF Same
  <2>3. Unmoved(p, c, d) /\ d.name = c.name /\ c.name = p /\ c.next \in Nat /\ d.next \in Nat
    <3>1. c \in Collectors(p) /\ d \in Collectors(p)
      BY <2>2 DEF SoundOf, Same
    <3>2. c.name = p /\ c.next \in Nat /\ d.next \in Nat
      BY <3>1 DEF Collectors
    <3> QED BY <2>2, <3>2, SameSound
  <2>4. mark \in EventsOf(p) /\ mark.half = "one" /\ mark.parent = currentSpanId(c)
    BY TopSpan DEF Event, EventsOf, Kinds
  <2>5. Follows(d, mark)
    BY <2>3, <2>4, TopSpan DEF Follows, Unmoved
  <2> HIDE DEF d, mark
  <2>6. Unmoved(p, d, Keep(d, mark))
    BY <2>3, <2>4, <2>5, KeepSound DEF Unmoved
  <2> DEFINE k == Keep(d, mark)
  <2>7. k.next \in Nat
    BY <2>6 DEF Unmoved, SoundOf, Collectors
  <2> HIDE DEF k
  <2>8. Unmoved(p, c, k)
    BY <2>3, <2>6, <2>7 DEF Unmoved, k
  <2> QED BY <2>1, <2>8 DEF k
<1> QED BY <1>1, <1>2

LEMMA UnmovedTwice ==
  ASSUME NEW p \in Procs, NEW c \in SoundOf(p), NEW d, NEW e, Unmoved(p, c, d), Unmoved(p, d, e)
  PROVE  Unmoved(p, c, e)
<1>1. c.next \in Nat /\ d.next \in Nat /\ e.next \in Nat
  BY DEF Unmoved, SoundOf, Collectors
<1>2. c.next <= e.next
  BY <1>1 DEF Unmoved
<1> QED BY <1>2 DEF Unmoved

(* What a method of the collector may do but push and pop. *)
Grows(p, c, d) ==
  d \in SoundOf(p) /\ d.stack = c.stack /\ c.next <= d.next

LEMMA EmitSound ==
  ASSUME NEW p \in Procs, NEW c \in SoundOf(p), NEW raw \in EventsOf(p), Follows(c, raw)
  PROVE  Grows(p, c, emit(c, raw))
<1> DEFINE oversize == raw.size > MaxEventBytes
           ev == IF oversize THEN shrinkPayload(raw) ELSE raw
           marked == IF oversize THEN emitByteCapHit(c, ev) ELSE c
           fewer == [marked EXCEPT !.dropped = @ + 1]
<1>1. ev \in EventsOf(p) /\ ev.id = raw.id /\ ev.parent = raw.parent /\ ev.half = raw.half
  BY DEF shrinkPayload, EventsOf
<1>2. Unmoved(p, c, marked)
  <2>1. Unmoved(p, c, c)
    BY DEF Unmoved, SoundOf, Collectors
  <2> QED BY <2>1, MarkUnmoved
<1>3. emit(c, raw) = emitByteCapHit(fewer, ev) \/ emit(c, raw) = Keep(marked, ev)
  BY DEF emit
<1> HIDE DEF ev, marked
<1>4. marked \in SoundOf(p) /\ marked \in Collectors(p)
  BY <1>2 DEF Unmoved, SoundOf
<1>5. /\ c.name = p /\ marked.name = p /\ c.next \in Nat /\ marked.next \in Nat
      /\ marked.dropped \in Nat /\ Sound(c)
  BY <1>4 DEF Collectors, SoundOf
<1>6. Unmoved(p, c, emitByteCapHit(fewer, ev))
  <2>1. marked.dropped + 1 \in Nat /\ marked.next >= marked.next
    BY <1>5
  <2>2. fewer \in Collectors(p)
    BY <1>4, <2>1 DEF Collectors
  <2>3. fewer.stack = marked.stack /\ fewer.events = marked.events /\ fewer.next = marked.next
    BY <1>4 DEF Collectors
  <2>4. Same(p, marked, fewer)
    BY <2>1, <2>2, <2>3 DEF Same
  <2>5. Unmoved(p, marked, fewer)
    BY <1>4, <2>4, SameSound
  <2>6. Unmoved(p, c, fewer)
    BY <1>2, <2>5, UnmovedTwice
  <2> HIDE DEF fewer
  <2>7. fewer \in SoundOf(p)
    BY <2>6 DEF Unmoved
  <2>8. Unmoved(p, fewer, emitByteCapHit(fewer, ev))
    BY <2>7, MarkUnmoved
  <2> QED BY <2>6, <2>8, UnmovedTwice
<1>7. Grows(p, c, Keep(marked, ev))
  <2>1. OnStack(marked) = OnStack(c)
    BY <1>2 DEF Unmoved, OnStack
  <2>2. Follows(marked, ev)
    <3> SUFFICES ASSUME ev.id[1] = p
                 PROVE  /\ ev.parent \notin EndedSpans(c)
                        /\ ev.half = "end" => /\ ev.parent \in Ids /\ ev.parent[1] = p
                                              /\ ev.parent[2] < marked.next /\ ev.parent \notin OnStack(c)
      BY <1>2, <1>5, <2>1 DEF Follows, Unmoved
    <3>1. ev.parent \notin EndedSpans(c)
      BY <1>1, <1>5 DEF Follows
    <3>2. ASSUME ev.half = "end"
          PROVE  /\ ev.parent \in Ids /\ ev.parent[1] = p
                 /\ ev.parent[2] < c.next /\ ev.parent \notin OnStack(c)
      BY <1>1, <1>5, <3>2 DEF Follows
    <3>3. ev.parent \in Ids => ev.parent[2] \in Nat
      BY DEF Ids
    <3> QED BY <1>2, <1>5, <3>1, <3>2, <3>3 DEF Unmoved
  <2> DEFINE k == Keep(marked, ev)
  <2>3. k \in SoundOf(p) /\ k.stack = marked.stack /\ k.next = marked.next
    BY <1>1, <1>4, <2>2, KeepSound
  <2> HIDE DEF k
  <2>4. Grows(p, c, k)
    BY <1>2, <1>5, <2>3 DEF Unmoved, Grows
  <2> QED BY <2>4 DEF k
<1> QED BY <1>3, <1>6, <1>7 DEF Unmoved, Grows

(* A root, or an event under one of its own process that was named before. *)
Straight(ev) == ev.parent = NoId \/ (ev.parent[1] = ev.id[1] /\ ev.parent[2] < ev.id[2])

(* The summary's counters, and which of them the end of a span increments. *)
Counted == {"tool.call", "agentcore.invoke", "tool.mcp"}
Counter(c, k) == IF k = "tool.call" THEN c.tools ELSE IF k = "tool.mcp" THEN c.mcp ELSE c.hops
Ends(k, kind, half) == IF k # "tool.mcp" /\ kind = k /\ half = "end" THEN 1 ELSE 0

(* An event of its own is all that a method emits. *)
Emits(p, c, e, kind, half) ==
  \E d \in SoundOf(p), ev \in EventsOf(p) :
    /\ d.events = c.events /\ d.dropped = c.dropped /\ Follows(d, ev) /\ e = emit(d, ev)
    /\ ev.id = NewId(c) /\ ev.id[1] = p /\ ev.kind = kind /\ ev.half = half /\ Straight(ev)
    /\ \A k \in Counted : Counter(d, k) = Counter(c, k) + Ends(k, kind, half)

(* The span on top is one the collector named before. *)
LEMMA TopBefore ==
  ASSUME NEW p \in Procs, NEW c \in SoundOf(p)
  PROVE  LET span == currentSpanId(c)
         IN span = NoId \/ (span[1] = p /\ span[2] \in Nat /\ span[2] < c.next)
<1>1. currentSpanId(c) \in OnStack(c) \cup {NoId} /\ Sound(c) /\ c.name = p
  BY TopSpan DEF SoundOf, Collectors
<1> QED BY <1>1 DEF Sound, Ids

LEMMA EventSound ==
  ASSUME NEW p \in Procs, NEW c \in SoundOf(p), NEW kind \in Kinds, NEW size \in Nat
  PROVE  Grows(p, c, event(c, kind, size)) /\ Emits(p, c, event(c, kind, size), kind, "one")
<1> DEFINE d == [c EXCEPT !.next = @ + 1]
           ev == Event(NewId(c), currentSpanId(c), kind, "one", size)
<1>1. c \in Collectors(p) /\ c.name = p /\ c.next \in Nat
  BY DEF SoundOf, Collectors
<1>2. Same(p, c, d)
  <2>1. c.next + 1 \in Nat \ {0} /\ c.next + 1 >= c.next
    BY <1>1
  <2>2. d \in Collectors(p)
    BY <1>1, <2>1 DEF Collectors
  <2>3. d.stack = c.stack /\ d.events = c.events /\ d.next = c.next + 1
    BY <1>1 DEF Collectors
  <2> QED BY <2>1, <2>2, <2>3 DEF Same
<1>3. event(c, kind, size) = emit(d, ev) /\ d.events = c.events /\ d.dropped = c.dropped
  BY <1>1 DEF event, Collectors
<1>4. /\ ev \in EventsOf(p) /\ ev.half = "one" /\ ev.parent = currentSpanId(c)
      /\ ev.id = NewId(c) /\ ev.id = <<p, c.next>> /\ ev.kind = kind
  BY TopSpan DEF Event, EventsOf
<1>11. Straight(ev) /\ ev.id[1] = p
  BY <1>4, TopBefore DEF Straight
<1>13. \A k \in Counted : Counter(d, k) = Counter(c, k) + Ends(k, kind, "one")
  BY <1>1 DEF Counted, Counter, Ends, Collectors
<1> HIDE DEF d, ev
<1>5. Unmoved(p, c, d) /\ d.next \in Nat
  BY <1>2, SameSound DEF Same, Collectors
<1>6. Follows(d, ev)
  BY <1>4, <1>5, TopSpan DEF Follows, Unmoved
<1>7. d \in SoundOf(p)
  BY <1>5 DEF Unmoved
<1> DEFINE k == emit(d, ev)
<1>8. Grows(p, d, k)
  BY <1>4, <1>6, <1>7, EmitSound
<1> HIDE DEF k
<1>9. k.next \in Nat
  BY <1>8 DEF Grows, SoundOf, Collectors
<1>10. Grows(p, c, k)
  BY <1>1, <1>5, <1>8, <1>9 DEF Unmoved, Grows
<1>12. Emits(p, c, k, kind, "one")
  BY <1>3, <1>4, <1>6, <1>7, <1>11, <1>13 DEF Emits, k
<1> QED BY <1>3, <1>10, <1>12 DEF k

LEMMA StartSound ==
  ASSUME NEW p \in Procs, NEW c \in SoundOf(p), NEW kind \in Kinds, NEW size \in Nat
  PROVE  LET d == start(c, kind, size)
         IN d \in SoundOf(p) /\ OnStack(d) = OnStack(c) \cup {NewId(c)} /\ Emits(p, c, d, kind, "start")
<1> DEFINE d == [c EXCEPT !.next = @ + 1, !.stack = Append(@, NewId(c))]
           ev == Event(NewId(c), currentSpanId(c), kind, "start", size)
<1>1. c \in Collectors(p) /\ c.name = p /\ c.next \in Nat /\ c.stack \in Seq(Ids) /\ Sound(c)
  BY DEF SoundOf, Collectors
<1>2. /\ d \in Collectors(p) /\ d.events = c.events /\ d.next = c.next + 1
      /\ d.stack = Append(c.stack, NewId(c)) /\ d.dropped = c.dropped
  <2>1. c.next + 1 \in Nat \ {0} /\ Append(c.stack, NewId(c)) \in Seq(Ids)
    BY <1>1, TopSpan
  <2>2. d \in Collectors(p)
    BY <1>1, <2>1 DEF Collectors
  <2> QED BY <1>1, <2>2 DEF Collectors
<1>3. start(c, kind, size) = emit(d, ev)
  BY DEF start
<1>4. /\ ev \in EventsOf(p) /\ ev.half = "start" /\ ev.parent = currentSpanId(c)
      /\ ev.id = NewId(c) /\ ev.id = <<p, c.next>> /\ ev.kind = kind
  BY TopSpan DEF Event, EventsOf
<1>13. Straight(ev) /\ ev.id[1] = p
  BY <1>4, TopBefore DEF Straight
<1>15. \A k \in Counted : Counter(d, k) = Counter(c, k) + Ends(k, kind, "start")
  BY <1>1 DEF Counted, Counter, Ends, Collectors
<1> HIDE DEF d, ev
<1> DEFINE n == Len(c.stack) + 1
<1>5. /\ DOMAIN d.stack = DOMAIN c.stack \cup {n} /\ n \notin DOMAIN c.stack
      /\ d.stack[n] = NewId(c) /\ \A i \in DOMAIN c.stack : d.stack[i] = c.stack[i]
  BY <1>1, <1>2
<1> HIDE DEF n
<1>6. OnStack(d) = OnStack(c) \cup {NewId(c)}
  BY <1>5 DEF OnStack
<1>7. \A i, j \in DOMAIN d.stack : d.stack[i] = d.stack[j] => i = j
  <2>1. \A i \in DOMAIN c.stack : c.stack[i] \in OnStack(c)
    BY DEF OnStack
  <2>2. NewId(c) \notin OnStack(c)
    BY TopSpan
  <2>3. \A i, j \in DOMAIN c.stack : c.stack[i] = c.stack[j] => i = j
    BY <1>1 DEF Sound
  <2> QED BY <1>5, <2>1, <2>2, <2>3
<1>8. \A id \in OnStack(d) : id \in Ids /\ id[1] = p /\ id[2] < d.next /\ id \notin EndedSpans(c)
  <2>1. \A id \in OnStack(c) : id \in Ids /\ id[1] = p /\ id[2] < c.next /\ id \notin EndedSpans(c)
    BY <1>1 DEF Sound
  <2>2. \A id \in Ids : id[2] \in Nat
    BY DEF Ids
  <2>3. NewId(c) \in Ids /\ NewId(c) = <<p, c.next>> /\ NewId(c) \notin EndedSpans(c)
    BY TopSpan
  <2> QED BY <1>1, <1>2, <1>6, <2>1, <2>2, <2>3
<1>9. d \in SoundOf(p) /\ EndedSpans(d) = EndedSpans(c)
  <2>1. c.next <= d.next
    BY <1>1, <1>2
  <2> QED BY <1>2, <1>7, <1>8, <2>1, Restacked
<1>10. Follows(d, ev)
  BY <1>4, <1>9, TopSpan DEF Follows
<1> DEFINE k == emit(d, ev)
<1>11. Grows(p, d, k)
  BY <1>4, <1>9, <1>10, EmitSound
<1> HIDE DEF k
<1>12. k \in SoundOf(p) /\ OnStack(k) = OnStack(d)
  BY <1>11 DEF Grows, OnStack
<1>14. Emits(p, c, k, kind, "start")
  BY <1>2, <1>3, <1>4, <1>9, <1>10, <1>13, <1>15 DEF Emits, k
<1> QED BY <1>3, <1>6, <1>12, <1>14 DEF k

(* Popping takes the span off the stack, wherever it is. *)
LEMMA PoppedOne ==
  ASSUME NEW S, NEW stack \in Seq(S), NEW k \in DOMAIN stack,
         \A i, j \in DOMAIN stack : stack[i] = stack[j] => i = j
  PROVE  LET rest == Popped(stack, stack[k])
         IN /\ rest \in Seq(S)
            /\ \A i, j \in DOMAIN rest : rest[i] = rest[j] => i = j
            /\ Range(rest) = Range(stack) \ {stack[k]}
<1> DEFINE rest == RemoveAt(stack, k)
           places == {i \in DOMAIN stack : stack[i] = stack[k]}
           n == Len(stack)
           left == SubSeq(stack, 1, k - 1)
           right == SubSeq(stack, k + 1, n)
<1>1. n \in Nat /\ DOMAIN stack = 1..n /\ k \in 1..n /\ \A i \in 1..n : stack[i] \in S
  OBVIOUS
<1>2. places = {k}
  OBVIOUS
<1>3. Max({k}) = k
  BY <1>1 DEF Max
<1>4. Popped(stack, stack[k]) = rest
  BY <1>2, <1>3 DEF Popped
<1>5. /\ left \in Seq(S) /\ Len(left) = k - 1 /\ right \in Seq(S) /\ Len(right) = n - k
      /\ \A i \in 1..(k - 1) : left[i] = stack[i]
      /\ \A i \in 1..(n - k) : right[i] = stack[k + i]
  <2> HIDE DEF n
  <2>1. k \in Int /\ n \in Int /\ \A i \in 1..(k - 1) : stack[i] \in S
    BY <1>1
  <2>2. \A i \in (k + 1)..n : stack[i] \in S
    BY <1>1
  <2> DEFINE a == k - 1
             b == k + 1
  <2>3. /\ left \in Seq(S) /\ Len(left) = (IF 1 <= a THEN a - 1 + 1 ELSE 0)
        /\ \A i \in 1..(a - 1 + 1) : left[i] = stack[1 + i - 1]
    <3>1. a \in Int /\ \A i \in 1..a : stack[i] \in S
      BY <2>1
    <3>2. left = SubSeq(stack, 1, a)
      OBVIOUS
    <3> HIDE DEF a, left
    <3> QED BY <3>1, <3>2, SubSeqProperties
  <2>4. /\ right \in Seq(S) /\ Len(right) = (IF b <= n THEN n - b + 1 ELSE 0)
        /\ \A i \in 1..(n - b + 1) : right[i] = stack[b + i - 1]
    <3>1. b \in Int /\ n \in Int /\ \A i \in b..n : stack[i] \in S
      BY <2>1, <2>2
    <3>2. right = SubSeq(stack, b, n)
      OBVIOUS
    <3> HIDE DEF b, right
    <3> QED BY <3>1, <3>2, SubSeqProperties
  <2> HIDE DEF left, right
  <2>5. Len(left) = k - 1 /\ Len(right) = n - k
    BY <1>1, <2>3, <2>4
  <2>6. \A i \in 1..(k - 1) : left[i] = stack[i]
    <3> TAKE i \in 1..(k - 1)
    <3>1. i \in 1..((k - 1) - 1 + 1) /\ 1 + i - 1 = i
      BY <2>1
    <3> QED BY <2>3, <3>1
  <2>7. \A i \in 1..(n - k) : right[i] = stack[k + i]
    <3> TAKE i \in 1..(n - k)
    <3>1. i \in 1..(n - (k + 1) + 1) /\ (k + 1) + i - 1 = k + i
      BY <2>1
    <3> QED BY <2>4, <3>1
  <2> QED BY <2>3, <2>4, <2>5, <2>6, <2>7
<1> HIDE DEF left, right, n
<1>6. rest = left \o right
  BY DEF RemoveAt, left, right, n
<1> HIDE DEF rest
<1>7. rest \in Seq(S) /\ DOMAIN rest = 1..(n - 1)
  BY <1>1, <1>5, <1>6
<1>8. \A i \in 1..(n - 1) : rest[i] = IF i < k THEN stack[i] ELSE stack[i + 1]
  <2>1. \A i \in 1..(n - 1) : i < k => rest[i] = left[i] /\ i \in 1..(k - 1)
    BY <1>1, <1>5, <1>6
  <2>2. \A i \in 1..(n - 1) : ~(i < k) => rest[i] = right[i - (k - 1)] /\ i - (k - 1) \in 1..(n - k)
    BY <1>1, <1>5, <1>6
  <2> SUFFICES ASSUME NEW i \in 1..(n - 1)
               PROVE  rest[i] = IF i < k THEN stack[i] ELSE stack[i + 1]
    OBVIOUS
  <2>3. CASE i < k
    BY <1>5, <2>1, <2>3
  <2>4. CASE ~(i < k)
    <3>1. i - (k - 1) \in 1..(n - k) /\ rest[i] = right[i - (k - 1)] /\ k + (i - (k - 1)) = i + 1
      BY <1>1, <2>2, <2>4
    <3>2. right[i - (k - 1)] = stack[k + (i - (k - 1))]
      BY <1>5, <3>1
    <3> QED BY <2>4, <3>1, <3>2
  <2> QED BY <2>3, <2>4
<1> DEFINE to == [i \in 1..(n - 1) |-> IF i < k THEN i ELSE i + 1]
<1>9. \A i \in 1..(n - 1) : to[i] \in DOMAIN stack /\ to[i] # k /\ rest[i] = stack[to[i]]
  BY <1>1, <1>8
<1>10. \A i, j \in 1..(n - 1) : to[i] = to[j] => i = j
  BY <1>1
<1> HIDE DEF to
<1>11. \A i, j \in DOMAIN rest : rest[i] = rest[j] => i = j
  BY <1>7, <1>9, <1>10
<1>12. \A i \in 1..(n - 1) : \E j \in 1..n : j # k /\ rest[i] = stack[j]
  BY <1>1, <1>8
<1>13. \A j \in 1..n : j # k => \E i \in 1..(n - 1) : rest[i] = stack[j]
  <2> SUFFICES ASSUME NEW j \in 1..n, j # k PROVE \E i \in 1..(n - 1) : rest[i] = stack[j]
    OBVIOUS
  <2>1. CASE j < k
    <3>1. j \in 1..(n - 1) /\ rest[j] = stack[j]
      BY <1>1, <1>8, <2>1
    <3> QED BY <3>1
  <2>2. CASE j > k
    <3>1. j - 1 \in 1..(n - 1) /\ rest[j - 1] = stack[j]
      BY <1>1, <1>8, <2>2
    <3> QED BY <3>1
  <2> QED BY <1>1, <2>1, <2>2
<1>14. Range(rest) = Range(stack) \ {stack[k]}
  <2>1. \A x : x \in Range(rest) <=> \E i \in 1..(n - 1) : x = rest[i]
    BY <1>7 DEF Range
  <2>2. \A x : x \in Range(stack) <=> \E j \in 1..n : x = stack[j]
    BY <1>1 DEF Range
  <2>3. \A j \in 1..n : j # k => stack[j] # stack[k]
    BY <1>1
  <2>4. ASSUME NEW x, x \in Range(rest)
        PROVE  x \in Range(stack) \ {stack[k]}
    <3>1. PICK i \in 1..(n - 1) : x = rest[i]
      BY <2>1, <2>4
    <3>2. PICK j \in 1..n : j # k /\ rest[i] = stack[j]
      BY <1>12
    <3> QED BY <2>2, <2>3, <3>1, <3>2
  <2>5. ASSUME NEW x, x \in Range(stack) \ {stack[k]}
        PROVE  x \in Range(rest)
    <3>1. PICK j \in 1..n : x = stack[j]
      BY <2>2, <2>5
    <3>2. j # k
      BY <2>5, <3>1
    <3>3. PICK i \in 1..(n - 1) : rest[i] = stack[j]
      BY <1>13, <3>2
    <3> QED BY <2>1, <3>1, <3>3
  <2> QED BY <2>4, <2>5
<1> DEFINE popped == Popped(stack, stack[k])
<1>15. /\ popped \in Seq(S)
       /\ \A i, j \in DOMAIN popped : popped[i] = popped[j] => i = j
       /\ Range(popped) = Range(stack) \ {stack[k]}
  <2>1. popped = rest
    BY <1>4
  <2> HIDE DEF popped
  <2> QED BY <1>7, <1>11, <1>14, <2>1
<1> QED BY <1>15

LEMMA CountFields ==
  ASSUME NEW p \in Procs, NEW c \in Collectors(p), NEW kind
  PROVE  LET d == Count(c, kind)
         IN /\ d \in Collectors(p) /\ d.stack = c.stack /\ d.next = c.next /\ d.events = c.events
            /\ d.dropped = c.dropped
            /\ \A k \in Counted : Counter(d, k) = Counter(c, k) + Ends(k, kind, "end")
<1>1. c.tools \in Nat /\ c.hops \in Nat
  BY DEF Collectors
<1> DEFINE t == IF kind = "tool.call" THEN c.tools + 1 ELSE c.tools
           h == IF kind = "agentcore.invoke" THEN c.hops + 1 ELSE c.hops
<1>2. t \in Nat /\ h \in Nat
  BY <1>1
<1>3. Count(c, kind) = [c EXCEPT !.tools = t, !.hops = h]
  BY DEF Count
<1>4. \A k \in Counted :
        (IF k = "tool.call" THEN t ELSE IF k = "tool.mcp" THEN c.mcp ELSE h)
          = Counter(c, k) + Ends(k, kind, "end")
  <2>1. c.mcp \in Nat
    BY DEF Collectors
  <2> QED BY <1>1, <2>1 DEF Counted, Counter, Ends
<1> HIDE DEF t, h
<1>5. /\ Count(c, kind).tools = t /\ Count(c, kind).hops = h /\ Count(c, kind).mcp = c.mcp
  BY <1>2, <1>3 DEF Collectors
<1>6. \A k \in Counted : Counter(Count(c, kind), k) = Counter(c, k) + Ends(k, kind, "end")
  BY <1>4, <1>5 DEF Counter
<1> QED BY <1>2, <1>3, <1>6 DEF Collectors

LEMMA EndSound ==
  ASSUME NEW p \in Procs, NEW c \in SoundOf(p), NEW id \in OnStack(c),
         NEW kind \in Kinds, NEW size \in Nat
  PROVE  LET d == end(c, id, kind, size)
         IN d \in SoundOf(p) /\ OnStack(d) = OnStack(c) \ {id} /\ Emits(p, c, d, kind, "end")
<1> DEFINE counted == Count(c, kind)
           d == [counted EXCEPT !.next = @ + 1, !.stack = Popped(@, id)]
           ev == Event(NewId(c), id, kind, "end", size)
<1>1. c \in Collectors(p) /\ c.name = p /\ c.next \in Nat /\ c.stack \in Seq(Ids) /\ Sound(c)
  BY DEF SoundOf, Collectors
<1>2. /\ counted \in Collectors(p) /\ counted.stack = c.stack /\ counted.next = c.next
      /\ counted.events = c.events /\ counted.dropped = c.dropped
      /\ \A k \in Counted : Counter(counted, k) = Counter(c, k) + Ends(k, kind, "end")
  BY <1>1, CountFields
<1>3. end(c, id, kind, size) = emit(d, ev)
  BY DEF end
<1> HIDE DEF counted
<1>4. \A i, j \in DOMAIN c.stack : c.stack[i] = c.stack[j] => i = j
  BY <1>1 DEF Sound
<1> DEFINE rest == Popped(c.stack, id)
<1>5. /\ rest \in Seq(Ids) /\ \A i, j \in DOMAIN rest : rest[i] = rest[j] => i = j
      /\ Range(rest) = Range(c.stack) \ {id}
  <2>1. PICK k \in DOMAIN c.stack : id = c.stack[k]
    BY DEF OnStack
  <2> HIDE DEF rest
  <2>2. /\ Popped(c.stack, c.stack[k]) \in Seq(Ids)
        /\ \A i, j \in DOMAIN Popped(c.stack, c.stack[k]) :
             Popped(c.stack, c.stack[k])[i] = Popped(c.stack, c.stack[k])[j] => i = j
        /\ Range(Popped(c.stack, c.stack[k])) = Range(c.stack) \ {c.stack[k]}
    BY <1>1, <1>4, PoppedOne
  <2>3. rest = Popped(c.stack, c.stack[k])
    BY <2>1 DEF rest
  <2> QED BY <2>1, <2>2, <2>3
<1> HIDE DEF rest
<1>6. /\ d \in Collectors(p) /\ d.events = c.events /\ d.next = c.next + 1 /\ d.stack = rest
      /\ d.dropped = c.dropped /\ d.tools = counted.tools /\ d.mcp = counted.mcp /\ d.hops = counted.hops
  <2>1. c.next + 1 \in Nat \ {0}
    BY <1>1
  <2>2. d = [counted EXCEPT !.next = c.next + 1, !.stack = rest]
    BY <1>2 DEF rest
  <2>3. d \in Collectors(p)
    BY <1>2, <1>5, <2>1, <2>2 DEF Collectors
  <2> QED BY <1>2, <2>2, <2>3 DEF Collectors
<1> HIDE DEF d
<1>7. OnStack(d) = OnStack(c) \ {id}
  BY <1>5, <1>6 DEF OnStack, Range
<1>8. \A x \in OnStack(c) : x \in Ids /\ x[1] = p /\ x[2] < c.next /\ x \notin EndedSpans(c)
  BY <1>1 DEF Sound
<1>9. \A x \in Ids : x[2] \in Nat
  BY DEF Ids
<1>10. d \in SoundOf(p) /\ EndedSpans(d) = EndedSpans(c)
  <2>1. c.next <= d.next
    BY <1>1, <1>6
  <2>2. \A x \in OnStack(d) : x \in Ids /\ x[1] = p /\ x[2] < d.next /\ x \notin EndedSpans(c)
    BY <1>1, <1>6, <1>7, <1>8, <1>9
  <2> QED BY <1>5, <1>6, <2>1, <2>2, Restacked
<1>17. \A k \in Counted : Counter(d, k) = Counter(c, k) + Ends(k, kind, "end")
  BY <1>2, <1>6 DEF Counter
<1>11. /\ ev \in EventsOf(p) /\ ev.half = "end" /\ ev.parent = id
       /\ ev.id = NewId(c) /\ ev.id = <<p, c.next>> /\ ev.kind = kind
  BY <1>8, TopSpan DEF Event, EventsOf
<1>15. Straight(ev) /\ ev.id[1] = p
  BY <1>8, <1>11 DEF Straight
<1> HIDE DEF ev
<1>12. Follows(d, ev)
  <2>1. id \in Ids /\ id[1] = p /\ id[2] < d.next /\ id \notin EndedSpans(d) /\ id \notin OnStack(d)
    BY <1>1, <1>6, <1>7, <1>8, <1>9, <1>10
  <2>2. d.name = p
    BY <1>6 DEF Collectors
  <2> QED BY <1>11, <2>1, <2>2 DEF Follows
<1> DEFINE k == emit(d, ev)
<1>13. Grows(p, d, k)
  BY <1>10, <1>11, <1>12, EmitSound
<1> HIDE DEF k
<1>14. k \in SoundOf(p) /\ OnStack(k) = OnStack(d)
  BY <1>13 DEF Grows, OnStack
<1>16. Emits(p, c, k, kind, "end")
  BY <1>3, <1>6, <1>10, <1>11, <1>12, <1>15, <1>17 DEF Emits, k
<1> QED BY <1>3, <1>7, <1>14, <1>16 DEF k

-----------------------------------------------------------------------------
(* The splice *)

LEMMA SpliceSound ==
  ASSUME NEW p \in Procs, NEW q \in Procs, Of(q) \subseteq Of(p) \ {p},
         NEW c \in SoundOf(p), NEW ev \in EventsOf(q), NEW seq, NEW span \in Ids
  PROVE  Grows(p, c, Splice(c, ev, seq, span))
<1> DEFINE rewired == Rewire(ev, seq, span)
           d == emit(c, rewired)
           counted == IF ev.half = "end" THEN Count(d, ev.kind) ELSE d
           e == CountNested(d, ev)
<1>1. rewired \in EventsOf(p) /\ rewired.id[1] # p
  <2>1. ev.id \in Of(q) \X Nat /\ ev.id \in Of(p) \X Nat /\ ev.id[1] # p
    BY DEF EventsOf
  <2>2. rewired \in {ev, [ev EXCEPT !.parent = span]}
    BY DEF Rewire
  <2> HIDE DEF rewired
  <2>3. ev \in EventsOf(p) /\ [ev EXCEPT !.parent = span] \in EventsOf(p)
    BY <2>1 DEF EventsOf
  <2>4. rewired.id = ev.id
    BY <2>2 DEF EventsOf
  <2> QED BY <2>1, <2>2, <2>3, <2>4
<1> HIDE DEF rewired
<1>2. c.name = p
  BY DEF SoundOf, Collectors
<1>3. Grows(p, c, d)
  BY <1>1, <1>2, EmitSound DEF Follows
<1>4. Splice(c, ev, seq, span) = e
  BY DEF Splice, rewired
<1> HIDE DEF d
<1>5. d \in SoundOf(p) /\ d \in Collectors(p) /\ d.next \in Nat
  BY <1>3 DEF Grows, SoundOf, Collectors
<1>6. /\ counted \in Collectors(p) /\ counted.stack = d.stack /\ counted.next = d.next
      /\ counted.events = d.events
  BY <1>5, CountFields
<1>7. Same(p, d, e)
  <2> DEFINE m == IF ev.kind = "tool.mcp" THEN counted.mcp + 1 ELSE counted.mcp
  <2>1. e = [counted EXCEPT !.mcp = m]
    BY DEF CountNested
  <2> HIDE DEF counted
  <2>2. m \in Nat
    BY <1>6 DEF Collectors
  <2> HIDE DEF m, e
  <2>3. e \in Collectors(p)
    BY <1>6, <2>1, <2>2 DEF Collectors
  <2>4. e.stack = d.stack /\ e.next = d.next /\ e.events = d.events
    BY <1>6, <2>1 DEF Collectors
  <2> QED BY <1>5, <2>3, <2>4 DEF Same
<1> HIDE DEF e
<1>8. Unmoved(p, d, e) /\ e.next \in Nat /\ c.next \in Nat
  BY <1>5, <1>7, SameSound DEF Same, SoundOf, Collectors
<1> QED BY <1>3, <1>4, <1>5, <1>8 DEF Grows, Unmoved

(* Induction over the natural numbers, over a set of them: what has 0, and *)
(* with every number the next, has every number.                           *)
LEMMA EveryNumber ==
  ASSUME NEW S, 0 \in S, \A n \in Nat : n \in S => n + 1 \in S
  PROVE  Nat \subseteq S
<1> DEFINE Less == {ss \in Nat \X Nat : ss[1] < ss[2]}
<1>1. IsWellFoundedOn(Less, Nat)
  BY NatLessThanWellFounded DEF OpToRel
<1> SUFFICES ASSUME Nat \ S # {} PROVE FALSE
  OBVIOUS
<1>2. PICK i \in Nat \ S : \A j \in Nat \ S : ~(<<j, i>> \in Less)
  <2> HIDE DEF Less
  <2> QED BY <1>1, WFMin
<1>3. \A j \in Nat \ S : ~(j < i)
  BY <1>2
<1> HIDE DEF Less
<1>4. i # 0 /\ i - 1 \in Nat /\ (i - 1) + 1 = i
  OBVIOUS
<1>5. i - 1 \in S
  BY <1>3, <1>4
<1> QED BY <1>4, <1>5

(* What attachEventsNested makes of its collector, event after event. *)
SpliceTo(c, seq, span, f, n) == IF n = 0 THEN c ELSE Splice(f[n - 1], seq[n], seq, span)
SplicesTo(c, seq, span, f, m) == f = [n \in 0..m |-> SpliceTo(c, seq, span, f, n)]

LEMMA SplicesEach ==
  ASSUME NEW c, NEW seq, NEW span, NEW f, NEW m
  PROVE  SplicesTo(c, seq, span, f, m) <=>
           /\ f = [n \in 0..m |-> f[n]]
           /\ \A n \in 0..m : f[n] = SpliceTo(c, seq, span, f, n)
BY DEF SplicesTo

LEMMA SplicesExist ==
  ASSUME NEW c, NEW seq, NEW span, NEW m \in Nat
  PROVE  \E f : SplicesTo(c, seq, span, f, m)
<1> DEFINE S == {n \in Nat : \E f : SplicesTo(c, seq, span, f, n)}
<1>1. 0 \in S
  <2> DEFINE f == [n \in 0..0 |-> c]
  <2>1. f = [n \in 0..0 |-> f[n]] /\ \A n \in 0..0 : f[n] = SpliceTo(c, seq, span, f, n)
    BY DEF SpliceTo
  <2> HIDE DEF f
  <2>2. SplicesTo(c, seq, span, f, 0)
    BY <2>1, SplicesEach
  <2> QED BY <2>2
<1>2. ASSUME NEW n \in Nat, n \in S PROVE n + 1 \in S
  <2>1. PICK f : SplicesTo(c, seq, span, f, n)
    BY <1>2
  <2>2. \A i \in 0..n : f[i] = SpliceTo(c, seq, span, f, i)
    BY <2>1, SplicesEach
  <2> DEFINE last == Splice(f[n], seq[n + 1], seq, span)
             g == [i \in 0..(n + 1) |-> IF i = n + 1 THEN last ELSE f[i]]
  <2> HIDE DEF last
  <2>3. g = [i \in 0..(n + 1) |-> g[i]]
    OBVIOUS
  <2>4. \A i \in 0..n : g[i] = f[i]
    OBVIOUS
  <2>5. g[n + 1] = last
    OBVIOUS
  <2> HIDE DEF g
  <2>6. ASSUME NEW i \in 0..(n + 1) PROVE g[i] = SpliceTo(c, seq, span, g, i)
    <3>1. CASE i = n + 1
      <4>1. g[(n + 1) - 1] = f[n] /\ n + 1 # 0
        BY <2>4
      <4> QED BY <2>5, <3>1, <4>1 DEF SpliceTo, last
    <3>2. CASE i = 0
      <4>1. 0 \in 0..n
        OBVIOUS
      <4> QED BY <2>2, <2>4, <3>2, <4>1 DEF SpliceTo
    <3>3. CASE i # 0 /\ i # n + 1
      <4>1. i \in 0..n /\ i - 1 \in 0..n
        BY <3>3
      <4> QED BY <2>2, <2>4, <3>3, <4>1 DEF SpliceTo
    <3> QED BY <3>1, <3>2, <3>3
  <2>7. SplicesTo(c, seq, span, g, n + 1)
    BY <2>3, <2>6, SplicesEach
  <2> QED BY <2>7
<1> HIDE DEF S
<1>3. Nat \subseteq S
  BY <1>1, <1>2, EveryNumber
<1> QED BY <1>3 DEF S

LEMMA AttachSound ==
  ASSUME NEW p \in Procs, NEW q \in Procs, Of(q) \subseteq Of(p) \ {p},
         NEW c \in SoundOf(p), NEW seq \in Seq(EventsOf(q)), NEW span \in Ids, NEW missing \in Nat
  PROVE  Grows(p, c, attachEventsNested(c, seq, span, missing))
<1> DEFINE m == Len(seq)
           h == CHOOSE f : SplicesTo(c, seq, span, f, m)
           e == [h[m] EXCEPT !.nestedDropped = @ + missing]
<1>1. m \in Nat /\ \A n \in 1..m : seq[n] \in EventsOf(q)
  OBVIOUS
<1>2. Grows(p, c, c)
  BY DEF Grows, SoundOf, Collectors
<1>3. attachEventsNested(c, seq, span, missing) \in {c, e}
  BY DEF attachEventsNested, SplicesTo, SpliceTo
<1> HIDE DEF m
<1>4. SplicesTo(c, seq, span, h, m)
  BY <1>1, SplicesExist
<1> HIDE DEF h
<1>5. \A n \in 0..m : h[n] = SpliceTo(c, seq, span, h, n)
  BY <1>4, SplicesEach
<1> DEFINE S == {n \in Nat : n <= m => Grows(p, c, h[n])}
<1>6. 0 \in S
  <2>1. 0 \in 0..m
    BY <1>1
  <2>2. h[0] = c
    BY <1>5, <2>1 DEF SpliceTo
  <2> QED BY <1>2, <2>2
<1>7. ASSUME NEW n \in Nat, n \in S PROVE n + 1 \in S
  <2> SUFFICES ASSUME n + 1 <= m PROVE Grows(p, c, h[n + 1])
    OBVIOUS
  <2>1. n + 1 \in 0..m /\ n + 1 # 0 /\ (n + 1) - 1 = n /\ n + 1 \in 1..m /\ n <= m
    BY <1>1
  <2>2. h[n + 1] = Splice(h[n], seq[n + 1], seq, span)
    BY <1>5, <2>1 DEF SpliceTo
  <2>3. Grows(p, c, h[n])
    BY <1>7, <2>1
  <2>4. h[n] \in SoundOf(p) /\ seq[n + 1] \in EventsOf(q)
    BY <1>1, <2>1, <2>3 DEF Grows
  <2>5. Grows(p, h[n], Splice(h[n], seq[n + 1], seq, span))
    BY <2>4, SpliceSound
  <2>6. c.next \in Nat /\ h[n].next \in Nat /\ h[n + 1].next \in Nat
    BY <2>2, <2>4, <2>5 DEF Grows, SoundOf, Collectors
  <2> QED BY <2>2, <2>3, <2>5, <2>6 DEF Grows
<1> HIDE DEF S
<1>8. Nat \subseteq S
  BY <1>6, <1>7, EveryNumber
<1>9. Grows(p, c, h[m])
  BY <1>1, <1>8 DEF S
<1> DEFINE k == h[m]
<1>10. k \in SoundOf(p) /\ k \in Collectors(p) /\ k.next \in Nat
  BY <1>9 DEF Grows, SoundOf, Collectors
<1>11. Same(p, k, e)
  <2>1. e = [k EXCEPT !.nestedDropped = @ + missing]
    OBVIOUS
  <2> HIDE DEF k, e
  <2>2. k.nestedDropped + missing \in Nat
    BY <1>10 DEF Collectors
  <2>3. e \in Collectors(p)
    BY <1>10, <2>1, <2>2 DEF Collectors
  <2>4. e.stack = k.stack /\ e.next = k.next /\ e.events = k.events
    BY <1>10, <2>1 DEF Collectors
  <2> QED BY <1>10, <2>3, <2>4 DEF Same
<1>12. Grows(p, c, k)
  BY <1>9
<1> HIDE DEF k, e
<1>13. Unmoved(p, k, e) /\ e.next \in Nat /\ c.next \in Nat
  BY <1>10, <1>11, SameSound DEF Same, SoundOf, Collectors
<1>14. Grows(p, c, e)
  BY <1>10, <1>12, <1>13 DEF Grows, Unmoved
<1> QED BY <1>2, <1>3, <1>14

-----------------------------------------------------------------------------
(* The relay *)

Frame(p) == [type : {"trace"}, ev : EventsOf(p)] \cup [type : {"done"}, lost : Nat]

Called(p) == at[p] \in {"fresh", "running", "closed", "broken"}

(* Every process has a sound collector, and only events of its own, and of *)
(* the runtimes it calls, are on the way to its caller.                    *)
RelayTyped ==
  /\ path \in {"flow", "direct", "hop"}
  /\ DOMAIN col = Procs /\ \A p \in Procs : col[p] \in SoundOf(p)
  /\ at \in [Procs -> {"idle", "fresh", "running", "closed", "broken", "over"}]
  /\ DOMAIN wrapper = Runtimes /\ open \in [Specialists -> SUBSET Ids]
  /\ DOMAIN link = Runtimes /\ \A p \in Runtimes : link[p] \in Seq(Frame(p))
  /\ DOMAIN nested = Runtimes /\ \A p \in Runtimes : nested[p] \in Seq(EventsOf(p))
  /\ lost \in [Runtimes -> Nat]

(* The spans a specialist has to end are on its stack, each once: the one  *)
(* of its model, which is its first, and those of its tools.               *)
SpansOpen ==
  \A s \in Specialists :
    /\ open[s] \subseteq OnStack(col[s])
    /\ at[s] \in {"idle", "fresh"} => col[s].next = 1 /\ open[s] = {}
    /\ at[s] = "running" => <<s, 1>> \in OnStack(col[s]) \ open[s]

(* So is the span of an invocation that is not over, in its caller's, and  *)
(* a caller has one at a time.                                             *)
Invoked ==
  /\ \A p \in Runtimes : Called(p) => wrapper[p] \in OnStack(col[Caller(p)])
  /\ \A p, q \in Runtimes : Called(p) /\ Called(q) /\ Caller(p) = Caller(q) => p = q

RelayInv == RelayTyped /\ SpansOpen /\ Invoked

LEMMA Callers ==
  ASSUME NEW p \in Runtimes, path \in {"flow", "direct", "hop"}
  PROVE  /\ Caller(p) \in {"api", "orchestrator"} /\ Caller(p) \in Procs \ Specialists
         /\ Of(p) \subseteq Of(Caller(p)) \ {Caller(p)} /\ p # Caller(p)
         /\ Caller(p) = "orchestrator" => p \in Specialists
<1>1. p \in Specialists \/ p = "orchestrator"
  BY DEF Procs, Runtimes
<1>2. "orchestrator" \notin Specialists /\ "api" \notin Specialists
  BY RelayAssumption
<1> QED BY <1>1, <1>2 DEF Caller, Procs, Runtimes, Of

LEMMA EventsOfMore ==
  ASSUME NEW p, NEW q, Of(q) \subseteq Of(p)
  PROVE  EventsOf(q) \subseteq EventsOf(p) /\ Frame(q) \subseteq Frame(p)
<1>1. EventsOf(q) \subseteq EventsOf(p)
  BY DEF EventsOf
<1> QED BY <1>1 DEF Frame

LEMMA RecordedFrames ==
  ASSUME NEW p \in Procs, NEW c \in SoundOf(p), NEW d \in SoundOf(p)
  PROVE  Frames(Recorded(c, d)) \in Seq(Frame(p))
<1>1. c.events \in Seq(EventsOf(p)) /\ d.events \in Seq(EventsOf(p))
  BY DEF SoundOf, Collectors
<1> DEFINE m == Len(c.events) + 1
           n == Len(d.events)
           new == SubSeq(d.events, m, n)
<1>2. m \in Nat \ {0} /\ n \in Nat /\ \A i \in 1..n : d.events[i] \in EventsOf(p)
  BY <1>1
<1> HIDE DEF m, n
<1>3. m \in Int /\ n \in Int /\ \A i \in m..n : d.events[i] \in EventsOf(p)
  BY <1>2
<1>4. new \in Seq(EventsOf(p))
  BY <1>3, SubSeqProperties
<1>5. Recorded(c, d) = new
  BY DEF Recorded, m, n
<1> HIDE DEF new
<1>6. Len(new) \in Nat /\ DOMAIN new = 1..Len(new) /\ \A i \in DOMAIN new : new[i] \in EventsOf(p)
  BY <1>4
<1>7. \A i \in DOMAIN new : [type |-> "trace", ev |-> new[i]] \in Frame(p)
  BY <1>6 DEF Frame
<1> DEFINE frames == [i \in DOMAIN new |-> [type |-> "trace", ev |-> new[i]]]
<1>8. frames \in [1..Len(new) -> Frame(p)]
  BY <1>6, <1>7
<1>9. frames \in Seq(Frame(p))
  <2> HIDE DEF frames
  <2> QED BY <1>6, <1>8
<1> QED BY <1>5, <1>9 DEF Frames

(* Recording keeps collectors and frames what they are. *)
LEMMA RecordKeeps ==
  ASSUME RelayTyped, NEW p \in Procs, NEW c \in SoundOf(p), NEW more \in Seq(Frame(p)),
         Record(p, c, more)
  PROVE  /\ DOMAIN col' = Procs /\ col'[p] = c
         /\ \A q \in Procs \ {p} : col'[q] = col[q]
         /\ \A q \in Procs : col'[q] \in SoundOf(q)
         /\ DOMAIN link' = Runtimes /\ \A q \in Runtimes : link'[q] \in Seq(Frame(q))
<1>1. DOMAIN col = Procs /\ col' = [col EXCEPT ![p] = c] /\ \A q \in Procs : col[q] \in SoundOf(q)
  BY DEF RelayTyped, Record
<1>2. /\ DOMAIN col' = Procs /\ col'[p] = c
      /\ \A q \in Procs \ {p} : col'[q] = col[q]
      /\ \A q \in Procs : col'[q] \in SoundOf(q)
  BY <1>1
<1>3. CASE p = "api"
  BY <1>2, <1>3 DEF Record, RelayTyped
<1>4. CASE p # "api"
  <2>1. DOMAIN link = Runtimes /\ p \in Runtimes /\ \A q \in Runtimes : link[q] \in Seq(Frame(q))
    BY <1>4 DEF RelayTyped, Runtimes
  <2> DEFINE new == Frames(Recorded(col[p], c))
             queue == link[p] \o new \o more
  <2>2. new \in Seq(Frame(p))
    BY <1>1, RecordedFrames
  <2>3. link' = [link EXCEPT ![p] = queue]
    BY <1>4 DEF Record
  <2> HIDE DEF new
  <2>4. queue \in Seq(Frame(p))
    BY <2>1, <2>2
  <2> HIDE DEF queue
  <2> QED BY <1>2, <2>1, <2>3, <2>4
<1> QED BY <1>3, <1>4

LEMMA InitRelay == RelayInit => RelayInv
<1> SUFFICES ASSUME RelayInit PROVE RelayInv
  OBVIOUS
<1>1. PICK max \in TurnCaps : col = [p \in Procs |-> NewCollector(p, max)]
  BY DEF RelayInit
<1>2. max \in Nat
  BY CollectorAssumption
<1>3. ASSUME NEW p \in Procs PROVE col[p] \in SoundOf(p) /\ OnStack(col[p]) = {} /\ col[p].next = 1
  <2> DEFINE c == NewCollector(p, max)
  <2>1. c \in Collectors(p) /\ c.stack = <<>> /\ c.events = <<>> /\ c.next = 1
    BY <1>2 DEF NewCollector, Collectors
  <2>2. col[p] = c
    BY <1>1
  <2> HIDE DEF c
  <2>3. OnStack(c) = {} /\ EndedSpans(c) = {}
    BY <2>1 DEF OnStack, EndedSpans
  <2>4. Sound(c)
    BY <2>1, <2>3 DEF Sound
  <2> QED BY <2>1, <2>2, <2>3, <2>4 DEF SoundOf
<1>4. path \in {"flow", "direct", "hop"}
  BY RelayAssumption DEF RelayInit
<1>5. RelayTyped
  <2>1. DOMAIN col = Procs
    BY <1>1
  <2>2. at \in [Procs -> {"idle", "fresh", "running", "closed", "broken", "over"}]
    BY DEF RelayInit
  <2> QED BY <1>3, <1>4, <2>1, <2>2 DEF RelayTyped, RelayInit
<1>6. \A s \in Specialists : s \in Procs /\ s # "api"
  BY RelayAssumption DEF Procs
<1>7. SpansOpen
  BY <1>3, <1>6 DEF RelayInit, SpansOpen
<1>8. Invoked
  BY DEF RelayInit, Invoked, Called, Runtimes
<1> QED BY <1>5, <1>7, <1>8 DEF RelayInv

(* A specialist records, and nothing but its own invocation changes. *)
LEMMA SpecialistStep ==
  ASSUME RelayInv, NEW s \in Specialists, NEW c \in SoundOf(s), NEW more \in Seq(Frame(s)),
         Record(s, c, more), Called(s),
         NEW v \in {"fresh", "running", "closed", "broken"}, at' = [at EXCEPT ![s] = v],
         NEW o \in SUBSET OnStack(c), open' = [open EXCEPT ![s] = o],
         v = "fresh" => c.next = 1 /\ o = {},
         v = "running" => <<s, 1>> \in OnStack(c) \ o,
         UNCHANGED <<path, wrapper, nested, lost>>
  PROVE  RelayInv'
<1>1. /\ DOMAIN col' = Procs /\ col'[s] = c /\ \A q \in Procs \ {s} : col'[q] = col[q]
      /\ \A q \in Procs : col'[q] \in SoundOf(q)
      /\ DOMAIN link' = Runtimes /\ \A q \in Runtimes : link'[q] \in Seq(Frame(q))
  <2>1. s \in Procs
    BY DEF Procs
  <2> QED BY <2>1, RecordKeeps DEF RelayInv
<1>2. /\ at \in [Procs -> {"idle", "fresh", "running", "closed", "broken", "over"}]
      /\ open \in [Specialists -> SUBSET Ids] /\ s \in Procs /\ path \in {"flow", "direct", "hop"}
  BY DEF RelayInv, RelayTyped, Procs
<1>3. at' \in [Procs -> {"idle", "fresh", "running", "closed", "broken", "over"}]
  BY <1>2
<1>4. RelayTyped'
  <2>1. o \subseteq Ids
    BY DEF SoundOf, Sound
  <2>2. open' \in [Specialists -> SUBSET Ids]
    BY <1>2, <2>1
  <2> QED BY <1>1, <1>2, <1>3, <2>2 DEF RelayInv, RelayTyped
<1>5. at'[s] = v /\ open'[s] = o /\ \A q \in Procs \ {s} : at'[q] = at[q]
  BY <1>2
<1>6. \A q \in Specialists \ {s} : open'[q] = open[q] /\ q \in Procs
  BY <1>2 DEF Procs
<1>7. SpansOpen'
  <2> SUFFICES ASSUME NEW q \in Specialists
               PROVE  /\ open'[q] \subseteq OnStack(col'[q])
                      /\ at'[q] \in {"idle", "fresh"} => col'[q].next = 1 /\ open'[q] = {}
                      /\ at'[q] = "running" => <<q, 1>> \in OnStack(col'[q]) \ open'[q]
    BY DEF SpansOpen
  <2>1. CASE q = s
    BY <1>1, <1>5, <2>1
  <2>2. CASE q # s
    <3>1. open'[q] = open[q] /\ at'[q] = at[q] /\ col'[q] = col[q]
      BY <1>1, <1>5, <1>6, <2>2
    <3> QED BY <3>1 DEF RelayInv, SpansOpen
  <2> QED BY <2>1, <2>2
<1>8. \A q \in Runtimes : q \in Procs /\ (Called(q)' <=> Called(q))
  BY <1>5 DEF Called, Runtimes
<1>9. \A q \in Runtimes : Caller(q)' = Caller(q) /\ Caller(q) \in Procs \ {s}
  BY <1>2, Callers DEF Caller
<1>10. Invoked'
  <2>1. \A q \in Runtimes : col'[Caller(q)'] = col[Caller(q)]
    BY <1>1, <1>9
  <2>2. ASSUME NEW q \in Runtimes, Called(q)' PROVE wrapper'[q] \in OnStack(col'[Caller(q)'])
    BY <1>8, <2>1, <2>2 DEF RelayInv, Invoked
  <2>3. ASSUME NEW p \in Runtimes, NEW q \in Runtimes, Called(p)', Called(q)', Caller(p)' = Caller(q)'
        PROVE  p = q
    BY <1>8, <1>9, <2>3 DEF RelayInv, Invoked
  <2> QED BY <2>2, <2>3 DEF Invoked
<1> QED BY <1>4, <1>7, <1>10 DEF RelayInv

(* A caller records, and only the invocation of a runtime it calls, or its *)
(* own, changes.                                                           *)
LEMMA CallerStep ==
  ASSUME RelayInv, NEW r \in Procs \ Specialists, NEW c \in SoundOf(r), NEW more \in Seq(Frame(r)),
         Record(r, c, more),
         at' \in [Procs -> {"idle", "fresh", "running", "closed", "broken", "over"}],
         \A s \in Specialists : \/ at'[s] = at[s]
                                \/ at[s] = "idle" /\ at'[s] = "fresh"
                                \/ at'[s] \in {"closed", "broken", "over"},
         DOMAIN wrapper' = Runtimes, UNCHANGED <<path, nested, lost, open>>, Invoked'
  PROVE  RelayInv'
<1>1. /\ DOMAIN col' = Procs /\ col'[r] = c /\ \A q \in Procs \ {r} : col'[q] = col[q]
      /\ \A q \in Procs : col'[q] \in SoundOf(q)
      /\ DOMAIN link' = Runtimes /\ \A q \in Runtimes : link'[q] \in Seq(Frame(q))
  BY RecordKeeps DEF RelayInv
<1>2. RelayTyped'
  BY <1>1 DEF RelayInv, RelayTyped
<1>3. SpansOpen'
  <2> SUFFICES ASSUME NEW s \in Specialists
               PROVE  /\ open[s] \subseteq OnStack(col'[s])
                      /\ at'[s] \in {"idle", "fresh"} => col'[s].next = 1 /\ open[s] = {}
                      /\ at'[s] = "running" => <<s, 1>> \in OnStack(col'[s]) \ open[s]
    BY DEF SpansOpen
  <2>1. col'[s] = col[s]
    BY <1>1 DEF Procs
  <2> QED BY <2>1 DEF RelayInv, SpansOpen
<1> QED BY <1>2, <1>3 DEF RelayInv

LEMMA SpecialistFacts ==
  ASSUME RelayInv, NEW s \in Specialists
  PROVE  /\ s \in Procs /\ s \in Runtimes /\ col[s] \in SoundOf(s)
         /\ at = [at EXCEPT ![s] = at[s]] /\ open = [open EXCEPT ![s] = open[s]]
         /\ NewId(col[s]) \notin OnStack(col[s]) /\ NewId(col[s]) = <<s, col[s].next>>
         /\ <<>> \in Seq(Frame(s))
<1>1. s \in Procs /\ s \in Runtimes
  BY RelayAssumption DEF Procs, Runtimes
<1>2. col[s] \in SoundOf(s)
  BY <1>1 DEF RelayInv, RelayTyped
<1>3. at = [at EXCEPT ![s] = at[s]] /\ open = [open EXCEPT ![s] = open[s]]
  BY <1>1 DEF RelayInv, RelayTyped
<1> QED BY <1>1, <1>2, <1>3, TopSpan

LEMMA AnsweringRelay ==
  ASSUME RelayInv, NEW s \in Specialists, NEW size \in {1, MaxEventBytes + 1}, Answering(s, size)
  PROVE  RelayInv'
<1> DEFINE c == start(col[s], "model.request", size)
<1>1. size \in Nat /\ "model.request" \in Kinds
  BY CollectorAssumption DEF Kinds, SpanKinds
<1>2. c \in SoundOf(s) /\ OnStack(c) = OnStack(col[s]) \cup {NewId(col[s])}
  BY <1>1, SpecialistFacts, StartSound
<1>3. /\ Record(s, c, <<>>) /\ at[s] = "fresh" /\ at' = [at EXCEPT ![s] = "running"]
      /\ UNCHANGED <<path, wrapper, nested, lost, open>>
  BY DEF Answering
<1>4. open[s] = {} /\ NewId(col[s]) = <<s, 1>>
  BY <1>3, SpecialistFacts DEF RelayInv, SpansOpen
<1> HIDE DEF c
<1>5. <<s, 1>> \in OnStack(c) \ open[s] /\ open[s] \in SUBSET OnStack(c)
  BY <1>2, <1>4
<1>6. Called(s)
  BY <1>3 DEF Called
<1> QED BY <1>2, <1>3, <1>5, <1>6, SpecialistFacts, SpecialistStep

LEMMA CallToolRelay ==
  ASSUME RelayInv, NEW s \in Specialists, CallTool(s)
  PROVE  RelayInv'
<1> DEFINE c == start(col[s], "tool.call", 1)
           o == open[s] \cup {NewId(col[s])}
<1>1. 1 \in Nat /\ "tool.call" \in Kinds
  BY DEF Kinds, SpanKinds
<1>2. c \in SoundOf(s) /\ OnStack(c) = OnStack(col[s]) \cup {NewId(col[s])}
  BY <1>1, SpecialistFacts, StartSound
<1>3. /\ Record(s, c, <<>>) /\ at[s] = "running" /\ open' = [open EXCEPT ![s] = o]
      /\ UNCHANGED <<path, at, wrapper, nested, lost>>
  BY DEF CallTool, Free, Recording
<1>4. open[s] \subseteq OnStack(col[s]) /\ <<s, 1>> \in OnStack(col[s]) \ open[s]
  BY <1>3 DEF RelayInv, SpansOpen
<1>5. o \in SUBSET OnStack(c) /\ <<s, 1>> \in OnStack(c) \ o
  BY <1>2, <1>4, SpecialistFacts
<1> HIDE DEF c, o
<1>6. Called(s) /\ at' = [at EXCEPT ![s] = "running"]
  BY <1>3, SpecialistFacts DEF Called
<1> QED BY <1>2, <1>3, <1>5, <1>6, SpecialistFacts, SpecialistStep

LEMMA CallMcpRelay ==
  ASSUME RelayInv, NEW s \in Specialists, CallMcp(s)
  PROVE  RelayInv'
<1> DEFINE c == event(col[s], "tool.mcp", 1)
<1>1. 1 \in Nat /\ "tool.mcp" \in Kinds
  BY DEF Kinds
<1>2. c \in SoundOf(s) /\ OnStack(c) = OnStack(col[s])
  BY <1>1, SpecialistFacts, EventSound DEF Grows, OnStack
<1>3. /\ Record(s, c, <<>>) /\ at[s] = "running"
      /\ UNCHANGED <<path, at, wrapper, nested, lost, open>>
  BY DEF CallMcp, Free, Recording
<1> HIDE DEF c
<1>4. open[s] \in SUBSET OnStack(c) /\ <<s, 1>> \in OnStack(c) \ open[s]
  BY <1>2, <1>3 DEF RelayInv, SpansOpen
<1>5. /\ Called(s) /\ at' = [at EXCEPT ![s] = "running"]
      /\ open' = [open EXCEPT ![s] = open[s]]
  BY <1>3, SpecialistFacts DEF Called
<1> QED BY <1>2, <1>3, <1>4, <1>5, SpecialistFacts, SpecialistStep

LEMMA ToolReturnedRelay ==
  ASSUME RelayInv, NEW s \in Specialists, NEW id \in open[s], NEW ok \in BOOLEAN,
         ToolReturned(s, id, ok)
  PROVE  RelayInv'
<1> DEFINE told == IF ok THEN col[s] ELSE event(col[s], "error", 1)
           c == end(told, id, "tool.call", 1)
           o == open[s] \ {id}
<1>1. 1 \in Nat /\ "tool.call" \in Kinds /\ "error" \in Kinds
  BY DEF Kinds, SpanKinds
<1>2. told \in SoundOf(s) /\ OnStack(told) = OnStack(col[s])
  BY <1>1, SpecialistFacts, EventSound DEF Grows, OnStack
<1>3. /\ Record(s, c, <<>>) /\ at[s] = "running" /\ open' = [open EXCEPT ![s] = o]
      /\ UNCHANGED <<path, at, wrapper, nested, lost>>
  BY DEF ToolReturned, Recording
<1> HIDE DEF told
<1>4. open[s] \subseteq OnStack(col[s]) /\ <<s, 1>> \in OnStack(col[s]) \ open[s]
  BY <1>3 DEF RelayInv, SpansOpen
<1>5. c \in SoundOf(s) /\ OnStack(c) = OnStack(col[s]) \ {id}
  BY <1>1, <1>2, <1>4, SpecialistFacts, EndSound
<1> HIDE DEF c
<1>6. o \in SUBSET OnStack(c) /\ <<s, 1>> \in OnStack(c) \ o
  BY <1>4, <1>5
<1> HIDE DEF o
<1>7. Called(s) /\ at' = [at EXCEPT ![s] = "running"]
  BY <1>3, SpecialistFacts DEF Called
<1> QED BY <1>3, <1>5, <1>6, <1>7, SpecialistFacts, SpecialistStep

LEMMA AnsweredRelay ==
  ASSUME RelayInv, NEW s \in Specialists, NEW ok \in BOOLEAN, Answered(s, ok)
  PROVE  RelayInv'
<1> DEFINE c == IF ok THEN end(col[s], <<s, 1>>, "model.request", 1) ELSE col[s]
           more == <<DoneFrame(c)>>
<1>1. 1 \in Nat /\ "model.request" \in Kinds
  BY DEF Kinds, SpanKinds
<1>2. /\ Record(s, c, more) /\ at[s] = "running" /\ (ok => open[s] = {})
      /\ at' = [at EXCEPT ![s] = "closed"] /\ UNCHANGED <<path, wrapper, nested, lost, open>>
  BY DEF Answered, Recording
<1>3. open[s] \subseteq OnStack(col[s]) /\ <<s, 1>> \in OnStack(col[s])
  BY <1>2 DEF RelayInv, SpansOpen
<1>4. c \in SoundOf(s) /\ open[s] \in SUBSET OnStack(c)
  <2>1. CASE ok
    <3> DEFINE d == end(col[s], <<s, 1>>, "model.request", 1)
    <3>1. d \in SoundOf(s)
      BY <1>1, <1>3, SpecialistFacts, EndSound
    <3> HIDE DEF d
    <3> QED BY <1>2, <2>1, <3>1 DEF d
  <2>2. CASE ~ok
    BY <1>3, <2>2, SpecialistFacts
  <2> QED BY <2>1, <2>2
<1> HIDE DEF c
<1>5. more \in Seq(Frame(s))
  <2>1. c.dropped \in Nat
    BY <1>4 DEF SoundOf, Collectors
  <2>2. DoneFrame(c) \in Frame(s)
    BY <2>1 DEF DoneFrame, Frame
  <2> QED BY <2>2
<1> HIDE DEF more
<1>6. Called(s) /\ open' = [open EXCEPT ![s] = open[s]]
  BY <1>2, SpecialistFacts DEF Called
<1> QED BY <1>2, <1>4, <1>5, <1>6, SpecialistFacts, SpecialistStep

LEMMA CallerFacts ==
  ASSUME RelayInv, NEW p \in Runtimes
  PROVE  /\ p \in Procs /\ Caller(p) \in Procs \ Specialists /\ p # Caller(p)
         /\ Caller(p) = "orchestrator" => p \in Specialists
         /\ col[Caller(p)] \in SoundOf(Caller(p)) /\ <<>> \in Seq(Frame(Caller(p)))
         /\ Of(p) \subseteq Of(Caller(p)) \ {Caller(p)}
<1>1. path \in {"flow", "direct", "hop"} /\ \A q \in Procs : col[q] \in SoundOf(q)
  BY DEF RelayInv, RelayTyped
<1> QED BY <1>1, Callers DEF Runtimes

LEMMA InvokeRelay ==
  ASSUME RelayInv, NEW p \in Runtimes, Invoke(p)
  PROVE  RelayInv'
<1> DEFINE r == Caller(p)
           c == start(col[r], "agentcore.invoke", 1)
           v == IF p = "orchestrator" THEN "running" ELSE "fresh"
<1>1. 1 \in Nat /\ "agentcore.invoke" \in Kinds
  BY DEF Kinds, SpanKinds
<1>2. r \in Procs \ Specialists /\ p \in Procs /\ col[r] \in SoundOf(r) /\ <<>> \in Seq(Frame(r))
  BY CallerFacts
<1>3. /\ at[p] = "idle" /\ \A q \in Runtimes : Caller(q) = r => at[q] \in {"idle", "over"}
      /\ Record(r, c, <<>>) /\ wrapper' = [wrapper EXCEPT ![p] = NewId(col[r])]
      /\ at' = [at EXCEPT ![p] = v] /\ UNCHANGED <<path, nested, lost, open>>
  BY DEF Invoke
<1>4. c \in SoundOf(r) /\ NewId(col[r]) \in OnStack(c)
  BY <1>1, <1>2, StartSound
<1> HIDE DEF c
<1>5. /\ at \in [Procs -> {"idle", "fresh", "running", "closed", "broken", "over"}]
      /\ DOMAIN wrapper = Runtimes
  BY DEF RelayInv, RelayTyped
<1>6. /\ at' \in [Procs -> {"idle", "fresh", "running", "closed", "broken", "over"}]
      /\ at'[p] = v /\ \A q \in Procs \ {p} : at'[q] = at[q]
  BY <1>2, <1>3, <1>5
<1>7. /\ DOMAIN wrapper' = Runtimes /\ wrapper'[p] = NewId(col[r])
      /\ \A q \in Runtimes \ {p} : wrapper'[q] = wrapper[q]
  BY <1>3, <1>5
<1>8. \A s \in Specialists : at'[s] = at[s] \/ (at[s] = "idle" /\ at'[s] = "fresh")
  BY <1>3, <1>6, RelayAssumption DEF Procs
<1>9. col'[r] = c /\ \A q \in Procs \ {r} : col'[q] = col[q]
  BY <1>2, <1>3, <1>4, RecordKeeps DEF RelayInv
<1> HIDE DEF v, r
<1>10. \A q \in Runtimes : Caller(q)' = Caller(q) /\ q \in Procs /\ Caller(q) \in Procs
  BY <1>3, CallerFacts DEF Caller
<1>11. \A q \in Runtimes \ {p} : (Called(q)' <=> Called(q)) /\ (Called(q) => Caller(q) # r)
  BY <1>3, <1>6, <1>10 DEF Called
<1>12. Invoked'
  <2>1. ASSUME NEW q \in Runtimes, Called(q)' PROVE wrapper'[q] \in OnStack(col'[Caller(q)'])
    <3>1. CASE q = p
      BY <1>4, <1>7, <1>9, <1>10, <3>1 DEF r
    <3>2. CASE q # p
      <4>1. wrapper'[q] = wrapper[q] /\ col'[Caller(q)'] = col[Caller(q)] /\ Called(q)
        BY <1>7, <1>9, <1>10, <1>11, <2>1, <3>2
      <4> QED BY <4>1 DEF RelayInv, Invoked
    <3> QED BY <3>1, <3>2
  <2>2. ASSUME NEW q1 \in Runtimes, NEW q2 \in Runtimes, Called(q1)', Called(q2)', Caller(q1)' = Caller(q2)'
        PROVE  q1 = q2
    BY <1>10, <1>11, <2>2 DEF RelayInv, Invoked, r
  <2> QED BY <2>1, <2>2 DEF Invoked
<1> QED BY <1>2, <1>3, <1>4, <1>6, <1>7, <1>8, <1>12, CallerStep

LEMMA ReceiveRelay ==
  ASSUME RelayInv, NEW p \in Runtimes, Receive(p)
  PROVE  RelayInv'
<1> DEFINE frame == Head(link[p])
<1>1. /\ DOMAIN link = Runtimes /\ \A q \in Runtimes : link[q] \in Seq(Frame(q))
      /\ DOMAIN nested = Runtimes /\ \A q \in Runtimes : nested[q] \in Seq(EventsOf(q))
      /\ lost \in [Runtimes -> Nat] /\ link[p] # <<>>
  BY DEF RelayInv, RelayTyped, Receive
<1>2. frame \in Frame(p) /\ Tail(link[p]) \in Seq(Frame(p))
  BY <1>1
<1>3. UNCHANGED <<path, col, at, wrapper, open>>
  BY DEF Receive
<1>4. CASE frame.type = "trace"
  <2>1. /\ nested' = [nested EXCEPT ![p] = Append(@, frame.ev)] /\ Forward(p, frame) /\ lost' = lost
    BY <1>4 DEF Receive
  <2> HIDE DEF frame
  <2>2. frame.ev \in EventsOf(p)
    BY <1>2, <1>4 DEF Frame
  <2>3. DOMAIN nested' = Runtimes /\ \A q \in Runtimes : nested'[q] \in Seq(EventsOf(q))
    <3> DEFINE n == Append(nested[p], frame.ev)
    <3>1. n \in Seq(EventsOf(p)) /\ nested' = [nested EXCEPT ![p] = n]
      BY <1>1, <2>1, <2>2
    <3> HIDE DEF n
    <3> QED BY <1>1, <3>1
  <2>4. DOMAIN link' = Runtimes /\ \A q \in Runtimes : link'[q] \in Seq(Frame(q))
    <3> DEFINE t == Tail(link[p])
               l == Append(link["orchestrator"], frame)
    <3>1. CASE Caller(p) = "orchestrator"
      <4>1. p # "orchestrator" /\ Of(p) \subseteq Of("orchestrator") /\ "orchestrator" \in Runtimes
        BY <3>1, CallerFacts DEF Runtimes, Procs
      <4>2. l \in Seq(Frame("orchestrator"))
        <5>1. frame \in Frame("orchestrator")
          BY <1>2, <4>1, EventsOfMore
        <5>2. link["orchestrator"] \in Seq(Frame("orchestrator"))
          BY <1>1, <4>1
        <5> QED BY <5>1, <5>2
      <4>3. link' = [link EXCEPT ![p] = t, !["orchestrator"] = l]
        BY <2>1, <3>1, <4>1 DEF Forward
      <4> HIDE DEF l, t
      <4> QED BY <1>1, <1>2, <4>1, <4>2, <4>3 DEF t
    <3>2. CASE Caller(p) # "orchestrator"
      <4>1. link' = [link EXCEPT ![p] = t]
        BY <2>1, <3>2 DEF Forward
      <4> QED BY <1>1, <1>2, <4>1
    <3> QED BY <3>1, <3>2
  <2>5. RelayTyped'
    BY <1>3, <2>1, <2>3, <2>4 DEF RelayInv, RelayTyped
  <2> QED BY <1>3, <2>5 DEF RelayInv, SpansOpen, Invoked, Called, Caller
<1>5. CASE frame.type # "trace"
  <2>1. /\ lost' = [lost EXCEPT ![p] = frame.lost] /\ nested' = nested
        /\ link' = [link EXCEPT ![p] = Tail(@)]
    BY <1>5 DEF Receive
  <2> HIDE DEF frame
  <2>2. frame.lost \in Nat
    BY <1>2, <1>5 DEF Frame
  <2>3. lost' \in [Runtimes -> Nat]
    BY <1>1, <2>1, <2>2
  <2>4. DOMAIN link' = Runtimes /\ \A q \in Runtimes : link'[q] \in Seq(Frame(q))
    BY <1>1, <1>2, <2>1
  <2>5. RelayTyped'
    BY <1>3, <2>1, <2>3, <2>4 DEF RelayInv, RelayTyped
  <2> QED BY <1>3, <2>5 DEF RelayInv, SpansOpen, Invoked, Called, Caller
<1> QED BY <1>4, <1>5

LEMMA BreakRelay ==
  ASSUME RelayInv, NEW p \in Runtimes, Break(p)
  PROVE  RelayInv'
<1>1. /\ DOMAIN link = Runtimes /\ \A q \in Runtimes : link[q] \in Seq(Frame(q))
      /\ at \in [Procs -> {"idle", "fresh", "running", "closed", "broken", "over"}]
  BY DEF RelayInv, RelayTyped
<1>2. /\ UNCHANGED <<path, col, wrapper, nested, lost, open>> /\ Called(p) /\ p \in Procs
  BY DEF Break, Called, Runtimes
<1>3. PICK seen \in {"closed", "broken"} : at' = [at EXCEPT ![p] = seen]
  BY DEF Break
<1>4. /\ at' \in [Procs -> {"idle", "fresh", "running", "closed", "broken", "over"}]
      /\ at'[p] = seen /\ \A q \in Procs \ {p} : at'[q] = at[q]
  BY <1>1, <1>2, <1>3
<1>5. DOMAIN link' = Runtimes /\ \A q \in Runtimes : link'[q] \in Seq(Frame(q))
  <2>1. PICK k \in 0..Len(link[p]) : link' = [link EXCEPT ![p] = SubSeq(@, 1, k)]
    BY DEF Break
  <2> DEFINE l == SubSeq(link[p], 1, k)
  <2>2. k \in Int /\ \A i \in 1..k : link[p][i] \in Frame(p)
    BY <1>1
  <2>3. l \in Seq(Frame(p))
    BY <2>2, SubSeqProperties
  <2>4. link' = [link EXCEPT ![p] = l]
    BY <2>1
  <2> HIDE DEF l
  <2> QED BY <1>1, <2>3, <2>4
<1>6. RelayTyped'
  BY <1>2, <1>4, <1>5 DEF RelayInv, RelayTyped
<1>7. SpansOpen'
  BY <1>2, <1>4 DEF RelayInv, SpansOpen, Procs
<1>8. \A q \in Runtimes : (Called(q)' <=> Called(q)) /\ Caller(q)' = Caller(q)
  BY <1>2, <1>4 DEF Called, Caller, Runtimes
<1>9. Invoked'
  BY <1>2, <1>8 DEF RelayInv, Invoked
<1> QED BY <1>6, <1>7, <1>9 DEF RelayInv

LEMMA GrowsStack ==
  ASSUME NEW p, NEW c, NEW d, Grows(p, c, d)
  PROVE  d \in SoundOf(p) /\ OnStack(d) = OnStack(c)
BY DEF Grows, OnStack

LEMMA SplicedSound ==
  ASSUME RelayInv, NEW p \in Runtimes, Called(p)
  PROVE  /\ Spliced(p) \in SoundOf(Caller(p))
         /\ OnStack(Spliced(p)) = OnStack(col[Caller(p)]) \ {wrapper[p]}
<1> DEFINE r == Caller(p)
           span == wrapper[p]
           flow == path = "flow" \/ r = "orchestrator"
           ended == end(col[r], span, "agentcore.invoke", 1)
           told == IF at[p] = "broken" /\ ~flow THEN event(ended, "error", 1) ELSE ended
           missing == IF flow THEN 0 ELSE lost[p]
           whole == attachEventsNested(told, nested[p], span, missing)
           noted == IF flow THEN event(whole, "orchestrator.specialist_draft", 1)
                    ELSE IF nested[p] = <<>> THEN whole ELSE event(whole, "agentcore.nested_trace", 1)
<1>1. 1 \in Nat /\ {"agentcore.invoke", "error", "orchestrator.specialist_draft",
                    "agentcore.nested_trace"} \subseteq Kinds
  BY DEF Kinds, SpanKinds
<1>2. /\ r \in Procs /\ p \in Procs /\ col[r] \in SoundOf(r) /\ span \in OnStack(col[r])
      /\ Of(p) \subseteq Of(r) \ {r} /\ nested[p] \in Seq(EventsOf(p)) /\ missing \in Nat
  <2>1. lost[p] \in Nat
    BY DEF RelayInv, RelayTyped
  <2> QED BY <2>1, CallerFacts DEF RelayInv, RelayTyped, Invoked
<1>3. Spliced(p) = noted
  BY DEF Spliced
<1>4. span \in Ids
  BY <1>2 DEF SoundOf, Sound
<1> HIDE DEF r, span, missing
<1>5. ended \in SoundOf(r) /\ OnStack(ended) = OnStack(col[r]) \ {span}
  BY <1>1, <1>2, EndSound
<1> HIDE DEF ended
<1>6. told \in SoundOf(r) /\ OnStack(told) = OnStack(ended)
  <2> DEFINE e == event(ended, "error", 1)
  <2>1. e \in SoundOf(r) /\ OnStack(e) = OnStack(ended)
    BY <1>1, <1>2, <1>5, EventSound, GrowsStack
  <2>2. told \in {e, ended}
    OBVIOUS
  <2> HIDE DEF e, told
  <2> QED BY <1>5, <2>1, <2>2
<1> HIDE DEF told
<1>7. whole \in SoundOf(r) /\ OnStack(whole) = OnStack(told)
  <2>1. Grows(r, told, whole)
    BY <1>2, <1>4, <1>6, AttachSound
  <2> HIDE DEF whole
  <2> QED BY <2>1, GrowsStack
<1> HIDE DEF whole, flow
<1>8. noted \in SoundOf(r) /\ OnStack(noted) = OnStack(whole)
  <2> DEFINE e1 == event(whole, "orchestrator.specialist_draft", 1)
             e2 == event(whole, "agentcore.nested_trace", 1)
  <2>1. e1 \in SoundOf(r) /\ OnStack(e1) = OnStack(whole)
    BY <1>1, <1>2, <1>7, EventSound, GrowsStack
  <2>2. e2 \in SoundOf(r) /\ OnStack(e2) = OnStack(whole)
    BY <1>1, <1>2, <1>7, EventSound, GrowsStack
  <2>3. noted \in {whole, e1, e2}
    OBVIOUS
  <2> HIDE DEF e1, e2, noted
  <2> QED BY <1>7, <2>1, <2>2, <2>3
<1> HIDE DEF noted
<1> QED BY <1>3, <1>5, <1>6, <1>7, <1>8 DEF r, span

LEMMA FinishRelay ==
  ASSUME RelayInv, NEW p \in Runtimes, Finish(p)
  PROVE  RelayInv'
<1> DEFINE r == Caller(p)
           c == Spliced(p)
<1>1. /\ Record(r, c, <<>>) /\ at' = [at EXCEPT ![p] = "over"] /\ Called(p)
      /\ UNCHANGED <<path, wrapper, nested, lost, open>>
  BY DEF Finish, Called
<1>2. c \in SoundOf(r) /\ OnStack(c) = OnStack(col[r]) \ {wrapper[p]}
  BY <1>1, SplicedSound
<1>3. r \in Procs \ Specialists /\ p \in Procs /\ <<>> \in Seq(Frame(r))
  BY CallerFacts
<1> HIDE DEF c
<1>4. /\ at \in [Procs -> {"idle", "fresh", "running", "closed", "broken", "over"}]
      /\ DOMAIN wrapper = Runtimes
  BY DEF RelayInv, RelayTyped
<1>5. /\ at' \in [Procs -> {"idle", "fresh", "running", "closed", "broken", "over"}]
      /\ at'[p] = "over" /\ \A q \in Procs \ {p} : at'[q] = at[q]
  BY <1>1, <1>3, <1>4
<1>6. \A s \in Specialists : at'[s] = at[s] \/ at'[s] \in {"closed", "broken", "over"}
  BY <1>5 DEF Procs
<1>7. col'[r] = c /\ \A q \in Procs \ {r} : col'[q] = col[q]
  BY <1>1, <1>2, <1>3, RecordKeeps DEF RelayInv
<1> HIDE DEF r
<1>8. \A q \in Runtimes : Caller(q)' = Caller(q) /\ q \in Procs /\ Caller(q) \in Procs
  BY <1>1, CallerFacts DEF Caller
<1>9. ~Called(p)' /\ \A q \in Runtimes \ {p} : Called(q)' <=> Called(q)
  BY <1>5, <1>8 DEF Called
<1>10. \A q \in Runtimes \ {p} : Called(q) => Caller(q) # r
  BY <1>1 DEF RelayInv, Invoked, r
<1>11. Invoked'
  <2>1. ASSUME NEW q \in Runtimes, Called(q)' PROVE wrapper'[q] \in OnStack(col'[Caller(q)'])
    <3>1. q # p /\ Called(q) /\ Caller(q) # r
      BY <1>9, <1>10, <2>1
    <3>2. wrapper'[q] = wrapper[q] /\ col'[Caller(q)'] = col[Caller(q)]
      BY <1>1, <1>7, <1>8, <3>1
    <3> QED BY <3>1, <3>2 DEF RelayInv, Invoked
  <2>2. ASSUME NEW q1 \in Runtimes, NEW q2 \in Runtimes, Called(q1)', Called(q2)', Caller(q1)' = Caller(q2)'
        PROVE  q1 = q2
    BY <1>8, <1>9, <2>2 DEF RelayInv, Invoked
  <2> QED BY <2>1, <2>2 DEF Invoked
<1>12. DOMAIN wrapper' = Runtimes
  BY <1>1, <1>4
<1> QED BY <1>1, <1>2, <1>3, <1>5, <1>6, <1>11, <1>12, CallerStep

LEMMA OrchestratedRelay ==
  ASSUME RelayInv, Orchestrated
  PROVE  RelayInv'
<1> DEFINE c == col["orchestrator"]
           more == <<DoneFrame(c)>>
<1>1. /\ Record("orchestrator", c, more) /\ at["orchestrator"] = "running"
      /\ at' = [at EXCEPT !["orchestrator"] = "closed"]
      /\ UNCHANGED <<path, wrapper, nested, lost, open>>
  BY DEF Orchestrated
<1>2. "orchestrator" \in Procs \ Specialists
  BY RelayAssumption DEF Procs
<1>3. c \in SoundOf("orchestrator")
  BY <1>2 DEF RelayInv, RelayTyped
<1>4. more \in Seq(Frame("orchestrator"))
  <2>1. c.dropped \in Nat
    BY <1>3 DEF SoundOf, Collectors
  <2>2. DoneFrame(c) \in Frame("orchestrator")
    BY <2>1 DEF DoneFrame, Frame
  <2> QED BY <2>2
<1>5. /\ at \in [Procs -> {"idle", "fresh", "running", "closed", "broken", "over"}]
      /\ DOMAIN wrapper = Runtimes
  BY DEF RelayInv, RelayTyped
<1>6. /\ at' \in [Procs -> {"idle", "fresh", "running", "closed", "broken", "over"}]
      /\ at'["orchestrator"] = "closed" /\ \A q \in Procs \ {"orchestrator"} : at'[q] = at[q]
  BY <1>1, <1>2, <1>5
<1>7. \A s \in Specialists : at'[s] = at[s]
  BY <1>2, <1>6 DEF Procs
<1>8. \A q \in Procs : col'[q] = col[q]
  BY <1>1, <1>2, <1>3, <1>4, RecordKeeps DEF RelayInv
<1>9. \A q \in Runtimes : /\ Caller(q)' = Caller(q) /\ (Called(q)' <=> Called(q))
                          /\ Caller(q) \in Procs
  BY <1>1, <1>6, CallerFacts DEF Caller, Called, Runtimes
<1>10. Invoked'
  <2>1. \A q \in Runtimes : col'[Caller(q)'] = col[Caller(q)] /\ wrapper' = wrapper
    BY <1>1, <1>8, <1>9
  <2>2. ASSUME NEW q \in Runtimes, Called(q)' PROVE wrapper'[q] \in OnStack(col'[Caller(q)'])
    BY <1>9, <2>1, <2>2 DEF RelayInv, Invoked
  <2>3. ASSUME NEW q1 \in Runtimes, NEW q2 \in Runtimes, Called(q1)', Called(q2)', Caller(q1)' = Caller(q2)'
        PROVE  q1 = q2
    BY <1>9, <2>3 DEF RelayInv, Invoked
  <2> QED BY <2>2, <2>3 DEF Invoked
<1>11. DOMAIN wrapper' = Runtimes
  BY <1>1, <1>5
<1> HIDE DEF c, more
<1> QED BY <1>1, <1>2, <1>3, <1>4, <1>6, <1>7, <1>10, <1>11, CallerStep

LEMMA EndTurnRelay ==
  ASSUME RelayInv, EndTurn
  PROVE  RelayInv'
<1>1. /\ at' = [at EXCEPT !["api"] = "over"] /\ "api" \in Procs /\ "api" \notin Specialists
      /\ UNCHANGED <<path, col, wrapper, link, nested, lost, open>>
  BY RelayAssumption DEF EndTurn, Procs
<1>2. at \in [Procs -> {"idle", "fresh", "running", "closed", "broken", "over"}]
  BY DEF RelayInv, RelayTyped
<1>3. /\ at' \in [Procs -> {"idle", "fresh", "running", "closed", "broken", "over"}]
      /\ \A q \in Procs \ {"api"} : at'[q] = at[q]
  BY <1>1, <1>2
<1>4. RelayTyped'
  BY <1>1, <1>3 DEF RelayInv, RelayTyped
<1>5. SpansOpen'
  BY <1>1, <1>3 DEF RelayInv, SpansOpen, Procs
<1>6. \A q \in Runtimes : (Called(q)' <=> Called(q)) /\ Caller(q)' = Caller(q)
  BY <1>1, <1>3 DEF Called, Caller, Runtimes
<1>7. Invoked'
  BY <1>1, <1>6 DEF RelayInv, Invoked
<1> QED BY <1>4, <1>5, <1>7 DEF RelayInv

LEMMA NextRelay == RelayInv /\ [RelayNext]_relayVars => RelayInv'
<1> SUFFICES ASSUME RelayInv, [RelayNext]_relayVars PROVE RelayInv'
  OBVIOUS
<1>1. CASE \E s \in Specialists :
             \/ \E size \in {1, MaxEventBytes + 1} : Answering(s, size)
             \/ CallTool(s) \/ CallMcp(s)
             \/ \E id \in open[s], ok \in BOOLEAN : ToolReturned(s, id, ok)
             \/ \E ok \in BOOLEAN : Answered(s, ok)
  BY <1>1, AnsweringRelay, CallToolRelay, CallMcpRelay, ToolReturnedRelay, AnsweredRelay
<1>2. CASE \E p \in Runtimes : Invoke(p) \/ Receive(p) \/ Break(p) \/ Finish(p)
  BY <1>2, InvokeRelay, ReceiveRelay, BreakRelay, FinishRelay
<1>3. CASE Orchestrated
  BY <1>3, OrchestratedRelay
<1>4. CASE EndTurn
  BY <1>4, EndTurnRelay
<1>5. CASE UNCHANGED relayVars
  BY <1>5 DEF relayVars, RelayInv, RelayTyped, SpansOpen, Invoked, Called, Caller
<1> QED BY <1>1, <1>2, <1>3, <1>4, <1>5 DEF RelayNext

(* However tool calls overlap and streams break off, no event a process    *)
(* records is filed under a span of its own that has ended before; nor     *)
(* does an event that is spliced from a runtime's trace disturb that.      *)
THEOREM FiledWhereOpen == RelaySpec => []NotUnderEnded
<1>1. RelayInv => NotUnderEnded
  <2> SUFFICES ASSUME RelayInv, NEW p \in Procs, NEW i \in DOMAIN Events(p), NEW j \in DOMAIN Events(p),
                      i < j, Events(p)[i].half = "end", Events(p)[j].id[1] = p, Events(p)[i].id[1] = p
               PROVE  Events(p)[j].parent # Events(p)[i].parent
    BY DEF NotUnderEnded
  <2>1. col[p] \in SoundOf(p) /\ col[p].name = p
    BY DEF RelayInv, RelayTyped, SoundOf, Collectors
  <2> QED BY <2>1 DEF SoundOf, Sound, EndsOwn, Events
<1> QED BY <1>1, InitRelay, NextRelay, PTL DEF RelaySpec

-----------------------------------------------------------------------------
(* One hierarchy: every event of a runtime hangs under its invocation. *)


(* What a collector adds to its events: straight ones of its own, and some *)
(* of the ids X.                                                           *)
New(c, d) == Len(c.events) + 1 .. Len(d.events)
Adds(p, c, d, X) ==
  /\ Len(c.events) <= Len(d.events) /\ c.dropped <= d.dropped
  /\ \A i \in DOMAIN c.events : i \in DOMAIN d.events /\ d.events[i] = c.events[i]
  /\ \A i \in New(c, d) : \/ d.events[i].id[1] = p /\ Straight(d.events[i])
                          \/ d.events[i].id \in X

(* It has kept an event: whatever it has added before is its own. *)
Has(p, c, d, ev) ==
  \E i \in New(c, d) :
    /\ d.events[i].id = ev.id /\ d.events[i].parent = ev.parent
    /\ \A j \in Len(c.events) + 1 .. i - 1 : d.events[j].id[1] = p

LEMMA Lengths ==
  ASSUME NEW p, NEW c \in Collectors(p)
  PROVE  /\ Len(c.events) \in Nat /\ DOMAIN c.events = 1..Len(c.events) /\ c.dropped \in Nat
         /\ c.next \in Nat \ {0} /\ c.name = p /\ c.stack \in Seq(Ids)
         /\ \A i \in DOMAIN c.events : c.events[i] \in EventsOf(p)
<1>1. c.events \in Seq(EventsOf(p))
  BY DEF Collectors
<1> QED BY <1>1 DEF Collectors

LEMMA AddsTwice ==
  ASSUME NEW p, NEW c \in Collectors(p), NEW d \in Collectors(p), NEW e \in Collectors(p), NEW X,
         Adds(p, c, d, X), Adds(p, d, e, X)
  PROVE  /\ Adds(p, c, e, X)
         /\ \A ev : Has(p, c, d, ev) => Has(p, c, e, ev)
         /\ \A ev : (\A i \in New(c, d) : d.events[i].id[1] = p) /\ Has(p, d, e, ev) => Has(p, c, e, ev)
<1> DEFINE l == Len(c.events)
           m == Len(d.events)
           n == Len(e.events)
<1>1. /\ l \in Nat /\ m \in Nat /\ n \in Nat /\ l <= m /\ m <= n
      /\ DOMAIN c.events = 1..l /\ DOMAIN d.events = 1..m /\ DOMAIN e.events = 1..n
      /\ c.dropped \in Nat /\ d.dropped \in Nat /\ e.dropped \in Nat
  BY Lengths DEF Adds
<1>2. /\ New(c, d) = (l + 1)..m /\ New(d, e) = (m + 1)..n /\ New(c, e) = (l + 1)..n
  BY DEF New
<1> HIDE DEF l, m, n
<1>3. /\ \A i \in 1..l : d.events[i] = c.events[i]
      /\ \A i \in 1..m : e.events[i] = d.events[i]
  BY <1>1 DEF Adds
<1>4. Adds(p, c, e, X)
  <2>1. ASSUME NEW i \in New(c, e)
        PROVE  \/ e.events[i].id[1] = p /\ Straight(e.events[i])
               \/ e.events[i].id \in X
    <3>1. CASE i <= m
      <4>1. i \in New(c, d) /\ i \in 1..m
        BY <1>1, <1>2, <3>1
      <4> QED BY <1>3, <4>1 DEF Adds
    <3>2. CASE ~(i <= m)
      <4>1. i \in New(d, e)
        BY <1>1, <1>2, <3>2
      <4> QED BY <4>1 DEF Adds
    <3> QED BY <3>1, <3>2
  <2>2. Len(c.events) <= Len(e.events) /\ c.dropped <= e.dropped
    BY <1>1 DEF Adds, l, m, n
  <2>3. \A i \in DOMAIN c.events : i \in DOMAIN e.events /\ e.events[i] = c.events[i]
    BY <1>1, <1>3
  <2> QED BY <2>1, <2>2, <2>3 DEF Adds
<1>5. ASSUME NEW ev, Has(p, c, d, ev) PROVE Has(p, c, e, ev)
  <2>1. PICK i \in New(c, d) : /\ d.events[i].id = ev.id /\ d.events[i].parent = ev.parent
                               /\ \A j \in l + 1 .. i - 1 : d.events[j].id[1] = p
    BY <1>5 DEF Has, l
  <2>2. i \in New(c, e) /\ e.events[i] = d.events[i]
    BY <1>1, <1>2, <1>3
  <2>3. \A j \in l + 1 .. i - 1 : e.events[j] = d.events[j]
    BY <1>1, <1>2, <1>3
  <2> QED BY <2>1, <2>2, <2>3 DEF Has, l
<1>6. ASSUME NEW ev, \A i \in New(c, d) : d.events[i].id[1] = p, Has(p, d, e, ev)
      PROVE  Has(p, c, e, ev)
  <2>1. PICK i \in New(d, e) : /\ e.events[i].id = ev.id /\ e.events[i].parent = ev.parent
                               /\ \A j \in m + 1 .. i - 1 : e.events[j].id[1] = p
    BY <1>6 DEF Has, m
  <2>2. i \in New(c, e)
    BY <1>1, <1>2
  <2>3. ASSUME NEW j \in l + 1 .. i - 1 PROVE e.events[j].id[1] = p
    <3>1. CASE j <= m
      <4>1. j \in New(c, d) /\ j \in 1..m
        BY <1>1, <1>2, <3>1
      <4> QED BY <1>3, <1>6, <4>1
    <3>2. CASE ~(j <= m)
      BY <1>1, <1>2, <2>1, <3>2
    <3> QED BY <3>1, <3>2
  <2> QED BY <2>1, <2>2, <2>3 DEF Has, l
<1> QED BY <1>4, <1>5, <1>6

LEMMA OwnTwice ==
  ASSUME NEW p, NEW c \in Collectors(p), NEW d \in Collectors(p), NEW e \in Collectors(p), NEW X,
         Adds(p, c, d, X), Adds(p, d, e, X),
         \A i \in New(c, d) : d.events[i].id[1] = p, \A i \in New(d, e) : e.events[i].id[1] = p
  PROVE  \A i \in New(c, e) : e.events[i].id[1] = p
<1> DEFINE l == Len(c.events)
           m == Len(d.events)
           n == Len(e.events)
<1>2. /\ l \in Nat /\ m \in Nat /\ n \in Nat /\ l <= m /\ m <= n /\ DOMAIN d.events = 1..m
      /\ New(c, d) = (l + 1)..m /\ New(d, e) = (m + 1)..n /\ New(c, e) = (l + 1)..n
  BY Lengths DEF Adds, New
<1> HIDE DEF l, m, n
<1>3. \A i \in 1..m : e.events[i] = d.events[i]
  BY <1>2 DEF Adds
<1> SUFFICES ASSUME NEW i \in (l + 1)..n PROVE e.events[i].id[1] = p
  BY <1>2
<1>4. CASE i <= m
  BY <1>2, <1>3, <1>4
<1>5. CASE ~(i <= m)
  BY <1>2, <1>5
<1> QED BY <1>4, <1>5

LEMMA KeepAdds ==
  ASSUME NEW p \in Procs, NEW c \in Collectors(p), NEW ev \in EventsOf(p), NEW X,
         (ev.id[1] = p /\ Straight(ev)) \/ ev.id \in X
  PROVE  /\ Keep(c, ev) \in Collectors(p) /\ Adds(p, c, Keep(c, ev), X) /\ Has(p, c, Keep(c, ev), ev)
         /\ Keep(c, ev).dropped = c.dropped
         /\ ev.id[1] = p => \A i \in New(c, Keep(c, ev)) : Keep(c, ev).events[i].id[1] = p
<1> DEFINE d == Keep(c, ev)
           n == Len(c.events)
<1>1. d \in Collectors(p) /\ d.events = Append(c.events, ev)
  BY KeepFields
<1>2. d.dropped = c.dropped
  BY DEF Keep, Collectors
<1>3. n \in Nat /\ DOMAIN c.events = 1..n /\ c.dropped \in Nat
  BY Lengths
<1>4. c.events \in Seq(EventsOf(p))
  BY DEF Collectors
<1> HIDE DEF d
<1>5. /\ Len(d.events) = n + 1 /\ DOMAIN d.events = 1..(n + 1)
      /\ d.events[n + 1] = ev /\ \A i \in 1..n : d.events[i] = c.events[i]
  BY <1>1, <1>3, <1>4
<1>6. New(c, d) = {n + 1}
  BY <1>3, <1>5 DEF New
<1>7. \A j \in n + 1 .. (n + 1) - 1 : FALSE
  BY <1>3
<1>8. Adds(p, c, d, X)
  BY <1>2, <1>3, <1>5, <1>6 DEF Adds
<1>9. Has(p, c, d, ev)
  BY <1>5, <1>6, <1>7 DEF Has
<1> QED BY <1>1, <1>2, <1>5, <1>6, <1>8, <1>9 DEF d

LEMMA AddsNone ==
  ASSUME NEW p, NEW c \in Collectors(p), NEW d \in Collectors(p), NEW X,
         d.events = c.events, c.dropped <= d.dropped
  PROVE  Adds(p, c, d, X) /\ New(c, d) = {}
<1>1. Len(c.events) \in Nat
  BY Lengths
<1> QED BY <1>1 DEF Adds, New

(* Only the events and what was dropped matter. *)
LEMMA AddsFrom ==
  ASSUME NEW p, NEW c, NEW d, NEW e, NEW X, d.events = c.events, d.dropped = c.dropped
  PROVE  /\ Adds(p, d, e, X) <=> Adds(p, c, e, X)
         /\ New(d, e) = New(c, e) /\ \A ev : Has(p, d, e, ev) <=> Has(p, c, e, ev)
BY DEF Adds, New, Has

LEMMA MarkAdds ==
  ASSUME NEW p \in Procs, NEW c \in SoundOf(p), NEW ev, NEW X
  PROVE  LET d == emitByteCapHit(c, ev)
         IN /\ Adds(p, c, d, X) /\ d.dropped = c.dropped
            /\ \A i \in New(c, d) : d.events[i].id[1] = p
<1>1. c \in Collectors(p) /\ c.dropped \in Nat /\ c.next \in Nat /\ c.capHits \in Nat /\ c.name = p
  BY DEF SoundOf, Collectors
<1>2. CASE emitByteCapHit(c, ev) = c
  <2>1. Adds(p, c, c, X) /\ New(c, c) = {}
    BY <1>1, AddsNone
  <2> QED BY <1>2, <2>1
<1>3. CASE emitByteCapHit(c, ev) # c
  <2> DEFINE d == [c EXCEPT !.capHits = @ + 1, !.next = @ + 1]
             mark == Event(NewId(c), currentSpanId(c), "dev.byte_cap_hit", "one", 1)
  <2>1. emitByteCapHit(c, ev) = Keep(d, mark)
    BY <1>3 DEF emitByteCapHit
  <2>2. d \in Collectors(p) /\ d.events = c.events /\ d.dropped = c.dropped
    <3>1. c.next + 1 \in Nat \ {0} /\ c.capHits + 1 \in Nat
      BY <1>1
    <3>2. d \in Collectors(p)
      BY <1>1, <3>1 DEF Collectors
    <3> QED BY <1>1, <3>2 DEF Collectors
  <2>3. mark \in EventsOf(p) /\ mark.id = <<p, c.next>> /\ mark.parent = currentSpanId(c)
    BY TopSpan DEF Event, EventsOf, Kinds
  <2>4. Straight(mark)
    BY <2>3, TopBefore DEF Straight
  <2> HIDE DEF d, mark
  <2> DEFINE e == Keep(d, mark)
  <2>5. /\ Adds(p, d, e, X) /\ e.dropped = d.dropped
        /\ \A i \in New(d, e) : e.events[i].id[1] = p
    BY <2>2, <2>3, <2>4, KeepAdds
  <2> HIDE DEF e
  <2>6. Adds(p, c, e, X) /\ New(d, e) = New(c, e)
    BY <2>2, <2>5, AddsFrom
  <2> QED BY <2>1, <2>2, <2>5, <2>6 DEF e
<1> QED BY <1>2, <1>3

LEMMA DropsSound ==
  ASSUME NEW p \in Procs, NEW c \in SoundOf(p)
  PROVE  LET d == [c EXCEPT !.dropped = @ + 1]
         IN d \in SoundOf(p) /\ d.events = c.events /\ d.dropped = c.dropped + 1
<1> DEFINE d == [c EXCEPT !.dropped = @ + 1]
<1>1. c \in Collectors(p) /\ c.dropped \in Nat /\ c.next \in Nat
  BY DEF SoundOf, Collectors
<1>2. c.dropped + 1 \in Nat
  BY <1>1
<1>3. d \in Collectors(p)
  BY <1>1, <1>2 DEF Collectors
<1>4. /\ d.stack = c.stack /\ d.events = c.events /\ d.next = c.next /\ d.dropped = c.dropped + 1
      /\ d.next >= c.next
  BY <1>1 DEF Collectors
<1>5. Same(p, c, d)
  BY <1>3, <1>4 DEF Same
<1> HIDE DEF d
<1>6. d \in SoundOf(p)
  BY <1>5, SameSound DEF Unmoved
<1> QED BY <1>4, <1>6 DEF d

(* An event is dropped only if it is counted, and is not of a protected    *)
(* type.                                                                   *)
LEMMA EmitAdds ==
  ASSUME NEW p \in Procs, NEW c \in SoundOf(p), NEW raw \in EventsOf(p), NEW X,
         Follows(c, raw), (raw.id[1] = p /\ Straight(raw)) \/ raw.id \in X
  PROVE  LET e == emit(c, raw)
         IN /\ e \in Collectors(p) /\ Adds(p, c, e, X)
            /\ raw.id[1] = p => \A i \in New(c, e) : e.events[i].id[1] = p
            /\ raw.kind \in PROTECTED_TYPES \/ e.dropped = c.dropped => Has(p, c, e, raw)
<1> DEFINE oversize == raw.size > MaxEventBytes
           ev == IF oversize THEN shrinkPayload(raw) ELSE raw
           marked == IF oversize THEN emitByteCapHit(c, ev) ELSE c
           fewer == [marked EXCEPT !.dropped = @ + 1]
           e == emit(c, raw)
<1>1. ev \in EventsOf(p) /\ ev.id = raw.id /\ ev.parent = raw.parent /\ ev.kind = raw.kind
  BY DEF shrinkPayload, EventsOf
<1>2. /\ marked \in SoundOf(p) /\ Adds(p, c, marked, X) /\ marked.dropped = c.dropped
      /\ \A i \in New(c, marked) : marked.events[i].id[1] = p
  <2>1. c \in Collectors(p) /\ c.dropped \in Nat
    BY DEF SoundOf, Collectors
  <2>2. Adds(p, c, c, X) /\ New(c, c) = {}
    BY <2>1, AddsNone
  <2> DEFINE d == emitByteCapHit(c, ev)
  <2>3. d \in SoundOf(p)
    BY MarkUnmoved DEF Unmoved
  <2>4. Adds(p, c, d, X) /\ d.dropped = c.dropped /\ \A i \in New(c, d) : d.events[i].id[1] = p
    BY MarkAdds
  <2>5. marked = d \/ marked = c
    OBVIOUS
  <2> HIDE DEF d, marked
  <2> QED BY <2>2, <2>3, <2>4, <2>5
<1>3. \/ e = Keep(marked, ev)
      \/ e = emitByteCapHit(fewer, ev) /\ raw.kind \notin PROTECTED_TYPES
  BY <1>1 DEF emit
<1>4. e \in SoundOf(p)
  BY EmitSound DEF Grows
<1> HIDE DEF ev, marked, e
<1>5. c \in Collectors(p) /\ marked \in Collectors(p) /\ e \in Collectors(p) /\ c.dropped \in Nat
  BY <1>2, <1>4 DEF SoundOf, Collectors
<1>6. CASE e = Keep(marked, ev)
  <2>1. /\ Adds(p, marked, e, X) /\ Has(p, marked, e, ev)
        /\ ev.id[1] = p => \A i \in New(marked, e) : e.events[i].id[1] = p
    BY <1>1, <1>5, <1>6, KeepAdds DEF Straight
  <2>2. Adds(p, c, e, X) /\ Has(p, c, e, ev)
    BY <1>2, <1>5, <2>1, AddsTwice
  <2>3. Has(p, c, e, raw)
    BY <1>1, <2>2 DEF Has
  <2>4. ASSUME raw.id[1] = p, NEW i \in New(c, e) PROVE e.events[i].id[1] = p
    BY <1>1, <1>2, <1>5, <2>1, <2>4, OwnTwice
  <2> QED BY <1>5, <2>2, <2>3, <2>4 DEF e
<1>7. CASE e = emitByteCapHit(fewer, ev) /\ raw.kind \notin PROTECTED_TYPES
  <2>1. fewer \in SoundOf(p) /\ fewer.events = marked.events /\ fewer.dropped = marked.dropped + 1
    BY <1>2, DropsSound
  <2> HIDE DEF fewer
  <2>2. fewer \in Collectors(p) /\ fewer.dropped \in Nat
    BY <2>1 DEF SoundOf, Collectors
  <2>3. /\ Adds(p, fewer, e, X) /\ e.dropped = fewer.dropped
        /\ \A i \in New(fewer, e) : e.events[i].id[1] = p
    BY <1>7, <2>1, MarkAdds
  <2>4. Adds(p, marked, fewer, X) /\ New(marked, fewer) = {}
    <3>1. marked.dropped <= fewer.dropped
      BY <1>2, <1>5, <2>1
    <3> QED BY <1>5, <2>1, <2>2, <3>1, AddsNone
  <2>5. Adds(p, marked, e, X) /\ \A i \in New(marked, e) : e.events[i].id[1] = p
    BY <1>5, <2>2, <2>3, <2>4, AddsTwice, OwnTwice
  <2>6. Adds(p, c, e, X) /\ \A i \in New(c, e) : e.events[i].id[1] = p
    BY <1>2, <1>5, <2>5, AddsTwice, OwnTwice
  <2>7. e.dropped # c.dropped
    BY <1>2, <1>5, <2>1, <2>3
  <2> QED BY <1>5, <1>7, <2>6, <2>7 DEF e
<1> QED BY <1>3, <1>6, <1>7

(* A method that emits an event of its own adds its own and straight ones. *)
LEMMA EmitsAdds ==
  ASSUME NEW p \in Procs, NEW c \in SoundOf(p), NEW e \in SoundOf(p), NEW kind, NEW half,
         Emits(p, c, e, kind, half), NEW X
  PROVE  /\ Adds(p, c, e, X) /\ \A i \in New(c, e) : e.events[i].id[1] = p
         /\ kind \in PROTECTED_TYPES => \E i \in DOMAIN e.events : e.events[i].id = NewId(c)
<1>1. PICK d \in SoundOf(p), ev \in EventsOf(p) :
        /\ d.events = c.events /\ d.dropped = c.dropped /\ Follows(d, ev) /\ e = emit(d, ev)
        /\ ev.id = NewId(c) /\ ev.id[1] = p /\ ev.kind = kind /\ Straight(ev)
  BY DEF Emits
<1>2. /\ Adds(p, d, e, X) /\ \A i \in New(d, e) : e.events[i].id[1] = p
      /\ kind \in PROTECTED_TYPES => Has(p, d, e, ev)
  BY <1>1, EmitAdds
<1>3. Adds(p, c, e, X) /\ New(d, e) = New(c, e)
  BY <1>1, <1>2, AddsFrom
<1>4. ASSUME Has(p, d, e, ev) PROVE \E i \in DOMAIN e.events : e.events[i].id = NewId(c)
  <2>1. PICK i \in New(d, e) : e.events[i].id = NewId(c)
    BY <1>1, <1>4 DEF Has
  <2>2. DOMAIN e.events = 1..Len(e.events) /\ Len(d.events) \in Nat /\ Len(e.events) \in Nat
    BY Lengths DEF SoundOf
  <2>3. i \in DOMAIN e.events
    BY <2>1, <2>2 DEF New
  <2> QED BY <2>1, <2>3
<1> QED BY <1>2, <1>3, <1>4

LEMMA EventAdds ==
  ASSUME NEW p \in Procs, NEW c \in SoundOf(p), NEW kind \in Kinds, NEW size \in Nat, NEW X
  PROVE  LET e == event(c, kind, size)
         IN e \in SoundOf(p) /\ Adds(p, c, e, X) /\ \A i \in New(c, e) : e.events[i].id[1] = p
<1> DEFINE e == event(c, kind, size)
<1>1. e \in SoundOf(p) /\ Emits(p, c, e, kind, "one")
  BY EventSound DEF Grows
<1> HIDE DEF e
<1>2. Adds(p, c, e, X) /\ \A i \in New(c, e) : e.events[i].id[1] = p
  BY <1>1, EmitsAdds
<1> QED BY <1>1, <1>2 DEF e

LEMMA SpliceAdds ==
  ASSUME NEW p \in Procs, NEW q \in Procs, Of(q) \subseteq Of(p) \ {p},
         NEW c \in SoundOf(p), NEW ev \in EventsOf(q), NEW seq, NEW span \in Ids, NEW X, ev.id \in X
  PROVE  LET e == Splice(c, ev, seq, span)
         IN /\ e \in SoundOf(p) /\ Adds(p, c, e, X)
            /\ e.dropped = c.dropped => Has(p, c, e, Rewire(ev, seq, span))
<1> DEFINE rewired == Rewire(ev, seq, span)
           d == emit(c, rewired)
           counted == IF ev.half = "end" THEN Count(d, ev.kind) ELSE d
           e == CountNested(d, ev)
<1>1. rewired \in EventsOf(p) /\ rewired.id[1] # p /\ rewired.id = ev.id
  <2>1. ev.id \in Of(q) \X Nat /\ ev.id \in Of(p) \X Nat /\ ev.id[1] # p
    BY DEF EventsOf
  <2>2. rewired \in {ev, [ev EXCEPT !.parent = span]}
    BY DEF Rewire
  <2> HIDE DEF rewired
  <2>3. ev \in EventsOf(p) /\ [ev EXCEPT !.parent = span] \in EventsOf(p)
    BY <2>1 DEF EventsOf
  <2>4. rewired.id = ev.id
    BY <2>2 DEF EventsOf
  <2> QED BY <2>1, <2>2, <2>3, <2>4
<1>2. e \in SoundOf(p)
  BY SpliceSound DEF Grows, Splice
<1> HIDE DEF rewired
<1>3. c.name = p
  BY DEF SoundOf, Collectors
<1>4. Follows(c, rewired)
  BY <1>1, <1>3 DEF Follows
<1>5. d \in Collectors(p) /\ Adds(p, c, d, X) /\ (d.dropped = c.dropped => Has(p, c, d, rewired))
  BY <1>1, <1>4, EmitAdds
<1>6. Splice(c, ev, seq, span) = e
  BY DEF Splice, rewired
<1> HIDE DEF d
<1>7. counted \in Collectors(p) /\ counted.events = d.events /\ counted.dropped = d.dropped
  BY <1>5, CountFields
<1>8. e.events = d.events /\ e.dropped = d.dropped
  <2>1. e = [counted EXCEPT !.mcp = IF ev.kind = "tool.mcp" THEN @ + 1 ELSE @]
    BY DEF CountNested
  <2> HIDE DEF counted, e
  <2> QED BY <1>7, <2>1 DEF Collectors
<1> HIDE DEF e
<1>9. Adds(p, c, e, X) /\ (Has(p, c, d, rewired) => Has(p, c, e, rewired))
  BY <1>5, <1>8 DEF Adds, Has, New
<1> QED BY <1>2, <1>5, <1>6, <1>8, <1>9 DEF rewired

-----------------------------------------------------------------------------
(* What is spliced hangs together. *)

(* The first event of an id is the one its node is made for. *)
First(c, i, x) == c.events[i].id = x /\ \A j \in 1..(i - 1) : c.events[j].id # x

(* The event of x hangs under the span w, or under one of X with a smaller *)
(* number.                                                                 *)
Hung(c, w, X, x) ==
  \E i \in DOMAIN c.events :
    /\ First(c, i, x)
    /\ LET y == c.events[i].parent IN y = w \/ (y \in X /\ y[2] < x[2])
Hangs(c, w, X) == \A x \in X : Hung(c, w, X, x)

LEMMA HungOn ==
  ASSUME NEW p, NEW c \in Collectors(p), NEW d, NEW Y, Adds(p, c, d, Y), NEW w, NEW X, NEW x,
         Hung(c, w, X, x)
  PROVE  Hung(d, w, X, x)
<1>1. PICK i \in DOMAIN c.events :
        /\ First(c, i, x)
        /\ LET y == c.events[i].parent IN y = w \/ (y \in X /\ y[2] < x[2])
  BY DEF Hung
<1>2. DOMAIN c.events = 1..Len(c.events) /\ Len(c.events) \in Nat
  BY Lengths
<1>3. i \in DOMAIN d.events /\ d.events[i] = c.events[i]
  BY <1>1 DEF Adds
<1>4. \A j \in 1..(i - 1) : d.events[j] = c.events[j]
  BY <1>1, <1>2 DEF Adds
<1>5. First(d, i, x)
  BY <1>1, <1>3, <1>4 DEF First
<1> QED BY <1>1, <1>3, <1>5 DEF Hung

(* Of the events with an id, the first is straight. *)
StraightFirst(seq) ==
  \A n \in DOMAIN seq : Straight(seq[n]) \/ \E m \in 1..(n - 1) : seq[m].id = seq[n].id
IdsTo(seq, n) == {seq[k].id : k \in 1..n}

LEMMA AddsMore ==
  ASSUME NEW p, NEW c, NEW d, NEW X, NEW Y, Adds(p, c, d, X), X \subseteq Y
  PROVE  Adds(p, c, d, Y)
BY DEF Adds

LEMMA SpliceHangs ==
  ASSUME NEW p \in Procs, NEW q \in Procs, Of(q) \subseteq Of(p) \ {p},
         NEW c \in SoundOf(p), NEW f \in SoundOf(p), NEW span \in Ids,
         NEW seq \in Seq(EventsOf(q)), StraightFirst(seq), NEW n \in Nat, n + 1 \in 1..Len(seq),
         Adds(p, c, f, IdsTo(seq, n)),
         \A i \in DOMAIN c.events : c.events[i].id[1] \notin Of(q),
         f.dropped = c.dropped => \A k \in 1..n : Hung(f, span, NestedIds(seq), seq[k].id)
  PROVE  LET e == Splice(f, seq[n + 1], seq, span)
         IN /\ e \in SoundOf(p) /\ Adds(p, c, e, IdsTo(seq, n + 1))
            /\ e.dropped = c.dropped => \A k \in 1..(n + 1) : Hung(e, span, NestedIds(seq), seq[k].id)
<1> DEFINE m == n + 1
           ev == seq[m]
           e == Splice(f, ev, seq, span)
           X == NestedIds(seq)
<1>1. /\ ev \in EventsOf(q) /\ m \in DOMAIN seq /\ m \in 1..m /\ 1..n \subseteq 1..m
      /\ \A k \in 1..m : k = m \/ k \in 1..n
  OBVIOUS
<1>2. \A k \in 1..(m - 1) : k \in 1..n
  OBVIOUS
<1>3. ev.id[1] \in Of(q) /\ ev.id[1] # p
  BY <1>1 DEF EventsOf
<1>4. Straight(ev) \/ \E k \in 1..n : seq[k].id = ev.id
  BY <1>1, <1>2 DEF StraightFirst
<1>5. ev.id \in IdsTo(seq, m) /\ IdsTo(seq, n) \subseteq IdsTo(seq, m)
  BY <1>1 DEF IdsTo
<1> HIDE DEF m, ev
<1>6. /\ e \in SoundOf(p) /\ Adds(p, f, e, IdsTo(seq, m))
      /\ e.dropped = f.dropped => Has(p, f, e, Rewire(ev, seq, span))
  BY <1>1, <1>5, SpliceAdds
<1> HIDE DEF e
<1>7. c \in Collectors(p) /\ f \in Collectors(p) /\ e \in Collectors(p)
  BY <1>6 DEF SoundOf
<1>8. Adds(p, c, f, IdsTo(seq, m))
  BY <1>5, AddsMore
<1>9. Adds(p, c, e, IdsTo(seq, m))
  BY <1>6, <1>7, <1>8, AddsTwice
<1>10. ASSUME e.dropped = c.dropped, NEW k \in 1..m PROVE Hung(e, span, X, seq[k].id)
  <2>1. e.dropped = f.dropped /\ f.dropped = c.dropped
    <3>1. c.dropped \in Nat /\ f.dropped \in Nat /\ e.dropped \in Nat
      BY <1>7, Lengths
    <3> QED BY <1>6, <1>10, <3>1 DEF Adds
  <2>2. ASSUME NEW j \in 1..n PROVE Hung(e, span, X, seq[j].id)
    BY <1>6, <1>7, <2>1, HungOn
  <2>3. CASE k \in 1..n \/ \E j \in 1..n : seq[j].id = ev.id
    BY <1>1, <2>2, <2>3 DEF ev
  <2>4. CASE k = m /\ Straight(ev) /\ \A j \in 1..n : seq[j].id # ev.id
    <3> DEFINE l == Len(f.events)
               o == Len(c.events)
    <3>1. PICK i \in New(f, e) : /\ e.events[i].id = ev.id
                                 /\ e.events[i].parent = Rewire(ev, seq, span).parent
                                 /\ \A j \in l + 1 .. i - 1 : e.events[j].id[1] = p
      <4>1. Rewire(ev, seq, span).id = ev.id
        BY <1>1 DEF Rewire, EventsOf
      <4> QED BY <1>6, <2>1, <4>1 DEF Has
    <3>2. /\ l \in Nat /\ o \in Nat /\ o <= l /\ i \in Nat /\ i >= l + 1 /\ i \in DOMAIN e.events
          /\ DOMAIN c.events = 1..o /\ DOMAIN f.events = 1..l /\ New(c, f) = (o + 1)..l
      <4>1. /\ l \in Nat /\ o \in Nat /\ Len(e.events) \in Nat /\ o <= l
            /\ DOMAIN c.events = 1..o /\ DOMAIN f.events = 1..l
            /\ DOMAIN e.events = 1..Len(e.events)
        BY <1>7, Lengths DEF Adds
      <4> QED BY <3>1, <4>1 DEF New
    <3> HIDE DEF l, o
    <3>3. ASSUME NEW j \in 1..(i - 1) PROVE e.events[j].id # ev.id
      <4>1. CASE j <= o
        <5>1. j \in DOMAIN c.events /\ j \in DOMAIN f.events
          BY <3>2, <4>1
        <5>2. e.events[j] = c.events[j]
          BY <1>6, <5>1 DEF Adds
        <5> QED BY <1>3, <5>1, <5>2
      <4>2. CASE ~(j <= o) /\ j <= l
        <5>1. j \in New(c, f) /\ j \in DOMAIN f.events
          BY <3>2, <4>2
        <5>2. e.events[j] = f.events[j]
          BY <1>6, <5>1 DEF Adds
        <5>3. f.events[j].id[1] = p \/ f.events[j].id \in IdsTo(seq, n)
          BY <5>1 DEF Adds
        <5> QED BY <1>3, <2>4, <5>2, <5>3 DEF IdsTo
      <4>3. CASE ~(j <= l)
        <5>1. j \in l + 1 .. i - 1
          BY <3>2, <4>3
        <5> QED BY <1>3, <3>1, <5>1
      <4> QED BY <3>2, <4>1, <4>2, <4>3
    <3>4. First(e, i, ev.id)
      BY <3>1, <3>3 DEF First
    <3>5. LET y == e.events[i].parent IN y = span \/ (y \in X /\ y[2] < ev.id[2])
      <4>1. Rewire(ev, seq, span).parent = span
            \/ (Rewire(ev, seq, span).parent = ev.parent /\ ev.parent # NoId /\ ev.parent \in X)
        BY <1>1 DEF Rewire, EventsOf
      <4> QED BY <2>4, <3>1, <4>1 DEF Straight
    <3> QED BY <2>4, <3>2, <3>4, <3>5 DEF Hung, ev
  <2> QED BY <1>1, <1>4, <2>3, <2>4
<1> QED BY <1>6, <1>9, <1>10 DEF e, ev, m

(* Whatever a runtime sent, if its caller dropped none of it. *)
LEMMA AttachHangs ==
  ASSUME NEW p \in Procs, NEW q \in Procs, Of(q) \subseteq Of(p) \ {p},
         NEW c \in SoundOf(p), NEW seq \in Seq(EventsOf(q)), StraightFirst(seq),
         NEW span \in Ids, NEW missing \in Nat,
         \A i \in DOMAIN c.events : c.events[i].id[1] \notin Of(q)
  PROVE  LET d == attachEventsNested(c, seq, span, missing)
         IN /\ Adds(p, c, d, NestedIds(seq))
            /\ d.dropped = c.dropped /\ (\E i \in DOMAIN c.events : c.events[i].id = span)
               => Hangs(d, span, NestedIds(seq))
<1> DEFINE m == Len(seq)
           X == NestedIds(seq)
           h == CHOOSE f : SplicesTo(c, seq, span, f, m)
           e == [h[m] EXCEPT !.nestedDropped = @ + missing]
           d == attachEventsNested(c, seq, span, missing)
           nothing == seq = <<>> \/ \A i \in DOMAIN c.events : c.events[i].id # span
<1>1. m \in Nat /\ DOMAIN seq = 1..m
  OBVIOUS
<1>2. d = IF nothing THEN c ELSE e
  BY DEF attachEventsNested, SplicesTo, SpliceTo
<1>3. IdsTo(seq, m) = X
  BY <1>1 DEF IdsTo, NestedIds
<1>4. nothing => X = {} \/ \A i \in DOMAIN c.events : c.events[i].id # span
  BY DEF NestedIds
<1> HIDE DEF m, nothing, d
<1>5. SplicesTo(c, seq, span, h, m)
  BY <1>1, SplicesExist
<1> HIDE DEF h
<1>6. \A n \in 0..m : h[n] = SpliceTo(c, seq, span, h, n)
  BY <1>5, SplicesEach
<1> DEFINE Done(n) == /\ h[n] \in SoundOf(p) /\ Adds(p, c, h[n], IdsTo(seq, n))
                      /\ h[n].dropped = c.dropped => \A k \in 1..n : Hung(h[n], span, X, seq[k].id)
           S == {n \in Nat : n <= m => Done(n)}
<1>7. c \in Collectors(p) /\ c.dropped \in Nat
  BY DEF SoundOf, Collectors
<1>8. 0 \in S
  <2>1. 0 \in 0..m
    BY <1>1
  <2>2. h[0] = c
    BY <1>6, <2>1 DEF SpliceTo
  <2>3. Adds(p, c, c, IdsTo(seq, 0))
    BY <1>7, AddsNone
  <2> QED BY <2>2, <2>3
<1> HIDE DEF X
<1>9. ASSUME NEW n \in Nat, n \in S PROVE n + 1 \in S
  <2> SUFFICES ASSUME n + 1 <= m PROVE Done(n + 1)
    OBVIOUS
  <2>1. n + 1 \in 0..m /\ n + 1 # 0 /\ (n + 1) - 1 = n /\ n + 1 \in 1..m /\ n <= m
    BY <1>1
  <2>2. h[n + 1] = Splice(h[n], seq[n + 1], seq, span)
    BY <1>6, <2>1 DEF SpliceTo
  <2>3. Done(n)
    BY <1>9, <2>1
  <2> DEFINE f == h[n]
             g == Splice(f, seq[n + 1], seq, span)
  <2>4. /\ f \in SoundOf(p) /\ Adds(p, c, f, IdsTo(seq, n))
        /\ f.dropped = c.dropped => \A k \in 1..n : Hung(f, span, X, seq[k].id)
    BY <2>3
  <2> HIDE DEF f
  <2>5. /\ g \in SoundOf(p) /\ Adds(p, c, g, IdsTo(seq, n + 1))
        /\ g.dropped = c.dropped => \A k \in 1..(n + 1) : Hung(g, span, X, seq[k].id)
    BY <2>1, <2>4, SpliceHangs DEF X, m
  <2>6. h[n + 1] = g
    BY <2>2 DEF f
  <2> HIDE DEF g
  <2> QED BY <2>5, <2>6
<1> HIDE DEF S
<1>10. Nat \subseteq S
  BY <1>8, <1>9, EveryNumber
<1>11. Done(m)
  BY <1>1, <1>10 DEF S
<1> DEFINE k == h[m]
<1>12. /\ k \in SoundOf(p) /\ Adds(p, c, k, X)
       /\ k.dropped = c.dropped => \A x \in X : Hung(k, span, X, x)
  BY <1>3, <1>11 DEF IdsTo
<1>13. e = [k EXCEPT !.nestedDropped = @ + missing]
  OBVIOUS
<1> HIDE DEF Done, k, e
<1>14. e.events = k.events /\ e.dropped = k.dropped
  BY <1>12, <1>13 DEF SoundOf, Collectors
<1>15. /\ Adds(p, c, e, X)
       /\ e.dropped = c.dropped => Hangs(e, span, X)
  BY <1>12, <1>14 DEF Adds, New, Hangs, Hung, First
<1>16. Adds(p, c, c, X)
  BY <1>7, AddsNone
<1>17. X = {} => Hangs(c, span, X)
  BY DEF Hangs
<1> QED BY <1>2, <1>4, <1>15, <1>16, <1>17 DEF d, X

LEMMA HangsOn ==
  ASSUME NEW p, NEW c \in Collectors(p), NEW d, NEW Y, Adds(p, c, d, Y), NEW w, NEW X, Hangs(c, w, X)
  PROVE  Hangs(d, w, X)
BY HungOn DEF Hangs

LEMMA SplicedHangs ==
  ASSUME RelayInv, NEW p \in Runtimes, Called(p), StraightFirst(nested[p]),
         LET c == col[Caller(p)]
         IN /\ \A i \in DOMAIN c.events : c.events[i].id[1] \notin Of(p)
            /\ \E i \in DOMAIN c.events : c.events[i].id = wrapper[p]
  PROVE  LET r == Caller(p)
             d == Spliced(p)
             X == NestedIds(nested[p])
         IN Adds(r, col[r], d, X) /\ (d.dropped = 0 => Hangs(d, wrapper[p], X))
<1> DEFINE r == Caller(p)
           c == col[r]
           span == wrapper[p]
           X == NestedIds(nested[p])
           flow == path = "flow" \/ r = "orchestrator"
           ended == end(c, span, "agentcore.invoke", 1)
           told == IF at[p] = "broken" /\ ~flow THEN event(ended, "error", 1) ELSE ended
           missing == IF flow THEN 0 ELSE lost[p]
           whole == attachEventsNested(told, nested[p], span, missing)
           noted == IF flow THEN event(whole, "orchestrator.specialist_draft", 1)
                    ELSE IF nested[p] = <<>> THEN whole ELSE event(whole, "agentcore.nested_trace", 1)
<1>1. 1 \in Nat /\ {"agentcore.invoke", "error", "orchestrator.specialist_draft",
                    "agentcore.nested_trace"} \subseteq Kinds
  BY DEF Kinds, SpanKinds
<1>2. /\ r \in Procs /\ p \in Procs /\ c \in SoundOf(r) /\ span \in OnStack(c)
      /\ Of(p) \subseteq Of(r) \ {r} /\ nested[p] \in Seq(EventsOf(p)) /\ missing \in Nat
  <2>1. lost[p] \in Nat
    BY DEF RelayInv, RelayTyped
  <2> QED BY <2>1, CallerFacts DEF RelayInv, RelayTyped, Invoked
<1>3. Spliced(p) = noted
  BY DEF Spliced
<1>4. /\ span \in Ids /\ \A i \in DOMAIN c.events : c.events[i].id[1] \notin Of(p)
      /\ \E i \in DOMAIN c.events : c.events[i].id = span
  BY <1>2 DEF SoundOf, Sound
<1> HIDE DEF r, c, span, missing, X
<1>5. /\ ended \in SoundOf(r) /\ Adds(r, c, ended, X)
      /\ \A i \in New(c, ended) : ended.events[i].id[1] = r
  BY <1>1, <1>2, EndSound, EmitsAdds
<1> HIDE DEF ended
<1>6. /\ told \in SoundOf(r) /\ Adds(r, c, told, X) /\ \A i \in New(c, told) : told.events[i].id[1] = r
  <2> DEFINE e == event(ended, "error", 1)
  <2>1. /\ e \in SoundOf(r) /\ Adds(r, ended, e, X)
        /\ \A i \in New(ended, e) : e.events[i].id[1] = r
    BY <1>1, <1>2, <1>5, EventAdds
  <2>2. told \in {e, ended}
    OBVIOUS
  <2> HIDE DEF e, told
  <2>3. c \in Collectors(r) /\ ended \in Collectors(r) /\ e \in Collectors(r)
    BY <1>2, <1>5, <2>1 DEF SoundOf
  <2>4. Adds(r, c, e, X) /\ \A i \in New(c, e) : e.events[i].id[1] = r
    BY <1>5, <2>1, <2>3, AddsTwice, OwnTwice
  <2> QED BY <1>5, <2>1, <2>2, <2>4
<1> HIDE DEF told
<1>7. \A i \in DOMAIN told.events :
        told.events[i].id[1] = r \/ (i \in DOMAIN c.events /\ told.events[i] = c.events[i])
  <2>1. /\ Len(c.events) \in Nat /\ Len(told.events) \in Nat /\ DOMAIN c.events = 1..Len(c.events)
        /\ DOMAIN told.events = 1..Len(told.events)
    BY <1>2, <1>6, Lengths DEF SoundOf
  <2>2. ASSUME NEW i \in DOMAIN told.events PROVE i \in New(c, told) \/ i \in DOMAIN c.events
    BY <2>1 DEF New
  <2> QED BY <1>6, <2>2 DEF Adds
<1>8. whole \in SoundOf(r)
  BY <1>2, <1>4, <1>6, AttachSound DEF Grows
<1>9. Adds(r, told, whole, X) /\ (whole.dropped = told.dropped => Hangs(whole, span, X))
  <2>1. \A i \in DOMAIN told.events : told.events[i].id[1] \notin Of(p)
    BY <1>2, <1>4, <1>7
  <2>2. \E i \in DOMAIN told.events : told.events[i].id = span
    BY <1>4, <1>6 DEF Adds
  <2> QED BY <1>2, <1>4, <1>6, <2>1, <2>2, AttachHangs DEF X
<1>10. noted \in SoundOf(r) /\ Adds(r, whole, noted, X)
  <2> HIDE DEF whole
  <2> DEFINE e1 == event(whole, "orchestrator.specialist_draft", 1)
             e2 == event(whole, "agentcore.nested_trace", 1)
  <2>1. /\ e1 \in SoundOf(r) /\ Adds(r, whole, e1, X)
        /\ e2 \in SoundOf(r) /\ Adds(r, whole, e2, X)
    BY <1>1, <1>2, <1>8, EventAdds
  <2>2. noted \in {whole, e1, e2}
    OBVIOUS
  <2> HIDE DEF e1, e2, noted
  <2>3. Adds(r, whole, whole, X)
    BY <1>8, AddsNone DEF SoundOf, Collectors
  <2> QED BY <1>8, <2>1, <2>2, <2>3
<1>11. /\ c \in Collectors(r) /\ told \in Collectors(r) /\ whole \in Collectors(r) /\ noted \in Collectors(r)
  BY <1>2, <1>6, <1>8, <1>10 DEF SoundOf
<1>12. Adds(r, c, noted, X)
  <2> HIDE DEF whole, noted
  <2>1. Adds(r, told, noted, X)
    BY <1>9, <1>10, <1>11, AddsTwice
  <2> QED BY <1>6, <1>11, <2>1, AddsTwice
<1>13. ASSUME noted.dropped = 0 PROVE Hangs(noted, span, X)
  <2> HIDE DEF whole, noted
  <2>1. told.dropped \in Nat /\ whole.dropped \in Nat
    BY <1>11, Lengths
  <2>2. whole.dropped = told.dropped
    BY <1>9, <1>10, <1>13, <2>1 DEF Adds
  <2> QED BY <1>9, <1>10, <1>11, <2>2, HangsOn
<1> HIDE DEF noted
<1> QED BY <1>3, <1>12, <1>13 DEF r, c, span, X

-----------------------------------------------------------------------------
(* The relay: what was sent by a runtime is with its caller or on its way. *)

Traced(p) == {n \in DOMAIN link[p] : link[p][n].type = "trace"}
OnTheWay(p) == {link[p][n].ev.id : n \in Traced(p)}
Sent(p) == NestedIds(nested[p]) \cup OnTheWay(p)

StraightSent(p) ==
  \A n \in Traced(p) :
    \/ Straight(link[p][n].ev) \/ link[p][n].ev.id \in NestedIds(nested[p])
    \/ \E m \in Traced(p) : m < n /\ link[p][m].ev.id = link[p][n].ev.id

Ordered == \A p \in Runtimes : StraightFirst(nested[p]) /\ StraightSent(p)

(* Before the orchestrator's runtime splices what a specialist sent, it    *)
(* has forwarded it.                                                       *)
Passed ==
  path = "hop" => \A s \in Specialists : Called(s) =>
    at["orchestrator"] = "running" /\ NestedIds(nested[s]) \subseteq Sent("orchestrator")

Resting ==
  \A p \in Runtimes : /\ at[p] \in {"idle", "over"} => link[p] = <<>>
                      /\ at[p] = "idle" => nested[p] = <<>>

(* The start of an invocation is never dropped. *)
SpanKept ==
  \A p \in Runtimes : Called(p) =>
    \E i \in DOMAIN col[Caller(p)].events : col[Caller(p)].events[i].id = wrapper[p]

(* Events of others are those of runtimes that are over. *)
Foreign ==
  /\ \A p \in Runtimes : path # "hop" /\ at[p] # "idle" => p \in Specialists
  /\ \A r \in Procs : \A i \in DOMAIN col[r].events : col[r].events[i].id[1] # r =>
       \E q \in Runtimes : Caller(q) = r /\ at[q] = "over" /\ col[r].events[i].id[1] \in Of(q)

Hanging ==
  \A p \in Runtimes : at[p] = "over" /\ col[Caller(p)].dropped = 0 =>
    Hangs(col[Caller(p)], wrapper[p], NestedIds(nested[p]))

HierInv == Ordered /\ Passed /\ Resting /\ SpanKept /\ Foreign /\ Hanging

LEMMA Joined3 ==
  ASSUME NEW S, NEW f \in Seq(S), NEW g \in Seq(S), NEW h \in Seq(S)
  PROVE  /\ DOMAIN (f \o g \o h) = 1..(Len(f) + Len(g) + Len(h)) /\ Len(h) \in Nat
         /\ \A n \in 1..Len(f) : (f \o g \o h)[n] = f[n]
         /\ \A n \in 1..Len(g) : (f \o g \o h)[Len(f) + n] = g[n]
         /\ \A n \in 1..Len(h) : (f \o g \o h)[Len(f) + Len(g) + n] = h[n]
OBVIOUS

LEMMA RecordOrders ==
  ASSUME RelayInv, Ordered, NEW p \in Procs, NEW c \in SoundOf(p), NEW more \in Seq(Frame(p)),
         \A n \in DOMAIN more : more[n].type = "done", Record(p, c, more),
         NEW X, Adds(p, col[p], c, X), p # "api" => X \subseteq Sent(p), nested' = nested
  PROVE  /\ \A q \in Runtimes : StraightSent(q)' /\ Sent(q) \subseteq Sent(q)'
         /\ \A q \in Runtimes \ {p} : link'[q] = link[q]
<1>1. CASE p = "api"
  <2>1. link' = link
    BY <1>1 DEF Record
  <2> QED BY <2>1 DEF Ordered, StraightSent, Traced, Sent, OnTheWay
<1>2. CASE p # "api"
  <2> DEFINE new == Recorded(col[p], c)
             old == link[p]
             l == Len(col[p].events)
             a == Len(old)
             b == Len(new)
             queue == old \o Frames(new) \o more
  <2>1. /\ p \in Runtimes /\ DOMAIN link = Runtimes /\ old \in Seq(Frame(p))
        /\ link' = [link EXCEPT ![p] = queue] /\ col[p] \in SoundOf(p)
    BY <1>2 DEF RelayInv, RelayTyped, Runtimes, Record
  <2>2. \A q \in Runtimes \ {p} : link'[q] = link[q]
    BY <2>1
  <2>3. \A q \in Runtimes \ {p} : StraightSent(q)' /\ Sent(q) \subseteq Sent(q)'
    BY <2>2 DEF Ordered, StraightSent, Traced, Sent, OnTheWay
  <2>4. Frames(new) \in Seq(Frame(p))
    BY <2>1, RecordedFrames
  <2>5. /\ l \in Nat /\ Len(c.events) \in Nat /\ l <= Len(c.events)
        /\ DOMAIN c.events = 1..Len(c.events) /\ New(col[p], c) = l + 1 .. Len(c.events)
    BY <2>1, Lengths DEF SoundOf, Adds, New
  <2>6. /\ b = Len(c.events) - l /\ b \in Nat /\ DOMAIN new = 1..b
        /\ \A i \in 1..b : new[i] = c.events[l + i]
    <3>1. c.events \in Seq(EventsOf(p))
      BY DEF SoundOf, Collectors
    <3> HIDE DEF l
    <3>2. new = SubSeq(c.events, l + 1, Len(c.events))
      BY DEF Recorded, l
    <3> DEFINE e == Len(c.events)
               es == c.events
    <3> HIDE DEF new, e, es, a, old, queue
    <3>3. /\ es \in Seq(EventsOf(p)) /\ e \in Nat /\ l \in Nat /\ l <= e /\ e = Len(es)
          /\ new = SubSeq(es, l + 1, e)
      BY <2>5, <3>1, <3>2 DEF e, es
    <3>4. Len(new) = e - l /\ DOMAIN new = 1..(e - l) /\ \A i \in 1..(e - l) : new[i] = es[l + i]
      BY <3>3
    <3>5. e - l \in Nat
      BY <3>3
    <3> QED BY <3>4, <3>5 DEF e, es
  <2>7. /\ DOMAIN Frames(new) = 1..b
        /\ \A i \in 1..b : Frames(new)[i] = [type |-> "trace", ev |-> c.events[l + i]]
    BY <2>6 DEF Frames
  <2> HIDE DEF new, l, b
  <2>8. a \in Nat /\ Len(Frames(new)) = b /\ DOMAIN old = 1..a
    BY <2>1, <2>4, <2>6, <2>7
  <2> HIDE DEF a
  <2>9. /\ DOMAIN queue = 1..(a + b + Len(more)) /\ Len(more) \in Nat
        /\ \A n \in 1..a : queue[n] = old[n]
        /\ \A n \in 1..b : queue[a + n] = Frames(new)[n]
        /\ \A n \in 1..Len(more) : queue[a + b + n] = more[n]
    <3> DEFINE g == Frames(new)
    <3> HIDE DEF old, g
    <3>1. /\ DOMAIN (old \o g \o more) = 1..(Len(old) + Len(g) + Len(more)) /\ Len(more) \in Nat
          /\ \A n \in 1..Len(old) : (old \o g \o more)[n] = old[n]
          /\ \A n \in 1..Len(g) : (old \o g \o more)[Len(old) + n] = g[n]
          /\ \A n \in 1..Len(more) : (old \o g \o more)[Len(old) + Len(g) + n] = more[n]
      BY <2>1, <2>4, Joined3 DEF g
    <3>2. Len(old) = a /\ Len(g) = b
      BY <2>8 DEF a, g
    <3> QED BY <3>1, <3>2 DEF g
  <2>10. link'[p] = queue
    BY <2>1
  <2> HIDE DEF queue, old
  <2>11. \A n \in Traced(p)' : n \in Traced(p) \/ \E i \in 1..b : n = a + i
    <3> SUFFICES ASSUME NEW n \in DOMAIN queue, queue[n].type = "trace"
                 PROVE  (n \in 1..a /\ old[n].type = "trace") \/ \E i \in 1..b : n = a + i
      BY <2>8, <2>10 DEF Traced, old
    <3>1. CASE n \in 1..a
      BY <2>9, <3>1
    <3>2. CASE n \in a + 1 .. a + b
      <4>1. n - a \in 1..b /\ n = a + (n - a)
        BY <2>6, <2>8, <3>2
      <4> QED BY <4>1
    <3>3. CASE ~(n \in 1..a) /\ ~(n \in a + 1 .. a + b)
      <4>1. n - (a + b) \in 1..Len(more) /\ a + b + (n - (a + b)) = n
        <5> DEFINE z == Len(more)
        <5>1. n \in 1..(a + b + z) /\ z \in Nat
          BY <2>9
        <5> HIDE DEF z
        <5>2. a \in Nat /\ b \in Nat
          BY <2>6, <2>8
        <5>3. n - (a + b) \in 1..z /\ a + b + (n - (a + b)) = n
          BY <3>3, <5>1, <5>2
        <5> QED BY <5>3 DEF z
      <4>2. queue[n] = more[n - (a + b)] /\ n - (a + b) \in DOMAIN more
        <5> DEFINE k == n - (a + b)
        <5>1. k \in 1..Len(more) /\ a + b + k = n
          BY <4>1
        <5> HIDE DEF k
        <5>2. queue[a + b + k] = more[k] /\ k \in DOMAIN more
          BY <2>9, <5>1
        <5> QED BY <5>1, <5>2 DEF k
      <4>3. more[n - (a + b)].type = "done"
        BY <4>2
      <4> QED BY <4>2, <4>3
    <3> QED BY <3>1, <3>2, <3>3
  <2>12. \A n \in Traced(p) : n \in Traced(p)' /\ link'[p][n] = link[p][n] /\ n \in 1..a
    BY <2>6, <2>8, <2>9, <2>10 DEF Traced, old
  <2>13. Sent(p) \subseteq Sent(p)'
    BY <2>12 DEF Sent, OnTheWay
  <2>14. StraightSent(p)'
    <3> SUFFICES ASSUME NEW n \in Traced(p)'
                 PROVE  \/ Straight(link'[p][n].ev) \/ link'[p][n].ev.id \in NestedIds(nested[p])
                        \/ \E m \in Traced(p)' : m < n /\ link'[p][m].ev.id = link'[p][n].ev.id
      BY DEF StraightSent
    <3>1. CASE n \in Traced(p)
      <4>1. \/ Straight(link[p][n].ev) \/ link[p][n].ev.id \in NestedIds(nested[p])
            \/ \E m \in Traced(p) : m < n /\ link[p][m].ev.id = link[p][n].ev.id
        BY <2>1, <3>1 DEF Ordered, StraightSent
      <4> QED BY <2>12, <3>1, <4>1
    <3>2. CASE \E i \in 1..b : n = a + i
      <4>1. PICK i \in 1..b : n = a + i
        BY <3>2
      <4> DEFINE ev == c.events[l + i]
      <4>2. link'[p][n].ev = ev
        BY <2>7, <2>9, <2>10, <4>1
      <4>3. l + i \in New(col[p], c)
        BY <2>5, <2>6, <4>1
      <4>4. Straight(ev) \/ ev.id \in X
        BY <4>3 DEF Adds
      <4> HIDE DEF ev
      <4>5. ASSUME ev.id \in X
            PROVE  \/ ev.id \in NestedIds(nested[p])
                   \/ \E m \in Traced(p)' : m < n /\ link'[p][m].ev.id = ev.id
        <5>1. ev.id \in NestedIds(nested[p]) \/ \E m \in Traced(p) : link[p][m].ev.id = ev.id
          BY <1>2, <4>5 DEF Sent, OnTheWay
        <5>2. \A m \in 1..a : m < n
          BY <2>8, <4>1
        <5> QED BY <2>12, <5>1, <5>2
      <4> QED BY <4>2, <4>4, <4>5
    <3> QED BY <2>11, <3>1, <3>2
  <2> QED BY <2>2, <2>3, <2>13, <2>14
<1> QED BY <1>1, <1>2

(* What a step of p, whose collector becomes c, may do to the invocations: *)
(* begin one of its own, when the start of its span is kept, or end one    *)
(* whose events X it has spliced.                                          *)
Invocations(p, c, X) ==
  /\ \A x \in X : \E q \in Runtimes : Caller(q) = p /\ at'[q] = "over" /\ x[1] \in Of(q)
  /\ p # "api" => at'[p] \notin {"idle", "over"}
  /\ path = "hop" => \A s \in Specialists : Called(s)' => at'["orchestrator"] = "running"
  /\ \A q \in Runtimes : /\ at'[q] = "idle" => at[q] = "idle"
                         /\ at[q] = "over" => at'[q] = "over"
                         /\ path # "hop" /\ at'[q] # "idle" => q \in Specialists
  /\ \A q \in Runtimes : Called(q)' =>
       \/ Called(q) /\ wrapper'[q] = wrapper[q]
       \/ /\ at[q] = "idle" /\ Caller(q) = p
          /\ \E i \in DOMAIN c.events : c.events[i].id = wrapper'[q]
  /\ \A q \in Runtimes : at'[q] = "over" =>
       \/ at[q] = "over" /\ wrapper'[q] = wrapper[q]
       \/ /\ link[q] = <<>> /\ Caller(q) = p
          /\ c.dropped = 0 => Hangs(c, wrapper'[q], NestedIds(nested[q]))

LEMMA HierRecord ==
  ASSUME RelayInv, HierInv, NEW p \in Procs, NEW c \in SoundOf(p), NEW more \in Seq(Frame(p)),
         \A n \in DOMAIN more : more[n].type = "done", Record(p, c, more),
         NEW X, Adds(p, col[p], c, X), p # "api" => X \subseteq Sent(p),
         UNCHANGED <<path, nested>>, Invocations(p, c, X)
  PROVE  HierInv'
<1> SUFFICES ASSUME
         \A x \in X : \E q \in Runtimes : Caller(q) = p /\ at'[q] = "over" /\ x[1] \in Of(q),
         p # "api" => at'[p] \notin {"idle", "over"},
         path = "hop" => \A s \in Specialists : Called(s)' => at'["orchestrator"] = "running",
         \A q \in Runtimes : /\ at'[q] = "idle" => at[q] = "idle"
                             /\ at[q] = "over" => at'[q] = "over"
                             /\ path # "hop" /\ at'[q] # "idle" => q \in Specialists,
         \A q \in Runtimes : Called(q)' =>
           \/ Called(q) /\ wrapper'[q] = wrapper[q]
           \/ /\ at[q] = "idle" /\ Caller(q) = p
              /\ \E i \in DOMAIN c.events : c.events[i].id = wrapper'[q],
         \A q \in Runtimes : at'[q] = "over" =>
           \/ at[q] = "over" /\ wrapper'[q] = wrapper[q]
           \/ /\ link[q] = <<>> /\ Caller(q) = p
              /\ c.dropped = 0 => Hangs(c, wrapper'[q], NestedIds(nested[q]))
             PROVE  HierInv'
  BY DEF Invocations
<1>1. /\ DOMAIN col' = Procs /\ col'[p] = c /\ \A q \in Procs \ {p} : col'[q] = col[q]
      /\ \A q \in Procs : col'[q] \in SoundOf(q)
  BY RecordKeeps DEF RelayInv
<1>2. /\ \A q \in Runtimes : StraightSent(q)' /\ Sent(q) \subseteq Sent(q)'
      /\ \A q \in Runtimes \ {p} : link'[q] = link[q]
  BY RecordOrders DEF HierInv
<1>3. \A q \in Runtimes : /\ Caller(q)' = Caller(q) /\ Caller(q) \in Procs /\ Caller(q) # q
                          /\ Caller(q) # p => col'[Caller(q)] = col[Caller(q)]
  BY <1>1, CallerFacts DEF Caller
<1>4. c \in Collectors(p) /\ col[p] \in Collectors(p) /\ "orchestrator" \in Runtimes
  BY DEF RelayInv, RelayTyped, SoundOf, Runtimes, Procs
<1>5. \A i \in DOMAIN col[p].events : i \in DOMAIN c.events /\ c.events[i] = col[p].events[i]
  BY DEF Adds
<1>6. Ordered'
  BY <1>2 DEF HierInv, Ordered, StraightFirst
<1>7. Passed'
  <2> SUFFICES ASSUME path = "hop", NEW s \in Specialists, Called(s)'
               PROVE  /\ at'["orchestrator"] = "running"
                      /\ NestedIds(nested[s]) \subseteq Sent("orchestrator")'
    BY DEF Passed
  <2>1. s \in Runtimes
    BY SpecialistFacts
  <2>2. CASE Called(s)
    <3>1. NestedIds(nested[s]) \subseteq Sent("orchestrator")
      BY <2>2 DEF HierInv, Passed
    <3> QED BY <1>2, <1>4, <3>1
  <2>3. CASE at[s] = "idle"
    <3>1. NestedIds(nested[s]) = {}
      BY <2>1, <2>3 DEF HierInv, Resting, NestedIds
    <3> QED BY <3>1
  <2> QED BY <2>1, <2>2, <2>3
<1>8. Resting'
  <2> SUFFICES ASSUME NEW q \in Runtimes
               PROVE  /\ at'[q] \in {"idle", "over"} => link'[q] = <<>>
                      /\ at'[q] = "idle" => nested[q] = <<>>
    BY DEF Resting
  <2>1. at'[q] = "idle" => nested[q] = <<>> /\ link[q] = <<>>
    BY DEF HierInv, Resting
  <2>2. at'[q] = "over" => link[q] = <<>>
    BY DEF HierInv, Resting
  <2>3. at'[q] \in {"idle", "over"} => q # p
    BY DEF Runtimes
  <2> QED BY <1>2, <2>1, <2>2, <2>3
<1>9. SpanKept'
  <2> SUFFICES ASSUME NEW q \in Runtimes, Called(q)'
               PROVE  \E i \in DOMAIN col'[Caller(q)].events : col'[Caller(q)].events[i].id = wrapper'[q]
    BY <1>3 DEF SpanKept
  <2>1. CASE Called(q) /\ wrapper'[q] = wrapper[q]
    <3>1. PICK i \in DOMAIN col[Caller(q)].events : col[Caller(q)].events[i].id = wrapper[q]
      BY <2>1 DEF HierInv, SpanKept
    <3> QED BY <1>1, <1>3, <1>5, <2>1, <3>1
  <2>2. CASE Caller(q) = p /\ \E i \in DOMAIN c.events : c.events[i].id = wrapper'[q]
    BY <1>1, <2>2
  <2> QED BY <2>1, <2>2
<1>10. Foreign'
  <2>1. \A q \in Runtimes : path' # "hop" /\ at'[q] # "idle" => q \in Specialists
    OBVIOUS
  <2> SUFFICES ASSUME NEW r \in Procs, NEW i \in DOMAIN col'[r].events, col'[r].events[i].id[1] # r
               PROVE  \E q \in Runtimes : /\ Caller(q) = r /\ at'[q] = "over"
                                          /\ col'[r].events[i].id[1] \in Of(q)
    BY <1>3, <2>1 DEF Foreign
  <2>2. ASSUME i \in DOMAIN col[r].events, col'[r].events[i] = col[r].events[i]
        PROVE  \E q \in Runtimes : /\ Caller(q) = r /\ at'[q] = "over"
                                   /\ col'[r].events[i].id[1] \in Of(q)
    <3>1. PICK q \in Runtimes : Caller(q) = r /\ at[q] = "over" /\ col[r].events[i].id[1] \in Of(q)
      BY <2>2 DEF HierInv, Foreign
    <3> QED BY <2>2, <3>1
  <2>3. CASE r # p
    BY <1>1, <2>2, <2>3
  <2>4. CASE r = p /\ i \in DOMAIN col[p].events
    BY <1>1, <1>5, <2>2, <2>4
  <2>5. CASE r = p /\ i \notin DOMAIN col[p].events
    <3>1. i \in New(col[p], c)
      <4>1. /\ DOMAIN c.events = 1..Len(c.events) /\ DOMAIN col[p].events = 1..Len(col[p].events)
            /\ Len(c.events) \in Nat /\ Len(col[p].events) \in Nat
        BY <1>4, Lengths
      <4>2. i \in DOMAIN c.events
        BY <1>1, <2>5
      <4> QED BY <2>5, <4>1, <4>2 DEF New
    <3>2. c.events[i].id \in X
      BY <1>1, <2>5, <3>1 DEF Adds
    <3> QED BY <1>1, <2>5, <3>2
  <2> QED BY <2>3, <2>4, <2>5
<1>11. Hanging'
  <2> SUFFICES ASSUME NEW q \in Runtimes, at'[q] = "over", col'[Caller(q)].dropped = 0
               PROVE  Hangs(col'[Caller(q)], wrapper'[q], NestedIds(nested[q]))
    BY <1>3 DEF Hanging
  <2>1. CASE at[q] = "over" /\ wrapper'[q] = wrapper[q]
    <3> DEFINE X1 == NestedIds(nested[q])
    <3>1. col[Caller(q)].dropped = 0 => Hangs(col[Caller(q)], wrapper[q], X1)
      BY <2>1 DEF HierInv, Hanging
    <3> HIDE DEF X1
    <3>2. CASE Caller(q) # p
      BY <1>3, <2>1, <3>1, <3>2 DEF X1
    <3>3. CASE Caller(q) = p
      <4>1. c.dropped \in Nat /\ col[p].dropped \in Nat /\ col[p].dropped <= c.dropped /\ c.dropped = 0
        BY <1>1, <1>4, <3>3, Lengths DEF Adds
      <4>2. Hangs(col[p], wrapper[q], X1)
        BY <3>1, <3>3, <4>1
      <4> QED BY <1>1, <1>4, <2>1, <3>3, <4>2, HangsOn DEF X1
    <3> QED BY <3>2, <3>3
  <2>2. CASE Caller(q) = p /\ (c.dropped = 0 => Hangs(c, wrapper'[q], NestedIds(nested[q])))
    BY <1>1, <2>2
  <2> QED BY <2>1, <2>2
<1> QED BY <1>6, <1>7, <1>8, <1>9, <1>10, <1>11 DEF HierInv

LEMMA HierSpecialist ==
  ASSUME RelayInv, HierInv, NEW s \in Specialists, NEW c \in SoundOf(s), NEW more \in Seq(Frame(s)),
         \A n \in DOMAIN more : more[n].type = "done", Record(s, c, more), Adds(s, col[s], c, {}),
         Called(s), NEW v \in {"running", "closed"}, at' = [at EXCEPT ![s] = v],
         UNCHANGED <<path, wrapper, nested>>
  PROVE  HierInv'
<1>1. /\ at \in [Procs -> {"idle", "fresh", "running", "closed", "broken", "over"}]
      /\ s \in Procs /\ s \in Runtimes /\ s # "orchestrator" /\ "orchestrator" \in Procs
  BY SpecialistFacts, RelayAssumption DEF RelayInv, RelayTyped, Procs
<1>2. at'[s] = v /\ \A q \in Procs \ {s} : at'[q] = at[q]
  BY <1>1
<1>3. \A q \in Runtimes : q \in Procs
  BY DEF Runtimes
<1>4. at[s] # "idle" /\ at[s] # "over"
  BY DEF Called
<1>5. \A q \in Runtimes : Called(q)' => Called(q)
  BY <1>2, <1>3 DEF Called
<1>6. \A q \in Runtimes : /\ at'[q] = "idle" => at[q] = "idle"
                          /\ at[q] = "over" <=> at'[q] = "over"
                          /\ path # "hop" /\ at'[q] # "idle" => q \in Specialists
  BY <1>2, <1>3, <1>4 DEF HierInv, Foreign
<1>7. path = "hop" => \A q \in Specialists : Called(q)' => at'["orchestrator"] = "running"
  <2>1. \A q \in Specialists : q \in Runtimes
    BY SpecialistFacts
  <2> QED BY <1>1, <1>2, <1>5, <2>1 DEF HierInv, Passed
<1>8. /\ s # "api" => {} \subseteq Sent(s)
      /\ s # "api" => at'[s] \notin {"idle", "over"}
      /\ \A x \in {} : \E q \in Runtimes : Caller(q) = s /\ at'[q] = "over" /\ x[1] \in Of(q)
  BY <1>2
<1>9. \A q \in Runtimes : Called(q)' =>
        \/ Called(q) /\ wrapper'[q] = wrapper[q]
        \/ /\ at[q] = "idle" /\ Caller(q) = s
           /\ \E i \in DOMAIN c.events : c.events[i].id = wrapper'[q]
  BY <1>5
<1>10. \A q \in Runtimes : at'[q] = "over" =>
         \/ at[q] = "over" /\ wrapper'[q] = wrapper[q]
         \/ /\ link[q] = <<>> /\ Caller(q) = s
            /\ c.dropped = 0 => Hangs(c, wrapper'[q], NestedIds(nested[q]))
  BY <1>6
<1>11. \A q \in Runtimes : /\ at'[q] = "idle" => at[q] = "idle"
                           /\ at[q] = "over" => at'[q] = "over"
                           /\ path # "hop" /\ at'[q] # "idle" => q \in Specialists
  BY <1>6
<1>12. Invocations(s, c, {})
  BY <1>7, <1>8, <1>9, <1>10, <1>11 DEF Invocations
<1>13. UNCHANGED <<path, nested>> /\ (s # "api" => {} \subseteq Sent(s))
  OBVIOUS
<1> QED BY <1>1, <1>12, <1>13, HierRecord

LEMMA NoMore == \A n \in DOMAIN <<>> : <<>>[n].type = "done"
OBVIOUS

LEMMA StartAdds ==
  ASSUME NEW p \in Procs, NEW c \in SoundOf(p), NEW kind \in Kinds, NEW size \in Nat
  PROVE  LET e == start(c, kind, size)
         IN /\ e \in SoundOf(p) /\ Adds(p, c, e, {})
            /\ kind \in PROTECTED_TYPES => \E i \in DOMAIN e.events : e.events[i].id = NewId(c)
<1> DEFINE e == start(c, kind, size)
<1>1. e \in SoundOf(p) /\ Emits(p, c, e, kind, "start")
  BY StartSound
<1> HIDE DEF e
<1>2. /\ Adds(p, c, e, {})
      /\ kind \in PROTECTED_TYPES => \E i \in DOMAIN e.events : e.events[i].id = NewId(c)
  BY <1>1, EmitsAdds
<1> QED BY <1>1, <1>2 DEF e

LEMMA EndAdds ==
  ASSUME NEW p \in Procs, NEW c \in SoundOf(p), NEW id \in OnStack(c), NEW kind \in Kinds, NEW size \in Nat
  PROVE  LET e == end(c, id, kind, size) IN e \in SoundOf(p) /\ Adds(p, c, e, {})
<1> DEFINE e == end(c, id, kind, size)
<1>1. e \in SoundOf(p) /\ Emits(p, c, e, kind, "end")
  BY EndSound
<1> HIDE DEF e
<1>2. Adds(p, c, e, {})
  BY <1>1, EmitsAdds
<1> QED BY <1>1, <1>2 DEF e

LEMMA AnsweringHier ==
  ASSUME RelayInv, HierInv, NEW s \in Specialists, NEW size \in {1, MaxEventBytes + 1}, Answering(s, size)
  PROVE  HierInv'
<1> DEFINE c == start(col[s], "model.request", size)
<1>1. size \in Nat /\ "model.request" \in Kinds
  BY CollectorAssumption DEF Kinds, SpanKinds
<1>2. c \in SoundOf(s) /\ Adds(s, col[s], c, {})
  BY <1>1, SpecialistFacts, StartAdds
<1>3. /\ Record(s, c, <<>>) /\ at' = [at EXCEPT ![s] = "running"] /\ Called(s)
      /\ UNCHANGED <<path, wrapper, nested>>
  BY DEF Answering, Called
<1> HIDE DEF c
<1> QED BY <1>2, <1>3, SpecialistFacts, NoMore, HierSpecialist

LEMMA CallToolHier ==
  ASSUME RelayInv, HierInv, NEW s \in Specialists, CallTool(s)
  PROVE  HierInv'
<1> DEFINE c == start(col[s], "tool.call", 1)
<1>1. 1 \in Nat /\ "tool.call" \in Kinds
  BY DEF Kinds, SpanKinds
<1>2. c \in SoundOf(s) /\ Adds(s, col[s], c, {})
  BY <1>1, SpecialistFacts, StartAdds
<1>3. /\ Record(s, c, <<>>) /\ at' = [at EXCEPT ![s] = "running"] /\ Called(s)
      /\ UNCHANGED <<path, wrapper, nested>>
  BY SpecialistFacts DEF CallTool, Free, Recording, Called
<1> HIDE DEF c
<1> QED BY <1>2, <1>3, SpecialistFacts, NoMore, HierSpecialist

LEMMA CallMcpHier ==
  ASSUME RelayInv, HierInv, NEW s \in Specialists, CallMcp(s)
  PROVE  HierInv'
<1> DEFINE c == event(col[s], "tool.mcp", 1)
<1>1. 1 \in Nat /\ "tool.mcp" \in Kinds
  BY DEF Kinds
<1>2. c \in SoundOf(s) /\ Adds(s, col[s], c, {})
  BY <1>1, SpecialistFacts, EventAdds
<1>3. /\ Record(s, c, <<>>) /\ at' = [at EXCEPT ![s] = "running"] /\ Called(s)
      /\ UNCHANGED <<path, wrapper, nested>>
  BY SpecialistFacts DEF CallMcp, Free, Recording, Called
<1> HIDE DEF c
<1> QED BY <1>2, <1>3, SpecialistFacts, NoMore, HierSpecialist

LEMMA ToolReturnedHier ==
  ASSUME RelayInv, HierInv, NEW s \in Specialists, NEW id \in open[s], NEW ok \in BOOLEAN,
         ToolReturned(s, id, ok)
  PROVE  HierInv'
<1> DEFINE failed == event(col[s], "error", 1)
           told == IF ok THEN col[s] ELSE failed
           c == end(told, id, "tool.call", 1)
<1>1. 1 \in Nat /\ "tool.call" \in Kinds /\ "error" \in Kinds /\ id \in OnStack(col[s])
  BY DEF Kinds, SpanKinds, RelayInv, SpansOpen
<1>2. failed \in SoundOf(s) /\ OnStack(failed) = OnStack(col[s]) /\ Adds(s, col[s], failed, {})
  BY <1>1, SpecialistFacts, EventSound, EventAdds DEF Grows, OnStack
<1>3. col[s] \in SoundOf(s) /\ Adds(s, col[s], col[s], {})
  BY SpecialistFacts, AddsNone DEF SoundOf, Collectors
<1>4. told \in {col[s], failed}
  OBVIOUS
<1>5. /\ Record(s, c, <<>>) /\ at' = [at EXCEPT ![s] = "running"] /\ Called(s)
      /\ UNCHANGED <<path, wrapper, nested>>
  BY SpecialistFacts DEF ToolReturned, Recording, Called
<1> HIDE DEF told, failed
<1>6. told \in SoundOf(s) /\ Adds(s, col[s], told, {}) /\ id \in OnStack(told)
  BY <1>1, <1>2, <1>3, <1>4
<1>7. c \in SoundOf(s) /\ Adds(s, told, c, {})
  BY <1>1, <1>6, SpecialistFacts, EndAdds
<1> HIDE DEF c
<1>8. Adds(s, col[s], c, {})
  BY <1>3, <1>6, <1>7, AddsTwice DEF SoundOf
<1> QED BY <1>5, <1>7, <1>8, SpecialistFacts, NoMore, HierSpecialist

LEMMA AnsweredHier ==
  ASSUME RelayInv, HierInv, NEW s \in Specialists, NEW ok \in BOOLEAN, Answered(s, ok)
  PROVE  HierInv'
<1> DEFINE ended == end(col[s], <<s, 1>>, "model.request", 1)
           c == IF ok THEN ended ELSE col[s]
           more == <<DoneFrame(c)>>
<1>1. 1 \in Nat /\ "model.request" \in Kinds
  BY DEF Kinds, SpanKinds
<1>2. /\ Record(s, c, more) /\ at[s] = "running" /\ at' = [at EXCEPT ![s] = "closed"] /\ Called(s)
      /\ UNCHANGED <<path, wrapper, nested>>
  BY DEF Answered, Recording, Called
<1>3. <<s, 1>> \in OnStack(col[s])
  BY <1>2 DEF RelayInv, SpansOpen
<1>4. ended \in SoundOf(s) /\ Adds(s, col[s], ended, {})
  BY <1>1, <1>3, SpecialistFacts, EndAdds
<1>5. col[s] \in SoundOf(s) /\ Adds(s, col[s], col[s], {})
  BY SpecialistFacts, AddsNone DEF SoundOf, Collectors
<1>6. c \in {ended, col[s]}
  OBVIOUS
<1> HIDE DEF c, ended
<1>7. c \in SoundOf(s) /\ Adds(s, col[s], c, {})
  BY <1>4, <1>5, <1>6
<1>8. DoneFrame(c) \in Frame(s) /\ DoneFrame(c).type = "done"
  BY <1>7 DEF DoneFrame, Frame, SoundOf, Collectors
<1>9. more \in Seq(Frame(s)) /\ \A n \in DOMAIN more : more[n].type = "done"
  BY <1>8
<1> HIDE DEF more
<1> QED BY <1>2, <1>7, <1>9, SpecialistFacts, HierSpecialist

LEMMA InvokeHier ==
  ASSUME RelayInv, HierInv, NEW p \in Runtimes, Invoke(p)
  PROVE  HierInv'
<1> DEFINE r == Caller(p)
           c == start(col[r], "agentcore.invoke", 1)
           v == IF p = "orchestrator" THEN "running" ELSE "fresh"
<1>1. 1 \in Nat /\ "agentcore.invoke" \in Kinds /\ "agentcore.invoke" \in PROTECTED_TYPES
  BY DEF Kinds, SpanKinds, PROTECTED_TYPES
<1>2. /\ r \in Procs \ Specialists /\ p \in Procs /\ col[r] \in SoundOf(r)
      /\ <<>> \in Seq(Frame(r)) /\ p # r /\ r \in {"api", "orchestrator"}
  BY CallerFacts DEF Caller
<1>3. /\ at[p] = "idle" /\ at[r] = "running"
      /\ Record(r, c, <<>>) /\ wrapper' = [wrapper EXCEPT ![p] = NewId(col[r])]
      /\ at' = [at EXCEPT ![p] = v] /\ UNCHANGED <<path, nested>> /\ (path # "hop" => p \in Specialists)
  BY DEF Invoke
<1>4. /\ c \in SoundOf(r) /\ Adds(r, col[r], c, {})
      /\ \E i \in DOMAIN c.events : c.events[i].id = NewId(col[r])
  BY <1>1, <1>2, StartAdds
<1> HIDE DEF c
<1>5. /\ at \in [Procs -> {"idle", "fresh", "running", "closed", "broken", "over"}]
      /\ DOMAIN wrapper = Runtimes
  BY DEF RelayInv, RelayTyped
<1>6. at'[p] = v /\ v \in {"running", "fresh"} /\ \A q \in Procs \ {p} : at'[q] = at[q]
  BY <1>2, <1>3, <1>5
<1>7. wrapper'[p] = NewId(col[r]) /\ \A q \in Runtimes \ {p} : wrapper'[q] = wrapper[q]
  BY <1>3, <1>5
<1> HIDE DEF v
<1>8. ASSUME path = "hop", NEW s \in Specialists, Called(s)'
      PROVE  at'["orchestrator"] = "running"
  <2>1. s \in Runtimes /\ s \in Procs /\ "orchestrator" \in Procs /\ s # "orchestrator"
    BY SpecialistFacts, RelayAssumption DEF Procs
  <2>2. CASE s = p
    <3>1. r = "orchestrator"
      BY <1>8, <2>2 DEF Caller
    <3> QED BY <1>2, <1>3, <1>6, <2>1, <3>1
  <2>3. CASE s # p
    <3>1. Called(s)
      BY <1>6, <1>8, <2>1, <2>3 DEF Called
    <3>2. at["orchestrator"] = "running"
      BY <1>8, <3>1 DEF HierInv, Passed
    <3> QED BY <1>3, <1>6, <2>1, <3>2
  <2> QED BY <2>2, <2>3
<1>9. \A q \in Runtimes : q \in Procs
  BY DEF Runtimes
<1>10. Invocations(r, c, {})
  <2>1. r # "api" => at'[r] \notin {"idle", "over"}
    BY <1>2, <1>3, <1>6
  <2>2. \A q \in Runtimes : /\ at'[q] = "idle" => at[q] = "idle"
                            /\ at[q] = "over" => at'[q] = "over"
                            /\ path # "hop" /\ at'[q] # "idle" => q \in Specialists
    BY <1>3, <1>6, <1>9 DEF HierInv, Foreign
  <2>3. ASSUME NEW q \in Runtimes, Called(q)'
        PROVE  \/ Called(q) /\ wrapper'[q] = wrapper[q]
               \/ /\ at[q] = "idle" /\ Caller(q) = r
                  /\ \E i \in DOMAIN c.events : c.events[i].id = wrapper'[q]
    <3>1. CASE q = p
      BY <1>3, <1>4, <1>7, <3>1
    <3>2. CASE q # p
      BY <1>6, <1>7, <1>9, <2>3, <3>2 DEF Called
    <3> QED BY <3>1, <3>2
  <2>4. \A q \in Runtimes : at'[q] = "over" => at[q] = "over" /\ wrapper'[q] = wrapper[q]
    BY <1>6, <1>7, <1>9
  <2> QED BY <1>8, <2>1, <2>2, <2>3, <2>4 DEF Invocations
<1>11. UNCHANGED <<path, nested>> /\ (r # "api" => {} \subseteq Sent(r))
  BY <1>3
<1> HIDE DEF r
<1> QED BY <1>2, <1>3, <1>4, <1>10, <1>11, NoMore, HierRecord

(* What its caller has of others is not from a runtime that is called.     *)
LEMMA NotForeign ==
  ASSUME RelayInv, HierInv, NEW p \in Runtimes, Called(p)
  PROVE  \A i \in DOMAIN col[Caller(p)].events : col[Caller(p)].events[i].id[1] \notin Of(p)
<1>1. SUFFICES ASSUME NEW i \in DOMAIN col[Caller(p)].events, col[Caller(p)].events[i].id[1] \in Of(p)
               PROVE  FALSE
  OBVIOUS
<1>2. Caller(p) \in Procs /\ Of(p) \subseteq Of(Caller(p)) \ {Caller(p)}
  BY CallerFacts
<1>3. PICK q \in Runtimes : /\ Caller(q) = Caller(p) /\ at[q] = "over"
                            /\ col[Caller(p)].events[i].id[1] \in Of(q)
  BY <1>1, <1>2 DEF HierInv, Foreign
<1>4. at[p] # "over" /\ at[p] # "idle" /\ p # q
  BY <1>3 DEF Called
<1>5. p \in Specialists /\ q \in Specialists
  <2>1. CASE path = "hop"
    <3>1. \A t \in Runtimes : t \in Specialists \/ t = "orchestrator"
      BY DEF Runtimes, Procs
    <3> QED BY <1>3, <1>4, <2>1, <3>1, RelayAssumption DEF Caller
  <2>2. CASE path # "hop"
    BY <1>3, <1>4, <2>2 DEF HierInv, Foreign
  <2> QED BY <2>1, <2>2
<1>6. Of(p) = {p} /\ Of(q) = {q}
  BY <1>5, RelayAssumption DEF Of
<1> QED BY <1>1, <1>3, <1>4, <1>6

LEMMA FinishHier ==
  ASSUME RelayInv, HierInv, NEW p \in Runtimes, Finish(p)
  PROVE  HierInv'
<1> DEFINE r == Caller(p)
           c == Spliced(p)
           X == NestedIds(nested[p])
<1>1. /\ at[p] \in {"closed", "broken"} /\ link[p] = <<>>
      /\ Record(r, c, <<>>) /\ at' = [at EXCEPT ![p] = "over"] /\ Called(p)
      /\ UNCHANGED <<path, wrapper, nested>>
  BY DEF Finish, Called
<1>2. /\ r \in Procs \ Specialists /\ p \in Procs /\ <<>> \in Seq(Frame(r)) /\ p # r
      /\ r \in {"api", "orchestrator"} /\ (r = "orchestrator" => p \in Specialists /\ path = "hop")
  BY CallerFacts DEF Caller
<1>3. StraightFirst(nested[p])
  BY DEF HierInv, Ordered
<1>4. /\ \A i \in DOMAIN col[r].events : col[r].events[i].id[1] \notin Of(p)
      /\ \E i \in DOMAIN col[r].events : col[r].events[i].id = wrapper[p]
  BY <1>1, NotForeign DEF HierInv, SpanKept
<1>5. c \in SoundOf(r) /\ Adds(r, col[r], c, X) /\ (c.dropped = 0 => Hangs(c, wrapper[p], X))
  BY <1>1, <1>3, <1>4, SplicedSound, SplicedHangs
<1> HIDE DEF c
<1>6. at \in [Procs -> {"idle", "fresh", "running", "closed", "broken", "over"}]
  BY DEF RelayInv, RelayTyped
<1>7. at'[p] = "over" /\ \A q \in Procs \ {p} : at'[q] = at[q]
  BY <1>1, <1>2, <1>6
<1>8. \A q \in Runtimes : q \in Procs
  BY DEF Runtimes
<1>9. \A q \in Runtimes : Called(q)' => Called(q)
  BY <1>1, <1>7, <1>8 DEF Called
<1>10. ASSUME NEW x \in X PROVE x[1] \in Of(p)
  <2>1. nested[p] \in Seq(EventsOf(p))
    BY DEF RelayInv, RelayTyped
  <2>2. PICK i \in DOMAIN nested[p] : x = nested[p][i].id
    BY DEF NestedIds
  <2>3. nested[p][i] \in EventsOf(p)
    BY <2>1
  <2> QED BY <2>2, <2>3 DEF EventsOf
<1>11. r # "api" => at[r] = "running" /\ X \subseteq Sent(r)
  BY <1>1, <1>2 DEF HierInv, Passed
<1>12. ASSUME path = "hop", NEW s \in Specialists, Called(s)'
       PROVE  at'["orchestrator"] = "running"
  <2>1. s \in Runtimes /\ "orchestrator" \in Procs
    BY SpecialistFacts DEF Procs
  <2>2. at["orchestrator"] = "running"
    BY <1>9, <1>12, <2>1 DEF HierInv, Passed
  <2> QED BY <1>1, <1>7, <2>1, <2>2
<1>13. Invocations(r, c, X)
  <2>1. r # "api" => at'[r] \notin {"idle", "over"}
    BY <1>2, <1>7, <1>11
  <2>2. \A q \in Runtimes : /\ at'[q] = "idle" => at[q] = "idle"
                            /\ at[q] = "over" => at'[q] = "over"
                            /\ path # "hop" /\ at'[q] # "idle" => q \in Specialists
    BY <1>1, <1>7, <1>8 DEF HierInv, Foreign
  <2>3. \A q \in Runtimes : Called(q)' => Called(q) /\ wrapper'[q] = wrapper[q]
    BY <1>1, <1>9
  <2>4. ASSUME NEW q \in Runtimes, at'[q] = "over"
        PROVE  \/ at[q] = "over" /\ wrapper'[q] = wrapper[q]
               \/ /\ link[q] = <<>> /\ Caller(q) = r
                  /\ c.dropped = 0 => Hangs(c, wrapper'[q], NestedIds(nested[q]))
    <3>1. CASE q = p
      BY <1>1, <1>5, <3>1
    <3>2. CASE q # p
      BY <1>1, <1>7, <1>8, <2>4, <3>2
    <3> QED BY <3>1, <3>2
  <2>5. \A x \in X : \E q \in Runtimes : Caller(q) = r /\ at'[q] = "over" /\ x[1] \in Of(q)
    BY <1>7, <1>10
  <2> HIDE DEF r, X
  <2> QED BY <1>12, <2>1, <2>2, <2>3, <2>4, <2>5 DEF Invocations
<1>14. UNCHANGED <<path, nested>> /\ (r # "api" => X \subseteq Sent(r))
  BY <1>1, <1>11
<1> HIDE DEF r, X
<1> QED BY <1>1, <1>2, <1>5, <1>13, <1>14, NoMore, HierRecord

LEMMA OrchestratedHier ==
  ASSUME RelayInv, HierInv, Orchestrated
  PROVE  HierInv'
<1> DEFINE c == col["orchestrator"]
           more == <<DoneFrame(c)>>
<1>1. /\ Record("orchestrator", c, more) /\ at["orchestrator"] = "running"
      /\ at' = [at EXCEPT !["orchestrator"] = "closed"]
      /\ \A s \in Specialists : at[s] \in {"idle", "over"}
      /\ UNCHANGED <<path, wrapper, nested>>
  BY DEF Orchestrated
<1>2. "orchestrator" \in Procs /\ "orchestrator" \in Runtimes
  BY DEF Procs, Runtimes
<1>3. c \in SoundOf("orchestrator")
  BY <1>2 DEF RelayInv, RelayTyped
<1>4. DoneFrame(c) \in Frame("orchestrator") /\ DoneFrame(c).type = "done"
  BY <1>3 DEF DoneFrame, Frame, SoundOf, Collectors
<1>5. more \in Seq(Frame("orchestrator")) /\ \A n \in DOMAIN more : more[n].type = "done"
  BY <1>4
<1>6. Adds("orchestrator", col["orchestrator"], c, {})
  BY <1>3, AddsNone DEF SoundOf, Collectors
<1>7. at \in [Procs -> {"idle", "fresh", "running", "closed", "broken", "over"}]
  BY DEF RelayInv, RelayTyped
<1>8. at'["orchestrator"] = "closed" /\ \A q \in Procs \ {"orchestrator"} : at'[q] = at[q]
  BY <1>1, <1>2, <1>7
<1>9. \A q \in Runtimes : q \in Procs
  BY DEF Runtimes
<1>10. Invocations("orchestrator", c, {})
  <2>1. \A q \in Runtimes : /\ at'[q] = "idle" => at[q] = "idle"
                            /\ at[q] = "over" <=> at'[q] = "over"
                            /\ path # "hop" /\ at'[q] # "idle" => q \in Specialists
    BY <1>1, <1>8, <1>9 DEF HierInv, Foreign
  <2>2. \A q \in Runtimes : Called(q)' => Called(q)
    BY <1>1, <1>8, <1>9 DEF Called
  <2>3. \A s \in Specialists : ~Called(s)'
    BY <1>1, <1>8, SpecialistFacts, RelayAssumption DEF Called
  <2>4. wrapper' = wrapper /\ at'["orchestrator"] \notin {"idle", "over"}
    BY <1>1, <1>8
  <2> HIDE DEF c
  <2> QED BY <2>1, <2>2, <2>3, <2>4 DEF Invocations
<1>11. UNCHANGED <<path, nested>> /\ ("orchestrator" # "api" => {} \subseteq Sent("orchestrator"))
  BY <1>1
<1> HIDE DEF c, more
<1> QED BY <1>1, <1>2, <1>3, <1>5, <1>6, <1>10, <1>11, HierRecord

(* A step that records nothing. *)
LEMMA HierUnrecorded ==
  ASSUME RelayInv, HierInv, UNCHANGED <<path, col, wrapper>>,
         \A q \in Runtimes : /\ Called(q)' <=> Called(q)
                             /\ at'[q] = "idle" <=> at[q] = "idle"
                             /\ at'[q] = "over" <=> at[q] = "over"
                             /\ at[q] = "over" => nested'[q] = nested[q]
  PROVE  SpanKept' /\ Foreign' /\ Hanging'
<1>1. \A q \in Runtimes : Caller(q)' = Caller(q)
  BY DEF Caller
<1>2. col' = col /\ wrapper' = wrapper /\ path' = path
  OBVIOUS
<1>3. SpanKept'
  BY <1>1, <1>2 DEF HierInv, SpanKept
<1>4. Foreign'
  BY <1>1, <1>2 DEF HierInv, Foreign
<1>5. Hanging'
  BY <1>1, <1>2 DEF HierInv, Hanging
<1> QED BY <1>3, <1>4, <1>5

(* The first frame of a link arrives. *)
LEMMA ArrivedOrders ==
  ASSUME RelayInv, HierInv, NEW p \in Runtimes, link[p] # <<>>, Head(link[p]).type = "trace",
         nested' = [nested EXCEPT ![p] = Append(@, Head(link[p]).ev)],
         link'[p] = Tail(link[p])
  PROVE  StraightFirst(nested[p])' /\ StraightSent(p)' /\ Sent(p)' = Sent(p)
         /\ NestedIds(nested[p])' = NestedIds(nested[p]) \cup {Head(link[p]).ev.id}
<1> DEFINE old == link[p]
           seq == nested[p]
           ev == Head(link[p]).ev
           new == Append(seq, ev)
           a == Len(seq)
           b == Len(old)
<1>1. old \in Seq(Frame(p)) /\ seq \in Seq(EventsOf(p)) /\ nested'[p] = new
  BY DEF RelayInv, RelayTyped
<1>2. StraightFirst(seq) /\ StraightSent(p) /\ old # <<>> /\ link'[p] = Tail(old)
  BY DEF HierInv, Ordered
<1>3. ev = old[1].ev /\ old[1].type = "trace"
  BY <1>1, <1>2
<1> HIDE DEF old, seq, ev
<1>4. /\ a \in Nat /\ DOMAIN seq = 1..a /\ DOMAIN new = 1..(a + 1) /\ new[a + 1] = ev
      /\ \A n \in 1..a : new[n] = seq[n]
  BY <1>1
<1>5. /\ b \in Nat \ {0} /\ DOMAIN old = 1..b /\ DOMAIN Tail(old) = 1..(b - 1)
      /\ \A n \in 1..(b - 1) : Tail(old)[n] = old[n + 1]
  BY <1>1, <1>2
<1> HIDE DEF a, b, new
<1>14. \A n \in 1..(b - 1) : n \in Nat
  BY <1>5
<1>6. NestedIds(new) = NestedIds(seq) \cup {ev.id}
  <2>1. \A n \in 1..(a + 1) : n \in 1..a \/ n = a + 1
    BY <1>4
  <2>2. 1..a \subseteq 1..(a + 1) /\ a + 1 \in 1..(a + 1)
    BY <1>4
  <2> QED BY <1>4, <2>1, <2>2 DEF NestedIds
<1>7. /\ 1 \in Traced(p) /\ \A n \in Traced(p) : n = 1 \/ (n - 1 \in Traced(p)' /\ n - 1 \in 1..(b - 1))
      /\ \A n \in Traced(p)' : n + 1 \in Traced(p) /\ n \in 1..(b - 1) /\ link'[p][n] = old[n + 1]
  <2>1. Traced(p) = {n \in 1..b : old[n].type = "trace"}
    BY <1>5 DEF Traced, old
  <2>2. Traced(p)' = {n \in 1..(b - 1) : Tail(old)[n].type = "trace"}
    BY <1>2, <1>5 DEF Traced
  <2>3. ASSUME NEW n \in 1..b, n # 1 PROVE n - 1 \in 1..(b - 1) /\ Tail(old)[n - 1] = old[n]
    <3>1. n - 1 \in 1..(b - 1) /\ (n - 1) + 1 = n
      BY <1>5, <2>3
    <3> QED BY <1>5, <3>1
  <2>4. \A n \in 1..(b - 1) : n + 1 \in 1..b
    BY <1>5
  <2>5. 1 \in 1..b
    BY <1>5
  <2> QED BY <1>2, <1>3, <1>5, <2>1, <2>2, <2>3, <2>4, <2>5
<1>8. OnTheWay(p) = OnTheWay(p)' \cup {ev.id}
  <2>1. OnTheWay(p) = {old[n].ev.id : n \in Traced(p)}
    BY DEF OnTheWay, old
  <2>2. OnTheWay(p)' = {link'[p][n].ev.id : n \in Traced(p)'}
    BY DEF OnTheWay
  <2>3. \A n \in Traced(p) : n # 1 => link'[p][n - 1] = old[n]
    <3> SUFFICES ASSUME NEW n \in Traced(p), n # 1 PROVE link'[p][n - 1] = old[n]
      OBVIOUS
    <3>1. n - 1 \in Traced(p)' /\ n \in 1..b
      BY <1>5, <1>7 DEF Traced, old
    <3>2. (n - 1) + 1 = n
      BY <3>1
    <3> QED BY <1>7, <3>1, <3>2
  <2>4. ASSUME NEW x \in OnTheWay(p) PROVE x \in OnTheWay(p)' \cup {ev.id}
    <3>1. PICK n \in Traced(p) : x = old[n].ev.id
      BY <2>1
    <3>2. CASE n = 1
      BY <1>3, <3>1, <3>2
    <3>3. CASE n # 1
      <4>1. n - 1 \in Traced(p)' /\ link'[p][n - 1] = old[n]
        BY <1>7, <2>3, <3>3
      <4> QED BY <2>2, <3>1, <4>1
    <3> QED BY <3>2, <3>3
  <2>5. \A x \in OnTheWay(p)' \cup {ev.id} : x \in OnTheWay(p)
    BY <1>3, <1>7, <2>1, <2>2
  <2> QED BY <2>4, <2>5
<1>9. NestedIds(nested[p])' = NestedIds(new)
  BY <1>1 DEF NestedIds
<1>10. Sent(p)' = Sent(p)
  BY <1>6, <1>8, <1>9 DEF Sent, seq
<1>11. Straight(ev) \/ ev.id \in NestedIds(seq)
  <2>1. \A m \in Traced(p) : ~(m < 1)
    BY <1>5 DEF Traced, old
  <2> QED BY <1>2, <1>3, <1>7, <2>1 DEF StraightSent, old, seq
<1>12. StraightFirst(nested[p])'
  <2> SUFFICES ASSUME NEW n \in 1..(a + 1)
               PROVE  Straight(new[n]) \/ \E m \in 1..(n - 1) : new[m].id = new[n].id
    BY <1>1, <1>4 DEF StraightFirst
  <2>1. CASE n \in 1..a
    <3>1. Straight(seq[n]) \/ \E m \in 1..(n - 1) : seq[m].id = seq[n].id
      BY <1>2, <1>4, <2>1 DEF StraightFirst
    <3>2. 1..(n - 1) \subseteq 1..a
      BY <1>4, <2>1
    <3> QED BY <1>4, <2>1, <3>1, <3>2
  <2>2. CASE n = a + 1
    <3>1. 1..(n - 1) = 1..a
      BY <1>4, <2>2
    <3> QED BY <1>4, <1>11, <2>2, <3>1 DEF NestedIds
  <2>3. n \in 1..a \/ n = a + 1
    BY <1>4
  <2> QED BY <2>1, <2>2, <2>3
<1>13. StraightSent(p)'
  <2> SUFFICES ASSUME NEW n \in Traced(p)'
               PROVE  \/ Straight(link'[p][n].ev) \/ link'[p][n].ev.id \in NestedIds(nested[p])'
                      \/ \E m \in Traced(p)' : m < n /\ link'[p][m].ev.id = link'[p][n].ev.id
    BY DEF StraightSent
  <2>1. n + 1 \in Traced(p) /\ link'[p][n] = old[n + 1] /\ n \in Nat
    <3>1. n + 1 \in Traced(p) /\ link'[p][n] = old[n + 1] /\ n \in 1..(b - 1)
      BY <1>7
    <3> QED BY <1>14, <3>1
  <2>2. \/ Straight(old[n + 1].ev) \/ old[n + 1].ev.id \in NestedIds(seq)
        \/ \E m \in Traced(p) : m < n + 1 /\ old[m].ev.id = old[n + 1].ev.id
    BY <1>2, <2>1 DEF StraightSent, old, seq
  <2>3. ASSUME NEW m \in Traced(p), m < n + 1, old[m].ev.id = old[n + 1].ev.id
        PROVE  \/ link'[p][n].ev.id \in NestedIds(nested[p])'
               \/ \E k \in Traced(p)' : k < n /\ link'[p][k].ev.id = link'[p][n].ev.id
    <3>1. CASE m = 1
      BY <1>3, <1>6, <1>9, <2>1, <2>3, <3>1
    <3>2. CASE m # 1
      <4>1. m - 1 \in Traced(p)' /\ m \in 1..b
        BY <1>5, <1>7, <3>2 DEF Traced, old
      <4>2. (m - 1) + 1 = m /\ m - 1 < n
        BY <2>1, <2>3, <4>1
      <4>3. link'[p][m - 1] = old[m]
        BY <1>7, <4>1, <4>2
      <4> QED BY <2>1, <2>3, <4>1, <4>2, <4>3
    <3> QED BY <3>1, <3>2
  <2> QED BY <1>6, <1>9, <2>1, <2>2, <2>3
<1> QED BY <1>6, <1>9, <1>10, <1>12, <1>13 DEF seq, ev

LEMMA DoneOrders ==
  ASSUME RelayInv, HierInv, NEW p \in Runtimes, link[p] # <<>>, Head(link[p]).type # "trace",
         nested' = nested, link'[p] = Tail(link[p])
  PROVE  StraightSent(p)' /\ Sent(p)' = Sent(p)
<1> DEFINE old == link[p]
           b == Len(old)
<1>1. old \in Seq(Frame(p)) /\ link'[p] = Tail(old) /\ old # <<>> /\ StraightSent(p)
  BY DEF RelayInv, RelayTyped, HierInv, Ordered
<1>2. old[1].type # "trace"
  BY <1>1
<1> HIDE DEF old
<1>3. /\ b \in Nat \ {0} /\ DOMAIN old = 1..b /\ DOMAIN Tail(old) = 1..(b - 1)
      /\ \A n \in 1..(b - 1) : Tail(old)[n] = old[n + 1]
  BY <1>1
<1> HIDE DEF b
<1>4. \A n \in 1..(b - 1) : n \in Nat /\ n + 1 \in 1..b
  BY <1>3
<1>5. ASSUME NEW n \in 1..b, n # 1 PROVE n - 1 \in 1..(b - 1) /\ Tail(old)[n - 1] = old[n]
  <2>1. n - 1 \in 1..(b - 1) /\ (n - 1) + 1 = n
    BY <1>3, <1>5
  <2> QED BY <1>3, <2>1
<1>6. Traced(p) = {n \in 1..b : old[n].type = "trace"}
  BY <1>3 DEF Traced, old
<1>7. Traced(p)' = {n \in 1..(b - 1) : Tail(old)[n].type = "trace"}
  BY <1>1, <1>3 DEF Traced
<1>8. \A n \in Traced(p) : n \in 1..b /\ n - 1 \in Traced(p)' /\ link'[p][n - 1] = old[n]
  BY <1>1, <1>2, <1>5, <1>6, <1>7
<1>9. \A n \in Traced(p)' : n + 1 \in Traced(p) /\ link'[p][n] = old[n + 1] /\ n \in Nat
  BY <1>1, <1>3, <1>4, <1>6, <1>7
<1>10. OnTheWay(p)' = OnTheWay(p)
  <2>1. OnTheWay(p) = {old[n].ev.id : n \in Traced(p)}
    BY DEF OnTheWay, old
  <2>2. OnTheWay(p)' = {link'[p][n].ev.id : n \in Traced(p)'}
    BY DEF OnTheWay
  <2>3. ASSUME NEW x \in OnTheWay(p) PROVE x \in OnTheWay(p)'
    BY <1>8, <2>1, <2>2
  <2>4. ASSUME NEW x \in OnTheWay(p)' PROVE x \in OnTheWay(p)
    BY <1>9, <2>1, <2>2
  <2> QED BY <2>3, <2>4
<1>11. StraightSent(p)'
  <2> SUFFICES ASSUME NEW n \in Traced(p)'
               PROVE  \/ Straight(link'[p][n].ev) \/ link'[p][n].ev.id \in NestedIds(nested[p])
                      \/ \E m \in Traced(p)' : m < n /\ link'[p][m].ev.id = link'[p][n].ev.id
    BY DEF StraightSent
  <2>1. n + 1 \in Traced(p) /\ link'[p][n] = old[n + 1] /\ n \in Nat
    BY <1>9
  <2>2. \/ Straight(old[n + 1].ev) \/ old[n + 1].ev.id \in NestedIds(nested[p])
        \/ \E m \in Traced(p) : m < n + 1 /\ old[m].ev.id = old[n + 1].ev.id
    BY <1>1, <2>1 DEF StraightSent, old
  <2>3. ASSUME NEW m \in Traced(p), m < n + 1, old[m].ev.id = old[n + 1].ev.id
        PROVE  \E k \in Traced(p)' : k < n /\ link'[p][k].ev.id = link'[p][n].ev.id
    <3>1. m \in 1..b /\ m - 1 \in Traced(p)' /\ link'[p][m - 1] = old[m]
      BY <1>8
    <3>2. m \in Nat
      BY <1>3, <3>1
    <3>3. m - 1 < n
      BY <2>1, <2>3, <3>2
    <3> QED BY <2>1, <2>3, <3>1, <3>3
  <2> QED BY <2>1, <2>2, <2>3
<1> QED BY <1>10, <1>11 DEF Sent

(* It is forwarded: what the caller has sent grows by it. *)
LEMMA ForwardedOrders ==
  ASSUME RelayInv, StraightSent("orchestrator"), NEW f \in Frame("orchestrator"), f.type = "trace",
         Straight(f.ev) \/ f.ev.id \in Sent("orchestrator"),
         nested'["orchestrator"] = nested["orchestrator"],
         link'["orchestrator"] = Append(link["orchestrator"], f)
  PROVE  /\ StraightSent("orchestrator")' /\ f.ev.id \in Sent("orchestrator")'
         /\ Sent("orchestrator") \subseteq Sent("orchestrator")'
<1> DEFINE o == "orchestrator"
           old == link[o]
           b == Len(old)
           new == Append(old, f)
<1>1. old \in Seq(Frame(o)) /\ link'[o] = new
  BY DEF RelayInv, RelayTyped, Runtimes, Procs
<1> HIDE DEF old
<1>2. /\ b \in Nat /\ DOMAIN old = 1..b /\ DOMAIN new = 1..(b + 1) /\ new[b + 1] = f
      /\ \A n \in 1..b : new[n] = old[n] /\ n < b + 1 /\ n \in 1..(b + 1)
  BY <1>1
<1>3. \A n \in 1..(b + 1) : n \in 1..b \/ n = b + 1
  BY <1>2
<1>4. b + 1 \in 1..(b + 1)
  BY <1>2
<1> HIDE DEF b, new
<1>5. Traced(o) = {n \in 1..b : old[n].type = "trace"}
  BY <1>2 DEF Traced, old
<1>6. Traced(o)' = {n \in 1..(b + 1) : new[n].type = "trace"}
  BY <1>1, <1>2 DEF Traced
<1>7. /\ \A n \in Traced(o) : n \in Traced(o)' /\ link'[o][n] = old[n] /\ n < b + 1
      /\ b + 1 \in Traced(o)' /\ link'[o][b + 1] = f
      /\ \A n \in Traced(o)' : n \in Traced(o) \/ n = b + 1
  BY <1>1, <1>2, <1>3, <1>4, <1>5, <1>6
<1>8. NestedIds(nested[o])' = NestedIds(nested[o])
  BY DEF NestedIds
<1>9. f.ev.id \in Sent(o)' /\ Sent(o) \subseteq Sent(o)'
  BY <1>7, <1>8 DEF Sent, OnTheWay, old
<1>10. StraightSent(o)'
  <2> SUFFICES ASSUME NEW n \in Traced(o)'
               PROVE  \/ Straight(link'[o][n].ev) \/ link'[o][n].ev.id \in NestedIds(nested[o])
                      \/ \E m \in Traced(o)' : m < n /\ link'[o][m].ev.id = link'[o][n].ev.id
    BY <1>8 DEF StraightSent
  <2>1. CASE n \in Traced(o)
    <3>1. \/ Straight(old[n].ev) \/ old[n].ev.id \in NestedIds(nested[o])
          \/ \E m \in Traced(o) : m < n /\ old[m].ev.id = old[n].ev.id
      BY <2>1 DEF StraightSent, old
    <3> QED BY <1>7, <2>1, <3>1
  <2>2. CASE n = b + 1
    <3>1. \/ Straight(f.ev) \/ f.ev.id \in NestedIds(nested[o])
          \/ \E m \in Traced(o) : old[m].ev.id = f.ev.id
      BY DEF Sent, OnTheWay, old
    <3> QED BY <1>7, <2>2, <3>1
  <2> QED BY <1>7, <2>1, <2>2
<1> QED BY <1>9, <1>10

LEMMA ReceiveHier ==
  ASSUME RelayInv, HierInv, NEW p \in Runtimes, Receive(p)
  PROVE  HierInv'
<1> DEFINE frame == Head(link[p])
           o == "orchestrator"
<1>1. /\ DOMAIN link = Runtimes /\ \A q \in Runtimes : link[q] \in Seq(Frame(q))
      /\ DOMAIN nested = Runtimes /\ link[p] # <<>> /\ o \in Runtimes
      /\ at \in [Procs -> {"idle", "fresh", "running", "closed", "broken", "over"}] /\ p \in Procs
  BY DEF RelayInv, RelayTyped, Receive, Runtimes, Procs
<1>2. UNCHANGED <<path, col, at, wrapper>>
  BY DEF Receive
<1>3. Called(p) /\ at[p] \notin {"idle", "over"}
  <2>1. at[p] \notin {"idle", "over"}
    BY <1>1 DEF HierInv, Resting
  <2>2. at[p] \in {"idle", "fresh", "running", "closed", "broken", "over"}
    BY <1>1
  <2> QED BY <2>1, <2>2 DEF Called
<1>4. \A q \in Runtimes : /\ Called(q)' <=> Called(q)
                          /\ Caller(q)' = Caller(q) /\ at'[q] = at[q]
  BY <1>2 DEF Called, Caller
<1>5. frame \in Frame(p)
  BY <1>1
<1>6. CASE frame.type = "trace"
  <2>1. /\ nested' = [nested EXCEPT ![p] = Append(@, frame.ev)] /\ Forward(p, frame)
    BY <1>6 DEF Receive
  <2> DEFINE t == Tail(link[p])
             l == Append(link[o], frame)
  <2>2. \A q \in Runtimes \ {p} : nested'[q] = nested[q]
    BY <1>1, <2>1
  <2>3. /\ link'[p] = t /\ \A q \in Runtimes \ {p, o} : link'[q] = link[q]
        /\ Caller(p) = o => p # o /\ link'[o] = l
        /\ Caller(p) # o /\ p # o => link'[o] = link[o]
    <3>1. CASE Caller(p) = o
      <4>1. p # o
        BY <3>1, CallerFacts
      <4>2. link' = [link EXCEPT ![p] = t, ![o] = l]
        BY <2>1, <3>1, <4>1 DEF Forward
      <4> HIDE DEF l, t
      <4> QED BY <1>1, <3>1, <4>1, <4>2
    <3>2. CASE Caller(p) # o
      <4>1. link' = [link EXCEPT ![p] = t]
        BY <2>1, <3>2 DEF Forward
      <4> HIDE DEF l, t
      <4> QED BY <1>1, <3>2, <4>1
    <3> QED BY <3>1, <3>2
  <2>4. /\ StraightFirst(nested[p])' /\ StraightSent(p)' /\ Sent(p)' = Sent(p)
        /\ NestedIds(nested[p])' = NestedIds(nested[p]) \cup {frame.ev.id}
    BY <1>1, <1>6, <2>1, <2>3, ArrivedOrders
  <2>5. \A q \in Runtimes \ {p, o} : StraightFirst(nested[q])' /\ StraightSent(q)'
    BY <2>2, <2>3 DEF HierInv, Ordered, StraightFirst, StraightSent, Traced
  <2>6. ASSUME Caller(p) = o
        PROVE  /\ StraightSent(o)' /\ frame.ev.id \in Sent(o)' /\ Sent(o) \subseteq Sent(o)'
    <3>1. path = "hop" /\ p \in Specialists /\ p # o
      BY <2>6, CallerFacts DEF Caller
    <3>2. NestedIds(nested[p]) \subseteq Sent(o) /\ StraightSent(p) /\ StraightSent(o)
      BY <1>1, <1>3, <3>1 DEF HierInv, Passed, Ordered
    <3>3. Straight(frame.ev) \/ frame.ev.id \in NestedIds(nested[p])
      <4>1. /\ frame = link[p][1] /\ DOMAIN link[p] = 1..Len(link[p]) /\ Len(link[p]) \in Nat \ {0}
        BY <1>1
      <4>2. 1 \in Traced(p) /\ \A m \in Traced(p) : ~(m < 1)
        BY <1>6, <4>1 DEF Traced
      <4> QED BY <3>2, <4>1, <4>2 DEF StraightSent
    <3>4. frame \in Frame(o)
      <4>1. Of(p) \subseteq Of(o)
        BY <2>6, CallerFacts
      <4> QED BY <1>5, <4>1, EventsOfMore
    <3>5. nested'[o] = nested[o] /\ link'[o] = Append(link[o], frame)
      BY <1>1, <2>2, <2>3, <2>6, <3>1
    <3> HIDE DEF frame
    <3> QED BY <1>6, <3>2, <3>3, <3>4, <3>5, ForwardedOrders
  <2>7. CASE p = o
    <3>1. Ordered'
      BY <2>4, <2>5, <2>7 DEF Ordered
    <3>2. ASSUME path = "hop", NEW s \in Specialists, Called(s)
          PROVE  at'[o] = "running" /\ NestedIds(nested[s])' \subseteq Sent(o)'
      <4>1. s # o /\ s \in Runtimes
        BY SpecialistFacts, RelayAssumption
      <4>2. NestedIds(nested[s])' = NestedIds(nested[s])
        BY <2>2, <2>7, <4>1 DEF NestedIds
      <4> QED BY <1>2, <2>4, <2>7, <3>2, <4>2 DEF HierInv, Passed
    <3>3. Passed'
      BY <1>2, <1>4, <3>2, SpecialistFacts DEF Passed
    <3>4. Resting'
      BY <1>3, <1>4, <2>2, <2>3, <2>7 DEF HierInv, Resting
    <3>5. SpanKept' /\ Foreign' /\ Hanging'
      <4>1. \A q \in Runtimes : at[q] = "over" => nested'[q] = nested[q]
        BY <1>3, <2>2
      <4> QED BY <1>2, <1>4, <4>1, HierUnrecorded
    <3> QED BY <3>1, <3>3, <3>4, <3>5 DEF HierInv
  <2>8. CASE p # o
    <3>1. nested'[o] = nested[o] /\ StraightFirst(nested[o])'
      BY <1>1, <2>2, <2>8 DEF HierInv, Ordered, StraightFirst
    <3>2. StraightSent(o)' /\ Sent(o) \subseteq Sent(o)'
      <4>1. CASE Caller(p) = o
        BY <2>6, <4>1
      <4>2. CASE Caller(p) # o
        <5>1. link'[o] = link[o] /\ nested'[o] = nested[o] /\ StraightSent(o)
          BY <1>1, <2>3, <2>8, <3>1, <4>2 DEF HierInv, Ordered
        <5> QED BY <5>1 DEF StraightSent, Sent, OnTheWay, Traced, NestedIds
      <4> QED BY <4>1, <4>2
    <3>3. Ordered'
      BY <2>4, <2>5, <3>1, <3>2 DEF Ordered
    <3>4. ASSUME path = "hop", NEW s \in Specialists, Called(s)
          PROVE  at'[o] = "running" /\ NestedIds(nested[s])' \subseteq Sent(o)'
      <4>1. at[o] = "running" /\ NestedIds(nested[s]) \subseteq Sent(o) /\ s \in Runtimes
        BY <3>4, SpecialistFacts DEF HierInv, Passed
      <4>2. CASE s # p
        <5>1. NestedIds(nested[s])' = NestedIds(nested[s])
          BY <2>2, <4>1, <4>2 DEF NestedIds
        <5> QED BY <1>2, <3>2, <4>1, <5>1
      <4>3. CASE s = p
        <5>1. Caller(p) = o
          BY <3>4, <4>3 DEF Caller
        <5> QED BY <1>2, <2>4, <2>6, <4>1, <4>3, <5>1
      <4> QED BY <4>2, <4>3
    <3>5. Passed'
      BY <1>2, <1>4, <3>4, SpecialistFacts DEF Passed
    <3>6. Resting'
      <4>1. ASSUME Caller(p) = o PROVE at[o] = "running"
        BY <1>3, <4>1, CallerFacts DEF HierInv, Passed, Caller
      <4>2. \A q \in Runtimes \ {p} : /\ nested'[q] = nested[q]
                                      /\ at[q] \in {"idle", "over"} => link'[q] = link[q]
        BY <1>1, <2>2, <2>3, <2>8, <4>1
      <4> QED BY <1>3, <1>4, <4>2 DEF HierInv, Resting
    <3>7. SpanKept' /\ Foreign' /\ Hanging'
      <4>1. \A q \in Runtimes : at[q] = "over" => nested'[q] = nested[q]
        BY <1>3, <2>2
      <4> QED BY <1>2, <1>4, <4>1, HierUnrecorded
    <3> QED BY <3>3, <3>5, <3>6, <3>7 DEF HierInv
  <2> QED BY <2>7, <2>8
<1>7. CASE frame.type # "trace"
  <2>1. nested' = nested /\ link' = [link EXCEPT ![p] = Tail(@)]
    BY <1>7 DEF Receive
  <2>2. link'[p] = Tail(link[p]) /\ \A q \in Runtimes \ {p} : link'[q] = link[q]
    BY <1>1, <2>1
  <2>3. StraightSent(p)' /\ Sent(p)' = Sent(p)
    BY <1>1, <1>7, <2>1, <2>2, DoneOrders
  <2>4. \A q \in Runtimes \ {p} : StraightSent(q)' /\ Sent(q)' = Sent(q)
    BY <2>1, <2>2 DEF HierInv, Ordered, StraightSent, Traced, Sent, OnTheWay
  <2>5. Ordered'
    BY <2>1, <2>3, <2>4 DEF HierInv, Ordered, StraightFirst
  <2>6. Passed'
    <3>1. Sent(o)' = Sent(o)
      BY <1>1, <2>3, <2>4
    <3> QED BY <1>2, <1>4, <2>1, <3>1, SpecialistFacts DEF HierInv, Passed
  <2>7. Resting'
    BY <1>3, <1>4, <2>1, <2>2 DEF HierInv, Resting
  <2>8. SpanKept' /\ Foreign' /\ Hanging'
    BY <1>2, <1>4, <2>1, HierUnrecorded
  <2> QED BY <2>5, <2>6, <2>7, <2>8 DEF HierInv
<1> QED BY <1>6, <1>7

LEMMA BreakHier ==
  ASSUME RelayInv, HierInv, NEW p \in Runtimes, Break(p)
  PROVE  HierInv'
<1> DEFINE o == "orchestrator"
<1>1. /\ DOMAIN link = Runtimes /\ \A q \in Runtimes : link[q] \in Seq(Frame(q))
      /\ at \in [Procs -> {"idle", "fresh", "running", "closed", "broken", "over"}]
      /\ UNCHANGED <<path, col, wrapper, nested>> /\ Called(p) /\ p \in Procs /\ o \in Runtimes
      /\ \A q \in Specialists : Caller(q) = p => at[q] \in {"idle", "over"}
  BY DEF RelayInv, RelayTyped, Break, Called, Runtimes, Procs
<1>2. PICK seen \in {"closed", "broken"} : at' = [at EXCEPT ![p] = seen]
  BY DEF Break
<1>3. at'[p] = seen /\ \A q \in Procs \ {p} : at'[q] = at[q]
  BY <1>1, <1>2
<1>4. at[p] # "idle" /\ at[p] # "over"
  BY <1>1 DEF Called
<1>5. \A q \in Runtimes : /\ Called(q)' <=> Called(q)
                          /\ at'[q] = "idle" <=> at[q] = "idle"
                          /\ at'[q] = "over" <=> at[q] = "over"
  BY <1>1, <1>3, <1>4 DEF Called, Runtimes
<1>6. PICK k \in 0..Len(link[p]) : link' = [link EXCEPT ![p] = SubSeq(@, 1, k)]
  BY DEF Break
<1> DEFINE old == link[p]
           cut == SubSeq(old, 1, k)
<1>7. link'[p] = cut /\ \A q \in Runtimes \ {p} : link'[q] = link[q]
  BY <1>1, <1>6
<1>8. /\ DOMAIN cut \subseteq DOMAIN old /\ \A n \in DOMAIN cut : cut[n] = old[n]
      /\ \A m \in DOMAIN old, n \in DOMAIN cut : m < n => m \in DOMAIN cut
  <2>1. old \in Seq(Frame(p)) /\ k \in 0..Len(old)
    BY <1>1
  <2> HIDE DEF old
  <2>2. /\ k \in Nat /\ DOMAIN cut = 1..k /\ \A n \in 1..k : cut[n] = old[n]
        /\ DOMAIN old = 1..Len(old) /\ Len(old) \in Nat /\ k <= Len(old)
    BY <2>1
  <2> HIDE DEF cut
  <2> QED BY <2>2
<1> HIDE DEF cut
<1>9. StraightSent(p)'
  <2> SUFFICES ASSUME NEW n \in Traced(p)'
               PROVE  \/ Straight(link'[p][n].ev) \/ link'[p][n].ev.id \in NestedIds(nested[p])
                      \/ \E m \in Traced(p)' : m < n /\ link'[p][m].ev.id = link'[p][n].ev.id
    BY <1>1 DEF StraightSent
  <2>1. n \in DOMAIN cut /\ n \in Traced(p) /\ link'[p][n] = old[n]
    BY <1>7, <1>8 DEF Traced
  <2>2. \/ Straight(old[n].ev) \/ old[n].ev.id \in NestedIds(nested[p])
        \/ \E m \in Traced(p) : m < n /\ old[m].ev.id = old[n].ev.id
    BY <2>1 DEF HierInv, Ordered, StraightSent
  <2>3. \A m \in Traced(p) : m < n => m \in Traced(p)' /\ link'[p][m] = old[m]
    BY <1>7, <1>8, <2>1 DEF Traced
  <2> QED BY <2>1, <2>2, <2>3
<1>10. ASSUME NEW q \in Runtimes \ {p} PROVE StraightSent(q)' /\ Sent(q)' = Sent(q)
  <2>1. StraightSent(q)
    BY DEF HierInv, Ordered
  <2>2. link'[q] = link[q] /\ nested' = nested
    BY <1>1, <1>7
  <2> QED BY <2>1, <2>2 DEF StraightSent, Traced, Sent, OnTheWay
<1>11. Ordered'
  BY <1>1, <1>9, <1>10 DEF HierInv, Ordered, StraightFirst
<1>12. Passed'
  <2> SUFFICES ASSUME path = "hop", NEW s \in Specialists, Called(s)'
               PROVE  at'[o] = "running" /\ NestedIds(nested[s])' \subseteq Sent(o)'
    BY <1>1 DEF Passed
  <2>1. s \in Runtimes /\ Called(s) /\ Caller(s) = o
    BY <1>5, SpecialistFacts DEF Caller
  <2>2. at[o] = "running" /\ NestedIds(nested[s]) \subseteq Sent(o)
    BY <2>1 DEF HierInv, Passed
  <2>3. p # o
    BY <1>1, <2>1 DEF Called
  <2> QED BY <1>1, <1>3, <1>10, <2>2, <2>3 DEF Runtimes
<1>13. Resting'
  BY <1>1, <1>3, <1>4, <1>5, <1>7 DEF HierInv, Resting
<1>14. SpanKept' /\ Foreign' /\ Hanging'
  BY <1>1, <1>5, HierUnrecorded
<1> QED BY <1>11, <1>12, <1>13, <1>14 DEF HierInv

(* A step that changes nothing the hierarchy depends on. *)
LEMMA HierUnchanged ==
  ASSUME RelayInv, HierInv, UNCHANGED <<path, col, wrapper, link, nested>>,
         \A q \in Runtimes : at'[q] = at[q]
  PROVE  HierInv'
<1>1. Ordered'
  BY DEF HierInv, Ordered, StraightFirst, StraightSent, Traced
<1>2. Passed'
  <2>1. "orchestrator" \in Runtimes
    BY DEF Runtimes, Procs
  <2>2. \A s \in Specialists : Called(s)' <=> Called(s)
    BY SpecialistFacts DEF Called
  <2>3. Sent("orchestrator")' = Sent("orchestrator")
    BY DEF Sent, OnTheWay, Traced
  <2> QED BY <2>1, <2>2, <2>3 DEF HierInv, Passed
<1>3. Resting'
  BY DEF HierInv, Resting
<1>4. SpanKept' /\ Foreign' /\ Hanging'
  <2>1. \A q \in Runtimes : Called(q)' <=> Called(q)
    BY DEF Called
  <2> QED BY <2>1, HierUnrecorded
<1> QED BY <1>1, <1>2, <1>3, <1>4 DEF HierInv

LEMMA InitHier == RelayInit => HierInv
<1> SUFFICES ASSUME RelayInit PROVE HierInv
  OBVIOUS
<1>1. \A p \in Runtimes : link[p] = <<>> /\ nested[p] = <<>> /\ p \in Procs /\ at[p] = "idle"
  BY DEF RelayInit, Runtimes
<1>2. Ordered
  BY <1>1 DEF Ordered, StraightFirst, StraightSent, Traced
<1>3. \A p \in Runtimes : ~Called(p)
  BY <1>1 DEF Called
<1>4. \A s \in Specialists : s \in Runtimes
  BY RelayAssumption DEF Runtimes, Procs
<1>5. \A p \in Procs : col[p].events = <<>>
  BY DEF RelayInit, NewCollector
<1>6. Foreign
  BY <1>1, <1>5 DEF Foreign
<1> QED BY <1>1, <1>2, <1>3, <1>4, <1>6 DEF HierInv, Passed, Resting, SpanKept, Hanging

LEMMA NextHier == RelayInv /\ HierInv /\ [RelayNext]_relayVars => HierInv'
<1> SUFFICES ASSUME RelayInv, HierInv, [RelayNext]_relayVars PROVE HierInv'
  OBVIOUS
<1>1. CASE \E s \in Specialists :
             \/ \E size \in {1, MaxEventBytes + 1} : Answering(s, size)
             \/ CallTool(s) \/ CallMcp(s)
             \/ \E id \in open[s], ok \in BOOLEAN : ToolReturned(s, id, ok)
             \/ \E ok \in BOOLEAN : Answered(s, ok)
  BY <1>1, AnsweringHier, CallToolHier, CallMcpHier, ToolReturnedHier, AnsweredHier
<1>2. CASE \E p \in Runtimes : Invoke(p) \/ Receive(p) \/ Break(p) \/ Finish(p)
  BY <1>2, InvokeHier, ReceiveHier, BreakHier, FinishHier
<1>3. CASE Orchestrated
  BY <1>3, OrchestratedHier
<1>4. CASE EndTurn
  <2>1. /\ at' = [at EXCEPT !["api"] = "over"] /\ UNCHANGED <<path, col, wrapper, link, nested>>
    BY <1>4 DEF EndTurn
  <2>2. at \in [Procs -> {"idle", "fresh", "running", "closed", "broken", "over"}]
    BY DEF RelayInv, RelayTyped
  <2>3. \A q \in Runtimes : at'[q] = at[q]
    BY <2>1, <2>2 DEF Runtimes
  <2> QED BY <2>1, <2>3, HierUnchanged
<1>5. CASE UNCHANGED relayVars
  BY <1>5, HierUnchanged DEF relayVars
<1> QED BY <1>1, <1>2, <1>3, <1>4, <1>5 DEF RelayNext

-----------------------------------------------------------------------------
(* The ids above an id contain the parent of every node among them: each   *)
(* round adds a node, or adds none any more.                               *)

UpFrom(c, id, f, n) ==
  IF n = 0 THEN {id} ELSE f[n - 1] \cup {Node(c, x).parent : x \in f[n - 1] \cap Nodes(c)}
UpTo(c, id, f, m) == f = [n \in 0..m |-> UpFrom(c, id, f, n)]
Closed(c, S) == \A x \in S \cap Nodes(c) : Node(c, x).parent \in S

LEMMA UpEach ==
  ASSUME NEW c, NEW id, NEW f, NEW m
  PROVE  UpTo(c, id, f, m) <=>
           /\ f = [n \in 0..m |-> f[n]]
           /\ \A n \in 0..m : f[n] = UpFrom(c, id, f, n)
BY DEF UpTo

LEMMA UpExists ==
  ASSUME NEW c, NEW id, NEW m \in Nat
  PROVE  \E f : UpTo(c, id, f, m)
<1> DEFINE S == {n \in Nat : \E f : UpTo(c, id, f, n)}
<1>1. 0 \in S
  <2> DEFINE f == [n \in 0..0 |-> {id}]
  <2>1. f = [n \in 0..0 |-> f[n]] /\ \A n \in 0..0 : f[n] = UpFrom(c, id, f, n)
    BY DEF UpFrom
  <2> HIDE DEF f
  <2>2. UpTo(c, id, f, 0)
    BY <2>1, UpEach
  <2> QED BY <2>2
<1>2. ASSUME NEW n \in Nat, n \in S PROVE n + 1 \in S
  <2>1. PICK f : UpTo(c, id, f, n)
    BY <1>2
  <2>2. \A i \in 0..n : f[i] = UpFrom(c, id, f, i)
    BY <2>1, UpEach
  <2> DEFINE last == f[n] \cup {Node(c, x).parent : x \in f[n] \cap Nodes(c)}
             g == [i \in 0..(n + 1) |-> IF i = n + 1 THEN last ELSE f[i]]
  <2> HIDE DEF last
  <2>3. g = [i \in 0..(n + 1) |-> g[i]]
    OBVIOUS
  <2>4. \A i \in 0..n : g[i] = f[i]
    OBVIOUS
  <2>5. g[n + 1] = last
    OBVIOUS
  <2> HIDE DEF g
  <2>6. ASSUME NEW i \in 0..(n + 1) PROVE g[i] = UpFrom(c, id, g, i)
    <3>1. CASE i = n + 1
      <4>1. g[(n + 1) - 1] = f[n] /\ n + 1 # 0
        BY <2>4
      <4> QED BY <2>5, <3>1, <4>1 DEF UpFrom, last
    <3>2. CASE i = 0
      <4>1. 0 \in 0..n
        OBVIOUS
      <4> QED BY <2>2, <2>4, <3>2, <4>1 DEF UpFrom
    <3>3. CASE i # 0 /\ i # n + 1
      <4>1. i \in 0..n /\ i - 1 \in 0..n
        BY <3>3
      <4> QED BY <2>2, <2>4, <3>3, <4>1 DEF UpFrom
    <3> QED BY <3>1, <3>2, <3>3
  <2>7. UpTo(c, id, g, n + 1)
    BY <2>3, <2>6, UpEach
  <2> QED BY <2>7
<1> HIDE DEF S
<1>3. Nat \subseteq S
  BY <1>1, <1>2, EveryNumber
<1> QED BY <1>3 DEF S

LEMMA NodesCounted ==
  ASSUME NEW p, NEW c \in Collectors(p)
  PROVE  /\ Len(c.events) \in Nat /\ IsFiniteSet(Nodes(c)) /\ Cardinality(Nodes(c)) \in Nat
         /\ Cardinality(Nodes(c)) <= Len(c.events)
<1> DEFINE m == Len(c.events)
           D == 1..m
           f == [i \in D |-> c.events[i].id]
<1>1. m \in Nat /\ DOMAIN c.events = D
  BY Lengths
<1> HIDE DEF m
<1>2. IsFiniteSet(D) /\ Cardinality(D) = m
  BY <1>1, FS_Interval
<1> HIDE DEF D
<1>3. Nodes(c) = {c.events[i].id : i \in D}
  BY <1>1 DEF Nodes
<1>4. f \in Surjection(D, Nodes(c))
  BY <1>3 DEF Surjection
<1> HIDE DEF f
<1>5. IsFiniteSet(Nodes(c)) /\ Cardinality(Nodes(c)) <= Cardinality(D)
  BY <1>2, <1>4, FS_Surjection
<1>6. Cardinality(Nodes(c)) \in Nat
  BY <1>5, FS_CardinalityType
<1> QED BY <1>1, <1>2, <1>5, <1>6 DEF m

LEMMA AboveClosed ==
  ASSUME NEW p, NEW c \in Collectors(p), NEW id
  PROVE  id \in Above(c, id) /\ Closed(c, Above(c, id))
<1> DEFINE m == Len(c.events)
           N == Nodes(c)
           u == CHOOSE f : UpTo(c, id, f, m)
<1>1. m \in Nat /\ IsFiniteSet(N) /\ Cardinality(N) \in Nat /\ Cardinality(N) <= m
  BY NodesCounted
<1>2. Above(c, id) = u[m]
  BY DEF Above, UpTo, UpFrom
<1> HIDE DEF m
<1>3. UpTo(c, id, u, m)
  BY <1>1, UpExists
<1> HIDE DEF u
<1>4. \A n \in 0..m : u[n] = UpFrom(c, id, u, n)
  BY <1>3, UpEach
<1>5. \A T : IsFiniteSet(T \cap N) /\ Cardinality(T \cap N) \in Nat
  <2> SUFFICES ASSUME NEW T PROVE IsFiniteSet(T \cap N) /\ Cardinality(T \cap N) \in Nat
    OBVIOUS
  <2>1. T \cap N \subseteq N
    OBVIOUS
  <2>2. IsFiniteSet(T \cap N)
    BY <1>1, <2>1, FS_Subset
  <2> QED BY <2>2, FS_CardinalityType
<1> DEFINE Fine(n) == id \in u[n] /\ (Closed(c, u[n]) \/ Cardinality(u[n] \cap N) >= n + 1)
           S == {n \in Nat : n <= m => Fine(n)}
<1> HIDE DEF N
<1>6. 0 \in S
  <2>1. u[0] = {id}
    <3>1. 0 \in 0..m
      BY <1>1
    <3> QED BY <1>4, <3>1 DEF UpFrom
  <2>2. CASE id \in N
    <3>1. u[0] \cap N = {id}
      BY <2>1, <2>2
    <3>2. Cardinality(u[0] \cap N) = 1
      BY <3>1, FS_Singleton
    <3> QED BY <2>1, <3>2
  <2>3. CASE id \notin N
    BY <2>1, <2>3 DEF Closed, N
  <2> QED BY <2>2, <2>3
<1>7. ASSUME NEW n \in Nat, n \in S PROVE n + 1 \in S
  <2> SUFFICES ASSUME n + 1 <= m PROVE Fine(n + 1)
    OBVIOUS
  <2>1. n + 1 \in 0..m /\ n + 1 # 0 /\ (n + 1) - 1 = n /\ n <= m
    BY <1>1
  <2> DEFINE old == u[n]
             new == u[n + 1]
  <2>2. new = old \cup {Node(c, x).parent : x \in old \cap N}
    BY <1>4, <2>1 DEF UpFrom, N
  <2>3. Fine(n)
    BY <1>7, <2>1
  <2> HIDE DEF Fine
  <2>4. id \in old /\ (Closed(c, old) \/ Cardinality(old \cap N) >= n + 1)
    BY <2>3 DEF Fine
  <2> HIDE DEF old, new
  <2>5. id \in new /\ old \subseteq new
    BY <2>2, <2>4
  <2>6. CASE new \cap N = old \cap N
    <3>1. Closed(c, new)
      BY <2>2, <2>6 DEF Closed, N
    <3> QED BY <2>5, <3>1 DEF Fine, new
  <2>7. CASE new \cap N # old \cap N
    <3>1. PICK x : x \in new \cap N /\ x \notin old \cap N
      BY <2>5, <2>7
    <3>2. ~Closed(c, old)
      BY <2>2, <3>1 DEF Closed, N
    <3>3. Cardinality(old \cap N) >= n + 1
      BY <2>4, <3>2
    <3> DEFINE A == old \cap N
               B == new \cap N
    <3>4. A \subseteq B /\ A # B
      BY <2>5, <2>7
    <3>5. IsFiniteSet(B) /\ Cardinality(A) \in Nat /\ Cardinality(B) \in Nat
      BY <1>5
    <3> HIDE DEF A, B
    <3>6. Cardinality(A) < Cardinality(B)
      BY <3>4, <3>5, FS_Subset
    <3>7. Cardinality(B) >= (n + 1) + 1
      BY <3>3, <3>5, <3>6 DEF A
    <3> QED BY <2>5, <3>7 DEF Fine, B, new
  <2> QED BY <2>6, <2>7
<1> HIDE DEF S
<1>8. Nat \subseteq S
  BY <1>6, <1>7, EveryNumber
<1>9. Fine(m)
  BY <1>1, <1>8 DEF S
<1>10. Closed(c, u[m])
  <2>1. SUFFICES ASSUME Cardinality(u[m] \cap N) >= m + 1 PROVE FALSE
    BY <1>9
  <2>2. u[m] \cap N \subseteq N
    OBVIOUS
  <2>3. Cardinality(u[m] \cap N) <= Cardinality(N)
    BY <1>1, <2>2, FS_Subset
  <2>4. Cardinality(u[m] \cap N) \in Nat
    BY <1>5
  <2> HIDE DEF u
  <2> QED BY <1>1, <2>1, <2>3, <2>4 DEF N
<1> QED BY <1>2, <1>9, <1>10

LEMMA NodeOfFirst ==
  ASSUME NEW p, NEW c \in Collectors(p), NEW x, NEW i \in DOMAIN c.events, First(c, i, x)
  PROVE  Node(c, x) = c.events[i] /\ x \in Nodes(c)
<1> DEFINE I == {j \in 1..Len(c.events) : c.events[j].id = x}
<1>1. /\ Len(c.events) \in Nat /\ DOMAIN c.events = 1..Len(c.events)
      /\ c.events[i].id = x /\ \A j \in 1..(i - 1) : c.events[j].id # x
  BY Lengths DEF First
<1>2. i \in I /\ \A j \in I : i <= j /\ j \in Nat
  BY <1>1
<1>3. SelectInSeq(c.events, LAMBDA ev : ev.id = x) = IF I # {} THEN Min(I) ELSE 0
  BY DEF SelectInSeq
<1> HIDE DEF I
<1>4. Min(I) = i
  BY <1>2 DEF Min
<1>5. Node(c, x) = c.events[i]
  BY <1>2, <1>3, <1>4 DEF Node
<1> QED BY <1>1, <1>5 DEF Nodes

LEMMA HangsUnder ==
  ASSUME NEW p, NEW c \in Collectors(p), NEW w, NEW X, Hangs(c, w, X),
         \A x \in X : x[2] \in Nat, NEW x0 \in X
  PROVE  w \in Above(c, x0)
<1> SUFFICES ASSUME w \notin Above(c, x0) PROVE FALSE
  OBVIOUS
<1> DEFINE A == Above(c, x0)
<1>1. x0 \in A /\ Closed(c, A)
  BY AboveClosed
<1> HIDE DEF A
<1> DEFINE S == {n \in Nat : \A x \in A \cap X : x[2] >= n}
<1>2. ASSUME NEW x \in A \cap X PROVE \E y \in A \cap X : y[2] < x[2]
  <2>1. PICK i \in DOMAIN c.events :
          /\ First(c, i, x)
          /\ LET y == c.events[i].parent IN y = w \/ (y \in X /\ y[2] < x[2])
    BY DEF Hangs, Hung
  <2>2. Node(c, x) = c.events[i] /\ x \in Nodes(c)
    BY <2>1, NodeOfFirst
  <2>3. c.events[i].parent \in A
    BY <1>1, <2>2 DEF Closed
  <2> QED BY <2>1, <2>3 DEF A
<1>3. 0 \in S
  OBVIOUS
<1>4. ASSUME NEW n \in Nat, n \in S PROVE n + 1 \in S
  <2> SUFFICES ASSUME NEW x \in A \cap X PROVE x[2] >= n + 1
    OBVIOUS
  <2>1. PICK y \in A \cap X : y[2] < x[2]
    BY <1>2
  <2>2. y[2] >= n /\ y[2] \in Nat /\ x[2] \in Nat
    BY <1>4
  <2> QED BY <2>1, <2>2
<1>5. Nat \subseteq S
  <2> HIDE DEF S
  <2> QED BY <1>3, <1>4, EveryNumber
<1>6. x0[2] \in Nat /\ x0[2] + 1 \in S
  BY <1>5
<1>7. x0[2] >= x0[2] + 1
  BY <1>1, <1>6
<1> QED BY <1>6, <1>7

(* Whatever the runtimes dropped, wherever a stream broke off and however  *)
(* often an event came: where a process dropped nothing itself, every      *)
(* event it spliced hangs in its trace under the span of the invocation    *)
(* that sent it.                                                           *)
THEOREM HangsTogether == RelaySpec => []OneHierarchy
<1>1. RelayInv /\ HierInv => OneHierarchy
  <2> SUFFICES ASSUME RelayInv, HierInv, NEW p \in Runtimes, at[p] = "over",
                      col[Caller(p)].dropped = 0, NEW i \in DOMAIN nested[p]
               PROVE  wrapper[p] \in Above(col[Caller(p)], nested[p][i].id)
    BY DEF OneHierarchy
  <2> DEFINE X == NestedIds(nested[p])
             c == col[Caller(p)]
  <2>1. Hangs(c, wrapper[p], X)
    BY DEF HierInv, Hanging
  <2>2. c \in Collectors(Caller(p))
    BY CallerFacts DEF SoundOf
  <2>3. \A k \in DOMAIN nested[p] : nested[p][k] \in EventsOf(p)
    <3>1. nested[p] \in Seq(EventsOf(p))
      BY DEF RelayInv, RelayTyped
    <3> QED BY <3>1
  <2>4. \A x \in X : x[2] \in Nat
    BY <2>3 DEF NestedIds, EventsOf
  <2>5. nested[p][i].id \in X
    BY DEF NestedIds
  <2> HIDE DEF X, c
  <2>6. wrapper[p] \in Above(c, nested[p][i].id)
    BY <2>1, <2>2, <2>4, <2>5, HangsUnder
  <2> QED BY <2>6 DEF c
<1> QED BY <1>1, InitRelay, InitHier, NextRelay, NextHier, PTL DEF RelaySpec

-----------------------------------------------------------------------------
(* The summary: what ends of calls and MCP calls there are among events.   *)

Tallied(k, ev) == ev.kind = k /\ (k = "tool.mcp" \/ ev.half = "end")
Tallies(k, seq) == {i \in DOMAIN seq : Tallied(k, seq[i])}
Many(k, seq) == Cardinality(Tallies(k, seq))
One(b) == IF b THEN 1 ELSE 0

(* The collector tallied n more events, or fewer if it dropped some of a   *)
(* kind that is not protected.                                             *)
Tells(k, c, d, n) ==
  /\ Many(k, d.events) <= Many(k, c.events) + n /\ c.dropped <= d.dropped
  /\ k # "tool.mcp" \/ d.dropped = c.dropped => Many(k, d.events) = Many(k, c.events) + n

SameCounters(c, d) == d.tools = c.tools /\ d.mcp = c.mcp /\ d.hops = c.hops

LEMMA ManyNat ==
  ASSUME NEW S, NEW seq \in Seq(S), NEW k
  PROVE  Many(k, seq) \in Nat /\ IsFiniteSet(Tallies(k, seq)) /\ Many(k, <<>>) = 0
<1>1. IsFiniteSet(1..Len(seq))
  BY FS_Interval
<1>2. Tallies(k, seq) \subseteq 1..Len(seq)
  BY DEF Tallies
<1>3. IsFiniteSet(Tallies(k, seq))
  BY <1>1, <1>2, FS_Subset
<1>4. Many(k, seq) \in Nat
  BY <1>3, FS_CardinalityType DEF Many
<1>5. Tallies(k, <<>>) = {}
  BY DEF Tallies
<1>6. Many(k, <<>>) = 0
  BY <1>5, FS_EmptySet DEF Many
<1> QED BY <1>3, <1>4, <1>6

LEMMA ManyAppended ==
  ASSUME NEW S, NEW seq \in Seq(S), NEW ev \in S, NEW k
  PROVE  Many(k, Append(seq, ev)) = Many(k, seq) + One(Tallied(k, ev))
<1> DEFINE n == Len(seq) + 1
           longer == Append(seq, ev)
<1>1. /\ DOMAIN longer = DOMAIN seq \cup {n} /\ n \notin DOMAIN seq
      /\ longer[n] = ev /\ \A i \in DOMAIN seq : longer[i] = seq[i]
  OBVIOUS
<1>2. IsFiniteSet(Tallies(k, seq)) /\ Many(k, seq) \in Nat
  BY ManyNat
<1> HIDE DEF longer, n
<1>3. CASE Tallied(k, ev)
  <2>1. Tallies(k, longer) = Tallies(k, seq) \cup {n} /\ n \notin Tallies(k, seq)
    BY <1>1, <1>3 DEF Tallies
  <2>2. Cardinality(Tallies(k, seq) \cup {n}) = Cardinality(Tallies(k, seq)) + 1
    BY <1>2, <2>1, FS_AddElement
  <2> QED BY <1>3, <2>1, <2>2 DEF Many, One, longer
<1>4. CASE ~Tallied(k, ev)
  <2>1. Tallies(k, longer) = Tallies(k, seq)
    BY <1>1, <1>4 DEF Tallies
  <2> QED BY <1>2, <1>4, <2>1 DEF Many, One, longer
<1> QED BY <1>3, <1>4

LEMMA ManyOf ==
  ASSUME NEW p, NEW c \in Collectors(p), NEW k
  PROVE  /\ Many(k, c.events) \in Nat /\ c.dropped \in Nat
         /\ c.tools \in Nat /\ c.mcp \in Nat /\ c.hops \in Nat /\ Counter(c, k) \in Nat
<1>1. c.events \in Seq(EventsOf(p)) /\ c.dropped \in Nat /\ c.tools \in Nat /\ c.mcp \in Nat /\ c.hops \in Nat
  BY DEF Collectors
<1> QED BY <1>1, ManyNat DEF Counter

LEMMA TellsTwice ==
  ASSUME NEW p, NEW c \in Collectors(p), NEW d \in Collectors(p), NEW e \in Collectors(p),
         NEW k, NEW m \in Nat, NEW n \in Nat, Tells(k, c, d, m), Tells(k, d, e, n)
  PROVE  Tells(k, c, e, m + n)
<1> DEFINE x == Many(k, c.events)
           y == Many(k, d.events)
           z == Many(k, e.events)
<1>1. x \in Nat /\ y \in Nat /\ z \in Nat /\ c.dropped \in Nat /\ d.dropped \in Nat /\ e.dropped \in Nat
  BY ManyOf
<1>2. /\ y <= x + m /\ c.dropped <= d.dropped /\ (k # "tool.mcp" \/ d.dropped = c.dropped => y = x + m)
      /\ z <= y + n /\ d.dropped <= e.dropped /\ (k # "tool.mcp" \/ e.dropped = d.dropped => z = y + n)
  BY DEF Tells
<1> HIDE DEF x, y, z
<1>3. /\ z <= x + (m + n) /\ c.dropped <= e.dropped
      /\ k # "tool.mcp" \/ e.dropped = c.dropped => z = x + (m + n)
  BY <1>1, <1>2
<1> QED BY <1>3 DEF Tells, x, y, z

LEMMA KeepTells ==
  ASSUME NEW p \in Procs, NEW c \in Collectors(p), NEW ev \in EventsOf(p), NEW k
  PROVE  /\ Tells(k, c, Keep(c, ev), One(Tallied(k, ev))) /\ Keep(c, ev) \in Collectors(p)
         /\ SameCounters(c, Keep(c, ev)) /\ Keep(c, ev).dropped = c.dropped
<1> DEFINE d == Keep(c, ev)
<1>1. d \in Collectors(p) /\ d.events = Append(c.events, ev)
  BY KeepFields
<1>2. d.dropped = c.dropped /\ SameCounters(c, d)
  BY DEF Keep, Collectors, SameCounters
<1>3. c.events \in Seq(EventsOf(p)) /\ c.dropped \in Nat
  BY DEF Collectors
<1> HIDE DEF d
<1> DEFINE n == One(Tallied(k, ev))
<1>4. Many(k, d.events) = Many(k, c.events) + n
  BY <1>1, <1>3, ManyAppended
<1>5. Many(k, c.events) \in Nat /\ n \in Nat
  BY ManyOf DEF One
<1> HIDE DEF n
<1>6. Tells(k, c, d, n)
  BY <1>2, <1>3, <1>4, <1>5 DEF Tells
<1> QED BY <1>1, <1>2, <1>6 DEF d, n

LEMMA TellsNone ==
  ASSUME NEW p, NEW c \in Collectors(p), NEW d \in Collectors(p), NEW k,
         d.events = c.events, c.dropped <= d.dropped
  PROVE  Tells(k, c, d, 0)
<1>1. Many(k, c.events) \in Nat
  BY ManyOf
<1> QED BY <1>1 DEF Tells

LEMMA MarkTells ==
  ASSUME NEW p \in Procs, NEW c \in SoundOf(p), NEW ev, NEW k \in Counted
  PROVE  LET d == emitByteCapHit(c, ev)
         IN Tells(k, c, d, 0) /\ d.dropped = c.dropped /\ SameCounters(c, d)
<1>1. c \in Collectors(p) /\ c.dropped \in Nat /\ c.next \in Nat /\ c.capHits \in Nat /\ c.name = p
  BY DEF SoundOf, Collectors
<1>2. CASE emitByteCapHit(c, ev) = c
  <2>1. Tells(k, c, c, 0)
    BY <1>1, TellsNone
  <2> QED BY <1>2, <2>1 DEF SameCounters
<1>3. CASE emitByteCapHit(c, ev) # c
  <2> DEFINE d == [c EXCEPT !.capHits = @ + 1, !.next = @ + 1]
             mark == Event(NewId(c), currentSpanId(c), "dev.byte_cap_hit", "one", 1)
  <2>1. emitByteCapHit(c, ev) = Keep(d, mark)
    BY <1>3 DEF emitByteCapHit
  <2>2. d \in Collectors(p) /\ d.events = c.events /\ d.dropped = c.dropped /\ SameCounters(c, d)
    <3>1. c.next + 1 \in Nat \ {0} /\ c.capHits + 1 \in Nat
      BY <1>1
    <3>2. d \in Collectors(p)
      BY <1>1, <3>1 DEF Collectors
    <3> QED BY <1>1, <3>2 DEF Collectors, SameCounters
  <2>3. mark \in EventsOf(p) /\ ~Tallied(k, mark)
    BY TopSpan DEF Event, EventsOf, Kinds, Tallied, Counted
  <2> HIDE DEF d, mark
  <2> DEFINE e == Keep(d, mark)
  <2>4. Tells(k, d, e, 0) /\ e.dropped = d.dropped /\ SameCounters(d, e)
    BY <2>2, <2>3, KeepTells DEF One
  <2> HIDE DEF e
  <2>5. Tells(k, c, e, 0) /\ SameCounters(c, e)
    BY <2>2, <2>4 DEF Tells, SameCounters
  <2> QED BY <2>1, <2>2, <2>4, <2>5 DEF e
<1> QED BY <1>2, <1>3

(* Ends of calls are protected from the caps. *)
LEMMA EmitTells ==
  ASSUME NEW p \in Procs, NEW c \in SoundOf(p), NEW raw \in EventsOf(p), Follows(c, raw), NEW k \in Counted
  PROVE  Tells(k, c, emit(c, raw), One(Tallied(k, raw))) /\ SameCounters(c, emit(c, raw))
<1> DEFINE oversize == raw.size > MaxEventBytes
           ev == IF oversize THEN shrinkPayload(raw) ELSE raw
           marked == IF oversize THEN emitByteCapHit(c, ev) ELSE c
           fewer == [marked EXCEPT !.dropped = @ + 1]
           e == emit(c, raw)
           n == One(Tallied(k, raw))
<1>1. ev \in EventsOf(p) /\ ev.half = raw.half /\ ev.kind = raw.kind
  BY DEF shrinkPayload, EventsOf
<1>2. /\ marked \in SoundOf(p) /\ Tells(k, c, marked, 0) /\ marked.dropped = c.dropped
      /\ SameCounters(c, marked)
  <2>1. c \in Collectors(p) /\ c.dropped \in Nat
    BY DEF SoundOf, Collectors
  <2>2. Tells(k, c, c, 0) /\ SameCounters(c, c)
    BY <2>1, TellsNone DEF SameCounters
  <2> DEFINE d == emitByteCapHit(c, ev)
  <2>3. d \in SoundOf(p)
    BY MarkUnmoved DEF Unmoved
  <2>4. Tells(k, c, d, 0) /\ d.dropped = c.dropped /\ SameCounters(c, d)
    BY MarkTells
  <2>5. marked = d \/ marked = c
    OBVIOUS
  <2> HIDE DEF d, marked
  <2> QED BY <2>2, <2>3, <2>4, <2>5
<1>3. \/ e = Keep(marked, ev)
      \/ e = emitByteCapHit(fewer, ev) /\ raw.kind \notin PROTECTED_TYPES
  BY <1>1 DEF emit
<1>4. e \in SoundOf(p)
  BY EmitSound DEF Grows
<1> HIDE DEF ev, marked, e
<1>5. /\ c \in Collectors(p) /\ marked \in Collectors(p) /\ e \in Collectors(p) /\ c.dropped \in Nat
      /\ n \in Nat
  BY <1>2, <1>4 DEF SoundOf, Collectors, One
<1>6. CASE e = Keep(marked, ev)
  <2>1. Tells(k, marked, e, One(Tallied(k, ev))) /\ SameCounters(marked, e)
    BY <1>1, <1>5, <1>6, KeepTells
  <2>2. Tallied(k, ev) <=> Tallied(k, raw)
    BY <1>1 DEF Tallied
  <2>3. Tells(k, marked, e, n)
    BY <2>1, <2>2 DEF One
  <2> HIDE DEF n
  <2>4. Tells(k, c, e, 0 + n)
    BY <1>2, <1>5, <2>3, TellsTwice
  <2>5. 0 + n = n
    BY <1>5
  <2> QED BY <1>2, <2>1, <2>4, <2>5 DEF SameCounters, e, n
<1>7. CASE e = emitByteCapHit(fewer, ev) /\ raw.kind \notin PROTECTED_TYPES
  <2>1. fewer \in SoundOf(p) /\ fewer.events = marked.events /\ fewer.dropped = marked.dropped + 1
    BY <1>2, DropsSound
  <2>2. SameCounters(marked, fewer)
    BY <1>5 DEF SameCounters, Collectors
  <2> HIDE DEF fewer
  <2>3. fewer \in Collectors(p) /\ fewer.dropped \in Nat
    BY <2>1 DEF SoundOf, Collectors
  <2>4. Tells(k, fewer, e, 0) /\ e.dropped = fewer.dropped /\ SameCounters(fewer, e)
    BY <1>7, <2>1, MarkTells
  <2> DEFINE x == Many(k, c.events)
             y == Many(k, marked.events)
             z == Many(k, e.events)
  <2>5. /\ x \in Nat /\ y \in Nat /\ z \in Nat
    BY <1>5, ManyOf
  <2>6. z <= y + 0 /\ z = y + 0
    BY <2>1, <2>4 DEF Tells
  <2>7. y = x + 0
    BY <1>2 DEF Tells
  <2>8. e.dropped = c.dropped + 1
    BY <1>2, <2>1, <2>4
  <2>9. k # "tool.mcp" => n = 0
    BY <1>7 DEF Tallied, One, PROTECTED_TYPES, Counted
  <2> HIDE DEF x, y, z, n
  <2>10. /\ z <= x + n /\ c.dropped <= e.dropped
         /\ k # "tool.mcp" \/ e.dropped = c.dropped => z = x + n
    BY <1>5, <2>5, <2>6, <2>7, <2>8, <2>9
  <2>11. Tells(k, c, e, n)
    BY <2>10 DEF Tells, x, z
  <2> QED BY <1>2, <2>2, <2>4, <2>11 DEF SameCounters, e, n
<1> QED BY <1>3, <1>6, <1>7

LEMMA EmitsTells ==
  ASSUME NEW p \in Procs, NEW c \in SoundOf(p), NEW e \in SoundOf(p), NEW kind, NEW half,
         Emits(p, c, e, kind, half), NEW k \in Counted
  PROVE  /\ Tells(k, c, e, One(kind = k /\ (k = "tool.mcp" \/ half = "end")))
         /\ Counter(e, k) = Counter(c, k) + Ends(k, kind, half)
<1>1. PICK d \in SoundOf(p), ev \in EventsOf(p) :
        /\ d.events = c.events /\ d.dropped = c.dropped /\ Follows(d, ev) /\ e = emit(d, ev)
        /\ ev.kind = kind /\ ev.half = half
        /\ \A x \in Counted : Counter(d, x) = Counter(c, x) + Ends(x, kind, half)
  BY DEF Emits
<1>2. Tells(k, d, e, One(Tallied(k, ev))) /\ SameCounters(d, e)
  BY <1>1, EmitTells
<1>3. Counter(e, k) = Counter(d, k)
  BY <1>2 DEF Counter, SameCounters
<1>4. Tells(k, c, e, One(Tallied(k, ev)))
  BY <1>1, <1>2 DEF Tells
<1>5. Tells(k, c, e, One(kind = k /\ (k = "tool.mcp" \/ half = "end")))
  BY <1>1, <1>4 DEF Tallied, One
<1> QED BY <1>1, <1>3, <1>5

LEMMA StartTells ==
  ASSUME NEW p \in Procs, NEW c \in SoundOf(p), NEW kind \in SpanKinds, NEW size \in Nat, NEW k \in Counted
  PROVE  LET e == start(c, kind, size) IN Tells(k, c, e, 0) /\ Counter(e, k) = Counter(c, k)
<1> DEFINE e == start(c, kind, size)
<1>1. e \in SoundOf(p) /\ Emits(p, c, e, kind, "start")
  BY StartSound DEF Kinds
<1> HIDE DEF e
<1>2. /\ Tells(k, c, e, One(kind = k /\ (k = "tool.mcp" \/ "start" = "end")))
      /\ Counter(e, k) = Counter(c, k) + Ends(k, kind, "start")
  BY <1>1, EmitsTells
<1>3. ~(kind = k /\ (k = "tool.mcp" \/ "start" = "end"))
  BY DEF SpanKinds
<1>4. Ends(k, kind, "start") = 0 /\ Counter(c, k) \in Nat
  BY ManyOf DEF Ends, SoundOf
<1> QED BY <1>2, <1>3, <1>4 DEF One, e

LEMMA EventTells ==
  ASSUME NEW p \in Procs, NEW c \in SoundOf(p), NEW kind \in Kinds, NEW size \in Nat, NEW k \in Counted
  PROVE  LET e == event(c, kind, size)
         IN Tells(k, c, e, One(kind = "tool.mcp" /\ k = "tool.mcp")) /\ Counter(e, k) = Counter(c, k)
<1> DEFINE e == event(c, kind, size)
<1>1. e \in SoundOf(p) /\ Emits(p, c, e, kind, "one")
  BY EventSound DEF Grows
<1> HIDE DEF e
<1>2. /\ Tells(k, c, e, One(kind = k /\ (k = "tool.mcp" \/ "one" = "end")))
      /\ Counter(e, k) = Counter(c, k) + Ends(k, kind, "one")
  BY <1>1, EmitsTells
<1>3. (kind = k /\ (k = "tool.mcp" \/ "one" = "end")) <=> (kind = "tool.mcp" /\ k = "tool.mcp")
  OBVIOUS
<1>4. Ends(k, kind, "one") = 0 /\ Counter(c, k) \in Nat
  BY ManyOf DEF Ends, SoundOf
<1> QED BY <1>2, <1>3, <1>4 DEF One, e

LEMMA EndTells ==
  ASSUME NEW p \in Procs, NEW c \in SoundOf(p), NEW id \in OnStack(c), NEW kind \in SpanKinds,
         NEW size \in Nat, NEW k \in Counted
  PROVE  LET e == end(c, id, kind, size)
         IN Tells(k, c, e, One(kind = k)) /\ Counter(e, k) = Counter(c, k) + One(kind = k)
<1> DEFINE e == end(c, id, kind, size)
<1>1. e \in SoundOf(p) /\ Emits(p, c, e, kind, "end")
  BY EndSound DEF Kinds
<1> HIDE DEF e
<1>2. /\ Tells(k, c, e, One(kind = k /\ (k = "tool.mcp" \/ "end" = "end")))
      /\ Counter(e, k) = Counter(c, k) + Ends(k, kind, "end")
  BY <1>1, EmitsTells
<1>3. Ends(k, kind, "end") = One(kind = k)
  BY DEF Ends, One, SpanKinds
<1> QED BY <1>2, <1>3 DEF One, e

(* What is spliced is counted, kept or not. *)
LEMMA SpliceTells ==
  ASSUME NEW p \in Procs, NEW q \in Procs, Of(q) \subseteq Of(p) \ {p},
         NEW c \in SoundOf(p), NEW ev \in EventsOf(q), NEW seq, NEW span \in Ids, NEW k \in Counted
  PROVE  LET e == Splice(c, ev, seq, span)
         IN /\ e \in SoundOf(p) /\ Tells(k, c, e, One(Tallied(k, ev)))
            /\ Counter(e, k) = Counter(c, k) + One(Tallied(k, ev))
<1> DEFINE rewired == Rewire(ev, seq, span)
           d == emit(c, rewired)
           counted == IF ev.half = "end" THEN Count(d, ev.kind) ELSE d
           e == CountNested(d, ev)
<1>1. rewired \in EventsOf(p) /\ rewired.id[1] # p /\ rewired.kind = ev.kind /\ rewired.half = ev.half
  <2>1. ev.id \in Of(q) \X Nat /\ ev.id \in Of(p) \X Nat /\ ev.id[1] # p
    BY DEF EventsOf
  <2>2. rewired \in {ev, [ev EXCEPT !.parent = span]}
    BY DEF Rewire
  <2> HIDE DEF rewired
  <2>3. ev \in EventsOf(p) /\ [ev EXCEPT !.parent = span] \in EventsOf(p)
    BY <2>1 DEF EventsOf
  <2>4. rewired.id = ev.id /\ rewired.kind = ev.kind /\ rewired.half = ev.half
    BY <2>2 DEF EventsOf
  <2> QED BY <2>1, <2>2, <2>3, <2>4
<1>2. e \in SoundOf(p)
  BY SpliceSound DEF Grows, Splice
<1> HIDE DEF rewired
<1>3. c.name = p
  BY DEF SoundOf, Collectors
<1>4. Follows(c, rewired)
  BY <1>1, <1>3 DEF Follows
<1>5. d \in Collectors(p) /\ Tells(k, c, d, One(Tallied(k, rewired))) /\ SameCounters(c, d)
  BY <1>1, <1>4, EmitTells, EmitSound DEF Grows, SoundOf
<1>6. Splice(c, ev, seq, span) = e
  BY DEF Splice, rewired
<1> HIDE DEF d
<1>7. /\ counted \in Collectors(p) /\ counted.events = d.events /\ counted.dropped = d.dropped
      /\ Counter(counted, k) = Counter(d, k) + (IF ev.half = "end" THEN Ends(k, ev.kind, "end") ELSE 0)
  <2>1. /\ Count(d, ev.kind) \in Collectors(p) /\ Count(d, ev.kind).events = d.events
        /\ Count(d, ev.kind).dropped = d.dropped
        /\ Counter(Count(d, ev.kind), k) = Counter(d, k) + Ends(k, ev.kind, "end")
    BY <1>5, CountFields
  <2>2. Counter(d, k) \in Nat
    BY <1>5, ManyOf
  <2> QED BY <1>5, <2>1, <2>2
<1> HIDE DEF counted
<1>8. /\ e.events = d.events /\ e.dropped = d.dropped
      /\ Counter(e, k) = Counter(counted, k) + One(k = "tool.mcp" /\ ev.kind = "tool.mcp")
  <2>1. e = [counted EXCEPT !.mcp = IF ev.kind = "tool.mcp" THEN @ + 1 ELSE @]
    BY DEF CountNested, counted
  <2> HIDE DEF e
  <2>2. counted.tools \in Nat /\ counted.mcp \in Nat /\ counted.hops \in Nat
    BY <1>7, ManyOf
  <2> QED BY <1>7, <2>1, <2>2 DEF Collectors, Counter, One
<1> HIDE DEF e
<1>9. Tells(k, c, e, One(Tallied(k, ev)))
  BY <1>1, <1>5, <1>8 DEF Tells, Tallied, One
<1>10. Counter(d, k) = Counter(c, k)
  BY <1>5 DEF SameCounters, Counter
<1>11. Counter(e, k) = Counter(c, k) + One(Tallied(k, ev))
  <2>1. Counter(c, k) \in Nat
    BY ManyOf DEF SoundOf
  <2>2. (IF ev.half = "end" THEN Ends(k, ev.kind, "end") ELSE 0) + One(k = "tool.mcp" /\ ev.kind = "tool.mcp")
          = One(Tallied(k, ev))
    BY DEF Ends, One, Tallied
  <2> DEFINE x == IF ev.half = "end" THEN Ends(k, ev.kind, "end") ELSE 0
             y == One(k = "tool.mcp" /\ ev.kind = "tool.mcp")
  <2>3. x \in Nat /\ y \in Nat
    BY DEF Ends, One
  <2>4. Counter(e, k) = (Counter(c, k) + x) + y
    BY <1>7, <1>8, <1>10
  <2> HIDE DEF x, y
  <2>5. Counter(e, k) = Counter(c, k) + (x + y)
    BY <2>1, <2>3, <2>4
  <2> QED BY <2>2, <2>5 DEF x, y
<1> QED BY <1>2, <1>6, <1>9, <1>11

LEMMA OneLonger ==
  ASSUME NEW S, NEW seq \in Seq(S), NEW n \in Nat, n + 1 <= Len(seq), NEW k
  PROVE  Many(k, SubSeq(seq, 1, n + 1)) = Many(k, SubSeq(seq, 1, n)) + One(Tallied(k, seq[n + 1]))
<1>1. SubSeq(seq, 1, n + 1) = Append(SubSeq(seq, 1, n), seq[n + 1])
  OBVIOUS
<1>2. SubSeq(seq, 1, n) \in Seq(S) /\ seq[n + 1] \in S
  OBVIOUS
<1> QED BY <1>1, <1>2, ManyAppended

LEMMA AttachTells ==
  ASSUME NEW p \in Procs, NEW q \in Procs, Of(q) \subseteq Of(p) \ {p},
         NEW c \in SoundOf(p), NEW seq \in Seq(EventsOf(q)), NEW span \in Ids, NEW missing \in Nat,
         \E i \in DOMAIN c.events : c.events[i].id = span, NEW k \in Counted
  PROVE  LET d == attachEventsNested(c, seq, span, missing)
         IN Tells(k, c, d, Many(k, seq)) /\ Counter(d, k) = Counter(c, k) + Many(k, seq)
<1> DEFINE m == Len(seq)
           h == CHOOSE f : SplicesTo(c, seq, span, f, m)
           e == [h[m] EXCEPT !.nestedDropped = @ + missing]
           d == attachEventsNested(c, seq, span, missing)
           Upto(n) == Many(k, SubSeq(seq, 1, n))
<1>1. m \in Nat /\ DOMAIN seq = 1..m
  OBVIOUS
<1>2. d = IF seq = <<>> THEN c ELSE e
  BY DEF attachEventsNested, SplicesTo, SpliceTo
<1>3. SubSeq(seq, 1, m) = seq /\ SubSeq(seq, 1, 0) = <<>>
  OBVIOUS
<1>4. Upto(m) = Many(k, seq) /\ Upto(0) = 0
  BY <1>3, ManyNat
<1>5. \A n \in Nat : n <= m => Upto(n) \in Nat
  <2> SUFFICES ASSUME NEW n \in Nat, n <= m PROVE Upto(n) \in Nat
    OBVIOUS
  <2>1. SubSeq(seq, 1, n) \in Seq(EventsOf(q))
    OBVIOUS
  <2> QED BY <2>1, ManyNat
<1>6. ASSUME NEW n \in Nat, n + 1 <= m PROVE Upto(n + 1) = Upto(n) + One(Tallied(k, seq[n + 1]))
  BY <1>6, OneLonger
<1> HIDE DEF m, d, Upto
<1>7. SplicesTo(c, seq, span, h, m)
  BY <1>1, SplicesExist
<1> HIDE DEF h
<1>8. \A n \in 0..m : h[n] = SpliceTo(c, seq, span, h, n)
  BY <1>7, SplicesEach
<1> DEFINE Done(n) == /\ h[n] \in SoundOf(p) /\ Tells(k, c, h[n], Upto(n))
                      /\ Counter(h[n], k) = Counter(c, k) + Upto(n)
           S == {n \in Nat : n <= m => Done(n)}
<1>9. c \in Collectors(p) /\ c.dropped \in Nat /\ Counter(c, k) \in Nat
  BY ManyOf DEF SoundOf, Collectors
<1>10. 0 \in S
  <2>1. 0 \in 0..m
    BY <1>1
  <2>2. h[0] = c
    BY <1>8, <2>1 DEF SpliceTo
  <2>3. Tells(k, c, c, 0)
    BY <1>9, TellsNone
  <2> QED BY <1>4, <1>9, <2>2, <2>3
<1>11. ASSUME NEW n \in Nat, n \in S PROVE n + 1 \in S
  <2> SUFFICES ASSUME n + 1 <= m PROVE Done(n + 1)
    OBVIOUS
  <2>1. n + 1 \in 0..m /\ n + 1 # 0 /\ (n + 1) - 1 = n /\ n + 1 \in 1..m /\ n <= m
    BY <1>1
  <2>2. h[n + 1] = Splice(h[n], seq[n + 1], seq, span)
    BY <1>8, <2>1 DEF SpliceTo
  <2>3. Done(n)
    BY <1>11, <2>1
  <2> DEFINE f == h[n]
             g == Splice(f, seq[n + 1], seq, span)
             x == One(Tallied(k, seq[n + 1]))
  <2>4. f \in SoundOf(p) /\ Tells(k, c, f, Upto(n)) /\ Counter(f, k) = Counter(c, k) + Upto(n)
    BY <2>3
  <2> HIDE DEF f
  <2>5. seq[n + 1] \in EventsOf(q)
    BY <2>1 DEF m
  <2>6. g \in SoundOf(p) /\ Tells(k, f, g, x) /\ Counter(g, k) = Counter(f, k) + x
    BY <2>4, <2>5, SpliceTells
  <2>7. h[n + 1] = g
    BY <2>2 DEF f
  <2>8. x \in Nat /\ Upto(n) \in Nat /\ Upto(n + 1) = Upto(n) + x
    BY <1>5, <1>6, <2>1 DEF One
  <2> HIDE DEF g, x
  <2>9. Tells(k, c, g, Upto(n) + x)
    BY <1>9, <2>4, <2>6, <2>8, TellsTwice DEF SoundOf
  <2>10. Counter(g, k) = Counter(c, k) + (Upto(n) + x)
    BY <1>9, <2>4, <2>6, <2>8
  <2> QED BY <2>6, <2>7, <2>8, <2>9, <2>10
<1> HIDE DEF S
<1>12. Nat \subseteq S
  BY <1>10, <1>11, EveryNumber
<1>13. Done(m)
  BY <1>1, <1>12 DEF S
<1> DEFINE l == h[m]
<1>14. l \in SoundOf(p) /\ Tells(k, c, l, Upto(m)) /\ Counter(l, k) = Counter(c, k) + Upto(m)
  BY <1>13
<1>15. e = [l EXCEPT !.nestedDropped = @ + missing]
  OBVIOUS
<1> HIDE DEF Done, l, e
<1>16. /\ e.events = l.events /\ e.dropped = l.dropped /\ e.tools = l.tools /\ e.mcp = l.mcp
       /\ e.hops = l.hops
  BY <1>14, <1>15 DEF SoundOf, Collectors
<1>17. Tells(k, c, e, Upto(m)) /\ Counter(e, k) = Counter(c, k) + Upto(m)
  BY <1>14, <1>16 DEF Tells, Counter
<1>18. CASE seq = <<>>
  <2>1. Many(k, seq) = 0
    BY <1>18, ManyNat
  <2>2. Tells(k, c, c, 0)
    BY <1>9, TellsNone
  <2> QED BY <1>2, <1>9, <1>18, <2>1, <2>2 DEF d
<1>19. CASE seq # <<>>
  BY <1>2, <1>4, <1>17, <1>19 DEF d
<1> QED BY <1>18, <1>19

(* A method that counts as many more as it tallies. *)
Sums(k, c, d, n) == Tells(k, c, d, n) /\ Counter(d, k) = Counter(c, k) + n

LEMMA SumsTwice ==
  ASSUME NEW p, NEW c \in SoundOf(p), NEW d \in SoundOf(p), NEW e \in SoundOf(p),
         NEW k, NEW m \in Nat, NEW n \in Nat, Sums(k, c, d, m), Sums(k, d, e, n)
  PROVE  Sums(k, c, e, m + n)
<1>1. c \in Collectors(p) /\ d \in Collectors(p) /\ e \in Collectors(p)
  BY DEF SoundOf
<1>2. Tells(k, c, e, m + n)
  BY <1>1, TellsTwice DEF Sums
<1>3. Counter(c, k) \in Nat
  BY <1>1, ManyOf
<1>4. Counter(e, k) = Counter(c, k) + (m + n)
  BY <1>3 DEF Sums
<1> QED BY <1>2, <1>4 DEF Sums

LEMMA EventSums ==
  ASSUME NEW p \in Procs, NEW c \in SoundOf(p), NEW kind \in Kinds \ {"tool.mcp"}, NEW size \in Nat,
         NEW k \in Counted
  PROVE  LET e == event(c, kind, size) IN e \in SoundOf(p) /\ Sums(k, c, e, 0)
<1> DEFINE e == event(c, kind, size)
<1>1. e \in SoundOf(p)
  BY EventSound DEF Grows
<1>2. Tells(k, c, e, One(kind = "tool.mcp" /\ k = "tool.mcp")) /\ Counter(e, k) = Counter(c, k)
  BY EventTells
<1> HIDE DEF e
<1>3. Counter(c, k) \in Nat
  BY ManyOf DEF SoundOf
<1> QED BY <1>1, <1>2, <1>3 DEF Sums, One, e

(* A splice counts what the runtime sent, and a hop. *)
LEMMA SplicedSums ==
  ASSUME RelayInv, NEW p \in Runtimes, Called(p), NEW k \in Counted,
         \E i \in DOMAIN col[Caller(p)].events : col[Caller(p)].events[i].id = wrapper[p]
  PROVE  Sums(k, col[Caller(p)], Spliced(p), Many(k, nested[p]) + One(k = "agentcore.invoke"))
<1> DEFINE r == Caller(p)
           c == col[r]
           span == wrapper[p]
           sent == Many(k, nested[p])
           hop == One(k = "agentcore.invoke")
           flow == path = "flow" \/ r = "orchestrator"
           ended == end(c, span, "agentcore.invoke", 1)
           told == IF at[p] = "broken" /\ ~flow THEN event(ended, "error", 1) ELSE ended
           missing == IF flow THEN 0 ELSE lost[p]
           whole == attachEventsNested(told, nested[p], span, missing)
           noted == IF flow THEN event(whole, "orchestrator.specialist_draft", 1)
                    ELSE IF nested[p] = <<>> THEN whole ELSE event(whole, "agentcore.nested_trace", 1)
<1>1. /\ 1 \in Nat /\ "agentcore.invoke" \in SpanKinds /\ "agentcore.invoke" \in Kinds
      /\ {"error", "orchestrator.specialist_draft", "agentcore.nested_trace"} \subseteq Kinds \ {"tool.mcp"}
  BY DEF Kinds, SpanKinds
<1>2. /\ r \in Procs /\ p \in Procs /\ c \in SoundOf(r) /\ span \in OnStack(c)
      /\ Of(p) \subseteq Of(r) \ {r} /\ nested[p] \in Seq(EventsOf(p)) /\ missing \in Nat
  <2>1. lost[p] \in Nat
    BY DEF RelayInv, RelayTyped
  <2> QED BY <2>1, CallerFacts DEF RelayInv, RelayTyped, Invoked
<1>3. Spliced(p) = noted
  BY DEF Spliced
<1>4. span \in Ids /\ \E i \in DOMAIN c.events : c.events[i].id = span
  BY <1>2 DEF SoundOf, Sound
<1>5. sent \in Nat /\ hop \in Nat
  BY <1>2, ManyNat DEF One
<1> HIDE DEF r, c, span, missing, sent, hop
<1>6. ended \in SoundOf(r) /\ Adds(r, c, ended, {}) /\ Sums(k, c, ended, hop)
  <2>1. ended \in SoundOf(r) /\ Adds(r, c, ended, {})
    BY <1>1, <1>2, EndAdds
  <2>2. /\ Tells(k, c, ended, One("agentcore.invoke" = k))
        /\ Counter(ended, k) = Counter(c, k) + One("agentcore.invoke" = k)
    BY <1>1, <1>2, EndTells
  <2> HIDE DEF ended
  <2> QED BY <2>1, <2>2 DEF Sums, One, hop
<1> HIDE DEF ended
<1>7. told \in SoundOf(r) /\ Adds(r, ended, told, {}) /\ Sums(k, ended, told, 0)
  <2> DEFINE e == event(ended, "error", 1)
  <2>1. e \in SoundOf(r) /\ Sums(k, ended, e, 0)
    BY <1>1, <1>2, <1>6, EventSums
  <2>2. Adds(r, ended, e, {})
    BY <1>1, <1>2, <1>6, EventAdds
  <2>3. told \in {e, ended}
    OBVIOUS
  <2> HIDE DEF e, told
  <2>4. ended \in Collectors(r) /\ ended.dropped \in Nat /\ Counter(ended, k) \in Nat
    BY <1>6, ManyOf DEF SoundOf
  <2>5. Adds(r, ended, ended, {}) /\ Tells(k, ended, ended, 0)
    BY <2>4, AddsNone, TellsNone
  <2>6. Sums(k, ended, ended, 0)
    BY <2>4, <2>5 DEF Sums
  <2> QED BY <1>6, <2>1, <2>2, <2>3, <2>5, <2>6
<1> HIDE DEF told
<1>8. \E i \in DOMAIN told.events : told.events[i].id = span
  BY <1>4, <1>6, <1>7 DEF Adds
<1>9. whole \in SoundOf(r)
  BY <1>2, <1>4, <1>7, AttachSound DEF Grows
<1>10. Sums(k, told, whole, sent)
  BY <1>2, <1>4, <1>7, <1>8, AttachTells DEF Sums, sent
<1> HIDE DEF whole, flow
<1>11. noted \in SoundOf(r) /\ Sums(k, whole, noted, 0)
  <2> DEFINE e1 == event(whole, "orchestrator.specialist_draft", 1)
             e2 == event(whole, "agentcore.nested_trace", 1)
  <2>1. e1 \in SoundOf(r) /\ Sums(k, whole, e1, 0)
    BY <1>1, <1>2, <1>9, EventSums
  <2>2. e2 \in SoundOf(r) /\ Sums(k, whole, e2, 0)
    BY <1>1, <1>2, <1>9, EventSums
  <2>3. noted \in {whole, e1, e2}
    OBVIOUS
  <2> HIDE DEF e1, e2, noted
  <2>4. whole \in Collectors(r) /\ whole.dropped \in Nat /\ Counter(whole, k) \in Nat
    BY <1>9, ManyOf DEF SoundOf
  <2>5. Tells(k, whole, whole, 0)
    BY <2>4, TellsNone
  <2>6. Sums(k, whole, whole, 0)
    BY <2>4, <2>5 DEF Sums
  <2> QED BY <1>9, <2>1, <2>2, <2>3, <2>6
<1> HIDE DEF noted
<1>12. Sums(k, c, told, hop + 0)
  BY <1>2, <1>5, <1>6, <1>7, SumsTwice
<1>13. hop + 0 \in Nat /\ (hop + 0) + sent \in Nat /\ ((hop + 0) + sent) + 0 = sent + hop
  BY <1>5
<1>14. Sums(k, c, whole, (hop + 0) + sent)
  BY <1>2, <1>5, <1>7, <1>9, <1>10, <1>12, <1>13, SumsTwice
<1>15. Sums(k, c, noted, ((hop + 0) + sent) + 0)
  BY <1>2, <1>9, <1>11, <1>13, <1>14, SumsTwice
<1>16. Sums(k, c, noted, sent + hop)
  BY <1>13, <1>15
<1> QED BY <1>3, <1>16 DEF r, c, sent, hop

-----------------------------------------------------------------------------
(* The counts of a turn whose streams stay whole. *)

Over == {p \in Runtimes : at[p] = "over"}
MadeOf(k) ==
  IF k = "tool.call" THEN made.tools ELSE IF k = "tool.mcp" THEN made.mcp ELSE Cardinality(Over)

(* Nothing is counted twice, and nothing is missing that the caps protect. *)
Balances(k, n, due, all) == n <= due /\ (k # "tool.mcp" \/ all => n = due)
Kept == \A p \in Procs : col[p].dropped = 0

(* The API has counted the calls of the runtimes that are over; the others *)
(* are those of the one it has invoked.                                    *)
TallyOf(k) ==
  /\ Many(k, Events("api")) <= Counter(col["api"], k)
  /\ \A s \in Specialists : Called(s) =>
       Balances(k, Counter(col["api"], k) + Many(k, Events(s)), MadeOf(k), Kept)
  /\ (\A s \in Specialists : ~Called(s)) => Balances(k, Counter(col["api"], k), MadeOf(k), Kept)

(* What a runtime has recorded was received, or is on its way, in order.   *)
Streams(state, e, received, queue) ==
  LET n == Len(received)
      l == Len(queue)
  IN /\ n <= Len(e) /\ Len(e) <= n + l
     /\ state \in {"idle", "fresh", "running"} => Len(e) = n + l
     /\ state \in {"idle", "fresh"} => e = <<>>
     /\ \A i \in 1..n : received[i] = e[i]
     /\ \A i \in 1..l : /\ n + i <= Len(e) => queue[i].type = "trace" /\ queue[i].ev = e[n + i]
                        /\ n + i > Len(e) => queue[i].type = "done"

StreamOf(s) == Streams(at[s], Events(s), nested[s], link[s])

TallyInv ==
  /\ \A k \in Counted : TallyOf(k)
  /\ \A s \in Specialists : StreamOf(s)
  /\ IsFiniteSet(Over)
  /\ at["api"] = "over" => \A p \in Runtimes : ~Called(p)

Whole == path # "hop" /\ breaks = 0

CountInv == breaks \in Nat /\ made \in [tools : Nat, mcp : Nat] /\ (Whole => TallyInv)

LEMMA StreamLengths ==
  ASSUME RelayInv, NEW s \in Specialists
  PROVE  /\ s \in Procs /\ s \in Runtimes /\ s # "api" /\ col[s] \in SoundOf(s) /\ col[s] \in Collectors(s)
         /\ Len(Events(s)) \in Nat /\ Len(nested[s]) \in Nat /\ Len(link[s]) \in Nat
         /\ Events(s) \in Seq(EventsOf(s)) /\ link[s] \in Seq(Frame(s)) /\ nested[s] \in Seq(EventsOf(s))
<1>1. s \in Procs /\ s \in Runtimes /\ s # "api" /\ col[s] \in SoundOf(s)
  BY SpecialistFacts DEF Runtimes
<1>2. col[s] \in Collectors(s)
  BY <1>1 DEF SoundOf
<1>3. Events(s) \in Seq(EventsOf(s)) /\ link[s] \in Seq(Frame(s)) /\ nested[s] \in Seq(EventsOf(s))
  BY <1>1, <1>2 DEF Collectors, Events, RelayInv, RelayTyped
<1> QED BY <1>1, <1>2, <1>3

LEMMA LastOnes ==
  ASSUME NEW S, NEW f \in Seq(S), NEW x \in Nat, NEW y, y = Len(f), x <= y
  PROVE  /\ DOMAIN SubSeq(f, x + 1, y) = 1..(y - x)
         /\ \A i \in 1..(y - x) : SubSeq(f, x + 1, y)[i] = f[x + i]
OBVIOUS

(* The frames of what was recorded carry it, in order. *)
LEMMA RecordedEach ==
  ASSUME NEW p \in Procs, NEW c \in SoundOf(p), NEW d \in SoundOf(p), Len(c.events) <= Len(d.events)
  PROVE  LET frames == Frames(Recorded(c, d))
             b == Len(d.events) - Len(c.events)
         IN /\ frames \in Seq(Frame(p)) /\ Len(frames) = b /\ b \in Nat
            /\ \A i \in 1..b : frames[i].type = "trace" /\ frames[i].ev = d.events[Len(c.events) + i]
<1> DEFINE f == d.events
           x == Len(c.events)
           y == Len(f)
           new == Recorded(c, d)
           frames == Frames(new)
           b == y - x
<1>1. frames \in Seq(Frame(p))
  BY RecordedFrames
<1>2. f \in Seq(EventsOf(p)) /\ x \in Nat /\ y \in Nat /\ x <= y
  BY Lengths DEF SoundOf, Collectors
<1>3. new = SubSeq(f, x + 1, y)
  BY DEF Recorded
<1> HIDE DEF new, f, x, frames
<1>4. DOMAIN SubSeq(f, x + 1, y) = 1..(y - x) /\ \A i \in 1..(y - x) : SubSeq(f, x + 1, y)[i] = f[x + i]
  BY <1>2, LastOnes
<1> HIDE DEF y
<1>5. b \in Nat /\ DOMAIN new = 1..b /\ \A i \in 1..b : new[i] = f[x + i]
  BY <1>2, <1>3, <1>4
<1> HIDE DEF b
<1>6. DOMAIN frames = 1..b /\ \A i \in 1..b : frames[i].type = "trace" /\ frames[i].ev = f[x + i]
  BY <1>5 DEF frames, Frames
<1>7. Len(frames) = b
  BY <1>1, <1>5, <1>6
<1> QED BY <1>1, <1>5, <1>6, <1>7 DEF frames, new, f, x, y, b

(* What is recorded joins what is on its way. *)
LEMMA RecordStreams ==
  ASSUME RelayInv, NEW s \in Specialists, StreamOf(s), NEW c \in SoundOf(s), NEW more \in Seq(Frame(s)),
         Record(s, c, more), NEW X, Adds(s, col[s], c, X), at[s] \in {"fresh", "running"},
         \/ more = <<>> /\ at'[s] = "running"
         \/ (\A n \in DOMAIN more : more[n].type = "done") /\ at'[s] = "closed",
         nested' = nested
  PROVE  StreamOf(s)'
<1> DEFINE e == Events(s)
           f == c.events
           n == Len(nested[s])
           l == Len(link[s])
           new == Recorded(col[s], c)
           frames == Frames(new)
           queue == link[s] \o frames \o more
           x == Len(e)
           y == Len(f)
<1>1. /\ s \in Procs /\ s \in Runtimes /\ s # "api" /\ col[s] \in SoundOf(s) /\ col[s] \in Collectors(s)
      /\ x \in Nat /\ n \in Nat /\ l \in Nat /\ DOMAIN e = 1..x
      /\ e \in Seq(EventsOf(s)) /\ link[s] \in Seq(Frame(s)) /\ nested[s] \in Seq(EventsOf(s))
  BY StreamLengths
<1>2. c \in Collectors(s) /\ f \in Seq(EventsOf(s)) /\ y \in Nat /\ DOMAIN f = 1..y
  BY DEF SoundOf, Collectors
<1>3. x = n + l /\ \A i \in 1..n : nested[s][i] = e[i]
  BY DEF StreamOf, Streams
<1>4. \A i \in 1..l : n + i <= x => link[s][i].type = "trace" /\ link[s][i].ev = e[n + i]
  BY DEF StreamOf, Streams
<1>5. x <= y /\ \A i \in 1..x : f[i] = e[i]
  BY <1>1 DEF Adds, Events
<1>6. Events(s)' = f
  BY <1>1, RecordKeeps DEF RelayInv, Events
<1>7. link'[s] = queue
  BY <1>1 DEF Record, RelayInv, RelayTyped
<1>8. /\ frames \in Seq(Frame(s)) /\ Len(frames) = y - x
      /\ \A i \in 1..(y - x) : frames[i].type = "trace" /\ frames[i].ev = f[x + i]
  <2>1. Len(col[s].events) <= Len(c.events)
    BY <1>5 DEF Events
  <2> HIDE DEF x, y, e, f, n, l, new, frames, queue
  <2>2. LET fs == Frames(Recorded(col[s], c))
            b == Len(c.events) - Len(col[s].events)
        IN /\ fs \in Seq(Frame(s)) /\ Len(fs) = b /\ b \in Nat
           /\ \A i \in 1..b : fs[i].type = "trace" /\ fs[i].ev = c.events[Len(col[s].events) + i]
    <3>1. s \in Procs /\ col[s] \in SoundOf(s)
      BY <1>1
    <3> QED BY <2>1, <3>1, RecordedEach
  <2> QED BY <2>2 DEF frames, new, f, x, y, e, Events
<1> HIDE DEF new, frames
<1> DEFINE z == Len(more)
<1>9. /\ z \in Nat /\ DOMAIN more = 1..z /\ DOMAIN queue = 1..(l + (y - x) + z)
      /\ \A i \in 1..l : queue[i] = link[s][i]
      /\ \A i \in 1..(y - x) : queue[l + i] = frames[i]
      /\ \A i \in 1..z : queue[l + (y - x) + i] = more[i]
  <2> DEFINE old == link[s]
  <2>1. Len(old) = l /\ Len(more) = z /\ old \in Seq(Frame(s)) /\ DOMAIN more = 1..z
    BY <1>1
  <2> HIDE DEF old, l, z, x, y
  <2>2. /\ DOMAIN (old \o frames \o more) = 1..(l + (y - x) + z) /\ z \in Nat
        /\ \A i \in 1..l : (old \o frames \o more)[i] = old[i]
        /\ \A i \in 1..(y - x) : (old \o frames \o more)[l + i] = frames[i]
        /\ \A i \in 1..z : (old \o frames \o more)[l + (y - x) + i] = more[i]
    <3>1. /\ DOMAIN (old \o frames \o more) = 1..(Len(old) + Len(frames) + Len(more)) /\ Len(more) \in Nat
          /\ \A n1 \in 1..Len(old) : (old \o frames \o more)[n1] = old[n1]
          /\ \A n1 \in 1..Len(frames) : (old \o frames \o more)[Len(old) + n1] = frames[n1]
          /\ \A n1 \in 1..Len(more) : (old \o frames \o more)[Len(old) + Len(frames) + n1] = more[n1]
      <4> HIDE DEF queue, e, f, n
      <4>1. old \in Seq(Frame(s)) /\ frames \in Seq(Frame(s)) /\ more \in Seq(Frame(s))
        BY <1>8, <2>1
      <4> QED BY <4>1, Joined3
    <3> QED BY <1>8, <2>1, <3>1
  <2> QED BY <2>1, <2>2 DEF old
<1>10. queue \in Seq(Frame(s))
  BY <1>1, <1>8
<1>11. z = 0 \/ \A i \in 1..z : more[i].type = "done"
  BY <1>9
<1>12. at'[s] = "running" => z = 0
  OBVIOUS
<1> DEFINE w == Len(queue)
<1>13. w = l + (y - x) + z
  <2> HIDE DEF queue, x, y, l, z
  <2>1. w \in Nat /\ DOMAIN queue = 1..w
    BY <1>10
  <2> HIDE DEF w
  <2> QED BY <1>1, <1>2, <1>5, <1>9, <2>1
<1> HIDE DEF e, f, n, l, x, y, z, w, queue
<1>14. n <= y /\ y <= n + w /\ (z = 0 => y = n + w)
  BY <1>1, <1>2, <1>3, <1>5, <1>9, <1>13
<1>15. \A i \in 1..n : nested[s][i] = f[i]
  BY <1>1, <1>3, <1>5
<1>16. ASSUME NEW i \in 1..w
       PROVE  /\ n + i <= y => queue[i].type = "trace" /\ queue[i].ev = f[n + i]
              /\ n + i > y => queue[i].type = "done"
  <2>1. CASE i <= l
    <3>1. i \in 1..l /\ n + i <= x /\ n + i \in 1..x /\ ~(n + i > y)
      BY <1>1, <1>2, <1>3, <1>5, <2>1
    <3> QED BY <1>4, <1>5, <1>9, <3>1
  <2>2. CASE i > l /\ i <= l + (y - x)
    <3>1. i - l \in 1..(y - x) /\ i = l + (i - l) /\ x + (i - l) = n + i /\ ~(n + i > y)
      <4>1. i \in Nat /\ l \in Nat /\ n \in Nat /\ x = n + l /\ y \in Nat /\ x <= y
        BY <1>1, <1>2, <1>3, <1>5, <1>9, <1>13
      <4> QED BY <2>2, <4>1
    <3> QED BY <1>8, <1>9, <3>1
  <2>3. CASE i > l + (y - x)
    <3> DEFINE j == i - (l + (y - x))
    <3>1. j \in 1..z /\ i = l + (y - x) + j /\ ~(n + i <= y) /\ z # 0
      <4>1. /\ i \in Nat /\ l \in Nat /\ n \in Nat /\ x = n + l /\ y \in Nat /\ x <= y /\ z \in Nat
            /\ i <= l + (y - x) + z
        BY <1>1, <1>2, <1>3, <1>5, <1>9, <1>13
      <4> QED BY <2>3, <4>1
    <3> HIDE DEF j
    <3> QED BY <1>9, <1>11, <3>1
  <2> QED BY <1>1, <1>2, <1>5, <2>1, <2>2, <2>3
<1>17. at'[s] \in {"idle", "fresh", "running"} => z = 0
  BY <1>12
<1>18. at'[s] \notin {"idle", "fresh"}
  OBVIOUS
<1>19. StreamOf(s)' <=>
         /\ n <= y /\ y <= n + w
         /\ at'[s] \in {"idle", "fresh", "running"} => y = n + w
         /\ at'[s] \in {"idle", "fresh"} => f = <<>>
         /\ \A i \in 1..n : nested[s][i] = f[i]
         /\ \A i \in 1..w : /\ n + i <= y => queue[i].type = "trace" /\ queue[i].ev = f[n + i]
                            /\ n + i > y => queue[i].type = "done"
  BY <1>6, <1>7 DEF StreamOf, Streams, n, w, y
<1> QED BY <1>14, <1>15, <1>16, <1>17, <1>18, <1>19

LEMMA CalledOnce ==
  ASSUME RelayInv, path # "hop", NEW p \in Runtimes, NEW q \in Runtimes
  PROVE  /\ Caller(p) = "api" /\ "api" \in Procs /\ "api" \notin Runtimes
         /\ Called(p) /\ Called(q) => p = q
BY DEF RelayInv, Invoked, Caller, Procs, Runtimes

(* The balance, when what is counted and what is due grow alike. *)
LEMMA BalanceGrows ==
  ASSUME NEW k, NEW due \in Nat, NEW n \in Nat, NEW m \in Nat, NEW x \in Nat, NEW all, NEW still,
         Balances(k, n, due, all), m <= n + x, still => all, k # "tool.mcp" \/ still => m = n + x
  PROVE  Balances(k, m, due + x, still)
BY DEF Balances

LEMMA MadeNat ==
  ASSUME made \in [tools : Nat, mcp : Nat], IsFiniteSet(Over), NEW k \in Counted
  PROVE  MadeOf(k) \in Nat
BY FS_CardinalityType DEF MadeOf

LEMMA SpecialistCounts ==
  ASSUME RelayInv, TallyInv, path # "hop", made \in [tools : Nat, mcp : Nat],
         NEW s \in Specialists, NEW c \in SoundOf(s), NEW more \in Seq(Frame(s)),
         Record(s, c, more), Adds(s, col[s], c, {}), at[s] \in {"fresh", "running"},
         NEW v, at' = [at EXCEPT ![s] = v],
         \/ more = <<>> /\ v = "running"
         \/ (\A n \in DOMAIN more : more[n].type = "done") /\ v = "closed",
         UNCHANGED <<path, nested>>,
         NEW f \in [Counted -> Nat], \A k \in Counted : Tells(k, col[s], c, f[k]),
         f["agentcore.invoke"] = 0,
         made'.tools = made.tools + f["tool.call"], made'.mcp = made.mcp + f["tool.mcp"]
  PROVE  TallyInv'
<1>1. /\ s \in Procs /\ s \in Runtimes /\ s # "api" /\ col[s] \in SoundOf(s) /\ col[s] \in Collectors(s)
      /\ c \in Collectors(s) /\ "api" \in Procs
  BY StreamLengths DEF SoundOf, Procs
<1>2. /\ DOMAIN col' = Procs /\ col'[s] = c /\ \A q \in Procs \ {s} : col'[q] = col[q]
      /\ \A q \in Procs : col'[q] \in SoundOf(q)
  BY <1>1, RecordKeeps DEF RelayInv
<1>3. /\ at'[s] = v /\ \A q \in Procs \ {s} : at'[q] = at[q]
  BY <1>1 DEF RelayInv, RelayTyped
<1>4. Called(s) /\ Called(s)' /\ \A q \in Runtimes : Called(q)' <=> Called(q)
  BY <1>3 DEF Called, Runtimes
<1>5. Over' = Over
  BY <1>1, <1>3 DEF Over, Runtimes
<1>6. \A q \in Specialists : Called(q) => q = s
  <2>1. \A q \in Specialists : q \in Runtimes
    BY RelayAssumption DEF Runtimes, Procs
  <2> QED BY <1>1, <1>4, <2>1, CalledOnce
<1>7. ASSUME NEW k \in Counted PROVE MadeOf(k) \in Nat /\ MadeOf(k)' = MadeOf(k) + f[k]
  <2>1. MadeOf(k) \in Nat
    BY MadeNat DEF TallyInv
  <2>2. CASE k = "tool.call"
    BY <2>1, <2>2 DEF MadeOf
  <2>3. CASE k = "tool.mcp"
    BY <2>1, <2>3 DEF MadeOf
  <2>4. CASE k = "agentcore.invoke"
    <3>1. MadeOf(k)' = MadeOf(k)
      BY <1>5, <2>4 DEF MadeOf
    <3> QED BY <2>1, <2>4, <3>1
  <2> QED BY <2>1, <2>2, <2>3, <2>4 DEF Counted
<1>8. \A q \in Procs : col'[q].dropped \in Nat /\ col[q].dropped <= col'[q].dropped
  <2> SUFFICES ASSUME NEW q \in Procs PROVE col'[q].dropped \in Nat /\ col[q].dropped <= col'[q].dropped
    OBVIOUS
  <2>1. col'[q].dropped \in Nat /\ col[q].dropped \in Nat
    BY <1>2 DEF RelayInv, RelayTyped, SoundOf, Collectors
  <2>2. col'[q].dropped = col[q].dropped \/ (q = s /\ col[s].dropped <= c.dropped)
    BY <1>2 DEF Adds
  <2> QED BY <1>2, <2>1, <2>2
<1>9. ASSUME NEW k \in Counted PROVE TallyOf(k)'
  <2> DEFINE a == Counter(col["api"], k)
             x == Many(k, Events(s))
             y == Many(k, c.events)
  <2>1. col'["api"] = col["api"]
    BY <1>1, <1>2
  <2>2. Many(k, Events("api"))' <= Counter(col["api"], k)'
    <3>1. Events("api")' = Events("api")
      BY <2>1 DEF Events
    <3> QED BY <2>1, <3>1, <1>9 DEF TallyInv, TallyOf
  <2>3. a \in Nat /\ x \in Nat /\ y \in Nat
    <3>1. col["api"] \in Collectors("api")
      BY <1>1 DEF RelayInv, RelayTyped, SoundOf
    <3> QED BY <1>1, <3>1, ManyOf DEF Events
  <2>4. Balances(k, a + x, MadeOf(k), Kept)
    BY <1>4, <1>9 DEF TallyInv, TallyOf
  <2>5. y <= x + f[k] /\ (k # "tool.mcp" \/ c.dropped = col[s].dropped => y = x + f[k])
    BY <1>9 DEF Tells, Events
  <2>6. Counter(col["api"], k)' = a /\ Many(k, Events(s))' = y
    BY <1>2, <2>1 DEF Events
  <2> HIDE DEF a, x, y
  <2>7. f[k] \in Nat /\ a + x \in Nat /\ a + y \in Nat /\ a + y <= (a + x) + f[k]
    BY <2>3, <2>5
  <2>8. Kept' => Kept /\ c.dropped = col[s].dropped
    <3>1. ASSUME Kept', NEW q \in Procs PROVE col[q].dropped = 0 /\ col'[q].dropped = 0
      <4>1. col'[q].dropped = 0 /\ col[q].dropped \in Nat
        BY <3>1 DEF Kept, RelayInv, RelayTyped, SoundOf, Collectors
      <4> QED BY <1>8, <4>1
    <3> QED BY <1>1, <1>2, <3>1 DEF Kept
  <2>9. k # "tool.mcp" \/ Kept' => a + y = (a + x) + f[k]
    <3>1. y = x + f[k] => a + y = (a + x) + f[k]
      BY <2>3, <2>7
    <3> QED BY <2>5, <2>8, <3>1
  <2>10. Balances(k, a + y, MadeOf(k)', Kept')
    <3>1. MadeOf(k) \in Nat /\ MadeOf(k)' = MadeOf(k) + f[k]
      BY <1>7
    <3>2. Balances(k, a + y, MadeOf(k) + f[k], Kept')
      BY <2>4, <2>7, <2>8, <2>9, <3>1, BalanceGrows
    <3> QED BY <3>1, <3>2
  <2>11. \A q \in Specialists : Called(q)' => q = s
    BY <1>4, <1>6, <1>1 DEF Procs, Runtimes, Called
  <2>12. (\A q \in Specialists : Called(q) =>
            Balances(k, Counter(col["api"], k) + Many(k, Events(q)), MadeOf(k), Kept))'
    BY <2>6, <2>10, <2>11
  <2>13. ~(\A q \in Specialists : ~Called(q))'
    BY <1>4
  <2> QED BY <2>2, <2>12, <2>13 DEF TallyOf
<1>10. ASSUME NEW q \in Specialists PROVE StreamOf(q)'
  <2>1. StreamOf(q)
    BY DEF TallyInv
  <2>2. CASE q = s
    BY <1>3, <2>1, <2>2, RecordStreams
  <2>3. CASE q # s
    <3>1. q \in Procs /\ q \in Runtimes
      BY StreamLengths
    <3>2. col'[q] = col[q] /\ at'[q] = at[q] /\ nested'[q] = nested[q]
      BY <1>2, <1>3, <2>3, <3>1
    <3>3. link'[q] = link[q]
      BY <2>3, <3>1 DEF Record, RelayInv, RelayTyped
    <3>4. Events(q)' = Events(q)
      BY <3>2 DEF Events
    <3> QED BY <2>1, <3>2, <3>3, <3>4 DEF StreamOf
  <2> QED BY <2>2, <2>3
<1>11. at'["api"] # "over"
  <2>1. at["api"] # "over"
    BY <1>1, <1>4 DEF TallyInv
  <2> QED BY <1>1, <1>3, <2>1
<1>12. IsFiniteSet(Over)'
  BY <1>5 DEF TallyInv
<1> QED BY <1>9, <1>10, <1>11, <1>12 DEF TallyInv

LEMMA WholeBefore == CountInv /\ UNCHANGED <<path, breaks>> /\ Whole' => Whole /\ TallyInv
BY DEF CountInv, Whole

LEMMA AnsweringCounts ==
  ASSUME RelayInv, CountInv, NEW s \in Specialists, NEW size \in {1, MaxEventBytes + 1}, Answering(s, size)
  PROVE  CountInv'
<1> DEFINE c == start(col[s], "model.request", size)
           f == [k \in Counted |-> 0]
<1>1. size \in Nat /\ "model.request" \in SpanKinds /\ "model.request" \in Kinds
  BY CollectorAssumption DEF Kinds, SpanKinds
<1>2. c \in SoundOf(s) /\ Adds(s, col[s], c, {})
  BY <1>1, SpecialistFacts, StartAdds
<1>3. \A k \in Counted : Tells(k, col[s], c, 0)
  BY <1>1, SpecialistFacts, StartTells
<1>4. /\ Record(s, c, <<>>) /\ at[s] = "fresh" /\ at' = [at EXCEPT ![s] = "running"]
      /\ UNCHANGED <<path, nested, made, breaks>>
  BY DEF Answering
<1> HIDE DEF c
<1>5. /\ f \in [Counted -> Nat] /\ f["agentcore.invoke"] = 0 /\ f["tool.call"] = 0 /\ f["tool.mcp"] = 0
      /\ \A k \in Counted : Tells(k, col[s], c, f[k])
  BY <1>3 DEF Counted
<1> HIDE DEF f
<1>6. made'.tools = made.tools + f["tool.call"] /\ made'.mcp = made.mcp + f["tool.mcp"]
  BY <1>4, <1>5 DEF CountInv
<1>7. ASSUME TallyInv, Whole PROVE TallyInv'
  BY <1>2, <1>4, <1>5, <1>6, <1>7, SpecialistFacts, SpecialistCounts DEF Whole, CountInv
<1> QED BY <1>4, <1>7, WholeBefore DEF CountInv

LEMMA CallToolCounts ==
  ASSUME RelayInv, CountInv, NEW s \in Specialists, CallTool(s)
  PROVE  CountInv'
<1> DEFINE c == start(col[s], "tool.call", 1)
           f == [k \in Counted |-> 0]
<1>1. 1 \in Nat /\ "tool.call" \in SpanKinds /\ "tool.call" \in Kinds
  BY DEF Kinds, SpanKinds
<1>2. c \in SoundOf(s) /\ Adds(s, col[s], c, {})
  BY <1>1, SpecialistFacts, StartAdds
<1>3. \A k \in Counted : Tells(k, col[s], c, 0)
  BY <1>1, SpecialistFacts, StartTells
<1>4. /\ Record(s, c, <<>>) /\ at[s] = "running" /\ at' = [at EXCEPT ![s] = "running"]
      /\ UNCHANGED <<path, nested, made, breaks>>
  BY SpecialistFacts DEF CallTool, Free, Recording
<1> HIDE DEF c
<1>5. /\ f \in [Counted -> Nat] /\ f["agentcore.invoke"] = 0 /\ f["tool.call"] = 0 /\ f["tool.mcp"] = 0
      /\ \A k \in Counted : Tells(k, col[s], c, f[k])
  BY <1>3 DEF Counted
<1> HIDE DEF f
<1>6. made'.tools = made.tools + f["tool.call"] /\ made'.mcp = made.mcp + f["tool.mcp"]
  BY <1>4, <1>5 DEF CountInv
<1>7. ASSUME TallyInv, Whole PROVE TallyInv'
  BY <1>2, <1>4, <1>5, <1>6, <1>7, SpecialistFacts, SpecialistCounts DEF Whole, CountInv
<1> QED BY <1>4, <1>7, WholeBefore DEF CountInv

LEMMA CallMcpCounts ==
  ASSUME RelayInv, CountInv, NEW s \in Specialists, CallMcp(s)
  PROVE  CountInv'
<1> DEFINE c == event(col[s], "tool.mcp", 1)
           f == [k \in Counted |-> One(k = "tool.mcp")]
<1>1. 1 \in Nat /\ "tool.mcp" \in Kinds
  BY DEF Kinds
<1>2. c \in SoundOf(s) /\ Adds(s, col[s], c, {})
  BY <1>1, SpecialistFacts, EventAdds
<1>3. \A k \in Counted : Tells(k, col[s], c, One("tool.mcp" = "tool.mcp" /\ k = "tool.mcp"))
  BY <1>1, SpecialistFacts, EventTells
<1>4. /\ Record(s, c, <<>>) /\ at[s] = "running" /\ at' = [at EXCEPT ![s] = "running"]
      /\ made' = [made EXCEPT !.mcp = @ + 1] /\ UNCHANGED <<path, nested, breaks>>
  BY SpecialistFacts DEF CallMcp, Free, Recording
<1> HIDE DEF c
<1>5. /\ f \in [Counted -> Nat] /\ f["agentcore.invoke"] = 0 /\ f["tool.call"] = 0 /\ f["tool.mcp"] = 1
      /\ \A k \in Counted : Tells(k, col[s], c, f[k])
  BY <1>3 DEF Counted, One
<1> HIDE DEF f
<1>6. /\ made'.tools = made.tools + f["tool.call"] /\ made'.mcp = made.mcp + f["tool.mcp"]
      /\ made' \in [tools : Nat, mcp : Nat]
  BY <1>4, <1>5 DEF CountInv
<1>7. ASSUME TallyInv, Whole PROVE TallyInv'
  BY <1>2, <1>4, <1>5, <1>6, <1>7, SpecialistFacts, SpecialistCounts DEF Whole, CountInv
<1> QED BY <1>4, <1>6, <1>7, WholeBefore DEF CountInv

LEMMA ToolReturnedCounts ==
  ASSUME RelayInv, CountInv, NEW s \in Specialists, NEW id \in open[s], NEW ok \in BOOLEAN,
         ToolReturned(s, id, ok)
  PROVE  CountInv'
<1> DEFINE failed == event(col[s], "error", 1)
           told == IF ok THEN col[s] ELSE failed
           c == end(told, id, "tool.call", 1)
           f == [k \in Counted |-> One(k = "tool.call")]
<1>1. /\ 1 \in Nat /\ "tool.call" \in SpanKinds /\ "tool.call" \in Kinds /\ "error" \in Kinds
      /\ "error" \in Kinds \ {"tool.mcp"} /\ id \in OnStack(col[s])
  BY DEF Kinds, SpanKinds, RelayInv, SpansOpen
<1>2. failed \in SoundOf(s) /\ OnStack(failed) = OnStack(col[s]) /\ Adds(s, col[s], failed, {})
  BY <1>1, SpecialistFacts, EventSound, EventAdds DEF Grows, OnStack
<1>3. \A k \in Counted : Sums(k, col[s], failed, 0)
  BY <1>1, SpecialistFacts, EventSums
<1>4. col[s] \in SoundOf(s) /\ Adds(s, col[s], col[s], {})
  BY SpecialistFacts, AddsNone DEF SoundOf, Collectors
<1>5. ASSUME NEW k \in Counted PROVE Tells(k, col[s], col[s], 0)
  BY <1>4, TellsNone DEF SoundOf, Collectors
<1>6. told \in {col[s], failed}
  OBVIOUS
<1>7. /\ Record(s, c, <<>>) /\ at[s] = "running" /\ at' = [at EXCEPT ![s] = "running"]
      /\ made' = [made EXCEPT !.tools = @ + 1] /\ UNCHANGED <<path, nested, breaks>>
  BY SpecialistFacts DEF ToolReturned, Recording
<1> HIDE DEF told, failed
<1>8. told \in SoundOf(s) /\ Adds(s, col[s], told, {}) /\ id \in OnStack(told)
  BY <1>1, <1>2, <1>4, <1>6
<1>9. \A k \in Counted : Tells(k, col[s], told, 0)
  BY <1>3, <1>5, <1>6 DEF Sums
<1>10. c \in SoundOf(s) /\ Adds(s, told, c, {})
  BY <1>1, <1>8, SpecialistFacts, EndAdds
<1>11. \A k \in Counted : Tells(k, told, c, One("tool.call" = k))
  BY <1>1, <1>8, SpecialistFacts, EndTells
<1> HIDE DEF c
<1>12. Adds(s, col[s], c, {})
  BY <1>4, <1>8, <1>10, AddsTwice DEF SoundOf
<1>13. ASSUME NEW k \in Counted PROVE Tells(k, col[s], c, f[k])
  <2> DEFINE n == One("tool.call" = k)
  <2>1. n \in Nat /\ f[k] = n /\ 0 \in Nat
    BY DEF One
  <2>2. Tells(k, told, c, n) /\ Tells(k, col[s], told, 0)
    BY <1>9, <1>11
  <2> HIDE DEF n, f
  <2>3. Tells(k, col[s], c, 0 + n)
    BY <1>4, <1>8, <1>10, <2>1, <2>2, TellsTwice DEF SoundOf
  <2>4. 0 + n = n
    BY <2>1
  <2> QED BY <2>1, <2>3, <2>4
<1>14. /\ f \in [Counted -> Nat] /\ f["agentcore.invoke"] = 0 /\ f["tool.call"] = 1 /\ f["tool.mcp"] = 0
  BY DEF Counted, One
<1> HIDE DEF f
<1>15. /\ made'.tools = made.tools + f["tool.call"] /\ made'.mcp = made.mcp + f["tool.mcp"]
       /\ made' \in [tools : Nat, mcp : Nat]
  BY <1>7, <1>14 DEF CountInv
<1>16. ASSUME TallyInv, Whole PROVE TallyInv'
  BY <1>7, <1>10, <1>12, <1>13, <1>14, <1>15, <1>16, SpecialistFacts, SpecialistCounts DEF Whole, CountInv
<1> QED BY <1>7, <1>15, <1>16, WholeBefore DEF CountInv

LEMMA AnsweredCounts ==
  ASSUME RelayInv, CountInv, NEW s \in Specialists, NEW ok \in BOOLEAN, Answered(s, ok)
  PROVE  CountInv'
<1> DEFINE ended == end(col[s], <<s, 1>>, "model.request", 1)
           c == IF ok THEN ended ELSE col[s]
           more == <<DoneFrame(c)>>
           f == [k \in Counted |-> 0]
<1>1. /\ 1 \in Nat /\ "model.request" \in SpanKinds /\ "model.request" \in Kinds
      /\ "model.request" \notin Counted
  BY DEF Kinds, SpanKinds, Counted
<1>2. /\ Record(s, c, more) /\ at[s] = "running" /\ at' = [at EXCEPT ![s] = "closed"]
      /\ UNCHANGED <<path, nested, made, breaks>>
  BY DEF Answered, Recording
<1>3. <<s, 1>> \in OnStack(col[s])
  BY <1>2 DEF RelayInv, SpansOpen
<1>4. ended \in SoundOf(s) /\ Adds(s, col[s], ended, {})
  BY <1>1, <1>3, SpecialistFacts, EndAdds
<1>5. \A k \in Counted : Tells(k, col[s], ended, 0)
  <2> SUFFICES ASSUME NEW k \in Counted PROVE Tells(k, col[s], ended, 0)
    OBVIOUS
  <2>1. Tells(k, col[s], ended, One("model.request" = k))
    BY <1>1, <1>3, SpecialistFacts, EndTells
  <2>2. "model.request" # k
    BY <1>1
  <2> QED BY <2>1, <2>2 DEF One
<1>6. col[s] \in SoundOf(s) /\ Adds(s, col[s], col[s], {})
  BY SpecialistFacts, AddsNone DEF SoundOf, Collectors
<1>7. ASSUME NEW k \in Counted PROVE Tells(k, col[s], col[s], 0)
  BY <1>6, TellsNone DEF SoundOf, Collectors
<1>8. c \in {ended, col[s]}
  OBVIOUS
<1> HIDE DEF c, ended
<1>9. c \in SoundOf(s) /\ Adds(s, col[s], c, {}) /\ \A k \in Counted : Tells(k, col[s], c, 0)
  BY <1>4, <1>5, <1>6, <1>7, <1>8
<1>10. DoneFrame(c) \in Frame(s) /\ DoneFrame(c).type = "done"
  BY <1>9 DEF DoneFrame, Frame, SoundOf, Collectors
<1>11. more \in Seq(Frame(s)) /\ \A n \in DOMAIN more : more[n].type = "done"
  BY <1>10
<1> HIDE DEF more
<1>12. /\ f \in [Counted -> Nat] /\ f["agentcore.invoke"] = 0 /\ f["tool.call"] = 0 /\ f["tool.mcp"] = 0
       /\ \A k \in Counted : Tells(k, col[s], c, f[k])
  BY <1>9 DEF Counted
<1> HIDE DEF f
<1>13. made'.tools = made.tools + f["tool.call"] /\ made'.mcp = made.mcp + f["tool.mcp"]
  BY <1>2, <1>12 DEF CountInv
<1>14. ASSUME TallyInv, Whole PROVE TallyInv'
  BY <1>2, <1>9, <1>11, <1>12, <1>13, <1>14, SpecialistFacts, SpecialistCounts DEF Whole, CountInv
<1> QED BY <1>2, <1>14, WholeBefore DEF CountInv

(* The API records: what is on its way, and the specialists', is not moved. *)
LEMMA ApiRecords ==
  ASSUME RelayInv, NEW p \in Specialists, NEW c \in SoundOf("api"), Record("api", c, <<>>),
         NEW X, Adds("api", col["api"], c, X), NEW v, at' = [at EXCEPT ![p] = v]
  PROVE  /\ link' = link /\ at'["api"] = at["api"] /\ at'[p] = v
         /\ \A q \in Procs \ {p} : at'[q] = at[q]
         /\ col'["api"] = c /\ \A q \in Specialists : Events(q)' = Events(q)
         /\ col["api"] \in SoundOf("api") /\ (Kept' => Kept /\ c.dropped = col["api"].dropped)
         /\ (Events("api"))' = c.events
<1>1. "api" \in Procs /\ p \in Procs /\ p # "api" /\ \A q \in Specialists : q \in Procs \ {"api"}
  BY RelayAssumption DEF Procs
<1>2. <<>> \in Seq(Frame("api"))
  OBVIOUS
<1>3. /\ DOMAIN col' = Procs /\ col'["api"] = c /\ \A q \in Procs \ {"api"} : col'[q] = col[q]
  BY <1>1, <1>2, RecordKeeps DEF RelayInv
<1>4. link' = link
  BY DEF Record
<1>5. /\ at'[p] = v /\ \A q \in Procs \ {p} : at'[q] = at[q]
  BY <1>1 DEF RelayInv, RelayTyped
<1>6. ASSUME NEW q \in Specialists PROVE Events(q)' = Events(q)
  BY <1>1, <1>3 DEF Events
<1>7. Kept' => Kept /\ c.dropped = col["api"].dropped
  <2>1. col["api"].dropped \in Nat /\ c.dropped \in Nat /\ col["api"].dropped <= c.dropped
    BY <1>1 DEF RelayInv, RelayTyped, SoundOf, Collectors, Adds
  <2>2. Kept' => c.dropped = 0 /\ \A q \in Procs \ {"api"} : col[q].dropped = 0
    BY <1>1, <1>3 DEF Kept
  <2>3. Kept' => col["api"].dropped = 0
    BY <2>1, <2>2
  <2> QED BY <2>2, <2>3 DEF Kept
<1>8. (Events("api"))' = c.events
  BY <1>3 DEF Events
<1> QED BY <1>1, <1>3, <1>4, <1>5, <1>6, <1>7, <1>8 DEF RelayInv, RelayTyped

LEMMA InvokeCounts ==
  ASSUME RelayInv, CountInv, NEW p \in Runtimes, Invoke(p)
  PROVE  CountInv'
<1>1. UNCHANGED <<path, nested, made, breaks>>
  BY DEF Invoke
<1>2. ASSUME TallyInv, Whole PROVE TallyInv'
  <2> DEFINE c == start(col["api"], "agentcore.invoke", 1)
  <2>1. p \in Specialists /\ Caller(p) = "api" /\ "api" \in Procs /\ path # "hop" /\ p \in Procs
    BY <1>2, CalledOnce DEF Invoke, Whole, Runtimes
  <2>2. p # "orchestrator"
    BY <2>1, RelayAssumption
  <2>3. /\ at[p] = "idle" /\ at["api"] = "running" /\ Record("api", c, <<>>)
        /\ at' = [at EXCEPT ![p] = "fresh"]
    BY <2>1, <2>2 DEF Invoke
  <2>4. \A q \in Runtimes : Caller(q) = "api" /\ ~Called(q)
    BY <2>1, <2>3, CalledOnce DEF Invoke, Called
  <2>5. 1 \in Nat /\ "agentcore.invoke" \in SpanKinds /\ "agentcore.invoke" \in Kinds
    BY DEF Kinds, SpanKinds
  <2>6. col["api"] \in SoundOf("api")
    BY <2>1 DEF RelayInv, RelayTyped
  <2>7. c \in SoundOf("api") /\ Adds("api", col["api"], c, {})
    BY <2>1, <2>5, <2>6, StartAdds
  <2>8. \A k \in Counted : Tells(k, col["api"], c, 0) /\ Counter(c, k) = Counter(col["api"], k)
    BY <2>1, <2>5, <2>6, StartTells
  <2> HIDE DEF c
  <2>9. /\ link' = link /\ at'["api"] = at["api"] /\ at'[p] = "fresh"
        /\ \A q \in Procs \ {p} : at'[q] = at[q]
        /\ col'["api"] = c /\ \A q \in Specialists : Events(q)' = Events(q)
        /\ (Kept' => Kept /\ c.dropped = col["api"].dropped) /\ (Events("api"))' = c.events
    BY <2>1, <2>3, <2>7, ApiRecords
  <2>10. Over' = Over
    BY <2>1, <2>3, <2>9 DEF Over, Runtimes
  <2>11. \A k \in Counted : MadeOf(k)' = MadeOf(k)
    BY <1>1, <2>10 DEF MadeOf
  <2>12. Called(p)' /\ \A q \in Runtimes : Called(q)' => q = p
    BY <2>4, <2>9 DEF Called, Runtimes
  <2>13. StreamOf(p) /\ Events(p) = <<>>
    BY <1>2, <2>1, <2>3 DEF TallyInv, StreamOf, Streams
  <2>14. ASSUME NEW k \in Counted PROVE TallyOf(k)'
    <3> DEFINE a == Counter(col["api"], k)
    <3>1. a \in Nat /\ Many(k, Events("api")) \in Nat /\ Many(k, c.events) \in Nat
      BY <2>6, <2>7, ManyOf DEF SoundOf, Events
    <3>2. Many(k, Events("api")) <= a /\ Balances(k, a, MadeOf(k), Kept)
      BY <1>2, <2>4, <2>14, RelayAssumption DEF TallyInv, TallyOf, Runtimes, Procs
    <3>3. Many(k, c.events) <= Many(k, Events("api")) + 0
      BY <2>8, <2>14 DEF Tells, Events
    <3>4. (Counter(col["api"], k))' = a
      BY <2>8, <2>9, <2>14
    <3>5. (Many(k, Events("api")))' = Many(k, c.events)
      BY <2>9
    <3>6. (Many(k, Events("api")) <= Counter(col["api"], k))'
      BY <3>1, <3>2, <3>3, <3>4, <3>5
    <3>7. (Many(k, Events(p)))' = 0
      <4>1. (Events(p))' = <<>>
        BY <2>1, <2>9, <2>13
      <4>2. (Many(k, Events(p)))' = Many(k, <<>>)
        BY <4>1
      <4>3. <<>> \in Seq(EventsOf(p))
        OBVIOUS
      <4>4. Many(k, <<>>) = 0
        BY <4>3, ManyNat
      <4> QED BY <4>2, <4>4
    <3> HIDE DEF a
    <3>8. a + 0 = a
      BY <3>1
    <3>9. Balances(k, a, MadeOf(k)', Kept')
      BY <2>9, <2>11, <2>14, <3>2 DEF Balances
    <3>10. Balances(k, Counter(col["api"], k) + Many(k, Events(p)), MadeOf(k), Kept)'
      BY <3>4, <3>7, <3>8, <3>9
    <3>11. \A q \in Specialists : Called(q)' => q = p
      BY <2>12, RelayAssumption DEF Runtimes, Procs
    <3>12. (\A q \in Specialists : Called(q) =>
               Balances(k, Counter(col["api"], k) + Many(k, Events(q)), MadeOf(k), Kept))'
      BY <3>10, <3>11
    <3>13. ~(\A q \in Specialists : ~Called(q))'
      BY <2>1, <2>12
    <3> QED BY <3>6, <3>12, <3>13 DEF TallyOf
  <2>15. ASSUME NEW q \in Specialists PROVE StreamOf(q)'
    <3>1. StreamOf(q) /\ q \in Procs
      BY <1>2 DEF TallyInv, Procs
    <3>2. CASE q = p
      <4>1. Streams("idle", Events(p), nested[p], link[p])
        BY <2>3, <3>1, <3>2 DEF StreamOf
      <4>2. Streams("fresh", Events(p), nested[p], link[p])
        BY <4>1 DEF Streams
      <4>3. (Events(p))' = Events(p) /\ at'[p] = "fresh" /\ nested'[p] = nested[p] /\ link'[p] = link[p]
        BY <1>1, <2>1, <2>9
      <4> QED BY <3>2, <4>2, <4>3 DEF StreamOf
    <3>3. CASE q # p
      <4>1. at'[q] = at[q]
        BY <2>9, <3>1, <3>3
      <4> QED BY <1>1, <2>9, <3>1, <4>1 DEF StreamOf
    <3> QED BY <3>2, <3>3
  <2>16. (IsFiniteSet(Over))' /\ at'["api"] # "over"
    BY <1>2, <2>3, <2>9, <2>10 DEF TallyInv
  <2> QED BY <2>14, <2>15, <2>16 DEF TallyInv
<1> QED BY <1>1, <1>2, WholeBefore DEF CountInv

(* The first frame of a stream arrives. *)
LEMMA HeadArrives ==
  ASSUME NEW state, NEW E, NEW e \in Seq(E), NEW received \in Seq(E), NEW F, NEW queue \in Seq(F),
         queue # <<>>, Streams(state, e, received, queue)
  PROVE  /\ Head(queue).type = "trace" => Streams(state, e, Append(received, Head(queue).ev), Tail(queue))
         /\ Head(queue).type # "trace" => Streams(state, e, received, Tail(queue))
<1> DEFINE n == Len(received)
           l == Len(queue)
           x == Len(e)
           f == queue[1]
           t == Tail(queue)
<1>1. n \in Nat /\ l \in Nat /\ x \in Nat /\ l >= 1 /\ Head(queue) = f
  OBVIOUS
<1>2. Len(t) = l - 1 /\ \A i \in 1..(l - 1) : t[i] = queue[i + 1] /\ i + 1 \in 1..l
  OBVIOUS
<1>3. /\ n <= x /\ x <= n + l
      /\ state \in {"idle", "fresh", "running"} => x = n + l
      /\ state \in {"idle", "fresh"} => e = <<>>
      /\ \A i \in 1..n : received[i] = e[i]
      /\ \A i \in 1..l : /\ n + i <= x => queue[i].type = "trace" /\ queue[i].ev = e[n + i]
                         /\ n + i > x => queue[i].type = "done"
  BY DEF Streams
<1>4. 1 \in 1..l /\ (n + 1 <= x \/ n + 1 > x)
  BY <1>1
<1>5. CASE f.type = "trace"
  <2> DEFINE r == Append(received, f.ev)
  <2>1. n + 1 <= x
    <3>1. ~(n + 1 > x)
      BY <1>3, <1>4, <1>5
    <3> QED BY <1>4, <3>1
  <2>2. f.ev = e[n + 1] /\ e[n + 1] \in E
    <3>1. n + 1 \in 1..x
      BY <1>1, <2>1
    <3> HIDE DEF n
    <3> QED BY <1>3, <1>4, <2>1, <3>1
  <2>3. Len(r) = n + 1 /\ \A i \in 1..(n + 1) : r[i] = IF i = n + 1 THEN f.ev ELSE received[i]
    <3> HIDE DEF f
    <3> QED BY <2>2
  <2> HIDE DEF n, l, x, f, t, r
  <2>4. \A i \in 1..(n + 1) : r[i] = e[i]
    <3> SUFFICES ASSUME NEW i \in 1..(n + 1) PROVE r[i] = e[i]
      OBVIOUS
    <3>1. i = n + 1 \/ i \in 1..n
      BY <1>1
    <3> QED BY <1>3, <2>2, <2>3, <3>1
  <2>5. \A i \in 1..(l - 1) : /\ (n + 1) + i <= x => t[i].type = "trace" /\ t[i].ev = e[(n + 1) + i]
                              /\ (n + 1) + i > x => t[i].type = "done"
    <3> SUFFICES ASSUME NEW i \in 1..(l - 1)
                 PROVE  /\ (n + 1) + i <= x => t[i].type = "trace" /\ t[i].ev = e[(n + 1) + i]
                        /\ (n + 1) + i > x => t[i].type = "done"
      OBVIOUS
    <3>1. (n + 1) + i = n + (i + 1) /\ i + 1 \in 1..l /\ t[i] = queue[i + 1]
      BY <1>1, <1>2
    <3> QED BY <1>3, <3>1
  <2>6. /\ n + 1 <= x /\ x <= (n + 1) + (l - 1)
        /\ (state \in {"idle", "fresh", "running"} => x = (n + 1) + (l - 1))
    BY <1>1, <1>3, <2>1
  <2>7. Streams(state, e, r, t) <=>
          /\ Len(r) <= x /\ x <= Len(r) + Len(t)
          /\ state \in {"idle", "fresh", "running"} => x = Len(r) + Len(t)
          /\ state \in {"idle", "fresh"} => e = <<>>
          /\ \A i \in 1..Len(r) : r[i] = e[i]
          /\ \A i \in 1..Len(t) : /\ Len(r) + i <= x => t[i].type = "trace" /\ t[i].ev = e[Len(r) + i]
                                  /\ Len(r) + i > x => t[i].type = "done"
    BY DEF Streams, x
  <2>8. Streams(state, e, r, t)
    BY <1>2, <1>3, <2>3, <2>4, <2>5, <2>6, <2>7
  <2> QED BY <1>1, <1>5, <2>8 DEF r, t
<1>6. CASE f.type # "trace"
  <2>1. n = x
    <3>1. ~(n + 1 <= x)
      BY <1>3, <1>4, <1>6
    <3> QED BY <1>1, <1>3, <3>1
  <2>2. state \notin {"idle", "fresh", "running"}
    BY <1>1, <1>3, <2>1
  <2> HIDE DEF n, l, x, f, t
  <2>3. ASSUME NEW i \in 1..(l - 1) PROVE ~(n + i <= x) /\ t[i].type = "done"
    <3>1. i + 1 \in 1..l /\ t[i] = queue[i + 1] /\ n + (i + 1) > x /\ ~(n + i <= x)
      BY <1>1, <1>2, <2>1
    <3> QED BY <1>3, <3>1
  <2>4. n <= x /\ x <= n + (l - 1)
    BY <1>1, <2>1
  <2>5. Streams(state, e, received, t) <=>
          /\ n <= x /\ x <= n + Len(t)
          /\ state \in {"idle", "fresh", "running"} => x = n + Len(t)
          /\ state \in {"idle", "fresh"} => e = <<>>
          /\ \A i \in 1..n : received[i] = e[i]
          /\ \A i \in 1..Len(t) : /\ n + i <= x => t[i].type = "trace" /\ t[i].ev = e[n + i]
                                  /\ n + i > x => t[i].type = "done"
    BY DEF Streams, x, n
  <2>6. Streams(state, e, received, t)
    BY <1>2, <1>3, <2>2, <2>3, <2>4, <2>5
  <2> QED BY <1>1, <1>6, <2>6 DEF t
<1> QED BY <1>5, <1>6

(* Nothing is recorded or counted: only what is on its way moves. *)
LEMMA TallyKept ==
  ASSUME TallyInv, UNCHANGED <<path, col, at, made>>, \A s \in Specialists : StreamOf(s)'
  PROVE  TallyInv'
<1>1. Over' = Over /\ (Kept' <=> Kept)
  BY DEF Over, Kept
<1>2. \A s \in Specialists : Called(s)' <=> Called(s)
  BY DEF Called
<1>3. \A p \in Runtimes : Called(p)' <=> Called(p)
  BY DEF Called
<1>4. ASSUME NEW k \in Counted PROVE TallyOf(k)'
  <2>1. MadeOf(k)' = MadeOf(k) /\ \A q : Events(q)' = Events(q)
    BY <1>1 DEF MadeOf, Events
  <2>2. TallyOf(k)
    BY <1>4 DEF TallyInv
  <2>3. (Kept' => Kept) /\ (Kept => Kept')
    BY <1>1
  <2>4. ASSUME NEW s \in Specialists, Called(s)
        PROVE  Balances(k, Counter(col["api"], k) + Many(k, Events(s)), MadeOf(k), Kept)'
    <3>1. Balances(k, Counter(col["api"], k) + Many(k, Events(s)), MadeOf(k), Kept)
      BY <2>2, <2>4 DEF TallyOf
    <3> QED BY <2>1, <2>3, <3>1 DEF Balances
  <2>5. (\A s \in Specialists : ~Called(s)) => Balances(k, Counter(col["api"], k), MadeOf(k), Kept)'
    BY <2>1, <2>2, <2>3 DEF TallyOf, Balances
  <2>6. Many(k, Events("api"))' <= Counter(col["api"], k)'
    BY <2>1, <2>2 DEF TallyOf
  <2> QED BY <1>2, <2>4, <2>5, <2>6 DEF TallyOf
<1> QED BY <1>1, <1>3, <1>4 DEF TallyInv

LEMMA ReceiveCounts ==
  ASSUME RelayInv, HierInv, CountInv, NEW p \in Runtimes, Receive(p)
  PROVE  CountInv'
<1>1. UNCHANGED <<path, col, at, made, breaks>>
  BY DEF Receive
<1>2. ASSUME TallyInv, Whole PROVE TallyInv'
  <2>1. ASSUME NEW q \in Specialists PROVE StreamOf(q)'
    <3>1. /\ q \in Runtimes /\ Events(q) \in Seq(EventsOf(q)) /\ link[q] \in Seq(Frame(q))
          /\ nested[q] \in Seq(EventsOf(q)) /\ (Events(q))' = Events(q) /\ at'[q] = at[q]
      BY <1>1, StreamLengths DEF Events
    <3>2. Streams(at[q], Events(q), nested[q], link[q])
      BY <1>2 DEF TallyInv, StreamOf
    <3>3. Caller(p) # "orchestrator"
      BY <1>2 DEF Caller, Whole
    <3>4. DOMAIN link = Runtimes /\ DOMAIN nested = Runtimes /\ link[p] # <<>>
      BY DEF RelayInv, RelayTyped, Receive
    <3>5. link' = [link EXCEPT ![p] = Tail(@)]
      BY <3>3 DEF Receive, Forward
    <3>6. /\ Head(link[p]).type = "trace" => nested' = [nested EXCEPT ![p] = Append(@, Head(link[p]).ev)]
          /\ Head(link[p]).type # "trace" => nested' = nested
      BY DEF Receive
    <3>7. CASE q # p
      <4>1. link'[q] = link[q] /\ nested'[q] = nested[q]
        BY <3>1, <3>4, <3>5, <3>6, <3>7
      <4> QED BY <3>1, <3>2, <4>1 DEF StreamOf
    <3>8. CASE q = p
      <4> DEFINE f == Head(link[q])
                 r == Append(nested[q], f.ev)
                 t == Tail(link[q])
      <4>1. link'[q] = t /\ nested'[q] = IF f.type = "trace" THEN r ELSE nested[q]
        <5> HIDE DEF r, t
        <5>1. link' = [link EXCEPT ![q] = t]
          BY <3>5, <3>8 DEF t
        <5>2. link'[q] = t
          BY <3>1, <3>4, <5>1
        <5>3. CASE f.type = "trace"
          <6>1. nested' = [nested EXCEPT ![q] = Append(@, f.ev)]
            BY <3>6, <3>8, <5>3
          <6> HIDE DEF f
          <6>2. nested'[q] = r
            BY <3>1, <3>4, <6>1 DEF r
          <6> QED BY <5>2, <5>3, <6>2
        <5>4. CASE f.type # "trace"
          <6>1. nested' = nested
            BY <3>6, <3>8, <5>4
          <6> HIDE DEF f
          <6> QED BY <5>2, <5>4, <6>1
        <5> QED BY <5>3, <5>4
      <4>2. /\ f.type = "trace" => Streams(at[q], Events(q), r, t)
            /\ f.type # "trace" => Streams(at[q], Events(q), nested[q], t)
        BY <3>1, <3>2, <3>4, <3>8, HeadArrives
      <4> HIDE DEF r, t, f
      <4> QED BY <3>1, <4>1, <4>2 DEF StreamOf
    <3> QED BY <3>7, <3>8
  <2> QED BY <1>1, <1>2, <2>1, TallyKept
<1> QED BY <1>1, <1>2, WholeBefore DEF CountInv

(* A stream that breaks off may lose what was recorded. *)
LEMMA BreakCounts ==
  ASSUME CountInv, NEW p \in Runtimes, Break(p)
  PROVE  CountInv'
<1>1. breaks \in Nat /\ breaks' = breaks + 1 /\ made' = made
  BY DEF CountInv, Break
<1>2. breaks' \in Nat /\ breaks' # 0
  BY <1>1
<1> QED BY <1>1, <1>2 DEF CountInv, Whole

(* A stream that is over, and whole, has brought all that was recorded. *)
LEMMA AllArrived ==
  ASSUME NEW state, NEW E, NEW e \in Seq(E), NEW received \in Seq(E), Streams(state, e, received, <<>>)
  PROVE  received = e
<1>1. Len(received) <= Len(e) /\ Len(e) <= Len(received) + 0 /\ \A i \in 1..Len(received) : received[i] = e[i]
  BY DEF Streams
<1>2. Len(received) = Len(e)
  BY <1>1
<1> QED BY <1>1, <1>2

(* What a runtime has sent is counted by the API now, and the hop with it. *)
LEMMA FinishCounts ==
  ASSUME RelayInv, HierInv, CountInv, NEW p \in Runtimes, Finish(p)
  PROVE  CountInv'
<1>1. UNCHANGED <<path, nested, made, breaks>>
  BY DEF Finish
<1>2. ASSUME TallyInv, Whole PROVE TallyInv'
  <2> DEFINE c == Spliced(p)
             X == NestedIds(nested[p])
  <2>1. /\ at[p] \in {"closed", "broken"} /\ Called(p) /\ link[p] = <<>>
        /\ Record(Caller(p), c, <<>>) /\ at' = [at EXCEPT ![p] = "over"]
    BY DEF Finish, Called
  <2>2. p \in Specialists /\ Caller(p) = "api" /\ "api" \in Procs /\ p \in Procs /\ path # "hop"
    BY <1>2, <2>1, CalledOnce DEF HierInv, Foreign, Whole, Runtimes
  <2>3. /\ \A i \in DOMAIN col[Caller(p)].events : col[Caller(p)].events[i].id[1] \notin Of(p)
        /\ \E i \in DOMAIN col[Caller(p)].events : col[Caller(p)].events[i].id = wrapper[p]
        /\ StraightFirst(nested[p])
    BY <2>1, NotForeign DEF HierInv, SpanKept, Ordered
  <2>4. Spliced(p) \in SoundOf("api") /\ Adds("api", col["api"], Spliced(p), X)
    <3> HIDE DEF X, c
    <3>1. Spliced(p) \in SoundOf("api")
      BY <2>1, <2>2, SplicedSound
    <3>2. Adds(Caller(p), col[Caller(p)], Spliced(p), NestedIds(nested[p]))
      BY <2>1, <2>3, SplicedHangs
    <3> QED BY <2>2, <3>1, <3>2 DEF X
  <2>5. ASSUME NEW k \in Counted
        PROVE  Sums(k, col["api"], Spliced(p), Many(k, Events(p)) + One(k = "agentcore.invoke"))
    <3>1. Sums(k, col[Caller(p)], Spliced(p), Many(k, nested[p]) + One(k = "agentcore.invoke"))
      BY <2>1, <2>3, SplicedSums
    <3>2. nested[p] = Events(p)
      <4>1. Streams(at[p], Events(p), nested[p], <<>>)
        BY <1>2, <2>1, <2>2 DEF TallyInv, StreamOf
      <4>2. Events(p) \in Seq(EventsOf(p)) /\ nested[p] \in Seq(EventsOf(p))
        BY <2>2, StreamLengths
      <4> QED BY <4>1, <4>2, AllArrived
    <3> QED BY <2>2, <3>1, <3>2
  <2>6. c \in SoundOf("api") /\ Record("api", c, <<>>) /\ Adds("api", col["api"], c, X)
        /\ \A k \in Counted : Sums(k, col["api"], c, Many(k, Events(p)) + One(k = "agentcore.invoke"))
    BY <2>1, <2>2, <2>4, <2>5
  <2> HIDE DEF c, X
  <2>7. /\ link' = link /\ at'["api"] = at["api"] /\ at'[p] = "over"
        /\ \A q \in Procs \ {p} : at'[q] = at[q]
        /\ col'["api"] = c /\ \A q \in Specialists : Events(q)' = Events(q)
        /\ col["api"] \in SoundOf("api") /\ (Kept' => Kept) /\ (Events("api"))' = c.events
    BY <2>1, <2>2, <2>6, ApiRecords
  <2>8. Over' = Over \cup {p} /\ p \notin Over
    BY <2>1, <2>2, <2>7 DEF Over, Runtimes
  <2>9. IsFiniteSet(Over) /\ IsFiniteSet(Over \cup {p}) /\ Cardinality(Over \cup {p}) = Cardinality(Over) + 1
    BY <1>2, <2>8, FS_AddElement DEF TallyInv
  <2>10. ASSUME NEW k \in Counted
         PROVE  MadeOf(k) \in Nat /\ MadeOf(k)' = MadeOf(k) + One(k = "agentcore.invoke")
    <3>1. MadeOf(k) \in Nat
      BY <2>9, MadeNat DEF CountInv
    <3>2. CASE k = "agentcore.invoke"
      <4>1. MadeOf(k)' = Cardinality(Over \cup {p}) /\ MadeOf(k) = Cardinality(Over)
        BY <2>8, <3>2 DEF MadeOf
      <4> QED BY <2>9, <3>1, <3>2, <4>1 DEF One
    <3>3. CASE k # "agentcore.invoke"
      <4>1. MadeOf(k)' = MadeOf(k)
        BY <1>1, <2>10, <3>3 DEF MadeOf, Counted
      <4> QED BY <3>1, <3>3, <4>1 DEF One
    <3> QED BY <3>2, <3>3
  <2>11. ASSUME NEW q \in Runtimes PROVE ~Called(q)'
    <3>1. CASE q = p
      BY <2>7, <3>1 DEF Called
    <3>2. CASE q # p
      <4>1. ~Called(q)
        BY <2>1, <2>2, <3>2, CalledOnce
      <4> QED BY <2>7, <3>2, <4>1 DEF Called, Runtimes
    <3> QED BY <3>1, <3>2
  <2>12. ASSUME NEW k \in Counted PROVE TallyOf(k)'
    <3> DEFINE a == Counter(col["api"], k)
               b == Counter(c, k)
               x == Many(k, Events(p))
               y == Many(k, Events("api"))
               z == Many(k, c.events)
               h == One(k = "agentcore.invoke")
    <3>1. a \in Nat /\ x \in Nat /\ y \in Nat /\ z \in Nat /\ h \in Nat
      <4>1. /\ col["api"] \in Collectors("api") /\ c \in Collectors("api")
            /\ Events(p) \in Seq(EventsOf(p))
        BY <2>2, <2>6, <2>7, StreamLengths DEF SoundOf
      <4> QED BY <4>1, ManyOf, ManyNat DEF Events, One
    <3>2. z <= y + (x + h) /\ b = a + (x + h)
      <4>1. Sums(k, col["api"], c, x + h)
        BY <2>6
      <4> HIDE DEF x, h
      <4> QED BY <4>1 DEF Sums, Tells, Events
    <3>3. y <= a /\ Balances(k, a + x, MadeOf(k), Kept)
      BY <1>2, <2>1, <2>2, <2>12 DEF TallyInv, TallyOf
    <3>4. (Counter(col["api"], k))' = b /\ (Many(k, Events("api")))' = z
      BY <2>7
    <3>5. MadeOf(k) \in Nat /\ MadeOf(k)' = MadeOf(k) + h
      BY <2>10
    <3> HIDE DEF a, b, x, y, z, h
    <3>6. z <= b /\ b = (a + x) + h /\ b \in Nat /\ a + x \in Nat
      BY <3>1, <3>2, <3>3
    <3>7. b <= (a + x) + h
      BY <3>1, <3>6
    <3>8. Balances(k, b, MadeOf(k) + h, Kept')
      BY <2>7, <3>1, <3>3, <3>5, <3>6, <3>7, BalanceGrows
    <3>9. Balances(k, b, MadeOf(k)', Kept')
      BY <3>5, <3>8
    <3>10. Balances(k, Counter(col["api"], k), MadeOf(k), Kept)'
      BY <3>4, <3>9
    <3>11. \A s \in Specialists : ~Called(s)'
      BY <2>11, SpecialistFacts
    <3> QED BY <3>4, <3>6, <3>10, <3>11 DEF TallyOf
  <2>13. ASSUME NEW q \in Specialists PROVE StreamOf(q)'
    <3>1. StreamOf(q) /\ q \in Procs /\ (Events(q))' = Events(q) /\ nested' = nested
      BY <1>1, <1>2, <2>7 DEF TallyInv, Procs
    <3>2. Streams(at[q], Events(q), nested[q], link[q])
      BY <3>1 DEF StreamOf
    <3>3. CASE q = p
      <4>1. Streams("over", Events(q), nested[q], link[q])
        <5>1. "over" \notin {"idle", "fresh", "running"}
          OBVIOUS
        <5> QED BY <3>2, <5>1 DEF Streams
      <4> QED BY <2>7, <3>1, <3>3, <4>1 DEF StreamOf
    <3>4. CASE q # p
      <4>1. at'[q] = at[q]
        BY <2>7, <3>1, <3>4
      <4> QED BY <2>7, <3>1, <3>2, <4>1 DEF StreamOf
    <3> QED BY <3>3, <3>4
  <2>14. IsFiniteSet(Over)' /\ at'["api"] # "over"
    BY <1>2, <2>1, <2>7, <2>8, <2>9 DEF TallyInv
  <2> QED BY <2>12, <2>13, <2>14 DEF TallyInv
<1> QED BY <1>1, <1>2, WholeBefore DEF CountInv

LEMMA OrchestratedCounts ==
  ASSUME HierInv, CountInv, Orchestrated
  PROVE  CountInv'
<1>1. UNCHANGED <<path, made, breaks>> /\ at["orchestrator"] = "running" /\ "orchestrator" \in Runtimes
  BY DEF Orchestrated, Runtimes, Procs
<1>2. path = "hop"
  <2>1. "orchestrator" \notin Specialists
    BY RelayAssumption
  <2> QED BY <1>1, <2>1 DEF HierInv, Foreign
<1> QED BY <1>1, <1>2 DEF CountInv, Whole

LEMMA EndTurnCounts ==
  ASSUME RelayInv, CountInv, EndTurn
  PROVE  CountInv'
<1>1. /\ \A p \in Runtimes : at[p] \in {"idle", "over"} /\ p \in Procs /\ p # "api"
      /\ at' = [at EXCEPT !["api"] = "over"] /\ UNCHANGED <<path, col, link, nested, made, breaks>>
      /\ at \in [Procs -> {"idle", "fresh", "running", "closed", "broken", "over"}]
  BY DEF EndTurn, Runtimes, RelayInv, RelayTyped
<1>2. \A p \in Runtimes : at'[p] = at[p]
  BY <1>1
<1>3. \A p \in Runtimes : ~Called(p) /\ ~Called(p)'
  BY <1>1, <1>2 DEF Called
<1>4. \A s \in Specialists : s \in Runtimes /\ ~Called(s) /\ ~Called(s)'
  BY <1>3, SpecialistFacts
<1>5. ASSUME TallyInv, Whole PROVE TallyInv'
  <2>1. Over' = Over /\ (Kept' <=> Kept)
    BY <1>1, <1>2 DEF Over, Kept
  <2>2. ASSUME NEW k \in Counted PROVE TallyOf(k)'
    <3>1. MadeOf(k)' = MadeOf(k) /\ (Events("api"))' = Events("api")
      BY <1>1, <2>1 DEF MadeOf, Events
    <3>2. /\ Many(k, Events("api")) <= Counter(col["api"], k)
          /\ Balances(k, Counter(col["api"], k), MadeOf(k), Kept)
      BY <1>4, <1>5, <2>2 DEF TallyInv, TallyOf
    <3>3. (Many(k, Events("api")) <= Counter(col["api"], k))'
      BY <1>1, <3>1, <3>2
    <3>4. Balances(k, Counter(col["api"], k), MadeOf(k), Kept)'
      BY <1>1, <2>1, <3>1, <3>2 DEF Balances
    <3> QED BY <1>4, <3>3, <3>4 DEF TallyOf
  <2>3. ASSUME NEW s \in Specialists PROVE StreamOf(s)'
    <3>1. StreamOf(s) /\ at'[s] = at[s] /\ (Events(s))' = Events(s)
      BY <1>1, <1>2, <1>4, <1>5 DEF TallyInv, Events
    <3> QED BY <1>1, <3>1 DEF StreamOf
  <2> QED BY <1>3, <1>5, <2>1, <2>2, <2>3 DEF TallyInv
<1> QED BY <1>1, <1>5, WholeBefore DEF CountInv

LEMMA InitCounts == RelayInit => CountInv
<1> SUFFICES ASSUME RelayInit PROVE CountInv
  OBVIOUS
<1>1. /\ \A p \in Procs : at[p] = IF p = "api" THEN "running" ELSE "idle"
      /\ \A p \in Runtimes : link[p] = <<>> /\ nested[p] = <<>> /\ p \in Procs /\ p # "api"
      /\ made = [tools |-> 0, mcp |-> 0] /\ breaks = 0 /\ "api" \in Procs
  BY DEF RelayInit, Runtimes, Procs
<1>2. \A p \in Procs : col[p].events = <<>> /\ col[p].tools = 0 /\ col[p].mcp = 0 /\ col[p].hops = 0
  BY DEF RelayInit, NewCollector
<1>3. Over = {} /\ IsFiniteSet(Over) /\ Cardinality(Over) = 0
  <2>1. Over = {}
    BY <1>1 DEF Over
  <2> QED BY <2>1, FS_EmptySet
<1>4. \A s \in Specialists : s \in Runtimes
  BY RelayAssumption DEF Runtimes, Procs
<1>5. \A p \in Runtimes : ~Called(p)
  BY <1>1 DEF Called
<1>6. ASSUME NEW k \in Counted PROVE TallyOf(k)
  <2>1. Many(k, Events("api")) = 0
    <3>1. <<>> \in Seq(Nat) /\ Events("api") = <<>>
      BY <1>1, <1>2 DEF Events
    <3> QED BY <3>1, ManyNat
  <2>2. Counter(col["api"], k) = 0 /\ MadeOf(k) = 0
    BY <1>1, <1>2, <1>3 DEF Counter, MadeOf
  <2>3. Balances(k, 0, 0, Kept)
    BY DEF Balances
  <2> QED BY <1>4, <1>5, <2>1, <2>2, <2>3 DEF TallyOf
<1>7. ASSUME NEW s \in Specialists PROVE StreamOf(s)
  <2>1. Events(s) = <<>> /\ link[s] = <<>> /\ nested[s] = <<>>
    BY <1>1, <1>2, <1>4 DEF Events
  <2>2. Streams(at[s], <<>>, <<>>, <<>>)
    BY DEF Streams
  <2> QED BY <2>1, <2>2 DEF StreamOf
<1> QED BY <1>1, <1>3, <1>5, <1>6, <1>7 DEF CountInv, TallyInv

LEMMA NextCounts == RelayInv /\ HierInv /\ CountInv /\ [RelayNext]_relayVars => CountInv'
<1> SUFFICES ASSUME RelayInv, HierInv, CountInv, [RelayNext]_relayVars PROVE CountInv'
  OBVIOUS
<1>1. CASE \E s \in Specialists :
             \/ \E size \in {1, MaxEventBytes + 1} : Answering(s, size)
             \/ CallTool(s) \/ CallMcp(s)
             \/ \E id \in open[s], ok \in BOOLEAN : ToolReturned(s, id, ok)
             \/ \E ok \in BOOLEAN : Answered(s, ok)
  BY <1>1, AnsweringCounts, CallToolCounts, CallMcpCounts, ToolReturnedCounts, AnsweredCounts
<1>2. CASE \E p \in Runtimes : Invoke(p) \/ Receive(p) \/ Break(p) \/ Finish(p)
  BY <1>2, InvokeCounts, ReceiveCounts, BreakCounts, FinishCounts
<1>3. CASE Orchestrated
  BY <1>3, OrchestratedCounts
<1>4. CASE EndTurn
  BY <1>4, EndTurnCounts
<1>5. CASE UNCHANGED relayVars
  <2>1. UNCHANGED <<path, col, at, link, nested, made, breaks>>
    BY <1>5 DEF relayVars
  <2>2. ASSUME TallyInv, NEW s \in Specialists PROVE StreamOf(s)'
    <3>1. StreamOf(s) /\ (Events(s))' = Events(s)
      BY <2>1, <2>2 DEF TallyInv, Events
    <3> QED BY <2>1, <3>1 DEF StreamOf
  <2>3. TallyInv => TallyInv'
    BY <2>1, <2>2, TallyKept
  <2> QED BY <2>1, <2>3, WholeBefore DEF CountInv
<1> QED BY <1>1, <1>2, <1>3, <1>4, <1>5 DEF RelayNext

(* Whatever the caps dropped anywhere: a turn whose streams are whole, and *)
(* that has no runtime between the API and the specialists, counts every   *)
(* tool call that ended and every hop once, and no MCP call twice.         *)
THEOREM CallsCounted == RelaySpec => []CountedWithoutHop
<1>1. RelayInv /\ CountInv => CountedWithoutHop
  <2> SUFFICES ASSUME RelayInv, CountInv, path # "hop", at["api"] = "over", breaks = 0
               PROVE  /\ toolCalls(col["api"]) = made.tools
                      /\ agentcoreHops(col["api"]) = Cardinality({p \in Runtimes : at[p] = "over"})
                      /\ mcpCalls(col["api"]) <= made.mcp
                      /\ (\A p \in Procs : col[p].dropped = 0) => mcpCalls(col["api"]) = made.mcp
    BY DEF CountedWithoutHop
  <2> DEFINE c == col["api"]
  <2>1. TallyInv /\ \A s \in Specialists : ~Called(s)
    BY SpecialistFacts DEF CountInv, Whole, TallyInv
  <2>2. ASSUME NEW k \in Counted
        PROVE  /\ Many(k, c.events) <= Counter(c, k) /\ Balances(k, Counter(c, k), MadeOf(k), Kept)
               /\ Many(k, c.events) \in Nat /\ Counter(c, k) \in Nat
    <3>1. c \in Collectors("api")
      BY DEF RelayInv, RelayTyped, SoundOf, Procs
    <3> HIDE DEF c
    <3>2. Many(k, c.events) \in Nat /\ Counter(c, k) \in Nat
      BY <3>1, ManyOf
    <3> QED BY <2>1, <2>2, <3>2 DEF TallyInv, TallyOf, Events, c
  <2>3. ASSUME NEW k \in Counted PROVE AtLeast(Counter(c, k), Many(k, c.events)) = Counter(c, k)
    BY <2>2, <2>3 DEF AtLeast
  <2> HIDE DEF c
  <2>4. /\ toolCalls(c) = AtLeast(Counter(c, "tool.call"), Many("tool.call", c.events))
        /\ agentcoreHops(c) = AtLeast(Counter(c, "agentcore.invoke"), Many("agentcore.invoke", c.events))
        /\ mcpCalls(c) = AtLeast(Counter(c, "tool.mcp"), Many("tool.mcp", c.events))
    BY DEF toolCalls, agentcoreHops, mcpCalls, HowMany, Counter, Many, Tallies, Tallied
  <2>5. {"tool.call", "agentcore.invoke", "tool.mcp"} \subseteq Counted
    BY DEF Counted
  <2>6. /\ toolCalls(c) = Counter(c, "tool.call") /\ mcpCalls(c) = Counter(c, "tool.mcp")
        /\ agentcoreHops(c) = Counter(c, "agentcore.invoke")
    BY <2>3, <2>4, <2>5
  <2>7. /\ MadeOf("tool.call") = made.tools /\ MadeOf("tool.mcp") = made.mcp
        /\ MadeOf("agentcore.invoke") = Cardinality({p \in Runtimes : at[p] = "over"})
    BY DEF MadeOf, Over
  <2>8. /\ toolCalls(c) = made.tools
        /\ agentcoreHops(c) = Cardinality({p \in Runtimes : at[p] = "over"})
        /\ mcpCalls(c) <= made.mcp /\ (Kept => mcpCalls(c) = made.mcp)
    BY <2>2, <2>5, <2>6, <2>7 DEF Balances
  <2> QED BY <2>8 DEF Kept, c
<1> QED BY <1>1, InitRelay, InitHier, InitCounts, NextRelay, NextHier, NextCounts, PTL DEF RelaySpec
================================================================================

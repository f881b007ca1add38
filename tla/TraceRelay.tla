------------------------------ MODULE TraceRelay ------------------------------
(***************************************************************************)
(* How the trace of a turn is put together: every runtime records its own  *)
(* (agent-runtime-code.ts, lib/run-chat-stream.ts) and streams each event  *)
(* to its caller, which splices them when the stream is over               *)
(* (lib/multi-specialist-orchestrator.ts, routes/chat.ts).  A turn takes   *)
(* one of three paths:                                                     *)
(*   flow    the API runs the specialists one after the other;             *)
(*   direct  the API invokes one specialist the client asked for;          *)
(*   hop     the API invokes the orchestrator's runtime                    *)
(*           (USE_ORCHESTRATOR_RUNTIME=1), which runs the specialists.     *)
(***************************************************************************)
EXTENDS TraceCollector

CONSTANTS
  Specialists,
  Paths,
  MaxCalls,     \* bound: the tool and MCP calls of a turn
  MaxInFlight,  \* bound: the frames on their way while it records
  MaxBreaks     \* bound: streams that break off

Procs == Specialists \cup {"api", "orchestrator"}
Runtimes == Procs \ {"api"}

ASSUME RelayAssumption ==
  /\ Paths \subseteq {"flow", "direct", "hop"}
  /\ MaxCalls \in Nat /\ MaxInFlight \in Nat /\ MaxBreaks \in Nat
  /\ {"api", "orchestrator"} \cap Specialists = {}
  /\ NoId \notin Procs \X Nat

VARIABLES
  path,
  col,      \* col[p]: the collector of process p
  at,       \* at[p]: where the invocation of p is
  wrapper,  \* wrapper[p]: the span of that invocation in its caller's trace
  link,     \* link[p]: the frames on their way from p to its caller
  nested,   \* nested[p]: the events of p that its caller has received
  lost,     \* lost[p]: nestedEventsDropped of p's done frame
  open,     \* open[p]: the tool spans p has to end
  made,     \* history: the tool calls that ended and the MCP calls made
  breaks    \* streams that have broken off

relayVars == <<path, col, at, wrapper, link, nested, lost, open, made, breaks>>

RelayInit ==
  /\ path \in Paths
  /\ \E max \in TurnCaps : col = [p \in Procs |-> NewCollector(p, max)]
  /\ at = [p \in Procs |-> IF p = "api" THEN "running" ELSE "idle"]
  /\ wrapper = [p \in Runtimes |-> NoId]
  /\ link = [p \in Runtimes |-> <<>>]
  /\ nested = [p \in Runtimes |-> <<>>]
  /\ lost = [p \in Runtimes |-> 0]
  /\ open = [p \in Specialists |-> {}]
  /\ made = [tools |-> 0, mcp |-> 0]
  /\ breaks = 0

Caller(p) == IF path = "hop" /\ p \in Specialists THEN "orchestrator" ELSE "api"

(* The listener of a runtime writes each event that is recorded. *)
Frames(events) == [i \in DOMAIN events |-> [type |-> "trace", ev |-> events[i]]]
DoneFrame(c) == [type |-> "done", lost |-> c.dropped]
Recorded(old, new) == SubSeq(new.events, Len(old.events) + 1, Len(new.events))

(* Process p records: its collector becomes c, and its caller is told. *)
Record(p, c, more) ==
  /\ col' = [col EXCEPT ![p] = c]
  /\ link' = IF p = "api" THEN link
             ELSE [link EXCEPT ![p] = @ \o Frames(Recorded(col[p], c)) \o more]

-----------------------------------------------------------------------------
(* A specialist: one span for the model, in it calls of tools, which may   *)
(* overlap, and of MCP.                                                    *)

Recording(s) == at[s] = "running" /\ \A p \in Runtimes : Len(link[p]) < MaxInFlight
Free(s) ==
  /\ Recording(s)
  /\ made.tools + made.mcp + Cardinality(UNION {open[q] : q \in Specialists}) < MaxCalls

Answering(s, size) ==
  /\ at[s] = "fresh"
  /\ Record(s, start(col[s], "model.request", size), <<>>)
  /\ at' = [at EXCEPT ![s] = "running"]
  /\ UNCHANGED <<path, wrapper, nested, lost, open, made, breaks>>

CallTool(s) ==
  /\ Free(s)
  /\ Record(s, start(col[s], "tool.call", 1), <<>>)
  /\ open' = [open EXCEPT ![s] = @ \cup {NewId(col[s])}]
  /\ UNCHANGED <<path, at, wrapper, nested, lost, made, breaks>>

CallMcp(s) ==
  /\ Free(s)
  /\ Record(s, event(col[s], "tool.mcp", 1), <<>>)
  /\ made' = [made EXCEPT !.mcp = @ + 1]
  /\ UNCHANGED <<path, at, wrapper, nested, lost, open, breaks>>

ToolReturned(s, id, ok) ==
  /\ Recording(s) /\ id \in open[s]
  /\ LET told == IF ok THEN col[s] ELSE event(col[s], "error", 1)
     IN Record(s, end(told, id, "tool.call", 1), <<>>)
  /\ open' = [open EXCEPT ![s] = @ \ {id}]
  /\ made' = [made EXCEPT !.tools = @ + 1]
  /\ UNCHANGED <<path, at, wrapper, nested, lost, breaks>>

(* The model's span is ended only if its stream did not fail. *)
Answered(s, ok) ==
  /\ Recording(s) /\ (ok => open[s] = {})
  /\ LET c == IF ok THEN end(col[s], <<s, 1>>, "model.request", 1) ELSE col[s]
     IN Record(s, c, <<DoneFrame(c)>>)
  /\ at' = [at EXCEPT ![s] = "closed"]
  /\ UNCHANGED <<path, wrapper, nested, lost, open, made, breaks>>

-----------------------------------------------------------------------------
(* The caller of a runtime. *)

(* One invocation at a time; a direct turn has one, and a hop asks the     *)
(* orchestrator first.                                                     *)
Invoke(p) ==
  /\ at[p] = "idle" /\ at[Caller(p)] = "running"
  /\ \A q \in Runtimes : Caller(q) = Caller(p) => at[q] \in {"idle", "over"}
  /\ path # "hop" => p \in Specialists
  /\ path = "direct" => \A q \in Specialists : at[q] = "idle"
  /\ Record(Caller(p), start(col[Caller(p)], "agentcore.invoke", 1), <<>>)
  /\ wrapper' = [wrapper EXCEPT ![p] = NewId(col[Caller(p)])]
  /\ at' = [at EXCEPT ![p] = IF p = "orchestrator" THEN "running" ELSE "fresh"]
  /\ UNCHANGED <<path, nested, lost, open, made, breaks>>

(* The orchestrator's runtime passes a specialist's event on as it comes. *)
Forward(p, frame) ==
  link' = IF Caller(p) = "orchestrator"
          THEN [link EXCEPT ![p] = Tail(@), !["orchestrator"] = Append(@, frame)]
          ELSE [link EXCEPT ![p] = Tail(@)]

Receive(p) ==
  /\ link[p] # <<>>
  /\ LET frame == Head(link[p])
     IN IF frame.type = "trace"
        THEN /\ nested' = [nested EXCEPT ![p] = Append(@, frame.ev)]
             /\ Forward(p, frame)
             /\ UNCHANGED lost
        ELSE /\ lost' = [lost EXCEPT ![p] = frame.lost]
             /\ link' = [link EXCEPT ![p] = Tail(@)]
             /\ UNCHANGED nested
  /\ UNCHANGED <<path, col, at, wrapper, open, made, breaks>>

(* A runtime dies, or its connection does; some of its frames arrive, and  *)
(* the caller sees a stream that ends, or an exception.                    *)
Break(p) ==
  /\ at[p] \in {"fresh", "running", "closed"} /\ breaks < MaxBreaks
  /\ \A q \in Specialists : Caller(q) = p => at[q] \in {"idle", "over"}
  /\ \E k \in 0..Len(link[p]) : link' = [link EXCEPT ![p] = SubSeq(@, 1, k)]
  /\ \E seen \in {"closed", "broken"} : at' = [at EXCEPT ![p] = seen]
  /\ breaks' = breaks + 1
  /\ UNCHANGED <<path, col, wrapper, nested, lost, open, made>>

(* The stream is over: the span of the invocation is ended, the events are *)
(* spliced, and a note says so.  A flow records no exception and does not  *)
(* pass on what the runtime dropped.                                       *)
Spliced(p) ==
  LET ended == end(col[Caller(p)], wrapper[p], "agentcore.invoke", 1)
      flow == path = "flow" \/ Caller(p) = "orchestrator"
      told == IF at[p] = "broken" /\ ~flow THEN event(ended, "error", 1) ELSE ended
      whole == attachEventsNested(told, nested[p], wrapper[p], IF flow THEN 0 ELSE lost[p])
  IN IF flow THEN event(whole, "orchestrator.specialist_draft", 1)
     ELSE IF nested[p] = <<>> THEN whole ELSE event(whole, "agentcore.nested_trace", 1)

Finish(p) ==
  /\ at[p] \in {"closed", "broken"} /\ link[p] = <<>>
  /\ Record(Caller(p), Spliced(p), <<>>)
  /\ at' = [at EXCEPT ![p] = "over"]
  /\ UNCHANGED <<path, wrapper, nested, lost, open, made, breaks>>

(* The orchestrator's runtime has run the specialists that were selected. *)
Orchestrated ==
  /\ at["orchestrator"] = "running"
  /\ \E s \in Specialists : at[s] = "over"
  /\ \A s \in Specialists : at[s] \in {"idle", "over"}
  /\ Record("orchestrator", col["orchestrator"], <<DoneFrame(col["orchestrator"])>>)
  /\ at' = [at EXCEPT !["orchestrator"] = "closed"]
  /\ UNCHANGED <<path, wrapper, nested, lost, open, made, breaks>>

(* The turn ends when the runtimes it invoked are over. *)
EndTurn ==
  /\ at["api"] = "running"
  /\ \E p \in Runtimes : Caller(p) = "api" /\ at[p] = "over"
  /\ \A p \in Runtimes : at[p] \in {"idle", "over"}
  /\ at' = [at EXCEPT !["api"] = "over"]
  /\ UNCHANGED <<path, col, wrapper, link, nested, lost, open, made, breaks>>

RelayNext ==
  \/ \E s \in Specialists :
       \/ \E size \in {1, MaxEventBytes + 1} : Answering(s, size)
       \/ CallTool(s) \/ CallMcp(s)
       \/ \E id \in open[s], ok \in BOOLEAN : ToolReturned(s, id, ok)
       \/ \E ok \in BOOLEAN : Answered(s, ok)
  \/ \E p \in Runtimes : Invoke(p) \/ Receive(p) \/ Break(p) \/ Finish(p)
  \/ Orchestrated
  \/ EndTurn

RelaySpec == RelayInit /\ [][RelayNext]_relayVars
-----------------------------------------------------------------------------
(* Properties *)

Events(p) == col[p].events

(* Tool calls that overlap end in any order, and still no event is filed   *)
(* under a span of its process that has ended before.                      *)
NotUnderEnded ==
  \A p \in Procs : \A i, j \in DOMAIN Events(p) :
    /\ i < j /\ Events(p)[i].half = "end"
    /\ Events(p)[j].id[1] = p /\ Events(p)[i].id[1] = p
    => Events(p)[j].parent # Events(p)[i].parent

(* "the persisted Trace document is one merged hierarchy": where a process *)
(* dropped nothing itself, every event it spliced hangs, through events it *)
(* has, under the span of the invocation that sent it - although the       *)
(* runtime dropped spans, a stream broke off, or an event came twice.      *)
OneHierarchy ==
  \A p \in Runtimes : at[p] = "over" /\ col[Caller(p)].dropped = 0 =>
    \A i \in DOMAIN nested[p] : wrapper[p] \in Above(col[Caller(p)], nested[p][i].id)

(* Whatever the caps dropped anywhere, the summary of a turn counts every  *)
(* tool call that ended and every hop, once; MCP calls are never counted   *)
(* twice, and all of them are counted if nothing was dropped.  Not with    *)
(* the orchestrator's runtime in between: it forwards a specialist's event *)
(* and streams it again when it has spliced it, and both are counted.      *)
CountedWithoutHop ==
  path # "hop" /\ at["api"] = "over" /\ breaks = 0 =>
    /\ toolCalls(col["api"]) = made.tools
    /\ agentcoreHops(col["api"]) = Cardinality({p \in Runtimes : at[p] = "over"})
    /\ mcpCalls(col["api"]) <= made.mcp
    /\ (\A p \in Procs : col[p].dropped = 0) => mcpCalls(col["api"]) = made.mcp
==============================================================================

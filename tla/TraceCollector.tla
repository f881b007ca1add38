---------------------------- MODULE TraceCollector ----------------------------
(***************************************************************************)
(* The collector of one process's trace of one turn                        *)
(* (lib/trace-collector.ts), as a record, and what its methods make of it: *)
(* spans on a shared stack, byte caps, the splice of a runtime's events    *)
(* under the span of its invocation, and the summary.                      *)
(*                                                                         *)
(* An event's payload is its size; an oversized payload is one that        *)
(* shrinkPayload can trim.  Time stamps, redaction, metrics and OTel spans *)
(* are left out.                                                           *)
(***************************************************************************)
EXTENDS Integers, Sequences, FiniteSets, SequencesExt

CONSTANTS
  NoId,           \* the parent of a root event
  MaxEventBytes,  \* TRACE_MAX_EVENT_BYTES
  TurnCaps,       \* what TRACE_MAX_TURN_BYTES may be
  MaxCapHits      \* MAX_BYTE_CAP_HIT_EMISSIONS

ASSUME CollectorAssumption ==
  MaxEventBytes \in Nat \ {0} /\ TurnCaps \subseteq Nat \ {0} /\ MaxCapHits \in Nat

SpanKinds == {"agentcore.invoke", "model.request", "tool.call"}
Kinds == SpanKinds \cup {"tool.mcp", "error", "orchestrator.specialist_draft",
                         "agentcore.nested_trace", "dev.byte_cap_hit"}
PROTECTED_TYPES == {"agentcore.invoke", "tool.call", "error", "agentcore.nested_trace"}

(* A collector names its events <<name, n>>.  stack holds the open spans;  *)
(* tools, mcp and hops are its running counters.                           *)
NewCollector(name, maxTurnBytes) ==
  [name |-> name, maxTurnBytes |-> maxTurnBytes, next |-> 1, 
   events |-> <<>>, stack |-> <<>>, bytes |-> 0, dropped |-> 0, capHits |-> 0,
   nestedDropped |-> 0, tools |-> 0, mcp |-> 0, hops |-> 0]

currentSpanId(c) == IF c.stack = <<>> THEN NoId ELSE Last(c.stack)
NewId(c) == <<c.name, c.next>>
Event(id, parent, kind, half, size) ==
  [id |-> id, parent |-> parent, kind |-> kind, half |-> half, size |-> size]

Keep(c, ev) == [c EXCEPT !.events = Append(@, ev), !.bytes = @ + ev.size]

(* The mark itself is not capped, only counted. *)
emitByteCapHit(c, ev) ==
  IF ev.kind = "dev.byte_cap_hit" \/ c.capHits >= MaxCapHits THEN c
  ELSE Keep([c EXCEPT !.capHits = @ + 1, !.next = @ + 1],
            Event(NewId(c), currentSpanId(c), "dev.byte_cap_hit", "one", 1))

shrinkPayload(ev) == [ev EXCEPT !.size = 1]

emitMutant(c, raw) ==   \* the cap spares nothing
  LET oversize == raw.size > MaxEventBytes
      ev == IF oversize THEN shrinkPayload(raw) ELSE raw
      marked == IF oversize THEN emitByteCapHit(c, ev) ELSE c
  IN IF marked.bytes + ev.size > marked.maxTurnBytes
     THEN emitByteCapHit([marked EXCEPT !.dropped = @ + 1], ev)
     ELSE Keep(marked, ev)

emit(c, raw) ==
  LET oversize == raw.size > MaxEventBytes
      ev == IF oversize THEN shrinkPayload(raw) ELSE raw
      marked == IF oversize THEN emitByteCapHit(c, ev) ELSE c
  IN IF ev.kind \notin PROTECTED_TYPES /\ marked.bytes + ev.size > marked.maxTurnBytes
     THEN emitByteCapHit([marked EXCEPT !.dropped = @ + 1], ev)
     ELSE Keep(marked, ev)

-----------------------------------------------------------------------------
(* A span is on the stack whether or not its start event was kept. *)
start(c, kind, size) ==
  emit([c EXCEPT !.next = @ + 1, !.stack = Append(@, NewId(c))],
       Event(NewId(c), currentSpanId(c), kind, "start", size))

event(c, kind, size) ==
  emit([c EXCEPT !.next = @ + 1], Event(NewId(c), currentSpanId(c), kind, "one", size))

Count(c, kind) ==
  [c EXCEPT !.tools = IF kind = "tool.call" THEN @ + 1 ELSE @,
            !.hops = IF kind = "agentcore.invoke" THEN @ + 1 ELSE @]

endMutant(c, id, kind, size) ==   \* whatever span is on top is popped
  emit([Count(c, kind) EXCEPT !.next = @ + 1,
          !.stack = IF @ = <<>> THEN @ ELSE Front(@)],
       Event(NewId(c), id, kind, "end", size))

(* The span may not be on top: its end event is its child all the same. *)
Popped(stack, id) ==
  LET places == {i \in DOMAIN stack : stack[i] = id}
  IN IF places = {} THEN stack ELSE RemoveAt(stack, Max(places))

end(c, id, kind, size) ==
  emit([Count(c, kind) EXCEPT !.next = @ + 1, !.stack = Popped(@, id)],
       Event(NewId(c), id, kind, "end", size))

-----------------------------------------------------------------------------
(* attachEventsNested: the events of a runtime's trace become events of    *)
(* the collector.  Its roots, the children of its first root and those     *)
(* whose parent is not among them are put under the wrapper.               *)
NestedRoot(nested) == SelectInSeq(nested, LAMBDA ev : ev.parent = NoId)
NestedIds(nested) == {nested[i].id : i \in DOMAIN nested}

RewireMutant(ev, nested, wrapper) ==   \* an orphan keeps its parent
  IF ev.parent = NoId \/ (NestedRoot(nested) > 0 /\ ev.parent = nested[NestedRoot(nested)].id)
  THEN [ev EXCEPT !.parent = wrapper] ELSE ev

Rewire(ev, nested, wrapper) ==
  IF \/ ev.parent = NoId
     \/ NestedRoot(nested) > 0 /\ ev.parent = nested[NestedRoot(nested)].id
     \/ ev.parent \notin NestedIds(nested)
  THEN [ev EXCEPT !.parent = wrapper] ELSE ev

(* A nested event counts whether or not it is kept. *)
CountNested(c, ev) ==
  LET ended == IF ev.half = "end" THEN Count(c, ev.kind) ELSE c
  IN [ended EXCEPT !.mcp = IF ev.kind = "tool.mcp" THEN @ + 1 ELSE @]

Splice(c, ev, nested, wrapper) == CountNested(emit(c, Rewire(ev, nested, wrapper)), ev)

attachEventsNested(c, nested, wrapper, lost) ==
  IF nested = <<>> \/ \A i \in DOMAIN c.events : c.events[i].id # wrapper THEN c
  ELSE LET spliced[n \in 0..Len(nested)] ==
             IF n = 0 THEN c ELSE Splice(spliced[n - 1], nested[n], nested, wrapper)
       IN [spliced[Len(nested)] EXCEPT !.nestedDropped = @ + lost]

-----------------------------------------------------------------------------
(* summary() and buildSpanTree() *)
HowMany(c, Is(_)) == Cardinality({i \in DOMAIN c.events : Is(c.events[i])})
AtLeast(m, n) == IF m > n THEN m ELSE n

toolCalls(c) == AtLeast(c.tools, HowMany(c, LAMBDA ev : ev.kind = "tool.call" /\ ev.half = "end"))
mcpCalls(c) == AtLeast(c.mcp, HowMany(c, LAMBDA ev : ev.kind = "tool.mcp"))
agentcoreHops(c) ==
  AtLeast(c.hops, HowMany(c, LAMBDA ev : ev.kind = "agentcore.invoke" /\ ev.half = "end"))

(* The node of an id is made for the first event that has it, and hangs    *)
(* under the node of that event's parent, if there is one.                 *)
Node(c, id) == c.events[SelectInSeq(c.events, LAMBDA ev : ev.id = id)]
Nodes(c) == {c.events[i].id : i \in DOMAIN c.events}

(* The ids above an id in the tree, itself included. *)
Above(c, id) ==
  LET up[n \in 0..Len(c.events)] ==
        IF n = 0 THEN {id}
        ELSE up[n - 1] \cup {Node(c, x).parent : x \in up[n - 1] \cap Nodes(c)}
  IN up[Len(c.events)]
===============================================================================

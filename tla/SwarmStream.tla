------------------------------ MODULE SwarmStream ------------------------------
(***************************************************************************)
(* One turn answered by the swarm (lib/swarm-chat-stream.ts): the agents   *)
(* hand over to each other, and what they stream is filtered before the    *)
(* client sees it.  The model writes its reasoning between tags, may cut a *)
(* tag in two, and may give its answer as text, as the message of the tool *)
(* strands_structured_output, or as both.                                  *)
(*                                                                         *)
(* The SDK's swarm and the model are external: the model says any of the   *)
(* texts in chunks of any size, and any agent may be entered next.         *)
(*                                                                         *)
(* A text is a sequence of symbols: "<" begins every tag, the rest of a    *)
(* tag is a symbol of its own, "w" is a word meant for the user and "h" a  *)
(* word of reasoning.  Wording is left out.                                *)
(***************************************************************************)
EXTENDS HandoffAttribution

CONSTANTS
  Specialists, NoAgent,
  Loadable,        \* which sets of agents may load
  Texts,           \* what the model may say in a node
  Messages,        \* what it may put into strands_structured_output
  UserWords,       \* the user's message
  MaxSteps,        \* SWARM_MAX_STEPS
  MaxReasoning,    \* how much of what an agent says is kept: 4096 in the code
  MaxCalls         \* bound: MaxCalls[n], the tool calls of agent n in one node

Orchestrator == "orchestrator"
Agents == Specialists \cup {Orchestrator}
Tools == {"strands_structured_output", "other"}
Symbols == {"<", "thinking>", "/thinking>", "output>", "/output>", "response>", "/response>", "w", "h"}

ASSUME SwarmAssumption ==
  /\ Orchestrator \notin Specialists /\ NoAgent \notin Agents
  /\ Loadable \subseteq SUBSET Agents
  /\ Texts \subseteq Seq(Symbols) /\ Messages \subseteq Seq(Symbols)
  /\ MaxSteps \in 1..12 /\ MaxReasoning \in Nat \ {0} /\ MaxCalls \in [Agents -> Nat]
  /\ Agents \subseteq DOMAIN Handoffs

VARIABLES
  nodes,           \* the agents that loaded
  at,              \* "starting", "between", "running" or "ended"
  node,            \* currentNodeId
  steps,           \* nodes entered so far
  left,            \* what the model has still to say in this node
  calls,           \* tool calls it may still make
  tool,            \* the tool that is running, or "none"
  filter,          \* currentBlockClose, blockBuffer and prefixBuffer
  hasYieldedContent, hasYieldedFromStructuredOutput, suppressTokens,
  invocations,     \* orchestratorInvocations
  suppressed,      \* suppressOrchestratorEvents
  specialistHasRun,
  reasoning,       \* perNodeReasoning
  active,          \* the agents announced by agent_active
  decision,        \* the last handoff.decision, or NoDecision
  error,           \* the code of stream_error, or "none"
  shown,           \* history: the words of reasoning that were streamed
  lost,            \* history: the filter kept back a word for the user
  told,            \* history: how this node answered: "text" and "message"
  spoken,          \* history: what this node has said
  cut, open        \* history: a tag was cut behind a stripped one; a node left something in the filter

NoDecision == [from |-> NoAgent]
stream == <<filter, hasYieldedContent, hasYieldedFromStructuredOutput, suppressTokens,
            shown, lost, told, cut>>
routing == <<nodes, steps, invocations, suppressed, specialistHasRun, active, decision, error, open>>
vars == <<at, node, left, calls, tool, reasoning, spoken, stream, routing>>

-----------------------------------------------------------------------------
(* filterTokens.  It gives what may be shown and its buffers afterwards.   *)

Thinking == [open |-> <<"<", "thinking>">>, close |-> <<"<", "/thinking>">>]
Output == [open |-> <<"<", "output>">>, close |-> <<"<", "/output>">>]
FilteredBlocks == {Thinking, Output}
StripTags == {<<"<", "response>">>, <<"<", "/response>">>}

At(text, tag) == {i \in 1..Len(text) - 1 : SubSeq(text, i, i + 1) = tag}
From(text, i) == SubSeq(text, i, Len(text))
Least(S) == CHOOSE i \in S : \A j \in S : i <= j
Empty == [close |-> <<>>, block |-> <<>>, prefix |-> <<>>]
Passes(text, buffers) == [visible |-> text, buffers |-> buffers]

Stripped(text) ==
  LET gone == UNION {{i, i + 1} : i \in UNION {At(text, tag) : tag \in StripTags}}
  IN FoldLeftDomain(LAMBDA acc, i : IF i \in gone THEN acc ELSE Append(acc, text[i]), <<>>, text)

EndsInTagMutant(text) == FALSE       \* forgets that a tag may be cut in two
EndsInTag(text) == Last(text) = "<"

Behind(text, close) == From(text, Least(At(text, close)) + 2)

(* Outside of a block: what comes before the first is let through, and     *)
(* what comes behind it, once it is closed, is filtered in turn.           *)
Unblocked[input \in Seq(Symbols)] ==
  LET opened == UNION {At(input, b.open) : b \in FilteredBlocks}
      first == Least(opened)
      matched == CHOOSE b \in FilteredBlocks : first \in At(input, b.open)
      before == SubSeq(input, 1, first - 1)
      block == From(input, first)
  IN CASE input = <<>> -> Passes(<<>>, Empty)
       [] opened # {} ->
            IF At(block, matched.close) = {}
            THEN Passes(before, [close |-> matched.close, block |-> block, prefix |-> <<>>])
            ELSE LET rest == Unblocked[Behind(block, matched.close)]
                 IN Passes(before \o rest.visible, rest.buffers)
       [] OTHER ->
            IF Stripped(input) # input THEN Passes(Stripped(input), Empty)
            ELSE IF EndsInTag(input)
                 THEN Passes(Front(input), [Empty EXCEPT !.prefix = <<"<">>])
                 ELSE Passes(input, Empty)

filterTokens(raw, buffers) ==
  LET input == buffers.prefix \o raw
      block == buffers.block \o input
  IN CASE raw = <<>> -> Passes(<<>>, buffers)
       [] raw # <<>> /\ buffers.close = <<>> -> Unblocked[input]
       [] OTHER ->
            IF At(block, buffers.close) = {}
            THEN Passes(<<>>, [buffers EXCEPT !.block = block, !.prefix = <<>>])
            ELSE Unblocked[Behind(block, buffers.close)]

(* stripInternalBlocks, of a complete text.  A block that is not closed is *)
(* not matched, and stays.                                                 *)
Cleared[block \in FilteredBlocks, text \in Seq(Symbols)] ==
  LET closed == {i \in At(text, block.open) : At(From(text, i), block.close) # {}}
      first == Least(closed)
  IN IF closed = {} THEN text
     ELSE SubSeq(text, 1, first - 1) \o Cleared[block, Behind(From(text, first), block.close)]

stripInternalBlocks(text) == Stripped(Cleared[Output, Cleared[Thinking, text]])

(* A tag begun at the end of a chunk that held a whole wrapper tag: the    *)
(* strip returns before the end of the chunk is looked at.                 *)
Cuts(raw, buffers) ==
  LET visible == filterTokens(raw, buffers).visible
  IN /\ \E tag \in StripTags : At(buffers.prefix \o raw, tag) # {}
     /\ visible # <<>> /\ Last(visible) = "<"

-----------------------------------------------------------------------------
Init ==
  /\ nodes \in Loadable
  /\ at = "starting" /\ node = NoAgent /\ steps = 0 /\ left = <<>> /\ calls = 0 /\ tool = "none"
  /\ filter = Empty
  /\ hasYieldedContent = FALSE /\ hasYieldedFromStructuredOutput = FALSE /\ suppressTokens = FALSE
  /\ invocations = 0 /\ suppressed = FALSE /\ specialistHasRun = FALSE
  /\ reasoning = [n \in Agents |-> <<>>]
  /\ active = <<>> /\ decision = NoDecision /\ error = "none"
  /\ shown = {} /\ lost = FALSE /\ told = {} /\ spoken = <<>>
  /\ cut = FALSE /\ open = FALSE

Begin ==
  /\ at = "starting"
  /\ \/ nodes = {} /\ at' = "ended" /\ error' = "SWARM_NO_AGENTS"
     \/ nodes # {} /\ at' = "between" /\ UNCHANGED error
  /\ UNCHANGED <<node, left, calls, tool, reasoning, spoken, stream, nodes, steps, invocations,
                 suppressed, specialistHasRun, active, decision, open>>

(* The hook runs first: back to the orchestrator after a specialist is     *)
(* cancelled.  Then the event is streamed, whether it was or not.          *)
CancelledMutant(n) == FALSE
Cancelled(n) == n = Orchestrator /\ specialistHasRun

AnnounceMutant(n) ==        \* keeps what the agent said when it ran before
  /\ invocations' = IF n = Orchestrator THEN invocations + 1 ELSE invocations
  /\ suppressed' = (n = Orchestrator /\ invocations' > 1)
  /\ active' = IF suppressed' THEN active ELSE Append(active, n)
  /\ node' = n /\ UNCHANGED reasoning
  /\ hasYieldedContent' = FALSE /\ hasYieldedFromStructuredOutput' = FALSE /\ suppressTokens' = FALSE
  /\ told' = {} /\ spoken' = <<>>

Announce(n) ==
  /\ invocations' = IF n = Orchestrator THEN invocations + 1 ELSE invocations
  /\ suppressed' = (n = Orchestrator /\ invocations' > 1)
  /\ active' = IF suppressed' THEN active ELSE Append(active, n)
  /\ node' = n /\ reasoning' = [reasoning EXCEPT ![n] = <<>>]
  /\ hasYieldedContent' = FALSE /\ hasYieldedFromStructuredOutput' = FALSE /\ suppressTokens' = FALSE
  /\ told' = {} /\ spoken' = <<>>

Start == IF Orchestrator \in nodes THEN {Orchestrator} ELSE nodes

NodeStarts(n) ==
  /\ at = "between" /\ n \in nodes /\ (steps = 0 => n \in Start)
  /\ steps < MaxSteps /\ steps' = steps + 1
  /\ Announce(n)
  /\ specialistHasRun' = (specialistHasRun \/ n # Orchestrator)
  /\ \/ Cancelled(n) /\ at' = "ended" /\ left' = <<>> /\ calls' = 0
     \/ /\ ~Cancelled(n) /\ at' = "running" /\ calls' = MaxCalls[n]
        /\ left' \in Texts
  /\ UNCHANGED <<tool, filter, shown, lost, cut, nodes, decision, error, open>>

(* A chunk of the text.                                                    *)
Words_(text) == Len(SelectSeq(text, LAMBDA s : s = "w"))
Streamed(raw) ==
  IF suppressTokens THEN UNCHANGED stream
  ELSE LET passed == filterTokens(raw, filter)
       IN /\ filter' = passed.buffers
          /\ hasYieldedContent' = (hasYieldedContent \/ passed.visible # <<>>)
          /\ shown' = shown \cup {s \in ToSet(passed.visible) : s = "h"}
          /\ lost' = (lost \/ Words_(passed.visible) < Words_(raw))
          /\ told' = told \cup {"text" : s \in ToSet(passed.visible)}
          /\ cut' = (cut \/ Cuts(raw, filter))
          /\ UNCHANGED <<hasYieldedFromStructuredOutput, suppressTokens>>

(* What is kept of a text for the handover: slice(-4096).                  *)
LastOf(text) ==
  IF Len(text) <= MaxReasoning THEN text ELSE From(text, Len(text) - MaxReasoning + 1)

Say ==
  /\ at = "running" /\ tool = "none"
  /\ \E k \in 1..Len(left) :
       LET raw == SubSeq(left, 1, k)
       IN /\ left' = From(left, k + 1)
          /\ reasoning' = [reasoning EXCEPT ![node] = LastOf(@ \o raw)]
          /\ spoken' = spoken \o raw
          /\ Streamed(raw)
  /\ UNCHANGED <<at, node, calls, tool, routing>>

-----------------------------------------------------------------------------
(* The tools.  Only the orchestrator has strands_structured_output: the    *)
(* specialists are stripped of the schema.                                 *)
ToolStarts(t) ==
  /\ at = "running" /\ tool = "none" /\ calls > 0
  /\ t = "strands_structured_output" => node = Orchestrator
  /\ tool' = t /\ calls' = calls - 1
  /\ UNCHANGED <<at, node, left, reasoning, spoken, stream, routing>>

(* A message and no agent to hand over to: the answer of the turn.         *)
TerminalMutant(message) ==      \* the text that follows is streamed as well
  /\ hasYieldedFromStructuredOutput' = TRUE /\ told' = told \cup {"message"}
  /\ UNCHANGED <<filter, hasYieldedContent, suppressTokens, shown, lost, cut>>

Terminal(message) ==
  /\ suppressTokens' = TRUE
  /\ IF ~hasYieldedContent /\ ~hasYieldedFromStructuredOutput /\ stripInternalBlocks(message) # <<>>
     THEN hasYieldedFromStructuredOutput' = TRUE /\ told' = told \cup {"message"}
     ELSE UNCHANGED <<hasYieldedFromStructuredOutput, told>>
  /\ UNCHANGED <<filter, hasYieldedContent, shown, lost, cut>>

ToolEnds ==
  /\ at = "running" /\ tool # "none"
  /\ \/ /\ tool = "strands_structured_output"
        /\ \E message \in Messages : message # <<>> /\ Terminal(message)
     \/ UNCHANGED stream        \* another tool, an agent to hand over to, or no message
  /\ tool' = "none"
  /\ UNCHANGED <<at, node, left, calls, reasoning, spoken, routing>>

-----------------------------------------------------------------------------
(* A node is over when the model has nothing more to say (a text that a    *)
(* limit cuts off is one of Texts); then comes another agent, or the end.  *)
InBlock(text) ==
  \E b \in FilteredBlocks : Cardinality(At(text, b.open)) > Cardinality(At(text, b.close))
Unfinished ==
  InBlock(spoken) \/ (spoken # <<>> /\ Last(spoken) = "<") \/ (suppressTokens /\ filter # Empty)

Handoff(to) ==
  /\ at = "running" /\ left = <<>> /\ tool = "none" /\ to \in nodes
  /\ at' = "between"
  /\ decision' = [from |-> node, to |-> to, reasoning |-> reasoning[node],
                   attribution |-> attributeHandoff(UserWords, reasoning[node], to, Handoffs[node])]
  /\ open' = (open \/ Unfinished)
  /\ UNCHANGED <<node, left, calls, tool, reasoning, spoken, stream, nodes, steps, invocations,
                 suppressed, specialistHasRun, active, error>>

Finish ==
  /\ at = "running" /\ left = <<>> /\ tool = "none" /\ at' = "ended"
  /\ UNCHANGED <<node, left, calls, tool, reasoning, spoken, stream, routing>>

(* The SDK gives up after the last step, and anything in it may throw.     *)
Fails ==
  /\ at = "running" \/ (at = "between" /\ steps = MaxSteps)
  /\ at' = "ended" /\ error' = "SWARM_STREAM_FAILED"
  /\ UNCHANGED <<node, left, calls, tool, reasoning, spoken, stream, nodes, steps, invocations,
                 suppressed, specialistHasRun, active, decision, open>>

NodeStep == Say \/ ToolEnds \/ (\E t \in Tools : ToolStarts(t)) \/ Finish \/ (\E n \in Agents : Handoff(n))

Next == Begin \/ (\E n \in Agents : NodeStarts(n)) \/ NodeStep \/ Fails

Spec == Init /\ [][Next]_vars

-----------------------------------------------------------------------------
(* What the filter lets through is what was meant for the user: no word of *)
(* reasoning, and every other word, however the tags are cut into chunks.  *)
(* Not when a chunk that held a whole response tag ends within another     *)
(* tag, and, for the words, not after a node that ended, or was silenced,  *)
(* within a block or a tag: the buffers are kept for the next node.        *)
FilterExact ==
  ~cut => shown = {} /\ (~open => ~lost)

(* An agent answers once: as text or by the message of its structured      *)
(* output, never both, though the model says the one and the other and     *)
(* calls the tool again and again.                                         *)
AnsweredOnce == Cardinality(told) <= 1

(* Once a specialist has run the orchestrator does not run again, and the  *)
(* client is told of the orchestrator once, however often it enters itself.*)
NoWayBack ==
  /\ specialistHasRun /\ at = "running" => node # Orchestrator
  /\ \A i, j \in DOMAIN active : active[i] = Orchestrator /\ active[j] = Orchestrator => i = j

(* A handover is explained by the last MaxReasoning symbols of what the    *)
(* agent that hands over said since it was entered, though they came in    *)
(* chunks and each was cut as it came, and by the user's message: not by   *)
(* what another agent said or the same one earlier; every other specialist *)
(* it could have chosen is listed, the best first.                         *)
DecisionsOwn ==
  (at = "between" /\ decision # NoDecision) =>
    LET others == decision.attribution.alternativesConsidered
    IN /\ decision.from = node /\ decision.reasoning = LastOf(spoken)
       /\ \A span \in decision.attribution.triggerSpans :
            findOffset(UserWords, span.phrase) \/ findOffset(LastOf(spoken), span.phrase)
       /\ {others[k].agent : k \in DOMAIN others} = {e.agent : e \in ToSet(Handoffs[node])} \ {decision.to}
       /\ \A k \in 1..Len(others) - 1 : others[k].score >= others[k + 1].score
==============================================================================

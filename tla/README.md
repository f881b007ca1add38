# A verification project for the multi-agent chat service

This directory holds TLA+ models of the service in this repository: a Hono API
(`api/src`) that answers chat questions by routing them to specialist agents in
AgentCore runtimes, keeps sessions in MongoDB, remembers conversations, and
records a trace of every turn. TLC checks the models on small instances; the
TLA+ proof system proves the most important results for all of them. Paths below
are relative to the repository.

- [1 The system](#1-the-system)
- [2 Modules](#2-modules)
- [3 How state and actions correspond to the
  code](#3-how-state-and-actions-correspond-to-the-code)
- [4 Runs](#4-runs)
- [5 Fairness](#5-fairness)
- [6 Proofs](#6-proofs)
- [7 Where the code and its documents part](#7-where-the-code-and-its-documents-part)
- [8 Abstractions](#8-abstractions)
- [9 What is not modelled](#9-what-is-not-modelled)
- [10 Plan](#10-plan)

To repeat a check, run `tlc -config SessionStoreFaults.cfg MCSessionStore` (each
row of the table in section 4 names its module and its configuration), or
`tlapm SessionProofs.tla` for a proof.

## 1 The system

One API process serves every user. JavaScript runs on one thread, so code between
two `await`s is atomic, and between the two steps of any request the steps of all
others may run. Most of what is hard about this code follows from that: state read
before an `await` and used after it, and writes that leave in one order and arrive
in another.

| Component | State | Operations | Hard behaviour |
|---|---|---|---|
| session store, `lib/session-store.ts` | a map from session to record; the documents of `chat_sessions` | get, append (user or assistant), delete, list, tag with a trace | write-through cache under interleaving; a failed query that looks like a session that does not exist; the tenant check |
| message mirror, `lib/session-store.ts`, `lib/chat-messages-collection.ts` | scheduled rows; `chat_messages` | mirror a message, delete a session's rows | runs after its append has returned, and after a delete |
| trace store, `lib/trace-store.ts` | ring buffer (two maps and an insertion order), `traces` | persist, read by id or by message | duplicates in the insertion order; three writers of one trace |
| orchestration, `lib/multi-specialist-orchestrator.ts`, `adapters/agentcore-runtime.ts`, `lib/runtime-sse.ts`, `lib/specialist-answer-synthesizer.ts` | plan, current specialist, answers, frames sent | classify, invoke with retries, relay a stream, synthesise, store, done | four ways a stream can end, several specialists of which some fail, partial answers |
| chat turn, `routes/chat.ts`, `lib/short-term-memory.ts` | the handler's locals; AgentCore's event store | look up, recall, append question, invoke, append reply, tag, done | the handler's reference to a cached record lives through many awaits; two copies of the conversation |
| trace collector, `lib/trace-collector.ts` | events, span stack, byte and call counters | start, event, end, splice a runtime's events | overlapping spans, byte caps that drop one half of a span |
| trace relay, `agent-runtime-code.ts`, `lib/run-chat-stream.ts` | one collector per process, frames in flight | stream events, forward, splice | streams that break off; the same event by two ways |
| agent classifier, `lib/agent-classifier.ts` | cache of decisions, cache of candidates | score, gate, ask Haiku, remember, clear | a refresh while a call is in flight; a cache keyed by less than the answer depends on |
| configuration, `lib/config-scan.ts`, `routes/agent-config-refresh.ts`, `lib/prewarm.ts` | root in force, files, overrides of runtimes, caches | read an agent, list, refresh, prewarm | a refresh that ends half-way while turns fill the caches |
| agent build and tools, `lib/create-strands-agent.ts`, `lib/base-tools.ts`, `lib/skill-loader.ts`, `lib/http-tools-runtime.ts` | template cache, a registry of activated skills for each template, map of HTTP tools | get or build a template, activate a skill, use a tool | several builds of one agent at once; a registry shared by turns; a build without the gateway's tools |
| MCP client, `adapters/mongodb-mcp-client.ts` | one client, one list of tools, one promise, one handed-over list of scores | connect, load, reset, call, probe | shared by callers with different tokens; loads that come back empty; probes that lose against their timer |
| long-term memory, `lib/long-term-memory.ts`, `lib/llm-fact-extractor.ts` | `agent_memory_facts`, AgentCore's store | write a turn (extract, embed, upsert), read (search, rank, fall back) | every service on the way may fail, or never answer |
| retrieval, `lib/vector-retrieval.ts`, `lib/embed-query.ts` | none | embed, search, fuse, weigh, decay, diversify | four searches that settle in any order |
| swarm, `lib/swarm-chat-stream.ts`, `lib/handoff-attribution.ts` | the node that runs, a text filter, flags of the node | enter a node, stream, structured output, hand over | tags cut into chunks; an answer said twice; events of a node that was cancelled |
| rate limiter, `middleware/rate-limit.ts` | windows by key | count, refuse | window boundaries |

How they interact: `POST /chat` is the composition. It calls the session store
four times (get, append the question, append the reply, tag), reads and
writes AgentCore's memory, runs the orchestration, whose runtimes stream tokens and
trace events over server-sent events, splices those events into the turn's
collector, stores the trace, sends `done`, and leaves two writers running that
store the trace again. `DELETE /sessions/:id` interferes with all of it.
The whole inventory, with the components that are not modelled and the reasons, is
in the `components` of `PROJECT.json`; the hazards, each at its line, are in
`hazards`.

Before a turn is orchestrated its facts are read from long-term memory, the
classifier chooses who answers, and in the runtime of that agent a template is taken
from the cache or built, with the tools of the one MCP client. After `done` the turn
is written to long-term memory. A refresh replaces under all of them the files they
read.

What makes each modelled component correct:

- *Session store.* No user is ever shown, or given the write of, another user's
  message (`Isolation`); a refused call writes nothing (`RefusedWritesNothing`);
  a message is stored once (`NoDuplicates`); the document is what the cache says
  when nothing is under way (`WriteThrough`) and never something the cache never
  said (`DocTrailsRecord`); every call returns (`CallsReturn`); and, one call at a
  time, the store is a log with one owner (`DocIsLog`, `OwnerKept`).
- *Trace store.* Nothing is stuck in the ring and its maps agree (`RingShape`);
  what it answers is what is stored (`RingIsDocument`); no later snapshot is
  overwritten by an earlier one (`StoredIsNewest`).
- *Orchestration.* No text of a failed stream is combined or stored
  (`CompleteReply`); a turn has one of three outcomes, and which one is decided by
  what failed (`KeepsContract`): what the client keeps is stored, or an error is told
  and nothing is stored, or - only where a lone specialist failed - nothing is told and
  an empty message is stored, which the documents do not foresee (`FailureTold`, section
  7); every turn ends (`TurnEnds`).
- *Chat turn.* The prompt holds only the asker's messages (`PromptOwn`) and its
  earlier turns, as many of them as the memory's limit lets through (`Remembers`); what
  was answered is stored before `done` (`DoneIsStored`).
- *Traces.* No event is filed under a span that has ended (`NotUnderEnded`);
  spliced events hang under their invocation (`OneHierarchy`); calls are counted
  once, except behind a hop (`CountedWithoutHop`).
- *Long-term memory.* What is recalled is the asker's, from another session, and
  recalled once (`RecallsOwnOnce`); an outage of embedder and searches does not leave a
  user with facts without context (`OutageStillRecalls`); what is reported as persisted
  is there until its time comes (`PersistedIsStored`); the ranking does not contradict
  what all searches agree on (`BestFirst`); a turn does not wait for ever for its
  context (`WaitsEnd`).
- *MCP client.* Nobody loses the tools because somebody else had no token
  (`NotDegraded`); loads are shared (`OneLoad`); reported scores are the call's own
  (`OwnScoresFirst`); turns and probes get an answer (`EveryoneAnswered`).
- *Swarm.* No reasoning reaches the client and no word of the answer is lost
  (`FilterExact`); an agent answers once (`AnsweredOnce`); the orchestrator is not
  entered again after a specialist (`NoWayBack`); a handover is explained by the last
  words of the agent that hands over (`DecisionsOwn`).
- *Routing.* No decision outlives the roster it was made for (`DecisionsOfRoster`);
  no turn works with an agent older than the files it asked for (`AgentUpToDate`); no
  skill passes from one turn to another (`SkillsOfOwnTurn`); an agent built without
  its tools is not handed on (`RefusedByOwnLoad`).

## 2 Modules

```
SessionLog <-refines-- SessionStore <--EXTENDS-- ChatTurn          TurnContract
                         ^     ^                  ^  ^                 ^ refines
               MCSessionStore  |   MCChatTurn ----+  |            Orchestration
                               |                     |             ^        ^
                               +--- SessionProofs ---+   MCOrchestration  OrchestrationProofs

TraceStore <- MCTraceStore, TraceProofs      TraceCollector <- TraceRelay <- MCTraceRelay, TraceProofs

Embedding <--+-- LongTermMemory <- MCLongTermMemory, LongTermMemoryProofs
             |         |                        Classifier <--+
             |         v                                      +-- Routing <- MCRouting,
             |     Retrieval                    AgentTools <--+              RoutingProofs
             +-- McpTools <- McpClient <- MCMcpClient, McpClientProofs

HandoffAttribution <- SwarmStream <- MCSwarmStream, SwarmStreamProofs

Ranking <- Retrieval, Classifier, HandoffAttribution
RankingProofs <- LongTermMemoryProofs, RoutingProofs, SwarmStreamProofs
```

| Module | What it is |
|---|---|
| `SessionLog` | the abstract session: one log, one owner |
| `SessionStore` | cache, document, rows; five operations, await by await; faults and restarts |
| `ChatTurn` | the handler of `POST /chat`: it makes the store's calls, so it contains `SessionStore` and adds AgentCore's memory |
| `TurnContract` | the abstract turn as its client sees it |
| `Orchestration` | how one turn is answered, frame by frame |
| `TraceStore` | the ring buffer and the stored traces |
| `TraceCollector` | one process's collector as a record with pure operators |
| `TraceRelay` | the collectors of the API, the orchestrator's runtime and the specialists, and the streams between them |
| `Embedding` | what an attempt to embed an input gives, by provider |
| `Ranking` | the array methods the rankings are made of: filter, flat, stable sort |
| `Retrieval` | rank fusion, collection weights, decay and diversification, in exact integers |
| `LongTermMemory` | writes and reads of long-term memory, await by await; it contains both |
| `McpTools` | names, arguments and answers of the gateway's tools |
| `McpClient` | the connection, tool list and load that turns and probes share, and the turns' calls |
| `HandoffAttribution` | how a handover is explained by words |
| `SwarmStream` | one turn of the swarm: nodes, filter, structured output, handovers |
| `Classifier` | the scores, and the gates that decide without the language model |
| `AgentTools` | the tools and skills of an agent, and what an HTTP tool answers |
| `Routing` | configuration, classifier and its caches, templates and registries, refresh and prewarm; it contains both |
| `MC...` | the instances TLC checks |
| `...Proofs` | the inductive invariants and the theorems |

Two parts are composed by containment instead of by a common clock. `ChatTurn`
takes the answer of a turn as given (words, blank, failed), and `Orchestration`
shows how it comes about; `Orchestration` stores the reply in one step, and
`ChatTurn` and `SessionStore` show what that step is made of. Likewise `Routing`
takes it as given whether the gateway's tools came, and `McpClient` shows when they
do.

## 3 How state and actions correspond to the code

The exact lines are in the `map` of `PROJECT.json`.

**SessionStore.** `mem` is the entry of `const memory = new Map()` and refers to a
record on the heap: two loads of one session make two objects, and the code goes on
with the object it holds, not with the entry. So `rec[c]` is the record allocated by
call `c`, `held[c]` the one that `c` goes on with, and `mem` names one of them.
`doc` is the document in `chat_sessions`, `wire[c]` a document on its way to or from
the server, `rows` and `mirror` the rows written to and scheduled for
`chat_messages`. `pc[c]` is the `await` at which a call is suspended. Every
accessor begins with `Lookup` (`memory.get`, then the query or the branch without
persistence). `FindOne` and `Load` are the two halves of `loadFromMongo`: the server
answers, and later the answer reaches the process, which overwrites the cache entry
whatever happened since. `Create`, `Missing`, `Refuse`, `Get`, `Push`, `Forget` are
what follows; `Snapshot`, `SaveOpened`, `Save` are the two halves of `saveToMongo`;
`DropDoc` and `PurgeRows` the two deletes of `deleteSession`; `MirrorRow` the
scheduled upsert. Each database step has a second disjunct, enabled by `Faults`, in
which the operation fails and the code logs and goes on.

**ChatTurn.** `at[t]` is the `await` of the handler. The calls of a turn are the
calls `<<t, "get">>`, `<<t, "ask">>`, `<<t, "reply">>`, `<<t, "tag">>` of the store.
`found[t]` is the record its lookup returned: `priorTurns` is that record's own
array and is read when the agents are invoked, so it holds by then whatever was
pushed. `events[u]` is the conversation in AgentCore's memory, of which a read gives
the newest `limit` messages (`Newest`). `cast` says how the turns of a behaviour meet -
at once, or one after the other - and what that limit is.

**Orchestration.** `at` follows the turn: `routing` (`Classify`, `Direct`),
`starting`/`invoking`/`streaming`/`ended` for each specialist (`Start`, `Invoke`
with its retries, `Token`, `StreamError`, `Finish`, `End`), `composing` (`Compose`,
`EndSynthesis`), then `Store` and `Done`. `frames` are the frames sent, `answers`
the specialists' results, `reply` what the turn will store, `broken` the agents
whose stream reported or suffered an error, whatever the code knows of it.

**TraceStore.** `ring`, `keys`, `order` are `byTraceId`, `byMessageKey`,
`insertOrder`; `rememberInRing` pushes an id at every write and shifts the oldest
out. A snapshot of a growing collector is the number of its events. The writers are
the turn (`Collect`, then `PersistTurn` after an await), the mirror and the
long-term memory write; the readers go through `FindOne` and `Found`.

**TraceCollector and TraceRelay.** A collector is a record; `start`, `event`, `end`,
`attachEventsNested`, `emit` are its methods, `toolCalls`, `mcpCalls`,
`agentcoreHops`, `Above` what `summary()` and `buildSpanTree()` compute. `link[p]`
holds the frames between process `p` and its caller, `nested[p]` what the caller
collected, `wrapper[p]` the span of the invocation. `Forward` is the orchestrator's
runtime passing a specialist's event on as it comes.

**LongTermMemory, Retrieval, Embedding.** `wat[w]` is the `await` of a write and
`rat[r]` that of a read. A write goes through `writeLongTermMemory` (no user, no
write), `extractFactCandidates` (the model's reply, and what the code accepts of it),
`ensureTtlIndex` (`getMongoDb`, and the index that is tried once by a process),
`EmbedFacts`, `Upsert` for each operation of the unordered bulk, `BulkEnds`, and
`agentcoreWrite` where that fails; `Expire` is MongoDB's TTL monitor. A read goes
through `readLongTermMemoryContext`, `Connect`, `EmbedQuery`, two or four searches
(`SearchAnswers`, `SearchTimesOut`, in any order; each ends in `Settle`, which adds the
lists of a collection when its searches are all there), `Rank` (fusion, weights,
decay, diversification, and the hits of this session left out), and if that leaves
nothing `FindByKeyword` and `FindRecent`. `Retrieval` is the arithmetic, `Embedding`
which provider answers what. `had`, `missed` and `lapsed` are history variables; `lapsed[w]`
are the facts whose row expired after `w` had stored or found it.

**McpClient, McpTools.** `client`, `tools`, `promise` and `pending` are the variables
`_mcpClient`, `_mcpTools`, `_mcpToolsPromise` and `pendingMcpVectorScores` of the
module `mongodb-mcp-client.ts`; `opened` numbers the connections. The rest belongs to
a caller: where it is, over which connection, how many attempts failed, for whose load
it waits, the tools it got, its call and the scores it reported. `Ask` is
`getMcpTools` up to its first `await`, `Resume` what follows the wait for somebody
else's load: all who waited resume before anything else happens (`Settled`).
`Connect`, `ConnectFails`, `List`, `ListFails` are the gateway's answers; `CallTool`,
`VectorSearch`, `Embedded`, `Answered`, `CallFails` the calls of a turn; `Probe` and
`ProbeTimer` the health checks. `McpTools` is what is put into the arguments of a call
(`scopedArgs`, `transformVectorSearchArgs`) and read from its answer.

**SwarmStream, HandoffAttribution.** `NodeStarts` is the hook and the event of a node
that is entered (`Announce`, `Cancelled`), `Say` a chunk of text through `filterTokens`,
whose reasoning is kept up to its last `MaxReasoning` symbols (`LastOf`), `ToolStarts`
and `ToolEnds` a tool (`Terminal` the message of the structured output, from which whole
blocks are taken and one that is not closed is not, `Cleared`), `Handoff` the decision
with its attribution, `Finish` and `Fails` the ends. `filter` holds the three buffers of
the filter; the flags have the names they have in the code. `shown`, `lost`, `told`,
`spoken`, `cut` and `open` are history variables.

**Routing, Classifier, AgentTools.** A behaviour is one process: `cast` says which
(API or runtime) and who acts in it. In the API `Classify`, `HaikuAnswers` and
`Dispatch` take a message to its agents, and `Refresh` (or `RefreshFails`) replaces the
configuration under them and warms the cache. In a runtime `Prewarm`, `WarmBuilt` and
`Warmed` are the start; `Open` is `getAgentTemplate`, `TurnBuilt` the end of
`buildTemplate` after it has waited for the gateway's tools, `Assemble` the prompt,
`Activate` and `UseTool` the agent's skills; `Edit` and `WriteSkill` change the files.
`decisions`, `candidates`, `templates`, `toolMap` are the caches; `registries[b]` the
`SkillRegistry` made by builder `b`, which a cached template shares with all turns
that use it. A template keeps the persona that was read when it was built, and `Assemble`
reads it anew where memory was recalled. `files` carries a stamp for each write: two details
are the same object in the code exactly when they have the same stamps; a file whose
frontmatter is not valid is no agent (`Valid`). `late` is a history variable.

## 4 Runs

| Run | Module, configuration | Checks | Distinct states |
|---|---|---|---|
| `session_faults` | MCSessionStore, SessionStoreFaults | TypeOK, Isolation, NoDuplicates, RefusedWritesNothing, DocTrailsRecord, CallsReturn | 230k |
| `session_sequential` | MCSessionStore, SessionStoreSequential | WriteThrough, OwnerKept, DocIsLog | 521k |
| `trace_store` | MCTraceStore, TraceStore | RingShape, RingIsDocument, StoredIsNewest | 923k |
| `orchestration` | MCOrchestration, Orchestration | TypeOK, CompleteReply, KeepsContract, TurnEnds | 23k |
| `turn_told` | MCOrchestration, TurnTold | FailureTold is violated | |
| `chat_turn` | MCChatTurn, ChatTurn | PromptOwn, DoneIsStored, Remembers | 525k |
| `trace_relay` | MCTraceRelay, TraceRelay | NotUnderEnded, OneHierarchy, CountedWithoutHop | 556k |
| `memory` | MCLongTermMemory, LongTermMemory | RecallsOwnOnce, OutageStillRecalls, PersistedIsStored, BestFirst, WaitsEnd | 192k |
| `mcp` | MCMcpClient, McpClient | NotDegraded, OneLoad, OwnScoresFirst, EveryoneAnswered | 124k |
| `mcp_heals` | MCMcpClient, McpHeals | Reattempts is violated | |
| `swarm` | MCSwarmStream, SwarmStream | FilterExact, AnsweredOnce, NoWayBack, DecisionsOwn | 624k |
| `routing` | MCRouting, Routing | DecisionsOfRoster, AgentUpToDate, SkillsOfOwnTurn, RefusedByOwnLoad | 314k |

**Bounds, and why they are enough.**

- *session_faults*: two calls of two users, on a session that does not exist, belongs
  to one of them, or is a legacy document without an owner, with every operation of the
  database free to fail at every step, and one restart at any point. Two calls are
  enough for every fault to meet every step of another call; for more of them there are
  the theorems, of every safety property the run checks. The liveness property is checked
  here, so no symmetry is used.
- *session_sequential*: `MaxActive = 1` says one call at a time; three calls with a
  restart between any two are enough to write, lose the cache, and read back. The
  refinement `DocIsLog` maps the log to the document.
- *trace_store*: four reads and writes on two traces in a ring of two. An id is in
  the insertion order twice after two writes of one trace, so a ring of two and four
  calls evict a duplicate while its trace is still stored, and re-read a trace that
  was evicted. Calls and traces are symmetric.
- *orchestration*: two specialists, plans of zero, one or two of them, two attempts,
  two tokens (a word and a blank, in every order) for each stream. One specialist
  that fails beside one that succeeds, all failing, and none selected are the cases
  the code tells apart; a third specialist repeats the step of the second.
- *chat_turn*: two turns at once and a delete, or three turns one after the other with
  more messages than the limit, of any two users, with and without AgentCore's memory,
  whose reads and writes may fail. The limit is 40 in the code; here it is 2 and 3, so
  that a turn, or one half of it, falls out of the memory's answer. The process has no
  database here: how the store behaves on top of one is the subject of `session_faults`,
  and the theorem `PromptsOwn` holds for both.
- *trace_relay*: two specialists, two tool or MCP calls, one broken stream, on each of
  the three paths. Events have size one, or one more than `MaxEventBytes`, which is
  trimmed. With a cap of 1 nearly everything unprotected is dropped, with 4 the cap is
  met in the middle of a turn, or of a splice. `MaxInFlight = 1` bounds the frames on
  their way while a runtime records: a link is first in, first out and `Break` may
  cut it anywhere, so what a caller has received is in any case a prefix of what was
  recorded.
- *memory*: two writes, or one write and one read, of ann or of nobody, over a fact she
  may have told long ago and three mirrored messages: one of another session, one of the
  session that is asked in, one of bob's. The model reports nothing, or five texts of
  which two are the same in other capitals, one the same up to spaces, one too short and
  one beyond `MaxFacts = 2`. A search returns at most two rows in any order and two hits
  are injected, so rows are cut off at both places. Every operation may fail, except
  that the index is made: without it nothing expires, as when the monitor does not come.
  Two writes of one text meet in the row under its hash, which may expire between them.
- *mcp*: four casts. Three turns (without a token, with a good one, with one the gateway
  may reject) load the tools at once; two turns load and call a tool each; a turn
  without a token and one with one beside a probe of `/health`; two turns beside a
  probe of `/health/deep`. The gateway lists nothing, the four tools the code treats
  differently, or the hybrid search; ten requests take every way through the arguments,
  and four kinds of answer every way through the scores. Three loaders are what a load
  that is shared, comes back empty, and is started anew by both who waited needs.
- *swarm*: one agent, or the orchestrator and one specialist (a second can be chosen and
  not entered), four texts in chunks of any size - so each tag is cut at each place -
  three nodes, and up to two tool calls of the orchestrator. Three nodes are
  orchestrator, specialist and the way back; or the orchestrator entering itself. The
  texts are longer than `MaxReasoning` (4 here, 4096 in the code), so reasoning is cut.
- *routing*: two turns beside a refresh with each of the three backends, and with one of
  them beside two refreshes; two turns of a runtime beside its start, or beside one
  edit. Three agents, of which one's name begins with another's, three snapshots (a
  specialist leaves; the file of another is not valid, and HTTP tools come without a
  list of hosts; no orchestrator), a decision cache of one entry, so that it is always
  full.

Where deadlock is not checked (`CHECK_DEADLOCK FALSE`) the behaviour is finite:
every call asked has returned, or the turn is done. Symmetry is used only in runs
without liveness properties, over sets whose members no definition tells apart.

Every property of a passing run comes with a mutant: a slip the code could have
made (an operator with `Mutant` in its name, which no specification uses) that makes
TLC report that property as violated under the same configuration.

## 5 Fairness

- `SessionStore!FairSpec`: weak fairness of every `Step(c)` and of `Mirror`. The
  event loop runs every continuation that is ready, and the MongoDB driver, an
  external library, settles every operation sooner or later (a connection that
  breaks fails the operations on it); the code sets no time-out of its own. Nothing
  is assumed of callers and of restarts.
- `Orchestration!FairSpec`: weak fairness of `Api`, `Finish` and `EndSynthesis`. The
  first is the event loop. The other two assume that a runtime and the synthesizer's
  model do not stay silent for ever. The code does not enforce this - nothing bounds
  the wait for a stream (`adapters/agentcore-runtime.ts:219`) - so `TurnEnds` says:
  if every stream ends, whichever way, the turn does.
- `LongTermMemory!MemorySpec`: weak fairness of `Connect`, of the answer "nothing" of
  the embedder and of `SearchTimesOut`. The first is the driver's own time-out for
  finding a server; the other two are timers in the code: one that aborts the
  embedding, and on a search `maxTimeMS` with an abort of its own
  (`lib/vector-retrieval.ts:208`). Nothing is asked of
  the embedder, of the searches, of writes, or of the finds by keyword, which have no
  timer: `WaitsEnd` is about the waits that have one.
- `McpClient!McpSpec`: weak fairness of `Resume` (the event loop), of the connect and
  list steps of turns (the MCP SDK fails a request that is not answered after its own
  time-out) and of `ProbeTimer`. Nothing is assumed of the requests of a probe: it
  answers by its timer even if they never end.
- The other specifications have no liveness property and no fairness.

## 6 Proofs

`tlapm` checks every step; nothing is assumed beyond the named assumptions on the
constants, and TLC evaluates those in every run.

| Theorem | For every value of | Argument |
|---|---|---|
| `SessionProofs!TypeCorrect`, `TenantsIsolated` | calls, users, documents, faults, bounds | `IInv` |
| `SessionProofs!MessagesOnce`, `RefusalsWriteNothing` | the same | `IInv`, `MInv` |
| `SessionProofs!DocTrails` | the same | `IInv`, `MInv`, `TInv` |
| `SessionProofs!OwnersKept` | the same, one call at a time, queries answered | `IInv`, `MInv`, `TInv`, `CInv` |
| `SessionProofs!WritesThrough` | one call at a time, saves succeed, queries may fail | `IInv`, `CInv` |
| `SessionProofs!LogKept` (a refinement) | one call at a time, queries answered, saves succeed | `IInv`, `MInv`, `TInv`, `CInv`, `LInv` |
| `SessionProofs!TurnTypeCorrect`, `PromptsOwn` | turns, visits, users, documents, faults, limits, with or without database and memory | `ChatInv` |
| `SessionProofs!DoneStored`, `PastRemembered` | the same, with a database one call of the store at a time | `ChatInv`, `DoneInv`, `RecallInv` |
| `OrchestrationProofs!TurnTypes`, `RepliesComplete` | specialists, widths, attempts, tokens | `OInv` |
| `OrchestrationProofs!ContractKept` (a refinement) | the same | `OInv`, `KInv` |
| `TraceProofs!TraceTypeCorrect`, `RingInShape` | calls, traces, capacity, faults, bounds | `RInv` |
| `TraceProofs!RingAgrees`, `DocumentNewest` | the same, where traces are persisted | `RInv`, `AInv` |
| `TraceProofs!FiledWhereOpen` | specialists, paths, byte caps, calls, frames, breaks | `RelayInv` |
| `TraceProofs!HangsTogether` | the same | `RelayInv`, `HierInv` |
| `TraceProofs!CallsCounted` | the same, where no runtime is between the API and the specialists and no stream broke off | `RelayInv`, `HierInv`, `CountInv` |
| `LongTermMemoryProofs!PersistedStored` | writes, reads, users, facts, rows, faults | `WInv` |
| `LongTermMemoryProofs!OutagesRecall` | the same | `RInv` |
| `LongTermMemoryProofs!RecallsOwn` | the same, weights, decay, thresholds | `WInv`, `LInv` |
| `LongTermMemoryProofs!BestComesFirst` | the same, any number of hits | `WInv`, `LInv` |
| `McpClientProofs!NobodyDegraded`, `LoadsOnce` | casts, tokens, users, endpoints, listings, requests, answers | `MInv` |
| `McpClientProofs!ScoresOwn` | the same | `Reported` |
| `SwarmStreamProofs!AnswersOnce`, `NotBack`, `HandoversOwn` | agents, texts, messages, lists of handoffs, word weights, limits, lengths of reasoning | `SInv` |
| `RoutingProofs!AgentsUpToDate`, `RefusalsOwn` | agents, files, snapshots, edits, casts, cache sizes | `RInv` |
| `RoutingProofs!SkillsApart` | the same | `SInv` |
| `RoutingProofs!DecisionsDue` | the same, knobs, word points and answers; the API takes over files by refreshes alone | `RInv`, `DInv` |
| `RankingProofs!ArrangedIs` | finite sets and strict orders of them | induction over numbers |

Each proof has the same shape: the initial states satisfy the inductive invariant,
one lemma for every action shows that the action keeps it (with one step for each
conjunct the action could disturb), and a temporal step concludes.

**Isolation** is not inductive. The proof needs to know that the owner of a record
somebody refers to never changes, though records are allocated while calls are
under way. `IInv` adds: a call that has not allocated its record yet is referred to
by nobody (`Fresh`); a call that goes on with a record holds one (`Holding`); an
append that saves has passed the owner check on the very record it holds
(`Checked`), which is what makes the row it schedules carry its caller's owner; a
call that was not asked has no answer (`Unasked`). The lemmas `PushedRecord` and
`TaggedRecord` say that a record stays a record of one owner when a message of that
owner is pushed, or one is tagged. `OldAssumption` says that documents stored before
hold the messages of their owners.

**NoDuplicates and RefusedWritesNothing** need to know where a message can be while its
call is suspended. `MInv` (of `SessionProofs`) says: the message of a call that
has not pushed yet, was refused, or found nothing is nowhere - in no record, document,
snapshot or row (`Clean`); and nothing holds a message twice (`Once`). A call pushes
once, and is quiet just before; so pushing puts its message there once. Every other
step only copies what is written somewhere already (the lemma `Carry`).

**DocTrailsRecord** is about saves that overtake each other. `TInv`: as long as nobody
asks to delete, and the process has made one record, the document and every snapshot on
its way are behind that record - no longer, and with the same messages at the same
places (`Trailing`); before there is a record, what a query was answered is the document.
A push or a tag only moves the record further on. A process without a database has no
document (`Volatile`), and nothing is saved of a record that was not made (`Made`). A
query that fails makes an empty record over a stored document (section 7); until the first
save replaces it, that document has no message in common with the record (`Apart`), which
`MInv` gives: the message of a call that has not pushed is nowhere.

**WriteThrough, OwnerKept, DocIsLog** hold for one call at a time, since two calls that
miss the cache make two records (section 7). `CInv` says that such a call has the cache
entry in hand, and its snapshot is that entry as it is (`Cached`); that a database that
answers and a cache entry have one owner (`Answering`); and that a database that saves has
the cache entry, except while a save is under way (`Through`). `OwnerKept` is an action
property and uses the invariant before the step. For `DocIsLog` every step is a step of
`SessionLog` or none. `LInv` adds what a save under way will do to the document
(`Pending`): make it, append its caller's message, or tag one of its messages. The steps
before the save map to no step of the log, the save to one.

**RingShape** is proved with `Asked`: a suspended call is about a trace, and a turn
that has taken a snapshot took one that is not empty. The work is in `RingStep`: the
trace evicted is the head of the insertion order; every other trace in the ring had
a place there, which moved one step nearer to the head. The capacity must be
positive (`CapAssumption`).

**RingIsDocument and StoredIsNewest** speak of a store at rest; `AInv` says what holds
while calls are under way, for a trace that is not disturbed. It has one call at a time
(`Lone`); its collector only grows until it dies with the process, so no snapshot of it
holds more than it does now (`Grown`); the ring has what the document says, or between
the two halves of a write what is on its way (`Agreeing`); and no finished write holds
more than the document, or than a write under way will store (`Newest`). Both are
theorems for `Persistent` only: without a database nothing is stored.

**NotUnderEnded** (the theorem `FiledWhereOpen`) rests on what is `Sound` of a collector:
no span is on the stack twice or was named by another collector, none on the stack has
ended, and nothing is behind the end of a span that is filed under it. New events are
filed under the top of the stack, so they keep it; an end keeps it only if its span is on
the stack, from which `Popped` takes it, wherever it is (`PoppedOne`). `RelayInv` says that
this is so for every end that will come: the spans of a specialist's model and tools are
open in its own collector (`SpansOpen`), the span of an invocation in its caller's, which
has one at a time (`Invoked`). A mark of the byte cap or a dropped event moves no span
(`EmitSound`); the events of a runtime bear other names than those of the collector they
are spliced into, and induction over their number (`EveryNumber`, `AttachSound`) shows that
splicing moves no span either.

**OneHierarchy** (the theorem `HangsTogether`) says of `Above`, which follows parents up
through the first event of each name, that it reaches the span of the invocation.
`HierInv` has what the climb needs. In a runtime's own trace the first event of each name
is a root or is filed under an event with a smaller number (`Ordered`), and what its
caller has received is a beginning of that trace (`Passed`), so no parent is received
after its child; a caller that forwards has received what it passes on. The start of an
invocation is protected from the caps, so its span is in the caller's trace whatever was
dropped before (`SpanKept`). What a trace has of other processes it got from runtimes that
are over (`Foreign`), so splicing the next runtime files no name a second way. Traces are
only appended to and `dropped` only grows: where it is 0 at the end every splice was kept
whole, and what hung once goes on hanging (`Hanging`). Two facts are about `Above` itself:
it is closed under parents, since each of its rounds adds a name or none are left to add
(`AboveClosed`, which counts), and a name whose ancestors get smaller numbers climbs to a
root (`HangsUnder`, an induction over that number).

**CountedWithoutHop** (the theorem `CallsCounted`) compares the summary of the API with
what was done. One runtime is invoked at a time, so at any moment the tool calls that
ended are those the API has counted and those among the events of the runtime it has
invoked, if there is one; `CountInv` says so (`TallyOf`, for tool calls, MCP calls and
hops), as long as no stream has broken off. The end of a call is protected from the caps,
so what a method tallies it keeps (`Tells`); an MCP call may be dropped, and then there are
fewer (`Balances`: nothing is counted twice, and nothing is missing that is protected). What
the runtime has recorded is what its caller has received, followed by what is on its way
(`StreamOf`); when the stream is over and its queue is empty, the events spliced are all
that were recorded (`AllArrived`). A splice counts every one of them, kept or dropped
(`SpliceTells`; for the whole list, `AttachTells`), and the hop with it (`SplicedSums`). The
summary takes the larger of a counter and of the number of events kept; no more events are
kept than counted, so it is the counter.

**PromptOwn** stands on `IInv`. The record a turn found may be deleted from the
cache, and the session may be opened by somebody else, while the turn still has the
reference. `TurnInv` says that this record belongs to the asker and is allocated
already, and the lemma `StoreCall` that no step of any call changes the owner of
an allocated record. `IInv` then says that its messages are the asker's.

**DoneIsStored and Remembers** are theorems for a process without a database under any
interleaving, and with one if its callers wait for each other (`Orderly`): with two calls
that load at once, one of the two records is lost, and its messages with it (section 7).
`DoneInv`: until somebody asks to delete, every call that goes on with a record goes on
with the cache entry (`OneRecord`); what was asked of the store is what the place of the
turn says (`Tasks`, `Follows`); and a message whose call is past its push is in the
record, the reply behind its question (`Stored`). `RecallInv` carries this over to a later
turn: what the memory store holds of a turn (`Noted`), and that the record found, the
events recalled and the prompt hold every turn that was over before (`Recalls`) - or, of the
events, that turn's question is older than the newest `limit` of them. The limit is any
number: what is read is the end of the log (`Newest`), and a log only grows.

**CompleteReply** needs `Planned` (each specialist once), `Known` (an error that was
suffered is known by the flag of the path the turn is on, and the specialists still
to be asked have suffered none), `Answered` (the answers are those of the
specialists asked so far) and `Attributed` (whose tokens the text and the reply
hold). That the plan has no repetition is used: asked twice, a specialist could
succeed first and fail later.

**KeepsContract** is a refinement of `TurnContract`, which sees the words a client
keeps, whether an error was told, whether the turn is lost, the message stored and how
the turn was closed. An error is told only by an error frame; a turn is lost when a lone
specialist failed (`Swallowed`). The contract allows such a turn nothing but an empty
message and a plain `done`, and no other turn to be silent, so the refinement says that
this is the one way in which a failure is kept from the client; that it is kept from it
is `turn_told` (section 7). `KInv` relates these to the state of the turn: an error
frame is there exactly when the turn has failed (`Told`), a lost turn has not
(`Silent`), and the words shown are those of the text being made, or will be those of
the reply (`Matching`). What is shown is computed from all frames by recursion over
their number; the lemmas `OnlyAppend` and `ShownSent` say what one more frame adds. They
rest on `Recursion`: a function defined by recursion over the numbers satisfies its
equation, which is proved by building the function up to each number, and `FromZero`,
induction stated for sets of numbers instead of for predicates.

**NotDegraded, OneLoad.** `MInv` (of `McpClientProofs`) says what a
caller has got at each place (`Placed`): a turn that has not loaded has no tools, and
who lists does so over a real connection, so a list that was listed is never the one of
a load that failed. A turn that is handed the list of a failed load looks at its own
token before it takes it; that is why only its own failures leave it without tools
(`OwnFailures`). `Owner` is the heart of `OneLoad`: until some load comes back empty,
the promise is of whoever loads, and a second caller finds it.

**OwnScoresFirst** is inductive with the domain of `reports` (`Reported`): what a call
reports is decided in the one step in which its answer arrives, by
`extractScoresFromResult`, before it looks at what others left in the shared variable.

**PersistedIsStored** (`WInv`): the operations of a bulk are done in order, and as long as
none has failed, each one done holds its fact: there is a row under its hash, or there was
one when it was done and its time came later (`Writing`, `Held`). Other writes only add rows,
one for a hash that has none (`Adds`); the TTL monitor removes one row and notes with it the
facts of those operations alone that had been done (`Lapses`), so a row that expired before
a write came to its fact excuses nothing.

**OutageStillRecalls** (`RInv` of `LongTermMemoryProofs`): what the user had told the agent
when the read began is of that user and agent and is still there unless it was old, and a
read that ends with nothing has looked at a time at which nothing of it was left
(`Reading`). That a find over rows that are there gives some is the lemma `FindsSome`.

**RecallsOwnOnce** (`LInv` of `LongTermMemoryProofs`): whatever a read holds - the
answers of its searches, the ranked lists, what it found by keyword - is of rows of its
own user, and what it injects is `Injectable`: at most `TopK` rows, none twice, none of
this session (`Recalling`). The work is in the ranking: sorting permutes the items of a
list (`SortsItems`), the fusion makes one item of a row that several searches found
(`Merges`), weights and floor change or drop items and add none (`Weighs`,
`KeepsItems`), and diversification picks one that it has not picked before (`NextIsNew`,
`Diversifies`); so what `hybridRetrieve` answers has each row once (`Retrieves`). `WInv`
is needed since a read can see a row while it is written.

**BestFirst** (the theorem `BestComesFirst`) follows a row `b` that is ahead of `a` in every
list that has `a`, of the same collection and age, through the ranking. The lists of a read
are numbered and have no row twice (`Clean`, a part of `LInv`), so the fused hits have for
each hit of `a` one of `b` that comes before it and has a smaller rank, another for each
(`Outdone`; for one list `OneOutdone`, for all of them `JoinedOutdone`). A smaller rank has no
smaller share, and sums follow (`SumGrows`: sums do not depend on the order of adding), so `b`
leads `a` (`Leads`): its item comes before and scores no less. Sorting is stable and keeps
that (`SortKeepsLead`), weights and decay multiply both scores by the same number
(`WeighsLead`), a floor that lets `a` through lets `b` through (`KeepsLead`), and
diversification takes the first first (`Diversifies`); so `a` is not what is injected
(`RetrievesBest`). The shares are those of the model, rounded down to whole
units, but all that is used of them is that a smaller rank has no smaller one, as in the code.
That nothing of this session was found is needed: it is dropped after the cut to `TopK`.

**AnsweredOnce, NoWayBack, DecisionsOwn** (`SInv` of `SwarmStreamProofs`): a node that has
answered as text has yielded content, after which the structured output is not streamed,
and one that answered by it suppresses its tokens (`Answered`); the orchestrator is
announced by its first invocation (`Announced`) and the hook cancels it after a specialist
(`OneWay`); what is kept of a node's reasoning are the last `MaxReasoning` symbols of what it
said since it was entered (`InCharacter`), so a handover is explained from there. The code cuts
after each chunk; that this gives the end of the whole is `LastOfLast`, which adds a chunk to
what was cut before. That the alternatives of a handover
are all the agents it could have gone to, the best score first, is the lemma
`AlternativesListed`: scores are natural numbers (`EntryNat`), and a stable sort of them
lists every place once, in falling order (`ArrangedIs`).

**AgentUpToDate and RefusedByOwnLoad.** `RInv` (of `RoutingProofs`): a stamp is given
out once and every file has one that was given out (`Stamped`); the file a turn asked
for is as old as it was then or newer, or gone (`AskedFor`), which makes a persona
read later at least as new (`PersonaFresh`); what is built is made from what was asked for, its
persona included (`MadeFor`, `TemplateFresh`); only agents with all their tools are kept
(`CacheWhole`). That the first file by name
is found uses that a set of numbers has a least one (`FirstPlace`).

**SkillsOfOwnTurn.** `SInv` (of `RoutingProofs`): a registry that is shared - cached, or
being built for the cache - has nothing that can still be activated (`Settled`), except
skills that were written since; a turn works with a registry of its own, or with a
shared one (`HeldBy`); and its own is touched by nobody else (`Own`). In the API no turn
has an agent.

**DecisionsOfRoster.** `DInv` (of `RoutingProofs`): a decision that is remembered is `Due`, and
a model that was asked has been offered what was the roster when it was asked (`Offer`). A
refresh clears the decisions in the step in which it replaces the root; the candidates, from
their cache or not, are the agents of the files in force (`CandidatesListed`, `NowListed`).
What the gates select are candidates (`SelectedListed`), and what is used of an answer was
offered (`UsableOffered`). The hypothesis `RefreshedOnly` is that an API process gets its
files by refreshes alone. It is needed: `docs/agent-authoring-guide.md:39` says that edits in
the directory "hot-reload without restarting", and a file removed that way invalidates no
decision (section 7).

**ArrangedIs** (`RankingProofs`) is what the rankings rest on. `ByScore` takes for each place
the item with so many items ahead of it; that there is exactly one uses that a finite set
in a strict order has no two members with the same number ahead (`RankGrows`), and that
numbers from 1 to the size of the set are all taken (`RankNumbers`). `Kept` and `Joined` are
functions by recursion over the places of a list; they exist (`StepsExist`), so they satisfy
their equations (`KeepsToEach`, `JoinsEach`), and induction over the places gives what their
items are (`KeptItems`, `JoinedIn`).

The assumptions on the constants that the proofs use are weak and hold of the code:
turns are not builds that warm the cache, a runtime is warmed only at its start,
`AtBuild` is not `Nobody`, messages and answers are sequences, weights and points of
words are natural numbers, a handoff list is a sequence, every age has a decay and every
collection a weight, a request for another tool than the vector search has the three
fields its arguments are read by, no message is the sign of its absence
(`MessageAssumption`), the parent of a root event is no event's name
(`RelayAssumption`), what the swarm's model says is made of the symbols of its texts, a
turn has a number of facts at most, and the facts of the start are finitely many rows of
known users. The hypotheses of single theorems (`"find" \notin Faults`, `MaxActive <=
1`, `Orderly`) are the conditions under which section 7 says the property holds: each is
needed, and the runs that check the property are configured by it.

**Model-checked only**, on the bounds of section 4:

- liveness (`CallsReturn`, `TurnEnds`, `WaitsEnd`, `EveryoneAnswered`): it depends on
  fairness, out of the prover's reach;
- `FilterExact`: what `filterTokens` gives for every text cut into chunks at any place is
  an induction over texts.

## 7 Where the code and its documents part

Two statements have a run each that shows a short counterexample.

**A list without tools is kept** (`mcp_heals`,
`adapters/mongodb-mcp-client.ts:1360`). `lib/create-strands-agent.ts:163-164` says that
after a build without tools the next turn "re-attempts getMcpTools() and can recover
automatically once MCP is reachable again". That holds of a load that fails. A gateway
that answers and lists nothing leaves an empty array, which is as good as a full one to
the test of line 1360: every later turn is given it, and the process does not ask again
until a call is rejected - and there are no tools to call.

**A failure nobody is told of** (`turn_told`, `lib/multi-specialist-orchestrator.ts:425`).
`docs/api-reference.md:105` says of the `error` frame "Terminal failure. Followed by `done`.",
and line 186 lists the runtime that fails among the errors. That holds of a turn that is
routed directly, and of one with several specialists. Where one specialist was selected, its
failure is an empty answer and no error: an empty message is stored, and `done` reports
success. `FailureTold` says what the document says, and TLC finds the turn.

The other disagreements were met while modelling. They have no run of their own; each
is what the modelled code does, and where it touches a property, the property names
the exception.

*Sessions and turns*

- A `findOne` that fails is answered like a session that does not exist
  (`lib/session-store.ts:288`). An append then creates an empty record for its caller
  and writes it over the stored session, which may be another user's, or a legacy one
  that is "denied, not claimed". `Isolation` still holds: messages are lost, not shown.
- Two appends that both miss the cache load two records (`lib/session-store.ts:287`);
  each pushes to its own and writes the whole document. The later write drops the
  message of the earlier one, which was acknowledged.
- The id given to `setLastTraceId` (`routes/chat.ts:762`) is never that of a stored
  message, so the last assistant message of the session is tagged, which may belong to
  a concurrent turn, or to an earlier one if this one failed.
- With the orchestrator's runtime in between, a specialist's events arrive forwarded
  (`agent-runtime-code.ts:336`) and again as part of what that runtime spliced. The
  span tree merges them by id; the counters of the summary do not.

*MCP client*

- "Every MongoDB MCP tool call is intercepted to inject `{ userId: jwt.sub }`"
  (`adapters/mongodb-mcp-client.ts:1107-1111`), and "every query is still bounded to the
  current user's data" (lines 1147-1151). The hybrid search is not in `READ_FILTER_TOOLS`
  (line 1128), and an aggregate whose first `$match` already names a user is left as it is;
  both are modelled as they are (`scopedArgs`). Since no statement about all calls holds,
  none about the arguments of a call is made here.
- The header says of a rejected call that it "is retried once" (lines 20-22); the code
  does not, and says so at line 1290.
- Scores that a call left in the shared variable stay there when the next search
  brings its own, and are reported by a later search that brings none.
- `lib/prewarm.ts` explains that connecting without a caller's token leaks an empty
  list to the first turn, and no longer does it at the start; `warmAgentCache` builds
  agents, which load the tools, without a token. `shouldRetryDegradedMcpSingleton` is
  what protects the turns that have one (`NotDegraded`).

*Long-term memory*

- `docs/long-term-memory-design.md:370`: "a memory failure must never break the chat
  turn". The read awaits `getMongoDb` outside of every `try`
  (`lib/long-term-memory.ts:1053`): a database that cannot be reached fails the turn.
- The same document (line 360) has a write without a database mirrored to AgentCore's
  store; the code skips it before it gets there. Nothing reads that store.
- "All four retrieval legs throw": no prompt block, says
  `docs/long-term-memory-design.md:366`; and the comment at
  `lib/long-term-memory.ts:1029-1030` has an empty result when the query cannot be embedded
  and the lexical search finds nothing. The code goes on to the finds by keyword and by
  recency (lines 1172-1196), as another comment (1005-1007) has it: "This preserves recall
  during Atlas index build/outage windows". `OutageStillRecalls` asserts what the code
  does, against the first two.
- The fallback by keyword reads this agent's facts alone, though the comment of the
  reader (`lib/long-term-memory.ts:1033-1035`) promises facts across agents.
- Hits of the session that is asked in are dropped after the cut to the best
  (line 1153), so they can take the place of hits that would have been injected.
- The TTL index is tried once by a process (line 211), whether that succeeds or not.

*Swarm*

- When a chunk holds a whole response tag and ends in `<`, the filter returns before it
  looks at the end, and what follows the `<` is shown though it be reasoning
  (`FilterExact` excludes `cut`).
- The buffers of the filter are not reset when a node is entered: what a node leaves
  open swallows words of the next (`open`).
- The message of the structured output is dropped when text was streamed before.
- `lib/create-strands-agent.ts:54-60` says that the chat stream "MUST surface" an agent
  without its tools; the swarm does not look at `mcpDegraded`.

*Routing and configuration*

- Decisions are remembered by message alone. The answer of a call that was in flight
  during a refresh is about the old roster, and is remembered after it
  (`DecisionsOfRoster` names the case).
- A file edited in place invalidates no decision, and one whose body alone changes does
  not invalidate the candidates either.
- A refresh with HTTP tools without a list of hosts answers `500 REFRESH_FAILED`
  (`routes/agent-config-refresh.ts:123`) with the new configuration in force and the
  old HTTP tools.
- An agent that a refresh removes falls back to the runtime of the environment.
- A skill whose `SKILL.md` appears after an agent was built can be activated in a
  registry that turns share (`late`). The orchestrator ships with `skills: []`, so the
  case that registries made by each turn are for does not occur with the shipped
  configuration.

## 8 Abstractions

Each model keeps the control of the code and leaves out data its properties do not
tell apart.

- *SessionStore.* One session id: no operation touches two sessions. One API process,
  as deployed. The server's application of a write and its acknowledgement are one
  step, so an operation in flight at a restart took effect before it or never.
  Writes of concurrent calls are applied in any order, since they travel over a pool
  of connections. A list's summaries are represented by the messages they count; the
  embedding of a mirrored row is left out.
- *TraceStore.* A trace stands for its number of events; its expiry in the database,
  its projection, the owner check of the routes and the listing are left out.
  `disturbed` is a history variable: the traces that two calls worked on at once or
  whose save failed. `RingIsDocument` and `StoredIsNewest` say nothing of those: a
  read that is under way can put back an older snapshot, and an older save can come
  last.
- *Orchestration.* A token is a word or blank text. Trace, tool and skill frames are
  left out. A stream that ends without `done` is treated like a good one, as in the
  code. A client that disconnects only turns writes into no-ops. A classifier that
  throws selects nobody. Repeated errors of one stream are one. The refinement
  compares the words that are not blank.
- *ChatTurn.* The memory store is external and keeps an actor's events in the order
  they were written; the page of events that the code asks it for is taken to hold the
  newest. The limit of 40 events is any number in the model; the cuts of a message at
  2000 and 4000 characters are left out.
  Tracing is on. `before` and `lossy` are history variables. The mirror and restarts
  are left out here. `DoneIsStored` and `Remembers` are about behaviours in which
  nobody asks to delete the session: with a delete in between, the reply reopens the
  session without its question, or is refused and shown but stored nowhere.
- *TraceCollector, TraceRelay.* A payload is its size, and trimming makes it fit.
  Time stamps and their clamping, redaction, metrics, OpenTelemetry spans, model
  usage (counted the way MCP calls are), checkpoint and observability events are left
  out. A stream that breaks is seen by its caller as an end or as an exception. The
  orchestrator's runtime breaks only when none of its specialists is under way: what
  a specialist records after its caller is gone reaches nobody.
- *LongTermMemory, Retrieval, Embedding.* The model, the embedders and the search
  indexes are external: a search returns any of the user's rows, in any order. A row
  stands for its document; a text is a name with its lower-case and its normalised
  form. Scores are exact integers in place of floating-point numbers, ages are classes
  with a weight, and the similarity that diversification compares is that of equal
  vectors. The read that the orchestrator shares with its specialists, and the read of
  AgentCore's store, which nothing calls, are left out.
- *McpClient, McpTools.* The gateway and the server behind it are external. A list of
  tools remembers the connection it was listed over. Collections and filters are
  reduced to the user they name. Previews, histograms and the events that are replayed
  into the trace are left out.
- *SwarmStream.* A tag is `<` and a symbol for the rest of it, so it can be cut in two
  at one place; longer cuts repeat that one. Words are symbols: one for the user, one of
  reasoning; the 4096 characters of reasoning that are kept are `MaxReasoning` symbols.
  Which agent comes next is the model's choice, so any may.
- *Routing, Classifier, AgentTools.* The caches of single files, keyed by path and time
  of change, are left out: a hit is what a read returns. An agent's id is the name of its
  file, and a file is parsed, and its persona read, in one step. A text is a sequence of
  words with points. Refresh and turns of the API, and turns and edits of a runtime, are
  separate behaviours, since no process has both. How the gateway's tools come is a
  choice here.

## 9 What is not modelled

- *Authentication, rate limiter.* A caller is a verified user. The limiter is a fixed
  window for each key: one counter, one time, no interleaving.
- *MCP server.* The far side of the gateway: stateless handlers that pass one operation
  each to MongoDB.
- *Health details, metrics, logging, trace projection and listing, catalogue routes.*
  They observe the system and change nothing in it. The two probes that use the shared
  MCP connection are part of `McpClient`.
- *Reading AgentCore's store as long-term memory.* Nothing calls it.
- *Knowledge base and multimodal tools.* Single calls of a service; that an agent may
  have them is part of `AgentTools`.
- *User interface.* A client of the API in another language.
- *Deployment, seeding, infrastructure.* They run before the system does.
- *Configuration, tests, documents.* The texts the models are compared with.

## 10 Plan

The order is by what a fault would cost: tenant isolation and the loss of messages
first, then the answer of a turn, then the traces, then the caches and services around
them.

Done: `SessionStore` with `SessionLog`, `TraceStore`, `Orchestration` with
`TurnContract`, `ChatTurn`, `TraceCollector` with `TraceRelay`, `LongTermMemory` with
`Retrieval` and `Embedding`, `McpClient` with `McpTools`, `SwarmStream` with
`HandoffAttribution`, `Routing` with `Classifier` and `AgentTools`, and the proofs of
section 6.

What would come next:

1. `FilterExact` for texts cut into chunks at any place.
2. The writes to long-term memory composed with `ChatTurn`: they begin after `done` and
   run into the next turn of the session.
3. The rate limiter: how many requests any interval lets pass.

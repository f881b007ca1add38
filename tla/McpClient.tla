------------------------------ MODULE McpClient ------------------------------
(***************************************************************************)
(* The one MCP client of a process (adapters/mongodb-mcp-client.ts): the   *)
(* connection to the gateway and the list of its tools, each held in a     *)
(* variable of the module that every turn and every health probe shares,   *)
(* and the calls the turns make of those tools.                            *)
(*                                                                         *)
(* A caller is a turn, which asks for the tools and then calls some, or a  *)
(* probe of /health or /health/deep, which answers when a timer fires      *)
(* though its work goes on.  Callers interleave at every await; what runs  *)
(* from one await to the next is one step, and every caller that waited    *)
(* for a load resumes before anything else happens.  The gateway is        *)
(* external: it accepts no request without a token, takes a good token and *)
(* may reject an old one, may fail at anything, and may list no tools.     *)
(***************************************************************************)
EXTENDS McpTools

CONSTANTS
  Callers, NoCaller,
  Casts,          \* who there is: kind[c] is "turn", "probe", "deep" or "absent", and
                  \* calls[c] bounds the calls of turn c
  Token,          \* Token[c]: its JWT: "none", "good" or "old"
  User,           \* User[c]: the user it is for, or NoUser
  Endpoints,      \* the environments: [gateway, override, dev], each a BOOLEAN
  Listings,       \* what the gateway may list
  Requests,       \* what a model may ask for: [tool, input]
  Results,        \* the kinds of answer to a call: [shown, enveloped, traced], how many of each
  Provider        \* EMBEDDINGS_PROVIDER

KindsOfCaller == {"turn", "probe", "deep", "absent"}

ASSUME McpAssumption ==
  /\ NoCaller \notin Callers /\ NoUser \notin Users
  /\ Token \in [Callers -> {"none", "good", "old"}]
  /\ User \in [Callers -> Users \cup {NoUser}]
  /\ Casts \subseteq [kind : [Callers -> KindsOfCaller], calls : [Callers -> Nat]]
  /\ MaxTraceScores \in Nat \ {0}

VARIABLES
  endpoint,   \* the environment
  kind,       \* kind[c]: what c is
  client,     \* _mcpClient: the number of a connection, or 0 for null
  opened,     \* how many connections there have been
  tools,      \* _mcpTools: a list of tools, or NoTools for null
  promise,    \* _mcpToolsPromise: the caller whose load it is, or NoCaller
  pending,    \* pendingMcpVectorScores
  at,         \* at[c]: where c is
  over,       \* over[c]: the connection it uses
  tries,      \* tries[c]: attempts to load that failed
  awaited,    \* awaited[c]: whose load it waits or waited for
  got,        \* got[c]: the tools getMcpTools gave it
  calls,      \* calls[c]: how many calls it may still make
  request,    \* request[c]: the vector search it is embedding, or in flight
  sent,       \* sent[c]: what it has sent and not seen answered
  said,       \* said[c]: what a probe answered
  reports     \* reports[c]: the scores of its last vector search, and its own

shared == <<client, opened, tools, promise>>
caller == <<over, tries, awaited, got, calls, request, sent, said, reports>>
vars == <<endpoint, kind, shared, pending, at, caller>>

-----------------------------------------------------------------------------
(* A list of tools remembers the connection it was listed over; the list   *)
(* of a load that failed is over none.                                     *)
ToolList(conn, listing) == [conn |-> conn, tools |-> Exposed(listing)]
Degraded == ToolList(0, {})
NoTools == [conn |-> -1, tools |-> {}]
HasNone(list) == list # NoTools /\ list.tools = {}
Nothing == [tool |-> "none"]
NoReport == [scores |-> <<>>, own |-> <<>>]

configuredMcpServerUrl == endpoint.gateway \/ (endpoint.override /\ endpoint.dev)

Init ==
  /\ endpoint \in Endpoints
  /\ \E cast \in Casts : kind = cast.kind /\ calls = cast.calls
  /\ client = 0 /\ opened = 0 /\ tools = NoTools /\ promise = NoCaller /\ pending = <<>>
  /\ at = [c \in Callers |-> "idle"]
  /\ over = [c \in Callers |-> 0]
  /\ tries = [c \in Callers |-> 0]
  /\ awaited = [c \in Callers |-> NoCaller]
  /\ got = [c \in Callers |-> NoTools]
  /\ request = [c \in Callers |-> Nothing]
  /\ sent = [c \in Callers |-> Nothing]
  /\ said = [c \in Callers |-> "nothing"]
  /\ reports = [c \in Callers |-> NoReport]

Loading(c) == kind[c] = "turn" /\ at[c] \in {"connecting", "listing"}
Resumes(c) == at[c] = "waiting" /\ ~Loading(awaited[c])
Settled == \A c \in Callers : ~Resumes(c)

(* jwtInjectingFetch sends the token of whoever makes the request, whoever *)
(* opened the connection.                                                  *)
Accepted(c) == configuredMcpServerUrl /\ Token[c] \in {"good", "old"}
Rejected(c) == configuredMcpServerUrl /\ Token[c] \in {"none", "old"}

-----------------------------------------------------------------------------
(* getMcpTools.                                                            *)

shouldRetryDegradedMcpSingletonMutant(inflight, hasJwt) == FALSE

shouldRetryDegradedMcpSingleton(inflight, hasJwt) == HasNone(inflight) /\ hasJwt

(* ensureMcpClient, up to its first await.                                 *)
Ensure(c) ==
  IF client # 0
  THEN at' = [at EXCEPT ![c] = "listing"] /\ over' = [over EXCEPT ![c] = client]
  ELSE at' = [at EXCEPT ![c] = "connecting"] /\ UNCHANGED over

StartLoad(c) ==
  /\ promise' = c
  /\ Ensure(c)

AskMutant(c) ==                     \* does not wait for the load of another
  /\ kind[c] = "turn" /\ at[c] = "idle"
  /\ \/ /\ tools # NoTools
        /\ got' = [got EXCEPT ![c] = tools] /\ at' = [at EXCEPT ![c] = "ready"]
        /\ UNCHANGED <<promise, over, awaited>>
     \/ tools = NoTools /\ StartLoad(c) /\ UNCHANGED <<got, awaited>>
  /\ UNCHANGED <<endpoint, kind, client, opened, tools, pending, tries, calls, request, sent, said, reports>>

Ask(c) ==
  /\ kind[c] = "turn" /\ at[c] = "idle"
  /\ \/ /\ tools # NoTools
        /\ got' = [got EXCEPT ![c] = tools] /\ at' = [at EXCEPT ![c] = "ready"]
        /\ UNCHANGED <<promise, over, awaited>>
     \/ /\ tools = NoTools /\ promise # NoCaller
        /\ awaited' = [awaited EXCEPT ![c] = promise] /\ at' = [at EXCEPT ![c] = "waiting"]
        /\ UNCHANGED <<promise, over, got>>
     \/ /\ tools = NoTools /\ promise = NoCaller
        /\ StartLoad(c) /\ UNCHANGED <<got, awaited>>
  /\ UNCHANGED <<endpoint, kind, client, opened, tools, pending, tries, calls, request, sent, said, reports>>

(* After the wait neither the tools nor the promise are looked at again.   *)
Resume(c) ==
  /\ Resumes(c)
  /\ LET inflight == got[awaited[c]]
     IN \/ /\ ~shouldRetryDegradedMcpSingleton(inflight, Token[c] # "none")
           /\ got' = [got EXCEPT ![c] = inflight] /\ at' = [at EXCEPT ![c] = "ready"]
           /\ UNCHANGED <<promise, over>>
        \/ /\ shouldRetryDegradedMcpSingleton(inflight, Token[c] # "none")
           /\ StartLoad(c) /\ UNCHANGED got
  /\ UNCHANGED <<endpoint, kind, client, opened, tools, pending, tries, awaited, calls, request, sent, said, reports>>

(* The promise is set to null whosever it has become.                      *)
LoadEnds(c, list) ==
  /\ got' = [got EXCEPT ![c] = list]
  /\ at' = [at EXCEPT ![c] = "ready"]
  /\ promise' = NoCaller

(* Of two attempts to load the second fails for good.                      *)
AttemptFails(c) ==
  /\ client' = 0
  /\ tries' = [tries EXCEPT ![c] = @ + 1]
  /\ \/ tries[c] = 1 /\ LoadEnds(c, Degraded)
     \/ tries[c] = 0 /\ at' = [at EXCEPT ![c] = "connecting"] /\ UNCHANGED <<got, promise>>

-----------------------------------------------------------------------------
(* The probes.  Their work is raced by a timer, and goes on when it loses. *)

Say(c, what) == said' = [said EXCEPT ![c] = IF @ = "nothing" THEN what ELSE @]

Probe(c) ==
  /\ kind[c] \in {"probe", "deep"} /\ at[c] = "idle" /\ Token[c] # "none"
  /\ Ensure(c)
  /\ UNCHANGED <<endpoint, kind, shared, pending, tries, awaited, got, calls, request, sent, said, reports>>

ProbeTimerMutant(c) == FALSE /\ UNCHANGED vars

ProbeTimer(c) ==
  /\ at[c] # "idle" /\ kind[c] # "turn" /\ said[c] = "nothing"
  /\ Say(c, IF kind[c] = "probe" THEN "unreachable" ELSE "timeout")
  /\ UNCHANGED <<endpoint, kind, shared, pending, at, over, tries, awaited, got, calls, request, sent, reports>>

ProbeEnds(c, what) == at' = [at EXCEPT ![c] = "done"] /\ Say(c, what)

-----------------------------------------------------------------------------
(* The gateway's answers to connect and to listTools.                      *)

Connect(c) ==
  /\ at[c] = "connecting" /\ Accepted(c)
  /\ opened' = opened + 1 /\ client' = opened'
  /\ over' = [over EXCEPT ![c] = opened']
  /\ at' = [at EXCEPT ![c] = "listing"]
  /\ UNCHANGED <<endpoint, kind, tools, promise, pending, tries, awaited, got, calls, request, sent, said, reports>>

(* A rejected token resets the connection; any other failure is thrown to  *)
(* the load, which resets it too, or to the probe, which does not.         *)
ConnectFails(c) ==
  /\ at[c] = "connecting"
  /\ \E rejected \in BOOLEAN :
       /\ rejected => Rejected(c)
       /\ ~rejected => (configuredMcpServerUrl => Token[c] # "none")
       /\ \/ kind[c] = "turn" /\ AttemptFails(c) /\ UNCHANGED said
          \/ /\ kind[c] # "turn" /\ ProbeEnds(c, "unreachable")
             /\ client' = IF rejected THEN 0 ELSE client
             /\ UNCHANGED <<tries, got, promise>>
  /\ UNCHANGED <<endpoint, kind, opened, tools, pending, over, awaited, calls, request, sent, reports>>

QueryTool(listing) == {t \in listing : stripGatewayTargetPrefix(t) = "mongodb_query"}
DeepQuery == [collection |-> "products", filter |-> NoUser, documents |-> <<>>, pipeline |-> NoUser]

List(c) ==
  /\ at[c] = "listing" /\ Accepted(c)
  /\ \E listing \in Listings :
       \/ /\ kind[c] = "turn"
          /\ tools' = ToolList(over[c], listing) /\ LoadEnds(c, tools')
          /\ UNCHANGED <<sent, said>>
       \/ /\ kind[c] = "probe" /\ ProbeEnds(c, "connected")
          /\ UNCHANGED <<tools, got, promise, sent>>
       \/ /\ kind[c] = "deep" /\ QueryTool(listing) = {} /\ ProbeEnds(c, "unreachable")
          /\ UNCHANGED <<tools, got, promise, sent>>
       \/ /\ kind[c] = "deep" /\ QueryTool(listing) # {}
          /\ at' = [at EXCEPT ![c] = "calling"]
          /\ sent' = [sent EXCEPT ![c] =
               [tool |-> "mongodb_query", args |-> scopedArgs("mongodb_query", DeepQuery, User[c])]]
          /\ UNCHANGED <<tools, got, promise, said>>
  /\ UNCHANGED <<endpoint, kind, client, opened, pending, over, tries, awaited, calls, request, reports>>

ListFails(c) ==
  /\ at[c] = "listing"
  /\ \/ kind[c] = "turn" /\ AttemptFails(c) /\ UNCHANGED said
     \/ kind[c] # "turn" /\ ProbeEnds(c, "unreachable") /\ UNCHANGED <<client, tries, got, promise>>
  /\ UNCHANGED <<endpoint, kind, opened, tools, pending, over, awaited, calls, request, sent, reports>>

-----------------------------------------------------------------------------
(* The calls of a turn.  A vector search is made into arguments first, and *)
(* embeds its words if it must; the call goes over the connection of the   *)
(* tool, which need not be the current one.                                *)

Tool(c, bare) == {t \in got[c].tools : t.name = bare}
Report(c, scores, own) == reports' = [reports EXCEPT ![c] = [scores |-> scores, own |-> own]]

Send(c, bare, args, asked) ==
  /\ sent' = [sent EXCEPT ![c] = [tool |-> bare, args |-> scopedArgs(bare, args, User[c])]]
  /\ request' = [request EXCEPT ![c] = asked]
  /\ at' = [at EXCEPT ![c] = "calling"]

CallTool(c) ==
  /\ kind[c] = "turn" /\ at[c] = "ready" /\ calls[c] > 0
  /\ \E r \in Requests :
       /\ r.tool # Vector_ /\ Tool(c, r.tool) # {}
       /\ Send(c, r.tool, r.input, Nothing)
  /\ calls' = [calls EXCEPT ![c] = @ - 1]
  /\ UNCHANGED <<endpoint, kind, shared, pending, over, tries, awaited, got, said, reports>>

(* An error result at once, or on to the call: stream after the transform. *)
Transformed(c, r, embedded) ==
  LET transform == transformVectorSearchArgs(r.input, embedded)
      unsupported == transform.ok /\ transform.target = Hybrid
                     /\ \A t \in Tool(c, Vector_) : t.helpers = {}
  IN \/ /\ ~transform.ok \/ unsupported
        /\ Report(c, <<>>, <<>>)
        /\ at' = [at EXCEPT ![c] = "ready"] /\ request' = [request EXCEPT ![c] = Nothing]
        /\ UNCHANGED sent
     \/ /\ transform.ok /\ ~unsupported
        /\ Send(c, transform.target, transform.args, r) /\ UNCHANGED reports

VectorSearch(c) ==
  /\ kind[c] = "turn" /\ at[c] = "ready" /\ calls[c] > 0
  /\ \E r \in Requests :
       /\ r.tool = Vector_ /\ Tool(c, Vector_) # {}
       /\ \/ /\ NeedsEmbedding(r.input)
             /\ at' = [at EXCEPT ![c] = "embedding"] /\ request' = [request EXCEPT ![c] = r]
             /\ UNCHANGED <<sent, reports>>
          \/ /\ ~NeedsEmbedding(r.input)
             /\ Transformed(c, r, Failure("no_provider_configured"))
  /\ calls' = [calls EXCEPT ![c] = @ - 1]
  /\ UNCHANGED <<endpoint, kind, shared, pending, over, tries, awaited, got, said>>

Embedded(c) ==
  /\ at[c] = "embedding"
  /\ \E answer \in Answers :
       Transformed(c, request[c], embedWithInputType(Provider, TRUE, "text", answer))
  /\ UNCHANGED <<endpoint, kind, shared, pending, over, tries, awaited, got, calls, said>>

(* VectorSearchEmbedTool.stream reports the scores of the answer it got,   *)
(* or those that are pending; an error is an answer without any.           *)
Returns(c, answer) ==
  LET scored == extractAndReplayMcpTraces(answer, pending)
  IN /\ sent' = [sent EXCEPT ![c] = Nothing] /\ request' = [request EXCEPT ![c] = Nothing]
     /\ \/ /\ request[c].tool = Vector_
           /\ Report(c, ReportedScores(answer, scored), answer.shown)
           /\ pending' = PendingAfter(answer, scored)
           /\ at' = [at EXCEPT ![c] = "ready"] /\ UNCHANGED said
        \/ /\ request[c].tool # Vector_ /\ pending' = scored
           /\ IF kind[c] = "turn"
              THEN at' = [at EXCEPT ![c] = "ready"] /\ UNCHANGED said
              ELSE ProbeEnds(c, IF answer = ErrorResult THEN "unreachable" ELSE "connected")
           /\ UNCHANGED reports

Scored(c, n) == [i \in 1..n |-> c]
Answered(c) ==
  /\ at[c] = "calling" /\ Accepted(c)
  /\ \E a \in Results :
       Returns(c, Answer(Scored(c, a.shown), a.enveloped, Scored(c, a.traced)))
  /\ UNCHANGED <<endpoint, kind, shared, over, tries, awaited, got, calls>>

(* A rejected call resets the connection and the tools, whatever they have *)
(* become since; the call is not made again.                               *)
CallFails(c) ==
  /\ at[c] = "calling"
  /\ \E rejected \in BOOLEAN :
       /\ rejected => Rejected(c)
       /\ client' = IF rejected THEN 0 ELSE client
       /\ tools' = IF rejected THEN NoTools ELSE tools
  /\ Returns(c, ErrorResult)
  /\ UNCHANGED <<endpoint, kind, opened, promise, over, tries, awaited, got, calls>>

-----------------------------------------------------------------------------
LoadStep(c) == Connect(c) \/ ConnectFails(c) \/ List(c) \/ ListFails(c)
CallStep(c) == CallTool(c) \/ VectorSearch(c) \/ Embedded(c) \/ Answered(c) \/ CallFails(c)

Next ==
  \/ \E c \in Callers : Resume(c)
  \/ Settled /\ \E c \in Callers : Ask(c) \/ LoadStep(c) \/ CallStep(c) \/ Probe(c) \/ ProbeTimer(c)

(* A request that is not answered fails by the SDK's own timeout; nothing  *)
(* is assumed of the requests a probe makes, only that its timer fires.    *)
Fairness ==
  \A c \in Callers :
    /\ WF_vars(Resume(c))
    /\ WF_vars(Settled /\ kind[c] = "turn" /\ LoadStep(c))
    /\ WF_vars(Settled /\ ProbeTimer(c))

Spec == Init /\ [][Next]_vars
McpSpec == Spec /\ Fairness

-----------------------------------------------------------------------------
(* A turn with a token is left without tools by its own two failures, or   *)
(* because the gateway lists none: never because it shared the load of     *)
(* somebody who had no token.                                              *)
NotDegraded ==
  \A c \in Callers : got[c] = Degraded /\ Token[c] # "none" => tries[c] = 2

(* The callers share one load.  Two are under way at once only after a     *)
(* load has come back with nothing.                                        *)
OneLoad ==
  (\E c, d \in Callers : c # d /\ Loading(c) /\ Loading(d))
    => \E c \in Callers : HasNone(got[c])

(* A search that found something reports the scores of what it found,      *)
(* whatever other calls left in the shared variable meanwhile.             *)
OwnScoresFirst ==
  \A c \in Callers :
    reports[c].own # <<>> => reports[c].scores = FirstScores(reports[c].own)

(* Nobody waits for ever: neither a turn for tools, however often the load *)
(* it shares comes back with nothing, nor the caller of a health check for *)
(* a gateway that never answers.                                           *)
EveryoneAnswered ==
  \A c \in Callers :
    /\ (kind[c] = "turn" /\ at[c] # "idle") ~> (got[c] # NoTools)
    /\ (kind[c] # "turn" /\ at[c] # "idle") ~> (said[c] # "nothing")

(* create-strands-agent.ts:163-164: the next turn after one that was left  *)
(* without tools "re-attempts getMcpTools() and can recover automatically  *)
(* once MCP is reachable again".  So a turn that has a token and gets no   *)
(* tools has itself asked the gateway for them.                            *)
Reattempts ==
  \A c \in Callers :
    HasNone(got[c]) /\ Token[c] # "none" => tries[c] = 2 \/ got[c].conn = over[c]
==============================================================================

---------------------------- MODULE McpClientProofs ----------------------------
(***************************************************************************)
(* The tools are loaded once for all who wait for them, nobody with a      *)
(* token loses them to somebody without, and no search reports another's   *)
(* scores before its own: for any callers, tokens, requests and answers of *)
(* the gateway.                                                            *)
(***************************************************************************)
EXTENDS McpClient, TLAPS

(* Where a turn is before it has its tools, and where it is afterwards.    *)
Before == {"idle", "waiting", "connecting", "listing"}
After == {"ready", "embedding", "calling", "done"}

Shape ==
  /\ DOMAIN at = Callers /\ DOMAIN over = Callers /\ DOMAIN tries = Callers
  /\ DOMAIN awaited = Callers /\ DOMAIN got = Callers

(* Connections are counted from 1, and a list that is kept is over one.    *)
Connected ==
  /\ client \in Nat /\ opened \in Nat /\ tools # Degraded
  /\ promise \in Callers \cup {NoCaller}

(* A caller lists over a connection; who waits is a turn, and waits for a  *)
(* caller; a turn has no tools before it has loaded some.                  *)
Placed(c) ==
  /\ at[c] = "listing" => over[c] \in Nat \ {0}
  /\ at[c] = "waiting" => kind[c] = "turn" /\ awaited[c] \in Callers
  /\ kind[c] = "turn" /\ at[c] \in Before => got[c] = NoTools

OwnFailures(c) == got[c] = Degraded /\ Token[c] # "none" => tries[c] = 2

Callerwise == \A c \in Callers : Placed(c) /\ OwnFailures(c)

(* Until a load comes back with nothing, the promise is of whoever loads.  *)
Owner ==
  (\A c \in Callers : ~HasNone(got[c])) => \A c \in Callers : Loading(c) => promise = c

MInv == Shape /\ Connected /\ Callerwise /\ Owner

-----------------------------------------------------------------------------
LEMMA NothingIsNoDegraded == Degraded # NoTools /\ HasNone(Degraded) /\ ~HasNone(NoTools)
BY DEF Degraded, NoTools, ToolList, HasNone, Exposed

-----------------------------------------------------------------------------
(* A step of one caller leaves the others where they are.                  *)
LEMMA OneCaller ==
  ASSUME MInv, NEW c \in Callers, UNCHANGED kind, Shape', Connected', Owner',
         \A d \in Callers \ {c} : /\ at'[d] = at[d] /\ over'[d] = over[d] /\ tries'[d] = tries[d]
                                  /\ awaited'[d] = awaited[d] /\ got'[d] = got[d],
         Placed(c)', OwnFailures(c)'
  PROVE  MInv'
<1>1. ASSUME NEW d \in Callers, d # c PROVE (Placed(d) /\ OwnFailures(d))'
  BY <1>1 DEF MInv, Callerwise, Placed, OwnFailures
<1> QED BY <1>1 DEF MInv, Callerwise

(* A turn that has its tools, or a probe that is past the connection,      *)
(* calls and is answered.                                                  *)
LEMMA Calls ==
  ASSUME MInv, NEW c \in Callers, UNCHANGED <<kind, opened, promise, over, tries, awaited, got>>,
         client' \in {client, 0}, tools' \in {tools, NoTools},
         NEW place \in After, at[c] \in After, at' = [at EXCEPT ![c] = place]
  PROVE  MInv'
<1>1. Shape'
  BY DEF MInv, Shape
<1>2. Connected'
  BY NothingIsNoDegraded DEF MInv, Connected
<1>3. /\ \A d \in Callers \ {c} : at'[d] = at[d]
      /\ at'[c] = place
  BY DEF MInv, Shape
<1>4. \A d \in Callers : Loading(d)' => Loading(d)
  BY <1>3 DEF Loading, After
<1>5. Owner'
  BY <1>4 DEF MInv, Owner
<1>6. Placed(c)' /\ OwnFailures(c)'
  BY <1>3 DEF MInv, Callerwise, Placed, OwnFailures, After, Before
<1> QED BY <1>1, <1>2, <1>3, <1>5, <1>6, OneCaller

(* A probe shares the connection and nothing else.                         *)
LEMMA Probes ==
  ASSUME MInv, NEW c \in Callers, kind[c] # "turn",
         UNCHANGED <<kind, tools, promise, tries, awaited, got>>,
         client' \in Nat, opened' \in Nat, NEW place, at' = [at EXCEPT ![c] = place],
         place # "waiting", DOMAIN over' = Callers, \A d \in Callers \ {c} : over'[d] = over[d],
         place = "listing" => over'[c] \in Nat \ {0}
  PROVE  MInv'
<1>1. Shape'
  BY DEF MInv, Shape
<1>2. Connected'
  BY DEF MInv, Connected
<1>3. (\A d \in Callers \ {c} : at'[d] = at[d]) /\ at'[c] = place
  BY DEF MInv, Shape
<1>4. \A d \in Callers : Loading(d)' => Loading(d)
  BY <1>3 DEF Loading
<1>5. Owner'
  BY <1>4 DEF MInv, Owner
<1>6. Placed(c)' /\ OwnFailures(c)'
  BY <1>3 DEF MInv, Callerwise, Placed, OwnFailures
<1> QED BY <1>1, <1>2, <1>3, <1>5, <1>6, OneCaller

-----------------------------------------------------------------------------
(* The calls.                                                              *)

LEMMA CallToolStep ==
  ASSUME MInv, NEW c \in Callers, CallTool(c)
  PROVE  MInv'
<1>1. /\ UNCHANGED <<kind, opened, promise, over, tries, awaited, got, client, tools>>
      /\ at[c] = "ready" /\ at' = [at EXCEPT ![c] = "calling"]
  BY DEF CallTool, Send, shared
<1> QED BY <1>1, Calls DEF After

(* The call of a vector search, or its error.                              *)
LEMMA TransformedStep ==
  ASSUME MInv, NEW c \in Callers, at[c] \in {"ready", "embedding"}, NEW r, NEW embedded,
         Transformed(c, r, embedded),
         UNCHANGED <<kind, opened, promise, over, tries, awaited, got, client, tools>>
  PROVE  MInv'
<1>1. PICK place \in After : at' = [at EXCEPT ![c] = place]
  BY DEF Transformed, Send, After
<1> QED BY <1>1, Calls DEF After

LEMMA VectorSearchStep ==
  ASSUME MInv, NEW c \in Callers, VectorSearch(c)
  PROVE  MInv'
<1>1. /\ UNCHANGED <<kind, opened, promise, over, tries, awaited, got, client, tools>>
      /\ at[c] = "ready"
  BY DEF VectorSearch, shared
<1>2. \/ at' = [at EXCEPT ![c] = "embedding"]
      \/ \E r \in Requests : Transformed(c, r, Failure("no_provider_configured"))
  BY DEF VectorSearch
<1>3. CASE at' = [at EXCEPT ![c] = "embedding"]
  BY <1>1, <1>3, Calls DEF After
<1> QED BY <1>1, <1>2, <1>3, TransformedStep

LEMMA EmbeddedStep ==
  ASSUME MInv, NEW c \in Callers, Embedded(c)
  PROVE  MInv'
<1>1. /\ UNCHANGED <<kind, opened, promise, over, tries, awaited, got, client, tools>>
      /\ at[c] = "embedding"
  BY DEF Embedded, shared
<1>2. \E embedded : Transformed(c, request[c], embedded)
  BY DEF Embedded
<1> QED BY <1>1, <1>2, TransformedStep

LEMMA ReturnStep ==
  ASSUME MInv, NEW c \in Callers, Answered(c) \/ CallFails(c)
  PROVE  MInv'
<1>1. /\ UNCHANGED <<kind, opened, promise, over, tries, awaited, got>>
      /\ client' \in {client, 0} /\ tools' \in {tools, NoTools} /\ at[c] = "calling"
  BY DEF Answered, CallFails, shared
<1>2. PICK answer : Returns(c, answer)
  BY DEF Answered, CallFails
<1>3. PICK place \in After : at' = [at EXCEPT ![c] = place]
  BY <1>2 DEF Returns, ProbeEnds, After
<1> QED BY <1>1, <1>3, Calls DEF After

-----------------------------------------------------------------------------
(* The probes.                                                             *)

LEMMA ProbeStep ==
  ASSUME MInv, NEW c \in Callers, Probe(c)
  PROVE  MInv'
<1>1. kind[c] # "turn" /\ UNCHANGED <<kind, client, opened, tools, promise, tries, awaited, got>>
  BY DEF Probe, shared
<1>2. /\ \A d \in Callers \ {c} : over'[d] = over[d]
      /\ DOMAIN over' = Callers
      /\ \/ at' = [at EXCEPT ![c] = "listing"] /\ over'[c] \in Nat \ {0}
         \/ at' = [at EXCEPT ![c] = "connecting"]
  BY DEF Probe, Ensure, MInv, Shape, Connected
<1>3. client' \in Nat /\ opened' \in Nat
  BY <1>1 DEF MInv, Connected
<1> QED BY <1>1, <1>2, <1>3, Probes

LEMMA TimerStep ==
  ASSUME MInv, NEW c \in Callers, ProbeTimer(c)
  PROVE  MInv'
<1>1. UNCHANGED <<kind, client, opened, tools, promise, at, over, tries, awaited, got>>
  BY DEF ProbeTimer, shared
<1> QED BY <1>1 DEF MInv, Shape, Connected, Callerwise, Placed, OwnFailures, Owner, Loading

-----------------------------------------------------------------------------
(* The load.                                                               *)

LEMMA ConnectStep ==
  ASSUME MInv, NEW c \in Callers, Connect(c)
  PROVE  MInv'
<1>1. /\ UNCHANGED <<kind, tools, promise, tries, awaited, got>>
      /\ opened' = opened + 1 /\ client' = opened' /\ at[c] = "connecting"
      /\ over' = [over EXCEPT ![c] = opened'] /\ at' = [at EXCEPT ![c] = "listing"]
  BY DEF Connect
<1>2. Shape' /\ Connected'
  BY <1>1 DEF MInv, Shape, Connected
<1>3. /\ \A d \in Callers \ {c} : at'[d] = at[d] /\ over'[d] = over[d]
      /\ at'[c] = "listing" /\ over'[c] = opened'
  BY <1>1 DEF MInv, Shape
<1>4. Placed(c)' /\ OwnFailures(c)'
  BY <1>1, <1>3 DEF MInv, Connected, Callerwise, Placed, OwnFailures, Before
<1>5. \A d \in Callers : Loading(d)' => Loading(d)
  BY <1>1, <1>3 DEF Loading
<1>6. Owner'
  BY <1>1, <1>5 DEF MInv, Owner
<1> QED BY <1>1, <1>2, <1>3, <1>4, <1>6, OneCaller

(* A load is over: the turn has this list, and nobody is promised one.     *)
LEMMA LoadEndsStep ==
  ASSUME MInv, NEW c \in Callers, Loading(c), NEW list, LoadEnds(c, list), UNCHANGED <<kind, awaited, over>>,
         client' \in Nat, opened' \in Nat, tools' # Degraded,
         DOMAIN tries' = Callers, \A d \in Callers \ {c} : tries'[d] = tries[d],
         list = Degraded /\ Token[c] # "none" => tries'[c] = 2
  PROVE  MInv'
<1>1. /\ got' = [got EXCEPT ![c] = list] /\ at' = [at EXCEPT ![c] = "ready"] /\ promise' = NoCaller
  BY DEF LoadEnds
<1>2. Shape' /\ Connected'
  BY <1>1 DEF MInv, Shape, Connected
<1>3. /\ \A d \in Callers \ {c} : at'[d] = at[d] /\ got'[d] = got[d]
      /\ at'[c] = "ready" /\ got'[c] = list
  BY <1>1 DEF MInv, Shape
<1>4. Placed(c)' /\ OwnFailures(c)'
  BY <1>3 DEF MInv, Callerwise, Placed, OwnFailures, Before
<1>5. ~HasNone(got[c])
  BY NothingIsNoDegraded DEF MInv, Callerwise, Placed, Loading, Before
<1>6. \A d \in Callers : Loading(d)' => Loading(d) /\ d # c
  BY <1>3 DEF Loading
<1>7. Owner'
  <2> SUFFICES ASSUME \A d \in Callers : ~HasNone(got'[d]), NEW d \in Callers, Loading(d)'
               PROVE  FALSE
    BY DEF Owner, HasNone
  <2>1. \A e \in Callers : ~HasNone(got[e])
    BY <1>3, <1>5
  <2> QED BY <1>6, <2>1 DEF MInv, Owner
<1> QED BY <1>2, <1>3, <1>4, <1>7, OneCaller

LEMMA AttemptFailsStep ==
  ASSUME MInv, NEW c \in Callers, Loading(c), AttemptFails(c),
         UNCHANGED <<kind, awaited, over, opened, tools>>
  PROVE  MInv'
<1>1. client' = 0 /\ tries' = [tries EXCEPT ![c] = tries[c] + 1]
  BY DEF AttemptFails
<1>2. /\ DOMAIN tries' = Callers /\ \A d \in Callers \ {c} : tries'[d] = tries[d]
      /\ tries'[c] = tries[c] + 1
  BY <1>1 DEF MInv, Shape
<1>3. CASE tries[c] = 1 /\ LoadEnds(c, Degraded)
  BY <1>1, <1>2, <1>3, LoadEndsStep DEF MInv, Connected
<1>4. CASE tries[c] = 0 /\ at' = [at EXCEPT ![c] = "connecting"] /\ UNCHANGED <<got, promise>>
  <2>1. Shape' /\ Connected'
    BY <1>1, <1>4 DEF MInv, Shape, Connected
  <2>2. (\A d \in Callers \ {c} : at'[d] = at[d]) /\ at'[c] = "connecting"
    BY <1>4 DEF MInv, Shape
  <2>3. Placed(c)'
    BY <1>4, <2>2 DEF MInv, Callerwise, Placed, Loading, Before
  <2>4. OwnFailures(c)'
    BY <1>4, <2>2 DEF MInv, Callerwise, OwnFailures
  <2>5. \A d \in Callers : Loading(d)' => Loading(d)
    BY <2>2 DEF Loading
  <2>6. Owner'
    BY <1>4, <2>5 DEF MInv, Owner
  <2> QED BY <1>2, <1>4, <2>1, <2>2, <2>3, <2>4, <2>6, OneCaller
<1> QED BY <1>3, <1>4 DEF AttemptFails

LEMMA FailsStep ==
  ASSUME MInv, NEW c \in Callers, ConnectFails(c) \/ ListFails(c)
  PROVE  MInv'
<1>1. UNCHANGED <<kind, awaited, over, opened, tools>> /\ at[c] \in {"connecting", "listing"}
  BY DEF ConnectFails, ListFails
<1>2. CASE kind[c] = "turn"
  BY <1>1, <1>2, AttemptFailsStep DEF ConnectFails, ListFails, Loading
<1>3. CASE kind[c] # "turn"
  <2>1. /\ UNCHANGED <<promise, tries, got>> /\ client' \in {client, 0}
        /\ at' = [at EXCEPT ![c] = "done"]
    BY <1>3 DEF ConnectFails, ListFails, ProbeEnds
  <2>2. client' \in Nat /\ opened' \in Nat /\ DOMAIN over' = Callers
    BY <1>1, <2>1 DEF MInv, Shape, Connected
  <2> QED BY <1>1, <1>3, <2>1, <2>2, Probes
<1> QED BY <1>2, <1>3

LEMMA ListStep ==
  ASSUME MInv, NEW c \in Callers, List(c)
  PROVE  MInv'
<1>1. /\ UNCHANGED <<kind, client, opened, over, tries, awaited>> /\ at[c] = "listing"
      /\ over[c] \in Nat \ {0}
  BY DEF List, MInv, Callerwise, Placed
<1>2. CASE kind[c] = "turn"
  <2>1. PICK listing \in Listings :
          tools' = ToolList(over[c], listing) /\ LoadEnds(c, tools')
    BY <1>2 DEF List
  <2>2. tools' # Degraded
    BY <1>1, <2>1 DEF ToolList, Degraded
  <2> QED BY <1>1, <1>2, <2>1, <2>2, LoadEndsStep DEF MInv, Shape, Connected, Loading
<1>3. CASE kind[c] # "turn"
  <2>1. /\ UNCHANGED <<tools, promise, got>>
        /\ \E place \in {"done", "calling"} : at' = [at EXCEPT ![c] = place]
    BY <1>3 DEF List, ProbeEnds
  <2>2. client' \in Nat /\ opened' \in Nat /\ DOMAIN over' = Callers
    BY <1>1 DEF MInv, Connected, Shape
  <2> QED BY <1>1, <1>3, <2>1, <2>2, Probes
<1> QED BY <1>2, <1>3

-----------------------------------------------------------------------------
(* A turn asks for the tools.                                              *)

(* It has them at once, from the list that is kept or the load it shared.  *)
LEMMA HasStep ==
  ASSUME MInv, NEW c \in Callers, kind[c] = "turn", at[c] \in {"idle", "waiting"}, NEW list,
         got' = [got EXCEPT ![c] = list], at' = [at EXCEPT ![c] = "ready"],
         list = Degraded => Token[c] = "none",
         UNCHANGED <<kind, client, opened, tools, promise, over, tries, awaited>>
  PROVE  MInv'
<1>1. Shape' /\ Connected'
  BY DEF MInv, Shape, Connected
<1>2. /\ \A d \in Callers \ {c} : at'[d] = at[d] /\ got'[d] = got[d]
      /\ at'[c] = "ready" /\ got'[c] = list
  BY DEF MInv, Shape
<1>3. Placed(c)' /\ OwnFailures(c)'
  BY <1>2 DEF MInv, Callerwise, Placed, OwnFailures, Before
<1>4. ~HasNone(got[c])
  BY NothingIsNoDegraded DEF MInv, Callerwise, Placed, Before
<1>5. \A d \in Callers : Loading(d)' => Loading(d)
  BY <1>2 DEF Loading
<1>6. Owner'
  <2> SUFFICES ASSUME \A d \in Callers : ~HasNone(got'[d]), NEW d \in Callers, Loading(d)'
               PROVE  promise' = d
    BY DEF Owner, HasNone
  <2>1. \A e \in Callers : ~HasNone(got[e])
    BY <1>2, <1>4
  <2> QED BY <1>5, <2>1 DEF MInv, Owner
<1> QED BY <1>1, <1>2, <1>3, <1>6, OneCaller

(* It loads them: nobody does, or a load has come back with nothing.       *)
LEMMA StartsStep ==
  ASSUME MInv, NEW c \in Callers, kind[c] = "turn", at[c] \in {"idle", "waiting"}, StartLoad(c),
         promise = NoCaller \/ \E d \in Callers : HasNone(got[d]),
         UNCHANGED <<kind, client, opened, tools, tries, awaited, got>>
  PROVE  MInv'
<1>1. /\ promise' = c
      /\ \/ client # 0 /\ at' = [at EXCEPT ![c] = "listing"] /\ over' = [over EXCEPT ![c] = client]
         \/ at' = [at EXCEPT ![c] = "connecting"] /\ UNCHANGED over
  BY DEF StartLoad, Ensure
<1>2. Shape' /\ Connected'
  BY <1>1 DEF MInv, Shape, Connected
<1>3. /\ \A d \in Callers \ {c} : at'[d] = at[d] /\ over'[d] = over[d]
      /\ \/ at'[c] = "connecting"
         \/ at'[c] = "listing" /\ over'[c] = client /\ client # 0
  BY <1>1 DEF MInv, Shape
<1>4. Placed(c)' /\ OwnFailures(c)'
  BY <1>3 DEF MInv, Connected, Callerwise, Placed, OwnFailures, Before
<1>5. Owner'
  <2> SUFFICES ASSUME \A d \in Callers : ~HasNone(got[d]), NEW d \in Callers, Loading(d)'
               PROVE  d = c
    BY <1>1 DEF Owner, HasNone
  <2>1. promise = NoCaller
    OBVIOUS
  <2>2. ~Loading(d)
    BY <2>1, McpAssumption DEF MInv, Owner
  <2> QED BY <1>3, <2>2 DEF Loading
<1> QED BY <1>2, <1>3, <1>4, <1>5, OneCaller

LEMMA AskStep ==
  ASSUME MInv, NEW c \in Callers, Ask(c)
  PROVE  MInv'
<1>1. /\ UNCHANGED <<kind, client, opened, tools, tries>>
      /\ kind[c] = "turn" /\ at[c] = "idle"
  BY DEF Ask
<1>2. CASE /\ got' = [got EXCEPT ![c] = tools] /\ at' = [at EXCEPT ![c] = "ready"]
           /\ UNCHANGED <<promise, over, awaited>>
  BY <1>1, <1>2, HasStep DEF MInv, Connected
<1>3. CASE /\ promise # NoCaller
           /\ awaited' = [awaited EXCEPT ![c] = promise] /\ at' = [at EXCEPT ![c] = "waiting"]
           /\ UNCHANGED <<promise, over, got>>
  <2>1. Shape' /\ Connected'
    BY <1>1, <1>3 DEF MInv, Shape, Connected
  <2>2. /\ \A d \in Callers \ {c} : at'[d] = at[d] /\ awaited'[d] = awaited[d]
        /\ at'[c] = "waiting" /\ awaited'[c] = promise
    BY <1>3 DEF MInv, Shape
  <2>3. Placed(c)' /\ OwnFailures(c)'
    BY <1>1, <1>3, <2>2 DEF MInv, Connected, Callerwise, Placed, OwnFailures, Before
  <2>4. \A d \in Callers : Loading(d)' => Loading(d)
    BY <1>1, <2>2 DEF Loading
  <2>5. Owner'
    BY <1>3, <2>4 DEF MInv, Owner
  <2> QED BY <1>1, <1>3, <2>1, <2>2, <2>3, <2>5, OneCaller
<1>4. CASE promise = NoCaller /\ StartLoad(c) /\ UNCHANGED <<got, awaited>>
  BY <1>1, <1>4, StartsStep
<1> QED BY <1>2, <1>3, <1>4 DEF Ask

LEMMA ResumeStep ==
  ASSUME MInv, NEW c \in Callers, Resume(c)
  PROVE  MInv'
<1> DEFINE inflight == got[awaited[c]]
<1>1. /\ UNCHANGED <<kind, client, opened, tools, tries, awaited>>
      /\ at[c] = "waiting" /\ kind[c] = "turn"
  BY DEF Resume, Resumes, MInv, Callerwise, Placed
<1>2. CASE /\ ~shouldRetryDegradedMcpSingleton(inflight, Token[c] # "none")
           /\ got' = [got EXCEPT ![c] = inflight] /\ at' = [at EXCEPT ![c] = "ready"]
           /\ UNCHANGED <<promise, over>>
  <2>1. inflight = Degraded => Token[c] = "none"
    BY <1>2, NothingIsNoDegraded DEF shouldRetryDegradedMcpSingleton
  <2> QED BY <1>1, <1>2, <2>1, HasStep
<1>3. CASE /\ shouldRetryDegradedMcpSingleton(inflight, Token[c] # "none")
           /\ StartLoad(c) /\ UNCHANGED got
  <2>1. awaited[c] \in Callers /\ HasNone(inflight)
    BY <1>1, <1>3 DEF shouldRetryDegradedMcpSingleton, MInv, Callerwise, Placed
  <2> QED BY <1>1, <1>3, <2>1, StartsStep
<1> QED BY <1>2, <1>3 DEF Resume

-----------------------------------------------------------------------------
LEMMA InitStep ==
  ASSUME Init PROVE MInv
<1>1. Shape
  BY DEF Init, Shape
<1>2. Connected
  BY DEF Init, Connected, Degraded, NoTools, ToolList
<1>3. Callerwise
  BY NothingIsNoDegraded DEF Init, Callerwise, Placed, OwnFailures
<1>4. Owner
  BY DEF Init, Owner, Loading
<1> QED BY <1>1, <1>2, <1>3, <1>4 DEF MInv

LEMMA NextStep ==
  ASSUME MInv, [Next]_vars PROVE MInv'
<1>1. CASE UNCHANGED vars
  BY <1>1 DEF vars, shared, caller, MInv, Shape, Connected, Callerwise, Placed, OwnFailures, Owner, Loading
<1>2. ASSUME NEW c \in Callers, Resume(c) \/ Ask(c) PROVE MInv'
  BY <1>2, ResumeStep, AskStep
<1>3. ASSUME NEW c \in Callers, LoadStep(c) PROVE MInv'
  BY <1>3, ConnectStep, FailsStep, ListStep DEF LoadStep
<1>4. ASSUME NEW c \in Callers, CallStep(c) PROVE MInv'
  BY <1>4, CallToolStep, VectorSearchStep, EmbeddedStep, ReturnStep DEF CallStep
<1>5. ASSUME NEW c \in Callers, Probe(c) \/ ProbeTimer(c) PROVE MInv'
  BY <1>5, ProbeStep, TimerStep
<1> QED BY <1>1, <1>2, <1>3, <1>4, <1>5 DEF Next

LEMMA Inductive == Spec => []MInv
<1>1. Init => MInv
  BY InitStep
<1>2. MInv /\ [Next]_vars => MInv'
  BY NextStep
<1> QED BY <1>1, <1>2, PTL DEF Spec

(* A turn with a token has no tools only after two failures of its own,    *)
(* whoever loads beside it and with whatever token.                        *)
THEOREM NobodyDegraded == Spec => []NotDegraded
<1>1. MInv => NotDegraded
  BY DEF MInv, Callerwise, OwnFailures, NotDegraded
<1> QED BY <1>1, Inductive, PTL

(* Two loads are never under way at once, unless one has come back with    *)
(* nothing.                                                                *)
THEOREM LoadsOnce == Spec => []OneLoad
<1>1. MInv => OneLoad
  BY DEF MInv, Owner, OneLoad
<1> QED BY <1>1, Inductive, PTL

-----------------------------------------------------------------------------
(* What a search reports. *)

Reported == DOMAIN reports = Callers /\ OwnScoresFirst

LEMMA ReportedKeeps ==
  ASSUME Reported, NEW c \in Callers, NEW scores, NEW own, Report(c, scores, own),
         own # <<>> => scores = FirstScores(own)
  PROVE  Reported'
<1>1. /\ DOMAIN reports' = Callers /\ \A d \in Callers \ {c} : reports'[d] = reports[d]
      /\ reports'[c] = [scores |-> scores, own |-> own]
  BY DEF Reported, Report
<1> QED BY <1>1 DEF Reported, OwnScoresFirst

(* The answer of a call that is over reports its own scores if it has any, *)
(* whatever is pending.                                                    *)
LEMMA ReturnReports ==
  ASSUME Reported, NEW c \in Callers, NEW answer, Returns(c, answer)
  PROVE  Reported'
<1>1. CASE UNCHANGED reports
  BY <1>1 DEF Reported, OwnScoresFirst
<1>2. ASSUME NEW scored, Report(c, ReportedScores(answer, scored), answer.shown)
      PROVE  Reported'
  <2>1. answer.shown # <<>> => ReportedScores(answer, scored) = FirstScores(answer.shown)
    BY DEF ReportedScores, extractScoresFromResult
  <2> QED BY <1>2, <2>1, ReportedKeeps
<1> QED BY <1>1, <1>2 DEF Returns

LEMMA ReportedNext == Reported /\ [Next]_vars => Reported'
<1> SUFFICES ASSUME Reported, [Next]_vars PROVE Reported'
  OBVIOUS
<1>1. UNCHANGED reports => Reported'
  BY DEF Reported, OwnScoresFirst
<1>2. ASSUME NEW c \in Callers, NEW r, NEW embedded, Transformed(c, r, embedded) PROVE Reported'
  BY <1>1, <1>2, ReportedKeeps DEF Transformed
<1>3. ASSUME NEW c \in Callers, VectorSearch(c) \/ Embedded(c) PROVE Reported'
  BY <1>1, <1>2, <1>3 DEF VectorSearch, Embedded
<1>4. ASSUME NEW c \in Callers, Answered(c) \/ CallFails(c) PROVE Reported'
  BY <1>4, ReturnReports DEF Answered, CallFails
<1>5. ASSUME NEW c \in Callers,
             Resume(c) \/ Ask(c) \/ LoadStep(c) \/ CallTool(c) \/ Probe(c) \/ ProbeTimer(c)
      PROVE  UNCHANGED reports
  BY <1>5 DEF Resume, Ask, LoadStep, Connect, ConnectFails, List, ListFails, CallTool, Probe, ProbeTimer
<1> QED BY <1>1, <1>3, <1>4, <1>5 DEF Next, CallStep, vars, caller

(* However many searches share the variable of pending scores, and however *)
(* they interleave: a search that found something reports the scores of    *)
(* what it found.                                                          *)
THEOREM ScoresOwn == Spec => []OwnScoresFirst
<1>1. Init => Reported
  BY DEF Init, Reported, OwnScoresFirst, NoReport
<1>2. Reported => OwnScoresFirst
  BY DEF Reported
<1> QED BY <1>1, <1>2, ReportedNext, PTL DEF Spec
===============================================================================

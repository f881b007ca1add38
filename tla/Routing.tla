------------------------------- MODULE Routing -------------------------------
(***************************************************************************)
(* From the configuration on disk to the agent that answers.               *)
(*                                                                         *)
(* An API process classifies each message (lib/agent-classifier.ts, with   *)
(* its cache of decisions), hands the turn to the runtimes of the selected *)
(* specialists, and takes over a new configuration while it serves         *)
(* (routes/agent-config-refresh.ts).  An agent runtime builds the agent a  *)
(* turn asks for, or takes it from a cache (lib/create-strands-agent.ts),  *)
(* while the files it was built from are edited.  Both read the files      *)
(* through lib/config-scan.ts, whose caches of single files are keyed by   *)
(* path and time of change and are left out: a hit is what a read returns. *)
(* Each write has a stamp of its own; an AgentDetail is the same object as *)
(* another exactly when both came from the same writes.                    *)
(***************************************************************************)
EXTENDS Classifier, AgentTools

CONSTANTS
  Order,          \* all agents, by name; the files are listed in this order
  Orchestrator, NoAgent,
  Longer,         \* Longer[a]: the agents whose names begin with a's
  NoFile, NoCache, NoTemplate,
  Shipped,        \* the configuration a process starts with
  Snapshots,      \* what a refresh may bring
  Drafts,         \* what an edit may make of an agent's file
  Deployed,       \* the agents with a runtime in the environment
  Casts,          \* who runs: [role, turns, warmers, edits, backend]
  Turns, Warmers, \* actors; a warmer is the start of the process, or a refresh
  Messages,       \* texts
  Answers,        \* what the language model may select
  CacheSize,      \* CACHE_MAX_ENTRIES
  Paths,          \* "chat": runChatStream; "swarm": a node of a swarm
  Urls, FarSides

ASSUME ConfigAssumption ==
  /\ Orchestrator \in ToSet(Order) /\ NoAgent \notin ToSet(Order)
  /\ CacheSize \in Nat \ {0}
  /\ Order \in Seq(ToSet(Order))
  /\ Turns \cap (Warmers \X ToSet(Order)) = {}
  /\ \A k \in Casts : k.role = "runtime" => k.warmers \subseteq {AtBuild}   \* only the API is refreshed
  /\ AtBuild # Nobody
  /\ Messages \subseteq Seq(DOMAIN Points \cup Stopwords)
  /\ \A answer \in Answers : answer \in Seq(ToSet(answer))

VARIABLES
  cast,           \* who runs
  root, files,    \* the configuration root in force: agent -> [draft, stamp] or NoFile
  written,        \* the skills with a SKILL.md
  httpFile,       \* http-tools.json: [tools, hosts]
  clock,          \* stamps given out
  overrides,      \* specialistArnOverrides: the agents that have one
  toolMap,        \* toolMapCache
  decisions,      \* cache of the classifier, oldest first
  candidates,     \* _candidatesCache with _candidatesAgentVersion
  templates,      \* templateCache
  registries,     \* the SkillRegistry made by each builder
  building,       \* builder -> the template it waits for, or NoTemplate
  turn,           \* the state of each turn
  warm,           \* where each warmer is
  late            \* skills whose SKILL.md came after the start

config == <<root, files, written, httpFile, clock, overrides>>
classifier == <<decisions, candidates>>
agents == <<templates, registries, building, toolMap>>
vars == <<cast, config, classifier, agents, turn, warm, late>>

Agents == ToSet(Order)
Present == {a \in Agents : files[a] # NoFile}
Valid == {a \in Present : files[a].draft.valid}   \* the frontmatter parses
Builders == Turns \cup (Warmers \X Agents)
Builder(w, a) == <<w, a>>
-----------------------------------------------------------------------------
(* lib/config-scan.ts *)

listAgents == Kept(Order, {i \in DOMAIN Order : Order[i] \in Valid})

(* The agent's own file, or else the first whose name begins with its id.  *)
resolveAgentFile(a) ==
  LET others == {i \in DOMAIN Order : Order[i] \in Present \cap Longer[a]}
  IN IF a \in Present THEN a
     ELSE IF others = {} THEN NoAgent
     ELSE Order[CHOOSE i \in others : \A j \in others : i <= j]

agentsDirVersion == [a \in Present |-> files[a].stamp]

(* There is no agent in a file whose frontmatter is invalid, though it     *)
(* hides another.  The orchestrator's detail carries the roster made from  *)
(* every file.                                                             *)
getAgent(a) ==
  LET f == resolveAgentFile(a)
  IN IF f = NoAgent \/ f \notin Valid THEN NoAgent
     ELSE [file |-> f, root |-> root, stamp |-> files[f].stamp, draft |-> files[f].draft,
           roster |-> IF a = Orchestrator THEN agentsDirVersion ELSE <<>>]

(* The text below the frontmatter, valid or not; an agent's id is its      *)
(* file's name.                                                            *)
loadAgentPersona(a) ==
  LET f == resolveAgentFile(a)
  IN IF f = NoAgent THEN NoAgent
     ELSE [file |-> f, stamp |-> files[f].stamp,
           roster |-> IF a = Orchestrator THEN agentsDirVersion ELSE <<>>]
-----------------------------------------------------------------------------
(* lib/agent-classifier.ts *)

Face == [a \in Valid |-> files[a].draft.name]
FreshCandidates ==
  IF getAgent(Orchestrator) = NoAgent THEN <<>>
  ELSE LET ids == Kept(listAgents, {i \in DOMAIN listAgents : listAgents[i] # Orchestrator})
       IN [i \in DOMAIN ids |-> [agent |-> ids[i], corpus |-> files[ids[i]].draft.name \o files[ids[i]].draft.body]]

buildCandidates ==
  IF candidates # NoCache /\ candidates.version = Face THEN candidates
  ELSE [version |-> Face, list |-> FreshCandidates]

(* The oldest goes when the cache is full, even if the key is there.       *)
(* `asked` and `at` say which root it was made from, and remembered under. *)
rememberInCache(message, plan, asked) ==
  LET kept == IF Len(decisions) >= CacheSize THEN Tail(decisions) ELSE decisions
      new == [message |-> message, plan |-> plan, asked |-> asked, at |-> root]
      Same(i) == kept[i].message = message
  IN decisions' = IF \E i \in DOMAIN kept : Same(i)
                  THEN [i \in DOMAIN kept |-> IF Same(i) THEN new ELSE kept[i]]
                  ELSE Append(kept, new)

Remembered(message) == {d \in ToSet(decisions) : d.message = message}

Plan(t, plan) ==
  turn' = [turn EXCEPT ![t].at = IF plan = <<>> THEN "unrouted" ELSE "dispatching",
                       ![t].plan = plan, ![t].offered = {}]

Decide(t, message, plan, asked) ==
  IF plan = <<>> THEN Plan(t, plan) /\ UNCHANGED decisions
  ELSE Plan(t, plan) /\ rememberInCache(message, plan, asked)

(* The model is asked, unless there is nobody it could name.               *)
AskModel(t, message, ids) ==
  IF ids = {} THEN Plan(t, <<>>)
  ELSE turn' = [turn EXCEPT ![t].at = "asking", ![t].message = message,
                            ![t].offered = ids, ![t].asked = root]

(* classifyAgents up to its call of the language model: a remembered       *)
(* decision, else by the backend the scores first, or the model first.     *)
Classify(t, message) ==
  LET now == buildCandidates
      plan == heuristicClassifyMulti(message, now.list)
      scoresTell == cast.backend # "llm" /\ plan # <<>>
  IN /\ cast.role = "api" /\ t \in cast.turns /\ turn[t].at = "idle"
     /\ \/ \E d \in Remembered(message) : Plan(t, d.plan) /\ UNCHANGED classifier
        \/ /\ Remembered(message) = {}
           /\ candidates' = now
           /\ \/ scoresTell /\ Decide(t, message, plan, root)
              \/ ~scoresTell /\ cast.backend = "heuristic" /\ Decide(t, message, <<>>, root)
              \/ /\ ~scoresTell /\ cast.backend # "heuristic"
                 /\ AskModel(t, message, {now.list[i].agent : i \in DOMAIN now.list})
                 /\ UNCHANGED decisions
     /\ UNCHANGED <<cast, config, agents, warm, late>>

(* The model's answer, or its failure (an answer without a name).  What it *)
(* was offered may be out of date; when it is asked first, the scores are  *)
(* the fallback.                                                           *)
HaikuAnswers(t, answer) ==
  LET now == buildCandidates
      usable == Usable(answer, turn[t].offered)
      fallback == heuristicClassifyMulti(turn[t].message, now.list)
  IN /\ turn[t].at = "asking"
     /\ IF usable # <<>> \/ cast.backend # "llm"
        THEN Decide(t, turn[t].message, usable, turn[t].asked) /\ UNCHANGED candidates
        ELSE Decide(t, turn[t].message, fallback, root) /\ candidates' = now
     /\ UNCHANGED <<cast, config, agents, warm, late>>

(* agentcoreSpecialistArn: the runtime a refresh brought, or the one of    *)
(* the environment.                                                        *)
Runtime(a) ==
  IF a \in overrides THEN "override" ELSE IF a \in Deployed THEN "environment" ELSE "none"

Dispatch(t) ==
  LET a == Head(turn[t].plan)
  IN /\ turn[t].at = "dispatching"
     /\ turn' = [turn EXCEPT ![t].plan = Tail(@),
                             ![t].ran = @ \cup {[agent |-> a, runtime |-> Runtime(a)]},
                             ![t].at = IF Len(turn[t].plan) = 1 THEN "done" ELSE @]
     /\ UNCHANGED <<cast, config, classifier, agents, warm, late>>
-----------------------------------------------------------------------------
(* lib/create-strands-agent.ts *)

AlwaysMutant(detail, pre) == TRUE   \* every template is cached

(* A registry may be shared when its skills are settled by the build.      *)
templateIsCacheable(detail, pre) == detail.draft.skills = {} \/ pre

UnsafeFile(file) == file.tools # {} /\ file.hosts = {}
HttpMap == IF toolMap = NoCache THEN httpFile ELSE toolMap

(* toolsForAgent throws for root tools, or a skill's tool, without a list  *)
(* of hosts.                                                               *)
Throws(detail) ==
  \/ UnsafeFile(HttpMap)
  \/ /\ httpFile.hosts = {}
     /\ \E n \in detail.draft.tools \cap SkillHttp : n.skill \in detail.draft.skills

(* What buildTemplate has made when it waits for the gateway's tools: the  *)
(* persona of its prompt is read before.                                   *)
Template(b, detail, pre) ==
  [ref |-> detail, builder |-> b, pre |-> pre, persona |-> loadAgentPersona(detail.file),
   tools |-> toolsForAgent(detail.draft.tools, Registry(detail.draft.skills, pre, written), HttpMap.tools),
   hosts |-> httpFile.hosts, degraded |-> FALSE]

AnyCachedMutant(a, detail) ==   \* whatever is cached under the agent's id
  templates[a] # NoTemplate

Hit(a, detail) == templates[a] # NoTemplate /\ templates[a].ref = detail

(* The map of the root tools is made by whoever needs it first.            *)
MapAfterBuild == IF UnsafeFile(HttpMap) THEN toolMap ELSE HttpMap

CachedAnywayMutant(template, detail) ==   \* a degraded template is kept too
  templateIsCacheable(detail, template.pre)

MayBeCached(template, detail) ==
  templateIsCacheable(detail, template.pre) /\ ~template.degraded

(* The gateway's tools are there, all of those the agent declares or not.  *)
Built(b, a, complete) ==
  LET template == [building[b] EXCEPT !.degraded = building[b].ref.draft.tools \cap Gateway # {} /\ ~complete]
  IN /\ building[b] # NoTemplate
     /\ building' = [building EXCEPT ![b] = NoTemplate]
     /\ templates' = IF MayBeCached(template, template.ref)
                     THEN [templates EXCEPT ![a] = template] ELSE templates
     /\ IF b \in Turns
        THEN turn' = [turn EXCEPT ![b].at = "built", ![b].template = template, ![b].missed = template.degraded]
        ELSE UNCHANGED turn
     /\ UNCHANGED <<cast, config, classifier, registries, toolMap, warm, late>>

TurnBuilt(t, complete) ==
  turn[t].at = "building" /\ Built(t, turn[t].agent, complete)
WarmBuilt(w, a, complete) ==
  warm[w] = "warming" /\ Built(Builder(w, a), a, complete)

(* A turn asks for its agent: the orchestrator activates its skills as it  *)
(* goes, the others start with all of theirs.                              *)
PreActivates(a, path) ==
  a # Orchestrator /\ (path = "swarm" \/ getAgent(a).draft.skills # {})

Open(t, a, path) ==
  LET detail == getAgent(a)
      pre == PreActivates(a, path)
      opened == [turn EXCEPT ![t].agent = a, ![t].path = path, ![t].asks = detail]
      Becomes(at) == turn' = [opened EXCEPT ![t].at = at]
  IN /\ cast.role = "runtime" /\ t \in cast.turns /\ turn[t].at = "idle"
     /\ IF detail = NoAgent THEN Becomes("unknown") /\ UNCHANGED agents
        ELSE \/ /\ templateIsCacheable(detail, pre) /\ Hit(a, detail)
                /\ turn' = [opened EXCEPT ![t].at = "built", ![t].template = templates[a]]
                /\ UNCHANGED agents
             \/ /\ ~(templateIsCacheable(detail, pre) /\ Hit(a, detail))
                /\ toolMap' = MapAfterBuild
                /\ IF Throws(detail)
                   THEN Becomes("thrown") /\ UNCHANGED <<building, registries>>
                   ELSE /\ Becomes("building")
                        /\ building' = [building EXCEPT ![t] = Template(t, detail, pre)]
                        /\ registries' = [registries EXCEPT ![t] = Registry(detail.draft.skills, pre, written)]
                /\ UNCHANGED templates
     /\ UNCHANGED <<cast, config, classifier, warm, late>>

(* The prompt: the persona is read again when it is spliced with what was  *)
(* recalled from the user's memory, else it is the template's.  A chat is  *)
(* refused when tools are missing, a swarm is not.                         *)
Assemble(t, recalled) ==
  /\ turn[t].at = "built"
  /\ turn' = [turn EXCEPT
       ![t].at = IF turn[t].template.degraded /\ turn[t].path = "chat" THEN "refused" ELSE "serving",
       ![t].persona = IF recalled THEN loadAgentPersona(turn[t].agent) ELSE turn[t].template.persona]
  /\ UNCHANGED <<cast, config, classifier, agents, warm, late>>

RegistryOf(t) == registries[turn[t].template.builder]

(* activate_skill *)
Activate(t, s) ==
  /\ turn[t].at = "serving" /\ ActivateSkill \in turn[t].template.tools
  /\ s \in DOMAIN RegistryOf(t) /\ ~isSkillActivated(RegistryOf(t), s) /\ s \in written
  /\ registries' = [registries EXCEPT ![turn[t].template.builder][s] = t]
  /\ UNCHANGED <<cast, config, classifier, templates, building, toolMap, turn, warm, late>>

(* A call that reaches a skill; what is kept is the skill it worked with,  *)
(* and who had activated that.  Other tools change nothing here.           *)
UseTool(t, tool, asked, url, farSide) ==
  LET template == turn[t].template
      s == Reaches(tool, asked)
      reply == IF tool \in SkillHttp THEN runHttpCall(url, template.hosts, farSide) ELSE "ok"
  IN /\ turn[t].at = "serving" /\ tool \in template.tools \cap (SkillTools \cup SkillHttp)
     /\ Allowed(RegistryOf(t), s) /\ reply = "ok"
     /\ turn' = [turn EXCEPT ![t].used = @ \cup {[skill |-> s, by |-> RegistryOf(t)[s]]}]
     /\ UNCHANGED <<cast, config, classifier, agents, warm, late>>
-----------------------------------------------------------------------------
(* routes/agent-config-refresh.ts, lib/prewarm.ts *)

(* warmAgentCache: every agent of the list that is not in the cache, each  *)
(* on its own; one whose tools throw is passed over.                       *)
Warms(w) ==
  {Builder(w, a) : a \in {x \in Valid : ~Hit(x, getAgent(x)) /\ ~Throws(getAgent(x))}}
WarmTemplate(b) == Template(b, getAgent(b[2]), b[2] # Orchestrator)
WarmRegistry(b) == Registry(getAgent(b[2]).draft.skills, b[2] # Orchestrator, written)

(* runStartupPrewarm, when the process starts.                             *)
Prewarm(w) ==
  /\ w = AtBuild /\ w \in cast.warmers /\ warm[w] = "idle"
  /\ warm' = [warm EXCEPT ![w] = "warming"]
  /\ building' = [b \in Builders |-> IF b \in Warms(w) THEN WarmTemplate(b) ELSE building[b]]
  /\ registries' = [b \in Builders |-> IF b \in Warms(w) THEN WarmRegistry(b) ELSE registries[b]]
  /\ toolMap' = MapAfterBuild
  /\ UNCHANGED <<cast, config, classifier, templates, turn, late>>

Warmed(w) ==
  /\ warm[w] = "warming"
  /\ \A a \in Agents : building[Builder(w, a)] = NoTemplate
  /\ warm' = [warm EXCEPT ![w] = "done"]
  /\ UNCHANGED <<cast, config, classifier, agents, turn, late>>

(* The snapshot's files could not be written: nothing has changed.         *)
RefreshFails(w) ==
  /\ w \in cast.warmers \ {AtBuild} /\ warm[w] = "idle"
  /\ warm' = [warm EXCEPT ![w] = "failed"]
  /\ UNCHANGED <<cast, config, classifier, agents, turn, late>>

KeepsDecisionsMutant ==   \* only the candidates are forgotten
  candidates' = NoCache /\ UNCHANGED decisions

clearAgentClassifierCache == candidates' = NoCache /\ decisions' = <<>>

(* The new configuration is in force, with its runtimes, and every cache   *)
(* is empty, before the agents are built anew; unsafe HTTP tools end the   *)
(* refresh between the two, and the old ones stay.                         *)
Refresh(w, snapshot) ==
  LET unsafe == UnsafeFile(snapshot.http)
  IN /\ w \in cast.warmers \ {AtBuild} /\ warm[w] = "idle"
     /\ root' = root + 1 /\ clock' = clock + 1
     /\ files' = [a \in Agents |-> IF snapshot.drafts[a] = NoFile THEN NoFile
                                   ELSE [draft |-> snapshot.drafts[a], stamp |-> clock]]
     /\ written' = snapshot.written /\ httpFile' = snapshot.http
     /\ overrides' = snapshot.runtimes
     /\ clearAgentClassifierCache
     /\ templates' = [a \in Agents |-> NoTemplate]
     /\ toolMap' = IF unsafe THEN toolMap ELSE snapshot.http
     /\ IF unsafe
        THEN /\ warm' = [warm EXCEPT ![w] = "failed"]
             /\ UNCHANGED <<building, registries>>
        ELSE /\ warm' = [warm EXCEPT ![w] = "warming"]
             /\ building' = [b \in Builders |-> IF b \in Warms(w)' THEN WarmTemplate(b)' ELSE building[b]]
             /\ registries' = [b \in Builders |-> IF b \in Warms(w)' THEN WarmRegistry(b)' ELSE registries[b]]
     /\ UNCHANGED <<cast, turn, late>>
-----------------------------------------------------------------------------
(* The directory of a runtime is edited in place. *)

Edits == clock - 1   \* the process starts with the first stamp

Edit(a, file) ==
  /\ Edits < cast.edits /\ file # files[a]
  /\ clock' = clock + 1
  /\ files' = [files EXCEPT ![a] = IF file = NoFile THEN NoFile ELSE [draft |-> file, stamp |-> clock]]
  /\ UNCHANGED <<cast, root, written, httpFile, overrides, classifier, agents, turn, warm, late>>

WriteSkill(s) ==
  /\ Edits < cast.edits /\ s \notin written
  /\ clock' = clock + 1
  /\ written' = written \cup {s} /\ late' = late \cup {s}
  /\ UNCHANGED <<cast, root, files, httpFile, overrides, classifier, agents, turn, warm>>
-----------------------------------------------------------------------------
Skills == {n.skill : n \in SkillHttp} \cup UNION {d.skills : d \in Drafts}

Init ==
  /\ cast \in Casts
  /\ root = 0 /\ clock = 1
  /\ files = [a \in Agents |-> IF Shipped.drafts[a] = NoFile THEN NoFile
                               ELSE [draft |-> Shipped.drafts[a], stamp |-> 0]]
  /\ written = Shipped.written /\ httpFile = Shipped.http /\ overrides = {}
  /\ toolMap = NoCache
  /\ decisions = <<>> /\ candidates = NoCache
  /\ templates = [a \in Agents |-> NoTemplate]
  /\ registries = [b \in Builders |-> <<>>]
  /\ building = [b \in Builders |-> NoTemplate]
  /\ turn = [t \in Turns |->
       [at |-> "idle", message |-> <<>>, plan |-> <<>>, offered |-> {}, asked |-> 0, ran |-> {},
        agent |-> NoAgent, path |-> "chat", asks |-> NoAgent, template |-> NoTemplate,
        missed |-> FALSE, persona |-> NoAgent, used |-> {}]]
  /\ warm = [w \in Warmers |-> "idle"]
  /\ late = {}

Next ==
  \/ \E t \in Turns :
       \/ \E m \in Messages : Classify(t, m)
       \/ \E answer \in Answers : HaikuAnswers(t, answer)
       \/ Dispatch(t)
       \/ \E a \in Agents, path \in Paths : Open(t, a, path)
       \/ \E complete \in BOOLEAN : TurnBuilt(t, complete)
       \/ \E recalled \in BOOLEAN : Assemble(t, recalled)
       \/ \E s \in Skills : Activate(t, s)
       \/ \E tool \in SkillTools \cup SkillHttp, s \in Skills, url \in Urls, far \in FarSides :
            UseTool(t, tool, s, url, far)
  \/ \E w \in Warmers :
       \/ Prewarm(w)
       \/ \E a \in Agents, complete \in BOOLEAN : WarmBuilt(w, a, complete)
       \/ Warmed(w)
       \/ RefreshFails(w)
       \/ \E snapshot \in Snapshots : Refresh(w, snapshot)
  \/ \E a \in Agents, file \in Drafts \cup {NoFile} : Edit(a, file)
  \/ \E s \in Skills : WriteSkill(s)

Spec == Init /\ [][Next]_vars
-----------------------------------------------------------------------------
(* A decision that is remembered was made, or at least remembered, under   *)
(* the configuration in force, and then names only agents of its roster:   *)
(* a message routed before a refresh is routed anew after it               *)
(* (agent-classifier.ts:703).  A call of the model that was in flight      *)
(* during the refresh is the one exception: its answer is about the roster *)
(* it was offered.                                                         *)
DecisionsOfRoster ==
  \A i \in DOMAIN decisions :
    LET d == decisions[i]
    IN /\ d.at = root
       /\ d.asked = root => ToSet(d.plan) \subseteq Valid \ {Orchestrator}

(* The agent a turn works with was made from the files as they were when   *)
(* the turn asked for it, or later: never from a template that outlived an *)
(* edit or a refresh, whoever else is building one at the same time        *)
(* (create-strands-agent.ts:154); and its persona is not older than its    *)
(* tools.                                                                  *)
AgentUpToDate ==
  \A t \in Turns : turn[t].at \in {"serving", "refused"} =>
    /\ turn[t].template.ref = turn[t].asks
    /\ turn[t].persona = NoAgent \/ turn[t].persona.stamp >= turn[t].asks.stamp
                                  \/ turn[t].persona.file # turn[t].asks.file

(* A skill that one turn activated does not reach another: what a turn's   *)
(* tools work with was active when its agent was built, or the turn has    *)
(* activated it itself (create-strands-agent.ts:42-47).  A skill without a *)
(* file when the agent was built, and with one later, is the exception.    *)
SkillsOfOwnTurn ==
  \A t \in Turns : \A u \in turn[t].used : u.by \in {AtBuild, t} \/ u.skill \in late

(* A chat is refused for missing tools only when its own attempt to load   *)
(* them found them missing: no agent that lacks tools is handed on to a    *)
(* later turn (create-strands-agent.ts:159-164).                           *)
RefusedByOwnLoad ==
  \A t \in Turns : turn[t].template # NoTemplate /\ turn[t].template.degraded => turn[t].missed
=============================================================================

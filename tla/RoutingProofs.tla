---------------------------- MODULE RoutingProofs ----------------------------
(***************************************************************************)
(* No turn works with an agent older than the files it asked for, none is  *)
(* refused for what another turn's build was missing, and no skill passes  *)
(* from one turn to another: for any agents, turns, configurations, edits  *)
(* and refreshes.                                                          *)
(***************************************************************************)
EXTENDS Routing, RankingProofs, WellFoundedInduction, TLAPS

Begun == {"building", "built", "serving", "refused"}
WithAgent == {"built", "serving", "refused"}
Fields == {"at", "message", "plan", "offered", "asked", "ran", "agent", "path", "asks",
           "template", "missed", "persona", "used"}
TemplateFields == {"ref", "builder", "pre", "persona", "tools", "hosts", "degraded"}

(* Functions keep their domains, and a turn its fields.                    *)
Shape ==
  /\ DOMAIN turn = Turns /\ \A t \in Turns : DOMAIN turn[t] = Fields
  /\ DOMAIN building = Builders /\ DOMAIN templates = Agents
  /\ DOMAIN files = Agents

(* A stamp is given out once.                                              *)
Stamped ==
  /\ clock \in Nat
  /\ \A a \in Agents : files[a] # NoFile => files[a].stamp \in Nat /\ files[a].stamp < clock

(* What a turn asked for had a file, which is as old as it was or newer.   *)
AskedFor(t) ==
  turn[t].at \in Begun =>
    /\ turn[t].agent \in Agents /\ turn[t].asks.file \in Agents
    /\ turn[t].asks.stamp \in Nat /\ turn[t].asks.stamp < clock
    /\ files[turn[t].asks.file] # NoFile => files[turn[t].asks.file].stamp >= turn[t].asks.stamp

(* The persona of a template's prompt is as new as the rest.               *)
PersonaFresh(template) ==
  \/ template.persona = NoAgent
  \/ template.persona.stamp >= template.ref.stamp
  \/ template.persona.file # template.ref.file

(* It waits for, and then has, the agent made from what it asked for.      *)
MadeFor(t) ==
  /\ turn[t].at = "building" =>
       /\ building[t].ref = turn[t].asks
       /\ DOMAIN building[t] = TemplateFields
  /\ turn[t].at \in WithAgent =>
       turn[t].template.ref = turn[t].asks /\ PersonaFresh(turn[t].template)

PersonaSince(t) ==
  turn[t].at \in {"serving", "refused"} =>
    \/ turn[t].persona = NoAgent
    \/ turn[t].persona.stamp >= turn[t].asks.stamp
    \/ turn[t].persona.file # turn[t].asks.file

(* Only an agent with its tools is kept, and each was made at one time.    *)
CacheWhole ==
  /\ \A a \in Agents : templates[a] # NoTemplate =>
       ~templates[a].degraded /\ PersonaFresh(templates[a])
  /\ \A b \in Builders : building[b] # NoTemplate =>
       DOMAIN building[b] = TemplateFields /\ PersonaFresh(building[b])

Turnwise == \A t \in Turns : AskedFor(t) /\ MadeFor(t) /\ PersonaSince(t)

RInv == Shape /\ Stamped /\ Turnwise /\ CacheWhole /\ RefusedByOwnLoad

-----------------------------------------------------------------------------
(* A set of places in a sequence has a first one.                          *)
LEMMA FirstPlace ==
  ASSUME NEW S, S \subseteq Nat, S # {}
  PROVE  \E i \in S : \A j \in S : i <= j
<1> DEFINE Less == {ss \in Nat \X Nat : ss[1] < ss[2]}
<1>1. IsWellFoundedOn(Less, Nat)
  BY NatLessThanWellFounded DEF OpToRel
<1>2. \E i \in S : \A j \in S : ~(<<j, i>> \in Less)
  <2> HIDE DEF Less
  <2> QED BY <1>1, WFMin
<1>3. \A i, j \in S : ~(<<j, i>> \in Less) => i <= j
  OBVIOUS
<1> HIDE DEF Less
<1> QED BY <1>2, <1>3

(* A file is found of the configuration in force, or none.                 *)
LEMMA FileFound ==
  ASSUME NEW a \in Agents, resolveAgentFile(a) # NoAgent
  PROVE  resolveAgentFile(a) \in Present
<1> DEFINE others == {i \in DOMAIN Order : Order[i] \in Present \cap Longer[a]}
<1>1. CASE a \in Present
  BY <1>1 DEF resolveAgentFile
<1>2. CASE a \notin Present
  <2>1. others # {} /\ resolveAgentFile(a) = Order[CHOOSE i \in others : \A j \in others : i <= j]
    BY <1>2 DEF resolveAgentFile
  <2>2. others \subseteq Nat
    BY ConfigAssumption
  <2>3. \E i \in others : \A j \in others : i <= j
    BY <2>1, <2>2, FirstPlace
  <2> QED BY <2>1, <2>3
<1> QED BY <1>1, <1>2

LEMMA DetailOfFile ==
  ASSUME NEW a \in Agents, getAgent(a) # NoAgent
  PROVE  /\ getAgent(a).file = resolveAgentFile(a) /\ resolveAgentFile(a) \in Valid
         /\ getAgent(a).file \in Present /\ getAgent(a).stamp = files[getAgent(a).file].stamp
BY DEF getAgent, Valid

LEMMA PersonaOfFile ==
  ASSUME NEW a \in Agents
  PROVE  \/ loadAgentPersona(a) = NoAgent
         \/ /\ loadAgentPersona(a).file \in Present
            /\ loadAgentPersona(a).stamp = files[loadAgentPersona(a).file].stamp
BY FileFound DEF loadAgentPersona

(* An agent and the persona of its prompt are made from the same file.     *)
LEMMA TemplateFresh ==
  Stamped =>
    \A a \in Agents : resolveAgentFile(a) \in Valid =>
      \A b, pre : PersonaFresh(Template(b, getAgent(a), pre))
<1> SUFFICES ASSUME Stamped, NEW a \in Agents, resolveAgentFile(a) \in Valid, NEW b, NEW pre
             PROVE  PersonaFresh(Template(b, getAgent(a), pre))
  OBVIOUS
<1> DEFINE f == resolveAgentFile(a)
<1>1. f \in Present /\ f # NoAgent /\ files[f].stamp \in Nat
  BY ConfigAssumption DEF Valid, Present, Agents, Stamped
<1> HIDE DEF f
<1>2. getAgent(a).file = f /\ getAgent(a).stamp = files[f].stamp
  BY <1>1 DEF getAgent, f
<1>3. resolveAgentFile(f) = f
  BY <1>1 DEF resolveAgentFile
<1>4. loadAgentPersona(f).stamp = files[f].stamp
  BY <1>1, <1>3 DEF loadAgentPersona
<1> QED BY <1>1, <1>2, <1>4 DEF PersonaFresh, Template

-----------------------------------------------------------------------------
(* A step that leaves alone all that the invariant speaks of but one turn, *)
(* which is not about an agent, and keeps its template.                    *)
LEMMA Elsewhere ==
  ASSUME RInv, NEW t \in Turns, UNCHANGED <<files, clock, templates, building>>,
         DOMAIN turn' = Turns, \A u \in Turns \ {t} : turn'[u] = turn[u],
         DOMAIN turn'[t] = Fields, turn'[t].at \notin Begun,
         turn'[t].template = turn[t].template, turn'[t].missed = turn[t].missed
  PROVE  RInv'
<1>1. Shape' /\ Stamped' /\ CacheWhole'
  BY DEF RInv, Shape, Stamped, CacheWhole, Present
<1>2. Turnwise'
  BY DEF RInv, Turnwise, AskedFor, MadeFor, PersonaSince, Begun, WithAgent
<1>3. RefusedByOwnLoad'
  BY DEF RInv, RefusedByOwnLoad
<1> QED BY <1>1, <1>2, <1>3 DEF RInv

(* The classifier plans: only the turn is changed, to be routed or not.    *)
LEMMA Planned ==
  ASSUME RInv, NEW t \in Turns, NEW plan, Plan(t, plan),
         UNCHANGED <<files, clock, templates, building>>
  PROVE  RInv'
<1> DEFINE at == IF plan = <<>> THEN "unrouted" ELSE "dispatching"
<1>1. turn' = [turn EXCEPT ![t] = [turn[t] EXCEPT !.at = at, !.plan = plan, !.offered = {}]]
  BY DEF Plan
<1>2. at \notin Begun
  BY DEF Begun
<1> HIDE DEF at
<1>3. /\ DOMAIN turn' = Turns /\ \A u \in Turns \ {t} : turn'[u] = turn[u]
      /\ DOMAIN turn'[t] = Fields /\ turn'[t].at = at
      /\ turn'[t].template = turn[t].template /\ turn'[t].missed = turn[t].missed
  BY <1>1 DEF RInv, Shape, Fields
<1> QED BY <1>2, <1>3, Elsewhere
LEMMA ClassifyStep ==
  ASSUME RInv, NEW t \in Turns, NEW message, Classify(t, message)
  PROVE  RInv'
<1>1. UNCHANGED <<files, clock, templates, building>>
  BY DEF Classify, config, agents
<1>2. ASSUME NEW plan, Plan(t, plan) PROVE RInv'
  BY <1>1, <1>2, Planned
<1>3. ASSUME NEW ids,
             turn' = [turn EXCEPT ![t].at = "asking", ![t].message = message,
                                  ![t].offered = ids, ![t].asked = root]
      PROVE  RInv'
  <2>1. turn' = [turn EXCEPT ![t] = [turn[t] EXCEPT !.at = "asking", !.message = message,
                                                    !.offered = ids, !.asked = root]]
    BY <1>3
  <2>2. /\ DOMAIN turn' = Turns /\ \A u \in Turns \ {t} : turn'[u] = turn[u]
        /\ DOMAIN turn'[t] = Fields /\ turn'[t].at = "asking"
        /\ turn'[t].template = turn[t].template /\ turn'[t].missed = turn[t].missed
    BY <2>1 DEF RInv, Shape, Fields
  <2> QED BY <1>1, <2>2, Elsewhere DEF Begun
<1>4. (\E plan : Plan(t, plan)) \/ \E ids : AskModel(t, message, ids)
  BY DEF Classify, Decide
<1> QED BY <1>2, <1>3, <1>4 DEF AskModel

LEMMA HaikuStep ==
  ASSUME RInv, NEW t \in Turns, NEW answer, HaikuAnswers(t, answer)
  PROVE  RInv'
<1>1. UNCHANGED <<files, clock, templates, building>>
  BY DEF HaikuAnswers, config, agents
<1>2. \E plan : Plan(t, plan)
  BY DEF HaikuAnswers, Decide
<1> QED BY <1>1, <1>2, Planned

LEMMA DispatchStep ==
  ASSUME RInv, NEW t \in Turns, Dispatch(t)
  PROVE  RInv'
<1> DEFINE plan == Tail(turn[t].plan)
           ran == turn[t].ran \cup {[agent |-> Head(turn[t].plan), runtime |-> Runtime(Head(turn[t].plan))]}
           at == IF Len(turn[t].plan) = 1 THEN "done" ELSE turn[t].at
<1>1. UNCHANGED <<files, clock, templates, building>> /\ turn[t].at = "dispatching"
  BY DEF Dispatch, config, agents
<1>2. turn' = [turn EXCEPT ![t] = [turn[t] EXCEPT !.plan = plan, !.ran = ran, !.at = at]]
  BY DEF Dispatch
<1>3. at \notin Begun
  BY <1>1 DEF Begun
<1> HIDE DEF plan, ran, at
<1>4. /\ DOMAIN turn' = Turns /\ \A u \in Turns \ {t} : turn'[u] = turn[u]
      /\ DOMAIN turn'[t] = Fields /\ turn'[t].at = at
      /\ turn'[t].template = turn[t].template /\ turn'[t].missed = turn[t].missed
  BY <1>2 DEF RInv, Shape, Fields
<1> QED BY <1>1, <1>3, <1>4, Elsewhere

-----------------------------------------------------------------------------
(* A step that leaves alone all that the invariant speaks of but one turn, *)
(* the template it waits for, and the cache.                               *)
LEMMA OneTurn ==
  ASSUME RInv, NEW t \in Turns, UNCHANGED <<files, clock>>,
         DOMAIN turn' = Turns, \A u \in Turns \ {t} : turn'[u] = turn[u], DOMAIN turn'[t] = Fields,
         DOMAIN building' = Builders, \A u \in Turns \ {t} : building'[u] = building[u],
         DOMAIN templates' = Agents, CacheWhole',
         AskedFor(t)', MadeFor(t)', PersonaSince(t)',
         turn'[t].template # NoTemplate /\ turn'[t].template.degraded => turn'[t].missed
  PROVE  RInv'
<1>1. Shape' /\ Stamped'
  BY DEF RInv, Shape, Stamped
<1>2. ASSUME NEW u \in Turns, u # t PROVE (AskedFor(u) /\ MadeFor(u) /\ PersonaSince(u))'
  BY <1>2 DEF RInv, Turnwise, AskedFor, MadeFor, PersonaSince
<1>3. Turnwise'
  BY <1>2 DEF Turnwise
<1>4. RefusedByOwnLoad'
  BY DEF RInv, RefusedByOwnLoad
<1> QED BY <1>1, <1>3, <1>4 DEF RInv

(* A turn asks: it is told of an unknown agent, has a cached one, fails,   *)
(* or waits for the one it builds.                                         *)
LEMMA OpenStep ==
  ASSUME RInv, NEW t \in Turns, NEW a \in Agents, NEW path, Open(t, a, path)
  PROVE  RInv'
<1> DEFINE detail == getAgent(a)
           Becomes(at) == turn' = [turn EXCEPT ![t] = [turn[t] EXCEPT
                            !.agent = a, !.path = path, !.asks = detail, !.at = at]]
           Has(template) == turn' = [turn EXCEPT ![t] = [turn[t] EXCEPT
                              !.agent = a, !.path = path, !.asks = detail, !.at = "built", !.template = template]]
           Waits(pre) == building' = [building EXCEPT ![t] = Template(t, detail, pre)]
<1>1. UNCHANGED <<files, clock, templates>>
  BY DEF Open, config, agents
<1>2. \/ Becomes("unknown") /\ UNCHANGED building
      \/ detail # NoAgent /\ Hit(a, detail) /\ Has(templates[a]) /\ UNCHANGED building
      \/ Becomes("thrown") /\ UNCHANGED building
      \/ detail # NoAgent /\ Becomes("building") /\ \E pre : Waits(pre)
  BY DEF Open, agents
<1>3. detail # NoAgent =>
        /\ detail.file \in Agents /\ detail.stamp \in Nat /\ detail.stamp < clock
        /\ files[detail.file] # NoFile => files[detail.file].stamp >= detail.stamp
  BY DetailOfFile DEF RInv, Stamped, Present
<1>7. detail # NoAgent => \A b, pre : PersonaFresh(Template(b, detail, pre))
  BY DetailOfFile, TemplateFresh DEF RInv
<1> HIDE DEF detail
<1>4. CASE (Becomes("unknown") \/ Becomes("thrown")) /\ UNCHANGED building
  <2>1. /\ DOMAIN turn' = Turns /\ \A u \in Turns \ {t} : turn'[u] = turn[u]
        /\ DOMAIN turn'[t] = Fields /\ turn'[t].at \in {"unknown", "thrown"}
        /\ turn'[t].template = turn[t].template /\ turn'[t].missed = turn[t].missed
    BY <1>4 DEF RInv, Shape, Fields
  <2> QED BY <1>1, <1>4, <2>1, Elsewhere DEF Begun
<1>5. CASE detail # NoAgent /\ Hit(a, detail) /\ Has(templates[a]) /\ UNCHANGED building
  <2>1. /\ DOMAIN turn' = Turns /\ \A u \in Turns \ {t} : turn'[u] = turn[u]
        /\ DOMAIN turn'[t] = Fields /\ turn'[t].at = "built" /\ turn'[t].agent = a
        /\ turn'[t].asks = detail /\ turn'[t].template = templates[a]
    BY <1>5 DEF RInv, Shape, Fields
  <2>2. templates[a].ref = detail /\ ~templates[a].degraded /\ PersonaFresh(templates[a])
    BY <1>5 DEF Hit, RInv, CacheWhole
  <2>3. AskedFor(t)' /\ MadeFor(t)' /\ PersonaSince(t)'
    BY <1>1, <1>3, <1>5, <2>1, <2>2 DEF AskedFor, MadeFor, PersonaSince, WithAgent
  <2>4. CacheWhole' /\ DOMAIN building' = Builders /\ DOMAIN templates' = Agents
    BY <1>1, <1>5 DEF RInv, CacheWhole, Shape
  <2> QED BY <1>1, <1>5, <2>1, <2>2, <2>3, <2>4, OneTurn
<1>6. CASE detail # NoAgent /\ Becomes("building") /\ \E pre : Waits(pre)
  <2>1. /\ DOMAIN turn' = Turns /\ \A u \in Turns \ {t} : turn'[u] = turn[u]
        /\ DOMAIN turn'[t] = Fields /\ turn'[t].at = "building" /\ turn'[t].agent = a
        /\ turn'[t].asks = detail
        /\ turn'[t].template = turn[t].template /\ turn'[t].missed = turn[t].missed
    BY <1>6 DEF RInv, Shape, Fields
  <2>2. PICK pre : Waits(pre)
    BY <1>6
  <2>3. /\ DOMAIN building' = Builders /\ \A u \in Turns \ {t} : building'[u] = building[u]
        /\ building'[t] = Template(t, detail, pre)
    BY <2>2 DEF RInv, Shape, Builders
  <2>4. AskedFor(t)' /\ MadeFor(t)' /\ PersonaSince(t)'
    BY <1>1, <1>3, <1>6, <2>1, <2>3 DEF AskedFor, MadeFor, PersonaSince, WithAgent, Template, TemplateFields
  <2>5. DOMAIN building'[t] = TemplateFields /\ PersonaFresh(building'[t])
    BY <1>6, <1>7, <2>3 DEF Template, TemplateFields
  <2>6. CacheWhole' /\ DOMAIN templates' = Agents
    <3>1. \A b \in Builders \ {t} : building'[b] = building[b]
      BY <2>2 DEF RInv, Shape
    <3> QED BY <1>1, <2>5, <3>1 DEF RInv, CacheWhole, Shape
  <2> QED BY <1>1, <2>1, <2>3, <2>4, <2>6, OneTurn DEF RInv, RefusedByOwnLoad
<1> QED BY <1>2, <1>4, <1>5, <1>6

(* The build is over: the turn has its agent, which is kept if it is whole.*)
LEMMA BuiltStep ==
  ASSUME RInv, NEW t \in Turns, NEW complete, TurnBuilt(t, complete)
  PROVE  RInv'
<1> DEFINE degraded == building[t].ref.draft.tools \cap Gateway # {} /\ ~complete
           template == [building[t] EXCEPT !.degraded = degraded]
           a == turn[t].agent
<1>1. /\ UNCHANGED <<files, clock>> /\ turn[t].at = "building"
      /\ building' = [building EXCEPT ![t] = NoTemplate]
      /\ templates' = IF MayBeCached(template, template.ref)
                      THEN [templates EXCEPT ![a] = template] ELSE templates
      /\ turn' = [turn EXCEPT ![t] = [turn[t] EXCEPT
                   !.at = "built", !.template = template, !.missed = template.degraded]]
  BY DEF TurnBuilt, Built, config
<1>2. template.ref = turn[t].asks /\ PersonaFresh(template)
  <2>1. building[t] # NoTemplate /\ t \in Builders
    BY DEF TurnBuilt, Built, Builders
  <2> QED BY <1>1, <2>1 DEF RInv, Turnwise, MadeFor, CacheWhole, PersonaFresh, TemplateFields
<1> HIDE DEF template
<1>3. CacheWhole' /\ DOMAIN templates' = Agents
  BY <1>1, <1>2 DEF RInv, Shape, CacheWhole, MayBeCached
<1>4. /\ DOMAIN turn' = Turns /\ \A u \in Turns \ {t} : turn'[u] = turn[u]
      /\ DOMAIN turn'[t] = Fields /\ turn'[t].at = "built" /\ turn'[t].agent = turn[t].agent
      /\ turn'[t].asks = turn[t].asks /\ turn'[t].template = template
      /\ turn'[t].missed = template.degraded
  BY <1>1 DEF RInv, Shape, Fields
<1>5. DOMAIN building' = Builders /\ \A u \in Turns \ {t} : building'[u] = building[u]
  BY <1>1 DEF RInv, Shape
<1>6. AskedFor(t)' /\ MadeFor(t)' /\ PersonaSince(t)'
  BY <1>1, <1>2, <1>4 DEF RInv, Turnwise, AskedFor, MadeFor, PersonaSince, Begun, WithAgent
<1> QED BY <1>1, <1>3, <1>4, <1>5, <1>6, OneTurn

(* A persona that is read again is of the file asked for as it is now, or  *)
(* of another; the template's is as new as the template.                   *)
LEMMA AssembleStep ==
  ASSUME RInv, NEW t \in Turns, NEW recalled, Assemble(t, recalled)
  PROVE  RInv'
<1> DEFINE persona == IF recalled THEN loadAgentPersona(turn[t].agent) ELSE turn[t].template.persona
           at == IF turn[t].template.degraded /\ turn[t].path = "chat" THEN "refused" ELSE "serving"
<1>1. /\ UNCHANGED <<files, clock, templates, building>> /\ turn[t].at = "built"
      /\ turn' = [turn EXCEPT ![t] = [turn[t] EXCEPT !.at = at, !.persona = persona]]
  BY DEF Assemble, config, agents
<1>2. at \in {"refused", "serving"}
  OBVIOUS
<1>3. AskedFor(t) /\ turn[t].at \in Begun
  BY <1>1 DEF RInv, Turnwise, Begun
<1>4. turn[t].template.ref = turn[t].asks /\ PersonaFresh(turn[t].template)
  BY <1>1 DEF RInv, Turnwise, MadeFor, WithAgent
<1>5. \/ persona = NoAgent \/ persona.stamp >= turn[t].asks.stamp
      \/ persona.file # turn[t].asks.file
  <2>1. CASE recalled
    BY <1>3, <2>1, PersonaOfFile DEF AskedFor, Present
  <2>2. CASE ~recalled
    BY <1>4, <2>2 DEF PersonaFresh
  <2> QED BY <2>1, <2>2
<1> HIDE DEF persona, at
<1>6. /\ DOMAIN turn' = Turns /\ \A u \in Turns \ {t} : turn'[u] = turn[u]
      /\ DOMAIN turn'[t] = Fields /\ turn'[t].at = at /\ turn'[t].persona = persona
      /\ turn'[t].agent = turn[t].agent /\ turn'[t].asks = turn[t].asks
      /\ turn'[t].template = turn[t].template /\ turn'[t].missed = turn[t].missed
  BY <1>1 DEF RInv, Shape, Fields
<1>7. AskedFor(t)' /\ MadeFor(t)' /\ PersonaSince(t)'
  BY <1>1, <1>2, <1>3, <1>5, <1>6 DEF RInv, Turnwise, AskedFor, MadeFor, PersonaSince, WithAgent, Begun
<1>8. /\ DOMAIN building' = Builders /\ \A u \in Turns : building'[u] = building[u]
      /\ DOMAIN templates' = Agents /\ CacheWhole'
  BY <1>1 DEF RInv, Shape, CacheWhole
<1> QED BY <1>1, <1>6, <1>7, <1>8, OneTurn DEF RInv, RefusedByOwnLoad

LEMMA UseToolStep ==
  ASSUME RInv, NEW t \in Turns, NEW tool, NEW s, NEW url, NEW far, UseTool(t, tool, s, url, far)
  PROVE  RInv'
<1>1. UNCHANGED <<files, clock, templates, building>>
  BY DEF UseTool, config, agents
<1>2. PICK used : turn' = [turn EXCEPT ![t] = [turn[t] EXCEPT !.used = used]]
  BY DEF UseTool
<1>3. /\ DOMAIN turn' = Turns /\ \A u \in Turns \ {t} : turn'[u] = turn[u]
      /\ DOMAIN turn'[t] = Fields /\ turn'[t].at = turn[t].at /\ turn'[t].persona = turn[t].persona
      /\ turn'[t].agent = turn[t].agent /\ turn'[t].asks = turn[t].asks
      /\ turn'[t].template = turn[t].template /\ turn'[t].missed = turn[t].missed
  BY <1>2 DEF RInv, Shape, Fields
<1>4. AskedFor(t)' /\ MadeFor(t)' /\ PersonaSince(t)'
  BY <1>1, <1>3 DEF RInv, Turnwise, AskedFor, MadeFor, PersonaSince
<1>5. /\ DOMAIN building' = Builders /\ \A u \in Turns : building'[u] = building[u]
      /\ DOMAIN templates' = Agents /\ CacheWhole'
  BY <1>1 DEF RInv, Shape, CacheWhole
<1> QED BY <1>1, <1>3, <1>4, <1>5, OneTurn DEF RInv, RefusedByOwnLoad

-----------------------------------------------------------------------------
(* A step that leaves the turns and what they wait for alone, and gives a  *)
(* file that it changes the next stamp.                                    *)
LEMMA TurnsKept ==
  ASSUME RInv, UNCHANGED turn, \A t \in Turns : building'[t] = building[t],
         Shape', Stamped', CacheWhole', clock' \in {clock, clock + 1},
         \A f \in Agents : files'[f] # NoFile => files'[f] = files[f] \/ files'[f].stamp = clock
  PROVE  RInv'
<1>1. ASSUME NEW t \in Turns PROVE AskedFor(t)'
  BY <1>1 DEF RInv, Turnwise, AskedFor, Stamped
<1>2. ASSUME NEW t \in Turns PROVE MadeFor(t)' /\ PersonaSince(t)'
  BY <1>2 DEF RInv, Turnwise, MadeFor, PersonaSince
<1>3. RefusedByOwnLoad'
  BY DEF RInv, RefusedByOwnLoad
<1> QED BY <1>1, <1>2, <1>3 DEF RInv, Turnwise

LEMMA WarmBuiltStep ==
  ASSUME RInv, NEW w \in Warmers, NEW a \in Agents, NEW complete, WarmBuilt(w, a, complete)
  PROVE  RInv'
<1> DEFINE b == Builder(w, a)
           degraded == building[b].ref.draft.tools \cap Gateway # {} /\ ~complete
           template == [building[b] EXCEPT !.degraded = degraded]
<1>1. b \notin Turns
  BY ConfigAssumption DEF Builder, Agents
<1>2. /\ UNCHANGED <<files, clock>>
      /\ building' = [building EXCEPT ![b] = NoTemplate]
      /\ templates' = IF MayBeCached(template, template.ref)
                      THEN [templates EXCEPT ![a] = template] ELSE templates
  BY DEF WarmBuilt, Built, config
<1>3. UNCHANGED turn
  BY <1>1 DEF WarmBuilt, Built
<1>6. PersonaFresh(template)
  <2>1. building[b] # NoTemplate /\ b \in Builders
    BY DEF WarmBuilt, Built, Builders, Builder
  <2> QED BY <2>1 DEF RInv, CacheWhole, PersonaFresh, TemplateFields
<1> HIDE DEF template, b
<1>4. Shape' /\ Stamped' /\ CacheWhole'
  BY <1>2, <1>3, <1>6 DEF RInv, Shape, Stamped, CacheWhole, MayBeCached
<1>5. \A t \in Turns : building'[t] = building[t]
  BY <1>1, <1>2 DEF RInv, Shape
<1> QED BY <1>2, <1>3, <1>4, <1>5, TurnsKept

LEMMA ActivateStep ==
  ASSUME RInv, NEW t \in Turns, NEW s, Activate(t, s)
  PROVE  RInv'
<1>1. UNCHANGED <<files, clock, templates, building, turn>>
  BY DEF Activate, config
<1>2. Shape' /\ Stamped' /\ CacheWhole'
  BY <1>1 DEF RInv, Shape, Stamped, CacheWhole
<1> QED BY <1>1, <1>2, TurnsKept

(* Warming builds nothing for a turn.                                      *)
LEMMA WarmsApart ==
  \A w \in Warmers : Warms(w) \cap Turns = {}
BY ConfigAssumption DEF Warms, Builder, Valid, Present, Agents

(* What warming builds is made at one time.                                *)
WarmsMade ==
  \A w \in Warmers : \A b \in Warms(w) :
    DOMAIN WarmTemplate(b) = TemplateFields /\ PersonaFresh(WarmTemplate(b))

LEMMA WarmsFresh == Stamped => WarmsMade
<1> SUFFICES ASSUME Stamped, NEW w \in Warmers, NEW b \in Warms(w)
             PROVE  DOMAIN WarmTemplate(b) = TemplateFields /\ PersonaFresh(WarmTemplate(b))
  BY DEF WarmsMade
<1>1. b[2] \in Valid
  BY DEF Warms, Builder
<1>2. b[2] \in Agents /\ resolveAgentFile(b[2]) = b[2]
  BY <1>1 DEF Valid, Present, resolveAgentFile
<1> QED BY <1>1, <1>2, TemplateFresh DEF WarmTemplate, Template, TemplateFields

LEMMA PrewarmStep ==
  ASSUME RInv, NEW w \in Warmers, Prewarm(w)
  PROVE  RInv'
<1>1. /\ UNCHANGED <<files, clock, templates, turn>>
      /\ building' = [b \in Builders |-> IF b \in Warms(w) THEN WarmTemplate(b) ELSE building[b]]
  BY DEF Prewarm, config
<1>2. \A t \in Turns : building'[t] = building[t]
  BY <1>1, WarmsApart DEF Builders
<1>4. \A b \in Warms(w) : DOMAIN WarmTemplate(b) = TemplateFields /\ PersonaFresh(WarmTemplate(b))
  BY WarmsFresh DEF RInv, WarmsMade
<1>3. Shape' /\ Stamped' /\ CacheWhole'
  BY <1>1, <1>4 DEF RInv, Shape, Stamped, CacheWhole
<1> QED BY <1>1, <1>2, <1>3, TurnsKept

LEMMA WarmedStep ==
  ASSUME RInv, NEW w \in Warmers, Warmed(w) \/ RefreshFails(w)
  PROVE  RInv'
<1>1. UNCHANGED <<files, clock, templates, building, turn>>
  BY DEF Warmed, RefreshFails, config, agents
<1>2. Shape' /\ Stamped' /\ CacheWhole'
  BY <1>1 DEF RInv, Shape, Stamped, CacheWhole
<1> QED BY <1>1, <1>2, TurnsKept

(* A refresh empties the cache, and its files have the next stamp.         *)
LEMMA RefreshStep ==
  ASSUME RInv, NEW w \in Warmers, NEW snapshot, Refresh(w, snapshot)
  PROVE  RInv'
<1>1. /\ clock' = clock + 1 /\ UNCHANGED turn
      /\ files' = [a \in Agents |-> IF snapshot.drafts[a] = NoFile THEN NoFile
                                    ELSE [draft |-> snapshot.drafts[a], stamp |-> clock]]
      /\ templates' = [a \in Agents |-> NoTemplate]
  BY DEF Refresh
<1>2. \/ UNCHANGED building
      \/ building' = [b \in Builders |-> IF b \in Warms(w)' THEN WarmTemplate(b)' ELSE building[b]]
  BY DEF Refresh
<1>3. Warms(w)' \cap Turns = {}
  BY ConfigAssumption DEF Warms, Builder, Valid, Present, Agents
<1>4. DOMAIN building' = Builders /\ \A t \in Turns : building'[t] = building[t]
  BY <1>2, <1>3 DEF RInv, Shape, Builders
<1>6. Stamped'
  BY <1>1 DEF RInv, Stamped
<1>7. (\A b \in Warms(w) : DOMAIN WarmTemplate(b) = TemplateFields /\ PersonaFresh(WarmTemplate(b)))'
  <2>1. Stamped' => WarmsMade'
    BY WarmsFresh, PTL
  <2> QED BY <1>6, <2>1 DEF WarmsMade
<1>5. Shape'
  BY <1>1, <1>4 DEF RInv, Shape
<1>8. CacheWhole'
  <2>1. \A a \in Agents : templates'[a] = NoTemplate
    BY <1>1
  <2>2. \A b \in Builders : \/ building'[b] = building[b]
                            \/ b \in Warms(w)' /\ building'[b] = WarmTemplate(b)'
    BY <1>2
  <2>3. \A b \in Builders : building'[b] # NoTemplate =>
          DOMAIN building'[b] = TemplateFields /\ PersonaFresh(building'[b])
    BY <1>7, <2>2 DEF RInv, CacheWhole, PersonaFresh
  <2> QED BY <2>1, <2>3 DEF CacheWhole, PersonaFresh
<1> QED BY <1>1, <1>4, <1>5, <1>6, <1>8, TurnsKept

LEMMA EditStep ==
  ASSUME RInv, NEW a \in Agents, NEW file, Edit(a, file)
  PROVE  RInv'
<1>1. /\ clock' = clock + 1 /\ UNCHANGED <<templates, building, turn>>
      /\ files' = [files EXCEPT ![a] = IF file = NoFile THEN NoFile ELSE [draft |-> file, stamp |-> clock]]
  BY DEF Edit, agents
<1>2. Shape' /\ CacheWhole'
  BY <1>1 DEF RInv, Shape, CacheWhole
<1>3. Stamped'
  BY <1>1 DEF RInv, Shape, Stamped
<1> QED BY <1>1, <1>2, <1>3, TurnsKept DEF RInv, Shape

LEMMA WriteSkillStep ==
  ASSUME RInv, NEW s, WriteSkill(s)
  PROVE  RInv'
<1>1. clock' = clock + 1 /\ UNCHANGED <<files, templates, building, turn>>
  BY DEF WriteSkill, agents
<1>2. Shape' /\ Stamped' /\ CacheWhole'
  BY <1>1 DEF RInv, Shape, Stamped, CacheWhole
<1> QED BY <1>1, <1>2, TurnsKept

-----------------------------------------------------------------------------
LEMMA InitStep ==
  ASSUME Init PROVE RInv
<1>1. Shape
  BY DEF Init, Shape, Fields
<1>2. Stamped
  BY DEF Init, Stamped
<1>3. Turnwise
  BY DEF Init, Turnwise, AskedFor, MadeFor, PersonaSince, Begun, WithAgent
<1>4. CacheWhole /\ RefusedByOwnLoad
  BY DEF Init, CacheWhole, RefusedByOwnLoad
<1> QED BY <1>1, <1>2, <1>3, <1>4 DEF RInv

LEMMA NextStep ==
  ASSUME RInv, [Next]_vars PROVE RInv'
<1>1. CASE UNCHANGED vars
  BY <1>1, TurnsKept DEF vars, config, agents, RInv, Shape, Stamped, CacheWhole
<1>2. ASSUME NEW t \in Turns, NEW m \in Messages, Classify(t, m) PROVE RInv'
  BY <1>2, ClassifyStep
<1>3. ASSUME NEW t \in Turns, NEW answer \in Answers, HaikuAnswers(t, answer) PROVE RInv'
  BY <1>3, HaikuStep
<1>4. ASSUME NEW t \in Turns, Dispatch(t) PROVE RInv'
  BY <1>4, DispatchStep
<1>5. ASSUME NEW t \in Turns, NEW a \in Agents, NEW path \in Paths, Open(t, a, path) PROVE RInv'
  BY <1>5, OpenStep
<1>6. ASSUME NEW t \in Turns, NEW complete \in BOOLEAN, TurnBuilt(t, complete) PROVE RInv'
  BY <1>6, BuiltStep
<1>7. ASSUME NEW t \in Turns, NEW recalled \in BOOLEAN, Assemble(t, recalled) PROVE RInv'
  BY <1>7, AssembleStep
<1>8. ASSUME NEW t \in Turns, NEW s \in Skills, Activate(t, s) PROVE RInv'
  BY <1>8, ActivateStep
<1>9. ASSUME NEW t \in Turns, NEW tool \in SkillTools \cup SkillHttp, NEW s \in Skills,
             NEW url \in Urls, NEW far \in FarSides, UseTool(t, tool, s, url, far)
      PROVE  RInv'
  BY <1>9, UseToolStep
<1>10. ASSUME NEW w \in Warmers, Prewarm(w) PROVE RInv'
  BY <1>10, PrewarmStep
<1>11. ASSUME NEW w \in Warmers, NEW a \in Agents, NEW complete \in BOOLEAN, WarmBuilt(w, a, complete)
       PROVE  RInv'
  BY <1>11, WarmBuiltStep
<1>12. ASSUME NEW w \in Warmers, Warmed(w) \/ RefreshFails(w) PROVE RInv'
  BY <1>12, WarmedStep
<1>13. ASSUME NEW w \in Warmers, NEW snapshot \in Snapshots, Refresh(w, snapshot) PROVE RInv'
  BY <1>13, RefreshStep
<1>14. ASSUME NEW a \in Agents, NEW file \in Drafts \cup {NoFile}, Edit(a, file) PROVE RInv'
  BY <1>14, EditStep
<1>15. ASSUME NEW s \in Skills, WriteSkill(s) PROVE RInv'
  BY <1>15, WriteSkillStep
<1> QED BY <1>1, <1>2, <1>3, <1>4, <1>5, <1>6, <1>7, <1>8, <1>9, <1>10, <1>11, <1>12, <1>13,
           <1>14, <1>15 DEF Next

LEMMA Inductive == Spec => []RInv
<1>1. Init => RInv
  BY InitStep
<1>2. RInv /\ [Next]_vars => RInv'
  BY NextStep
<1> QED BY <1>1, <1>2, PTL DEF Spec

(* Whatever is edited, refreshed or warmed while a turn waits for its      *)
(* agent, it works with one made from the files it asked for, and with a   *)
(* persona at least as new (create-strands-agent.ts:144-159).              *)
THEOREM AgentsUpToDate == Spec => []AgentUpToDate
<1>1. RInv => AgentUpToDate
  BY DEF RInv, Turnwise, MadeFor, PersonaSince, AgentUpToDate, WithAgent
<1> QED BY <1>1, Inductive, PTL

(* A turn whose agent lacks tools has itself found them missing: neither   *)
(* the cache nor another turn's build hands such an agent on.              *)
THEOREM RefusalsOwn == Spec => []RefusedByOwnLoad
<1>1. RInv => RefusedByOwnLoad
  BY DEF RInv
<1> QED BY <1>1, Inductive, PTL

-----------------------------------------------------------------------------
(* A skill that one turn has activated is no other turn's: a registry that *)
(* is shared was settled when it was made, and one that is not is its      *)
(* turn's alone.                                                           *)

InRuntime == {"idle", "unknown", "thrown"} \cup Begun

(* Nothing in it can be activated any more, but skills written since.      *)
Settled(b) ==
  \A s \in DOMAIN registries[b] :
    registries[b][s] = AtBuild \/ (registries[b][s] = Nobody /\ s \notin written) \/ s \in late

(* A builder builds once.                                                  *)
Taken(b) == IF b \in Turns THEN turn[b].at # "idle" ELSE warm[b[1]] # "idle"

Shared(b) == b \in Builders /\ Taken(b) /\ Settled(b)

CacheShared == \A a \in Agents : templates[a] # NoTemplate => Shared(templates[a].builder)

(* What will be cached has a settled registry while it is being built.     *)
BuildingOf(b) ==
  building[b] # NoTemplate =>
    /\ building[b].builder = b /\ Taken(b) /\ DOMAIN building[b] = TemplateFields
    /\ templateIsCacheable(building[b].ref, building[b].pre) => Settled(b)

(* A turn works with a registry of its own, or with one that is shared.    *)
HeldBy(t) ==
  turn[t].at \in WithAgent => turn[t].template.builder = t \/ Shared(turn[t].template.builder)

Own(t) ==
  \A s \in DOMAIN registries[t] : registries[t][s] \in {AtBuild, Nobody, t} \/ s \in late

UsedOwn(t) == \A u \in turn[t].used : u.by \in {AtBuild, t} \/ u.skill \in late

Skilled ==
  /\ DOMAIN registries = Builders /\ DOMAIN warm = Warmers
  /\ CacheShared
  /\ \A b \in Builders : BuildingOf(b)
  /\ \A t \in Turns : turn[t].at \in InRuntime /\ HeldBy(t) /\ Own(t) /\ UsedOwn(t)

(* In the API process no turn has an agent.                                *)
Quiet == \A t \in Turns : turn[t].used = {} /\ turn[t].at \notin Begun

SInv ==
  /\ cast \in Casts
  /\ cast.role = "runtime" => Skilled
  /\ cast.role # "runtime" => Quiet

-----------------------------------------------------------------------------
LEMMA TurnsAreBuilders == \A t \in Turns : t \in Builders
BY DEF Builders

LEMMA TakenStays ==
  ASSUME \A t \in Turns : turn[t].at # "idle" => turn'[t].at # "idle",
         \A w \in Warmers : warm[w] # "idle" => warm'[w] # "idle",
         NEW b \in Builders, Taken(b)
  PROVE  Taken(b)'
<1>1. CASE b \in Turns
  BY <1>1 DEF Taken
<1>2. CASE b \notin Turns
  <2>1. b[1] \in Warmers
    BY <1>2 DEF Builders
  <2> QED BY <1>2, <2>1 DEF Taken
<1> QED BY <1>1, <1>2

(* A registry is settled when it is made, if its template may be cached.   *)
LEMMA MadeSettled ==
  ASSUME NEW b, NEW skills, NEW pre, registries'[b] = Registry(skills, pre, written),
         UNCHANGED written, skills = {} \/ pre
  PROVE  Settled(b)'
BY DEF Settled, Registry

LEMMA MadeOwn ==
  ASSUME NEW t, NEW skills, NEW pre, registries'[t] = Registry(skills, pre, written)
  PROVE  Own(t)'
BY DEF Own, Registry

(* A step that makes no registry and activates nothing.                    *)
LEMMA RegistriesKept ==
  ASSUME Skilled, UNCHANGED registries, late \subseteq late', written' \subseteq written \cup late',
         \A t \in Turns : turn[t].at # "idle" => turn'[t].at # "idle",
         DOMAIN warm' = Warmers, \A w \in Warmers : warm[w] # "idle" => warm'[w] # "idle",
         \A a \in Agents : templates'[a] # NoTemplate =>
           templates'[a] = templates[a] \/ Shared(templates'[a].builder),
         \A b \in Builders : building'[b] \in {building[b], NoTemplate},
         \A t \in Turns :
           /\ turn'[t].at \in InRuntime
           /\ turn'[t].at \in WithAgent =>
                \/ turn[t].at \in WithAgent /\ turn'[t].template = turn[t].template
                \/ turn'[t].template.builder = t
                \/ Shared(turn'[t].template.builder)
           /\ \A u \in turn'[t].used : u \in turn[t].used \/ u.by \in {AtBuild, t} \/ u.skill \in late
  PROVE  Skilled'
<1>1. \A b : Settled(b) => Settled(b)'
  BY DEF Settled
<1>2. \A b \in Builders : Taken(b) => Taken(b)'
  BY TakenStays
<1>3. \A b : Shared(b) => Shared(b)'
  BY <1>1, <1>2 DEF Shared, Builders, Agents
<1>4. CacheShared'
  BY <1>3 DEF Skilled, CacheShared
<1>5. \A b \in Builders : BuildingOf(b)'
  BY <1>1, <1>2 DEF Skilled, BuildingOf, templateIsCacheable
<1>6. \A t \in Turns : turn'[t].at \in InRuntime /\ HeldBy(t)' /\ Own(t)' /\ UsedOwn(t)'
  BY <1>3 DEF Skilled, HeldBy, Own, UsedOwn
<1> QED BY <1>4, <1>5, <1>6 DEF Skilled, Builders, Agents

(* A step that makes the registries of some builders, and activates nothing.*)
LEMMA RegistriesMade ==
  ASSUME Skilled, UNCHANGED <<templates, written, late>>,
         \A t \in Turns : turn[t].at # "idle" => turn'[t].at # "idle",
         DOMAIN warm' = Warmers, \A w \in Warmers : warm[w] # "idle" => warm'[w] # "idle",
         \A t \in Turns :
           /\ turn'[t].at \in InRuntime /\ turn'[t].used = turn[t].used
           /\ turn'[t].at \in WithAgent => turn[t].at \in WithAgent /\ turn'[t].template = turn[t].template,
         NEW made, DOMAIN registries' = Builders,
         \A b \in Builders \ made : registries'[b] = registries[b] /\ building'[b] = building[b],
         \A b \in made : ~Taken(b) /\ BuildingOf(b)' /\ (b \in Turns => Own(b)')
  PROVE  Skilled'
<1>1. \A b \in Builders \ made : Settled(b) => Settled(b)'
  BY DEF Settled
<1>2. \A b \in Builders : Taken(b) => Taken(b)'
  BY TakenStays
<1>3. \A b : Shared(b) => Shared(b)'
  BY <1>1, <1>2 DEF Shared, Builders, Agents
<1>4. CacheShared'
  BY <1>3 DEF Skilled, CacheShared
<1>5. \A b \in Builders \ made : BuildingOf(b)'
  BY <1>1, <1>2 DEF Skilled, BuildingOf, templateIsCacheable
<1>6. \A t \in Turns \ made : Own(t)'
  BY TurnsAreBuilders DEF Skilled, Own
<1>7. \A t \in Turns : turn'[t].at \in InRuntime /\ HeldBy(t)' /\ Own(t)' /\ UsedOwn(t)'
  BY <1>3, <1>6 DEF Skilled, HeldBy, UsedOwn
<1> QED BY <1>4, <1>5, <1>7 DEF Skilled, Builders, Agents

-----------------------------------------------------------------------------
(* The steps of an agent runtime.                                          *)

LEMMA OpenSkilled ==
  ASSUME RInv, Skilled, NEW t \in Turns, NEW a \in Agents, NEW path, Open(t, a, path)
  PROVE  Skilled'
<1> DEFINE detail == getAgent(a)
           Becomes(at) == turn' = [turn EXCEPT ![t] = [turn[t] EXCEPT
                            !.agent = a, !.path = path, !.asks = detail, !.at = at]]
           Has(template) == turn' = [turn EXCEPT ![t] = [turn[t] EXCEPT
                              !.agent = a, !.path = path, !.asks = detail, !.at = "built", !.template = template]]
           Makes(pre) == /\ building' = [building EXCEPT ![t] = Template(t, detail, pre)]
                         /\ registries' = [registries EXCEPT ![t] = Registry(detail.draft.skills, pre, written)]
<1>1. UNCHANGED <<templates, warm, late, written>> /\ turn[t].at = "idle"
  BY DEF Open, config, agents
<1>2. \/ (Becomes("unknown") \/ Becomes("thrown")) /\ UNCHANGED <<building, registries>>
      \/ templates[a] # NoTemplate /\ Has(templates[a]) /\ UNCHANGED <<building, registries>>
      \/ Becomes("building") /\ \E pre : Makes(pre)
  BY DEF Open, agents, Hit
<1> HIDE DEF detail
<1>3. CASE (Becomes("unknown") \/ Becomes("thrown")) /\ UNCHANGED <<building, registries>>
  <2>1. /\ \A u \in Turns \ {t} : turn'[u] = turn[u]
        /\ turn'[t].at \in {"unknown", "thrown"} /\ turn'[t].used = turn[t].used
    BY <1>3 DEF RInv, Shape, Fields
  <2> QED BY <1>1, <1>3, <2>1, RegistriesKept DEF Skilled, InRuntime, WithAgent
<1>4. CASE templates[a] # NoTemplate /\ Has(templates[a]) /\ UNCHANGED <<building, registries>>
  <2>1. /\ \A u \in Turns \ {t} : turn'[u] = turn[u]
        /\ turn'[t].at = "built" /\ turn'[t].used = turn[t].used /\ turn'[t].template = templates[a]
    BY <1>4 DEF RInv, Shape, Fields
  <2>2. Shared(templates[a].builder)
    BY <1>4 DEF Skilled, CacheShared
  <2> QED BY <1>1, <1>4, <2>1, <2>2, RegistriesKept DEF Skilled, InRuntime, Begun
<1>5. CASE Becomes("building") /\ \E pre : Makes(pre)
  <2>1. /\ \A u \in Turns \ {t} : turn'[u] = turn[u]
        /\ turn'[t].at = "building" /\ turn'[t].used = turn[t].used
    BY <1>5 DEF RInv, Shape, Fields
  <2>2. PICK pre : Makes(pre)
    BY <1>5
  <2>3. /\ DOMAIN registries' = Builders
        /\ \A b \in Builders \ {t} : registries'[b] = registries[b] /\ building'[b] = building[b]
        /\ registries'[t] = Registry(detail.draft.skills, pre, written)
        /\ building'[t] = Template(t, detail, pre)
    BY <2>2, TurnsAreBuilders DEF RInv, Shape, Skilled
  <2>4. templateIsCacheable(detail, pre) => Settled(t)'
    BY <1>1, <2>3, MadeSettled DEF templateIsCacheable
  <2>5. BuildingOf(t)'
    BY <2>1, <2>3, <2>4 DEF BuildingOf, Template, TemplateFields, Taken, templateIsCacheable
  <2>6. Own(t)'
    BY <2>3, MadeOwn
  <2>7. ~Taken(t)
    BY <1>1 DEF Taken
  <2> QED BY <1>1, <2>1, <2>3, <2>5, <2>6, <2>7, RegistriesMade DEF Skilled, InRuntime, Begun, WithAgent
<1> QED BY <1>2, <1>3, <1>4, <1>5

(* The template of a builder that is taken into the cache is shared.       *)
LEMMA BuiltShared ==
  ASSUME Skilled, NEW b \in Builders, building[b] # NoTemplate, NEW degraded
  PROVE  LET template == [building[b] EXCEPT !.degraded = degraded]
         IN template.builder = b /\ (MayBeCached(template, template.ref) => Shared(b))
<1> DEFINE template == [building[b] EXCEPT !.degraded = degraded]
<1>1. BuildingOf(b)
  BY DEF Skilled
<1>2. /\ template.builder = b /\ template.ref = building[b].ref /\ template.pre = building[b].pre
      /\ Taken(b)
  BY <1>1 DEF BuildingOf, TemplateFields
<1>3. MayBeCached(template, template.ref) => Settled(b)
  BY <1>1, <1>2 DEF BuildingOf, MayBeCached, templateIsCacheable
<1> QED BY <1>2, <1>3 DEF Shared

LEMMA TurnBuiltSkilled ==
  ASSUME RInv, Skilled, NEW t \in Turns, NEW complete, TurnBuilt(t, complete)
  PROVE  Skilled'
<1> DEFINE degraded == building[t].ref.draft.tools \cap Gateway # {} /\ ~complete
           template == [building[t] EXCEPT !.degraded = degraded]
           a == turn[t].agent
<1>1. /\ UNCHANGED <<registries, warm, late, written>> /\ turn[t].at = "building" /\ building[t] # NoTemplate
      /\ building' = [building EXCEPT ![t] = NoTemplate]
      /\ templates' = IF MayBeCached(template, template.ref)
                      THEN [templates EXCEPT ![a] = template] ELSE templates
      /\ turn' = [turn EXCEPT ![t] = [turn[t] EXCEPT
                   !.at = "built", !.template = template, !.missed = template.degraded]]
  BY DEF TurnBuilt, Built, config
<1>2. template.builder = t /\ (MayBeCached(template, template.ref) => Shared(t))
  BY <1>1, BuiltShared, TurnsAreBuilders
<1> HIDE DEF template
<1>3. /\ \A u \in Turns \ {t} : turn'[u] = turn[u]
      /\ turn'[t].at = "built" /\ turn'[t].used = turn[t].used /\ turn'[t].template = template
  BY <1>1 DEF RInv, Shape, Fields
<1>4. \A x \in Agents : templates'[x] # NoTemplate =>
        templates'[x] = templates[x] \/ Shared(templates'[x].builder)
  BY <1>1, <1>2 DEF RInv, Shape
<1>5. \A b \in Builders : building'[b] \in {building[b], NoTemplate}
  BY <1>1 DEF RInv, Shape
<1> QED BY <1>1, <1>2, <1>3, <1>4, <1>5, RegistriesKept DEF Skilled, InRuntime, Begun

LEMMA WarmBuiltSkilled ==
  ASSUME RInv, Skilled, NEW w \in Warmers, NEW a \in Agents, NEW complete, WarmBuilt(w, a, complete)
  PROVE  Skilled'
<1> DEFINE b == Builder(w, a)
           degraded == building[b].ref.draft.tools \cap Gateway # {} /\ ~complete
           template == [building[b] EXCEPT !.degraded = degraded]
<1>1. b \in Builders /\ b \notin Turns
  BY ConfigAssumption DEF Builder, Builders, Agents
<1>2. /\ UNCHANGED <<registries, warm, late, written>> /\ building[b] # NoTemplate
      /\ building' = [building EXCEPT ![b] = NoTemplate]
      /\ templates' = IF MayBeCached(template, template.ref)
                      THEN [templates EXCEPT ![a] = template] ELSE templates
  BY DEF WarmBuilt, Built, config
<1>3. UNCHANGED turn
  BY <1>1 DEF WarmBuilt, Built
<1>4. template.builder = b /\ (MayBeCached(template, template.ref) => Shared(b))
  BY <1>1, <1>2, BuiltShared
<1> HIDE DEF template, b
<1>5. \A x \in Agents : templates'[x] # NoTemplate =>
        templates'[x] = templates[x] \/ Shared(templates'[x].builder)
  BY <1>2, <1>4 DEF RInv, Shape
<1>6. \A c \in Builders : building'[c] \in {building[c], NoTemplate}
  BY <1>2 DEF RInv, Shape
<1> QED BY <1>2, <1>3, <1>5, <1>6, RegistriesKept DEF Skilled

LEMMA AssembleSkilled ==
  ASSUME RInv, Skilled, NEW t \in Turns, NEW recalled, Assemble(t, recalled)
  PROVE  Skilled'
<1> DEFINE at == IF turn[t].template.degraded /\ turn[t].path = "chat" THEN "refused" ELSE "serving"
           persona == IF recalled THEN loadAgentPersona(turn[t].agent) ELSE turn[t].template.persona
<1>1. /\ UNCHANGED <<registries, warm, late, written, templates, building>> /\ turn[t].at = "built"
      /\ turn' = [turn EXCEPT ![t] = [turn[t] EXCEPT !.at = at, !.persona = persona]]
  BY DEF Assemble, config, agents
<1>2. at \in {"refused", "serving"}
  OBVIOUS
<1> HIDE DEF at, persona
<1>3. /\ \A u \in Turns \ {t} : turn'[u] = turn[u]
      /\ turn'[t].at = at /\ turn'[t].used = turn[t].used /\ turn'[t].template = turn[t].template
  BY <1>1 DEF RInv, Shape, Fields
<1> QED BY <1>1, <1>2, <1>3, RegistriesKept DEF Skilled, InRuntime, Begun, WithAgent

(* What the tool works with is of a registry of the turn's own, or settled.*)
LEMMA UseToolSkilled ==
  ASSUME RInv, Skilled, NEW t \in Turns, NEW tool, NEW asked, NEW url, NEW far,
         UseTool(t, tool, asked, url, far)
  PROVE  Skilled'
<1> DEFINE s == Reaches(tool, asked)
           use == [skill |-> s, by |-> RegistryOf(t)[s]]
<1>1. /\ UNCHANGED <<registries, warm, late, written, templates, building>> /\ turn[t].at = "serving"
      /\ turn' = [turn EXCEPT ![t] = [turn[t] EXCEPT !.used = turn[t].used \cup {use}]]
      /\ s \in DOMAIN RegistryOf(t) /\ RegistryOf(t)[s] # Nobody
  BY DEF UseTool, config, agents, Allowed, isSkillActivated
<1> HIDE DEF s
<1>2. use.by \in {AtBuild, t} \/ use.skill \in late
  <2>1. CASE turn[t].template.builder = t
    BY <1>1, <2>1 DEF Skilled, Own, RegistryOf
  <2>2. CASE Shared(turn[t].template.builder)
    BY <1>1, <2>2 DEF Shared, Settled, RegistryOf
  <2> QED BY <1>1, <2>1, <2>2 DEF Skilled, HeldBy, WithAgent
<1> HIDE DEF use
<1>3. /\ \A u \in Turns \ {t} : turn'[u] = turn[u]
      /\ turn'[t].at = turn[t].at /\ turn'[t].used = turn[t].used \cup {use}
      /\ turn'[t].template = turn[t].template
  BY <1>1 DEF RInv, Shape, Fields
<1> QED BY <1>1, <1>2, <1>3, RegistriesKept DEF Skilled

(* A skill is activated in a registry of the turn's own, or was written    *)
(* after the registry was settled.                                         *)
LEMMA ActivateSkilled ==
  ASSUME RInv, Skilled, NEW t \in Turns, NEW s, Activate(t, s)
  PROVE  Skilled'
<1> DEFINE b == turn[t].template.builder
<1>1. /\ UNCHANGED <<warm, late, written, templates, building, turn>> /\ turn[t].at = "serving"
      /\ registries' = [registries EXCEPT ![b] = [registries[b] EXCEPT ![s] = t]]
      /\ s \in DOMAIN registries[b] /\ registries[b][s] = Nobody /\ s \in written
  BY DEF Activate, config, RegistryOf, isSkillActivated
<1>2. b = t \/ Shared(b)
  BY <1>1 DEF Skilled, HeldBy, WithAgent
<1>3. b \in Builders /\ (Settled(b) => s \in late)
  BY <1>1, <1>2, TurnsAreBuilders, ConfigAssumption DEF Shared, Settled
<1> HIDE DEF b
<1>4. /\ DOMAIN registries' = Builders /\ \A c \in Builders \ {b} : registries'[c] = registries[c]
      /\ DOMAIN registries'[b] = DOMAIN registries[b] /\ registries'[b][s] = t
      /\ \A r \in DOMAIN registries[b] \ {s} : registries'[b][r] = registries[b][r]
  BY <1>1, <1>3 DEF Skilled
<1>5. \A c \in Builders : Settled(c) => Settled(c)'
  BY <1>1, <1>3, <1>4 DEF Settled
<1>6. \A c \in Builders : Taken(c) => Taken(c)'
  BY <1>1 DEF Taken
<1>7. \A c : Shared(c) => Shared(c)'
  BY <1>5, <1>6 DEF Shared, Builders, Agents
<1>8. CacheShared' /\ \A c \in Builders : BuildingOf(c)'
  BY <1>1, <1>5, <1>6, <1>7 DEF Skilled, CacheShared, BuildingOf, templateIsCacheable
<1>9. ASSUME NEW u \in Turns PROVE Own(u)'
  <2>1. Own(u)
    BY DEF Skilled
  <2>2. CASE u # b
    BY <1>1, <1>4, <2>1, <2>2, TurnsAreBuilders DEF Own
  <2>3. CASE u = b
    <3>1. t = u \/ s \in late
      BY <1>2, <1>3, <2>3 DEF Shared
    <3> QED BY <1>1, <1>4, <2>1, <2>3, <3>1 DEF Own
  <2> QED BY <2>2, <2>3
<1>10. \A u \in Turns : turn'[u].at \in InRuntime /\ HeldBy(u)' /\ UsedOwn(u)'
  BY <1>1, <1>7 DEF Skilled, HeldBy, UsedOwn
<1> QED BY <1>1, <1>4, <1>8, <1>9, <1>10 DEF Skilled, Builders, Agents

(* The registries that are made when the process starts are nobody's yet.  *)
LEMMA PrewarmSkilled ==
  ASSUME RInv, Skilled, NEW w \in Warmers, Prewarm(w)
  PROVE  Skilled'
<1> DEFINE made == Warms(w)
<1>1. /\ UNCHANGED <<templates, written, late, turn>> /\ warm[w] = "idle"
      /\ warm' = [warm EXCEPT ![w] = "warming"]
      /\ building' = [b \in Builders |-> IF b \in made THEN WarmTemplate(b) ELSE building[b]]
      /\ registries' = [b \in Builders |-> IF b \in made THEN WarmRegistry(b) ELSE registries[b]]
  BY DEF Prewarm, config
<1>2. \A b \in made : b \in Builders \ Turns /\ b[1] = w
  BY WarmsApart DEF Warms, Builder, Builders, Valid, Present
<1>3. /\ DOMAIN warm' = Warmers /\ warm'[w] = "warming"
      /\ \A x \in Warmers : warm[x] # "idle" => warm'[x] # "idle"
  BY <1>1 DEF Skilled
<1> HIDE DEF made
<1>4. ASSUME NEW b \in made PROVE ~Taken(b) /\ BuildingOf(b)' /\ (b \in Turns => Own(b)')
  <2> DEFINE detail == getAgent(b[2])
             pre == b[2] # Orchestrator
  <2>1. ~Taken(b) /\ Taken(b)' /\ b \notin Turns
    BY <1>1, <1>2, <1>3, <1>4 DEF Taken
  <2>2. registries'[b] = Registry(detail.draft.skills, pre, written) /\ building'[b] = Template(b, detail, pre)
    BY <1>1, <1>2 DEF WarmRegistry, WarmTemplate
  <2> HIDE DEF detail, pre
  <2>3. templateIsCacheable(detail, pre) => Settled(b)'
    BY <1>1, <2>2, MadeSettled DEF templateIsCacheable
  <2>4. BuildingOf(b)'
    BY <2>1, <2>2, <2>3 DEF BuildingOf, Template, TemplateFields, templateIsCacheable
  <2> QED BY <2>1, <2>4
<1>5. /\ DOMAIN registries' = Builders
      /\ \A b \in Builders \ made : registries'[b] = registries[b] /\ building'[b] = building[b]
  BY <1>1
<1> QED BY <1>1, <1>3, <1>4, <1>5, RegistriesMade DEF Skilled

LEMMA ElsewhereSkilled ==
  ASSUME RInv, Skilled,
         \/ \E w \in Warmers : Warmed(w)
         \/ \E a, file : Edit(a, file)
         \/ \E s : WriteSkill(s)
         \/ UNCHANGED vars
  PROVE  Skilled'
<1>1. UNCHANGED <<registries, templates, building, turn>>
  BY DEF Warmed, Edit, WriteSkill, vars, agents
<1>2. late \subseteq late' /\ written' \subseteq written \cup late'
  BY DEF Warmed, Edit, WriteSkill, vars, config
<1>3. DOMAIN warm' = Warmers /\ \A w \in Warmers : warm[w] # "idle" => warm'[w] # "idle"
  BY DEF Warmed, Edit, WriteSkill, vars, Skilled
<1> QED BY <1>1, <1>2, <1>3, RegistriesKept DEF Skilled

-----------------------------------------------------------------------------
(* In the API process turns are routed and agents are warmed, no more.     *)
LEMMA QuietStep ==
  ASSUME RInv, cast.role # "runtime", Quiet, [Next]_vars
  PROVE  Quiet'
<1>1. ASSUME NEW t \in Turns, NEW changed, turn' = [turn EXCEPT ![t] = changed],
             changed.used = turn[t].used, changed.at \notin Begun
      PROVE  Quiet'
  BY <1>1 DEF RInv, Shape, Quiet
<1>2. ASSUME NEW t \in Turns, NEW plan, Plan(t, plan) PROVE Quiet'
  <2> DEFINE at == IF plan = <<>> THEN "unrouted" ELSE "dispatching"
             changed == [turn[t] EXCEPT !.at = at, !.plan = plan, !.offered = {}]
  <2>1. turn' = [turn EXCEPT ![t] = changed]
    BY <1>2 DEF Plan
  <2>2. at \notin Begun
    BY DEF Begun
  <2> HIDE DEF at
  <2>3. changed.used = turn[t].used /\ changed.at = at
    BY DEF RInv, Shape, Fields
  <2> HIDE DEF changed
  <2> QED BY <1>1, <2>1, <2>2, <2>3
<1>3. ASSUME NEW t \in Turns, NEW message, Classify(t, message) PROVE Quiet'
  <2>1. (\E plan : Plan(t, plan)) \/ \E ids : AskModel(t, message, ids)
    BY <1>3 DEF Classify, Decide
  <2>2. ASSUME NEW ids,
               turn' = [turn EXCEPT ![t].at = "asking", ![t].message = message,
                                    ![t].offered = ids, ![t].asked = root]
        PROVE  Quiet'
    <3> DEFINE changed == [turn[t] EXCEPT !.at = "asking", !.message = message,
                                          !.offered = ids, !.asked = root]
    <3>1. turn' = [turn EXCEPT ![t] = changed]
      BY <2>2
    <3>2. changed.used = turn[t].used /\ changed.at \notin Begun
      BY DEF RInv, Shape, Fields, Begun
    <3> HIDE DEF changed
    <3> QED BY <1>1, <3>1, <3>2
  <2> QED BY <1>2, <2>1, <2>2 DEF AskModel
<1>4. ASSUME NEW t \in Turns, NEW answer, HaikuAnswers(t, answer) PROVE Quiet'
  <2>1. \E plan : Plan(t, plan)
    BY <1>4 DEF HaikuAnswers, Decide
  <2> QED BY <1>2, <2>1
<1>5. ASSUME NEW t \in Turns, Dispatch(t) PROVE Quiet'
  <2> DEFINE plan == Tail(turn[t].plan)
             ran == turn[t].ran \cup {[agent |-> Head(turn[t].plan), runtime |-> Runtime(Head(turn[t].plan))]}
             at == IF Len(turn[t].plan) = 1 THEN "done" ELSE turn[t].at
             changed == [turn[t] EXCEPT !.plan = plan, !.ran = ran, !.at = at]
  <2>1. turn' = [turn EXCEPT ![t] = changed]
    BY <1>5 DEF Dispatch
  <2>2. at \notin Begun
    BY <1>5 DEF Dispatch, Begun
  <2> HIDE DEF plan, ran, at
  <2>3. changed.used = turn[t].used /\ changed.at = at
    BY DEF RInv, Shape, Fields
  <2> HIDE DEF changed
  <2> QED BY <1>1, <2>1, <2>2, <2>3
<1>6. ASSUME NEW t \in Turns,
             \/ \E a, path : Open(t, a, path)
             \/ \E complete : TurnBuilt(t, complete)
             \/ (\E recalled : Assemble(t, recalled)) \/ \E s : Activate(t, s)
             \/ \E tool, s, url, far : UseTool(t, tool, s, url, far)
      PROVE  FALSE
  BY <1>6 DEF Open, TurnBuilt, Assemble, Activate, UseTool, Quiet, Begun
<1>7. ASSUME NEW w \in Warmers, NEW a \in Agents, NEW complete, WarmBuilt(w, a, complete) PROVE UNCHANGED turn
  <2>1. Builder(w, a) \notin Turns
    BY ConfigAssumption DEF Builder, Agents
  <2> QED BY <1>7, <2>1 DEF WarmBuilt, Built
<1>8. ASSUME NEW w \in Warmers,
             Prewarm(w) \/ Warmed(w) \/ RefreshFails(w) \/ \E snapshot : Refresh(w, snapshot)
      PROVE  UNCHANGED turn
  BY <1>8 DEF Prewarm, Warmed, RefreshFails, Refresh
<1>9. ASSUME \/ UNCHANGED vars \/ (\E a, file : Edit(a, file)) \/ (\E s : WriteSkill(s))
      PROVE  UNCHANGED turn
  BY <1>9 DEF vars, Edit, WriteSkill
<1>10. ASSUME UNCHANGED turn PROVE Quiet'
  BY <1>10 DEF Quiet
<1> QED BY <1>2, <1>3, <1>4, <1>5, <1>6, <1>7, <1>8, <1>9, <1>10 DEF Next

LEMMA SkilledStep ==
  ASSUME RInv, cast \in Casts, cast.role = "runtime", Skilled, [Next]_vars
  PROVE  Skilled'
<1>1. cast.warmers \subseteq {AtBuild}
  BY ConfigAssumption
<1>2. ASSUME NEW w \in Warmers, RefreshFails(w) \/ \E snapshot : Refresh(w, snapshot) PROVE FALSE
  BY <1>1, <1>2 DEF RefreshFails, Refresh
<1>3. ASSUME NEW t \in Turns,
             (\E m : Classify(t, m)) \/ (\E answer : HaikuAnswers(t, answer)) \/ Dispatch(t)
      PROVE  FALSE
  <2>1. turn[t].at \in InRuntime
    BY DEF Skilled
  <2> QED BY <1>3, <2>1 DEF Classify, HaikuAnswers, Dispatch, InRuntime, Begun
<1>4. ASSUME NEW t \in Turns,
             \/ \E a \in Agents : \E path : Open(t, a, path)
             \/ \E complete : TurnBuilt(t, complete)
             \/ (\E recalled : Assemble(t, recalled)) \/ \E s : Activate(t, s)
             \/ \E tool, s, url, far : UseTool(t, tool, s, url, far)
      PROVE  Skilled'
  BY <1>4, OpenSkilled, TurnBuiltSkilled, AssembleSkilled, ActivateSkilled, UseToolSkilled
<1>5. ASSUME NEW w \in Warmers,
             Prewarm(w) \/ \E a \in Agents : \E complete : WarmBuilt(w, a, complete)
      PROVE  Skilled'
  BY <1>5, PrewarmSkilled, WarmBuiltSkilled
<1>6. ASSUME \/ \E w \in Warmers : Warmed(w)
             \/ \E a, file : Edit(a, file)
             \/ \E s : WriteSkill(s)
             \/ UNCHANGED vars
      PROVE  Skilled'
  BY <1>6, ElsewhereSkilled
<1> QED BY <1>2, <1>3, <1>4, <1>5, <1>6 DEF Next

LEMMA CastKept ==
  ASSUME [Next]_vars PROVE UNCHANGED cast
<1>1. ASSUME NEW t,
             \/ \E m : Classify(t, m)
             \/ \E answer : HaikuAnswers(t, answer)
             \/ Dispatch(t)
      PROVE  UNCHANGED cast
  BY <1>1 DEF Classify, HaikuAnswers, Dispatch
<1>2. ASSUME NEW t,
             \/ \E a, path : Open(t, a, path)
             \/ \E complete : TurnBuilt(t, complete)
             \/ (\E recalled : Assemble(t, recalled)) \/ \E s : Activate(t, s)
             \/ \E tool, s, url, far : UseTool(t, tool, s, url, far)
      PROVE  UNCHANGED cast
  BY <1>2 DEF Open, TurnBuilt, Built, Assemble, Activate, UseTool
<1>3. ASSUME NEW w,
             \/ Prewarm(w) \/ Warmed(w) \/ RefreshFails(w)
             \/ \E a, complete : WarmBuilt(w, a, complete)
             \/ \E snapshot : Refresh(w, snapshot)
      PROVE  UNCHANGED cast
  BY <1>3 DEF Prewarm, Warmed, RefreshFails, WarmBuilt, Built, Refresh
<1>4. ASSUME (\E a, file : Edit(a, file)) \/ (\E s : WriteSkill(s)) \/ UNCHANGED vars
      PROVE  UNCHANGED cast
  BY <1>4 DEF Edit, WriteSkill, vars
<1> QED BY <1>1, <1>2, <1>3, <1>4 DEF Next

LEMMA SkillInit ==
  ASSUME Init PROVE SInv
<1>1. Quiet
  BY DEF Init, Quiet, Begun
<1>2. Skilled
  BY DEF Init, Skilled, CacheShared, BuildingOf, HeldBy, Own, UsedOwn, InRuntime, WithAgent, Builders
<1> QED BY <1>1, <1>2 DEF SInv, Init

(* What a turn's tools work with was active when its agent was built, or   *)
(* activated by the turn itself, though the agent is shared with turns     *)
(* that activate skills of their own.                                      *)
THEOREM SkillsApart == Spec => []SkillsOfOwnTurn
<1>1. Init => SInv
  BY SkillInit
<1>2. RInv /\ SInv /\ [Next]_vars => SInv'
  BY CastKept, QuietStep, SkilledStep DEF SInv
<1>3. SInv => SkillsOfOwnTurn
  BY DEF SInv, Skilled, Quiet, UsedOwn, SkillsOfOwnTurn
<1> QED BY <1>1, <1>2, <1>3, Inductive, PTL DEF Spec

-----------------------------------------------------------------------------
(* Points are whole numbers, and so is what a message scores.              *)
LEMMA TokensOwn ==
  ASSUME NEW T, NEW text \in Seq(T)
  PROVE  tokenize(text) \in Seq(T \ Stopwords)
<1> DEFINE places == {i \in DOMAIN text : text[i] \notin Stopwords}
<1>1. places \subseteq DOMAIN text /\ \A i \in places : text[i] \in T \ Stopwords
  OBVIOUS
<1> HIDE DEF places
<1>2. Kept(text, places) \in Seq(T \ Stopwords)
  BY <1>1, KeptIn
<1> QED BY <1>2 DEF tokenize, places

LEMMA ScoreNat ==
  ASSUME NEW message \in Seq(DOMAIN Points \cup Stopwords), NEW corpus
  PROVE  heuristicScore(message, corpus) \in Nat
<1> DEFINE mine == tokenize(message)
           words == ToSet(mine) \cap ToSet(tokenize(corpus))
           grams == bigramsOf(mine) \cap bigramsOf(tokenize(corpus))
<1>1. mine \in Seq(DOMAIN Points)
  <2>1. (DOMAIN Points \cup Stopwords) \ Stopwords \subseteq DOMAIN Points
    OBVIOUS
  <2>2. mine \in Seq((DOMAIN Points \cup Stopwords) \ Stopwords)
    BY TokensOwn
  <2> HIDE DEF mine
  <2> QED BY <2>1, <2>2
<1> HIDE DEF mine
<1>2. DOMAIN mine = 1..Len(mine) /\ Len(mine) \in Nat /\ \A i \in DOMAIN mine : mine[i] \in DOMAIN Points
  BY <1>1
<1>3. IsFiniteSet(ToSet(mine)) /\ ToSet(mine) \subseteq DOMAIN Points
  <2>1. IsFiniteSet(DOMAIN mine)
    BY <1>2, FS_Interval
  <2> QED BY <1>2, <2>1, ImageFinite DEF ToSet
<1>4. IsFiniteSet(bigramsOf(mine))
  <2> DEFINE S == 1..Len(mine) - 1
             f == [i \in S |-> SubSeq(mine, i, i + 1)]
  <2>1. IsFiniteSet(S)
    BY <1>2, FS_Interval
  <2>2. DOMAIN f = S
    OBVIOUS
  <2>3. bigramsOf(mine) = {f[i] : i \in S}
    BY DEF bigramsOf
  <2> HIDE DEF S, f
  <2> QED BY <2>1, <2>2, <2>3, ImageFinite
<1>5. MapThenSumSet(LAMBDA w : Points[w], words) = SumOver(Points, words)
  BY DEF MapThenSumSet, MapThenFoldSet, SumOver, AddsUp, SumOf
<1>6. IsFiniteSet(words) /\ \A w \in words : Points[w] \in Nat
  BY <1>3, FS_Subset, KnobAssumption
<1>7. SumOver(Points, words) \in Nat
  <2> HIDE DEF words
  <2> QED BY <1>6, SumNat
<1>8. Cardinality(grams) \in Nat
  BY <1>4, FS_Subset, FS_CardinalityType
<1>9. heuristicScore(message, corpus) = MapThenSumSet(LAMBDA w : Points[w], words) + BigramPoints * Cardinality(grams)
  BY DEF heuristicScore, mine
<1>10. BigramPoints * Cardinality(grams) \in Nat
  <2> HIDE DEF grams
  <2> QED BY <1>8, KnobAssumption
<1> HIDE DEF words, grams
<1> QED BY <1>5, <1>7, <1>9, <1>10

(* A list, of candidates say, of which each item names a member of a set.  *)
Lists(list, S) ==
  /\ Len(list) \in Nat /\ DOMAIN list = 1..Len(list)
  /\ \A i \in DOMAIN list : list[i].agent \in S

LEMMA FewStay ==
  ASSUME NEW S, NEW list \in Seq(S), NEW n \in Nat
  PROVE  AtMost(n, list) \in Seq(S)
BY DEF AtMost

(* The selected are candidates.                                            *)
LEMMA SelectedListed ==
  ASSUME NEW message \in Seq(DOMAIN Points \cup Stopwords), NEW S, NEW list, Lists(list, S)
  PROVE  heuristicClassifyMulti(message, list) \in Seq(S)
<1> DEFINE score == [i \in DOMAIN list |-> heuristicScore(message, list[i].corpus)]
           order == ByScore(score, DOMAIN list)
           scored == scoreAllCandidates(message, list)
           names == [k \in DOMAIN scored |-> scored[k].agent]
           near == {k \in DOMAIN scored : k = 1 \/ Accompanies(scored, k)}
           company == Kept(names, near)
<1>1. \A i \in DOMAIN list : score[i] \in Int
  <2> TAKE i \in DOMAIN list
  <2>1. heuristicScore(message, list[i].corpus) \in Nat
    BY ScoreNat
  <2>2. score[i] = heuristicScore(message, list[i].corpus)
    OBVIOUS
  <2> HIDE DEF score
  <2> QED BY <2>1, <2>2
<1>2. DOMAIN list \subseteq Nat /\ IsFiniteSet(DOMAIN list)
  BY FS_Interval DEF Lists
<1> HIDE DEF score
<1>3. order \in Seq(DOMAIN list)
  BY <1>1, <1>2, BestScored
<1>4. scored = [k \in DOMAIN order |-> [agent |-> list[order[k]].agent, score |-> score[order[k]]]]
  BY DEF scoreAllCandidates, score
<1> HIDE DEF order, scored
<1>5. DOMAIN scored = 1..Len(order) /\ Len(order) \in Nat /\ \A k \in DOMAIN scored : scored[k].agent \in S
  BY <1>3, <1>4 DEF Lists
<1>6. names \in Seq(S)
  <2>1. names \in [1..Len(order) -> S]
    BY <1>5
  <2> HIDE DEF names
  <2> QED BY <1>5, <2>1
<1>7. near \subseteq DOMAIN names
  OBVIOUS
<1> HIDE DEF names, near
<1>8. company \in Seq(S)
  BY <1>6, <1>7, KeptItems
<1>9. AtMost(multiMaxAgents, company) \in Seq(S)
  <2> HIDE DEF company
  <2> QED BY <1>8, FewStay, KnobAssumption
<1>10. Len(scored) = Len(order)
  BY <1>4, <1>5
<1>11. Len(scored) # 0 => scored[1].agent \in S
  BY <1>5, <1>10
<1>12. \/ heuristicClassifyMulti(message, list) = <<>>
       \/ heuristicClassifyMulti(message, list) = AtMost(multiMaxAgents, company)
       \/ Len(scored) # 0 /\ heuristicClassifyMulti(message, list) = <<scored[1].agent>>
  BY DEF heuristicClassifyMulti, scored, company, names, near
<1> DEFINE first == scored[1].agent
<1>13. <<>> \in Seq(S) /\ (Len(scored) # 0 => <<first>> \in Seq(S))
  <2> HIDE DEF scored
  <2>1. first \in S => <<first>> \in Seq(S)
    OBVIOUS
  <2> QED BY <1>11, <2>1
<1> HIDE DEF company
<1> QED BY <1>9, <1>12, <1>13

(* What is used of an answer was offered.                                  *)
LEMMA UsableOffered ==
  ASSUME NEW T, NEW answer \in Seq(T), NEW offered
  PROVE  Usable(answer, offered) \in Seq(offered)
<1> DEFINE places == {i \in DOMAIN answer : answer[i] \in offered /\ \A j \in 1..(i - 1) : answer[j] # answer[i]}
           kept == Kept(answer, places)
<1>1. places \subseteq DOMAIN answer /\ \A i \in places : answer[i] \in offered
  OBVIOUS
<1> HIDE DEF places
<1>2. kept \in Seq(offered)
  BY <1>1, KeptIn
<1> HIDE DEF kept
<1>3. AtMost(multiMaxAgents, kept) \in Seq(offered)
  BY <1>2, FewStay, KnobAssumption
<1> QED BY <1>3 DEF Usable, kept, places

-----------------------------------------------------------------------------
(* A decision that is remembered is about the roster in force: the cache   *)
(* is emptied whenever a configuration is taken over, and a model that was *)
(* asked before has been offered what was the roster then.                 *)
Roster == Valid \ {Orchestrator}
Decided == [message : Messages, plan : Seq(Agents), asked : Nat, at : Nat]
Due == {d \in Decided : d.at = root /\ (d.asked = root => ToSet(d.plan) \subseteq Roster)}

Offer(t) ==
  turn[t].at = "asking" =>
    /\ turn[t].message \in Messages
    /\ turn[t].asked \in Nat /\ turn[t].asked <= root
    /\ turn[t].offered \subseteq Agents
    /\ turn[t].asked = root => turn[t].offered \subseteq Roster

CandidatesListed ==
  candidates # NoCache => Lists(candidates.list, DOMAIN candidates.version \ {Orchestrator})

(* Only the API routes. *)
Silent ==
  cast.role # "api" =>
    decisions = <<>> /\ candidates = NoCache /\ \A t \in Turns : turn[t].at # "asking"

DInv ==
  /\ cast \in Casts /\ root \in Nat /\ clock \in Nat \ {0}
  /\ Silent /\ CandidatesListed /\ decisions \in Seq(Due)
  /\ \A t \in Turns : Offer(t)

(* The configuration of an API process changes by refreshes alone.         *)
RefreshedOnly == \A k \in Casts : k.role = "api" => k.edits = 0

LEMMA FreshListed == Lists(FreshCandidates, Roster)
<1>1. CASE getAgent(Orchestrator) = NoAgent
  BY <1>1 DEF FreshCandidates, Lists
<1>2. CASE getAgent(Orchestrator) # NoAgent
  <2> DEFINE present == {i \in DOMAIN Order : Order[i] \in Valid}
             others == {i \in DOMAIN listAgents : listAgents[i] # Orchestrator}
             ids == Kept(listAgents, others)
             corpus(i) == files[ids[i]].draft.name \o files[ids[i]].draft.body
  <2>1. listAgents \in Seq(Valid)
    <3>1. present \subseteq DOMAIN Order /\ \A i \in present : Order[i] \in Valid
      OBVIOUS
    <3> HIDE DEF present
    <3>2. Kept(Order, present) \in Seq(Valid)
      BY <3>1, KeptIn, ConfigAssumption
    <3> QED BY <3>2 DEF listAgents, present
  <2>2. others \subseteq DOMAIN listAgents /\ \A i \in others : listAgents[i] \in Roster
    BY <2>1 DEF Roster
  <2> HIDE DEF others
  <2>3. ids \in Seq(Roster)
    BY <2>1, <2>2, KeptIn
  <2>4. FreshCandidates = [i \in DOMAIN ids |-> [agent |-> ids[i], corpus |-> corpus(i)]]
    BY <1>2 DEF FreshCandidates, others
  <2> HIDE DEF ids, corpus
  <2>5. DOMAIN ids = 1..Len(ids) /\ Len(ids) \in Nat /\ \A i \in DOMAIN ids : ids[i] \in Roster
    BY <2>3
  <2>6. /\ DOMAIN FreshCandidates = 1..Len(ids)
        /\ \A i \in DOMAIN FreshCandidates : FreshCandidates[i].agent \in Roster
    BY <2>4, <2>5
  <2>7. Len(FreshCandidates) = Len(ids)
    BY <2>4, <2>5
  <2> QED BY <2>5, <2>6, <2>7 DEF Lists
<1> QED BY <1>1, <1>2

(* The candidates of the moment are the roster's, from the cache or not.   *)
LEMMA NowListed ==
  ASSUME CandidatesListed
  PROVE  /\ Lists(buildCandidates.list, Roster)
         /\ Lists(buildCandidates.list, DOMAIN buildCandidates.version \ {Orchestrator})
<1>1. DOMAIN Face = Valid
  BY DEF Face
<1>2. CASE candidates # NoCache /\ candidates.version = Face
  <2>1. buildCandidates = candidates
    BY <1>2 DEF buildCandidates
  <2> QED BY <1>1, <1>2, <2>1 DEF CandidatesListed, Roster
<1>3. CASE ~(candidates # NoCache /\ candidates.version = Face)
  <2>1. buildCandidates.version = Face /\ buildCandidates.list = FreshCandidates
    BY <1>3 DEF buildCandidates
  <2> QED BY <1>1, <2>1, FreshListed DEF Roster
<1> QED BY <1>2, <1>3

(* A step that keeps the configuration: what it remembers is due, and a    *)
(* turn that it sets asking is offered the roster.                         *)
LEMMA RosterKept ==
  ASSUME DInv, UNCHANGED <<cast, root, files>>, clock' \in {clock, clock + 1},
         \/ cast.role = "api" /\ decisions' \in Seq(Due) /\ CandidatesListed'
         \/ UNCHANGED classifier,
         \A t \in Turns : \/ turn'[t] = turn[t] \/ turn'[t].at # "asking"
                          \/ cast.role = "api" /\ Offer(t)'
  PROVE  DInv'
<1>1. Roster' = Roster /\ Due' = Due
  BY DEF Roster, Valid, Present, Due
<1>2. CandidatesListed' /\ decisions' \in Seq(Due)
  BY DEF DInv, classifier, CandidatesListed
<1>3. Silent'
  BY DEF DInv, Silent, classifier
<1>4. ASSUME NEW t \in Turns PROVE Offer(t)'
  BY <1>1, <1>4 DEF DInv, Offer
<1> QED BY <1>1, <1>2, <1>3, <1>4 DEF DInv

LEMMA Remembers ==
  ASSUME decisions \in Seq(Due), root \in Nat, NEW message \in Messages, NEW plan \in Seq(Agents),
         NEW asked \in Nat, asked = root => ToSet(plan) \subseteq Roster,
         rememberInCache(message, plan, asked)
  PROVE  decisions' \in Seq(Due)
<1> DEFINE kept == IF Len(decisions) >= CacheSize THEN Tail(decisions) ELSE decisions
           new == [message |-> message, plan |-> plan, asked |-> asked, at |-> root]
<1>1. new \in Due
  BY DEF Due, Decided
<1>2. kept \in Seq(Due)
  <2>1. Len(decisions) >= CacheSize => decisions # <<>>
    BY ConfigAssumption
  <2> QED BY <2>1
<1>3. \/ decisions' = [i \in DOMAIN kept |-> IF kept[i].message = message THEN new ELSE kept[i]]
      \/ decisions' = Append(kept, new)
  BY DEF rememberInCache
<1> HIDE DEF kept, new
<1> DEFINE replaced == [i \in DOMAIN kept |-> IF kept[i].message = message THEN new ELSE kept[i]]
           n == Len(kept)
<1>4. replaced \in [1..n -> Due] /\ n \in Nat
  BY <1>1, <1>2
<1>5. replaced \in Seq(Due)
  <2> HIDE DEF replaced, n
  <2> QED BY <1>4
<1>6. decisions' = replaced \/ decisions' = Append(kept, new)
  BY <1>3
<1> HIDE DEF replaced, n
<1>7. Append(kept, new) \in Seq(Due)
  BY <1>1, <1>2
<1> QED BY <1>5, <1>6, <1>7

LEMMA PlanTurns ==
  ASSUME RInv, NEW t \in Turns, NEW plan, Plan(t, plan)
  PROVE  \A u \in Turns : turn'[u] = turn[u] \/ turn'[u].at # "asking"
<1> DEFINE at == IF plan = <<>> THEN "unrouted" ELSE "dispatching"
<1>1. turn' = [turn EXCEPT ![t] = [turn[t] EXCEPT !.at = at, !.plan = plan, !.offered = {}]]
  BY DEF Plan
<1>2. at # "asking"
  OBVIOUS
<1> HIDE DEF at
<1> QED BY <1>1, <1>2 DEF RInv, Shape, Fields

(* A decision is taken: it is due, or nothing is remembered.               *)
LEMMA Decides ==
  ASSUME RInv, DInv, NEW t \in Turns, NEW message \in Messages, NEW plan \in Seq(Agents), NEW asked \in Nat,
         asked = root => ToSet(plan) \subseteq Roster, Decide(t, message, plan, asked),
         UNCHANGED <<cast, root, files, clock>>, CandidatesListed', cast.role = "api"
  PROVE  DInv'
<1>1. Plan(t, plan) /\ (UNCHANGED decisions \/ rememberInCache(message, plan, asked))
  BY DEF Decide
<1>2. decisions' \in Seq(Due)
  BY <1>1, Remembers DEF DInv
<1> QED BY <1>1, <1>2, PlanTurns, RosterKept

LEMMA PlanListed ==
  ASSUME NEW message \in Messages, NEW list, Lists(list, Roster)
  PROVE  /\ heuristicClassifyMulti(message, list) \in Seq(Agents)
         /\ ToSet(heuristicClassifyMulti(message, list)) \subseteq Roster
<1> DEFINE plan == heuristicClassifyMulti(message, list)
<1>1. message \in Seq(DOMAIN Points \cup Stopwords)
  BY ConfigAssumption
<1>2. plan \in Seq(Roster)
  BY <1>1, SelectedListed
<1>3. Roster \subseteq Agents
  BY DEF Roster, Valid, Present
<1> HIDE DEF plan
<1>4. plan \in Seq(Agents) /\ ToSet(plan) \subseteq Roster
  BY <1>2, <1>3 DEF ToSet
<1> QED BY <1>4 DEF plan

LEMMA ClassifyDue ==
  ASSUME RInv, DInv, NEW t \in Turns, NEW message \in Messages, Classify(t, message)
  PROVE  DInv'
<1> DEFINE now == buildCandidates
           plan == heuristicClassifyMulti(message, now.list)
           ids == {now.list[i].agent : i \in DOMAIN now.list}
<1>1. /\ cast.role = "api" /\ UNCHANGED <<cast, root, files, clock>>
      /\ \/ \E d \in Remembered(message) : Plan(t, d.plan) /\ UNCHANGED classifier
         \/ /\ candidates' = now
            /\ \/ Decide(t, message, plan, root)
               \/ Decide(t, message, <<>>, root)
               \/ AskModel(t, message, ids) /\ UNCHANGED decisions
  BY DEF Classify, config
<1>2. Lists(now.list, Roster) /\ Lists(now.list, DOMAIN now.version \ {Orchestrator})
  BY NowListed DEF DInv
<1>3. plan \in Seq(Agents) /\ ToSet(plan) \subseteq Roster
  BY <1>2, PlanListed
<1>4. ids \subseteq Roster
  BY <1>2 DEF Lists
<1> HIDE DEF now, plan, ids
<1>5. CASE \E d \in Remembered(message) : Plan(t, d.plan) /\ UNCHANGED classifier
  BY <1>1, <1>5, PlanTurns, RosterKept
<1>6. CASE candidates' = now /\ (Decide(t, message, plan, root) \/ Decide(t, message, <<>>, root))
  <2>1. CandidatesListed'
    BY <1>2, <1>6 DEF CandidatesListed
  <2>2. <<>> \in Seq(Agents) /\ ToSet(<<>>) \subseteq Roster /\ root \in Nat
    BY DEF ToSet, DInv
  <2> QED BY <1>1, <1>3, <1>6, <2>1, <2>2, Decides
<1>7. CASE candidates' = now /\ AskModel(t, message, ids) /\ UNCHANGED decisions
  <2>1. CandidatesListed'
    BY <1>2, <1>7 DEF CandidatesListed
  <2>2. CASE Plan(t, <<>>)
    BY <1>1, <1>7, <2>1, <2>2, PlanTurns, RosterKept DEF DInv
  <2>3. CASE turn' = [turn EXCEPT ![t].at = "asking", ![t].message = message,
                                  ![t].offered = ids, ![t].asked = root]
    <3>1. turn' = [turn EXCEPT ![t] = [turn[t] EXCEPT !.at = "asking", !.message = message,
                                                      !.offered = ids, !.asked = root]]
      BY <2>3
    <3>2. /\ \A u \in Turns \ {t} : turn'[u] = turn[u]
          /\ turn'[t].message = message /\ turn'[t].offered = ids /\ turn'[t].asked = root
      BY <3>1 DEF RInv, Shape, Fields
    <3>3. Roster' = Roster /\ ids \subseteq Agents /\ root' \in Nat /\ root' <= root'
      BY <1>1, <1>4 DEF Roster, Valid, Present, DInv
    <3>4. Offer(t)'
      BY <1>1, <1>4, <3>2, <3>3 DEF Offer
    <3> QED BY <1>1, <1>7, <2>1, <3>2, <3>4, RosterKept DEF DInv
  <2> QED BY <1>7, <2>2, <2>3 DEF AskModel
<1> QED BY <1>1, <1>5, <1>6, <1>7

LEMMA HaikuDue ==
  ASSUME RInv, DInv, NEW t \in Turns, NEW answer \in Answers, HaikuAnswers(t, answer)
  PROVE  DInv'
<1> DEFINE now == buildCandidates
           message == turn[t].message
           usable == Usable(answer, turn[t].offered)
           fallback == heuristicClassifyMulti(message, now.list)
<1>1. /\ turn[t].at = "asking" /\ UNCHANGED <<cast, root, files, clock>>
      /\ \/ Decide(t, message, usable, turn[t].asked) /\ UNCHANGED candidates
         \/ Decide(t, message, fallback, root) /\ candidates' = now
  BY DEF HaikuAnswers, config
<1>2. /\ cast.role = "api" /\ message \in Messages /\ turn[t].asked \in Nat /\ root \in Nat
      /\ turn[t].offered \subseteq Agents
      /\ turn[t].asked = root => turn[t].offered \subseteq Roster
  BY <1>1 DEF DInv, Silent, Offer
<1>3. Lists(now.list, Roster) /\ Lists(now.list, DOMAIN now.version \ {Orchestrator})
  BY NowListed DEF DInv
<1>4. fallback \in Seq(Agents) /\ ToSet(fallback) \subseteq Roster
  BY <1>2, <1>3, PlanListed
<1>5. usable \in Seq(turn[t].offered)
  BY UsableOffered, ConfigAssumption
<1> HIDE DEF now, usable, fallback
<1>6. usable \in Seq(Agents) /\ ToSet(usable) \subseteq turn[t].offered
  BY <1>2, <1>5 DEF ToSet
<1> HIDE DEF message
<1>7. CASE Decide(t, message, usable, turn[t].asked) /\ UNCHANGED candidates
  <2>1. CandidatesListed'
    BY <1>7 DEF DInv, CandidatesListed
  <2> QED BY <1>1, <1>2, <1>6, <1>7, <2>1, Decides
<1>8. CASE Decide(t, message, fallback, root) /\ candidates' = now
  <2>1. CandidatesListed'
    BY <1>3, <1>8 DEF CandidatesListed
  <2> QED BY <1>1, <1>2, <1>4, <1>8, <2>1, Decides
<1> QED BY <1>1, <1>7, <1>8

(* A turn that is handed on, or works with an agent, asks no model.        *)
LEMMA TurnDue ==
  ASSUME RInv, DInv, NEW t \in Turns,
         \/ Dispatch(t)
         \/ \E a \in Agents : \E path : Open(t, a, path)
         \/ \E complete : TurnBuilt(t, complete)
         \/ (\E recalled : Assemble(t, recalled)) \/ \E s : Activate(t, s)
         \/ \E tool, s, url, far : UseTool(t, tool, s, url, far)
  PROVE  DInv'
<1>1. UNCHANGED <<cast, root, files, classifier, clock>>
  BY DEF Dispatch, Open, TurnBuilt, Built, Assemble, Activate, UseTool, config, classifier
<1>2. ASSUME NEW changed, turn' = [turn EXCEPT ![t] = changed], changed.at # "asking"
      PROVE  \A u \in Turns : turn'[u] = turn[u] \/ turn'[u].at # "asking"
  BY <1>2 DEF RInv, Shape
<1>3. CASE Dispatch(t)
  <2> DEFINE plan == Tail(turn[t].plan)
             ran == turn[t].ran \cup {[agent |-> Head(turn[t].plan), runtime |-> Runtime(Head(turn[t].plan))]}
             at == IF Len(turn[t].plan) = 1 THEN "done" ELSE turn[t].at
             changed == [turn[t] EXCEPT !.plan = plan, !.ran = ran, !.at = at]
  <2>1. turn' = [turn EXCEPT ![t] = changed] /\ at # "asking"
    BY <1>3 DEF Dispatch
  <2> HIDE DEF plan, ran, at
  <2>2. changed.at = at
    BY DEF RInv, Shape, Fields
  <2> HIDE DEF changed
  <2> QED BY <1>1, <1>2, <2>1, <2>2, RosterKept DEF DInv
<1>4. ASSUME NEW a \in Agents, NEW path, Open(t, a, path) PROVE DInv'
  <2> DEFINE detail == getAgent(a)
             To(at) == [turn[t] EXCEPT !.agent = a, !.path = path, !.asks = detail, !.at = at]
             Has == [turn[t] EXCEPT !.agent = a, !.path = path, !.asks = detail, !.at = "built", !.template = templates[a]]
  <2>1. \/ \E at \in {"unknown", "thrown", "building"} : turn' = [turn EXCEPT ![t] = To(at)]
        \/ turn' = [turn EXCEPT ![t] = Has]
    BY <1>4 DEF Open
  <2> HIDE DEF detail
  <2>2. Has.at = "built" /\ \A at \in {"unknown", "thrown", "building"} : To(at).at = at
    BY DEF RInv, Shape, Fields
  <2>3. \A at \in {"unknown", "thrown", "building"} : To(at).at # "asking"
    BY <2>2
  <2> HIDE DEF To, Has
  <2>4. \A u \in Turns : turn'[u] = turn[u] \/ turn'[u].at # "asking"
    BY <1>2, <2>1, <2>2, <2>3
  <2> QED BY <1>1, <2>4, RosterKept DEF DInv
<1>5. ASSUME NEW complete, TurnBuilt(t, complete) PROVE DInv'
  <2> DEFINE degraded == building[t].ref.draft.tools \cap Gateway # {} /\ ~complete
             template == [building[t] EXCEPT !.degraded = degraded]
             changed == [turn[t] EXCEPT !.at = "built", !.template = template, !.missed = template.degraded]
  <2>1. turn' = [turn EXCEPT ![t] = changed]
    BY <1>5 DEF TurnBuilt, Built
  <2> HIDE DEF template
  <2>2. changed.at # "asking"
    BY DEF RInv, Shape, Fields
  <2> HIDE DEF changed
  <2> QED BY <1>1, <1>2, <2>1, <2>2, RosterKept DEF DInv
<1>6. ASSUME NEW recalled, Assemble(t, recalled) PROVE DInv'
  <2> DEFINE persona == IF recalled THEN loadAgentPersona(turn[t].agent) ELSE turn[t].template.persona
             at == IF turn[t].template.degraded /\ turn[t].path = "chat" THEN "refused" ELSE "serving"
             changed == [turn[t] EXCEPT !.at = at, !.persona = persona]
  <2>1. turn' = [turn EXCEPT ![t] = changed] /\ at # "asking"
    BY <1>6 DEF Assemble
  <2> HIDE DEF persona, at
  <2>2. changed.at = at
    BY DEF RInv, Shape, Fields
  <2> HIDE DEF changed
  <2> QED BY <1>1, <1>2, <2>1, <2>2, RosterKept DEF DInv
<1>7. ASSUME NEW s, Activate(t, s) PROVE DInv'
  BY <1>1, <1>7, RosterKept DEF DInv, Activate
<1>8. ASSUME NEW tool, NEW s, NEW url, NEW far, UseTool(t, tool, s, url, far) PROVE DInv'
  <2>1. PICK used : turn' = [turn EXCEPT ![t] = [turn[t] EXCEPT !.used = used]]
    BY <1>8 DEF UseTool
  <2> DEFINE changed == [turn[t] EXCEPT !.used = used]
  <2>2. changed.at = turn[t].at /\ turn[t].at # "asking"
    BY <1>8 DEF RInv, Shape, Fields, UseTool
  <2> HIDE DEF changed
  <2> QED BY <1>1, <1>2, <2>1, <2>2, RosterKept DEF DInv, changed
<1> QED BY <1>3, <1>4, <1>5, <1>6, <1>7, <1>8

(* A refresh forgets the decisions; what is asked is of an earlier root.   *)
LEMMA RefreshDue ==
  ASSUME DInv, NEW w, NEW snapshot, Refresh(w, snapshot)
  PROVE  DInv'
<1>1. /\ root' = root + 1 /\ clock' = clock + 1 /\ UNCHANGED <<cast, turn>>
      /\ candidates' = NoCache /\ decisions' = <<>>
  BY DEF Refresh, clearAgentClassifierCache
<1>2. Silent' /\ CandidatesListed' /\ decisions' \in Seq(Due')
  BY <1>1 DEF DInv, Silent, CandidatesListed
<1>3. ASSUME NEW t \in Turns PROVE Offer(t)'
  <2>1. turn[t].at = "asking" => turn[t].asked \in Nat /\ turn[t].asked <= root' /\ turn[t].asked # root'
    BY <1>1 DEF DInv, Offer
  <2> QED BY <1>1, <2>1 DEF DInv, Offer
<1>4. root' \in Nat /\ clock' \in Nat \ {0} /\ cast' \in Casts
  BY <1>1 DEF DInv
<1> QED BY <1>2, <1>3, <1>4 DEF DInv

(* Files are edited where nothing is routed.                               *)
LEMMA EditDue ==
  ASSUME RefreshedOnly, DInv, NEW a, NEW file, Edit(a, file)
  PROVE  DInv'
<1>1. cast.role # "api"
  <2>1. clock - 1 >= 0
    BY DEF DInv
  <2> QED BY <2>1 DEF Edit, Edits, RefreshedOnly, DInv
<1>2. /\ UNCHANGED <<cast, root, decisions, candidates, turn>> /\ clock' = clock + 1
  BY DEF Edit, classifier
<1>3. decisions' = <<>> /\ candidates' = NoCache /\ \A t \in Turns : turn'[t].at # "asking"
  BY <1>1, <1>2 DEF DInv, Silent
<1>4. Silent' /\ CandidatesListed' /\ decisions' \in Seq(Due') /\ \A t \in Turns : Offer(t)'
  BY <1>3 DEF Silent, CandidatesListed, Offer
<1>5. cast' \in Casts /\ root' \in Nat /\ clock' \in Nat \ {0}
  BY <1>2 DEF DInv
<1> QED BY <1>4, <1>5 DEF DInv

LEMMA DueStep ==
  ASSUME RefreshedOnly, RInv, DInv, [Next]_vars
  PROVE  DInv'
<1>1. ASSUME NEW t \in Turns, NEW m \in Messages, Classify(t, m) PROVE DInv'
  BY <1>1, ClassifyDue
<1>2. ASSUME NEW t \in Turns, NEW answer \in Answers, HaikuAnswers(t, answer) PROVE DInv'
  BY <1>2, HaikuDue
<1>3. ASSUME NEW t \in Turns,
             \/ Dispatch(t)
             \/ \E a \in Agents : \E path : Open(t, a, path)
             \/ \E complete : TurnBuilt(t, complete)
             \/ (\E recalled : Assemble(t, recalled)) \/ \E s : Activate(t, s)
             \/ \E tool, s, url, far : UseTool(t, tool, s, url, far)
      PROVE  DInv'
  BY <1>3, TurnDue
<1>4. ASSUME NEW w \in Warmers,
             \/ Prewarm(w) \/ Warmed(w) \/ RefreshFails(w)
             \/ \E a \in Agents : \E complete : WarmBuilt(w, a, complete)
      PROVE  DInv'
  <2>1. \A a \in Agents : Builder(w, a) \notin Turns
    BY ConfigAssumption DEF Builder, Agents
  <2>2. UNCHANGED <<cast, root, files, classifier, clock, turn>>
    BY <1>4, <2>1 DEF Prewarm, Warmed, RefreshFails, WarmBuilt, Built, config, classifier
  <2> QED BY <2>2, RosterKept DEF DInv
<1>5. ASSUME NEW w \in Warmers, NEW snapshot \in Snapshots, Refresh(w, snapshot) PROVE DInv'
  BY <1>5, RefreshDue
<1>6. ASSUME NEW a, NEW file, Edit(a, file) PROVE DInv'
  BY <1>6, EditDue
<1>7. ASSUME (\E s : WriteSkill(s)) \/ UNCHANGED vars PROVE DInv'
  <2>1. UNCHANGED <<cast, root, files, classifier, turn>> /\ clock' \in {clock, clock + 1}
    BY <1>7 DEF WriteSkill, vars, config, classifier
  <2> QED BY <2>1, RosterKept DEF DInv
<1> QED BY <1>1, <1>2, <1>3, <1>4, <1>5, <1>6, <1>7 DEF Next

LEMMA DueInit ==
  ASSUME Init PROVE DInv
<1>1. Silent /\ CandidatesListed /\ decisions \in Seq(Due)
  BY DEF Init, Silent, CandidatesListed
<1>2. \A t \in Turns : Offer(t)
  BY DEF Init, Offer
<1> QED BY <1>1, <1>2 DEF DInv, Init

(* Where a process takes over configurations by refreshes, no decision     *)
(* that it remembers was made for another one, or names an agent that its  *)
(* roster lacks, but for an answer that was under way                      *)
(* (agent-classifier.ts:703).                                              *)
THEOREM DecisionsDue == RefreshedOnly => (Spec => []DecisionsOfRoster)
<1> SUFFICES ASSUME RefreshedOnly PROVE Spec => []DecisionsOfRoster
  OBVIOUS
<1>1. Init => DInv
  BY DueInit
<1>2. RInv /\ DInv /\ [Next]_vars => DInv'
  BY DueStep
<1>3. DInv => DecisionsOfRoster
  BY DEF DInv, Due, Roster, DecisionsOfRoster
<1> QED BY <1>1, <1>2, <1>3, Inductive, PTL DEF Spec
===============================================================================

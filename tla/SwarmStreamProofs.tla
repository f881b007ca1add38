--------------------------- MODULE SwarmStreamProofs ---------------------------
(***************************************************************************)
(* An agent of the swarm answers once, the orchestrator does not run again *)
(* after a specialist and is announced once, and a handover is explained   *)
(* by what its agent said, with the agents it could have handed over to,   *)
(* the best first: for any agents, texts, messages, handoff lists, weights *)
(* and limits.                                                             *)
(***************************************************************************)
EXTENDS SwarmStream, RankingProofs, FiniteSetTheorems, SequenceTheorems, TLAPS

(* A node that has answered as text has yielded content, after which the   *)
(* structured output is not streamed; one that has answered by it keeps    *)
(* its later text to itself.                                               *)
Answered ==
  /\ told \subseteq {"text", "message"}
  /\ hasYieldedContent \in BOOLEAN /\ suppressTokens \in BOOLEAN
  /\ "text" \in told => hasYieldedContent
  /\ "message" \in told => suppressTokens
  /\ ~("text" \in told /\ "message" \in told)

(* The orchestrator is announced by its first invocation and no other.     *)
Announced ==
  /\ invocations \in Nat /\ active \in Seq(Agents)
  /\ invocations = 0 => \A i \in DOMAIN active : active[i] # Orchestrator
  /\ \A i, j \in DOMAIN active : active[i] = Orchestrator /\ active[j] = Orchestrator => i = j

(* The hook has ended the run before an orchestrator that comes back runs. *)
OneWay == specialistHasRun /\ at = "running" => node # Orchestrator

(* What is kept of an agent's reasoning is the end of what it said in this *)
(* node.                                                                   *)
InCharacter ==
  /\ reasoning \in [Agents -> Seq(Symbols)] /\ left \in Seq(Symbols) /\ spoken \in Seq(Symbols)
  /\ at = "running" => node \in Agents /\ reasoning[node] = LastOf(spoken)

(* Nothing is handed over before the first node.                           *)
Fresh == at = "starting" => decision = NoDecision

(* The list holds the agents of a set, and the best come first.            *)
BestOf(list, names) ==
  /\ {list[k].agent : k \in DOMAIN list} = names
  /\ \A k \in 1..Len(list) - 1 : list[k].score >= list[k + 1].score

(* The spans of a handover are found in the texts that it was given, and   *)
(* the others are those its agent could have handed over to.               *)
Explained(d, text) ==
  /\ d.from = node /\ d.reasoning = text
  /\ BestOf(d.attribution.alternativesConsidered, {e.agent : e \in ToSet(Handoffs[node])} \ {d.to})
  /\ \A span \in d.attribution.triggerSpans :
       findOffset(UserWords, span.phrase) \/ findOffset(text, span.phrase)

HandoverOwn == at = "between" /\ decision # NoDecision => Explained(decision, LastOf(spoken))

SInv == Answered /\ Announced /\ OneWay /\ InCharacter /\ Fresh /\ HandoverOwn

-----------------------------------------------------------------------------
(* The words of a text that are scored, and its pairs of words, are        *)
(* finitely many.                                                          *)
LEMMA TokensFinite ==
  ASSUME NEW T, NEW tokens \in Seq(T)
  PROVE  IsFiniteSet(ToSet(tokens)) /\ ToSet(tokens) \subseteq T /\ IsFiniteSet(bigramsOf(tokens))
<1>1. DOMAIN tokens = 1..Len(tokens) /\ Len(tokens) \in Nat /\ \A i \in DOMAIN tokens : tokens[i] \in T
  OBVIOUS
<1>2. IsFiniteSet(ToSet(tokens)) /\ ToSet(tokens) \subseteq T
  <2>1. IsFiniteSet(DOMAIN tokens)
    BY <1>1, FS_Interval
  <2> QED BY <1>1, <2>1, ImageFinite DEF ToSet
<1>3. IsFiniteSet(bigramsOf(tokens))
  <2> DEFINE S == 1..Len(tokens) - 1
             f == [i \in S |-> SubSeq(tokens, i, i + 1)]
  <2>1. IsFiniteSet(S)
    BY <1>1, FS_Interval
  <2>2. DOMAIN f = S
    OBVIOUS
  <2>3. bigramsOf(tokens) = {f[i] : i \in S}
    BY DEF bigramsOf
  <2> HIDE DEF S, f
  <2> QED BY <2>1, <2>2, <2>3, ImageFinite
<1> QED BY <1>2, <1>3

LEMMA TokensOf ==
  ASSUME NEW T, NEW text \in Seq(T)
  PROVE  tokenize(text) \in Seq(T) /\ Distinct(tokenize(text)) \in Seq(T)
<1>1. ASSUME NEW list \in Seq(T), NEW places, places \subseteq DOMAIN list PROVE Kept(list, places) \in Seq(T)
  BY <1>1, KeptItems
<1>2. tokenize(text) \in Seq(T)
  <2> DEFINE places == {i \in DOMAIN text : text[i] \notin Stopwords}
  <2>1. places \subseteq DOMAIN text
    OBVIOUS
  <2> HIDE DEF places
  <2>2. Kept(text, places) \in Seq(T)
    BY <1>1, <2>1
  <2> QED BY <2>2 DEF tokenize, places
<1> DEFINE tokens == tokenize(text)
           places == {i \in DOMAIN tokens : \A j \in 1..(i - 1) : tokens[j] # tokens[i]}
<1>3. places \subseteq DOMAIN tokens
  OBVIOUS
<1> HIDE DEF tokens, places
<1>4. Kept(tokens, places) \in Seq(T)
  BY <1>1, <1>2, <1>3 DEF tokens
<1> QED BY <1>2, <1>4 DEF Distinct, tokens, places

(* A target of which the text has words scores a whole number.             *)
LEMMA TargetNat ==
  ASSUME NEW source, NEW target, target.value \in Seq(Words)
  PROVE  TargetScore(source, target) \in Nat
<1> DEFINE words == CommonWords(source, target)
           grams == CommonBigrams(source, target)
           theirs == tokenize(target.value)
<1>1. theirs \in Seq(Words) /\ Distinct(theirs) \in Seq(Words)
  BY TokensOf
<1>2. words \subseteq ToSet(theirs) /\ grams \subseteq bigramsOf(Distinct(theirs))
  BY DEF CommonWords, CommonBigrams
<1> HIDE DEF words, grams, theirs
<1>3. IsFiniteSet(ToSet(theirs)) /\ ToSet(theirs) \subseteq Words /\ IsFiniteSet(bigramsOf(Distinct(theirs)))
  BY <1>1, TokensFinite
<1>4. IsFiniteSet(words) /\ words \subseteq Words /\ Cardinality(grams) \in Nat
  BY <1>2, <1>3, FS_Subset, FS_CardinalityType
<1>5. SumOver(Weight, words) \in Nat
  BY <1>4, SumNat, AttributionAssumption
<1>6. MapThenSumSet(LAMBDA w : Weight[w], words) = SumOver(Weight, words)
  BY DEF MapThenSumSet, MapThenFoldSet, SumOver, AddsUp, SumOf
<1>7. TargetScore(source, target)
        = MapThenSumSet(LAMBDA w : Weight[w], words) + BigramWeight * Cardinality(grams)
  BY DEF TargetScore, words, grams
<1>8. BigramWeight * Cardinality(grams) \in Nat
  BY <1>4, AttributionAssumption
<1> QED BY <1>5, <1>6, <1>7, <1>8

(* And so do the texts of an entry together.                               *)
LEMMA EntryNat ==
  ASSUME NEW source, NEW entry \in Entries
  PROVE  scoreSourceAgainstCandidate(source, entry) \in Nat
<1> DEFINE S == buildCandidate(entry)
           f == [t \in S |-> TargetScore(source, t)]
           Body(g, s) == IF s = {} THEN 0
                         ELSE LET x == CHOOSE x \in s : TRUE IN TargetScore(source, x) + g[s \ {x}]
           Adds(g) == g = [s \in SUBSET S |-> Body(g, s)]
           total == CHOOSE g : Adds(g)
<1>1. scoreSourceAgainstCandidate(source, entry) = total[S]
  BY DEF scoreSourceAgainstCandidate, MapThenSumSet, MapThenFoldSet
<1>2. IsFiniteSet(S) /\ \A t \in S : t.value \in Seq(Words)
  <2> DEFINE meta == AgentMeta[entry.agent]
             named == {[against |-> "handoff.label", value |-> entry.label],
                       [against |-> "handoff.prompt", value |-> entry.prompt],
                       [against |-> "description", value |-> meta.description]}
             k == [s \in meta.skills |-> [against |-> "skill", value |-> s]]
             skilled == {k[s] : s \in meta.skills}
  <2>1. /\ entry.label \in Seq(Words) /\ entry.prompt \in Seq(Words) /\ meta.description \in Seq(Words)
        /\ meta.skills \subseteq Seq(Words) /\ IsFiniteSet(meta.skills)
    BY AttributionAssumption DEF Entries
  <2>2. IsFiniteSet(named)
    <3> DEFINE a == [against |-> "handoff.label", value |-> entry.label]
               b == [against |-> "handoff.prompt", value |-> entry.prompt]
               c == [against |-> "description", value |-> meta.description]
    <3>1. named = {a} \cup ({b} \cup {c})
      OBVIOUS
    <3> HIDE DEF named, a, b, c
    <3>2. IsFiniteSet({a}) /\ IsFiniteSet({b}) /\ IsFiniteSet({c})
      BY FS_Singleton
    <3> QED BY <3>1, <3>2, FS_Union
  <2>3. IsFiniteSet(skilled)
    BY <2>1, ImageFinite
  <2>4. S \subseteq named \cup skilled
    BY DEF buildCandidate
  <2>5. \A t \in named \cup skilled : t.value \in Seq(Words)
    <3>1. ASSUME NEW t \in named PROVE t.value \in Seq(Words)
      BY <2>1, <3>1
    <3>2. ASSUME NEW t \in skilled PROVE t.value \in Seq(Words)
      <4>1. PICK s \in meta.skills : t = k[s]
        BY <3>2
      <4>2. t.value = s /\ s \in Seq(Words)
        BY <2>1, <4>1
      <4> QED BY <4>2
    <3> HIDE DEF named, skilled
    <3> QED BY <3>1, <3>2
  <2> HIDE DEF S, named, skilled
  <2>6. IsFiniteSet(named \cup skilled)
    BY <2>2, <2>3, FS_Union
  <2> QED BY <2>4, <2>5, <2>6, FS_Subset
<1>3. \A t \in S : f[t] \in Nat
  <2> TAKE t \in S
  <2>1. TargetScore(source, t) \in Nat
    BY <1>2, TargetNat
  <2> QED BY <2>1
<1>4. ASSUME NEW g, NEW s \in SUBSET S PROVE Body(g, s) = SumOf(f, g, s)
  <2>1. CASE s = {}
    BY <2>1 DEF SumOf
  <2>2. CASE s # {}
    <3> DEFINE x == CHOOSE x \in s : TRUE
    <3>1. x \in S
      BY <2>2
    <3>2. f[x] = TargetScore(source, x)
      BY <3>1
    <3> QED BY <2>2, <3>2 DEF SumOf
  <2> QED BY <2>1, <2>2
<1>5. ASSUME NEW g PROVE Adds(g) <=> AddsUp(f, SUBSET S, g)
  <2> HIDE DEF Body, f, S
  <2> QED BY <1>4 DEF AddsUp
<1>6. \E g : Adds(g)
  <2> HIDE DEF Adds, f, S
  <2> QED BY <1>2, <1>5, SumsExist
<1>7. Adds(total)
  <2> HIDE DEF Adds
  <2> QED BY <1>6
<1>8. total[S] \in Nat
  <2> HIDE DEF Adds, f, S, total
  <2> QED BY <1>2, <1>3, <1>5, <1>7, AddedNat
<1> QED BY <1>1, <1>8

(* All but the chosen are listed, each by its place among the scores.      *)
LEMMA AlternativesListed ==
  ASSUME NEW user, NEW text, NEW chosen, NEW handoffs \in Seq(Entries)
  PROVE  BestOf(attributeHandoff(user, text, chosen, handoffs).alternativesConsidered,
                {e.agent : e \in ToSet(handoffs)} \ {chosen})
<1> DEFINE score == [i \in DOMAIN handoffs |->
                       scoreSourceAgainstCandidate(user, handoffs[i])
                       + scoreSourceAgainstCandidate(text, handoffs[i])]
           own == {i \in DOMAIN handoffs : handoffs[i].agent = chosen}
           others == DOMAIN handoffs \ own
           order == ByScore(score, others)
           list == attributeHandoff(user, text, chosen, handoffs).alternativesConsidered
<1>1. \A i \in others : score[i] \in Int
  <2> TAKE i \in others
  <2>1. handoffs[i] \in Entries
    OBVIOUS
  <2>2. scoreSourceAgainstCandidate(user, handoffs[i]) \in Nat /\ scoreSourceAgainstCandidate(text, handoffs[i]) \in Nat
    BY <2>1, EntryNat
  <2>3. score[i] = scoreSourceAgainstCandidate(user, handoffs[i]) + scoreSourceAgainstCandidate(text, handoffs[i])
    OBVIOUS
  <2> HIDE DEF score
  <2> QED BY <2>2, <2>3
<1>2. others \subseteq DOMAIN handoffs /\ \A i \in DOMAIN handoffs : i \in others <=> handoffs[i].agent # chosen
  OBVIOUS
<1>3. others \subseteq Nat /\ IsFiniteSet(others)
  <2>1. IsFiniteSet(DOMAIN handoffs) /\ DOMAIN handoffs \subseteq Nat
    BY FS_Interval
  <2> HIDE DEF others
  <2> QED BY <1>2, <2>1, FS_Subset
<1>4. list = [k \in DOMAIN order |-> [agent |-> handoffs[order[k]].agent, score |-> score[order[k]]]]
  BY DEF attributeHandoff
<1> HIDE DEF score, others, list
<1>5. /\ order \in Seq(others)
      /\ \A x \in others : \E n \in DOMAIN order : order[n] = x
      /\ \A m, n \in DOMAIN order : m < n => score[order[m]] >= score[order[n]]
  BY <1>1, <1>3, BestScored
<1> HIDE DEF order
<1>6. /\ DOMAIN order = 1..Len(order) /\ Len(order) \in Nat
      /\ \A k \in DOMAIN order : order[k] \in others
      /\ DOMAIN list = DOMAIN order
      /\ \A k \in DOMAIN order : list[k].agent = handoffs[order[k]].agent /\ list[k].score = score[order[k]]
  BY <1>4, <1>5
<1>7. {list[k].agent : k \in DOMAIN list} = {e.agent : e \in ToSet(handoffs)} \ {chosen}
  <2>1. ASSUME NEW k \in DOMAIN list PROVE list[k].agent \in {e.agent : e \in ToSet(handoffs)} \ {chosen}
    <3>1. order[k] \in DOMAIN handoffs /\ handoffs[order[k]].agent # chosen
      BY <1>2, <1>6
    <3>2. list[k].agent = handoffs[order[k]].agent
      BY <1>6
    <3> QED BY <3>1, <3>2 DEF ToSet
  <2>2. ASSUME NEW e \in ToSet(handoffs), e.agent # chosen PROVE \E k \in DOMAIN list : list[k].agent = e.agent
    <3>1. PICK i \in DOMAIN handoffs : handoffs[i] = e
      BY DEF ToSet
    <3>2. i \in others
      BY <1>2, <2>2, <3>1
    <3>3. PICK k \in DOMAIN order : order[k] = i
      BY <1>5, <3>2
    <3> QED BY <1>6, <3>1, <3>3
  <2> QED BY <2>1, <2>2
<1>8. \A k \in 1..Len(list) - 1 : list[k].score >= list[k + 1].score
  <2>1. Len(list) = Len(order)
    BY <1>4, <1>6
  <2> TAKE k \in 1..Len(list) - 1
  <2>2. k \in DOMAIN order /\ k + 1 \in DOMAIN order /\ k < k + 1
    BY <1>6, <2>1
  <2>3. score[order[k]] >= score[order[k + 1]]
    BY <1>5, <2>2
  <2> QED BY <1>6, <2>2, <2>3
<1> QED BY <1>7, <1>8 DEF BestOf, list

-----------------------------------------------------------------------------
(* A visible text that is not empty is one that was yielded. *)
LEMMA StreamedAnswers ==
  ASSUME Answered, NEW raw, Streamed(raw)
  PROVE  Answered'
<1>1. CASE suppressTokens
  BY <1>1 DEF Streamed, stream, Answered
<1>2. CASE ~suppressTokens
  <2> DEFINE visible == filterTokens(raw, filter).visible
  <2>1. /\ hasYieldedContent' = (hasYieldedContent \/ visible # <<>>)
        /\ told' = told \cup {"text" : s \in ToSet(visible)}
        /\ UNCHANGED suppressTokens
    BY <1>2 DEF Streamed
  <2>2. visible = <<>> => ToSet(visible) = {}
    BY DEF ToSet
  <2> HIDE DEF visible
  <2> QED BY <1>2, <2>1, <2>2 DEF Answered
<1> QED BY <1>1, <1>2

(* The end of a text is of its symbols; nothing has been said at first.    *)
LEMMA LastOfSeq ==
  ASSUME NEW s \in Seq(Symbols)
  PROVE  LastOf(s) \in Seq(Symbols) /\ LastOf(<<>>) = <<>>
BY SwarmAssumption DEF LastOf, From

(* Cut as it comes or all at once, the end of a text is the same.          *)
LEMMA LastOfLast ==
  ASSUME NEW s \in Seq(Symbols), NEW t \in Seq(Symbols)
  PROVE  LastOf(LastOf(s) \o t) = LastOf(s \o t)
<1> DEFINE m == MaxReasoning
           u == From(s, Len(s) - m + 1)
<1>0. m \in Nat \ {0} /\ Len(s) \in Nat /\ Len(t) \in Nat
  BY SwarmAssumption
<1>1. CASE Len(s) <= m
  BY <1>1 DEF LastOf
<1>2. CASE Len(s) > m
  <2>1. u \in Seq(Symbols) /\ Len(u) = m /\ \A i \in 1..m : u[i] = s[Len(s) - m + i]
    <3>1. Len(s) - m + 1 \in Int /\ Len(s) \in Int /\ \A i \in (Len(s) - m + 1)..Len(s) : s[i] \in Symbols
      BY <1>0, <1>2
    <3> QED BY <1>0, <1>2, <3>1, SubSeqProperties DEF From
  <2>2. LastOf(s) = u
    BY <1>0, <1>2 DEF LastOf
  <2> DEFINE v == u \o t
             w == s \o t
  <2> HIDE DEF u
  <2>3. /\ v \in Seq(Symbols) /\ Len(v) = m + Len(t)
        /\ \A i \in 1..(m + Len(t)) : v[i] = IF i <= m THEN u[i] ELSE t[i - m]
    BY <2>1, ConcatProperties
  <2>4. /\ w \in Seq(Symbols) /\ Len(w) = Len(s) + Len(t)
        /\ \A i \in 1..(Len(s) + Len(t)) : w[i] = IF i <= Len(s) THEN s[i] ELSE t[i - Len(s)]
    BY ConcatProperties
  <2> HIDE DEF v, w
  <2> DEFINE a == LastOf(v)
             b == LastOf(w)
  <2>5. a \in Seq(Symbols) /\ Len(a) = m /\ \A i \in 1..m : a[i] = v[Len(t) + i]
    <3>1. CASE Len(t) = 0
      <4>1. a = v
        BY <1>0, <2>3, <3>1 DEF LastOf
      <4> QED BY <1>0, <2>3, <3>1, <4>1
    <3>2. CASE Len(t) > 0
      <4>1. a = SubSeq(v, Len(t) + 1, m + Len(t))
        BY <1>0, <2>3, <3>2 DEF LastOf, From
      <4>2. \A i \in (Len(t) + 1)..(m + Len(t)) : v[i] \in Symbols
        BY <1>0, <2>3
      <4> QED BY <1>0, <4>1, <4>2, SubSeqProperties
    <3> QED BY <1>0, <3>1, <3>2
  <2>6. b \in Seq(Symbols) /\ Len(b) = m /\ \A i \in 1..m : b[i] = w[Len(s) + Len(t) - m + i]
    <3>1. b = SubSeq(w, Len(s) + Len(t) - m + 1, Len(s) + Len(t))
      BY <1>0, <1>2, <2>4 DEF LastOf, From
    <3>2. \A i \in (Len(s) + Len(t) - m + 1)..(Len(s) + Len(t)) : w[i] \in Symbols
      BY <1>0, <1>2, <2>4
    <3> QED BY <1>0, <3>1, <3>2, SubSeqProperties
  <2>7. \A i \in 1..m : v[Len(t) + i] = w[Len(s) + Len(t) - m + i]
    <3> TAKE i \in 1..m
    <3> DEFINE k == Len(t) + i
               n == Len(s) + Len(t) - m + i
    <3>1. /\ k \in 1..(m + Len(t)) /\ n \in 1..(Len(s) + Len(t)) /\ i \in Nat
          /\ n - Len(s) = k - m /\ (k <= m <=> n <= Len(s))
          /\ n = Len(s) - m + k
      BY <1>0, <1>2
    <3>2. /\ v[k] = IF k <= m THEN u[k] ELSE t[k - m]
          /\ w[n] = IF n <= Len(s) THEN s[n] ELSE t[n - Len(s)]
      BY <2>3, <2>4, <3>1
    <3>3. k <= m => u[k] = s[n]
      BY <1>0, <2>1, <3>1
    <3> HIDE DEF k, n
    <3>4. v[k] = w[n]
      BY <3>1, <3>2, <3>3
    <3> QED BY <3>4 DEF k, n
  <2> HIDE DEF a, b
  <2>8. a = b
    BY <1>0, <2>5, <2>6, <2>7, SeqEqual
  <2> QED BY <2>2, <2>8 DEF a, b, v, w
<1> QED BY <1>0, <1>1, <1>2

(* What is shown leaves the rest of the node alone. *)
LEMMA SayStep == SInv /\ Say => SInv'
<1> SUFFICES ASSUME SInv, Say PROVE SInv'
  OBVIOUS
<1>1. PICK k \in 1..Len(left) :
        /\ left' = From(left, k + 1)
        /\ reasoning' = [reasoning EXCEPT ![node] = LastOf(@ \o SubSeq(left, 1, k))]
        /\ spoken' = spoken \o SubSeq(left, 1, k)
        /\ Streamed(SubSeq(left, 1, k))
  BY DEF Say
<1>2. at = "running" /\ UNCHANGED <<at, node, routing>>
  BY DEF Say
<1>3. Answered'
  BY <1>1, StreamedAnswers DEF SInv
<1>4. InCharacter'
  <2> DEFINE raw == SubSeq(left, 1, k)
  <2>1. left \in Seq(Symbols) /\ raw \in Seq(Symbols) /\ left' \in Seq(Symbols)
    BY <1>1 DEF SInv, InCharacter, From
  <2> HIDE DEF raw
  <2>2. /\ spoken \in Seq(Symbols) /\ spoken \o raw \in Seq(Symbols)
        /\ node \in Agents /\ reasoning[node] = LastOf(spoken)
    BY <1>2, <2>1 DEF SInv, InCharacter
  <2>3. LastOf(LastOf(spoken) \o raw) = LastOf(spoken \o raw) /\ LastOf(spoken \o raw) \in Seq(Symbols)
    BY <2>1, <2>2, LastOfLast, LastOfSeq
  <2>4. spoken' = spoken \o raw /\ reasoning' = [reasoning EXCEPT ![node] = LastOf(spoken \o raw)]
    BY <1>1, <2>2, <2>3 DEF raw
  <2> QED BY <1>1, <1>2, <2>1, <2>2, <2>3, <2>4 DEF SInv, InCharacter
<1> QED BY <1>2, <1>3, <1>4 DEF SInv, Announced, OneWay, Fresh, HandoverOwn, routing

(* A message is streamed if nothing was before, and silences the rest. *)
LEMMA ToolEndsStep == SInv /\ ToolEnds => SInv'
<1> SUFFICES ASSUME SInv, ToolEnds PROVE SInv'
  OBVIOUS
<1>1. Answered'
  <2>1. ASSUME NEW message \in Messages, Terminal(message) PROVE Answered'
    <3>1. suppressTokens' = TRUE /\ UNCHANGED hasYieldedContent
      BY <2>1 DEF Terminal
    <3>2. UNCHANGED told \/ (told' = told \cup {"message"} /\ ~hasYieldedContent)
      BY <2>1 DEF Terminal
    <3> QED BY <3>1, <3>2 DEF SInv, Answered
  <2>2. CASE UNCHANGED stream
    BY <2>2 DEF SInv, Answered, stream
  <2>3. UNCHANGED stream \/ \E message \in Messages : Terminal(message)
    BY DEF ToolEnds
  <2> QED BY <2>1, <2>2, <2>3
<1>2. UNCHANGED <<at, node, left, reasoning, spoken, routing>>
  BY DEF ToolEnds
<1> QED BY <1>1, <1>2 DEF SInv, Announced, OneWay, InCharacter, Fresh, HandoverOwn, Explained, routing

(* A node starts with nothing told; the orchestrator is announced if it    *)
(* was not invoked before, and does not run if a specialist has run.       *)
LEMMA NodeStartsStep ==
  ASSUME SInv, NEW n \in Agents, NodeStarts(n)
  PROVE  SInv'
<1>0. <<>> \in Seq(Symbols)
  OBVIOUS
<1>1. Announce(n) /\ at' \in {"ended", "running"} /\ left' \in Seq(Symbols)
  BY <1>0, SwarmAssumption DEF NodeStarts
<1>2. Answered'
  BY <1>1 DEF Announce, Answered
<1>3. InCharacter'
  BY <1>0, <1>1, LastOfSeq DEF Announce, SInv, InCharacter
<1>4. OneWay'
  BY DEF NodeStarts, Announce, Cancelled, OneWay
<1>5. Announced'
  <2>1. CASE UNCHANGED active /\ invocations' \in Nat /\ invocations' # 0
    BY <2>1 DEF SInv, Announced
  <2>2. CASE n # Orchestrator
    <3>1. active' = Append(active, n) /\ UNCHANGED invocations
      BY <1>1, <2>2 DEF Announce
    <3> QED BY <2>2, <3>1 DEF SInv, Announced
  <2>3. CASE n = Orchestrator /\ invocations # 0
    <3>1. invocations \in Nat /\ invocations + 1 > 1
      BY <2>3 DEF SInv, Announced
    <3>2. invocations' = invocations + 1 /\ UNCHANGED active
      BY <1>1, <2>3, <3>1 DEF Announce
    <3> QED BY <2>1, <3>1, <3>2
  <2>4. CASE n = Orchestrator /\ invocations = 0
    BY <1>1, <2>4 DEF SInv, Announced, Announce
  <2> QED BY <2>2, <2>3, <2>4
<1>6. Fresh' /\ HandoverOwn'
  BY <1>1 DEF Fresh, HandoverOwn
<1> QED BY <1>2, <1>3, <1>4, <1>5, <1>6 DEF SInv

(* A span is looked up in the text that it comes from. *)
LEMMA HandoffStep ==
  ASSUME SInv, NEW n \in Agents, Handoff(n)
  PROVE  SInv'
<1>1. UNCHANGED <<node, left, calls, tool, reasoning, spoken, stream, invocations, specialistHasRun, active>>
      /\ at = "running" /\ at' = "between"
  BY DEF Handoff
<1> DEFINE a == attributeHandoff(UserWords, reasoning[node], n, Handoffs[node])
<1>2. decision' = [from |-> node, to |-> n, reasoning |-> reasoning[node], attribution |-> a]
  BY DEF Handoff
<1>3. \A span \in a.triggerSpans :
        findOffset(UserWords, span.phrase) \/ findOffset(reasoning[node], span.phrase)
  <2>1. ASSUME NEW text, NEW source, NEW entry, NEW span \in Spans(text, source, entry)
        PROVE  findOffset(text, span.phrase)
    BY DEF Spans
  <2>2. ASSUME NEW span \in a.triggerSpans
        PROVE  \E entry : \/ span \in Spans(UserWords, "userMessage", entry)
                          \/ span \in Spans(reasoning[node], "orchestratorReasoning", entry)
    BY <2>2 DEF attributeHandoff
  <2> HIDE DEF a
  <2> QED BY <2>1, <2>2
<1> HIDE DEF a
<1>4. reasoning[node] = LastOf(spoken)
  BY <1>1 DEF SInv, InCharacter
<1>5. Handoffs[node] \in Seq(Entries)
  BY <1>1, AttributionAssumption, SwarmAssumption DEF SInv, InCharacter
<1>6. BestOf(a.alternativesConsidered, {e.agent : e \in ToSet(Handoffs[node])} \ {n})
  BY <1>5, AlternativesListed DEF a
<1>7. /\ node' = node /\ spoken' = spoken /\ decision'.from = node /\ decision'.to = n
      /\ decision'.reasoning = LastOf(spoken) /\ decision'.attribution = a
  BY <1>1, <1>2, <1>4
<1>8. Explained(decision, LastOf(spoken))'
  BY <1>3, <1>4, <1>6, <1>7 DEF Explained, BestOf, findOffset, LastOf, From
<1>9. HandoverOwn'
  BY <1>8 DEF HandoverOwn
<1> QED BY <1>1, <1>9 DEF SInv, Answered, Announced, OneWay, InCharacter, Fresh, stream

(* The invariant holds at the start and is kept by every step. *)
LEMMA InitSInv == Init => SInv
<1> SUFFICES ASSUME Init PROVE SInv
  OBVIOUS
<1>1. <<>> \in Seq(Agents) /\ <<>> \in Seq(Symbols) /\ \A n \in Agents : <<>> \in Seq(Symbols)
  OBVIOUS
<1>2. Answered /\ OneWay /\ Fresh /\ HandoverOwn
  BY DEF Init, Answered, OneWay, Fresh, HandoverOwn
<1>4. Announced
  BY <1>1 DEF Init, Announced
<1>3. InCharacter
  BY <1>1 DEF Init, InCharacter
<1> QED BY <1>2, <1>3, <1>4 DEF SInv

LEMMA NextSInv == SInv /\ [Next]_vars => SInv'
<1> SUFFICES ASSUME SInv, [Next]_vars PROVE SInv'
  OBVIOUS
<1>1. CASE Begin \/ Fails
  <2>1. /\ UNCHANGED <<node, left, reasoning, spoken, stream, invocations, specialistHasRun, active, decision>>
        /\ at' \in {"between", "ended"} /\ (at' = "between" => at = "starting")
    BY <1>1 DEF Begin, Fails
  <2>2. CASE at' = "ended"
    BY <2>1, <2>2 DEF SInv, Answered, Announced, OneWay, InCharacter, Fresh, HandoverOwn, stream
  <2>3. CASE at' = "between"
    BY <2>1, <2>3 DEF SInv, Answered, Announced, OneWay, InCharacter, Fresh, HandoverOwn, stream
  <2> QED BY <2>1, <2>2, <2>3
<1>2. CASE (\E t \in Tools : ToolStarts(t)) \/ Finish \/ UNCHANGED vars
  <2>1. /\ UNCHANGED <<node, left, reasoning, spoken, stream, routing>>
        /\ at' \in {at, "ended"}
    BY <1>2 DEF ToolStarts, Finish, vars
  <2> QED BY <2>1 DEF SInv, Answered, Announced, OneWay, InCharacter, Fresh, HandoverOwn, Explained, stream, routing
<1> QED BY <1>1, <1>2, SayStep, ToolEndsStep, NodeStartsStep, HandoffStep DEF Next, NodeStep

(* Every reachable state of the stream satisfies the inductive invariant. *)
LEMMA SwarmInductive == Spec => []SInv
BY InitSInv, NextSInv, PTL DEF Spec

(* A node is answered as text or by the message of its structured output,  *)
(* never both, whatever is said and however often the tool is called.      *)
THEOREM AnswersOnce == Spec => []AnsweredOnce
<1>1. SInv => AnsweredOnce
  <2> SUFFICES ASSUME SInv PROVE Cardinality(told) <= 1
    BY DEF AnsweredOnce
  <2>1. PICK x : told \subseteq {x}
    BY DEF SInv, Answered
  <2>2. IsFiniteSet({x}) /\ Cardinality({x}) = 1
    BY FS_Singleton
  <2> QED BY <2>1, <2>2, FS_Subset
<1> QED BY <1>1, SwarmInductive, PTL

(* After a specialist the orchestrator does not run again, and the client  *)
(* is told of it once.                                                     *)
THEOREM NotBack == Spec => []NoWayBack
<1>1. SInv => NoWayBack
  BY DEF SInv, OneWay, Announced, NoWayBack
<1> QED BY <1>1, SwarmInductive, PTL

(* A handover tells the last MaxReasoning symbols of what its agent said   *)
(* since it was entered, however that came in chunks, explains it by words *)
(* found there or in the user's message, and lists every other agent it    *)
(* could have gone to, the best first, whatever they score.                *)
THEOREM HandoversOwn == Spec => []DecisionsOwn
<1>1. SInv => DecisionsOwn
  BY DEF SInv, HandoverOwn, Explained, BestOf, DecisionsOwn
<1> QED BY <1>1, SwarmInductive, PTL
===============================================================================

-------------------------- MODULE HandoffAttribution --------------------------
(***************************************************************************)
(* lib/handoff-attribution.ts: which words of the user's message and of    *)
(* the agent's reasoning speak for the specialist that was chosen, and how *)
(* it scores against the other specialists the agent could hand over to.   *)
(* Pure.  A text is a sequence of words, a word a member of a small set.   *)
(***************************************************************************)
EXTENDS Ranking, FiniteSetsExt, SequencesExt

CONSTANTS
  Words, Stopwords,
  Weight,          \* Weight[w]: the logarithm of its length, in whole points
  BigramWeight,
  Handoffs,        \* Handoffs[a]: the entries of a's handoffs, [agent, label, prompt]
  AgentMeta        \* AgentMeta[a]: its [description, skills]

Entries == [agent : DOMAIN AgentMeta, label : Seq(Words), prompt : Seq(Words)]

ASSUME AttributionAssumption ==
  /\ Weight \in [Words -> Nat] /\ BigramWeight \in Nat
  /\ \A a \in DOMAIN Handoffs : Handoffs[a] \in Seq(Entries)
  /\ \A a \in DOMAIN AgentMeta :
       /\ AgentMeta[a].description \in Seq(Words)
       /\ AgentMeta[a].skills \subseteq Seq(Words) /\ IsFiniteSet(AgentMeta[a].skills)

tokenize(text) == Kept(text, {i \in DOMAIN text : text[i] \notin Stopwords})
bigramsOf(tokens) == {SubSeq(tokens, i, i + 1) : i \in 1..Len(tokens) - 1}
Distinct(tokens) ==
  Kept(tokens, {i \in DOMAIN tokens : \A j \in 1..(i - 1) : tokens[j] # tokens[i]})

(* The texts an entry is scored on; an empty one does not count.           *)
buildCandidate(entry) ==
  {t \in {[against |-> "handoff.label", value |-> entry.label],
          [against |-> "handoff.prompt", value |-> entry.prompt],
          [against |-> "description", value |-> AgentMeta[entry.agent].description]}
         \cup {[against |-> "skill", value |-> s] : s \in AgentMeta[entry.agent].skills}
     : t.value # <<>>}

(* A target earns the weight of every word, and of every pair of words,    *)
(* that it shares with the source.                                         *)
CommonWords(source, target) == ToSet(tokenize(source)) \cap ToSet(tokenize(target.value))
CommonBigrams(source, target) ==
  bigramsOf(tokenize(source)) \cap bigramsOf(Distinct(tokenize(target.value)))

TargetScore(source, target) ==
  MapThenSumSet(LAMBDA w : Weight[w], CommonWords(source, target))
    + BigramWeight * Cardinality(CommonBigrams(source, target))

scoreSourceAgainstCandidate(source, entry) ==
  MapThenSumSet(LAMBDA t : TargetScore(source, t), buildCandidate(entry))

Phrases(source, entry) ==
  UNION {{[phrase |-> p, against |-> t.against] :
            p \in {<<w>> : w \in CommonWords(source, t)} \cup CommonBigrams(source, t)}
         : t \in buildCandidate(entry)}

(* A pair of words with a stopword between them is nowhere in the text.    *)
findOffset(text, phrase) ==
  \E i \in 0..Len(text) - Len(phrase) : SubSeq(text, i + 1, i + Len(phrase)) = phrase

Spans(text, source, entry) ==
  {[phrase |-> p.phrase, against |-> p.against, source |-> source] :
     p \in {q \in Phrases(text, entry) : findOffset(text, q.phrase)}}

attributeHandoff(userMessage, reasoning, chosen, handoffs) ==
  LET score == [i \in DOMAIN handoffs |->
                  scoreSourceAgainstCandidate(userMessage, handoffs[i])
                  + scoreSourceAgainstCandidate(reasoning, handoffs[i])]
      own == {i \in DOMAIN handoffs : handoffs[i].agent = chosen}
      others == DOMAIN handoffs \ own
      order == ByScore(score, others)
      chosenScore == IF own = {} THEN 0 ELSE score[Max(own)]
      total == chosenScore + MapThenSumSet(LAMBDA i : score[i], others)
  IN [triggerSpans |-> UNION {Spans(userMessage, "userMessage", handoffs[i])
                              \cup Spans(reasoning, "orchestratorReasoning", handoffs[i]) : i \in own},
      alternativesConsidered |->
        [k \in DOMAIN order |-> [agent |-> handoffs[order[k]].agent, score |-> score[order[k]]]],
      chosenScore |-> chosenScore,
      confidence |-> IF total = 0 THEN "null" ELSE "ratio"]
===============================================================================

------------------------------ MODULE Classifier ------------------------------
(***************************************************************************)
(* lib/agent-classifier.ts without its caches: how a message scores against*)
(* the specialists of the roster, and when the scores are clear enough to  *)
(* route without asking the language model.  Pure.  A text is a sequence   *)
(* of words; a score is a whole number of points.                          *)
(***************************************************************************)
EXTENDS Ranking, FiniteSetsExt, SequencesExt

CONSTANTS
  Stopwords,
  Points,                     \* Points[w]: the logarithm of a word's length
  BigramPoints,
  heuristicMinScore, heuristicMargin, multiMinScore, multiRelativeMargin,
  multiMaxAgents, heuristicDominantMargin

ASSUME KnobAssumption ==
  /\ {heuristicMinScore, heuristicMargin, multiMinScore, multiRelativeMargin,
      heuristicDominantMargin} \subseteq Nat
  /\ multiMaxAgents \in Nat \ {0}
  /\ BigramPoints \in Nat /\ \A w \in DOMAIN Points : Points[w] \in Nat

tokenize(text) == Kept(text, {i \in DOMAIN text : text[i] \notin Stopwords})
bigramsOf(tokens) == {SubSeq(tokens, i, i + 1) : i \in 1..Len(tokens) - 1}

heuristicScore(message, corpus) ==
  LET mine == tokenize(message)
      theirs == tokenize(corpus)
  IN MapThenSumSet(LAMBDA w : Points[w], ToSet(mine) \cap ToSet(theirs))
       + BigramPoints * Cardinality(bigramsOf(mine) \cap bigramsOf(theirs))

(* Best first; among equals the order of the roster stays.                 *)
scoreAllCandidates(message, candidates) ==
  LET score == [i \in DOMAIN candidates |-> heuristicScore(message, candidates[i].corpus)]
      order == ByScore(score, DOMAIN candidates)
  IN [k \in DOMAIN order |-> [agent |-> candidates[order[k]].agent, score |-> score[order[k]]]]

Gap(scored, k) == scored[1].score - scored[k].score

(* A candidate that deserves a place next to the leader.                   *)
Accompanies(scored, k) ==
  scored[k].score >= multiMinScore /\ Gap(scored, k) <= multiRelativeMargin

(* A lone leader is believed when it is clear of the runner-up, and the    *)
(* runner-up is either far behind or no domain of its own.                 *)
Uncontested(scored) ==
  Len(scored) > 1 =>
    /\ Gap(scored, 2) >= heuristicMargin
    /\ Gap(scored, 2) >= heuristicDominantMargin \/ scored[2].score < multiMinScore

AtMost(n, list) == SubSeq(list, 1, IF Len(list) < n THEN Len(list) ELSE n)

(* The specialists selected, best first; none when the scores cannot tell. *)
heuristicClassifyMulti(message, candidates) ==
  LET scored == scoreAllCandidates(message, candidates)
      company == Kept([k \in DOMAIN scored |-> scored[k].agent],
                      {k \in DOMAIN scored : k = 1 \/ Accompanies(scored, k)})
      leaders == IF Len(scored) > 1 /\ Accompanies(scored, 2) THEN AtMost(multiMaxAgents, company)
                 ELSE IF Uncontested(scored) THEN <<scored[1].agent>> ELSE <<>>
  IN IF Len(scored) = 0 \/ scored[1].score < heuristicMinScore THEN <<>> ELSE leaders

(* haikuClassifyMulti: of the model's answer, the agents it was offered,   *)
(* each once, as many as may be selected.                                  *)
Usable(answer, offered) ==
  AtMost(multiMaxAgents,
         Kept(answer, {i \in DOMAIN answer : answer[i] \in offered /\ \A j \in 1..(i - 1) : answer[j] # answer[i]}))
===============================================================================

------------------------------ MODULE Retrieval ------------------------------
(***************************************************************************)
(* The ranking of lib/vector-retrieval.ts, pure: from the ranked lists of  *)
(* the searches to the hits that are injected.  A hit is the row that was  *)
(* found and its rank; a row has at least its id, collection (`coll`),     *)
(* vector (`vec`, NoVec when it was stored without one) and age.           *)
(*                                                                         *)
(* Scores are kept exact as integers: a rank counts in units of Unit, the  *)
(* weights 1.5 and 1.2 are 5 and 4, the decay of an age is Decay[age]      *)
(* eighths, and what MMR compares is in tenths of all this.                *)
(***************************************************************************)
EXTENDS Integers, FiniteSets, SequencesExt, Ranking

CONSTANTS
  NoVec,     \* the vector of a row that has none
  Decay,     \* Decay[age]: eighths of the score that are left, 8 for all if off
  Weights,   \* Weights[coll]: the weight of a collection, 3 tenths each
  MinScore,  \* MEMORY_MIN_SCORE, 0 by default
  TopK       \* how many hits are injected

ASSUME RetrievalAssumption ==
  /\ TopK \in Nat \ {0}
  /\ MinScore \in Nat
  /\ \A age \in DOMAIN Decay : Decay[age] \in 0..8
  /\ \A coll \in DOMAIN Weights : Weights[coll] \in Nat

K == 60                           \* rrfMerge's k
Unit == 61 * 62 * 63              \* a rank up to 3 divides it
Ones == (Unit * 80) \div 3        \* a score of 1, so scaled

contribution(rank) == Unit \div (K + rank)

SortedByScoreMutant(items) ==   \* the comparison is the wrong way round
  LET score == [i \in DOMAIN items |-> -items[i].score]
      order == ByScore(score, DOMAIN items)
  IN  SubSeq([n \in DOMAIN order |-> items[order[n]]], 1, Len(items))

(* Array.sort is stable: what scores the same keeps its order.  (SubSeq    *)
(* has TLC compute the sorted array once, and not at each use of it.)      *)
SortedByScore(items) ==
  LET score == [i \in DOMAIN items |-> items[i].score]
      order == ByScore(score, DOMAIN items)
  IN  SubSeq([n \in DOMAIN order |-> items[order[n]]], 1, Len(items))

Ranked(rows, source) == [i \in DOMAIN rows |-> [row |-> rows[i], rank |-> i, source |-> source]]

rrfMergeMutant(lists) ==   \* a hit of a second list is added, not merged
  LET hits == Joined(lists)
  IN  SortedByScore([i \in DOMAIN hits |-> [row |-> hits[i].row, score |-> contribution(hits[i].rank)]])

(* One item for each row that some list has found, in the order of its     *)
(* first hit, scored by the sum over its hits.                             *)
rrfMerge(lists) ==
  LET hits == Joined(lists)
      firsts == {i \in DOMAIN hits : \A j \in 1..(i - 1) : hits[j].row # hits[i].row}
      share == [i \in DOMAIN hits |-> contribution(hits[i].rank)]
      rrfScore(row) == MapThenSumSet(LAMBDA i : share[i], {i \in DOMAIN hits : hits[i].row = row})
      items == [i \in DOMAIN hits |-> [row |-> hits[i].row, score |-> rrfScore(hits[i].row)]]
  IN  SortedByScore(Kept(items, firsts))

applyCollectionWeights(items) ==
  SortedByScore([i \in DOMAIN items |-> [items[i] EXCEPT !.score = @ * Weights[items[i].row.coll]]])

applyRecencyDecay(items) ==
  SortedByScore([i \in DOMAIN items |-> [items[i] EXCEPT !.score = @ * Decay[items[i].row.age]]])

(* Vectors are as alike as they are equal; a row without one is like none. *)
cosineSimilarity(v, w) == IF v = w /\ v # NoVec THEN 1 ELSE 0

(* The first of the best of the items that are not selected, 7 parts       *)
(* relevance against 3 of likeness to what is.                             *)
NextBest(items, selected) ==
  LET remaining == DOMAIN items \ {selected[k] : k \in DOMAIN selected}
      likeness(i) == IF \E k \in DOMAIN selected :
                          cosineSimilarity(items[i].row.vec, items[selected[k]].row.vec) = 1
                     THEN 1 ELSE 0
      mmr == [i \in remaining |-> 7 * items[i].score - 3 * likeness(i) * Ones]
  IN  ByScore(mmr, remaining)[1]

mmrDiversify(items) ==
  IF Len(items) <= TopK THEN items
  ELSE LET selected[n \in 1..TopK] ==
             IF n = 1 THEN <<1>>
             ELSE Append(selected[n - 1], NextBest(items, selected[n - 1]))
       IN  [n \in 1..TopK |-> items[selected[TopK][n]]]

hybridRetrieve(lists) ==
  LET items == applyRecencyDecay(applyCollectionWeights(rrfMerge(lists)))
      floor == {i \in DOMAIN items : MinScore = 0 \/ items[i].score >= MinScore}
  IN  mmrDiversify(Kept(items, floor))
==============================================================================

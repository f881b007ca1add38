-------------------------------- MODULE Ranking --------------------------------
(***************************************************************************)
(* What the code's filter, flat and sort make of an array, in a form that  *)
(* can be reasoned about, which the libraries' operators cannot. Pure.     *)
(***************************************************************************)
EXTENDS Integers, Sequences, FiniteSets

(* Array.filter: the items at some of the places of a list, in its order.  *)
Kept(list, places) ==
  LET kept[n \in 0..Len(list)] ==
        IF n = 0 THEN <<>>
        ELSE IF n \in places THEN Append(kept[n - 1], list[n]) ELSE kept[n - 1]
  IN kept[Len(list)]

(* Array.flat: the lists one after the other.                              *)
Joined(lists) ==
  LET joined[n \in 0..Len(lists)] == IF n = 0 THEN <<>> ELSE joined[n - 1] \o lists[n]
  IN joined[Len(lists)]

(* Array.sort by a score: the places of a list, the best first.  It is     *)
(* stable: what scores the same keeps its order.                           *)
ByScore(score, places) ==
  LET ahead == [j \in places |->
                  {i \in places : score[i] > score[j] \/ (score[i] = score[j] /\ i < j)}]
  IN [n \in 1..Cardinality(places) |-> CHOOSE j \in places : Cardinality(ahead[j]) = n - 1]
================================================================================

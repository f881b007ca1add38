--------------------------- MODULE MCLongTermMemory ---------------------------
(***************************************************************************)
(* Instances of LongTermMemory for TLC: a fact that ann's agent may know   *)
(* from long ago, two of her messages in the mirror and one of bob's.      *)
(***************************************************************************)
EXTENDS LongTermMemory

CONSTANTS ann, bob, a1, here, there, w1, w2, r1

(* Two writes, or a write and a read.                                     *)
MCCasts == {{w1, w2}, {w1, r1}}
MCUsers == {ann, bob}
MCTexts == {"x", "X", "x ", "y", "so"}
MCSize == [t \in MCTexts |-> IF t = "so" THEN "short" ELSE "fits"]
MCLower == [t \in MCTexts |-> IF t = "X" THEN "x" ELSE t]
MCNorm == [t \in MCTexts |-> IF t \in {"X", "x "} THEN "x" ELSE t]
(* Nothing, and facts of which one is the same in other letters, one is    *)
(* too short and one more than MaxFacts.                                   *)
MCReplies == {<<>>, <<"X", "x", "so", "y", "x ">>}

MCOldFacts == {{}, {[coll |-> "facts", id |-> <<ann, a1, "x">>, user |-> ann, agent |-> a1,
                     vec |-> <<"voyage", "x">>, age |-> 1]}}

MCTurns == {[user |-> u, agent |-> a1] : u \in {ann, NoUser}}
Ask(u, query) == [user |-> u, agent |-> a1, session |-> here, query |-> query]
MCAsks == {Ask(ann, "words"), Ask(ann, "blank"), Ask(NoUser, "words")}

Message(n, u, s, role, vector) ==
  [coll |-> "chat_messages", id |-> <<u, s, n>>, user |-> u, session |-> s, role |-> role, vec |-> vector, age |-> 0]
MCMirror == {Message("1", ann, there, "assistant", <<"voyage", "x">>),
             Message("2", ann, here, "user", NoVec), Message("3", bob, there, "user", NoVec)}

MCDecay == [age \in 0..1 |-> IF age = 0 THEN 8 ELSE 3]
MCWeights == [coll \in Collections |-> IF coll = "facts" THEN 5 ELSE 4]
Yes == {TRUE}
(* Without the index nothing expires, as when the monitor does not come.  *)
MostFaults == {"extract", "connect", "embed", "upsert", "backup", "find"}
===============================================================================

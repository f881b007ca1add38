------------------------------ MODULE MCMcpClient ------------------------------
(***************************************************************************)
(* Instances of McpClient for TLC.                                         *)
(***************************************************************************)
EXTENDS McpClient

CONSTANTS ann, bob, boot, t1, t2, ops

MCUsers == {ann, bob}
MCPublic == {"products"}
MCIndexed == {"products", "chat_messages"}

MCCallers == {boot, t1, t2, ops}
MCToken == [c \in MCCallers |-> CASE c = boot -> "none" [] c = t1 -> "good" [] OTHER -> "old"]
MCUser == [c \in MCCallers |-> CASE c = t1 -> ann [] c = t2 -> bob [] OTHER -> NoUser]

Environment(gateway, override, dev) == [gateway |-> gateway, override |-> override, dev |-> dev]
MCEndpoints == {Environment(TRUE, FALSE, FALSE), Environment(FALSE, TRUE, FALSE)}

Name(bare) == [bare |-> bare, prefixed |-> TRUE]
MCListings == {{}, {Name("mongodb_query"), Name(Vector_), Name("mongodb_insert_many"), Name("mongodb_aggregate")},
               {Name(Vector_), [bare |-> Hybrid, prefixed |-> FALSE]}}

Plain(tool, coll, filter, docs, pipeline) ==
  [tool |-> tool,
   input |-> [collection |-> coll, filter |-> filter, documents |-> docs, pipeline |-> pipeline]]
Search(coll, words, vector, hybrid) ==
  [tool |-> Vector_,
   input |-> [collection |-> coll, index |-> FALSE, lexical |-> FALSE, words |-> words,
              vector |-> vector, hybrid |-> hybrid, filter |-> NoUser]]

(* A query for the documents of another, an insert on another's behalf, a  *)
(* pipeline, and searches that lack a collection, an index or words, bring *)
(* their own vector, have one made, or ask for the hybrid mode.            *)
MCRequests ==
  {Plain("mongodb_query", "chat_messages", bob, <<>>, NoUser),
   Plain("mongodb_query", "products", NoUser, <<>>, NoUser),
   Plain("mongodb_insert_many", "orders", NoUser, <<ann, NoUser>>, NoUser),
   Plain("mongodb_aggregate", "orders", NoUser, <<>>, NoUser),
   Search("", TRUE, FALSE, FALSE), Search("orders", TRUE, FALSE, TRUE),
   Search("products", FALSE, FALSE, FALSE), Search("products", FALSE, TRUE, FALSE),
   Search("chat_messages", TRUE, FALSE, FALSE), Search("chat_messages", TRUE, FALSE, TRUE)}

(* A turn that carries no token and two that do share the load of the      *)
(* tools; two turns call them; a turn and a probe share the connection.    *)
Cast(turns, probe, callers) ==
  [kind |-> [c \in MCCallers |-> IF c \in turns THEN "turn" ELSE IF c = ops THEN probe ELSE "absent"],
   calls |-> [c \in MCCallers |-> IF c \in callers THEN 1 ELSE 0]]
MCCasts == {Cast({boot, t1, t2}, "absent", {}), Cast({t1, t2}, "absent", {t1, t2}),
            Cast({boot, t2}, "probe", {t2}), Cast({t1, t2}, "deep", {t2})}

Result(shown, enveloped, traced) == [shown |-> shown, enveloped |-> enveloped, traced |-> traced]
MCResults == {Result(0, FALSE, 0), Result(2, FALSE, 0), Result(1, TRUE, 0), Result(0, TRUE, 1)}
================================================================================

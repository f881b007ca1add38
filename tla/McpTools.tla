------------------------------- MODULE McpTools -------------------------------
(***************************************************************************)
(* What a tool of the MongoDB MCP server is to an agent (adapters/         *)
(* mongodb-mcp-client.ts): the name it goes by, the arguments that are     *)
(* made of a vector search before it is sent, the user id that is put      *)
(* into every call, and the scores that are read from an answer.  Pure.    *)
(*                                                                         *)
(* A field that holds a user id is a user or NoUser; a document is known   *)
(* by its userId, a filter and the leading $match stage of a pipeline      *)
(* likewise, and a score by the call that earned it.                       *)
(***************************************************************************)
EXTENDS Embedding, Integers, Sequences

CONSTANTS
  Users, NoUser,
  Public,          \* MONGODB_PUBLIC_COLLECTIONS
  Indexed,         \* collections with a default index, of both kinds
  MaxTraceScores   \* MAX_TRACE_SCORES

-----------------------------------------------------------------------------
(* Names.  The gateway lists a tool under the name of its target, an agent *)
(* knows it without; the hybrid helper is no agent's to call.              *)

Vector_ == "mongodb_vector_search"
Hybrid == "mongodb_hybrid_search"
InternalOnly == {Hybrid}

(* A name in a listing: [bare, prefixed].                                  *)
stripGatewayTargetPrefix(name) == name.bare
isInternalOnlyMcpTool(name) == stripGatewayTargetPrefix(name) \in InternalOnly

(* AliasedMcpTool: exposed under one name, called under the other.  The    *)
(* wrapper of the vector search also holds the hybrid helper, if the       *)
(* server lists one.                                                       *)
AliasedMcpTool(raw, helpers) ==
  [name |-> stripGatewayTargetPrefix(raw), calls |-> raw, helpers |-> helpers]

wrapGatewayTool(raw, listing) ==
  AliasedMcpTool(raw, IF stripGatewayTargetPrefix(raw) = Vector_
                      THEN {t \in listing : stripGatewayTargetPrefix(t) = Hybrid} ELSE {})

Exposed(listing) ==
  {wrapGatewayTool(raw, listing) : raw \in {t \in listing : ~isInternalOnlyMcpTool(t)}}

-----------------------------------------------------------------------------
(* The user id in the arguments.  A collection everybody shares is left    *)
(* alone, and so is a pipeline that already begins with a $match on it.    *)

ReadFilterTools == {"mongodb_query", "mongodb_find", Vector_}
WriteFilterTools == {"mongodb_update_one", "mongodb_update_many", "mongodb_delete_one",
                     "mongodb_delete_many", "mongodb_replace_one"}
InsertTools == {"mongodb_insert_one", "mongodb_insert_many"}
FilterTools == ReadFilterTools \cup WriteFilterTools

injectUserIdIntoArgs(bare, args, user) ==
  IF args.collection \in Public THEN args
  ELSE [args EXCEPT
         !.filter = IF bare \in FilterTools THEN user ELSE @,
         !.documents = IF bare \in InsertTools THEN [i \in DOMAIN @ |-> user] ELSE @,
         !.pipeline = IF bare = "mongodb_aggregate" /\ @ = NoUser THEN user ELSE @]

(* wrappedCallTool: only when a user is in scope.                          *)
scopedArgs(bare, args, user) ==
  IF user = NoUser THEN args ELSE injectUserIdIntoArgs(bare, args, user)

-----------------------------------------------------------------------------
(* What becomes of the arguments of a vector search.  A collection may be  *)
(* missing, the index given or known; the hybrid mode needs words for its  *)
(* lexical leg, and the vector is the model's own or an embedding of the   *)
(* words.                                                                  *)

Unusable(input) ==
  CASE input.collection = "" -> "missing_collection"
    [] input.collection # "" /\ ~input.index /\ input.collection \notin Indexed -> "missing_index"
    [] input.collection # "" /\ (input.index \/ input.collection \in Indexed)
       /\ input.hybrid /\ ~input.lexical /\ input.collection \notin Indexed -> "missing_lexical_index"
    [] OTHER -> "no"

NeedsWords(input) == ~input.vector \/ input.hybrid
NeedsEmbedding(input) ==
  Unusable(input) = "no" /\ input.words /\ ~input.vector

VectorArgs(input, source) ==
  [ok |-> TRUE, source |-> source,
   target |-> IF input.hybrid THEN Hybrid ELSE Vector_,
   args |-> [collection |-> input.collection, filter |-> input.filter,
             documents |-> <<>>, pipeline |-> NoUser]]

transformVectorSearchArgs(input, embedded) ==
  CASE Unusable(input) # "no" -> Failure(Unusable(input))
    [] Unusable(input) = "no" /\ NeedsWords(input) /\ ~input.words -> Failure("missing_query")
    [] NeedsEmbedding(input) ->
         IF embedded.ok THEN VectorArgs(input, embedded.source) ELSE Failure(embedded.code)
    [] OTHER -> VectorArgs(input, "model_supplied")

-----------------------------------------------------------------------------
(* The scores in an answer: of its documents, of the sample documents in   *)
(* the trace the server packed in with it, and what the wrapper reports.   *)

Answer(shown, enveloped, traced) == [shown |-> shown, enveloped |-> enveloped, traced |-> traced]
ErrorResult == Answer(<<>>, FALSE, <<>>)

extractScoresFromResult(answer) == answer.shown

(* Set only by an envelope that carries a score, and then kept until the   *)
(* wrapper of some vector search takes it.                                 *)
extractAndReplayMcpTraces(answer, pending) ==
  CASE ~answer.enveloped -> pending
    [] answer.enveloped /\ answer.shown # <<>> -> answer.shown
    [] OTHER -> IF answer.traced # <<>> THEN answer.traced ELSE pending

FirstScores(scores) == SubSeq(scores, 1, IF Len(scores) < MaxTraceScores THEN Len(scores) ELSE MaxTraceScores)

ReportedScoresMutant(answer, pending) ==     \* what is pending goes first
  FirstScores(IF pending # <<>> THEN pending ELSE extractScoresFromResult(answer))

ReportedScores(answer, pending) ==
  FirstScores(IF extractScoresFromResult(answer) # <<>>
              THEN extractScoresFromResult(answer) ELSE pending)

(* takePendingMcpVectorScores: only when the answer has none of its own.   *)
PendingAfter(answer, pending) ==
  IF extractScoresFromResult(answer) # <<>> THEN pending ELSE <<>>
===============================================================================

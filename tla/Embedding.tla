------------------------------ MODULE Embedding ------------------------------
(***************************************************************************)
(* lib/embed-query.ts and the two adapters below it: what an attempt to    *)
(* embed an input gives, for a declared provider.  Pure: the answer of the *)
(* service is a parameter, and a vector is known by the space it lies in.  *)
(***************************************************************************)

Providers == {"voyage", "titan", "none"}
Inputs == {"blank", "text", "image", "both"}

(* A vector of the expected length, or any way not to get one: a thrown    *)
(* error or abort, a body that is no JSON, no rows, a malformed row, a     *)
(* vector of another length, a request that is too large.                  *)
Answers == {"vector", "other_length", "nothing"}

Sources == {"voyage", "bedrock"}
Vector(source) == [ok |-> TRUE, source |-> source]
Failure(code) == [ok |-> FALSE, code |-> code]
EmbedResult ==
  [ok : {TRUE}, source : Sources]
  \cup [ok : {FALSE}, code : {"no_provider_configured", "voyage_strict_failed",
                              "titan_strict_failed", "titan_no_multimodal"}]

hasImageSegment(input) == input \in {"image", "both"}

(* Only the Voyage adapter checks the length of the vector.                *)
voyageGenerateEmbedding(answer) == answer = "vector"
bedrockGenerateEmbedding(answer) == answer # "nothing"

embedVoyageStrict(ready, answer) ==
  IF ready /\ voyageGenerateEmbedding(answer)
  THEN Vector("voyage") ELSE Failure("voyage_strict_failed")

embedTitanStrict(ready, answer) ==
  IF ready /\ bedrockGenerateEmbedding(answer)
  THEN Vector("bedrock") ELSE Failure("titan_strict_failed")

(* The declared provider or nothing: there is no fallback to the other.    *)
embedWithInputType(provider, ready, input, answer) ==
  CASE input = "blank" -> Failure("no_provider_configured")
    [] input # "blank" /\ provider = "voyage" -> embedVoyageStrict(ready, answer)
    [] provider = "titan" /\ hasImageSegment(input) -> Failure("titan_no_multimodal")
    [] provider = "titan" /\ input = "text" -> embedTitanStrict(ready, answer)
    [] OTHER -> Failure("no_provider_configured")
==============================================================================

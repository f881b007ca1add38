---------------------------- MODULE LongTermMemory ----------------------------
(***************************************************************************)
(* What is remembered of a user beyond the session (lib/long-term-         *)
(* memory.ts): after a turn its message goes through the extractor         *)
(* (lib/llm-fact-extractor.ts), the facts are embedded and upserted into   *)
(* agent_memory_facts, or the turn goes to AgentCore's store when that     *)
(* fails; before a turn the facts and the mirrored chat messages are       *)
(* searched, by vector and by words, fused and ranked (Retrieval), with    *)
(* a read by keyword when the searches give nothing.                       *)
(*                                                                         *)
(* Any number of writes and reads interleave between their awaits.  The    *)
(* model, the embedders and the search indexes are external: they answer   *)
(* anything they may, fail, or never answer.                               *)
(***************************************************************************)
EXTENDS Retrieval, Embedding

CONSTANTS
  Writes, Reads,    \* the calls of writeLongTermMemory and of the reader
  Casts,            \* the sets of them that there may be; the others are absent
  Users, NoUser, Agents,
  Turns, Asks,      \* the turns that may be written, and what may be asked
  Texts,            \* texts the model may report as facts
  Size,             \* Size[x]: "short", "long" or "fits" (8 to 220 characters)
  Lower, Norm,      \* Lower[x]: in lower case; Norm[x]: as computeFactHash sees it
  MaxFacts,         \* MEMORY_EXTRACTION_MAX_FACTS
  Replies,          \* the fact lists the model may report
  OldFacts,         \* the facts that may be there at the start
  Mirror,           \* the rows of chat_messages
  FetchK,           \* MEMORY_FETCH_K: how many rows a search returns at most
  WithAssistant,    \* MEMORY_INCLUDE_ASSISTANT_MESSAGES
  Provider,         \* EMBEDDINGS_PROVIDER
  Databases,        \* whether MONGODB_URI may be set
  Stores,           \* whether AgentCore's memory store may be configured
  Faults            \* the operations that may fail

ASSUME MemoryAssumption ==
  /\ NoUser \notin Users
  /\ Turns \subseteq [user : Users \cup {NoUser}, agent : Agents]
  /\ \A ask \in Asks : ask.user \in Users \cup {NoUser} /\ ask.agent \in Agents
                       /\ ask.query \in {"blank", "words"}
  /\ Replies \subseteq Seq(Texts) /\ MaxFacts \in Nat
  /\ \A rows \in OldFacts : IsFiniteSet(rows) /\ \A row \in rows :
       row.coll = "facts" /\ row.user \in Users /\ row.age \in Nat /\ row.age \in DOMAIN Decay
  /\ IsFiniteSet(Mirror)
  /\ \A row \in Mirror : row.coll = "chat_messages" /\ row.age \in DOMAIN Decay
  /\ 0 \in DOMAIN Decay /\ {"facts", "chat_messages"} \subseteq DOMAIN Weights
  /\ Size \in [Texts -> {"short", "long", "fits"}]
  /\ Lower \in [Texts -> Texts] /\ Norm \in [Texts -> Texts]
  /\ Databases \subseteq BOOLEAN /\ Stores \subseteq BOOLEAN
  /\ FetchK \in Nat \ {0} /\ Provider \in Providers /\ WithAssistant \in BOOLEAN
  /\ Faults \subseteq {"extract", "connect", "index", "embed", "upsert", "backup", "find"}

VARIABLES
  database, store,  \* configuration: MONGODB_URI is set, there is a memory store
  facts,            \* the rows of agent_memory_facts
  ttlEnsured,       \* the guard of ensureTtlIndex
  ttlIndex,         \* the collection has its TTL index
  backup,           \* the writes that AgentCore's store holds
  wat,              \* wat[w]: where write w is
  turn,             \* turn[w]: its user and agent
  accepted,         \* accepted[w]: the facts it extracted
  vectors,          \* vectors[w]: their embeddings
  next,             \* next[w]: the operation of its bulk that comes next
  inserted,         \* inserted[w]: the operations that inserted a row
  broken,           \* broken[w]: an operation failed
  outcome,          \* outcome[w]: what it reports
  lapsed,           \* history: the facts of w that expired after w had stored or found them
  rat,              \* rat[r]: where read r is
  asks,             \* asks[r]: its user, agent, session and kind of query
  queryVector,      \* queryVector[r]: the query has been embedded
  legs,             \* legs[r]: what its searches answered so far
  lists,            \* lists[r]: the lists to fuse, in the order they came
  context,          \* context[r]: the rows that are injected, or <<>> for null
  had,              \* history: what its user had told its agent when r began
  missed            \* history: a find of r failed

writing == <<facts, ttlEnsured, ttlIndex, backup, wat, turn, accepted, vectors, next, inserted, broken, outcome,
             lapsed>>
reading == <<rat, asks, queryVector, legs, lists, context, had, missed>>
vars == <<database, store, writing, reading>>

-----------------------------------------------------------------------------
(* The rows.  computeFactHash is of the user, the agent and the text as    *)
(* normalised; the unique index is on the user and the hash.               *)

computeFactHash(u, a, x) == <<u, a, Norm[x]>>
Row(u, a, x, vector) ==
  [coll |-> "facts", id |-> computeFactHash(u, a, x), user |-> u, agent |-> a, vec |-> vector, age |-> 0]

FactsOf(rows, u, a) == {row \in rows : row.user = u /\ row.agent = a}

(* The reply's facts one after the other: too short, too long or reported  *)
(* before in other capitals are not accepted, and no more than MaxFacts.   *)
extractFactsWithLlm(reported) ==
  LET fitting == {i \in DOMAIN reported : Size[reported[i]] = "fits"}
      isNew(i) == \A j \in fitting : j < i => Lower[reported[j]] # Lower[reported[i]]
      firsts == {i \in fitting : isNew(i)}
      nth(n) == CHOOSE i \in firsts : Cardinality({j \in firsts : j < i}) = n - 1
      count == IF Cardinality(firsts) < MaxFacts THEN Cardinality(firsts) ELSE MaxFacts
  IN  [n \in 1..count |-> reported[nth(n)]]

embedDocumentText(answer) == embedWithInputType(Provider, TRUE, "text", answer)
ServiceAnswers == {"vector"} \cup (IF "embed" \in Faults THEN {"nothing"} ELSE {})
VectorOf(x, result) == IF result.ok THEN <<result.source, Norm[x]>> ELSE NoVec

-----------------------------------------------------------------------------
MemoryInit ==
  /\ database \in Databases /\ store \in Stores
  /\ facts \in OldFacts
  /\ ttlEnsured = FALSE /\ ttlIndex = FALSE
  /\ backup = {}
  /\ \E cast \in Casts :
       /\ wat = [w \in Writes |-> IF w \in cast THEN "idle" ELSE "absent"]
       /\ rat = [r \in Reads |-> IF r \in cast THEN "idle" ELSE "absent"]
  /\ turn = [w \in Writes |-> [user |-> NoUser, agent |-> CHOOSE a \in Agents : TRUE]]
  /\ accepted = [w \in Writes |-> <<>>]
  /\ vectors = [w \in Writes |-> <<>>]
  /\ next = [w \in Writes |-> 1]
  /\ inserted = [w \in Writes |-> 0]
  /\ broken = [w \in Writes |-> FALSE]
  /\ outcome = [w \in Writes |-> "none"]
  /\ lapsed = [w \in Writes |-> {}]
  /\ asks = [r \in Reads |-> [user |-> NoUser, query |-> "blank"]]
  /\ queryVector = [r \in Reads |-> FALSE]
  /\ legs = [r \in Reads |-> [l \in {} |-> <<>>]]
  /\ lists = [r \in Reads |-> <<>>]
  /\ context = [r \in Reads |-> <<>>]
  /\ had = [r \in Reads |-> {}]
  /\ missed = [r \in Reads |-> FALSE]

WTo(w, place) == wat' = [wat EXCEPT ![w] = place]
WEnd(w, how) == outcome' = [outcome EXCEPT ![w] = how] /\ WTo(w, "done")
(* A failed write goes to AgentCore's store, if there is one.              *)
WFail(w) ==
  IF store THEN WTo(w, "backing") /\ UNCHANGED outcome ELSE WEnd(w, "failed")

-----------------------------------------------------------------------------
(* writeLongTermMemory, off the turn's clock: the user is known and the    *)
(* reply is not empty, or the write is skipped.                            *)
writeLongTermMemory(w, t) ==
  /\ wat[w] = "idle"
  /\ turn' = [turn EXCEPT ![w] = t]
  /\ IF t.user = NoUser THEN WEnd(w, "skipped") ELSE WTo(w, "extracting") /\ UNCHANGED outcome
  /\ UNCHANGED <<database, store, facts, ttlEnsured, ttlIndex, backup, accepted, vectors, next,
                 inserted, broken, lapsed, reading>>

(* extractFactCandidates: a failure of the model skips the write.          *)
extractFactCandidates(w) ==
  /\ wat[w] = "extracting"
  /\ \/ \E reply \in Replies :
          /\ accepted' = [accepted EXCEPT ![w] = extractFactsWithLlm(reply)]
          /\ IF database THEN WTo(w, "connecting") /\ UNCHANGED outcome
             ELSE WEnd(w, "skipped")
     \/ "extract" \in Faults /\ WEnd(w, "skipped") /\ UNCHANGED accepted
  /\ UNCHANGED <<database, store, facts, ttlEnsured, ttlIndex, backup, turn, vectors, next,
                 inserted, broken, lapsed, reading>>

(* getMongoDb and ensureTtlIndex.  The index is tried once by a process,   *)
(* whether that succeeds or not.                                           *)
ensureTtlIndex(w) ==
  /\ wat[w] = "connecting"
  /\ \/ /\ ttlEnsured' = TRUE
        /\ IF ttlEnsured THEN UNCHANGED ttlIndex
           ELSE ttlIndex' \in {TRUE} \cup (IF "index" \in Faults THEN {ttlIndex} ELSE {})
        /\ IF accepted[w] = <<>> THEN WEnd(w, "skipped")
           ELSE WTo(w, "embedding") /\ UNCHANGED outcome
     \/ "connect" \in Faults /\ WFail(w) /\ UNCHANGED <<ttlEnsured, ttlIndex>>
  /\ UNCHANGED <<database, store, facts, backup, turn, accepted, vectors, next, inserted, broken, lapsed, reading>>

(* Each fact is embedded; one that cannot be is stored without a vector.   *)
EmbedFacts(w) ==
  /\ wat[w] = "embedding"
  /\ \E answers \in [DOMAIN accepted[w] -> ServiceAnswers] :
       vectors' = [vectors EXCEPT ![w] =
         [i \in DOMAIN accepted[w] |-> VectorOf(accepted[w][i], embedDocumentText(answers[i]))]]
  /\ WTo(w, "upserting")
  /\ UNCHANGED <<database, store, facts, ttlEnsured, ttlIndex, backup, turn, accepted, next,
                 inserted, broken, outcome, lapsed, reading>>

(* One operation of the unordered bulk: $setOnInsert under {userId,        *)
(* factHash}.  A failed one, applied or not, does not keep the others from *)
(* being applied.                                                          *)
Upsert(w) ==
  /\ wat[w] = "upserting" /\ next[w] <= Len(accepted[w])
  /\ next' = [next EXCEPT ![w] = @ + 1]
  /\ LET row == Row(turn[w].user, turn[w].agent, accepted[w][next[w]], vectors[w][next[w]])
         isNew == \A old \in facts : old.id # row.id
         applied == IF isNew THEN facts \cup {row} ELSE facts
     IN  \/ /\ facts' = applied
            /\ inserted' = [inserted EXCEPT ![w] = IF isNew THEN @ + 1 ELSE @]
            /\ UNCHANGED broken
         \/ /\ "upsert" \in Faults
            /\ facts' \in {facts, applied}
            /\ broken' = [broken EXCEPT ![w] = TRUE]
            /\ UNCHANGED inserted
  /\ UNCHANGED <<database, store, ttlEnsured, ttlIndex, backup, wat, turn, accepted, vectors, outcome, lapsed, reading>>

BulkEndsMutant(w) ==   \* the error of an operation is not looked at
  /\ wat[w] = "upserting" /\ next[w] > Len(accepted[w])
  /\ WEnd(w, "persisted")
  /\ UNCHANGED <<database, store, facts, ttlEnsured, ttlIndex, backup, turn, accepted, vectors, next,
                 inserted, broken, lapsed, reading>>

(* One failed operation fails the bulk: nothing is reported as inserted.   *)
BulkEnds(w) ==
  /\ wat[w] = "upserting" /\ next[w] > Len(accepted[w])
  /\ IF broken[w] THEN WFail(w) /\ inserted' = [inserted EXCEPT ![w] = 0]
     ELSE WEnd(w, "persisted") /\ UNCHANGED inserted
  /\ vectors' = [vectors EXCEPT ![w] = <<>>]   \* the bulk is over
  /\ UNCHANGED <<database, store, facts, ttlEnsured, ttlIndex, backup, turn, accepted, next,
                 broken, lapsed, reading>>

(* agentcoreWrite: the turn as one event.  Its failure is logged.          *)
agentcoreWrite(w) ==
  /\ wat[w] = "backing"
  /\ \/ backup' = backup \cup {w}
     \/ "backup" \in Faults /\ UNCHANGED backup
  /\ WEnd(w, "failed")
  /\ UNCHANGED <<database, store, facts, ttlEnsured, ttlIndex, turn, accepted, vectors, next,
                 inserted, broken, lapsed, reading>>

(* MongoDB's TTL monitor removes a row whose time has come.                *)
HashOf(w, i) == computeFactHash(turn[w].user, turn[w].agent, accepted[w][i])
Expire(row) ==
  /\ ttlIndex /\ row \in facts /\ row.age > 0
  /\ facts' = facts \ {row}
  /\ lapsed' = [w \in Writes |->
       lapsed[w] \cup {i \in DOMAIN accepted[w] : i < next[w] /\ HashOf(w, i) = row.id}]
  /\ UNCHANGED <<database, store, ttlEnsured, ttlIndex, backup, wat, turn, accepted, vectors, next,
                 inserted, broken, outcome, reading>>

-----------------------------------------------------------------------------
(* readLongTermMemoryContext, on the turn's clock.                         *)

RTo(r, place) == rat' = [rat EXCEPT ![r] = place]
Idle == UNCHANGED <<database, store, writing>>

(* Nothing is read without a user or words; without MONGODB_URI, nothing   *)
(* can be.                                                                 *)
readLongTermMemoryContext(r, ask) ==
  /\ rat[r] = "idle"
  /\ asks' = [asks EXCEPT ![r] = ask]
  /\ had' = [had EXCEPT ![r] = FactsOf(facts, ask.user, ask.agent)]
  /\ RTo(r, IF ask.user = NoUser \/ ask.query = "blank" \/ ~database THEN "ended" ELSE "connecting")
  /\ Idle /\ UNCHANGED <<queryVector, legs, lists, context, missed>>

(* getMongoDb rejects when it cannot connect, and so does the read, and    *)
(* the turn with it: this await is outside of every try.                   *)
Connect(r) ==
  /\ rat[r] = "connecting"
  /\ \/ RTo(r, "embedding")
     \/ "connect" \in Faults /\ RTo(r, "threw")
  /\ Idle /\ UNCHANGED <<asks, queryVector, legs, lists, context, had, missed>>

(* embedQueryText, which a timer aborts: without a vector the words are    *)
(* searched alone.                                                         *)
EmbedQuery(r, answer) ==
  /\ rat[r] = "embedding"
  /\ queryVector' = [queryVector EXCEPT ![r] = embedWithInputType(Provider, TRUE, "text", answer).ok]
  /\ RTo(r, "searching")
  /\ Idle /\ UNCHANGED <<asks, legs, lists, context, had, missed>>

Collections == {"facts", "chat_messages"}
Legs(r) == Collections \X (IF queryVector[r] THEN {"vector", "lexical"} ELSE {"lexical"})

(* What a search may return: rows of the user, and those with a vector if  *)
(* it goes by vectors.                                                     *)
Candidates(r, leg) ==
  {row \in (IF leg[1] = "facts" THEN facts
            ELSE {m \in Mirror : WithAssistant \/ m.role = "user"}) :
     /\ row.user = asks[r].user
     /\ leg[2] = "vector" => row.vec # NoVec}

(* A search settles; the lists of a collection are added when both of its  *)
(* searches have, the one by vectors first, an empty one not at all.       *)
Settle(r, leg, rows) ==
  LET answers == [l \in DOMAIN legs[r] \cup {leg} |->
                    IF l = leg THEN Ranked(rows, leg[2]) ELSE legs[r][l]]
      together == [i \in 1..2 |-> LET l == <<leg[1], <<"vector", "lexical">>[i]>>
                                  IN  IF l \in DOMAIN answers THEN answers[l] ELSE <<>>]
      complete == \A l \in Legs(r) : l[1] = leg[1] => l \in DOMAIN answers
  IN  /\ rat[r] = "searching" /\ leg \in Legs(r) \ DOMAIN legs[r]
      /\ legs' = [legs EXCEPT ![r] = answers]
      /\ lists' = [lists EXCEPT ![r] =
           IF complete THEN @ \o Kept(together, {i \in 1..2 : together[i] # <<>>}) ELSE @]
      /\ Idle /\ UNCHANGED <<rat, asks, queryVector, context, had, missed>>

SearchAnswers(r, leg) ==
  \E rows \in UNION {SetToSeqs(found) : found \in
                 {f \in SUBSET Candidates(r, leg) : f # {} /\ Cardinality(f) <= FetchK}} :
    Settle(r, leg, rows)

SearchTimesOutMutant(r, leg) == FALSE   \* an aggregation is waited for

(* aggregateTimeoutOptions: a search that fails, or is aborted after       *)
(* MEMORY_SEARCH_MAX_TIME_MS, has found nothing.                           *)
SearchTimesOut(r, leg) == Settle(r, leg, <<>>)

RowsOf(items) == [i \in DOMAIN items |-> items[i].row]
OfThisSession(r, row) == row.coll = "chat_messages" /\ row.session = asks[r].session

(* The hits are ranked and cut to TopK, and then what was said in this     *)
(* session is left out; if that leaves none, the facts are read by         *)
(* keyword.                                                                *)
Promptable(r) ==
  LET rows == RowsOf(hybridRetrieve(lists[r]))
  IN  Kept(rows, {i \in DOMAIN rows : ~OfThisSession(r, rows[i])})
Settled(r) == rat[r] = "searching" /\ DOMAIN legs[r] = Legs(r)
Rank(r) ==
  /\ Settled(r)
  /\ \E rows \in {Promptable(r)} :
       /\ context' = [context EXCEPT ![r] = rows]
       /\ RTo(r, IF rows = <<>> THEN "keyword" ELSE "ended")
  /\ legs' = [legs EXCEPT ![r] = [l \in {} |-> <<>>]]   \* the searches are over
  /\ lists' = [lists EXCEPT ![r] = <<>>]
  /\ queryVector' = [queryVector EXCEPT ![r] = FALSE]
  /\ Idle /\ UNCHANGED <<asks, had, missed>>

(* find().sort({ts: -1}).limit(TopK) over some rows.                       *)
Newest(rows) ==
  {SubSeq(s, 1, IF Len(s) < TopK THEN Len(s) ELSE TopK) :
     s \in {t \in SetToSeqs(rows) : \A i, j \in DOMAIN t : i < j => t[i].age <= t[j].age}}

FindFails(r) ==
  /\ "find" \in Faults /\ rat[r] \in {"keyword", "recent"}
  /\ missed' = [missed EXCEPT ![r] = TRUE]
  /\ RTo(r, "ended")
  /\ Idle /\ UNCHANGED <<asks, queryVector, legs, lists, context, had>>

FindByKeywordMutant(r) ==   \* no keyword hits, no context
  /\ rat[r] = "keyword"
  /\ \E matches \in SUBSET FactsOf(facts, asks[r].user, asks[r].agent) : \E rows \in Newest(matches) :
       context' = [context EXCEPT ![r] = rows]
  /\ RTo(r, "ended")
  /\ Idle /\ UNCHANGED <<asks, queryVector, legs, lists, had, missed>>

(* fallbackReadFactsByKeyword: this agent's facts that hold a keyword, or  *)
(* all of them if the query is made of stop words ...                      *)
FindByKeyword(r) ==
  LET known == FactsOf(facts, asks[r].user, asks[r].agent)
  IN  /\ rat[r] = "keyword"
      /\ \E hasKeywords \in BOOLEAN :
         \E matches \in (IF hasKeywords THEN SUBSET known ELSE {known}) : \E rows \in Newest(matches) :
           /\ context' = [context EXCEPT ![r] = rows]
           /\ RTo(r, IF rows = <<>> /\ hasKeywords THEN "recent" ELSE "ended")
      /\ Idle /\ UNCHANGED <<asks, queryVector, legs, lists, had, missed>>

(* ... and its newest facts if none does.                                  *)
FindRecent(r) ==
  /\ rat[r] = "recent"
  /\ \E rows \in Newest(FactsOf(facts, asks[r].user, asks[r].agent)) :
       context' = [context EXCEPT ![r] = rows]
  /\ RTo(r, "ended")
  /\ Idle /\ UNCHANGED <<asks, queryVector, legs, lists, had, missed>>

-----------------------------------------------------------------------------
Write(w) ==
  \/ \E t \in Turns : writeLongTermMemory(w, t)
  \/ extractFactCandidates(w) \/ ensureTtlIndex(w) \/ EmbedFacts(w)
  \/ Upsert(w) \/ BulkEnds(w) \/ agentcoreWrite(w)

Read(r) ==
  \/ \E ask \in Asks : readLongTermMemoryContext(r, ask)
  \/ Connect(r) \/ \E answer \in Answers : EmbedQuery(r, answer)
  \/ \E leg \in Legs(r) : SearchAnswers(r, leg) \/ SearchTimesOut(r, leg)
  \/ Rank(r) \/ FindByKeyword(r) \/ FindRecent(r) \/ FindFails(r)

MemoryNext ==
  \/ \E w \in Writes : Write(w)
  \/ \E r \in Reads : Read(r)
  \/ \E row \in facts : Expire(row)

(* The timers fire, and the driver connects or fails to.  Nothing is asked *)
(* of the embedder or of the searches, nor of the writes.                  *)
ReadGoesOn(r) ==
  /\ WF_vars(Connect(r)) /\ WF_vars(EmbedQuery(r, "nothing"))
  /\ \A leg \in Collections \X {"vector", "lexical"} : WF_vars(SearchTimesOut(r, leg))

MemorySpec == MemoryInit /\ [][MemoryNext]_vars /\ \A r \in Reads : ReadGoesOn(r)
-----------------------------------------------------------------------------
(* Properties *)

(* "Per-user isolation by construction": whatever searches failed and      *)
(* whichever path was taken, what is injected is the asking user's, is not *)
(* of the session that is asked in, and is injected once and at most TopK. *)
RecallsOwnOnce ==
  \A r \in Reads :
    /\ Len(context[r]) <= TopK
    /\ \A i, j \in DOMAIN context[r] : i # j => context[r][i] # context[r][j]
    /\ \A i \in DOMAIN context[r] :
         context[r][i].user = asks[r].user /\ ~OfThisSession(r, context[r][i])

(* A row is ahead of another of its collection and age if it is ahead of   *)
(* it in every list that has the other.                                    *)
Place(list, row) == CHOOSE i \in DOMAIN list : list[i].row = row
Has(list, row) == \E i \in DOMAIN list : list[i].row = row
Dominates(r, better, row) ==
  /\ better # row /\ better.coll = row.coll /\ better.age = row.age
  /\ \A n \in DOMAIN lists[r] : Has(lists[r][n], row) =>
       Has(lists[r][n], better) /\ Place(lists[r][n], better) < Place(lists[r][n], row)

(* Fusion, weights, decay and diversification keep what the searches agree *)
(* on: where nothing of this session was found, the hit that is injected   *)
(* first is none that another of its collection and age is ahead of in     *)
(* every list.                                                             *)
BestFirst ==
  [][\A r \in Reads :
       LET found == UNION {{lists[r][n][i].row : i \in DOMAIN lists[r][n]} : n \in DOMAIN lists[r]}
       IN  rat[r] = "searching" /\ rat'[r] = "ended" /\ (\A row \in found : ~OfThisSession(r, row))
           => \A better \in found : ~Dominates(r, better, context'[r][1])]_vars

(* "This preserves recall during Atlas index build/outage windows": while  *)
(* the database answers finds, a user whose facts this agent knows gets    *)
(* some context, whatever becomes of the embedder and the searches.  This  *)
(* is the comment at long-term-memory.ts:1005-1007 and the code; the one   *)
(* at 1029-1030 (no context when the query cannot be embedded and the      *)
(* lexical search finds nothing) and docs/long-term-memory-design.md:366   *)
(* (none when all four searches fail) say the opposite of this very case.  *)
OutageStillRecalls ==
  \A r \in Reads :
    rat[r] = "ended" /\ database /\ asks[r].query # "blank" /\ ~missed[r] /\ had[r] \cap facts # {}
    => context[r] # <<>>

(* What is reported is there: a write that says `persisted` has a row for  *)
(* each of its facts, its own or one of the same text that it found,       *)
(* unless its time came after that: not one that had expired before, or    *)
(* that an operation which failed did not store, whatever other writes and *)
(* the TTL monitor do in between.                                          *)
PersistedIsStored ==
  \A w \in Writes : outcome[w] = "persisted" =>
    \A i \in DOMAIN accepted[w] : i \in lapsed[w] \/ \E row \in facts : row.id = HashOf(w, i)

(* "So LTM recall never blocks the chat turn": what a read waits for ends  *)
(* although the embedder and the searches need not answer.                 *)
Waiting(r) == rat[r] \in {"connecting", "embedding", "searching"} /\ ~Settled(r)
WaitsEnd == \A r \in Reads : Waiting(r) ~> ~Waiting(r)

==============================================================================

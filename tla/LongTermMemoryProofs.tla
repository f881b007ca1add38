------------------------- MODULE LongTermMemoryProofs -------------------------
(***************************************************************************)
(* A write that is reported as persisted has stored its facts; a read      *)
(* whose searches give nothing recalls what its user had told its agent;   *)
(* what is injected is its user's, each once, and the best first: for any  *)
(* number of writes and reads, users, facts, rows, lists and failures.     *)
(***************************************************************************)
EXTENDS LongTermMemory, RankingProofs, FiniteSetTheorems, SequenceTheorems, TLAPS

(* Every row belongs to a known user, and only one of the start ages.      *)
Rows ==
  /\ IsFiniteSet(facts)
  /\ \A row \in facts : row.user \in Users /\ row.age \in Nat
                        /\ (row.age > 0 => row \in UNION OldFacts)

(* The i-th fact of w has a row, or had one until its time came.           *)
Held(w, i) == i \in lapsed[w] \/ \E row \in facts : row.id = HashOf(w, i)
IsSeq(s) == DOMAIN s = 1..Len(s) /\ Len(s) \in Nat

Unstarted == {"idle", "extracting", "connecting", "embedding"}
Working == {"extracting", "connecting", "embedding", "upserting", "backing"}

Shape ==
  /\ wat \in [Writes -> Working \cup {"idle", "done", "absent"}]
  /\ DOMAIN turn = Writes /\ DOMAIN accepted = Writes
  /\ next \in [Writes -> Nat] /\ broken \in [Writes -> BOOLEAN]
  /\ outcome \in [Writes -> {"none", "skipped", "failed", "persisted"}]

(* The operations of a bulk are done in turn; as long as none has failed,  *)
(* each that is done holds its fact.                                       *)
Writing(w) ==
  /\ wat[w] \in Working => turn[w].user \in Users
  /\ IsSeq(accepted[w])
  /\ wat[w] \in Unstarted => next[w] = 1
  /\ outcome[w] = "persisted" => wat[w] = "done" /\ ~broken[w] /\ next[w] > Len(accepted[w])
  /\ ~broken[w] => \A i \in DOMAIN accepted[w] : i < next[w] => Held(w, i)

WInv == Rows /\ Shape /\ \A w \in Writes : Writing(w)

-----------------------------------------------------------------------------
(* What a step may do to the rows: add one that is new, drop one that was  *)
(* there at the start.                                                     *)
RowsMove ==
  /\ \A row \in facts' \ facts : row.age = 0
  /\ \A row \in facts \ facts' : row.age > 0

(* The facts the extractor accepts are a sequence. *)
LEMMA AcceptsSequence ==
  ASSUME NEW reported \in Replies
  PROVE  IsSeq(extractFactsWithLlm(reported))
<1> DEFINE fitting == {i \in DOMAIN reported : Size[reported[i]] = "fits"}
           isNew(i) == \A j \in fitting : j < i => Lower[reported[j]] # Lower[reported[i]]
           firsts == {i \in fitting : isNew(i)}
           nth(n) == CHOOSE i \in firsts : Cardinality({j \in firsts : j < i}) = n - 1
           count == IF Cardinality(firsts) < MaxFacts THEN Cardinality(firsts) ELSE MaxFacts
           T == {reported[nth(n)] : n \in 1..count}
           s == [n \in 1..count |-> reported[nth(n)]]
<1>1. extractFactsWithLlm(reported) = s
  BY DEF extractFactsWithLlm
<1>2. count \in Nat
  <2>1. firsts \subseteq 1..Len(reported) /\ Len(reported) \in Nat
    BY MemoryAssumption
  <2>2. IsFiniteSet(1..Len(reported))
    BY <2>1, FS_Interval
  <2> HIDE DEF firsts
  <2>3. IsFiniteSet(firsts)
    BY <2>1, <2>2, FS_Subset
  <2> QED BY <2>3, FS_CardinalityType, MemoryAssumption
<1> HIDE DEF count, nth
<1>3. s \in [1..count -> T]
  OBVIOUS
<1> HIDE DEF s, T
<1>4. s \in Seq(T)
  BY <1>2, <1>3, SeqDef
<1> QED BY <1>1, <1>4, LenProperties DEF IsSeq

(* A step that removes no row and one that lets a row expire: what a write *)
(* holds it goes on holding.                                               *)
Adds == facts \subseteq facts' /\ UNCHANGED lapsed
Lapses ==
  \E row \in facts :
    /\ facts' = facts \ {row}
    /\ lapsed' = [w \in Writes |->
         lapsed[w] \cup {i \in DOMAIN accepted[w] : i < next[w] /\ HashOf(w, i) = row.id}]

(* A write that a step leaves alone keeps what it holds. *)
LEMMA WriteElsewhere ==
  ASSUME WInv, Adds \/ Lapses, NEW w \in Writes,
         wat'[w] = wat[w], turn'[w] = turn[w], accepted'[w] = accepted[w], next'[w] = next[w],
         broken'[w] = broken[w], outcome'[w] = outcome[w]
  PROVE  Writing(w)'
<1>1. ASSUME NEW i \in DOMAIN accepted[w], i < next[w], Held(w, i) PROVE Held(w, i)'
  <2>1. HashOf(w, i)' = HashOf(w, i)
    BY DEF HashOf, computeFactHash
  <2>2. CASE Adds
    BY <1>1, <2>1, <2>2 DEF Adds, Held
  <2>3. CASE Lapses
    BY <1>1, <2>1, <2>3 DEF Lapses, Held
  <2> QED BY <2>2, <2>3
<1> QED BY <1>1 DEF WInv, Writing

(* A step that keeps the rows, and of the writes changes one that stays as *)
(* its place wants it.                                                     *)
LEMMA WriteStage ==
  ASSUME WInv, NEW w \in Writes, UNCHANGED <<facts, lapsed, next, broken>>, Shape',
         \A v \in Writes \ {w} : /\ wat'[v] = wat[v] /\ turn'[v] = turn[v]
                                 /\ accepted'[v] = accepted[v] /\ outcome'[v] = outcome[v],
         wat'[w] \in Working => turn'[w].user \in Users,
         wat'[w] \in Unstarted => wat[w] \in Unstarted,
         UNCHANGED <<turn, accepted>> \/ wat[w] \in Unstarted,
         IsSeq(accepted'[w]),
         outcome'[w] # "persisted"
  PROVE  WInv'
<1>1. Rows' /\ Adds
  BY DEF WInv, Rows, Adds
<1>2. ASSUME NEW v \in Writes \ {w} PROVE Writing(v)'
  BY <1>1, <1>2, WriteElsewhere
<1>3. Writing(w)'
  <2>1. Writing(w)
    BY DEF WInv
  <2>2. CASE UNCHANGED <<turn, accepted>>
    BY <2>1, <2>2 DEF Writing, Held, HashOf, computeFactHash
  <2>3. CASE wat[w] \in Unstarted
    <3>1. next'[w] = 1 /\ \A i \in DOMAIN accepted'[w] : ~(i < 1)
      BY <2>1, <2>3 DEF Writing, IsSeq
    <3> QED BY <3>1 DEF Writing
  <2> QED BY <2>2, <2>3
<1> QED BY <1>1, <1>2, <1>3 DEF WInv

(* The steps before and after the bulk store nothing. *)
LEMMA StageStep ==
  ASSUME WInv, NEW w \in Writes,
         \/ \E t \in Turns : writeLongTermMemory(w, t)
         \/ extractFactCandidates(w) \/ ensureTtlIndex(w) \/ EmbedFacts(w) \/ agentcoreWrite(w)
  PROVE  WInv'
<1>0. Shape /\ Writing(w)
  BY DEF WInv
<1>1. ASSUME NEW t \in Turns, writeLongTermMemory(w, t) PROVE WInv'
  <2>1. t.user \in Users \cup {NoUser}
    BY MemoryAssumption
  <2>2. /\ wat[w] = "idle" /\ UNCHANGED <<facts, lapsed, accepted, next, broken>>
        /\ turn' = [turn EXCEPT ![w] = t]
        /\ \/ /\ t.user = NoUser /\ wat' = [wat EXCEPT ![w] = "done"]
              /\ outcome' = [outcome EXCEPT ![w] = "skipped"]
           \/ /\ t.user # NoUser /\ wat' = [wat EXCEPT ![w] = "extracting"]
              /\ UNCHANGED outcome
    BY <1>1 DEF writeLongTermMemory, WEnd, WTo
  <2>3. Shape'
    BY <1>0, <2>2 DEF Shape, Working
  <2>4. /\ \A v \in Writes \ {w} : /\ wat'[v] = wat[v] /\ turn'[v] = turn[v]
                                   /\ accepted'[v] = accepted[v] /\ outcome'[v] = outcome[v]
        /\ wat'[w] \in Working => turn'[w].user \in Users
        /\ wat[w] \in Unstarted /\ IsSeq(accepted'[w]) /\ outcome'[w] # "persisted"
    BY <1>0, <2>1, <2>2 DEF Shape, Writing, Working, Unstarted
  <2> QED BY <2>2, <2>3, <2>4, WriteStage
<1>2. ASSUME extractFactCandidates(w) PROVE WInv'
  <2>1. /\ wat[w] = "extracting" /\ UNCHANGED <<facts, lapsed, turn, next, broken>>
        /\ \/ UNCHANGED accepted
           \/ \E reply \in Replies : accepted' = [accepted EXCEPT ![w] = extractFactsWithLlm(reply)]
        /\ \/ wat' = [wat EXCEPT ![w] = "connecting"] /\ UNCHANGED outcome
           \/ wat' = [wat EXCEPT ![w] = "done"] /\ outcome' = [outcome EXCEPT ![w] = "skipped"]
    BY <1>2 DEF extractFactCandidates, WEnd, WTo
  <2>2. IsSeq(accepted'[w])
    BY <1>0, <2>1, AcceptsSequence DEF Shape, Writing
  <2>3. Shape'
    BY <1>0, <2>1 DEF Shape, Working
  <2>4. /\ \A v \in Writes \ {w} : /\ wat'[v] = wat[v] /\ turn'[v] = turn[v]
                                   /\ accepted'[v] = accepted[v] /\ outcome'[v] = outcome[v]
        /\ wat'[w] \in Working => turn'[w].user \in Users
        /\ wat[w] \in Unstarted /\ outcome'[w] # "persisted"
    BY <1>0, <2>1 DEF Shape, Writing, Working, Unstarted
  <2> QED BY <2>1, <2>2, <2>3, <2>4, WriteStage
<1>3. ASSUME ensureTtlIndex(w) \/ EmbedFacts(w) \/ agentcoreWrite(w) PROVE WInv'
  <2>1. /\ wat[w] \in Working /\ UNCHANGED <<facts, lapsed, turn, accepted, next, broken>>
        /\ \/ /\ wat[w] = "connecting" /\ wat' = [wat EXCEPT ![w] = "embedding"]
              /\ UNCHANGED outcome
           \/ \E place \in {"upserting", "backing"} :
                wat' = [wat EXCEPT ![w] = place] /\ UNCHANGED outcome
           \/ \E how \in {"skipped", "failed"} :
                wat' = [wat EXCEPT ![w] = "done"] /\ outcome' = [outcome EXCEPT ![w] = how]
    BY <1>3 DEF ensureTtlIndex, EmbedFacts, agentcoreWrite, WFail, WEnd, WTo, Working
  <2>2. Shape'
    BY <1>0, <2>1 DEF Shape, Working
  <2>3. /\ \A v \in Writes \ {w} : /\ wat'[v] = wat[v] /\ turn'[v] = turn[v]
                                   /\ accepted'[v] = accepted[v] /\ outcome'[v] = outcome[v]
        /\ wat'[w] \in Working => turn'[w].user \in Users
        /\ wat'[w] \in Unstarted => wat[w] \in Unstarted
        /\ IsSeq(accepted'[w]) /\ outcome'[w] # "persisted"
    BY <1>0, <2>1 DEF Shape, Writing, Working, Unstarted
  <2> QED BY <2>1, <2>2, <2>3, WriteStage
<1> QED BY <1>1, <1>2, <1>3

(* An operation that does not fail leaves a row of its text. *)
LEMMA UpsertStep ==
  ASSUME WInv, NEW w \in Writes, Upsert(w)
  PROVE  WInv' /\ RowsMove
<1> DEFINE n == next[w]
           id == computeFactHash(turn[w].user, turn[w].agent, accepted[w][n])
           row == Row(turn[w].user, turn[w].agent, accepted[w][n], vectors[w][n])
<1>0. Shape /\ Rows /\ Writing(w)
  BY DEF WInv
<1>1. /\ wat[w] = "upserting" /\ n <= Len(accepted[w]) /\ next' = [next EXCEPT ![w] = n + 1]
      /\ UNCHANGED <<wat, turn, accepted, outcome, lapsed>>
      /\ facts' \in {facts, facts \cup {row}}
      /\ \/ UNCHANGED broken /\ (facts' = facts \cup {row} \/ \E old \in facts : old.id = row.id)
         \/ broken' = [broken EXCEPT ![w] = TRUE]
  BY DEF Upsert
<1>2. row.id = id /\ row.age = 0 /\ row.user \in Users
  BY <1>0, <1>1 DEF Row, Writing, Working
<1> HIDE DEF row, id
<1>3. RowsMove /\ Adds
  BY <1>1, <1>2 DEF RowsMove, Adds
<1>4. Rows'
  BY <1>0, <1>1, <1>2, FS_AddElement DEF Rows
<1>5. Shape'
  <2>1. n \in Nat /\ n + 1 \in Nat
    BY <1>0 DEF Shape
  <2>2. next' \in [Writes -> Nat]
    BY <1>0, <1>1, <2>1 DEF Shape
  <2>3. broken' \in [Writes -> BOOLEAN]
    BY <1>0, <1>1 DEF Shape
  <2> QED BY <1>0, <1>1, <2>2, <2>3 DEF Shape
<1>6. ASSUME NEW v \in Writes \ {w} PROVE Writing(v)'
  BY <1>0, <1>1, <1>3, <1>6, WriteElsewhere DEF Shape
<1>7. Writing(w)'
  <2>1. wat'[w] = "upserting" /\ outcome'[w] # "persisted" /\ next'[w] = n + 1 /\ n \in Nat
    BY <1>0, <1>1 DEF Writing, Shape
  <2>2. ASSUME ~broken'[w] PROVE ~broken[w] /\ \E found \in facts' : found.id = id
    <3>1. ~broken[w] /\ (facts' = facts \cup {row} \/ \E old \in facts : old.id = row.id)
      BY <1>0, <1>1, <2>2 DEF Shape
    <3> QED BY <1>1, <1>2, <3>1
  <2>3. \A i : HashOf(w, i)' = HashOf(w, i)
    BY <1>1 DEF HashOf, computeFactHash
  <2>4. ASSUME ~broken'[w], NEW i \in DOMAIN accepted[w], i < n + 1
        PROVE  Held(w, i)'
    <3>1. i \in Nat /\ (i = n \/ i < n)
      BY <1>0, <2>1, <2>4 DEF Writing, IsSeq
    <3>2. CASE i = n
      <4>1. HashOf(w, i) = id
        BY <3>2 DEF id, HashOf
      <4> QED BY <2>2, <2>3, <2>4, <4>1 DEF Held
    <3>3. CASE i < n
      <4>1. Held(w, i)
        BY <1>0, <2>2, <2>4, <3>3 DEF Writing
      <4> QED BY <1>3, <2>3, <4>1 DEF Held, Adds
    <3> QED BY <3>1, <3>2, <3>3
  <2> QED BY <1>0, <1>1, <2>1, <2>4 DEF Writing, Unstarted, Working
<1> QED BY <1>3, <1>4, <1>5, <1>6, <1>7 DEF WInv

(* A bulk is reported as persisted if all its operations are done and none *)
(* has failed.                                                             *)
LEMMA BulkEndsStep ==
  ASSUME WInv, NEW w \in Writes, BulkEnds(w)
  PROVE  WInv'
<1>0. Shape /\ Rows /\ Writing(w)
  BY DEF WInv
<1>1. /\ wat[w] = "upserting" /\ next[w] > Len(accepted[w])
      /\ UNCHANGED <<facts, lapsed, turn, accepted, next, broken>>
      /\ \/ wat' = [wat EXCEPT ![w] = "backing"] /\ UNCHANGED outcome
         \/ wat' = [wat EXCEPT ![w] = "done"] /\ outcome' = [outcome EXCEPT ![w] = "failed"]
         \/ /\ ~broken[w] /\ wat' = [wat EXCEPT ![w] = "done"]
            /\ outcome' = [outcome EXCEPT ![w] = "persisted"]
  BY DEF BulkEnds, WFail, WEnd, WTo
<1>2. Rows' /\ Adds /\ Shape'
  BY <1>0, <1>1 DEF Rows, Adds, Shape, Working
<1>3. ASSUME NEW v \in Writes \ {w} PROVE Writing(v)'
  BY <1>0, <1>1, <1>2, <1>3, WriteElsewhere DEF Shape
<1>4. Writing(w)'
  <2>1. wat'[w] \in {"backing", "done"}
        /\ (outcome'[w] = "persisted" => wat'[w] = "done" /\ ~broken[w])
    BY <1>0, <1>1 DEF Shape, Writing
  <2>2. turn[w].user \in Users
    BY <1>0, <1>1 DEF Writing, Working
  <2> QED BY <1>0, <1>1, <2>1, <2>2 DEF Writing, Unstarted, Held, HashOf, computeFactHash
<1> QED BY <1>2, <1>3, <1>4 DEF WInv

(* What the monitor takes is old, and whoever held it has seen it lapse. *)
LEMMA ExpireStep ==
  ASSUME WInv, NEW row \in facts, Expire(row)
  PROVE  WInv' /\ RowsMove
<1>1. /\ row.age > 0 /\ facts' = facts \ {row}
      /\ UNCHANGED <<wat, turn, accepted, next, broken, outcome>>
  BY DEF Expire
<1>2. RowsMove /\ Lapses
  BY <1>1 DEF RowsMove, Lapses, Expire
<1>3. Rows' /\ Shape'
  BY <1>1, FS_RemoveElement DEF WInv, Rows, Shape
<1>4. ASSUME NEW v \in Writes PROVE Writing(v)'
  BY <1>1, <1>2, WriteElsewhere
<1> QED BY <1>2, <1>3, <1>4 DEF WInv

(* Any step keeps the rows and the writes as they should be. *)
LEMMA NextWInv == WInv /\ [MemoryNext]_vars => WInv' /\ RowsMove
<1> SUFFICES ASSUME WInv, [MemoryNext]_vars PROVE WInv' /\ RowsMove
  OBVIOUS
<1>1. CASE UNCHANGED writing
  <2>1. UNCHANGED <<facts, wat, turn, accepted, next, broken, outcome, lapsed>>
    BY <1>1 DEF writing
  <2>2. RowsMove /\ Adds /\ Rows' /\ Shape'
    BY <2>1 DEF RowsMove, Adds, WInv, Rows, Shape
  <2> QED BY <2>1, <2>2, WriteElsewhere DEF WInv
<1>2. ASSUME NEW w \in Writes, Write(w) PROVE WInv' /\ RowsMove
  <2>1. CASE Upsert(w)
    BY <2>1, UpsertStep
  <2>2. CASE BulkEnds(w)
    BY <2>2, BulkEndsStep DEF BulkEnds, RowsMove
  <2>3. CASE \/ \E t \in Turns : writeLongTermMemory(w, t)
             \/ extractFactCandidates(w) \/ ensureTtlIndex(w) \/ EmbedFacts(w) \/ agentcoreWrite(w)
    <3>1. UNCHANGED facts
      BY <2>3 DEF writeLongTermMemory, extractFactCandidates, ensureTtlIndex, EmbedFacts, agentcoreWrite
    <3> QED BY <2>3, <3>1, StageStep DEF RowsMove
  <2> QED BY <1>2, <2>1, <2>2, <2>3 DEF Write
<1>3. ASSUME NEW r \in Reads, Read(r) PROVE UNCHANGED writing
  BY <1>3 DEF Read, Idle, readLongTermMemoryContext, Connect, EmbedQuery, SearchAnswers,
              SearchTimesOut, Settle, Rank, FindByKeyword, FindRecent, FindFails
<1>4. CASE UNCHANGED vars
  BY <1>1, <1>4 DEF vars
<1> QED BY <1>1, <1>2, <1>3, <1>4, ExpireStep DEF MemoryNext

(* Nothing has been written at the start. *)
LEMMA InitWInv == MemoryInit => WInv
<1> SUFFICES ASSUME MemoryInit PROVE WInv
  OBVIOUS
<1>1. Rows
  BY MemoryAssumption DEF MemoryInit, Rows
<1>2. Shape
  BY DEF MemoryInit, Shape, Working
<1>3. ASSUME NEW w \in Writes PROVE Writing(w)
  <2>1. accepted[w] = <<>> /\ wat[w] \in {"idle", "absent"} /\ next[w] = 1 /\ outcome[w] = "none"
    BY DEF MemoryInit
  <2>2. IsSeq(<<>>) /\ DOMAIN <<>> = {}
    BY DEF IsSeq
  <2> QED BY <2>1, <2>2 DEF Writing, Working
<1> QED BY <1>1, <1>2, <1>3 DEF WInv

(* Every reachable state of the writes satisfies the invariant. *)
LEMMA WritesInductive == MemorySpec => []WInv
<1>1. MemorySpec => MemoryInit /\ [][MemoryNext]_vars
  BY DEF MemorySpec
<1>2. WInv /\ [MemoryNext]_vars => WInv'
  BY NextWInv
<1> QED BY <1>1, <1>2, InitWInv, PTL

(* A write that is reported as persisted has a row for each of its facts,  *)
(* but those whose time came after it had stored or found them, whatever   *)
(* failed for others and whatever had expired before.                      *)
THEOREM PersistedStored == MemorySpec => []PersistedIsStored
<1>1. WInv => PersistedIsStored
  <2> SUFFICES ASSUME WInv, NEW w \in Writes, outcome[w] = "persisted", NEW i \in DOMAIN accepted[w]
               PROVE  Held(w, i)
    BY DEF PersistedIsStored, Held
  <2>1. Writing(w) /\ next[w] \in Nat
    BY DEF WInv, Shape
  <2>2. i < next[w]
    BY <2>1 DEF Writing, IsSeq
  <2> QED BY <2>1, <2>2 DEF Writing
<1> QED BY <1>1, WritesInductive, PTL

-----------------------------------------------------------------------------
(* What a user had told its agent when a read began is of that user and    *)
(* agent and, unless it is old, still there; a read that ends with nothing *)
(* has looked, and nothing of it was left.                                 *)
Reading(r) ==
  /\ rat[r] # "ended" => ~missed[r]
  /\ rat[r] # "idle" => \A row \in had[r] :
       row.user = asks[r].user /\ row.agent = asks[r].agent /\ row.user \in Users
       /\ (row.age > 0 \/ row \in facts)
  /\ rat[r] = "ended" /\ database /\ asks[r].query # "blank" /\ ~missed[r] /\ context[r] = <<>>
       => had[r] \cap facts = {}

ReadShape ==
  /\ DOMAIN rat = Reads /\ DOMAIN asks = Reads /\ DOMAIN context = Reads /\ DOMAIN had = Reads
  /\ DOMAIN missed = Reads /\ database \in BOOLEAN

RInv == ReadShape /\ \A r \in Reads : Reading(r)

(* A find over rows that are there gives some. *)
LEMMA FindsSome ==
  ASSUME NEW rows, IsFiniteSet(rows), rows # {}
  PROVE  <<>> \notin Newest(rows)
<1> SUFFICES ASSUME NEW s \in SetToSeqs(rows),
                    <<>> = SubSeq(s, 1, IF Len(s) < TopK THEN Len(s) ELSE TopK)
             PROVE  FALSE
  BY DEF Newest
<1> DEFINE n == Cardinality(rows)
           k == IF Len(s) < TopK THEN Len(s) ELSE TopK
<1>1. n \in Nat /\ n # 0
  BY FS_CardinalityType, FS_EmptySet
<1>2. s \in [1..n -> rows]
  BY DEF SetToSeqs
<1> HIDE DEF n
<1>3. s \in Seq(rows)
  BY <1>1, <1>2, SeqDef
<1>4. Len(s) = n
  BY <1>1, <1>2, <1>3, LenProperties
<1>5. k \in 1..Len(s)
  BY <1>1, <1>4, RetrievalAssumption
<1> HIDE DEF k
<1>6. Len(SubSeq(s, 1, k)) = k
  BY <1>3, <1>5
<1>7. SubSeq(s, 1, k) = <<>>
  BY DEF k
<1> QED BY <1>5, <1>6, <1>7

(* The facts of a user and an agent that were there and still are. *)
LEMMA StillKnown ==
  ASSUME WInv, RInv, NEW r \in Reads, rat[r] # "idle"
  PROVE  /\ had[r] \cap facts \subseteq FactsOf(facts, asks[r].user, asks[r].agent)
         /\ IsFiniteSet(FactsOf(facts, asks[r].user, asks[r].agent))
<1>1. FactsOf(facts, asks[r].user, asks[r].agent) \subseteq facts
  BY DEF FactsOf
<1> QED BY <1>1, FS_Subset DEF WInv, Rows, RInv, Reading, FactsOf

(* A read that a step leaves alone: what it had is gone for good once it   *)
(* is gone.                                                                *)
LEMMA ReadElsewhere ==
  ASSUME WInv, RowsMove, NEW r \in Reads, Reading(r), UNCHANGED database,
         rat'[r] = rat[r], asks'[r] = asks[r], context'[r] = context[r], had'[r] = had[r], missed'[r] = missed[r]
  PROVE  Reading(r)'
<1>1. ASSUME rat[r] # "idle", NEW row \in had[r] PROVE row.age > 0 \/ row \in facts'
  BY <1>1 DEF Reading, RowsMove
<1>2. ASSUME rat[r] # "idle", NEW row \in had[r], row \in facts', row \notin facts PROVE FALSE
  <2>1. row.age = 0 /\ ~(0 > 0)
    BY <1>2 DEF RowsMove
  <2> QED BY <1>2, <2>1 DEF Reading
<1> QED BY <1>1, <1>2 DEF Reading

(* A read that goes on, or ends with something or with nothing to be had. *)
LEMMA ReadStage ==
  ASSUME WInv, RInv, NEW r \in Reads, UNCHANGED <<database, facts, asks, had>>, ReadShape', rat[r] # "idle",
         rat'[r] # "idle", 
         \A s \in Reads \ {r} : /\ rat'[s] = rat[s] /\ context'[s] = context[s]
                                /\ missed'[s] = missed[s],
         missed'[r] => rat'[r] = "ended",
         rat'[r] = "ended" /\ ~missed'[r] /\ context'[r] = <<>> => had[r] \cap facts = {}
  PROVE  RInv'
<1>1. RowsMove
  BY DEF RowsMove
<1>2. \A s \in Reads \ {r} : Reading(s)'
  BY <1>1, ReadElsewhere DEF RInv
<1>3. Reading(r)'
  BY DEF RInv, Reading
<1> QED BY <1>2, <1>3 DEF RInv

(* Every step of a read keeps it so. *)
LEMMA ReadStep ==
  ASSUME WInv, RInv, NEW r \in Reads, Read(r)
  PROVE  RInv'
<1>0. ReadShape /\ Reading(r) /\ UNCHANGED <<database, facts>>
  BY DEF RInv, Read, Idle, writing, readLongTermMemoryContext, Connect, EmbedQuery, SearchAnswers,
         SearchTimesOut, Settle, Rank, FindByKeyword, FindRecent, FindFails
<1>1. ASSUME NEW ask \in Asks, readLongTermMemoryContext(r, ask) PROVE RInv'
  <2>1. /\ rat[r] = "idle" /\ UNCHANGED <<context, missed>>
        /\ asks' = [asks EXCEPT ![r] = ask]
        /\ had' = [had EXCEPT ![r] = FactsOf(facts, ask.user, ask.agent)]
        /\ rat' = [rat EXCEPT ![r] =
             IF ask.user = NoUser \/ ask.query = "blank" \/ ~database THEN "ended" ELSE "connecting"]
    BY <1>1 DEF readLongTermMemoryContext, RTo
  <2>2. \A row \in FactsOf(facts, ask.user, ask.agent) :
          row.user = ask.user /\ row.agent = ask.agent /\ row.user \in Users /\ row \in facts
    BY DEF FactsOf, WInv, Rows
  <2>3. ask.user = NoUser => FactsOf(facts, ask.user, ask.agent) = {}
    BY <2>2, MemoryAssumption
  <2>4. Reading(r)'
    BY <1>0, <2>1, <2>2, <2>3 DEF Reading, ReadShape
  <2>5. ReadShape'
    BY <1>0, <2>1 DEF ReadShape
  <2>6. RowsMove
    BY <1>0 DEF RowsMove
  <2>7. \A s \in Reads \ {r} : Reading(s)'
    BY <1>0, <2>1, <2>6, ReadElsewhere DEF RInv
  <2> QED BY <2>4, <2>5, <2>7 DEF RInv
<1>2. ASSUME \/ Connect(r) \/ \E answer \in Answers : EmbedQuery(r, answer)
             \/ \E leg \in Legs(r) : SearchAnswers(r, leg) \/ SearchTimesOut(r, leg)
      PROVE  RInv'
  <2>1. /\ UNCHANGED <<asks, had, context, missed>> /\ rat[r] \notin {"idle", "ended"}
        /\ \/ UNCHANGED rat
           \/ \E place \in {"embedding", "searching", "threw"} : rat' = [rat EXCEPT ![r] = place]
    BY <1>2 DEF Connect, EmbedQuery, SearchAnswers, SearchTimesOut, Settle, RTo
  <2>2. ReadShape' /\ rat'[r] \notin {"idle", "ended"} /\ (\A s \in Reads \ {r} : rat'[s] = rat[s])
    BY <1>0, <2>1 DEF ReadShape
  <2> QED BY <1>0, <2>1, <2>2, ReadStage DEF Reading
<1>3. ASSUME NEW rows, context' = [context EXCEPT ![r] = rows], NEW place,
             rat' = [rat EXCEPT ![r] = place], place # "idle", rat[r] \notin {"idle", "ended"},
             UNCHANGED <<asks, had, missed>>,
             place = "ended" /\ rows = <<>> => had[r] \cap facts = {}
      PROVE  RInv'
  <2>1. ReadShape' /\ rat'[r] = place /\ context'[r] = rows
        /\ \A s \in Reads \ {r} : rat'[s] = rat[s] /\ context'[s] = context[s]
    BY <1>0, <1>3 DEF ReadShape
  <2> QED BY <1>0, <1>3, <2>1, ReadStage DEF Reading
<1>4. ASSUME Rank(r) PROVE RInv'
  <2>1. PICK rows : /\ context' = [context EXCEPT ![r] = rows]
                    /\ rat' = [rat EXCEPT ![r] = IF rows = <<>> THEN "keyword" ELSE "ended"]
    BY <1>4 DEF Rank, RTo
  <2> DEFINE place == IF rows = <<>> THEN "keyword" ELSE "ended"
  <2>2. rat[r] = "searching" /\ UNCHANGED <<asks, had, missed>>
    BY <1>4 DEF Rank, Settled
  <2>3. rat' = [rat EXCEPT ![r] = place] /\ place # "idle" /\ ~(place = "ended" /\ rows = <<>>)
    BY <2>1
  <2> HIDE DEF place
  <2> QED BY <1>3, <2>1, <2>2, <2>3
<1> DEFINE known == FactsOf(facts, asks[r].user, asks[r].agent)
<1>5. rat[r] # "idle" /\ known = {} => had[r] \cap facts = {}
  BY StillKnown
<1>6. rat[r] # "idle" /\ <<>> \in Newest(known) => known = {}
  BY StillKnown, FindsSome
<1> HIDE DEF known
<1>7. ASSUME FindByKeyword(r) PROVE RInv'
  <2>1. rat[r] = "keyword" /\ UNCHANGED <<asks, had, missed>>
    BY <1>7 DEF FindByKeyword
  <2>2. PICK hasKeywords \in BOOLEAN : \E matches \in (IF hasKeywords THEN SUBSET known ELSE {known}) :
          \E rows \in Newest(matches) :
            /\ context' = [context EXCEPT ![r] = rows]
            /\ rat' = [rat EXCEPT ![r] = IF rows = <<>> /\ hasKeywords THEN "recent" ELSE "ended"]
    BY <1>7 DEF FindByKeyword, RTo, known
  <2>6. PICK matches \in (IF hasKeywords THEN SUBSET known ELSE {known}) : \E rows \in Newest(matches) :
          /\ context' = [context EXCEPT ![r] = rows]
          /\ rat' = [rat EXCEPT ![r] = IF rows = <<>> /\ hasKeywords THEN "recent" ELSE "ended"]
    BY <2>2
  <2>3. PICK rows \in Newest(matches) :
          /\ context' = [context EXCEPT ![r] = rows]
          /\ rat' = [rat EXCEPT ![r] = IF rows = <<>> /\ hasKeywords THEN "recent" ELSE "ended"]
    BY <2>6
  <2> DEFINE place == IF rows = <<>> /\ hasKeywords THEN "recent" ELSE "ended"
  <2>4. place # "idle" /\ (place = "ended" /\ rows = <<>> => had[r] \cap facts = {})
    BY <1>5, <1>6, <2>1, <2>6, <2>3
  <2>5. rat' = [rat EXCEPT ![r] = place]
    BY <2>3
  <2> HIDE DEF place
  <2> QED BY <1>3, <2>1, <2>3, <2>4, <2>5
<1>8. ASSUME FindRecent(r) PROVE RInv'
  <2>1. rat[r] = "recent" /\ UNCHANGED <<asks, had, missed>>
    BY <1>8 DEF FindRecent
  <2>2. PICK rows \in Newest(known) : context' = [context EXCEPT ![r] = rows]
    BY <1>8 DEF FindRecent, known
  <2>3. rat' = [rat EXCEPT ![r] = "ended"]
    BY <1>8 DEF FindRecent, RTo
  <2>4. rat[r] \notin {"idle", "ended"} /\ (rows = <<>> => had[r] \cap facts = {})
    BY <1>5, <1>6, <2>1, <2>2
  <2>5. "ended" # "idle"
    OBVIOUS
  <2> QED BY <1>3, <2>1, <2>2, <2>3, <2>4, <2>5
<1>9. ASSUME FindFails(r) PROVE RInv'
  <2>1. /\ rat[r] # "idle" /\ UNCHANGED <<asks, had, context>>
        /\ rat' = [rat EXCEPT ![r] = "ended"] /\ missed' = [missed EXCEPT ![r] = TRUE]
    BY <1>9 DEF FindFails, RTo
  <2>2. ReadShape' /\ rat'[r] = "ended" /\ missed'[r] = TRUE
        /\ \A s \in Reads \ {r} : rat'[s] = rat[s] /\ missed'[s] = missed[s]
    BY <1>0, <2>1 DEF ReadShape
  <2> QED BY <1>0, <2>1, <2>2, ReadStage
<1> QED BY <1>1, <1>2, <1>4, <1>7, <1>8, <1>9 DEF Read

(* No read has begun at the start, and every step keeps the reads so. *)
LEMMA InitRInv == MemoryInit => RInv
<1> SUFFICES ASSUME MemoryInit PROVE RInv
  OBVIOUS
<1>1. ReadShape
  BY MemoryAssumption DEF MemoryInit, ReadShape
<1>2. ASSUME NEW r \in Reads PROVE Reading(r)
  BY DEF MemoryInit, Reading
<1> QED BY <1>1, <1>2 DEF RInv

LEMMA NextRInv == WInv /\ RInv /\ [MemoryNext]_vars => RInv'
<1> SUFFICES ASSUME WInv, RInv, [MemoryNext]_vars PROVE RInv'
  OBVIOUS
<1>1. ASSUME UNCHANGED <<database, reading>> PROVE RInv'
  <2>1. UNCHANGED <<database, rat, asks, context, had, missed>>
    BY <1>1 DEF reading
  <2>2. ReadShape'
    BY <2>1 DEF RInv, ReadShape
  <2>3. ASSUME NEW r \in Reads PROVE Reading(r)'
    BY <2>1, NextWInv, ReadElsewhere DEF RInv
  <2> QED BY <2>2, <2>3 DEF RInv
<1>2. ASSUME NEW w \in Writes, Write(w) PROVE UNCHANGED <<database, reading>>
  BY <1>2 DEF Write, writeLongTermMemory, extractFactCandidates, ensureTtlIndex, EmbedFacts, Upsert,
              BulkEnds, agentcoreWrite
<1>3. ASSUME NEW row \in facts, Expire(row) PROVE UNCHANGED <<database, reading>>
  BY <1>3 DEF Expire
<1>4. CASE UNCHANGED vars
  BY <1>1, <1>4 DEF vars
<1> QED BY <1>1, <1>2, <1>3, <1>4, ReadStep DEF MemoryNext

(* A user whose facts its agent knows gets some context, whatever becomes  *)
(* of the embedder and the searches, as long as finds are answered.        *)
THEOREM OutagesRecall == MemorySpec => []OutageStillRecalls
<1>1. MemorySpec => MemoryInit /\ [][MemoryNext]_vars
  BY DEF MemorySpec
<1>2. RInv => OutageStillRecalls
  BY DEF RInv, Reading, OutageStillRecalls
<1> QED BY <1>1, <1>2, WritesInductive, InitRInv, NextRInv, PTL
-----------------------------------------------------------------------------
(* The ranking, for rows of any set R whose collections have a weight and  *)
(* whose ages a decay: it invents no row and repeats none.                 *)
Rankable(R) == \A row \in R : row.coll \in DOMAIN Weights /\ row.age \in DOMAIN Decay
HitsOf(R) == [row : R, rank : Nat \ {0}, source : {"vector", "lexical"}]
ItemsOf(R) == [row : R, score : Int]
OnceEach(items) == \A i, j \in DOMAIN items : i # j => items[i].row # items[j].row

(* Items are sorted by arranging their places. *)
LEMMA SortsItems ==
  ASSUME NEW R, NEW items \in Seq(ItemsOf(R)), OnceEach(items)
  PROVE  SortedByScore(items) \in Seq(ItemsOf(R)) /\ OnceEach(SortedByScore(items))
<1> DEFINE places == DOMAIN items
           score == [i \in places |-> items[i].score]
           order == ByScore(score, places)
           sorted == [n \in DOMAIN order |-> items[order[n]]]
           N == Len(items)
<1>1. N \in Nat /\ places = 1..N /\ \A i \in places : items[i] \in ItemsOf(R)
  OBVIOUS
<1>2. places \subseteq Nat /\ IsFiniteSet(places) /\ Cardinality(places) = N
  <2>1. IsFiniteSet(1..N) /\ Cardinality(1..N) = N
    BY <1>1, FS_Interval
  <2> QED BY <1>1, <2>1
<1>3. \A i \in places : score[i] \in Int
  BY <1>1 DEF ItemsOf
<1>4. SortedByScore(items) = SubSeq(sorted, 1, N)
  BY DEF SortedByScore
<1> HIDE DEF places, score
<1>5. /\ order \in Seq(places) /\ Len(order) = Cardinality(places)
      /\ \A m, n \in DOMAIN order : m < n => order[m] # order[n]
  BY <1>2, <1>3, BestScored
<1> HIDE DEF order, N
<1>6. DOMAIN order = 1..N /\ \A n \in 1..N : order[n] \in places
  BY <1>1, <1>2, <1>5
<1>7. sorted \in [1..N -> ItemsOf(R)] /\ \A n \in 1..N : sorted[n] = items[order[n]]
  BY <1>1, <1>6
<1> HIDE DEF sorted
<1>8. sorted \in Seq(ItemsOf(R)) /\ Len(sorted) = N
  BY <1>1, <1>7
<1>9. SubSeq(sorted, 1, N) = sorted
  BY <1>1, <1>8
<1>10. ASSUME NEW m \in 1..N, NEW n \in 1..N, m # n PROVE sorted[m].row # sorted[n].row
  <2>1. order[m] # order[n]
    <3>1. m < n \/ n < m
      BY <1>1, <1>10
    <3> QED BY <1>5, <1>6, <3>1
  <2>2. order[m] \in DOMAIN items /\ order[n] \in DOMAIN items
    BY <1>6 DEF places
  <2> QED BY <1>7, <2>1, <2>2 DEF OnceEach
<1>11. DOMAIN sorted = 1..N
  BY <1>7
<1> QED BY <1>4, <1>8, <1>9, <1>10, <1>11 DEF OnceEach

(* Items that are kept are each there once. *)
LEMMA KeepsItems ==
  ASSUME NEW R, NEW items \in Seq(ItemsOf(R)), NEW places, places \subseteq DOMAIN items,
         \A i, j \in places : i # j => items[i].row # items[j].row
  PROVE  Kept(items, places) \in Seq(ItemsOf(R)) /\ OnceEach(Kept(items, places))
<1> DEFINE kept == Kept(items, places)
<1>1. kept \in Seq(ItemsOf(R)) /\ \E from : ComesFrom(kept, items, places, from)
  BY KeptItems
<1> HIDE DEF kept
<1>2. PICK from : ComesFrom(kept, items, places, from)
  BY <1>1
<1>3. DOMAIN kept = 1..Len(kept) /\ Len(kept) \in Nat
  BY <1>1
<1>4. ASSUME NEW k \in 1..Len(kept), NEW l \in 1..Len(kept), k # l PROVE kept[k].row # kept[l].row
  <2>1. from[k] \in places /\ from[l] \in places /\ kept[k] = items[from[k]] /\ kept[l] = items[from[l]]
    BY <1>2 DEF ComesFrom
  <2>2. k < l \/ l < k
    BY <1>3, <1>4
  <2>3. from[k] < from[l] \/ from[l] < from[k]
    BY <1>2, <2>2 DEF ComesFrom
  <2>4. from[k] \in Nat /\ from[l] \in Nat
    BY <2>1
  <2> QED BY <2>1, <2>3, <2>4
<1> QED BY <1>1, <1>3, <1>4 DEF OnceEach, kept

(* Fusing gives each row that was found one item. *)
LEMMA QuotientNat ==
  ASSUME NEW a \in Nat, NEW b \in Nat \ {0}
  PROVE  a \div b \in Nat
OBVIOUS

LEMMA Merges ==
  ASSUME NEW R, NEW answers, Len(answers) \in Nat, \A n \in 1..Len(answers) : answers[n] \in Seq(HitsOf(R))
  PROVE  rrfMerge(answers) \in Seq(ItemsOf(R)) /\ OnceEach(rrfMerge(answers))
<1> DEFINE hits == Joined(answers)
           firsts == {i \in DOMAIN hits : \A j \in 1..(i - 1) : hits[j].row # hits[i].row}
           share == [i \in DOMAIN hits |-> contribution(hits[i].rank)]
           found(row) == {i \in DOMAIN hits : hits[i].row = row}
           rrfScore(row) == MapThenSumSet(LAMBDA i : share[i], found(row))
           items == [i \in DOMAIN hits |-> [row |-> hits[i].row, score |-> rrfScore(hits[i].row)]]
           N == Len(hits)
<1>1. hits \in Seq(HitsOf(R))
  BY JoinedIn
<1>2. rrfMerge(answers) = SortedByScore(Kept(items, firsts))
  BY DEF rrfMerge
<1> HIDE DEF hits
<1>3. N \in Nat /\ DOMAIN hits = 1..N /\ \A i \in 1..N : hits[i].row \in R /\ hits[i].rank \in Nat \ {0}
  <2>1. N \in Nat /\ DOMAIN hits = 1..N /\ \A i \in 1..N : hits[i] \in HitsOf(R)
    BY <1>1
  <2> QED BY <2>1 DEF HitsOf
<1>4. \A i \in 1..N : share[i] \in Nat
  <2> TAKE i \in 1..N
  <2>1. share[i] = Unit \div (60 + hits[i].rank)
    BY <1>3 DEF contribution, K
  <2>2. Unit \in Nat /\ 60 + hits[i].rank \in Nat \ {0}
    BY <1>3 DEF Unit
  <2> HIDE DEF share
  <2> QED BY <2>1, <2>2, QuotientNat
<1> HIDE DEF share
<1>5. ASSUME NEW row PROVE rrfScore(row) \in Nat
  <2>1. IsFiniteSet(found(row)) /\ found(row) \subseteq 1..N
    <3>1. IsFiniteSet(1..N) /\ found(row) \subseteq 1..N
      BY <1>3, FS_Interval
    <3> HIDE DEF found
    <3> QED BY <3>1, FS_Subset
  <2>2. rrfScore(row) = SumOver(share, found(row))
    <3> HIDE DEF found
    <3> QED BY DEF MapThenSumSet, MapThenFoldSet, SumOver, AddsUp, SumOf
  <2> HIDE DEF found, rrfScore
  <2> QED BY <1>4, <2>1, <2>2, SumNat
<1> HIDE DEF rrfScore
<1>6. items \in [1..N -> ItemsOf(R)] /\ \A i \in 1..N : items[i].row = hits[i].row
  <2>1. ASSUME NEW i \in 1..N PROVE [row |-> hits[i].row, score |-> rrfScore(hits[i].row)] \in ItemsOf(R)
    <3>1. hits[i].row \in R /\ rrfScore(hits[i].row) \in Int
      BY <1>3, <1>5
    <3> QED BY <3>1 DEF ItemsOf
  <2> QED BY <1>3, <2>1
<1>7. firsts \subseteq 1..N /\ \A i, j \in firsts : i # j => hits[i].row # hits[j].row
  <2>1. firsts \subseteq 1..N
    BY <1>3
  <2>2. ASSUME NEW i \in firsts, NEW j \in firsts, i < j PROVE hits[i].row # hits[j].row
    <3>1. i \in 1..(j - 1)
      BY <2>1, <2>2
    <3> QED BY <3>1
  <2> HIDE DEF firsts
  <2> QED BY <2>1, <2>2
<1> HIDE DEF items, firsts
<1>8. items \in Seq(ItemsOf(R)) /\ DOMAIN items = 1..N
  BY <1>3, <1>6
<1>9. \A i, j \in firsts : i # j => items[i].row # items[j].row
  BY <1>6, <1>7
<1>10. Kept(items, firsts) \in Seq(ItemsOf(R)) /\ OnceEach(Kept(items, firsts))
  BY <1>7, <1>8, <1>9, KeepsItems
<1> QED BY <1>2, <1>10, SortsItems

(* Weighing and decay change only the scores. *)
LEMMA Weighs ==
  ASSUME NEW R, Rankable(R), NEW items \in Seq(ItemsOf(R)), OnceEach(items)
  PROVE  /\ applyCollectionWeights(items) \in Seq(ItemsOf(R)) /\ OnceEach(applyCollectionWeights(items))
         /\ applyRecencyDecay(items) \in Seq(ItemsOf(R)) /\ OnceEach(applyRecencyDecay(items))
<1> DEFINE N == Len(items)
<1>1. N \in Nat /\ DOMAIN items = 1..N /\ \A i \in 1..N : items[i] \in ItemsOf(R)
  OBVIOUS
<1>2. ASSUME NEW factor, \A i \in 1..N : factor[i] \in Int
      PROVE  LET scored == [i \in DOMAIN items |-> [items[i] EXCEPT !.score = @ * factor[i]]]
             IN  SortedByScore(scored) \in Seq(ItemsOf(R)) /\ OnceEach(SortedByScore(scored))
  <2> DEFINE scored == [i \in DOMAIN items |-> [items[i] EXCEPT !.score = @ * factor[i]]]
  <2>1. ASSUME NEW i \in 1..N
        PROVE  [items[i] EXCEPT !.score = @ * factor[i]] \in ItemsOf(R)
               /\ [items[i] EXCEPT !.score = @ * factor[i]].row = items[i].row
    <3>1. items[i] \in ItemsOf(R) /\ items[i].score * factor[i] \in Int
      <4>1. items[i].score \in Int /\ factor[i] \in Int
        BY <1>1, <1>2 DEF ItemsOf
      <4> QED BY <1>1, <4>1
    <3> DEFINE s == items[i].score * factor[i]
    <3> HIDE DEF s
    <3>2. [items[i] EXCEPT !.score = s] \in ItemsOf(R) /\ [items[i] EXCEPT !.score = s].row = items[i].row
      BY <3>1 DEF ItemsOf, s
    <3> QED BY <3>2 DEF s
  <2>2. scored \in [1..N -> ItemsOf(R)] /\ \A i \in 1..N : scored[i].row = items[i].row
    BY <1>1, <2>1
  <2> HIDE DEF scored
  <2>3. scored \in Seq(ItemsOf(R)) /\ DOMAIN scored = 1..N
    BY <1>1, <2>2
  <2>4. OnceEach(scored)
    BY <1>1, <2>2, <2>3 DEF OnceEach
  <2>5. SortedByScore(scored) \in Seq(ItemsOf(R)) /\ OnceEach(SortedByScore(scored))
    BY <2>3, <2>4, SortsItems
  <2> QED BY <2>5 DEF scored
<1>3. ASSUME NEW i \in 1..N
      PROVE  Weights[items[i].row.coll] \in Int /\ Decay[items[i].row.age] \in Int
  <2>1. items[i].row.coll \in DOMAIN Weights /\ items[i].row.age \in DOMAIN Decay
    BY <1>1 DEF ItemsOf, Rankable
  <2> QED BY <2>1, RetrievalAssumption
<1> HIDE DEF N
<1>4. applyCollectionWeights(items) \in Seq(ItemsOf(R)) /\ OnceEach(applyCollectionWeights(items))
  <2> DEFINE factor == [i \in 1..N |-> Weights[items[i].row.coll]]
             scored == [i \in DOMAIN items |-> [items[i] EXCEPT !.score = @ * factor[i]]]
  <2>1. \A i \in 1..N : factor[i] \in Int
    BY <1>3
  <2>2. scored = [i \in DOMAIN items |-> [items[i] EXCEPT !.score = @ * Weights[items[i].row.coll]]]
    BY <1>1
  <2>3. applyCollectionWeights(items) = SortedByScore(scored)
    BY <2>2 DEF applyCollectionWeights
  <2> HIDE DEF factor
  <2> QED BY <1>2, <2>1, <2>3
<1>5. applyRecencyDecay(items) \in Seq(ItemsOf(R)) /\ OnceEach(applyRecencyDecay(items))
  <2> DEFINE factor == [i \in 1..N |-> Decay[items[i].row.age]]
             scored == [i \in DOMAIN items |-> [items[i] EXCEPT !.score = @ * factor[i]]]
  <2>1. \A i \in 1..N : factor[i] \in Int
    BY <1>3
  <2>2. scored = [i \in DOMAIN items |-> [items[i] EXCEPT !.score = @ * Decay[items[i].row.age]]]
    BY <1>1
  <2>3. applyRecencyDecay(items) = SortedByScore(scored)
    BY <2>2 DEF applyRecencyDecay
  <2> HIDE DEF factor
  <2> QED BY <1>2, <2>1, <2>3
<1> QED BY <1>4, <1>5

(* While not all are selected, the next is one that is not. *)
LEMMA NextIsNew ==
  ASSUME NEW R, NEW items \in Seq(ItemsOf(R)), NEW selected \in Seq(DOMAIN items),
         Len(selected) < Len(items)
  PROVE  NextBest(items, selected) \in DOMAIN items \ {selected[k] : k \in DOMAIN selected}
<1> DEFINE N == Len(items)
           n == Len(selected)
           chosen == {selected[k] : k \in DOMAIN selected}
           remaining == DOMAIN items \ chosen
           likeness(i) == IF \E k \in DOMAIN selected :
                               cosineSimilarity(items[i].row.vec, items[selected[k]].row.vec) = 1
                          THEN 1 ELSE 0
           mmr == [i \in remaining |-> 7 * items[i].score - 3 * likeness(i) * Ones]
<1>1. /\ N \in Nat /\ n \in Nat /\ n < N
      /\ DOMAIN items = 1..N /\ \A i \in 1..N : items[i] \in ItemsOf(R)
      /\ DOMAIN selected = 1..n /\ \A k \in 1..n : selected[k] \in 1..N
  OBVIOUS
<1>2. NextBest(items, selected) = ByScore(mmr, remaining)[1]
  BY DEF NextBest
<1> HIDE DEF N, n
<1>3. chosen \subseteq 1..N /\ Cardinality(chosen) <= n
  <2>1. IsFiniteSet(1..n) /\ Cardinality(1..n) = n
    <3>1. n \in Nat
      BY <1>1
    <3> QED BY <3>1, CountedTo, Zenon
  <2> DEFINE f == [k \in 1..n |-> selected[k]]
  <2>2. f \in Surjection(1..n, chosen)
    BY <1>1 DEF Surjection
  <2>3. Cardinality(chosen) <= Cardinality(1..n)
    <3> HIDE DEF f, chosen
    <3> QED BY <2>1, <2>2, FS_Surjection
  <2> QED BY <1>1, <2>1, <2>3
<1> HIDE DEF chosen
<1>4. IsFiniteSet(1..N) /\ Cardinality(1..N) = N
  BY <1>1, FS_Interval
<1>5. remaining \subseteq 1..N /\ IsFiniteSet(remaining) /\ remaining # {}
  <2>1. remaining \subseteq 1..N
    BY <1>1
  <2>2. remaining = {} => chosen = 1..N
    BY <1>1, <1>3
  <2>3. chosen # 1..N
    BY <1>1, <1>3, <1>4
  <2> HIDE DEF remaining
  <2> QED BY <1>4, <2>1, <2>2, <2>3, FS_Subset
<1>6. \A i \in remaining : mmr[i] \in Int
  <2> TAKE i \in remaining
  <2>1. items[i].score \in Int
    BY <1>1, <1>5 DEF ItemsOf
  <2>2. likeness(i) \in Int
    OBVIOUS
  <2>3. Ones \in Int
    BY DEF Ones, Unit
  <2>4. mmr[i] = 7 * items[i].score - 3 * likeness(i) * Ones
    OBVIOUS
  <2> HIDE DEF mmr, likeness, remaining
  <2> QED BY <2>1, <2>2, <2>3, <2>4
<1> HIDE DEF mmr, remaining
<1> DEFINE order == ByScore(mmr, remaining)
<1>7. order \in Seq(remaining) /\ \A x \in remaining : \E k \in DOMAIN order : order[k] = x
  <2>1. remaining \subseteq Nat
    BY <1>1, <1>5
  <2> QED BY <1>5, <1>6, <2>1, BestScored
<1> HIDE DEF order
<1>8. order[1] \in remaining
  <2>1. PICK k \in DOMAIN order : TRUE
    BY <1>5, <1>7
  <2>2. 1 \in DOMAIN order
    BY <1>7, <2>1
  <2> QED BY <1>7, <2>2
<1>9. order[1] = NextBest(items, selected)
  BY <1>2 DEF order
<1> QED BY <1>8, <1>9 DEF remaining, chosen

PickTo(items, g, n) ==
  IF n = 1 THEN <<1>> ELSE Append(g[n - 1], NextBest(items, g[n - 1]))
PicksTo(items, n, g) == g = [i \in 1..n |-> PickTo(items, g, i)]

LEMMA PicksToEach ==
  ASSUME NEW items, NEW n, NEW g
  PROVE  PicksTo(items, n, g)
           <=> g = [i \in 1..n |-> g[i]] /\ \A i \in 1..n : g[i] = PickTo(items, g, i)
BY DEF PicksTo

LEMMA PicksExist ==
  ASSUME NEW items, NEW N \in Nat
  PROVE  \E g : PicksTo(items, N, g)
<1> DEFINE S == {n \in Nat : \E g : PicksTo(items, n, g)}
<1>1. 0 \in S
  <2> DEFINE g == [i \in 1..0 |-> <<>>]
  <2>1. g = [i \in 1..0 |-> g[i]] /\ \A i \in 1..0 : g[i] = PickTo(items, g, i)
    OBVIOUS
  <2> HIDE DEF g
  <2>2. PicksTo(items, 0, g)
    BY <2>1, PicksToEach
  <2> QED BY <2>2
<1>2. ASSUME NEW n \in Nat, n \in S PROVE n + 1 \in S
  <2>1. PICK g : PicksTo(items, n, g)
    BY <1>2
  <2>2. \A i \in 1..n : g[i] = PickTo(items, g, i)
    BY <2>1, PicksToEach
  <2> DEFINE h == [i \in 1..(n + 1) |-> PickTo(items, g, i)]
  <2>3. h = [i \in 1..(n + 1) |-> h[i]] /\ \A i \in 1..(n + 1) : h[i] = PickTo(items, g, i)
    OBVIOUS
  <2> HIDE DEF h
  <2>4. \A i \in 1..n : h[i] = g[i]
    BY <2>2, <2>3
  <2>5. ASSUME NEW i \in 1..(n + 1) PROVE PickTo(items, g, i) = PickTo(items, h, i)
    <3>1. CASE i = 1
      BY <3>1 DEF PickTo
    <3>2. CASE i # 1
      <4>1. i - 1 \in 1..n
        BY <3>2
      <4>2. h[i - 1] = g[i - 1]
        BY <2>4, <4>1
      <4> QED BY <4>2 DEF PickTo
    <3> QED BY <3>1, <3>2
  <2>6. PicksTo(items, n + 1, h)
    BY <2>3, <2>5, PicksToEach
  <2>7. n + 1 \in Nat
    OBVIOUS
  <2> QED BY <2>6, <2>7
<1> HIDE DEF S
<1>3. N \in S
  BY <1>1, <1>2, EveryNumber
<1> QED BY <1>3 DEF S

(* Diversifying selects no more than TopK, each once, and the first first. *)
LEMMA Diversifies ==
  ASSUME NEW R, NEW items \in Seq(ItemsOf(R)), OnceEach(items)
  PROVE  /\ mmrDiversify(items) \in Seq(ItemsOf(R)) /\ OnceEach(mmrDiversify(items))
         /\ Len(mmrDiversify(items)) <= TopK
         /\ mmrDiversify(items)[1] = items[1]
<1> DEFINE N == Len(items)
<1>0. N \in Nat /\ DOMAIN items = 1..N /\ \A i \in 1..N : items[i] \in ItemsOf(R)
  OBVIOUS
<1>1. CASE N <= TopK
  BY <1>1 DEF mmrDiversify
<1>2. CASE ~(N <= TopK)
  <2> DEFINE g == CHOOSE g : PicksTo(items, TopK, g)
             diverse == [n \in 1..TopK |-> items[g[TopK][n]]]
  <2>1. mmrDiversify(items) = diverse
    BY <1>2 DEF mmrDiversify, PicksTo, PickTo
  <2>2. TopK \in Nat \ {0} /\ TopK < N
    BY <1>0, <1>2, RetrievalAssumption
  <2>3. PicksTo(items, TopK, g)
    BY <2>2, PicksExist
  <2>4. \A n \in 1..TopK : g[n] = PickTo(items, g, n)
    BY <2>3, PicksToEach
  <2> HIDE DEF g, N
  <2> DEFINE Good(s, n) == /\ s \in Seq(1..N) /\ Len(s) = n /\ s[1] = 1
                           /\ \A k, l \in 1..n : k # l => s[k] # s[l]
             S == {n \in Nat : n + 1 <= TopK => Good(g[n + 1], n + 1)}
  <2>5. 0 \in S
    <3>1. g[1] = PickTo(items, g, 1)
      BY <2>2, <2>4
    <3>2. g[1] = <<1>>
      BY <3>1 DEF PickTo
    <3>3. 1 \in 1..N
      BY <1>0, <2>2
    <3>4. Good(g[1], 1)
      BY <3>2, <3>3
    <3> HIDE DEF Good
    <3> QED BY <3>4
  <2>6. ASSUME NEW n \in Nat, n \in S PROVE n + 1 \in S
    <3>1. SUFFICES ASSUME n + 2 <= TopK PROVE Good(g[n + 2], n + 2)
      <4>1. n + 1 + 1 = n + 2 /\ n + 1 \in Nat
        OBVIOUS
      <4> HIDE DEF Good
      <4> QED BY <4>1
    <3> DEFINE m == n + 1
               s == g[m]
               x == NextBest(items, s)
    <3>2. m \in Nat \ {0} /\ m < TopK /\ m + 1 = n + 2 /\ m + 1 \in 1..TopK /\ m + 1 # 1 /\ m + 1 - 1 = m
      BY <2>2, <3>1
    <3>3. Good(s, m)
      BY <2>2, <2>6, <3>1
    <3> HIDE DEF m
    <3>4. g[m + 1] = PickTo(items, g, m + 1)
      BY <2>4, <3>2
    <3>5. g[m + 1] = Append(s, x)
      <4>1. ASSUME NEW i, i # 1, i - 1 = m PROVE PickTo(items, g, i) = Append(g[m], NextBest(items, g[m]))
        BY <4>1 DEF PickTo
      <4>2. PickTo(items, g, m + 1) = Append(g[m], NextBest(items, g[m]))
        BY <3>2, <4>1
      <4> QED BY <3>4, <4>2
    <3> HIDE DEF s
    <3>6. x \in 1..N \ {s[k] : k \in 1..m}
      <4>1. s \in Seq(DOMAIN items) /\ Len(s) < Len(items) /\ DOMAIN s = 1..m
        BY <1>0, <2>2, <3>2, <3>3 DEF N
      <4>2. x \in DOMAIN items \ {s[k] : k \in DOMAIN s}
        BY <4>1, NextIsNew
      <4> QED BY <1>0, <4>1, <4>2
    <3> HIDE DEF x
    <3>7. Good(Append(s, x), m + 1)
      <4>1. Append(s, x) \in Seq(1..N) /\ Len(Append(s, x)) = m + 1
        BY <3>3, <3>6
      <4>2. \A k \in 1..(m + 1) : Append(s, x)[k] = IF k = m + 1 THEN x ELSE s[k]
        BY <3>2, <3>3, <3>6
      <4>3. ASSUME NEW k \in 1..(m + 1), NEW l \in 1..(m + 1), k # l PROVE Append(s, x)[k] # Append(s, x)[l]
        <5>1. k # m + 1 => k \in 1..m
          BY <3>2
        <5>2. l # m + 1 => l \in 1..m
          BY <3>2
        <5>3. \A i \in 1..m : s[i] # x
          BY <3>6
        <5>4. \A i, j \in 1..m : i # j => s[i] # s[j]
          BY <3>3
        <5> QED BY <4>2, <4>3, <5>1, <5>2, <5>3, <5>4
      <4>4. Append(s, x)[1] = 1
        BY <3>2, <3>3, <4>2
      <4> QED BY <4>1, <4>3, <4>4
    <3> HIDE DEF Good
    <3> QED BY <3>2, <3>5, <3>7
  <2> HIDE DEF S
  <2>7. TopK - 1 \in S
    <3>1. TopK - 1 \in Nat
      BY <2>2
    <3> QED BY <2>5, <2>6, <3>1, EveryNumber
  <2> HIDE DEF Good
  <2>8. Good(g[TopK], TopK)
    <3>1. TopK - 1 + 1 = TopK
      BY <2>2
    <3>2. TopK - 1 + 1 <= TopK => Good(g[TopK - 1 + 1], TopK - 1 + 1)
      BY <2>7 DEF S
    <3> QED BY <2>2, <3>1, <3>2
  <2> DEFINE s == g[TopK]
  <2>9. /\ (\A n \in 1..TopK : s[n] \in 1..N) /\ s[1] = 1
        /\ \A k, l \in 1..TopK : k # l => s[k] # s[l]
    <3>1. s \in Seq(1..N) /\ Len(s) = TopK /\ s[1] = 1 /\ \A k, l \in 1..TopK : k # l => s[k] # s[l]
      BY <2>8 DEF Good
    <3> HIDE DEF s
    <3>2. DOMAIN s = 1..TopK
      BY <2>2, <3>1
    <3>3. \A n \in 1..TopK : s[n] \in 1..N
      BY <3>1, <3>2, ItemIn, Zenon
    <3> QED BY <3>1, <3>3
  <2>10. diverse \in [1..TopK -> ItemsOf(R)] /\ \A n \in 1..TopK : diverse[n] = items[s[n]]
    BY <1>0, <2>9
  <2> HIDE DEF diverse, s
  <2>11. diverse \in Seq(ItemsOf(R)) /\ Len(diverse) = TopK /\ DOMAIN diverse = 1..TopK
    BY <2>2, <2>10
  <2>12. OnceEach(diverse)
    BY <1>0, <2>9, <2>10, <2>11 DEF OnceEach
  <2>13. diverse[1] = items[1]
    BY <2>2, <2>9, <2>10
  <2> QED BY <2>1, <2>2, <2>11, <2>12, <2>13
<1> QED BY <1>1, <1>2

(* What is retrieved was found, is no more than TopK, and each once. *)
LEMMA Retrieves ==
  ASSUME NEW R, Rankable(R),
         NEW answers, Len(answers) \in Nat, \A n \in 1..Len(answers) : answers[n] \in Seq(HitsOf(R))
  PROVE  /\ hybridRetrieve(answers) \in Seq(ItemsOf(R)) /\ OnceEach(hybridRetrieve(answers))
         /\ Len(hybridRetrieve(answers)) <= TopK
<1> DEFINE items == applyRecencyDecay(applyCollectionWeights(rrfMerge(answers)))
           floor == {i \in DOMAIN items : MinScore = 0 \/ items[i].score >= MinScore}
<1>1. rrfMerge(answers) \in Seq(ItemsOf(R)) /\ OnceEach(rrfMerge(answers))
  BY Merges
<1>2. items \in Seq(ItemsOf(R)) /\ OnceEach(items)
  <2> DEFINE weighted == applyCollectionWeights(rrfMerge(answers))
  <2>1. weighted \in Seq(ItemsOf(R)) /\ OnceEach(weighted)
    BY <1>1, Weighs
  <2> HIDE DEF weighted
  <2>2. applyRecencyDecay(weighted) \in Seq(ItemsOf(R)) /\ OnceEach(applyRecencyDecay(weighted))
    BY <2>1, Weighs
  <2> QED BY <2>2 DEF weighted
<1>3. hybridRetrieve(answers) = mmrDiversify(Kept(items, floor))
  BY DEF hybridRetrieve
<1>4. floor \subseteq DOMAIN items
  OBVIOUS
<1> HIDE DEF items, floor
<1>5. \A i, j \in floor : i # j => items[i].row # items[j].row
  BY <1>2, <1>4 DEF OnceEach
<1>6. Kept(items, floor) \in Seq(ItemsOf(R)) /\ OnceEach(Kept(items, floor))
  BY <1>2, <1>4, <1>5, KeepsItems
<1> QED BY <1>3, <1>6, Diversifies

-----------------------------------------------------------------------------
(* Whatever a read holds at any time is of rows of its user: of the facts, *)
(* those that have expired included, and of the mirror.                    *)
AllRows == facts \cup Mirror \cup UNION OldFacts
Mine(r) == {row \in AllRows : row.user = asks[r].user}

FactRows == \A row \in facts : row.coll = "facts" /\ row.age \in DOMAIN Decay

Kind ==
  /\ DOMAIN rat = Reads /\ DOMAIN asks = Reads
  /\ DOMAIN legs = Reads /\ DOMAIN lists = Reads /\ DOMAIN context = Reads

(* The searches number their hits, and find a row once.                    *)
Clean(list) ==
  /\ \A i \in DOMAIN list : list[i].rank = i
  /\ \A i, j \in DOMAIN list : i # j => list[i].row # list[j].row
ListsOf(R) == {list \in Seq(HitsOf(R)) : Clean(list)}

(* Rows that may be injected into the turn of r. *)
Injectable(r, rows) ==
  /\ rows \in Seq(Mine(r)) /\ Len(rows) <= TopK
  /\ \A i, j \in DOMAIN rows : i # j => rows[i] # rows[j]
  /\ \A i \in DOMAIN rows : ~OfThisSession(r, rows[i])

Recalling(r) ==
  /\ \A leg \in DOMAIN legs[r] : legs[r][leg] \in ListsOf(Mine(r))
  /\ lists[r] \in Seq(ListsOf(Mine(r)))
  /\ Injectable(r, context[r])
  /\ rat[r] = "idle" => DOMAIN legs[r] = {} /\ lists[r] = <<>> /\ context[r] = <<>>

LInv == FactRows /\ Kind /\ \A r \in Reads : Recalling(r)

LEMMA SeqWider ==
  ASSUME NEW A, NEW B, A \subseteq B, NEW s \in Seq(A)
  PROVE  s \in Seq(B)
<1>1. s \in [1..Len(s) -> A] /\ Len(s) \in Nat
  OBVIOUS
<1>2. s \in [1..Len(s) -> B]
  BY <1>1
<1> DEFINE n == Len(s)
<1>3. n \in Nat /\ s \in [1..n -> B]
  BY <1>1, <1>2
<1> HIDE DEF n
<1> QED BY <1>3

(* Every row has what it is ranked by. *)
LEMMA MineRankable ==
  ASSUME FactRows, NEW r \in Reads
  PROVE  Rankable(Mine(r))
BY MemoryAssumption DEF FactRows, Rankable, Mine, AllRows

(* The facts and the mirror only add to what is known. *)
LEMMA RecallsElsewhere ==
  ASSUME WInv, RowsMove, NEW r \in Reads, Recalling(r),
         rat'[r] = rat[r], asks'[r] = asks[r], legs'[r] = legs[r], lists'[r] = lists[r],
         context'[r] = context[r]
  PROVE  Recalling(r)'
<1>1. Mine(r) \subseteq Mine(r)'
  BY DEF Mine, AllRows, RowsMove, WInv, Rows
<1> DEFINE H == ListsOf(Mine(r))
           G == ListsOf(Mine(r)')
<1>2. H \subseteq G
  <2>1. HitsOf(Mine(r)) \subseteq HitsOf(Mine(r)')
    BY <1>1 DEF HitsOf
  <2> QED BY <2>1, SeqWider DEF ListsOf
<1>3. ListsOf(Mine(r))' = G
  BY DEF ListsOf, HitsOf, Clean
<1> HIDE DEF H, G
<1>5. lists[r] \in Seq(G)
  <2>1. lists[r] \in Seq(H)
    BY DEF Recalling, H
  <2> QED BY <1>2, <2>1, SeqWider
<1>6. \A leg \in DOMAIN legs[r] : legs[r][leg] \in G
  BY <1>2 DEF Recalling, H
<1>7. Injectable(r, context[r])'
  <2>1. context[r] \in Seq(Mine(r)')
    BY <1>1, SeqWider DEF Recalling, Injectable
  <2>2. /\ Len(context[r]) <= TopK
        /\ \A i, j \in DOMAIN context[r] : i # j => context[r][i] # context[r][j]
        /\ \A i \in DOMAIN context[r] : ~OfThisSession(r, context[r][i])
    BY DEF Recalling, Injectable
  <2>3. \A row : OfThisSession(r, row)' <=> OfThisSession(r, row)
    BY DEF OfThisSession
  <2> QED BY <2>1, <2>2 DEF Injectable, OfThisSession
<1>8. lists'[r] \in Seq(ListsOf(Mine(r))')
  BY <1>3, <1>5
<1>9. \A leg \in DOMAIN legs'[r] : legs'[r][leg] \in ListsOf(Mine(r))'
  BY <1>3, <1>6
<1>10. rat'[r] = "idle" => DOMAIN legs'[r] = {} /\ lists'[r] = <<>> /\ context'[r] = <<>>
  BY DEF Recalling
<1> QED BY <1>7, <1>8, <1>9, <1>10 DEF Recalling

(* A read that goes on with what it may hold. *)
LEMMA RecallStage ==
  ASSUME WInv, LInv, NEW r \in Reads, UNCHANGED <<facts, asks>>, Kind',
         \A s \in Reads \ {r} : /\ rat'[s] = rat[s] /\ legs'[s] = legs[s] /\ lists'[s] = lists[s]
                                /\ context'[s] = context[s],
         rat'[r] # "idle",
         \A leg \in DOMAIN legs'[r] : legs'[r][leg] \in ListsOf(Mine(r)),
         lists'[r] \in Seq(ListsOf(Mine(r))),
         Injectable(r, context'[r])
  PROVE  LInv'
<1>1. RowsMove
  BY DEF RowsMove
<1>2. \A s \in Reads \ {r} : Recalling(s)'
  BY <1>1, RecallsElsewhere DEF LInv
<1>3. Mine(r)' = Mine(r)
  BY DEF Mine, AllRows
<1>4. ListsOf(Mine(r))' = ListsOf(Mine(r))
  BY <1>3 DEF ListsOf, HitsOf, Clean
<1>5. Injectable(r, context[r])'
  BY <1>3 DEF Injectable, OfThisSession
<1>6. Recalling(r)'
  BY <1>4, <1>5 DEF Recalling
<1>7. FactRows'
  BY DEF LInv, FactRows
<1> QED BY <1>2, <1>6, <1>7 DEF LInv

(* What a search answers is ranked as it comes. *)
LEMMA RankedHits ==
  ASSUME NEW R, NEW rows \in Seq(R), \A i, j \in DOMAIN rows : i # j => rows[i] # rows[j],
         NEW source \in {"vector", "lexical"}
  PROVE  Ranked(rows, source) \in ListsOf(R)
<1> DEFINE n == Len(rows)
           list == Ranked(rows, source)
<1>1. n \in Nat /\ DOMAIN rows = 1..n /\ \A i \in 1..n : rows[i] \in R
  OBVIOUS
<1>2. list \in [1..n -> HitsOf(R)] /\ \A i \in 1..n : list[i].row = rows[i] /\ list[i].rank = i
  BY <1>1 DEF Ranked, HitsOf
<1> HIDE DEF n, list
<1>3. list \in Seq(HitsOf(R)) /\ DOMAIN list = 1..n
  BY <1>1, <1>2
<1>4. Clean(list)
  BY <1>1, <1>2, <1>3 DEF Clean
<1> QED BY <1>3, <1>4 DEF ListsOf, list

LEMMA SettleStep ==
  ASSUME WInv, LInv, NEW r \in Reads, NEW leg \in Legs(r), NEW rows \in Seq(Mine(r)),
         \A i, j \in DOMAIN rows : i # j => rows[i] # rows[j], Settle(r, leg, rows)
  PROVE  LInv'
<1> DEFINE H == ListsOf(Mine(r))
           answers == [l \in DOMAIN legs[r] \cup {leg} |->
                         IF l = leg THEN Ranked(rows, leg[2]) ELSE legs[r][l]]
           together == [i \in 1..2 |-> LET l == <<leg[1], <<"vector", "lexical">>[i]>>
                                       IN  IF l \in DOMAIN answers THEN answers[l] ELSE <<>>]
           given == {i \in 1..2 : together[i] # <<>>}
<1>0. Kind /\ Recalling(r)
  BY DEF LInv
<1>1. /\ rat[r] = "searching" /\ UNCHANGED <<facts, rat, asks, context>>
      /\ legs' = [legs EXCEPT ![r] = answers]
      /\ \/ lists' = [lists EXCEPT ![r] = lists[r]]
         \/ lists' = [lists EXCEPT ![r] = lists[r] \o Kept(together, given)]
  <2>1. rat[r] = "searching" /\ UNCHANGED <<facts, rat, asks, context>>
    BY DEF Settle, Idle, writing
  <2>2. legs' = [legs EXCEPT ![r] = answers]
    BY DEF Settle
  <2>3. \/ lists' = [lists EXCEPT ![r] = lists[r]]
        \/ lists' = [lists EXCEPT ![r] = lists[r] \o Kept(together, given)]
    BY DEF Settle
  <2> HIDE DEF answers, together, given
  <2> QED BY <2>1, <2>2, <2>3
<1>2. Ranked(rows, leg[2]) \in H
  <2>1. leg[2] \in {"vector", "lexical"}
    BY DEF Legs
  <2> QED BY <2>1, RankedHits
<1>3. \A l \in DOMAIN answers : answers[l] \in H
  BY <1>0, <1>2 DEF Recalling
<1> HIDE DEF answers, H
<1>4. <<>> \in H
  BY DEF H, ListsOf, Clean
<1>5. together \in [1..2 -> H]
  BY <1>3, <1>4
<1>6. given \subseteq DOMAIN together
  BY <1>5
<1> HIDE DEF together, given
<1>7. together \in Seq(H)
  <2> DEFINE n == 2
  <2>1. n \in Nat /\ together \in [1..n -> H]
    BY <1>5
  <2> HIDE DEF n
  <2> QED BY <2>1
<1>8. Kept(together, given) \in Seq(H)
  BY <1>6, <1>7, KeptItems
<1>9. lists[r] \in Seq(H)
  BY <1>0 DEF Recalling, H
<1>10. lists[r] \o Kept(together, given) \in Seq(H)
  BY <1>8, <1>9
<1>11. lists'[r] \in Seq(H)
  BY <1>0, <1>1, <1>9, <1>10 DEF Kind
<1>12. legs'[r] = answers /\ Kind' /\ context'[r] = context[r] /\ rat'[r] # "idle"
  BY <1>0, <1>1 DEF Kind
<1>13. \A s \in Reads \ {r} : /\ rat'[s] = rat[s] /\ legs'[s] = legs[s] /\ lists'[s] = lists[s]
                              /\ context'[s] = context[s]
  BY <1>0, <1>1 DEF Kind
<1>14. Injectable(r, context'[r])
  BY <1>0, <1>12 DEF Recalling
<1> QED BY <1>1, <1>3, <1>11, <1>12, <1>13, <1>14, RecallStage DEF H

(* A search may return rows of the user only. *)
LEMMA AnswersMine ==
  ASSUME WInv, NEW r \in Reads, NEW leg, NEW found \in SUBSET Candidates(r, leg),
         NEW rows \in SetToSeqs(found)
  PROVE  rows \in Seq(Mine(r)) /\ \A i, j \in DOMAIN rows : i # j => rows[i] # rows[j]
<1>1. found \subseteq facts \cup Mirror /\ found \subseteq Mine(r)
  BY DEF Candidates, Mine, AllRows
<1>2. IsFiniteSet(facts \cup Mirror)
  BY FS_Union, MemoryAssumption DEF WInv, Rows
<1>3. IsFiniteSet(found)
  BY <1>1, <1>2, FS_Subset
<1> DEFINE n == Cardinality(found)
<1>4. n \in Nat
  BY <1>3, FS_CardinalityType
<1>5. rows \in [1..n -> found] /\ \A i, j \in 1..n : rows[i] = rows[j] => i = j
  BY DEF SetToSeqs, IsInjective
<1> HIDE DEF n
<1>6. rows \in Seq(found) /\ DOMAIN rows = 1..n
  BY <1>4, <1>5
<1> QED BY <1>1, <1>5, <1>6, SeqWider

(* What is retrieved and is not of this session may be injected. *)
LEMMA PromptableIs ==
  ASSUME LInv, NEW r \in Reads
  PROVE  Injectable(r, Promptable(r))
<1> DEFINE R == Mine(r)
           items == hybridRetrieve(lists[r])
           rows == RowsOf(items)
           others == {i \in DOMAIN rows : ~OfThisSession(r, rows[i])}
           kept == Kept(rows, others)
<1>1. items \in Seq(ItemsOf(R)) /\ OnceEach(items) /\ Len(items) <= TopK
  <2>1. Rankable(R)
    BY MineRankable DEF LInv
  <2> DEFINE U == ListsOf(R)
  <2>2. lists[r] \in Seq(U)
    BY DEF LInv, Recalling
  <2> HIDE DEF U
  <2>3. Len(lists[r]) \in Nat /\ \A n \in 1..Len(lists[r]) : lists[r][n] \in U
    BY <2>2
  <2> HIDE DEF R
  <2> QED BY <2>1, <2>3, Retrieves DEF U, ListsOf
<1>2. Promptable(r) = kept
  BY DEF Promptable
<1> HIDE DEF items, R
<1> DEFINE N == Len(items)
<1>3. N \in Nat /\ DOMAIN items = 1..N /\ \A i \in 1..N : items[i] \in ItemsOf(R)
  BY <1>1
<1>4. rows \in [1..N -> R] /\ \A i, j \in 1..N : i # j => rows[i] # rows[j]
  BY <1>1, <1>3 DEF RowsOf, ItemsOf, OnceEach
<1> HIDE DEF rows, N
<1>5. rows \in Seq(R) /\ Len(rows) = N /\ DOMAIN rows = 1..N
  BY <1>3, <1>4
<1>6. others \subseteq DOMAIN rows /\ \A i \in others : ~OfThisSession(r, rows[i])
  OBVIOUS
<1> HIDE DEF others
<1>7. kept \in Seq(R) /\ Len(kept) <= Len(rows) /\ \E from : ComesFrom(kept, rows, others, from)
  BY <1>5, <1>6, KeptItems
<1> HIDE DEF kept
<1>8. PICK from : ComesFrom(kept, rows, others, from)
  BY <1>7
<1>9. DOMAIN kept = 1..Len(kept) /\ Len(kept) \in Nat
  BY <1>7
<1>10. \A k \in 1..Len(kept) : from[k] \in others /\ kept[k] = rows[from[k]]
  BY <1>8 DEF ComesFrom
<1>11. ASSUME NEW k \in 1..Len(kept), NEW l \in 1..Len(kept), k # l PROVE kept[k] # kept[l]
  <2>1. k < l \/ l < k
    BY <1>9, <1>11
  <2>2. from[k] < from[l] \/ from[l] < from[k]
    BY <1>8, <2>1 DEF ComesFrom
  <2>3. from[k] \in 1..N /\ from[l] \in 1..N
    BY <1>5, <1>6, <1>10
  <2>4. from[k] # from[l]
    BY <1>3, <2>2, <2>3
  <2> QED BY <1>4, <1>10, <2>3, <2>4
<1>12. Len(kept) <= TopK
  BY <1>1, <1>3, <1>5, <1>7, <1>9, RetrievalAssumption DEF N
<1>13. kept \in Seq(Mine(r))
  BY <1>7 DEF R
<1> QED BY <1>2, <1>6, <1>9, <1>10, <1>11, <1>12, <1>13 DEF Injectable

(* And so may facts of the user that a find gives. *)
LEMMA FoundInjectable ==
  ASSUME WInv, LInv, NEW r \in Reads, NEW a, NEW matches, matches \subseteq FactsOf(facts, asks[r].user, a),
         NEW rows \in Newest(matches)
  PROVE  Injectable(r, rows)
<1>1. /\ matches \subseteq facts /\ matches \subseteq Mine(r)
      /\ \A row \in matches : ~OfThisSession(r, row)
  BY DEF FactsOf, Mine, AllRows, OfThisSession, LInv, FactRows
<1>2. IsFiniteSet(matches)
  BY <1>1, FS_Subset DEF WInv, Rows
<1>3. PICK s \in SetToSeqs(matches) : rows = SubSeq(s, 1, IF Len(s) < TopK THEN Len(s) ELSE TopK)
  BY DEF Newest
<1> DEFINE n == Cardinality(matches)
           k == IF Len(s) < TopK THEN Len(s) ELSE TopK
<1>4. n \in Nat
  BY <1>2, FS_CardinalityType
<1>5. s \in [1..n -> matches] /\ \A i, j \in 1..n : s[i] = s[j] => i = j
  BY DEF SetToSeqs, IsInjective
<1> HIDE DEF n
<1>6. s \in Seq(matches) /\ Len(s) = n
  BY <1>4, <1>5
<1>7. k \in Nat /\ k <= n /\ k <= TopK
  BY <1>4, <1>6, RetrievalAssumption
<1>8. rows = SubSeq(s, 1, k)
  BY <1>3
<1> HIDE DEF k
<1>9. rows \in Seq(matches) /\ Len(rows) = k /\ \A i \in 1..k : rows[i] = s[i]
  BY <1>4, <1>6, <1>7, <1>8
<1>10. DOMAIN rows = 1..k /\ 1..k \subseteq 1..n
  BY <1>4, <1>7, <1>9
<1>11. \A i, j \in 1..k : i # j => rows[i] # rows[j]
  BY <1>5, <1>9, <1>10
<1>12. \A i \in 1..k : rows[i] \in matches
  BY <1>9, <1>10, ItemIn
<1>13. rows \in Seq(Mine(r))
  BY <1>1, <1>9, SeqWider
<1> QED BY <1>1, <1>7, <1>9, <1>10, <1>11, <1>12, <1>13 DEF Injectable

(* Every step of a read keeps what it holds its user's. *)
LEMMA RecallStep ==
  ASSUME WInv, LInv, NEW r \in Reads, Read(r)
  PROVE  LInv'
<1>0. Kind /\ Recalling(r) /\ FactRows
  BY DEF LInv
<1>1. ASSUME NEW ask \in Asks, readLongTermMemoryContext(r, ask) PROVE LInv'
  <2>1. /\ rat[r] = "idle" /\ asks' = [asks EXCEPT ![r] = ask]
        /\ UNCHANGED <<facts, legs, lists, context>>
        /\ rat' = [rat EXCEPT ![r] =
             IF ask.user = NoUser \/ ask.query = "blank" \/ ~database THEN "ended" ELSE "connecting"]
    BY <1>1 DEF readLongTermMemoryContext, RTo, Idle, writing
  <2>2. Kind' /\ rat'[r] # "idle"
    BY <1>0, <2>1 DEF Kind
  <2>3. \A s \in Reads \ {r} : rat'[s] = rat[s] /\ asks'[s] = asks[s]
    BY <1>0, <2>1 DEF Kind
  <2>4. RowsMove
    BY <2>1 DEF RowsMove
  <2>5. \A s \in Reads \ {r} : Recalling(s)'
    BY <2>1, <2>3, <2>4, RecallsElsewhere DEF LInv
  <2>6. Recalling(r)'
    <3>1. DOMAIN legs'[r] = {} /\ lists'[r] = <<>> /\ context'[r] = <<>>
      BY <1>0, <2>1 DEF Recalling
    <3>2. \A S : <<>> \in Seq(S)
      OBVIOUS
    <3>3. Len(<<>>) = 0 /\ DOMAIN <<>> = {}
      OBVIOUS
    <3>4. Injectable(r, context[r])'
      BY <3>1, <3>2, <3>3, RetrievalAssumption DEF Injectable
    <3> QED BY <2>2, <3>1, <3>2, <3>4 DEF Recalling
  <2>7. FactRows'
    BY <1>0, <2>1 DEF FactRows
  <2> QED BY <2>2, <2>5, <2>6, <2>7 DEF LInv
<1>2. ASSUME NEW place, place # "idle", rat' = [rat EXCEPT ![r] = place],
             UNCHANGED <<facts, asks, legs, lists, context>>
      PROVE  LInv'
  <2>1. Kind' /\ rat'[r] # "idle" /\ \A s \in Reads \ {r} : rat'[s] = rat[s]
    BY <1>0, <1>2 DEF Kind
  <2>2. /\ \A leg \in DOMAIN legs'[r] : legs'[r][leg] \in ListsOf(Mine(r))
        /\ lists'[r] \in Seq(ListsOf(Mine(r))) /\ Injectable(r, context'[r])
    BY <1>0, <1>2 DEF Recalling
  <2> QED BY <1>2, <2>1, <2>2, RecallStage
<1>3. ASSUME Connect(r) \/ (\E answer \in Answers : EmbedQuery(r, answer)) \/ FindFails(r) PROVE LInv'
  <2>1. UNCHANGED <<facts, asks, legs, lists, context>>
    BY <1>3 DEF Connect, EmbedQuery, FindFails, Idle, writing
  <2>2. PICK place \in {"embedding", "threw", "searching", "ended"} : rat' = [rat EXCEPT ![r] = place]
    BY <1>3 DEF Connect, EmbedQuery, FindFails, RTo
  <2>3. place # "idle"
    OBVIOUS
  <2> QED BY <1>2, <2>1, <2>2, <2>3
<1>4. ASSUME NEW leg \in Legs(r), SearchAnswers(r, leg) PROVE LInv'
  <2>1. PICK found \in SUBSET Candidates(r, leg) : \E rows \in SetToSeqs(found) : Settle(r, leg, rows)
    BY <1>4 DEF SearchAnswers
  <2>2. PICK rows \in SetToSeqs(found) : Settle(r, leg, rows)
    BY <2>1
  <2>3. rows \in Seq(Mine(r)) /\ \A i, j \in DOMAIN rows : i # j => rows[i] # rows[j]
    BY AnswersMine
  <2> QED BY <2>2, <2>3, SettleStep
<1>5. ASSUME NEW leg \in Legs(r), SearchTimesOut(r, leg) PROVE LInv'
  <2>1. Settle(r, leg, <<>>)
    BY <1>5 DEF SearchTimesOut
  <2>2. <<>> \in Seq(Mine(r)) /\ DOMAIN <<>> = {}
    OBVIOUS
  <2> QED BY <2>1, <2>2, SettleStep
<1>6. ASSUME NEW rows, Injectable(r, rows), context' = [context EXCEPT ![r] = rows],
             NEW place, place # "idle", rat' = [rat EXCEPT ![r] = place], UNCHANGED <<facts, asks>>,
             \/ UNCHANGED <<legs, lists>>
             \/ legs' = [legs EXCEPT ![r] = [l \in {} |-> <<>>]] /\ lists' = [lists EXCEPT ![r] = <<>>]
      PROVE  LInv'
  <2>1. /\ Kind' /\ rat'[r] # "idle" /\ context'[r] = rows
        /\ \A s \in Reads \ {r} : /\ rat'[s] = rat[s] /\ legs'[s] = legs[s] /\ lists'[s] = lists[s]
                                  /\ context'[s] = context[s]
    BY <1>0, <1>6 DEF Kind
  <2>2. /\ \A leg \in DOMAIN legs'[r] : legs'[r][leg] \in ListsOf(Mine(r))
        /\ lists'[r] \in Seq(ListsOf(Mine(r)))
    <3>1. CASE UNCHANGED <<legs, lists>>
      BY <1>0, <3>1 DEF Recalling
    <3>2. CASE legs' = [legs EXCEPT ![r] = [l \in {} |-> <<>>]] /\ lists' = [lists EXCEPT ![r] = <<>>]
      <4>1. DOMAIN legs'[r] = {} /\ lists'[r] = <<>>
        BY <1>0, <3>2 DEF Kind
      <4>2. \A S : <<>> \in Seq(S)
        OBVIOUS
      <4> QED BY <4>1, <4>2
    <3> QED BY <1>6, <3>1, <3>2
  <2>3. Injectable(r, context'[r])
    BY <1>6, <2>1
  <2> QED BY <1>6, <2>1, <2>2, <2>3, RecallStage
<1>7. ASSUME Rank(r) PROVE LInv'
  <2> DEFINE rows == Promptable(r)
             place == IF rows = <<>> THEN "keyword" ELSE "ended"
  <2>1. /\ context' = [context EXCEPT ![r] = rows] /\ rat' = [rat EXCEPT ![r] = place]
        /\ legs' = [legs EXCEPT ![r] = [l \in {} |-> <<>>]] /\ lists' = [lists EXCEPT ![r] = <<>>]
        /\ UNCHANGED <<facts, asks>>
    BY <1>7 DEF Rank, RTo, Idle, writing
  <2>2. place # "idle"
    OBVIOUS
  <2>3. Injectable(r, rows)
    BY PromptableIs
  <2> HIDE DEF rows, place
  <2> QED BY <1>6, <2>1, <2>2, <2>3
<1>8. ASSUME FindByKeyword(r) \/ FindRecent(r) PROVE LInv'
  <2> DEFINE known == FactsOf(facts, asks[r].user, asks[r].agent)
  <2>1. UNCHANGED <<facts, asks, legs, lists>>
    BY <1>8 DEF FindByKeyword, FindRecent, Idle, writing
  <2>2. PICK place \in {"recent", "ended"} : rat' = [rat EXCEPT ![r] = place]
    BY <1>8 DEF FindByKeyword, FindRecent, RTo
  <2>3. PICK matches \in SUBSET known : \E rows \in Newest(matches) : context' = [context EXCEPT ![r] = rows]
    <3>1. CASE FindByKeyword(r)
      <4>1. PICK hasKeywords \in BOOLEAN :
              \E matches \in (IF hasKeywords THEN SUBSET known ELSE {known}) :
                \E rows \in Newest(matches) : context' = [context EXCEPT ![r] = rows]
        BY <3>1 DEF FindByKeyword
      <4> QED BY <4>1
    <3>2. CASE FindRecent(r)
      BY <3>2 DEF FindRecent
    <3> QED BY <1>8, <3>1, <3>2
  <2>4. PICK rows \in Newest(matches) : context' = [context EXCEPT ![r] = rows]
    BY <2>3
  <2>5. Injectable(r, rows)
    BY FoundInjectable
  <2>6. place # "idle"
    OBVIOUS
  <2> QED BY <1>6, <2>1, <2>2, <2>4, <2>5, <2>6
<1> QED BY <1>1, <1>3, <1>4, <1>5, <1>7, <1>8 DEF Read

(* So does every other step: rows come that have what they are ranked by,  *)
(* and none is forgotten.                                                  *)
LEMMA NextLInv == WInv /\ LInv /\ [MemoryNext]_vars => LInv'
<1> SUFFICES ASSUME WInv, LInv, [MemoryNext]_vars PROVE LInv'
  OBVIOUS
<1>0. Kind /\ FactRows
  BY DEF LInv
<1>1. ASSUME UNCHANGED reading, FactRows' PROVE LInv'
  <2>1. UNCHANGED <<rat, asks, legs, lists, context>>
    BY <1>1 DEF reading
  <2>2. Kind'
    BY <1>0, <2>1 DEF Kind
  <2>3. ASSUME NEW r \in Reads PROVE Recalling(r)'
    BY <2>1, NextWInv, RecallsElsewhere DEF LInv
  <2> QED BY <1>1, <2>2, <2>3 DEF LInv
<1>2. ASSUME NEW w \in Writes, Write(w) PROVE UNCHANGED reading /\ FactRows'
  <2>1. CASE Upsert(w)
    <3> DEFINE row == Row(turn[w].user, turn[w].agent, accepted[w][next[w]], vectors[w][next[w]])
    <3>1. UNCHANGED reading /\ facts' \in {facts, facts \cup {row}}
      BY <2>1 DEF Upsert
    <3>2. row.coll = "facts" /\ row.age \in DOMAIN Decay
      BY MemoryAssumption DEF Row
    <3> HIDE DEF row
    <3> QED BY <1>0, <3>1, <3>2 DEF FactRows
  <2>2. CASE ~Upsert(w)
    <3>1. UNCHANGED <<reading, facts>>
      BY <1>2, <2>2 DEF Write, writeLongTermMemory, extractFactCandidates, ensureTtlIndex, EmbedFacts,
                        BulkEnds, agentcoreWrite
    <3> QED BY <1>0, <3>1 DEF FactRows
  <2> QED BY <2>1, <2>2
<1>3. ASSUME NEW row \in facts, Expire(row) PROVE UNCHANGED reading /\ FactRows'
  BY <1>0, <1>3 DEF Expire, FactRows
<1>4. CASE UNCHANGED vars
  <2>1. UNCHANGED <<reading, facts>>
    BY <1>4 DEF vars, writing
  <2> QED BY <1>0, <1>1, <2>1 DEF FactRows
<1> QED BY <1>1, <1>2, <1>3, <1>4, RecallStep DEF MemoryNext

LEMMA InitLInv == MemoryInit => LInv
<1> SUFFICES ASSUME MemoryInit PROVE LInv
  OBVIOUS
<1>1. Kind
  BY DEF MemoryInit, Kind
<1>2. FactRows
  BY MemoryAssumption DEF MemoryInit, FactRows
<1>3. ASSUME NEW r \in Reads PROVE Recalling(r)
  <2>1. DOMAIN legs[r] = {} /\ lists[r] = <<>> /\ context[r] = <<>>
    BY DEF MemoryInit
  <2>2. \A S : <<>> \in Seq(S)
    OBVIOUS
  <2>3. Len(<<>>) = 0 /\ DOMAIN <<>> = {}
    OBVIOUS
  <2>4. Injectable(r, context[r])
    BY <2>1, <2>2, <2>3, RetrievalAssumption DEF Injectable
  <2> QED BY <2>1, <2>2, <2>4 DEF Recalling
<1> QED BY <1>1, <1>2, <1>3 DEF LInv

(* Whatever searches answer or fail and however many reads, writes and     *)
(* expirations interleave, what is injected into a turn is its user's, is  *)
(* not of its session, and is there once and at most TopK times.           *)
THEOREM RecallsOwn == MemorySpec => []RecallsOwnOnce
<1>1. MemorySpec => MemoryInit /\ [][MemoryNext]_vars
  BY DEF MemorySpec
<1>2. LInv => RecallsOwnOnce
  <2> SUFFICES ASSUME LInv, NEW r \in Reads
               PROVE  /\ Len(context[r]) <= TopK
                      /\ \A i, j \in DOMAIN context[r] : i # j => context[r][i] # context[r][j]
                      /\ \A i \in DOMAIN context[r] :
                           context[r][i].user = asks[r].user /\ ~OfThisSession(r, context[r][i])
    BY DEF RecallsOwnOnce
  <2>1. Injectable(r, context[r])
    BY DEF LInv, Recalling
  <2>2. ASSUME NEW i \in DOMAIN context[r] PROVE context[r][i].user = asks[r].user
    <3>1. context[r][i] \in Mine(r)
      BY <2>1, ItemIn DEF Injectable
    <3> QED BY <3>1 DEF Mine
  <2> QED BY <2>1, <2>2 DEF Injectable
<1> QED BY <1>1, <1>2, WritesInductive, InitLInv, NextLInv, PTL

-----------------------------------------------------------------------------
(* Before any item of row a there is one of row b that scores no less.     *)
Leads(items, b, a) ==
  \A j \in DOMAIN items : items[j].row = a =>
    \E i \in DOMAIN items : i < j /\ items[i].row = b /\ items[i].score >= items[j].score

(* Sorting keeps a lead: what scores no less and is before stays before. *)
LEMMA SortKeepsLead ==
  ASSUME NEW R, NEW items \in Seq(ItemsOf(R)), NEW a, NEW b, Leads(items, b, a)
  PROVE  Leads(SortedByScore(items), b, a)
<1> DEFINE places == DOMAIN items
           score == [i \in places |-> items[i].score]
           order == ByScore(score, places)
           sorted == [n \in DOMAIN order |-> items[order[n]]]
           N == Len(items)
<1>1. N \in Nat /\ places = 1..N /\ \A i \in places : items[i] \in ItemsOf(R)
  OBVIOUS
<1>2. places \subseteq Nat /\ IsFiniteSet(places) /\ Cardinality(places) = N
  <2>1. IsFiniteSet(1..N) /\ Cardinality(1..N) = N
    BY <1>1, FS_Interval
  <2> QED BY <1>1, <2>1
<1>3. \A i \in places : score[i] \in Int /\ score[i] = items[i].score
  BY <1>1 DEF ItemsOf
<1>4. SortedByScore(items) = SubSeq(sorted, 1, N)
  BY DEF SortedByScore
<1>0. \A j \in places : items[j].row = a =>
        \E i \in places : i < j /\ items[i].row = b /\ items[i].score >= items[j].score
  BY DEF Leads
<1> HIDE DEF places, score
<1>5. order \in Seq(places) /\ Len(order) = Cardinality(places)
  BY <1>2, <1>3, BestScored
<1> HIDE DEF N
<1>6. DOMAIN order = 1..N /\ \A n \in 1..N : order[n] \in places
  <2> HIDE DEF order
  <2> QED BY <1>1, <1>2, <1>5
<1>7. sorted \in [1..N -> ItemsOf(R)] /\ \A n \in 1..N : sorted[n] = items[order[n]]
  <2> HIDE DEF order
  <2> QED BY <1>1, <1>6
<1>8. ASSUME NEW n \in 1..N, sorted[n].row = a
      PROVE  \E m \in 1..N : m < n /\ sorted[m].row = b /\ sorted[m].score >= sorted[n].score
  <2> DEFINE j == order[n]
  <2>1. j \in places /\ items[j].row = a /\ n \in DOMAIN order
    <3> HIDE DEF order, sorted
    <3> QED BY <1>6, <1>7, <1>8
  <2> HIDE DEF j
  <2>2. PICK i \in places : i < j /\ items[i].row = b /\ items[i].score >= items[j].score
    BY <1>0, <2>1
  <2>3. score[i] >= score[j]
    BY <1>3, <2>1, <2>2
  <2>4. \E m \in DOMAIN order : m < n /\ order[m] = i
    BY <1>2, <1>3, <2>1, <2>2, <2>3, StaysAhead DEF j
  <2> HIDE DEF order, sorted
  <2>5. PICK m \in 1..N : m < n /\ order[m] = i
    BY <1>6, <2>4
  <2>6. sorted[m] = items[i] /\ sorted[n] = items[j]
    BY <1>7, <2>5 DEF j
  <2> QED BY <2>2, <2>5, <2>6
<1> HIDE DEF sorted
<1>9. sorted \in Seq(ItemsOf(R)) /\ Len(sorted) = N /\ DOMAIN sorted = 1..N
  BY <1>1, <1>7
<1>10. SubSeq(sorted, 1, N) = sorted
  BY <1>1, <1>9
<1>11. Leads(sorted, b, a)
  BY <1>8, <1>9 DEF Leads
<1> QED BY <1>4, <1>10, <1>11

(* So does a filter that keeps with every item of a some b that leads it. *)
LEMMA KeepsLead ==
  ASSUME NEW R, NEW items \in Seq(ItemsOf(R)), NEW places, places \subseteq DOMAIN items, NEW a, NEW b,
         \A j \in places : items[j].row = a =>
           \E i \in places : i < j /\ items[i].row = b /\ items[i].score >= items[j].score
  PROVE  Leads(Kept(items, places), b, a)
<1> DEFINE kept == Kept(items, places)
<1>1. kept \in Seq(ItemsOf(R)) /\ \E from : ComesFrom(kept, items, places, from)
  BY KeptItems
<1> HIDE DEF kept
<1>2. PICK from : ComesFrom(kept, items, places, from)
  BY <1>1
<1>3. DOMAIN kept = 1..Len(kept) /\ Len(kept) \in Nat
  BY <1>1
<1>4. ASSUME NEW l \in 1..Len(kept), kept[l].row = a
      PROVE  \E k \in 1..Len(kept) : k < l /\ kept[k].row = b /\ kept[k].score >= kept[l].score
  <2>1. from[l] \in places /\ kept[l] = items[from[l]]
    BY <1>2 DEF ComesFrom
  <2>2. PICK i \in places : i < from[l] /\ items[i].row = b /\ items[i].score >= items[from[l]].score
    BY <1>4, <2>1
  <2>3. PICK k \in 1..Len(kept) : from[k] = i
    BY <1>2 DEF ComesFrom
  <2>4. kept[k] = items[i]
    BY <1>2, <2>3 DEF ComesFrom
  <2>5. ~(l < k) /\ l # k
    <3>1. l < k => from[l] < from[k]
      BY <1>2 DEF ComesFrom
    <3>2. from[l] \in Nat /\ from[k] \in Nat
      BY <2>1, <2>2, <2>3
    <3> QED BY <2>2, <2>3, <3>1, <3>2
  <2>6. k < l
    BY <1>3, <2>5
  <2> QED BY <2>1, <2>2, <2>4, <2>6
<1> QED BY <1>3, <1>4 DEF Leads, kept

(* So do weights and decay, which are the same for one collection and age. *)
LEMMA WeighsLead ==
  ASSUME NEW R, Rankable(R), NEW items \in Seq(ItemsOf(R)), NEW a \in R, NEW b \in R, Leads(items, b, a),
         a.coll = b.coll, a.age = b.age
  PROVE  /\ Leads(applyCollectionWeights(items), b, a)
         /\ Leads(applyRecencyDecay(items), b, a)
<1> DEFINE N == Len(items)
<1>1. N \in Nat /\ DOMAIN items = 1..N /\ \A i \in 1..N : items[i] \in ItemsOf(R)
  OBVIOUS
<1>2. ASSUME NEW factor, \A i \in 1..N : factor[i] \in Nat,
             \A i, j \in 1..N : items[i].row = b /\ items[j].row = a => factor[i] = factor[j]
      PROVE  LET scored == [i \in DOMAIN items |-> [items[i] EXCEPT !.score = @ * factor[i]]]
             IN  Leads(SortedByScore(scored), b, a)
  <2> DEFINE scored == [i \in DOMAIN items |-> [items[i] EXCEPT !.score = @ * factor[i]]]
  <2>1. ASSUME NEW i \in 1..N
        PROVE  /\ [items[i] EXCEPT !.score = @ * factor[i]] \in ItemsOf(R)
               /\ [items[i] EXCEPT !.score = @ * factor[i]].row = items[i].row
               /\ [items[i] EXCEPT !.score = @ * factor[i]].score = items[i].score * factor[i]
    <3>1. items[i] \in ItemsOf(R) /\ items[i].score * factor[i] \in Int
      <4>1. items[i].score \in Int /\ factor[i] \in Int
        BY <1>1, <1>2 DEF ItemsOf
      <4> QED BY <1>1, <4>1
    <3> DEFINE s == items[i].score * factor[i]
    <3> HIDE DEF s
    <3>2. /\ [items[i] EXCEPT !.score = s] \in ItemsOf(R) /\ [items[i] EXCEPT !.score = s].row = items[i].row
          /\ [items[i] EXCEPT !.score = s].score = s
      BY <3>1 DEF ItemsOf, s
    <3> QED BY <3>2 DEF s
  <2>2. /\ scored \in [1..N -> ItemsOf(R)] /\ \A i \in 1..N : scored[i].row = items[i].row
        /\ \A i \in 1..N : scored[i].score = items[i].score * factor[i]
    BY <1>1, <2>1
  <2> HIDE DEF scored
  <2>3. scored \in Seq(ItemsOf(R)) /\ DOMAIN scored = 1..N
    BY <1>1, <2>2
  <2>4. ASSUME NEW j \in 1..N, scored[j].row = a
        PROVE  \E i \in 1..N : i < j /\ scored[i].row = b /\ scored[i].score >= scored[j].score
    <3>1. PICK i \in 1..N : i < j /\ items[i].row = b /\ items[i].score >= items[j].score
      BY <1>1, <2>2, <2>4 DEF Leads
    <3>2. factor[i] = factor[j] /\ factor[i] \in Nat
      BY <1>2, <2>2, <2>4, <3>1
    <3>3. items[i].score \in Int /\ items[j].score \in Int
      BY <1>1 DEF ItemsOf
    <3>4. items[i].score * factor[i] >= items[j].score * factor[i]
      BY <3>1, <3>2, <3>3, WeighsAlike
    <3> QED BY <2>2, <3>1, <3>2, <3>4
  <2>5. Leads(scored, b, a)
    BY <2>3, <2>4 DEF Leads
  <2>6. Leads(SortedByScore(scored), b, a)
    BY <2>3, <2>5, SortKeepsLead
  <2> QED BY <2>6 DEF scored
<1>3. ASSUME NEW i \in 1..N
      PROVE  Weights[items[i].row.coll] \in Nat /\ Decay[items[i].row.age] \in Nat
  <2>1. items[i].row.coll \in DOMAIN Weights /\ items[i].row.age \in DOMAIN Decay
    BY <1>1 DEF ItemsOf, Rankable
  <2> QED BY <2>1, RetrievalAssumption
<1> HIDE DEF N
<1>4. Leads(applyCollectionWeights(items), b, a)
  <2> DEFINE factor == [i \in 1..N |-> Weights[items[i].row.coll]]
             scored == [i \in DOMAIN items |-> [items[i] EXCEPT !.score = @ * factor[i]]]
  <2>1. /\ \A i \in 1..N : factor[i] \in Nat
        /\ \A i, j \in 1..N : items[i].row = b /\ items[j].row = a => factor[i] = factor[j]
    BY <1>3
  <2>2. scored = [i \in DOMAIN items |-> [items[i] EXCEPT !.score = @ * Weights[items[i].row.coll]]]
    BY <1>1
  <2>3. applyCollectionWeights(items) = SortedByScore(scored)
    BY <2>2 DEF applyCollectionWeights
  <2> HIDE DEF factor
  <2> QED BY <1>2, <2>1, <2>3
<1>5. Leads(applyRecencyDecay(items), b, a)
  <2> DEFINE factor == [i \in 1..N |-> Decay[items[i].row.age]]
             scored == [i \in DOMAIN items |-> [items[i] EXCEPT !.score = @ * factor[i]]]
  <2>1. /\ \A i \in 1..N : factor[i] \in Nat
        /\ \A i, j \in 1..N : items[i].row = b /\ items[j].row = a => factor[i] = factor[j]
    BY <1>3
  <2>2. scored = [i \in DOMAIN items |-> [items[i] EXCEPT !.score = @ * Decay[items[i].row.age]]]
    BY <1>1
  <2>3. applyRecencyDecay(items) = SortedByScore(scored)
    BY <2>2 DEF applyRecencyDecay
  <2> HIDE DEF factor
  <2> QED BY <1>2, <2>1, <2>3
<1> QED BY <1>4, <1>5

-----------------------------------------------------------------------------

(* m says for each hit of row a which hit of row b is better and before,   *)
(* another for each.                                                       *)
Outdone(list, b, a, m) ==
  /\ \A j \in DOMAIN list : list[j].row = a =>
       m[j] \in DOMAIN list /\ m[j] < j /\ list[m[j]].row = b /\ list[m[j]].rank < list[j].rank
  /\ \A i, j \in DOMAIN list : list[i].row = a /\ list[j].row = a /\ m[i] = m[j] => i = j

(* Where b is ahead of a in a list that a search gave, it is so. *)
LEMMA OneOutdone ==
  ASSUME NEW R, NEW list \in Seq(HitsOf(R)), Clean(list), NEW a, NEW b,
         Has(list, a) => Has(list, b) /\ Place(list, b) < Place(list, a)
  PROVE  \E m : Outdone(list, b, a, m)
<1> DEFINE N == Len(list)
           m == [j \in 1..N |-> Place(list, b)]
<1>1. N \in Nat /\ DOMAIN list = 1..N
  OBVIOUS
<1> HIDE DEF N
<1>2. \A c : Has(list, c) => Place(list, c) \in 1..N /\ list[Place(list, c)].row = c
  BY <1>1 DEF Has, Place
<1>3. \A j \in 1..N : list[j].row = a => Has(list, a) /\ j = Place(list, a)
  <2> TAKE j \in 1..N
  <2> HAVE list[j].row = a
  <2>1. Has(list, a)
    BY <1>1 DEF Has
  <2>2. Place(list, a) \in 1..N /\ list[Place(list, a)].row = a
    BY <1>2, <2>1
  <2>3. \A i, k \in 1..N : i # k => list[i].row # list[k].row
    BY <1>1 DEF Clean
  <2> QED BY <2>1, <2>2, <2>3
<1>4. \A i \in 1..N : list[i].rank = i
  BY <1>1 DEF Clean
<1>5. ASSUME NEW j \in 1..N, list[j].row = a
      PROVE  m[j] \in 1..N /\ m[j] < j /\ list[m[j]].row = b /\ list[m[j]].rank < list[j].rank
  <2>1. Has(list, a) /\ j = Place(list, a)
    BY <1>3, <1>5
  <2>2. m[j] = Place(list, b)
    OBVIOUS
  <2> HIDE DEF m
  <2>3. m[j] \in 1..N /\ list[m[j]].row = b /\ m[j] < j
    BY <1>2, <2>1, <2>2
  <2> QED BY <1>4, <2>3
<1>6. \A i, j \in 1..N : list[i].row = a /\ list[j].row = a => i = j
  BY <1>3
<1>7. Outdone(list, b, a, m)
  <2> HIDE DEF m
  <2> QED BY <1>1, <1>5, <1>6 DEF Outdone
<1> QED BY <1>7

(* Of two lists one after the other it is so if it is of each. *)
LEMMA JoinOutdone ==
  ASSUME NEW H, NEW s \in Seq(H), NEW t \in Seq(H), NEW a, NEW b,
         NEW m, Outdone(s, b, a, m), NEW p, Outdone(t, b, a, p)
  PROVE  \E q : Outdone(s \o t, b, a, q)
<1> DEFINE L == Len(s)
           N == Len(t)
           u == s \o t
           q == [j \in 1..(L + N) |-> IF j <= L THEN m[j] ELSE L + p[j - L]]
<1>1. /\ L \in Nat /\ N \in Nat /\ DOMAIN s = 1..L /\ DOMAIN t = 1..N /\ DOMAIN u = 1..(L + N)
      /\ \A j \in 1..L : u[j] = s[j]
      /\ \A j \in 1..N : u[L + j] = t[j]
  OBVIOUS
<1> HIDE DEF L, N, u
<1>2. /\ \A j \in 1..L : s[j].row = a =>
           m[j] \in 1..L /\ m[j] < j /\ s[m[j]].row = b /\ s[m[j]].rank < s[j].rank
      /\ \A i, j \in 1..L : s[i].row = a /\ s[j].row = a /\ m[i] = m[j] => i = j
  BY <1>1 DEF Outdone
<1>3. /\ \A j \in 1..N : t[j].row = a =>
           p[j] \in 1..N /\ p[j] < j /\ t[p[j]].row = b /\ t[p[j]].rank < t[j].rank
      /\ \A i, j \in 1..N : t[i].row = a /\ t[j].row = a /\ p[i] = p[j] => i = j
  BY <1>1 DEF Outdone
<1>4. /\ \A j \in 1..L : j \in 1..(L + N) /\ q[j] = m[j]
      /\ \A j \in 1..N : L + j \in 1..(L + N) /\ q[L + j] = L + p[j]
  <2>1. \A j \in 1..L : j \in 1..(L + N) /\ j <= L
    BY <1>1
  <2>2. \A j \in 1..N : L + j \in 1..(L + N) /\ ~(L + j <= L) /\ L + j - L = j
    BY <1>1
  <2>3. ASSUME NEW j \in 1..(L + N), ~(j <= L), NEW i, j - L = i PROVE q[j] = L + p[i]
    BY <2>3
  <2>4. \A j \in 1..L : q[j] = m[j]
    BY <2>1
  <2> HIDE DEF q
  <2>5. ASSUME NEW j \in 1..N PROVE q[L + j] = L + p[j]
    <3> DEFINE x == L + j
    <3>1. x \in 1..(L + N) /\ ~(x <= L) /\ x - L = j
      <4>1. j \in Nat /\ j >= 1 /\ j <= N
        BY <1>1
      <4> QED BY <1>1, <4>1
    <3> HIDE DEF x
    <3>2. q[x] = L + p[j]
      BY <2>3, <3>1
    <3> QED BY <3>2 DEF x
  <2> QED BY <2>1, <2>2, <2>4, <2>5
<1> HIDE DEF q
<1>5. ASSUME NEW j \in 1..L, u[j].row = a
      PROVE  q[j] \in 1..L /\ q[j] < j /\ u[q[j]].row = b /\ u[q[j]].rank < u[j].rank
  <2>1. s[j].row = a /\ q[j] = m[j]
    BY <1>1, <1>4, <1>5
  <2>2. q[j] \in 1..L /\ q[j] < j /\ s[q[j]].row = b /\ s[q[j]].rank < s[j].rank
    BY <1>2, <2>1
  <2> QED BY <1>1, <2>2
<1>6. ASSUME NEW j \in 1..N, u[L + j].row = a
      PROVE  /\ q[L + j] = L + p[j] /\ p[j] \in 1..N /\ q[L + j] < L + j
             /\ u[q[L + j]].row = b /\ u[q[L + j]].rank < u[L + j].rank
  <2>1. t[j].row = a /\ q[L + j] = L + p[j]
    BY <1>1, <1>4, <1>6
  <2>2. p[j] \in 1..N /\ p[j] < j /\ t[p[j]].row = b /\ t[p[j]].rank < t[j].rank
    BY <1>3, <2>1
  <2>3. u[L + p[j]] = t[p[j]] /\ u[L + j] = t[j]
    BY <1>1, <2>2
  <2>4. L + p[j] < L + j
    BY <1>1, <2>2
  <2> QED BY <2>1, <2>2, <2>3, <2>4
<1>7. ASSUME NEW j \in 1..(L + N) PROVE j \in 1..L \/ \E k \in 1..N : j = L + k
  <2>1. CASE j <= L
    BY <1>1, <2>1
  <2>2. CASE ~(j <= L)
    <3>1. j - L \in 1..N /\ j = L + (j - L)
      BY <1>1, <2>2
    <3> QED BY <3>1
  <2> QED BY <2>1, <2>2
<1>8. ASSUME NEW j \in 1..(L + N), u[j].row = a
      PROVE  q[j] \in 1..(L + N) /\ q[j] < j /\ u[q[j]].row = b /\ u[q[j]].rank < u[j].rank
  <2>1. CASE j \in 1..L
    <3>1. q[j] \in 1..L
      BY <1>5, <1>8, <2>1
    <3>2. q[j] \in 1..(L + N)
      BY <1>1, <3>1
    <3> QED BY <1>5, <1>8, <2>1, <3>2
  <2>2. ASSUME NEW k \in 1..N, j = L + k
        PROVE  q[j] \in 1..(L + N) /\ q[j] < j /\ u[q[j]].row = b /\ u[q[j]].rank < u[j].rank
    <3>1. q[j] = L + p[k] /\ p[k] \in 1..N
      BY <1>6, <1>8, <2>2
    <3>2. q[j] \in 1..(L + N)
      BY <1>4, <3>1
    <3> QED BY <1>6, <1>8, <2>2, <3>2
  <2> QED BY <1>7, <2>1, <2>2
<1>9. ASSUME NEW i \in 1..(L + N), NEW j \in 1..(L + N), u[i].row = a, u[j].row = a, q[i] = q[j]
      PROVE  i = j
  <2>1. CASE i \in 1..L /\ j \in 1..L
    <3>1. s[i].row = a /\ s[j].row = a /\ m[i] = m[j]
      BY <1>1, <1>4, <1>9, <2>1
    <3> QED BY <1>2, <2>1, <3>1
  <2>2. ASSUME NEW k \in 1..N, NEW l \in 1..N, i = L + k, j = L + l PROVE i = j
    <3>1. t[k].row = a /\ t[l].row = a
      BY <1>1, <1>9, <2>2
    <3>2. L + p[k] = L + p[l] /\ p[k] \in 1..N /\ p[l] \in 1..N
      BY <1>6, <1>9, <2>2
    <3>3. p[k] = p[l]
      BY <1>1, <3>2
    <3>4. k = l
      BY <1>3, <3>1, <3>3
    <3> QED BY <2>2, <3>4
  <2>3. ASSUME NEW k \in 1..L, NEW l \in 1..N, u[k].row = a, u[L + l].row = a PROVE q[k] # q[L + l]
    <3>1. q[k] \in 1..L /\ q[L + l] = L + p[l] /\ p[l] \in 1..N
      BY <1>5, <1>6, <2>3
    <3> QED BY <1>1, <3>1
  <2> QED BY <1>7, <1>9, <2>1, <2>2, <2>3
<1>10. Outdone(u, b, a, q)
  BY <1>1, <1>8, <1>9 DEF Outdone
<1> QED BY <1>10 DEF u

(* And so of all lists that are fused. *)
LEMMA JoinedOutdone ==
  ASSUME NEW R, NEW answers, Len(answers) \in Nat,
         \A n \in 1..Len(answers) : answers[n] \in Seq(HitsOf(R)) /\ Clean(answers[n]), NEW a, NEW b,
         \A n \in 1..Len(answers) : Has(answers[n], a) =>
           Has(answers[n], b) /\ Place(answers[n], b) < Place(answers[n], a)
  PROVE  \E m : Outdone(Joined(answers), b, a, m)
<1> DEFINE U == {s \in Seq(HitsOf(R)) : \E m : Outdone(s, b, a, m)}
<1>1. <<>> \in U
  <2>1. <<>> \in Seq(HitsOf(R)) /\ DOMAIN <<>> = {}
    OBVIOUS
  <2>2. Outdone(<<>>, b, a, <<>>)
    BY <2>1 DEF Outdone
  <2> QED BY <2>1, <2>2
<1>2. ASSUME NEW s \in U, NEW n \in 1..Len(answers) PROVE s \o answers[n] \in U
  <2>1. answers[n] \in Seq(HitsOf(R)) /\ Clean(answers[n]) /\ s \in Seq(HitsOf(R))
    OBVIOUS
  <2>2. PICK p : Outdone(answers[n], b, a, p)
    BY <2>1, OneOutdone
  <2>3. PICK m : Outdone(s, b, a, m)
    OBVIOUS
  <2>4. \E q : Outdone(s \o answers[n], b, a, q)
    <3> DEFINE H == HitsOf(R)
               t == answers[n]
    <3>1. s \in Seq(H) /\ t \in Seq(H) /\ Outdone(t, b, a, p)
      BY <2>1, <2>2
    <3> HIDE DEF H, t
    <3>2. \E q : Outdone(s \o t, b, a, q)
      BY <2>3, <3>1, JoinOutdone
    <3> QED BY <3>2 DEF t
  <2>5. s \o answers[n] \in Seq(HitsOf(R))
    BY <2>1
  <2> QED BY <2>4, <2>5
<1> HIDE DEF U
<1>3. Joined(answers) \in U
  BY <1>1, <1>2, JoinedBy
<1> QED BY <1>3 DEF U

(* Fused, b leads a: its first hit is before that of a, and its score, the *)
(* sum of its shares, has a share that is no less for each of those of a.  *)
LEMMA MergesLead ==
  ASSUME NEW R, NEW answers, Len(answers) \in Nat,
         \A n \in 1..Len(answers) : answers[n] \in Seq(HitsOf(R)) /\ Clean(answers[n]), NEW a, NEW b,
         \A n \in 1..Len(answers) : Has(answers[n], a) =>
           Has(answers[n], b) /\ Place(answers[n], b) < Place(answers[n], a)
  PROVE  Leads(rrfMerge(answers), b, a)
<1> DEFINE hits == Joined(answers)
           firsts == {i \in DOMAIN hits : \A j \in 1..(i - 1) : hits[j].row # hits[i].row}
           share == [i \in DOMAIN hits |-> contribution(hits[i].rank)]
           found(row) == {i \in DOMAIN hits : hits[i].row = row}
           rrfScore(row) == MapThenSumSet(LAMBDA i : share[i], found(row))
           items == [i \in DOMAIN hits |-> [row |-> hits[i].row, score |-> rrfScore(hits[i].row)]]
           N == Len(hits)
<1>1. hits \in Seq(HitsOf(R))
  BY JoinedIn
<1>2. rrfMerge(answers) = SortedByScore(Kept(items, firsts))
  BY DEF rrfMerge
<1>0. PICK m : Outdone(hits, b, a, m)
  BY JoinedOutdone
<1> HIDE DEF hits
<1>3. N \in Nat /\ DOMAIN hits = 1..N /\ \A i \in 1..N : hits[i].row \in R /\ hits[i].rank \in Nat \ {0}
  <2>1. N \in Nat /\ DOMAIN hits = 1..N /\ \A i \in 1..N : hits[i] \in HitsOf(R)
    BY <1>1
  <2> QED BY <2>1 DEF HitsOf
<1> HIDE DEF N
<1>4. \A i \in 1..N : share[i] = Unit \div (60 + hits[i].rank) /\ share[i] \in Nat
  <2> TAKE i \in 1..N
  <2>1. share[i] = Unit \div (60 + hits[i].rank)
    BY <1>3 DEF contribution, K
  <2>2. Unit \in Nat /\ 60 + hits[i].rank \in Nat \ {0}
    BY <1>3 DEF Unit
  <2> HIDE DEF share
  <2> QED BY <2>1, <2>2, QuotientNat
<1> HIDE DEF share
<1>5. ASSUME NEW row
      PROVE  /\ IsFiniteSet(found(row)) /\ found(row) \subseteq 1..N
             /\ rrfScore(row) = SumOver(share, found(row)) /\ rrfScore(row) \in Nat
  <2>1. IsFiniteSet(found(row)) /\ found(row) \subseteq 1..N
    <3>1. IsFiniteSet(1..N) /\ found(row) \subseteq 1..N
      BY <1>3, FS_Interval
    <3> HIDE DEF found
    <3> QED BY <3>1, FS_Subset
  <2>2. rrfScore(row) = SumOver(share, found(row))
    <3> HIDE DEF found
    <3> QED BY DEF MapThenSumSet, MapThenFoldSet, SumOver, AddsUp, SumOf
  <2> HIDE DEF found, rrfScore
  <2> QED BY <1>4, <2>1, <2>2, SumNat
<1>6. rrfScore(b) >= rrfScore(a)
  <2>1. \A j \in found(a) : m[j] \in found(b) /\ hits[m[j]].rank < hits[j].rank
    BY <1>0 DEF Outdone
  <2>2. \A i, j \in found(a) : m[i] = m[j] => i = j
    BY <1>0 DEF Outdone
  <2> HIDE DEF found, rrfScore
  <2>3. ASSUME NEW j \in found(a) PROVE share[j] <= share[m[j]]
    <3>1. j \in 1..N /\ m[j] \in 1..N /\ hits[m[j]].rank < hits[j].rank
      BY <1>5, <2>1
    <3> DEFINE q == hits[m[j]].rank
               p == hits[j].rank
    <3>2. q \in Nat \ {0} /\ p \in Nat \ {0} /\ q < p
      BY <1>3, <3>1
    <3> HIDE DEF q, p
    <3>3. Unit \in Nat /\ 60 + q \in Nat \ {0} /\ 60 + p \in Nat \ {0} /\ 60 + q <= 60 + p
      BY <3>2 DEF Unit
    <3>4. Unit \div (60 + p) <= Unit \div (60 + q)
      BY <3>3, SharedByFewer
    <3> QED BY <1>4, <3>1, <3>4 DEF p, q
  <2>4. \A x \in found(a) \cup found(b) : share[x] \in Nat
    BY <1>4, <1>5
  <2>5. SumOver(share, found(a)) <= SumOver(share, found(b))
    <3> DEFINE A == found(a)
               B == found(b)
    <3>1. /\ IsFiniteSet(A) /\ IsFiniteSet(B) /\ \A x \in A \cup B : share[x] \in Nat
          /\ \A x \in A : m[x] \in B /\ share[x] <= share[m[x]]
          /\ \A x, y \in A : m[x] = m[y] => x = y
      BY <1>5, <2>1, <2>2, <2>3, <2>4
    <3> HIDE DEF A, B
    <3>2. SumOver(share, A) <= SumOver(share, B)
      BY <3>1, SumGrows
    <3> QED BY <3>2 DEF A, B
  <2> QED BY <1>5, <2>5
<1>7. \A row : rrfScore(row) \in Nat
  BY <1>5
<1> HIDE DEF rrfScore
<1>8. /\ items \in [1..N -> ItemsOf(R)]
      /\ \A i \in 1..N : items[i].row = hits[i].row /\ items[i].score = rrfScore(hits[i].row)
  <2>1. ASSUME NEW i \in 1..N PROVE [row |-> hits[i].row, score |-> rrfScore(hits[i].row)] \in ItemsOf(R)
    <3>1. hits[i].row \in R /\ rrfScore(hits[i].row) \in Int
      BY <1>3, <1>7
    <3> QED BY <3>1 DEF ItemsOf
  <2> QED BY <1>3, <2>1
<1>9. ASSUME NEW j \in firsts, hits[j].row = a
      PROVE  \E i \in firsts : i < j /\ hits[i].row = b
  <2> DEFINE S == {i \in 1..N : hits[i].row = b}
  <2>1. m[j] \in S /\ m[j] < j /\ j \in 1..N
    BY <1>0, <1>3, <1>9 DEF Outdone
  <2>2. PICK i \in S : \A k \in S : i <= k
    <3>1. S \subseteq Nat /\ S # {}
      BY <2>1
    <3> HIDE DEF S
    <3> QED BY <3>1, LeastOf
  <2>3. i < j /\ i \in 1..N /\ hits[i].row = b
    <3>1. i <= m[j] /\ m[j] \in 1..N /\ i \in 1..N
      BY <2>1, <2>2
    <3> QED BY <2>1, <2>2, <3>1
  <2>4. ASSUME NEW k \in 1..(i - 1) PROVE hits[k].row # b
    <3>1. k \in 1..N /\ ~(i <= k)
      BY <1>3, <2>3
    <3> QED BY <2>2, <3>1
  <2>5. i \in firsts
    BY <1>3, <2>3, <2>4
  <2> QED BY <2>3, <2>5
<1>10. firsts \subseteq 1..N
  BY <1>3
<1> HIDE DEF items, firsts, found
<1>11. items \in Seq(ItemsOf(R)) /\ DOMAIN items = 1..N
  BY <1>3, <1>8
<1>12. ASSUME NEW j \in firsts, items[j].row = a
       PROVE  \E i \in firsts : i < j /\ items[i].row = b /\ items[i].score >= items[j].score
  <2>1. j \in 1..N /\ hits[j].row = a
    BY <1>8, <1>10, <1>12
  <2>2. PICK i \in firsts : i < j /\ hits[i].row = b
    BY <1>9, <2>1
  <2>3. i \in 1..N
    BY <1>10
  <2>4. items[i].row = b /\ items[i].score = rrfScore(b) /\ items[j].score = rrfScore(a)
    BY <1>8, <2>1, <2>2, <2>3
  <2> QED BY <1>6, <2>2, <2>4
<1>13. Leads(Kept(items, firsts), b, a)
  BY <1>10, <1>11, <1>12, KeepsLead
<1>14. Kept(items, firsts) \in Seq(ItemsOf(R))
  BY <1>10, <1>11, KeptItems
<1>15. Leads(SortedByScore(Kept(items, firsts)), b, a)
  <2> DEFINE kept == Kept(items, firsts)
  <2>1. kept \in Seq(ItemsOf(R)) /\ Leads(kept, b, a)
    BY <1>13, <1>14
  <2> HIDE DEF kept
  <2>2. Leads(SortedByScore(kept), b, a)
    BY <2>1, SortKeepsLead
  <2> QED BY <2>2 DEF kept
<1> QED BY <1>2, <1>15

(* What is retrieved first is then not a: it is the first that the floor   *)
(* leaves, and where a is left b is before it.                             *)
LEMMA RetrievesBest ==
  ASSUME NEW R, Rankable(R), NEW answers, Len(answers) \in Nat,
         \A n \in 1..Len(answers) : answers[n] \in ListsOf(R),
         NEW a \in R, NEW b \in R, a.coll = b.coll, a.age = b.age,
         \A n \in 1..Len(answers) : Has(answers[n], a) =>
           Has(answers[n], b) /\ Place(answers[n], b) < Place(answers[n], a),
         hybridRetrieve(answers) # <<>>
  PROVE  hybridRetrieve(answers)[1].row # a
<1> DEFINE merged == rrfMerge(answers)
           weighted == applyCollectionWeights(merged)
           items == applyRecencyDecay(weighted)
           floor == {i \in DOMAIN items : MinScore = 0 \/ items[i].score >= MinScore}
           kept == Kept(items, floor)
<1>1. hybridRetrieve(answers) = mmrDiversify(kept)
  BY DEF hybridRetrieve
<1>2. \A n \in 1..Len(answers) : answers[n] \in Seq(HitsOf(R)) /\ Clean(answers[n])
  BY DEF ListsOf
<1>3. merged \in Seq(ItemsOf(R)) /\ OnceEach(merged) /\ Leads(merged, b, a)
  <2>1. \A n \in 1..Len(answers) : answers[n] \in Seq(HitsOf(R))
    BY <1>2
  <2>2. merged \in Seq(ItemsOf(R)) /\ OnceEach(merged)
    BY <2>1, Merges
  <2>3. Leads(merged, b, a)
    BY <1>2, MergesLead
  <2> QED BY <2>2, <2>3
<1> HIDE DEF merged
<1>4. weighted \in Seq(ItemsOf(R)) /\ OnceEach(weighted) /\ Leads(weighted, b, a)
  BY <1>3, Weighs, WeighsLead
<1> HIDE DEF weighted
<1>5. items \in Seq(ItemsOf(R)) /\ OnceEach(items) /\ Leads(items, b, a)
  BY <1>4, Weighs, WeighsLead
<1> HIDE DEF items
<1>6. floor \subseteq DOMAIN items
  OBVIOUS
<1>7. ASSUME NEW j \in floor, items[j].row = a
      PROVE  \E i \in floor : i < j /\ items[i].row = b /\ items[i].score >= items[j].score
  <2>1. PICK i \in DOMAIN items : i < j /\ items[i].row = b /\ items[i].score >= items[j].score
    BY <1>5, <1>7 DEF Leads
  <2>2. items[i].score \in Int /\ items[j].score \in Int /\ MinScore \in Nat
    <3>1. items[i] \in ItemsOf(R) /\ items[j] \in ItemsOf(R)
      BY <1>5, <1>6, ItemIn
    <3> QED BY <3>1, RetrievalAssumption DEF ItemsOf
  <2>3. i \in floor
    BY <2>1, <2>2
  <2> QED BY <2>1, <2>3
<1>8. \A i, j \in floor : i # j => items[i].row # items[j].row
  BY <1>5, <1>6 DEF OnceEach
<1> HIDE DEF floor
<1>9. kept \in Seq(ItemsOf(R)) /\ OnceEach(kept) /\ Leads(kept, b, a)
  <2>1. kept \in Seq(ItemsOf(R)) /\ OnceEach(kept)
    BY <1>5, <1>6, <1>8, KeepsItems
  <2>2. Leads(kept, b, a)
    BY <1>5, <1>6, <1>7, KeepsLead
  <2> QED BY <2>1, <2>2
<1> HIDE DEF kept
<1>10. mmrDiversify(kept)[1] = kept[1]
  BY <1>9, Diversifies
<1>11. kept # <<>>
  <2>1. kept = <<>> => Len(kept) = 0
    BY <1>9
  <2>2. Len(kept) = 0 => mmrDiversify(kept) = kept
    BY RetrievalAssumption DEF mmrDiversify
  <2> QED BY <1>1, <2>1, <2>2
<1>12. DOMAIN kept = 1..Len(kept) /\ 1 \in DOMAIN kept
  BY <1>9, <1>11
<1>13. kept[1].row # a
  BY <1>9, <1>12 DEF Leads
<1> QED BY <1>1, <1>10, <1>13

(* The rows in the lists of a read. *)
FoundBy(r) == UNION {{lists[r][n][i].row : i \in DOMAIN lists[r][n]} : n \in DOMAIN lists[r]}

(* The lists of a read are of what it found. *)
LEMMA ListsOfFound ==
  ASSUME LInv, NEW r \in Reads
  PROVE  /\ Rankable(FoundBy(r)) /\ Len(lists[r]) \in Nat /\ DOMAIN lists[r] = 1..Len(lists[r])
         /\ \A n \in 1..Len(lists[r]) : lists[r][n] \in ListsOf(FoundBy(r))
<1> DEFINE U == ListsOf(Mine(r))
           R == FoundBy(r)
<1>1. lists[r] \in Seq(U)
  BY DEF LInv, Recalling
<1> HIDE DEF U
<1>2. /\ Len(lists[r]) \in Nat /\ DOMAIN lists[r] = 1..Len(lists[r])
      /\ \A n \in 1..Len(lists[r]) : lists[r][n] \in U
  BY <1>1
<1>3. ASSUME NEW n \in 1..Len(lists[r])
      PROVE  /\ lists[r][n] \in ListsOf(R)
             /\ {lists[r][n][i].row : i \in DOMAIN lists[r][n]} \subseteq Mine(r)
  <2> DEFINE list == lists[r][n]
             L == Len(list)
  <2>1. list \in Seq(HitsOf(Mine(r))) /\ Clean(list)
    BY <1>2 DEF U, ListsOf
  <2>2. \A i \in DOMAIN list : list[i].row \in R
    BY <1>2 DEF FoundBy
  <2> HIDE DEF list, R
  <2>3. L \in Nat /\ DOMAIN list = 1..L /\ list \in [1..L -> HitsOf(Mine(r))]
    BY <2>1
  <2>4. \A i \in 1..L : list[i] \in HitsOf(R)
    BY <2>2, <2>3 DEF HitsOf
  <2>5. list \in [1..L -> HitsOf(R)]
    BY <2>3, <2>4
  <2> HIDE DEF L
  <2>6. list \in Seq(HitsOf(R))
    BY <2>3, <2>5
  <2>7. \A i \in DOMAIN list : list[i].row \in Mine(r)
    BY <2>3 DEF HitsOf
  <2> QED BY <2>1, <2>6, <2>7 DEF ListsOf, list
<1>4. R \subseteq Mine(r)
  BY <1>2, <1>3 DEF FoundBy
<1>5. Rankable(Mine(r))
  BY MineRankable DEF LInv
<1> QED BY <1>2, <1>3, <1>4, <1>5 DEF Rankable

(* None of them is of this session, so nothing is left out before the first. *)
LEMMA InjectsBest ==
  ASSUME LInv, NEW r \in Reads, \A row \in FoundBy(r) : ~OfThisSession(r, row), Promptable(r) # <<>>,
         NEW better \in FoundBy(r), Dominates(r, better, Promptable(r)[1])
  PROVE  FALSE
<1> DEFINE R == FoundBy(r)
           answers == lists[r]
           items == hybridRetrieve(answers)
           rows == RowsOf(items)
           others == {i \in DOMAIN rows : ~OfThisSession(r, rows[i])}
           kept == Kept(rows, others)
           a == kept[1]
<1>1. /\ Rankable(R) /\ Len(answers) \in Nat /\ DOMAIN answers = 1..Len(answers)
      /\ \A n \in 1..Len(answers) : answers[n] \in ListsOf(R)
  BY ListsOfFound
<1>2. Promptable(r) = kept
  BY DEF Promptable
<1>3. /\ better \in R /\ better.coll = a.coll /\ better.age = a.age
      /\ \A n \in DOMAIN answers : Has(answers[n], a) =>
           Has(answers[n], better) /\ Place(answers[n], better) < Place(answers[n], a)
  BY <1>2 DEF Dominates
<1>4. \A row \in R : ~OfThisSession(r, row)
  OBVIOUS
<1>0. kept # <<>>
  BY <1>2
<1> HIDE DEF answers, R
<1>5. items \in Seq(ItemsOf(R))
  BY <1>1, Retrieves DEF ListsOf
<1> HIDE DEF items
<1> DEFINE N == Len(items)
<1>6. N \in Nat /\ DOMAIN items = 1..N /\ \A i \in 1..N : items[i] \in ItemsOf(R)
  BY <1>5
<1> HIDE DEF N
<1>7. rows \in [1..N -> R] /\ \A i \in 1..N : rows[i] = items[i].row
  BY <1>6 DEF RowsOf, ItemsOf
<1> HIDE DEF rows
<1>8. rows \in Seq(R) /\ DOMAIN rows = 1..N /\ Len(rows) = N
  BY <1>6, <1>7
<1>9. others = 1..N
  BY <1>4, <1>7, <1>8
<1> HIDE DEF others
<1>10. kept \in Seq(R) /\ Len(kept) <= Len(rows) /\ \E from : ComesFrom(kept, rows, others, from)
  BY <1>8, <1>9, KeptItems
<1>11. PICK from : ComesFrom(kept, rows, others, from)
  BY <1>10
<1> HIDE DEF kept
<1>12. Len(kept) \in Nat /\ 1 \in 1..Len(kept) /\ 1 \in 1..N
  <2>1. Len(kept) \in Nat /\ Len(kept) # 0
    BY <1>0, <1>10
  <2> QED BY <1>6, <1>8, <1>10, <2>1
<1>13. from[1] = 1
  <2>1. PICK k \in 1..Len(kept) : from[k] = 1
    BY <1>9, <1>11, <1>12 DEF ComesFrom
  <2>2. from[1] \in 1..N
    BY <1>9, <1>11, <1>12 DEF ComesFrom
  <2>3. 1 < k => from[1] < from[k]
    BY <1>11, <1>12 DEF ComesFrom
  <2>4. ~(1 < k)
    BY <2>1, <2>2, <2>3
  <2>5. k = 1
    BY <1>12, <2>4
  <2> QED BY <2>1, <2>5
<1>14. a = items[1].row
  <2>1. a = rows[from[1]]
    BY <1>11, <1>12 DEF ComesFrom
  <2> QED BY <1>7, <1>12, <1>13, <2>1
<1>15. a \in R
  BY <1>7, <1>12, <1>14
<1>16. items # <<>>
  <2>1. items = <<>> => N = 0
    BY DEF N
  <2> QED BY <1>12, <2>1
<1> HIDE DEF a
<1>17. items[1].row # a
  <2>1. /\ a.coll = better.coll /\ a.age = better.age
        /\ \A n \in 1..Len(answers) : Has(answers[n], a) =>
             Has(answers[n], better) /\ Place(answers[n], better) < Place(answers[n], a)
    BY <1>1, <1>3
  <2> QED BY <1>1, <1>3, <1>15, <1>16, <2>1, RetrievesBest DEF items
<1> QED BY <1>14, <1>17

(* A read that ends from its searches is ranked, and has something. *)
LEMMA EndsByRank ==
  ASSUME LInv, [MemoryNext]_vars, NEW r \in Reads, rat[r] = "searching", rat'[r] = "ended"
  PROVE  Promptable(r) # <<>> /\ context'[r] = Promptable(r)
<1>0. DOMAIN rat = Reads /\ DOMAIN context = Reads
  BY DEF LInv, Kind
<1>1. ASSUME NEW s \in Reads, Read(s) PROVE Rank(r)
  <2>1. s = r
    <3>1. rat' = rat \/ \E place : rat' = [rat EXCEPT ![s] = place]
      BY <1>1 DEF Read, readLongTermMemoryContext, Connect, EmbedQuery, SearchAnswers,
                  SearchTimesOut, Settle, Rank, FindByKeyword, FindRecent, FindFails, RTo
    <3> QED BY <1>0, <3>1
  <2>2. CASE Rank(r)
    BY <2>2
  <2>3. CASE \E leg \in Legs(r) : SearchAnswers(r, leg) \/ SearchTimesOut(r, leg)
    <3>1. rat' = rat
      BY <2>3 DEF SearchAnswers, SearchTimesOut, Settle
    <3> QED BY <3>1
  <2>4. CASE \/ \E ask \in Asks : readLongTermMemoryContext(r, ask)
             \/ Connect(r) \/ (\E answer \in Answers : EmbedQuery(r, answer))
             \/ FindByKeyword(r) \/ FindRecent(r) \/ FindFails(r)
    BY <2>4 DEF readLongTermMemoryContext, Connect, EmbedQuery, FindByKeyword, FindRecent, FindFails
  <2> QED BY <1>1, <2>1, <2>2, <2>3, <2>4 DEF Read
<1>2. ASSUME NEW w \in Writes, Write(w) PROVE UNCHANGED reading
  BY <1>2 DEF Write, writeLongTermMemory, extractFactCandidates, ensureTtlIndex, EmbedFacts, Upsert,
              BulkEnds, agentcoreWrite
<1>3. ASSUME NEW row \in facts, Expire(row) PROVE UNCHANGED reading
  BY <1>3 DEF Expire
<1>4. ~UNCHANGED reading
  BY DEF reading
<1>5. Rank(r)
  BY <1>1, <1>2, <1>3, <1>4 DEF MemoryNext, vars
<1>6. \E rows \in {Promptable(r)} :
        /\ context' = [context EXCEPT ![r] = rows]
        /\ rat' = [rat EXCEPT ![r] = IF rows = <<>> THEN "keyword" ELSE "ended"]
  BY <1>5 DEF Rank, RTo
<1> QED BY <1>0, <1>6

(* Where nothing of this session was found, the hit that is injected first *)
(* is none that another of its collection and age is ahead of in every     *)
(* list: whatever was found, fused, weighed and left out.                  *)
THEOREM BestComesFirst == MemorySpec => BestFirst
<1>1. MemorySpec => MemoryInit /\ [][MemoryNext]_vars
  BY DEF MemorySpec
<1>2. LInv /\ [MemoryNext]_vars =>
        \A r \in Reads :
          LET found == UNION {{lists[r][n][i].row : i \in DOMAIN lists[r][n]} : n \in DOMAIN lists[r]}
          IN  rat[r] = "searching" /\ rat'[r] = "ended" /\ (\A row \in found : ~OfThisSession(r, row))
              => \A better \in found : ~Dominates(r, better, context'[r][1])
  <2> SUFFICES ASSUME LInv, [MemoryNext]_vars, NEW r \in Reads, rat[r] = "searching", rat'[r] = "ended",
                      \A row \in FoundBy(r) : ~OfThisSession(r, row),
                      NEW better \in FoundBy(r), Dominates(r, better, context'[r][1])
               PROVE  FALSE
    BY DEF FoundBy
  <2>1. Promptable(r) # <<>> /\ context'[r] = Promptable(r)
    BY EndsByRank
  <2> DEFINE rows == Promptable(r)
  <2>2. Dominates(r, better, rows[1])
    <3> HIDE DEF rows
    <3>1. context'[r][1] = rows[1]
      BY <2>1 DEF rows
    <3> QED BY <3>1 DEF Dominates
  <2> QED BY <2>1, <2>2, InjectsBest
<1> QED BY <1>1, <1>2, WritesInductive, InitLInv, NextLInv, PTL DEF BestFirst
===============================================================================

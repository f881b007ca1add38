---------------------------- MODULE Orchestration ----------------------------
(***************************************************************************)
(* How one chat turn is answered: the classifier's plan, the invocation of *)
(* each specialist runtime with its retries (adapters/agentcore-runtime.ts),*)
(* the stream it answers with (lib/runtime-sse.ts), the synthesis of       *)
(* several answers (lib/multi-specialist-orchestrator.ts), and the relay   *)
(* to the client and to the session (routes/chat.ts).                      *)
(*                                                                         *)
(* A runtime is external: it streams tokens and errors, and its stream may *)
(* end with `done`, with `done` and an error, without `done`, or by a      *)
(* broken connection.  A token is a word or blank text.  Trace events and  *)
(* tool and skill frames do not change what is answered and are left out.  *)
(***************************************************************************)
EXTENDS Naturals, Sequences, FiniteSets

CONSTANTS
  Specialists,   \* agents with a runtime
  Synthesizer,   \* the in-process agent that combines answers
  Orchestrator,  \* the persona of a synthesized answer
  NoMessage,     \* no assistant message stored
  Modes,         \* "multi": classify first; "direct": one runtime, asked for by the client
  Widths,        \* how many specialists the classifier may select
  MaxAttempts,   \* AGENTCORE_MAX_ATTEMPTS
  MaxTokens      \* bound: tokens of one stream

ASSUME AgentAssumption ==
  /\ Synthesizer \notin Specialists
  /\ Orchestrator \notin Specialists
  /\ Modes \subseteq {"multi", "direct"}
  /\ Widths \subseteq Nat
  /\ MaxAttempts \in Nat \ {0} /\ MaxTokens \in Nat

Texts == {"word", "blank"}
Tokens == [by : Specialists \cup {Synthesizer}, text : Texts]

(* Nothing stored is not a message, nor a text. *)
ASSUME MessageAssumption ==
  NoMessage \notin [agent : Specialists \cup {Synthesizer, Orchestrator}, text : Seq(Tokens)] \cup Seq(Tokens)

VARIABLES
  mode,      \* which relay answers the turn
  at,        \* where the turn is
  plan,      \* the specialists selected, best first
  rank,      \* the specialist whose turn it is
  attempt,   \* invocations of its runtime so far
  text,      \* answerText of the current specialist
  failure,   \* whether the current specialist is known to have failed
  answers,   \* specialistAnswers
  reply,     \* fullReply, finalAnswer
  failed,    \* streamFailed
  frames,    \* SSE frames sent to the client
  stored,    \* the assistant message persisted
  broken     \* agents whose stream reported or suffered an error

vars == <<mode, at, plan, rank, attempt, text, failure, answers, reply, failed,
          frames, stored, broken>>
flow == <<mode, plan, rank, attempt, text, failure, answers, reply>>

Phases == {"none", "specialist", "synthesis"}
Places == {"routing", "starting", "invoking", "streaming", "ended", "composing",
           "relayed", "stored", "done"}

(* classifyAgents selects distinct specialists. *)
Plans == {p \in UNION {[1..n -> Specialists] : n \in Widths} :
            \A i, j \in DOMAIN p : p[i] = p[j] => i = j}

Blank(t) == \A i \in DOMAIN t : t[i].text = "blank"
Single == mode = "direct" \/ Len(plan) = 1
Current == plan[rank]

Frame(event, token, phase) == [event |-> event, token |-> token, phase |-> phase]
NoToken == [by |-> Orchestrator, text |-> "blank"]
Error == Frame("error", NoToken, "none")
Send(f) == frames' = Append(frames, f)

Init ==
  /\ mode \in Modes
  /\ at = "routing"
  /\ plan = <<>>
  /\ rank = 0
  /\ attempt = 0
  /\ text = <<>>
  /\ failure = FALSE
  /\ answers = <<>>
  /\ reply = <<>>
  /\ failed = FALSE
  /\ frames = <<>>
  /\ stored = NoMessage
  /\ broken = {}

(* streamFailed is set, the client is told, and nothing is left to relay. *)
Fail(place) ==
  /\ failed' = TRUE
  /\ Send(Error)
  /\ at' = place
-----------------------------------------------------------------------------
(* Routing *)

Classify(p) ==
  /\ at = "routing" /\ mode = "multi"
  /\ plan' = p
  /\ \/ p = <<>> /\ Fail("relayed") /\ UNCHANGED rank
     \/ p # <<>> /\ rank' = 1 /\ at' = "starting" /\ UNCHANGED <<failed, frames>>
  /\ UNCHANGED <<mode, attempt, text, failure, answers, reply, stored, broken>>

Direct(s) ==
  /\ at = "routing" /\ mode = "direct"
  /\ plan' = <<s>>
  /\ rank' = 1
  /\ attempt' = 1
  /\ at' = "invoking"
  /\ UNCHANGED <<mode, text, failure, answers, reply, failed, frames, stored, broken>>

(* specialist_started: the client may render an attributed draft. *)
Start ==
  /\ at = "starting"
  /\ Send(Frame("agent_active", [by |-> Current, text |-> "blank"], "none"))
  /\ attempt' = 1
  /\ text' = <<>>
  /\ failure' = FALSE
  /\ at' = "invoking"
  /\ UNCHANGED <<mode, plan, rank, answers, reply, failed, stored, broken>>

-----------------------------------------------------------------------------
(* invokeAgentRuntime *)

(* An exception out of the invocation or its stream: the flow records it   *)
(* as the specialist's failure, the direct relay tells the client.         *)
Throw ==
  \/ mode = "multi" /\ failure' = TRUE /\ at' = "ended" /\ UNCHANGED <<failed, frames>>
  \/ mode = "direct" /\ Fail("relayed") /\ UNCHANGED failure

InvokeMutant ==   \* one attempt too many
  /\ at = "invoking"
  /\ \/ /\ at' = "streaming"
        /\ UNCHANGED <<attempt, failure, failed, frames, broken>>
     \/ /\ attempt <= MaxAttempts
        /\ attempt' = attempt + 1
        /\ UNCHANGED <<at, failure, failed, frames, broken>>
     \/ /\ broken' = broken \cup {Current}
        /\ Throw
        /\ UNCHANGED attempt
  /\ UNCHANGED <<mode, plan, rank, text, answers, reply, stored>>

(* The request is answered by a stream; or it fails in a way that is tried *)
(* again after a backoff; or it fails for good: an error that is not       *)
(* retryable, the last attempt, no ARN, or a response without a body.      *)
Invoke ==
  /\ at = "invoking"
  /\ \/ /\ at' = "streaming"
        /\ UNCHANGED <<attempt, failure, failed, frames, broken>>
     \/ /\ attempt < MaxAttempts
        /\ attempt' = attempt + 1
        /\ UNCHANGED <<at, failure, failed, frames, broken>>
     \/ /\ broken' = broken \cup {Current}
        /\ Throw
        /\ UNCHANGED attempt
  /\ UNCHANGED <<mode, plan, rank, text, answers, reply, stored>>

Streamed == Len(SelectSeq(frames, LAMBDA f : f.event = "token" /\ f.token.by = Current))

(* A token.  The direct relay adds it to the reply at once; the flow adds  *)
(* it to the specialist's answer, as a draft when there are several.       *)
Token(x) ==
  /\ at = "streaming" /\ Streamed < MaxTokens
  /\ LET token == [by |-> Current, text |-> x] IN
     /\ Send(Frame("token", token, IF Single THEN "none" ELSE "specialist"))
     /\ \/ mode = "multi" /\ text' = Append(text, token) /\ UNCHANGED reply
        \/ mode = "direct" /\ reply' = Append(reply, token) /\ UNCHANGED text
  /\ UNCHANGED <<mode, at, plan, rank, attempt, failure, answers, failed, stored, broken>>

(* A stream_error part.  The stream is drained all the same.  (A runtime   *)
(* that repeats it changes nothing but the number of error frames.)        *)
StreamError ==
  /\ at = "streaming" /\ Current \notin broken
  /\ broken' = broken \cup {Current}
  /\ \/ mode = "multi" /\ failure' = TRUE /\ UNCHANGED <<at, failed, frames>>
     \/ mode = "direct" /\ Fail("streaming") /\ UNCHANGED failure
  /\ UNCHANGED <<mode, plan, rank, attempt, text, answers, reply, stored>>

FinishMutant ==   \* the error of `done` is dropped
  /\ at = "streaming"
  /\ \/ at' = (IF mode = "multi" THEN "ended" ELSE "relayed")
        /\ UNCHANGED <<failure, failed, frames, broken>>
     \/ /\ broken' = broken \cup {Current}
        /\ at' = (IF mode = "multi" THEN "ended" ELSE "relayed")
        /\ UNCHANGED <<failure, failed, frames>>
     \/ /\ broken' = broken \cup {Current}
        /\ Throw
  /\ UNCHANGED <<mode, plan, rank, attempt, text, answers, reply, stored>>

(* The stream ends: cleanly, or without `done`, which is not told apart;   *)
(* or with the error of `done`, unless an error is known already; or by a  *)
(* broken connection.                                                      *)
Finish ==
  /\ at = "streaming"
  /\ \/ /\ at' = (IF mode = "multi" THEN "ended" ELSE "relayed")
        /\ UNCHANGED <<failure, failed, frames, broken>>
     \/ /\ broken' = broken \cup {Current}
        /\ \/ mode = "multi" /\ failure' = TRUE /\ at' = "ended" /\ UNCHANGED <<failed, frames>>
           \/ mode = "direct" /\ ~failed /\ Fail("relayed") /\ UNCHANGED failure
           \/ mode = "direct" /\ failed /\ at' = "relayed" /\ UNCHANGED <<failure, failed, frames>>
     \/ /\ broken' = broken \cup {Current}
        /\ Throw
  /\ UNCHANGED <<mode, plan, rank, attempt, text, answers, reply, stored>>

-----------------------------------------------------------------------------
(* The rest of the flow *)

Answer == [by |-> Current, text |-> IF failure \/ Blank(text) THEN <<>> ELSE text,
           status |-> IF failure THEN "failed" ELSE IF Blank(text) THEN "empty" ELSE "success"]
Succeeded(as) == {i \in DOMAIN as : as[i].status = "success"}

EndMutant ==   \* nothing is said when every specialist failed
  /\ at = "ended"
  /\ answers' = Append(answers, Answer)
  /\ \/ rank < Len(plan) /\ rank' = rank + 1 /\ at' = "starting" /\ UNCHANGED <<reply, failed, frames>>
     \/ /\ rank = Len(plan) /\ Single
        /\ reply' = Answer.text
        /\ at' = "relayed"
        /\ UNCHANGED <<rank, failed, frames>>
     \/ /\ rank = Len(plan) /\ ~Single /\ Succeeded(answers') # {}
        /\ Send(Frame("agent_active", NoToken, "none"))
        /\ at' = "composing"
        /\ UNCHANGED <<rank, reply, failed>>
  /\ UNCHANGED <<mode, plan, attempt, text, failure, stored, broken>>

(* specialist_ended: the next specialist, or the only answer, or the       *)
(* synthesis if there is anything to combine.                              *)
End ==
  /\ at = "ended"
  /\ answers' = Append(answers, Answer)
  /\ \/ rank < Len(plan) /\ rank' = rank + 1 /\ at' = "starting" /\ UNCHANGED <<reply, failed, frames>>
     \/ /\ rank = Len(plan) /\ Single
        /\ reply' = Answer.text
        /\ at' = "relayed"
        /\ UNCHANGED <<rank, failed, frames>>
     \/ /\ rank = Len(plan) /\ ~Single /\ Succeeded(answers') # {}
        /\ Send(Frame("agent_active", NoToken, "none"))
        /\ at' = "composing"
        /\ UNCHANGED <<rank, reply, failed>>
     \/ /\ rank = Len(plan) /\ ~Single /\ Succeeded(answers') = {}
        /\ Fail("relayed")
        /\ UNCHANGED <<rank, reply>>
  /\ UNCHANGED <<mode, plan, attempt, text, failure, stored, broken>>

(* runSynthesizerAgent: tokens, then the end, an error event or an exception. *)
Compose(x) ==
  /\ at = "composing" /\ Len(reply) < MaxTokens
  /\ LET token == [by |-> Synthesizer, text |-> x] IN
     /\ reply' = Append(reply, token)
     /\ Send(Frame("token", token, "synthesis"))
  /\ UNCHANGED <<mode, at, plan, rank, attempt, text, failure, answers, failed, stored, broken>>

EndSynthesis ==
  /\ at = "composing"
  /\ \/ at' = "relayed" /\ UNCHANGED <<reply, failed, frames, broken>>
     \/ /\ broken' = broken \cup {Synthesizer}
        /\ reply' = <<>>
        /\ Fail("relayed")
  /\ UNCHANGED <<mode, plan, rank, attempt, text, failure, answers, stored>>

-----------------------------------------------------------------------------
(* The end of the turn in routes/chat.ts *)

(* finalAgentId: an answer that is neither a success nor a failure names   *)
(* no agent, and the turn keeps the one it started with.                   *)
finalAgentId ==
  IF mode = "multi" /\ (Len(plan) # 1 \/ answers[1].status = "empty") THEN Orchestrator ELSE plan[1]

StoreMutant ==   \* a failed turn is stored too
  /\ at = "relayed"
  /\ stored' = [agent |-> finalAgentId, text |-> reply]
  /\ at' = "stored"
  /\ UNCHANGED <<flow, failed, frames, broken>>

Store ==
  /\ at = "relayed"
  /\ \/ ~failed /\ stored' = [agent |-> finalAgentId, text |-> reply]
     \/ failed /\ UNCHANGED stored
  /\ at' = "stored"
  /\ UNCHANGED <<flow, failed, frames, broken>>

Done ==
  /\ at = "stored"
  /\ Send(Frame(IF failed THEN "done with error" ELSE "done", NoToken, "none"))
  /\ at' = "done"
  /\ UNCHANGED <<flow, failed, stored, broken>>

Runtime == Finish \/ StreamError \/ (\E x \in Texts : Token(x))
Synthesis == EndSynthesis \/ (\E x \in Texts : Compose(x))
Api == (\E p \in Plans : Classify(p)) \/ (\E s \in Specialists : Direct(s))
       \/ Start \/ Invoke \/ End \/ Store \/ Done

Next == Api \/ Runtime \/ Synthesis

Spec == Init /\ [][Next]_vars

(* The API goes on, a request is answered or fails, and no stream is       *)
(* silent for ever: nothing in the code bounds that wait.                  *)
FairSpec == Spec /\ WF_vars(Api) /\ WF_vars(Finish) /\ WF_vars(EndSynthesis)
-----------------------------------------------------------------------------
(* Properties *)

Answers == [by : Specialists, text : Seq(Tokens), status : {"success", "empty", "failed"}]
Agents == Specialists \cup {Synthesizer, Orchestrator}
Frames == [event : {"agent_active", "token", "error", "done", "done with error"},
           token : [by : Agents, text : Texts], phase : Phases]

(* Every variable has its type. *)
TypeOK ==
  /\ mode \in Modes
  /\ at \in Places
  /\ plan \in Seq(Specialists)
  /\ rank \in 0..Len(plan)
  /\ attempt \in 0..MaxAttempts
  /\ text \in Seq(Tokens)
  /\ failure \in BOOLEAN
  /\ answers \in Seq(Answers)
  /\ reply \in Seq(Tokens)
  /\ failed \in BOOLEAN
  /\ frames \in Seq(Frames)
  /\ stored \in {NoMessage} \cup [agent : Agents, text : Seq(Tokens)]
  /\ broken \subseteq Specialists \cup {Synthesizer}

(* No error of a runtime is lost on the way, whichever way it came: an     *)
(* answer that is combined, and a reply that is stored, holds only tokens  *)
(* of agents whose streams reported no error.                              *)
CompleteReply ==
  /\ \A i \in Succeeded(answers) : answers[i].by \notin broken
  /\ stored # NoMessage =>
       \A i \in DOMAIN stored.text : stored.text[i].by \notin broken

(* The turn of a single specialist that failed: it is stored with no text  *)
(* and the client is told nothing, though other turns that fail tell it.   *)
Swallowed == mode = "multi" /\ Len(plan) = 1 /\ failure

(* The members of seq that are in S, in their order. *)
Only(seq, S) ==
  LET picked[n \in 0..Len(seq)] ==
        IF n = 0 THEN <<>>
        ELSE IF seq[n] \in S THEN Append(picked[n - 1], seq[n]) ELSE picked[n - 1]
  IN picked[Len(seq)]

NonBlank(ts) == Only(ts, {t \in Tokens : t.text = "word"})

(* The words the client keeps: tokens that are not blank and no drafts. *)
WordFrames == {f \in Frames : f.event = "token" /\ f.phase # "specialist" /\ f.token.text = "word"}
Kept == Only(frames, WordFrames)
Shown == [i \in DOMAIN Kept |-> Kept[i].token]
ErrorTold == \E i \in DOMAIN frames : frames[i].event = "error"
StoredWords == IF stored = NoMessage THEN NoMessage ELSE NonBlank(stored.text)
Closed ==
  IF frames = <<>> THEN "open"
  ELSE CASE frames[Len(frames)].event = "done" -> "ok"
         [] frames[Len(frames)].event = "done with error" -> "error"
         [] OTHER -> "open"

(* The turn keeps the contract of TurnContract: the words shown, without   *)
(* the drafts, are what is stored; or an error is told and nothing is      *)
(* stored.  The third outcome of the contract, the lost turn, is that of a *)
(* lone specialist that failed and of no other: no error frame, an empty   *)
(* message, a plain `done`.                                                *)
Turn == INSTANCE TurnContract WITH
  Words <- Tokens,
  shown <- Shown, told <- ErrorTold, lost <- Swallowed, message <- StoredWords, closed <- Closed
KeepsContract == Turn!TurnSpec

(* docs/api-reference.md:105 says of the `error` frame: "Terminal failure. *)
(* Followed by `done`.", and docs/api-reference.md:186 lists among them    *)
(* the runtime that fails (AGENTCORE_RUNTIME_ERROR): a turn none of whose  *)
(* specialists answered without an error has told one when it is done.     *)
FailureTold == at = "done" /\ plan # <<>> /\ (\A i \in DOMAIN plan : plan[i] \in broken) => ErrorTold

(* Every turn comes to its `done` frame. *)
TurnEnds == <>(at = "done")
==============================================================================

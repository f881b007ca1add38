-------------------------- MODULE OrchestrationProofs --------------------------
(***************************************************************************)
(* No error is lost on the way to the reply, and each step of a turn is a  *)
(* step of TurnContract or none: for any number of specialists, attempts   *)
(* and tokens.                                                             *)
(***************************************************************************)
EXTENDS Orchestration, WellFoundedInduction, TLAPS

Running == {"starting", "invoking", "streaming", "ended"}
Asked == {"invoking", "streaming", "ended"}

By(ts, a) == \A i \in DOMAIN ts : ts[i].by = a
Sound(ts) == \A i \in DOMAIN ts : ts[i].by \notin broken

(* The plan names each specialist once; a direct turn has one, and only a  *)
(* failed turn has none.                                                   *)
Planned ==
  /\ \A i, j \in DOMAIN plan : plan[i] = plan[j] => i = j
  /\ at = "routing" => /\ plan = <<>> /\ rank = 0 /\ answers = <<>> /\ reply = <<>>
                       /\ text = <<>> /\ broken = {}
  /\ at \in Running \cup {"composing"} => rank >= 1
  /\ at = "relayed" /\ ~failed => plan # <<>>
  /\ mode = "direct" /\ at # "routing" =>
       rank = 1 /\ answers = <<>> /\ at \notin {"starting", "ended", "composing"}

(* An error that was suffered is known: by the specialist's result while   *)
(* it is asked, or by the turn.  Specialists still to be asked have        *)
(* suffered none.                                                          *)
Known ==
  /\ mode = "multi" /\ at \in Asked /\ plan[rank] \in broken => failure
  /\ mode = "direct" /\ broken # {} => failed
  /\ Synthesizer \in broken => failed
  /\ \A j \in DOMAIN plan :
       j > rank \/ (j = rank /\ at = "starting") => plan[j] \notin broken

(* The answers are those of the specialists asked so far, in their order. *)
Answered ==
  /\ Len(answers) <= Len(plan)
  /\ at \in Running => Len(answers) = rank - 1
  /\ \A i \in DOMAIN answers : answers[i].by = plan[i]

(* Whose text is where. *)
Attributed ==
  /\ at \in Asked => By(text, plan[rank])
  /\ mode = "direct" => By(reply, plan[1])
  /\ mode = "multi" /\ at \in Running => reply = <<>>
  /\ at = "composing" => By(reply, Synthesizer)
  /\ at = "relayed" /\ ~failed => Sound(reply)
  /\ at \notin {"stored", "done"} => stored = NoMessage

OInv == TypeOK /\ Planned /\ Known /\ Answered /\ Attributed /\ CompleteReply

-----------------------------------------------------------------------------
(* Frames *)

(* Every frame the turn sends is one the client knows. *)
LEMMA FrameTypes ==
  /\ Error \in Frames /\ NoToken \in [by : Agents, text : Texts]
  /\ \A event \in {"agent_active", "token", "error", "done", "done with error"},
        a \in Agents, x \in Texts, phase \in Phases :
       Frame(event, [by |-> a, text |-> x], phase) \in Frames
  /\ \A event \in {"agent_active", "done", "done with error"} :
       Frame(event, NoToken, "none") \in Frames
BY DEF Error, NoToken, Frame, Frames, Agents, Texts, Phases

(* Sending a frame keeps the frames sent frames. *)
LEMMA SentFrame ==
  ASSUME TypeOK, NEW f \in Frames, Send(f)
  PROVE  frames' \in Seq(Frames)
BY DEF TypeOK, Send

(* A turn that fails knows it, and has told it. *)
LEMMA Failing ==
  ASSUME TypeOK, NEW place, Fail(place)
  PROVE  failed' = TRUE /\ at' = place /\ frames' \in Seq(Frames)
BY SentFrame, FrameTypes DEF Fail

(* The specialist whose turn it is, while there is one. *)
LEMMA CurrentType ==
  ASSUME OInv, at \in Running
  PROVE  Current \in Specialists /\ Current \in Agents /\ rank \in 1..Len(plan)
BY DEF OInv, TypeOK, Planned, Current, Agents

(* A plan is a sequence of distinct specialists. *)
LEMMA PlanType ==
  ASSUME NEW p \in Plans
  PROVE  p \in Seq(Specialists) /\ \A i, j \in DOMAIN p : p[i] = p[j] => i = j
<1>1. PICK n \in Widths : p \in [1..n -> Specialists]
  BY DEF Plans
<1>2. n \in Nat
  BY AgentAssumption
<1> QED BY <1>1, <1>2 DEF Plans

-----------------------------------------------------------------------------
(* The steps *)

(* A plan is fresh: none of its specialists has been asked. *)
LEMMA ClassifyStep ==
  ASSUME OInv, NEW p \in Plans, Classify(p)
  PROVE  OInv'
<1>0. frames' \in Seq(Frames)
  BY Failing DEF Classify, OInv, TypeOK
<1>1. TypeOK'
  <2>1. plan' \in Seq(Specialists) /\ rank' \in 0..Len(plan') /\ at' \in Places /\ failed' \in BOOLEAN
    <3>1. plan' = p /\ p \in Seq(Specialists)
      BY PlanType DEF Classify
    <3>2. CASE p = <<>> /\ Fail("relayed") /\ UNCHANGED rank
      BY <3>2, Failing DEF Classify, OInv, TypeOK, Planned, Places
    <3>3. CASE p # <<>> /\ rank' = 1 /\ at' = "starting" /\ UNCHANGED failed
      BY <3>1, <3>3 DEF OInv, TypeOK, Places
    <3> QED BY <3>1, <3>2, <3>3 DEF Classify
  <2> QED BY <1>0, <2>1 DEF Classify, OInv, TypeOK
<1>2. Planned'
  BY PlanType DEF Classify, Fail, Planned, Running
<1>3. Known'
  BY DEF Classify, OInv, Planned, Known
<1>4. Answered'
  BY DEF Classify, Fail, OInv, Planned, Answered, Running
<1>5. Attributed'
  BY DEF Classify, OInv, Planned, Attributed, By, Sound
<1>6. CompleteReply'
  BY DEF Classify, OInv, CompleteReply
<1> QED BY <1>1, <1>2, <1>3, <1>4, <1>5, <1>6 DEF OInv

(* A direct turn asks its only specialist. *)
LEMMA DirectStep ==
  ASSUME OInv, NEW s \in Specialists, Direct(s)
  PROVE  OInv'
<1>0. frames' \in Seq(Frames)
  BY DEF Direct, OInv, TypeOK
<1>1. TypeOK'
  BY AgentAssumption DEF Direct, OInv, TypeOK, Places
<1>2. Planned'
  BY DEF Direct, OInv, Planned
<1>3. Known'
  BY DEF Direct, OInv, Known
<1>4. Answered'
  BY DEF Direct, OInv, Planned, Answered
<1>5. Attributed'
  BY DEF Direct, OInv, Planned, Attributed, By
<1>6. CompleteReply'
  BY DEF Direct, OInv, CompleteReply
<1> QED BY <1>1, <1>2, <1>3, <1>4, <1>5, <1>6 DEF OInv

(* A specialist starts with no text and no failure. *)
LEMMA StartStep ==
  ASSUME OInv, Start
  PROVE  OInv'
<1>0. frames' \in Seq(Frames)
  <2>1. Current \in Agents
    BY CurrentType DEF Start, Running
  <2>2. Frame("agent_active", [by |-> Current, text |-> "blank"], "none") \in Frames
    BY <2>1, FrameTypes DEF Texts, Phases
  <2> QED BY <2>2, SentFrame DEF Start, OInv
<1>1. TypeOK'
  <2>1. <<>> \in Seq(Tokens)
    OBVIOUS
  <2>2. 1 \in 0..MaxAttempts
    BY AgentAssumption
  <2> QED BY <1>0, <2>1, <2>2 DEF Start, OInv, TypeOK, Places
<1>2. Planned'
  BY DEF Start, OInv, Planned, Running
<1>3. Known'
  BY DEF Start, OInv, TypeOK, Planned, Known, Running
<1>4. Answered'
  BY DEF Start, OInv, Answered, Running
<1>5. Attributed'
  BY DEF Start, OInv, Attributed, Running, By
<1>6. CompleteReply'
  BY DEF Start, OInv, CompleteReply
<1> QED BY <1>1, <1>2, <1>3, <1>4, <1>5, <1>6 DEF OInv

(* An invocation that fails for good is known to have failed. *)
LEMMA InvokeStep ==
  ASSUME OInv, Invoke
  PROVE  OInv'
<1>0. frames' \in Seq(Frames)
  BY Failing DEF Invoke, Throw, OInv, TypeOK
<1>1. TypeOK'
  <2>1. attempt' \in 0..MaxAttempts /\ UNCHANGED <<mode, plan, rank, text, answers, reply, stored>>
    BY AgentAssumption DEF Invoke, OInv, TypeOK
  <2>2. at' \in Places /\ failure' \in BOOLEAN /\ failed' \in BOOLEAN
    BY Failing DEF Invoke, Throw, OInv, TypeOK, Places
  <2>3. broken' \subseteq Specialists \cup {Synthesizer}
    BY CurrentType DEF Invoke, OInv, TypeOK, Running
  <2> QED BY <1>0, <2>1, <2>2, <2>3 DEF OInv, TypeOK
<1>2. Planned'
  BY DEF Invoke, Fail, Throw, OInv, Planned, Running
<1>3. Known'
  BY AgentAssumption DEF Invoke, Fail, Throw, OInv, TypeOK, Planned, Known, Running, Asked, Current
<1>4. Answered'
  BY DEF Invoke, OInv, Answered, Running
<1>5. Attributed'
  BY DEF Invoke, Fail, Throw, OInv, Attributed, Running, Asked
<1>6. CompleteReply'
  BY DEF Invoke, Fail, Send, Throw, flow, OInv, TypeOK, Planned, Known, Answered, Attributed, CompleteReply, Succeeded, Current, Running
<1> QED BY <1>1, <1>2, <1>3, <1>4, <1>5, <1>6 DEF OInv

(* A token is the current specialist's, and goes where its text goes. *)
LEMMA TokenStep ==
  ASSUME OInv, NEW x \in Texts, Token(x)
  PROVE  OInv'
<1>0. frames' \in Seq(Frames)
  BY SentFrame, FrameTypes, CurrentType DEF Token, OInv, Phases, Running
<1>1. TypeOK'
  <2> DEFINE token == [by |-> Current, text |-> x]
  <2>1. token \in Tokens
    BY CurrentType DEF Token, Running, Tokens
  <2>2. text' \in {text, Append(text, token)} /\ reply' \in {reply, Append(reply, token)}
    BY DEF Token
  <2> HIDE DEF token
  <2>3. \A ts \in Seq(Tokens) : Append(ts, token) \in Seq(Tokens)
    BY <2>1
  <2>4. text' \in Seq(Tokens) /\ reply' \in Seq(Tokens)
    BY <2>2, <2>3 DEF OInv, TypeOK
  <2> QED BY <1>0, <2>4 DEF Token, OInv, TypeOK
<1>2. Planned'
  BY DEF Token, OInv, Planned
<1>3. Known'
  BY DEF Token, OInv, Known
<1>4. Answered'
  BY DEF Token, OInv, Answered
<1>5. Attributed'
  <2> DEFINE token == [by |-> Current, text |-> x]
  <2>1. token \in Tokens /\ token.by = plan[rank] /\ rank \in 1..Len(plan)
    BY CurrentType DEF Token, Running, Tokens, Current
  <2>2. /\ at = "streaming" /\ UNCHANGED <<at, plan, rank, mode, stored>>
        /\ \/ mode = "multi" /\ text' = Append(text, token) /\ UNCHANGED reply
           \/ mode = "direct" /\ reply' = Append(reply, token) /\ UNCHANGED text
    BY DEF Token
  <2> HIDE DEF token
  <2>0. \A ts \in Seq(Tokens) : \A a : By(ts, a) /\ token.by = a => By(Append(ts, token), a)
    BY <2>1 DEF By
  <2>3. By(text', plan[rank])
    BY <2>0, <2>1, <2>2 DEF OInv, TypeOK, Attributed, Asked
  <2>4. mode = "direct" => By(reply', plan[1])
    BY <2>0, <2>1, <2>2 DEF OInv, TypeOK, Attributed, Planned
  <2> QED BY <2>2, <2>3, <2>4 DEF OInv, Attributed
<1>6. CompleteReply'
  BY DEF Token, OInv, CompleteReply
<1> QED BY <1>1, <1>2, <1>3, <1>4, <1>5, <1>6 DEF OInv

(* An error in the stream is known at once. *)
LEMMA StreamErrorStep ==
  ASSUME OInv, StreamError
  PROVE  OInv'
<1>0. frames' \in Seq(Frames)
  BY Failing DEF StreamError, OInv, TypeOK
<1>1. TypeOK'
  BY Failing, CurrentType DEF StreamError, OInv, TypeOK, Running
<1>2. Planned'
  BY DEF StreamError, Fail, OInv, Planned
<1>3. Known'
  BY AgentAssumption DEF StreamError, Fail, OInv, TypeOK, Planned, Known, Running, Current
<1>4. Answered'
  BY DEF StreamError, OInv, Answered, Running
<1>5. Attributed'
  BY DEF StreamError, Fail, OInv, Attributed
<1>6. CompleteReply'
  BY AgentAssumption DEF StreamError, Fail, Send, OInv, TypeOK, Planned, Answered, Attributed, CompleteReply, Succeeded, Current, Running, Asked, Sound
<1> QED BY <1>1, <1>2, <1>3, <1>4, <1>5, <1>6 DEF OInv

(* An error at the end of the stream is known, whichever way it came. *)
LEMMA FinishStep ==
  ASSUME OInv, Finish
  PROVE  OInv'
<1>0. frames' \in Seq(Frames)
  BY Failing DEF Finish, Throw, OInv, TypeOK
<1>1. TypeOK'
  BY Failing, CurrentType DEF Finish, Throw, OInv, TypeOK, Places, Running
<1>2. Planned'
  BY DEF Finish, Fail, Throw, OInv, TypeOK, Planned, Running
<1>3. Known'
  BY AgentAssumption DEF Finish, Fail, Throw, OInv, TypeOK, Planned, Known, Running, Asked, Current
<1>4. Answered'
  BY DEF Finish, OInv, Answered, Running
<1>5. Attributed'
  BY AgentAssumption DEF Finish, Fail, Throw, OInv, TypeOK, Known, Attributed, Running, Asked, Sound
<1>6. CompleteReply'
  BY AgentAssumption DEF Finish, Fail, Send, OInv, TypeOK, Planned, Answered, Attributed, CompleteReply, Succeeded, Current, Running, Asked
<1> QED BY <1>1, <1>2, <1>3, <1>4, <1>5, <1>6 DEF OInv

(* An answer is combined only if its specialist suffered no error. *)
LEMMA EndStep ==
  ASSUME OInv, End
  PROVE  OInv'
<1>a. /\ Current \in Specialists /\ rank \in 1..Len(plan) /\ mode = "multi"
      /\ Len(answers) = rank - 1 /\ By(text, plan[rank])
      /\ (plan[rank] \in broken => failure)
  BY CurrentType, AgentAssumption
  DEF End, OInv, TypeOK, Planned, Known, Answered, Attributed, Running, Asked
<1>b. /\ Answer \in Answers /\ Answer.by = plan[rank]
      /\ Answer.status = "success" => plan[rank] \notin broken
      /\ Answer.text \in Seq(Tokens) /\ Sound(Answer.text)
  <2>1. Answer.text \in {<<>>, text} /\ (failure => Answer.text = <<>>)
    BY DEF Answer
  <2>2. Answer.status \in {"success", "empty", "failed"} /\ (Answer.status = "success" => ~failure)
        /\ Answer.by = plan[rank] /\ Answer.by \in Specialists
    BY <1>a DEF Answer, Current
  <2>3. <<>> \in Seq(Tokens) /\ Sound(<<>>)
    BY DEF Sound
  <2>4. Answer.text \in Seq(Tokens) /\ Sound(Answer.text)
    BY <1>a, <2>1, <2>3 DEF OInv, TypeOK, By, Sound
  <2>5. Answer = [by |-> Answer.by, text |-> Answer.text, status |-> Answer.status]
    BY DEF Answer
  <2> QED BY <1>a, <2>2, <2>4, <2>5 DEF Answers
<1>c. /\ answers' \in Seq(Answers) /\ Len(answers') = rank
      /\ answers'[rank] = Answer /\ \A i \in 1..(rank - 1) : answers'[i] = answers[i]
      /\ UNCHANGED <<mode, plan, attempt, text, failure, stored, broken>>
  BY <1>a, <1>b DEF End, OInv, TypeOK
<1>0. frames' \in Seq(Frames)
  BY SentFrame, FrameTypes, Failing DEF End, OInv, TypeOK
<1>1. TypeOK'
  <2>1. reply' \in Seq(Tokens) /\ rank' \in 0..Len(plan) /\ at' \in Places /\ failed' \in BOOLEAN
    <3>1. CASE Fail("relayed") /\ UNCHANGED <<rank, reply>>
      BY <3>1, Failing DEF OInv, TypeOK, Places
    <3>2. CASE rank < Len(plan) /\ rank' = rank + 1 /\ at' = "starting" /\ UNCHANGED <<reply, failed, frames>>
      BY <3>2 DEF OInv, TypeOK, Places
    <3>3. CASE reply' = Answer.text /\ at' = "relayed" /\ UNCHANGED <<rank, failed, frames>>
      BY <1>b, <3>3 DEF OInv, TypeOK, Places
    <3>4. CASE at' = "composing" /\ UNCHANGED <<rank, reply, failed>>
      BY <3>4 DEF OInv, TypeOK, Places
    <3> QED BY <3>1, <3>2, <3>3, <3>4 DEF End
  <2> QED BY <1>0, <1>c, <2>1 DEF OInv, TypeOK
<1>2. Planned'
  BY DEF End, Fail, OInv, TypeOK, Planned, Running
<1>3. Known'
  BY DEF End, Fail, OInv, TypeOK, Known, Asked
<1>4. Answered'
  <2>1. Len(answers') <= Len(plan) /\ \A i \in DOMAIN answers' : answers'[i].by = plan[i]
    <3>1. Len(answers') <= Len(plan) /\ DOMAIN answers' = 1..rank
      BY <1>a, <1>c
    <3>2. \A i \in 1..(rank - 1) : answers[i].by = plan[i]
      BY <1>a DEF OInv, TypeOK, Answered
    <3>3. ASSUME NEW i \in 1..rank PROVE answers'[i].by = plan[i]
      <4>1. CASE i = rank
        BY <1>b, <1>c, <4>1
      <4>2. CASE i \in 1..(rank - 1)
        BY <1>c, <3>2, <4>2
      <4> QED BY <1>a, <4>1, <4>2
    <3> QED BY <3>1, <3>3
  <2>2. at' \in Running => Len(answers') = rank' - 1
    <3>1. (at' = "starting" /\ rank' = rank + 1) \/ at' \in {"relayed", "composing"}
      BY DEF End, Fail
    <3> QED BY <1>a, <1>c, <3>1 DEF Running
  <2> QED BY <1>c, <2>1, <2>2 DEF Answered
<1>5. Attributed'
  <2>0. stored' = NoMessage /\ at' \in {"starting", "relayed", "composing"} /\ reply = <<>>
    BY <1>a, Failing DEF End, OInv, Attributed, Running
  <2>1. CASE at' = "starting"
    BY <1>a, <2>0, <2>1 DEF End, Attributed, Asked
  <2>2. CASE at' = "composing"
    <3>1. reply' = <<>>
      BY <2>0, <2>2 DEF End
    <3> QED BY <2>0, <2>2, <3>1 DEF Attributed, Asked, By
  <2>3. CASE at' = "relayed"
    <3>1. ~failed' => reply' = Answer.text
      BY <2>3, Failing DEF End, OInv
    <3>2. ~failed' => Sound(reply)'
      BY <1>b, <1>c, <3>1 DEF Sound
    <3> QED BY <1>a, <1>c, <2>0, <2>3, <3>2 DEF Attributed, Running, Asked
  <2> QED BY <2>0, <2>1, <2>2, <2>3
<1>6. CompleteReply'
  <2>1. \A i \in DOMAIN answers : answers[i].status = "success" => answers[i].by \notin broken
    BY DEF OInv, CompleteReply, Succeeded
  <2>2. \A i \in DOMAIN answers' : answers'[i].status = "success" => answers'[i].by \notin broken
    BY <1>a, <1>b, <1>c, <2>1
  <2>3. stored' = NoMessage
    BY <1>c DEF End, OInv, Attributed
  <2> QED BY <1>c, <2>2, <2>3 DEF CompleteReply, Succeeded
<1> QED BY <1>1, <1>2, <1>3, <1>4, <1>5, <1>6 DEF OInv

(* While the synthesis streams, the reply is the synthesizer's. *)
LEMMA ComposeStep ==
  ASSUME OInv, NEW x \in Texts, Compose(x)
  PROVE  OInv'
<1>0. frames' \in Seq(Frames)
  BY SentFrame, FrameTypes DEF Compose, OInv, Agents, Phases
<1>1. TypeOK'
  BY <1>0 DEF Compose, OInv, TypeOK, Tokens
<1>2. Planned'
  BY DEF Compose, OInv, Planned
<1>3. Known'
  BY DEF Compose, OInv, Known
<1>4. Answered'
  BY DEF Compose, OInv, Answered
<1>5. Attributed'
  BY DEF Compose, OInv, Planned, Attributed, Running, By
<1>6. CompleteReply'
  BY DEF Compose, OInv, CompleteReply
<1> QED BY <1>1, <1>2, <1>3, <1>4, <1>5, <1>6 DEF OInv

(* A synthesis that failed fails the turn. *)
LEMMA EndSynthesisStep ==
  ASSUME OInv, EndSynthesis
  PROVE  OInv'
<1>0. frames' \in Seq(Frames)
  BY Failing DEF EndSynthesis, OInv, TypeOK
<1>1. TypeOK'
  <2>1. reply' \in Seq(Tokens) /\ failed' \in BOOLEAN /\ at' \in Places
        /\ broken' \subseteq Specialists \cup {Synthesizer}
    <3>1. <<>> \in Seq(Tokens)
      OBVIOUS
    <3>2. CASE at' = "relayed" /\ UNCHANGED <<reply, failed, frames, broken>>
      BY <3>2 DEF OInv, TypeOK, Places
    <3>3. CASE broken' = broken \cup {Synthesizer} /\ reply' = <<>> /\ Fail("relayed")
      BY <3>1, <3>3, Failing DEF OInv, TypeOK, Places
    <3> QED BY <3>2, <3>3 DEF EndSynthesis
  <2> QED BY <1>0, <2>1 DEF EndSynthesis, OInv, TypeOK
<1>2. Planned'
  BY DEF EndSynthesis, Fail, OInv, TypeOK, Planned
<1>3. Known'
  BY AgentAssumption DEF EndSynthesis, Fail, OInv, TypeOK, Known, Asked
<1>4. Answered'
  BY DEF EndSynthesis, Fail, OInv, Answered, Running
<1>5. Attributed'
  BY DEF EndSynthesis, Fail, OInv, Known, Attributed, Running, Asked, By, Sound
<1>6. CompleteReply'
  BY AgentAssumption DEF EndSynthesis, OInv, TypeOK, Answered, Attributed, CompleteReply, Succeeded, Running
<1> QED BY <1>1, <1>2, <1>3, <1>4, <1>5, <1>6 DEF OInv

(* The reply of a turn that did not fail is stored. *)
LEMMA StoreStep ==
  ASSUME OInv, Store
  PROVE  OInv'
<1>0. frames' \in Seq(Frames)
  BY DEF Store, OInv, TypeOK
<1>1. TypeOK'
  <2>1. ~failed => finalAgentId \in Agents
    BY DEF Store, OInv, TypeOK, Planned, finalAgentId, Agents
  <2> QED BY <2>1 DEF Store, flow, OInv, TypeOK, Places
<1>2. Planned'
  BY DEF Store, flow, OInv, Planned, Running
<1>3. Known'
  BY DEF Store, flow, OInv, Known, Asked
<1>4. Answered'
  BY DEF Store, flow, OInv, Answered, Running
<1>5. Attributed'
  BY DEF Store, flow, OInv, Attributed, Running, Asked
<1>6. CompleteReply'
  BY DEF Store, flow, OInv, Attributed, CompleteReply, Sound
<1> QED BY <1>1, <1>2, <1>3, <1>4, <1>5, <1>6 DEF OInv

(* The last frame changes nothing else. *)
LEMMA DoneStep ==
  ASSUME OInv, Done
  PROVE  OInv'
<1>0. frames' \in Seq(Frames)
  BY SentFrame, FrameTypes DEF Done, OInv
<1>1. TypeOK'
  BY <1>0 DEF Done, flow, OInv, TypeOK, Places
<1>2. Planned'
  BY DEF Done, flow, OInv, Planned, Running
<1>3. Known'
  BY DEF Done, flow, OInv, Known, Asked
<1>4. Answered'
  BY DEF Done, flow, OInv, Answered, Running
<1>5. Attributed'
  BY DEF Done, flow, OInv, Attributed, Running, Asked
<1>6. CompleteReply'
  BY DEF Done, flow, OInv, CompleteReply
<1> QED BY <1>1, <1>2, <1>3, <1>4, <1>5, <1>6 DEF OInv

-----------------------------------------------------------------------------
(* Nothing is planned, known, answered or said at the start. *)
LEMMA InitOInv == Init => OInv
<1> SUFFICES ASSUME Init PROVE OInv
  OBVIOUS
<1>1. TypeOK
  <2>1. <<>> \in Seq(Specialists) /\ <<>> \in Seq(Tokens) /\ <<>> \in Seq(Answers) /\ <<>> \in Seq(Frames)
    OBVIOUS
  <2>2. rank \in 0..Len(plan) /\ attempt \in 0..MaxAttempts
    BY AgentAssumption DEF Init
  <2> QED BY <2>1, <2>2 DEF Init, TypeOK, Places
<1>2. Planned /\ Known /\ Answered /\ Attributed
  BY DEF Init, Planned, Known, Answered, Attributed, Running, By
<1>3. CompleteReply
  BY DEF Init, CompleteReply, Succeeded
<1> QED BY <1>1, <1>2, <1>3 DEF OInv

(* Every step keeps the invariant. *)
LEMMA NextOInv == OInv /\ [Next]_vars => OInv'
<1> SUFFICES ASSUME OInv, [Next]_vars PROVE OInv'
  OBVIOUS
<1>1. CASE UNCHANGED vars
  <2>1. TypeOK'
    BY <1>1 DEF vars, OInv, TypeOK
  <2>2. (Planned /\ Known /\ Answered)'
    BY <1>1 DEF vars, OInv, Planned, Known, Answered
  <2>3. (Attributed /\ CompleteReply)'
    BY <1>1 DEF vars, OInv, Attributed, Sound, CompleteReply
  <2> QED BY <2>1, <2>2, <2>3 DEF OInv
<1>2. CASE Api
  BY <1>2, ClassifyStep, DirectStep, StartStep, InvokeStep, EndStep, StoreStep, DoneStep DEF Api
<1>3. CASE Runtime
  BY <1>3, TokenStep, StreamErrorStep, FinishStep DEF Runtime
<1>4. CASE Synthesis
  BY <1>4, ComposeStep, EndSynthesisStep DEF Synthesis
<1> QED BY <1>1, <1>2, <1>3, <1>4 DEF Next

(* Every reachable state of a turn satisfies the inductive invariant. *)
LEMMA Inductive == Spec => []OInv
BY InitOInv, NextOInv, PTL DEF Spec

(* Every variable of a turn keeps its type. *)
THEOREM TurnTypes == Spec => []TypeOK
<1>1. OInv => TypeOK
  BY DEF OInv
<1> QED BY <1>1, Inductive, PTL

(* However many specialists are asked, and however their streams fail, an  *)
(* answer that is combined and a reply that is stored hold no text of an   *)
(* agent whose stream reported an error.                                   *)
THEOREM RepliesComplete == Spec => []CompleteReply
<1>1. OInv => CompleteReply
  BY DEF OInv
<1> QED BY <1>1, Inductive, PTL

-----------------------------------------------------------------------------
(* Induction over the natural numbers and definition by recursion, in      *)
(* forms without an operator parameter: over a set of numbers and with a   *)
(* step that is a function.                                                *)

(* A set of positions that is not empty has a first one. *)
LEMMA FirstPlace ==
  ASSUME NEW S, S \subseteq Nat, S # {}
  PROVE  \E i \in S : \A j \in S : i <= j
<1> DEFINE Less == {ss \in Nat \X Nat : ss[1] < ss[2]}
<1>1. IsWellFoundedOn(Less, Nat)
  BY NatLessThanWellFounded DEF OpToRel
<1>2. \E i \in S : \A j \in S : ~(<<j, i>> \in Less)
  <2> HIDE DEF Less
  <2> QED BY <1>1, WFMin
<1>3. \A i, j \in S : ~(<<j, i>> \in Less) => i <= j
  OBVIOUS
<1> HIDE DEF Less
<1> QED BY <1>2, <1>3

(* What has 0, and with every number the next, has every number. *)
LEMMA FromZero ==
  ASSUME NEW S, 0 \in S, \A n \in Nat : n \in S => n + 1 \in S
  PROVE  Nat \subseteq S
<1> SUFFICES ASSUME Nat \ S # {} PROVE FALSE
  OBVIOUS
<1>1. PICK i \in Nat \ S : \A j \in Nat \ S : i <= j
  BY FirstPlace
<1>2. i - 1 \in Nat /\ i - 1 \notin Nat \ S
  BY <1>1
<1> QED BY <1>1, <1>2

(* A function is defined by its value at 0 and a step from each value to   *)
(* the next.                                                               *)
Recurs(f, V, x, step) ==
  f \in [Nat -> V] /\ f[0] = x /\ \A n \in Nat : f[n + 1] = step[<<n, f[n]>>]

LEMMA Recursion ==
  ASSUME NEW V, NEW x \in V, NEW step \in [Nat \X V -> V]
  PROVE  \E f : Recurs(f, V, x, step)
<1> DEFINE Begins(n, f) == /\ f \in [0..n -> V] /\ f[0] = x
                           /\ \A i \in 0..n : i < n => f[i + 1] = step[<<i, f[i]>>]
<1>1. \A n \in Nat : \E f : Begins(n, f)
  <2> DEFINE S == {n \in Nat : \E f : Begins(n, f)}
  <2>1. 0 \in S
    <3>1. Begins(0, [i \in 0..0 |-> x])
      OBVIOUS
    <3> QED BY <3>1
  <2>2. ASSUME NEW n \in Nat, n \in S PROVE n + 1 \in S
    <3>1. PICK f : Begins(n, f)
      BY <2>2
    <3> DEFINE y == step[<<n, f[n]>>]
               g == [i \in 0..(n + 1) |-> IF i = n + 1 THEN y ELSE f[i]]
    <3>2. f[n] \in V /\ y \in V
      BY <3>1
    <3> HIDE DEF y
    <3>3. g \in [0..(n + 1) -> V] /\ g[0] = x
      BY <3>1, <3>2
    <3>4. ASSUME NEW i \in 0..(n + 1), i < n + 1 PROVE g[i + 1] = step[<<i, g[i]>>]
      <4>1. CASE i = n
        BY <4>1, <3>4 DEF y
      <4>2. CASE i < n
        BY <4>2, <3>4, <3>1
      <4> QED BY <4>1, <4>2, <3>4
    <3>5. Begins(n + 1, g)
      BY <3>3, <3>4
    <3> QED BY <3>5
  <2> HIDE DEF S
  <2>3. Nat \subseteq S
    BY <2>1, <2>2, FromZero
  <2> QED BY <2>3 DEF S
<1>2. ASSUME NEW m \in Nat, NEW n \in Nat, m <= n, NEW f, NEW g, Begins(m, f), Begins(n, g)
      PROVE  \A i \in 0..m : f[i] = g[i]
  <2> DEFINE S == {i \in Nat : i <= m => f[i] = g[i]}
  <2>1. 0 \in S
    BY <1>2
  <2>2. ASSUME NEW i \in Nat, i \in S PROVE i + 1 \in S
    <3> SUFFICES ASSUME i + 1 <= m PROVE f[i + 1] = g[i + 1]
      OBVIOUS
    <3>1. i \in 0..m /\ i < m /\ i \in 0..n /\ i < n /\ f[i] = g[i]
      BY <1>2, <2>2
    <3> QED BY <1>2, <3>1
  <2> HIDE DEF S
  <2>3. Nat \subseteq S
    BY <2>1, <2>2, FromZero
  <2> QED BY <2>3 DEF S
<1> DEFINE start == [n \in Nat |-> CHOOSE f : Begins(n, f)]
           F == [n \in Nat |-> start[n][n]]
<1>3. \A n \in Nat : Begins(n, start[n])
  BY <1>1
<1> HIDE DEF start
<1>4. F \in [Nat -> V] /\ F[0] = x
  BY <1>3
<1>5. ASSUME NEW n \in Nat PROVE F[n + 1] = step[<<n, F[n]>>]
  <2>1. Begins(n, start[n]) /\ Begins(n + 1, start[n + 1])
    BY <1>3
  <2>2. start[n][n] = start[n + 1][n]
    <3> HIDE DEF Begins
    <3>1. \A i \in 0..n : start[n][i] = start[n + 1][i]
      BY <2>1, <1>2
    <3> QED BY <3>1
  <2>3. start[n + 1][n + 1] = step[<<n, start[n + 1][n]>>]
    BY <2>1
  <2> QED BY <2>2, <2>3
<1> HIDE DEF F
<1> QED BY <1>4, <1>5 DEF Recurs

-----------------------------------------------------------------------------
(* Only *)

(* What Only has picked, position after position. *)
Pick(seq, S, f, n) ==
  IF n = 0 THEN <<>> ELSE IF seq[n] \in S THEN Append(f[n - 1], seq[n]) ELSE f[n - 1]
Picks(seq, S, f) == f = [n \in 0..Len(seq) |-> Pick(seq, S, f, n)]

LEMMA PicksEach ==
  ASSUME NEW s, NEW S, NEW f
  PROVE  Picks(s, S, f) <=> /\ f = [n \in 0..Len(s) |-> f[n]]
                            /\ \A n \in 0..Len(s) : f[n] = Pick(s, S, f, n)
BY DEF Picks

Picked(seq, S, T, f) ==
  /\ f \in [0..Len(seq) -> Seq(T)]
  /\ Only(seq, S) = f[Len(seq)]
  /\ \A n \in 0..Len(seq) : f[n] = Pick(seq, S, f, n)

LEMMA OnlyPicks ==
  ASSUME NEW T, NEW s \in Seq(T), NEW S
  PROVE  \E f : Picked(s, S, T, f)
<1> DEFINE step == [x \in Nat \X Seq(T) |->
                      IF x[1] + 1 \in DOMAIN s /\ s[x[1] + 1] \in S
                      THEN Append(x[2], s[x[1] + 1]) ELSE x[2]]
<1>0. <<>> \in Seq(T)
  OBVIOUS
<1>1. step \in [Nat \X Seq(T) -> Seq(T)]
  <2> SUFFICES ASSUME NEW n \in Nat, NEW v \in Seq(T)
               PROVE  (IF n + 1 \in DOMAIN s /\ s[n + 1] \in S THEN Append(v, s[n + 1]) ELSE v) \in Seq(T)
    OBVIOUS
  <2>1. n + 1 \in DOMAIN s => s[n + 1] \in T
    OBVIOUS
  <2> QED BY <2>1
<1>2. \A n \in Nat, v \in Seq(T) :
        step[<<n, v>>] = IF n + 1 \in DOMAIN s /\ s[n + 1] \in S THEN Append(v, s[n + 1]) ELSE v
  OBVIOUS
<1> HIDE DEF step
<1>3. PICK f \in [Nat -> Seq(T)] : f[0] = <<>> /\ \A n \in Nat : f[n + 1] = step[<<n, f[n]>>]
  <2>1. \E f : Recurs(f, Seq(T), <<>>, step)
    BY <1>0, <1>1, Recursion
  <2> QED BY <2>1 DEF Recurs
<1> DEFINE g == [n \in 0..Len(s) |-> f[n]]
<1>4. g \in [0..Len(s) -> Seq(T)]
  BY <1>3
<1>5. ASSUME NEW n \in 0..Len(s) PROVE g[n] = Pick(s, S, g, n)
  <2>1. CASE n = 0
    BY <1>3, <2>1 DEF Pick
  <2>2. CASE n # 0
    <3>1. n - 1 \in Nat /\ n - 1 \in 0..Len(s) /\ (n - 1) + 1 = n /\ n \in DOMAIN s
      BY <2>2
    <3>2. f[n - 1] \in Seq(T) /\ f[n] = step[<<n - 1, f[n - 1]>>]
      BY <1>3, <3>1
    <3>3. f[n] = IF s[n] \in S THEN Append(f[n - 1], s[n]) ELSE f[n - 1]
      BY <1>2, <3>1, <3>2
    <3> QED BY <2>2, <3>1, <3>3 DEF Pick
  <2> QED BY <2>1, <2>2
<1>6. Picks(s, S, g)
  <2>1. g = [n \in 0..Len(s) |-> g[n]]
    OBVIOUS
  <2> HIDE DEF g
  <2> QED BY <1>5, <2>1, PicksEach
<1> HIDE DEF g
<1>7. ASSUME NEW h, Picks(s, S, h) PROVE h = g
  <2>0. h = [n \in 0..Len(s) |-> h[n]] /\ \A n \in 0..Len(s) : h[n] = Pick(s, S, h, n)
    BY <1>7, PicksEach
  <2> DEFINE Same(n) == h[n] = g[n]
             E == {n \in Nat : n <= Len(s) => Same(n)}
  <2>1. Same(0)
    <3>1. 0 \in 0..Len(s)
      OBVIOUS
    <3>2. h[0] = <<>> /\ g[0] = <<>>
      BY <1>5, <2>0, <3>1 DEF Pick
    <3> QED BY <3>2
  <2>2. ASSUME NEW n \in Nat, n + 1 <= Len(s), Same(n) PROVE Same(n + 1)
    <3>1. n + 1 \in 0..Len(s) /\ n + 1 # 0 /\ (n + 1) - 1 = n
      BY <2>2
    <3> QED BY <1>5, <2>0, <2>2, <3>1 DEF Pick
  <2> HIDE DEF Same
  <2>3. 0 \in E /\ \A n \in Nat : n \in E => n + 1 \in E
    BY <2>1, <2>2
  <2> HIDE DEF E
  <2>4. Nat \subseteq E
    BY <2>3, FromZero
  <2>5. \A n \in 0..Len(s) : Same(n)
    BY <2>4 DEF E
  <2> QED BY <1>4, <2>0, <2>5 DEF Same
<1>8. Only(s, S) = g[Len(s)]
  <2> DEFINE picked == CHOOSE h : Picks(s, S, h)
  <2>1. picked = g
    BY <1>6, <1>7
  <2>2. Only(s, S) = picked[Len(s)]
    BY DEF Only, Picks, Pick
  <2> QED BY <2>1, <2>2
<1> QED BY <1>4, <1>5, <1>8 DEF Picked

LEMMA OnlyNone == ASSUME NEW S PROVE Only(<<>>, S) = <<>>
<1>1. <<>> \in Seq({}) /\ Len(<<>>) = 0
  OBVIOUS
<1>2. PICK f : Picked(<<>>, S, {}, f)
  BY <1>1, OnlyPicks
<1>3. f[0] = Pick(<<>>, S, f, 0) /\ Only(<<>>, S) = f[0]
  BY <1>1, <1>2 DEF Picked
<1> QED BY <1>1, <1>2, <1>3 DEF Pick

LEMMA OnlyAppend ==
  ASSUME NEW T, NEW s \in Seq(T), NEW e \in T, NEW S
  PROVE  /\ Only(s, S) \in Seq(T)
         /\ Only(Append(s, e), S) = IF e \in S THEN Append(Only(s, S), e) ELSE Only(s, S)
<1> DEFINE r == Append(s, e)
<1>0. /\ r \in Seq(T) /\ Len(r) = Len(s) + 1 /\ r[Len(r)] = e /\ Len(s) \in Nat
      /\ \A n \in 1..Len(s) : r[n] = s[n]
  OBVIOUS
<1> HIDE DEF r
<1>1. PICK f : Picked(s, S, T, f)
  BY OnlyPicks
<1>2. PICK g : Picked(r, S, T, g)
  BY OnlyPicks, <1>0
<1> DEFINE E == {n \in Nat : n <= Len(s) => f[n] = g[n]}
<1>3. 0 \in E
  BY <1>0, <1>1, <1>2 DEF Picked, Pick
<1>4. ASSUME NEW n \in Nat, n \in E PROVE n + 1 \in E
  <2> SUFFICES ASSUME n + 1 <= Len(s) PROVE f[n + 1] = g[n + 1]
    OBVIOUS
  <2>1. /\ f[n] = g[n] /\ n + 1 \in 0..Len(s) /\ n + 1 \in 0..Len(r) /\ n + 1 # 0
        /\ (n + 1) - 1 = n /\ r[n + 1] = s[n + 1]
    BY <1>0, <1>4
  <2> QED BY <1>1, <1>2, <2>1 DEF Picked, Pick
<1> HIDE DEF E
<1>5. Nat \subseteq E
  BY <1>3, <1>4, FromZero
<1>6. f[Len(s)] = g[Len(s)]
  BY <1>0, <1>5 DEF E
<1>7. g[Len(r)] = IF e \in S THEN Append(g[Len(s)], e) ELSE g[Len(s)]
  <2>1. Len(r) \in 0..Len(r) /\ Len(r) # 0 /\ Len(r) - 1 = Len(s)
    BY <1>0
  <2> QED BY <1>0, <1>2, <2>1 DEF Picked, Pick
<1>8. Only(s, S) \in Seq(T)
  BY <1>0, <1>1 DEF Picked
<1> QED BY <1>1, <1>2, <1>6, <1>7, <1>8 DEF r, Picked

(* Nothing is picked where there is nothing to pick. *)
LEMMA OnlyNothing ==
  ASSUME NEW T, NEW s \in Seq(T), NEW S, \A i \in DOMAIN s : s[i] \notin S
  PROVE  Only(s, S) = <<>>
<1>0. Len(s) \in Nat
  OBVIOUS
<1>1. PICK f : Picked(s, S, T, f)
  BY OnlyPicks
<1> DEFINE E == {n \in Nat : n <= Len(s) => f[n] = <<>>}
<1>2. 0 \in E
  BY <1>0, <1>1 DEF Picked, Pick
<1>3. ASSUME NEW n \in Nat, n \in E PROVE n + 1 \in E
  <2>1. ASSUME n + 1 <= Len(s) PROVE f[n + 1] = <<>>
    <3>1. f[n] = <<>> /\ n + 1 \in 0..Len(s) /\ n + 1 # 0 /\ (n + 1) - 1 = n /\ n + 1 \in DOMAIN s
      BY <1>0, <1>3, <2>1
    <3> QED BY <1>1, <3>1 DEF Picked, Pick
  <2> QED BY <2>1
<1> HIDE DEF E
<1>4. Nat \subseteq E
  BY <1>2, <1>3, FromZero
<1> QED BY <1>0, <1>1, <1>4 DEF E, Picked

-----------------------------------------------------------------------------
(* The turn implements TurnContract.                                       *)

(* What has been told is known, and the turn is over when `done` is sent.  *)
Told ==
  /\ at # "done" => \A i \in DOMAIN frames : frames[i].event \notin {"done", "done with error"}
  /\ (\E i \in DOMAIN frames : frames[i].event = "error") <=> failed
  /\ at = "stored" /\ ~failed => stored # NoMessage

(* A failure is swallowed only by the turn of a single specialist, once it *)
(* was asked, and such a turn tells no error.                              *)
Silent ==
  /\ at = "routing" => ~failure /\ ~failed
  /\ at = "starting" /\ Len(plan) = 1 => ~failure
  /\ mode = "multi" /\ Len(plan) = 1 => ~failed
  /\ at = "composing" => mode = "multi" /\ Len(plan) # 1
  /\ at \in {"starting", "ended", "composing"} => mode = "multi"

(* The words shown are those of the text that will be stored, or of the    *)
(* text it is being made of; of drafts, none.                              *)
Matching ==
  /\ at = "routing" => Shown = <<>>
  /\ mode = "multi" /\ at \in Running =>
       Shown = IF Len(plan) = 1 /\ at # "starting" THEN NonBlank(text) ELSE <<>>
  /\ mode = "direct" /\ at \in Running => Shown = NonBlank(reply)
  /\ at = "composing" => Shown = NonBlank(reply)
  /\ at = "relayed" /\ ~failed /\ ~Swallowed => Shown = NonBlank(reply)
  /\ at = "relayed" /\ ~failed /\ Swallowed => reply = <<>>

KInv == OInv /\ Told /\ Silent /\ Matching

-----------------------------------------------------------------------------
(* What a frame adds to what the client has seen. *)

LEMMA ShownSent ==
  ASSUME TypeOK, NEW f \in Frames, Send(f)
  PROVE  Shown' = IF f \in WordFrames THEN Append(Shown, f.token) ELSE Shown
<1>1. frames \in Seq(Frames) /\ frames' = Append(frames, f)
  BY DEF TypeOK, Send
<1>2. Kept \in Seq(Frames) /\ Kept' = IF f \in WordFrames THEN Append(Kept, f) ELSE Kept
  <2> DEFINE W == WordFrames
  <2>1. Kept = Only(frames, W) /\ Kept' = Only(Append(frames, f), W)
    BY <1>1 DEF Kept, WordFrames, Frames, Agents
  <2> HIDE DEF W
  <2>2. /\ Only(frames, W) \in Seq(Frames)
        /\ Only(Append(frames, f), W) = IF f \in W THEN Append(Only(frames, W), f) ELSE Only(frames, W)
    BY <1>1, OnlyAppend
  <2> QED BY <2>1, <2>2 DEF W
<1>3. CASE f \in WordFrames
  <2>1. Kept' = Append(Kept, f)
    BY <1>2, <1>3
  <2>2. \A k \in Seq(Frames) : [i \in DOMAIN Append(k, f) |-> Append(k, f)[i].token]
                                = Append([i \in DOMAIN k |-> k[i].token], f.token)
    OBVIOUS
  <2> QED BY <1>2, <1>3, <2>1, <2>2 DEF Shown
<1>4. CASE f \notin WordFrames
  BY <1>2, <1>4 DEF Shown
<1> QED BY <1>3, <1>4

LEMMA ShownSame == UNCHANGED frames => UNCHANGED Shown
BY DEF Shown, Kept

LEMMA SentEvents ==
  ASSUME TypeOK, NEW f \in Frames, Send(f)
  PROVE  /\ \A P : (\A i \in DOMAIN frames : frames[i].event \notin P) /\ f.event \notin P
                   => \A i \in DOMAIN frames' : frames'[i].event \notin P
         /\ \A e : (\E i \in DOMAIN frames' : frames'[i].event = e)
                   <=> (\E i \in DOMAIN frames : frames[i].event = e) \/ f.event = e
         /\ frames' # <<>> /\ frames'[Len(frames')] = f
<1>1. /\ frames \in Seq(Frames) /\ frames' = Append(frames, f)
      /\ DOMAIN frames' = 1..(Len(frames) + 1) /\ DOMAIN frames = 1..Len(frames)
      /\ Len(frames) \in Nat /\ Len(frames') = Len(frames) + 1
      /\ frames'[Len(frames) + 1] = f /\ \A i \in 1..Len(frames) : frames'[i] = frames[i]
  BY DEF TypeOK, Send
<1>2. \A i \in DOMAIN frames' : i = Len(frames) + 1 \/ i \in DOMAIN frames
  BY <1>1
<1>3. \A i \in DOMAIN frames : i \in DOMAIN frames' /\ frames'[i] = frames[i]
  BY <1>1
<1>4. Len(frames) + 1 \in DOMAIN frames'
  BY <1>1
<1>5. frames' # <<>>
  BY <1>1
<1> QED BY <1>1, <1>2, <1>3, <1>4, <1>5

(* A turn that is not over is open, and until it is stored nothing is.     *)
Unstored == Closed = "open" /\ (at # "stored" => stored = NoMessage /\ StoredWords = NoMessage)

LEMMA OpenTurn == KInv /\ at # "done" => Unstored
<1> SUFFICES ASSUME KInv, at # "done" PROVE Unstored
  OBVIOUS
<1>1. Closed = "open"
  <2>1. CASE frames = <<>>
    BY <2>1 DEF Closed
  <2>2. CASE frames # <<>>
    <3>1. Len(frames) \in DOMAIN frames
      BY <2>2 DEF KInv, OInv, TypeOK
    <3>2. frames[Len(frames)].event \notin {"done", "done with error"}
      BY <3>1 DEF KInv, Told
    <3> QED BY <2>2, <3>2 DEF Closed
  <2> QED BY <2>1, <2>2
<1>2. at # "stored" => stored = NoMessage
  BY DEF KInv, OInv, Attributed
<1> QED BY <1>1, <1>2 DEF StoredWords, Unstored

(* An error is told when the turn is known to have failed; a lost turn is  *)
(* not one of those.                                                       *)
LEMMA ToldKnown == KInv => (ErrorTold <=> failed) /\ (Swallowed => ~failed)
BY DEF KInv, Told, Silent, ErrorTold, Swallowed

(* A step before the answer is stored is one of the contract when it shows *)
(* at most a word and forgets no error.                                    *)
LEMMA BeforeStored ==
  ASSUME KInv, KInv', at \notin {"stored", "done"}, at' \notin {"stored", "done"},
         failed => failed', Swallowed => Swallowed',
         \/ UNCHANGED Shown
         \/ /\ \E w \in Tokens : Shown' = Append(Shown, w)
            /\ UNCHANGED failed /\ Swallowed' = Swallowed
  PROVE  [Turn!TurnNext]_(Turn!turnVars)
<1>0. (KInv /\ at # "done" => Unstored)'
      /\ (KInv => (ErrorTold <=> failed) /\ (Swallowed => ~failed))'
  BY OpenTurn, ToldKnown, PTL
<1>1. Unstored /\ Unstored'
  BY <1>0, OpenTurn
<1>2. /\ (ErrorTold <=> failed) /\ (ErrorTold' <=> failed')
      /\ (Swallowed => ~failed) /\ (Swallowed' => ~failed')
  BY <1>0, ToldKnown
<1>3. Closed = "open" /\ Closed' = "open" /\ StoredWords = NoMessage /\ StoredWords' = NoMessage
  BY <1>1 DEF Unstored
<1>4. /\ ErrorTold \in BOOLEAN /\ ErrorTold' \in BOOLEAN
      /\ Swallowed \in BOOLEAN /\ Swallowed' \in BOOLEAN
  BY DEF ErrorTold, Swallowed, KInv, OInv, TypeOK
<1>5. CASE UNCHANGED Shown
  <2>1. CASE UNCHANGED <<ErrorTold, Swallowed>>
    BY <1>3, <1>5, <2>1 DEF Turn!turnVars
  <2>2. CASE ErrorTold' # ErrorTold
    <3>1. ErrorTold' = TRUE /\ Swallowed = FALSE /\ Swallowed' = FALSE
      BY <1>2, <1>4, <2>2
    <3> QED BY <1>3, <1>5, <3>1 DEF Turn!TurnNext, Turn!Tell, Turn!Going
  <2>3. CASE Swallowed' # Swallowed
    <3>1. Swallowed' = TRUE /\ ErrorTold = FALSE /\ ErrorTold' = FALSE
      BY <1>2, <1>4, <2>3
    <3> QED BY <1>3, <1>5, <3>1 DEF Turn!TurnNext, Turn!Lose, Turn!Going
  <2> QED BY <2>1, <2>2, <2>3
<1>6. CASE (\E w \in Tokens : Shown' = Append(Shown, w)) /\ UNCHANGED failed /\ Swallowed' = Swallowed
  <2>1. ErrorTold' = ErrorTold
    BY <1>2, <1>4, <1>6
  <2> QED BY <1>3, <1>6, <2>1 DEF Turn!TurnNext, Turn!Show, Turn!Going
<1> QED BY <1>5, <1>6

(* Only the last specialist of a plan leaves its tokens where it left them. *)
LEMMA WordTypes ==
  /\ Error \notin WordFrames
  /\ \A event, a, x, phase : event # "token" => Frame(event, [by |-> a, text |-> x], phase) \notin WordFrames
  /\ \A event : event # "token" => Frame(event, NoToken, "none") \notin WordFrames
BY DEF Error, Frame, WordFrames, NoToken

(* A failure that is told. *)
LEMMA FailSent ==
  ASSUME KInv, NEW place, Fail(place), at # "done"
  PROVE  /\ UNCHANGED Shown /\ failed' = TRUE /\ at' = place
         /\ \A i \in DOMAIN frames' : frames'[i].event \notin {"done", "done with error"}
         /\ \E i \in DOMAIN frames' : frames'[i].event = "error"
<1>1. TypeOK /\ Error \in Frames /\ Send(Error) /\ failed' = TRUE /\ at' = place
  BY FrameTypes DEF Fail, KInv, OInv
<1>2. UNCHANGED Shown
  BY <1>1, ShownSent, WordTypes
<1>3. Error.event = "error"
  BY DEF Error, Frame
<1>4. \A i \in DOMAIN frames : frames[i].event \notin {"done", "done with error"}
  BY DEF KInv, Told
<1> QED BY <1>1, <1>2, <1>3, <1>4, SentEvents

(* The words of a text. *)
LEMMA Words ==
  /\ NonBlank(<<>>) = <<>>
  /\ \A ts \in Seq(Tokens) :
       /\ NonBlank(ts) \in Seq(Tokens)
       /\ Blank(ts) => NonBlank(ts) = <<>>
       /\ \A t \in Tokens :
            NonBlank(Append(ts, t)) = IF t.text = "word" THEN Append(NonBlank(ts), t) ELSE NonBlank(ts)
<1> DEFINE W == {t \in Tokens : t.text = "word"}
<1>1. NonBlank(<<>>) = <<>>
  BY OnlyNone DEF NonBlank
<1>2. ASSUME NEW ts \in Seq(Tokens), Blank(ts) PROVE NonBlank(ts) = <<>>
  <2>1. \A i \in DOMAIN ts : ts[i] \notin W
    BY <1>2 DEF Blank
  <2> HIDE DEF W
  <2>2. Only(ts, W) = <<>>
    BY <2>1, OnlyNothing
  <2> QED BY <2>2 DEF W, NonBlank
<1>3. ASSUME NEW ts \in Seq(Tokens), NEW t \in Tokens
      PROVE  NonBlank(Append(ts, t)) = IF t.text = "word" THEN Append(NonBlank(ts), t) ELSE NonBlank(ts)
  <2>1. t \in W <=> t.text = "word"
    OBVIOUS
  <2> HIDE DEF W
  <2>2. Only(Append(ts, t), W) = IF t \in W THEN Append(Only(ts, W), t) ELSE Only(ts, W)
    BY OnlyAppend
  <2> QED BY <2>1, <2>2 DEF W, NonBlank
<1>4. ASSUME NEW ts \in Seq(Tokens) PROVE NonBlank(ts) \in Seq(Tokens)
  <2> HIDE DEF W
  <2>1. PICK f : Picked(ts, W, Tokens, f)
    BY OnlyPicks
  <2>2. Only(ts, W) \in Seq(Tokens)
    BY <2>1 DEF Picked
  <2> QED BY <2>2 DEF W, NonBlank
<1> QED BY <1>1, <1>2, <1>3, <1>4

-----------------------------------------------------------------------------
(* Every step keeps what is told and shown, and is one of the contract.    *)

KeptUp == Told /\ Silent /\ Matching

(* What a step that sends nothing, or the error of a failure, has told.    *)
LEMMA ToldSame ==
  ASSUME KInv, at # "done", at' \notin {"stored", "done"}, UNCHANGED <<frames, failed>>
  PROVE  Told'
BY DEF KInv, Told

LEMMA ToldFail ==
  ASSUME KInv, at # "done", NEW place \in {"relayed", "streaming"}, Fail(place)
  PROVE  Told'
BY FailSent DEF Told

(* A plan is made before anything is said. *)
LEMMA ClassifyTurn ==
  ASSUME KInv, NEW p \in Plans, Classify(p)
  PROVE  KeptUp' /\ (KInv' => [Turn!TurnNext]_(Turn!turnVars))
<1>1. /\ at = "routing" /\ at' \in {"relayed", "starting"} /\ ~failure /\ ~failure' /\ ~failed
      /\ (at' = "relayed" => failed') /\ mode = "multi" /\ mode' = "multi"
      /\ (Len(plan') = 1 => ~failed')
  BY DEF Classify, Fail, KInv, Silent
<1>2. Shown' = Shown /\ Shown = <<>>
  BY FailSent, <1>1, ShownSame DEF Classify, KInv, Matching
<1>3. Told'
  BY <1>1, ToldSame, ToldFail DEF Classify
<1>4. Silent' /\ Matching'
  BY <1>1, <1>2 DEF Silent, Matching, Running
<1> QED BY <1>1, <1>2, <1>3, <1>4, BeforeStored DEF Swallowed, KeptUp

LEMMA DirectTurn ==
  ASSUME KInv, NEW s \in Specialists, Direct(s)
  PROVE  KeptUp' /\ (KInv' => [Turn!TurnNext]_(Turn!turnVars))
<1>1. /\ at = "routing" /\ at' = "invoking" /\ mode = "direct" /\ mode' = "direct"
      /\ UNCHANGED <<frames, failed>> /\ reply' = <<>>
  BY DEF Direct, KInv, OInv, Planned
<1>2. Shown' = Shown /\ Shown = <<>>
  BY <1>1, ShownSame DEF KInv, Matching
<1>3. Told'
  BY <1>1, ToldSame
<1>4. Silent' /\ Matching'
  BY <1>1, <1>2, Words DEF Silent, Matching, Running
<1> QED BY <1>1, <1>2, <1>3, <1>4, BeforeStored DEF Swallowed, KeptUp

(* The frame that names the agent shows no word. *)
LEMMA StartTurn ==
  ASSUME KInv, Start
  PROVE  KeptUp' /\ (KInv' => [Turn!TurnNext]_(Turn!turnVars))
<1> DEFINE f == Frame("agent_active", [by |-> Current, text |-> "blank"], "none")
<1>1. /\ at = "starting" /\ at' = "invoking" /\ mode = "multi" /\ mode' = "multi"
      /\ UNCHANGED <<plan, failed>> /\ text' = <<>> /\ ~failure' /\ Send(f)
      /\ (Len(plan) = 1 => ~failure /\ ~failed)
  BY DEF Start, KInv, Silent
<1>2. f \in Frames /\ f \notin WordFrames /\ f.event = "agent_active"
  BY <1>1, FrameTypes, WordTypes, CurrentType DEF KInv, Running, Texts, Phases, Frame
<1> HIDE DEF f
<1>3. Shown' = Shown /\ Shown = <<>>
  BY <1>1, <1>2, ShownSent DEF KInv, OInv, Matching, Running
<1>4. Told'
  BY <1>1, <1>2, SentEvents DEF KInv, OInv, Told
<1>5. Silent' /\ Matching'
  BY <1>1, <1>3, Words DEF Silent, Matching, Running
<1> QED BY <1>1, <1>3, <1>4, <1>5, BeforeStored DEF Swallowed, KeptUp

(* An invocation shows nothing.                                            *)
LEMMA InvokeTurn ==
  ASSUME KInv, Invoke
  PROVE  KeptUp' /\ (KInv' => [Turn!TurnNext]_(Turn!turnVars))
<1>1. /\ at = "invoking" /\ UNCHANGED <<mode, plan, text, reply>>
      /\ \/ at' \in {"invoking", "streaming"} /\ UNCHANGED <<failure, failed, frames>>
         \/ mode = "multi" /\ failure' = TRUE /\ at' = "ended" /\ UNCHANGED <<failed, frames>>
         \/ mode = "direct" /\ Fail("relayed") /\ UNCHANGED failure
  BY DEF Invoke, Throw
<1>2. Shown' = Shown
  BY <1>1, ShownSame, FailSent
<1>3. Told'
  BY <1>1, ToldSame, ToldFail
<1>4. at' = "relayed" => failed' /\ mode = "direct"
  BY <1>1, FailSent
<1>5. Silent' /\ Matching'
  BY <1>1, <1>2, <1>4 DEF KInv, Silent, Matching, Running, Fail
<1>6. (failed => failed') /\ (Swallowed => Swallowed') /\ at' \notin {"stored", "done"}
  BY <1>1 DEF Swallowed, Fail
<1> QED BY <1>1, <1>2, <1>3, <1>5, <1>6, BeforeStored DEF KeptUp

(* A token is shown as it is kept: a word of a draft, or a blank, is not.  *)
LEMMA TokenTurn ==
  ASSUME KInv, NEW x \in Texts, Token(x)
  PROVE  KeptUp' /\ (KInv' => [Turn!TurnNext]_(Turn!turnVars))
<1> DEFINE token == [by |-> Current, text |-> x]
           f == Frame("token", token, IF Single THEN "none" ELSE "specialist")
<1>1. /\ at = "streaming" /\ at' = "streaming" /\ UNCHANGED <<mode, plan, failure, failed>>
      /\ Send(f)
      /\ \/ mode = "multi" /\ text' = Append(text, token) /\ UNCHANGED reply
         \/ mode = "direct" /\ reply' = Append(reply, token) /\ UNCHANGED text
  BY DEF Token
<1>2. Current \in Specialists /\ Current \in Agents /\ rank \in 1..Len(plan)
  BY <1>1, CurrentType DEF KInv, Running
<1>3. token \in Tokens /\ token.text = x
  BY <1>2 DEF Tokens
<1>4. f \in Frames /\ f.event = "token" /\ f.token = token
      /\ (f \in WordFrames <=> Single /\ x = "word")
  <2>1. f \in Frames
    BY <1>2, FrameTypes DEF Phases
  <2>2. f.event = "token" /\ f.token = token /\ (f.phase # "specialist" <=> Single)
    BY DEF Frame
  <2> QED BY <1>3, <2>1, <2>2 DEF WordFrames
<1> HIDE DEF f, token
<1>5. Shown' = IF Single /\ x = "word" THEN Append(Shown, token) ELSE Shown
  BY <1>1, <1>4, ShownSent DEF KInv, OInv
<1>6. Told'
  BY <1>1, <1>4, SentEvents DEF KInv, OInv, Told
<1>7. Silent'
  BY <1>1 DEF KInv, Silent
<1>8. text \in Seq(Tokens) /\ reply \in Seq(Tokens)
  BY DEF KInv, OInv, TypeOK
<1>9. Matching'
  <2>1. CASE mode = "direct"
    <3>1. Shown' = NonBlank(reply')
      BY <1>1, <1>3, <1>5, <1>8, <2>1, Words DEF Single, KInv, Matching, Running
    <3> QED BY <1>1, <2>1, <3>1 DEF Matching
  <2>2. CASE mode = "multi"
    <3>1. Len(plan) = 1 => Shown' = NonBlank(text')
      BY <1>1, <1>3, <1>5, <1>8, <2>2, Words DEF Single, KInv, Matching, Running
    <3>2. Len(plan) # 1 => Shown' = <<>>
      BY <1>1, <1>5, <2>2 DEF Single, KInv, Matching, Running
    <3> QED BY <1>1, <2>2, <3>1, <3>2 DEF Matching
  <2> QED BY <1>1, <2>1, <2>2
<1> QED BY <1>1, <1>3, <1>5, <1>6, <1>7, <1>9, BeforeStored DEF Swallowed, KeptUp

(* An error in the stream is told at once, or is the specialist's failure. *)
LEMMA StreamErrorTurn ==
  ASSUME KInv, StreamError
  PROVE  KeptUp' /\ (KInv' => [Turn!TurnNext]_(Turn!turnVars))
<1>1. /\ at = "streaming" /\ at' = "streaming" /\ UNCHANGED <<mode, plan, text, reply>>
      /\ \/ mode = "multi" /\ failure' = TRUE /\ UNCHANGED <<failed, frames>>
         \/ mode = "direct" /\ Fail("streaming") /\ UNCHANGED failure
  BY DEF StreamError, Fail
<1>2. Shown' = Shown
  BY <1>1, ShownSame, FailSent
<1>3. Told'
  BY <1>1, ToldSame, ToldFail
<1>4. Silent' /\ Matching'
  BY <1>1, <1>2 DEF KInv, Silent, Matching, Running
<1>5. (failed => failed') /\ (Swallowed => Swallowed')
  BY <1>1 DEF Swallowed, Fail
<1> QED BY <1>1, <1>2, <1>3, <1>4, <1>5, BeforeStored DEF KeptUp

(* The end of the stream shows nothing more. *)
LEMMA FinishTurn ==
  ASSUME KInv, Finish
  PROVE  KeptUp' /\ (KInv' => [Turn!TurnNext]_(Turn!turnVars))
<1>1. /\ at = "streaming" /\ UNCHANGED <<mode, plan, text, reply>>
      /\ \/ mode = "multi" /\ at' = "ended" /\ (UNCHANGED failure \/ failure' = TRUE) /\ UNCHANGED <<failed, frames>>
         \/ mode = "direct" /\ at' = "relayed" /\ UNCHANGED <<failure, failed, frames>>
         \/ mode = "direct" /\ Fail("relayed") /\ UNCHANGED failure
  BY AgentAssumption DEF Finish, Throw, KInv, OInv, TypeOK
<1>2. Shown' = Shown /\ at' \in {"ended", "relayed"}
  BY <1>1, ShownSame, FailSent
<1>3. Told'
  BY <1>1, ToldSame, ToldFail
<1>4. at' = "relayed" => Swallowed' = FALSE
  BY <1>1 DEF Swallowed
<1>5. Silent' /\ Matching'
  BY <1>1, <1>2, <1>4 DEF KInv, Silent, Matching, Running, Fail
<1>6. (failed => failed') /\ (Swallowed => Swallowed')
  BY <1>1 DEF Swallowed, Fail
<1> QED BY <1>1, <1>2, <1>3, <1>5, <1>6, BeforeStored DEF KeptUp

(* A single answer is what was shown; several are drafts.                  *)
LEMMA EndTurn ==
  ASSUME KInv, End
  PROVE  KeptUp' /\ (KInv' => [Turn!TurnNext]_(Turn!turnVars))
<1> DEFINE f == Frame("agent_active", NoToken, "none")
<1>1. /\ at = "ended" /\ mode = "multi" /\ UNCHANGED <<mode, plan, text, failure>>
      /\ \/ rank < Len(plan) /\ at' = "starting" /\ UNCHANGED <<reply, failed, frames>>
         \/ Len(plan) = 1 /\ reply' = Answer.text /\ at' = "relayed" /\ UNCHANGED <<failed, frames>>
         \/ Len(plan) # 1 /\ Send(f) /\ at' = "composing" /\ UNCHANGED <<reply, failed>>
         \/ Len(plan) # 1 /\ Fail("relayed") /\ UNCHANGED reply
  BY AgentAssumption DEF End, Single, KInv, Silent
<1>2. f \in Frames /\ f \notin WordFrames /\ f.event = "agent_active"
  BY FrameTypes, WordTypes DEF Frame
<1> HIDE DEF f
<1>3. Shown' = Shown
  BY <1>1, <1>2, ShownSame, ShownSent, FailSent DEF KInv, OInv
<1>4. Shown = IF Len(plan) = 1 THEN NonBlank(text) ELSE <<>>
  BY <1>1 DEF KInv, Matching, Running
<1>5. Told'
  <2>1. CASE Send(f) /\ at' = "composing" /\ UNCHANGED failed
    BY <1>1, <1>2, <2>1, SentEvents DEF KInv, OInv, Told
  <2> QED BY <1>1, <2>1, ToldSame, ToldFail
<1>6. at' \in {"starting", "relayed", "composing"} /\ (failed => failed') /\ (Swallowed => Swallowed')
  BY <1>1 DEF Swallowed, Fail
<1>7. rank >= 1 /\ rank \in Nat /\ Len(plan) \in Nat
  BY <1>1 DEF KInv, OInv, TypeOK, Planned, Running
<1>8. Silent'
  BY <1>1, <1>7 DEF KInv, Silent, Fail
<1>9. Matching'
  <2>1. CASE at' = "starting"
    BY <1>1, <1>3, <1>4, <1>7, <2>1 DEF Matching, Running
  <2>2. CASE at' = "composing"
    <3>1. reply' = <<>> /\ Len(plan) # 1
      BY <1>1, <2>2 DEF KInv, OInv, Attributed, Running, Fail
    <3> QED BY <1>1, <1>3, <1>4, <2>2, <3>1, Words DEF Matching, Running
  <2>3. CASE at' = "relayed"
    <3>0. Swallowed' => reply' = <<>>
      BY <1>1, <2>3 DEF Swallowed, Answer
    <3>1. SUFFICES ASSUME ~failed', ~Swallowed' PROVE Shown' = NonBlank(reply')
      BY <1>1, <2>3, <3>0 DEF Matching, Running
    <3>2. Len(plan) = 1 /\ reply' = Answer.text /\ ~failure
      BY <1>1, <2>3, <3>1 DEF Swallowed, Fail
    <3>3. reply' = IF Blank(text) THEN <<>> ELSE text
      BY <3>2 DEF Answer
    <3>4. text \in Seq(Tokens)
      BY DEF KInv, OInv, TypeOK
    <3> QED BY <1>3, <1>4, <3>2, <3>3, <3>4, Words
  <2> QED BY <1>6, <2>1, <2>2, <2>3
<1> QED BY <1>1, <1>3, <1>5, <1>6, <1>8, <1>9, BeforeStored DEF KeptUp

(* The words of the synthesis are shown and kept. *)
LEMMA ComposeTurn ==
  ASSUME KInv, NEW x \in Texts, Compose(x)
  PROVE  KeptUp' /\ (KInv' => [Turn!TurnNext]_(Turn!turnVars))
<1> DEFINE token == [by |-> Synthesizer, text |-> x]
           f == Frame("token", token, "synthesis")
<1>1. /\ at = "composing" /\ at' = "composing" /\ UNCHANGED <<mode, plan, failure, failed>>
      /\ Send(f) /\ reply' = Append(reply, token)
  BY DEF Compose
<1>2. token \in Tokens /\ token.text = x
  BY DEF Tokens
<1>3. f \in Frames /\ f.event = "token" /\ f.token = token /\ (f \in WordFrames <=> x = "word")
  <2>1. f \in Frames
    BY FrameTypes DEF Phases, Agents
  <2>2. f.event = "token" /\ f.token = token /\ f.phase # "specialist"
    BY DEF Frame
  <2> QED BY <1>2, <2>1, <2>2 DEF WordFrames
<1> HIDE DEF f, token
<1>4. Shown' = IF x = "word" THEN Append(Shown, token) ELSE Shown
  BY <1>1, <1>3, ShownSent DEF KInv, OInv
<1>5. Told'
  BY <1>1, <1>3, SentEvents DEF KInv, OInv, Told
<1>6. Silent'
  BY <1>1 DEF KInv, Silent
<1>7. Matching'
  <2>1. Shown = NonBlank(reply) /\ reply \in Seq(Tokens)
    BY <1>1 DEF KInv, OInv, TypeOK, Matching
  <2>2. Shown' = NonBlank(reply')
    BY <1>1, <1>2, <1>4, <2>1, Words
  <2> QED BY <1>1, <2>2 DEF Matching, Running
<1> QED BY <1>1, <1>2, <1>4, <1>5, <1>6, <1>7, BeforeStored DEF Swallowed, KeptUp

LEMMA EndSynthesisTurn ==
  ASSUME KInv, EndSynthesis
  PROVE  KeptUp' /\ (KInv' => [Turn!TurnNext]_(Turn!turnVars))
<1>1. /\ at = "composing" /\ mode = "multi" /\ Len(plan) # 1
      /\ UNCHANGED <<mode, plan, failure>>
      /\ \/ at' = "relayed" /\ UNCHANGED <<reply, failed, frames>>
         \/ Fail("relayed")
  BY DEF EndSynthesis, KInv, Silent
<1>2. Shown' = Shown /\ at' = "relayed"
  BY <1>1, ShownSame, FailSent
<1>3. Told'
  BY <1>1, ToldSame, ToldFail
<1>4. at' = "relayed" => Swallowed' = FALSE
  BY <1>1 DEF Swallowed
<1>5. Silent' /\ Matching'
  BY <1>1, <1>2, <1>4 DEF KInv, Silent, Matching, Running, Fail
<1>6. (failed => failed') /\ (Swallowed => Swallowed')
  BY <1>1 DEF Swallowed, Fail
<1> QED BY <1>1, <1>2, <1>3, <1>5, <1>6, BeforeStored DEF KeptUp

(* The words shown are stored, unless the turn failed or swallowed one. *)
LEMMA StoreTurn ==
  ASSUME KInv, KInv', Store
  PROVE  [Turn!TurnNext]_(Turn!turnVars)
<1>1. /\ at = "relayed" /\ at' = "stored" /\ UNCHANGED <<mode, plan, failure, failed, frames>>
      /\ \/ ~failed /\ stored' = [agent |-> finalAgentId, text |-> reply]
         \/ failed /\ UNCHANGED stored
  BY DEF Store, flow
<1>0. (KInv /\ at # "done" => Unstored)'
  BY OpenTurn, PTL
<1>2. /\ Closed = "open" /\ Closed' = "open" /\ stored = NoMessage /\ StoredWords = NoMessage
  BY <1>0, <1>1, OpenTurn DEF Unstored
<1>3. UNCHANGED Shown /\ ErrorTold' = ErrorTold /\ Swallowed' = Swallowed
  BY <1>1, ShownSame DEF ErrorTold, Swallowed
<1>4. CASE failed
  <2>1. StoredWords' = NoMessage
    BY <1>1, <1>2, <1>4 DEF StoredWords
  <2> QED BY <1>2, <1>3, <2>1 DEF Turn!turnVars
<1>5. ASSUME ~failed
      PROVE  StoredWords' = NonBlank(reply) /\ ErrorTold = FALSE
  <2>1. stored' = [agent |-> finalAgentId, text |-> reply] /\ stored' # NoMessage
    BY <1>1, <1>5 DEF KInv, Told
  <2>2. StoredWords' = NonBlank(reply)
    BY <2>1 DEF StoredWords, NonBlank, Tokens
  <2> QED BY <1>5, <2>2, ToldKnown DEF ErrorTold
<1>6. CASE ~failed /\ Swallowed
  <2>1. reply = <<>>
    BY <1>1, <1>6 DEF KInv, Matching
  <2>2. StoredWords' = <<>>
    BY <1>5, <1>6, <2>1, Words
  <2> QED BY <1>2, <1>3, <1>5, <1>6, <2>2 DEF Turn!TurnNext, Turn!KeepNothing, Turn!Going
<1>7. CASE ~failed /\ ~Swallowed
  <2>1. Shown = NonBlank(reply)
    BY <1>1, <1>7 DEF KInv, Matching
  <2> QED BY <1>2, <1>3, <1>5, <1>7, <2>1 DEF Turn!TurnNext, Turn!Keep, Turn!Going
<1> QED BY <1>4, <1>6, <1>7

LEMMA StoreKept ==
  ASSUME KInv, Store
  PROVE  KeptUp'
<1>1. /\ at = "relayed" /\ at' = "stored" /\ UNCHANGED <<mode, plan, failure, failed, frames>>
      /\ \/ ~failed /\ stored' = [agent |-> finalAgentId, text |-> reply]
         \/ failed /\ UNCHANGED stored
  BY DEF Store, flow
<1>2. ~failed' => stored' # NoMessage
  <2>1. SUFFICES ASSUME ~failed PROVE stored' # NoMessage
    BY <1>1
  <2>2. finalAgentId \in Specialists \cup {Synthesizer, Orchestrator} /\ reply \in Seq(Tokens)
    BY <1>1, <2>1 DEF KInv, OInv, TypeOK, Planned, finalAgentId
  <2>3. stored' \in [agent : Specialists \cup {Synthesizer, Orchestrator}, text : Seq(Tokens)]
    BY <1>1, <2>1, <2>2
  <2> QED BY <2>3, MessageAssumption
<1>3. Told'
  BY <1>1, <1>2 DEF KInv, Told
<1>4. Silent' /\ Matching'
  BY <1>1 DEF KInv, Silent, Matching, Running
<1> QED BY <1>3, <1>4 DEF KeptUp

(* `done` closes the turn as it went. *)
LEMMA DoneTurn ==
  ASSUME KInv, Done
  PROVE  KeptUp' /\ [Turn!TurnNext]_(Turn!turnVars)
<1> DEFINE f == Frame(IF failed THEN "done with error" ELSE "done", NoToken, "none")
<1>1. /\ at = "stored" /\ at' = "done" /\ UNCHANGED <<mode, plan, failure, failed, stored>> /\ Send(f)
  BY DEF Done, flow
<1>2. f \in Frames /\ f \notin WordFrames /\ f.event = (IF failed THEN "done with error" ELSE "done")
  BY FrameTypes, WordTypes DEF Frame
<1> HIDE DEF f
<1>3. Shown' = Shown /\ Swallowed' = Swallowed /\ StoredWords' = StoredWords
  BY <1>1, <1>2, ShownSent DEF KInv, OInv, Swallowed, StoredWords, NonBlank, Tokens
<1>4. (\E i \in DOMAIN frames' : frames'[i].event = "error") <=> (\E i \in DOMAIN frames : frames[i].event = "error")
  BY <1>1, <1>2, SentEvents DEF KInv, OInv
<1>5. ErrorTold' = ErrorTold
  BY <1>4 DEF ErrorTold
<1>6. KeptUp'
  BY <1>1, <1>4 DEF KeptUp, KInv, Told, Silent, Matching, Running
<1>7. Closed = "open"
  BY <1>1, OpenTurn DEF Unstored
<1>8. Closed' = IF failed THEN "error" ELSE "ok"
  <2>1. frames' # <<>> /\ frames'[Len(frames')] = f
    BY <1>1, <1>2, SentEvents DEF KInv, OInv
  <2> QED BY <1>2, <1>3, <2>1 DEF Closed
<1>9. failed => ErrorTold
  BY ToldKnown
<1>10. ~failed => StoredWords # NoMessage
  <2>1. SUFFICES ASSUME ~failed PROVE StoredWords # NoMessage
    OBVIOUS
  <2>2. stored # NoMessage
    BY <1>1, <2>1 DEF KInv, Told
  <2>3. stored.text \in Seq(Tokens)
    BY <2>2 DEF KInv, OInv, TypeOK
  <2>4. NonBlank(stored.text) \in Seq(Tokens)
    BY <2>3, Words
  <2> QED BY <2>1, <2>2, <2>4, MessageAssumption DEF StoredWords
<1>11. Turn!Close
  BY <1>3, <1>5, <1>7, <1>8, <1>9, <1>10 DEF Turn!Close
<1> QED BY <1>6, <1>11 DEF Turn!TurnNext

-----------------------------------------------------------------------------
LEMMA InitKept == Init => KInv /\ Turn!TurnInit
<1> SUFFICES ASSUME Init PROVE KInv /\ Turn!TurnInit
  OBVIOUS
<1>1. Shown = <<>>
  <2>1. Kept = <<>>
    BY OnlyNone DEF Init, Kept
  <2> QED BY <2>1 DEF Shown
<1>2. Told /\ Silent /\ Matching
  BY <1>1 DEF Init, Told, Silent, Matching, Running
<1>3. ErrorTold = FALSE /\ Swallowed = FALSE /\ StoredWords = NoMessage /\ Closed = "open"
  BY DEF Init, ErrorTold, Swallowed, StoredWords, Closed
<1> QED BY <1>1, <1>2, <1>3, InitOInv DEF KInv, Turn!TurnInit

(* Every step of the turn keeps the invariant and is a step, or a stutter, *)
(* of the contract.                                                        *)
LEMMA NextKept == KInv /\ [Next]_vars => KInv' /\ [Turn!TurnNext]_(Turn!turnVars)
<1> SUFFICES ASSUME KInv, [Next]_vars PROVE KInv' /\ [Turn!TurnNext]_(Turn!turnVars)
  OBVIOUS
<1>1. OInv'
  BY NextOInv DEF KInv
<1>2. KeptUp' => KInv'
  BY <1>1 DEF KeptUp, KInv
<1>3. CASE UNCHANGED vars
  <2>1. UNCHANGED <<Shown, Swallowed, ErrorTold, StoredWords, Closed>>
    BY <1>3, ShownSame DEF vars, Swallowed, ErrorTold, StoredWords, Closed, NonBlank, Tokens
  <2>2. KeptUp'
    BY <1>3, <2>1 DEF vars, KeptUp, KInv, Told, Silent, Matching, NonBlank, Tokens
  <2> QED BY <1>2, <2>1, <2>2 DEF Turn!turnVars
<1>4. CASE Api
  BY <1>2, <1>4, ClassifyTurn, DirectTurn, StartTurn, InvokeTurn, EndTurn, StoreKept, StoreTurn, DoneTurn DEF Api
<1>5. CASE Runtime
  BY <1>2, <1>5, TokenTurn, StreamErrorTurn, FinishTurn DEF Runtime
<1>6. CASE Synthesis
  BY <1>2, <1>6, ComposeTurn, EndSynthesisTurn DEF Synthesis
<1> QED BY <1>3, <1>4, <1>5, <1>6 DEF Next

(* However the runtimes stream and fail, a turn ends in one of three ways: *)
(* exactly the words shown are stored before `done`; or an error is told,  *)
(* nothing is stored, and `done` says so; or, and only when the lone       *)
(* specialist of a classified turn failed, nothing is told, an empty       *)
(* message is stored, and `done` says nothing of it.                       *)
THEOREM ContractKept == Spec => KeepsContract
BY InitKept, NextKept, PTL DEF Spec, KeepsContract, Turn!TurnSpec
===============================================================================

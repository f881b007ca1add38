---------------------------- MODULE MCSwarmStream ----------------------------
(***************************************************************************)
(* Instances of SwarmStream for TLC.                                       *)
(***************************************************************************)
EXTENDS SwarmStream

CONSTANTS a, b

MCSpecialists == {a, b}
MCLoadable == {{}, {b}, {Orchestrator, a}}

(* Words with a "<" among them; reasoning, then an answer; an answer in a  *)
(* response tag with reasoning in it; reasoning that is cut off.           *)
MCTexts ==
  {<<"w", "<", "w">>,
   <<"<", "thinking>", "h", "<", "/thinking>", "w">>,
   <<"<", "response>", "w", "<", "thinking>", "h", "<", "/thinking>">>,
   <<"<", "output>", "h">>}
MCMaxCalls == [n \in {a, b, Orchestrator} |-> IF n = Orchestrator THEN 2 ELSE 0]
(* A message to show, one that is all reasoning, and one that breaks off. *)
MCMessages == {<<"w">>, <<"<", "thinking>", "h", "<", "/thinking>">>, <<"<", "output>", "h">>}

MCWords == {"w", "h", "u", "the"}
MCWeight == [x \in MCWords |-> 2]
Entry(agent, label, prompt) == [agent |-> agent, label |-> label, prompt |-> prompt]
MCHandoffs ==
  [n \in {a, b, Orchestrator} |->
     IF n = Orchestrator THEN <<Entry(a, <<"h">>, <<>>), Entry(b, <<"u", "the", "w">>, <<"h", "w">>)>> ELSE <<>>]
MCMeta == [n \in {a, b, Orchestrator} |->
             [description |-> IF n = a THEN <<"u", "w">> ELSE <<>>, skills |-> IF n = b THEN {<<"h">>} ELSE {}]]
MCUserWords == <<"u", "the", "w">>
===============================================================================

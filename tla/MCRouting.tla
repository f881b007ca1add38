------------------------------- MODULE MCRouting -------------------------------
(***************************************************************************)
(* Instances of Routing for TLC.                                           *)
(***************************************************************************)
EXTENDS Routing

CONSTANTS ann, annex, cv, pay, t1, t2, r1, r2

MCOrder == <<ann, annex, Orchestrator>>
MCAgents == {ann, annex, Orchestrator}
MCLonger == [x \in MCAgents |-> IF x = ann THEN {annex} ELSE {}]
MCTurns == {t1, t2}
MCWarmers == {AtBuild, r1, r2}

Query == Tool("mongodb_query")
Read == Tool("read_skill_resource")
Notify == [skill |-> cv, name |-> "notify"]
Weather == Tool("weather")
MCRootHttp == {Weather}
MCSkillHttp == {Notify}
Draft(name, body, skills, tools) == [name |-> name, body |-> body, skills |-> skills, tools |-> tools, valid |-> TRUE]
Specialist1 == Draft(<<"cv", "jobs">>, <<"role">>, {cv}, {Query, Read, Notify})
Specialist2 == Draft(<<"pay">>, <<"role">>, {}, {Weather})
Invalid == [Specialist1 EXCEPT !.valid = FALSE]
Router == Draft(<<"the">>, <<>>, {}, {})
LazyRouter == Draft(<<"the">>, <<>>, {cv, pay}, {Read})

Http(hosts) == [tools |-> {Weather}, hosts |-> hosts]
Snapshot(one, two, three, http, runtimes) ==
  [drafts |-> [x \in MCAgents |-> CASE x = ann -> one [] x = annex -> two [] OTHER -> three],
   written |-> {cv}, http |-> http, runtimes |-> runtimes]
MCShipped == Snapshot(Specialist1, Specialist2, LazyRouter, Http({"api"}), {})

(* A specialist leaves, or is invalid, or the routers' skills do; the HTTP  *)
(* tools come without a list of hosts; there is no orchestrator.           *)
MCSnapshots ==
  {Snapshot(NoFile, Specialist2, Router, Http({"api"}), {annex}),
   Snapshot(Specialist1, Invalid, Router, Http({}), {ann}),
   Snapshot(Specialist1, Specialist2, NoFile, Http({"api"}), {ann, annex})}
MCDrafts == {Specialist1, LazyRouter, Invalid}

Cast(role, turns, warmers, edits, backend) ==
  [role |-> role, turns |-> turns, warmers |-> warmers, edits |-> edits, backend |-> backend]

(* Two turns are routed while a configuration is taken over, or one while  *)
(* two are; two turns ask for agents while the process starts, or while    *)
(* the files are edited.                                                   *)
MCCasts ==
  {Cast("api", {t1, t2}, {r1}, 0, b) : b \in {"auto", "llm", "heuristic"}}
    \cup {Cast("api", {t1, t2}, {r1, r2}, 0, "auto"),
          Cast("runtime", {t1, t2}, {AtBuild}, 0, "auto"), Cast("runtime", {t1, t2}, {}, 1, "auto")}

MCPoints == [w \in {"cv", "jobs", "pay", "role"} |-> IF w = "role" THEN 1 ELSE 2]
MCMessages == {<<"cv", "jobs", "pay">>, <<"cv", "pay">>, <<"the", "pay", "role">>}
MCAnswers == {<<>>, <<ann>>, <<annex, annex, ann>>, <<Orchestrator>>}
MCUrls == {[expands |-> TRUE, host |-> "api"], [expands |-> TRUE, host |-> "lan"], [expands |-> FALSE, host |-> ""]}
MCFarSides == {"2xx", "5xx", "unreachable"}
================================================================================

------------------------------ MODULE AgentTools ------------------------------
(***************************************************************************)
(* The tools an agent is given (lib/base-tools.ts), the skills they reach  *)
(* through a SkillRegistry (lib/skill-loader.ts), and what a configured    *)
(* HTTP tool answers (lib/http-tools-runtime.ts).  Pure.  A tool is named  *)
(* by its skill, or NoSkill, and its name.                                 *)
(*                                                                         *)
(* A registry is a function from the allowed skills to who activated them: *)
(* Nobody, AtBuild, or a turn.                                             *)
(***************************************************************************)
EXTENDS FiniteSets

CONSTANTS
  NoSkill, Nobody, AtBuild,
  RootHttp,       \* the tools of the root http-tools.json
  SkillHttp,      \* the tools of the skills' own http-tools.json
  Mock            \* HTTP_TOOLS_MOCK

Tool(name) == [skill |-> NoSkill, name |-> name]
Gateway == {Tool(n) : n \in {"mongodb_query", "mongodb_vector_search", "mongodb_aggregate"}}
ActivateSkill == Tool("activate_skill")
SkillTools == {Tool("read_skill_resource"), Tool("run_skill_script")}
Static == {Tool("bedrock_kb_retrieve"), Tool("embed_multimodal_content")}

(* new SkillRegistry, and activateAll: a skill without instructions on the *)
(* disk is passed over.                                                    *)
Registry(skills, pre, written) ==
  [s \in skills |-> IF pre /\ s \in written THEN AtBuild ELSE Nobody]
isSkillActivated(registry, s) == registry[s] # Nobody

(* Names the gateway serves, and names nobody knows, are passed over.      *)
toolsForAgent(names, registry, httpTools) ==
  (IF \E s \in DOMAIN registry : ~isSkillActivated(registry, s) THEN {ActivateSkill} ELSE {})
    \cup (names \cap (SkillTools \cup Static \cup httpTools))
    \cup {n \in names \cap SkillHttp : n.skill \in DOMAIN registry}

(* Whose skill a call of the tool works on.                                *)
Reaches(tool, asked) == IF tool \in SkillTools THEN asked ELSE tool.skill

(* The gate of read_skill_resource, run_skill_script and the skills' HTTP  *)
(* tools.                                                                  *)
Allowed(registry, s) == s \in DOMAIN registry /\ isSkillActivated(registry, s)

(* assertUrlAllowed and runHttpCall, for a URL and the host list of the    *)
(* file the tool was made from; the far side answers well or not.          *)
assertUrlAllowed(url, hosts) == hosts # {} /\ url.host \in hosts
runHttpCall(url, hosts, farSide) ==
  CASE Mock -> "ok"
    [] ~Mock /\ ~url.expands -> "url_not_configured"
    [] ~Mock /\ url.expands /\ ~assertUrlAllowed(url, hosts) -> "ssrf_blocked"
    [] OTHER -> IF farSide = "2xx" THEN "ok" ELSE IF farSide = "unreachable" THEN "fetch_failed" ELSE "error"
===============================================================================

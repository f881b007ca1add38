------------------------------ MODULE SessionLog ------------------------------
(***************************************************************************)
(* What the session store promises for one session id, said without        *)
(* caches, documents or awaits: a session is one log with one owner.  Each *)
(* operation takes effect at one instant; an acknowledged message is in    *)
(* the log until the owner removes the log; a read returns the log of its  *)
(* caller and of nobody else.                                              *)
(*                                                                         *)
(* SessionStore refines this module under the conditions its runs name.    *)
(***************************************************************************)
EXTENDS Naturals, Sequences

CONSTANTS
  Calls,      \* operations asked of the log
  Users,      \* authenticated callers
  NoLog,      \* no session under this id
  NoTrace,    \* a message that carries no trace
  NoReply,    \* an operation that has not been answered
  OldLogs     \* the logs that may exist at the start

VARIABLES
  log,        \* NoLog, or [owner, msgs]
  answer      \* answer[c]: NoReply, or [status, msgs]

logVars == <<log, answer>>

Owned(u) == log # NoLog /\ log.owner = u

Answer(c, status, msgs) ==
  /\ answer[c] = NoReply
  /\ answer' = [answer EXCEPT ![c] = [status |-> status, msgs |-> msgs]]

LogInit == /\ log \in OldLogs \cup {NoLog}
           /\ answer = [c \in Calls |-> NoReply]

(* A log is opened, empty, by the first user who needs it. *)
Open == /\ log = NoLog
        /\ \E u \in Users : log' = [owner |-> u, msgs |-> <<>>]
        /\ UNCHANGED answer

(* A message is acknowledged, and is in its owner's log once, at the end. *)
Write(c) == \E role \in {"user", "assistant"}, u \in Users :
  /\ Owned(u)
  /\ \A i \in DOMAIN log.msgs : log.msgs[i].id # c
  /\ log' = [log EXCEPT !.msgs =
               Append(@, [id |-> c, role |-> role, from |-> u, trace |-> NoTrace])]
  /\ Answer(c, "ok", <<>>)

(* One message of the log is tagged with the trace of its turn. *)
Tag(c) == /\ log # NoLog
          /\ \E i \in DOMAIN log.msgs : log' = [log EXCEPT !.msgs[i].trace = c]
          /\ UNCHANGED answer

(* The owner removes the log. *)
Remove(u) == Owned(u) /\ log' = NoLog /\ UNCHANGED answer

(* A caller reads its own log; another user's log is refused. *)
Read(c, u) == \/ Owned(u) /\ Answer(c, "ok", log.msgs) /\ UNCHANGED log
              \/ log # NoLog /\ ~Owned(u) /\ Answer(c, "refused", <<>>) /\ UNCHANGED log
              \/ log = NoLog /\ Answer(c, "missing", <<>>) /\ UNCHANGED log

(* A caller lists its logs: this one is there only for its owner. *)
List(c, u) == /\ Answer(c, "ok", IF Owned(u) THEN log.msgs ELSE <<>>)
              /\ UNCHANGED log

(* Whoever does not own the log is refused a write. *)
Refuse(c) == /\ \E u \in Users : log # NoLog /\ ~Owned(u)
             /\ Answer(c, "refused", <<>>)
             /\ UNCHANGED log

LogNext == \/ Open
           \/ \E c \in Calls : Write(c) \/ Tag(c) \/ Refuse(c)
           \/ \E u \in Users : Remove(u)
           \/ \E c \in Calls, u \in Users : Read(c, u) \/ List(c, u)

LogSpec == LogInit /\ [][LogNext]_logVars
===============================================================================

------------------------------ MODULE MCChatTurn ------------------------------
(***************************************************************************)
(* Instances of ChatTurn for TLC: two users, two or three turns and a      *)
(* delete on one session of a process without a database.                  *)
(***************************************************************************)
EXTENDS ChatTurn, TLC

CONSTANTS ann, bob, delete

MCUsers == {ann, bob}
MCCalls == (Turns \X Parts) \cup {delete}
AllOps == {"get", "append", "delete", "tag"}
AnyBackend == {TRUE, FALSE}
AllEventFaults == {"read", "write"}
None == {}

(* Two turns at once and a delete; or three turns, one after the other,    *)
(* whose six messages do not fit into a prompt.                            *)
MCCasts == {[limit |-> 2, turns |-> 2, together |-> 2, visits |-> {delete}],
            [limit |-> 3, turns |-> 3, together |-> 1, visits |-> {}]}

Symmetry == Permutations(Turns) \cup Permutations(Users)
===============================================================================

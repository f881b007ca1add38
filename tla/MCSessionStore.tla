--------------------------- MODULE MCSessionStore ---------------------------
(***************************************************************************)
(* Instances of SessionStore for TLC: two users and a few calls on one     *)
(* session that may not exist, belong to one of the users, or be a legacy  *)
(* document without an owner.                                              *)
(***************************************************************************)
EXTENDS SessionStore

CONSTANTS ann, bob, oldAsk, oldReply

MCUsers == {ann, bob}
MCOldIds == {oldAsk, oldReply}

OldMessage(id, role, u) == [id |-> id, role |-> role, from |-> u, trace |-> NoTrace]
OldDoc(u) == [owner |-> u, msgs |-> <<OldMessage(oldAsk, "user", u),
                                      OldMessage(oldReply, "assistant", u)>>]
MCOldDocs == {OldDoc(ann), OldDoc(NoUser)}

AllOps == {"get", "append", "delete", "list", "tag"}
AllFaults == {"find", "save", "drop", "purge", "mirror"}
NoFaults == {}
=============================================================================

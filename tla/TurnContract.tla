----------------------------- MODULE TurnContract -----------------------------
(***************************************************************************)
(* What POST /chat does for its client in one turn, as the client and the  *)
(* session see it.  Text is shown as it comes; then the turn has one of    *)
(* three outcomes:                                                         *)
(*   - it is kept: exactly the text that was shown is stored, and `done`   *)
(*     follows;                                                            *)
(*   - it fails: an error is told, nothing is stored, and `done` follows   *)
(*     with the error;                                                     *)
(*   - it is lost: nothing is told, an empty message is stored, whatever   *)
(*     was shown, and `done` follows as if the turn had been kept.         *)
(* A turn that tells an error is not lost, and a lost one tells none.      *)
(*                                                                         *)
(* Text is what the client keeps: drafts are not part of it.               *)
(***************************************************************************)
EXTENDS Sequences

CONSTANTS
  Words,      \* pieces of text
  NoMessage   \* nothing stored

VARIABLES
  shown,      \* the text the client keeps
  told,       \* whether an error was told
  lost,       \* whether the turn's failure is kept from the client
  message,    \* NoMessage, or the text stored
  closed      \* "open", or how `done` ended the turn

turnVars == <<shown, told, lost, message, closed>>

TurnInit == /\ shown = <<>>
            /\ told = FALSE
            /\ lost = FALSE
            /\ message = NoMessage
            /\ closed = "open"

Going == closed = "open" /\ message = NoMessage

Show == /\ Going
        /\ \E w \in Words : shown' = Append(shown, w)
        /\ UNCHANGED <<told, lost, message, closed>>

Tell == /\ Going /\ ~lost
        /\ told' = TRUE
        /\ UNCHANGED <<shown, lost, message, closed>>

Lose == /\ Going /\ ~told
        /\ lost' = TRUE
        /\ UNCHANGED <<shown, told, message, closed>>

Keep == /\ Going /\ ~told /\ ~lost
        /\ message' = shown
        /\ UNCHANGED <<shown, told, lost, closed>>

KeepNothing == /\ Going /\ lost
               /\ message' = <<>>
               /\ UNCHANGED <<shown, told, lost, closed>>

Close == /\ closed = "open"
         /\ \/ message # NoMessage /\ closed' = "ok"
            \/ told /\ closed' = "error"
         /\ UNCHANGED <<shown, told, lost, message>>

TurnNext == Show \/ Tell \/ Lose \/ Keep \/ KeepNothing \/ Close

TurnSpec == TurnInit /\ [][TurnNext]_turnVars
===============================================================================

--------------------------- MODULE MCNotification ----------------------------
(* Small instances of Notification for TLC.                                *)
EXTENDS Notification, TLC

CONSTANTS c1, a1, w1

MCSetTim == SYSTIM
MCcyctim == [c \in Cyclic |-> 2]
MCcycphs == [c \in Cyclic |-> 1]

(* The alarm and the time-out take turns beside the cyclic notification.   *)
TakeTurns == {a1, w1} \cap Registered(tm) # {a1, w1}

(* set_tim moves the system time by half its range.                        *)
HalfRange == tm.systim_offset % W = 0

TurnsSpec == NoteInit /\ [][NoteNext /\ (TakeTurns /\ HalfRange)']_noteVars
TurnsFairSpec == TurnsSpec /\ TimeFairness
=============================================================================

------------------------------ MODULE PacedLine ------------------------------
(***************************************************************************)
(* What the sending side of a serial port promises, told without tasks,    *)
(* semaphores, interrupts or interrupt masks: the characters accepted go   *)
(* out one at a time and in the order in which they were accepted, never   *)
(* while the peer holds the line; only START and STOP overtake them.       *)
(***************************************************************************)
EXTENDS Integers, Sequences

CONSTANTS Char, FlowChar, NoChar, capacity

VARIABLES pending,  (* the characters accepted and not yet on the line     *)
          held,     (* the peer has asked for silence                      *)
          line      (* the character being sent, or NoChar                 *)

lineVars == <<pending, held, line>>

Emit(c) == line = NoChar /\ line' = c

Accept(c) ==
  /\ Len(pending) < capacity
  /\ pending' = Append(pending, c)
  /\ UNCHANGED <<held, line>>

(* With nothing before it a character goes straight to the line.           *)
Straight(c) == ~held /\ pending = <<>> /\ Emit(c) /\ UNCHANGED <<pending, held>>

(* The first waiting character goes out, perhaps by the very START that    *)
(* frees the line.                                                         *)
Send ==
  /\ pending # <<>> /\ Emit(Head(pending))
  /\ pending' = Tail(pending)
  /\ ~held'

(* START and STOP go out also while the peer holds the line; the interrupt  *)
(* that sends one may have received the peer's as well.                    *)
Overtake(f) == Emit(f) /\ held' \in BOOLEAN /\ UNCHANGED pending

Sent == line' = NoChar /\ UNCHANGED <<pending, held>>

HoldOrRelease == held' = ~held /\ UNCHANGED <<pending, line>>

(* The port is opened anew.                                                *)
Restart == pending' = <<>> /\ ~held' /\ UNCHANGED line

Init == pending = <<>> /\ held = FALSE /\ line = NoChar

Next ==
  \/ \E c \in Char : Accept(c) \/ Straight(c)
  \/ \E f \in FlowChar : Overtake(f)
  \/ Send \/ Sent \/ HoldOrRelease \/ Restart

Spec == Init /\ [][Next]_lineVars
=============================================================================

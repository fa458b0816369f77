---------------------------- MODULE PriorityQueue ----------------------------
(***************************************************************************)
(* What the time event heap promises: events wait, each with the time it   *)
(* occurs at; any of them can be withdrawn, and the one taken is always an *)
(* earliest.                                                               *)
(***************************************************************************)
EXTENDS Integers

CONSTANTS Event, NoEvent, Time

VARIABLES pending,    (* the events that wait |-> their times              *)
          taken       (* the event the last step took, if it took one      *)

queueVars == <<pending, taken>>

Waits == DOMAIN pending

Earliest(e) == \A f \in Waits : pending[e] <= pending[f]

Without(e) == [f \in Waits \ {e} |-> pending[f]]

Add(e, t) ==
  /\ e \notin Waits
  /\ pending' = [f \in Waits \cup {e} |-> IF f = e THEN t ELSE pending[f]]
  /\ taken' = NoEvent

Withdraw(e) == e \in Waits /\ pending' = Without(e) /\ taken' = NoEvent

TakeFirst(e) == e \in Waits /\ Earliest(e) /\ pending' = Without(e) /\ taken' = e

PqInit == pending = <<>> /\ taken = NoEvent

PqNext == \E e \in Event : TakeFirst(e) \/ Withdraw(e) \/ \E t \in Time : Add(e, t)

PqSpec == PqInit /\ [][PqNext]_queueVars
=============================================================================

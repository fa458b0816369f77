---------------------------- MODULE TimerService -----------------------------
(***************************************************************************)
(* What time management promises, told without heap, wrapping counters or  *)
(* a timer that must be set: every started event has a time left, which    *)
(* falls with each tick; it is called when none is left, the earliest      *)
(* first; a periodic one is started again with exactly its period, so that *)
(* lateness does not add up.  The time can be adjusted by small amounts,   *)
(* and the system time then stands still until it has been caught up with: *)
(* but for set_tim it never runs backwards.                                *)
(***************************************************************************)
EXTENDS Integers

CONSTANTS Event, NoEvent,
          period,     (* 0 for an event that is not periodic           *)
          phase,      (* of the events started at the beginning            *)
          Reltim, step,   (* the times to start with, rounded up by step   *)
          MaxAdjust, SystimMod

VARIABLES left,       (* the started events |-> their times left           *)
          systim,     (* the system time                                   *)
          behind,     (* how far adjustments have put the time behind it   *)
          running     (* the event whose callback has been called          *)

serviceVars == <<left, systim, behind, running>>

Started == DOMAIN left

StartedWith(e, t) == [f \in Started \cup {e} |-> IF f = e THEN t ELSE left[f]]

Start(e, t) == left' = StartedWith(e, t + step) /\ UNCHANGED <<systim, behind, running>>

Stop(e) ==
  /\ e \in Started
  /\ left' = [f \in Started \ {e} |-> left[f]]
  /\ UNCHANGED <<systim, behind, running>>

Call(e) ==
  /\ e \in Started /\ running' = e /\ running # e
  /\ left[e] <= 0 /\ \A f \in Started : left[e] <= left[f]
  /\ left' = IF period[e] > 0 THEN [left EXCEPT ![e] = @ + period[e]]
             ELSE [f \in Started \ {e} |-> left[f]]
  /\ UNCHANGED <<systim, behind>>

Return == running' = NoEvent /\ UNCHANGED <<left, systim, behind>>

Pass(d) ==
  /\ left' = [e \in Started |-> left[e] - d]
  /\ systim' = IF d > behind THEN (systim + d - behind) % SystimMod ELSE systim
  /\ behind' = IF d > behind THEN 0 ELSE behind - d
  /\ UNCHANGED running

Tick == Pass(1)

(* Forward only if nothing is late already, backward only if not far       *)
(* behind.                                                                 *)
Adjust(d) ==
  /\ d > 0 => \A e \in Started : left[e] > - MaxAdjust
  /\ d < 0 => behind < MaxAdjust
  /\ Pass(d)

SetTime(s) == systim' = s /\ UNCHANGED <<left, behind, running>>

ServiceInit == left = phase /\ systim = 0 /\ behind = 0 /\ running = NoEvent

ServiceNext ==
  \/ Tick \/ Return
  \/ \E e \in Event : Stop(e) \/ Call(e) \/ \E t \in Reltim : Start(e, t)
  \/ \E d \in - MaxAdjust .. MaxAdjust : Adjust(d)
  \/ \E s \in 0 .. SystimMod - 1 : SetTime(s)

ServiceSpec == ServiceInit /\ [][ServiceNext]_serviceVars
=============================================================================

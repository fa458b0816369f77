---------------------------- MODULE CheckedBuild -----------------------------
(***************************************************************************)
(* Notification as built by default (configure.rb, sample/Makefile: mode   *)
(* ReleaseSafe): arithmetic that does not ask for wrapping stops the       *)
(* kernel when it overflows.                                               *)
(***************************************************************************)
EXTENDS Notification

VARIABLE halted       (* TRUE when a safety check has stopped the kernel   *)

(* callCyclic adds the period with +, update_current_evttim narrows the    *)
(* counts passed with @intCast.                                            *)
Overflows ==
  \/ SignalCalls /\ tm.heap[0] \in Cyclic /\ nextEvttim(tm.heap[0]) >= W
  \/ tm'.current_hrtcnt # tm.current_hrtcnt /\ hrtcnt_advance(tm) >= W

CheckedNext == ~ halted /\ NoteNext /\ halted' = Overflows

CheckedSpec == NoteInit /\ halted = FALSE /\ [][CheckedNext]_<<noteVars, halted>>

(* Event times and counts may wrap, as they are compared relative to the   *)
(* boundary (time_event.zig:96-103): no lapse of time stops the kernel.    *)
NeverTraps == ~ halted
=============================================================================

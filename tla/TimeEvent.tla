------------------------------ MODULE TimeEvent ------------------------------
(***************************************************************************)
(* Time management: the second half of kernel/time_event.zig with          *)
(* kernel/time_manage.zig, as operators on a record m that holds the heap  *)
(* and the counters of the kernel, and the high resolution timer: its      *)
(* count hrt, the ticks hrt_left after which it will interrupt (0: none)   *)
(* and whether its interrupt is requested.                                 *)
(***************************************************************************)
EXTENDS TimeHeap

CONSTANTS
  BOUNDARY_MARGIN,    (* how late an event may be and keep its order       *)
  HRTCNT_MOD,         (* the counts of type HRTCNT (2^32 or 2^64)          *)
  TCYC_HRTCNT,        (* the period of the timer (HRTCNT_MOD if undefined) *)
  HRTCNT_BOUND,       (* the longest time it is set for, or Null           *)
  Null,
  TSTEP_HRTCNT,       (* the step its count advances by                    *)
  TMAX_ADJTIM,        (* the largest adjustment; TMIN_ADJTIM is its        *)
                      (* negative                                          *)
  SYSTIM_MOD          (* system times are counters modulo it (2^64)        *)

ASSUME TimeEventAssumption ==
  /\ BOUNDARY_MARGIN \in 1 .. W - 1 /\ HRTCNT_MOD \in Nat /\ TCYC_HRTCNT \in 1 .. HRTCNT_MOD
  /\ HRTCNT_BOUND = Null \/ HRTCNT_BOUND \in 1 .. TCYC_HRTCNT - 1
  /\ TSTEP_HRTCNT \in Nat /\ TMAX_ADJTIM \in Nat
  /\ SYSTIM_MOD \in Nat \ {0} /\ SYSTIM_MOD % W = 0 /\ Null \notin TMEVTB

HRTCNT == 0 .. TCYC_HRTCNT - 1
SYSTIM == 0 .. SYSTIM_MOD - 1

(* The counts since the last reading, once around the period at most.      *)
hrtcnt_advance(m) ==
  IF m.hrt < m.current_hrtcnt THEN (m.hrt - m.current_hrtcnt + TCYC_HRTCNT) % HRTCNT_MOD
  ELSE m.hrt - m.current_hrtcnt

boundary(evttim) == (evttim - BOUNDARY_MARGIN) % W

(* current_evttim moves to t, later by d; the system time follows unless   *)
(* it is ahead.                                                            *)
moved(m, t, d) ==
  LET passes == (m.monotonic_evttim - m.current_evttim) % W < d
      wraps == passes /\ t < m.monotonic_evttim
  IN [m EXCEPT !.current_evttim = t, !.boundary_evttim = boundary(t),
               !.monotonic_evttim = IF passes THEN t ELSE @,
               !.systim_offset = IF wraps THEN (@ + W) % SYSTIM_MOD ELSE @]

update_current_evttim(m) ==
  LET d == hrtcnt_advance(m) % W
  IN moved([m EXCEPT !.current_hrtcnt = m.hrt], (m.current_evttim + d) % W, d)

calc_current_evttim_ub(m) == (m.current_evttim + TSTEP_HRTCNT) % W

clear_event(m) == [m EXCEPT !.hrt_left = 0]
set_event(m, hrtcnt) == [m EXCEPT !.hrt_left = hrtcnt]
raise_event(m) == [m EXCEPT !.hrt_request = TRUE]

Bounded(hrtcnt) == IF HRTCNT_BOUND = Null \/ hrtcnt <= HRTCNT_BOUND THEN hrtcnt ELSE HRTCNT_BOUND

set_hrt_event(m) ==
  IF num_tmevt(m) = 0
  THEN IF HRTCNT_BOUND = Null THEN clear_event(m) ELSE set_event(m, HRTCNT_BOUND)
  ELSE IF EVTTIM_LE(m, top_evttim(m), m.current_evttim) THEN raise_event(m)
  ELSE set_event(m, Bounded((top_evttim(m) - m.current_evttim) % W))

enqueued(m, e, t) ==
  LET u == update_current_evttim(m)
  IN tmevtb_insert(u, e, (calc_current_evttim_ub(u) + t) % W)

tmevtb_enqueue_reltim_Late(m, e, t) == enqueued(m, e, t)       (* mutant *)
tmevtb_enqueue_reltim(m, e, t) ==
  LET q == enqueued(m, e, t)
  IN IF ~ q.in_signal_time /\ q.index[e] = 0 THEN set_hrt_event(q) ELSE q

tmevtb_dequeue(m, e) ==
  LET q == tmevtb_delete(m, e)
  IN IF ~ m.in_signal_time /\ m.index[e] = 0 THEN set_hrt_event(update_current_evttim(q)) ELSE q

(* TRUE if the time must not be adjusted.                                  *)
check_adjtim(m, adjtim) ==
  \/ /\ adjtim > 0 /\ num_tmevt(m) > 0
     /\ EVTTIM_LE(m, (top_evttim(m) + TMAX_ADJTIM) % W, m.current_evttim)
  \/ /\ adjtim < 0
     /\ (m.monotonic_evttim - m.current_evttim) % W >= TMAX_ADJTIM

adjusted(m, adjtim) ==
  LET t == (m.current_evttim + adjtim) % W
      a == IF adjtim > 0 THEN moved(m, t, adjtim)
           ELSE [m EXCEPT !.current_evttim = t, !.boundary_evttim = boundary(t)]
  IN IF m.in_signal_time THEN a ELSE set_hrt_event(a)

adj_tim(m, adjtim) ==
  LET u == update_current_evttim(m)
  IN IF check_adjtim(u, adjtim) THEN u ELSE adjusted(u, adjtim)

set_tim(m, systim) ==
  LET u == update_current_evttim(m)
  IN [u EXCEPT !.systim_offset = (systim - u.monotonic_evttim) % SYSTIM_MOD]

system_time(m) == (m.systim_offset + m.monotonic_evttim) % SYSTIM_MOD

(* One count of the timer, which interrupts when the time set has passed.  *)
hrt_tick(m) ==
  [m EXCEPT !.hrt = (@ + 1) % TCYC_HRTCNT,
            !.hrt_left = IF @ = 0 THEN 0 ELSE @ - 1,
            !.hrt_request = @ \/ m.hrt_left = 1]
=============================================================================

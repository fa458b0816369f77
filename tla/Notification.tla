---------------------------- MODULE Notification -----------------------------
(***************************************************************************)
(* Cyclic and alarm notifications, the time-outs of waiting tasks and the  *)
(* calls that read and set the time, on top of TimeEvent: kernel/cyclic.zig*)
(* kernel/alarm.zig, kernel/time_manage.zig, wait_tmout of kernel/wait.zig *)
(* and signal_time of kernel/time_event.zig, which gives way to other      *)
(* interrupt handlers while a notification handler runs.                   *)
(***************************************************************************)
EXTENDS TimeEvent

CONSTANTS
  Cyclic, Alarm, Timeout,  (* whose time event blocks there are            *)
  cyctim, cycphs,     (* period and phase of the cyclic notifications      *)
  TA_STA,             (* the ones started with the kernel                  *)
  RELTIM,             (* the relative times given to calls                 *)
  SetTim,             (* the system times set                              *)
  start_hrt,          (* the count of the timer when the kernel starts     *)
  MaxLate             (* the ticks for which an interrupt can be held off  *)

ASSUME NotificationAssumption ==
  /\ TMEVTB = Cyclic \cup Alarm \cup Timeout
  /\ cyctim \in [Cyclic -> Nat \ {0}] /\ cycphs \in [Cyclic -> Nat] /\ TA_STA \subseteq Cyclic
  /\ RELTIM \subseteq Nat /\ SetTim \subseteq SYSTIM /\ start_hrt \in HRTCNT
  /\ Cyclic \cap Alarm = {} /\ Cyclic \cap Timeout = {} /\ Alarm \cap Timeout = {}

(* The times given to calls leave room, in the range of event times, for   *)
(* the margin and for adjustments; interrupts are held off for less than   *)
(* the margin allows, and less than what HRTCNT_BOUND leaves of the period *)
(* of the timer.  (There is always a bound, unless the timer counts as far *)
(* as event times at least.)                                               *)
ASSUME LatenessAssumption ==
  /\ MaxLate \in Nat /\ TMAX_ADJTIM > 0
  /\ 2 * MaxLate <= BOUNDARY_MARGIN /\ MaxLate + 2 * TMAX_ADJTIM <= BOUNDARY_MARGIN + 1
  /\ \A t \in RELTIM \cup {cycphs[c] : c \in Cyclic} :
       t + TSTEP_HRTCNT + BOUNDARY_MARGIN + 2 * TMAX_ADJTIM <= W
  /\ \A c \in Cyclic : cyctim[c] + BOUNDARY_MARGIN + 2 * TMAX_ADJTIM <= W
  /\ HRTCNT_BOUND # Null => HRTCNT_BOUND + 2 * MaxLate < TCYC_HRTCNT
  /\ HRTCNT_BOUND = Null => W <= TCYC_HRTCNT

VARIABLES
  tm,                 (* the heap, the counters and the timer              *)
  cycsta, almsta,     (* CYCCB.cycsta, ALMCB.almsta                        *)
  waiting,            (* the tasks that wait with a time-out               *)
  sig,                (* signal_time: where it is, its callflag, and the   *)
                      (* event whose callback it has called last           *)
  late                (* the ticks since the interrupt is due              *)

noteVars == <<tm, cycsta, almsta, waiting, sig, late>>

(* initialize_tmevt, the registration of the notifications that start with *)
(* the kernel (initialize_cyclic), and sta_ker.                            *)
NoEvents ==
  [heap |-> <<>>, index |-> <<>>, evttim |-> <<>>,
   boundary_evttim |-> boundary(0), current_evttim |-> 0, monotonic_evttim |-> 0,
   systim_offset |-> 0, in_signal_time |-> FALSE,
   current_hrtcnt |-> start_hrt, hrt |-> start_hrt, hrt_left |-> 0, hrt_request |-> FALSE]

initialize_cyclic ==
  LET add[S \in SUBSET TA_STA] ==
        IF S = {} THEN NoEvents
        ELSE LET e == CHOOSE x \in S : TRUE IN tmevtb_insert(add[S \ {e}], e, cycphs[e] % W)
  IN add[TA_STA]

NoteInit ==
  /\ tm = set_hrt_event(initialize_cyclic)
  /\ cycsta = [c \in Cyclic |-> c \in TA_STA]
  /\ almsta = [a \in Alarm |-> FALSE]
  /\ waiting = {}
  /\ sig = [at |-> "idle", callflag |-> FALSE, called |-> Null]
  /\ late = 0

TaskRuns == sig.at = "idle"
(* A task, a handler of a higher interrupt priority, or the notification   *)
(* handler itself, where signal_time leaves the CPU unlocked.              *)
AnybodyRuns == sig.at \in {"idle", "window"}

Keep == UNCHANGED <<sig, late>>

restarted(on, e, t) ==
  tmevtb_enqueue_reltim(IF on THEN tmevtb_dequeue(tm, e) ELSE tm, e, t)

sta_cyc(c) ==
  /\ TaskRuns
  /\ tm' = restarted(cycsta[c], c, cycphs[c])
  /\ cycsta' = [cycsta EXCEPT ![c] = TRUE]
  /\ UNCHANGED <<almsta, waiting>> /\ Keep

stp_cyc(c) ==
  /\ TaskRuns /\ cycsta[c]
  /\ tm' = tmevtb_dequeue(tm, c)
  /\ cycsta' = [cycsta EXCEPT ![c] = FALSE]
  /\ UNCHANGED <<almsta, waiting>> /\ Keep

sta_alm(a, t) ==
  /\ AnybodyRuns
  /\ tm' = restarted(almsta[a], a, t)
  /\ almsta' = [almsta EXCEPT ![a] = TRUE]
  /\ UNCHANGED <<cycsta, waiting>> /\ Keep

stp_alm(a) ==
  /\ AnybodyRuns /\ almsta[a]
  /\ tm' = tmevtb_dequeue(tm, a)
  /\ almsta' = [almsta EXCEPT ![a] = FALSE]
  /\ UNCHANGED <<cycsta, waiting>> /\ Keep

(* make_wait_tmout, and wait_dequeue_tmevtb when the wait ends before.     *)
make_wait_tmout(w, t) ==
  /\ TaskRuns /\ w \notin waiting
  /\ tm' = tmevtb_enqueue_reltim(tm, w, t)
  /\ waiting' = waiting \cup {w}
  /\ UNCHANGED <<cycsta, almsta>> /\ Keep

wait_dequeue_tmevtb(w) ==
  /\ AnybodyRuns /\ w \in waiting
  /\ tm' = tmevtb_dequeue(tm, w)
  /\ waiting' = waiting \ {w}
  /\ UNCHANGED <<cycsta, almsta>> /\ Keep

OnlyTime == UNCHANGED <<cycsta, almsta, waiting>> /\ Keep

adjust(d) == AnybodyRuns /\ tm' = adj_tim(tm, d) /\ OnlyTime
set(s) == TaskRuns /\ tm' = set_tim(tm, s) /\ OnlyTime

(* get_tim, and the left time in ref_cyc and ref_alm, read the timer.      *)
get_tim == TaskRuns /\ tm' = update_current_evttim(tm) /\ OnlyTime

TimeCall ==
  \/ \E c \in Cyclic : sta_cyc(c) \/ stp_cyc(c)
  \/ \E a \in Alarm : stp_alm(a) \/ \E t \in RELTIM : sta_alm(a, t)
  \/ \E w \in Timeout : wait_dequeue_tmevtb(w) \/ \E t \in RELTIM : make_wait_tmout(w, t)
  \/ get_tim
  \/ \E s \in SetTim : set(s)

Adjusting == \E d \in - TMAX_ADJTIM .. TMAX_ADJTIM : d # 0 /\ adjust(d)

(* signal_time begins: the timer's interrupt is cleared, the counter read. *)
SignalBegins ==
  /\ sig.at = "idle" /\ tm.hrt_request
  /\ tm' = update_current_evttim([tm EXCEPT !.hrt_request = FALSE, !.in_signal_time = TRUE])
  /\ sig' = [at |-> "loop", callflag |-> FALSE, called |-> Null]
  /\ UNCHANGED <<cycsta, almsta, waiting, late>>

Due == num_tmevt(tm) > 0 /\ EVTTIM_LE(tm, top_evttim(tm), tm.current_evttim)

called(e, at) == sig' = [at |-> at, callflag |-> TRUE, called |-> e]

nextEvttim_Drift(c) == tm.current_evttim + cyctim[c]           (* mutant *)
nextEvttim(c) == tm.evttim[c] + cyctim[c]

(* A cyclic notification is registered for its next time, an alarm stops,  *)
(* and the CPU is unlocked for the handler; a time-out ends a wait, and    *)
(* the CPU is unlocked for a moment for other handlers.                    *)
callCyclic(c) ==
  /\ \E popped \in {tmevtb_delete_top(tm)} :
       tm' = tmevtb_insert(popped, c, nextEvttim(c) % W)
  /\ called(c, "window") /\ UNCHANGED <<cycsta, almsta, waiting>>

callAlarm_Running(a) ==                                        (* mutant *)
  /\ tm' = tmevtb_delete_top(tm)
  /\ called(a, "window") /\ UNCHANGED <<cycsta, almsta, waiting>>
callAlarm(a) ==
  /\ tm' = tmevtb_delete_top(tm)
  /\ almsta' = [almsta EXCEPT ![a] = FALSE]
  /\ called(a, "window") /\ UNCHANGED <<cycsta, waiting>>

wait_tmout(w) ==
  /\ tm' = tmevtb_delete_top(tm)
  /\ waiting' = waiting \ {w}
  /\ called(w, "window") /\ UNCHANGED <<cycsta, almsta>>

SignalCalls ==
  /\ sig.at = "loop" /\ Due
  /\ LET e == tm.heap[0] IN
       \/ e \in Cyclic /\ callCyclic(e)
       \/ e \in Alarm /\ callAlarm(e)
       \/ e \in Timeout /\ wait_tmout(e)
  /\ UNCHANGED late

HandlerReturns ==
  /\ sig.at = "window"
  /\ sig' = [sig EXCEPT !.at = "loop", !.called = Null]
  /\ UNCHANGED <<tm, cycsta, almsta, waiting, late>>

(* Nothing more is due: look at the timer again if something was called.   *)
SignalLooksAgain_Stuck ==                                      (* mutant *)
  /\ sig.at = "loop" /\ ~ Due /\ sig.callflag
  /\ tm' = update_current_evttim(tm)
  /\ sig' = [sig EXCEPT !.called = Null]
  /\ UNCHANGED <<cycsta, almsta, waiting, late>>
SignalLooksAgain ==
  /\ sig.at = "loop" /\ ~ Due /\ sig.callflag
  /\ tm' = update_current_evttim(tm)
  /\ sig' = [sig EXCEPT !.callflag = FALSE, !.called = Null]
  /\ UNCHANGED <<cycsta, almsta, waiting, late>>

SignalEnds ==
  /\ sig.at = "loop" /\ ~ Due /\ ~ sig.callflag
  /\ tm' = [set_hrt_event(tm) EXCEPT !.in_signal_time = FALSE]
  /\ sig' = [sig EXCEPT !.at = "idle"]
  /\ late' = 0
  /\ UNCHANGED <<cycsta, almsta, waiting>>

signal_time == SignalBegins \/ SignalCalls \/ HandlerReturns \/ SignalLooksAgain \/ SignalEnds

(* The timer counts on; an interrupt is served within MaxLate ticks.       *)
InterruptDue == tm.hrt_request \/ sig.at # "idle"

Tick ==
  /\ InterruptDue => late < MaxLate
  /\ tm' = hrt_tick(tm)
  /\ late' = IF InterruptDue THEN late + 1 ELSE 0
  /\ UNCHANGED <<cycsta, almsta, waiting, sig>>

NoteNext == TimeCall \/ Adjusting \/ signal_time \/ Tick

NoteSpec == NoteInit /\ [][NoteNext]_noteVars

(* The timer counts, and interrupts are served: interrupts of the timer's  *)
(* priority are not masked for ever, and handlers return.  (While Tick is  *)
(* held back by MaxLate, it is signal_time that goes on.)                  *)
TimeFairness == WF_noteVars(Tick \/ signal_time)

NoteFairSpec == NoteSpec /\ TimeFairness

------------------------------------------------------------------------------
(* A notification's event is in the heap exactly while its state says that *)
(* it runs, whoever starts or stops it while handlers run unlocked, and    *)
(* a task's exactly while it waits; the heap stays ordered although the    *)
(* boundary moves under it.                                                *)
RegisteredWhileActive ==
  /\ HeapWellFormed(tm)
  /\ Registered(tm) = {c \in Cyclic : cycsta[c]} \cup {a \in Alarm : almsta[a]} \cup waiting

elapsed(m) == hrtcnt_advance(m)
lefttim(e) == EVTTIM_ADVANCE(tm, tm.evttim[e]) - BOUNDARY_MARGIN - elapsed(tm)

(* Whenever signal_time is not at work its interrupt is requested, or the  *)
(* timer is set, and not for later than the first event (give or take the  *)
(* ticks the interrupt can be held off): no order of registrations,        *)
(* cancellations and adjustments leaves an event without an interrupt.     *)
InterruptArmed ==
  sig.at = "idle" /\ ~ tm.hrt_request =>
    /\ HRTCNT_BOUND # Null => tm.hrt_left \in 1 .. HRTCNT_BOUND
    /\ num_tmevt(tm) > 0 => /\ tm.hrt_left > 0
                            /\ tm.hrt_left <= lefttim(tm.heap[0]) + MaxLate

lag(m) == (m.monotonic_evttim - m.current_evttim) % W

Service == INSTANCE TimerService
  WITH Event <- TMEVTB, NoEvent <- Null, running <- sig.called, Reltim <- RELTIM \cup {cycphs[c] : c \in Cyclic},
       step <- TSTEP_HRTCNT, MaxAdjust <- TMAX_ADJTIM, SystimMod <- SYSTIM_MOD,
       phase <- [c \in TA_STA |-> cycphs[c]],
       period <- [e \in TMEVTB |-> IF e \in Cyclic THEN cyctim[e] ELSE 0],
       left <- [e \in Registered(tm) |-> lefttim(e)],
       systim <- system_time(update_current_evttim(tm)),
       behind <- lag(update_current_evttim(tm))

(* Heap, wrapping counters and the timer implement TimerService: nothing   *)
(* is called before its time, the earliest event is called first, a cyclic *)
(* notification does not drift, and the system time does not run backwards *)
(* when it is adjusted.                                                    *)
TimerPromised == Service!ServiceSpec

AdjustedBack ==
  /\ lag(tm') > 0 /\ tm'.current_hrtcnt = tm.hrt
  /\ (tm'.current_evttim - tm.current_evttim) % W # elapsed(tm)

(* Every event's time comes: unless the time is set back again and again,  *)
(* no event stays registered for ever with the same time.                  *)
Relieved(e) == e \in Registered(tm) => e \notin Registered(tm') \/ tm'.evttim[e] # tm.evttim[e]

EventuallyCalled == \A e \in TMEVTB : []<><<Relieved(e) \/ AdjustedBack>>_noteVars
==============================================================================

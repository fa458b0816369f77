------------------------------- MODULE Overrun -------------------------------
(***************************************************************************)
(* The overrun handler (kernel/overrun.zig) on top of the tasks and the    *)
(* dispatcher: a task that has been given processor time is followed by    *)
(* the overrun timer while it runs, and the time it has left is kept in    *)
(* its TCB while it does not.  The timer is the watchdog of                *)
(* arch/arm_gcc/common/mpcore_timer.zig; its interrupt has the lowest      *)
(* priority, TMAX_INTPRI, and is level-triggered.                          *)
(***************************************************************************)
EXTENDS TaskKernel

CONSTANTS OvrTask,      (* the tasks that are given processor time         *)
          Budgets       (* the values of ovrtim, small enough to run down  *)

ASSUME OverrunAssumption == OvrTask \subseteq Task /\ Budgets \subseteq Nat \ {0}

VARIABLES
  ovr,      (* staovr and leftotm of the TCBs; the timer: enable, count    *)
            (* and int, its interrupt request                              *)
  entered,  (* the timer's interrupt handler is about to call call_ovrhdr  *)
  owed      (* the processor time each task is really still to be given    *)

ovrVars == <<vars, ovr, entered, owed>>

OvrInit ==
  /\ Init
  /\ ovr = [staovr |-> [t \in OvrTask |-> FALSE], leftotm |-> [t \in OvrTask |-> 0],
            enable |-> FALSE, count |-> 0, int |-> FALSE]
  /\ entered = FALSE
  /\ owed = [t \in OvrTask |-> 0]

Watched(o, t) == t \in OvrTask /\ o.staovr[t]
-----------------------------------------------------------------------------
(* The timer.  Started with nothing left it requests its interrupt at      *)
(* once; stopping it takes back no request.                                *)
timerStart(o, n) == [o EXCEPT !.enable = TRUE, !.count = n, !.int = @ \/ n = 0]

timerStop(o) == [o EXCEPT !.enable = FALSE]

overrun_start_Left(o, t) ==                                    (* mutant *)
  IF Watched(o, t) /\ o.leftotm[t] > 0 THEN timerStart(o, o.leftotm[t]) ELSE o
overrun_start(o, t) == IF Watched(o, t) THEN timerStart(o, o.leftotm[t]) ELSE o

overrun_stop(o, t) ==
  IF Watched(o, t) THEN [timerStop(o) EXCEPT !.leftotm[t] = o.count] ELSE o

-----------------------------------------------------------------------------
(* What the steps of the kernel do to the timer.  dispatch stops it for    *)
(* the task that loses the processor; a task starts it where it gets the   *)
(* processor (dispatch, start_r, ret_int_r).  Tasks of S are terminated;   *)
(* a task that terminates itself stops the timer beforehand.               *)

Ended_Running(o, S) ==                                         (* mutant *)
  [o EXCEPT !.staovr = [t \in OvrTask |-> @[t] /\ t \notin S]]
Ended(o, S) ==
  [(IF runtsk \in S /\ Watched(o, runtsk) THEN timerStop(o) ELSE o)
     EXCEPT !.staovr = [t \in OvrTask |-> @[t] /\ t \notin S]]

Dispatched(S) ==
  /\ ovr' = LET o == Ended(ovr, S)
            IN  IF runtsk' = runtsk THEN o
                ELSE overrun_start(overrun_stop(o, runtsk), runtsk')
  /\ owed' = [t \in OvrTask |-> IF t \in S THEN 0 ELSE owed[t]]
  /\ UNCHANGED entered

(* The handler of the timer interrupt has the processor and has not yet    *)
(* called call_ovrhdr.                                                     *)
Looking == entered /\ nest = 1

(* A call of the kernel that terminates the tasks of S.                    *)
EndsSelf == IF raster[runtsk] /\ enater[runtsk] THEN {runtsk} ELSE {}

ovr_enter_int ==
  /\ enter_int
  /\ ovr' = IF nest = 0 THEN overrun_stop(ovr, runtsk) ELSE ovr
  /\ UNCHANGED <<entered, owed>>

ovr_leave_int ==
  /\ ~ Looking /\ leave_int
  /\ ovr' = IF nest = 1 THEN overrun_start(ovr, runtsk') ELSE ovr
  /\ UNCHANGED <<entered, owed>>

(* Calls that terminate nobody, and those that may.                        *)
OvrKeepingCall ==
  /\ ~ Looking
  /\ \/ ManageCall \/ SyncCall \/ loc_cpu \/ unl_cpu \/ dis_dsp \/ dis_ter
     \/ \E t \in Task : wait_tmout(t)
  /\ Dispatched({})

OvrEndingCall ==
  /\ ~ Looking
  /\ \/ ext_tsk /\ Dispatched({runtsk})
     \/ \E t \in Task : ter_tsk(t) /\ Dispatched({t})
     \/ \E t \in Task : ras_ter(t) /\ Dispatched(IF enater[t] THEN {t} ELSE {})
     \/ ena_ter /\ Dispatched(IF raster[runtsk] /\ rdy.dspflg THEN {runtsk} ELSE {})
     \/ ena_dsp /\ Dispatched(IF ipmall THEN EndsSelf ELSE {})
     \/ \E all \in BOOLEAN :
          chg_ipm(all) /\ Dispatched(IF all /\ enadsp THEN EndsSelf ELSE {})

OvrBoot == Boot /\ UNCHANGED <<ovr, entered, owed>>
-----------------------------------------------------------------------------
(* The service calls.  A task may be given time while it is dormant.       *)
sta_ovr(t, ovrtim) ==
  /\ ~ Looking /\ checkContextUnlock
  /\ ovr' = [(IF nest = 0 /\ t = runtsk THEN timerStart(ovr, ovrtim) ELSE ovr)
               EXCEPT !.staovr[t] = TRUE, !.leftotm[t] = ovrtim]
  /\ owed' = [owed EXCEPT ![t] = ovrtim]
  /\ UNCHANGED <<vars, entered>>

stp_ovr(t) ==
  /\ ~ Looking /\ checkContextUnlock
  /\ ovr' = [(IF nest = 0 /\ t = runtsk /\ ovr.staovr[t] THEN timerStop(ovr) ELSE ovr)
               EXCEPT !.staovr[t] = FALSE]
  /\ owed' = [owed EXCEPT ![t] = 0]
  /\ UNCHANGED <<vars, entered>>

(* What ref_ovr tells of a task that has time.                             *)
ref_ovr(t) == IF t = runtsk THEN ovr.count ELSE ovr.leftotm[t]

(* The timer's interrupt is taken in a task or in the idle loop, and masked *)
(* by any interrupt priority mask.                                         *)
ovrtimer_int ==
  /\ ovr.int /\ ipmall /\ nest = 0 /\ enter_int
  /\ ovr' = overrun_stop(ovr, runtsk)
  /\ entered' = TRUE
  /\ UNCHANGED owed

(* Other handlers may have come before this.  When the task is over its    *)
(* time the overrun handler follows: what it calls is what the handler     *)
(* calls from here on.                                                     *)
call_ovrhdr ==
  /\ Looking /\ ~ cpulock
  /\ entered' = FALSE
  /\ ovr' = [ovr EXCEPT !.int = FALSE,
               !.staovr = [t \in OvrTask |->
                             @[t] /\ ~ (t = runtsk /\ ovr.leftotm[t] = 0)]]
  /\ owed' = [t \in OvrTask |-> IF ovr'.staovr[t] THEN owed[t] ELSE 0]
  /\ UNCHANGED vars

(* Time passes: for the task that has the processor, outside handlers.     *)
Tick ==
  /\ kerflg
  /\ ovr' = IF ovr.enable /\ ovr.count > 0
            THEN [ovr EXCEPT !.count = @ - 1, !.int = @ \/ ovr.count = 1] ELSE ovr
  /\ owed' = [t \in OvrTask |-> IF nest = 0 /\ t = runtsk /\ owed[t] > 0
                                THEN owed[t] - 1 ELSE owed[t]]
  /\ UNCHANGED <<vars, entered>>
-----------------------------------------------------------------------------
OvrCall ==
  \E t \in OvrTask : stp_ovr(t) \/ \E n \in Budgets : sta_ovr(t, n)

OvrInterrupt == ovr_enter_int \/ ovr_leave_int \/ ovrtimer_int \/ call_ovrhdr

OvrNext ==
  OvrBoot \/ OvrInterrupt \/ OvrKeepingCall \/ OvrEndingCall \/ OvrCall \/ Tick

OvrSpec == OvrInit /\ [][OvrNext]_ovrVars
-----------------------------------------------------------------------------
(* Nobody pays for another's time: across preemption, interrupts, waits    *)
(* and the termination of others, what ref_ovr would tell and what the     *)
(* handler decides by is the time the task has really left (overrun.zig,   *)
(* the tests simt_ovrhdr3 NGKI2590 and NGKI2591), and the timer runs just  *)
(* while a watched task runs.                                              *)
BudgetKept ==
  LET inTask == kerflg /\ nest = 0
  IN  /\ ovr.enable <=> inTask /\ Watched(ovr, runtsk)
      /\ \A t \in OvrTask : ovr.staovr[t] =>
           owed[t] = IF inTask THEN ref_ovr(t) ELSE ovr.leftotm[t]

(* No overrun is missed: while a task runs that has used up its time, the  *)
(* timer's interrupt is requested, although the one that came with its     *)
(* last tick may have been taken in another task and found nothing to do.  *)
OverrunNoticed ==
  kerflg /\ nest = 0 /\ Watched(ovr, runtsk) /\ owed[runtsk] = 0 => ovr.int

=============================================================================

----------------------------- MODULE TaskKernel -----------------------------
(***************************************************************************)
(* Task management of the ASP3 kernel: task states, waiting, termination,  *)
(* dispatching, and the interrupt handlers that run on top of them         *)
(* (kernel/task.zig, wait.zig, task_manage.zig, task_sync.zig,             *)
(* task_term.zig, sys_manage.zig, chg_ipm of interrupt.zig, startup.zig    *)
(* and the dispatcher of arch/arm_gcc/common/core_kernel_impl.zig).        *)
(*                                                                         *)
(* A service call holds the CPU lock from its checks to its dispatch, so   *)
(* one call is one action.  The actor is the running task when nest = 0    *)
(* and the innermost interrupt handler when nest > 0; a call that fails    *)
(* changes nothing and is not an action.                                   *)
(***************************************************************************)
EXTENDS ReadyQueue

CONSTANTS Wobj,       (* synchronisation objects' wait queues (WOBJCB)     *)
          TpriWobj,   (* those whose attribute has the TA_TPRI bit         *)
          Mutex,      (* those that are mutexes                            *)
          CeilMtx,    (* the mutexes with TA_CEILING                       *)
          ceilpri,    (* their ceiling priorities                          *)
          ipri,       (* start priority of each task (TINIB.ipri)          *)
          Torder,     (* torder_table: the tasks in creation order         *)
          TA_ACT,     (* tasks started by the kernel at boot               *)
          TA_NOACTQUE,(* tasks whose start requests are not queued         *)
          MaxNest     (* bound: how deep interrupt handlers nest           *)

ASSUME ConfigAssumption ==
  /\ TpriWobj \subseteq Wobj
  /\ Wobj \cap {"NONE", "SLP", "DLY"} = {}
  /\ Mutex \subseteq Wobj /\ CeilMtx \subseteq Mutex \cap TpriWobj
  /\ ceilpri \in [CeilMtx -> TaskPrio]
  /\ ipri \in [Task -> TaskPrio]
  /\ Torder \in Seq(Task) /\ NoDuplicate(Torder)
  /\ TA_ACT \subseteq Task /\ TA_NOACTQUE \subseteq Task
  /\ MaxNest \in Nat

TMAX_ACTCNT == 1
TMAX_WUPCNT == 1

VARIABLES
  rdy,        (* ready_queue, ready_primap, p_schedtsk, dspflg             *)
  runtsk,     (* p_runtsk: the task that has the processor                 *)
  tstat,      (* the state part of TCB.tstat                               *)
  waiton,     (* the TS_WAITING_??? part of it, with p_wobjcb              *)
  bprio,      (* base priorities                                           *)
  prio,       (* current priorities                                        *)
  actque,     (* queued start requests                                     *)
  wupque,     (* queued wake-up requests                                   *)
  raster,     (* termination requested                                     *)
  enater,     (* termination enabled                                       *)
  winfo,      (* the WINFO union: p_tmevtb, null or set, then werror, null *)
              (* ("ok") or one of the errors                               *)
  tmevt,      (* the tasks whose TMEVTB is registered as a time event      *)
  wait_queue, (* the wait queue of each synchronisation object             *)
  loctsk,     (* the task that has locked each mutex (MTXCB.p_loctsk)      *)
  lastmtx,    (* the mutexes of each task, the last locked one first:      *)
              (* the list TCB.p_lastmtx, MTXCB.p_prevmtx                   *)
  enadsp,     (* dispatching is not disabled                               *)
  ipmall,     (* the interrupt priority mask is TIPM_ENAALL                *)
  cpulock,    (* CPU lock state of the running context                     *)
  nest,       (* excpt_nest_count                                          *)
  torder,     (* boot: what initialize_task has still to go through        *)
  kerflg      (* the kernel is in operation                                *)

stateVars == <<tstat, waiton>>
prioVars  == <<bprio, prio>>
queVars   == <<actque, wupque>>
terVars   == <<raster, enater>>
mtxVars   == <<loctsk, lastmtx>>
waitVars  == <<winfo, tmevt, wait_queue, mtxVars>>
dspVars   == <<enadsp, ipmall>>
cpuVars   == <<cpulock, nest>>
bootVars  == <<torder, kerflg>>

vars == <<rdy, runtsk, stateVars, prioVars, queVars, terVars, waitVars,
          dspVars, cpuVars, bootVars>>

TaskState == {"DORMANT", "RUNNABLE", "SUSPENDED", "WAITING", "WAITING-SUSPENDED"}
WaitCause == Wobj \cup {"NONE", "SLP", "DLY"}
WaitInfo  == {"null", "tmevtb", "ok", "error"}

isWaiting(t)   == tstat[t] \in {"WAITING", "WAITING-SUSPENDED"}
isSuspended(t) == tstat[t] \in {"SUSPENDED", "WAITING-SUSPENDED"}
Runnable == {t \in Task : tstat[t] = "RUNNABLE"}

(* Every field stays in its range, among them the one-bit counters.        *)
TypeOK ==
  /\ rdy \in ReadyState
  /\ runtsk \in Task \cup {NoTask}
  /\ tstat \in [Task -> TaskState] /\ waiton \in [Task -> WaitCause]
  /\ bprio \in [Task -> TaskPrio] /\ prio \in [Task -> TaskPrio]
  /\ actque \in [Task -> 0 .. TMAX_ACTCNT] /\ wupque \in [Task -> 0 .. TMAX_WUPCNT]
  /\ raster \in [Task -> BOOLEAN] /\ enater \in [Task -> BOOLEAN]
  /\ winfo \in [Task -> WaitInfo]
  /\ tmevt \in SUBSET Task
  /\ wait_queue \in [Wobj -> Seq(Task)]
  /\ loctsk \in [Mutex -> Task \cup {NoTask}] /\ lastmtx \in [Task -> Seq(Mutex)]
  /\ enadsp \in BOOLEAN /\ ipmall \in BOOLEAN
  /\ cpulock \in BOOLEAN /\ nest \in 0 .. MaxNest + 1
  /\ torder \in Seq(Task) /\ kerflg \in BOOLEAN
-----------------------------------------------------------------------------
(***************************************************************************)
(* Boot: sta_ker runs in a non-task context with the CPU locked.           *)
(* initialize_task makes every task dormant and starts those with TA_ACT   *)
(* in creation order; startDispatch enters the dispatcher.                 *)
(***************************************************************************)
Init ==
  /\ rdy = InitReady
  /\ runtsk = NoTask
  /\ tstat = [t \in Task |-> "DORMANT"] /\ waiton = [t \in Task |-> "NONE"]
  /\ bprio = ipri /\ prio = ipri
  /\ actque = [t \in Task |-> 0] /\ wupque = [t \in Task |-> 0]
  /\ raster = [t \in Task |-> FALSE] /\ enater = [t \in Task |-> TRUE]
  /\ winfo = [t \in Task |-> "null"]
  /\ tmevt = {}
  /\ wait_queue = [w \in Wobj |-> <<>>]
  /\ loctsk = [m \in Mutex |-> NoTask] /\ lastmtx = [t \in Task |-> <<>>]
  /\ enadsp = TRUE /\ ipmall = TRUE
  /\ cpulock = TRUE /\ nest = 1
  /\ torder = Torder /\ kerflg = FALSE

(* make_active; make_non_wait and rsm_tsk make the same two updates.        *)
become_runnable(t) ==
  /\ tstat' = [tstat EXCEPT ![t] = "RUNNABLE"]
  /\ rdy' = make_runnable(rdy, prio, t)

initialize_task ==
  /\ ~ kerflg /\ torder # <<>>
  /\ IF Head(torder) \in TA_ACT THEN become_runnable(Head(torder))
                                ELSE UNCHANGED <<tstat, rdy>>
  /\ torder' = Tail(torder)
  /\ UNCHANGED <<runtsk, waiton, prioVars, queVars, terVars, waitVars, dspVars,
                 cpuVars, kerflg>>

startDispatch ==
  /\ ~ kerflg /\ torder = <<>>
  /\ kerflg' = TRUE
  /\ nest' = 0 /\ cpulock' = FALSE
  /\ runtsk' = rdy.p_schedtsk
  /\ UNCHANGED <<rdy, stateVars, prioVars, queVars, terVars, waitVars, dspVars, torder>>
-----------------------------------------------------------------------------
(***************************************************************************)
(* The context checks of kernel/check.zig, and dispatching: from a task    *)
(* at once, from a handler when the outermost handler returns.             *)
(***************************************************************************)
TaskContext == kerflg /\ nest = 0 /\ runtsk # NoTask

checkContextUnlock     == kerflg /\ ~ cpulock /\ (nest > 0 \/ runtsk # NoTask)
checkContextTaskUnlock == TaskContext /\ ~ cpulock
checkDispatch_NoFlag  == checkContextTaskUnlock                (* mutant *)
checkDispatch          == checkContextTaskUnlock /\ rdy.dspflg

dispatch_Lost       == UNCHANGED runtsk                        (* mutant *)

taskDispatch        == runtsk' = rdy'.p_schedtsk
requestTaskDispatch == runtsk' = IF nest > 0 THEN runtsk ELSE rdy'.p_schedtsk
-----------------------------------------------------------------------------
(***************************************************************************)
(* kernel/wait.zig.                                                        *)
(***************************************************************************)
make_wait(cause, timed) ==
  /\ tstat' = [tstat EXCEPT ![runtsk] = "WAITING"]
  /\ waiton' = [waiton EXCEPT ![runtsk] = cause]
  /\ rdy' = make_non_runnable(rdy, prio, runtsk)
  /\ winfo' = [winfo EXCEPT ![runtsk] = IF timed THEN "tmevtb" ELSE "null"]
  /\ tmevt' = IF timed THEN tmevt \cup {runtsk} ELSE tmevt

wobj_queue_insert(w) ==
  wait_queue' = [wait_queue EXCEPT
                   ![w] = IF w \in TpriWobj THEN InsertTpri(@, prio, runtsk)
                                            ELSE Append(@, runtsk)]

wobj_make_wait(w, timed) == make_wait(w, timed) /\ wobj_queue_insert(w)

QueuesWithout_Kept(t) == wait_queue                            (* mutant *)

QueuesWithout(t) ==
  IF waiton[t] \in Wobj THEN [wait_queue EXCEPT ![waiton[t]] = Delete(@, t)]
                        ELSE wait_queue

EventsWithout_Kept(t) == tmevt                                 (* mutant *)

EventsWithout(t) == IF winfo[t] = "tmevtb" THEN tmevt \ {t} ELSE tmevt

wait_dequeue_wobj(t)   == wait_queue' = QueuesWithout(t)
wait_dequeue_tmevtb(t) == tmevt' = EventsWithout(t)

(* make_non_wait: a task that is suspended as well stays so.               *)
WaitingOnly == {t \in Task : tstat[t] = "WAITING"}
WaitOver(t) == IF t \in WaitingOnly THEN "RUNNABLE" ELSE "SUSPENDED"

make_non_wait(t) ==
  /\ waiton' = [waiton EXCEPT ![t] = "NONE"]
  /\ tstat' = [tstat EXCEPT ![t] = WaitOver(t)]
  /\ rdy' = IF t \in WaitingOnly THEN make_runnable(rdy, prio, t) ELSE rdy

(* Storing the result overwrites the p_tmevtb member of the union.         *)
set_werror(t, e) == winfo' = [winfo EXCEPT ![t] = e]

wait_complete(t) ==
  /\ wait_dequeue_tmevtb(t)
  /\ set_werror(t, "ok")
  /\ make_non_wait(t)

(* The waits of the tasks of S end with result e: wait_complete for one or *)
(* several of them, or init_wait_queue.  They leave the queue of w in its  *)
(* order.                                                                  *)
end_waits(S, e) ==
  /\ tmevt' = {t \in tmevt : t \in S => winfo[t] # "tmevtb"}
  /\ winfo' = [t \in Task |-> IF t \in S THEN e ELSE winfo[t]]
  /\ waiton' = [t \in Task |-> IF t \in S THEN "NONE" ELSE waiton[t]]
  /\ tstat' = [t \in Task |-> IF t \in S THEN WaitOver(t) ELSE tstat[t]]

Woken(w, S) == WakeAll(rdy, prio, wait_queue[w], S \cap WaitingOnly)

(* wait_tmout and wait_tmout_ok, called back by signal_time in the timer   *)
(* interrupt after it has removed the time event from the heap.  They then *)
(* open a window for other interrupts, which is the end of this action.    *)
wait_tmout(t) ==
  /\ kerflg /\ nest > 0 /\ ~ cpulock
  /\ t \in tmevt
  /\ tmevt' = tmevt \ {t}
  /\ wait_dequeue_wobj(t)
  /\ set_werror(t, IF waiton[t] = "DLY" THEN "ok" ELSE "error")
  /\ make_non_wait(t)
  /\ UNCHANGED <<runtsk, prioVars, queVars, terVars, mtxVars, dspVars, cpuVars,
                 bootVars>>
-----------------------------------------------------------------------------
(***************************************************************************)
(* The part of mutex.zig that task.zig calls through its hooks.            *)
(***************************************************************************)
Lower(a, b) == IF b < a THEN b ELSE a

(* The current priority after locking m.                                   *)
Raised(p, m) == IF m \in CeilMtx THEN Lower(p, ceilpri[m]) ELSE p

mutexCheckCeilpri_HeldOnly(t, newbprio) ==                     (* mutant *)
  \A m \in CeilMtx : Member(lastmtx[t], m) => ceilpri[m] <= newbprio

mutexCheckCeilpri(t, newbprio) ==
  \A m \in CeilMtx :
    Member(lastmtx[t], m) \/ waiton[t] = m => ceilpri[m] <= newbprio

mutexScanCeilMtx(t) == \E m \in CeilMtx : Member(lastmtx[t], m)

(* mutexRelease of the mutexes of sequence ms, in that order: each goes to *)
(* the first task that waits for it, its heir.                             *)
Contended_Never(ms) == {}                                      (* mutant *)
Contended(ms) == {m \in Mutex : Member(ms, m) /\ wait_queue[m] # <<>>}
Heirs_Last(ms) == {wait_queue[m][Len(wait_queue[m])] : m \in Contended(ms)}   (* mutant *)

Heirs(ms)     == {wait_queue[m][1] : m \in Contended(ms)}
HeirQueue(ms) == [i \in 1 .. Len(ms) |->
                    IF wait_queue[ms[i]] = <<>> THEN NoTask ELSE wait_queue[ms[i]][1]]

InheritedPrio(ms, pr) ==
  [t \in Task |-> IF t \in Heirs(ms) THEN Raised(pr[t], waiton[t]) ELSE pr[t]]
AfterRelease(ms, st) ==
  [t \in Task |-> IF t \in Heirs(ms) THEN WaitOver(t) ELSE st[t]]

(* What the releases by task t change beside tstat, prio and rdy.          *)
mutexRelease(t, ms, rest, queue, tmevts) ==
  /\ wait_queue' = [w \in Wobj |-> IF w \in Contended(ms) THEN Tail(queue[w])
                                                           ELSE queue[w]]
  /\ tmevt' = {u \in tmevts : u \in Heirs(ms) => winfo[u] # "tmevtb"}
  /\ winfo' = [u \in Task |-> IF u \in Heirs(ms) THEN "ok" ELSE winfo[u]]
  /\ loctsk' = [m \in Mutex |-> IF m \in Contended(ms) THEN wait_queue[m][1]
                                 ELSE IF Member(ms, m) THEN NoTask ELSE loctsk[m]]
  /\ lastmtx' = [u \in Task |-> IF u = t THEN rest
                                 ELSE IF u \in Heirs(ms) THEN <<waiton[u]>> \o lastmtx[u]
                                 ELSE lastmtx[u]]
-----------------------------------------------------------------------------
(***************************************************************************)
(* task_terminate, on the ready queue r (its callers may have re-enabled   *)
(* dispatching first): leave every queue, unlock every mutex, return to    *)
(* the initial state, and start again at once when a start request is      *)
(* queued.                                                                 *)
(***************************************************************************)
make_dormant_KeepWupque(t) ==                                  (* mutant *)
  /\ bprio' = [bprio EXCEPT ![t] = ipri[t]]
  /\ raster' = [raster EXCEPT ![t] = FALSE]
  /\ enater' = [enater EXCEPT ![t] = TRUE]
  /\ UNCHANGED wupque

make_dormant(t) ==
  /\ bprio' = [bprio EXCEPT ![t] = ipri[t]]
  /\ wupque' = [wupque EXCEPT ![t] = 0]
  /\ raster' = [raster EXCEPT ![t] = FALSE]
  /\ enater' = [enater EXCEPT ![t] = TRUE]

task_terminate(t, r) ==
  LET ms    == lastmtx[t]
      off   == IF tstat[t] = "RUNNABLE" THEN make_non_runnable(r, prio, t) ELSE r
      again == actque[t] > 0
  IN  /\ make_dormant(t)
      /\ prio' = [InheritedPrio(ms, prio) EXCEPT ![t] = ipri[t]]
      /\ tstat' = [AfterRelease(ms, tstat) EXCEPT
                     ![t] = IF again THEN "RUNNABLE" ELSE "DORMANT"]
      /\ waiton' = [u \in Task |-> IF u = t \/ u \in Heirs(ms) THEN "NONE"
                                                             ELSE waiton[u]]
      /\ mutexRelease(t, ms, <<>>, QueuesWithout(t),
                      IF isWaiting(t) THEN EventsWithout(t) ELSE tmevt)
      /\ actque' = [actque EXCEPT ![t] = IF again THEN @ - 1 ELSE @]
      /\ rdy' = LET woken == WakeAll(off, prio', HeirQueue(ms), WaitingOnly)
                IN  IF again THEN make_runnable(woken, prio', t) ELSE woken

(* change_priority and wobj_change_priority.                               *)
change_priority(t, newprio, mtxmode) ==
  /\ prio' = [prio EXCEPT ![t] = newprio]
  /\ rdy' = IF tstat[t] = "RUNNABLE"
            THEN change_ready_priority(rdy, prio, t, newprio, mtxmode) ELSE rdy
  /\ wait_queue' = IF waiton[t] \in TpriWobj
                   THEN [wait_queue EXCEPT
                           ![waiton[t]] = InsertTpri(Delete(@, t), prio', t)]
                   ELSE wait_queue
-----------------------------------------------------------------------------
(***************************************************************************)
(* Service calls of task_manage.zig and sys_manage.zig.                    *)
(***************************************************************************)
ActqueRoom_OffByOne(t) == t \notin TA_NOACTQUE /\ actque[t] <= TMAX_ACTCNT   (* mutant *)

(* Whether one more start request can be queued.                           *)
ActqueRoom(t) == t \notin TA_NOACTQUE /\ actque[t] < TMAX_ACTCNT

act_tsk(t) ==
  /\ checkContextUnlock
  /\ \/ /\ tstat[t] = "DORMANT"
        /\ become_runnable(t)
        /\ requestTaskDispatch
        /\ UNCHANGED actque
     \/ /\ tstat[t] # "DORMANT"
        /\ ActqueRoom(t)
        /\ actque' = [actque EXCEPT ![t] = @ + 1]
        /\ UNCHANGED <<tstat, rdy, runtsk>>
  /\ UNCHANGED <<waiton, prioVars, wupque, terVars, waitVars, dspVars, cpuVars,
                 bootVars>>

can_act(t) ==
  /\ checkContextTaskUnlock
  /\ actque' = [actque EXCEPT ![t] = 0]
  /\ UNCHANGED <<rdy, runtsk, stateVars, prioVars, wupque, terVars, waitVars,
                 dspVars, cpuVars, bootVars>>

chg_pri(t, newbprio) ==
  /\ checkContextTaskUnlock
  /\ tstat[t] # "DORMANT"
  /\ mutexCheckCeilpri(t, newbprio)
  /\ bprio' = [bprio EXCEPT ![t] = newbprio]
  /\ IF mutexScanCeilMtx(t) THEN UNCHANGED <<prio, rdy, wait_queue, runtsk>>
     ELSE change_priority(t, newbprio, FALSE) /\ taskDispatch
  /\ UNCHANGED <<stateVars, queVars, terVars, winfo, tmevt, mtxVars, dspVars, cpuVars,
                 bootVars>>

rot_rdq(p) ==
  /\ checkContextUnlock
  /\ rdy' = rotate_ready_queue(rdy, p)
  /\ requestTaskDispatch
  /\ UNCHANGED <<stateVars, prioVars, queVars, terVars, waitVars, dspVars, cpuVars,
                 bootVars>>

loc_cpu ==
  /\ kerflg /\ (nest > 0 \/ runtsk # NoTask)
  /\ cpulock' = TRUE
  /\ UNCHANGED <<rdy, runtsk, stateVars, prioVars, queVars, terVars, waitVars,
                 dspVars, nest, bootVars>>

unl_cpu ==
  /\ kerflg /\ (nest > 0 \/ runtsk # NoTask)
  /\ cpulock' = FALSE
  /\ UNCHANGED <<rdy, runtsk, stateVars, prioVars, queVars, terVars, waitVars,
                 dspVars, nest, bootVars>>

dis_dsp ==
  /\ checkContextTaskUnlock
  /\ enadsp' = FALSE
  /\ rdy' = [rdy EXCEPT !.dspflg = FALSE]
  /\ UNCHANGED <<runtsk, stateVars, prioVars, queVars, terVars, waitVars, ipmall,
                 cpuVars, bootVars>>

resume_dispatch_NoTer ==                                       (* mutant *)
  /\ rdy' = set_dspflg(rdy)
  /\ UNCHANGED <<stateVars, prioVars, queVars, terVars, waitVars>>
  /\ taskDispatch

(* What ena_dsp and chg_ipm(TIPM_ENAALL) do once dispatching may go on:    *)
(* a termination request that arrived meanwhile is acted upon first.       *)
resume_dispatch ==
  /\ IF raster[runtsk] /\ enater[runtsk]
     THEN task_terminate(runtsk, set_dspflg(rdy))
     ELSE /\ rdy' = set_dspflg(rdy)
          /\ UNCHANGED <<stateVars, prioVars, queVars, terVars, waitVars>>
  /\ taskDispatch

ena_dsp ==
  /\ checkContextTaskUnlock
  /\ enadsp' = TRUE
  /\ IF ipmall THEN resume_dispatch
     ELSE UNCHANGED <<rdy, runtsk, stateVars, prioVars, queVars, terVars, waitVars>>
  /\ UNCHANGED <<ipmall, cpuVars, bootVars>>

(* chg_ipm: all is whether the new mask is TIPM_ENAALL.                    *)
chg_ipm(all) ==
  /\ checkContextTaskUnlock
  /\ ipmall' = all
  /\ IF all /\ enadsp THEN resume_dispatch
     ELSE /\ rdy' = [rdy EXCEPT !.dspflg = FALSE]
          /\ UNCHANGED <<runtsk, stateVars, prioVars, queVars, terVars, waitVars>>
  /\ UNCHANGED <<enadsp, cpuVars, bootVars>>
-----------------------------------------------------------------------------
(***************************************************************************)
(* Service calls of task_sync.zig.                                         *)
(***************************************************************************)
(* slp_tsk (not timed), and tslp_tsk with TMO_FEVR (not timed) or a time.  *)
slp_tsk(timed) ==
  /\ checkDispatch
  /\ ~ raster[runtsk]
  /\ \/ /\ wupque[runtsk] > 0
        /\ wupque' = [wupque EXCEPT ![runtsk] = @ - 1]
        /\ UNCHANGED <<rdy, runtsk, stateVars, winfo, tmevt>>
     \/ /\ wupque[runtsk] = 0
        /\ make_wait("SLP", timed)
        /\ taskDispatch
        /\ UNCHANGED wupque
  /\ UNCHANGED <<prioVars, actque, terVars, wait_queue, mtxVars, dspVars,
                 cpuVars, bootVars>>

dly_tsk ==
  /\ checkDispatch
  /\ ~ raster[runtsk]
  /\ make_wait("DLY", TRUE)
  /\ taskDispatch
  /\ UNCHANGED <<prioVars, queVars, terVars, wait_queue, mtxVars, dspVars,
                 cpuVars, bootVars>>

wup_tsk(t) ==
  /\ checkContextUnlock
  /\ tstat[t] # "DORMANT"
  /\ \/ /\ waiton[t] = "SLP"
        /\ wait_complete(t)
        /\ requestTaskDispatch
        /\ UNCHANGED wupque
     \/ /\ waiton[t] # "SLP" /\ wupque[t] < TMAX_WUPCNT
        /\ wupque' = [wupque EXCEPT ![t] = @ + 1]
        /\ UNCHANGED <<rdy, runtsk, stateVars, winfo, tmevt>>
  /\ UNCHANGED <<prioVars, actque, terVars, wait_queue, mtxVars, dspVars,
                 cpuVars, bootVars>>

can_wup(t) ==
  /\ checkContextTaskUnlock
  /\ tstat[t] # "DORMANT"
  /\ wupque' = [wupque EXCEPT ![t] = 0]
  /\ UNCHANGED <<rdy, runtsk, stateVars, prioVars, actque, terVars, waitVars,
                 dspVars, cpuVars, bootVars>>

rel_wai(t) ==
  /\ checkContextUnlock
  /\ isWaiting(t)
  /\ wait_dequeue_wobj(t) /\ wait_dequeue_tmevtb(t)
  /\ set_werror(t, "error")
  /\ make_non_wait(t)
  /\ requestTaskDispatch
  /\ UNCHANGED <<prioVars, queVars, terVars, mtxVars, dspVars, cpuVars, bootVars>>

sus_tsk(t) ==
  /\ checkContextTaskUnlock
  /\ ~ (t = runtsk /\ ~ rdy.dspflg)
  /\ tstat[t] # "DORMANT" /\ ~ raster[t]
  /\ \/ /\ tstat[t] = "RUNNABLE"
        /\ tstat' = [tstat EXCEPT ![t] = "SUSPENDED"]
        /\ rdy' = make_non_runnable(rdy, prio, t)
        /\ taskDispatch
     \/ /\ tstat[t] = "WAITING"
        /\ tstat' = [tstat EXCEPT ![t] = "WAITING-SUSPENDED"]
        /\ UNCHANGED <<rdy, runtsk>>
  /\ UNCHANGED <<waiton, prioVars, queVars, terVars, waitVars, dspVars, cpuVars,
                 bootVars>>

rsm_tsk(t) ==
  /\ checkContextTaskUnlock
  /\ isSuspended(t)
  /\ \/ /\ tstat[t] = "SUSPENDED"
        /\ become_runnable(t)
        /\ taskDispatch
     \/ /\ tstat[t] = "WAITING-SUSPENDED"
        /\ tstat' = [tstat EXCEPT ![t] = "WAITING"]
        /\ UNCHANGED <<rdy, runtsk>>
  /\ UNCHANGED <<waiton, prioVars, queVars, terVars, waitVars, dspVars, cpuVars,
                 bootVars>>
-----------------------------------------------------------------------------
(***************************************************************************)
(* Service calls of task_term.zig.                                         *)
(***************************************************************************)
(* ext_tsk undoes the caller's CPU lock, dispatch disabling and interrupt  *)
(* mask before it terminates the caller.                                   *)
ext_tsk ==
  /\ TaskContext
  /\ cpulock' = FALSE
  /\ IF rdy.dspflg THEN UNCHANGED dspVars ELSE enadsp' = TRUE /\ ipmall' = TRUE
  /\ task_terminate(runtsk, IF rdy.dspflg THEN rdy ELSE set_dspflg(rdy))
  /\ taskDispatch
  /\ UNCHANGED <<nest, bootVars>>

ras_ter(t) ==
  /\ checkContextTaskUnlock
  /\ t # runtsk /\ tstat[t] # "DORMANT"
  /\ \/ /\ enater[t]
        /\ task_terminate(t, rdy)
        /\ taskDispatch
     \/ /\ ~ enater[t]
        /\ raster' = [raster EXCEPT ![t] = TRUE]
        /\ IF tstat[t] = "RUNNABLE" THEN UNCHANGED <<rdy, runtsk, tstat, waitVars>>
           ELSE /\ IF isWaiting(t)
                   THEN /\ wait_dequeue_wobj(t) /\ wait_dequeue_tmevtb(t)
                        /\ set_werror(t, "error")
                   ELSE UNCHANGED <<wait_queue, tmevt, winfo>>
                /\ UNCHANGED mtxVars
                /\ become_runnable(t)
                /\ taskDispatch
        /\ waiton' = [waiton EXCEPT ![t] = "NONE"]
        /\ UNCHANGED <<prioVars, queVars, enater>>
  /\ UNCHANGED <<dspVars, cpuVars, bootVars>>

dis_ter ==
  /\ checkContextTaskUnlock
  /\ enater' = [enater EXCEPT ![runtsk] = FALSE]
  /\ UNCHANGED <<rdy, runtsk, stateVars, prioVars, queVars, raster, waitVars,
                 dspVars, cpuVars, bootVars>>

ena_ter ==
  /\ checkContextTaskUnlock
  /\ IF raster[runtsk] /\ rdy.dspflg
     THEN task_terminate(runtsk, rdy) /\ taskDispatch
     ELSE /\ enater' = [enater EXCEPT ![runtsk] = TRUE]
          /\ UNCHANGED <<rdy, runtsk, stateVars, prioVars, queVars, raster, waitVars>>
  /\ UNCHANGED <<dspVars, cpuVars, bootVars>>

ter_tsk(t) ==
  /\ checkContextTaskUnlock
  /\ t # runtsk /\ tstat[t] # "DORMANT"
  /\ task_terminate(t, rdy)
  /\ taskDispatch
  /\ UNCHANGED <<dspVars, cpuVars, bootVars>>
-----------------------------------------------------------------------------
(***************************************************************************)
(* What the synchronisation objects do to the tasks: the running task      *)
(* waits in the queue of w, or a call ends the waits of the tasks of S.    *)
(* Each object's own module says when, and for which tasks.                *)
(***************************************************************************)
wobj_wait(w, timed) ==
  /\ checkDispatch
  /\ ~ raster[runtsk]
  /\ wobj_make_wait(w, timed)
  /\ taskDispatch
  /\ UNCHANGED <<prioVars, queVars, terVars, mtxVars, dspVars, cpuVars, bootVars>>

Waiters(w) == {t \in Task : waiton[t] = w}

wobj_release(w, S, e) ==
  /\ checkContextUnlock
  /\ end_waits(S, e)
  /\ wait_queue' = [wait_queue EXCEPT ![w] = Without(@, S)]
  /\ rdy' = Woken(w, S)
  /\ requestTaskDispatch
  /\ UNCHANGED <<prioVars, queVars, terVars, mtxVars, dspVars, cpuVars, bootVars>>

(* A call that may have woken a task asks for a dispatch when it has not.  *)
wobj_release_none ==
  /\ checkContextUnlock
  /\ UNCHANGED <<rdy, stateVars, prioVars, queVars, terVars, waitVars, dspVars,
                 cpuVars, bootVars>>
  /\ requestTaskDispatch

(* The same for the first task in the queue, as most objects do it.        *)
wobj_release_last(w) ==                                        (* mutant *)
  wobj_release(w, {wait_queue[w][Len(wait_queue[w])]}, "ok")

wobj_release_first(w) == wobj_release(w, {Head(wait_queue[w])}, "ok")
-----------------------------------------------------------------------------
(***************************************************************************)
(* irq_handler: an interrupt is taken when the CPU is not locked; when the *)
(* outermost handler returns, the dispatcher runs if p_runtsk is null or   *)
(* is no longer p_schedtsk.  A handler returns with the lock it had on     *)
(* entry, that is, without.                                                *)
(***************************************************************************)
enter_int ==
  /\ kerflg /\ ~ cpulock /\ nest < MaxNest
  /\ nest' = nest + 1
  /\ UNCHANGED <<rdy, runtsk, stateVars, prioVars, queVars, terVars, waitVars,
                 dspVars, cpulock, bootVars>>

leave_int ==
  /\ kerflg /\ nest > 0
  /\ nest' = nest - 1
  /\ cpulock' = FALSE
  /\ runtsk' = IF nest = 1 THEN rdy.p_schedtsk ELSE runtsk
  /\ UNCHANGED <<rdy, stateVars, prioVars, queVars, terVars, waitVars, dspVars,
                 bootVars>>
-----------------------------------------------------------------------------
Boot == initialize_task \/ startDispatch

Interrupt == enter_int \/ leave_int \/ \E t \in Task : wait_tmout(t)

ManageCall ==
  \/ \E t \in Task : act_tsk(t) \/ can_act(t)
  \/ \E t \in Task, p \in TaskPrio : chg_pri(t, p)
  \/ \E p \in TaskPrio : rot_rdq(p)

SyncCall ==
  \/ \E timed \in BOOLEAN : slp_tsk(timed)
  \/ dly_tsk
  \/ \E t \in Task : wup_tsk(t) \/ can_wup(t) \/ rel_wai(t) \/ sus_tsk(t) \/ rsm_tsk(t)

TermCall ==
  \/ ext_tsk \/ dis_ter \/ ena_ter
  \/ \E t \in Task : ras_ter(t) \/ ter_tsk(t)

CpuCall ==
  \/ loc_cpu \/ unl_cpu \/ dis_dsp \/ ena_dsp
  \/ \E all \in BOOLEAN : chg_ipm(all)

ObjectCall ==
  \E w \in Wobj \ Mutex :
    \/ \E timed \in BOOLEAN : wobj_wait(w, timed)
    \/ \E S \in SUBSET Waiters(w), e \in {"ok", "error"} : wobj_release(w, S, e)

KernelCall == Boot \/ Interrupt \/ ManageCall \/ SyncCall \/ TermCall \/ CpuCall

Next == KernelCall \/ ObjectCall

Spec == Init /\ [][Next]_vars
-----------------------------------------------------------------------------
(***************************************************************************)
(* Properties.                                                             *)
(***************************************************************************)
(* The scheduling data is consistent after every service call: bitSched of *)
(* kernel/task.zig.  p_schedtsk, updated in place by half a dozen          *)
(* functions, is what a search of the ready queue would find whenever      *)
(* dspflg is set, and the queues, the bitmap, the task states and the      *)
(* current priorities agree.                                               *)
ReadyQueueConsistent ==
  /\ QueuesMatch(rdy, Runnable, prio)
  /\ PrimapMatches(rdy)
  /\ SchedtskCurrent(rdy)

(* No dispatch is forgotten: outside interrupt handlers the task that has  *)
(* the processor is the one that should have it, and it is runnable.  Each *)
(* call decides for itself whether it ends in a dispatch.                  *)
DispatchDone ==
  /\ kerflg /\ nest = 0 => runtsk = rdy.p_schedtsk
  /\ runtsk # NoTask => tstat[runtsk] = "RUNNABLE"

(* dspflg is the conjunction it caches (task.zig, the comment on dspflg),  *)
(* and while it is clear the running task keeps the processor.             *)
DspflgCoherent ==
  /\ rdy.dspflg <=> (enadsp /\ ipmall)
  /\ ~ rdy.dspflg => runtsk # NoTask /\ rdy.p_schedtsk = runtsk

(* A TMEVTB lives on the stack of the waiting task: it is registered       *)
(* exactly while that task waits with it, so no time event ever points     *)
(* into a stack frame that is gone.                                        *)
TimeEventsOwned ==
  \A t \in Task : t \in tmevt <=> isWaiting(t) /\ winfo[t] = "tmevtb"

(* A task is in the wait queue of the object it waits for and in no other, *)
(* once; TA_TPRI queues stay in priority order when priorities change.     *)
WaitQueuesMatch ==
  /\ \A w \in Wobj : NoDuplicate(wait_queue[w])
  /\ \A w \in Wobj, t \in Task : Member(wait_queue[w], t) <=> waiton[t] = w
  /\ \A w \in TpriWobj : PriorityOrdered(wait_queue[w], prio)
  /\ \A t \in Task : isWaiting(t) <=> waiton[t] # "NONE"
  /\ \A t \in Task : waiton[t] = "DLY" => winfo[t] = "tmevtb"
  /\ \A t \in Task : waiton[t] = "SLP" => wupque[t] = 0

(* A dormant task is in its initial state (bitTCB, and the field table in  *)
(* the comment on TCB): nothing of its former life survives termination.   *)
DormantIsInitial ==
  \A t \in Task : tstat[t] = "DORMANT" =>
     /\ bprio[t] = ipri[t] /\ prio[t] = ipri[t]
     /\ actque[t] = 0 /\ wupque[t] = 0
     /\ ~ raster[t] /\ enater[t]
     /\ t \notin tmevt /\ \A w \in Wobj : ~ Member(wait_queue[w], t)

(* A task asked to terminate never waits and is never suspended, so it can *)
(* always reach ena_ter; it has re-enabled termination and is still alive  *)
(* only while it is running with dispatching held back.  Once terminated,  *)
(* it has left nothing behind.                                             *)
TerminationPending ==
  /\ \A t \in Task : raster[t] =>
        /\ tstat[t] = "RUNNABLE"
        /\ enater[t] => t = runtsk /\ ~ rdy.dspflg
  /\ DormantIsInitial

(* The condition bitTCB of task.zig checks for the same two flags.         *)
BitTCBRaster ==
  \A t \in Task : raster[t] => ~ enater[t] /\ ~ isWaiting(t)

(* A task is served when its wait for w ends without an error.  Objects    *)
(* that serve in the order of their queue pass over nobody.                *)
Served(w, t) == waiton[t] = w /\ waiton'[t] = "NONE" /\ winfo'[t] = "ok"

FirstServed(w) ==
  \A i, j \in DOMAIN wait_queue[w] :
    i < j /\ Served(w, wait_queue[w][j]) => Served(w, wait_queue[w][i])

Before(r, p, t, u) ==
  LET q == r.ready_queue[p]
  IN  \E i, j \in DOMAIN q : i < j /\ q[i] = t /\ q[j] = u

(* Within a priority tasks run in the order in which they became ready:    *)
(* two tasks that stay in the queue of one priority change places only by  *)
(* rot_rdq or by a chg_pri of one of them, never because one was preempted *)
(* or another one came or went.                                            *)
ReadyOrderKept ==
  [][\A p \in TaskPrio, t \in Task, u \in Task :
       Before(rdy, p, t, u) /\ Before(rdy', p, u, t) =>
         \/ rdy' = rotate_ready_queue(rdy, p)
         \/ checkContextTaskUnlock /\ \E x \in {t, u} : chg_pri(x, p)
         \/ \E x \in {t, u} : actque[x] > actque'[x]]_vars

(* A queued start request is used up only by starting the task again, in   *)
(* its initial state, or by can_act.                                       *)
StartRequestKept ==
  [][\A t \in Task : actque'[t] < actque[t] =>
       \/ can_act(t)
       \/ /\ tstat'[t] = "RUNNABLE" /\ prio'[t] = ipri[t]
          /\ wupque'[t] = 0 /\ ~ raster'[t] /\ enater'[t]
          /\ t \notin tmevt']_vars

Promise == INSTANCE Scheduling WITH
             queue <- rdy.ready_queue, running <- runtsk,
             held <- ~ rdy.dspflg, busy <- ~ kerflg \/ nest > 0

(* The kernel implements the scheduling module Scheduling promises: every  *)
(* call, interrupt and dispatch is a step of it or changes nothing in it.  *)
SchedulingPromised == Promise!Spec
=============================================================================

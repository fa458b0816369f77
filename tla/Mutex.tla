-------------------------------- MODULE Mutex --------------------------------
(***************************************************************************)
(* Mutexes, with and without the priority ceiling protocol: the service    *)
(* calls of kernel/mutex.zig on top of TaskKernel, which has the state of  *)
(* the mutexes and what terminating a task and changing its priority do    *)
(* with them.                                                              *)
(***************************************************************************)
EXTENDS TaskKernel

Self == runtsk

(* mutexCalcPriority: base priority or the best ceiling among ms.          *)
mutexCalcPriority(t, ms) ==
  LET ceilings == {ceilpri[m] : m \in {c \in CeilMtx : Member(ms, c)}}
  IN  CHOOSE p \in ceilings \cup {bprio[t]} :
        \A o \in ceilings \cup {bprio[t]} : p <= o

Drops_Never(t, m, ms) == FALSE                                  (* mutant *)

(* mutexDropPriority, when t has unlocked m and is left with ms.           *)
Drops(t, m, ms) ==
  /\ m \in CeilMtx /\ ceilpri[m] = prio[t]
  /\ mutexCalcPriority(t, ms) # prio[t]

DroppedPrio(t, m, ms) ==
  IF Drops(t, m, ms) THEN mutexCalcPriority(t, ms) ELSE prio[t]

DroppedReady_Left(r, t, m, ms) == r                            (* mutant *)

DroppedReady(r, t, m, ms) ==
  IF Drops(t, m, ms) /\ tstat[t] = "RUNNABLE"
  THEN change_ready_priority(r, prio, t, DroppedPrio(t, m, ms), TRUE) ELSE r

(* The checks common to loc_mtx, ploc_mtx and tloc_mtx.                    *)
MayLock(m) ==
  m \in CeilMtx => ceilpri[m] <= bprio[Self]

(* mutexAcquire.  There is no dispatch: assert(p_runtsk == p_schedtsk).    *)
mutexAcquire(m) ==
  /\ loctsk[m] = NoTask
  /\ loctsk' = [loctsk EXCEPT ![m] = Self]
  /\ lastmtx' = [lastmtx EXCEPT ![Self] = <<m>> \o @]
  /\ IF Raised(prio[Self], m) # prio[Self]
     THEN change_priority(Self, Raised(prio[Self], m), TRUE)
     ELSE UNCHANGED <<prio, rdy, wait_queue>>
  /\ UNCHANGED <<runtsk, stateVars, bprio, queVars, terVars, winfo, tmevt,
                 dspVars, cpuVars, bootVars>>

(* loc_mtx (not timed), tloc_mtx with TMO_FEVR (not timed) or a time.      *)
loc_mtx(m, timed) ==
  /\ checkDispatch /\ ~ raster[Self]
  /\ MayLock(m)
  /\ \/ mutexAcquire(m)
     \/ loctsk[m] \notin {NoTask, Self} /\ wobj_wait(m, timed)

ploc_mtx(m) == checkContextTaskUnlock /\ MayLock(m) /\ mutexAcquire(m)

unl_mtx(m) ==
  /\ checkContextTaskUnlock
  /\ lastmtx[Self] # <<>> /\ m = Head(lastmtx[Self])
  /\ LET rest == Tail(lastmtx[Self])
         t    == Self
     IN  /\ mutexRelease(t, <<m>>, rest, wait_queue, tmevt)
         /\ prio' = InheritedPrio(<<m>>, [prio EXCEPT ![t] = DroppedPrio(t, m, rest)])
         /\ tstat' = AfterRelease(<<m>>, tstat)
         /\ waiton' = [u \in Task |-> IF u \in Heirs(<<m>>) THEN "NONE" ELSE waiton[u]]
         /\ rdy' = WakeAll(DroppedReady(rdy, t, m, rest), prio', HeirQueue(<<m>>),
                           WaitingOnly)
  /\ taskDispatch
  /\ UNCHANGED <<bprio, queVars, terVars, dspVars, cpuVars, bootVars>>

Unlinked_Not(ms, m) == ms                                       (* mutant *)

Unlinked(ms, m) == Without(ms, {m})

(* ini_mtx: the waits end with an error, and the owner, which may itself   *)
(* be waiting for something else, loses the mutex and its priority.        *)
ini_mtx(m) ==
  /\ checkContextTaskUnlock
  /\ end_waits(Waiters(m), "error")
  /\ loctsk' = [loctsk EXCEPT ![m] = NoTask]
  /\ LET t      == loctsk[m]
         rest   == Unlinked(lastmtx[t], m)
         woken  == Woken(m, Waiters(m))
         queues == [wait_queue EXCEPT ![m] = <<>>]
     IN  IF t = NoTask
         THEN rdy' = woken /\ wait_queue' = queues /\ UNCHANGED <<prio, lastmtx>>
         ELSE /\ lastmtx' = [lastmtx EXCEPT ![t] = rest]
              /\ prio' = [prio EXCEPT ![t] = DroppedPrio(t, m, rest)]
              /\ rdy' = DroppedReady(woken, t, m, rest)
              /\ wait_queue' = IF Drops(t, m, rest) /\ waiton[t] \in TpriWobj
                               THEN [queues EXCEPT ![waiton[t]] =
                                       InsertTpri(Delete(@, t), prio', t)]
                               ELSE queues
  /\ taskDispatch
  /\ UNCHANGED <<bprio, queVars, terVars, dspVars, cpuVars, bootVars>>
-----------------------------------------------------------------------------
MutexCall ==
  \E m \in Mutex :
    \/ \E timed \in BOOLEAN : loc_mtx(m, timed)
    \/ ploc_mtx(m) \/ unl_mtx(m) \/ ini_mtx(m)

MutexSpec == Init /\ [][Next \/ MutexCall]_vars
-----------------------------------------------------------------------------
(* The two representations of who holds what agree: the owner of a mutex   *)
(* has it in its list, once, nobody else has, and a dormant task has none. *)
OwnersMatch ==
  /\ \A t \in Task : NoDuplicate(lastmtx[t])
  /\ \A t \in Task, m \in Mutex : Member(lastmtx[t], m) <=> loctsk[m] = t
  /\ \A t \in Task : tstat[t] = "DORMANT" => lastmtx[t] = <<>>

(* No hand-over is lost: nobody waits for a mutex that is free, and nobody *)
(* waits for its own.                                                      *)
HandedOver ==
  \A m \in Mutex : wait_queue[m] # <<>> =>
     loctsk[m] # NoTask /\ ~ Member(wait_queue[m], loctsk[m])

(* A wait for a mutex ends without an error only when the task then holds  *)
(* it, and in the order of the queue.                                      *)
GrantedInOrder ==
  [][\A m \in Mutex :
       /\ FirstServed(m)
       /\ \A t \in Task : Served(m, t) =>
             loctsk'[m] = t /\ Member(lastmtx'[t], m)]_vars

(* The ceiling protocol: the current priority, raised and dropped in       *)
(* steps, is always what mutexCalcPriority computes from what the task     *)
(* holds now.                                                              *)
PriorityInherited ==
  \A t \in Task : prio[t] = mutexCalcPriority(t, lastmtx[t])

(* No task holds or waits for a ceiling mutex whose ceiling is below its   *)
(* base priority (bitMTXCB), although chg_pri may come while it waits.     *)
CeilingRespected ==
  \A t \in Task, m \in CeilMtx :
     loctsk[m] = t \/ Member(wait_queue[m], t) => ceilpri[m] <= bprio[t]
=============================================================================

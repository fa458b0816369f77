------------------------------ MODULE Semaphore ------------------------------
(***************************************************************************)
(* Semaphores: kernel/semaphore.zig on top of TaskKernel.                  *)
(***************************************************************************)
EXTENDS TaskKernel

CONSTANTS Semaphore,  (* the semaphores                                    *)
          isemcnt,    (* their initial counts                              *)
          maxsem      (* and their maximal ones                            *)

ASSUME SemaphoreAssumption ==
  /\ Semaphore \subseteq Wobj \ Mutex
  /\ isemcnt \in [Semaphore -> Nat] /\ maxsem \in [Semaphore -> Nat \ {0}]
  /\ \A s \in Semaphore : isemcnt[s] <= maxsem[s]

VARIABLE semcnt       (* SEMCB.semcnt                                      *)

semVars == <<vars, semcnt>>

SemInit == Init /\ semcnt = isemcnt

Room(s) == semcnt[s] < maxsem[s]

sig_sem_NoHandOver(s) ==                                       (* mutant *)
  /\ checkContextUnlock
  /\ Room(s)
  /\ semcnt' = [semcnt EXCEPT ![s] = @ + 1]
  /\ IF wait_queue[s] = <<>> THEN UNCHANGED vars ELSE wobj_release_first(s)

sig_sem(s) ==
  /\ checkContextUnlock
  /\ \/ /\ wait_queue[s] # <<>>
        /\ wobj_release_first(s)
        /\ UNCHANGED semcnt
     \/ /\ wait_queue[s] = <<>> /\ Room(s)
        /\ semcnt' = [semcnt EXCEPT ![s] = @ + 1]
        /\ UNCHANGED vars

take(s) ==
  /\ semcnt[s] >= 1
  /\ semcnt' = [semcnt EXCEPT ![s] = @ - 1]
  /\ UNCHANGED vars

(* wai_sem (not timed), twai_sem with TMO_FEVR (not timed) or a time.      *)
wai_sem(s, timed) ==
  \/ checkDispatch /\ ~ raster[runtsk] /\ take(s)
  \/ semcnt[s] = 0 /\ wobj_wait(s, timed) /\ UNCHANGED semcnt

pol_sem(s) == checkContextTaskUnlock /\ take(s)

ini_sem(s) ==
  /\ checkContextTaskUnlock
  /\ wobj_release(s, Waiters(s), "error")
  /\ semcnt' = [semcnt EXCEPT ![s] = isemcnt[s]]

SemaphoreCall ==
  \E s \in Semaphore :
    \/ sig_sem(s) \/ pol_sem(s) \/ ini_sem(s)
    \/ \E timed \in BOOLEAN : wai_sem(s, timed)

SemNext == (KernelCall /\ UNCHANGED semcnt) \/ SemaphoreCall

SemSpec == SemInit /\ [][SemNext]_semVars
-----------------------------------------------------------------------------
(* No unit lies idle: while a task waits there is none to be had, whatever *)
(* time-outs, releases, terminations and reinitialisations came between.   *)
NoUnitIdle == \A s \in Semaphore : wait_queue[s] # <<>> => semcnt[s] = 0

(* sig_sem serves the first task of the queue, which in a TA_TPRI queue is *)
(* the one whose priority is highest now.                                  *)
SemFirstServed == [][\A s \in Semaphore : FirstServed(s)]_semVars
=============================================================================

------------------------------ MODULE MCOverrun ------------------------------
(* Small instances for TLC of what the kernel counts time with: Overrun,   *)
(* with three tasks and the calls that change the ready queue, the running *)
(* task or dspflg, and the heap of time events, which has no state in      *)
(* common with it.  Each behaviour has one of them in use.                 *)
EXTENDS Overrun, EventHeap, TLC

CONSTANTS t1, t2, t3

MCipri == t1 :> 1 @@ t2 :> 1 @@ t3 :> 0
MCTorder == <<t1, t2, t3>>
MCNoCeiling == <<>>

SchedCall ==
  \/ \E t \in Task : act_tsk(t) \/ sus_tsk(t) \/ rsm_tsk(t)
  \/ \E t \in Task, p \in TaskPrio : chg_pri(t, p)
  \/ \E p \in TaskPrio : rot_rdq(p)
  \/ runtsk = t1 /\ dis_ter

VARIABLE inUse

MCInit ==
  /\ OvrInit /\ HeapInit
  /\ inUse \in {"budgets", "time events"}
  /\ inUse = "budgets" => tmevt_heap.boundary_evttim = 0

BudgetsNext ==
  \/ OvrBoot \/ OvrInterrupt \/ OvrCall \/ Tick
  \/ ~ Looking /\ SchedCall /\ Dispatched({})
  \/ OvrEndingCall

MCNext ==
  /\ \/ inUse = "budgets" /\ BudgetsNext /\ UNCHANGED heapVars
     \/ inUse = "time events" /\ HeapNext /\ UNCHANGED ovrVars
  /\ UNCHANGED inUse

MCSpec == MCInit /\ [][MCNext]_<<ovrVars, heapVars, inUse>>

(* Which event is at a node of the heap makes no difference; what was      *)
(* taken out of it is not read again.                                      *)
HeapView ==
  <<tmevt_heap.boundary_evttim, DOMAIN tmevt_heap.index = Registered(tmevt_heap),
    Cardinality(Registered(tmevt_heap)),
    [i \in DOMAIN tmevt_heap.heap |->
       LET e == tmevt_heap.heap[i]
       IN  IF e \in DOMAIN tmevt_heap.index
           THEN <<tmevt_heap.index[e], tmevt_heap.evttim[e]>> ELSE <<>>]>>

(* leftotm is written before it is read again when the task has no time    *)
(* or the timer has it; count when the timer is started again.             *)
MCView ==
  <<HeapView, inUse, vars, entered, owed,
    [ovr EXCEPT !.count = IF ovr.enable THEN @ ELSE 0,
                !.leftotm = [t \in OvrTask |->
                  IF ovr.staovr[t] /\ ~ (ovr.enable /\ t = runtsk) THEN @[t] ELSE 0]]>>
=============================================================================

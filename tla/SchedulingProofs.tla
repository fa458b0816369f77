-------------------------- MODULE SchedulingProofs --------------------------
(***************************************************************************)
(* The kernel implements module Scheduling, and tasks of one priority keep *)
(* their order, for any number of tasks and priorities.  Both follow from  *)
(* what one step does to the ready queues: tasks arrive at their ends, one *)
(* task leaves or moves, or one queue is rotated.  The overrun handler     *)
(* rests on who has the processor: it knows the time each task has left.   *)
(***************************************************************************)
EXTENDS Overrun, TaskKernelProofs

(* t is in front of u.                                                     *)
Ahead(q, t, u) == \E i, j \in DOMAIN q : i < j /\ q[i] = t /\ q[j] = u

(* Two tasks have one order.                                               *)
LEMMA OneOrder ==
  ASSUME NEW T, NEW q \in Seq(T), NoDuplicate(q), NEW t, NEW u, Ahead(q, t, u)
  PROVE  ~ Ahead(q, u, t)
  BY DEF Ahead, NoDuplicate

(* It does not change when tasks arrive behind them.                       *)
LEMMA ArriveBehind ==
  ASSUME NEW T, NEW q \in Seq(T), NEW s \in Seq(T), NoDuplicate(s), Extends(q, s),
         NEW t, NEW u, Ahead(q, t, u)
  PROVE  ~ Ahead(s, u, t)
<1>1. Ahead(s, t, u)
  BY DEF Ahead, Extends
<1> QED BY <1>1, OneOrder

(* Nor when a third task is taken out, and that one is gone.               *)
LEMMA DeleteKeepsOrder ==
  ASSUME NEW T, NEW q \in Seq(T), NEW x, Member(q, x), NoDuplicate(q),
         NEW t, NEW u, Ahead(Delete(q, x), t, u)
  PROVE  Ahead(q, t, u) /\ t # x /\ u # x
<1> DEFINE d == Delete(q, x)
           n == CHOOSE i \in 1 .. Len(q) : q[i] = x
<1>1. n \in 1 .. Len(q) /\ q[n] = x
  BY DEF Member
<1>2. /\ d \in Seq(T) /\ DOMAIN d = 1 .. Len(q) - 1
      /\ \A i \in 1 .. Len(q) - 1 : d[i] = IF i < n THEN q[i] ELSE q[i + 1]
  BY <1>1, DeleteType DEF Delete
<1>3. \A y : Member(d, y) <=> Member(q, y) /\ y # x
  BY DeleteProperties
<1> HIDE DEF n, d
<1>4. PICK i, j \in 1 .. Len(q) - 1 : i < j /\ d[i] = t /\ d[j] = u
  BY <1>2 DEF Ahead, d
<1>5. t # x /\ u # x
  <2>1. Len(d) = Len(q) - 1
    BY <1>2
  <2> QED BY <1>3, <1>4, <2>1 DEF Member
<1>6. DEFINE a == IF i < n THEN i ELSE i + 1
             b == IF j < n THEN j ELSE j + 1
<1>7. a \in 1 .. Len(q) /\ b \in 1 .. Len(q) /\ a < b /\ q[a] = t /\ q[b] = u
  BY <1>1, <1>2, <1>4
<1> HIDE DEF a, b
<1> QED BY <1>5, <1>7 DEF Ahead

(* A task at the end of a queue is in front of nobody.                     *)
LEMMA AppendKeepsOrder ==
  ASSUME NEW T, NEW q \in Seq(T), NEW x, NEW t, NEW u, Ahead(Append(q, x), t, u), u # x
  PROVE  Ahead(q, t, u)
<1>1. PICK i, j \in DOMAIN Append(q, x) : i < j /\ Append(q, x)[i] = t /\ Append(q, x)[j] = u
  BY DEF Ahead
<1>2. j \in 1 .. Len(q) /\ i \in 1 .. Len(q) /\ q[i] = t /\ q[j] = u
  BY <1>1
<1> QED BY <1>1, <1>2 DEF Ahead
-----------------------------------------------------------------------------
(* What a step may do to the ready queues q, which become s.               *)
Grows(q, s) == \A p \in TaskPrio : Extends(q[p], s[p])

Appended(q, p, t) == [q EXCEPT ![p] = Append(@, t)]
Removed(q, p, t)  == [q EXCEPT ![p] = Delete(@, t)]

Shrinks(q, s, t) ==
  \E p \in TaskPrio : Member(q[p], t) /\ s = Removed(q, p, t)

Moves(q, s, t, o) ==
  \E p \in TaskPrio : Member(q[p], t) /\ s = Appended(Removed(q, p, t), o, t)

Rotates(q, s, p) == q[p] # <<>> /\ s = [q EXCEPT ![p] = Append(Tail(@), Head(@))]

ReadyQueues == [TaskPrio -> Seq(Task)]

(* The updates of the ready queue do one of these.                         *)
LEMMA UpdatedQueues ==
  ASSUME NEW r \in ReadyState, NEW p, NEW t, p[t] \in TaskPrio
  PROVE  /\ make_runnable(r, p, t).ready_queue = Appended(r.ready_queue, p[t], t)
         /\ make_non_runnable(r, p, t).ready_queue = Removed(r.ready_queue, p[t], t)
         /\ set_dspflg(r).ready_queue = r.ready_queue
<1>1. make_runnable(r, p, t).ready_queue = Appended(r.ready_queue, p[t], t)
  BY DEF make_runnable, ReadyState, Appended
<1>2. make_non_runnable(r, p, t).ready_queue = Removed(r.ready_queue, p[t], t)
  BY DEF make_non_runnable, ReadyState, Removed
<1>3. set_dspflg(r).ready_queue = r.ready_queue
  BY DEF set_dspflg, ReadyState
<1> QED BY <1>1, <1>2, <1>3

(* Changing the priority of a task that is ready does both, one at a time. *)
LEMMA ChangedQueues ==
  ASSUME NEW r \in ReadyState, NEW p, NEW t, NEW o
  PROVE  change_ready_priority(r, p, t, o, FALSE).ready_queue
           = Appended(Removed(r.ready_queue, p[t], t), o, t)
  BY DEF change_ready_priority, ReadyState, Appended, Removed

(* Rotating a queue with one task or none changes nothing.                 *)
LEMMA RotatedQueues ==
  ASSUME NEW r \in ReadyState, NEW p \in TaskPrio
  PROVE  \/ rotate_ready_queue(r, p) = r
         \/ Rotates(r.ready_queue, rotate_ready_queue(r, p).ready_queue, p)
<1> DEFINE q == r.ready_queue[p]
<1>1. q \in Seq(Task)
  BY DEF ReadyState
<1>2. CASE Len(q) < 2
  BY <1>2 DEF rotate_ready_queue
<1>3. CASE ~ Len(q) < 2
  <2>1. q # <<>>
    BY <1>1, <1>3
  <2>2. rotate_ready_queue(r, p).ready_queue
          = [r.ready_queue EXCEPT ![p] = Append(Tail(q), Head(q))]
    BY <1>3 DEF rotate_ready_queue, ReadyState
  <2> QED BY <2>1, <2>2 DEF Rotates
<1> QED BY <1>2, <1>3

(* A queue that stays as it is grows by nothing, one task more is a tail.  *)
LEMMA GrowsByOne ==
  ASSUME NEW q \in ReadyQueues, NEW o \in TaskPrio, NEW t \in Task
  PROVE  Grows(q, q) /\ Grows(q, Appended(q, o, t))
<1> SUFFICES ASSUME NEW p \in TaskPrio
             PROVE  Extends(q[p], q[p]) /\ Extends(q[p], Append(q[p], t))
  BY DEF Grows, ReadyQueues, Appended
<1>1. q[p] \in Seq(Task)
  BY DEF ReadyQueues
<1>2. Extends(q[p], q[p])
  BY <1>1 DEF Extends
<1> QED BY <1>1, <1>2, ExtendsProperties
-----------------------------------------------------------------------------
(* The kernel's own calls lock no mutex, so that no task holds one here:   *)
(* a task that terminates has no heir, and one call is one such step.      *)
Unlocked == \A t \in Task : lastmtx[t] = <<>>

(* There is nothing to hand over.                                          *)
LEMMA NothingReleased ==
  Contended(<<>>) = {} /\ Heirs(<<>>) = {} /\ HeirQueue(<<>>) = <<>>
<1>1. Contended(<<>>) = {}
  BY DEF Contended, Member
<1>2. Heirs(<<>>) = {}
  BY <1>1 DEF Heirs
<1>3. HeirQueue(<<>>) = <<>>
  BY DEF HeirQueue
<1> QED BY <1>1, <1>2, <1>3

(* No call of the kernel changes that.                                     *)
LEMMA StaysUnlocked == TypeOK /\ Unlocked /\ [Next]_vars => Unlocked'
<1> SUFFICES ASSUME TypeOK, Unlocked, [Next]_vars PROVE Unlocked'
  OBVIOUS
<1> USE DEF waitVars, mtxVars
<1>1. ASSUME NEW t \in Task, NEW r, task_terminate(t, r) PROVE Unlocked'
  <2>1. lastmtx[t] = <<>>
    BY DEF Unlocked
  <2>2. lastmtx' = [u \in Task |-> IF u = t THEN <<>>
                                   ELSE IF u \in Heirs(<<>>) THEN <<waiton[u]>> \o lastmtx[u]
                                   ELSE lastmtx[u]]
    BY <1>1, <2>1 DEF task_terminate, mutexRelease
  <2> QED BY <2>2, NothingReleased DEF Unlocked
<1>2. lastmtx' = lastmtx => Unlocked'
  BY DEF Unlocked
<1>3. TaskContext => runtsk \in Task
  BY DEF TypeOK, TaskContext
<1>4. CASE UNCHANGED vars
  BY <1>2, <1>4 DEF vars
<1>5. CASE Boot \/ Interrupt \/ ManageCall \/ SyncCall \/ ObjectCall
  <2>1. lastmtx' = lastmtx
    BY <1>5 DEF Boot, Interrupt, ManageCall, SyncCall, ObjectCall, initialize_task,
                startDispatch, enter_int, leave_int, wait_tmout, act_tsk, can_act, chg_pri,
                rot_rdq, slp_tsk, dly_tsk, wup_tsk, can_wup, rel_wai, sus_tsk, rsm_tsk,
                wobj_wait, wobj_release
  <2> QED BY <1>2, <2>1
<1>6. CASE TermCall
  <2>1. \/ lastmtx' = lastmtx
        \/ \E r : TaskContext /\ task_terminate(runtsk, r)
        \/ \E t \in Task : \E r : task_terminate(t, r)
    BY <1>6 DEF TermCall, ext_tsk, dis_ter, ena_ter, ras_ter, ter_tsk, checkContextTaskUnlock
  <2> QED BY <1>1, <1>2, <1>3, <2>1
<1>7. CASE CpuCall
  <2>1. lastmtx' = lastmtx \/ (TaskContext /\ task_terminate(runtsk, set_dspflg(rdy)))
    BY <1>7 DEF CpuCall, loc_cpu, unl_cpu, dis_dsp, ena_dsp, chg_ipm, resume_dispatch,
                checkContextTaskUnlock
  <2> QED BY <1>1, <1>2, <1>3, <2>1
<1> QED BY <1>4, <1>5, <1>6, <1>7 DEF Next, KernelCall
-----------------------------------------------------------------------------
(* What one step does to them, with what made it do so.                    *)
QueueStep ==
  \/ Grows(rdy.ready_queue, rdy'.ready_queue)
  \/ \E t \in Task :
       /\ Shrinks(rdy.ready_queue, rdy'.ready_queue, t)
       /\ t = runtsk => rdy'.dspflg /\ kerflg' /\ nest' = 0
  \/ \E t \in Task, o \in TaskPrio :
       /\ Moves(rdy.ready_queue, rdy'.ready_queue, t, o)
       /\ actque'[t] < actque[t] \/ chg_pri(t, o)
  \/ \E p \in TaskPrio :
       /\ Rotates(rdy.ready_queue, rdy'.ready_queue, p)
       /\ rdy' = rotate_ready_queue(rdy, p)

(* The types of what such a step is about, and where a runnable task is.   *)
QueueTypes ==
  /\ rdy \in ReadyState /\ rdy.ready_queue \in ReadyQueues
  /\ prio \in [Task -> TaskPrio]
  /\ tstat \in [Task -> TaskState] /\ actque \in [Task -> Nat]
  /\ runtsk # NoTask => runtsk \in Task
  /\ \A t \in Task, p \in TaskPrio :
       Member(rdy.ready_queue[p], t) <=> tstat[t] = "RUNNABLE" /\ prio[t] = p

(* They are part of the kernel's invariant.                                *)
LEMMA TypesOfQueues == IInv => QueueTypes
<1> SUFFICES ASSUME IInv PROVE QueueTypes
  OBVIOUS
<1>1. actque \in [Task -> 0 .. TMAX_ACTCNT] /\ rdy \in ReadyState
  BY DEF IInv, TypeOK
<1>2. rdy.ready_queue \in ReadyQueues
  BY <1>1 DEF ReadyState, ReadyQueues
<1>3. actque \in [Task -> Nat]
  BY <1>1 DEF TMAX_ACTCNT
<1>4. /\ prio \in [Task -> TaskPrio] /\ tstat \in [Task -> TaskState]
      /\ runtsk # NoTask => runtsk \in Task
  BY DEF IInv, TypeOK
<1>5. \A t \in Task, p \in TaskPrio :
        Member(rdy.ready_queue[p], t) <=> tstat[t] = "RUNNABLE" /\ prio[t] = p
  BY DEF IInv, ReadyQueueConsistent, QueuesMatch, Runnable
<1> QED BY <1>1, <1>2, <1>3, <1>4, <1>5 DEF QueueTypes

(* A call that leaves the queues alone.                                    *)
LEMMA QuietQueues ==
  ASSUME QueueTypes, rdy'.ready_queue = rdy.ready_queue
  PROVE  QueueStep
<1>1. \A p \in TaskPrio : Extends(rdy.ready_queue[p], rdy.ready_queue[p])
  <2> SUFFICES ASSUME NEW p \in TaskPrio PROVE Extends(rdy.ready_queue[p], rdy.ready_queue[p])
    OBVIOUS
  <2>1. rdy.ready_queue[p] \in Seq(Task)
    BY DEF QueueTypes, ReadyQueues
  <2> QED BY <2>1 DEF Extends
<1> QED BY <1>1 DEF QueueStep, Grows

(* A task that gets ready, and one that leaves or moves.                   *)
LEMMA StepByUpdate ==
  ASSUME QueueTypes, NEW t \in Task
  PROVE  /\ rdy' = make_runnable(rdy, prio, t) => QueueStep
         /\ tstat[t] = "RUNNABLE" /\ (t = runtsk => rdy'.dspflg /\ kerflg' /\ nest' = 0)
            => (rdy' = make_non_runnable(rdy, prio, t) => QueueStep)
         /\ \A o \in TaskPrio :
              tstat[t] = "RUNNABLE" /\ chg_pri(t, o)
              => (rdy' = change_ready_priority(rdy, prio, t, o, FALSE) => QueueStep)
<1> DEFINE q == rdy.ready_queue
           p == prio[t]
<1>1. /\ q \in ReadyQueues /\ p \in TaskPrio
      /\ tstat[t] = "RUNNABLE" => Member(q[p], t)
      /\ make_runnable(rdy, prio, t).ready_queue = Appended(q, p, t)
      /\ make_non_runnable(rdy, prio, t).ready_queue = Removed(q, p, t)
  <2>1. rdy \in ReadyState /\ prio[t] \in TaskPrio
    BY DEF QueueTypes
  <2> QED BY <2>1, UpdatedQueues DEF QueueTypes
<1>2. CASE rdy' = make_runnable(rdy, prio, t)
  <2>1. Grows(q, q) /\ Grows(q, Appended(q, p, t))
    BY <1>1, GrowsByOne
  <2> QED BY <1>1, <1>2, <2>1 DEF QueueStep
<1>3. CASE /\ rdy' = make_non_runnable(rdy, prio, t) /\ tstat[t] = "RUNNABLE"
           /\ t = runtsk => rdy'.dspflg /\ kerflg' /\ nest' = 0
  <2>1. Shrinks(q, rdy'.ready_queue, t)
    BY <1>1, <1>3 DEF Shrinks
  <2> QED BY <1>3, <2>1 DEF QueueStep
<1>4. ASSUME NEW o \in TaskPrio, tstat[t] = "RUNNABLE", chg_pri(t, o),
             rdy' = change_ready_priority(rdy, prio, t, o, FALSE)
      PROVE  QueueStep
  <2>1. rdy'.ready_queue = Appended(Removed(q, p, t), o, t)
    <3>1. rdy \in ReadyState
      BY DEF QueueTypes
    <3>2. change_ready_priority(rdy, prio, t, o, FALSE).ready_queue
            = Appended(Removed(rdy.ready_queue, prio[t], t), o, t)
      BY <3>1, ChangedQueues
    <3> QED BY <1>4, <3>2
  <2>2. Moves(q, rdy'.ready_queue, t, o)
    BY <1>1, <1>4, <2>1 DEF Moves
  <2> QED BY <1>4, <2>2 DEF QueueStep
<1> QED BY <1>2, <1>3, <1>4

(* A task that terminates leaves the queue, arrives in it, or does both.   *)
LEMMA StepByTermination ==
  ASSUME QueueTypes, Unlocked, NEW t \in Task, NEW r, Consistent(r, Runnable, prio),
         r.ready_queue = rdy.ready_queue, task_terminate(t, r),
         t = runtsk => rdy'.dspflg /\ kerflg' /\ nest' = 0
  PROVE  QueueStep
<1> DEFINE off   == IF tstat[t] = "RUNNABLE" THEN make_non_runnable(r, prio, t) ELSE r
           again == actque[t] > 0
           pr    == prio'
           q     == rdy.ready_queue
<1>1. lastmtx[t] = <<>> /\ HeirQueue(<<>>) = <<>>
  BY NothingReleased DEF Unlocked
<1>2. /\ prio' = [InheritedPrio(<<>>, prio) EXCEPT ![t] = ipri[t]]
      /\ actque' = [actque EXCEPT ![t] = IF again THEN @ - 1 ELSE @]
      /\ rdy' = LET woken == WakeAll(off, prio', <<>>, WaitingOnly)
                IN  IF again THEN make_runnable(woken, prio', t) ELSE woken
  BY <1>1 DEF task_terminate
<1>3. pr \in [Task -> TaskPrio] /\ pr[t] = ipri[t]
  BY <1>2, NothingReleased, ConfigAssumption DEF InheritedPrio, QueueTypes
<1>4. WakeAll(off, pr, <<>>, WaitingOnly) = off
  <2>1. <<>> \in Seq(Task \cup {NoTask})
    OBVIOUS
  <2> HIDE DEF off, pr
  <2>2. PICK wake : /\ WakesInTurn(wake, off, pr, <<>>, WaitingOnly)
                    /\ WakeAll(off, pr, <<>>, WaitingOnly) = wake[Len(<<>>)]
    BY <2>1, WakeAllUnfolds, Zenon
  <2> QED BY <2>2 DEF WakesInTurn
<1>5. /\ off \in ReadyState
      /\ off.ready_queue = IF tstat[t] = "RUNNABLE" THEN Removed(q, prio[t], t) ELSE q
  <2>1. r \in ReadyState /\ prio \in [Task -> TaskPrio] /\ Runnable \in SUBSET Task
    BY DEF Consistent, QueueTypes, Runnable
  <2>2. tstat[t] = "RUNNABLE" => make_non_runnable(r, prio, t) \in ReadyState
    <3>1. tstat[t] = "RUNNABLE" => t \in Runnable
      BY DEF Runnable
    <3>2. t \in Runnable => Consistent(make_non_runnable(r, prio, t), Runnable \ {t}, prio)
      BY <2>1, MakeNonRunnable
    <3> QED BY <3>1, <3>2 DEF Consistent
  <2>3. make_non_runnable(r, prio, t).ready_queue = Removed(r.ready_queue, prio[t], t)
    <3>1. prio[t] \in TaskPrio
      BY <2>1
    <3> QED BY <2>1, <3>1, UpdatedQueues
  <2> QED BY <2>1, <2>2, <2>3
<1>6. rdy'.ready_queue = IF again THEN Appended(off.ready_queue, ipri[t], t)
                                  ELSE off.ready_queue
  <2>1. rdy' = IF again THEN make_runnable(off, pr, t) ELSE off
    BY <1>2, <1>4
  <2> HIDE DEF off, pr
  <2>2. make_runnable(off, pr, t).ready_queue = Appended(off.ready_queue, pr[t], t)
    <3>1. pr[t] \in TaskPrio
      BY <1>3
    <3> QED BY <1>5, <3>1, UpdatedQueues
  <2> QED BY <1>3, <2>1, <2>2
<1>7. ipri[t] \in TaskPrio /\ prio[t] \in TaskPrio /\ q \in ReadyQueues
  BY ConfigAssumption DEF QueueTypes
<1>8. again => actque'[t] < actque[t]
  BY <1>2 DEF QueueTypes
<1> HIDE DEF off, again, pr
<1>9. CASE tstat[t] = "RUNNABLE"
  <2>1. Member(q[prio[t]], t)
    BY <1>9 DEF QueueTypes
  <2>2. CASE again
    <3>1. Moves(q, rdy'.ready_queue, t, ipri[t])
      BY <1>5, <1>6, <1>7, <1>9, <2>1, <2>2 DEF Moves
    <3> QED BY <1>7, <1>8, <2>2, <3>1 DEF QueueStep
  <2>3. CASE ~ again
    <3>1. Shrinks(q, rdy'.ready_queue, t)
      BY <1>5, <1>6, <1>7, <1>9, <2>1, <2>3 DEF Shrinks
    <3> QED BY <3>1 DEF QueueStep
  <2> QED BY <2>2, <2>3
<1>10. CASE tstat[t] # "RUNNABLE"
  <2>1. Grows(q, q) /\ Grows(q, Appended(q, ipri[t], t))
    BY <1>7, GrowsByOne
  <2>2. Grows(q, rdy'.ready_queue)
    BY <1>5, <1>6, <1>10, <2>1
  <2> QED BY <2>2 DEF QueueStep
<1> QED BY <1>9, <1>10

(* The calls that terminate a task.                                        *)
LEMMA TerminatingStep ==
  ASSUME IInv, Unlocked, TermCall
  PROVE  QueueStep
<1> USE DEF stateVars, prioVars, queVars, terVars, waitVars, mtxVars, dspVars, cpuVars,
            bootVars
<1>1. QueueTypes /\ Consistent(rdy, Runnable, prio)
  BY TypesOfQueues, ReadyConsistent DEF IInv
<1>2. CASE ext_tsk
  <2> DEFINE r == IF rdy.dspflg THEN rdy ELSE set_dspflg(rdy)
  <2>1. TaskContext /\ task_terminate(runtsk, r) /\ UNCHANGED <<nest, bootVars>>
    BY <1>2 DEF ext_tsk
  <2>2. /\ Consistent(r, Runnable, prio) /\ r.dspflg = TRUE /\ runtsk \in Task
    BY <2>1, <1>1, DispatchResumes DEF QueueTypes, ReadyState
  <2>3. r.ready_queue = rdy.ready_queue
    BY <1>1, <2>2, UpdatedQueues DEF QueueTypes
  <2> DEFINE t == runtsk
  <2>4. t \in Task /\ task_terminate(t, r)
    BY <2>1, <2>2
  <2> HIDE DEF r, t
  <2>5. (rdy.dspflg)' = TRUE
    BY <2>2, <2>4, TerminateReady
  <2>6. kerflg' /\ nest' = 0
    BY <2>1 DEF TaskContext
  <2> QED BY <1>1, <2>2, <2>3, <2>4, <2>5, <2>6, StepByTermination
<1>3. CASE dis_ter
  <2>1. rdy' = rdy
    BY <1>3 DEF dis_ter
  <2> QED BY <1>1, <2>1, QuietQueues
<1>4. CASE ena_ter
  <2>1. CASE raster[runtsk] /\ rdy.dspflg
    <3> DEFINE t == runtsk
    <3>1. /\ t \in Task /\ task_terminate(t, rdy) /\ rdy.dspflg /\ kerflg' /\ nest' = 0
      BY <1>1, <1>4, <2>1 DEF ena_ter, checkContextTaskUnlock, TaskContext, QueueTypes
    <3> HIDE DEF t
    <3>2. (rdy.dspflg)' = rdy.dspflg
      BY <1>1, <3>1, TerminateReady
    <3> QED BY <1>1, <3>1, <3>2, StepByTermination
  <2>2. CASE ~ (raster[runtsk] /\ rdy.dspflg)
    <3>1. rdy' = rdy
      BY <1>4, <2>2 DEF ena_ter
    <3> QED BY <1>1, <3>1, QuietQueues
  <2> QED BY <2>1, <2>2
<1>5. ASSUME NEW t \in Task, ter_tsk(t) PROVE QueueStep
  <2>1. t # runtsk /\ task_terminate(t, rdy)
    BY <1>5 DEF ter_tsk
  <2> QED BY <1>1, <2>1, StepByTermination
<1>6. ASSUME NEW t \in Task, ras_ter(t) PROVE QueueStep
  <2>1. \/ t # runtsk /\ task_terminate(t, rdy)
        \/ rdy' = rdy
        \/ rdy' = make_runnable(rdy, prio, t)
    BY <1>6 DEF ras_ter, become_runnable
  <2>2. CASE t # runtsk /\ task_terminate(t, rdy)
    BY <1>1, <2>2, StepByTermination
  <2>3. CASE rdy' = rdy
    BY <1>1, <2>3, QuietQueues
  <2>4. CASE rdy' = make_runnable(rdy, prio, t)
    BY <1>1, <2>4, StepByUpdate
  <2> QED BY <2>1, <2>2, <2>3, <2>4
<1> QED BY <1>2, <1>3, <1>4, <1>5, <1>6 DEF TermCall

(* The calls that disable and enable dispatching.                          *)
LEMMA DspflgStep ==
  ASSUME IInv, Unlocked, CpuCall
  PROVE  QueueStep
<1> USE DEF stateVars, prioVars, queVars, terVars, waitVars, mtxVars, dspVars, cpuVars,
            bootVars
<1>1. QueueTypes
  BY TypesOfQueues
<1>2. ASSUME TaskContext, resume_dispatch, UNCHANGED <<nest, kerflg>> PROVE QueueStep
  <2> DEFINE r == set_dspflg(rdy)
             t == runtsk
  <2>1. /\ Consistent(r, Runnable, prio) /\ r.dspflg = TRUE /\ t \in Task
    BY <1>2, DispatchResumes
  <2>2. r.ready_queue = rdy.ready_queue
    <3>1. rdy \in ReadyState /\ prio[t] \in TaskPrio
      BY <1>1, <2>1 DEF QueueTypes
    <3> QED BY <3>1, UpdatedQueues
  <2>3. rdy' = r \/ task_terminate(t, r)
    BY <1>2 DEF resume_dispatch
  <2>4. kerflg' /\ nest' = 0
    BY <1>2 DEF TaskContext
  <2> HIDE DEF r, t
  <2>5. CASE rdy' = r
    BY <1>1, <2>2, <2>5, QuietQueues
  <2>6. CASE task_terminate(t, r)
    <3>1. (rdy.dspflg)' = TRUE
      BY <2>1, <2>6, TerminateReady
    <3> QED BY <1>1, <2>1, <2>2, <2>4, <2>6, <3>1, StepByTermination
  <2> QED BY <2>3, <2>5, <2>6
<1>3. ASSUME rdy' = [rdy EXCEPT !.dspflg = FALSE] PROVE QueueStep
  <2>1. rdy'.ready_queue = rdy.ready_queue
    BY <1>1, <1>3 DEF QueueTypes, ReadyState
  <2> QED BY <1>1, <2>1, QuietQueues
<1>4. ASSUME rdy' = rdy PROVE QueueStep
  BY <1>1, <1>4, QuietQueues
<1>5. CASE loc_cpu \/ unl_cpu \/ dis_dsp
  BY <1>3, <1>4, <1>5 DEF loc_cpu, unl_cpu, dis_dsp
<1>6. CASE ena_dsp
  <2>1. TaskContext /\ UNCHANGED <<nest, kerflg>> /\ (resume_dispatch \/ rdy' = rdy)
    BY <1>6 DEF ena_dsp, checkContextTaskUnlock
  <2> QED BY <1>2, <1>4, <2>1
<1>7. ASSUME NEW all \in BOOLEAN, chg_ipm(all) PROVE QueueStep
  <2>1. /\ TaskContext /\ UNCHANGED <<nest, kerflg>>
        /\ resume_dispatch \/ rdy' = [rdy EXCEPT !.dspflg = FALSE]
    BY <1>7 DEF chg_ipm, checkContextTaskUnlock
  <2> QED BY <1>2, <1>3, <2>1
<1> QED BY <1>5, <1>6, <1>7 DEF CpuCall

(* All the others.                                                         *)
LEMMA OtherSteps ==
  ASSUME IInv, IInv', Boot \/ Interrupt \/ ManageCall \/ SyncCall \/ ObjectCall
  PROVE  QueueStep
<1> USE DEF stateVars, prioVars, queVars, terVars, waitVars, mtxVars, dspVars, cpuVars,
            bootVars
<1>1. QueueTypes
  BY TypesOfQueues
<1>2. ASSUME rdy' = rdy PROVE QueueStep
  BY <1>1, <1>2, QuietQueues
<1>3. ASSUME NEW t \in Task, rdy' = make_runnable(rdy, prio, t) PROVE QueueStep
  BY <1>1, <1>3, StepByUpdate
<1>4. ASSUME NEW t \in Task, rdy' = make_non_runnable(rdy, prio, t), tstat[t] = "RUNNABLE",
             TaskContext, t # runtsk \/ rdy.dspflg, UNCHANGED <<kerflg, nest>>
      PROVE  QueueStep
  <2>1. (rdy.dspflg)' = rdy.dspflg
    <3>1. OtherCall
      BY DEF OtherCall
    <3> QED BY <3>1, DispatchHeld DEF Holds
  <2>2. t = runtsk => rdy'.dspflg /\ kerflg' /\ nest' = 0
    BY <1>4, <2>1 DEF TaskContext
  <2> QED BY <1>1, <1>4, <2>2, StepByUpdate
<1>5. ASSUME rdy' = make_non_runnable(rdy, prio, runtsk), checkDispatch,
             UNCHANGED <<kerflg, nest>>
      PROVE  QueueStep
  <2> DEFINE t == runtsk
  <2>1. /\ t \in Task /\ tstat[t] = "RUNNABLE" /\ TaskContext /\ rdy.dspflg
        /\ rdy' = make_non_runnable(rdy, prio, t)
    BY <1>5 DEF checkDispatch, checkContextTaskUnlock, TaskContext, IInv, TypeOK, DispatchDone
  <2> HIDE DEF t
  <2> QED BY <1>4, <1>5, <2>1
<1>6. CASE Boot
  <2>1. torder # <<>> => Head(torder) \in Task
    BY DEF IInv, TypeOK
  <2>2. rdy' = rdy \/ (torder # <<>> /\ rdy' = make_runnable(rdy, prio, Head(torder)))
    BY <1>6 DEF Boot, initialize_task, startDispatch, become_runnable
  <2> QED BY <1>2, <1>3, <2>1, <2>2
<1>7. CASE Interrupt
  <2>1. rdy' = rdy \/ \E t \in Task : rdy' = make_runnable(rdy, prio, t)
    BY <1>7 DEF Interrupt, enter_int, leave_int, wait_tmout, make_non_wait
  <2> QED BY <1>2, <1>3, <2>1
<1>8. CASE ManageCall
  <2>1. ASSUME NEW t \in Task, act_tsk(t) \/ can_act(t) PROVE QueueStep
    <3>1. rdy' = rdy \/ rdy' = make_runnable(rdy, prio, t)
      BY <2>1 DEF act_tsk, can_act, become_runnable
    <3> QED BY <1>2, <1>3, <3>1
  <2>2. ASSUME NEW t \in Task, NEW p \in TaskPrio, chg_pri(t, p) PROVE QueueStep
    <3>1. \/ rdy' = rdy
          \/ /\ tstat[t] = "RUNNABLE"
             /\ rdy' = change_ready_priority(rdy, prio, t, p, FALSE)
      BY <2>2 DEF chg_pri, change_priority
    <3> QED BY <1>1, <1>2, <2>2, <3>1, StepByUpdate
  <2>3. ASSUME NEW p \in TaskPrio, rot_rdq(p) PROVE QueueStep
    <3>1. rdy' = rotate_ready_queue(rdy, p)
      BY <2>3 DEF rot_rdq
    <3>2. rdy' = rdy \/ Rotates(rdy.ready_queue, rdy'.ready_queue, p)
      BY <1>1, <3>1, RotatedQueues DEF QueueTypes
    <3> QED BY <1>2, <3>1, <3>2 DEF QueueStep
  <2> QED BY <1>8, <2>1, <2>2, <2>3 DEF ManageCall
<1>9. CASE SyncCall
  <2>1. ASSUME NEW timed, slp_tsk(timed) PROVE QueueStep
    BY <1>2, <1>5, <2>1 DEF slp_tsk, make_wait
  <2>2. CASE dly_tsk
    BY <1>5, <2>2 DEF dly_tsk, make_wait
  <2>3. ASSUME NEW t \in Task, wup_tsk(t) \/ can_wup(t) \/ rel_wai(t) \/ rsm_tsk(t)
        PROVE  QueueStep
    <3>1. rdy' = rdy \/ rdy' = make_runnable(rdy, prio, t)
      BY <2>3 DEF wup_tsk, can_wup, rel_wai, rsm_tsk, wait_complete, make_non_wait,
                  become_runnable
    <3> QED BY <1>2, <1>3, <3>1
  <2>4. ASSUME NEW t \in Task, sus_tsk(t) PROVE QueueStep
    <3>1. \/ rdy' = rdy
          \/ /\ tstat[t] = "RUNNABLE" /\ rdy' = make_non_runnable(rdy, prio, t)
             /\ TaskContext /\ (t # runtsk \/ rdy.dspflg) /\ UNCHANGED <<kerflg, nest>>
      BY <2>4 DEF sus_tsk, checkContextTaskUnlock
    <3> QED BY <1>2, <1>4, <3>1
  <2> QED BY <1>9, <2>1, <2>2, <2>3, <2>4 DEF SyncCall
<1>10. CASE ObjectCall
  <2>1. ASSUME NEW w \in Wobj, NEW timed, wobj_wait(w, timed) PROVE QueueStep
    BY <1>5, <2>1 DEF wobj_wait, wobj_make_wait, make_wait
  <2>2. ASSUME NEW w \in Wobj, NEW S \in SUBSET Waiters(w), NEW e, wobj_release(w, S, e)
        PROVE  QueueStep
    <3>1. rdy' = Woken(w, S)
      BY <2>2 DEF wobj_release
    <3>2. \A p \in TaskPrio : Extends(rdy.ready_queue[p], Woken(w, S).ready_queue[p])
      BY WokenReady
    <3> QED BY <3>1, <3>2 DEF QueueStep, Grows
  <2> QED BY <1>10, <2>1, <2>2 DEF ObjectCall
<1> QED BY <1>6, <1>7, <1>8, <1>9, <1>10

(* Every step is one of the four.                                          *)
LEMMA NextQueueStep ==
  ASSUME IInv, IInv', Unlocked, Next
  PROVE  QueueStep
<1>1. CASE TermCall
  BY <1>1, TerminatingStep
<1>2. CASE CpuCall
  BY <1>2, DspflgStep
<1>3. CASE Boot \/ Interrupt \/ ManageCall \/ SyncCall \/ ObjectCall
  BY <1>3, OtherSteps
<1> QED BY <1>1, <1>2, <1>3 DEF Next, KernelCall
-----------------------------------------------------------------------------
(* The running task keeps the processor while dispatching is held back, in *)
(* interrupt handlers and before the kernel is in operation.               *)
LEMMA ProcessorKept ==
  ASSUME IInv, IInv', Next, ~ rdy'.dspflg \/ ~ kerflg' \/ nest' > 0
  PROVE  runtsk' = runtsk
<1> USE DEF stateVars, prioVars, queVars, terVars, waitVars, mtxVars, dspVars, cpuVars,
            bootVars
<1>1. nest \in Nat /\ rdy \in ReadyState
  <2>1. nest \in 0 .. MaxNest + 1 /\ rdy \in ReadyState
    BY DEF IInv, TypeOK
  <2> QED BY <2>1, ConfigAssumption
<1>2. TaskContext /\ UNCHANGED <<nest, kerflg>> => rdy'.dspflg = FALSE \/ runtsk' = runtsk
  BY DEF TaskContext, IInv, TypeOK, ReadyState
<1>3. (rdy.dspflg)' \in BOOLEAN
  BY DEF IInv, TypeOK, ReadyState
<1>4. CASE OtherCall /\ rdy'.dspflg
  <2>1. ~ kerflg' \/ nest' > 0
    BY <1>4
  <2>2. CASE Boot \/ Interrupt
    BY <1>1, <2>1, <2>2 DEF Boot, Interrupt, initialize_task, startDispatch, enter_int,
                            leave_int, wait_tmout
  <2>3. CASE loc_cpu \/ unl_cpu \/ dis_ter
    BY <2>3 DEF loc_cpu, unl_cpu, dis_ter
  <2>4. ASSUME UNCHANGED <<nest, kerflg>>, kerflg,
               nest = 0 \/ runtsk' = runtsk \/ requestTaskDispatch
        PROVE  runtsk' = runtsk
    BY <1>1, <2>1, <2>4 DEF requestTaskDispatch
  <2>5. CASE ManageCall \/ SyncCall
    <3>1. ASSUME NEW t \in Task, act_tsk(t) \/ wup_tsk(t) \/ rel_wai(t)
          PROVE  runtsk' = runtsk
      BY <2>4, <3>1 DEF act_tsk, wup_tsk, rel_wai, checkContextUnlock
    <3>2. ASSUME NEW t \in Task, can_act(t) \/ can_wup(t) \/ sus_tsk(t) \/ rsm_tsk(t)
          PROVE  runtsk' = runtsk
      BY <2>4, <3>2 DEF can_act, can_wup, sus_tsk, rsm_tsk, checkContextTaskUnlock, TaskContext
    <3>3. ASSUME NEW t \in Task, NEW p \in TaskPrio, chg_pri(t, p) PROVE runtsk' = runtsk
      BY <2>4, <3>3 DEF chg_pri, checkContextTaskUnlock, TaskContext
    <3>4. ASSUME NEW p \in TaskPrio, rot_rdq(p) PROVE runtsk' = runtsk
      BY <2>4, <3>4 DEF rot_rdq, checkContextUnlock
    <3>5. ASSUME NEW timed, slp_tsk(timed) \/ dly_tsk PROVE runtsk' = runtsk
      BY <2>4, <3>5 DEF slp_tsk, dly_tsk, checkDispatch, checkContextTaskUnlock, TaskContext
    <3> QED BY <2>5, <3>1, <3>2, <3>3, <3>4, <3>5 DEF ManageCall, SyncCall
  <2>6. CASE ObjectCall
    BY <1>1, <2>1, <2>6 DEF ObjectCall, wobj_wait, wobj_release, checkContextUnlock,
       checkDispatch, checkContextTaskUnlock, TaskContext, requestTaskDispatch
  <2>7. CASE ena_ter \/ \E t \in Task : ras_ter(t) \/ ter_tsk(t)
    BY <1>1, <2>1, <2>7 DEF ena_ter, ras_ter, ter_tsk, checkContextTaskUnlock, TaskContext
  <2> QED BY <1>4, <2>2, <2>3, <2>4, <2>5, <2>6, <2>7 DEF OtherCall
<1>5. CASE OtherCall /\ ~ rdy'.dspflg
  <2>1. Holds(rdy, rdy') /\ (~ rdy.dspflg => runtsk' = runtsk)
    BY <1>5, DispatchHeld
  <2> QED BY <1>5, <2>1 DEF Holds
<1>6. CASE DspflgCall
  <2>1. CASE dis_dsp
    BY <2>1 DEF dis_dsp
  <2>2. CASE ext_tsk
    <3> DEFINE r == IF rdy.dspflg THEN rdy ELSE set_dspflg(rdy)
               t == runtsk
    <3>1. TaskContext /\ task_terminate(t, r) /\ UNCHANGED <<nest, kerflg>>
      BY <2>2 DEF ext_tsk
    <3>2. /\ Consistent(r, Runnable, prio) /\ r.dspflg = TRUE /\ t \in Task
      BY <3>1, <1>1, DispatchResumes DEF ReadyState
    <3> HIDE DEF r, t
    <3>3. (rdy.dspflg)' = TRUE
      BY <3>1, <3>2, TerminateReady
    <3> QED BY <3>1, <3>3 DEF TaskContext
  <2>3. ASSUME TaskContext, resume_dispatch, UNCHANGED <<nest, kerflg>> PROVE FALSE
    <3> DEFINE r == set_dspflg(rdy)
               t == runtsk
    <3>1. /\ Consistent(r, Runnable, prio) /\ r.dspflg = TRUE /\ t \in Task
      BY <2>3, DispatchResumes
    <3>2. rdy' = r \/ task_terminate(t, r)
      BY <2>3 DEF resume_dispatch
    <3> HIDE DEF r, t
    <3>3. (rdy.dspflg)' = TRUE
      BY <3>1, <3>2, TerminateReady
    <3> QED BY <2>3, <3>3 DEF TaskContext
  <2>4. CASE ena_dsp
    <3>1. TaskContext /\ UNCHANGED <<nest, kerflg>> /\ (resume_dispatch \/ runtsk' = runtsk)
      BY <2>4 DEF ena_dsp, checkContextTaskUnlock
    <3> QED BY <2>3, <3>1
  <2>5. ASSUME NEW all \in BOOLEAN, chg_ipm(all) PROVE runtsk' = runtsk
    <3>1. TaskContext /\ UNCHANGED <<nest, kerflg>> /\ (resume_dispatch \/ runtsk' = runtsk)
      BY <2>5 DEF chg_ipm, checkContextTaskUnlock
    <3> QED BY <2>3, <3>1
  <2> QED BY <1>6, <2>1, <2>2, <2>4, <2>5 DEF DspflgCall
<1> QED BY <1>4, <1>5, <1>6, NextCalls

(* The cached choice, when it is current, is the first task of the highest *)
(* non-empty queue.                                                        *)
LEMMA ChosenIsFirst ==
  ASSUME NEW r \in ReadyState, PrimapMatches(r), IsHighest(r)
  PROVE  Promise!FirstOf(r.ready_queue, r.p_schedtsk)
<1>1. Promise!Prios = TaskPrio
  BY DEF Promise!Prios, TaskPrio
<1>2. CASE r.ready_primap = {}
  BY <1>1, <1>2 DEF IsHighest, PrimapMatches, Promise!FirstOf
<1>3. CASE r.ready_primap # {}
  <2>1. PICK p \in r.ready_primap : /\ \A o \in r.ready_primap : p <= o
                                    /\ r.p_schedtsk = r.ready_queue[p][1]
    BY <1>3 DEF IsHighest
  <2>2. p \in TaskPrio /\ r.ready_queue[p] # <<>>
    BY DEF PrimapMatches, ReadyState
  <2>3. \A o \in TaskPrio : o < p => r.ready_queue[o] = <<>>
    <3> SUFFICES ASSUME NEW o \in TaskPrio, o < p, r.ready_queue[o] # <<>> PROVE FALSE
      OBVIOUS
    <3>1. o \in r.ready_primap
      BY DEF PrimapMatches
    <3>2. p <= o
      BY <2>1, <3>1
    <3> QED BY <2>2, <3>2 DEF TaskPrio
  <2> QED BY <1>1, <2>1, <2>2, <2>3 DEF Promise!FirstOf
<1> QED BY <1>2, <1>3

(* Module Scheduling sees the same queues.                                 *)
LEMMA SameQueues ==
  /\ Promise!Prios = TaskPrio
  /\ \A q : Promise!NoDuplicate(q) <=> NoDuplicate(q)
  /\ \A q, t : Promise!Member(q, t) <=> Member(q, t)
  /\ \A q, t : Promise!Delete(q, t) = Delete(q, t)
  BY DEF Promise!Prios, TaskPrio, Promise!NoDuplicate, NoDuplicate, Promise!Member, Member,
         Promise!Delete, Delete

(* Tasks that arrive are new, and each is in one queue only.               *)
LEMMA GrowthArrives ==
  ASSUME IInv, IInv', Grows(rdy.ready_queue, rdy'.ready_queue)
  PROVE  Promise!Arrive
<1> DEFINE q == rdy.ready_queue
           s == rdy'.ready_queue
<1>1. q \in ReadyQueues /\ s \in ReadyQueues
  BY DEF IInv, TypeOK, ReadyState, ReadyQueues
<1>2. /\ \A p \in TaskPrio : NoDuplicate(s[p])
      /\ \A p \in TaskPrio, t \in Task : Member(s[p], t) => prio'[t] = p
  BY DEF IInv, ReadyQueueConsistent, QueuesMatch
<1>3. \A p \in TaskPrio : Extends(q[p], s[p])
  BY DEF Grows
<1>4. Promise!Prios = TaskPrio
  BY SameQueues
<1> HIDE DEF q, s
<1>5. \A p \in TaskPrio : Len(q[p]) <= Len(s[p]) /\ q[p] = SubSeq(s[p], 1, Len(q[p]))
  <2> SUFFICES ASSUME NEW p \in TaskPrio
               PROVE  Len(q[p]) <= Len(s[p]) /\ q[p] = SubSeq(s[p], 1, Len(q[p]))
    OBVIOUS
  <2> DEFINE a == q[p]
             b == s[p]
  <2>1. a \in Seq(Task) /\ b \in Seq(Task) /\ Extends(a, b)
    BY <1>1, <1>3 DEF ReadyQueues
  <2> HIDE DEF a, b
  <2>2. Len(a) <= Len(b) /\ \A i \in 1 .. Len(a) : b[i] = a[i]
    BY <2>1 DEF Extends
  <2>3. SubSeq(b, 1, Len(a)) \in Seq(Task) /\ Len(SubSeq(b, 1, Len(a))) = Len(a)
    BY <2>1, <2>2
  <2>4. \A i \in 1 .. Len(a) : SubSeq(b, 1, Len(a))[i] = a[i]
    BY <2>1, <2>2
  <2>5. a = SubSeq(b, 1, Len(a))
    BY <2>1, <2>3, <2>4
  <2> QED BY <2>2, <2>5 DEF a, b
<1>6. \A p \in TaskPrio : \A o \in TaskPrio \ {p}, t \in Task :
        ~ (Member(s[p], t) /\ Member(s[o], t))
  BY <1>2
<1>7. s \in [TaskPrio -> Seq(Task)]
  BY <1>1 DEF ReadyQueues
<1> QED BY <1>2, <1>4, <1>5, <1>6, <1>7, SameQueues DEF Promise!Arrive, q, s

(* Every step of the kernel is a step of module Scheduling.                *)
LEMMA StepPromised ==
  ASSUME IInv, IInv', Unlocked, Next
  PROVE  Promise!Next
<1> DEFINE q == rdy.ready_queue
           s == rdy'.ready_queue
<1>1. rdy' \in ReadyState /\ nest' \in Nat /\ kerflg' \in BOOLEAN
  <2>1. rdy' \in ReadyState /\ nest' \in 0 .. MaxNest + 1 /\ kerflg' \in BOOLEAN
    BY DEF IInv, TypeOK
  <2> QED BY <2>1, ConfigAssumption
<1>2. Promise!Choose
  <2>1. CASE ~ rdy'.dspflg \/ ~ kerflg' \/ nest' > 0
    <3>1. runtsk' = runtsk
      BY <2>1, ProcessorKept
    <3> QED BY <2>1, <3>1 DEF Promise!Choose
  <2>2. CASE rdy'.dspflg /\ kerflg' /\ ~ nest' > 0
    <3>1. nest' = 0
      BY <1>1, <2>2
    <3>2. /\ PrimapMatches(rdy') /\ IsHighest(rdy') /\ runtsk' = rdy'.p_schedtsk
      BY <2>2, <3>1 DEF IInv, DispatchDone, ReadyQueueConsistent, SchedtskCurrent
    <3>3. Promise!FirstOf(rdy'.ready_queue, rdy'.p_schedtsk)
      BY <1>1, <3>2, ChosenIsFirst
    <3> QED BY <2>2, <3>1, <3>2, <3>3 DEF Promise!Choose
  <2> QED BY <1>1, <2>1, <2>2 DEF ReadyState
<1>3. Promise!Prios = TaskPrio
  BY SameQueues
<1>4. Promise!Arrive \/ Promise!Rotate \/ \E t \in Task : Promise!Leave(t) \/ Promise!Move(t)
  <2>1. CASE Grows(q, s)
    BY <2>1, GrowthArrives
  <2>2. ASSUME NEW t \in Task, Shrinks(q, s, t), t = runtsk => rdy'.dspflg /\ kerflg' /\ nest' = 0
        PROVE  Promise!Leave(t)
    <3>1. PICK p \in TaskPrio : Member(q[p], t) /\ s = [q EXCEPT ![p] = Delete(@, t)]
      BY <2>2 DEF Shrinks, Removed
    <3> QED BY <1>1, <1>3, <2>2, <3>1, SameQueues DEF Promise!Leave
  <2>3. ASSUME NEW t \in Task, NEW o \in TaskPrio, Moves(q, s, t, o)
        PROVE  Promise!Move(t)
    <3>1. PICK p \in TaskPrio :
                 /\ Member(q[p], t)
                 /\ s = [[q EXCEPT ![p] = Delete(@, t)] EXCEPT ![o] = Append(@, t)]
      BY <2>3 DEF Moves, Appended, Removed
    <3> QED BY <1>3, <3>1, SameQueues DEF Promise!Move
  <2>4. ASSUME NEW p \in TaskPrio, Rotates(q, s, p) PROVE Promise!Rotate
    BY <1>3, <2>4 DEF Rotates, Promise!Rotate
  <2> QED BY <2>1, <2>2, <2>3, <2>4, NextQueueStep DEF QueueStep
<1>5. (~ rdy'.dspflg) \in BOOLEAN /\ (~ kerflg' \/ nest' > 0) \in BOOLEAN
  OBVIOUS
<1> QED BY <1>2, <1>4, <1>5 DEF Promise!Next

(* The kernel implements what module Scheduling promises: every call,      *)
(* interrupt and dispatch is a step of it or changes nothing in it.        *)
THEOREM SchedulingImplemented == Spec => SchedulingPromised
<1>1. Init => IInv /\ Unlocked /\ Promise!Init
  <2>1. Init => Unlocked
    BY DEF Init, Unlocked
  <2>2. Init => Promise!Init
    BY DEF Init, InitReady, Promise!Init, Promise!Prios, TaskPrio
  <2> QED BY <2>1, <2>2, InitInvariant
<1>2. IInv /\ Unlocked /\ [Next]_vars => IInv' /\ Unlocked'
  BY NextInvariant, StaysUnlocked DEF IInv
<1>3. IInv /\ IInv' /\ Unlocked /\ [Next]_vars => [Promise!Next]_(Promise!schedulingVars)
  <2>1. UNCHANGED vars => UNCHANGED Promise!schedulingVars
    BY DEF vars, dspVars, cpuVars, bootVars, Promise!schedulingVars
  <2> QED BY <2>1, StepPromised
<1> QED BY <1>1, <1>2, <1>3, PTL DEF Spec, SchedulingPromised, Promise!Spec
-----------------------------------------------------------------------------
(* What may make two tasks of one queue change places.                     *)
MayReorder(p, t, u) ==
  \/ rdy' = rotate_ready_queue(rdy, p)
  \/ checkContextTaskUnlock /\ \E x \in {t, u} : chg_pri(x, p)
  \/ \E x \in {t, u} : actque[x] > actque'[x]

(* Nothing else does.                                                      *)
LEMMA StepKeepsOrder ==
  ASSUME IInv, IInv', QueueStep, NEW p \in TaskPrio, NEW t \in Task, NEW u \in Task,
         Before(rdy, p, t, u), Before(rdy', p, u, t)
  PROVE  MayReorder(p, t, u)
<1> DEFINE q == rdy.ready_queue
           s == rdy'.ready_queue
           a == q[p]
           b == s[p]
<1>1. q \in ReadyQueues /\ s \in ReadyQueues
  BY DEF IInv, TypeOK, ReadyState, ReadyQueues
<1>2. /\ a \in Seq(Task) /\ b \in Seq(Task) /\ NoDuplicate(a) /\ NoDuplicate(b)
      /\ Ahead(a, t, u) /\ Ahead(b, u, t)
  <2>1. a \in Seq(Task) /\ b \in Seq(Task)
    BY <1>1 DEF ReadyQueues
  <2>2. NoDuplicate(a) /\ NoDuplicate(b)
    BY DEF IInv, ReadyQueueConsistent, QueuesMatch
  <2> QED BY <2>1, <2>2 DEF Before, Ahead
<1> HIDE DEF a, b
<1>3. ~ Ahead(a, u, t)
  BY <1>2, OneOrder
<1>4. b # a
  BY <1>2, <1>3
<1>5. CASE Grows(q, s)
  <2>1. Extends(a, b)
    BY <1>5 DEF Grows, a, b
  <2> QED BY <1>2, <2>1, ArriveBehind
<1>6. ASSUME NEW x \in Task, Member(a, x), Ahead(Delete(a, x), u, t) PROVE FALSE
  BY <1>2, <1>3, <1>6, DeleteKeepsOrder
<1>7. ASSUME NEW x \in Task, Shrinks(q, s, x) PROVE MayReorder(p, t, u)
  <2>1. PICK o \in TaskPrio : Member(q[o], x) /\ s = [q EXCEPT ![o] = Delete(@, x)]
    BY <1>7 DEF Shrinks, Removed
  <2>2. o = p
    BY <1>1, <1>4, <2>1 DEF ReadyQueues, a, b
  <2>3. b = Delete(a, x) /\ Member(a, x)
    BY <1>1, <2>1, <2>2 DEF ReadyQueues, a, b
  <2> QED BY <1>2, <1>6, <2>3
<1>8. ASSUME NEW x \in Task, NEW o \in TaskPrio, Moves(q, s, x, o),
             actque'[x] < actque[x] \/ chg_pri(x, o)
      PROVE  MayReorder(p, t, u)
  <2>1. PICK e \in TaskPrio :
               /\ Member(q[e], x)
               /\ s = [[q EXCEPT ![e] = Delete(@, x)] EXCEPT ![o] = Append(@, x)]
    BY <1>8 DEF Moves, Appended, Removed
  <2> DEFINE d == IF e = p THEN Delete(a, x) ELSE a
  <2>2. b = IF o = p THEN Append(d, x) ELSE d
    BY <1>1, <2>1 DEF ReadyQueues, a, b
  <2>3. e = p => Member(a, x)
    BY <2>1 DEF a
  <2>4. d \in Seq(Task) /\ ~ Ahead(d, u, t)
    BY <1>2, <1>3, <1>6, <2>3, DeleteProperties
  <2> HIDE DEF d
  <2>5. o = p
    BY <1>2, <2>2, <2>4
  <2>6. t = x
    BY <1>2, <2>2, <2>4, <2>5, AppendKeepsOrder
  <2>7. actque \in [Task -> Nat]
    BY TypesOfQueues DEF QueueTypes
  <2>8. (actque \in [Task -> 0 .. TMAX_ACTCNT])'
    BY DEF IInv, TypeOK
  <2>9. actque'[x] < actque[x] => actque[t] > actque'[t]
    BY <2>6, <2>7, <2>8 DEF TMAX_ACTCNT
  <2>10. chg_pri(x, o) => checkContextTaskUnlock /\ chg_pri(t, p)
    BY <2>5, <2>6 DEF chg_pri
  <2> QED BY <1>8, <2>9, <2>10 DEF MayReorder
<1>9. ASSUME NEW o \in TaskPrio, Rotates(q, s, o), rdy' = rotate_ready_queue(rdy, o)
      PROVE  MayReorder(p, t, u)
  <2>1. s = [q EXCEPT ![o] = Append(Tail(q[o]), Head(q[o]))]
    BY <1>9 DEF Rotates
  <2>2. o = p
    BY <1>1, <1>4, <2>1 DEF ReadyQueues, a, b
  <2> QED BY <1>9, <2>2 DEF MayReorder
<1> QED BY <1>5, <1>7, <1>8, <1>9 DEF QueueStep

(* Tasks of one priority run in the order in which they became ready: only *)
(* rot_rdq, chg_pri and a restart of one of the two change it.             *)
THEOREM ReadyOrder == Spec => ReadyOrderKept
<1>1. Init => IInv /\ Unlocked
  BY InitInvariant DEF Init, Unlocked
<1>2. IInv /\ Unlocked /\ [Next]_vars => IInv' /\ Unlocked'
  BY NextInvariant, StaysUnlocked DEF IInv
<1>3. IInv /\ IInv' /\ Unlocked /\ [Next]_vars =>
        [\A p \in TaskPrio, t \in Task, u \in Task :
           Before(rdy, p, t, u) /\ Before(rdy', p, u, t) => MayReorder(p, t, u)]_vars
  BY NextQueueStep, StepKeepsOrder
<1>4. [\A p \in TaskPrio, t \in Task, u \in Task :
         Before(rdy, p, t, u) /\ Before(rdy', p, u, t) => MayReorder(p, t, u)]_vars =>
      [\A p \in TaskPrio, t \in Task, u \in Task :
         Before(rdy, p, t, u) /\ Before(rdy', p, u, t) =>
           \/ rdy' = rotate_ready_queue(rdy, p)
           \/ checkContextTaskUnlock /\ \E x \in {t, u} : chg_pri(x, p)
           \/ \E x \in {t, u} : actque[x] > actque'[x]]_vars
  BY Zenon DEF MayReorder
<1> QED BY <1>1, <1>2, <1>3, <1>4, PTL DEF Spec, ReadyOrderKept
-----------------------------------------------------------------------------
(* The overrun handler: the timer's state and the time the tasks owe.      *)
OvrState == [staovr : [OvrTask -> BOOLEAN], leftotm : [OvrTask -> Nat],
           enable : BOOLEAN, count : Nat, int : BOOLEAN]

OvrTypes ==
  /\ ovr \in OvrState
  /\ owed \in [OvrTask -> Nat]
  /\ nest \in Nat /\ kerflg \in BOOLEAN

(* Before the kernel is in operation no task has been given time.          *)
OvrInv ==
  /\ OvrTypes
  /\ ~ kerflg => \A t \in OvrTask : ~ ovr.staovr[t]
  /\ BudgetKept
  /\ OverrunNoticed

(* Stopping and starting the timer for t, which has time.                  *)
LEMMA StopTimer ==
  ASSUME NEW o \in OvrState, NEW t \in OvrTask, o.staovr[t]
  PROVE  LET p == overrun_stop(o, t)
         IN  /\ p \in OvrState /\ p.enable = FALSE
             /\ p.staovr = o.staovr /\ p.int = o.int
             /\ \A u \in OvrTask : p.leftotm[u] = IF u = t THEN o.count ELSE o.leftotm[u]
<1> DEFINE l == [o.leftotm EXCEPT ![t] = o.count]
           p == [o EXCEPT !.enable = FALSE, !.leftotm = l]
<1>1. overrun_stop(o, t) = p
  BY DEF overrun_stop, timerStop, Watched, OvrState
<1>2. /\ l \in [OvrTask -> Nat]
      /\ \A u \in OvrTask : l[u] = IF u = t THEN o.count ELSE o.leftotm[u]
  BY DEF OvrState
<1> HIDE DEF l
<1> QED BY <1>1, <1>2 DEF OvrState

LEMMA StartTimer ==
  ASSUME NEW o \in OvrState, NEW t \in OvrTask, o.staovr[t]
  PROVE  LET p == overrun_start(o, t)
         IN  /\ p \in OvrState /\ p.enable = TRUE /\ p.count = o.leftotm[t]
             /\ p.staovr = o.staovr /\ p.leftotm = o.leftotm
             /\ o.leftotm[t] = 0 => p.int
  BY DEF overrun_start, timerStart, Watched, OvrState

(* What a call does to the processor: a handler keeps it.                  *)
Hands ==
  kerflg /\ UNCHANGED <<kerflg, nest>> /\ (nest > 0 => runtsk' = runtsk)

(* The calls that terminate no task, and those that may.                   *)
LEMMA KeepingHands ==
  ASSUME ManageCall \/ SyncCall \/ loc_cpu \/ unl_cpu \/ dis_dsp \/ dis_ter
           \/ \E t \in Task : wait_tmout(t)
  PROVE  Hands
<1> USE DEF Hands, checkContextUnlock, checkContextTaskUnlock, checkDispatch, TaskContext,
            taskDispatch, requestTaskDispatch, bootVars, cpuVars
<1>1. ASSUME NEW t \in Task, act_tsk(t) \/ can_act(t) PROVE Hands
  BY <1>1 DEF act_tsk, can_act
<1>2. ASSUME NEW t \in Task, NEW p \in TaskPrio, chg_pri(t, p) PROVE Hands
  BY <1>2 DEF chg_pri
<1>3. ASSUME NEW p \in TaskPrio, rot_rdq(p) PROVE Hands
  BY <1>3 DEF rot_rdq
<1>4. ASSUME NEW timed \in BOOLEAN, slp_tsk(timed) PROVE Hands
  BY <1>4 DEF slp_tsk
<1>5. ASSUME dly_tsk PROVE Hands
  BY <1>5 DEF dly_tsk
<1>6. ASSUME NEW t \in Task,
             wup_tsk(t) \/ can_wup(t) \/ rel_wai(t) \/ sus_tsk(t) \/ rsm_tsk(t)
      PROVE  Hands
  BY <1>6 DEF wup_tsk, can_wup, rel_wai, sus_tsk, rsm_tsk
<1>7. CASE loc_cpu \/ unl_cpu \/ dis_dsp \/ dis_ter
  BY <1>7 DEF loc_cpu, unl_cpu, dis_dsp, dis_ter
<1>8. CASE \E t \in Task : wait_tmout(t)
  BY <1>8 DEF wait_tmout
<1> QED BY <1>1, <1>2, <1>3, <1>4, <1>5, <1>6, <1>7, <1>8 DEF ManageCall, SyncCall

LEMMA EndingHands ==
  ASSUME OvrEndingCall
  PROVE  Hands /\ \E S : Dispatched(S)
<1> USE DEF Hands, checkContextUnlock, checkContextTaskUnlock, TaskContext,
            taskDispatch, bootVars, cpuVars
<1>1. ASSUME ext_tsk \/ ena_ter PROVE Hands
  BY <1>1 DEF ext_tsk, ena_ter
<1>2. ASSUME NEW t \in Task, ter_tsk(t) \/ ras_ter(t) PROVE Hands
  BY <1>2 DEF ter_tsk, ras_ter
<1>3. ASSUME ena_dsp PROVE Hands
  BY <1>3 DEF ena_dsp
<1>4. ASSUME NEW all \in BOOLEAN, chg_ipm(all) PROVE Hands
  BY <1>4 DEF chg_ipm
<1>5. \E S : Dispatched(S)
  BY DEF OvrEndingCall
<1> QED BY <1>1, <1>2, <1>3, <1>4, <1>5 DEF OvrEndingCall

(* The processor changes hands, or some tasks are terminated, or both.     *)
LEMMA DispatchedKept ==
  ASSUME OvrInv, Hands, NEW S, Dispatched(S)
  PROVE  OvrInv'
<1> USE OverrunAssumption, TaskAssumption
<1> DEFINE o == Ended(ovr, S)
<1>1. /\ o \in OvrState
      /\ o.leftotm = ovr.leftotm /\ o.count = ovr.count /\ o.int = ovr.int
      /\ o.staovr = [t \in OvrTask |-> ovr.staovr[t] /\ t \notin S]
      /\ o.enable = (ovr.enable /\ ~ (runtsk \in S /\ Watched(ovr, runtsk)))
  BY DEF OvrInv, OvrTypes, OvrState, Ended, timerStop
<1>2. /\ kerflg /\ kerflg' /\ nest' = nest
      /\ owed' = [t \in OvrTask |-> IF t \in S THEN 0 ELSE owed[t]]
  BY DEF Hands, Dispatched
<1>3. owed' \in [OvrTask -> Nat]
  BY <1>2 DEF OvrInv, OvrTypes, OvrState
<1> HIDE DEF o
<1>4. CASE runtsk' = runtsk
  <2>1. ovr' = o
    BY <1>4 DEF Dispatched, o
  <2>2. OvrTypes'
    BY <1>1, <1>2, <1>3, <2>1 DEF OvrTypes, OvrInv, OvrState
  <2>3. BudgetKept'
    BY <1>1, <1>2, <1>4, <2>1 DEF BudgetKept, Watched, ref_ovr, OvrInv, OvrTypes, OvrState
  <2>4. OverrunNoticed'
    BY <1>1, <1>2, <1>4, <2>1 DEF OverrunNoticed, Watched, OvrInv, OvrTypes, OvrState
  <2> QED BY <1>2, <2>2, <2>3, <2>4 DEF OvrInv
<1>5. CASE runtsk' # runtsk
  <2> DEFINE p == overrun_stop(o, runtsk)
  <2>1. ovr' = overrun_start(p, runtsk')
    BY <1>5 DEF Dispatched, o
  <2>2. nest = 0
    BY <1>5 DEF Hands, OvrInv, OvrTypes, OvrState
  <2>3. /\ p \in OvrState
        /\ p.staovr = o.staovr /\ p.int = o.int /\ p.enable = FALSE
        /\ \A t \in OvrTask : p.staovr[t] => p.leftotm[t] = owed'[t]
    <3>1. CASE Watched(o, runtsk)
      <4>2. runtsk \in OvrTask /\ ovr.staovr[runtsk] /\ runtsk \notin S
        BY <1>1, <3>1 DEF Watched
      <4>3. /\ p \in OvrState /\ p.enable = FALSE
            /\ p.staovr = o.staovr /\ p.int = o.int
            /\ \A t \in OvrTask : p.leftotm[t] = IF t = runtsk THEN o.count ELSE o.leftotm[t]
        BY <1>1, <3>1, <4>2, StopTimer DEF Watched
      <4>4. \A t \in OvrTask : p.staovr[t] => p.leftotm[t] = owed'[t]
        <5>1. \A t \in OvrTask : ovr.staovr[t] =>
                owed[t] = IF t = runtsk THEN ovr.count ELSE ovr.leftotm[t]
          BY <1>2, <2>2 DEF OvrInv, BudgetKept, ref_ovr
        <5>2. \A t \in OvrTask : p.staovr[t] => ovr.staovr[t] /\ owed'[t] = owed[t]
          BY <1>1, <1>2, <4>3
        <5> QED BY <1>1, <4>3, <5>1, <5>2
      <4> QED BY <4>3, <4>4
    <3>2. CASE ~ Watched(o, runtsk)
      <4>1. p = o
        BY <3>2 DEF overrun_stop
      <4>2. o.enable = FALSE
        BY <1>1, <1>2, <2>2, <3>2 DEF OvrInv, BudgetKept, Watched, OvrTypes
      <4>3. \A t \in OvrTask : o.staovr[t] => o.leftotm[t] = owed'[t]
        BY <1>1, <1>2, <2>2, <3>2 DEF OvrInv, BudgetKept, ref_ovr, Watched
      <4> QED BY <1>1, <4>1, <4>2, <4>3
    <3> QED BY <3>1, <3>2
  <2> HIDE DEF p
  <2>4. CASE Watched(p, runtsk')
    <3>1. /\ ovr' \in OvrState /\ ovr'.enable = TRUE /\ ovr'.count = p.leftotm[runtsk']
          /\ ovr'.staovr = p.staovr /\ ovr'.leftotm = p.leftotm
          /\ p.leftotm[runtsk'] = 0 => ovr'.int
      BY <2>1, <2>3, <2>4, StartTimer DEF Watched
    <3>2. OvrTypes'
      BY <1>2, <1>3, <2>3, <2>4, <3>1 DEF OvrTypes, OvrInv, OvrState, Watched
    <3>3. BudgetKept'
      BY <1>2, <2>2, <2>3, <2>4, <3>1 DEF BudgetKept, Watched, ref_ovr
    <3>4. OverrunNoticed'
      BY <1>2, <2>3, <2>4, <3>1 DEF OverrunNoticed, Watched
    <3> QED BY <1>2, <3>2, <3>3, <3>4 DEF OvrInv
  <2>5. CASE ~ Watched(p, runtsk')
    <3>1. ovr' = p
      BY <2>1, <2>5 DEF overrun_start
    <3>2. OvrTypes'
      BY <1>2, <1>3, <2>3, <3>1 DEF OvrTypes, OvrInv, OvrState
    <3>3. BudgetKept'
      BY <1>2, <2>3, <2>5, <3>1 DEF BudgetKept, Watched, ref_ovr
    <3>4. OverrunNoticed'
      BY <1>2, <2>5, <3>1 DEF OverrunNoticed
    <3> QED BY <1>2, <3>2, <3>3, <3>4 DEF OvrInv
  <2> QED BY <2>4, <2>5
<1> QED BY <1>4, <1>5

(* Interrupts stop the timer of the task they interrupt and start that of  *)
(* the task which has the processor after them.                            *)
LEMMA InterruptsKept ==
  ASSUME OvrInv, OvrInterrupt
  PROVE  OvrInv'
<1> USE OverrunAssumption, TaskAssumption
<1>1. ASSUME enter_int, ovr' = IF nest = 0 THEN overrun_stop(ovr, runtsk) ELSE ovr,
             UNCHANGED owed
      PROVE  OvrInv'
  <2>1. kerflg /\ kerflg' = kerflg /\ nest' = nest + 1
    BY <1>1 DEF enter_int, bootVars
  <2>2. /\ OvrTypes' /\ ovr'.enable = FALSE
        /\ \A t \in OvrTask : ovr'.staovr[t] => owed[t] = ovr'.leftotm[t]
    <3>1. CASE nest = 0 /\ Watched(ovr, runtsk)
      <4>2. /\ runtsk \in OvrTask /\ ovr' \in OvrState
            /\ ovr'.enable = FALSE /\ ovr'.staovr = ovr.staovr
            /\ \A t \in OvrTask :
                 ovr'.leftotm[t] = IF t = runtsk THEN ovr.count ELSE ovr.leftotm[t]
        <5>1. /\ ovr \in OvrState /\ runtsk \in OvrTask /\ ovr.staovr[runtsk]
              /\ ovr' = overrun_stop(ovr, runtsk)
          BY <1>1, <3>1 DEF Watched, OvrInv, OvrTypes
        <5> DEFINE p == overrun_stop(ovr, runtsk)
        <5>2. /\ p \in OvrState /\ p.enable = FALSE /\ p.staovr = ovr.staovr
              /\ \A u \in OvrTask : p.leftotm[u] = IF u = runtsk THEN ovr.count ELSE ovr.leftotm[u]
          BY ONLY <5>1, StopTimer, Zenon
        <5> HIDE DEF p
        <5>3. ovr' = p
          BY ONLY <5>1 DEF p
        <5> QED BY ONLY <5>1, <5>2, <5>3
      <4>3. OvrTypes'
        BY <1>1, <2>1, <4>2 DEF OvrInv, OvrTypes
      <4>4. \A t \in OvrTask : ovr'.staovr[t] => owed[t] = ovr'.leftotm[t]
        BY <2>1, <3>1, <4>2 DEF OvrInv, BudgetKept, ref_ovr
      <4> QED BY <4>2, <4>3, <4>4
    <3>2. CASE ~ (nest = 0 /\ Watched(ovr, runtsk))
      <4>1. ovr' = ovr
        BY <1>1, <3>2 DEF overrun_stop
      <4> QED BY <1>1, <2>1, <3>2, <4>1
              DEF OvrInv, OvrTypes, OvrState, BudgetKept, ref_ovr, Watched
    <3> QED BY <3>1, <3>2
  <2>3. nest' # 0
    BY <2>1 DEF OvrInv, OvrTypes, OvrState
  <2>4. BudgetKept'
    BY <1>1, <2>2, <2>3 DEF BudgetKept
  <2> QED BY <2>1, <2>2, <2>3, <2>4 DEF OvrInv, OverrunNoticed
<1>2. CASE ovr_enter_int
  BY <1>1, <1>2 DEF ovr_enter_int
<1>3. CASE ovrtimer_int
  BY <1>1, <1>3 DEF ovrtimer_int
<1>4. CASE ovr_leave_int
  <2>1. /\ kerflg /\ kerflg' = kerflg /\ nest > 0 /\ nest' = nest - 1 /\ owed' = owed
        /\ ovr' = IF nest = 1 THEN overrun_start(ovr, runtsk') ELSE ovr
    BY <1>4 DEF ovr_leave_int, leave_int, bootVars
  <2>2. nest' \in Nat /\ (nest' = 0 <=> nest = 1)
    BY <2>1 DEF OvrInv, OvrTypes, OvrState
  <2>3. /\ ovr.enable = FALSE
        /\ \A t \in OvrTask : ovr.staovr[t] => owed[t] = ovr.leftotm[t]
    BY <2>1 DEF OvrInv, BudgetKept, OvrTypes
  <2>4. CASE nest = 1 /\ Watched(ovr, runtsk')
    <3>1. /\ ovr' \in OvrState /\ ovr'.enable = TRUE /\ ovr'.count = ovr.leftotm[runtsk']
          /\ ovr'.staovr = ovr.staovr /\ ovr'.leftotm = ovr.leftotm
          /\ ovr.leftotm[runtsk'] = 0 => ovr'.int
      BY <2>1, <2>4, StartTimer DEF Watched, OvrInv, OvrTypes
    <3>2. OvrTypes'
      BY <2>1, <2>2, <2>4, <3>1 DEF OvrTypes, OvrInv, OvrState, Watched
    <3>3. BudgetKept'
      BY <2>1, <2>2, <2>3, <2>4, <3>1 DEF BudgetKept, Watched, ref_ovr, OvrInv, OvrTypes, OvrState
    <3>4. OverrunNoticed'
      BY <2>1, <2>3, <2>4, <3>1 DEF OverrunNoticed, Watched, OvrInv, OvrTypes, OvrState
    <3> QED BY <2>1, <3>2, <3>3, <3>4 DEF OvrInv
  <2>5. CASE ~ (nest = 1 /\ Watched(ovr, runtsk'))
    <3>1. ovr' = ovr
      BY <2>1, <2>5 DEF overrun_start
    <3>2. OvrTypes'
      BY <2>1, <2>2, <3>1 DEF OvrTypes, OvrInv, OvrState
    <3>3. BudgetKept'
      BY <2>1, <2>2, <2>3, <2>5, <3>1 DEF BudgetKept, Watched, ref_ovr
    <3>4. OverrunNoticed'
      BY <2>1, <2>2, <2>5, <3>1 DEF OverrunNoticed, Watched
    <3> QED BY <2>1, <3>2, <3>3, <3>4 DEF OvrInv
  <2> QED BY <2>4, <2>5
<1>5. CASE call_ovrhdr
  <2>1. nest = 1 /\ UNCHANGED <<kerflg, nest>>
    BY <1>5 DEF call_ovrhdr, Looking, vars, cpuVars, bootVars
  <2>2. /\ OvrTypes' /\ ovr'.enable = ovr.enable /\ ovr'.leftotm = ovr.leftotm
        /\ \A t \in OvrTask : ovr'.staovr[t] => ovr.staovr[t] /\ owed'[t] = owed[t]
    BY <1>5, <2>1 DEF call_ovrhdr, OvrInv, OvrTypes, OvrState
  <2>3. BudgetKept'
    BY <2>1, <2>2 DEF OvrInv, BudgetKept
  <2> QED BY <2>1, <2>2, <2>3 DEF OvrInv, OverrunNoticed
<1> QED BY <1>2, <1>3, <1>4, <1>5 DEF OvrInterrupt

(* A task is given time, or it is taken back.                              *)
LEMMA OvrCallsKept ==
  ASSUME OvrInv, OvrCall
  PROVE  OvrInv'
<1> USE OverrunAssumption, TaskAssumption
<1>1. PICK u \in OvrTask : stp_ovr(u) \/ \E n \in Budgets : sta_ovr(u, n)
  BY DEF OvrCall
<1>2. kerflg /\ UNCHANGED <<kerflg, nest, runtsk>>
  BY <1>1 DEF stp_ovr, sta_ovr, checkContextUnlock, vars, cpuVars, bootVars
<1>3. ASSUME NEW n \in Budgets, sta_ovr(u, n)
      PROVE  OvrInv'
  <2> DEFINE own == nest = 0 /\ u = runtsk
  <2>1. n \in Nat /\ n # 0
    OBVIOUS
  <2>2. /\ ovr' = [ovr EXCEPT !.enable = own \/ @, !.count = IF own THEN n ELSE @,
                              !.staovr[u] = TRUE, !.leftotm[u] = n]
        /\ owed' = [owed EXCEPT ![u] = n]
    BY <1>3, <2>1 DEF sta_ovr, timerStart, OvrInv, OvrTypes, OvrState
  <2>3. OvrTypes'
    BY <1>2, <2>1, <2>2 DEF OvrInv, OvrTypes, OvrState
  <2>4. BudgetKept'
    BY <1>2, <2>1, <2>2 DEF OvrInv, OvrTypes, OvrState, BudgetKept, Watched, ref_ovr
  <2>5. OverrunNoticed'
    BY <1>2, <2>1, <2>2 DEF OvrInv, OvrTypes, OvrState, OverrunNoticed, Watched
  <2> QED BY <1>2, <2>3, <2>4, <2>5 DEF OvrInv
<1>4. ASSUME stp_ovr(u)
      PROVE  OvrInv'
  <2> DEFINE own == nest = 0 /\ u = runtsk /\ ovr.staovr[u]
  <2>2. /\ ovr' = [ovr EXCEPT !.enable = @ /\ ~ own, !.staovr[u] = FALSE]
        /\ owed' = [owed EXCEPT ![u] = 0]
    BY <1>4 DEF stp_ovr, timerStop, OvrInv, OvrTypes, OvrState
  <2>3. OvrTypes'
    BY <1>2, <2>2 DEF OvrInv, OvrTypes, OvrState
  <2>4. BudgetKept'
    BY <1>2, <2>2 DEF OvrInv, OvrTypes, OvrState, BudgetKept, Watched, ref_ovr
  <2>5. OverrunNoticed'
    BY <1>2, <2>2 DEF OvrInv, OvrTypes, OvrState, OverrunNoticed, Watched
  <2> QED BY <1>2, <2>3, <2>4, <2>5 DEF OvrInv
<1> QED BY <1>1, <1>3, <1>4

(* What the timer counts is what the task owes.                            *)
LEMMA TickKept ==
  ASSUME OvrInv, Tick
  PROVE  OvrInv'
<1> USE OverrunAssumption, TaskAssumption
<1>1. kerflg /\ UNCHANGED <<kerflg, nest, runtsk>>
  BY DEF Tick, vars, cpuVars, bootVars
<1>3. /\ ovr' \in OvrState /\ ovr'.staovr = ovr.staovr /\ ovr'.leftotm = ovr.leftotm
      /\ ovr'.enable = ovr.enable
      /\ ovr'.count = IF ovr.enable /\ ovr.count > 0 THEN ovr.count - 1 ELSE ovr.count
      /\ ovr.int \/ (ovr.enable /\ ovr.count = 1) => ovr'.int
  <2>1. CASE ovr.enable /\ ovr.count > 0
    <3> DEFINE n == ovr.count - 1
               i == ovr.int \/ ovr.count = 1
    <3>1. ovr' = [ovr EXCEPT !.count = n, !.int = i]
      BY <2>1 DEF Tick
    <3>2. n \in Nat /\ i \in BOOLEAN
      BY <2>1 DEF OvrInv, OvrTypes, OvrState
    <3>3. ovr.int \/ ovr.count = 1 => i
      OBVIOUS
    <3> HIDE DEF n, i
    <3>4. /\ ovr' \in OvrState /\ ovr'.staovr = ovr.staovr /\ ovr'.leftotm = ovr.leftotm
          /\ ovr'.enable = ovr.enable /\ ovr'.count = n /\ ovr'.int = i
      BY <3>1, <3>2 DEF OvrInv, OvrTypes, OvrState
    <3> QED BY <2>1, <3>3, <3>4 DEF n
  <2>2. CASE ~ (ovr.enable /\ ovr.count > 0)
    BY <2>2 DEF Tick, OvrInv, OvrTypes, OvrState
  <2> QED BY <2>1, <2>2
<1>4. /\ owed' \in [OvrTask -> Nat]
      /\ \A t \in OvrTask : owed'[t] = IF nest = 0 /\ t = runtsk /\ owed[t] > 0
                                       THEN owed[t] - 1 ELSE owed[t]
  BY DEF Tick, OvrInv, OvrTypes
<1>5. OvrTypes'
  BY <1>1, <1>3, <1>4 DEF OvrInv, OvrTypes
<1>6. BudgetKept'
  BY <1>1, <1>3, <1>4 DEF OvrInv, OvrTypes, OvrState, BudgetKept, Watched, ref_ovr
<1>7. OverrunNoticed'
  BY <1>1, <1>3, <1>4 DEF OvrInv, OvrTypes, OvrState, BudgetKept, OverrunNoticed, Watched, ref_ovr
<1> QED BY <1>1, <1>3, <1>5, <1>6, <1>7 DEF OvrInv

(* The invariant of the overrun handler.                                   *)
THEOREM OverrunInvariant == OvrSpec => []OvrInv
<1>1. OvrInit => OvrInv
  <2> SUFFICES ASSUME OvrInit PROVE OvrInv
    OBVIOUS
  <2>1. nest = 1 /\ kerflg = FALSE
    BY DEF OvrInit, Init
  <2>2. OvrTypes /\ ovr.enable = FALSE /\ \A t \in OvrTask : ~ ovr.staovr[t]
    BY <2>1 DEF OvrInit, OvrTypes, OvrState
  <2> QED BY <2>1, <2>2 DEF OvrInv, BudgetKept, OverrunNoticed
<1>2. ASSUME OvrInv, [OvrNext]_ovrVars
      PROVE  OvrInv'
  <2>1. CASE OvrBoot
    <3>1. UNCHANGED <<ovr, owed>> /\ ~ kerflg
      BY <2>1 DEF OvrBoot, Boot, initialize_task, startDispatch
    <3>2. nest' \in Nat /\ kerflg' \in BOOLEAN
      <4>1. CASE initialize_task
        BY <1>2, <4>1 DEF initialize_task, cpuVars, OvrInv, OvrTypes
      <4>2. CASE startDispatch
        BY <4>2 DEF startDispatch
      <4> QED BY <2>1, <4>1, <4>2 DEF OvrBoot, Boot
    <3>3. ovr.enable = FALSE /\ \A t \in OvrTask : ~ ovr.staovr[t]
      BY <1>2, <3>1 DEF OvrInv, OvrTypes, OvrState, BudgetKept
    <3>4. OvrTypes' /\ \A t \in OvrTask : ~ ovr'.staovr[t]
      BY <1>2, <3>1, <3>2, <3>3 DEF OvrInv, OvrTypes
    <3>5. BudgetKept' /\ OverrunNoticed'
      BY <3>1, <3>3 DEF BudgetKept, OverrunNoticed, Watched
    <3> QED BY <3>4, <3>5 DEF OvrInv
  <2>2. CASE OvrInterrupt
    BY <1>2, <2>2, InterruptsKept
  <2>3. CASE OvrKeepingCall
    BY <1>2, <2>3, KeepingHands, DispatchedKept DEF OvrKeepingCall
  <2>4. CASE OvrEndingCall
    BY <1>2, <2>4, EndingHands, DispatchedKept
  <2>5. CASE OvrCall
    BY <1>2, <2>5, OvrCallsKept
  <2>6. CASE Tick
    BY <1>2, <2>6, TickKept
  <2>7. CASE UNCHANGED ovrVars
    BY <1>2, <2>7 DEF ovrVars, vars, cpuVars, bootVars, OvrInv, OvrTypes, BudgetKept,
                      OverrunNoticed, Watched, ref_ovr
  <2> QED BY <1>2, <2>1, <2>2, <2>3, <2>4, <2>5, <2>6, <2>7 DEF OvrNext
<1> QED BY <1>1, <1>2, PTL DEF OvrSpec

(* The overrun timer decides by the time each task has really left.        *)
THEOREM BudgetsKept == OvrSpec => []BudgetKept
<1>1. OvrInv => BudgetKept
  BY DEF OvrInv
<1> QED BY <1>1, OverrunInvariant, PTL
(* A running task that has used up its time finds the interrupt requested. *)
THEOREM OverrunsNoticed == OvrSpec => []OverrunNoticed
<1>1. OvrInv => OverrunNoticed
  BY DEF OvrInv
<1> QED BY <1>1, OverrunInvariant, PTL
=============================================================================

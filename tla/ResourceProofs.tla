--------------------------- MODULE ResourceProofs ----------------------------
(***************************************************************************)
(* Mutexes, semaphores and fixed-size memory pools, for any number of      *)
(* tasks and objects: who owns what, and who waits for it.                 *)
(***************************************************************************)
EXTENDS Mutex, Semaphore, Mempfix, TaskKernelProofs

(***************************************************************************)
(* Mutexes, for any number of tasks, mutexes and ceilings: who owns what,  *)
(* hand-over to the tasks that wait, and the priorities of the ceiling     *)
(* protocol.                                                               *)
(***************************************************************************)

(* What mutexCalcPriority computes, said of the result p: it is the base   *)
(* priority b or a ceiling among ms, and none of these is better.          *)
IsCalcPriority(p, b, ms) ==
  /\ p <= b
  /\ \A m \in CeilMtx : Member(ms, m) => p <= ceilpri[m]
  /\ (p = b) \/ \E m \in CeilMtx : Member(ms, m) /\ p = ceilpri[m]

(* There is one such priority, and mutexCalcPriority finds it.             *)
LEMMA CalcPriority ==
  ASSUME TypeOK, NEW t \in Task, NEW ms
  PROVE  /\ mutexCalcPriority(t, ms) \in TaskPrio
         /\ IsCalcPriority(mutexCalcPriority(t, ms), bprio[t], ms)
         /\ \A p \in TaskPrio :
              IsCalcPriority(p, bprio[t], ms) => p = mutexCalcPriority(t, ms)
<1> DEFINE C == {ceilpri[m] : m \in {c \in CeilMtx : Member(ms, c)}}
           S == C \cup {bprio[t]}
<1>1. /\ bprio[t] \in TaskPrio /\ ceilpri \in [CeilMtx -> TaskPrio]
  BY ConfigAssumption DEF TypeOK
<1>2. S \in SUBSET (0 .. TNUM_TPRI - 1) /\ S # {} /\ TNUM_TPRI \in Nat
  BY <1>1, PrioAssumption DEF TaskPrio
<1>3. mutexCalcPriority(t, ms) = CHOOSE p \in S : \A o \in S : p <= o
  BY DEF mutexCalcPriority
<1> HIDE DEF S
<1>4. \E p \in S : \A o \in S : p <= o
  BY <1>2, LeastElement
<1>5. /\ mutexCalcPriority(t, ms) \in S
      /\ \A o \in S : mutexCalcPriority(t, ms) <= o
  BY <1>3, <1>4
<1>6. mutexCalcPriority(t, ms) \in TaskPrio
  BY <1>2, <1>5 DEF TaskPrio
<1>7. IsCalcPriority(mutexCalcPriority(t, ms), bprio[t], ms)
  BY <1>5 DEF IsCalcPriority, S
<1>8. ASSUME NEW p \in TaskPrio, IsCalcPriority(p, bprio[t], ms)
      PROVE  p = mutexCalcPriority(t, ms)
  <2>1. p \in S /\ \A o \in S : p <= o
    BY <1>8 DEF IsCalcPriority, S
  <2>2. p \in Int /\ mutexCalcPriority(t, ms) \in Int
    BY <1>6 DEF TaskPrio
  <2>3. p <= mutexCalcPriority(t, ms) /\ mutexCalcPriority(t, ms) <= p
    BY <1>5, <2>1
  <2> QED BY <2>2, <2>3
<1> QED BY <1>6, <1>7, <1>8

(* Locking one more mutex raises the priority to its ceiling, at most.     *)
LEMMA RaisedPriority ==
  ASSUME NEW p \in TaskPrio, NEW b \in TaskPrio, NEW m \in Mutex, NEW ms, NEW more,
         IsCalcPriority(p, b, ms), m \in CeilMtx => ceilpri[m] <= b,
         \A n \in Mutex : Member(more, n) <=> Member(ms, n) \/ n = m
  PROVE  Raised(p, m) \in TaskPrio /\ IsCalcPriority(Raised(p, m), b, more)
<1>1. ceilpri \in [CeilMtx -> TaskPrio] /\ CeilMtx \subseteq Mutex
  BY ConfigAssumption
<1>2. p \in Int /\ b \in Int /\ \A n \in CeilMtx : ceilpri[n] \in Int
  BY <1>1 DEF TaskPrio
<1>3. CASE m \in CeilMtx /\ ceilpri[m] < p
  <2>1. Raised(p, m) = ceilpri[m]
    BY <1>3 DEF Raised, Lower
  <2> QED BY <1>1, <1>2, <1>3, <2>1 DEF IsCalcPriority
<1>4. CASE ~ (m \in CeilMtx /\ ceilpri[m] < p)
  <2>1. Raised(p, m) = p
    BY <1>4 DEF Raised, Lower
  <2> QED BY <1>1, <1>2, <1>4, <2>1 DEF IsCalcPriority
<1> QED BY <1>3, <1>4

(* mutexDropPriority recalculates only when the mutex may have mattered,   *)
(* and that is enough.                                                     *)
LEMMA DroppedPriority ==
  ASSUME TypeOK, NEW t \in Task, NEW m, NEW ms, NEW rest,
         IsCalcPriority(prio[t], bprio[t], ms),
         \A n \in Mutex : Member(rest, n) <=> Member(ms, n) /\ n # m
  PROVE  /\ DroppedPrio(t, m, rest) \in TaskPrio
         /\ IsCalcPriority(DroppedPrio(t, m, rest), bprio[t], rest)
<1>1. /\ mutexCalcPriority(t, rest) \in TaskPrio
      /\ IsCalcPriority(mutexCalcPriority(t, rest), bprio[t], rest)
      /\ prio[t] \in TaskPrio
  BY CalcPriority DEF TypeOK
<1>2. CASE m \in CeilMtx /\ ceilpri[m] = prio[t]
  BY <1>1, <1>2 DEF DroppedPrio, Drops
<1>3. CASE ~ (m \in CeilMtx /\ ceilpri[m] = prio[t])
  <2>1. DroppedPrio(t, m, rest) = prio[t]
    BY <1>3 DEF DroppedPrio, Drops
  <2>2. CeilMtx \subseteq Mutex
    BY ConfigAssumption
  <2> QED BY <1>1, <1>3, <2>1, <2>2 DEF IsCalcPriority
<1> QED BY <1>2, <1>3

(* The new priority is one, whatever the task holds.                       *)
LEMMA DroppedType ==
  ASSUME TypeOK, NEW t \in Task, NEW m, NEW rest
  PROVE  DroppedPrio(t, m, rest) \in TaskPrio
BY CalcPriority DEF DroppedPrio, TypeOK

(* Its place in the ready queue, when it has one, changes with it.         *)
LEMMA DroppedInQueue ==
  ASSUME TypeOK, NEW t \in Task, NEW m, NEW rest, NEW r, NEW R \in SUBSET Task,
         Consistent(r, R, prio), t \in R <=> tstat[t] = "RUNNABLE"
  PROVE  /\ [prio EXCEPT ![t] = DroppedPrio(t, m, rest)] \in [Task -> TaskPrio]
         /\ Consistent(DroppedReady(r, t, m, rest), R,
                       [prio EXCEPT ![t] = DroppedPrio(t, m, rest)])
         /\ DroppedReady(r, t, m, rest).dspflg = r.dspflg
         /\ ~ r.dspflg => DroppedReady(r, t, m, rest).p_schedtsk = r.p_schedtsk
<1> DEFINE np == DroppedPrio(t, m, rest)
           after == [prio EXCEPT ![t] = np]
<1>1. prio \in [Task -> TaskPrio] /\ np \in TaskPrio
  BY DroppedType DEF TypeOK
<1>2. CASE Drops(t, m, rest) /\ tstat[t] = "RUNNABLE"
  <2>1. DroppedReady(r, t, m, rest) = change_ready_priority(r, prio, t, np, TRUE)
    BY <1>2 DEF DroppedReady
  <2>2. t \in R
    BY <1>2
  <2> HIDE DEF np
  <2>3. /\ Consistent(change_ready_priority(r, prio, t, np, TRUE), R, [prio EXCEPT ![t] = np])
        /\ change_ready_priority(r, prio, t, np, TRUE).dspflg = r.dspflg
        /\ ~ r.dspflg => change_ready_priority(r, prio, t, np, TRUE).p_schedtsk
                         = r.p_schedtsk
    <3>1. /\ Consistent(r, R, prio) /\ R \in SUBSET Task /\ prio \in [Task -> TaskPrio]
          /\ t \in Task /\ t \in R /\ np \in TaskPrio /\ TRUE \in BOOLEAN
      BY <1>1, <2>2
    <3>2. Consistent(change_ready_priority(r, prio, t, np, TRUE), R, [prio EXCEPT ![t] = np])
      BY ONLY <3>1, ChangeReadyPriority, Zenon
    <3>3. Holds(r, change_ready_priority(r, prio, t, np, TRUE))
      BY ONLY <3>1, ChangeReadyPriority, Zenon
    <3> QED BY ONLY <3>2, <3>3, Zenon DEF Holds
  <2> QED BY <1>1, <2>1, <2>3 DEF np
<1>3. CASE ~ (Drops(t, m, rest) /\ tstat[t] = "RUNNABLE")
  <2>1. DroppedReady(r, t, m, rest) = r
    BY <1>3 DEF DroppedReady
  <2>2. after \in [Task -> TaskPrio] /\ \A u \in R : after[u] = prio[u]
    BY <1>1, <1>3 DEF DroppedPrio
  <2> QED BY <2>1, <2>2, OtherPriorities
<1> QED BY <1>2, <1>3
-----------------------------------------------------------------------------
(* mutexAcquire: the caller, which is running, gets the mutex, and stays   *)
(* the task to run whether or not its priority is raised.                  *)
LEMMA AcquireFields ==
  ASSUME IInv, NEW m \in Mutex, checkContextTaskUnlock, mutexAcquire(m)
  PROVE  /\ runtsk \in Task /\ tstat[runtsk] = "RUNNABLE" /\ loctsk[m] = NoTask
         /\ Raised(prio[runtsk], m) \in TaskPrio
         /\ prio' = [prio EXCEPT ![runtsk] = Raised(prio[runtsk], m)]
         /\ loctsk' = [loctsk EXCEPT ![m] = runtsk]
         /\ lastmtx' = [lastmtx EXCEPT ![runtsk] = <<m>> \o lastmtx[runtsk]]
         /\ (lastmtx \in [Task -> Seq(Mutex)])'
         /\ NoDuplicate(lastmtx'[runtsk])
         /\ \A n \in Mutex : Member(lastmtx'[runtsk], n)
                             <=> Member(lastmtx[runtsk], n) \/ n = m
         /\ UNCHANGED <<runtsk, stateVars, bprio, queVars, terVars, winfo, tmevt, dspVars,
                        cpuVars, bootVars>>
<1>1. /\ runtsk \in Task /\ tstat[runtsk] = "RUNNABLE" /\ loctsk[m] = NoTask
      /\ loctsk' = [loctsk EXCEPT ![m] = runtsk]
      /\ lastmtx' = [lastmtx EXCEPT ![runtsk] = <<m>> \o lastmtx[runtsk]]
      /\ UNCHANGED <<runtsk, stateVars, bprio, queVars, terVars, winfo, tmevt, dspVars,
                     cpuVars, bootVars>>
  BY DEF IInv, TypeOK, DispatchDone, checkContextTaskUnlock, TaskContext, mutexAcquire, Self
<1>2. /\ prio \in [Task -> TaskPrio] /\ ceilpri \in [CeilMtx -> TaskPrio]
      /\ lastmtx \in [Task -> Seq(Mutex)]
  BY ConfigAssumption DEF IInv, TypeOK
<1>3. Raised(prio[runtsk], m) \in TaskPrio
  BY <1>1, <1>2 DEF Raised, Lower
<1>4. prio' = [prio EXCEPT ![runtsk] = Raised(prio[runtsk], m)]
  BY <1>1, <1>2 DEF mutexAcquire, change_priority, Self
<1> DEFINE q == lastmtx[runtsk]
<1>5. q \in Seq(Mutex) /\ NoDuplicate(q) /\ ~ Member(q, m)
  BY <1>1, <1>2, TaskAssumption DEF IInv, MutexOwned
<1>6. lastmtx'[runtsk] = <<m>> \o q
  BY <1>1, <1>2
<1> HIDE DEF q
<1>7. /\ <<m>> \o q \in Seq(Mutex) /\ NoDuplicate(<<m>> \o q)
      /\ \A n : Member(<<m>> \o q, n) <=> Member(q, n) \/ n = m
  BY <1>5, PushProperties
<1>8. (lastmtx \in [Task -> Seq(Mutex)])'
  BY <1>1, <1>2, <1>7 DEF q
<1>9. /\ NoDuplicate(lastmtx'[runtsk])
      /\ \A n \in Mutex : Member(lastmtx'[runtsk], n) <=> Member(lastmtx[runtsk], n) \/ n = m
  BY <1>6, <1>7 DEF q
<1> QED BY <1>1, <1>3, <1>4, <1>8, <1>9

(* The assertion of mutexAcquire: p_runtsk is p_schedtsk also afterwards.  *)
LEMMA AcquireReady ==
  ASSUME IInv, NEW m \in Mutex, checkContextTaskUnlock, mutexAcquire(m)
  PROVE  /\ Consistent(rdy', Runnable', prio') /\ (prio \in [Task -> TaskPrio])'
         /\ (rdy.dspflg)' = rdy.dspflg
         /\ (rdy.p_schedtsk)' = rdy.p_schedtsk
         /\ (wait_queue \in [Wobj -> Seq(Task)])'
         /\ \A w \in Wobj : NoDuplicate(wait_queue'[w])
         /\ \A w \in Wobj, u \in Task : Member(wait_queue'[w], u) <=> Member(wait_queue[w], u)
<1>1. /\ runtsk \in Task /\ tstat[runtsk] = "RUNNABLE" /\ tstat' = tstat
      /\ Raised(prio[runtsk], m) \in TaskPrio
  BY AcquireFields DEF stateVars
<1>2. Runnable' = Runnable
  BY <1>1 DEF Runnable
<1>3. CASE Raised(prio[runtsk], m) # prio[runtsk]
  <2> DEFINE np == Raised(prio[runtsk], m)
  <2>1. change_priority(runtsk, np, TRUE)
    BY <1>3 DEF mutexAcquire, Self
  <2>2. np < prio[runtsk] /\ np \in TaskPrio
    <3>1. prio \in [Task -> TaskPrio] /\ ceilpri \in [CeilMtx -> TaskPrio]
      BY ConfigAssumption DEF IInv, TypeOK
    <3> QED BY <1>1, <1>3, <3>1 DEF Raised, Lower, TaskPrio
  <2> HIDE DEF np
  <2>3. /\ Consistent(rdy', Runnable', prio') /\ (prio \in [Task -> TaskPrio])'
        /\ (rdy.dspflg)' = rdy.dspflg
        /\ ~ rdy.dspflg => (rdy.p_schedtsk)' = rdy.p_schedtsk
        /\ (wait_queue \in [Wobj -> Seq(Task)])'
        /\ \A w \in Wobj : NoDuplicate(wait_queue'[w])
        /\ \A w \in Wobj, u \in Task :
              Member(wait_queue'[w], u) <=> Member(wait_queue[w], u)
    BY <1>1, <1>2, <2>1, <2>2, ChangesPriority
  <2>4. rdy.p_schedtsk = runtsk /\ rdy \in ReadyState
    BY DEF IInv, TypeOK, DispatchDone, checkContextTaskUnlock, TaskContext
  <2>5. (rdy.p_schedtsk)' = runtsk
    <3>1. rdy' = change_ready_priority(rdy, prio, runtsk, np, TRUE)
      BY <1>1, <2>1 DEF change_priority
    <3>2. ~ (np >= prio[runtsk])
      BY <1>1, <2>2 DEF IInv, TypeOK, TaskPrio
    <3> QED BY <2>4, <3>1, <3>2 DEF change_ready_priority, ReadyState
  <2> QED BY <2>3, <2>4, <2>5
<1>4. CASE Raised(prio[runtsk], m) = prio[runtsk]
  <2>1. UNCHANGED <<prio, rdy, wait_queue>>
    BY <1>4 DEF mutexAcquire, Self
  <2>2. /\ Consistent(rdy, Runnable, prio) /\ prio \in [Task -> TaskPrio]
        /\ wait_queue \in [Wobj -> Seq(Task)]
        /\ \A w \in Wobj : NoDuplicate(wait_queue[w])
    BY ReadyConsistent DEF IInv, TypeOK, WaitsOwned
  <2> QED BY <1>2, <2>1, <2>2
<1> QED BY <1>3, <1>4

(* loc_mtx, tloc_mtx and ploc_mtx of a mutex that is free.                 *)
LEMMA Acquires ==
  ASSUME IInv, NEW m \in Mutex, checkContextTaskUnlock, mutexAcquire(m)
  PROVE  IInv'
<1> USE DEF stateVars, prioVars, queVars, terVars, waitVars, mtxVars, dspVars, cpuVars,
            bootVars
<1>1. /\ runtsk \in Task /\ tstat[runtsk] = "RUNNABLE" /\ loctsk[m] = NoTask
      /\ loctsk' = [loctsk EXCEPT ![m] = runtsk]
      /\ lastmtx' = [lastmtx EXCEPT ![runtsk] = <<m>> \o lastmtx[runtsk]]
      /\ (lastmtx \in [Task -> Seq(Mutex)])'
      /\ NoDuplicate(lastmtx'[runtsk])
      /\ \A n \in Mutex : Member(lastmtx'[runtsk], n) <=> Member(lastmtx[runtsk], n) \/ n = m
      /\ UNCHANGED <<runtsk, stateVars, bprio, queVars, terVars, winfo, tmevt, dspVars,
                     cpuVars, bootVars>>
  BY AcquireFields
<1>2. /\ Consistent(rdy', Runnable', prio') /\ (prio \in [Task -> TaskPrio])'
      /\ (rdy.dspflg)' = rdy.dspflg
      /\ (rdy.p_schedtsk)' = rdy.p_schedtsk
      /\ (wait_queue \in [Wobj -> Seq(Task)])'
      /\ \A w \in Wobj : NoDuplicate(wait_queue'[w])
      /\ \A w \in Wobj, u \in Task : Member(wait_queue'[w], u) <=> Member(wait_queue[w], u)
  BY AcquireReady
<1>3. /\ kerflg /\ nest = 0 /\ rdy.p_schedtsk = runtsk /\ (tstat')[runtsk] = "RUNNABLE"
  BY <1>1 DEF checkContextTaskUnlock, TaskContext, IInv, DispatchDone
<1>4. /\ (rdy \in ReadyState)' /\ (runtsk \in Task \cup {NoTask})'
      /\ ReadyQueueConsistent' /\ DispatchDone' /\ DspflgCoherent'
  BY <1>1, <1>2, <1>3, CallDispatches
<1>5. TypeOK'
  <2>1. loctsk' \in [Mutex -> Task \cup {NoTask}]
    BY <1>1 DEF IInv, TypeOK
  <2> QED BY <1>1, <1>2, <1>4, <2>1 DEF IInv, TypeOK
<1>6. WaitsOwned'
  BY <1>1, <1>2 DEF IInv, WaitsOwned, TimeEventsOwned, isWaiting
<1>7. MutexOwned'
  <2>1. /\ loctsk \in [Mutex -> Task \cup {NoTask}] /\ lastmtx \in [Task -> Seq(Mutex)]
        /\ \A u \in Task : NoDuplicate(lastmtx[u])
        /\ \A u \in Task, n \in Mutex : Member(lastmtx[u], n) <=> loctsk[n] = u
        /\ \A u \in Task, n \in Mutex : waiton[u] = n => loctsk[n] \notin {NoTask, u}
    BY DEF IInv, TypeOK, MutexOwned
  <2>2. \A u \in Task : NoDuplicate(lastmtx'[u])
    BY <1>1, <2>1
  <2>3. \A u \in Task, n \in Mutex : Member(lastmtx'[u], n) <=> loctsk'[n] = u
    BY <1>1, <2>1, TaskAssumption
  <2>4. \A u \in Task, n \in Mutex : waiton'[u] = n => loctsk'[n] \notin {NoTask, u}
    BY <1>1, <2>1
  <2> QED BY <2>2, <2>3, <2>4 DEF MutexOwned
<1>8. Booting'
  BY <1>1, <1>3 DEF Booting
<1> QED BY <1>4, <1>5, <1>6, <1>7, <1>8 DEF IInv
-----------------------------------------------------------------------------
(* The mutex that unl_mtx releases, and its heir if it has one.            *)
LEMMA UnlockHeir ==
  ASSUME IInv, NEW m \in Mutex, unl_mtx(m)
  PROVE  /\ kerflg /\ nest = 0 /\ runtsk \in Task /\ tstat[runtsk] = "RUNNABLE"
         /\ loctsk[m] = runtsk
         /\ <<m>> \in Seq(Mutex) /\ NoDuplicate(<<m>>)
         /\ \A n \in Mutex : Member(<<m>>, n) <=> n = m
         /\ \A n \in Mutex : Member(<<m>>, n) => loctsk[n] = runtsk
         /\ Contended(<<m>>) = IF wait_queue[m] = <<>> THEN {} ELSE {m}
         /\ Heirs(<<m>>) = IF wait_queue[m] = <<>> THEN {} ELSE {wait_queue[m][1]}
         /\ Heirs(<<m>>) \in SUBSET Task /\ runtsk \notin Heirs(<<m>>)
         /\ \A u \in Heirs(<<m>>) : isWaiting(u) /\ waiton[u] = m
         /\ Tail(lastmtx[runtsk]) \in Seq(Mutex) /\ NoDuplicate(Tail(lastmtx[runtsk]))
         /\ \A n \in Mutex : Member(Tail(lastmtx[runtsk]), n)
                             <=> Member(lastmtx[runtsk], n) /\ n # m
<1>1. /\ kerflg /\ nest = 0 /\ runtsk \in Task /\ tstat[runtsk] = "RUNNABLE"
      /\ lastmtx \in [Task -> Seq(Mutex)]
      /\ lastmtx[runtsk] # <<>> /\ m = Head(lastmtx[runtsk])
  BY DEF IInv, TypeOK, DispatchDone, checkContextTaskUnlock, TaskContext, unl_mtx, Self
<1> DEFINE q == lastmtx[runtsk]
<1>2. q \in Seq(Mutex) /\ q # <<>> /\ NoDuplicate(q) /\ m = q[1]
  BY <1>1 DEF IInv, MutexOwned
<1>3. Member(q, m) => loctsk[m] = runtsk
  BY <1>1 DEF IInv, MutexOwned
<1> HIDE DEF q
<1>4. /\ Member(q, q[1]) /\ Tail(q) \in Seq(Mutex) /\ NoDuplicate(Tail(q))
      /\ \A n : Member(Tail(q), n) <=> Member(q, n) /\ n # q[1]
  BY <1>2, TailQueue
<1>5. loctsk[m] = runtsk
  BY <1>2, <1>3, <1>4
<1>6. /\ <<m>> \in Seq(Mutex) /\ NoDuplicate(<<m>>)
      /\ \A n \in Mutex : Member(<<m>>, n) <=> n = m
  BY DEF Member, NoDuplicate
<1>7. \A n \in Mutex : Member(<<m>>, n) => loctsk[n] = runtsk
  BY <1>5, <1>6
<1>8. Contended(<<m>>) = IF wait_queue[m] = <<>> THEN {} ELSE {m}
  BY <1>6 DEF Contended
<1>9. Heirs(<<m>>) = IF wait_queue[m] = <<>> THEN {} ELSE {wait_queue[m][1]}
  BY <1>8 DEF Heirs
<1>10. /\ Heirs(<<m>>) \in SUBSET Task /\ runtsk \notin Heirs(<<m>>)
       /\ \A u \in Heirs(<<m>>) : isWaiting(u) /\ waiton[u] \in Contended(<<m>>)
  BY <1>1, <1>6, <1>7, HeirsOwned
<1>11. \A u \in Heirs(<<m>>) : isWaiting(u) /\ waiton[u] = m
  BY <1>8, <1>10
<1>12. /\ Tail(lastmtx[runtsk]) \in Seq(Mutex) /\ NoDuplicate(Tail(lastmtx[runtsk]))
       /\ \A n \in Mutex : Member(Tail(lastmtx[runtsk]), n)
                           <=> Member(lastmtx[runtsk], n) /\ n # m
  BY <1>2, <1>4 DEF q
<1> QED BY <1>1, <1>5, <1>6, <1>7, <1>8, <1>9, <1>10, <1>11, <1>12

(* unl_mtx, field by field.                                                *)
LEMMA UnlockFields ==
  ASSUME IInv, NEW m \in Mutex, unl_mtx(m)
  PROVE  /\ wait_queue' = [w \in Wobj |-> IF w \in Contended(<<m>>) THEN Tail(wait_queue[w])
                                                                  ELSE wait_queue[w]]
         /\ tmevt' = tmevt \ Heirs(<<m>>)
         /\ winfo' = [u \in Task |-> IF u \in Heirs(<<m>>) THEN "ok" ELSE winfo[u]]
         /\ waiton' = [u \in Task |-> IF u \in Heirs(<<m>>) THEN "NONE" ELSE waiton[u]]
         /\ tstat' = [u \in Task |-> IF u \in Heirs(<<m>>) THEN WaitOver(u) ELSE tstat[u]]
         /\ loctsk' = [n \in Mutex |-> IF n \in Contended(<<m>>) THEN wait_queue[n][1]
                                       ELSE IF n = m THEN NoTask ELSE loctsk[n]]
         /\ lastmtx' = [u \in Task |-> IF u = runtsk THEN Tail(lastmtx[runtsk])
                                       ELSE IF u \in Heirs(<<m>>) THEN <<m>> \o lastmtx[u]
                                       ELSE lastmtx[u]]
         /\ prio' = [u \in Task |->
                       IF u \in Heirs(<<m>>) THEN Raised(prio[u], m)
                       ELSE IF u = runtsk THEN DroppedPrio(runtsk, m, Tail(lastmtx[runtsk]))
                       ELSE prio[u]]
         /\ rdy' = WakeAll(DroppedReady(rdy, runtsk, m, Tail(lastmtx[runtsk])), prio',
                           HeirQueue(<<m>>), WaitingOnly)
         /\ runtsk' = (rdy.p_schedtsk)'
         /\ UNCHANGED <<bprio, queVars, terVars, dspVars, cpuVars, bootVars>>
<1>1. /\ runtsk \in Task /\ runtsk \notin Heirs(<<m>>)
      /\ \A n \in Mutex : Member(<<m>>, n) <=> n = m
      /\ Heirs(<<m>>) \in SUBSET Task
      /\ \A u \in Heirs(<<m>>) : waiton[u] = m
  BY UnlockHeir
<1>2. /\ mutexRelease(runtsk, <<m>>, Tail(lastmtx[runtsk]), wait_queue, tmevt)
      /\ prio' = InheritedPrio(<<m>>, [prio EXCEPT ![runtsk] =
                                         DroppedPrio(runtsk, m, Tail(lastmtx[runtsk]))])
      /\ tstat' = AfterRelease(<<m>>, tstat)
      /\ waiton' = [u \in Task |-> IF u \in Heirs(<<m>>) THEN "NONE" ELSE waiton[u]]
      /\ rdy' = WakeAll(DroppedReady(rdy, runtsk, m, Tail(lastmtx[runtsk])), prio',
                        HeirQueue(<<m>>), WaitingOnly)
      /\ runtsk' = (rdy.p_schedtsk)'
      /\ UNCHANGED <<bprio, queVars, terVars, dspVars, cpuVars, bootVars>>
  BY DEF unl_mtx, Self, taskDispatch
<1>3. tmevt' = tmevt \ Heirs(<<m>>)
  <2>1. \A u \in tmevt : u \in Task /\ winfo[u] = "tmevtb"
    BY DEF IInv, TypeOK, WaitsOwned, TimeEventsOwned
  <2>2. tmevt' = {u \in tmevt : u \in Heirs(<<m>>) => winfo[u] # "tmevtb"}
    BY <1>2 DEF mutexRelease
  <2> QED BY <2>1, <2>2
<1>4. loctsk' = [n \in Mutex |-> IF n \in Contended(<<m>>) THEN wait_queue[n][1]
                                 ELSE IF n = m THEN NoTask ELSE loctsk[n]]
  BY <1>1, <1>2 DEF mutexRelease
<1>5. lastmtx' = [u \in Task |-> IF u = runtsk THEN Tail(lastmtx[runtsk])
                                 ELSE IF u \in Heirs(<<m>>) THEN <<m>> \o lastmtx[u]
                                 ELSE lastmtx[u]]
  BY <1>1, <1>2 DEF mutexRelease
<1>6. prio' = [u \in Task |->
                 IF u \in Heirs(<<m>>) THEN Raised(prio[u], m)
                 ELSE IF u = runtsk THEN DroppedPrio(runtsk, m, Tail(lastmtx[runtsk]))
                 ELSE prio[u]]
  <2> DEFINE np == DroppedPrio(runtsk, m, Tail(lastmtx[runtsk]))
  <2>1. prio \in [Task -> TaskPrio]
    BY DEF IInv, TypeOK
  <2>2. prio' = [u \in Task |-> IF u \in Heirs(<<m>>)
                                THEN Raised([prio EXCEPT ![runtsk] = np][u], waiton[u])
                                ELSE [prio EXCEPT ![runtsk] = np][u]]
    BY <1>2 DEF InheritedPrio
  <2> HIDE DEF np
  <2>3. \A u \in Task : [prio EXCEPT ![runtsk] = np][u] = IF u = runtsk THEN np ELSE prio[u]
    BY <2>1
  <2>4. \A u \in Heirs(<<m>>) : u # runtsk /\ waiton[u] = m
    BY <1>1
  <2>5. \A u \in Task : prio'[u] = IF u \in Heirs(<<m>>) THEN Raised(prio[u], m)
                                   ELSE IF u = runtsk THEN np ELSE prio[u]
    BY <2>2, <2>3, <2>4
  <2> QED BY <2>2, <2>5 DEF np
<1> QED BY <1>2, <1>3, <1>4, <1>5, <1>6 DEF mutexRelease, AfterRelease
-----------------------------------------------------------------------------
(* The ready queue after unl_mtx: the caller may have dropped, the heir    *)
(* may have come in.                                                       *)
LEMMA UnlockReady ==
  ASSUME IInv, NEW m \in Mutex, unl_mtx(m)
  PROVE  /\ Consistent(rdy', Runnable', prio') /\ (prio \in [Task -> TaskPrio])'
         /\ (rdy.dspflg)' = rdy.dspflg
         /\ ~ rdy.dspflg => (rdy.p_schedtsk)' = rdy.p_schedtsk
<1> DEFINE t    == runtsk
           rest == Tail(lastmtx[runtsk])
           ms   == <<m>>
           q    == HeirQueue(ms)
           T    == WaitingOnly
           H    == Heirs(ms)
           W    == H \cap T
           drop == [prio EXCEPT ![t] = DroppedPrio(t, m, rest)]
           low  == DroppedReady(rdy, t, m, rest)
<1>1. /\ t \in Task /\ tstat[t] = "RUNNABLE" /\ ms \in Seq(Mutex) /\ NoDuplicate(ms)
      /\ \A n \in Mutex : Member(ms, n) => loctsk[n] = t
      /\ H \in SUBSET Task /\ t \notin H /\ \A u \in H : isWaiting(u)
  BY UnlockHeir
<1>2. /\ prio' = [u \in Task |-> IF u \in H THEN Raised(prio[u], m)
                                 ELSE IF u = t THEN DroppedPrio(t, m, rest) ELSE prio[u]]
      /\ rdy' = WakeAll(low, prio', q, T)
      /\ tstat' = [u \in Task |-> IF u \in H THEN WaitOver(u) ELSE tstat[u]]
  BY UnlockFields
<1>3. /\ Consistent(rdy, Runnable, prio) /\ Runnable \in SUBSET Task /\ TypeOK
      /\ prio \in [Task -> TaskPrio] /\ ceilpri \in [CeilMtx -> TaskPrio]
      /\ t \in Runnable
  BY <1>1, ReadyConsistent, ConfigAssumption DEF IInv, TypeOK, Runnable
<1>4. /\ drop \in [Task -> TaskPrio] /\ Consistent(low, Runnable, drop)
      /\ low.dspflg = rdy.dspflg /\ (~ rdy.dspflg => low.p_schedtsk = rdy.p_schedtsk)
  <2>1. t \in Runnable <=> tstat[t] = "RUNNABLE"
    BY <1>1, <1>3
  <2>4. /\ t \in Task /\ Runnable \in SUBSET Task /\ TypeOK
        /\ Consistent(rdy, Runnable, prio)
    BY <1>1, <1>3
  <2> HIDE DEF rest, t
  <2>3. /\ [prio EXCEPT ![t] = DroppedPrio(t, m, rest)] \in [Task -> TaskPrio]
        /\ Consistent(DroppedReady(rdy, t, m, rest), Runnable,
                      [prio EXCEPT ![t] = DroppedPrio(t, m, rest)])
        /\ DroppedReady(rdy, t, m, rest).dspflg = rdy.dspflg
        /\ ~ rdy.dspflg => DroppedReady(rdy, t, m, rest).p_schedtsk = rdy.p_schedtsk
    BY <2>1, <2>4, DroppedInQueue
  <2> QED BY <2>3 DEF t
<1>5. prio' \in [Task -> TaskPrio]
  <2>1. \A u \in Task : Raised(prio[u], m) \in TaskPrio
    BY <1>3 DEF Raised, Lower
  <2>2. DroppedPrio(t, m, rest) \in TaskPrio
    BY <1>1, <1>3, DroppedType
  <2> QED BY <1>2, <1>3, <2>1, <2>2
<1>6. \A u \in Runnable : prio'[u] = drop[u]
  <2>1. \A u \in Runnable : u \notin H
    BY <1>1 DEF Runnable, isWaiting
  <2> QED BY <1>2, <1>3, <2>1
<1>7. Consistent(low, Runnable, prio')
  <2> HIDE DEF low, drop
  <2> QED BY <1>3, <1>4, <1>6, OtherPriorities
<1>8. q \in Seq(Task \cup {NoTask}) /\ WakesEach(q, T, Runnable, W)
  <2>1. Runnable \in SUBSET Runnable
    OBVIOUS
  <2> HIDE DEF ms
  <2> QED BY <1>1, <2>1, HeirsWoken DEF ms
<1>9. T \in SUBSET Task /\ W \in SUBSET T
  BY DEF WaitingOnly
<1>10. Runnable' = Runnable \cup W
  BY <1>1, <1>2 DEF Runnable, WaitOver, WaitingOnly, isWaiting
<1> DEFINE p == prio'
<1>11. p \in [Task -> TaskPrio] /\ Consistent(low, Runnable, p)
  BY <1>5, <1>7
<1> HIDE DEF q, T, W, low, p
<1>12. /\ Consistent(WakeAll(low, p, q, T), Runnable \cup W, p)
       /\ WakeAll(low, p, q, T).dspflg = low.dspflg
       /\ ~ low.dspflg => WakeAll(low, p, q, T).p_schedtsk = low.p_schedtsk
  <2>1. /\ Runnable \in SUBSET Task /\ p \in [Task -> TaskPrio] /\ Consistent(low, Runnable, p)
        /\ q \in Seq(Task \cup {NoTask}) /\ T \in SUBSET Task /\ W \in SUBSET T
        /\ WakesEach(q, T, Runnable, W)
    BY ONLY <1>3, <1>8, <1>9, <1>11, Zenon
  <2> QED BY ONLY <2>1, WakeAllTasks, ZenonT(60)
<1> QED BY <1>2, <1>4, <1>10, <1>11, <1>12 DEF p

(* The heir has left its queue, and no other queue has changed.            *)
LEMMA UnlockQueues ==
  ASSUME IInv, NEW m \in Mutex, unl_mtx(m)
  PROVE  /\ (wait_queue \in [Wobj -> Seq(Task)])'
         /\ \A w \in Wobj : NoDuplicate(wait_queue'[w])
         /\ \A w \in Wobj, u \in Task : Member(wait_queue'[w], u)
               <=> Member(wait_queue[w], u) /\ u \notin Heirs(<<m>>)
         /\ WaitsOwned'
<1> DEFINE H == Heirs(<<m>>)
           C == Contended(<<m>>)
<1>1. /\ m \in Wobj /\ wait_queue \in [Wobj -> Seq(Task)]
      /\ \A w \in Wobj : NoDuplicate(wait_queue[w])
      /\ \A w \in Wobj, u \in Task : Member(wait_queue[w], u) <=> waiton[u] = w
  BY ConfigAssumption DEF IInv, TypeOK, WaitsOwned
<1>2. /\ C = IF wait_queue[m] = <<>> THEN {} ELSE {m}
      /\ H = IF wait_queue[m] = <<>> THEN {} ELSE {wait_queue[m][1]}
      /\ H \in SUBSET Task /\ \A u \in H : waiton[u] = m
  BY UnlockHeir
<1>3. /\ wait_queue' = [w \in Wobj |-> IF w \in C THEN Tail(wait_queue[w]) ELSE wait_queue[w]]
      /\ tmevt' = tmevt \ H
      /\ winfo' = [u \in Task |-> IF u \in H THEN "ok" ELSE winfo[u]]
      /\ waiton' = [u \in Task |-> IF u \in H THEN "NONE" ELSE waiton[u]]
      /\ tstat' = [u \in Task |-> IF u \in H THEN WaitOver(u) ELSE tstat[u]]
  BY UnlockFields
<1> HIDE DEF H, C
<1>4. ASSUME NEW w \in Wobj
      PROVE  /\ wait_queue'[w] \in Seq(Task) /\ NoDuplicate(wait_queue'[w])
             /\ \A u \in Task : Member(wait_queue'[w], u)
                                <=> Member(wait_queue[w], u) /\ u \notin H
  <2>1. CASE w \in C
    <3> DEFINE q == wait_queue[w]
    <3>1. /\ wait_queue'[w] = Tail(q) /\ q \in Seq(Task) /\ q # <<>> /\ NoDuplicate(q)
          /\ H = {q[1]}
      BY <1>1, <1>2, <1>3, <2>1
    <3> HIDE DEF q
    <3>2. /\ Tail(q) \in Seq(Task) /\ NoDuplicate(Tail(q))
          /\ \A u : Member(Tail(q), u) <=> Member(q, u) /\ u # q[1]
      BY <3>1, TailQueue
    <3> QED BY <3>1, <3>2 DEF q
  <2>2. CASE w \notin C
    <3>1. wait_queue'[w] = wait_queue[w]
      BY <1>3, <2>2
    <3>2. \A u \in Task : Member(wait_queue[w], u) => u \notin H
      BY <1>1, <1>2, <2>2
    <3> QED BY <1>1, <3>1, <3>2
  <2> QED BY <2>1, <2>2
<1>5. (wait_queue \in [Wobj -> Seq(Task)])'
  <2>1. wait_queue' = [w \in Wobj |-> wait_queue'[w]]
    BY <1>3
  <2> QED BY <1>4, <2>1
<1>6. WaitsOwned'
  <2>1. \A u \in H : /\ (tstat')[u] \notin {"WAITING", "WAITING-SUSPENDED"}
                     /\ (waiton')[u] = "NONE"
    BY <1>2, <1>3 DEF WaitOver
  <2>2. \A u \in Task \ H :
            /\ (tstat')[u] \in {"WAITING", "WAITING-SUSPENDED"} <=> isWaiting(u)
            /\ (waiton')[u] = waiton[u] /\ (winfo')[u] = winfo[u]
    BY <1>3 DEF isWaiting
  <2> QED BY <1>2, <1>3, <1>4, <2>1, <2>2, WaitsEnded
<1> QED BY <1>4, <1>5, <1>6 DEF H

(* The mutex has gone to the heir, or to nobody.                           *)
LEMMA UnlockMutexes ==
  ASSUME IInv, NEW m \in Mutex, unl_mtx(m)
  PROVE  /\ MutexOwned'
         /\ (loctsk \in [Mutex -> Task \cup {NoTask}])' /\ (lastmtx \in [Task -> Seq(Mutex)])'
         /\ \A n \in Mutex : Member(lastmtx'[runtsk], n) <=> Member(lastmtx[runtsk], n) /\ n # m
         /\ \A u \in Heirs(<<m>>), n \in Mutex :
               Member(lastmtx'[u], n) <=> Member(lastmtx[u], n) \/ n = m
         /\ \A u \in Task : u # runtsk /\ u \notin Heirs(<<m>>) => lastmtx'[u] = lastmtx[u]
<1> DEFINE H == Heirs(<<m>>)
           C == Contended(<<m>>)
<1>1. /\ m \in Wobj /\ wait_queue \in [Wobj -> Seq(Task)]
      /\ loctsk \in [Mutex -> Task \cup {NoTask}] /\ lastmtx \in [Task -> Seq(Mutex)]
      /\ \A u \in Task : NoDuplicate(lastmtx[u])
      /\ \A u \in Task, n \in Mutex : Member(lastmtx[u], n) <=> loctsk[n] = u
      /\ \A u \in Task, n \in Mutex : waiton[u] = n => loctsk[n] \notin {NoTask, u}
  BY ConfigAssumption DEF IInv, TypeOK, MutexOwned
<1>2. /\ C = IF wait_queue[m] = <<>> THEN {} ELSE {m}
      /\ H = IF wait_queue[m] = <<>> THEN {} ELSE {wait_queue[m][1]}
      /\ H \in SUBSET Task /\ runtsk \notin H /\ runtsk \in Task
      /\ \A u \in H : waiton[u] = m
      /\ loctsk[m] = runtsk
      /\ Tail(lastmtx[runtsk]) \in Seq(Mutex) /\ NoDuplicate(Tail(lastmtx[runtsk]))
      /\ \A n \in Mutex : Member(Tail(lastmtx[runtsk]), n)
                          <=> Member(lastmtx[runtsk], n) /\ n # m
  BY UnlockHeir
<1>3. /\ waiton' = [u \in Task |-> IF u \in H THEN "NONE" ELSE waiton[u]]
      /\ loctsk' = [n \in Mutex |-> IF n \in C THEN wait_queue[n][1]
                                    ELSE IF n = m THEN NoTask ELSE loctsk[n]]
      /\ lastmtx' = [u \in Task |-> IF u = runtsk THEN Tail(lastmtx[runtsk])
                                    ELSE IF u \in H THEN <<m>> \o lastmtx[u]
                                    ELSE lastmtx[u]]
  BY UnlockFields
<1> HIDE DEF H, C
<1>4. ASSUME NEW u \in H
      PROVE  /\ lastmtx'[u] \in Seq(Mutex) /\ NoDuplicate(lastmtx'[u])
             /\ \A n \in Mutex : Member(lastmtx'[u], n) <=> Member(lastmtx[u], n) \/ n = m
  <2> DEFINE q == lastmtx[u]
  <2>1. q \in Seq(Mutex) /\ NoDuplicate(q) /\ ~ Member(q, m) /\ lastmtx'[u] = <<m>> \o q
    BY <1>1, <1>2, <1>3
  <2> HIDE DEF q
  <2>2. /\ <<m>> \o q \in Seq(Mutex) /\ NoDuplicate(<<m>> \o q)
        /\ \A n : Member(<<m>> \o q, n) <=> Member(q, n) \/ n = m
    BY <2>1, PushProperties
  <2> QED BY <2>1, <2>2 DEF q
<1>5. /\ lastmtx'[runtsk] = Tail(lastmtx[runtsk])
      /\ \A n \in Mutex : Member(lastmtx'[runtsk], n) <=> Member(lastmtx[runtsk], n) /\ n # m
      /\ \A u \in Task : u # runtsk /\ u \notin H => lastmtx'[u] = lastmtx[u]
  BY <1>2, <1>3
<1>6. \A u \in Task : lastmtx'[u] \in Seq(Mutex) /\ NoDuplicate(lastmtx'[u])
  BY <1>1, <1>2, <1>4, <1>5
<1>7. (loctsk \in [Mutex -> Task \cup {NoTask}])' /\ (lastmtx \in [Task -> Seq(Mutex)])'
  <2>1. \A n \in Mutex : loctsk'[n] \in Task \cup {NoTask}
    BY <1>1, <1>2, <1>3
  <2>2. loctsk' = [n \in Mutex |-> loctsk'[n]] /\ lastmtx' = [u \in Task |-> lastmtx'[u]]
    BY <1>3
  <2> QED BY <1>6, <2>1, <2>2
<1>8. ASSUME NEW u \in Task, NEW n \in Mutex
      PROVE  Member(lastmtx'[u], n) <=> loctsk'[n] = u
  <2>1. Member(lastmtx[u], n) <=> loctsk[n] = u
    BY <1>1
  <2>2. CASE n = m
    <3>1. loctsk'[m] = IF wait_queue[m] = <<>> THEN NoTask ELSE wait_queue[m][1]
      BY <1>2, <1>3
    <3>2. loctsk'[m] = u <=> u \in H
      BY <1>2, <3>1, TaskAssumption
    <3> QED BY <1>1, <1>2, <1>4, <1>5, <2>2, <3>2
  <2>3. CASE n # m
    <3>1. loctsk'[n] = loctsk[n]
      BY <1>2, <1>3, <2>3
    <3> QED BY <1>4, <1>5, <2>1, <2>3, <3>1
  <2> QED BY <2>2, <2>3
<1>9. ASSUME NEW u \in Task, NEW n \in Mutex, waiton'[u] = n
      PROVE  loctsk'[n] \notin {NoTask, u}
  <2>1. n # "NONE" /\ n \in Wobj
    BY ConfigAssumption
  <2>2. u \notin H /\ waiton[u] = n
    BY <1>3, <1>9, <2>1
  <2>3. loctsk[n] \notin {NoTask, u}
    BY <1>1, <2>2
  <2>4. CASE n = m
    <3>1. Member(wait_queue[n], u)
      BY <2>1, <2>2 DEF IInv, WaitsOwned
    <3>2. wait_queue[m] # <<>>
      BY <2>4, <3>1 DEF Member
    <3>3. loctsk'[n] \in H
      BY <1>2, <1>3, <2>4, <3>2
    <3> QED BY <1>2, <2>2, <3>3, TaskAssumption
  <2>5. CASE n # m
    BY <1>2, <1>3, <2>3, <2>5
  <2> QED BY <2>4, <2>5
<1> QED BY <1>4, <1>5, <1>6, <1>7, <1>8, <1>9 DEF MutexOwned, H

(* unl_mtx.                                                                *)
LEMMA Unlocks ==
  ASSUME IInv, NEW m \in Mutex, unl_mtx(m)
  PROVE  IInv'
<1> USE DEF queVars, terVars, dspVars, cpuVars, bootVars
<1>1. /\ kerflg /\ nest = 0 /\ runtsk \in Task /\ tstat[runtsk] = "RUNNABLE"
      /\ Heirs(<<m>>) \in SUBSET Task /\ runtsk \notin Heirs(<<m>>)
  BY UnlockHeir
<1>2. /\ Consistent(rdy', Runnable', prio') /\ (prio \in [Task -> TaskPrio])'
      /\ (rdy.dspflg)' = rdy.dspflg
      /\ ~ rdy.dspflg => (rdy.p_schedtsk)' = rdy.p_schedtsk
  BY UnlockReady
<1>3. /\ tmevt' = tmevt \ Heirs(<<m>>)
      /\ winfo' = [u \in Task |-> IF u \in Heirs(<<m>>) THEN "ok" ELSE winfo[u]]
      /\ waiton' = [u \in Task |-> IF u \in Heirs(<<m>>) THEN "NONE" ELSE waiton[u]]
      /\ tstat' = [u \in Task |-> IF u \in Heirs(<<m>>) THEN WaitOver(u) ELSE tstat[u]]
      /\ runtsk' = (rdy.p_schedtsk)'
      /\ UNCHANGED <<bprio, queVars, terVars, dspVars, cpuVars, bootVars>>
  BY UnlockFields
<1>4. (tstat')[runtsk] = "RUNNABLE"
  BY <1>1, <1>3
<1>5. /\ (rdy \in ReadyState)' /\ (runtsk \in Task \cup {NoTask})'
      /\ ReadyQueueConsistent' /\ DispatchDone' /\ DspflgCoherent'
  BY <1>1, <1>2, <1>3, <1>4, CallDispatches
<1>6. /\ (wait_queue \in [Wobj -> Seq(Task)])' /\ WaitsOwned'
  BY UnlockQueues
<1>7. /\ MutexOwned'
      /\ (loctsk \in [Mutex -> Task \cup {NoTask}])' /\ (lastmtx \in [Task -> Seq(Mutex)])'
  BY UnlockMutexes
<1>8. TypeOK'
  <2>1. /\ tstat' \in [Task -> TaskState] /\ waiton' \in [Task -> WaitCause]
        /\ winfo' \in [Task -> WaitInfo] /\ tmevt' \in SUBSET Task
    BY <1>1, <1>3 DEF IInv, TypeOK, TaskState, WaitCause, WaitInfo, WaitOver
  <2> QED BY <1>2, <1>3, <1>5, <1>6, <1>7, <2>1 DEF IInv, TypeOK
<1>9. Booting'
  BY <1>1, <1>3 DEF Booting
<1> QED BY <1>5, <1>6, <1>7, <1>8, <1>9 DEF IInv
-----------------------------------------------------------------------------
(* ini_mtx: the tasks that wait for the mutex, and the owner, which is     *)
(* none of them.                                                           *)
LEMMA InitializeFields ==
  ASSUME IInv, NEW m \in Mutex, ini_mtx(m)
  PROVE  /\ kerflg /\ nest = 0 /\ m \in Wobj /\ m # "NONE"
         /\ Waiters(m) \in SUBSET Task /\ \A u \in Waiters(m) : isWaiting(u)
         /\ loctsk[m] \in Task \cup {NoTask} /\ loctsk[m] \notin Waiters(m)
         /\ tmevt' = tmevt \ Waiters(m)
         /\ winfo' = [u \in Task |-> IF u \in Waiters(m) THEN "error" ELSE winfo[u]]
         /\ waiton' = [u \in Task |-> IF u \in Waiters(m) THEN "NONE" ELSE waiton[u]]
         /\ tstat' = [u \in Task |-> IF u \in Waiters(m) THEN WaitOver(u) ELSE tstat[u]]
         /\ loctsk' = [loctsk EXCEPT ![m] = NoTask]
         /\ runtsk' = (rdy.p_schedtsk)'
         /\ UNCHANGED <<bprio, queVars, terVars, dspVars, cpuVars, bootVars>>
<1>1. /\ kerflg /\ nest = 0 /\ m \in Wobj /\ m # "NONE"
      /\ Waiters(m) \in SUBSET Task /\ \A u \in Waiters(m) : waiton[u] = m
  BY ConfigAssumption DEF ini_mtx, checkContextTaskUnlock, TaskContext, Waiters
<1>2. \A u \in Waiters(m) : isWaiting(u)
  BY <1>1 DEF IInv, WaitsOwned
<1>3. loctsk[m] \in Task \cup {NoTask} /\ loctsk[m] \notin Waiters(m)
  BY <1>1 DEF IInv, TypeOK, MutexOwned
<1>4. tmevt' = tmevt \ Waiters(m)
  <2>1. \A u \in tmevt : u \in Task /\ winfo[u] = "tmevtb"
    BY DEF IInv, TypeOK, WaitsOwned, TimeEventsOwned
  <2>2. tmevt' = {u \in tmevt : u \in Waiters(m) => winfo[u] # "tmevtb"}
    BY DEF ini_mtx, end_waits
  <2> QED BY <2>1, <2>2
<1> QED BY <1>1, <1>2, <1>3, <1>4 DEF ini_mtx, end_waits, taskDispatch

(* The owner loses the mutex and what priority it had from it.             *)
LEMMA InitializeOwner ==
  ASSUME IInv, NEW m \in Mutex, ini_mtx(m)
  PROVE  /\ loctsk[m] = NoTask =>
              /\ rdy' = Woken(m, Waiters(m)) /\ UNCHANGED <<prio, lastmtx>>
              /\ wait_queue' = [wait_queue EXCEPT ![m] = <<>>]
         /\ loctsk[m] # NoTask =>
              /\ lastmtx' = [lastmtx EXCEPT ![loctsk[m]] = Unlinked(lastmtx[loctsk[m]], m)]
              /\ prio' = [prio EXCEPT ![loctsk[m]] =
                            DroppedPrio(loctsk[m], m, Unlinked(lastmtx[loctsk[m]], m))]
              /\ rdy' = DroppedReady(Woken(m, Waiters(m)), loctsk[m], m,
                                     Unlinked(lastmtx[loctsk[m]], m))
              /\ \/ /\ wait_queue' = [wait_queue EXCEPT ![m] = <<>>]
                    /\ waiton[loctsk[m]] \in TpriWobj => prio' = prio
                 \/ /\ waiton[loctsk[m]] \in TpriWobj
                    /\ wait_queue' = [[wait_queue EXCEPT ![m] = <<>>] EXCEPT
                          ![waiton[loctsk[m]]] = InsertTpri(Delete(@, loctsk[m]), prio',
                                                            loctsk[m])]
<1>1. ASSUME loctsk[m] = NoTask
      PROVE  /\ rdy' = Woken(m, Waiters(m)) /\ UNCHANGED <<prio, lastmtx>>
             /\ wait_queue' = [wait_queue EXCEPT ![m] = <<>>]
  BY <1>1 DEF ini_mtx
<1> DEFINE t    == loctsk[m]
           rest == Unlinked(lastmtx[t], m)
<1>2. ASSUME t # NoTask
      PROVE  /\ lastmtx' = [lastmtx EXCEPT ![t] = rest]
             /\ prio' = [prio EXCEPT ![t] = DroppedPrio(t, m, rest)]
             /\ rdy' = DroppedReady(Woken(m, Waiters(m)), t, m, rest)
             /\ wait_queue' = IF Drops(t, m, rest) /\ waiton[t] \in TpriWobj
                              THEN [[wait_queue EXCEPT ![m] = <<>>] EXCEPT
                                      ![waiton[t]] = InsertTpri(Delete(@, t), prio', t)]
                              ELSE [wait_queue EXCEPT ![m] = <<>>]
  BY <1>2 DEF ini_mtx
<1>3. ~ Drops(t, m, rest) => [prio EXCEPT ![t] = DroppedPrio(t, m, rest)] = prio
  BY DEF DroppedPrio, IInv, TypeOK
<1> HIDE DEF t, rest
<1>4. ASSUME t # NoTask
      PROVE  \/ /\ wait_queue' = [wait_queue EXCEPT ![m] = <<>>]
                /\ waiton[t] \in TpriWobj => prio' = prio
             \/ /\ waiton[t] \in TpriWobj
                /\ wait_queue' = [[wait_queue EXCEPT ![m] = <<>>] EXCEPT
                                    ![waiton[t]] = InsertTpri(Delete(@, t), prio', t)]
  BY <1>2, <1>3, <1>4
<1> QED BY <1>1, <1>2, <1>4 DEF t, rest

(* The ready queue after ini_mtx: the tasks that only waited have come in, *)
(* the owner may have dropped.                                             *)
LEMMA InitializeReady ==
  ASSUME IInv, NEW m \in Mutex, ini_mtx(m)
  PROVE  /\ Consistent(rdy', Runnable', prio') /\ (prio \in [Task -> TaskPrio])'
         /\ (rdy.dspflg)' = rdy.dspflg
         /\ ~ rdy.dspflg => (rdy.p_schedtsk)' = rdy.p_schedtsk
<1> DEFINE S    == Waiters(m)
           W    == S \cap WaitingOnly
           R    == Runnable \cup W
           wok  == Woken(m, S)
           t    == loctsk[m]
           rest == Unlinked(lastmtx[t], m)
<1>1. /\ m \in Wobj /\ S \in SUBSET Task /\ \A u \in S : isWaiting(u)
      /\ t \in Task \cup {NoTask} /\ t \notin S
      /\ tstat' = [u \in Task |-> IF u \in S THEN WaitOver(u) ELSE tstat[u]]
  BY InitializeFields
<1>2. Runnable' = R /\ R \in SUBSET Task
  BY <1>1 DEF Runnable, WaitOver, WaitingOnly, isWaiting
<1>3. /\ Consistent(wok, R, prio) /\ wok.dspflg = rdy.dspflg
      /\ ~ rdy.dspflg => wok.p_schedtsk = rdy.p_schedtsk
  <2>1. S \in SUBSET Waiters(m)
    OBVIOUS
  <2> HIDE DEF S
  <2> QED BY <1>1, <2>1, WokenReady
<1>4. TypeOK /\ prio \in [Task -> TaskPrio]
  BY DEF IInv, TypeOK
<1>5. CASE t = NoTask
  <2>1. rdy' = wok /\ prio' = prio
    BY <1>5, InitializeOwner
  <2> QED BY <1>2, <1>3, <1>4, <2>1
<1>6. CASE t # NoTask
  <2>1. /\ t \in Task
        /\ rdy' = DroppedReady(wok, t, m, rest)
        /\ prio' = [prio EXCEPT ![t] = DroppedPrio(t, m, rest)]
    BY <1>1, <1>6, InitializeOwner
  <2>2. t \in R <=> tstat[t] = "RUNNABLE"
    BY <1>1, <2>1 DEF Runnable
  <2> HIDE DEF t, rest, R, wok
  <2>3. /\ [prio EXCEPT ![t] = DroppedPrio(t, m, rest)] \in [Task -> TaskPrio]
        /\ Consistent(DroppedReady(wok, t, m, rest), R,
                      [prio EXCEPT ![t] = DroppedPrio(t, m, rest)])
        /\ DroppedReady(wok, t, m, rest).dspflg = wok.dspflg
        /\ ~ wok.dspflg => DroppedReady(wok, t, m, rest).p_schedtsk = wok.p_schedtsk
    <3>1. /\ t \in Task /\ R \in SUBSET Task /\ TypeOK /\ Consistent(wok, R, prio)
          /\ t \in R <=> tstat[t] = "RUNNABLE"
      BY <1>2, <1>3, <1>4, <2>1, <2>2
    <3> QED BY <3>1, DroppedInQueue
  <2> QED BY <1>2, <1>3, <2>1, <2>3
<1> QED BY <1>5, <1>6

(* The queue of the mutex is empty, and the queue that the owner waits in, *)
(* if it does, holds the same tasks as before.                             *)
LEMMA InitializeQueues ==
  ASSUME IInv, NEW m \in Mutex, ini_mtx(m)
  PROVE  /\ (wait_queue \in [Wobj -> Seq(Task)])'
         /\ \A w \in Wobj : NoDuplicate(wait_queue'[w])
         /\ \A w \in Wobj, u \in Task :
               Member(wait_queue'[w], u) <=> Member(wait_queue[w], u) /\ u \notin Waiters(m)
         /\ WaitsOwned'
<1> DEFINE S == Waiters(m)
           t == loctsk[m]
           Q == [wait_queue EXCEPT ![m] = <<>>]
<1>1. /\ m \in Wobj /\ m # "NONE" /\ S \in SUBSET Task
      /\ t \in Task \cup {NoTask} /\ t \notin S
      /\ tmevt' = tmevt \ S
      /\ winfo' = [u \in Task |-> IF u \in S THEN "error" ELSE winfo[u]]
      /\ waiton' = [u \in Task |-> IF u \in S THEN "NONE" ELSE waiton[u]]
      /\ tstat' = [u \in Task |-> IF u \in S THEN WaitOver(u) ELSE tstat[u]]
  BY InitializeFields
<1>2. /\ wait_queue \in [Wobj -> Seq(Task)]
      /\ \A w \in Wobj : NoDuplicate(wait_queue[w])
      /\ \A w \in Wobj, u \in Task : Member(wait_queue[w], u) <=> waiton[u] = w
      /\ \A u \in Task : u \in S <=> waiton[u] = m
      /\ TpriWobj \subseteq Wobj
  BY ConfigAssumption DEF IInv, TypeOK, WaitsOwned, Waiters
<1>3. /\ Q \in [Wobj -> Seq(Task)] /\ \A w \in Wobj : NoDuplicate(Q[w])
      /\ \A w \in Wobj, u \in Task : Member(Q[w], u) <=> Member(wait_queue[w], u) /\ u \notin S
  <2>1. NoDuplicate(<<>>) /\ \A u : ~ Member(<<>>, u)
    BY DEF NoDuplicate, Member
  <2>2. \A w \in Wobj : Q[w] = IF w = m THEN <<>> ELSE wait_queue[w]
    BY <1>1, <1>2
  <2>3. Q \in [Wobj -> Seq(Task)]
    BY <1>1, <1>2
  <2> HIDE DEF Q, S
  <2>4. \A w \in Wobj : NoDuplicate(Q[w])
    BY <1>2, <2>1, <2>2
  <2>5. \A w \in Wobj, u \in Task : Member(Q[w], u) <=> Member(wait_queue[w], u) /\ u \notin S
    BY <1>2, <2>1, <2>2
  <2> QED BY <2>3, <2>4, <2>5
<1>4. \/ wait_queue' = Q
      \/ /\ t \in Task /\ waiton[t] \in TpriWobj
         /\ wait_queue' = [Q EXCEPT ![waiton[t]] = InsertTpri(Delete(Q[waiton[t]], t), prio', t)]
  BY <1>1, InitializeOwner
<1>5. (prio \in [Task -> TaskPrio])'
  BY InitializeReady
<1> HIDE DEF S, t, Q
<1>6. /\ (wait_queue \in [Wobj -> Seq(Task)])'
      /\ \A w \in Wobj : NoDuplicate(wait_queue'[w])
      /\ \A w \in Wobj, u \in Task :
            Member(wait_queue'[w], u) <=> Member(wait_queue[w], u) /\ u \notin S
  <2>1. CASE wait_queue' = Q
    BY <1>3, <2>1
  <2>2. CASE /\ t \in Task /\ waiton[t] \in TpriWobj
             /\ wait_queue' = [Q EXCEPT ![waiton[t]] =
                                 InsertTpri(Delete(Q[waiton[t]], t), prio', t)]
    <3> DEFINE v == waiton[t]
               q == Q[v]
               d == Delete(q, t)
               p == prio'
               r == InsertTpri(d, p, t)
    <3>1. /\ v \in Wobj /\ q \in Seq(Task) /\ Member(q, t) /\ NoDuplicate(q)
          /\ wait_queue' = [Q EXCEPT ![v] = r]
      BY <1>1, <1>2, <1>3, <2>2
    <3>2. d \in Seq(Task) /\ NoDuplicate(d) /\ \A u : Member(d, u) <=> Member(q, u) /\ u # t
      <4> HIDE DEF q
      <4> QED BY <3>1, DeleteProperties
    <3>3. r \in Seq(Task) /\ NoDuplicate(r) /\ \A u : Member(r, u) <=> Member(d, u) \/ u = t
      <4>1. p \in [Task -> Nat] /\ t \in Task
        BY <1>5, <2>2 DEF TaskPrio
      <4>2. ~ Member(d, t)
        BY <3>2
      <4> HIDE DEF d, p
      <4> QED BY <3>2, <4>1, <4>2, InsertTpriProperties
    <3> HIDE DEF r, d
    <3> QED BY <1>3, <3>1, <3>2, <3>3
  <2> QED BY <1>4, <2>1, <2>2
<1>7. WaitsOwned'
  <2>1. \A u \in S : /\ (tstat')[u] \notin {"WAITING", "WAITING-SUSPENDED"}
                     /\ (waiton')[u] = "NONE"
    BY <1>1 DEF WaitOver
  <2>2. \A u \in Task \ S :
            /\ (tstat')[u] \in {"WAITING", "WAITING-SUSPENDED"} <=> isWaiting(u)
            /\ (waiton')[u] = waiton[u] /\ (winfo')[u] = winfo[u]
    BY <1>1 DEF isWaiting
  <2> QED BY <1>1, <1>6, <2>1, <2>2, WaitsEnded
<1> QED BY <1>6, <1>7 DEF S
-----------------------------------------------------------------------------
(* Nobody owns the mutex any more.                                         *)
LEMMA InitializeMutexes ==
  ASSUME IInv, NEW m \in Mutex, ini_mtx(m)
  PROVE  /\ MutexOwned'
         /\ (loctsk \in [Mutex -> Task \cup {NoTask}])' /\ (lastmtx \in [Task -> Seq(Mutex)])'
         /\ \A u \in Task, n \in Mutex :
               Member(lastmtx'[u], n) <=> Member(lastmtx[u], n) /\ n # m
         /\ \A u \in Task : u # loctsk[m] => lastmtx'[u] = lastmtx[u]
<1> DEFINE t == loctsk[m]
<1>1. /\ loctsk \in [Mutex -> Task \cup {NoTask}] /\ lastmtx \in [Task -> Seq(Mutex)]
      /\ \A u \in Task : NoDuplicate(lastmtx[u])
      /\ \A u \in Task, n \in Mutex : Member(lastmtx[u], n) <=> loctsk[n] = u
      /\ \A u \in Task, n \in Mutex : waiton[u] = n => loctsk[n] \notin {NoTask, u}
      /\ "NONE" \notin Mutex
  BY ConfigAssumption DEF IInv, TypeOK, MutexOwned
<1>2. /\ t \in Task \cup {NoTask} /\ loctsk' = [loctsk EXCEPT ![m] = NoTask]
      /\ waiton' = [u \in Task |-> IF u \in Waiters(m) THEN "NONE" ELSE waiton[u]]
  BY InitializeFields
<1>3. \A u \in Task : waiton[u] = m => u \in Waiters(m)
  BY DEF Waiters
<1>4. /\ (lastmtx \in [Task -> Seq(Mutex)])'
      /\ \A u \in Task : NoDuplicate(lastmtx'[u])
      /\ \A u \in Task, n \in Mutex : Member(lastmtx'[u], n) <=> Member(lastmtx[u], n) /\ n # m
      /\ \A u \in Task : u # loctsk[m] => lastmtx'[u] = lastmtx[u]
  <2>1. CASE t = NoTask
    <3>1. lastmtx' = lastmtx
      BY <2>1, InitializeOwner
    <3>2. \A u \in Task : ~ Member(lastmtx[u], m)
      BY <1>1, <2>1, TaskAssumption
    <3> QED BY <1>1, <3>1, <3>2
  <2>2. CASE t # NoTask
    <3> DEFINE q == lastmtx[t]
               d == Unlinked(q, m)
    <3>1. t \in Task /\ lastmtx' = [lastmtx EXCEPT ![t] = d]
      BY <1>2, <2>2, InitializeOwner
    <3>2. q \in Seq(Mutex) /\ NoDuplicate(q)
      BY <1>1, <3>1
    <3>3. \A u \in Task : u # t => ~ Member(lastmtx[u], m)
      BY <1>1
    <3> HIDE DEF q
    <3>4. d \in Seq(Mutex) /\ NoDuplicate(d) /\ \A n : Member(d, n) <=> Member(q, n) /\ n # m
      BY <3>2, WithoutProperties DEF Unlinked
    <3> HIDE DEF d
    <3>5. \A u \in Task : lastmtx'[u] = IF u = t THEN d ELSE lastmtx[u]
      BY <1>1, <3>1
    <3>6. (lastmtx \in [Task -> Seq(Mutex)])'
      BY <1>1, <3>1, <3>4
    <3>7. \A u \in Task, n \in Mutex :
            Member(lastmtx'[u], n) <=> Member(lastmtx[u], n) /\ n # m
      BY <3>3, <3>4, <3>5 DEF q
    <3> QED BY <1>1, <3>4, <3>5, <3>6, <3>7
  <2> QED BY <2>1, <2>2
<1>5. (loctsk \in [Mutex -> Task \cup {NoTask}])'
  BY <1>1, <1>2
<1>6. \A u \in Task, n \in Mutex : Member(lastmtx'[u], n) <=> loctsk'[n] = u
  BY <1>1, <1>2, <1>4, TaskAssumption
<1>7. \A u \in Task, n \in Mutex : waiton'[u] = n => loctsk'[n] \notin {NoTask, u}
  BY <1>1, <1>2, <1>3
<1> QED BY <1>4, <1>5, <1>6, <1>7 DEF MutexOwned

(* ini_mtx.                                                                *)
LEMMA Initializes ==
  ASSUME IInv, NEW m \in Mutex, ini_mtx(m)
  PROVE  IInv'
<1> USE DEF queVars, terVars, dspVars, cpuVars, bootVars
<1>1. /\ kerflg /\ nest = 0
      /\ Waiters(m) \in SUBSET Task /\ \A u \in Waiters(m) : isWaiting(u)
      /\ tmevt' = tmevt \ Waiters(m)
      /\ winfo' = [u \in Task |-> IF u \in Waiters(m) THEN "error" ELSE winfo[u]]
      /\ waiton' = [u \in Task |-> IF u \in Waiters(m) THEN "NONE" ELSE waiton[u]]
      /\ tstat' = [u \in Task |-> IF u \in Waiters(m) THEN WaitOver(u) ELSE tstat[u]]
      /\ runtsk' = (rdy.p_schedtsk)'
      /\ UNCHANGED <<bprio, queVars, terVars, dspVars, cpuVars, bootVars>>
  BY InitializeFields
<1>2. /\ Consistent(rdy', Runnable', prio') /\ (prio \in [Task -> TaskPrio])'
      /\ (rdy.dspflg)' = rdy.dspflg
      /\ ~ rdy.dspflg => (rdy.p_schedtsk)' = rdy.p_schedtsk
  BY InitializeReady
<1>3. runtsk # NoTask => (tstat')[runtsk] = "RUNNABLE"
  <2>1. runtsk # NoTask => runtsk \in Task /\ tstat[runtsk] = "RUNNABLE"
    BY DEF IInv, TypeOK, DispatchDone
  <2> QED BY <1>1, <2>1 DEF isWaiting
<1>4. /\ (rdy \in ReadyState)' /\ (runtsk \in Task \cup {NoTask})'
      /\ ReadyQueueConsistent' /\ DispatchDone' /\ DspflgCoherent'
  BY <1>1, <1>2, <1>3, CallDispatches
<1>5. /\ (wait_queue \in [Wobj -> Seq(Task)])' /\ WaitsOwned'
  BY InitializeQueues
<1>6. /\ MutexOwned'
      /\ (loctsk \in [Mutex -> Task \cup {NoTask}])' /\ (lastmtx \in [Task -> Seq(Mutex)])'
  BY InitializeMutexes
<1>7. TypeOK'
  <2>1. /\ tstat' \in [Task -> TaskState] /\ waiton' \in [Task -> WaitCause]
        /\ winfo' \in [Task -> WaitInfo] /\ tmevt' \in SUBSET Task
    BY <1>1 DEF IInv, TypeOK, TaskState, WaitCause, WaitInfo, WaitOver
  <2> QED BY <1>1, <1>2, <1>4, <1>5, <1>6, <2>1 DEF IInv, TypeOK
<1>8. Booting'
  BY <1>1 DEF Booting
<1> QED BY <1>4, <1>5, <1>6, <1>7, <1>8 DEF IInv

(* The kernel's invariant under the calls of mutexes.  A task that waits   *)
(* for a mutex waits for another task's.                                   *)
LEMMA MutexInvariant ==
  ASSUME IInv, MutexCall
  PROVE  IInv'
<1>1. PICK m \in Mutex : \/ \E timed \in BOOLEAN : loc_mtx(m, timed)
                         \/ ploc_mtx(m) \/ unl_mtx(m) \/ ini_mtx(m)
  BY DEF MutexCall
<1>2. ASSUME NEW timed \in BOOLEAN, loc_mtx(m, timed) PROVE IInv'
  <2>1. checkContextTaskUnlock /\ m \in Wobj
    BY <1>2, ConfigAssumption DEF loc_mtx, checkDispatch
  <2>2. CASE mutexAcquire(m)
    BY <2>1, <2>2, Acquires
  <2>3. CASE loctsk[m] \notin {NoTask, runtsk} /\ wobj_wait(m, timed)
    BY <2>1, <2>3, WobjWait
  <2> QED BY <1>2, <2>2, <2>3 DEF loc_mtx, Self
<1>3. CASE ploc_mtx(m)
  BY <1>3, Acquires DEF ploc_mtx
<1>4. CASE unl_mtx(m)
  BY <1>4, Unlocks
<1>5. CASE ini_mtx(m)
  BY <1>5, Initializes
<1> QED BY <1>1, <1>2, <1>3, <1>4, <1>5
-----------------------------------------------------------------------------
(* Priority order of the wait queues: the caller that locks or unlocks     *)
(* waits in none, the heir leaves its own.                                 *)
LEMMA UnlockOrdered ==
  ASSUME IInv, QueuesOrdered, NEW m \in Mutex, unl_mtx(m)
  PROVE  QueuesOrdered'
<1>1. /\ TpriWobj \subseteq Wobj /\ wait_queue \in [Wobj -> Seq(Task)]
      /\ \A w \in Wobj, u \in Task : Member(wait_queue[w], u) <=> waiton[u] = w
      /\ "NONE" \notin Wobj
  BY ConfigAssumption DEF IInv, TypeOK, WaitsOwned
<1>2. /\ runtsk \in Task /\ tstat[runtsk] = "RUNNABLE"
      /\ Contended(<<m>>) = IF wait_queue[m] = <<>> THEN {} ELSE {m}
  BY UnlockHeir
<1>3. /\ wait_queue' = [w \in Wobj |-> IF w \in Contended(<<m>>) THEN Tail(wait_queue[w])
                                                               ELSE wait_queue[w]]
      /\ \A u \in Task : u # runtsk /\ u \notin Heirs(<<m>>) => prio'[u] = prio[u]
  <2>1. /\ wait_queue' = [w \in Wobj |-> IF w \in Contended(<<m>>) THEN Tail(wait_queue[w])
                                                                 ELSE wait_queue[w]]
        /\ prio' = [u \in Task |->
                      IF u \in Heirs(<<m>>) THEN Raised(prio[u], m)
                      ELSE IF u = runtsk THEN DroppedPrio(runtsk, m, Tail(lastmtx[runtsk]))
                      ELSE prio[u]]
    BY UnlockFields, Zenon
  <2> QED BY ONLY <2>1
<1>4. /\ (wait_queue \in [Wobj -> Seq(Task)])'
      /\ \A w \in Wobj, u \in Task : Member(wait_queue'[w], u)
            <=> Member(wait_queue[w], u) /\ u \notin Heirs(<<m>>)
  BY UnlockQueues
<1>5. ASSUME NEW w \in TpriWobj PROVE PriorityOrdered(wait_queue'[w], prio)
  <2> DEFINE q == wait_queue[w]
  <2>1. q \in Seq(Task) /\ PriorityOrdered(q, prio)
    BY <1>1 DEF QueuesOrdered
  <2>2. wait_queue'[w] = q \/ (wait_queue'[w] = Tail(q) /\ q # <<>>)
    BY <1>1, <1>2, <1>3
  <2> HIDE DEF q
  <2> QED BY <2>1, <2>2, TailOrdered
<1>6. waiton[runtsk] = "NONE"
  BY <1>2 DEF IInv, WaitsOwned, isWaiting
<1>7. \A w \in TpriWobj, u \in Task : Member(wait_queue'[w], u) => prio'[u] = prio[u]
  BY <1>1, <1>3, <1>4, <1>6
<1> QED BY <1>4, <1>5, <1>7, OrderedStep

(* The owner that waits elsewhere takes its new place.                     *)
LEMMA InitializeOrdered ==
  ASSUME IInv, QueuesOrdered, NEW m \in Mutex, ini_mtx(m)
  PROVE  QueuesOrdered'
<1> DEFINE t == loctsk[m]
           Q == [wait_queue EXCEPT ![m] = <<>>]
<1>1. /\ TpriWobj \subseteq Wobj /\ wait_queue \in [Wobj -> Seq(Task)] /\ m \in Wobj
      /\ prio \in [Task -> TaskPrio] /\ t \in Task \cup {NoTask} /\ t \notin Waiters(m)
      /\ \A w \in Wobj : NoDuplicate(wait_queue[w])
      /\ \A w \in Wobj, u \in Task : Member(wait_queue[w], u) <=> waiton[u] = w
  BY ConfigAssumption DEF IInv, TypeOK, WaitsOwned, MutexOwned, Waiters
<1>2. prio' \in [Task -> Nat]
  <2>1. (prio \in [Task -> TaskPrio])'
    BY InitializeReady
  <2> QED BY <2>1 DEF TaskPrio
<1>3. \A u \in Task : u # t => prio'[u] = prio[u]
  BY <1>1, InitializeOwner
<1>4. /\ (wait_queue \in [Wobj -> Seq(Task)])'
      /\ \A w \in Wobj, u \in Task :
            Member(wait_queue'[w], u) <=> Member(wait_queue[w], u) /\ u \notin Waiters(m)
  BY InitializeQueues
<1>5. \/ /\ wait_queue' = Q
         /\ t = NoTask \/ waiton[t] \in TpriWobj => prio' = prio
      \/ /\ t \in Task /\ waiton[t] \in TpriWobj /\ waiton[t] # m
         /\ wait_queue' = [Q EXCEPT ![waiton[t]] = InsertTpri(Delete(Q[waiton[t]], t), prio', t)]
  BY <1>1, InitializeOwner DEF Waiters
<1>6. \A w \in TpriWobj : Q[w] \in Seq(Task) /\ PriorityOrdered(Q[w], prio)
                          /\ NoDuplicate(Q[w])
  <2>1. PriorityOrdered(<<>>, prio) /\ NoDuplicate(<<>>)
    BY DEF PriorityOrdered, NoDuplicate
  <2> QED BY <1>1, <2>1 DEF QueuesOrdered
<1> HIDE DEF t
<1>7. CASE wait_queue' = Q /\ (t = NoTask \/ waiton[t] \in TpriWobj => prio' = prio)
  <2>1. \A w \in TpriWobj : PriorityOrdered(wait_queue'[w], prio)
    BY <1>6, <1>7
  <2>2. \A w \in TpriWobj, u \in Task : Member(wait_queue'[w], u) => prio'[u] = prio[u]
    BY <1>1, <1>3, <1>4, <1>7, TaskAssumption
  <2> HIDE DEF Q
  <2> QED BY <1>4, <2>1, <2>2, OrderedStep
<1>8. CASE /\ t \in Task /\ waiton[t] \in TpriWobj /\ waiton[t] # m
           /\ wait_queue' = [Q EXCEPT ![waiton[t]] =
                               InsertTpri(Delete(Q[waiton[t]], t), prio', t)]
  <2> SUFFICES ASSUME NEW w \in TpriWobj PROVE PriorityOrdered(wait_queue'[w], prio')
    BY DEF QueuesOrdered
  <2> DEFINE q == Q[w]
             p == prio'
  <2>1. q \in Seq(Task) /\ PriorityOrdered(q, prio) /\ NoDuplicate(q)
    BY <1>6
  <2>2. p \in [Task -> Nat] /\ \A u \in Task : u # t => p[u] = prio[u]
    BY <1>2, <1>3
  <2>3. CASE waiton[t] = w
    <3> DEFINE d == Delete(q, t)
    <3>1. Member(q, t)
      BY <1>1, <1>8, <2>3
    <3>2. wait_queue'[w] = InsertTpri(d, p, t)
      BY <1>1, <1>8, <2>3
    <3> HIDE DEF q, p
    <3>3. d \in Seq(Task) /\ PriorityOrdered(d, prio) /\ ~ Member(d, t)
      BY <2>1, <3>1, DeleteProperties, DeleteOrdered
    <3> HIDE DEF d
    <3>4. \A u : Member(d, u) => p[u] = prio[u]
      BY <2>2, <3>3, EmptyQueue
    <3>5. PriorityOrdered(d, p)
      BY <3>3, <3>4, OrderedOther
    <3>6. PriorityOrdered(InsertTpri(d, p, t), p)
      BY <1>8, <2>2, <3>3, <3>5, InsertTpriOrdered
    <3> QED BY <3>2, <3>6 DEF p
  <2>4. CASE waiton[t] # w
    <3>1. wait_queue'[w] = q
      BY <1>1, <1>8, <2>4
    <3>2. \A u \in Task : Member(q, u) => u # t
      BY <1>1, <1>4, <1>8, <2>4, <3>1
    <3> HIDE DEF q, p
    <3>3. \A u : Member(q, u) => p[u] = prio[u]
      BY <2>1, <2>2, <3>2, EmptyQueue
    <3>4. PriorityOrdered(q, p)
      BY <2>1, <3>3, OrderedOther
    <3> QED BY <3>1, <3>4 DEF p
  <2> QED BY <2>3, <2>4
<1> QED BY <1>5, <1>7, <1>8
-----------------------------------------------------------------------------
(* The fields of the tasks under the calls of mutexes.                     *)
LEMMA MutexState ==
  ASSUME IInv, SInv, IInv', MutexCall
  PROVE  SInv'
<1> USE DEF stateVars, prioVars, queVars, terVars, waitVars, mtxVars, dspVars, cpuVars,
            bootVars
<1>1. PICK m \in Mutex : \/ \E timed \in BOOLEAN : loc_mtx(m, timed)
                         \/ ploc_mtx(m) \/ unl_mtx(m) \/ ini_mtx(m)
  BY DEF MutexCall
<1>2. FieldTypes
  BY TypesOfFields
<1>3. /\ \A t \in Task : waiton[t] = "DLY" => winfo[t] = "tmevtb"
      /\ \A t \in Task : waiton[t] = "SLP" => wupque[t] = 0
      /\ \A t \in Task : raster[t] => tstat[t] = "RUNNABLE"
      /\ \A t \in Task : raster[t] /\ enater[t] => t = runtsk /\ ~ rdy.dspflg
      /\ QueuesOrdered
  BY DEF SInv, WaitsMarked, RasterPending
<1>4. ASSUME checkContextTaskUnlock, mutexAcquire(m) PROVE SInv'
  <2>1. /\ runtsk \in Task /\ tstat[runtsk] = "RUNNABLE"
        /\ Raised(prio[runtsk], m) \in TaskPrio
        /\ prio' = [prio EXCEPT ![runtsk] = Raised(prio[runtsk], m)]
        /\ lastmtx' = [lastmtx EXCEPT ![runtsk] = <<m>> \o lastmtx[runtsk]]
        /\ UNCHANGED <<runtsk, stateVars, bprio, queVars, terVars, winfo, tmevt>>
    BY <1>4, AcquireFields
  <2>2. QueuesOrdered'
    <3>1. CASE Raised(prio[runtsk], m) # prio[runtsk]
      <4>1. change_priority(runtsk, Raised(prio[runtsk], m), TRUE)
        BY <1>4, <3>1 DEF mutexAcquire, Self
      <4> QED BY <1>3, <2>1, <4>1, ChangeOrdered
    <3>2. CASE Raised(prio[runtsk], m) = prio[runtsk]
      BY <1>3, <1>4, <3>2 DEF mutexAcquire, Self, QueuesOrdered
    <3> QED BY <3>1, <3>2
  <2>3. \A t \in Task : TaskStep(t)
    <3>1. prio \in [Task -> TaskPrio] /\ lastmtx \in [Task -> Seq(Mutex)]
      BY DEF IInv, TypeOK
    <3>2. \A t \in Task : tstat[t] = "DORMANT" => prio'[t] = prio[t] /\ lastmtx'[t] = lastmtx[t]
      BY <2>1, <3>1
    <3> QED BY <1>3, <2>1, <3>2 DEF TaskStep
  <2>4. (rdy.dspflg)' = rdy.dspflg
    BY <1>4, AcquireReady
  <2>5. \A t \in Task : raster'[t] /\ enater'[t] => t = runtsk' /\ ~ rdy'.dspflg
    BY <1>3, <2>1, <2>4
  <2> QED BY <2>2, <2>3, <2>5, StateStep DEF SInv
<1>5. ASSUME NEW timed \in BOOLEAN, wobj_wait(m, timed) PROVE SInv'
  <2>1. m \in Wobj
    BY ConfigAssumption
  <2> QED BY <1>5, <2>1, ObjectState
<1>6. CASE unl_mtx(m)
  <2>1. /\ runtsk \in Task /\ tstat[runtsk] = "RUNNABLE"
        /\ Heirs(<<m>>) \in SUBSET Task /\ \A u \in Heirs(<<m>>) : isWaiting(u)
    BY <1>6, UnlockHeir
  <2>2. /\ winfo' = [u \in Task |-> IF u \in Heirs(<<m>>) THEN "ok" ELSE winfo[u]]
        /\ waiton' = [u \in Task |-> IF u \in Heirs(<<m>>) THEN "NONE" ELSE waiton[u]]
        /\ tstat' = [u \in Task |-> IF u \in Heirs(<<m>>) THEN WaitOver(u) ELSE tstat[u]]
        /\ runtsk' = (rdy.p_schedtsk)'
        /\ UNCHANGED <<bprio, queVars, terVars>>
    BY <1>6, UnlockFields
  <2>7. \A u \in Task : u # runtsk /\ u \notin Heirs(<<m>>) => lastmtx'[u] = lastmtx[u]
    BY <1>6, UnlockMutexes
  <2>8. \A u \in Task : u # runtsk /\ u \notin Heirs(<<m>>) => prio'[u] = prio[u]
    <3>1. prio' = [u \in Task |->
                     IF u \in Heirs(<<m>>) THEN Raised(prio[u], m)
                     ELSE IF u = runtsk THEN DroppedPrio(runtsk, m, Tail(lastmtx[runtsk]))
                     ELSE prio[u]]
      BY <1>6, UnlockFields
    <3> QED BY <3>1
  <2>3. QueuesOrdered'
    BY <1>3, <1>6, UnlockOrdered
  <2>4. \A t \in Task : TaskStep(t)
    BY <1>3, <2>1, <2>2, <2>7, <2>8 DEF TaskStep, isWaiting, WaitOver
  <2>5. /\ (rdy.dspflg)' = rdy.dspflg
        /\ ~ rdy.dspflg => runtsk' = runtsk
    BY <1>6, <2>2, UnlockReady DEF IInv, DspflgCoherent
  <2>6. \A t \in Task : raster'[t] /\ enater'[t] => t = runtsk' /\ ~ rdy'.dspflg
    BY <1>3, <2>2, <2>5
  <2> QED BY <2>3, <2>4, <2>6, StateStep
<1>7. CASE ini_mtx(m)
  <2>1. /\ Waiters(m) \in SUBSET Task /\ \A u \in Waiters(m) : isWaiting(u)
        /\ winfo' = [u \in Task |-> IF u \in Waiters(m) THEN "error" ELSE winfo[u]]
        /\ waiton' = [u \in Task |-> IF u \in Waiters(m) THEN "NONE" ELSE waiton[u]]
        /\ tstat' = [u \in Task |-> IF u \in Waiters(m) THEN WaitOver(u) ELSE tstat[u]]
        /\ loctsk[m] \in Task \cup {NoTask}
        /\ runtsk' = (rdy.p_schedtsk)'
        /\ UNCHANGED <<bprio, queVars, terVars>>
    BY <1>7, InitializeFields
  <2>2. QueuesOrdered'
    BY <1>3, <1>7, InitializeOrdered
  <2>3. \A t \in Task : t # loctsk[m] => lastmtx'[t] = lastmtx[t] /\ prio'[t] = prio[t]
    <3>1. \A t \in Task : t # loctsk[m] => lastmtx'[t] = lastmtx[t]
      BY <1>7, InitializeMutexes
    <3>2. \/ prio' = prio
          \/ \E p : prio' = [prio EXCEPT ![loctsk[m]] = p]
      BY <1>7, InitializeOwner
    <3>3. prio \in [Task -> TaskPrio]
      BY DEF IInv, TypeOK
    <3> QED BY <3>1, <3>2, <3>3
  <2>4. loctsk[m] \in Task => tstat[loctsk[m]] # "DORMANT"
    BY DEF SInv, DormantReset, IInv, MutexOwned, Member
  <2>5. \A t \in Task : TaskStep(t)
    BY <1>3, <2>1, <2>3, <2>4 DEF TaskStep, isWaiting, WaitOver
  <2>6. /\ (rdy.dspflg)' = rdy.dspflg
        /\ ~ rdy.dspflg => runtsk' = runtsk
    BY <1>7, <2>1, InitializeReady DEF IInv, DspflgCoherent
  <2>7. \A t \in Task : raster'[t] /\ enater'[t] => t = runtsk' /\ ~ rdy'.dspflg
    BY <1>3, <2>1, <2>6
  <2> QED BY <2>2, <2>5, <2>7, StateStep
<1> QED BY <1>1, <1>4, <1>5, <1>6, <1>7 DEF loc_mtx, ploc_mtx, checkDispatch

(* Both invariants hold in every state of a system with mutexes.           *)
THEOREM MutexSystemInvariant == MutexSpec => [](IInv /\ SInv)
<1>1. Init => IInv /\ SInv
  BY InitInvariant, InitState
<1>2. IInv /\ SInv /\ [Next \/ MutexCall]_vars => (IInv /\ SInv)'
  <2> SUFFICES ASSUME IInv, SInv, [Next \/ MutexCall]_vars PROVE IInv' /\ SInv'
    OBVIOUS
  <2>1. CASE [Next]_vars
    BY <2>1, NextInvariant, NextState
  <2>2. CASE MutexCall
    BY <2>2, MutexInvariant, MutexState
  <2> QED BY <2>1, <2>2
<1> QED BY <1>1, <1>2, PTL DEF MutexSpec

(* Mutexes leave the scheduling data consistent and owe no dispatch:       *)
(* loc_mtx raises the running task without one, unl_mtx raises the heir    *)
(* while it still waits and lowers the owner in the ready queue.           *)
THEOREM MutexScheduling == MutexSpec => [](ReadyQueueConsistent /\ DispatchDone)
<1>1. IInv => ReadyQueueConsistent /\ DispatchDone
  BY DEF IInv
<1> QED BY <1>1, MutexSystemInvariant, PTL

(* Who owns what: the lists of the tasks and the owners of the mutexes say *)
(* the same, and a dormant task owns nothing.                              *)
LEMMA OwnersAgree == IInv /\ SInv => OwnersMatch
BY DEF IInv, SInv, MutexOwned, DormantReset, OwnersMatch

(* OwnersMatch, for every configuration.                                   *)
THEOREM OwnersCorrect == MutexSpec => []OwnersMatch
BY MutexSystemInvariant, OwnersAgree, PTL

(* A task in the queue of a mutex waits for it, so that another task has   *)
(* it.                                                                     *)
LEMMA NobodyForgotten == IInv => HandedOver
<1> SUFFICES ASSUME IInv, NEW m \in Mutex, wait_queue[m] # <<>>
             PROVE  loctsk[m] # NoTask /\ ~ Member(wait_queue[m], loctsk[m])
  BY DEF HandedOver
<1> DEFINE q == wait_queue[m]
<1>1. /\ m \in Wobj /\ q \in Seq(Task)
      /\ \A u \in Task : Member(q, u) <=> waiton[u] = m
      /\ \A u \in Task : waiton[u] = m => loctsk[m] \notin {NoTask, u}
      /\ loctsk[m] \in Task \cup {NoTask}
  BY ConfigAssumption DEF IInv, TypeOK, WaitsOwned, MutexOwned
<1> HIDE DEF q
<1>2. \E u \in Task : Member(q, u)
  BY <1>1, EmptyQueue DEF q
<1> QED BY <1>1, <1>2 DEF q

(* No hand-over is lost, in any configuration.                             *)
THEOREM HandOverKept == MutexSpec => []HandedOver
BY MutexSystemInvariant, NobodyForgotten, PTL
-----------------------------------------------------------------------------
(* The ceiling protocol, task by task: the priority is the one calculated, *)
(* and no ceiling of a mutex held or waited for is below the base one.     *)
CeilingKept(t) ==
  \A m \in CeilMtx : Member(lastmtx[t], m) \/ (waiton[t] = m) => ceilpri[m] <= bprio[t]
PriorityRight(t) == IsCalcPriority(prio[t], bprio[t], lastmtx[t]) /\ CeilingKept(t)
PInv == \A t \in Task : PriorityRight(t)

(* A task that keeps its priorities and its mutexes, and begins no wait    *)
(* for a mutex with a ceiling, is as right as before.                      *)
LEMMA SamePriority ==
  ASSUME NEW t \in Task, PriorityRight(t),
         prio'[t] = prio[t], bprio'[t] = bprio[t], lastmtx'[t] = lastmtx[t],
         waiton'[t] = waiton[t] \/ waiton'[t] \notin CeilMtx
  PROVE  PriorityRight(t)'
BY DEF PriorityRight, CeilingKept, IsCalcPriority

(* A task that gets a mutex, free or handed over to it.                    *)
LEMMA GainedPriority ==
  ASSUME IInv, NEW t \in Task, PriorityRight(t), NEW m \in Mutex,
         m \in CeilMtx => ceilpri[m] <= bprio[t],
         \A n \in Mutex : Member(lastmtx'[t], n) <=> Member(lastmtx[t], n) \/ n = m,
         prio'[t] = Raised(prio[t], m), bprio'[t] = bprio[t],
         waiton'[t] = waiton[t] \/ waiton'[t] \notin CeilMtx
  PROVE  PriorityRight(t)'
<1>1. /\ prio[t] \in TaskPrio /\ bprio[t] \in TaskPrio /\ CeilMtx \subseteq Mutex
      /\ IsCalcPriority(prio[t], bprio[t], lastmtx[t])
  BY ConfigAssumption DEF IInv, TypeOK, PriorityRight
<1> DEFINE ms   == lastmtx[t]
           more == lastmtx'[t]
<1>2. \A n \in Mutex : Member(more, n) <=> Member(ms, n) \/ n = m
  OBVIOUS
<1> HIDE DEF ms, more
<1>3. IsCalcPriority(prio[t], bprio[t], ms)
  BY <1>1 DEF ms
<1>4. IsCalcPriority(Raised(prio[t], m), bprio[t], more)
  BY <1>1, <1>2, <1>3, RaisedPriority
<1>5. IsCalcPriority(prio[t], bprio[t], lastmtx[t])'
  BY <1>4 DEF more, IsCalcPriority
<1>6. CeilingKept(t)'
  BY <1>1 DEF PriorityRight, CeilingKept
<1> QED BY <1>5, <1>6 DEF PriorityRight

(* A task that has released a mutex, or lost it.                           *)
LEMMA LostPriority ==
  ASSUME IInv, NEW t \in Task, PriorityRight(t), NEW m \in Mutex, NEW rest,
         \A n \in Mutex : Member(rest, n) <=> Member(lastmtx[t], n) /\ n # m,
         lastmtx'[t] = rest,
         prio'[t] = DroppedPrio(t, m, rest), bprio'[t] = bprio[t],
         waiton'[t] = waiton[t] \/ waiton'[t] \notin CeilMtx
  PROVE  PriorityRight(t)'
<1>1. /\ TypeOK /\ CeilMtx \subseteq Mutex
      /\ IsCalcPriority(prio[t], bprio[t], lastmtx[t])
  BY ConfigAssumption DEF IInv, PriorityRight
<1> DEFINE ms == lastmtx[t]
<1>2. \A n \in Mutex : Member(rest, n) <=> Member(ms, n) /\ n # m
  OBVIOUS
<1>3. IsCalcPriority(prio[t], bprio[t], ms)
  BY <1>1
<1> HIDE DEF ms
<1>4. IsCalcPriority(DroppedPrio(t, m, rest), bprio[t], rest)
  BY <1>1, <1>2, <1>3, DroppedPriority
<1>5. IsCalcPriority(prio[t], bprio[t], lastmtx[t])'
  BY <1>4 DEF IsCalcPriority
<1>6. CeilingKept(t)'
  BY <1>1 DEF PriorityRight, CeilingKept
<1> QED BY <1>5, <1>6 DEF PriorityRight

(* A task that terminates has its start priority and no mutex; the heirs   *)
(* have theirs, and those ceilings did not keep them from waiting.         *)
LEMMA TerminatePriority ==
  ASSUME IInv, PInv, NEW t \in Task, NEW r, task_terminate(t, r)
  PROVE  PInv'
<1> DEFINE ms == lastmtx[t]
<1>1. /\ Heirs(ms) \in SUBSET Task /\ t \notin Heirs(ms)
      /\ (bprio')[t] = ipri[t] /\ (prio')[t] = ipri[t]
      /\ (waiton')[t] = "NONE" /\ (lastmtx')[t] = <<>>
      /\ \A u \in Task \ {t} : (bprio')[u] = bprio[u]
      /\ \A u \in Heirs(ms) : (waiton')[u] = "NONE"
      /\ \A u \in Task \ (Heirs(ms) \cup {t}) :
            (prio')[u] = prio[u] /\ (waiton')[u] = waiton[u] /\ (lastmtx')[u] = lastmtx[u]
  BY TerminateFields, ZenonT(60)
<1>2. /\ ms \in Seq(Mutex) /\ \A m \in Mutex : Member(ms, m) => loctsk[m] = t
      /\ "NONE" \notin CeilMtx /\ lastmtx \in [Task -> Seq(Mutex)]
      /\ ipri \in [Task -> TaskPrio]
  BY ConfigAssumption DEF IInv, TypeOK, MutexOwned
<1>3. /\ lastmtx' = [u \in Task |-> IF u = t THEN <<>>
                                    ELSE IF u \in Heirs(ms) THEN <<waiton[u]>> \o lastmtx[u]
                                    ELSE lastmtx[u]]
      /\ prio' = [InheritedPrio(ms, prio) EXCEPT ![t] = ipri[t]]
  BY DEF task_terminate, mutexRelease
<1> HIDE DEF ms
<1>4. \A u \in Heirs(ms) : waiton[u] \in Mutex
  <2>1. /\ \A m \in Contended(ms) : m \in Mutex
        /\ \A u \in Heirs(ms) : waiton[u] \in Contended(ms)
    BY <1>2, HeirsOwned
  <2> QED BY <2>1
<1>5. PriorityRight(t)'
  <2>1. \A m : ~ Member(<<>>, m)
    BY DEF Member
  <2>2. (ipri[t] \in Int) /\ ipri[t] <= ipri[t]
    BY <1>2 DEF TaskPrio
  <2> QED BY <1>1, <1>2, <2>1, <2>2 DEF PriorityRight, CeilingKept, IsCalcPriority
<1>6. ASSUME NEW u \in Heirs(ms) PROVE PriorityRight(u)'
  <2> DEFINE m == waiton[u]
             q == lastmtx[u]
  <2>1. u \in Task /\ u # t /\ m \in Mutex /\ PriorityRight(u) /\ q \in Seq(Mutex)
    BY <1>1, <1>2, <1>4 DEF PInv
  <2>2. prio'[u] = Raised(prio[u], m) /\ lastmtx'[u] = <<m>> \o q
    BY <1>3, <2>1 DEF InheritedPrio
  <2>3. m \in CeilMtx => ceilpri[m] <= bprio[u]
    BY <2>1 DEF PriorityRight, CeilingKept
  <2>4. \A n : Member(<<m>> \o q, n) <=> Member(q, n) \/ n = m
    <3> HIDE DEF m, q
    <3> QED BY <2>1, PushProperties
  <2>5. /\ bprio'[u] = bprio[u] /\ waiton'[u] \notin CeilMtx
        /\ \A n \in Mutex : Member(lastmtx'[u], n) <=> Member(lastmtx[u], n) \/ n = m
    BY <1>1, <1>2, <2>1, <2>2, <2>4
  <2> HIDE DEF m
  <2> QED BY <2>1, <2>2, <2>3, <2>5, GainedPriority
<1>7. ASSUME NEW u \in Task \ (Heirs(ms) \cup {t}) PROVE PriorityRight(u)'
  <2>1. PriorityRight(u) /\ u \in Task /\ bprio'[u] = bprio[u]
    BY <1>1 DEF PInv
  <2> QED BY <1>1, <2>1, SamePriority
<1> QED BY <1>5, <1>6, <1>7 DEF PInv

(* chg_pri: a task that holds a mutex with a ceiling keeps its priority,   *)
(* which is then that of a ceiling; another one gets the new base          *)
(* priority.                                                               *)
LEMMA ChangedPriority ==
  ASSUME IInv, PInv, NEW t \in Task, NEW newbprio \in TaskPrio, chg_pri(t, newbprio)
  PROVE  PInv'
<1> USE DEF stateVars, mtxVars
<1>1. /\ bprio' = [bprio EXCEPT ![t] = newbprio] /\ UNCHANGED <<waiton, lastmtx>>
      /\ mutexCheckCeilpri(t, newbprio)
      /\ bprio \in [Task -> TaskPrio] /\ prio \in [Task -> TaskPrio]
      /\ ceilpri \in [CeilMtx -> TaskPrio]
  BY ConfigAssumption DEF chg_pri, IInv, TypeOK
<1>2. \A u \in Task : u # t => prio'[u] = prio[u]
  BY <1>1 DEF chg_pri, change_priority
<1>3. \A u \in Task : u # t => PriorityRight(u)'
  BY <1>1, <1>2, SamePriority DEF PInv
<1>4. CeilingKept(t)'
  BY <1>1 DEF mutexCheckCeilpri, CeilingKept
<1>5. /\ IsCalcPriority(prio[t], bprio[t], lastmtx[t]) /\ CeilingKept(t)
      /\ prio[t] \in Int /\ bprio[t] \in Int /\ newbprio \in Int
      /\ \A m \in CeilMtx : ceilpri[m] \in Int
  BY <1>1 DEF PInv, PriorityRight, TaskPrio
<1>6. IsCalcPriority(prio'[t], newbprio, lastmtx[t])
  <2>1. CASE mutexScanCeilMtx(t)
    <3>1. prio'[t] = prio[t]
      BY <2>1 DEF chg_pri
    <3>2. PICK m \in CeilMtx : Member(lastmtx[t], m)
      BY <2>1 DEF mutexScanCeilMtx
    <3>3. ceilpri[m] <= newbprio /\ ceilpri[m] <= bprio[t] /\ prio[t] <= ceilpri[m]
      BY <1>1, <1>5, <3>2 DEF mutexCheckCeilpri, CeilingKept, IsCalcPriority
    <3>4. prio[t] <= newbprio /\ (prio[t] = bprio[t] => prio[t] = ceilpri[m])
      BY <1>5, <3>2, <3>3
    <3> QED BY <1>5, <3>1, <3>2, <3>4 DEF IsCalcPriority
  <2>2. CASE ~ mutexScanCeilMtx(t)
    <3>1. prio'[t] = newbprio
      BY <1>1, <2>2 DEF chg_pri, change_priority
    <3> QED BY <1>5, <2>2, <3>1 DEF mutexScanCeilMtx, IsCalcPriority
  <2> QED BY <2>1, <2>2
<1>7. IsCalcPriority(prio[t], bprio[t], lastmtx[t])'
  BY <1>1, <1>6 DEF IsCalcPriority
<1> QED BY <1>3, <1>4, <1>7 DEF PInv, PriorityRight
-----------------------------------------------------------------------------
(* A call that has nothing to do with priorities or mutexes.               *)
PrioritiesAlone ==
  /\ UNCHANGED <<bprio, prio, lastmtx>>
  /\ \A t \in Task : waiton'[t] = waiton[t] \/ waiton'[t] \notin CeilMtx

(* It changes none.                                                        *)
LEMMA QuietPriority ==
  ASSUME PInv, PrioritiesAlone
  PROVE  PInv'
BY SamePriority DEF PInv, PrioritiesAlone

(* The calls of the kernel itself.                                         *)
LEMMA NextPriority ==
  ASSUME IInv, PInv, [Next]_vars
  PROVE  PInv'
<1> USE DEF stateVars, prioVars, queVars, terVars, waitVars, mtxVars, dspVars, cpuVars,
            bootVars
<1>1. /\ waiton \in [Task -> WaitCause] /\ runtsk \in Task \cup {NoTask}
      /\ CeilMtx \subseteq Mutex /\ Mutex \subseteq Wobj
      /\ Wobj \cap {"NONE", "SLP", "DLY"} = {}
  BY ConfigAssumption DEF IInv, TypeOK
<1>2. CASE UNCHANGED vars
  <2>1. PrioritiesAlone
    BY <1>2 DEF PrioritiesAlone, vars
  <2> QED BY <2>1, QuietPriority
<1>3. CASE Boot \/ Interrupt
  <2>1. PrioritiesAlone
    BY <1>1, <1>3 DEF PrioritiesAlone, Boot, Interrupt, initialize_task, startDispatch,
                      enter_int, leave_int, wait_tmout, make_non_wait
  <2> QED BY <2>1, QuietPriority
<1>4. CASE ManageCall
  <2>1. ASSUME NEW t \in Task, NEW p \in TaskPrio, chg_pri(t, p) PROVE PInv'
    BY <2>1, ChangedPriority
  <2>2. CASE \/ \E t \in Task : act_tsk(t) \/ can_act(t)
             \/ \E p \in TaskPrio : rot_rdq(p)
    <3>1. PrioritiesAlone
      BY <2>2 DEF PrioritiesAlone, act_tsk, can_act, rot_rdq
    <3> QED BY <3>1, QuietPriority
  <2> QED BY <1>4, <2>1, <2>2 DEF ManageCall
<1>5. CASE SyncCall
  <2>1. PrioritiesAlone
    <3>1. CASE (\E timed \in BOOLEAN : slp_tsk(timed)) \/ dly_tsk
      BY <1>1, <3>1 DEF PrioritiesAlone, slp_tsk, dly_tsk, make_wait
    <3>2. ASSUME NEW t \in Task, wup_tsk(t) \/ can_wup(t) \/ rel_wai(t)
          PROVE  PrioritiesAlone
      BY <1>1, <3>2 DEF PrioritiesAlone, wup_tsk, can_wup, rel_wai, wait_complete,
                        make_non_wait
    <3>3. ASSUME NEW t \in Task, sus_tsk(t) \/ rsm_tsk(t)
          PROVE  PrioritiesAlone
      BY <3>3 DEF PrioritiesAlone, sus_tsk, rsm_tsk
    <3> QED BY <1>5, <3>1, <3>2, <3>3 DEF SyncCall
  <2> QED BY <2>1, QuietPriority
<1>6. CASE TermCall
  <2>1. \/ \E t \in Task : \E r : task_terminate(t, r)
        \/ PrioritiesAlone
    <3>1. CASE ext_tsk
      BY <1>1, <3>1 DEF ext_tsk, TaskContext
    <3>2. CASE dis_ter
      BY <3>2 DEF dis_ter, PrioritiesAlone
    <3>3. CASE ena_ter
      BY <1>1, <3>3 DEF ena_ter, checkContextTaskUnlock, TaskContext, PrioritiesAlone
    <3>4. ASSUME NEW t \in Task, ras_ter(t)
          PROVE  (\E r : task_terminate(t, r)) \/ PrioritiesAlone
      <4>1. CASE enater[t]
        BY <3>4, <4>1 DEF ras_ter
      <4>2. CASE ~ enater[t]
        <5>1. waiton' = [waiton EXCEPT ![t] = "NONE"] /\ UNCHANGED <<bprio, prio>>
          BY <3>4, <4>2 DEF ras_ter
        <5>2. lastmtx' = lastmtx
          BY <3>4, <4>2 DEF ras_ter
        <5> QED BY <1>1, <5>1, <5>2 DEF PrioritiesAlone
      <4> QED BY <4>1, <4>2
    <3>5. ASSUME NEW t \in Task, ter_tsk(t) PROVE \E r : task_terminate(t, r)
      BY <3>5 DEF ter_tsk
    <3> QED BY <1>6, <3>1, <3>2, <3>3, <3>4, <3>5 DEF TermCall
  <2> QED BY <2>1, QuietPriority, TerminatePriority
<1>7. CASE CpuCall
  <2>1. \/ \E t \in Task : \E r : task_terminate(t, r)
        \/ PrioritiesAlone
    <3>1. CASE loc_cpu \/ unl_cpu \/ dis_dsp
      BY <3>1 DEF loc_cpu, unl_cpu, dis_dsp, PrioritiesAlone
    <3>2. ASSUME TaskContext, resume_dispatch
          PROVE  (\E t \in Task : \E r : task_terminate(t, r)) \/ PrioritiesAlone
      BY <1>1, <3>2 DEF resume_dispatch, TaskContext, PrioritiesAlone
    <3>3. CASE ena_dsp
      BY <3>2, <3>3 DEF ena_dsp, checkContextTaskUnlock, PrioritiesAlone
    <3>4. CASE \E all \in BOOLEAN : chg_ipm(all)
      BY <3>2, <3>4 DEF chg_ipm, checkContextTaskUnlock, PrioritiesAlone
    <3> QED BY <1>7, <3>1, <3>3, <3>4 DEF CpuCall
  <2> QED BY <2>1, QuietPriority, TerminatePriority
<1>8. CASE ObjectCall
  <2>1. PrioritiesAlone
    <3>1. PICK w \in Wobj \ Mutex :
            \/ \E timed \in BOOLEAN : wobj_wait(w, timed)
            \/ \E S \in SUBSET Waiters(w), e \in {"ok", "error"} : wobj_release(w, S, e)
      BY <1>8 DEF ObjectCall
    <3>2. ASSUME NEW timed \in BOOLEAN, wobj_wait(w, timed) PROVE PrioritiesAlone
      BY <1>1, <3>2 DEF PrioritiesAlone, wobj_wait, wobj_make_wait, make_wait
    <3>3. ASSUME NEW S, NEW e, wobj_release(w, S, e) PROVE PrioritiesAlone
      BY <1>1, <3>3 DEF PrioritiesAlone, wobj_release, end_waits
    <3> QED BY <3>1, <3>2, <3>3
  <2> QED BY <2>1, QuietPriority
<1> QED BY <1>2, <1>3, <1>4, <1>5, <1>6, <1>7, <1>8 DEF Next, KernelCall
-----------------------------------------------------------------------------
(* The calls of mutexes.  MayLock keeps a task from owning and from        *)
(* waiting for a mutex whose ceiling is below its base priority.           *)
LEMMA MutexPriority ==
  ASSUME IInv, PInv, MutexCall
  PROVE  PInv'
<1> USE DEF stateVars, prioVars, queVars, terVars, waitVars, mtxVars, dspVars, cpuVars,
            bootVars
<1>1. PICK m \in Mutex : \/ \E timed \in BOOLEAN : loc_mtx(m, timed)
                         \/ ploc_mtx(m) \/ unl_mtx(m) \/ ini_mtx(m)
  BY DEF MutexCall
<1>2. /\ waiton \in [Task -> WaitCause] /\ prio \in [Task -> TaskPrio]
      /\ lastmtx \in [Task -> Seq(Mutex)]
      /\ CeilMtx \subseteq Mutex /\ "NONE" \notin CeilMtx
  BY ConfigAssumption DEF IInv, TypeOK
<1>3. ASSUME checkContextTaskUnlock, MayLock(m), mutexAcquire(m) PROVE PInv'
  <2>1. /\ runtsk \in Task
        /\ prio' = [prio EXCEPT ![runtsk] = Raised(prio[runtsk], m)]
        /\ lastmtx' = [lastmtx EXCEPT ![runtsk] = <<m>> \o lastmtx[runtsk]]
        /\ \A n \in Mutex : Member(lastmtx'[runtsk], n) <=> Member(lastmtx[runtsk], n) \/ n = m
        /\ UNCHANGED <<waiton, bprio>>
    BY <1>3, AcquireFields
  <2>2. m \in CeilMtx => ceilpri[m] <= bprio[runtsk]
    BY <1>3 DEF MayLock, Self
  <2> SUFFICES ASSUME NEW u \in Task PROVE PriorityRight(u)'
    BY DEF PInv
  <2>3. PriorityRight(u) /\ bprio'[u] = bprio[u] /\ waiton'[u] = waiton[u]
    BY <2>1 DEF PInv
  <2>4. CASE u = runtsk
    <3>1. /\ m \in CeilMtx => ceilpri[m] <= bprio[u]
          /\ \A n \in Mutex : Member(lastmtx'[u], n) <=> Member(lastmtx[u], n) \/ n = m
          /\ prio'[u] = Raised(prio[u], m)
      BY <1>2, <2>1, <2>2, <2>4
    <3> QED BY <2>3, <3>1, GainedPriority
  <2>5. CASE u # runtsk
    <3>1. prio'[u] = prio[u] /\ lastmtx'[u] = lastmtx[u]
      BY <1>2, <2>1, <2>5
    <3> QED BY <2>3, <3>1, SamePriority
  <2> QED BY <2>4, <2>5
<1>4. ASSUME NEW timed \in BOOLEAN, MayLock(m), wobj_wait(m, timed) PROVE PInv'
  <2>1. /\ runtsk \in Task /\ UNCHANGED <<prio, bprio, lastmtx>>
        /\ waiton' = [waiton EXCEPT ![runtsk] = m]
        /\ m \in CeilMtx => ceilpri[m] <= bprio[runtsk]
    BY <1>4 DEF wobj_wait, wobj_make_wait, make_wait, checkDispatch, checkContextTaskUnlock,
                TaskContext, MayLock, Self, IInv, TypeOK
  <2> SUFFICES ASSUME NEW u \in Task PROVE PriorityRight(u)'
    BY DEF PInv
  <2>2. PriorityRight(u)
    BY DEF PInv
  <2>3. CeilingKept(u)'
    BY <1>2, <2>1, <2>2 DEF PriorityRight, CeilingKept
  <2>4. IsCalcPriority(prio[u], bprio[u], lastmtx[u])'
    BY <2>1, <2>2 DEF PriorityRight, IsCalcPriority
  <2> QED BY <2>3, <2>4 DEF PriorityRight
<1>5. CASE unl_mtx(m)
  <2>1. /\ runtsk \in Task /\ runtsk \notin Heirs(<<m>>) /\ Heirs(<<m>>) \in SUBSET Task
        /\ \A u \in Heirs(<<m>>) : waiton[u] = m
        /\ \A n \in Mutex : Member(Tail(lastmtx[runtsk]), n)
                            <=> Member(lastmtx[runtsk], n) /\ n # m
    BY <1>5, UnlockHeir
  <2>2. /\ prio' = [u \in Task |->
                      IF u \in Heirs(<<m>>) THEN Raised(prio[u], m)
                      ELSE IF u = runtsk THEN DroppedPrio(runtsk, m, Tail(lastmtx[runtsk]))
                      ELSE prio[u]]
        /\ lastmtx' = [u \in Task |-> IF u = runtsk THEN Tail(lastmtx[runtsk])
                                      ELSE IF u \in Heirs(<<m>>) THEN <<m>> \o lastmtx[u]
                                      ELSE lastmtx[u]]
        /\ waiton' = [u \in Task |-> IF u \in Heirs(<<m>>) THEN "NONE" ELSE waiton[u]]
        /\ bprio' = bprio
    BY <1>5, UnlockFields
  <2>3. \A u \in Heirs(<<m>>), n \in Mutex :
           Member(lastmtx'[u], n) <=> Member(lastmtx[u], n) \/ n = m
    BY <1>5, UnlockMutexes
  <2> SUFFICES ASSUME NEW u \in Task PROVE PriorityRight(u)'
    BY DEF PInv
  <2>4. /\ PriorityRight(u) /\ bprio'[u] = bprio[u]
        /\ waiton'[u] = waiton[u] \/ waiton'[u] \notin CeilMtx
    BY <1>2, <2>2 DEF PInv
  <2>5. CASE u = runtsk
    <3>1. /\ lastmtx'[u] = Tail(lastmtx[u]) /\ prio'[u] = DroppedPrio(u, m, Tail(lastmtx[u]))
          /\ \A n \in Mutex : Member(Tail(lastmtx[u]), n) <=> Member(lastmtx[u], n) /\ n # m
      BY <2>1, <2>2, <2>5
    <3> QED BY <2>4, <3>1, LostPriority
  <2>6. CASE u \in Heirs(<<m>>)
    <3>1. prio'[u] = Raised(prio[u], m) /\ (m \in CeilMtx => ceilpri[m] <= bprio[u])
      BY <2>1, <2>2, <2>4, <2>6 DEF PriorityRight, CeilingKept
    <3> QED BY <2>3, <2>4, <2>6, <3>1, GainedPriority
  <2>7. CASE u # runtsk /\ u \notin Heirs(<<m>>)
    <3>1. prio'[u] = prio[u] /\ lastmtx'[u] = lastmtx[u]
      BY <2>2, <2>7
    <3> QED BY <2>4, <3>1, SamePriority
  <2> QED BY <2>5, <2>6, <2>7
<1>6. CASE ini_mtx(m)
  <2>1. /\ loctsk[m] \in Task \cup {NoTask} /\ bprio' = bprio
        /\ waiton' = [u \in Task |-> IF u \in Waiters(m) THEN "NONE" ELSE waiton[u]]
    BY <1>6, InitializeFields
  <2>2. /\ \A u \in Task, n \in Mutex :
              Member(lastmtx'[u], n) <=> Member(lastmtx[u], n) /\ n # m
        /\ \A u \in Task : u # loctsk[m] => lastmtx'[u] = lastmtx[u]
    BY <1>6, InitializeMutexes
  <2> SUFFICES ASSUME NEW u \in Task PROVE PriorityRight(u)'
    BY DEF PInv
  <2>3. /\ PriorityRight(u) /\ bprio'[u] = bprio[u]
        /\ waiton'[u] = waiton[u] \/ waiton'[u] \notin CeilMtx
    BY <1>2, <2>1 DEF PInv
  <2>4. CASE u = loctsk[m]
    <3>1. loctsk[m] # NoTask
      BY <2>4, TaskAssumption
    <3>2. /\ lastmtx' = [lastmtx EXCEPT ![u] = Unlinked(lastmtx[u], m)]
          /\ prio' = [prio EXCEPT ![u] = DroppedPrio(u, m, Unlinked(lastmtx[u], m))]
      BY <1>6, <2>4, <3>1, InitializeOwner
    <3> DEFINE rest == Unlinked(lastmtx[u], m)
    <3>3. /\ lastmtx'[u] = rest /\ prio'[u] = DroppedPrio(u, m, rest)
          /\ \A n \in Mutex : Member(rest, n) <=> Member(lastmtx[u], n) /\ n # m
      BY <1>2, <2>2, <3>2
    <3> HIDE DEF rest
    <3> QED BY <2>3, <3>3, LostPriority
  <2>5. CASE u # loctsk[m]
    <3>1. (prio' = prio) \/ \E p : prio' = [prio EXCEPT ![loctsk[m]] = p]
      BY <1>6, InitializeOwner
    <3>2. prio'[u] = prio[u] /\ lastmtx'[u] = lastmtx[u]
      BY <1>2, <2>2, <2>5, <3>1
    <3> QED BY <2>3, <3>2, SamePriority
  <2> QED BY <2>4, <2>5
<1> QED BY <1>1, <1>3, <1>4, <1>5, <1>6 DEF loc_mtx, ploc_mtx, checkDispatch

(* The priorities of the ceiling protocol, in every reachable state.       *)
THEOREM CeilingProtocol == MutexSpec => [](IInv /\ PInv)
<1>1. Init => PInv
  <2>1. /\ ipri \in [Task -> TaskPrio] /\ "NONE" \notin CeilMtx
        /\ \A m : ~ Member(<<>>, m)
    BY ConfigAssumption DEF Member
  <2>2. \A p \in TaskPrio : p <= p
    BY DEF TaskPrio
  <2>3. ASSUME Init, NEW t \in Task PROVE PriorityRight(t)
    <3>1. prio[t] = ipri[t] /\ bprio[t] = ipri[t] /\ lastmtx[t] = <<>> /\ waiton[t] = "NONE"
      BY <2>3 DEF Init
    <3>2. ipri[t] <= ipri[t]
      BY <2>1, <2>2
    <3> QED BY <2>1, <3>1, <3>2 DEF PriorityRight, CeilingKept, IsCalcPriority
  <2> QED BY <2>3 DEF PInv
<1>2. IInv /\ PInv /\ [Next \/ MutexCall]_vars => PInv'
  BY NextPriority, MutexPriority
<1>3. MutexSpec => []IInv
  BY MutexSystemInvariant, PTL
<1> QED BY <1>1, <1>2, <1>3, PTL DEF MutexSpec

(* What a task holds determines its priority.                              *)
LEMMA PriorityCalculated == IInv /\ PInv => PriorityInherited
<1> SUFFICES ASSUME IInv, PInv, NEW t \in Task
             PROVE  prio[t] = mutexCalcPriority(t, lastmtx[t])
  BY DEF PriorityInherited
<1>1. TypeOK /\ prio[t] \in TaskPrio /\ IsCalcPriority(prio[t], bprio[t], lastmtx[t])
  BY DEF IInv, TypeOK, PInv, PriorityRight
<1> QED BY <1>1, CalcPriority

(* The current priority, raised and dropped in steps, is always the one    *)
(* mutexCalcPriority computes afresh.                                      *)
THEOREM PriorityCorrect == MutexSpec => []PriorityInherited
BY CeilingProtocol, PriorityCalculated, PTL

(* Owners and waiting tasks respect the ceilings.                          *)
LEMMA CeilingsBound == IInv /\ PInv => CeilingRespected
BY ConfigAssumption DEF IInv, MutexOwned, WaitsOwned, PInv, PriorityRight, CeilingKept,
                        CeilingRespected

(* No task holds or waits for a mutex whose ceiling is below its base      *)
(* priority.                                                               *)
THEOREM CeilingsRespected == MutexSpec => []CeilingRespected
BY CeilingProtocol, CeilingsBound, PTL
-----------------------------------------------------------------------------
(* What is not a grant: the wait goes on, or ends with an error, or was    *)
(* not for a mutex.                                                        *)
NotGranted(t) ==
  /\ waiton'[t] # "NONE" => winfo'[t] # "ok"
  /\ waiton[t] \in Mutex /\ waiton'[t] = "NONE" => winfo'[t] # "ok"

(* A grant: to the first task of the queue, which then has the mutex.      *)
Granted(t) ==
  /\ waiton'[t] = "NONE" /\ waiton[t] \in Mutex
  /\ wait_queue[waiton[t]] # <<>> /\ wait_queue[waiton[t]][1] = t
  /\ loctsk'[waiton[t]] = t /\ Member(lastmtx'[t], waiton[t])

GrantsRight == \A t \in Task : NotGranted(t) \/ Granted(t)

(* A task that terminates hands its mutexes over, each to the first task   *)
(* that waits for it.                                                      *)
LEMMA TerminateGrants ==
  ASSUME IInv, IInv', ResultPending, NEW t \in Task, NEW r, task_terminate(t, r)
  PROVE  GrantsRight
<1> DEFINE ms == lastmtx[t]
<1>1. /\ Heirs(ms) \in SUBSET Task /\ t \notin Heirs(ms)
      /\ (waiton')[t] = "NONE"
      /\ \A u \in Heirs(ms) : (waiton')[u] = "NONE"
      /\ \A u \in Task \ (Heirs(ms) \cup {t}) :
            (waiton')[u] = waiton[u] /\ (winfo')[u] = winfo[u]
  BY TerminateFields, ZenonT(60)
<1>2. /\ ms \in Seq(Mutex) /\ \A m \in Mutex : Member(ms, m) => loctsk[m] = t
      /\ "NONE" \notin Mutex
  BY ConfigAssumption DEF IInv, TypeOK, MutexOwned
<1>3. /\ winfo' = [u \in Task |-> IF u \in Heirs(ms) THEN "ok" ELSE winfo[u]]
      /\ loctsk' = [m \in Mutex |-> IF m \in Contended(ms) THEN wait_queue[m][1]
                                    ELSE IF Member(ms, m) THEN NoTask ELSE loctsk[m]]
  BY DEF task_terminate, mutexRelease
<1> HIDE DEF ms
<1>4. /\ \A m \in Contended(ms) : m \in Mutex /\ wait_queue[m] # <<>>
      /\ \A u \in Heirs(ms) : waiton[u] \in Contended(ms) /\ wait_queue[waiton[u]][1] = u
  BY <1>2, HeirsOwned
<1>5. ASSUME NEW u \in Heirs(ms) PROVE Granted(u)
  <2>1. u \in Task /\ waiton[u] \in Mutex /\ loctsk'[waiton[u]] = u
    BY <1>1, <1>3, <1>4
  <2>2. Member(lastmtx'[u], waiton[u])
    BY <2>1 DEF IInv, MutexOwned
  <2> QED BY <1>1, <1>4, <2>1, <2>2 DEF Granted
<1>6. ASSUME NEW u \in Task \ Heirs(ms) PROVE NotGranted(u)
  BY <1>1, <1>2, <1>3 DEF ResultPending, NotGranted
<1> QED BY <1>5, <1>6 DEF GrantsRight

(* So does unl_mtx.                                                        *)
LEMMA UnlockGrants ==
  ASSUME IInv, IInv', ResultPending, NEW m \in Mutex, unl_mtx(m)
  PROVE  GrantsRight
<1>1. /\ Contended(<<m>>) = IF wait_queue[m] = <<>> THEN {} ELSE {m}
      /\ Heirs(<<m>>) = IF wait_queue[m] = <<>> THEN {} ELSE {wait_queue[m][1]}
      /\ Heirs(<<m>>) \in SUBSET Task
      /\ \A u \in Heirs(<<m>>) : waiton[u] = m
      /\ "NONE" \notin Mutex
  BY UnlockHeir, ConfigAssumption
<1>2. /\ winfo' = [u \in Task |-> IF u \in Heirs(<<m>>) THEN "ok" ELSE winfo[u]]
      /\ waiton' = [u \in Task |-> IF u \in Heirs(<<m>>) THEN "NONE" ELSE waiton[u]]
      /\ loctsk' = [n \in Mutex |-> IF n \in Contended(<<m>>) THEN wait_queue[n][1]
                                    ELSE IF n = m THEN NoTask ELSE loctsk[n]]
  BY UnlockFields
<1>3. ASSUME NEW u \in Heirs(<<m>>) PROVE Granted(u)
  <2>1. /\ u \in Task /\ waiton[u] = m /\ wait_queue[m] # <<>> /\ wait_queue[m][1] = u
        /\ loctsk'[m] = u
    BY <1>1, <1>2
  <2>2. Member(lastmtx'[u], m)
    BY <2>1 DEF IInv, MutexOwned
  <2> QED BY <1>2, <2>1, <2>2 DEF Granted
<1>4. ASSUME NEW u \in Task \ Heirs(<<m>>) PROVE NotGranted(u)
  BY <1>1, <1>2 DEF ResultPending, NotGranted
<1> QED BY <1>3, <1>4 DEF GrantsRight

(* The other calls of mutexes grant nothing to a task that waits.          *)
LEMMA MutexGrants ==
  ASSUME IInv, IInv', ResultPending, MutexCall
  PROVE  GrantsRight
<1> USE DEF stateVars
<1>1. PICK m \in Mutex : \/ \E timed \in BOOLEAN : loc_mtx(m, timed)
                         \/ ploc_mtx(m) \/ unl_mtx(m) \/ ini_mtx(m)
  BY DEF MutexCall
<1>2. "NONE" \notin Mutex /\ waiton \in [Task -> WaitCause] /\ winfo \in [Task -> WaitInfo]
  BY ConfigAssumption DEF IInv, TypeOK
<1>3. ASSUME mutexAcquire(m) PROVE GrantsRight
  BY <1>2, <1>3 DEF mutexAcquire, ResultPending, GrantsRight, NotGranted
<1>4. ASSUME NEW timed \in BOOLEAN, wobj_wait(m, timed) PROVE GrantsRight
  <2>1. /\ waiton' = [waiton EXCEPT ![runtsk] = m]
        /\ winfo' = [winfo EXCEPT ![runtsk] = IF timed THEN "tmevtb" ELSE "null"]
    BY <1>4 DEF wobj_wait, wobj_make_wait, make_wait
  <2> QED BY <1>2, <2>1 DEF ResultPending, GrantsRight, NotGranted
<1>5. CASE unl_mtx(m)
  BY <1>5, UnlockGrants
<1>6. CASE ini_mtx(m)
  <2>1. /\ winfo' = [u \in Task |-> IF u \in Waiters(m) THEN "error" ELSE winfo[u]]
        /\ waiton' = [u \in Task |-> IF u \in Waiters(m) THEN "NONE" ELSE waiton[u]]
    BY <1>6, InitializeFields
  <2> QED BY <1>2, <2>1 DEF ResultPending, GrantsRight, NotGranted
<1> QED BY <1>1, <1>3, <1>4, <1>5, <1>6 DEF loc_mtx, ploc_mtx
-----------------------------------------------------------------------------
(* The calls of the kernel itself: only termination hands a mutex over.    *)
LEMMA NextGrants ==
  ASSUME IInv, IInv', ResultPending, [Next]_vars
  PROVE  GrantsRight
<1> USE DEF stateVars, waitVars
<1>1. /\ waiton \in [Task -> WaitCause] /\ winfo \in [Task -> WaitInfo]
      /\ runtsk \in Task \cup {NoTask} /\ Mutex \subseteq Wobj
      /\ Wobj \cap {"NONE", "SLP", "DLY"} = {}
      /\ \A t \in Task : isWaiting(t) <=> waiton[t] # "NONE"
  BY ConfigAssumption DEF IInv, TypeOK, WaitsOwned
<1>2. \A t \in Task : waiton'[t] = waiton[t] /\ winfo'[t] = winfo[t] => NotGranted(t)
  BY <1>1 DEF ResultPending, NotGranted
<1>3. CASE UNCHANGED <<waiton, winfo>>
  BY <1>2, <1>3 DEF GrantsRight
<1>4. CASE Boot \/ enter_int \/ leave_int
  BY <1>3, <1>4 DEF Boot, initialize_task, startDispatch, enter_int, leave_int
<1>5. ASSUME NEW t \in Task, wait_tmout(t) PROVE GrantsRight
  <2>1. /\ waiton' = [waiton EXCEPT ![t] = "NONE"]
        /\ winfo' = [winfo EXCEPT ![t] = IF waiton[t] = "DLY" THEN "ok" ELSE "error"]
    BY <1>5 DEF wait_tmout, set_werror, make_non_wait
  <2> QED BY <1>1, <2>1 DEF ResultPending, GrantsRight, NotGranted
<1>6. CASE ManageCall
  <2>1. UNCHANGED <<waiton, winfo>>
    BY <1>6 DEF ManageCall, act_tsk, can_act, chg_pri, rot_rdq
  <2> QED BY <1>3, <2>1
<1>7. CASE SyncCall
  <2>1. CASE (\E timed \in BOOLEAN : slp_tsk(timed)) \/ dly_tsk
    <3>1. \/ UNCHANGED <<waiton, winfo>>
          \/ \E timed \in BOOLEAN : make_wait("SLP", timed) \/ make_wait("DLY", timed)
      BY <2>1 DEF slp_tsk, dly_tsk
    <3>2. ASSUME NEW timed \in BOOLEAN, NEW c \in {"SLP", "DLY"}, make_wait(c, timed)
          PROVE  GrantsRight
      <4>1. /\ waiton' = [waiton EXCEPT ![runtsk] = c] /\ c # "NONE"
            /\ winfo' = [winfo EXCEPT ![runtsk] = IF timed THEN "tmevtb" ELSE "null"]
        BY <3>2 DEF make_wait
      <4> QED BY <1>1, <4>1 DEF ResultPending, GrantsRight, NotGranted
    <3> QED BY <1>3, <3>1, <3>2
  <2>2. ASSUME NEW t \in Task, wup_tsk(t) PROVE GrantsRight
    <3>1. \/ UNCHANGED <<waiton, winfo>>
          \/ /\ waiton[t] = "SLP" /\ waiton' = [waiton EXCEPT ![t] = "NONE"]
             /\ winfo' = [winfo EXCEPT ![t] = "ok"]
      BY <2>2 DEF wup_tsk, wait_complete, set_werror, make_non_wait
    <3> QED BY <1>1, <1>3, <3>1 DEF ResultPending, GrantsRight, NotGranted
  <2>3. ASSUME NEW t \in Task, rel_wai(t) PROVE GrantsRight
    <3>1. /\ waiton' = [waiton EXCEPT ![t] = "NONE"]
          /\ winfo' = [winfo EXCEPT ![t] = "error"]
      BY <2>3 DEF rel_wai, set_werror, make_non_wait
    <3> QED BY <1>1, <3>1 DEF ResultPending, GrantsRight, NotGranted
  <2>4. ASSUME NEW t \in Task, can_wup(t) \/ sus_tsk(t) \/ rsm_tsk(t)
        PROVE  UNCHANGED <<waiton, winfo>>
    BY <2>4 DEF can_wup, sus_tsk, rsm_tsk
  <2> QED BY <1>3, <1>7, <2>1, <2>2, <2>3, <2>4 DEF SyncCall
<1>8. ASSUME TaskContext, \E r : task_terminate(runtsk, r) PROVE GrantsRight
  <2>1. runtsk \in Task
    BY <1>1, <1>8 DEF TaskContext
  <2>2. PICK r : task_terminate(runtsk, r)
    BY <1>8
  <2> QED BY <2>1, <2>2, TerminateGrants
<1>9. CASE TermCall
  <2>1. CASE ext_tsk
    BY <1>8, <2>1 DEF ext_tsk
  <2>2. CASE dis_ter
    BY <1>3, <2>2 DEF dis_ter
  <2>3. CASE ena_ter
    BY <1>3, <1>8, <2>3 DEF ena_ter, checkContextTaskUnlock
  <2>4. ASSUME NEW t \in Task, ter_tsk(t) PROVE GrantsRight
    BY <2>4, TerminateGrants DEF ter_tsk
  <2>5. ASSUME NEW t \in Task, ras_ter(t) PROVE GrantsRight
    <3>1. CASE enater[t]
      BY <2>5, <3>1, TerminateGrants DEF ras_ter
    <3>2. CASE ~ enater[t]
      <4>1. /\ waiton' = [waiton EXCEPT ![t] = "NONE"]
            /\ IF isWaiting(t) THEN winfo' = [winfo EXCEPT ![t] = "error"]
                               ELSE winfo' = winfo
        BY <2>5, <3>2 DEF ras_ter, set_werror, isWaiting
      <4> QED BY <1>1, <4>1 DEF ResultPending, GrantsRight, NotGranted
    <3> QED BY <3>1, <3>2
  <2> QED BY <1>9, <2>1, <2>2, <2>3, <2>4, <2>5 DEF TermCall
<1>10. CASE CpuCall
  <2>1. CASE loc_cpu \/ unl_cpu \/ dis_dsp
    BY <1>3, <2>1 DEF loc_cpu, unl_cpu, dis_dsp
  <2>2. ASSUME TaskContext, resume_dispatch PROVE GrantsRight
    BY <1>3, <1>8, <2>2 DEF resume_dispatch
  <2>3. CASE ena_dsp
    BY <1>3, <2>2, <2>3 DEF ena_dsp, checkContextTaskUnlock
  <2>4. CASE \E all \in BOOLEAN : chg_ipm(all)
    BY <1>3, <2>2, <2>4 DEF chg_ipm, checkContextTaskUnlock
  <2> QED BY <1>10, <2>1, <2>3, <2>4 DEF CpuCall
<1>11. CASE ObjectCall
  <2>1. PICK w \in Wobj \ Mutex :
          \/ \E timed \in BOOLEAN : wobj_wait(w, timed)
          \/ \E S \in SUBSET Waiters(w), e \in {"ok", "error"} : wobj_release(w, S, e)
    BY <1>11 DEF ObjectCall
  <2>2. ASSUME NEW timed \in BOOLEAN, wobj_wait(w, timed) PROVE GrantsRight
    <3>1. /\ waiton' = [waiton EXCEPT ![runtsk] = w] /\ w # "NONE"
          /\ winfo' = [winfo EXCEPT ![runtsk] = IF timed THEN "tmevtb" ELSE "null"]
      BY <1>1, <2>2 DEF wobj_wait, wobj_make_wait, make_wait
    <3> QED BY <1>1, <3>1 DEF ResultPending, GrantsRight, NotGranted
  <2>3. ASSUME NEW S \in SUBSET Waiters(w), NEW e, wobj_release(w, S, e) PROVE GrantsRight
    <3>1. /\ waiton' = [t \in Task |-> IF t \in S THEN "NONE" ELSE waiton[t]]
          /\ winfo' = [t \in Task |-> IF t \in S THEN e ELSE winfo[t]]
          /\ \A t \in S : waiton[t] = w
      BY <2>3 DEF wobj_release, end_waits, Waiters
    <3> QED BY <1>1, <3>1 DEF ResultPending, GrantsRight, NotGranted
  <2> QED BY <2>1, <2>2, <2>3
<1>12. CASE UNCHANGED vars
  BY <1>3, <1>12 DEF vars
<1> QED BY <1>4, <1>5, <1>6, <1>7, <1>9, <1>10, <1>11, <1>12 DEF Next, KernelCall, Interrupt

(* So a wait for a mutex ends without an error only by the grant, in the   *)
(* order of the queue.                                                     *)
LEMMA GrantsInOrder ==
  ASSUME IInv, GrantsRight
  PROVE  /\ ResultPending'
         /\ \A m \in Mutex :
              /\ FirstServed(m)
              /\ \A t \in Task : Served(m, t) => loctsk'[m] = t /\ Member(lastmtx'[t], m)
<1>1. /\ Mutex \subseteq Wobj /\ wait_queue \in [Wobj -> Seq(Task)]
      /\ \A w \in Wobj : NoDuplicate(wait_queue[w])
  BY ConfigAssumption DEF IInv, TypeOK, WaitsOwned
<1>2. ResultPending'
  BY DEF GrantsRight, NotGranted, Granted, ResultPending
<1>3. ASSUME NEW m \in Mutex, NEW t \in Task, Served(m, t)
      PROVE  /\ wait_queue[m][1] = t
             /\ loctsk'[m] = t /\ Member(lastmtx'[t], m)
  BY <1>3 DEF GrantsRight, NotGranted, Granted, Served
<1>4. ASSUME NEW m \in Mutex PROVE FirstServed(m)
  <2> DEFINE q == wait_queue[m]
  <2>1. q \in Seq(Task) /\ NoDuplicate(q)
    BY <1>1
  <2>2. ASSUME NEW i \in DOMAIN q, NEW j \in DOMAIN q, i < j, Served(m, q[j])
        PROVE  FALSE
    <3>1. q[j] \in Task /\ i \in 1 .. Len(q) /\ j \in 1 .. Len(q)
      BY <2>1
    <3>2. q[1] = q[j]
      BY <1>3, <2>2, <3>1
    <3>3. 1 = j
      BY <2>1, <3>1, <3>2 DEF NoDuplicate
    <3> QED BY <2>2, <3>1, <3>3
  <2> QED BY <2>2 DEF FirstServed
<1> QED BY <1>2, <1>3, <1>4

(* A wait for a mutex ends without an error only when the task then holds  *)
(* it, and in the order of the queue.                                      *)
THEOREM GrantOrder == MutexSpec => GrantedInOrder
<1>1. Init => ResultPending
  BY DEF Init, ResultPending
<1>2. IInv /\ IInv' /\ ResultPending /\ [Next \/ MutexCall]_vars => GrantsRight
  BY NextGrants, MutexGrants
<1>3. IInv /\ GrantsRight =>
        \A m \in Mutex :
          /\ FirstServed(m)
          /\ \A t \in Task : Served(m, t) => loctsk'[m] = t /\ Member(lastmtx'[t], m)
  BY GrantsInOrder, Zenon
<1>4. IInv /\ GrantsRight => ResultPending'
  BY GrantsInOrder, Zenon
<1>5. MutexSpec => []IInv
  BY MutexSystemInvariant, PTL
<1>6. MutexSpec => []ResultPending
  BY <1>1, <1>2, <1>4, <1>5, PTL DEF MutexSpec
<1>7. IInv /\ IInv' /\ ResultPending /\ [Next \/ MutexCall]_vars =>
        [\A m \in Mutex :
          /\ FirstServed(m)
          /\ \A t \in Task : Served(m, t) => loctsk'[m] = t /\ Member(lastmtx'[t], m)]_vars
  BY <1>2, <1>3, Zenon
<1> QED BY <1>5, <1>6, <1>7, PTL DEF MutexSpec, GrantedInOrder

-----------------------------------------------------------------------------
(***************************************************************************)
(* Semaphores and fixed-size memory pools: a resource is never idle while  *)
(* a task waits for it, and tasks are served in the order of their queue,  *)
(* whatever the kernel's own calls do to the tasks that wait.              *)
(***************************************************************************)

(* A semaphore's count stays within its bounds, and there is no unit to be *)
(* had while a task waits.                                                 *)
SemInv ==
  /\ semcnt \in [Semaphore -> Nat]
  /\ \A s \in Semaphore : semcnt[s] <= maxsem[s]
  /\ NoUnitIdle

(* What a step of the semaphores is: the kernel's own, a unit that comes   *)
(* or goes while nobody waits, or a call on the queue of one of them.      *)
SemQuiet   == (KernelCall \/ UNCHANGED vars) /\ UNCHANGED semcnt
SemCounts(s) ==
  /\ UNCHANGED vars
  /\ \/ wait_queue[s] = <<>> /\ Room(s) /\ semcnt' = [semcnt EXCEPT ![s] = @ + 1]
     \/ take(s)
SemWaits(s)  == semcnt[s] = 0 /\ QueueWait(s) /\ UNCHANGED semcnt
SemServes(s) == QueueServe(s) /\ UNCHANGED semcnt
SemClears(s) == QueueClear(s) /\ semcnt' = [semcnt EXCEPT ![s] = isemcnt[s]]

(* Every step is one of these.                                             *)
LEMMA SemaphoreSteps ==
  ASSUME [SemNext]_semVars
  PROVE  \/ SemQuiet
         \/ \E s \in Semaphore : SemCounts(s) \/ SemWaits(s) \/ SemServes(s) \/ SemClears(s)
<1>1. CASE SemaphoreCall
  <2>1. PICK s \in Semaphore :
          \/ sig_sem(s) \/ pol_sem(s) \/ ini_sem(s)
          \/ \E timed \in BOOLEAN : wai_sem(s, timed)
    BY <1>1 DEF SemaphoreCall
  <2>2. sig_sem(s) => SemServes(s) \/ SemCounts(s)
    BY DEF sig_sem, SemServes, SemCounts, QueueServe
  <2>3. pol_sem(s) => SemCounts(s)
    BY DEF pol_sem, SemCounts, take
  <2>4. ini_sem(s) => SemClears(s)
    BY DEF ini_sem, SemClears, QueueClear
  <2>5. \A timed \in BOOLEAN : wai_sem(s, timed) => SemCounts(s) \/ SemWaits(s)
    BY DEF wai_sem, SemCounts, SemWaits, QueueWait, take
  <2> QED BY <2>1, <2>2, <2>3, <2>4, <2>5
<1>2. CASE (KernelCall /\ UNCHANGED semcnt) \/ UNCHANGED semVars
  BY <1>2 DEF SemQuiet, semVars
<1> QED BY <1>1, <1>2 DEF SemNext

(* A step of the semaphores keeps what holds of the tasks and the queues   *)
(* below them, serves every queue in order, and lets nobody join the queue *)
(* of a semaphore with a unit to be had.                                   *)
LEMMA SemaphoreQueues ==
  ASSUME IInv, SInv, ResultPending, [SemNext]_semVars
  PROVE  /\ IInv' /\ SInv' /\ ResultPending'
         /\ \A s \in Semaphore : FirstServed(s)
         /\ \A s \in Semaphore : NobodyJoins(s) \/ SemWaits(s)
<1>1. Semaphore \subseteq Wobj \ Mutex
  BY SemaphoreAssumption
<1>2. \A s \in Semaphore : NobodyServed(s) => FirstServed(s)
  <2>1. \A s \in Semaphore : wait_queue[s] \in Seq(Task)
    BY <1>1 DEF IInv, TypeOK
  <2> QED BY <2>1 DEF NobodyServed, FirstServed
<1>3. ASSUME KernelCall \/ UNCHANGED vars
      PROVE  /\ [Next]_vars /\ ResultPending'
             /\ \A s \in Semaphore : FirstServed(s) /\ NobodyJoins(s)
  BY <1>1, <1>2, <1>3, KernelQueues DEF Next
<1>4. ASSUME NEW s \in Semaphore, QueueCall(s)
      PROVE  /\ [Next]_vars /\ ResultPending'
             /\ \A v \in Semaphore : FirstServed(v)
             /\ \A v \in Semaphore \ {s} : NobodyJoins(v)
             /\ QueueServe(s) \/ QueueClear(s) => NobodyJoins(s)
  <2>1. s \in Wobj \ Mutex
    BY <1>1
  <2>2. /\ ObjectCall /\ ResultPending'
        /\ \A v \in Wobj \ {s} : NobodyJoins(v) /\ NobodyServed(v)
        /\ FirstServed(s)
        /\ QueueServe(s) \/ QueueClear(s) => NobodyJoins(s)
    BY <1>4, <2>1, QueueCalls
  <2> QED BY <1>1, <1>2, <2>2 DEF Next
<1>5. /\ [Next]_vars /\ ResultPending'
      /\ \A s \in Semaphore : FirstServed(s)
      /\ \A s \in Semaphore : NobodyJoins(s) \/ SemWaits(s)
  <2>1. CASE SemQuiet
    BY <1>3, <2>1 DEF SemQuiet
  <2>2. ASSUME NEW s \in Semaphore, SemCounts(s) PROVE UNCHANGED vars
    BY <2>2 DEF SemCounts, take
  <2>3. ASSUME NEW s \in Semaphore, SemWaits(s)
        PROVE  QueueCall(s)
    BY <2>3 DEF SemWaits, QueueCall
  <2>4. ASSUME NEW s \in Semaphore, SemServes(s) \/ SemClears(s)
        PROVE  QueueCall(s) /\ (QueueServe(s) \/ QueueClear(s))
    BY <2>4 DEF SemServes, SemClears, QueueCall
  <2> QED BY <1>3, <1>4, <2>1, <2>2, <2>3, <2>4, SemaphoreSteps
<1> QED BY <1>5, NextInvariant, NextState

(* A count leaves zero only when nobody waits or all are sent away.        *)
LEMMA SemaphoreCounts ==
  ASSUME IInv, IInv', SInv, ResultPending, SemInv, [SemNext]_semVars
  PROVE  SemInv'
<1>1. /\ Semaphore \subseteq Wobj \ Mutex /\ semcnt \in [Semaphore -> Nat]
      /\ \A s \in Semaphore : semcnt[s] <= maxsem[s] /\ maxsem[s] \in Nat
      /\ \A s \in Semaphore : isemcnt[s] \in Nat /\ isemcnt[s] <= maxsem[s]
      /\ \A s \in Semaphore : wait_queue[s] # <<>> => semcnt[s] = 0
  BY SemaphoreAssumption DEF SemInv, NoUnitIdle
<1>2. \A s \in Semaphore : NobodyJoins(s) /\ wait_queue[s] = <<>> => wait_queue'[s] = <<>>
  BY <1>1, EmptyStays
<1>3. \A s \in Semaphore : NobodyJoins(s) \/ SemWaits(s)
  BY SemaphoreQueues
<1>4. UNCHANGED vars => UNCHANGED wait_queue
  BY DEF vars, waitVars
<1>5. CASE SemQuiet
  <2>1. UNCHANGED semcnt
    BY <1>5 DEF SemQuiet
  <2>2. \A s \in Semaphore : SemWaits(s) => semcnt[s] = 0
    BY DEF SemWaits
  <2> QED BY <1>1, <1>2, <1>3, <2>1, <2>2 DEF SemInv, NoUnitIdle
<1>6. ASSUME NEW s \in Semaphore, SemCounts(s) PROVE SemInv'
  <2>1. /\ UNCHANGED wait_queue
        /\ \/ /\ wait_queue[s] = <<>> /\ semcnt[s] < maxsem[s]
              /\ semcnt' = [semcnt EXCEPT ![s] = semcnt[s] + 1]
           \/ semcnt[s] >= 1 /\ semcnt' = [semcnt EXCEPT ![s] = semcnt[s] - 1]
    BY <1>4, <1>6 DEF SemCounts, Room, take
  <2> QED BY <1>1, <2>1 DEF SemInv, NoUnitIdle
<1>7. ASSUME NEW s \in Semaphore, SemWaits(s) \/ SemServes(s) PROVE SemInv'
  <2>1. UNCHANGED semcnt
    BY <1>7 DEF SemWaits, SemServes
  <2>2. \A v \in Semaphore : SemWaits(v) => semcnt[v] = 0
    BY DEF SemWaits
  <2> QED BY <1>1, <1>2, <1>3, <2>1, <2>2 DEF SemInv, NoUnitIdle
<1>8. ASSUME NEW s \in Semaphore, SemClears(s) PROVE SemInv'
  <2>1. /\ semcnt' = [semcnt EXCEPT ![s] = isemcnt[s]] /\ wait_queue'[s] = <<>>
    BY <1>1, <1>8, ReleaseEmpties DEF SemClears
  <2>2. \A v \in Semaphore : SemWaits(v) => semcnt[v] = 0
    BY DEF SemWaits
  <2> QED BY <1>1, <1>2, <1>3, <2>1, <2>2 DEF SemInv, NoUnitIdle
<1> QED BY <1>5, <1>6, <1>7, <1>8, SemaphoreSteps

(* The invariant of the semaphores, on top of the kernel's.                *)
THEOREM SemaphoreInvariant == SemSpec => [](IInv /\ SInv /\ ResultPending /\ SemInv)
<1>1. SemInit => IInv /\ SInv /\ ResultPending /\ SemInv
  <2> SUFFICES ASSUME SemInit PROVE ResultPending /\ SemInv
    BY InitInvariant, InitState DEF SemInit
  <2>1. \A s \in Semaphore : wait_queue[s] = <<>>
    BY SemaphoreAssumption DEF SemInit, Init
  <2>2. ResultPending
    BY DEF SemInit, Init, ResultPending
  <2> QED BY <2>1, <2>2, SemaphoreAssumption DEF SemInit, SemInv, NoUnitIdle
<1>2. /\ IInv /\ SInv /\ ResultPending /\ SemInv
      /\ [SemNext]_semVars
      => (IInv /\ SInv /\ ResultPending /\ SemInv)'
  BY SemaphoreQueues, SemaphoreCounts
<1> QED BY <1>1, <1>2, PTL DEF SemSpec

(* No unit lies idle while a task waits, whatever time-outs, releases,     *)
(* terminations and reinitialisations came between.                        *)
THEOREM NoUnitLost == SemSpec => []NoUnitIdle
<1>1. SemInv => NoUnitIdle
  BY DEF SemInv
<1> QED BY <1>1, SemaphoreInvariant, PTL

(* sig_sem serves the first task of the queue, and nothing else serves.    *)
THEOREM SemaphoreOrder == SemSpec => SemFirstServed
<1>1. IInv /\ SInv /\ ResultPending /\ [SemNext]_semVars =>
        [\A s \in Semaphore : FirstServed(s)]_semVars
  BY SemaphoreQueues, Zenon
<1> QED BY <1>1, SemaphoreInvariant, PTL DEF SemSpec, SemFirstServed
-----------------------------------------------------------------------------
(* A pool of n blocks, and the blocks of it that were used and returned.   *)
PoolState(n) ==
  [fblkcnt : Nat, unused : 0 .. n, freelist : Int, next : [0 .. n - 1 -> Int]]

Free(c, n) == {b \in 0 .. n - 1 : b < c.unused /\ c.next[b] # INDEX_ALLOC}

(* L is its free list: each returned block once, linked through the next   *)
(* fields from freelist to the end.  Without it nothing says that the      *)
(* block freelist points to is free, or that what follows it is.           *)
Linked(c, n, L) ==
  /\ L \in Seq(0 .. n - 1) /\ NoDuplicate(L)
  /\ \A b \in 0 .. n - 1 : Member(L, b) <=> b \in Free(c, n)
  /\ c.freelist = IF L = <<>> THEN INDEX_NULL ELSE L[1]
  /\ \A i \in 1 .. Len(L) : c.next[L[i]] = IF i = Len(L) THEN INDEX_NULL ELSE L[i + 1]
  /\ c.fblkcnt = Len(L) + n - c.unused

WellFormed(c, n) == c \in PoolState(n) /\ \E L : Linked(c, n, L)

(* getMpfBlock and putMpfBlock, field by field.                            *)
LEMMA PoolFields ==
  ASSUME NEW n \in Nat, NEW c \in PoolState(n), NEW d
  PROVE  /\ \A b \in 0 .. n - 1 :
              c.fblkcnt > 0 /\ c.freelist = b /\ d = getMpfBlock(c) =>
                /\ d = [fblkcnt |-> c.fblkcnt - 1, unused |-> c.unused,
                        freelist |-> c.next[b], next |-> [c.next EXCEPT ![b] = INDEX_ALLOC]]
                /\ d \in PoolState(n)
         /\ \A b \in 0 .. n - 1 :
              /\ c.fblkcnt > 0 /\ c.freelist = INDEX_NULL
              /\ c.unused = b /\ d = getMpfBlock(c)
              => /\ d = [fblkcnt |-> c.fblkcnt - 1, unused |-> c.unused + 1,
                         freelist |-> c.freelist, next |-> [c.next EXCEPT ![b] = INDEX_ALLOC]]
                 /\ d \in PoolState(n)
         /\ \A b \in 0 .. n - 1 :
              d = putMpfBlock(c, b) =>
                /\ d = [fblkcnt |-> c.fblkcnt + 1, unused |-> c.unused,
                        freelist |-> b, next |-> [c.next EXCEPT ![b] = c.freelist]]
                /\ d \in PoolState(n)
<1> USE DEF INDEX_ALLOC, INDEX_NULL
<1>1. /\ c.fblkcnt \in Nat /\ c.unused \in 0 .. n /\ c.freelist \in Int
      /\ c.next \in [0 .. n - 1 -> Int]
  BY DEF PoolState
<1>2. ASSUME NEW b \in 0 .. n - 1, c.fblkcnt > 0, c.freelist = b, d = getMpfBlock(c)
      PROVE  /\ d = [fblkcnt |-> c.fblkcnt - 1, unused |-> c.unused,
                     freelist |-> c.next[b], next |-> [c.next EXCEPT ![b] = INDEX_ALLOC]]
             /\ d \in PoolState(n)
  <2>1. /\ NextBlock(c) = b /\ c.freelist # INDEX_NULL
        /\ c = [fblkcnt |-> c.fblkcnt, unused |-> c.unused,
                freelist |-> c.freelist, next |-> c.next]
    BY <1>2 DEF NextBlock, PoolState
  <2>2. d = [fblkcnt |-> c.fblkcnt - 1, unused |-> c.unused,
             freelist |-> c.next[b], next |-> [c.next EXCEPT ![b] = INDEX_ALLOC]]
    <3> DEFINE e == [c EXCEPT !.freelist = c.next[b]]
    <3>1. d = [e EXCEPT !.fblkcnt = @ - 1, !.next[b] = INDEX_ALLOC]
      BY <1>2, <2>1 DEF getMpfBlock
    <3>2. e = [fblkcnt |-> c.fblkcnt, unused |-> c.unused,
               freelist |-> c.next[b], next |-> c.next]
      BY <2>1
    <3> HIDE DEF e
    <3> QED BY <3>1, <3>2
  <2>3. /\ c.fblkcnt - 1 \in Nat /\ c.next[b] \in Int
        /\ [c.next EXCEPT ![b] = INDEX_ALLOC] \in [0 .. n - 1 -> Int]
    BY <1>1, <1>2
  <2>4. d \in PoolState(n)
    BY <1>1, <2>2, <2>3 DEF PoolState
  <2> QED BY <2>2, <2>4
<1>3. ASSUME NEW b \in 0 .. n - 1, c.fblkcnt > 0, c.freelist = INDEX_NULL, c.unused = b,
             d = getMpfBlock(c)
      PROVE  /\ d = [fblkcnt |-> c.fblkcnt - 1, unused |-> c.unused + 1,
                     freelist |-> c.freelist, next |-> [c.next EXCEPT ![b] = INDEX_ALLOC]]
             /\ d \in PoolState(n)
  <2>1. /\ NextBlock(c) = b /\ ~ c.freelist # INDEX_NULL
        /\ c = [fblkcnt |-> c.fblkcnt, unused |-> c.unused,
                freelist |-> c.freelist, next |-> c.next]
    BY <1>3 DEF NextBlock, PoolState
  <2>2. d = [fblkcnt |-> c.fblkcnt - 1, unused |-> c.unused + 1,
             freelist |-> c.freelist, next |-> [c.next EXCEPT ![b] = INDEX_ALLOC]]
    <3> DEFINE e == [c EXCEPT !.unused = @ + 1]
    <3>1. d = [e EXCEPT !.fblkcnt = @ - 1, !.next[b] = INDEX_ALLOC]
      BY <1>3, <2>1 DEF getMpfBlock
    <3>2. e = [fblkcnt |-> c.fblkcnt, unused |-> c.unused + 1,
               freelist |-> c.freelist, next |-> c.next]
      BY <2>1
    <3> HIDE DEF e
    <3> QED BY <3>1, <3>2
  <2>3. /\ c.fblkcnt - 1 \in Nat /\ c.unused + 1 \in 0 .. n
        /\ [c.next EXCEPT ![b] = INDEX_ALLOC] \in [0 .. n - 1 -> Int]
    BY <1>1, <1>3, SMTT(60)
  <2>4. d \in PoolState(n)
    BY <1>1, <2>2, <2>3 DEF PoolState
  <2> QED BY <2>2, <2>4
<1>4. ASSUME NEW b \in 0 .. n - 1, d = putMpfBlock(c, b)
      PROVE  /\ d = [fblkcnt |-> c.fblkcnt + 1, unused |-> c.unused,
                     freelist |-> b, next |-> [c.next EXCEPT ![b] = c.freelist]]
             /\ d \in PoolState(n)
  <2>1. d = [fblkcnt |-> c.fblkcnt + 1, unused |-> c.unused,
             freelist |-> b, next |-> [c.next EXCEPT ![b] = c.freelist]]
    BY <1>4 DEF PoolState, putMpfBlock
  <2>2. /\ c.fblkcnt + 1 \in Nat /\ b \in Int
        /\ [c.next EXCEPT ![b] = c.freelist] \in [0 .. n - 1 -> Int]
    BY <1>1
  <2>3. d \in PoolState(n)
    BY <1>1, <2>1, <2>2 DEF PoolState
  <2> QED BY <2>1, <2>3
<1> QED BY <1>2, <1>3, <1>4

(* getMpfBlock takes the first block of the list when there is one.        *)
LEMMA TakesFirst ==
  ASSUME NEW n \in Nat, NEW c \in PoolState(n), NEW L, Linked(c, n, L), L # <<>>,
         c.fblkcnt > 0, NEW d, d = getMpfBlock(c)
  PROVE  /\ NextBlock(c) = L[1] /\ L[1] \in Free(c, n)
         /\ d \in PoolState(n) /\ d.unused = c.unused
         /\ d.next = [c.next EXCEPT ![L[1]] = INDEX_ALLOC]
         /\ Linked(d, n, Tail(L))
<1> DEFINE b == L[1]
           M == Tail(L)
<1>1. /\ c.next \in [0 .. n - 1 -> Int] /\ c.unused \in 0 .. n /\ c.fblkcnt \in Nat
      /\ L \in Seq(0 .. n - 1) /\ NoDuplicate(L) /\ Len(L) \in Nat /\ Len(L) >= 1
      /\ \A i \in 1 .. Len(L) : L[i] \in 0 .. n - 1
      /\ \A u \in 0 .. n - 1 : Member(L, u) <=> u < c.unused /\ c.next[u] # INDEX_ALLOC
      /\ c.freelist = b
      /\ \A i \in 1 .. Len(L) : c.next[L[i]] = IF i = Len(L) THEN INDEX_NULL ELSE L[i + 1]
      /\ c.fblkcnt = Len(L) + n - c.unused
  <2>1. c.next \in [0 .. n - 1 -> Int] /\ c.unused \in 0 .. n /\ c.fblkcnt \in Nat
    BY DEF PoolState
  <2>2. L \in Seq(0 .. n - 1) /\ NoDuplicate(L)
    BY DEF Linked
  <2>3. Len(L) \in Nat /\ Len(L) >= 1 /\ \A i \in 1 .. Len(L) : L[i] \in 0 .. n - 1
    BY ONLY <2>2, L # <<>>
  <2>4. /\ \A u \in 0 .. n - 1 : Member(L, u) <=> u < c.unused /\ c.next[u] # INDEX_ALLOC
        /\ c.freelist = b
        /\ \A i \in 1 .. Len(L) : c.next[L[i]] = IF i = Len(L) THEN INDEX_NULL ELSE L[i + 1]
        /\ c.fblkcnt = Len(L) + n - c.unused
    BY DEF Linked, Free
  <2> QED BY ONLY <2>1, <2>2, <2>3, <2>4, Zenon
<1>2. 1 \in 1 .. Len(L) /\ b \in 0 .. n - 1 /\ Member(L, b)
  BY <1>1 DEF Member
<1>3. /\ Len(M) = Len(L) - 1 /\ \A i \in 1 .. Len(L) - 1 : M[i] = L[i + 1]
  BY <1>1
<1>4. /\ M \in Seq(0 .. n - 1) /\ NoDuplicate(M)
      /\ \A u : Member(M, u) <=> Member(L, u) /\ u # L[1]
  BY <1>1, TailQueue
<1> HIDE DEF b, M
<1>5. /\ d = [fblkcnt |-> c.fblkcnt - 1, unused |-> c.unused,
              freelist |-> c.next[b], next |-> [c.next EXCEPT ![b] = INDEX_ALLOC]]
      /\ d \in PoolState(n)
  <2>1. b \in 0 .. n - 1 /\ c.fblkcnt > 0 /\ c.freelist = b /\ d = getMpfBlock(c)
    BY <1>1, <1>2
  <2>2. \A u \in 0 .. n - 1 :
          c.fblkcnt > 0 /\ c.freelist = u /\ d = getMpfBlock(c) =>
            /\ d = [fblkcnt |-> c.fblkcnt - 1, unused |-> c.unused,
                    freelist |-> c.next[u], next |-> [c.next EXCEPT ![u] = INDEX_ALLOC]]
            /\ d \in PoolState(n)
    BY PoolFields
  <2> QED BY <2>1, <2>2
<1>6. /\ d.fblkcnt = c.fblkcnt - 1 /\ d.unused = c.unused /\ d.freelist = c.next[b]
      /\ d.next = [c.next EXCEPT ![b] = INDEX_ALLOC]
  BY <1>5
<1>7. \A i \in 1 .. Len(M) :
        /\ i + 1 \in 1 .. Len(L) /\ M[i] = L[i + 1] /\ M[i] \in 0 .. n - 1 /\ M[i] # b
        /\ i + 1 = Len(L) <=> i = Len(M)
        /\ i # Len(M) => M[i + 1] = L[(i + 1) + 1]
  <2> TAKE i \in 1 .. Len(M)
  <2>1. i + 1 \in 1 .. Len(L) /\ i \in 1 .. Len(L) - 1 /\ (i + 1 = Len(L) <=> i = Len(M))
    BY <1>1, <1>3
  <2>2. M[i] = L[i + 1] /\ M[i] \in 0 .. n - 1
    BY <1>1, <1>3, <2>1
  <2>3. L[i + 1] # L[1]
    BY <1>1, <1>2, <2>1 DEF NoDuplicate
  <2>4. i # Len(M) => i + 1 \in 1 .. Len(L) - 1
    BY <1>1, <1>3, <2>1
  <2> QED BY <1>3, <2>1, <2>2, <2>3, <2>4 DEF b
<1>8. \A i \in 1 .. Len(M) : d.next[M[i]] = IF i = Len(M) THEN INDEX_NULL ELSE M[i + 1]
  <2> TAKE i \in 1 .. Len(M)
  <2>1. d.next[M[i]] = c.next[L[i + 1]]
    <3>1. M[i] \in 0 .. n - 1 /\ M[i] # b /\ M[i] = L[i + 1]
      BY <1>7
    <3>2. d.next = [c.next EXCEPT ![b] = INDEX_ALLOC] /\ c.next \in [0 .. n - 1 -> Int]
      BY <1>1, <1>6
    <3> QED BY <3>1, <3>2
  <2>2. c.next[L[i + 1]] = IF i + 1 = Len(L) THEN INDEX_NULL ELSE L[(i + 1) + 1]
    BY <1>1, <1>7
  <2> QED BY <1>7, <2>1, <2>2
<1>9. \A u \in 0 .. n - 1 : Member(M, u) <=> u < d.unused /\ d.next[u] # INDEX_ALLOC
  BY <1>1, <1>2, <1>4, <1>6 DEF b
<1>10. d.freelist = IF M = <<>> THEN INDEX_NULL ELSE M[1]
  <2>1. M = <<>> <=> Len(M) = 0
    BY <1>4
  <2>2. c.next[L[1]] = IF 1 = Len(L) THEN INDEX_NULL ELSE L[1 + 1]
    BY <1>1, <1>2
  <2>3. 1 # Len(L) => 1 \in 1 .. Len(L) - 1
    <3>1. Len(L) \in Nat /\ Len(L) >= 1
      BY <1>1
    <3> QED BY <3>1
  <2> QED BY <1>1, <1>3, <1>6, <2>1, <2>2, <2>3, SMTT(60) DEF b
<1>11. d.fblkcnt = Len(M) + n - d.unused
  <2> DEFINE x == Len(L)
             y == Len(M)
  <2>1. x \in Nat /\ y = x - 1 /\ n \in Nat /\ c.unused \in 0 .. n /\ c.fblkcnt = x + n - c.unused
        /\ d.fblkcnt = c.fblkcnt - 1 /\ d.unused = c.unused
    BY ONLY <1>1, <1>3, <1>6, n \in Nat, Zenon
  <2> HIDE DEF x, y
  <2> QED BY ONLY <2>1 DEF y
<1>12. Linked(d, n, M)
  BY <1>4, <1>8, <1>9, <1>10, <1>11 DEF Linked, Free
<1>13. NextBlock(c) = b /\ b \in Free(c, n)
  BY <1>1, <1>2 DEF NextBlock, Free, INDEX_NULL
<1> QED BY <1>5, <1>6, <1>12, <1>13 DEF b, M

(* With an empty list it takes the first block that was never used.        *)
LEMMA TakesUnused ==
  ASSUME NEW n \in Nat, NEW c \in PoolState(n), Linked(c, n, <<>>),
         c.fblkcnt > 0, NEW d, d = getMpfBlock(c)
  PROVE  /\ NextBlock(c) = c.unused /\ c.unused \in 0 .. n - 1
         /\ d \in PoolState(n) /\ d.unused = c.unused + 1
         /\ d.next = [c.next EXCEPT ![c.unused] = INDEX_ALLOC]
         /\ Linked(d, n, <<>>)
<1>1. /\ c.next \in [0 .. n - 1 -> Int] /\ c.unused \in 0 .. n /\ c.fblkcnt \in Nat
      /\ c.freelist = INDEX_NULL /\ c.fblkcnt = n - c.unused
      /\ \A u \in 0 .. n - 1 : ~ (u < c.unused /\ c.next[u] # INDEX_ALLOC)
  <2>1. \A u : ~ Member(<<>>, u)
    BY DEF Member
  <2> QED BY <2>1 DEF Linked, Free, PoolState
<1>2. c.unused \in 0 .. n - 1 /\ NextBlock(c) = c.unused
  BY <1>1 DEF NextBlock
<1>3. /\ d = [fblkcnt |-> c.fblkcnt - 1, unused |-> c.unused + 1,
              freelist |-> c.freelist, next |-> [c.next EXCEPT ![c.unused] = INDEX_ALLOC]]
      /\ d \in PoolState(n)
  BY <1>1, <1>2, PoolFields, SMTT(60)
<1>4. /\ d.fblkcnt = c.fblkcnt - 1 /\ d.unused = c.unused + 1 /\ d.freelist = c.freelist
      /\ d.next = [c.next EXCEPT ![c.unused] = INDEX_ALLOC]
  BY <1>3
<1>5. \A u \in 0 .. n - 1 : ~ (u < d.unused /\ d.next[u] # INDEX_ALLOC)
  BY <1>1, <1>2, <1>4, SMTT(60)
<1>6. d.fblkcnt = n - d.unused
  BY <1>1, <1>4
<1>7. Linked(d, n, <<>>)
  <2>1. <<>> \in Seq(0 .. n - 1) /\ NoDuplicate(<<>>) /\ \A u : ~ Member(<<>>, u)
    BY DEF Member, NoDuplicate
  <2>2. \A u \in 0 .. n - 1 : u \notin Free(d, n)
    BY <1>5 DEF Free
  <2> QED BY <1>1, <1>4, <1>6, <2>1, <2>2 DEF Linked
<1> QED BY <1>2, <1>3, <1>4, <1>7

(* In both cases the block was free and is marked now.                     *)
LEMMA GetsBlock ==
  ASSUME NEW n \in Nat, NEW c, WellFormed(c, n), c.fblkcnt > 0, NEW d, d = getMpfBlock(c)
  PROVE  /\ WellFormed(d, n) /\ d.unused >= c.unused
         /\ d.next = [c.next EXCEPT ![NextBlock(c)] = INDEX_ALLOC]
<1>1. PICK L : Linked(c, n, L)
  BY DEF WellFormed
<1>2. c \in PoolState(n) /\ c.unused \in Nat
  BY DEF WellFormed, PoolState
<1>3. CASE L = <<>>
  <2>1. Linked(c, n, <<>>)
    BY <1>1, <1>3
  <2>2. /\ NextBlock(c) = c.unused
        /\ d \in PoolState(n) /\ d.unused = c.unused + 1
        /\ d.next = [c.next EXCEPT ![c.unused] = INDEX_ALLOC]
        /\ Linked(d, n, <<>>)
    BY <1>2, <2>1, TakesUnused
  <2>3. WellFormed(d, n)
    BY <2>2 DEF WellFormed
  <2>4. d.unused >= c.unused
    BY <1>2, <2>2
  <2> QED BY <2>2, <2>3, <2>4
<1>4. CASE L # <<>>
  <2>1. /\ NextBlock(c) = L[1]
        /\ d \in PoolState(n) /\ d.unused = c.unused
        /\ d.next = [c.next EXCEPT ![L[1]] = INDEX_ALLOC]
        /\ Linked(d, n, Tail(L))
    BY <1>1, <1>2, <1>4, TakesFirst
  <2>2. WellFormed(d, n)
    BY <2>1 DEF WellFormed
  <2>3. d.unused >= c.unused
    BY <1>2, <2>1
  <2> QED BY <2>1, <2>2, <2>3
<1> QED BY <1>3, <1>4

(* putMpfBlock links a marked block in at the head of the list.            *)
LEMMA PutsBlock ==
  ASSUME NEW n \in Nat, NEW c, WellFormed(c, n), NEW b \in 0 .. n - 1,
         b < c.unused, c.next[b] = INDEX_ALLOC
  PROVE  /\ WellFormed(putMpfBlock(c, b), n)
         /\ putMpfBlock(c, b).unused = c.unused
         /\ putMpfBlock(c, b).next = [c.next EXCEPT ![b] = c.freelist]
<1> USE DEF INDEX_ALLOC, INDEX_NULL
<1>1. PICK L : Linked(c, n, L)
  BY DEF WellFormed
<1>2. /\ c \in PoolState(n) /\ L \in Seq(0 .. n - 1) /\ NoDuplicate(L) /\ Len(L) \in Nat
      /\ \A i \in 1 .. Len(L) : L[i] \in 0 .. n - 1
      /\ \A u \in 0 .. n - 1 : Member(L, u) <=> u < c.unused /\ c.next[u] # INDEX_ALLOC
      /\ c.freelist = IF L = <<>> THEN INDEX_NULL ELSE L[1]
      /\ \A i \in 1 .. Len(L) : c.next[L[i]] = IF i = Len(L) THEN INDEX_NULL ELSE L[i + 1]
      /\ c.fblkcnt = Len(L) + n - c.unused
  BY <1>1, SMTT(60) DEF WellFormed, Linked, Free
<1> DEFINE d == putMpfBlock(c, b)
           M == <<b>> \o L
<1>3. /\ d.unused = c.unused /\ d.fblkcnt = c.fblkcnt + 1 /\ d.freelist = b
      /\ d.next = [c.next EXCEPT ![b] = c.freelist] /\ d \in PoolState(n)
  <2> HIDE DEF d
  <2>1. d = putMpfBlock(c, b) => /\ d = [fblkcnt |-> c.fblkcnt + 1, unused |-> c.unused,
                                         freelist |-> b, next |-> [c.next EXCEPT ![b] = c.freelist]]
                                 /\ d \in PoolState(n)
    BY <1>2, PoolFields
  <2> QED BY <2>1 DEF d
<1>4. ~ Member(L, b)
  BY <1>2
<1>5. /\ M \in Seq(0 .. n - 1) /\ NoDuplicate(M)
      /\ \A u : Member(M, u) <=> Member(L, u) \/ u = b
  BY <1>2, <1>4, PushProperties
<1>6. /\ Len(M) = Len(L) + 1 /\ M[1] = b /\ M # <<>>
      /\ \A i \in 1 .. Len(L) : M[i + 1] = L[i]
  BY <1>2
<1> HIDE DEF d, M
<1>7. \A i \in 1 .. Len(L) : L[i] # b
  BY <1>2, <1>4 DEF Member
<1>8. \A i \in 1 .. Len(M) : d.next[M[i]] = IF i = Len(M) THEN INDEX_NULL ELSE M[i + 1]
  <2> TAKE i \in 1 .. Len(M)
  <2>1. CASE i = 1
    <3>1. d.next[M[1]] = c.freelist
      BY <1>2, <1>3, <1>6 DEF PoolState
    <3>2. L # <<>> => 1 \in 1 .. Len(L) /\ M[1 + 1] = L[1]
      BY <1>2, <1>6
    <3>3. L = <<>> <=> Len(L) = 0
      BY <1>2
    <3> QED BY <1>2, <1>6, <2>1, <3>1, <3>2, <3>3
  <2>2. CASE i # 1
    <3>1. /\ i - 1 \in 1 .. Len(L) /\ M[i] = L[i - 1]
      <4>1. i - 1 \in 1 .. Len(L) /\ i = (i - 1) + 1
        BY <1>2, <1>6, <2>2
      <4> QED BY <1>6, <4>1
    <3>2. d.next[M[i]] = c.next[L[i - 1]]
      <4> DEFINE j == i - 1
                 x == M[i]
      <4>1. j \in 1 .. Len(L) /\ x = L[j]
        BY ONLY <3>1, Zenon DEF j, x
      <4>2. c.next \in [0 .. n - 1 -> Int] /\ d.next = [c.next EXCEPT ![b] = c.freelist]
        BY <1>2, <1>3 DEF PoolState
      <4> HIDE DEF j, x
      <4>3. x \in 0 .. n - 1 /\ x # b
        BY <1>2, <1>7, <4>1
      <4>4. d.next[x] = c.next[x]
        BY ONLY <4>2, <4>3
      <4> QED BY ONLY <4>1, <4>4, Zenon DEF j, x
    <3>3. i # Len(M) => i \in 1 .. Len(L) /\ M[i + 1] = L[i] /\ i - 1 # Len(L)
      <4>1. i # Len(M) => i \in 1 .. Len(L) /\ i - 1 # Len(L)
        <5>1. Len(M) = Len(L) + 1 /\ Len(L) \in Nat
          BY <1>2, <1>6
        <5> QED BY <5>1
      <4> QED BY <1>6, <4>1
    <3>4. i = Len(M) <=> i - 1 = Len(L)
      BY <1>2, <1>6, <2>2
    <3>5. L[(i - 1) + 1] = L[i]
      BY <2>2
    <3> QED BY <1>2, <3>1, <3>2, <3>3, <3>4, <3>5
  <2> QED BY <2>1, <2>2
<1>9. \A u \in 0 .. n - 1 : Member(M, u) <=> u < d.unused /\ d.next[u] # INDEX_ALLOC
  <2>1. c.freelist # INDEX_ALLOC
    <3>1. L # <<>> => L[1] \in 0 .. n - 1
      BY <1>2
    <3> QED BY <1>2, <3>1
  <2> QED BY <1>2, <1>3, <1>5, <2>1 DEF PoolState
<1>10. d.fblkcnt = Len(M) + n - d.unused
  BY <1>2, <1>3, <1>6 DEF PoolState
<1>11. Linked(d, n, M)
  BY <1>3, <1>5, <1>6, <1>8, <1>9, <1>10 DEF Linked, Free
<1> QED BY <1>3, <1>11 DEF WellFormed, d

(* A pool that is made anew has no free list, and all blocks unused.       *)
LEMMA FreshPool ==
  ASSUME NEW n \in Nat, NEW c \in PoolState(n),
         c.fblkcnt = n, c.unused = 0, c.freelist = INDEX_NULL
  PROVE  WellFormed(c, n)
<1>1. \A b \in 0 .. n - 1 : ~ Member(<<>>, b) /\ b \notin Free(c, n)
  BY DEF Member, Free
<1>2. <<>> \in Seq(0 .. n - 1) /\ NoDuplicate(<<>>)
  BY DEF NoDuplicate
<1>3. Linked(c, n, <<>>)
  BY <1>1, <1>2 DEF Linked
<1> QED BY <1>3 DEF WellFormed

(* The state of the pools.  A release between its check and its lock holds *)
(* its block marked, and no two releases hold the same: without that the   *)
(* block could be put back twice.                                          *)
MpfTypes ==
  /\ mpfcb \in [Mpf -> UNION {PoolState(blkcnt[m]) : m \in Mpf}]
  /\ blk \in [Task -> Int \cup {NoBlk}]
  /\ releasing \subseteq Task \X Mpf \X Nat

PoolsWellFormed == \A m \in Mpf : WellFormed(mpfcb[m], blkcnt[m])

Marked(m, b) == b \in Index(m) /\ b < mpfcb[m].unused /\ mpfcb[m].next[b] = INDEX_ALLOC

ReleasesApart ==
  /\ \A r \in releasing : Marked(r[2], r[3])
  /\ \A r, q \in releasing : r[2] = q[2] /\ r[3] = q[3] => r = q

PoolInv == MpfTypes /\ PoolsWellFormed /\ ReleasesApart /\ NoBlockIdle

(* What a step of the pools is.                                            *)
MpfQuiet ==
  /\ KernelCall \/ UNCHANGED vars
  /\ UNCHANGED mpfcb /\ releasing' \subseteq releasing
  /\ \/ blk' = [t \in Task |-> IF Terminated(t) THEN NoBlk ELSE blk[t]]
     \/ \E t : blk' = [blk EXCEPT ![t] = NoBlk]
     \/ UNCHANGED blk
MpfChecks(m) == \E b \in Index(m) : rel_mpf_check(m, b)
MpfWaits(m) ==
  mpfcb[m].fblkcnt = 0 /\ QueueWait(m) /\ UNCHANGED <<mpfcb, blk, releasing>>
MpfServes(m, b) ==
  /\ <<runtsk, m, b>> \in releasing /\ QueueServe(m)
  /\ blk' = [blk EXCEPT ![Head(wait_queue[m])] = b]
  /\ UNCHANGED mpfcb /\ releasing' = releasing \ {<<runtsk, m, b>>}
MpfStores(m, b) ==
  /\ <<runtsk, m, b>> \in releasing /\ wait_queue[m] = <<>> /\ UNCHANGED <<vars, blk>>
  /\ mpfcb' = [mpfcb EXCEPT ![m] = putMpfBlock(@, b)]
  /\ releasing' = releasing \ {<<runtsk, m, b>>}
MpfClears(m) ==
  /\ QueueClear(m) /\ \A r \in releasing : r[2] # m
  /\ mpfcb' = [mpfcb EXCEPT ![m] = Reinitialised(@, m)]
  /\ UNCHANGED <<blk, releasing>>

(* Every step is one of these.                                             *)
LEMMA MempfixSteps ==
  ASSUME [MpfNext]_mpfVars
  PROVE  \/ MpfQuiet
         \/ \E m \in Mpf :
              \/ acquire(m) \/ MpfChecks(m) \/ MpfWaits(m) \/ MpfClears(m)
              \/ \E b \in Index(m) : MpfServes(m, b) \/ MpfStores(m, b)
<1>1. CASE get_mpf_return
  BY <1>1 DEF get_mpf_return, MpfQuiet
<1>2. ASSUME NEW m \in Mpf,
             \/ pget_mpf(m) \/ ini_mpf(m)
             \/ \E timed \in BOOLEAN : get_mpf(m, timed)
             \/ \E b \in Index(m) : rel_mpf_check(m, b) \/ rel_mpf(m, b)
      PROVE  \/ acquire(m) \/ MpfChecks(m) \/ MpfWaits(m) \/ MpfClears(m)
             \/ \E b \in Index(m) : MpfServes(m, b) \/ MpfStores(m, b)
  <2>1. pget_mpf(m) => acquire(m)
    BY DEF pget_mpf
  <2>2. ini_mpf(m) => MpfClears(m)
    BY DEF ini_mpf, MpfClears, QueueClear
  <2>3. \A timed \in BOOLEAN : get_mpf(m, timed) => acquire(m) \/ MpfWaits(m)
    BY DEF get_mpf, MpfWaits, QueueWait
  <2>4. \A b \in Index(m) : rel_mpf_check(m, b) => MpfChecks(m)
    BY DEF MpfChecks
  <2>5. \A b \in Index(m) : rel_mpf(m, b) => MpfServes(m, b) \/ MpfStores(m, b)
    BY DEF rel_mpf, MpfServes, MpfStores, QueueServe
  <2> QED BY <1>2, <2>1, <2>2, <2>3, <2>4, <2>5
<1>3. CASE (Boot \/ Interrupt \/ (MayCall /\ KernelCall)) /\ AbandonCalls
  BY <1>3 DEF KernelCall, AbandonCalls, MpfQuiet
<1>4. CASE UNCHANGED mpfVars
  BY <1>4 DEF mpfVars, mpfOwn, MpfQuiet
<1> QED BY <1>1, <1>2, <1>3, <1>4 DEF MpfNext, MempfixCall

(* A step of the pools keeps what holds of the tasks and the queues below  *)
(* them, serves every queue in order, lets nobody join the queue of a pool *)
(* with a block to be had, and serves only the head, in rel_mpf.           *)
LEMMA MempfixQueues ==
  ASSUME IInv, SInv, ResultPending, [MpfNext]_mpfVars
  PROVE  /\ IInv' /\ SInv' /\ ResultPending'
         /\ \A m \in Mpf : FirstServed(m)
         /\ \A m \in Mpf : NobodyJoins(m) \/ MpfWaits(m)
         /\ \A m \in Mpf, u \in Task :
              Served(m, u) => \E b \in Index(m) : MpfServes(m, b) /\ u = Head(wait_queue[m])
<1>1. Mpf \subseteq Wobj \ Mutex
  BY MempfixAssumption
<1>2. \A m \in Mpf : NobodyServed(m) => FirstServed(m)
  <2>1. \A m \in Mpf : wait_queue[m] \in Seq(Task)
    BY <1>1 DEF IInv, TypeOK
  <2> QED BY <2>1 DEF NobodyServed, FirstServed
<1>3. ASSUME KernelCall \/ UNCHANGED vars
      PROVE  /\ [Next]_vars /\ ResultPending'
             /\ \A m \in Mpf : FirstServed(m) /\ NobodyJoins(m) /\ NobodyServed(m)
  BY <1>1, <1>2, <1>3, KernelQueues DEF Next
<1>4. ASSUME NEW m \in Mpf, QueueCall(m)
      PROVE  /\ [Next]_vars /\ ResultPending'
             /\ \A v \in Mpf : FirstServed(v)
             /\ \A v \in Mpf \ {m} : NobodyJoins(v) /\ NobodyServed(v)
             /\ \A u \in Task : Served(m, u) => QueueServe(m) /\ u = Head(wait_queue[m])
             /\ QueueServe(m) \/ QueueClear(m) => NobodyJoins(m)
  <2>1. m \in Wobj \ Mutex
    BY <1>1
  <2>2. /\ ObjectCall /\ ResultPending'
        /\ \A v \in Wobj \ {m} : NobodyJoins(v) /\ NobodyServed(v)
        /\ FirstServed(m)
        /\ \A u \in Task : Served(m, u) => QueueServe(m) /\ u = Head(wait_queue[m])
        /\ QueueServe(m) \/ QueueClear(m) => NobodyJoins(m)
    BY <1>4, <2>1, QueueCalls
  <2> QED BY <1>1, <1>2, <2>2 DEF Next
<1> DEFINE Order ==
             /\ \A m \in Mpf : FirstServed(m)
             /\ \A m \in Mpf : NobodyJoins(m) \/ MpfWaits(m)
             /\ \A m \in Mpf, u \in Task :
                  Served(m, u) => \E b \in Index(m) : MpfServes(m, b) /\ u = Head(wait_queue[m])
<1>5. ASSUME KernelCall \/ UNCHANGED vars PROVE [Next]_vars /\ ResultPending' /\ Order
  BY <1>3, <1>5 DEF NobodyServed
<1>6. ASSUME NEW m \in Mpf, MpfWaits(m) \/ MpfClears(m)
      PROVE  [Next]_vars /\ ResultPending' /\ Order
  <2>1. QueueCall(m) /\ (QueueServe(m) => UNCHANGED releasing)
    BY <1>6 DEF MpfWaits, MpfClears, QueueCall
  <2>2. MpfClears(m) => QueueClear(m)
    BY DEF MpfClears
  <2>3. \A u \in Task : ~ Served(m, u)
    <3>1. ASSUME MpfWaits(m) PROVE NobodyServed(m)
      BY <1>1, <3>1, WaitCalls DEF MpfWaits
    <3>2. ASSUME MpfClears(m) PROVE NobodyServed(m)
      <4>1. /\ m \in Wobj \ Mutex /\ Waiters(m) \in SUBSET Waiters(m)
            /\ "error" \in {"ok", "error"}
            /\ wobj_release(m, Waiters(m), "error")
        BY <1>1, <3>2 DEF MpfClears, QueueClear
      <4>2. \A u \in Task : Served(m, u) <=> u \in Waiters(m) /\ "error" = "ok"
        BY <4>1, ReleaseCalls
      <4> QED BY <4>2 DEF NobodyServed
    <3> QED BY <1>6, <3>1, <3>2 DEF NobodyServed
  <2> QED BY <1>4, <1>6, <2>1, <2>2, <2>3 DEF NobodyServed
<1>7. ASSUME NEW m \in Mpf, NEW b \in Index(m), MpfServes(m, b)
      PROVE  [Next]_vars /\ ResultPending' /\ Order
  <2>1. QueueCall(m) /\ QueueServe(m)
    BY <1>7 DEF MpfServes, QueueCall
  <2> QED BY <1>4, <1>7, <2>1 DEF NobodyServed
<1>8. ASSUME NEW m \in Mpf,
             \/ acquire(m) \/ MpfChecks(m)
             \/ \E b \in Index(m) : MpfStores(m, b)
      PROVE  UNCHANGED vars
  BY <1>8 DEF acquire, MpfChecks, rel_mpf_check, MpfStores
<1>9. MpfQuiet => KernelCall \/ UNCHANGED vars
  BY DEF MpfQuiet
<1>10. [Next]_vars /\ ResultPending' /\ Order
  <2> HIDE DEF Order
  <2> QED BY <1>5, <1>6, <1>7, <1>8, <1>9, MempfixSteps
<1> QED BY <1>10, NextInvariant, NextState

(* One pool changes, and stays well formed.                                *)
LEMMA PoolChange ==
  ASSUME NEW m \in Mpf, NEW d, WellFormed(d, blkcnt[m]),
         mpfcb \in [Mpf -> UNION {PoolState(blkcnt[k]) : k \in Mpf}], PoolsWellFormed,
         mpfcb' = [mpfcb EXCEPT ![m] = d]
  PROVE  /\ (mpfcb \in [Mpf -> UNION {PoolState(blkcnt[k]) : k \in Mpf}])'
         /\ PoolsWellFormed'
         /\ mpfcb'[m] = d /\ \A k \in Mpf \ {m} : mpfcb'[k] = mpfcb[k]
<1> DEFINE Pools == UNION {PoolState(blkcnt[k]) : k \in Mpf}
<1>1. d \in Pools
  BY DEF WellFormed
<1> HIDE DEF Pools
<1>2. mpfcb \in [Mpf -> Pools] /\ mpfcb' = [mpfcb EXCEPT ![m] = d]
  BY DEF Pools
<1>3. /\ mpfcb' \in [Mpf -> Pools]
      /\ mpfcb'[m] = d /\ \A k \in Mpf \ {m} : mpfcb'[k] = mpfcb[k]
  BY <1>1, <1>2
<1>4. PoolsWellFormed'
  BY <1>3 DEF PoolsWellFormed
<1> QED BY <1>3, <1>4 DEF Pools

(* What the fields of a well-formed pool are.                              *)
LEMMA PoolTypes ==
  ASSUME PoolsWellFormed, NEW m \in Mpf
  PROVE  /\ blkcnt[m] \in Nat /\ mpfcb[m] \in PoolState(blkcnt[m])
         /\ mpfcb[m].fblkcnt \in Nat /\ mpfcb[m].unused \in 0 .. blkcnt[m]
         /\ mpfcb[m].next \in [Index(m) -> Int]
<1>1. blkcnt[m] \in Nat /\ mpfcb[m] \in PoolState(blkcnt[m])
  BY MempfixAssumption DEF PoolsWellFormed, WellFormed
<1> QED BY <1>1 DEF PoolState, Index

(* Taking a block disturbs no release: its block stays marked.             *)
LEMMA AcquireKeeps ==
  ASSUME PoolInv, NEW m \in Mpf, acquire(m)
  PROVE  PoolInv'
<1> DEFINE c == mpfcb[m]
           d == getMpfBlock(mpfcb[m])
<1>1. /\ mpfcb[m].fblkcnt > 0 /\ mpfcb' = [mpfcb EXCEPT ![m] = d]
      /\ UNCHANGED <<vars, blk, releasing>>
  BY DEF acquire
<1>2. /\ blkcnt[m] \in Nat /\ WellFormed(c, blkcnt[m])
      /\ c.fblkcnt \in Nat /\ c.unused \in 0 .. blkcnt[m] /\ c.next \in [Index(m) -> Int]
  BY PoolTypes DEF PoolInv, PoolsWellFormed
<1> HIDE DEF d
<1>3. /\ WellFormed(d, blkcnt[m]) /\ d.unused >= c.unused
      /\ d.next = [c.next EXCEPT ![NextBlock(c)] = INDEX_ALLOC]
  <2> HIDE DEF c
  <2>1. d = getMpfBlock(c) /\ c.fblkcnt > 0
    BY <1>1 DEF c, d
  <2> QED BY <1>2, <2>1, GetsBlock
<1>4. /\ MpfTypes' /\ PoolsWellFormed'
      /\ mpfcb'[m] = d /\ \A k \in Mpf \ {m} : mpfcb'[k] = mpfcb[k]
  BY <1>1, <1>3, PoolChange DEF PoolInv, MpfTypes
<1>5. \A b : Marked(m, b) => Marked(m, b)'
  <2> SUFFICES ASSUME NEW b, Marked(m, b) PROVE Marked(m, b)'
    OBVIOUS
  <2>1. b \in Index(m) /\ b < c.unused /\ c.next[b] = INDEX_ALLOC
    BY DEF Marked
  <2>2. d.next[b] = INDEX_ALLOC
    BY <1>2, <1>3, <2>1
  <2>3. b < d.unused
    <3>1. d.unused \in Int
      BY <1>3 DEF WellFormed, PoolState
    <3> QED BY <1>2, <1>3, <2>1, <3>1 DEF Index
  <2> QED BY <1>4, <2>1, <2>2, <2>3 DEF Marked, Index
<1>6. \A k \in Mpf \ {m} : \A b : Marked(k, b) => Marked(k, b)'
  BY <1>4 DEF Marked, Index
<1>7. ReleasesApart'
  BY <1>1, <1>5, <1>6 DEF PoolInv, MpfTypes, ReleasesApart
<1>8. NoBlockIdle'
  <2>1. UNCHANGED wait_queue /\ wait_queue[m] = <<>>
    BY <1>1 DEF vars, waitVars, PoolInv, NoBlockIdle
  <2> QED BY <1>4, <2>1 DEF PoolInv, NoBlockIdle
<1> QED BY <1>4, <1>7, <1>8 DEF PoolInv

(* A block that is put back was held by that release alone.                *)
LEMMA StoreKeeps ==
  ASSUME PoolInv, NEW m \in Mpf, NEW b \in Index(m), MpfStores(m, b)
  PROVE  PoolInv'
<1> DEFINE c == mpfcb[m]
           d == putMpfBlock(mpfcb[m], b)
           r == <<runtsk, m, b>>
<1>1. /\ mpfcb' = [mpfcb EXCEPT ![m] = d] /\ wait_queue[m] = <<>>
      /\ UNCHANGED <<vars, blk>> /\ r \in releasing /\ releasing' = releasing \ {r}
  BY DEF MpfStores
<1>2. /\ blkcnt[m] \in Nat /\ WellFormed(c, blkcnt[m])
      /\ c.fblkcnt \in Nat /\ c.unused \in 0 .. blkcnt[m] /\ c.next \in [Index(m) -> Int]
  BY PoolTypes DEF PoolInv, PoolsWellFormed
<1>3. b < c.unused /\ c.next[b] = INDEX_ALLOC
  BY <1>1 DEF PoolInv, ReleasesApart, Marked
<1>4. /\ WellFormed(d, blkcnt[m]) /\ d.unused = c.unused
      /\ d.next = [c.next EXCEPT ![b] = c.freelist]
  <2>1. b \in 0 .. blkcnt[m] - 1
    BY DEF Index
  <2> HIDE DEF c
  <2>2. /\ WellFormed(putMpfBlock(c, b), blkcnt[m])
        /\ putMpfBlock(c, b).unused = c.unused
        /\ putMpfBlock(c, b).next = [c.next EXCEPT ![b] = c.freelist]
    BY <1>2, <1>3, <2>1, PutsBlock
  <2> QED BY <2>2 DEF c
<1> HIDE DEF d
<1>5. /\ MpfTypes' /\ PoolsWellFormed'
      /\ mpfcb'[m] = d /\ \A k \in Mpf \ {m} : mpfcb'[k] = mpfcb[k]
  BY <1>1, <1>4, PoolChange DEF PoolInv, MpfTypes
<1>6. \A a : a # b /\ Marked(m, a) => Marked(m, a)'
  <2> SUFFICES ASSUME NEW a, a # b, Marked(m, a) PROVE Marked(m, a)'
    OBVIOUS
  <2>1. a \in Index(m) /\ a < c.unused /\ c.next[a] = INDEX_ALLOC
    BY DEF Marked
  <2>2. d.next[a] = INDEX_ALLOC
    BY <1>2, <1>4, <2>1
  <2> QED BY <1>4, <1>5, <2>1, <2>2 DEF Marked, Index
<1>7. \A k \in Mpf \ {m} : \A a : Marked(k, a) => Marked(k, a)'
  BY <1>5 DEF Marked, Index
<1>8. ReleasesApart'
  <2>1. \A q \in releasing' : q \in releasing /\ (q[2] = m => q[3] # b)
    BY <1>1 DEF PoolInv, ReleasesApart
  <2>2. \A q \in releasing' : q[2] \in Mpf
    BY <1>1 DEF PoolInv, MpfTypes
  <2>3. \A q \in releasing' : Marked(q[2], q[3])'
    BY <1>6, <1>7, <2>1, <2>2 DEF PoolInv, ReleasesApart
  <2> QED BY <2>1, <2>3 DEF PoolInv, ReleasesApart
<1>9. NoBlockIdle'
  <2>1. UNCHANGED wait_queue
    BY <1>1 DEF vars, waitVars
  <2> QED BY <1>1, <1>5, <2>1 DEF PoolInv, NoBlockIdle
<1> QED BY <1>5, <1>8, <1>9 DEF PoolInv

(* A pool made anew has nobody waiting and no release under way.           *)
LEMMA ClearKeeps ==
  ASSUME IInv, IInv', PoolInv, NEW m \in Mpf, MpfClears(m),
         \A k \in Mpf : NobodyJoins(k)
  PROVE  PoolInv'
<1> DEFINE c == mpfcb[m]
           d == Reinitialised(mpfcb[m], m)
<1>1. /\ QueueClear(m) /\ mpfcb' = [mpfcb EXCEPT ![m] = d]
      /\ UNCHANGED <<blk, releasing>> /\ \A r \in releasing : r[2] # m
  BY DEF MpfClears
<1>2. blkcnt[m] \in Nat /\ c \in PoolState(blkcnt[m])
  BY PoolTypes DEF PoolInv
<1>3. WellFormed(d, blkcnt[m])
  <2>1. /\ d = [fblkcnt |-> blkcnt[m], unused |-> 0, freelist |-> INDEX_NULL, next |-> c.next]
        /\ c.next \in [0 .. blkcnt[m] - 1 -> Int] /\ INDEX_NULL \in Int
        /\ 0 \in 0 .. blkcnt[m]
    <3>1. /\ c = [fblkcnt |-> c.fblkcnt, unused |-> c.unused,
                  freelist |-> c.freelist, next |-> c.next]
          /\ c.next \in [0 .. blkcnt[m] - 1 -> Int]
      BY <1>2 DEF PoolState
    <3>2. d = [c EXCEPT !.fblkcnt = blkcnt[m], !.unused = 0, !.freelist = INDEX_NULL]
      BY DEF Reinitialised
    <3> HIDE DEF c, d
    <3>3. d = [fblkcnt |-> blkcnt[m], unused |-> 0, freelist |-> INDEX_NULL, next |-> c.next]
      BY <3>1, <3>2
    <3>4. INDEX_NULL \in Int /\ 0 \in 0 .. blkcnt[m]
      BY <1>2 DEF INDEX_NULL
    <3> QED BY <3>1, <3>3, <3>4
  <2> HIDE DEF d
  <2>2. d \in PoolState(blkcnt[m])
    BY <1>2, <2>1 DEF PoolState
  <2>3. d.fblkcnt = blkcnt[m] /\ d.unused = 0 /\ d.freelist = INDEX_NULL
    BY <2>1
  <2> QED BY <1>2, <2>2, <2>3, FreshPool
<1> HIDE DEF d
<1>4. /\ MpfTypes' /\ PoolsWellFormed'
      /\ mpfcb'[m] = d /\ \A k \in Mpf \ {m} : mpfcb'[k] = mpfcb[k]
  BY <1>1, <1>3, PoolChange DEF PoolInv, MpfTypes
<1>5. ReleasesApart'
  <2>1. \A r \in releasing : r[2] \in Mpf \ {m}
    BY <1>1 DEF PoolInv, MpfTypes
  <2> QED BY <1>1, <1>4, <2>1 DEF PoolInv, ReleasesApart, Marked, Index
<1>6. NoBlockIdle'
  <2>1. \A k \in Mpf : wait_queue[k] = <<>> => wait_queue'[k] = <<>>
    BY EmptyStays, MempfixAssumption
  <2>2. wait_queue'[m] = <<>>
    BY <1>1, ReleaseEmpties, MempfixAssumption
  <2> QED BY <1>4, <2>1, <2>2 DEF PoolInv, NoBlockIdle
<1> QED BY <1>4, <1>5, <1>6 DEF PoolInv

(* A release that is checked holds a marked block no other release holds.  *)
LEMMA CheckKeeps ==
  ASSUME IInv, PoolInv, NEW m \in Mpf, MpfChecks(m)
  PROVE  PoolInv'
<1>1. PICK b \in Index(m) : rel_mpf_check(m, b)
  BY DEF MpfChecks
<1> DEFINE r == <<runtsk, m, b>>
<1>2. /\ runtsk \in Task /\ b < mpfcb[m].unused /\ mpfcb[m].next[b] = INDEX_ALLOC
      /\ \A q \in releasing : <<q[2], q[3]>> # <<m, b>>
      /\ releasing' = releasing \cup {r}
      /\ UNCHANGED <<vars, mpfcb, blk>>
  BY <1>1 DEF rel_mpf_check, TaskCall, checkContextTaskUnlock, TaskContext, IInv, TypeOK
<1>3. Marked(m, b) /\ b \in Nat
  BY <1>2 DEF Marked, Index
<1>4. releasing' \subseteq Task \X Mpf \X Nat /\ r[2] = m /\ r[3] = b
  BY <1>2, <1>3 DEF PoolInv, MpfTypes
<1>5. MpfTypes' /\ PoolsWellFormed' /\ NoBlockIdle'
  BY <1>2, <1>4 DEF PoolInv, MpfTypes, PoolsWellFormed, NoBlockIdle, vars, waitVars
<1>6. \A k, a : Marked(k, a)' <=> Marked(k, a)
  BY <1>2 DEF Marked, Index
<1>7. ReleasesApart'
  <2>1. \A q \in releasing : ~ (q[2] = m /\ q[3] = b)
    BY <1>2
  <2> QED BY <1>2, <1>3, <1>4, <1>6, <2>1 DEF PoolInv, ReleasesApart
<1> QED BY <1>5, <1>7 DEF PoolInv

(* The steps that leave the pools themselves as they are.                  *)
LEMMA QuietKeeps ==
  ASSUME IInv, IInv', PoolInv, \A k \in Mpf : NobodyJoins(k) \/ MpfWaits(k),
         \/ MpfQuiet
         \/ \E m \in Mpf : MpfWaits(m) \/ \E b \in Index(m) : MpfServes(m, b)
  PROVE  PoolInv'
<1>1. UNCHANGED mpfcb /\ releasing' \subseteq releasing
  BY DEF MpfQuiet, MpfWaits, MpfServes
<1>2. blk' \in [Task -> Int \cup {NoBlk}]
  <2>1. ASSUME NEW m \in Mpf, NEW b \in Index(m), MpfServes(m, b)
        PROVE  blk' \in [Task -> Int \cup {NoBlk}]
    <3>1. b \in Int /\ blk' = [blk EXCEPT ![Head(wait_queue[m])] = b]
      BY <2>1 DEF MpfServes, Index
    <3> QED BY <3>1 DEF PoolInv, MpfTypes
  <2>2. \A m \in Mpf : MpfWaits(m) => UNCHANGED blk
    BY DEF MpfWaits
  <2> QED BY <2>1, <2>2 DEF PoolInv, MpfTypes, MpfQuiet
<1>3. MpfTypes' /\ PoolsWellFormed'
  BY <1>1, <1>2 DEF PoolInv, MpfTypes, PoolsWellFormed
<1>4. ReleasesApart'
  BY <1>1 DEF PoolInv, ReleasesApart, Marked, Index
<1>5. NoBlockIdle'
  <2>1. \A k \in Mpf : NobodyJoins(k) /\ wait_queue[k] = <<>> => wait_queue'[k] = <<>>
    BY EmptyStays, MempfixAssumption
  <2>2. \A k \in Mpf : MpfWaits(k) => mpfcb[k].fblkcnt = 0
    BY DEF MpfWaits
  <2> QED BY <1>1, <2>1, <2>2 DEF PoolInv, NoBlockIdle
<1> QED BY <1>3, <1>4, <1>5 DEF PoolInv

(* The pools stay as they are described, whatever happens to the tasks.    *)
LEMMA PoolsKept ==
  ASSUME IInv, SInv, ResultPending, PoolInv, [MpfNext]_mpfVars
  PROVE  PoolInv'
<1>1. /\ IInv' /\ \A k \in Mpf : NobodyJoins(k) \/ MpfWaits(k)
  BY MempfixQueues
<1>2. ASSUME NEW m \in Mpf, MpfClears(m) PROVE \A k \in Mpf : NobodyJoins(k)
  <2>1. m \in Wobj \ Mutex /\ QueueCall(m) /\ QueueClear(m)
    BY <1>2, MempfixAssumption DEF MpfClears, QueueCall
  <2>2. NobodyJoins(m) /\ \A v \in Wobj \ {m} : NobodyJoins(v)
    BY <2>1, QueueCalls
  <2> QED BY <2>2, MempfixAssumption
<1>3. ASSUME NEW m \in Mpf, MpfClears(m) PROVE PoolInv'
  BY <1>1, <1>2, <1>3, ClearKeeps
<1>4. ASSUME NEW m \in Mpf, acquire(m) PROVE PoolInv'
  BY <1>4, AcquireKeeps
<1>5. ASSUME NEW m \in Mpf, MpfChecks(m) PROVE PoolInv'
  BY <1>5, CheckKeeps
<1>6. ASSUME NEW m \in Mpf, NEW b \in Index(m), MpfStores(m, b) PROVE PoolInv'
  BY <1>6, StoreKeeps
<1>7. ASSUME MpfQuiet \/ \E m \in Mpf : MpfWaits(m) \/ \E b \in Index(m) : MpfServes(m, b)
      PROVE  PoolInv'
  BY <1>1, <1>7, QuietKeeps
<1> QED BY <1>3, <1>4, <1>5, <1>6, <1>7, MempfixSteps

(* The invariant of the memory pools, on top of the kernel's.              *)
THEOREM MempfixInvariant == MpfSpec => [](IInv /\ SInv /\ ResultPending /\ PoolInv)
<1>1. MpfInit => IInv /\ SInv /\ ResultPending /\ PoolInv
  <2> SUFFICES ASSUME MpfInit PROVE ResultPending /\ PoolInv
    BY InitInvariant, InitState DEF MpfInit
  <2>1. ResultPending /\ \A m \in Mpf : wait_queue[m] = <<>>
    BY MempfixAssumption DEF MpfInit, Init, ResultPending
  <2>2. \A m \in Mpf : WellFormed(Initial(m), blkcnt[m])
    <3> TAKE m \in Mpf
    <3> DEFINE c == Initial(m)
    <3>1. /\ c = [fblkcnt |-> blkcnt[m], unused |-> 0, freelist |-> INDEX_NULL,
                  next |-> [b \in 0 .. blkcnt[m] - 1 |-> INDEX_NULL]]
          /\ blkcnt[m] \in Nat /\ 0 \in 0 .. blkcnt[m]
      BY MempfixAssumption DEF Initial, Index
    <3> HIDE DEF c
    <3>2. /\ INDEX_NULL \in Int
          /\ [b \in 0 .. blkcnt[m] - 1 |-> INDEX_NULL] \in [0 .. blkcnt[m] - 1 -> Int]
      BY DEF INDEX_NULL
    <3>3. c \in PoolState(blkcnt[m])
      BY <3>1, <3>2 DEF PoolState
    <3>4. c.fblkcnt = blkcnt[m] /\ c.unused = 0 /\ c.freelist = INDEX_NULL
      BY <3>1
    <3>5. WellFormed(c, blkcnt[m])
      BY <3>1, <3>3, <3>4, FreshPool
    <3> QED BY <3>5 DEF c
  <2>3. mpfcb = [m \in Mpf |-> Initial(m)] /\ blk = [t \in Task |-> NoBlk] /\ releasing = {}
    BY DEF MpfInit
  <2>4. PoolsWellFormed
    BY <2>2, <2>3 DEF PoolsWellFormed
  <2>5. MpfTypes
    <3>1. \A m \in Mpf : Initial(m) \in PoolState(blkcnt[m])
      BY <2>2 DEF WellFormed
    <3> QED BY <2>3, <3>1 DEF MpfTypes
  <2> QED BY <2>1, <2>3, <2>4, <2>5 DEF PoolInv, ReleasesApart, NoBlockIdle
<1>2. /\ IInv /\ SInv /\ ResultPending /\ PoolInv
      /\ [MpfNext]_mpfVars
      => (IInv /\ SInv /\ ResultPending /\ PoolInv)'
  BY MempfixQueues, PoolsKept
<1> QED BY <1>1, <1>2, PTL DEF MpfSpec

(* No block lies idle while a task waits, although a release is checked    *)
(* outside the CPU lock and may be preempted before it takes effect.       *)
THEOREM NoBlockLost == MpfSpec => []NoBlockIdle
<1>1. PoolInv => NoBlockIdle
  BY DEF PoolInv
<1> QED BY <1>1, MempfixInvariant, PTL

(* rel_mpf serves the head of the queue with its own block, which is then  *)
(* not in the free list; nothing else serves.                              *)
THEOREM PoolOrder == MpfSpec => MpfFirstServed
<1> DEFINE InOrder ==
             \A m \in Mpf : /\ FirstServed(m)
                            /\ \A t \in Task : Served(m, t) => blk'[t] \notin Returned(m)'
<1>1. ASSUME IInv, SInv, ResultPending, PoolInv, [MpfNext]_mpfVars PROVE InOrder
  <2>1. ASSUME NEW m \in Mpf, NEW t \in Task, Served(m, t)
        PROVE  blk'[t] \notin Returned(m)'
    <3>1. PICK b \in Index(m) : MpfServes(m, b) /\ t = Head(wait_queue[m])
      BY <1>1, <2>1, MempfixQueues
    <3>2. Marked(m, b) /\ blk'[t] = b /\ UNCHANGED mpfcb
      BY <1>1, <3>1 DEF MpfServes, PoolInv, ReleasesApart, MpfTypes
    <3> QED BY <3>2 DEF Marked, Returned, Index
  <2> QED BY <1>1, <2>1, MempfixQueues
<1>2. IInv /\ SInv /\ ResultPending /\ PoolInv /\ [MpfNext]_mpfVars => [InOrder]_mpfVars
  BY <1>1, Zenon
<1> QED BY <1>2, MempfixInvariant, PTL DEF MpfSpec, MpfFirstServed

(* The chain that starts at freelist, for the free list of a pool.         *)
Chain(L, n) == [k \in 0 .. n |-> IF k < Len(L) THEN L[k + 1] ELSE INDEX_NULL]

(* Functions that agree on their domain are the same.                      *)
LEMMA SameFunction ==
  ASSUME NEW A, NEW B, NEW f \in [A -> B], NEW g \in [A -> B], \A a \in A : f[a] = g[a]
  PROVE  f = g
OBVIOUS

(* The chain of BlocksAccounted is that list, followed by its end: it is   *)
(* the only function that satisfies the definition by recursion.           *)
LEMMA ChainOfList ==
  ASSUME NEW n \in Nat, NEW c \in PoolState(n), NEW L, Linked(c, n, L), Len(L) <= n,
         NEW f, f = CHOOSE g : g = [k \in 0 .. n |->
                      IF k = 0 THEN c.freelist
                      ELSE IF g[k - 1] \in 0 .. n - 1 THEN c.next[g[k - 1]] ELSE INDEX_NULL]
  PROVE  f = Chain(L, n)
<1> DEFINE Step(g) == [k \in 0 .. n |->
                        IF k = 0 THEN c.freelist
                        ELSE IF g[k - 1] \in 0 .. n - 1 THEN c.next[g[k - 1]] ELSE INDEX_NULL]
           C == Chain(L, n)
<1>1. /\ L \in Seq(0 .. n - 1) /\ Len(L) \in Nat /\ (L = <<>> <=> Len(L) = 0)
      /\ \A i \in 1 .. Len(L) : L[i] \in 0 .. n - 1
      /\ c.freelist = IF L = <<>> THEN INDEX_NULL ELSE L[1]
      /\ \A i \in 1 .. Len(L) : c.next[L[i]] = IF i = Len(L) THEN INDEX_NULL ELSE L[i + 1]
  BY DEF Linked
<1>2. INDEX_NULL \notin 0 .. n - 1
  BY DEF INDEX_NULL
<1>3. \A k \in 0 .. n : C[k] = IF k < Len(L) THEN L[k + 1] ELSE INDEX_NULL
  BY DEF Chain
<1>4. \A k \in 0 .. n : C[k] = Step(C)[k]
  <2> TAKE k \in 0 .. n
  <2>1. CASE k = 0
    BY <1>1, <1>3, <2>1
  <2>2. CASE k # 0
    <3>1. k - 1 \in 0 .. n /\ Step(C)[k] = IF C[k - 1] \in 0 .. n - 1 THEN c.next[C[k - 1]] ELSE INDEX_NULL
      BY <2>2
    <3>2. CASE k - 1 < Len(L)
      <4>1. k \in 1 .. Len(L) /\ (k - 1) + 1 = k
        BY <1>1, <2>2, <3>2
      <4>2. C[k - 1] = L[k] /\ L[k] \in 0 .. n - 1
        BY <1>1, <1>3, <3>1, <3>2, <4>1
      <4>3. Step(C)[k] = IF k = Len(L) THEN INDEX_NULL ELSE L[k + 1]
        BY <1>1, <3>1, <4>1, <4>2
      <4>4. k = Len(L) <=> ~ k < Len(L)
        BY <1>1, <4>1
      <4> QED BY <1>3, <4>3, <4>4
    <3>3. CASE ~ k - 1 < Len(L)
      <4>1. ~ k < Len(L)
        BY <1>1, <3>3
      <4> QED BY <1>2, <1>3, <3>1, <3>3, <4>1
    <3> QED BY <3>2, <3>3
  <2> QED BY <2>1, <2>2
<1>5. C = Step(C)
  BY <1>4 DEF Chain
<1>6. f = Step(f)
  BY <1>5, Zenon
<1>7. Step(f) \in [0 .. n -> Int] /\ Step(C) \in [0 .. n -> Int]
  <2>1. c.freelist \in Int /\ c.next \in [0 .. n - 1 -> Int] /\ INDEX_NULL \in Int
    BY DEF PoolState, INDEX_NULL
  <2> HIDE DEF C
  <2> QED BY <2>1
<1>8. \A k \in 0 .. n - 1 : f[k] = C[k] => f[k + 1] = C[k + 1]
  <2> SUFFICES ASSUME NEW k \in 0 .. n - 1, f[k] = C[k] PROVE f[k + 1] = C[k + 1]
    OBVIOUS
  <2>1. k + 1 \in 0 .. n /\ (k + 1) - 1 = k /\ k + 1 # 0
    OBVIOUS
  <2> HIDE DEF C
  <2>2. /\ Step(f)[k + 1] = IF f[k] \in 0 .. n - 1 THEN c.next[f[k]] ELSE INDEX_NULL
        /\ Step(C)[k + 1] = IF C[k] \in 0 .. n - 1 THEN c.next[C[k]] ELSE INDEX_NULL
    BY <2>1, SMTT(60)
  <2> HIDE DEF Step
  <2> QED BY <1>5, <1>6, <2>2, Zenon
<1>9. f[0] = C[0]
  <2>1. 0 \in 0 .. n /\ Step(f)[0] = c.freelist /\ Step(C)[0] = c.freelist
    OBVIOUS
  <2> HIDE DEF Step, C
  <2> QED BY <1>5, <1>6, <2>1
<1> HIDE DEF Step, C
<1>10. 0 .. n \subseteq {k \in 0 .. n : f[k] = C[k]}
  <2> DEFINE S == {k \in 0 .. n : f[k] = C[k]}
  <2>1. 0 \in S /\ \A k \in 0 .. n - 1 : k \in S => k + 1 \in S
    BY <1>8, <1>9, SMTT(60)
  <2> HIDE DEF S
  <2>2. 0 .. n \subseteq S
    BY <2>1, SetInduction
  <2> QED BY <2>2 DEF S
<1>11. f \in [0 .. n -> Int] /\ C \in [0 .. n -> Int]
  BY <1>5, <1>6, <1>7
<1>12. \A k \in 0 .. n : f[k] = C[k]
  BY <1>10
<1>13. f = C
  <2> DEFINE D == 0 .. n
  <2>1. f \in [D -> Int] /\ C \in [D -> Int] /\ \A a \in D : f[a] = C[a]
    BY <1>11, <1>12
  <2> HIDE DEF D
  <2> QED BY ONLY <2>1, SameFunction
<1> QED BY <1>13 DEF C

(* A free list has as many blocks as were returned, and no more than the   *)
(* pool has.                                                               *)
LEMMA LengthOfList ==
  ASSUME NEW n \in Nat, NEW c, NEW L, Linked(c, n, L)
  PROVE  Len(L) \in Nat /\ Len(L) = Cardinality(Free(c, n)) /\ Len(L) <= n
<1> DEFINE S == Free(c, n)
           I == 1 .. Len(L)
<1>1. /\ L \in Seq(0 .. n - 1) /\ Len(L) \in Nat /\ DOMAIN L = I
      /\ \A i, j \in I : L[i] = L[j] => i = j
      /\ \A b \in 0 .. n - 1 : (\E i \in I : L[i] = b) <=> b \in S
  BY DEF Linked, NoDuplicate, Member
<1>2. /\ IsFiniteSet(I) /\ Cardinality(I) = Len(L)
      /\ IsFiniteSet(0 .. n - 1) /\ Cardinality(0 .. n - 1) = n
  <2>1. 1 \in Int /\ Len(L) \in Int /\ 0 \in Int /\ n - 1 \in Int
    BY <1>1
  <2>2. /\ IsFiniteSet(1 .. Len(L))
        /\ Cardinality(1 .. Len(L)) = IF 1 > Len(L) THEN 0 ELSE Len(L) - 1 + 1
    BY <2>1, FS_Interval
  <2>3. /\ IsFiniteSet(0 .. n - 1)
        /\ Cardinality(0 .. n - 1) = IF 0 > n - 1 THEN 0 ELSE (n - 1) - 0 + 1
    BY <2>1, FS_Interval
  <2> QED BY <1>1, <2>2, <2>3
<1>3. S \in SUBSET (0 .. n - 1)
  BY DEF Free
<1> HIDE DEF S, I
<1>4. L \in [I -> S]
  <2>1. \A i \in I : L[i] \in 0 .. n - 1
    BY <1>1 DEF I
  <2>2. \A i \in I : L[i] \in S
    BY <1>1, <2>1
  <2> QED BY <1>1, <2>2 DEF I
<1>5. L \in Surjection(I, S) /\ L \in Injection(I, S)
  BY <1>1, <1>3, <1>4 DEF Surjection, Injection, IsInjective
<1>6. IsFiniteSet(S) /\ Cardinality(S) = Len(L)
  BY <1>2, <1>5, FS_Surjection
<1>7. Cardinality(S) <= n
  BY <1>2, <1>3, FS_Subset
<1> QED BY <1>1, <1>6, <1>7 DEF S

(* A well-formed pool accounts for every one of its blocks.                *)
LEMMA AccountsForBlocks ==
  ASSUME PoolsWellFormed
  PROVE  BlocksAccounted
<1> SUFFICES ASSUME NEW m \in Mpf
             PROVE  /\ FreeChain(m)[blkcnt[m]] = INDEX_NULL
                    /\ {FreeChain(m)[k] : k \in DOMAIN FreeChain(m)} \ {INDEX_NULL} = Returned(m)
                    /\ mpfcb[m].fblkcnt = Cardinality(Returned(m)) + blkcnt[m] - mpfcb[m].unused
  BY DEF BlocksAccounted
<1> DEFINE n == blkcnt[m]
           c == mpfcb[m]
           f == FreeChain(m)
<1>1. n \in Nat /\ c \in PoolState(n)
  BY PoolTypes
<1>2. PICK L : Linked(c, n, L)
  BY DEF PoolsWellFormed, WellFormed
<1>3. f = CHOOSE g : g = [k \in 0 .. n |->
                IF k = 0 THEN c.freelist
                ELSE IF g[k - 1] \in 0 .. n - 1 THEN c.next[g[k - 1]] ELSE INDEX_NULL]
  BY DEF FreeChain, Index
<1>4. Returned(m) = Free(c, n)
  BY DEF Returned, Free, Index
<1> HIDE DEF n, c, f
<1>5. Len(L) \in Nat /\ Len(L) = Cardinality(Free(c, n)) /\ Len(L) <= n
  BY <1>1, <1>2, LengthOfList
<1>6. f = Chain(L, n)
  BY <1>1, <1>2, <1>3, <1>5, ChainOfList
<1>7. /\ DOMAIN f = 0 .. n
      /\ \A k \in 0 .. n : f[k] = IF k < Len(L) THEN L[k + 1] ELSE INDEX_NULL
  BY <1>6 DEF Chain
<1>8. f[n] = INDEX_NULL
  BY <1>1, <1>5, <1>7
<1>9. /\ L \in Seq(0 .. n - 1) /\ \A i \in 1 .. Len(L) : L[i] \in 0 .. n - 1
      /\ \A b \in 0 .. n - 1 : Member(L, b) <=> b \in Free(c, n)
      /\ c.fblkcnt = Len(L) + n - c.unused
  <2>1. /\ L \in Seq(0 .. n - 1) /\ \A b \in 0 .. n - 1 : Member(L, b) <=> b \in Free(c, n)
        /\ c.fblkcnt = Len(L) + n - c.unused
    BY <1>2 DEF Linked
  <2>2. \A i \in 1 .. Len(L) : L[i] \in 0 .. n - 1
    <3> DEFINE S == 0 .. n - 1
    <3>1. L \in Seq(S)
      BY <2>1
    <3> HIDE DEF S
    <3>2. \A i \in 1 .. Len(L) : L[i] \in S
      BY <3>1
    <3> QED BY <3>2 DEF S
  <2> QED BY <2>1, <2>2
<1>10. {f[k] : k \in DOMAIN f} \ {INDEX_NULL} = Free(c, n)
  <2>1. ASSUME NEW k \in 0 .. n, f[k] # INDEX_NULL PROVE f[k] \in Free(c, n)
    <3>1. k + 1 \in 1 .. Len(L) /\ f[k] = L[k + 1]
      BY <1>1, <1>5, <1>7, <2>1
    <3>2. L[k + 1] \in 0 .. n - 1 /\ Member(L, L[k + 1])
      BY <1>9, <3>1 DEF Member
    <3> QED BY <1>9, <3>1, <3>2
  <2>2. ASSUME NEW b \in Free(c, n) PROVE b # INDEX_NULL /\ \E k \in 0 .. n : f[k] = b
    <3>1. b \in 0 .. n - 1
      BY DEF Free
    <3>2. PICK i \in 1 .. Len(L) : L[i] = b
      BY <1>9, <3>1 DEF Member
    <3>3. i - 1 \in 0 .. n /\ i - 1 < Len(L) /\ (i - 1) + 1 = i
      BY <1>1, <1>5
    <3>4. f[i - 1] = b
      BY <1>7, <3>2, <3>3
    <3> QED BY <3>1, <3>3, <3>4 DEF INDEX_NULL
  <2> QED BY <1>7, <2>1, <2>2
<1> QED BY <1>4, <1>5, <1>8, <1>9, <1>10 DEF n, c, f

(* No block is lost and none is in the list twice: every block is in the   *)
(* free list, never used, or with a task, and fblkcnt counts the free ones.*)
THEOREM BlocksKept == MpfSpec => []BlocksAccounted
<1>1. PoolInv => BlocksAccounted
  BY AccountsForBlocks DEF PoolInv
<1> QED BY <1>1, MempfixInvariant, PTL
=============================================================================

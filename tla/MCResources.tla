----------------------------- MODULE MCResources -----------------------------
(* Small instances of Mutex, Semaphore and Mempfix for TLC: the resources  *)
(* that tasks contend for, of which one kind is in use in each behaviour.  *)
EXTENDS Mutex, Semaphore, Mempfix, TLC

CONSTANTS t1, t2, t3, m1, m2, s1, s2, q1

MCipri == t1 :> 2 @@ t2 :> 2 @@ t3 :> 1
MCTorder == <<t1, t2, t3>>
MCceilpri == m1 :> 1
MCisemcnt == s1 :> 1 @@ s2 :> 0
MCmaxsem == s1 :> 2 @@ s2 :> 1
MCblkcnt == q1 :> 2

VARIABLE inUse

resourceVars == <<semVars, mpfVars, inUse>>

ResourcesInit == SemInit /\ MpfInit /\ inUse \in {"mutexes", "semaphores", "pools"}

(* What happens to tasks while they hold or want something.                *)
Released == \E t \in Task : act_tsk(t) \/ rel_wai(t) \/ ter_tsk(t)

(* The calls that bear on mutexes and on the tasks that hold or want them. *)
MutexesNext ==
  /\ \/ Boot \/ MutexCall \/ dis_dsp \/ ena_dsp \/ Released
     \/ \E t \in Task, p \in TaskPrio : chg_pri(t, p)
     \/ slp_tsk(FALSE)
  /\ UNCHANGED <<semcnt, mpfOwn>>

(* The semaphore calls and what can happen to a task while it waits.       *)
SemaphoresNext ==
  /\ \/ SemaphoreCall
     \/ /\ \/ Boot \/ Interrupt \/ Released
           \/ \E t \in Task : sus_tsk(t) \/ rsm_tsk(t)
           \/ \E t \in Task, p \in {1, 2} : chg_pri(t, p)
        /\ UNCHANGED semcnt
  /\ UNCHANGED mpfOwn

(* The pool calls and what can happen to a task in the middle of one.      *)
PoolsNext ==
  /\ \/ MempfixCall
     \/ /\ \/ Boot \/ enter_int \/ leave_int
           \/ MayCall /\ (ext_tsk \/ Released)
        /\ AbandonCalls
  /\ UNCHANGED semcnt

ResourcesNext ==
  /\ \/ inUse = "mutexes" /\ MutexesNext
     \/ inUse = "semaphores" /\ SemaphoresNext
     \/ inUse = "pools" /\ PoolsNext
  /\ UNCHANGED inUse

(* No guard and none of the properties checked here reads p_blk.           *)
ResourcesView == <<semVars, mpfcb, blk, getting, releasing, inUse>>

ResourcesSpec == ResourcesInit /\ [][ResourcesNext]_resourceVars
=============================================================================

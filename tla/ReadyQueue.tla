----------------------------- MODULE ReadyQueue -----------------------------
(***************************************************************************)
(* The ready queue of kernel/task.zig: one task queue per priority, the    *)
(* bitmap of the non-empty ones (ready_primap) and the cached choice       *)
(* p_schedtsk, which every operation updates incrementally and only while  *)
(* dspflg is set.  The operators work on a record of the four globals and  *)
(* on the priorities of the tasks, the prio field of the TCBs.  Priorities *)
(* are in the internal representation: 0 is the highest.                   *)
(***************************************************************************)
EXTENDS TaskQueue

CONSTANTS Task,       (* the tasks of the application                      *)
          NoTask,     (* the null TCB pointer                              *)
          TNUM_TPRI   (* the number of task priorities                     *)

ASSUME TaskAssumption == NoTask \notin Task
ASSUME PrioAssumption == TNUM_TPRI \in Nat \ {0}

TaskPrio == 0 .. TNUM_TPRI - 1

ReadyState ==
  [ready_queue  : [TaskPrio -> Seq(Task)],
   ready_primap : SUBSET TaskPrio,
   p_schedtsk   : Task \cup {NoTask},
   dspflg       : BOOLEAN]

InitReady ==
  [ready_queue  |-> [p \in TaskPrio |-> <<>>],
   ready_primap |-> {},
   p_schedtsk   |-> NoTask,
   dspflg       |-> TRUE]

(* prio_bitmap.search: the lowest bit that is set.                         *)
SearchPrimap(primap) == CHOOSE p \in primap : \A o \in primap : p <= o

searchSchedtsk(r) == r.ready_queue[SearchPrimap(r.ready_primap)][1]

ClearedNever(primap, p, q) == primap                           (* mutant *)

(* The bitmap after the queue of priority p has become q.                  *)
Cleared(primap, p, q) == IF q = <<>> THEN primap \ {p} ELSE primap

make_runnable_Eager(r, prio, t) ==                             (* mutant *)
  [r EXCEPT
     !.ready_queue[prio[t]] = Append(@, t),
     !.ready_primap = @ \cup {prio[t]},
     !.p_schedtsk = IF (IF @ = NoTask THEN TRUE ELSE prio[t] < prio[@])
                    THEN t ELSE @]

make_runnable(r, prio, t) ==
  [r EXCEPT
     !.ready_queue[prio[t]] = Append(@, t),
     !.ready_primap = @ \cup {prio[t]},
     !.p_schedtsk =
        IF r.dspflg /\ (IF @ = NoTask THEN TRUE ELSE prio[t] < prio[@])
        THEN t ELSE @]

(* make_runnable for the tasks of sequence q that are in T, in order.       *)
WakeAll(r, prio, q, T) ==
  LET wake[n \in 0 .. Len(q)] ==
        IF n = 0 THEN r
        ELSE IF q[n] \in T THEN make_runnable(wake[n - 1], prio, q[n])
        ELSE wake[n - 1]
  IN  wake[Len(q)]

(* The two branches that move p_schedtsk assert dspflg: while it is clear  *)
(* p_schedtsk is the running task (DspflgCoherent of module TaskKernel),   *)
(* which cannot be made non-runnable then.                                 *)
make_non_runnable(r, prio, t) ==
  LET p    == prio[t]
      rest == Delete(r.ready_queue[p], t)
      d    == [r EXCEPT !.ready_queue[p] = rest,
                        !.ready_primap = Cleared(@, p, rest)]
  IN  [d EXCEPT !.p_schedtsk =
         IF @ # t THEN @
         ELSE IF rest # <<>> THEN rest[1]
         ELSE IF d.ready_primap = {} THEN NoTask
         ELSE searchSchedtsk(d)]

set_dspflg(r) == [r EXCEPT !.dspflg = TRUE, !.p_schedtsk = searchSchedtsk(r)]

(* The part of change_priority for a task that is runnable: to the tail of *)
(* its new queue, or to its head when a mutex changes the priority.  prio  *)
(* holds the priorities before the change.                                 *)
change_ready_priority(r, prio, t, newprio, mtxmode) ==
  LET oldprio == prio[t]
      rest    == Delete(r.ready_queue[oldprio], t)
      queue   == [r.ready_queue EXCEPT ![oldprio] = rest]
      moved   == IF mtxmode THEN InsertHead(queue[newprio], t)
                            ELSE Append(queue[newprio], t)
      c == [r EXCEPT
              !.ready_queue = [queue EXCEPT ![newprio] = moved],
              !.ready_primap = Cleared(@, oldprio, rest) \cup {newprio}]
  IN  [c EXCEPT !.p_schedtsk =
         IF ~ r.dspflg THEN @
         ELSE IF @ = t
              THEN IF newprio >= oldprio THEN searchSchedtsk(c) ELSE @
              ELSE IF newprio <= prio[@] THEN moved[1] ELSE @]

rotate_ready_queue(r, p) ==
  LET q == r.ready_queue[p]
  IN  IF Len(q) < 2 THEN r
      ELSE [r EXCEPT
              !.ready_queue[p] = Append(Tail(q), Head(q)),
              !.p_schedtsk = IF r.dspflg /\ @ = q[1] THEN q[2] ELSE @]
-----------------------------------------------------------------------------
(***************************************************************************)
(* bitSched, the consistency check of the scheduling data the kernel ships *)
(* with, and what it leaves to bitTCB: a task that is runnable is in the   *)
(* queue of its current priority, once, and the queues hold nothing else.  *)
(***************************************************************************)
QueuesMatch(r, Runnable, prio) ==
  /\ \A p \in TaskPrio : NoDuplicate(r.ready_queue[p])
  /\ \A p \in TaskPrio, t \in Task :
        Member(r.ready_queue[p], t) <=> (t \in Runnable /\ prio[t] = p)

PrimapMatches(r) ==
  \A p \in TaskPrio : p \in r.ready_primap <=> r.ready_queue[p] # <<>>

(* p_schedtsk is the task a search would find.                             *)
IsHighest(r) ==
  IF r.ready_primap = {} THEN r.p_schedtsk = NoTask
  ELSE \E p \in r.ready_primap :
          /\ \A o \in r.ready_primap : p <= o
          /\ r.p_schedtsk = r.ready_queue[p][1]

SchedtskCurrent(r) == r.dspflg => IsHighest(r)
=============================================================================

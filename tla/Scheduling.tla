----------------------------- MODULE Scheduling -----------------------------
(***************************************************************************)
(* What the scheduler promises, with no bitmap, no cached choice and no    *)
(* flags of its own: the ready tasks queue up by priority, and the task    *)
(* that runs is the first one of the highest non-empty queue, except that  *)
(* it keeps running while dispatching is held or an interrupt handler is   *)
(* active.  In one step tasks become ready, at the end of their queues, or *)
(* one task leaves or changes its place, or one queue is rotated.          *)
(***************************************************************************)
EXTENDS TaskQueue

CONSTANTS Task, NoTask, TNUM_TPRI

VARIABLES queue,    (* the ready tasks of each priority, in order          *)
          running,  (* the task that has the processor, or NoTask          *)
          held,     (* dispatching is disabled                             *)
          busy      (* a non-task context is active                        *)

schedulingVars == <<queue, running, held, busy>>

Prios == 0 .. TNUM_TPRI - 1

FirstOf(q, t) ==
  IF \A p \in Prios : q[p] = <<>> THEN t = NoTask
  ELSE \E p \in Prios :
          /\ q[p] # <<>> /\ q[p][1] = t
          /\ \A o \in Prios : o < p => q[o] = <<>>

(* Any number of tasks, also none: one call may end several waits.         *)
Arrive ==
  /\ queue' \in [Prios -> Seq(Task)]
  /\ \A p \in Prios :
        /\ Len(queue[p]) <= Len(queue'[p])
        /\ queue[p] = SubSeq(queue'[p], 1, Len(queue[p]))
        /\ NoDuplicate(queue'[p])
        /\ \A o \in Prios \ {p}, t \in Task : ~ (Member(queue'[p], t) /\ Member(queue'[o], t))

Leave(t) ==
  /\ (held' \/ busy') => t # running
  /\ \E p \in Prios :
        Member(queue[p], t) /\ queue' = [queue EXCEPT ![p] = Delete(@, t)]

Move(t) ==
  \E p, o \in Prios :
    /\ Member(queue[p], t)
    /\ LET without == [queue EXCEPT ![p] = Delete(@, t)]
       IN  queue' = [without EXCEPT ![o] = Append(@, t)]

Rotate ==
  \E p \in Prios :
    queue[p] # <<>> /\ queue' = [queue EXCEPT ![p] = Append(Tail(@), Head(@))]

Choose ==
  IF held' \/ busy' THEN running' = running ELSE FirstOf(queue', running')

Init ==
  /\ queue = [p \in Prios |-> <<>>]
  /\ running = NoTask
  /\ held = FALSE /\ busy = TRUE

Next ==
  /\ held' \in BOOLEAN /\ busy' \in BOOLEAN
  /\ \/ Arrive \/ Rotate
     \/ \E t \in Task : Leave(t) \/ Move(t)
  /\ Choose

Spec == Init /\ [][Next]_schedulingVars
=============================================================================

------------------------------ MODULE TaskQueue ------------------------------
(***************************************************************************)
(* The task queues of the kernel as sequences of tasks: the ring list of   *)
(* library/queue.zig, seen from its header, and queue_insert_tpri of       *)
(* kernel/wait.zig.  A TCB has one task_queue link, so a task is in at     *)
(* most one of these queues at any time.                                   *)
(***************************************************************************)
EXTENDS Integers, Sequences

Member(q, t) == \E i \in 1 .. Len(q) : q[i] = t

NoDuplicate(q) == \A i, j \in 1 .. Len(q) : q[i] = q[j] => i = j

DeleteMovingLast(q, t) ==                                      (* mutant *)
  [i \in 1 .. Len(q) - 1 |-> IF q[i] = t THEN q[Len(q)] ELSE q[i]]

(* queue.delete: unlink t, which must be in q, wherever it is.             *)
Delete(q, t) ==
  LET n == CHOOSE i \in 1 .. Len(q) : q[i] = t
  IN  [i \in 1 .. Len(q) - 1 |-> IF i < n THEN q[i] ELSE q[i + 1]]

(* queue.insertNext on the header: link t in at the head.                  *)
InsertHead(q, t) == [i \in 1 .. Len(q) + 1 |-> IF i = 1 THEN t ELSE q[i - 1]]

(* queue_insert_tpri: in front of the first task whose priority is         *)
(* strictly lower (a greater number), at the end when there is none.       *)
InsertBefore(q, n, t) ==
  [i \in 1 .. Len(q) + 1 |->
     IF i < n THEN q[i] ELSE IF i = n THEN t ELSE q[i - 1]]

IsInsertPoint(q, prio, t, n) ==
  /\ n \in 1 .. Len(q) + 1
  /\ \A i \in 1 .. n - 1 : prio[q[i]] <= prio[t]
  /\ n <= Len(q) => prio[t] < prio[q[n]]

InsertTpri(q, prio, t) ==
  InsertBefore(q, CHOOSE n \in 1 .. Len(q) + 1 : IsInsertPoint(q, prio, t, n), t)

(* The tasks of q that are not in S, in their order.                       *)
Without(q, S) ==
  LET rest[n \in 0 .. Len(q)] ==
        IF n = 0 THEN <<>>
        ELSE IF q[n] \in S THEN rest[n - 1] ELSE Append(rest[n - 1], q[n])
  IN  rest[Len(q)]

(* The order queue_insert_tpri keeps: by priority, and so, as a task goes  *)
(* in behind its equals, first come first served within one priority.      *)
PriorityOrdered(q, prio) ==
  \A i, j \in 1 .. Len(q) : i < j => prio[q[i]] <= prio[q[j]]
=============================================================================

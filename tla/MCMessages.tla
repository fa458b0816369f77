------------------------------ MODULE MCMessages ------------------------------
(* Small instances of Eventflag, Dataqueue and Pridataq for TLC: what      *)
(* tasks tell each other, of which one kind is in use in each behaviour.   *)
EXTENDS Eventflag, Dataqueue, Pridataq, TLC

CONSTANTS t1, t2, t3, f1, f2, b1, b2, d0, r0, d2, r2, v1, v2, p2, rp, u1, u2, u3

MCipri == t1 :> 1 @@ t2 :> 1 @@ t3 :> 0
MCTorder == <<t1, t2, t3>>
MCNoCeiling == <<>>
MCiflgptn == f1 :> {} @@ f2 :> {b1}
MCrwait == d0 :> r0 @@ d2 :> r2
MCdtqcnt == d0 :> 0 @@ d2 :> 2
MCrwaitPdq == p2 :> rp
MCpdqcnt == p2 :> 2
MCdatapri == u1 :> 1 @@ u2 :> 1 @@ u3 :> 2

(* u1 and u2 have the same priority.                                       *)
DataSymmetry ==
  {f @@ g : f \in Permutations(Data), g \in Permutations({u1, u2})}

VARIABLE inUse

messageVars == <<flgVars, dtqVars, pdqVars, inUse>>

MessagesInit ==
  /\ FlgInit /\ DtqInit /\ PdqInit
  /\ inUse \in {"flags", "queues", "priority queues"}

UntouchedFlag(f) == flgptn[f] = iflgptn[f] /\ wait_queue[f] = <<>>

(* The event flag calls and what can happen to a task while it waits; the  *)
(* flags are in use one after the other.                                   *)
FlagsNext ==
  /\ \/ EventflagCall
     \/ /\ \/ Boot \/ Interrupt
           \/ \E t \in Task \ {t2} : act_tsk(t) \/ rel_wai(t) \/ ter_tsk(t)
           \/ \E t \in Task \ {t2}, p \in TaskPrio : chg_pri(t, p)
        /\ UNCHANGED flgOwn
  /\ (\E f \in Eventflag : UntouchedFlag(f))'
  /\ UNCHANGED <<dtqOwn, pdqOwn>>

(* The data queues are in use one after the other, d2 with the tasks at    *)
(* their start priorities.                                                 *)
Untouched(d) ==
  dtqcb[d] = Initial(d) /\ wait_queue[d] = <<>> /\ wait_queue[rwait[d]] = <<>>

OneInUse == Untouched(d2) \/ (Untouched(d0) /\ bprio = ipri)

(* The data queue calls and what can happen to a task while it waits; only *)
(* the senders of d0 wait in order of priority.                            *)
QueuesNext ==
  /\ \/ DataqueueCall
     \/ /\ \/ Boot \/ enter_int \/ leave_int
           \/ \E t \in Task : act_tsk(t) \/ rel_wai(t)
           \/ wait_queue[d0] # <<>> /\ \E t \in Task, p \in TaskPrio : chg_pri(t, p)
        /\ UNCHANGED dtqOwn
  /\ OneInUse'
  /\ UNCHANGED <<flgOwn, pdqOwn>>

PriorityQueuesNext ==
  /\ \/ PridataqCall
     \/ /\ \/ Boot \/ enter_int \/ leave_int
           \/ \E t \in Task : act_tsk(t) \/ rel_wai(t)
        /\ UNCHANGED pdqOwn
  /\ UNCHANGED <<flgOwn, dtqOwn>>

MessagesNext ==
  /\ \/ inUse = "flags" /\ FlagsNext
     \/ inUse = "queues" /\ QueuesNext
     \/ inUse = "priority queues" /\ PriorityQueuesNext
  /\ UNCHANGED inUse

(* Of data and pridata only the entries of waiting senders are read again. *)
Offered(d, senders, none) == [t \in Task |-> IF waiton[t] \in senders THEN d[t] ELSE none]

MessagesView ==
  <<flgVars, dtqcb, Offered(data, Dataqueue, NoData),
    pdqcb, Offered(pridata, Pridataq, NoPridata), inUse>>

MessagesSpec == MessagesInit /\ [][MessagesNext]_messageVars
=============================================================================

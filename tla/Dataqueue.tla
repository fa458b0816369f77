------------------------------ MODULE Dataqueue ------------------------------
(***************************************************************************)
(* Data queues: kernel/dataqueue.zig on top of TaskKernel.  A data queue   *)
(* has two wait queues: senders wait in that of the object itself,         *)
(* receivers in rwait, which is always first-in first-out.                 *)
(***************************************************************************)
EXTENDS TaskKernel

CONSTANTS Dataqueue,  (* the data queues                                   *)
          rwait,      (* their rwait_queue                                 *)
          dtqcnt,     (* their capacities, which may be zero               *)
          Data,       (* what is sent                                      *)
          NoData      (* the content of memory that was never written      *)

ASSUME DataqueueAssumption ==
  /\ Dataqueue \subseteq Wobj \ Mutex
  /\ rwait \in [Dataqueue -> Wobj \ (Mutex \cup TpriWobj \cup Dataqueue)]
  /\ \A d, o \in Dataqueue : rwait[d] = rwait[o] => d = o
  /\ dtqcnt \in [Dataqueue -> Nat]
  /\ NoData \notin Data

VARIABLES
  dtqcb,      (* count, head and tail of DTQCB and the ring buffer dtqmb   *)
  data        (* WINFO_SDTQ.data of a waiting sender; the *p_data or the   *)
              (* WINFO_RDTQ.data that a receiver was given                 *)

dtqOwn  == <<dtqcb, data>>
dtqVars == <<vars, dtqOwn>>

Initial(d) ==
  [count |-> 0, head |-> 0, tail |-> 0,
   dtqmb |-> [i \in 0 .. dtqcnt[d] - 1 |-> NoData]]

DtqInit ==
  /\ Init
  /\ dtqcb = [d \in Dataqueue |-> Initial(d)]
  /\ data = [t \in Task |-> NoData]

Wrapped(d, i) == IF i >= dtqcnt[d] THEN 0 ELSE i

enqueueData(d, q, v) ==
  [q EXCEPT !.dtqmb[q.tail] = v, !.count = @ + 1, !.tail = Wrapped(d, @ + 1)]

forceEnqueueData_KeepHead(d, q, v) ==                           (* mutant *)
  [q EXCEPT !.dtqmb[q.tail] = v, !.tail = Wrapped(d, @ + 1),
            !.count = IF @ < dtqcnt[d] THEN @ + 1 ELSE @]

forceEnqueueData(d, q, v) ==
  LET tail == Wrapped(d, q.tail + 1)
      full == q.count >= dtqcnt[d]
  IN  [q EXCEPT !.dtqmb[q.tail] = v, !.tail = tail,
                !.count = IF full THEN @ ELSE @ + 1,
                !.head = IF full THEN tail ELSE @]

dequeueData(d, q) == [q EXCEPT !.count = @ - 1, !.head = Wrapped(d, @ + 1)]

Sender(d)   == Head(wait_queue[d])
Receiver(d) == Head(wait_queue[rwait[d]])

(* sendData and forceSendData to a task that waits to receive.             *)
handOver(d, v) ==
  /\ wait_queue[rwait[d]] # <<>>
  /\ data' = [data EXCEPT ![Receiver(d)] = v]
  /\ wobj_release_first(rwait[d])
  /\ UNCHANGED dtqcb

store(d, cb) ==
  /\ wait_queue[rwait[d]] = <<>>
  /\ dtqcb' = [dtqcb EXCEPT ![d] = cb]
  /\ wobj_release_none
  /\ UNCHANGED data

HasRoom(d) == dtqcb[d].count < dtqcnt[d]

sendData(d, v) ==
  \/ handOver(d, v)
  \/ HasRoom(d) /\ store(d, enqueueData(d, dtqcb[d], v))

forceSendData(d, v) ==
  \/ handOver(d, v)
  \/ store(d, forceEnqueueData(d, dtqcb[d], v))

(* The data queue after its first datum has been taken: the first waiting  *)
(* sender stores its own behind the others.                                *)
Refilled_Not(d) == dequeueData(d, dtqcb[d])                     (* mutant *)
Refilled(d) ==
  LET rest == dequeueData(d, dtqcb[d])
  IN  IF wait_queue[d] = <<>> THEN rest ELSE enqueueData(d, rest, data[Sender(d)])

First(d) == dtqcb[d].dtqmb[dtqcb[d].head]

receiveData(d) ==
  \/ /\ dtqcb[d].count > 0
     /\ data' = [data EXCEPT ![runtsk] = First(d)]
     /\ dtqcb' = [dtqcb EXCEPT ![d] = Refilled(d)]
     /\ IF wait_queue[d] = <<>> THEN wobj_release_none ELSE wobj_release_first(d)
  \/ /\ dtqcb[d].count = 0 /\ wait_queue[d] # <<>>
     /\ data' = [data EXCEPT ![runtsk] = data[Sender(d)]]
     /\ wobj_release_first(d)
     /\ UNCHANGED dtqcb
-----------------------------------------------------------------------------
(* snd_dtq (not timed), tsnd_dtq with TMO_FEVR (not timed) or a time.      *)
snd_dtq(d, v, timed) ==
  /\ checkDispatch /\ ~ raster[runtsk]
  /\ \/ sendData(d, v)
     \/ /\ wait_queue[rwait[d]] = <<>> /\ ~ HasRoom(d)
        /\ wobj_wait(d, timed)
        /\ data' = [data EXCEPT ![runtsk] = v]
        /\ UNCHANGED dtqcb

psnd_dtq(d, v) == checkContextUnlock /\ sendData(d, v)

fsnd_dtq(d, v) == checkContextUnlock /\ dtqcnt[d] > 0 /\ forceSendData(d, v)

rcv_dtq(d, timed) ==
  /\ checkDispatch /\ ~ raster[runtsk]
  /\ \/ receiveData(d)
     \/ /\ dtqcb[d].count = 0 /\ wait_queue[d] = <<>>
        /\ wobj_wait(rwait[d], timed)
        /\ UNCHANGED dtqOwn

prcv_dtq(d) == checkContextTaskUnlock /\ receiveData(d)

(* ini_dtq: two times init_wait_queue, senders before receivers.           *)
ini_dtq(d) ==
  /\ checkContextTaskUnlock
  /\ end_waits(Waiters(d) \cup Waiters(rwait[d]), "error")
  /\ wait_queue' = [wait_queue EXCEPT ![d] = <<>>, ![rwait[d]] = <<>>]
  /\ rdy' = WakeAll(rdy, prio, wait_queue[d] \o wait_queue[rwait[d]], WaitingOnly)
  /\ dtqcb' = [dtqcb EXCEPT ![d].count = 0, ![d].head = 0, ![d].tail = 0]
  /\ taskDispatch
  /\ UNCHANGED <<data, prioVars, queVars, terVars, mtxVars, dspVars, cpuVars, bootVars>>

DataqueueCall ==
  \E d \in Dataqueue :
    \/ prcv_dtq(d) \/ ini_dtq(d)
    \/ \E v \in Data : psnd_dtq(d, v) \/ fsnd_dtq(d, v)
    \/ \E timed \in BOOLEAN : rcv_dtq(d, timed) \/ \E v \in Data : snd_dtq(d, v, timed)

DtqNext == (KernelCall /\ UNCHANGED dtqOwn) \/ DataqueueCall

DtqSpec == DtqInit /\ [][DtqNext]_dtqVars
-----------------------------------------------------------------------------
(* Senders wait only for a full queue that nobody receives from, receivers *)
(* only for an empty one.                                                  *)
NobodyWaitsInVain ==
  \A d \in Dataqueue :
    /\ wait_queue[d] # <<>> => dtqcb[d].count = dtqcnt[d] /\ wait_queue[rwait[d]] = <<>>
    /\ wait_queue[rwait[d]] # <<>> => dtqcb[d].count = 0

(* The data that were sent and not yet received: those in the ring, then   *)
(* those of the waiting senders.                                           *)
Contents(d) ==
  [i \in 1 .. dtqcb[d].count |->
     dtqcb[d].dtqmb[(dtqcb[d].head + i - 1) % dtqcnt[d]]]
Line(d) == Contents(d) \o [i \in 1 .. Len(wait_queue[d]) |-> data[wait_queue[d][i]]]

Channel == INSTANCE FifoChannel WITH
             Queue <- Dataqueue, cap <- dtqcnt,
             line <- [d \in Dataqueue |-> Line(d)],
             readers <- [d \in Dataqueue |-> Len(wait_queue[rwait[d]])]

(* Together they behave as one line, whatever happens to the senders in    *)
(* it: the data queues implement the channels FifoChannel promises, and no *)
(* call or termination disturbs more than one of them.                     *)
ChannelPromised == Channel!Spec

(* What a receiver is given is the head of that line, or, when it had to   *)
(* wait, a datum that was really sent; tasks are served in queue order.    *)
DataDelivered ==
  [][\A d \in Dataqueue :
       /\ TaskContext /\ receiveData(d) => data'[runtsk] = Head(Line(d))
       /\ \A t \in Task : Served(rwait[d], t) => data'[t] \in Data /\ Line(d) = <<>>
       /\ FirstServed(d) /\ FirstServed(rwait[d])]_dtqVars
=============================================================================

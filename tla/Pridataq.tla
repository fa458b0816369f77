------------------------------ MODULE Pridataq ------------------------------
(***************************************************************************)
(* Priority data queues: kernel/pridataq.zig on top of TaskKernel.  The    *)
(* data are stored in management blocks that are linked in the order of    *)
(* their priorities; blocks in no use are linked in a list of their own or *)
(* have never been used.  Senders wait in the queue of the object itself,  *)
(* receivers in rwaitPdq.  A datum stands for itself and its priority.     *)
(***************************************************************************)
EXTENDS TaskKernel

CONSTANTS Pridataq,   (* the priority data queues                          *)
          rwaitPdq,   (* their rwait_queue                                 *)
          pdqcnt,     (* their capacities, which may be zero               *)
          Pridata,    (* what is sent                                      *)
          datapri,    (* datum |-> its priority                            *)
          NoPridata   (* the content of memory that was never written      *)

ASSUME PridataqAssumption ==
  /\ Pridataq \subseteq Wobj \ Mutex
  /\ rwaitPdq \in [Pridataq -> Wobj \ (Mutex \cup TpriWobj \cup Pridataq)]
  /\ \A q, o \in Pridataq : rwaitPdq[q] = rwaitPdq[o] => q = o
  /\ pdqcnt \in [Pridataq -> Nat]
  /\ datapri \in [Pridata -> Nat \ {0}] /\ NoPridata \notin Pridata

VARIABLES
  pdqcb,      (* queue and free, the blocks linked from p_head and from    *)
              (* p_freelist, unused, and the contents pdqmb                *)
  pridata     (* WINFO_SPDQ.data of a waiting sender; the *p_data or the   *)
              (* WINFO_RPDQ.data that a receiver was given                 *)

pdqOwn  == <<pdqcb, pridata>>
pdqVars == <<vars, pdqOwn>>

InitialPdq(q) ==
  [queue |-> <<>>, free |-> <<>>, unused |-> 0,
   pdqmb |-> [b \in 0 .. pdqcnt[q] - 1 |-> NoPridata]]

PdqInit ==
  /\ Init
  /\ pdqcb = [q \in Pridataq |-> InitialPdq(q)]
  /\ pridata = [t \in Task |-> NoPridata]

count(c) == Len(c.queue)

(* A block that was used before is taken first.                            *)
NextBlockPdq(c) == IF c.free # <<>> THEN Head(c.free) ELSE c.unused

TakenBlock(c) ==
  IF c.free # <<>> THEN [c EXCEPT !.free = Tail(@)] ELSE [c EXCEPT !.unused = @ + 1]

(* What a says of the elements of p, in their order.                       *)
Along(p, a) == [i \in 1 .. Len(p) |-> a[p[i]]]

(* The data of the list that starts at p_head.                             *)
Stored(c) == Along(c.queue, c.pdqmb)

(* The first block that is less urgent, before which v is linked.          *)
Position_NotBehind(c, v) ==                                     (* mutant *)
  CHOOSE i \in 1 .. count(c) + 1 :
    /\ \A j \in 1 .. i - 1 : datapri[Stored(c)[j]] < datapri[v]
    /\ i <= count(c) => datapri[v] <= datapri[Stored(c)[i]]
Position(c, v) ==
  CHOOSE i \in 1 .. count(c) + 1 :
    /\ \A j \in 1 .. i - 1 : datapri[Stored(c)[j]] <= datapri[v]
    /\ i <= count(c) => datapri[v] < datapri[Stored(c)[i]]

enqueuePridata(c, v) ==
  LET b == NextBlockPdq(c)
  IN  [TakenBlock(c) EXCEPT !.pdqmb[b] = v, !.queue = InsertBefore(@, Position(c, v), b)]

dequeuePridata(c) ==
  [c EXCEPT !.queue = Tail(@), !.free = <<Head(c.queue)>> \o @]

FirstPridata(q) == pdqcb[q].pdqmb[Head(pdqcb[q].queue)]

PdqSender(q)   == Head(wait_queue[q])
PdqReceiver(q) == Head(wait_queue[rwaitPdq[q]])

PdqHasRoom(q) == count(pdqcb[q]) < pdqcnt[q]

sendPridata(q, v) ==
  \/ /\ wait_queue[rwaitPdq[q]] # <<>>
     /\ pridata' = [pridata EXCEPT ![PdqReceiver(q)] = v]
     /\ wobj_release_first(rwaitPdq[q])
     /\ UNCHANGED pdqcb
  \/ /\ wait_queue[rwaitPdq[q]] = <<>> /\ PdqHasRoom(q)
     /\ pdqcb' = [pdqcb EXCEPT ![q] = enqueuePridata(@, v)]
     /\ wobj_release_none
     /\ UNCHANGED pridata

(* The queue after its first datum has been taken: the first waiting       *)
(* sender's datum takes its place among the others.                        *)
RefilledPdq(q) ==
  LET rest == dequeuePridata(pdqcb[q])
  IN  IF wait_queue[q] = <<>> THEN rest ELSE enqueuePridata(rest, pridata[PdqSender(q)])

receivePridata(q) ==
  \/ /\ count(pdqcb[q]) > 0
     /\ pridata' = [pridata EXCEPT ![runtsk] = FirstPridata(q)]
     /\ pdqcb' = [pdqcb EXCEPT ![q] = RefilledPdq(q)]
     /\ IF wait_queue[q] = <<>> THEN wobj_release_none ELSE wobj_release_first(q)
  \/ /\ count(pdqcb[q]) = 0 /\ wait_queue[q] # <<>>
     /\ pridata' = [pridata EXCEPT ![runtsk] = pridata[PdqSender(q)]]
     /\ wobj_release_first(q)
     /\ UNCHANGED pdqcb
-----------------------------------------------------------------------------
(* snd_pdq (not timed), tsnd_pdq with TMO_FEVR (not timed) or a time.      *)
snd_pdq(q, v, timed) ==
  /\ checkDispatch /\ ~ raster[runtsk]
  /\ \/ sendPridata(q, v)
     \/ /\ wait_queue[rwaitPdq[q]] = <<>> /\ ~ PdqHasRoom(q)
        /\ wobj_wait(q, timed)
        /\ pridata' = [pridata EXCEPT ![runtsk] = v]
        /\ UNCHANGED pdqcb

psnd_pdq(q, v) == checkContextUnlock /\ sendPridata(q, v)

rcv_pdq(q, timed) ==
  /\ checkDispatch /\ ~ raster[runtsk]
  /\ \/ receivePridata(q)
     \/ /\ count(pdqcb[q]) = 0 /\ wait_queue[q] = <<>>
        /\ wobj_wait(rwaitPdq[q], timed)
        /\ UNCHANGED pdqOwn

prcv_pdq(q) == checkContextTaskUnlock /\ receivePridata(q)

(* ini_pdq: two times init_wait_queue, senders before receivers; the       *)
(* blocks keep their contents.                                             *)
ini_pdq(q) ==
  /\ checkContextTaskUnlock
  /\ end_waits(Waiters(q) \cup Waiters(rwaitPdq[q]), "error")
  /\ wait_queue' = [wait_queue EXCEPT ![q] = <<>>, ![rwaitPdq[q]] = <<>>]
  /\ rdy' = WakeAll(rdy, prio, wait_queue[q] \o wait_queue[rwaitPdq[q]], WaitingOnly)
  /\ pdqcb' = [pdqcb EXCEPT ![q].queue = <<>>, ![q].free = <<>>, ![q].unused = 0]
  /\ taskDispatch
  /\ UNCHANGED <<pridata, prioVars, queVars, terVars, mtxVars, dspVars, cpuVars, bootVars>>

PridataqCall ==
  \E q \in Pridataq :
    \/ prcv_pdq(q) \/ ini_pdq(q)
    \/ \E v \in Pridata : psnd_pdq(q, v)
    \/ \E timed \in BOOLEAN : rcv_pdq(q, timed) \/ \E v \in Pridata : snd_pdq(q, v, timed)

PdqNext == (KernelCall /\ UNCHANGED pdqOwn) \/ PridataqCall

PdqSpec == PdqInit /\ [][PdqNext]_pdqVars
-----------------------------------------------------------------------------
PromisedPdq == INSTANCE PriorityChannel WITH
  Queue <- Pridataq, Data <- Pridata, cap <- pdqcnt,
  stored <- [q \in Pridataq |-> Stored(pdqcb[q])],
  waiting <- [q \in Pridataq |-> Along(wait_queue[q], pridata)],
  readers <- [q \in Pridataq |-> Len(wait_queue[rwaitPdq[q]])]

(* The blocks, reused and linked in two lists, and the waiting senders and *)
(* receivers behave as the channels PriorityChannel promises, which give   *)
(* each datum away in its turn and do not disturb each other; tasks are    *)
(* served in queue order; and a receiver that had to wait is given a datum *)
(* that a sender sent.                                                     *)
PriorityPromised ==
  /\ PromisedPdq!Spec
  /\ [][\A q \in Pridataq :
          /\ FirstServed(q) /\ FirstServed(rwaitPdq[q])
          /\ \A t \in Task : Served(rwaitPdq[q], t) => pridata'[t] \in Pridata]_pdqVars
=============================================================================

------------------------------ MODULE EventHeap ------------------------------
(***************************************************************************)
(* The heap on its own, driven by any order of registrations and           *)
(* cancellations while the boundary stands still.                          *)
(***************************************************************************)
EXTENDS TimeHeap

CONSTANT NoEvent

VARIABLES tmevt_heap,
          p_top_tmevtb (* what tmevtb_delete_top has returned              *)

heapVars == <<tmevt_heap, p_top_tmevtb>>

HeapInit ==
  /\ \E b \in EVTTIM : tmevt_heap = [heap |-> <<>>, index |-> <<>>, evttim |-> <<>>, boundary_evttim |-> b]
  /\ p_top_tmevtb = NoEvent

InsertEvent(e, t) == tmevt_heap' = tmevtb_insert(tmevt_heap, e, t) /\ p_top_tmevtb' = NoEvent
DeleteEvent(e) == tmevt_heap' = tmevtb_delete(tmevt_heap, e) /\ p_top_tmevtb' = NoEvent
DeleteTop == tmevt_heap' = tmevtb_delete_top(tmevt_heap) /\ p_top_tmevtb' = tmevt_heap.heap[0]

HeapNext ==
  \/ \E e \in TMEVTB \ Registered(tmevt_heap), t \in EVTTIM : InsertEvent(e, t)
  \/ \E e \in Registered(tmevt_heap) : DeleteEvent(e)
  \/ Registered(tmevt_heap) # {} /\ DeleteTop

HeapSpec == HeapInit /\ [][HeapNext]_heapVars

Queue == INSTANCE PriorityQueue WITH Event <- TMEVTB, Time <- EVTTIM,
           pending <- [e \in Registered(tmevt_heap) |-> EVTTIM_ADVANCE(tmevt_heap, tmevt_heap.evttim[e])],
           taken <- p_top_tmevtb

(* The heap is a priority queue: tmevtb_delete takes out the event it is   *)
(* given and no other, and tmevtb_delete_top an earliest, in the wrapping  *)
(* order of EVTTIM_LE.  Wherever the events are moved, each is found again *)
(* at its index and none stands below a later one (validTMEVTB).           *)
QueuePromised == []HeapWellFormed(tmevt_heap) /\ Queue!PqSpec
=============================================================================

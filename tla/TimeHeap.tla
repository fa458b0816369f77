------------------------------ MODULE TimeHeap -------------------------------
(***************************************************************************)
(* The heap of time events: the first half of kernel/time_event.zig.       *)
(*                                                                         *)
(* The operators work on a record h with at least the fields heap (node    *)
(* |-> time event block), index and evttim of the registered blocks, and   *)
(* boundary_evttim.  num_tmevt nodes are in use; what the array holds      *)
(* behind them is not represented, nor are the fields of blocks that are   *)
(* not registered.                                                         *)
(***************************************************************************)
EXTENDS Integers, FiniteSets

CONSTANTS TMEVTB,     (* the time event blocks                             *)
          W           (* event times are counters modulo W (2^32)          *)

ASSUME TimeHeapAssumption == IsFiniteSet(TMEVTB) /\ W \in Nat \ {0}

EVTTIM == 0 .. W - 1
Nodes == 0 .. Cardinality(TMEVTB) - 1

num_tmevt(h) == Cardinality(DOMAIN h.heap)
Registered(h) == DOMAIN h.evttim

(* Times are compared as distances from the boundary, the earliest time    *)
(* there can be.                                                           *)
EVTTIM_ADVANCE(h, t) == (t - h.boundary_evttim) % W
EVTTIM_LT(h, t1, t2) == EVTTIM_ADVANCE(h, t1) < EVTTIM_ADVANCE(h, t2)
EVTTIM_LE_Plain(h, t1, t2) == t1 <= t2                         (* mutant *)
EVTTIM_LE(h, t1, t2) == EVTTIM_ADVANCE(h, t1) <= EVTTIM_ADVANCE(h, t2)

PARENT(i) == (i - 1) \div 2
LCHILD(i) == i * 2 + 1

time(h, node) == h.evttim[h.heap[node]]
top_evttim(h) == time(h, 0)

(* A node and the nodes above it.                                          *)
Path(node) ==
  LET path[i \in Nodes] == IF i = 0 THEN {0} ELSE {i} \cup path[PARENT(i)]
  IN path[node]

(* Where an event at time t belongs when the empty node starts at node and *)
(* moves up, or down among the first n nodes.                              *)
tmevt_up(h, node, t) ==
  LET up[i \in Nodes] ==
        IF i = 0 \/ EVTTIM_LE(h, time(h, PARENT(i)), t) THEN i ELSE up[PARENT(i)]
  IN up[node]

EarlierChild(h, n, i) ==
  IF LCHILD(i) + 1 < n /\ EVTTIM_LT(h, time(h, LCHILD(i) + 1), time(h, LCHILD(i)))
  THEN LCHILD(i) + 1 ELSE LCHILD(i)

tmevt_down(h, n, node, t) ==
  LET down[i \in Nodes] ==
        IF LCHILD(i) >= n \/ EVTTIM_LE(h, t, time(h, EarlierChild(h, n, i)))
        THEN i ELSE down[EarlierChild(h, n, i)]
  IN down[node]

(* Node after node on the way takes over its neighbour's event, and each   *)
(* event moved learns its index.                                           *)
MovedUp(from, to) == {i \in Path(from) : i > to}
MovedDown(from, to) == {i \in Path(to) : i < to /\ i >= from}

Source(from, to, i) ==
  IF to <= from THEN PARENT(i) ELSE CHOOSE c \in Path(to) : c # 0 /\ PARENT(c) = i

Place(h, n, from, to, e) ==
  LET moved == MovedUp(from, to) \cup MovedDown(from, to)
      heap == [i \in 0 .. n - 1 |-> IF i = to THEN e
                 ELSE IF i \in moved THEN h.heap[Source(from, to, i)] ELSE h.heap[i]]
  IN [h EXCEPT !.heap = heap,
               !.index = [x \in DOMAIN h.index |->
                  LET at == {i \in (moved \cup {to}) \cap DOMAIN heap : heap[i] = x}
                  IN IF at = {} THEN h.index[x] ELSE CHOOSE i \in at : TRUE]]

(* The block's time has been set before.                                   *)
tmevtb_insert(h, e, t) ==
  LET n == num_tmevt(h)
      timed == [h EXCEPT !.evttim = [x \in Registered(h) \cup {e} |-> IF x = e THEN t ELSE h.evttim[x]],
                         !.index = [x \in Registered(h) \cup {e} |-> IF x = e THEN n ELSE h.index[x]]]
  IN Place(timed, n + 1, n, tmevt_up(h, n, t), e)

Forget(h, e) ==
  [h EXCEPT !.evttim = [x \in Registered(h) \ {e} |-> h.evttim[x]],
            !.index = [x \in Registered(h) \ {e} |-> h.index[x]]]

(* The last event, at node n, takes the place of the deleted one, or one   *)
(* above or below it.                                                      *)
Refill(h, n, node, e) ==
  LET last == h.heap[n]
      t == h.evttim[last]
      to == IF node > 0 /\ EVTTIM_LT(h, t, time(h, PARENT(node)))
            THEN tmevt_up(h, PARENT(node), t) ELSE tmevt_down(h, n, node, t)
  IN Forget(Place(h, n, node, to, last), e)

tmevtb_delete(h, e) == Refill(h, num_tmevt(h) - 1, h.index[e], e)

tmevtb_delete_top(h) == Refill(h, num_tmevt(h) - 1, 0, h.heap[0])

(* Every event is at the node its index names, and none is earlier than    *)
(* its parent.                                                             *)
HeapWellFormed(h) ==
  /\ DOMAIN h.heap = 0 .. Cardinality(Registered(h)) - 1
  /\ DOMAIN h.index = Registered(h)
  /\ \A e \in Registered(h) : h.index[e] \in DOMAIN h.heap /\ h.heap[h.index[e]] = e
  /\ \A i \in DOMAIN h.heap \ {0} : EVTTIM_LE(h, time(h, PARENT(i)), time(h, i))
=============================================================================

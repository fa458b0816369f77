--------------------------- MODULE PriorityChannel ---------------------------
(***************************************************************************)
(* What priority data queues promise: each stores up to cap data, gives    *)
(* away the most urgent one first and of equally urgent ones the oldest;   *)
(* the data of senders that found no room follow one by one as room        *)
(* appears, in the order of the senders and not of the data; while a       *)
(* receiver waits there is nothing to be had.                              *)
(***************************************************************************)
EXTENDS Integers, Sequences, SequencesExt

CONSTANTS Queue, Data, cap, datapri

VARIABLES stored,   (* the data stored, the next one first                 *)
          waiting,  (* the data of the waiting senders                     *)
          readers   (* the number of tasks that wait to receive            *)

pdqChannelVars == <<stored, waiting, readers>>

StoredBecomes(q, s)  == stored' = [stored EXCEPT ![q] = s]
WaitingBecomes(q, s) == waiting' = [waiting EXCEPT ![q] = s]
OneReaderLess(q) ==
  /\ readers[q] > 0 /\ readers' = [readers EXCEPT ![q] = @ - 1]
  /\ UNCHANGED <<stored, waiting>>

(* r is s with v behind everything that is not less urgent than v, and     *)
(* before the rest.                                                        *)
HasJoined(s, v, r) ==
  \E i \in 1 .. Len(s) + 1 :
    /\ r = InsertAt(s, i, v)
    /\ \A j \in 1 .. i - 1 : datapri[s[j]] <= datapri[v]
    /\ \A j \in i .. Len(s) : datapri[s[j]] > datapri[v]

(* What was in s and v are stored now, in their order.                     *)
StoredWith(q, s, v) == StoredBecomes(q, stored'[q]) /\ HasJoined(s, v, stored'[q])

Put(q, v) ==
  \/ OneReaderLess(q)
  \/ /\ readers[q] = 0 /\ Len(stored[q]) < cap[q]
     /\ StoredWith(q, stored[q], v) /\ UNCHANGED <<waiting, readers>>
  \/ /\ readers[q] = 0 /\ Len(stored[q]) = cap[q]
     /\ \E i \in 1 .. Len(waiting[q]) + 1 : WaitingBecomes(q, InsertAt(waiting[q], i, v))
     /\ UNCHANGED <<stored, readers>>

(* What was stored goes first, even if a waiting sender has something more *)
(* urgent.                                                                 *)
Take(q) ==
  /\ \/ /\ stored[q] # <<>> /\ waiting[q] = <<>>
        /\ StoredBecomes(q, Tail(stored[q])) /\ UNCHANGED waiting
     \/ /\ stored[q] # <<>> /\ waiting[q] # <<>>
        /\ StoredWith(q, Tail(stored[q]), Head(waiting[q]))
        /\ WaitingBecomes(q, Tail(waiting[q]))
     \/ /\ stored[q] = <<>> /\ waiting[q] # <<>>
        /\ WaitingBecomes(q, Tail(waiting[q])) /\ UNCHANGED stored
  /\ UNCHANGED readers

Await(q) ==
  /\ stored[q] = <<>> /\ waiting[q] = <<>>
  /\ readers' = [readers EXCEPT ![q] = @ + 1] /\ UNCHANGED <<stored, waiting>>

GiveUp(q) ==
  \/ OneReaderLess(q)
  \/ /\ \E i \in DOMAIN waiting[q] : WaitingBecomes(q, RemoveAt(waiting[q], i))
     /\ UNCHANGED <<stored, readers>>

(* The priority of a waiting sender changes.                               *)
Move(q) ==
  /\ \E i, j \in DOMAIN waiting[q] :
       WaitingBecomes(q, InsertAt(RemoveAt(waiting[q], i), j, waiting[q][i]))
  /\ UNCHANGED <<stored, readers>>

Clear(q) ==
  /\ StoredBecomes(q, <<>>) /\ WaitingBecomes(q, <<>>)
  /\ readers' = [readers EXCEPT ![q] = 0]

Init ==
  /\ stored = [q \in Queue |-> <<>>] /\ waiting = [q \in Queue |-> <<>>]
  /\ readers = [q \in Queue |-> 0]

Next ==
  \E q \in Queue :
    Clear(q) \/ Take(q) \/ Await(q) \/ GiveUp(q) \/ Move(q) \/ \E v \in Data : Put(q, v)

Spec == Init /\ [][Next]_pdqChannelVars
=============================================================================

----------------------------- MODULE FifoChannel -----------------------------
(***************************************************************************)
(* What data queues promise: in each the data sent and not yet received    *)
(* stand in one line, the first cap of them in the queue and the rest with *)
(* senders that wait.  Receivers take from its front, senders join at its  *)
(* end, or among the waiting ones by priority, and only these can leave it *)
(* early; while a receiver waits the line is empty.  Where a datum is      *)
(* stored and when it moves from a sender into the queue cannot be told.   *)
(***************************************************************************)
EXTENDS Integers, Sequences, SequencesExt

CONSTANTS Queue, Data, cap

VARIABLES line,     (* the data sent and not received, the next one first  *)
          readers   (* the number of tasks that wait to receive            *)

channelVars == <<line, readers>>

Stored(q) == IF Len(line[q]) < cap[q] THEN Len(line[q]) ELSE cap[q]

LineBecomes(q, l) == line' = [line EXCEPT ![q] = l] /\ UNCHANGED readers

OneReaderLess(q) ==
  readers[q] > 0 /\ readers' = [readers EXCEPT ![q] = @ - 1] /\ UNCHANGED line

Put(q, v) ==
  \/ OneReaderLess(q)
  \/ /\ readers[q] = 0
     /\ \E i \in Stored(q) + 1 .. Len(line[q]) + 1 : LineBecomes(q, InsertAt(line[q], i, v))

(* The oldest datum in a full queue gives way.                             *)
Force(q, v) ==
  /\ cap[q] > 0 /\ readers[q] = 0 /\ Len(line[q]) >= cap[q]
  /\ LineBecomes(q, RemoveAt(InsertAt(line[q], cap[q] + 1, v), 1))

Take(q) == line[q] # <<>> /\ LineBecomes(q, Tail(line[q]))

Await(q) ==
  line[q] = <<>> /\ readers' = [readers EXCEPT ![q] = @ + 1] /\ UNCHANGED line

GiveUp(q) ==
  \/ OneReaderLess(q)
  \/ \E i \in cap[q] + 1 .. Len(line[q]) : LineBecomes(q, RemoveAt(line[q], i))

(* The priority of a waiting sender changes.                               *)
Move(q) ==
  \E i, j \in cap[q] + 1 .. Len(line[q]) :
    LineBecomes(q, InsertAt(RemoveAt(line[q], i), j, line[q][i]))

Clear(q) ==
  line' = [line EXCEPT ![q] = <<>>] /\ readers' = [readers EXCEPT ![q] = 0]

Init == line = [q \in Queue |-> <<>>] /\ readers = [q \in Queue |-> 0]

Next ==
  \E q \in Queue :
    \/ \E v \in Data : Put(q, v) \/ Force(q, v)
    \/ Take(q) \/ Await(q) \/ GiveUp(q) \/ Move(q) \/ Clear(q)

Spec == Init /\ [][Next]_channelVars
=============================================================================

------------------------------- MODULE Queues -------------------------------
(* What a queue of messages between two threads holds.  A message is a tuple *)
(* of its type and, for some types, a part.                                  *)
EXTENDS Integers, Sequences

(* The parts of the messages of one type in a queue, in their order.         *)
Sent(queue, type) == {queue[i][2] : i \in {j \in 1 .. Len(queue) : queue[j][1] = type}}

Holds(queue, type) == \E i \in 1 .. Len(queue) : queue[i][1] = type
=============================================================================

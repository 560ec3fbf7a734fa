------------------------- MODULE DoubleEndedQueue --------------------------
(* What QuicheCircularDeque promises: a sequence open at both ends. *)
EXTENDS Integers, Sequences

CONSTANTS Values, MaxSize
VARIABLE queue

Init == queue = <<>>

PushBack(v) == queue' = Append(queue, v)
PushFront(v) == queue' = <<v>> \o queue

PopFront(n) == queue' = SubSeq(queue, n + 1, Len(queue))
PopBack(n) == queue' = SubSeq(queue, 1, Len(queue) - n)

Resize(n, v) ==
  queue' = [i \in 1 .. n |-> IF i <= Len(queue) THEN queue[i] ELSE v]

Next ==
  \/ \E v \in Values : PushBack(v) \/ PushFront(v)
  \/ \E n \in 0 .. Len(queue) : PopFront(n) \/ PopBack(n)
  \/ \E n \in 0 .. MaxSize, v \in Values : Resize(n, v)

Spec == Init /\ [][Next]_queue
============================================================================

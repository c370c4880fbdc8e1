----------------------------- MODULE BoundedQueue -----------------------------
(* collections.deque(maxlen=n): an append to a full queue drops the oldest. *)
EXTENDS Integers, Sequences

Push(queue, x, maxlen) ==
  IF Len(queue) < maxlen THEN Append(queue, x) ELSE Append(Tail(queue), x)
===============================================================================

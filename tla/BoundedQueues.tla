--------------------------- MODULE BoundedQueues ---------------------------
(***************************************************************************)
(* The one queue discipline of the program: a std::vector or std::deque    *)
(* used as a FIFO of bounded length which makes room for a new element by  *)
(* erasing its first one (packet queues, return queue, log queue, images). *)
(***************************************************************************)
EXTENDS Naturals, Sequences

(* Slips of the push: the bound compared with >, and insert at begin().    *)
PushOffByOne(q, x, cap) ==
  Append(IF Len(q) > cap THEN Tail(q) ELSE q, x)
PushFront(q, x, cap) ==
  <<x>> \o (IF Len(q) >= cap THEN Tail(q) ELSE q)

(* push_back(x), after erasing begin() when size() has reached cap. *)
PushDropOldest(q, x, cap) ==
  Append(IF Len(q) >= cap THEN Tail(q) ELSE q, x)

(* A slip of the pop: the element is copied and not erased. *)
KeepFirst(queues, i) == queues

(* queues[i] without its first element, which the caller has copied. *)
PopFirst(queues, i) == [queues EXCEPT ![i] = Tail(@)]

=============================================================================

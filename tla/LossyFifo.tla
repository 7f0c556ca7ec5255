----------------------------- MODULE LossyFifo -----------------------------
(***************************************************************************)
(* What a bounded queue of this program promises: a FIFO that may lose its *)
(* oldest elements when one is put, and never the one that is put.  What   *)
(* is taken was put and is taken once, in the order of putting.            *)
(***************************************************************************)
EXTENDS Naturals, Sequences

CONSTANT Item
VARIABLES items,  \* the elements in the queue, oldest first
          taken   \* those taken out, in order

Init == items = <<>> /\ taken = <<>>

Put(x) ==
  /\ \E lost \in 0 .. Len(items) :
        items' = Append(SubSeq(items, lost + 1, Len(items)), x)
  /\ UNCHANGED taken

Take ==
  /\ items # <<>>
  /\ taken' = Append(taken, Head(items))
  /\ items' = Tail(items)

Next == Take \/ \E x \in Item : Put(x)

Spec == Init /\ [][Next]_<<items, taken>>
=============================================================================

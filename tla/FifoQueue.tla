----------------------------- MODULE FifoQueue -----------------------------
(***************************************************************************)
(* What LockFreeQueue promises: a first-in first-out queue whose           *)
(* operations each take effect at one instant.                             *)
(***************************************************************************)
EXTENDS Integers, Sequences

CONSTANT Values   \* what may be enqueued

VARIABLES items,  \* the values in the queue
          taken,  \* the values dequeued so far, in order
          open    \* the destructor has not begun

vars == <<items, taken, open>>

Init == items = <<>> /\ taken = <<>> /\ open = TRUE

Put == open /\ \E v \in Values : items' = Append(items, v)
            /\ UNCHANGED <<taken, open>>

Take ==
  /\ open /\ items # <<>>
  /\ taken' = Append(taken, Head(items))
  /\ items' = Tail(items)
  /\ UNCHANGED open

Close == open /\ open' = FALSE /\ UNCHANGED <<items, taken>>

\* The destructor drops what is left.
Drop ==
  /\ ~open /\ items # <<>>
  /\ items' = Tail(items)
  /\ UNCHANGED <<taken, open>>

Next == Put \/ Take \/ Close \/ Drop

Spec == Init /\ [][Next]_vars
=============================================================================

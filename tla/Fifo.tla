-------------------------------- MODULE Fifo --------------------------------
(***************************************************************************)
(* What queue.c promises to the connection that keeps its peer's requests  *)
(* in it: entries leave in the order in which they came.  The promise      *)
(* holds for as long as the queue has never held more than Guaranteed      *)
(* entries; beyond that the implementation may break, once and for all.    *)
(***************************************************************************)
EXTENDS Naturals, Sequences

CONSTANTS
  Entry,       \* the entries
  Guaranteed   \* so many entries are always kept in order

VARIABLES
  items,       \* the entries, first in first
  out,         \* the entry that dequeue() delivered last
  broken       \* the promise is off

Init ==
  /\ items = <<>>
  /\ out \in Entry
  /\ broken = FALSE

Enqueue(v) ==
  /\ ~broken
  /\ items' = Append(items, v)
  /\ UNCHANGED <<out, broken>>

Dequeue ==
  /\ ~broken
  /\ items # <<>>
  /\ out' = Head(items)
  /\ items' = Tail(items)
  /\ UNCHANGED broken

\* Growing past the guaranteed number of entries may go wrong.
Break ==
  /\ ~broken
  /\ Len(items) >= Guaranteed
  /\ broken' = TRUE

Anything == broken /\ broken'

Next ==
  \/ \E v \in Entry : Enqueue(v)
  \/ Dequeue
  \/ Break
  \/ Anything

vars == <<items, out, broken>>

Spec == Init /\ [][Next]_vars
=============================================================================

----------------------------- MODULE RingQueue -----------------------------
(***************************************************************************)
(* queue.c: the growing ring buffer in which a connection keeps the        *)
(* requests of its peer.  Pointers are slot numbers: head and tail count   *)
(* entries from mem, so tail = -1 is the initial mem - entry_size.         *)
(***************************************************************************)
EXTENDS Integers, Sequences

CONSTANTS
  Entry,            \* what can be queued
  Garbage,          \* content of a slot that was never written
  init_capacity,    \* argument of queue_init(), 16 for peer_requests
  MaxCapacity       \* bound: realloc() of more entries than this fails

ASSUME QueueAssumption ==
  /\ Entry # {}
  /\ Garbage \notin Entry
  /\ init_capacity \in Nat \ {0}
  /\ MaxCapacity \in Nat

VARIABLES
  mem,        \* the slots
  capacity,
  size,       \* number of entries
  head,       \* slot of the first entry
  tail,       \* slot of the last entry
  out,        \* the entry dequeue() copied out last
  overrun     \* queue_resize() has accessed memory outside mem

vars == <<mem, capacity, size, head, tail, out, overrun>>

Slot == Entry \cup {Garbage}

TypeOK ==
  /\ capacity \in Nat \ {0}
  /\ mem \in [0 .. capacity - 1 -> Slot]
  /\ size \in 0 .. capacity
  /\ head \in 0 .. capacity - 1
  /\ tail \in -1 .. capacity - 1
  /\ out \in Slot
  /\ overrun \in BOOLEAN

\* queue_init(): calloc'ed slots hold zeros, an entry like any other.
Init ==
  /\ capacity = init_capacity
  /\ \E zero \in Entry : mem = [s \in 0 .. capacity - 1 |-> zero] /\ out = zero
  /\ size = 0
  /\ head = 0
  /\ tail = -1
  /\ overrun = FALSE

\* MUTANT: the wrap-around test is off by one.
Wrap_OffByOne(s, cap) == IF s > cap THEN 0 ELSE s

\* A pointer that has moved to the end of mem goes back to its start.
Wrap(s, cap) == IF s >= cap THEN 0 ELSE s

-----------------------------------------------------------------------------
(* queue_resize(), called by enqueue() on a full queue with twice the      *)
(* capacity.  realloc() keeps the old slots and leaves the new ones        *)
(* uninitialized.                                                          *)

\* MUTANT: a wrapped queue is left as it is.
Wrapped_Never == FALSE

\* The entries go past the end of mem: head > tail.
Wrapped == head > tail

\* The slots after realloc().
Extended(cap) ==
  [s \in 0 .. cap - 1 |-> IF s < capacity THEN mem[s] ELSE Garbage]

\* The slots after the entries of a wrapped queue were "unwrapped".  The length
\* bot is that of the whole new buffer: memmove() reads as far past its end as
\* head is from its start, and the entries saved in tmp are written after it.
Moved(cap) ==
  [s \in 0 .. cap - 1 |-> IF s + head < capacity THEN mem[s + head] ELSE Garbage]

\* enqueue() puts the entry into the slot after tail.
Put(m, t, cap, v) ==
  /\ tail' = Wrap(t + 1, cap)
  /\ mem' = [m EXCEPT ![tail'] = v]
  /\ size' = size + 1

\* enqueue(), room left.
Enqueue(v) ==
  /\ size # capacity
  /\ Put(mem, tail, capacity, v)
  /\ UNCHANGED <<capacity, head, out, overrun>>

\* enqueue(), full: the buffer is doubled first.  The tail of a wrapped queue
\* becomes mem + bot, the end of the new buffer.
EnqueueGrow(v) ==
  LET cap == 2 * capacity IN
  /\ size = capacity
  /\ cap =< MaxCapacity
  /\ capacity' = cap
  /\ overrun' = (overrun \/ Wrapped)
  /\ head' = IF Wrapped THEN 0 ELSE head
  /\ IF Wrapped THEN Put(Moved(cap), cap, cap, v)
                ELSE Put(Extended(cap), tail, cap, v)
  /\ UNCHANGED out

\* enqueue(), full, and realloc() fails: -1, the entry is not queued.
EnqueueFails ==
  /\ size = capacity
  /\ UNCHANGED vars

-----------------------------------------------------------------------------

\* dequeue()
Dequeue ==
  /\ size # 0
  /\ out' = mem[head]
  /\ head' = Wrap(head + 1, capacity)
  /\ size' = size - 1
  /\ UNCHANGED <<mem, capacity, tail, overrun>>

Next ==
  \/ \E v \in Entry : Enqueue(v)
  \/ \E v \in Entry : EnqueueGrow(v)
  \/ EnqueueFails
  \/ Dequeue

Spec == Init /\ [][Next]_vars

-----------------------------------------------------------------------------

\* The slot of the entry k places after the first one.
SlotOf(k) == IF head + k < capacity THEN head + k ELSE head + k - capacity

\* The entries in the order in which dequeue() will deliver them.
Contents == [k \in 1 .. size |-> mem[SlotOf(k - 1)]]

\* The assertions of enqueue() and dequeue(): head, and tail once something
\* was queued, point into mem, and tail is the slot of the last entry.  (After
\* an overrun the heap is corrupt and nothing is claimed.)
PointersInside ==
  ~overrun => /\ head \in 0 .. capacity - 1
              /\ size > 0 => /\ tail \in 0 .. capacity - 1
                             /\ tail = SlotOf(size - 1)

\* The queue is a first-in first-out queue until it grows while its entries
\* are wrapped around the end of mem, which takes more than init_capacity
\* entries.
Abstract == INSTANCE Fifo WITH
              Entry <- Slot, Guaranteed <- init_capacity,
              items <- Contents, broken <- overrun

IsFifo == Abstract!Spec
=============================================================================

-------------------------- MODULE RingQueueProofs --------------------------
(***************************************************************************)
(* queue.c implements Fifo, for every capacity and every kind of entry.    *)
(***************************************************************************)
EXTENDS RingQueue, SequenceTheorems, TLAPS

\* Where tail is, relative to head: at the last entry, or just before head
\* (cyclically) if there is none.  Memory overruns destroy this, but never move
\* a pointer out of the buffer.
Shape ==
  /\ size > 0 => tail = SlotOf(size - 1)
  /\ size = 0 => tail + 1 = head \/ (head = 0 /\ tail = capacity - 1)

Inv ==
  /\ TypeOK
  /\ capacity >= init_capacity
  /\ tail = -1 => size = 0
  /\ ~overrun => Shape

\* Inv holds initially.
LEMMA InvInit == Init => Inv
<1> SUFFICES ASSUME Init PROVE Inv
  OBVIOUS
<1>1. PICK zero \in Entry : mem = [s \in 0 .. capacity - 1 |-> zero] /\ out = zero
  BY DEF Init
<1>2. mem \in [0 .. capacity - 1 -> Slot] /\ out \in Slot
  BY <1>1 DEF Slot
<1>3. capacity = init_capacity /\ size = 0 /\ head = 0 /\ tail = -1
  BY DEF Init
<1>4. /\ capacity \in Nat \ {0} /\ size \in 0 .. capacity
      /\ head \in 0 .. capacity - 1 /\ tail \in -1 .. capacity - 1
      /\ capacity >= init_capacity /\ tail + 1 = head
  BY <1>3, QueueAssumption
<1>5. overrun = FALSE
  BY DEF Init
<1>6. TypeOK
  BY <1>2, <1>4, <1>5 DEF TypeOK
<1>7. Shape
  BY <1>3, <1>4 DEF Shape
<1> QED
  BY <1>3, <1>4, <1>6, <1>7 DEF Inv

\* Every step preserves Inv.
LEMMA InvStep == Inv /\ [Next]_vars => Inv'
<1> SUFFICES ASSUME Inv, [Next]_vars PROVE Inv'
  OBVIOUS
<1> USE QueueAssumption DEF Inv, TypeOK
<1>1. CASE UNCHANGED vars
  BY <1>1 DEF vars, Shape, SlotOf
<1>2. ASSUME NEW v \in Entry, Enqueue(v) PROVE Inv'
  <2>1. /\ UNCHANGED <<capacity, head, out, overrun>>
        /\ tail' \in 0 .. capacity - 1
        /\ mem' \in [0 .. capacity - 1 -> Slot]
        /\ size' = size + 1 /\ size' \in 0 .. capacity
    BY <1>2 DEF Enqueue, Put, Wrap, Slot
  <2>2. ASSUME Shape PROVE Shape'
    BY <1>2, <2>1, <2>2 DEF Enqueue, Put, Wrap, Shape, SlotOf
  <2> QED
    BY <2>1, <2>2
<1>3. ASSUME NEW v \in Entry, EnqueueGrow(v) PROVE Inv'
  <2>1. /\ capacity' = 2 * capacity /\ size = capacity /\ size' = size + 1
        /\ UNCHANGED out
        /\ overrun' = (overrun \/ Wrapped)
        /\ head' = IF Wrapped THEN 0 ELSE head
    BY <1>3 DEF EnqueueGrow, Put
  <2>2. /\ mem' \in [0 .. capacity' - 1 -> Slot]
        /\ tail' \in 0 .. capacity' - 1
    <3>1. CASE Wrapped
      <4>1. Moved(2 * capacity) \in [0 .. 2 * capacity - 1 -> Slot]
        BY DEF Moved, Slot
      <4> QED
        BY <1>3, <2>1, <3>1, <4>1 DEF EnqueueGrow, Put, Wrap, Slot
    <3>2. CASE ~Wrapped
      <4>1. Extended(2 * capacity) \in [0 .. 2 * capacity - 1 -> Slot]
        BY DEF Extended, Slot
      <4> QED
        BY <1>3, <2>1, <3>2, <4>1 DEF EnqueueGrow, Put, Wrap, Slot
    <3> QED
      BY <3>1, <3>2
  <2>3. head' \in 0 .. capacity' - 1 /\ size' \in 0 .. capacity'
    BY <2>1
  <2>4. overrun' \in BOOLEAN
    BY <2>1 DEF Wrapped
  <2>5. ASSUME ~overrun' PROVE Shape'
    <3>1. ~Wrapped /\ Shape
      BY <2>1, <2>5
    <3>2. head = 0 /\ tail = capacity - 1
      BY <2>1, <3>1 DEF Shape, SlotOf, Wrapped
    <3>3. tail' = capacity
      BY <1>3, <3>1, <3>2 DEF EnqueueGrow, Put, Wrap
    <3> QED
      BY <2>1, <3>1, <3>2, <3>3 DEF Shape, SlotOf
  <2> QED
    BY <2>1, <2>2, <2>3, <2>4, <2>5
<1>4. CASE EnqueueFails
  BY <1>4 DEF EnqueueFails, vars, Shape, SlotOf
<1>5. CASE Dequeue
  <2>1. /\ UNCHANGED <<mem, capacity, tail, overrun>>
        /\ head' \in 0 .. capacity - 1
        /\ size' = size - 1 /\ size' \in 0 .. capacity
        /\ out' \in Slot
    BY <1>5 DEF Dequeue, Wrap
  <2>2. ASSUME Shape PROVE Shape'
    BY <1>5, <2>1, <2>2 DEF Dequeue, Wrap, Shape, SlotOf
  <2> QED
    BY <1>5, <2>1, <2>2 DEF Dequeue
<1> QED
  BY <1>1, <1>2, <1>3, <1>4, <1>5 DEF Next

\* The assertions of enqueue() and dequeue() on tail and head do not fail before
\* memory is overrun, for any initial capacity and any sequence of calls.
THEOREM PointersStayInside == Spec => []PointersInside
<1>1. Inv => PointersInside
  BY DEF Inv, TypeOK, Shape, PointersInside
<1> QED
  BY <1>1, InvInit, InvStep, PTL DEF Spec

-----------------------------------------------------------------------------
(* Refinement of Fifo.                                                     *)

\* The contents are a sequence of slots.
LEMMA ContentsType ==
  Inv => Contents \in Seq(Slot) /\ Len(Contents) = size
<1> SUFFICES ASSUME Inv PROVE Contents \in Seq(Slot) /\ Len(Contents) = size
  OBVIOUS
<1>1. \A k \in 1 .. size : mem[SlotOf(k - 1)] \in Slot
  BY DEF Inv, TypeOK, SlotOf
<1>2. Contents \in [1 .. size -> Slot] /\ size \in Nat
  BY <1>1 DEF Contents, Inv, TypeOK
<1> QED
  BY <1>2, LenProperties

\* So they are after a step.
LEMMA ContentsTypePrime ==
  Inv' => (Contents' \in Seq(Slot) /\ Len(Contents') = size')
<1>1. (Inv => Contents \in Seq(Slot) /\ Len(Contents) = size)'
  BY ContentsType, PTL
<1> QED
  BY <1>1

\* Writing the slot after the last entry, and no other one, appends the entry.
LEMMA AppendContents ==
  ASSUME Inv, Inv', NEW v \in Slot, NEW n \in Nat, size = n, size' = n + 1,
         \A k \in 0 .. n - 1 : mem'[SlotOf(k)'] = mem[SlotOf(k)],
         mem'[SlotOf(n)'] = v
  PROVE  Contents' = Append(Contents, v)
<1>1. Contents \in Seq(Slot) /\ Len(Contents) = n
  BY ContentsType
<1>2. Contents' \in Seq(Slot) /\ Len(Contents') = n + 1
  BY ContentsTypePrime
<1>3. /\ Append(Contents, v) \in Seq(Slot)
      /\ Len(Append(Contents, v)) = n + 1
      /\ \A k \in 1 .. n : Append(Contents, v)[k] = Contents[k]
      /\ Append(Contents, v)[n + 1] = v
  BY <1>1, AppendProperties
<1>4. ASSUME NEW k \in 1 .. n + 1 PROVE Contents'[k] = Append(Contents, v)[k]
  <2>1. Contents'[k] = mem'[SlotOf(k - 1)']
    BY <1>4 DEF Contents, SlotOf
  <2>2. CASE k = n + 1
    <3>1. k - 1 = n
      BY <2>2
    <3>2. mem'[SlotOf(k - 1)'] = mem'[SlotOf(n)']
      BY <3>1
    <3> QED
      BY <1>3, <2>1, <2>2, <3>2
  <2>3. CASE k \in 1 .. n
    <3>1. k - 1 \in 0 .. n - 1
      BY <2>3
    <3>2. Contents[k] = mem[SlotOf(k - 1)]
      BY <2>3 DEF Contents
    <3> QED
      BY <1>3, <2>1, <2>3, <3>1, <3>2
  <2>4. k = n + 1 \/ k \in 1 .. n
    BY <1>4
  <2> QED
    BY <2>2, <2>3, <2>4
<1> QED
  BY <1>1, <1>2, <1>3, <1>4, SeqEqual

\* Enqueue and EnqueueGrow append, unless memory is overrun.
LEMMA EnqueueRefines ==
  ASSUME Inv, Inv', NEW v \in Entry, Enqueue(v) \/ EnqueueGrow(v), ~overrun'
  PROVE  Contents' = Append(Contents, v)
<1>1. size' = size + 1 /\ v \in Slot /\ size \in Nat
  BY DEF Enqueue, EnqueueGrow, Put, Slot, Inv, TypeOK
<1>2. PICK n \in Nat : n = size
  BY <1>1
<1>3. CASE Enqueue(v)
  <2>1. /\ size # capacity /\ capacity' = capacity /\ head' = head
        /\ tail' = SlotOf(size)
        /\ mem' = [mem EXCEPT ![tail'] = v]
    BY <1>3 DEF Enqueue, Put, Wrap, Inv, TypeOK, Shape, SlotOf
  <2>2. \A k \in 0 .. n : /\ SlotOf(k)' = SlotOf(k)
                          /\ SlotOf(k) \in 0 .. capacity - 1
    BY <1>2, <2>1 DEF SlotOf, Inv, TypeOK
  <2>3. \A k \in 0 .. n - 1 : SlotOf(k) # SlotOf(n)
    BY <1>2, <2>1 DEF SlotOf, Inv, TypeOK
  <2>4. n \in 0 .. n /\ \A k \in 0 .. n - 1 : k \in 0 .. n
    OBVIOUS
  <2>5. mem' = [mem EXCEPT ![SlotOf(n)] = v]
    BY <1>2, <2>1
  <2>6. mem'[SlotOf(n)'] = v
    BY <2>2, <2>4, <2>5 DEF Inv, TypeOK
  <2>7. \A k \in 0 .. n - 1 : mem'[SlotOf(k)'] = mem[SlotOf(k)]
    BY <2>2, <2>3, <2>4, <2>5 DEF Inv, TypeOK
  <2> QED
    BY <1>1, <1>2, <2>6, <2>7, AppendContents
<1>4. CASE EnqueueGrow(v)
  <2>1. ~Wrapped /\ Shape /\ size = capacity /\ capacity' = 2 * capacity
    BY <1>4 DEF EnqueueGrow, Inv
  <2>2. head = 0 /\ tail = capacity - 1 /\ head' = 0
    BY <1>4, <2>1 DEF EnqueueGrow, Shape, SlotOf, Wrapped, Inv, TypeOK
  <2>3. /\ tail' = capacity
        /\ mem' = [Extended(2 * capacity) EXCEPT ![capacity] = v]
    BY <1>4, <2>1, <2>2 DEF EnqueueGrow, Put, Wrap, Inv, TypeOK
  <2>4. n # 0 /\ capacity = n /\ capacity' = 2 * n
    BY <1>2, <2>1 DEF Inv, TypeOK
  <2>5. \A k \in 0 .. n - 1 : SlotOf(k) = k
    BY <2>2, <2>4 DEF SlotOf
  <2>6. \A k \in 0 .. n : SlotOf(k)' = k
    BY <2>2, <2>4 DEF SlotOf
  <2>7. mem'[n] = v
    BY <2>3, <2>4 DEF Extended
  <2>8. \A k \in 0 .. n - 1 : mem'[k] = mem[k]
    BY <2>3, <2>4 DEF Extended
  <2>9. mem'[SlotOf(n)'] = v
    BY <2>6, <2>7
  <2>10. \A k \in 0 .. n - 1 : mem'[SlotOf(k)'] = mem[SlotOf(k)]
    BY <2>5, <2>6, <2>8
  <2> QED
    BY <1>1, <1>2, <2>9, <2>10, AppendContents
<1> QED
  BY <1>3, <1>4

\* Dequeue delivers and removes the first entry.
LEMMA DequeueRefines ==
  ASSUME Inv, Inv', Dequeue
  PROVE  /\ Contents # <<>>
         /\ out' = Head(Contents)
         /\ Contents' = Tail(Contents)
<1>1. /\ size # 0 /\ size' = size - 1 /\ size \in Nat
      /\ mem' = mem /\ capacity' = capacity
      /\ head' = Wrap(head + 1, capacity) /\ out' = mem[head]
  BY DEF Dequeue, Inv, TypeOK
<1>2. Contents \in Seq(Slot) /\ Len(Contents) = size
  BY ContentsType
<1>3. Contents' \in Seq(Slot) /\ Len(Contents') = size - 1
  BY <1>1, ContentsTypePrime
<1>4. Contents # <<>>
  BY <1>1, <1>2, EmptySeq
<1>5. Contents[1] = mem[head]
  BY <1>1 DEF Contents, SlotOf, Inv, TypeOK
<1>6. /\ Tail(Contents) \in Seq(Slot)
      /\ Len(Tail(Contents)) = size - 1
      /\ \A k \in 1 .. size - 1 : Tail(Contents)[k] = Contents[k + 1]
      /\ Head(Contents) = Contents[1]
  BY <1>2, <1>4, HeadTailProperties
<1>7. ASSUME NEW k \in 1 .. size - 1 PROVE Contents'[k] = Contents[k + 1]
  <2>1. SlotOf(k - 1)' = SlotOf(k)
    BY <1>1, <1>7 DEF SlotOf, Wrap, Inv, TypeOK
  <2>2. Contents'[k] = mem'[SlotOf(k - 1)']
    BY <1>1, <1>7 DEF Contents, SlotOf
  <2>3. Contents[k + 1] = mem[SlotOf(k)]
    BY <1>1, <1>7 DEF Contents
  <2> QED
    BY <1>1, <2>1, <2>2, <2>3
<1>8. Contents' = Tail(Contents)
  BY <1>3, <1>6, <1>7, SeqEqual
<1> QED
  BY <1>1, <1>4, <1>5, <1>6, <1>8

\* queue.c keeps the promise of Fifo for every initial capacity: entries are
\* delivered in order, none lost or doubled, until the queue grows while its
\* entries are wrapped, which needs at least init_capacity entries in it.
THEOREM ImplementsFifo == Spec => IsFifo
<1>1. Init => Abstract!Init
  <2> SUFFICES ASSUME Init PROVE Abstract!Init
    OBVIOUS
  <2>1. Inv
    BY InvInit
  <2>2. Len(Contents) = 0 /\ Contents \in Seq(Slot)
    BY <2>1, ContentsType DEF Init
  <2>3. Contents = <<>>
    BY <2>2, EmptySeq
  <2> QED
    BY <2>1, <2>3 DEF Init, Abstract!Init, Inv, TypeOK
<1>2. Inv /\ Inv' /\ [Next]_vars => [Abstract!Next]_(Abstract!vars)
  <2> SUFFICES ASSUME Inv, Inv', [Next]_vars
               PROVE  Abstract!Next \/ UNCHANGED Abstract!vars
    BY DEF Abstract!vars
  <2>1. ASSUME UNCHANGED vars PROVE UNCHANGED Abstract!vars
    BY <2>1 DEF vars, Abstract!vars, Contents, SlotOf
  <2>2. CASE UNCHANGED vars \/ EnqueueFails
    BY <2>1, <2>2 DEF EnqueueFails
  <2>3. ASSUME NEW v \in Entry, Enqueue(v) \/ EnqueueGrow(v), ~overrun'
        PROVE  Abstract!Next
    <3>1. Contents' = Append(Contents, v)
      BY <2>3, EnqueueRefines
    <3>2. UNCHANGED <<out, overrun>> /\ ~overrun /\ v \in Slot
      BY <2>3 DEF Enqueue, EnqueueGrow, Inv, TypeOK, Slot
    <3> QED
      BY <3>1, <3>2 DEF Abstract!Next, Abstract!Enqueue
  <2>4. ASSUME NEW v \in Entry, Enqueue(v) \/ EnqueueGrow(v), overrun'
        PROVE  Abstract!Next
    <3>1. CASE overrun
      BY <2>4, <3>1 DEF Abstract!Next, Abstract!Anything
    <3>2. CASE ~overrun
      <4>1. size = capacity
        BY <2>4, <3>2 DEF Enqueue, EnqueueGrow
      <4>2. Len(Contents) >= init_capacity
        BY <4>1, ContentsType DEF Inv
      <4> QED
        BY <2>4, <3>2, <4>2 DEF Abstract!Next, Abstract!Break
    <3> QED
      BY <3>1, <3>2
  <2>5. CASE Dequeue
    <3>1. overrun' = overrun
      BY <2>5 DEF Dequeue
    <3>2. CASE overrun
      BY <3>1, <3>2 DEF Abstract!Next, Abstract!Anything
    <3>3. CASE ~overrun
      BY <2>5, <3>1, <3>3, DequeueRefines DEF Abstract!Next, Abstract!Dequeue
    <3> QED
      BY <3>2, <3>3
  <2> QED
    BY <2>2, <2>3, <2>4, <2>5 DEF Next
<1> QED
  BY <1>1, <1>2, InvInit, InvStep, PTL DEF Spec, IsFifo, Abstract!Spec
=============================================================================

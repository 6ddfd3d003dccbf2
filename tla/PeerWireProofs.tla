--------------------------- MODULE PeerWireProofs ---------------------------
(***************************************************************************)
(* Proofs about PeerWire, for every number and every kind of messages, and *)
(* every size of the handshake, of the bit field and of a block.           *)
(***************************************************************************)
EXTENDS PeerWire, SequenceTheorems, TLAPS

-----------------------------------------------------------------------------
(* The inductive invariant.                                                *)

\* Where message j starts, or will start.
StartOf(j) == IF j =< Len(msgs) THEN msgs[j].start ELSE written

\* The messages follow the handshake and one another, and none has more bytes
\* than its kind.
SenderInv ==
  /\ spc = "handshake" => msgs = <<>> /\ written < HANDSHAKE
  /\ spc \in {"idle", "sending"} => written >= HANDSHAKE
  /\ spc = "sending" =>
       msgs # <<>> /\ written < Current.start + Current.kind.size
  /\ msgs = <<>> => written =< HANDSHAKE
  /\ msgs # <<>> => msgs[1].start = HANDSHAKE
  /\ \A i \in 1 .. Len(msgs) :
       /\ msgs[i].start =< End(i)
       /\ End(i) =< msgs[i].start + msgs[i].kind.size
       /\ End(i) =< written
  /\ \A i, j \in 1 .. Len(msgs) : i < j => End(i) =< msgs[j].start

\* peer_msg_recv() has not been called, or is in the middle of a message.
Between == rpc \in {"poll", "peeked", "length"}
Within  == rpc \in {"type", "block", "body"}

ReceiverInv ==
  /\ rpc = "handshake" => consumed = 0 /\ delivered = <<>>
  /\ Between \/ Within => consumed >= HANDSHAKE
  /\ Within => len > 0

\* The bytes of the message that were received.
Taken ==
  CASE rpc = "type" -> PREFIX
    [] rpc = "body" /\ type = "PIECE" -> PREFIX + TYPE + 8
    [] OTHER -> PREFIX + TYPE

\* Between two messages the receiver is where the next one starts.
BetweenInv ==
  LET n == Len(delivered) IN
  /\ n =< Len(msgs)
  /\ consumed = StartOf(n + 1)
  /\ n = Len(msgs) => spc # "sending"

\* Within a message it has the right message, length and type.
WithinInv ==
  /\ at = Len(delivered) + 1
  /\ at \in 1 .. Len(msgs)
  /\ Sound(msgs[at].kind)
  /\ len = msgs[at].kind.len
  /\ consumed = msgs[at].start + Taken
  /\ rpc # "type" => type = msgs[at].kind.type
  /\ rpc = "block" => type = "PIECE"
  /\ ~blind => written + 2 >= msgs[at].start + PREFIX + len

\* For as long as the receiver has not come to a bad message.
FramingInv == ~Broken => (Between => BetweenInv) /\ (Within => WithinInv)

Inv == TypeOK /\ SenderInv /\ ReceiverInv /\ FramingInv /\ SameTorrent

-----------------------------------------------------------------------------
(* Kinds of messages, and what is written of them.                         *)

\* Only a MSG_KEEPALIVE has the length 0, and every message has its length.
LEMMA KindFacts ==
  ASSUME NEW m \in Kinds
  PROVE  /\ m.type \in Types
         /\ m.len \in Nat
         /\ m.size \in Nat /\ m.size >= PREFIX
         /\ m.len = 0 <=> m.type = "KEEPALIVE"
<1>1. CASE \E t \in OwnTypes : m = Own(t)
  <2>1. PICK t \in OwnTypes : m = Own(t)
    BY <1>1
  <2>2. t \in Types /\ BLOCK \in Nat /\ BITFIELD_BYTES \in Nat
    BY WireAssumption
  <2>3. msgbuf_len(t) \in Nat /\ (msgbuf_len(t) = 0 <=> t = "KEEPALIVE")
    BY <2>2 DEF msgbuf_len, Types
  <2>4. SentBytes(t) \in Nat /\ SentBytes(t) >= PREFIX
    BY <2>3 DEF SentBytes, PREFIX, TYPE
  <2> QED
    BY <2>1, <2>2, <2>3, <2>4 DEF Own
<1>2. CASE \E f \in Foreign :
              m = [type |-> f.type, len |-> f.len, size |-> PREFIX + f.len]
  BY <1>2, WireAssumption DEF PREFIX
<1> QED
  BY <1>1, <1>2 DEF Kinds

\* Message i, and the stream around it.
LEMMA MsgFacts ==
  ASSUME TypeOK, SenderInv, NEW i \in 1 .. Len(msgs)
  PROVE  /\ i \in DOMAIN msgs /\ msgs[i].kind \in Kinds
         /\ msgs[i].start \in Nat /\ End(i) \in Nat
         /\ msgs[i].start =< End(i) /\ End(i) =< written
         /\ End(i) =< msgs[i].start + msgs[i].kind.size
         /\ msgs[i].kind.size \in Nat /\ msgs[i].kind.size >= PREFIX
<1>1. msgs \in Seq(Begun) /\ written \in Nat
  BY DEF TypeOK
<1>2. i \in DOMAIN msgs /\ msgs[i] \in Begun
  BY <1>1
<1>3. i < Len(msgs) => msgs[i + 1] \in Begun
  BY <1>1
<1>4. End(i) \in Nat
  BY <1>1, <1>3 DEF End, Begun
<1> QED
  BY <1>2, <1>4, KindFacts DEF SenderInv, Begun

\* A message that is not bad, all of whose bytes there are, is followed at once
\* by the next.
LEMMA WholeEnds ==
  ASSUME TypeOK, SenderInv, NEW i \in 1 .. Len(msgs), ~Bad(i),
         written >= msgs[i].start + msgs[i].kind.size
  PROVE  /\ StartOf(i + 1) = msgs[i].start + msgs[i].kind.size
         /\ i = Len(msgs) => spc # "sending"
<1>1. Len(msgs) \in Nat /\ written \in Nat
  BY DEF TypeOK
<1>2. CASE i < Len(msgs)
  <2>1. ~(End(i) < msgs[i].start + msgs[i].kind.size)
    BY <1>2 DEF Bad, CutOff
  <2>2. End(i) = msgs[i].start + msgs[i].kind.size
    BY <2>1, MsgFacts
  <2> QED
    BY <1>1, <1>2, <2>2 DEF End, StartOf
<1>3. CASE i = Len(msgs)
  <2>1. End(i) = written /\ StartOf(i + 1) = written
    BY <1>1, <1>3 DEF End, StartOf
  <2>2. written = msgs[i].start + msgs[i].kind.size
    BY <1>1, <2>1, MsgFacts
  <2>3. spc = "sending" => written < msgs[i].start + msgs[i].kind.size
    BY <1>3 DEF SenderInv, Current
  <2> QED
    BY <1>1, <2>1, <2>2, <2>3
<1> QED
  BY <1>1, <1>2, <1>3

-----------------------------------------------------------------------------

LEMMA InvInit == Init => Inv
<1> SUFFICES ASSUME Init PROVE Inv
  OBVIOUS
<1>1. blind \in BOOLEAN
  BY Zenon DEF Init
<1>2. TypeOK
  BY <1>1 DEF Init, TypeOK, Types
<1>3. SenderInv /\ ReceiverInv /\ SameTorrent
  BY WireAssumption DEF Init, SenderInv, ReceiverInv, Between, Within, SameTorrent
<1>4. FramingInv
  BY DEF Init, FramingInv, Between, Within
<1> QED
  BY <1>2, <1>3, <1>4 DEF Inv

-----------------------------------------------------------------------------
(* Steps of the sender.  A bad message stays bad, and a new one is not     *)
(* where the receiver is already.                                          *)

LEMMA SendHandshakeStep ==
  ASSUME Inv, SendHandshake
  PROVE  Inv' /\ (Broken => Broken')
<1>1. /\ spc = "handshake" /\ written' = written + 1
      /\ spc' = IF written' = HANDSHAKE THEN "idle" ELSE "handshake"
      /\ UNCHANGED <<msgs, theirs, rpc, consumed, at, len, type, blind, delivered>>
  BY DEF SendHandshake, receiver
<1>2. msgs = <<>> /\ written < HANDSHAKE /\ HANDSHAKE \in Nat
  BY <1>1, WireAssumption DEF Inv, SenderInv
<1>3. TypeOK'
  BY <1>1 DEF Inv, TypeOK
<1>4. SenderInv'
  BY <1>1, <1>2 DEF Inv, TypeOK, SenderInv
<1>5. ReceiverInv' /\ SameTorrent'
  BY <1>1 DEF Inv, ReceiverInv, Between, Within, SameTorrent
<1>6. ~Broken /\ ~Broken'
  BY <1>1, <1>2 DEF Broken
<1>7. FramingInv'
  <2>1. ~(Between \/ Within)
    BY <1>2 DEF Inv, TypeOK, ReceiverInv
  <2> QED
    BY <1>1, <2>1 DEF FramingInv, Between, Within
<1> QED
  BY <1>3, <1>4, <1>5, <1>6, <1>7 DEF Inv

\* What the sender's steps have in common.
LEMMA SenderKeeps ==
  ASSUME Inv, TypeOK', SenderInv',
         UNCHANGED <<theirs, rpc, consumed, at, len, type, blind, delivered>>,
         written' >= written, Len(msgs') >= Len(msgs),
         \A i \in 1 .. Len(msgs) : msgs'[i] = msgs[i] /\ (Bad(i) => Bad(i)'),
         ~Broken /\ Between => BetweenInv'
  PROVE  Inv' /\ (Broken => Broken')
<1>1. Broken => Broken'
  <2> SUFFICES ASSUME Broken PROVE Broken'
    OBVIOUS
  <2>1. PICK i \in DOMAIN msgs : Bad(i) /\ consumed > msgs[i].start
    BY DEF Broken
  <2>2. i \in 1 .. Len(msgs) /\ i \in 1 .. Len(msgs')
    BY DEF Inv, TypeOK
  <2>3. i \in DOMAIN msgs'
    BY <2>2 DEF TypeOK
  <2> QED
    BY <2>1, <2>2, <2>3 DEF Broken
<1>2. ReceiverInv' /\ SameTorrent'
  BY DEF Inv, ReceiverInv, Between, Within, SameTorrent
<1>3. ASSUME ~Broken, Within PROVE WithinInv'
  <2>1. WithinInv /\ at \in 1 .. Len(msgs) /\ at \in 1 .. Len(msgs')
    BY <1>3 DEF Inv, FramingInv, WithinInv, TypeOK
  <2>2. msgs'[at'] = msgs[at] /\ Taken' = Taken
    BY <2>1 DEF Taken
  <2>3. msgs[at].start \in Nat
    BY <2>1, MsgFacts DEF Inv
  <2>4. at' = at /\ len' = len /\ len \in Nat /\ written \in Nat /\ written' \in Nat
    BY DEF Inv, TypeOK
  <2>5. ASSUME ~blind PROVE written' + 2 >= msgs[at].start + PREFIX + len
    <3>1. written + 2 >= msgs[at].start + PREFIX + len
      BY <2>1, <2>5, Zenon DEF WithinInv
    <3> QED
      BY <2>3, <2>4, <3>1 DEF PREFIX
  <2> QED
    BY <2>1, <2>2, <2>4, <2>5 DEF WithinInv, Sound
<1>4. FramingInv'
  BY <1>1, <1>3 DEF FramingInv, Between, Within
<1> QED
  BY <1>1, <1>2, <1>4 DEF Inv

LEMMA BeginStep ==
  ASSUME Inv, NEW m \in Kinds, Begin(m)
  PROVE  Inv' /\ (Broken' <=> Broken)
<1> DEFINE r == [kind |-> m, start |-> written]
<1> PICK L \in Nat : L = Len(msgs)
  BY DEF Inv, TypeOK
<1>1. /\ spc = "idle" /\ spc' = "sending" /\ msgs' = Append(msgs, r)
      /\ written' = written
      /\ UNCHANGED <<theirs, rpc, consumed, at, len, type, blind, delivered>>
  BY DEF Begin, receiver
<1>2. r \in Begun /\ written \in Nat /\ msgs \in Seq(Begun) /\ L \in Nat
      /\ r.start = written /\ r.kind = m
  BY DEF Begun, Inv, TypeOK
<1> HIDE DEF r
<1>3. /\ msgs' \in Seq(Begun) /\ Len(msgs') = L + 1 /\ msgs'[L + 1] = r
      /\ \A i \in 1 .. L : msgs'[i] = msgs[i]
  BY <1>1, <1>2
<1>4. TypeOK'
  BY <1>1, <1>2, <1>3 DEF Inv, TypeOK
<1>5. ASSUME NEW i \in 1 .. L PROVE End(i)' = End(i)
  BY <1>1, <1>2, <1>3 DEF End
<1>6. End(L + 1)' = written
  BY <1>1, <1>2, <1>3 DEF End
<1>7. m.size \in Nat /\ m.size >= PREFIX
  BY KindFacts
<1>8. SenderInv'
  <2>1. Current' = r /\ msgs' # <<>>
    BY <1>2, <1>3 DEF Current
  <2>2. spc' = "sending" /\ written' >= HANDSHAKE /\ written < r.start + r.kind.size
    BY <1>1, <1>2, <1>7 DEF Inv, SenderInv, PREFIX
  <2>3. msgs'[1].start = HANDSHAKE
    <3>1. CASE L = 0
      <4>1. Len(msgs) = 0 /\ msgs \in Seq(Begun)
        BY <1>2, <3>1
      <4>2. msgs = <<>>
        BY <4>1
      <4> QED
        BY <1>1, <1>2, <1>3, <3>1, <4>2, WireAssumption DEF Inv, SenderInv
    <3>2. CASE L > 0
      <4>1. msgs # <<>> /\ 1 \in 1 .. L
        BY <1>2, <3>2
      <4> QED
        BY <1>3, <4>1 DEF Inv, SenderInv
    <3> QED
      BY <1>2, <3>1, <3>2
  <2>4. ASSUME NEW i \in 1 .. L + 1
        PROVE  /\ msgs'[i].start =< End(i)'
               /\ End(i)' =< msgs'[i].start + msgs'[i].kind.size
               /\ End(i)' =< written
    <3>1. CASE i = L + 1
      BY <1>2, <1>3, <1>6, <1>7, <3>1
    <3>2. CASE i \in 1 .. L
      BY <1>3, <1>5, <3>2, MsgFacts DEF Inv
    <3> QED
      BY <1>2, <3>1, <3>2
  <2>5. ASSUME NEW i \in 1 .. L + 1, NEW j \in 1 .. L + 1, i < j
        PROVE  End(i)' =< msgs'[j].start
    <3>1. i \in 1 .. L /\ (j = L + 1 \/ j \in 1 .. L)
      BY <1>2, <2>5
    <3> QED
      BY <1>2, <1>3, <1>5, <2>5, <3>1, MsgFacts DEF Inv, SenderInv
  <2> QED
    BY <1>1, <1>3, <2>1, <2>2, <2>3, <2>4, <2>5 DEF SenderInv
<1>9. ASSUME NEW i \in 1 .. L PROVE Bad(i)' <=> Bad(i)
  BY <1>1, <1>2, <1>3, <1>5 DEF Bad, CutOff
<1>10. ASSUME ~Broken, Between PROVE BetweenInv'
  <2> DEFINE n == Len(delivered)
  <2>1. BetweenInv /\ n \in Nat
    BY <1>10 DEF Inv, FramingInv, TypeOK
  <2>2. n =< L /\ consumed = StartOf(n + 1)
    BY <2>1 DEF BetweenInv
  <2>3. CASE n = L
    BY <1>1, <1>2, <1>3, <2>1, <2>2, <2>3 DEF BetweenInv, StartOf
  <2>4. CASE n < L
    <3>1. n + 1 \in 1 .. L
      BY <1>2, <2>1, <2>4
    <3> QED
      BY <1>1, <1>2, <1>3, <2>1, <2>2, <2>4, <3>1 DEF BetweenInv, StartOf
  <2> QED
    BY <1>2, <2>1, <2>2, <2>3, <2>4
<1>11. Inv' /\ (Broken => Broken')
  BY <1>1, <1>2, <1>3, <1>4, <1>8, <1>9, <1>10, SenderKeeps
<1>12. Broken' => Broken
  <2> SUFFICES ASSUME Broken' PROVE Broken
    OBVIOUS
  <2>1. PICK i \in DOMAIN msgs' : Bad(i)' /\ consumed > msgs'[i].start
    BY <1>1 DEF Broken
  <2>2. i \in 1 .. L
    <3>1. i \in 1 .. L + 1
      BY <1>3
    <3>2. i # L + 1
      BY <1>2, <1>3, <2>1 DEF Inv, TypeOK
    <3> QED
      BY <1>2, <3>1, <3>2
  <2>3. i \in DOMAIN msgs
    BY <1>2, <2>2
  <2> QED
    BY <1>3, <1>9, <2>1, <2>2, <2>3 DEF Broken
<1> QED
  BY <1>11, <1>12

LEMMA SendByteStep ==
  ASSUME Inv, SendByte
  PROVE  Inv' /\ (Broken => Broken')
<1>1. /\ spc = "sending" /\ written' = written + 1 /\ msgs' = msgs
      /\ spc' = IF written' - Current.start = Current.kind.size
                THEN "idle" ELSE "sending"
      /\ UNCHANGED <<theirs, rpc, consumed, at, len, type, blind, delivered>>
  BY DEF SendByte, receiver
<1> PICK L \in Nat : L = Len(msgs)
  BY DEF Inv, TypeOK
<1>2. L \in 1 .. L /\ Current = msgs[L] /\ Current' = msgs[L] /\ msgs # <<>>
  BY <1>1 DEF Inv, SenderInv, TypeOK, Current
<1>3. /\ msgs[L].start \in Nat /\ msgs[L].kind.size \in Nat /\ written \in Nat
      /\ msgs[L].start =< written /\ written < msgs[L].start + msgs[L].kind.size
  BY <1>1, <1>2, MsgFacts DEF Inv, SenderInv, TypeOK, End
<1>4. TypeOK'
  BY <1>1 DEF Inv, TypeOK
<1>5. ASSUME NEW i \in 1 .. L
      PROVE  End(i)' = IF i < L THEN End(i) ELSE written + 1
  BY <1>1 DEF End
<1>6. SenderInv'
  <2>1. spc' = "sending" => written' < msgs[L].start + msgs[L].kind.size
    BY <1>1, <1>2, <1>3
  <2>2. ASSUME NEW i \in 1 .. L
        PROVE  /\ msgs[i].start =< End(i)'
               /\ End(i)' =< msgs[i].start + msgs[i].kind.size
               /\ End(i)' =< written'
    <3>1. CASE i = L
      BY <1>1, <1>3, <1>5, <3>1
    <3>2. CASE i < L
      BY <1>1, <1>3, <1>5, <3>2, MsgFacts DEF Inv
    <3> QED
      BY <3>1, <3>2
  <2>3. ASSUME NEW i \in 1 .. L, NEW j \in 1 .. L, i < j
        PROVE  End(i)' =< msgs[j].start
    BY <1>5, <2>3 DEF Inv, SenderInv
  <2>4. spc' \in {"idle", "sending"} /\ written' >= HANDSHAKE
    BY <1>1, <1>3, WireAssumption DEF Inv, SenderInv
  <2> QED
    BY <1>1, <1>2, <2>1, <2>2, <2>3, <2>4 DEF SenderInv, Inv
<1>7. ASSUME NEW i \in 1 .. L, Bad(i) PROVE Bad(i)'
  <2>1. CASE i = L
    <3>1. ~Sound(msgs[i].kind)
      BY <1>1, <1>7, <2>1 DEF Bad, CutOff
    <3> QED
      BY <1>1, <3>1 DEF Bad
  <2>2. CASE i < L
    BY <1>1, <1>5, <1>7, <2>2 DEF Bad, CutOff
  <2> QED
    BY <2>1, <2>2
<1>8. ASSUME ~Broken, Between PROVE BetweenInv'
  <2>1. BetweenInv /\ Len(delivered) \in Nat
    BY <1>8 DEF Inv, FramingInv, TypeOK
  <2> QED
    BY <1>1, <2>1 DEF BetweenInv, StartOf
<1> QED
  BY <1>1, <1>3, <1>4, <1>6, <1>7, <1>8, SenderKeeps

LEMMA SendFailsStep ==
  ASSUME Inv, SendFails
  PROVE  Inv' /\ (Broken => Broken')
<1>1. /\ spc \in {"handshake", "sending"} /\ spc' \in {"idle", "closed"}
      /\ spc = "handshake" => spc' = "closed"
      /\ UNCHANGED <<written, msgs, theirs, rpc, consumed, at, len, type, blind,
                     delivered>>
  BY DEF SendFails, receiver
<1>2. TypeOK'
  BY <1>1 DEF Inv, TypeOK
<1>3. \A i \in 1 .. Len(msgs) : End(i)' = End(i)
  BY <1>1 DEF End
<1>4. SenderInv'
  BY <1>1, <1>3 DEF Inv, SenderInv
<1>5. ASSUME NEW i \in 1 .. Len(msgs), Bad(i) PROVE Bad(i)'
  BY <1>1, <1>3, <1>5 DEF Bad, CutOff
<1>6. ASSUME ~Broken, Between PROVE BetweenInv'
  BY <1>1, <1>6 DEF Inv, FramingInv, BetweenInv, StartOf
<1>7. written' >= written /\ Len(msgs') >= Len(msgs)
  BY <1>1 DEF Inv, TypeOK
<1> QED
  BY <1>1, <1>2, <1>4, <1>5, <1>6, <1>7, SenderKeeps

LEMMA CloseStep ==
  ASSUME Inv, Close
  PROVE  Inv' /\ (Broken => Broken')
<1>1. /\ spc = "idle" /\ spc' = "closed"
      /\ UNCHANGED <<written, msgs, theirs, rpc, consumed, at, len, type, blind,
                     delivered>>
  BY DEF Close, receiver
<1>2. TypeOK'
  BY <1>1 DEF Inv, TypeOK
<1>3. \A i \in 1 .. Len(msgs) : End(i)' = End(i)
  BY <1>1 DEF End
<1>4. SenderInv'
  BY <1>1, <1>3 DEF Inv, SenderInv
<1>5. ASSUME NEW i \in 1 .. Len(msgs), Bad(i) PROVE Bad(i)'
  BY <1>1, <1>3, <1>5 DEF Bad, CutOff
<1>6. ASSUME ~Broken, Between PROVE BetweenInv'
  BY <1>1, <1>6 DEF Inv, FramingInv, BetweenInv, StartOf
<1>7. written' >= written /\ Len(msgs') >= Len(msgs)
  BY <1>1 DEF Inv, TypeOK
<1> QED
  BY <1>1, <1>2, <1>4, <1>5, <1>6, <1>7, SenderKeeps

-----------------------------------------------------------------------------
(* Steps of the receiver.                                                  *)

\* The next message that was sent is handed on.
Handed ==
  /\ Len(delivered) < Len(msgs)
  /\ delivered' = Append(delivered, msgs[Len(delivered) + 1].kind.type)

\* What every step of the receiver is shown to do.
Kept ==
  /\ Inv'
  /\ Broken => Broken'
  /\ ~Broken' => delivered' = delivered \/ Handed

\* Bytes are received; those of a bad message break the framing.
LEMMA ReceiverKeeps ==
  ASSUME Inv, UNCHANGED <<spc, written, msgs>>, consumed' \in consumed .. written
  PROVE  /\ SenderInv'
         /\ Broken => Broken'
         /\ ~Broken' => \A i \in 1 .. Len(msgs) : consumed' > msgs[i].start => ~Bad(i)
<1>1. \A i \in DOMAIN msgs : End(i)' = End(i) /\ (Bad(i)' <=> Bad(i))
  BY DEF End, Bad, CutOff
<1>2. DOMAIN msgs = 1 .. Len(msgs)
  BY DEF Inv, TypeOK
<1>3. SenderInv'
  BY <1>1, <1>2 DEF Inv, SenderInv, Current
<1>4. Broken => Broken'
  <2> SUFFICES ASSUME Broken PROVE Broken'
    OBVIOUS
  <2>1. PICK i \in DOMAIN msgs : Bad(i) /\ consumed > msgs[i].start
    BY DEF Broken
  <2>2. consumed' > msgs[i].start
    BY <1>2, <2>1, MsgFacts DEF Inv, TypeOK
  <2> QED
    BY <1>1, <2>1, <2>2 DEF Broken
<1>5. ASSUME ~Broken', NEW i \in 1 .. Len(msgs), consumed' > msgs[i].start
      PROVE  ~Bad(i)
  BY <1>1, <1>2, <1>5 DEF Broken
<1> QED
  BY <1>3, <1>4, <1>5

\* The connection ends.
LEMMA AbortKeeps ==
  ASSUME Inv, UNCHANGED <<spc, written, msgs, theirs>>,
         consumed' \in consumed .. written, Abort
  PROVE  Kept
<1>1. /\ rpc' = "aborted" /\ at' = 0 /\ len' = 0 /\ type' = "KEEPALIVE"
      /\ delivered' = delivered
  BY DEF Abort, Return
<1>2. blind' \in BOOLEAN
  BY Zenon DEF Abort, Return
<1>3. TypeOK'
  BY <1>1, <1>2 DEF Inv, TypeOK, Types
<1>4. ReceiverInv' /\ FramingInv' /\ SameTorrent'
  BY <1>1 DEF ReceiverInv, FramingInv, Between, Within, SameTorrent
<1> QED
  BY <1>1, <1>3, <1>4, ReceiverKeeps DEF Kept, Inv

\* A message is handed on, and the receiver is where it ended.
LEMMA DeliverKeeps ==
  ASSUME Inv, UNCHANGED <<spc, written, msgs, theirs>>, Between \/ Within,
         consumed' \in consumed .. written, NEW t \in Types, Deliver(t),
         NEW n \in Nat, n = Len(delivered) + 1,
         ~Broken' => /\ n \in 1 .. Len(msgs)
                     /\ t = msgs[n].kind.type
                     /\ consumed' = msgs[n].start + msgs[n].kind.size
  PROVE  Kept
<1>1. /\ rpc' = "poll" /\ at' = 0 /\ len' = 0 /\ type' = "KEEPALIVE"
      /\ delivered' = Append(delivered, t)
  BY DEF Deliver, Return
<1>2. blind' \in BOOLEAN
  BY Zenon DEF Deliver, Return
<1>3. delivered' \in Seq(Types) /\ Len(delivered') = n
  BY <1>1 DEF Inv, TypeOK
<1>4. TypeOK'
  BY <1>1, <1>2, <1>3 DEF Inv, TypeOK, Types
<1>5. ReceiverInv' /\ SameTorrent'
  <2>1. consumed' >= HANDSHAKE
    BY WireAssumption DEF Inv, ReceiverInv, TypeOK
  <2> QED
    BY <1>1, <2>1 DEF Inv, ReceiverInv, Between, Within, SameTorrent
<1>6. ASSUME ~Broken' PROVE BetweenInv' /\ Handed
  <2>1. /\ n \in 1 .. Len(msgs) /\ t = msgs[n].kind.type
        /\ consumed' = msgs[n].start + msgs[n].kind.size
    BY <1>6
  <2>2. ~Bad(n)
    <3>1. consumed' > msgs[n].start
      BY <2>1, MsgFacts DEF Inv, PREFIX
    <3> QED
      BY <1>6, <2>1, <3>1, ReceiverKeeps
  <2>3. written >= msgs[n].start + msgs[n].kind.size
    BY <2>1 DEF Inv, TypeOK
  <2>4. /\ StartOf(n + 1) = msgs[n].start + msgs[n].kind.size
        /\ n = Len(msgs) => spc # "sending"
    BY <2>1, <2>2, <2>3, WholeEnds DEF Inv
  <2>5. BetweenInv'
    BY <1>3, <2>1, <2>4 DEF BetweenInv, StartOf
  <2>6. Handed
    BY <1>1, <2>1 DEF Handed, Inv, TypeOK
  <2> QED
    BY <2>5, <2>6
<1>7. FramingInv'
  BY <1>1, <1>6 DEF FramingInv, Between, Within
<1> QED
  BY <1>4, <1>5, <1>6, <1>7, ReceiverKeeps DEF Kept, Inv

LEMMA HeadFacts ==
  ASSUME Inv, NEW h \in Heads
  PROVE  /\ h[1] \in 0 .. Len(msgs) /\ h[2] \in Nat
         /\ h[1] # 0 => AtStart(h[1]) /\ h[2] = msgs[h[1]].kind.len
         /\ h[1] = 0 => \A i \in DOMAIN msgs : ~AtStart(i)
<1>1. DOMAIN msgs = 1 .. Len(msgs)
  BY DEF Inv, TypeOK
<1>2. CASE \E i \in DOMAIN msgs : AtStart(i) /\ h = <<i, msgs[i].kind.len>>
  <2>1. PICK i \in DOMAIN msgs : AtStart(i) /\ h = <<i, msgs[i].kind.len>>
    BY <1>2
  <2>2. msgs[i].kind.len \in Nat
    BY <1>1, <2>1, MsgFacts, KindFacts DEF Inv
  <2> QED
    BY <1>1, <2>1, <2>2
<1>3. CASE \E l \in JunkLens : (\A i \in DOMAIN msgs : ~AtStart(i)) /\ h = <<0, l>>
  BY <1>3, WireAssumption DEF Inv, TypeOK
<1> QED
  BY <1>2, <1>3 DEF Heads

\* The length that is read is that of the next message, unless that message is
\* bad: a receiver at its start finds nothing else there.
LEMMA HeadIsNext ==
  ASSUME Inv, NEW h \in Heads, Avail >= PREFIX, BetweenInv,
         \A i \in 1 .. Len(msgs) : consumed + PREFIX > msgs[i].start => ~Bad(i),
         NEW n \in Nat, n = Len(delivered) + 1
  PROVE  /\ n \in 1 .. Len(msgs)
         /\ h[1] = n /\ h[2] = msgs[n].kind.len
         /\ msgs[n].start = consumed
         /\ Sound(msgs[n].kind)
         /\ End(n) >= consumed + PREFIX
<1>1. /\ Len(msgs) \in Nat /\ Len(delivered) \in Nat /\ written \in Nat
      /\ consumed \in Nat /\ DOMAIN msgs = 1 .. Len(msgs)
  BY DEF Inv, TypeOK
<1>2. written >= consumed + 4
  BY <1>1 DEF Avail, PREFIX
<1>3. n \in 1 .. Len(msgs) /\ msgs[n].start = consumed
  BY <1>1, <1>2 DEF BetweenInv, StartOf
<1>4. ~Bad(n)
  BY <1>1, <1>3 DEF PREFIX
<1>5. End(n) >= consumed + PREFIX
  <2>1. CASE n < Len(msgs)
    <3>1. ~(End(n) < msgs[n].start + msgs[n].kind.size)
      BY <1>4, <2>1 DEF Bad, CutOff
    <3> QED
      BY <1>1, <1>3, <3>1, MsgFacts DEF Inv, PREFIX
  <2>2. CASE n = Len(msgs)
    BY <1>1, <1>2, <2>2 DEF End, PREFIX
  <2> QED
    BY <1>3, <2>1, <2>2
<1>6. AtStart(n)
  BY <1>1, <1>3, <1>5 DEF AtStart
<1>7. ASSUME NEW i \in 1 .. Len(msgs), AtStart(i) PROVE i = n
  <2>1. msgs[i].start = consumed /\ End(i) >= consumed + 4 /\ End(n) >= consumed + 4
    BY <1>5, <1>7 DEF AtStart, PREFIX
  <2>2. End(i) \in Nat /\ End(n) \in Nat
    BY <1>3, MsgFacts DEF Inv
  <2>3. ~(i < n)
    BY <1>1, <1>3, <2>1, <2>2 DEF Inv, SenderInv
  <2>4. ~(n < i)
    BY <1>1, <1>3, <2>1, <2>2 DEF Inv, SenderInv
  <2> QED
    BY <1>3, <2>3, <2>4
<1>8. h[1] # 0
  BY <1>1, <1>3, <1>6, HeadFacts
<1>9. h[1] = n /\ h[2] = msgs[n].kind.len
  <2>1. h[1] \in 1 .. Len(msgs) /\ AtStart(h[1])
    BY <1>1, <1>8, HeadFacts
  <2>2. h[1] = n
    BY <1>7, <2>1
  <2> QED
    BY <1>8, <2>2, HeadFacts
<1>10. Sound(msgs[n].kind)
  BY <1>4 DEF Bad
<1> QED
  BY <1>3, <1>5, <1>9, <1>10

\* strncmp() is right up to the first zero byte.
LEMMA StrncmpFacts ==
  ASSUME NEW a \in Hashes, strncmp(a, info_hash), NEW i \in DOMAIN info_hash,
         \A j \in 1 .. i - 1 : info_hash[j] # 0
  PROVE  a[i] = info_hash[i]
<1>1. /\ a \in Seq(0 .. 255) /\ info_hash \in Seq(0 .. 255)
      /\ Len(a) = Len(info_hash) /\ Len(a) \in Nat /\ i \in 1 .. Len(a)
  BY WireAssumption
<1>2. PICK n \in 0 .. Len(a) :
        /\ \A j \in 1 .. n : a[j] = info_hash[j]
        /\ n = Len(a) \/ (n > 0 /\ a[n] = 0)
  BY DEF strncmp
<1>3. CASE i =< n
  <2>1. i \in 1 .. n
    BY <1>1, <1>3
  <2> QED
    BY <1>2, <2>1
<1>4. CASE i > n
  <2>1. n > 0 /\ a[n] = 0 /\ n \in 1 .. i - 1 /\ n \in 1 .. n
    BY <1>1, <1>2, <1>4
  <2> QED
    BY <1>2, <2>1
<1> QED
  BY <1>1, <1>3, <1>4

LEMMA RecvHandshakeStep ==
  ASSUME Inv, RecvHandshake
  PROVE  Kept
<1>1. /\ rpc = "handshake" /\ Avail >= HANDSHAKE /\ consumed' = HANDSHAKE
      /\ rpc' = IF theirs.proto /\ strncmp(theirs.hash, info_hash)
                THEN "poll" ELSE "aborted"
      /\ UNCHANGED <<spc, written, msgs, theirs, at, len, type, blind, delivered>>
  BY DEF RecvHandshake, sender
<1>2. rpc' \in {"poll", "aborted"} /\ (rpc' = "poll" => strncmp(theirs.hash, info_hash))
  BY <1>1
<1>3. /\ consumed = 0 /\ delivered = <<>> /\ written \in Nat /\ HANDSHAKE \in Nat
      /\ Len(msgs) \in Nat
  BY <1>1, WireAssumption DEF Inv, ReceiverInv, TypeOK
<1>4. consumed' \in consumed .. written /\ written >= HANDSHAKE
  BY <1>1, <1>3 DEF Avail
<1>5. TypeOK'
  BY <1>1, <1>2, <1>4 DEF Inv, TypeOK
<1>6. ReceiverInv'
  BY <1>1, <1>2, <1>3 DEF ReceiverInv, Between, Within
<1>7. SameTorrent'
  <2>1. theirs.hash \in Hashes
    BY DEF Inv, TypeOK, Handshakes
  <2> QED
    BY <1>1, <1>2, <2>1, StrncmpFacts DEF SameTorrent
<1>8. BetweenInv'
  <2>1. CASE Len(msgs) = 0
    <3>1. msgs = <<>>
      BY <2>1 DEF Inv, TypeOK
    <3>2. written = HANDSHAKE /\ spc # "sending"
      BY <1>3, <1>4, <3>1 DEF Inv, SenderInv
    <3> QED
      BY <1>1, <1>3, <2>1, <3>2 DEF BetweenInv, StartOf
  <2>2. CASE Len(msgs) > 0
    <3>1. msgs # <<>>
      BY <2>2
    <3>2. msgs[1].start = HANDSHAKE
      BY <3>1 DEF Inv, SenderInv
    <3> QED
      BY <1>1, <1>3, <2>2, <3>2 DEF BetweenInv, StartOf
  <2> QED
    BY <1>3, <2>1, <2>2
<1>9. FramingInv'
  BY <1>2, <1>8 DEF FramingInv, Within
<1> QED
  BY <1>1, <1>4, <1>5, <1>6, <1>7, <1>9, ReceiverKeeps DEF Kept, Inv

\* The length of a message is received.
LEMMA LengthKeeps ==
  ASSUME Inv, Between, UNCHANGED <<spc, written, msgs, theirs>>,
         NEW h \in Heads, Avail >= PREFIX, Length(h), blind' \in BOOLEAN,
         h[2] # 0 /\ ~blind' => Avail >= h[2] + 2
  PROVE  Kept
<1> PICK n \in Nat : n = Len(delivered) + 1
  BY DEF Inv, TypeOK
<1>1. h[1] \in 0 .. Len(msgs) /\ h[2] \in Nat
  BY HeadFacts
<1>2. /\ consumed' = consumed + 4 /\ consumed' \in consumed .. written
      /\ consumed \in Nat /\ written \in Nat
  BY DEF Length, Avail, PREFIX, Inv, TypeOK
<1>3. ASSUME ~Broken'
      PROVE  /\ n \in 1 .. Len(msgs) /\ h[1] = n /\ h[2] = msgs[n].kind.len
             /\ msgs[n].start = consumed /\ Sound(msgs[n].kind)
             /\ End(n) >= consumed + PREFIX
  <2>1. \A i \in 1 .. Len(msgs) : consumed + PREFIX > msgs[i].start => ~Bad(i)
    BY <1>2, <1>3, ReceiverKeeps DEF PREFIX
  <2>2. BetweenInv
    BY <1>2, <1>3, ReceiverKeeps DEF Inv, FramingInv
  <2> QED
    BY <2>1, <2>2, HeadIsNext
<1>4. CASE h[2] = 0
  <2>1. Deliver("KEEPALIVE") /\ "KEEPALIVE" \in Types
    BY <1>4 DEF Length, Types
  <2>2. ASSUME ~Broken'
        PROVE  /\ n \in 1 .. Len(msgs) /\ "KEEPALIVE" = msgs[n].kind.type
               /\ consumed' = msgs[n].start + msgs[n].kind.size
    BY <1>2, <1>3, <1>4, <2>2, MsgFacts, KindFacts DEF Inv, Sound, PREFIX
  <2> QED
    BY <1>2, <2>1, <2>2, DeliverKeeps
<1>5. CASE h[2] # 0
  <2>1. rpc' = "type" /\ at' = h[1] /\ len' = h[2] /\ UNCHANGED <<type, delivered>>
    BY <1>5 DEF Length
  <2>2. TypeOK'
    BY <1>1, <1>2, <2>1 DEF Inv, TypeOK
  <2>3. ReceiverInv' /\ SameTorrent'
    BY <1>1, <1>2, <1>5, <2>1, WireAssumption
    DEF Inv, ReceiverInv, Between, Within, SameTorrent
  <2>4. ASSUME ~Broken' PROVE WithinInv'
    <3>1. ASSUME ~blind' PROVE written + 2 >= msgs[n].start + PREFIX + h[2]
      <4>1. Avail >= h[2] + 2
        BY <1>5, <3>1, Zenon
      <4> QED
        BY <1>1, <1>2, <1>3, <2>4, <4>1 DEF Avail, PREFIX
    <3>2. at' = n /\ n = Len(delivered) + 1 /\ len' = msgs[n].kind.len
          /\ n \in 1 .. Len(msgs) /\ Sound(msgs[n].kind)
      BY <1>3, <2>1, <2>4
    <3>3. consumed' = msgs[n].start + Taken'
      BY <1>2, <1>3, <2>1, <2>4 DEF Taken, PREFIX
    <3>4. rpc' = "type"
      BY <2>1
    <3> QED
      BY <2>1, <3>1, <3>2, <3>3, <3>4 DEF WithinInv, Sound
  <2>5. FramingInv'
    BY <2>1, <2>4 DEF FramingInv, Between
  <2> QED
    BY <1>2, <2>1, <2>2, <2>3, <2>5, ReceiverKeeps DEF Kept, Inv
<1> QED
  BY <1>4, <1>5

LEMMA RecvLenStep ==
  ASSUME Inv, RecvLen
  PROVE  Kept
<1>1. PICK h \in Heads : peer_msg_buff_nonempty(h[2]) /\ Length(h) /\ blind' = FALSE
  BY DEF RecvLen
<1>2. Between /\ UNCHANGED <<spc, written, msgs, theirs>>
  BY DEF RecvLen, Between, sender
<1>3. Avail >= PREFIX /\ Avail >= h[2] + 2
  BY <1>1 DEF peer_msg_buff_nonempty
<1>4. blind' \in BOOLEAN
  BY <1>1, Zenon
<1> QED
  BY <1>1, <1>2, <1>3, <1>4, LengthKeeps

LEMMA RecvLenLateStep ==
  ASSUME Inv, RecvLenLate
  PROVE  Kept
<1>1. PICK h \in Heads : Length(h) /\ blind' = (h[2] # 0)
  BY DEF RecvLenLate
<1>2. Between /\ UNCHANGED <<spc, written, msgs, theirs>> /\ Avail >= PREFIX
  BY DEF RecvLenLate, Between, sender
<1>3. blind' \in BOOLEAN /\ ~(h[2] # 0 /\ ~blind')
  BY <1>1, Zenon
<1> QED
  BY <1>1, <1>2, <1>3, LengthKeeps

\* The receiver looks for a message, and nothing is received.
LEMMA PeekStep ==
  ASSUME Inv, Peek \/ PeekedLate
  PROVE  Kept
<1>1. /\ Between /\ Between'
      /\ UNCHANGED <<spc, written, msgs, theirs, consumed, at, len, type, blind,
                     delivered>>
  BY DEF Peek, PeekedLate, Between, sender
<1>2. consumed' \in consumed .. written /\ ~Within' /\ rpc' # "handshake"
  BY <1>1 DEF Inv, TypeOK, Between, Within
<1>3. TypeOK'
  BY <1>1 DEF Inv, TypeOK, Between
<1>4. ReceiverInv' /\ SameTorrent'
  BY <1>1, <1>2 DEF Inv, ReceiverInv, Between, SameTorrent
<1>5. FramingInv'
  BY <1>1, <1>2, ReceiverKeeps DEF Inv, FramingInv, BetweenInv, StartOf
<1> QED
  BY <1>1, <1>2, <1>3, <1>4, <1>5, ReceiverKeeps DEF Kept, Inv

\* In the middle of a message that is not bad, all it lacks has yet to be sent.
LEMMA WithinFacts ==
  ASSUME Inv, Within, ~Broken
  PROVE  /\ WithinInv /\ ~Bad(at)
         /\ at \in 1 .. Len(msgs) /\ at = Len(delivered) + 1
         /\ msgs[at].start \in Nat /\ msgs[at].kind \in Kinds
         /\ msgs[at].kind.size = PREFIX + len /\ len \in Nat /\ len > 0
         /\ consumed < written => consumed < End(at) \/ Taken >= PREFIX + len
<1>1. WithinInv /\ at \in 1 .. Len(msgs) /\ at = Len(delivered) + 1
  BY DEF Inv, FramingInv, WithinInv
<1>2. /\ msgs[at].start \in Nat /\ msgs[at].kind \in Kinds /\ at \in DOMAIN msgs
      /\ End(at) \in Nat /\ written \in Nat /\ consumed \in Nat
  BY <1>1, MsgFacts DEF Inv, TypeOK
<1>3. msgs[at].kind.size = PREFIX + len /\ len \in Nat /\ len > 0
  BY <1>1 DEF WithinInv, Sound, Inv, TypeOK, ReceiverInv
<1>4. Taken \in {4, 5, 13} /\ consumed = msgs[at].start + Taken
  BY <1>1 DEF Taken, PREFIX, TYPE, WithinInv
<1>5. ~Bad(at)
  <2>1. consumed > msgs[at].start
    BY <1>2, <1>4
  <2> QED
    BY <1>2, <2>1 DEF Broken
<1>6. ASSUME consumed < written PROVE consumed < End(at) \/ Taken >= PREFIX + len
  <2>1. CASE at < Len(msgs)
    <3>1. ~(End(at) < msgs[at].start + msgs[at].kind.size)
      BY <1>5, <2>1 DEF Bad, CutOff
    <3> QED
      BY <1>2, <1>3, <1>4, <3>1 DEF PREFIX
  <2>2. CASE at = Len(msgs)
    BY <1>6, <2>2 DEF End
  <2> QED
    BY <1>1, <2>1, <2>2
<1> QED
  BY <1>1, <1>2, <1>3, <1>5, <1>6

LEMMA RecvTypeStep ==
  ASSUME Inv, RecvType
  PROVE  Kept
<1>1. /\ rpc = "type" /\ Within /\ Avail >= TYPE /\ consumed' = consumed + TYPE
      /\ UNCHANGED <<spc, written, msgs, theirs>>
  BY DEF RecvType, sender, Within
<1>2. PICK t \in TypesHere :
        IF ~valid_len(t, len) \/ t = "CANCEL" THEN Abort
        ELSE IF len = TYPE THEN Deliver(t)
        ELSE /\ rpc' = IF t = "PIECE" THEN "block" ELSE "body"
             /\ type' = t
             /\ UNCHANGED <<at, len, blind, delivered>>
  BY DEF RecvType
<1>3. t \in Types
  <2>1. CASE at # 0 /\ End(at) > consumed
    <3>1. at \in 1 .. Len(msgs)
      BY <2>1 DEF Inv, TypeOK
    <3> QED
      BY <2>1, <3>1, MsgFacts, KindFacts DEF TypesHere, Inv
  <2>2. CASE ~(at # 0 /\ End(at) > consumed)
    BY <2>2 DEF TypesHere
  <2> QED
    BY <2>1, <2>2
<1>4. /\ consumed' = consumed + 1 /\ consumed' \in consumed .. written
      /\ consumed < written /\ consumed \in Nat /\ written \in Nat
  BY <1>1 DEF Avail, TYPE, Inv, TypeOK
<1>5. ASSUME ~Broken'
      PROVE  ~Broken /\ t = msgs[at].kind.type /\ consumed = msgs[at].start + 4
  <2>1. ~Broken
    BY <1>1, <1>4, <1>5, ReceiverKeeps
  <2>2. Taken = 4
    BY <1>1 DEF Taken, PREFIX
  <2>3. End(at) > consumed /\ at # 0
    BY <1>1, <1>4, <2>1, <2>2, WithinFacts, MsgFacts DEF Inv, PREFIX
  <2> QED
    BY <1>1, <2>1, <2>2, <2>3, WithinFacts DEF TypesHere, WithinInv
<1>6. CASE ~valid_len(t, len) \/ t = "CANCEL"
  BY <1>1, <1>2, <1>4, <1>6, AbortKeeps
<1>7. CASE ~(~valid_len(t, len) \/ t = "CANCEL") /\ len = TYPE
  <2>1. Deliver(t)
    BY <1>2, <1>7
  <2> PICK n \in Nat : n = Len(delivered) + 1
    BY DEF Inv, TypeOK
  <2>2. ASSUME ~Broken'
        PROVE  /\ n \in 1 .. Len(msgs) /\ t = msgs[n].kind.type
               /\ consumed' = msgs[n].start + msgs[n].kind.size
    <3>1. at = n /\ n \in 1 .. Len(msgs) /\ msgs[n].kind.size = PREFIX + len
          /\ msgs[n].start \in Nat
      BY <1>1, <1>5, <2>2, WithinFacts
    <3> QED
      BY <1>4, <1>5, <1>7, <2>2, <3>1 DEF PREFIX, TYPE
  <2> QED
    BY <1>1, <1>3, <1>4, <2>1, <2>2, DeliverKeeps
<1>8. CASE ~(~valid_len(t, len) \/ t = "CANCEL") /\ len # TYPE
  <2>1. /\ rpc' = IF t = "PIECE" THEN "block" ELSE "body"
        /\ type' = t
        /\ UNCHANGED <<at, len, blind, delivered>>
    BY <1>2, <1>8
  <2>2. TypeOK'
    BY <1>1, <1>3, <1>4, <2>1 DEF Inv, TypeOK
  <2>3. ReceiverInv' /\ SameTorrent'
    BY <1>1, <1>4, <2>1, WireAssumption
    DEF Inv, ReceiverInv, Between, Within, SameTorrent
  <2>4. ASSUME ~Broken' PROVE WithinInv'
    <3>1. WithinInv /\ at \in 1 .. Len(msgs) /\ msgs[at].start \in Nat
      BY <1>1, <1>5, <2>4, WithinFacts
    <3>2. Taken' = 5
      BY <2>1 DEF Taken, PREFIX, TYPE
    <3>3. consumed' = msgs[at].start + Taken'
      BY <1>4, <1>5, <2>4, <3>1, <3>2
    <3>4. type' = msgs[at].kind.type /\ (rpc' = "block" => type' = "PIECE")
      BY <1>5, <2>1, <2>4
    <3> QED
      BY <1>1, <2>1, <3>1, <3>3, <3>4, Zenon DEF WithinInv, Sound
  <2>5. FramingInv'
    BY <2>1, <2>4 DEF FramingInv, Between
  <2> QED
    BY <1>1, <1>4, <2>1, <2>2, <2>3, <2>5, ReceiverKeeps DEF Kept, Inv
<1> QED
  BY <1>6, <1>7, <1>8

LEMMA RecvBlockHeaderStep ==
  ASSUME Inv, RecvBlockHeader
  PROVE  Kept
<1>1. /\ rpc = "block" /\ Within /\ Avail >= 8 /\ consumed' = consumed + 8
      /\ \/ rpc' = "body" /\ UNCHANGED <<at, len, type, blind, delivered>>
         \/ Abort
      /\ UNCHANGED <<spc, written, msgs, theirs>>
  BY DEF RecvBlockHeader, sender, Within
<1>2. /\ consumed' \in consumed .. written /\ consumed \in Nat
      /\ written \in Nat
  BY <1>1 DEF Avail, Inv, TypeOK
<1>3. CASE Abort
  BY <1>1, <1>2, <1>3, AbortKeeps
<1>4. CASE rpc' = "body" /\ UNCHANGED <<at, len, type, blind, delivered>>
  <2>1. TypeOK'
    BY <1>1, <1>2, <1>4 DEF Inv, TypeOK
  <2>2. ReceiverInv' /\ SameTorrent'
    BY <1>1, <1>2, <1>4, WireAssumption
    DEF Inv, ReceiverInv, Between, Within, SameTorrent
  <2>3. ASSUME ~Broken' PROVE WithinInv'
    <3>1. ~Broken
      BY <1>1, <1>2, <2>3, ReceiverKeeps
    <3>2. WithinInv /\ at \in 1 .. Len(msgs) /\ msgs[at].start \in Nat
      BY <1>1, <3>1, WithinFacts
    <3>3. Taken = 5 /\ Taken' = 13 /\ type = msgs[at].kind.type
      BY <1>1, <1>4, <3>2 DEF WithinInv, Taken, PREFIX, TYPE
    <3>4. consumed' = msgs[at].start + Taken'
      BY <1>1, <1>2, <3>2, <3>3 DEF WithinInv
    <3>5. rpc' # "block"
      BY <1>4
    <3> QED
      BY <1>1, <1>4, <3>2, <3>3, <3>4, <3>5, Zenon DEF WithinInv, Sound
  <2>4. FramingInv'
    BY <1>4, <2>3 DEF FramingInv, Between
  <2> QED
    BY <1>1, <1>2, <1>4, <2>1, <2>2, <2>4, ReceiverKeeps DEF Kept, Inv
<1> QED
  BY <1>1, <1>3, <1>4

LEMMA RecvBodyStep ==
  ASSUME Inv, RecvBody
  PROVE  Kept
<1>1. /\ rpc = "body" /\ Within /\ Avail >= BodyLen /\ consumed' = consumed + BodyLen
      /\ Deliver(type) /\ UNCHANGED <<spc, written, msgs, theirs>>
  BY DEF RecvBody, sender, Within
<1>2. BodyLen \in Nat /\ consumed \in Nat /\ written \in Nat /\ type \in Types
  BY <1>1, WireAssumption DEF BodyLen, TYPE, Inv, TypeOK, ReceiverInv
<1>3. consumed' \in consumed .. written
  BY <1>1, <1>2 DEF Avail
<1> PICK n \in Nat : n = Len(delivered) + 1
  BY DEF Inv, TypeOK
<1>4. ASSUME ~Broken'
      PROVE  /\ n \in 1 .. Len(msgs) /\ type = msgs[n].kind.type
             /\ consumed' = msgs[n].start + msgs[n].kind.size
  <2>1. ~Broken
    BY <1>1, <1>3, <1>4, ReceiverKeeps
  <2>2. /\ WithinInv /\ at = n /\ n \in 1 .. Len(msgs) /\ msgs[n].start \in Nat
        /\ msgs[n].kind.size = PREFIX + len /\ len \in Nat
    BY <1>1, <2>1, WithinFacts
  <2>3. type = msgs[n].kind.type /\ consumed = msgs[n].start + Taken
    BY <1>1, <2>2 DEF WithinInv
  <2>4. Taken + BodyLen = PREFIX + len
    <3>1. CASE type = "PIECE"
      <4>1. len = 9 + BLOCK /\ BLOCK \in Nat
        BY <2>2, <2>3, <3>1, WireAssumption DEF WithinInv, Sound
      <4> QED
        BY <1>1, <3>1, <4>1 DEF Taken, BodyLen, PREFIX, TYPE
    <3>2. CASE type # "PIECE"
      BY <1>1, <2>2, <3>2 DEF Taken, BodyLen, PREFIX, TYPE
    <3> QED
      BY <3>1, <3>2
  <2>5. Taken \in Nat
    BY DEF Taken, PREFIX, TYPE
  <2> QED
    BY <1>1, <1>2, <2>2, <2>3, <2>4, <2>5 DEF PREFIX
<1> QED
  BY <1>1, <1>2, <1>3, <1>4, DeliverKeeps

LEMMA RecvFailsStep ==
  ASSUME Inv, RecvFails \/ PeerTimeout
  PROVE  Kept
<1>1. Abort /\ UNCHANGED <<spc, written, msgs, theirs, consumed>>
  BY DEF RecvFails, PeerTimeout, sender
<1>2. consumed' \in consumed .. written
  BY <1>1 DEF Inv, TypeOK
<1> QED
  BY <1>1, <1>2, AbortKeeps

-----------------------------------------------------------------------------

\* A step of the sender other than Begin, or none of anybody.
Quiet ==
  /\ Inv'
  /\ Broken => Broken'
  /\ msgs' = msgs /\ delivered' = delivered

\* Every step begins a message, or hands on at most the next one.
LEMMA EveryStep ==
  ASSUME Inv, [Next]_vars
  PROVE  \/ \E m \in Kinds : Begin(m) /\ Inv' /\ (Broken' <=> Broken)
         \/ Quiet
         \/ Kept /\ msgs' = msgs
<1>1. ASSUME NEW m \in Kinds, Begin(m)
      PROVE  Begin(m) /\ Inv' /\ (Broken' <=> Broken)
  BY <1>1, BeginStep
<1>2. CASE SendHandshake \/ SendByte \/ SendFails \/ Close
  <2>1. msgs' = msgs /\ delivered' = delivered
    BY <1>2 DEF SendHandshake, SendByte, SendFails, Close, receiver
  <2> QED
    BY <1>2, <2>1, SendHandshakeStep, SendByteStep, SendFailsStep, CloseStep
    DEF Quiet
<1>3. CASE Receive \/ PeerTimeout
  <2>1. msgs' = msgs
    BY <1>3 DEF Receive, PeerTimeout, RecvHandshake, RecvLen, Peek, PeekedLate,
                RecvLenLate, RecvType, RecvBlockHeader, RecvBody, RecvFails, sender
  <2> QED
    BY <1>3, <2>1, RecvHandshakeStep, RecvLenStep, PeekStep, RecvLenLateStep,
       RecvTypeStep, RecvBlockHeaderStep, RecvBodyStep, RecvFailsStep DEF Receive
<1>4. CASE Done \/ UNCHANGED vars
  <2>1. UNCHANGED <<spc, written, msgs, theirs, rpc, consumed, at, len, type,
                    blind, delivered>>
    BY <1>4 DEF Done, vars, sender, receiver
  <2>2. TypeOK' /\ ReceiverInv' /\ SameTorrent'
    BY <2>1 DEF Inv, TypeOK, ReceiverInv, Between, Within, SameTorrent
  <2>3. \A i \in DOMAIN msgs : End(i)' = End(i) /\ (Bad(i)' <=> Bad(i))
    BY <2>1 DEF End, Bad, CutOff
  <2>4. SenderInv' /\ (Broken' <=> Broken)
    BY <2>1, <2>3 DEF Inv, SenderInv, End, Current, Broken
  <2>5. FramingInv'
    BY <2>1, <2>4 DEF Inv, FramingInv, Between, Within, BetweenInv, StartOf,
                      WithinInv, Taken, Sound
  <2> QED
    BY <2>1, <2>2, <2>4, <2>5 DEF Quiet, Inv
<1> QED
  BY <1>1, <1>2, <1>3, <1>4 DEF Next

LEMMA InvHolds == Spec => []Inv
<1>1. Inv /\ [Next]_vars => Inv'
  BY EveryStep DEF Quiet, Kept
<1> QED
  BY InvInit, <1>1, PTL DEF Spec

\* Both ends and the stream are always well formed; recv() is never asked for
\* bytes that were received already.
THEOREM TypeCorrect == Spec => []TypeOK
<1>1. Inv => TypeOK
  BY DEF Inv
<1> QED
  BY InvHolds, <1>1, PTL

\* peer_recv_handshake() lets in no peer whose info hash differs before the first
\* zero byte, for info hashes of every length and every content.
THEOREM HashesAgree == Spec => []SameTorrent
<1>1. Inv => SameTorrent
  BY DEF Inv
<1> QED
  BY InvHolds, <1>1, PTL

\* A sound message that peer_msg_buff_nonempty() found lacks at most two bytes.
THEOREM NearlyThere == Spec => []AtMostTwoMissing
<1>1. Inv => AtMostTwoMissing
  <2> SUFFICES ASSUME Inv, Within, ~Broken, ~blind
               PROVE  written + 2 >= msgs[at].start + PREFIX + len
    BY DEF AtMostTwoMissing, Within
  <2>1. WithinInv
    BY DEF Inv, FramingInv
  <2> QED
    BY <2>1, Zenon DEF WithinInv
<1> QED
  BY InvHolds, <1>1, PTL

\* What process_msg() got, message by message, is what was sent.
Delivered ==
  ~Broken =>
    /\ Len(delivered) =< Len(msgs)
    /\ \A i \in 1 .. Len(delivered) : delivered[i] = msgs[i].kind.type

\* process_msg() never gets a message that was not sent, nor one twice, nor one
\* before another that was sent earlier, for as long as no message is bad.
THEOREM DeliveredWasSent == Spec => []Delivered
<1>1. Init => Delivered
  BY DEF Init, Delivered
<1>2. Inv /\ Delivered /\ [Next]_vars => Delivered'
  <2> SUFFICES ASSUME Inv, Delivered, [Next]_vars, ~Broken'
               PROVE  /\ Len(delivered') =< Len(msgs')
                      /\ \A i \in 1 .. Len(delivered') :
                           delivered'[i] = msgs'[i].kind.type
    BY DEF Delivered
  <2>1. /\ delivered \in Seq(Types) /\ msgs \in Seq(Begun)
        /\ Len(delivered) \in Nat /\ Len(msgs) \in Nat
    BY DEF Inv, TypeOK
  <2>2. ASSUME NEW m \in Kinds, Begin(m), ~Broken
        PROVE  /\ Len(delivered') =< Len(msgs')
               /\ \A i \in 1 .. Len(delivered') : delivered'[i] = msgs'[i].kind.type
    <3> DEFINE r == [kind |-> m, start |-> written]
    <3>1. r \in Begun /\ msgs' = Append(msgs, r) /\ delivered' = delivered
      BY <2>2 DEF Begin, receiver, Begun, Inv, TypeOK
    <3> HIDE DEF r
    <3>2. Len(msgs') = Len(msgs) + 1 /\ \A i \in 1 .. Len(msgs) : msgs'[i] = msgs[i]
      BY <2>1, <3>1
    <3> QED
      BY <2>1, <2>2, <3>1, <3>2 DEF Delivered
  <2>3. ASSUME msgs' = msgs, delivered' = delivered, ~Broken
        PROVE  /\ Len(delivered') =< Len(msgs')
               /\ \A i \in 1 .. Len(delivered') : delivered'[i] = msgs'[i].kind.type
    BY <2>3 DEF Delivered
  <2>4. ASSUME msgs' = msgs, Handed, ~Broken
        PROVE  /\ Len(delivered') =< Len(msgs')
               /\ \A i \in 1 .. Len(delivered') : delivered'[i] = msgs'[i].kind.type
    <3> PICK n \in Nat : n = Len(delivered)
      BY <2>1
    <3> DEFINE t == msgs[n + 1].kind.type
    <3>1. t \in Types /\ n < Len(msgs) /\ delivered' = Append(delivered, t)
      BY <2>1, <2>4, MsgFacts, KindFacts DEF Handed, Inv
    <3>2. Len(delivered') = n + 1 /\ delivered'[n + 1] = t
          /\ \A i \in 1 .. n : delivered'[i] = delivered[i]
      BY <2>1, <3>1
    <3>3. \A i \in 1 .. n + 1 : i = n + 1 \/ i \in 1 .. n
      OBVIOUS
    <3> QED
      BY <2>1, <2>4, <3>1, <3>2, <3>3 DEF Delivered
  <2> QED
    BY <2>2, <2>3, <2>4, EveryStep DEF Quiet, Kept
<1> QED
  BY <1>1, <1>2, InvHolds, PTL DEF Spec

-----------------------------------------------------------------------------
(* Refinement of MsgChannel.                                               *)

SentTypes == [i \in DOMAIN msgs |-> msgs[i].kind.type]

LEMMA SentTypesFacts ==
  ASSUME Inv
  PROVE  /\ SentTypes \in Seq(Types) /\ Len(SentTypes) = Len(msgs)
         /\ \A i \in 1 .. Len(msgs) : SentTypes[i] = msgs[i].kind.type
<1>1. DOMAIN msgs = 1 .. Len(msgs) /\ Len(msgs) \in Nat
  BY DEF Inv, TypeOK
<1>2. \A i \in 1 .. Len(msgs) : msgs[i].kind.type \in Types
  BY MsgFacts, KindFacts DEF Inv
<1>3. SentTypes \in [1 .. Len(msgs) -> Types]
  BY <1>1, <1>2 DEF SentTypes
<1> QED
  BY <1>1, <1>3, LenProperties DEF SentTypes

LEMMA BeginSends ==
  ASSUME Inv, Inv', NEW m \in Kinds, Begin(m)
  PROVE  SentTypes' = Append(SentTypes, m.type)
<1> PICK L \in Nat : L = Len(msgs)
  BY DEF Inv, TypeOK
<1> DEFINE r == [kind |-> m, start |-> written]
<1>1. r \in Begun /\ r.kind = m /\ msgs \in Seq(Begun) /\ msgs' = Append(msgs, r)
  BY DEF Begin, Begun, Inv, TypeOK
<1> HIDE DEF r
<1>2. /\ msgs' \in Seq(Begun) /\ Len(msgs') = L + 1 /\ msgs'[L + 1] = r
      /\ \A i \in 1 .. L : msgs'[i] = msgs[i]
  BY <1>1
<1>3. /\ SentTypes \in Seq(Types) /\ Len(SentTypes) = L /\ m.type \in Types
      /\ \A i \in 1 .. L : SentTypes[i] = msgs[i].kind.type
  BY SentTypesFacts, KindFacts
<1>4. /\ Append(SentTypes, m.type) \in Seq(Types)
      /\ Len(Append(SentTypes, m.type)) = L + 1
      /\ Append(SentTypes, m.type)[L + 1] = m.type
      /\ \A i \in 1 .. L : Append(SentTypes, m.type)[i] = SentTypes[i]
  BY <1>3, AppendProperties
<1>5. /\ SentTypes' \in Seq(Types) /\ Len(SentTypes') = L + 1
      /\ \A i \in 1 .. L + 1 : SentTypes'[i] = msgs'[i].kind.type
  <2>1. DOMAIN msgs' = 1 .. L + 1
    BY <1>2
  <2>2. \A i \in 1 .. L + 1 : msgs'[i].kind.type \in Types
    <3>1. \A i \in 1 .. L : msgs[i].kind.type \in Types
      BY MsgFacts, KindFacts DEF Inv
    <3> QED
      BY <1>1, <1>2, <1>3, <3>1
  <2>3. SentTypes' \in [1 .. L + 1 -> Types]
    BY <2>1, <2>2 DEF SentTypes
  <2> QED
    BY <2>1, <2>3, LenProperties DEF SentTypes
<1>6. ASSUME NEW i \in 1 .. L + 1
      PROVE  SentTypes'[i] = Append(SentTypes, m.type)[i]
  <2>1. CASE i = L + 1
    BY <1>1, <1>2, <1>4, <1>5, <2>1
  <2>2. CASE i \in 1 .. L
    BY <1>2, <1>3, <1>4, <1>5, <2>2
  <2>3. i = L + 1 \/ i \in 1 .. L
    BY <1>6
  <2> QED
    BY <2>1, <2>2, <2>3
<1> QED
  BY <1>4, <1>5, <1>6, SeqEqual

\* peer_msg.c is a channel of messages, whatever is sent and however it is cut
\* into bytes: MsgChannel says what the other end may rely on.
THEOREM ImplementsChannel == Spec => InOrder
<1>1. Init => Channel!Init
  <2> SUFFICES ASSUME Init PROVE Channel!Init
    OBVIOUS
  <2>1. msgs = <<>> /\ delivered = <<>>
    BY DEF Init
  <2>2. [i \in DOMAIN msgs |-> msgs[i].kind.type] = <<>>
    BY <2>1
  <2>3. Broken = FALSE
    BY <2>1 DEF Broken
  <2> QED
    BY <2>1, <2>2, <2>3 DEF Channel!Init
<1>2. Inv /\ Inv' /\ [Next]_vars => [Channel!Next]_(Channel!vars)
  <2> SUFFICES ASSUME Inv, Inv', [Next]_vars
               PROVE  Channel!Next \/ UNCHANGED Channel!vars
    OBVIOUS
  <2>1. ASSUME NEW m \in Kinds, Begin(m), Broken' <=> Broken PROVE Channel!Next
    <3>1. m.type \in Types /\ delivered' = delivered
      BY <2>1, KindFacts DEF Begin, receiver
    <3>2. [i \in DOMAIN msgs |-> msgs[i].kind.type]'
            = Append([i \in DOMAIN msgs |-> msgs[i].kind.type], m.type)
      BY <2>1, BeginSends DEF SentTypes
    <3>3. Broken' = Broken
      BY <2>1 DEF Broken
    <3>4. Channel!Send(m.type)
      BY <3>1, <3>2, <3>3 DEF Channel!Send
    <3> QED
      BY <3>1, <3>4 DEF Channel!Next
  <2>2. ASSUME msgs' = msgs, Broken' PROVE Channel!Next
    <3>1. Broken' = TRUE
      BY <2>2 DEF Broken
    <3> QED
      BY <2>2, <3>1 DEF Channel!Next, Channel!Break
  <2>3. ASSUME msgs' = msgs, delivered' = delivered, ~Broken, ~Broken'
        PROVE  UNCHANGED Channel!vars
    <3>1. Broken' = Broken
      BY <2>3 DEF Broken
    <3> QED
      BY <2>3, <3>1 DEF Channel!vars
  <2>4. ASSUME msgs' = msgs, Handed, ~Broken, ~Broken' PROVE Channel!Next
    <3>1. Broken' = Broken
      BY <2>4 DEF Broken
    <3> DEFINE n == Len(delivered) + 1
    <3>2. n \in 1 .. Len(msgs) /\ Len(delivered) < Len(SentTypes)
          /\ delivered' = Append(delivered, SentTypes[n])
      BY <2>4, SentTypesFacts DEF Handed, Inv, TypeOK
    <3>3. Channel!Deliver
      BY <2>4, <3>1, <3>2 DEF Channel!Deliver, SentTypes
    <3> QED
      BY <3>3 DEF Channel!Next
  <2> QED
    BY <2>1, <2>2, <2>3, <2>4, EveryStep DEF Quiet, Kept
<1> QED
  BY <1>1, <1>2, InvHolds, PTL DEF Spec, InOrder, Channel!Spec
=============================================================================

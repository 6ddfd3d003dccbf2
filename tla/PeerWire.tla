------------------------------ MODULE PeerWire ------------------------------
(***************************************************************************)
(* peer_msg.c: one direction of a connection, from the peer_msg_send() of  *)
(* one end to the peer_msg_recv() of the other, over a stream of bytes     *)
(* that arrive one by one.  (A send() of several bytes is several steps;   *)
(* the time a byte is under way is part of the time it takes to send it.)  *)
(*                                                                         *)
(* Positions in the stream stand for its bytes: msgs says where the bytes  *)
(* of which message start.  A receiver that reads its length or its type   *)
(* somewhere else reads whatever the bytes there happen to be.             *)
(***************************************************************************)
EXTENDS Integers, Sequences

CONSTANTS
  OwnTypes,       \* the types of messages this program sends
  Foreign,        \* messages of other programs: [type, len]
  BITFIELD_BYTES, \* BITFIELD_NUM_BYTES(num_pieces)
  BLOCK,          \* PEER_REQUEST_SIZE, and the size of the block asked for
  HANDSHAKE,      \* bytes of the handshake: 68
  JunkLens,       \* lengths that bytes in the middle of a message may spell
  info_hash,      \* the receiver's info hash, a sequence of bytes
  Hashes,         \* info hashes that the sender may have, as long
  MaxMsgs         \* bound: so many messages are sent

Types == {"CHOKE", "UNCHOKE", "INTERESTED", "NOT_INTERESTED", "HAVE",
          "BITFIELD", "REQUEST", "PIECE", "CANCEL", "PORT", "KEEPALIVE"}

\* Bytes of the length and of the type.
PREFIX == 4
TYPE   == 1

msgbuf_len(t) ==
  CASE t = "KEEPALIVE"        -> 0
    [] t = "PIECE"            -> 9 + BLOCK
    [] t = "BITFIELD"         -> 1 + BITFIELD_BYTES
    [] t = "REQUEST"          -> 13
    [] t \in {"HAVE", "PORT"} -> 5
    [] OTHER                  -> 1

\* The bytes that peer_msg_send() writes: of a piece only the length and the
\* type, "TODO: Send pieces".
SentBytes(t) == IF t = "PIECE" THEN PREFIX + TYPE ELSE PREFIX + msgbuf_len(t)

\* A message: its type, the length it announces, the bytes it takes.
Own(t) == [type |-> t, len |-> msgbuf_len(t), size |-> SentBytes(t)]

Kinds ==
  {Own(t) : t \in OwnTypes}
    \cup {[type |-> f.type, len |-> f.len, size |-> PREFIX + f.len] : f \in Foreign}

\* A message that was begun, and where its bytes start.
Begun == [kind : Kinds, start : Nat]

\* What a handshake says: the protocol, as the receiver knows it or not, and the
\* info hash.
Handshakes == [proto : BOOLEAN, hash : Hashes]

ASSUME WireAssumption ==
  /\ OwnTypes \subseteq Types \ {"CANCEL", "PORT", "CHOKE"}
  /\ Foreign \subseteq [type : Types, len : Nat]
  /\ \A f \in Foreign : f.len = 0 <=> f.type = "KEEPALIVE"
  /\ BITFIELD_BYTES \in Nat \ {0}
  /\ BLOCK \in Nat \ {0}
  /\ HANDSHAKE \in Nat \ {0}
  /\ JunkLens \subseteq Nat
  /\ Hashes \cup {info_hash} \subseteq Seq(0 .. 255)
  /\ \A h \in Hashes : Len(h) = Len(info_hash)
  /\ MaxMsgs \in Nat

VARIABLES
  spc,        \* the sender: handshake, idle, sending, closed
  written,    \* bytes that have arrived
  msgs,       \* the messages begun
  theirs,     \* the handshake that was sent
  rpc,        \* the receiver: handshake, poll, peeked, length, type, block,
              \* body, aborted
  consumed,   \* bytes that were received
  at,         \* the message the length was read of, 0 if of none
  len,        \* the length of the message being received
  type,       \* its type
  blind,      \* the message being received was not there when it was looked for
  delivered   \* the types of the messages given to process_msg()

sender   == <<spc, written, msgs>>
receiver == <<rpc, consumed, at, len, type, blind, delivered>>
vars     == <<sender, theirs, receiver>>

TypeOK ==
  /\ spc \in {"handshake", "idle", "sending", "closed"}
  /\ written \in Nat
  /\ msgs \in Seq(Begun)
  /\ theirs \in Handshakes
  /\ rpc \in {"handshake", "poll", "peeked", "length", "type", "block", "body",
              "aborted"}
  /\ consumed \in 0 .. written
  /\ at \in 0 .. Len(msgs)
  /\ len \in Nat
  /\ type \in Types
  /\ blind \in BOOLEAN
  /\ delivered \in Seq(Types)

Init ==
  /\ spc = "handshake"
  /\ written = 0
  /\ msgs = <<>>
  /\ theirs \in Handshakes
  /\ rpc = "handshake"
  /\ consumed = 0
  /\ at = 0
  /\ len = 0
  /\ type = "KEEPALIVE"
  /\ blind = FALSE
  /\ delivered = <<>>

-----------------------------------------------------------------------------
(* The sender.                                                             *)

\* Where the bytes of message i end, so far.
End(i) == IF i < Len(msgs) THEN msgs[i + 1].start ELSE written

SendHandshake ==
  /\ spc = "handshake"
  /\ written' = written + 1
  /\ spc' = IF written' = HANDSHAKE THEN "idle" ELSE "handshake"
  /\ UNCHANGED <<msgs, theirs, receiver>>

Begin(k) ==
  /\ spc = "idle"
  /\ Len(msgs) < MaxMsgs
  /\ msgs' = Append(msgs, [kind |-> k, start |-> written])
  /\ spc' = "sending"
  /\ UNCHANGED <<written, theirs, receiver>>

Current == msgs[Len(msgs)]

SendByte ==
  /\ spc = "sending"
  /\ written' = written + 1
  /\ spc' = IF written' - Current.start = Current.kind.size
            THEN "idle" ELSE "sending"
  /\ UNCHANGED <<msgs, theirs, receiver>>

\* The messages whose callers do not look at what peer_msg_send() returns, and
\* go on: unchoke(), show_interested(), show_not_interested(),
\* service_have_events(), handle_piece_dl_completion(), service_peer_requests().
Ignored == {"UNCHOKE", "INTERESTED", "NOT_INTERESTED", "HAVE", "PIECE"}

\* send() fails, also after a part of the message was sent.
SendFails ==
  /\ spc \in {"handshake", "sending"}
  /\ spc' = IF spc = "sending" /\ Current.kind.type \in Ignored
            THEN "idle" ELSE "closed"
  /\ UNCHANGED <<written, msgs, theirs, receiver>>

\* The sender's thread ends.
Close ==
  /\ spc = "idle"
  /\ spc' = "closed"
  /\ UNCHANGED <<written, msgs, theirs, receiver>>

-----------------------------------------------------------------------------
(* The receiver.                                                           *)

Avail == written - consumed

\* MUTANT: the size of a pointer, not of the hash.
strncmp_Short(a, b) == a[1] = b[1]

\* strncmp(a, b, 20) == 0: it stops at a byte that is 0.
strncmp(a, b) ==
  \E n \in 0 .. Len(a) :
    /\ \A i \in 1 .. n : a[i] = b[i]
    /\ n = Len(a) \/ (n > 0 /\ a[n] = 0)

RecvHandshake ==
  /\ rpc = "handshake"
  /\ Avail >= HANDSHAKE
  /\ consumed' = HANDSHAKE
  /\ rpc' = IF theirs.proto /\ strncmp(theirs.hash, info_hash)
            THEN "poll" ELSE "aborted"
  /\ UNCHANGED <<sender, theirs, at, len, type, blind, delivered>>

\* The message whose length is in the next four bytes, if one's is.
AtStart(i) ==
  /\ i \in DOMAIN msgs
  /\ msgs[i].start = consumed
  /\ End(i) >= consumed + PREFIX

\* The message index and the length that the next four bytes are read as.
Heads ==
  {<<i, msgs[i].kind.len>> : i \in {j \in DOMAIN msgs : AtStart(j)}}
    \cup {<<0, l>> : l \in {k \in JunkLens : \A i \in DOMAIN msgs : ~AtStart(i)}}

\* MUTANT: a message is received as soon as its length is there.
peer_msg_buff_nonempty_Length(l) == Avail >= PREFIX

\* MUTANT: one byte more than the length and the message take.
peer_msg_buff_nonempty_More(l) == Avail >= l + PREFIX + 1

\* Two bytes less than the length and the message take.
peer_msg_buff_nonempty(l) == Avail >= PREFIX /\ Avail >= l + 2

\* peer_msg_recv() returns, and its variables with it.
Return(pc) ==
  /\ rpc' = pc
  /\ at' = 0
  /\ len' = 0
  /\ type' = "KEEPALIVE"
  /\ blind' = FALSE

Deliver(t) == delivered' = Append(delivered, t) /\ Return("poll")

Abort == Return("aborted") /\ UNCHANGED delivered

\* The length of the next message is received.
Length(h) ==
  /\ consumed' = consumed + PREFIX
  /\ IF h[2] = 0
     THEN Deliver("KEEPALIVE")
     ELSE rpc' = "type" /\ at' = h[1] /\ len' = h[2] /\ UNCHANGED <<type, delivered>>

\* process_queued_messages() finds a message, and peer_msg_recv() its length.
RecvLen ==
  /\ rpc = "poll"
  /\ \E h \in Heads : peer_msg_buff_nonempty(h[2]) /\ Length(h) /\ blind' = FALSE
  /\ UNCHANGED <<sender, theirs>>

\* There is nothing to peek at: recv() returns -1, which as a uint32_t is not
\* less than 4, and peer_msg_buff_nonempty() goes on with a len that is not set.
Peek ==
  /\ rpc = "poll"
  /\ Avail = 0
  /\ rpc' = "peeked"
  /\ UNCHANGED <<sender, theirs, consumed, at, len, type, blind, delivered>>

\* If bytes come before the ioctl(), they may be as many as that len wants.
PeekedLate ==
  /\ rpc = "peeked"
  /\ rpc' \in IF Avail >= 2 THEN {"poll", "length"} ELSE {"poll"}
  /\ UNCHANGED <<sender, theirs, consumed, at, len, type, blind, delivered>>

RecvLenLate ==
  /\ rpc = "length"
  /\ Avail >= PREFIX
  /\ \E h \in Heads : Length(h) /\ blind' = (h[2] # 0)
  /\ UNCHANGED <<sender, theirs>>

valid_len(t, l) ==
  IF t = "PIECE" THEN l \in 10 .. 9 + BLOCK ELSE l = msgbuf_len(t)

\* The type in the next byte: that of the message if it was sent so far.
TypesHere ==
  IF at # 0 /\ End(at) > consumed THEN {msgs[at].kind.type} ELSE Types

\* A type that is none, or of the wrong length, ends the connection, and so
\* does a MSG_CANCEL.
RecvType ==
  /\ rpc = "type"
  /\ Avail >= TYPE
  /\ consumed' = consumed + TYPE
  /\ \E t \in TypesHere :
       IF ~valid_len(t, len) \/ t = "CANCEL" THEN Abort
       ELSE IF len = TYPE THEN Deliver(t)
       ELSE /\ rpc' = IF t = "PIECE" THEN "block" ELSE "body"
            /\ type' = t
            /\ UNCHANGED <<at, len, blind, delivered>>
  /\ UNCHANGED <<sender, theirs>>

\* The index and begin of a piece; there may be no such block.
RecvBlockHeader ==
  /\ rpc = "block"
  /\ Avail >= 8
  /\ consumed' = consumed + 8
  /\ \/ rpc' = "body" /\ UNCHANGED <<at, len, type, blind, delivered>>
     \/ Abort
  /\ UNCHANGED <<sender, theirs>>

\* MUTANT: the length is taken not to count the type.
BodyLen_CountsType == IF type = "PIECE" THEN BLOCK ELSE len

\* The bytes still to be read: of a piece those of the receiver's own block,
\* whatever the length of the message says.
BodyLen == IF type = "PIECE" THEN BLOCK ELSE len - TYPE

RecvBody ==
  /\ rpc = "body"
  /\ Avail >= BodyLen
  /\ consumed' = consumed + BodyLen
  /\ Deliver(type)
  /\ UNCHANGED <<sender, theirs>>

Wanted ==
  CASE rpc = "handshake" -> HANDSHAKE
    [] rpc = "length"    -> PREFIX
    [] rpc = "type"      -> TYPE
    [] rpc = "block"     -> 8
    [] rpc = "body"      -> BodyLen
    [] OTHER             -> 0

\* recv() times out or finds the end of the stream, or there is no memory for
\* the bit field.
RecvFails ==
  /\ rpc # "aborted"
  /\ Avail < Wanted \/ (rpc = "body" /\ type = "BITFIELD")
  /\ Abort
  /\ UNCHANGED <<sender, theirs, consumed>>

\* There is no message, and there was none for PEER_TIMEOUT_SEC.
PeerTimeout ==
  /\ rpc = "poll"
  /\ \/ Avail < PREFIX
     \/ \E h \in Heads : ~peer_msg_buff_nonempty(h[2])
  /\ Abort
  /\ UNCHANGED <<sender, theirs, consumed>>

-----------------------------------------------------------------------------

Receive ==
  RecvHandshake \/ RecvLen \/ Peek \/ PeekedLate \/ RecvLenLate \/ RecvType \/ RecvBlockHeader \/ RecvBody
    \/ RecvFails

Done == rpc = "aborted" /\ spc = "closed" /\ UNCHANGED vars

Next ==
  \/ SendHandshake \/ (\E k \in Kinds : Begin(k)) \/ SendByte \/ SendFails
  \/ Close
  \/ Receive \/ PeerTimeout
  \/ Done

Spec == Init /\ [][Next]_vars

\* The receiver's thread keeps running, and its calls of recv() time out.
FairSpec == Spec /\ WF_vars(Receive)

-----------------------------------------------------------------------------

\* Message i, as far as it was sent, is not what the receiver will take it for:
\* it was cut off, or its length is not that of what is sent or received.
Sound(k) == k.size = PREFIX + k.len /\ (k.type = "PIECE" => k.len = 9 + BLOCK)

CutOff(i) ==
  /\ i < Len(msgs) \/ spc # "sending"
  /\ End(i) < msgs[i].start + msgs[i].kind.size

Whole(i) ==
  Sound(msgs[i].kind) /\ End(i) = msgs[i].start + msgs[i].kind.size

Bad(i) == ~Sound(msgs[i].kind) \/ CutOff(i)

\* The receiver has come to a bad message.
Broken == \E i \in DOMAIN msgs : Bad(i) /\ consumed > msgs[i].start

\* The connection is a channel of messages: what process_msg() gets is what the
\* other end sent, in that order, for as long as no message is cut off by a
\* send() whose failure nobody looks at, and none is a MSG_PIECE without its
\* body or with another block than was asked for.
Channel == INSTANCE MsgChannel WITH
  Type <- Types,
  sent <- [i \in DOMAIN msgs |-> msgs[i].kind.type],
  got <- delivered,
  broken <- Broken

InOrder == Channel!Spec

\* peer_msg_buff_nonempty() is there so that receiving does not wait: when a
\* sound message is received, at most two of its bytes have yet to come, unless
\* its first bytes came while it was looked for.
AtMostTwoMissing ==
  rpc \in {"type", "block", "body"} /\ ~Broken /\ ~blind =>
    written + 2 >= msgs[at].start + PREFIX + len

\* peer_recv_handshake(): the loop runs only with a peer whose info hash is the
\* same, up to the first zero byte: behind that strncmp() compares nothing, and
\* the peer may be one of another torrent.
SameTorrent ==
  rpc \notin {"handshake", "aborted"} =>
    \A i \in DOMAIN info_hash :
      (\A j \in 1 .. i - 1 : info_hash[j] # 0) => theirs.hash[i] = info_hash[i]

\* A message that was sent whole, after others that were, is handed on unless
\* the connection ends.
Arrives ==
  \A n \in 1 .. MaxMsgs :
    (n =< Len(msgs) /\ \A i \in 1 .. n : Whole(i))
      ~> (Len(delivered) >= n \/ rpc = "aborted")
=============================================================================

----------------------------- MODULE MsgChannel -----------------------------
(***************************************************************************)
(* What the two ends of a connection expect of peer_msg.c: the messages    *)
(* one end sends are the messages the other end gets, one by one and in    *)
(* the order in which they were sent.  The promise ends when the receiver  *)
(* comes to a message that is not what its length says.                    *)
(***************************************************************************)
EXTENDS Naturals, Sequences

CONSTANT Type   \* the types of messages

VARIABLES
  sent,         \* the types of the messages that were begun
  got,          \* the types of the messages that were handed on
  broken        \* the promise is off

Init ==
  /\ sent = <<>>
  /\ got = <<>>
  /\ broken = FALSE

Send(t) ==
  /\ sent' = Append(sent, t)
  /\ UNCHANGED <<got, broken>>

Deliver ==
  /\ ~broken
  /\ Len(got) < Len(sent)
  /\ got' = Append(got, sent[Len(got) + 1])
  /\ UNCHANGED <<sent, broken>>

\* The receiver takes bytes for a message that are none.
Break ==
  /\ broken' = TRUE
  /\ UNCHANGED sent

Anything == broken /\ broken' = TRUE

Next == (\E t \in Type : Send(t)) \/ Deliver \/ Break \/ Anything

vars == <<sent, got, broken>>

Spec == Init /\ [][Next]_vars
=============================================================================

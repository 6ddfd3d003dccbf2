----------------------------- MODULE ParseFile -----------------------------
(***************************************************************************)
(* parse_file(): the text of the .torrent file is parsed (Bencode), then   *)
(* the files are created, downloaded and completed (DlFiles).  The text is *)
(* the same at every start of the process and is parsed once; what is in   *)
(* it makes no difference to the files, whose paths are given.             *)
(***************************************************************************)
EXTENDS DlFiles

CONSTANTS Char, Docs, Encode(_), Others, Behind, Garbage, LONG_MAX, NUM_BUF,
          MAX_ERRORS   \* see Bencode

VARIABLES doc, text, behind, fresh, parser, stack, parse_pc, ret, hashed

bencode == <<doc, text, behind, fresh, parser, stack, parse_pc, ret, hashed>>

B == INSTANCE Bencode WITH p <- parser, pc <- parse_pc

ASSUME TextsAssumption == B!BencodeAssumption

ParseInit == B!Init /\ Init

\* The fields have been read out of the items, which are not looked at again.
ReadFields ==
  /\ parse_pc = "done"
  /\ parse_pc' = "read"
  /\ doc' = B!Nothing /\ ret' = B!Nothing
  /\ text' = <<>> /\ behind' = <<>> /\ fresh' = <<>>
  /\ parser' = <<>> /\ stack' = <<>> /\ hashed' = <<>>
  /\ UNCHANGED vars

ParseNext ==
  \/ parse_pc # "read" /\ B!Next /\ UNCHANGED vars
  \/ ReadFields
  \/ parse_pc = "read" /\ Next /\ UNCHANGED bencode

ParseSpec == ParseInit /\ [][ParseNext]_<<vars, bencode>>

-----------------------------------------------------------------------------

\* What was encoded is parsed, see RoundTrip of Bencode.
RoundTrip == B!RoundTrip

\* The info hash is computed of the right bytes, see HashedRange of Bencode.
HashedRange == B!HashedRange

\* Whatever is hashed begins with a d and ends with an e, see HashedFromDToE of
\* Bencode.
HashedFromDToE == B!HashedFromDToE
=============================================================================

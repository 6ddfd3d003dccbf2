---------------------------- MODULE MCParseFile ----------------------------
(***************************************************************************)
(* ParseFile for TLC: the texts, the encoding that the parser has to undo, *)
(* and the files.                                                          *)
(***************************************************************************)
EXTENDS ParseFile

\* A file, and one in a directory.
TwoFiles   == <<<<"a">>, <<"d", "b">>>>
FiveInodes == 1 .. 5

-----------------------------------------------------------------------------
(* Items and their encoding.                                               *)

Item(kind, int, str, keys, items) ==
  [kind |-> kind, int |-> int, str |-> str, keys |-> keys, items |-> items]

BInt(n)     == Item("INTEGER", n, <<>>, <<>>, <<>>)
BStr(s)     == Item("BYTESTRING", 0, s, <<>>, <<>>)
BList(v)    == Item("LIST", 0, <<>>, <<>>, v)
BDict(n, v) == Item("DICTIONARY", 0, <<>>, n, v)

INFO == <<"i", "n", "f", "o">>

Digits == <<"0", "1", "2", "3", "4", "5", "6", "7", "8", "9">>

RECURSIVE Decimal(_)
Decimal(n) ==
  IF n < 0 THEN <<"-">> \o Decimal(-n)
  ELSE IF n < 10 THEN <<Digits[n + 1]>>
  ELSE Decimal(n \div 10) \o <<Digits[(n % 10) + 1]>>

Bytes(s) == Decimal(Len(s)) \o <<":">> \o s

RECURSIVE EncodeItem(_)
EncodeItem(v) ==
  CASE v.kind = "INTEGER"    -> <<"i">> \o Decimal(v.int) \o <<"e">>
    [] v.kind = "BYTESTRING" -> Bytes(v.str)
    [] v.kind = "LIST"       ->
         <<"l">> \o FlattenSeq([i \in DOMAIN v.items |-> EncodeItem(v.items[i])]) \o <<"e">>
    [] v.kind = "DICTIONARY" ->
         <<"d">> \o FlattenSeq([i \in DOMAIN v.items |->
                                  Bytes(v.keys[i]) \o EncodeItem(v.items[i])]) \o <<"e">>

-----------------------------------------------------------------------------
(* The texts.                                                              *)

Chars ==
  ToSet(Digits) \cup {"a", "d", "e", "f", "i", "l", "n", "o", "-", ":", "NUL"}

\* A key other than "info".
KEY == <<"e">>

\* Strings that begin like tokens, one that is the key "info", one that begins
\* with a colon, and one whose length has two digits.
Strings ==
  {<<"d">>, <<"e", ":">>, <<"1", ":", "a">>, <<"l", "i", "e">>, <<"-">>, INFO,
   <<":">>, [i \in 1 .. 11 |-> "i"]}

Atoms == {BStr(s) : s \in Strings} \cup {BInt(n) : n \in {0, 7, 12, -30}}

Lists ==
  {BList(<<>>)} \cup {BList(<<a>>) : a \in Atoms}
    \cup {BList(<<a, b>>) : a, b \in Atoms}

Dicts ==
  {BDict(<<>>, <<>>), BDict(<<KEY>>, <<BList(<<BStr(<<":">>)>>)>>)}
    \cup {BDict(<<KEY, <<"1">>>>, <<a, b>>) : a, b \in Atoms \cup {BList(<<BInt(1)>>)}}

SomeDocs ==
  Lists
    \cup {BDict(<<KEY, INFO>>, <<a, d>>) : a \in Atoms, d \in Dicts}
    \cup {BDict(<<INFO, KEY>>, <<BDict(<<INFO>>, <<d>>), BList(<<d, d>>)>>) : d \in Dicts}

\* A number as a key, in the value of "info" too; a value of "info" that is no
\* dictionary or breaks off; a key that begins with a colon; an empty string and
\* one of negative length; numbers with a sign in the middle, too large for a long or for the
\* buffer or followed by nothing; tokens where an item or a key should be.
SomeOthers ==
  LET info == <<"d", "4", ":">> \o INFO
  IN  {<<"d", "i", "1", "e", "i", "2", "e", "e">>,
       info \o <<"d", "i", "1", "e", "i", "2", "e", "e", "e">>,
       info \o <<"i", "1", "e", "e">>,
       info \o <<"d", "1", ":", "a">>,
       info \o <<"d", "1", ":", "a", "l">>,
       info,
       <<"d", "1", ":", ":", "e", "e">>,
       <<"l", "0", ":", "e">>,
       <<"l", "-", "1", ":", "a", "e">>,
       <<"l", "i", "1", "-", "2", "e", "i", "-", "9", "9", "9", "9", "e", "e">>,
       <<"l", "i", "1", "2", "3", "4", "5", "6", "e", "e">>,
       <<"l", "i", "1">>,
       <<"l", ":", "e", "e">>,
       info \o <<"d", ":", "e", "e">>}

\* The heap ends at once, or holds tokens that go on with the text.
SomeBehind ==
  {<<>>, <<"e">>, <<"1", ":">>, <<"d", "e", "e">>, <<"e", "e", "e", "NUL">>,
   <<"NUL", "a", "e", "e">>, [i \in 1 .. 6 |-> "1"]}

\* Harmless tokens, with a length of a string before them too; a length as the
\* last token; a colon with and without a length before it.
SomeGarbage ==
  LET tok(type, n) == [type |-> type, pos |-> 0, int |-> n, str |-> <<>>]
      pair(q, r)   == [prev |-> q, prevprev |-> r]
  IN  {pair(tok("ILLEGAL", 0), tok("ILLEGAL", 0)),
       pair(tok("INT_START", 0), tok("STRING_SIZE", 2)),
       pair(tok("STRING_SIZE", 1), tok("ILLEGAL", 0)),
       pair(tok("COLON", 0), tok("INT", 0)),
       pair(tok("COLON", 0), tok("STRING_SIZE", 3))}
=============================================================================

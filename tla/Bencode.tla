------------------------------ MODULE Bencode ------------------------------
(***************************************************************************)
(* stb_bencode.h: the lexer, which tells tokens apart by the two before    *)
(* them, and the recursive parser with one token to look ahead.  The stack *)
(* of calls of parse_list() and parse_dict() is a variable.                *)
(*                                                                         *)
(* Positions count from 0, as in the code.  A parsed item has all the      *)
(* fields of the union, those it does not use empty; a dictionary is the   *)
(* sequence of its insertions.                                             *)
(*                                                                         *)
(* Nothing tells the lexer where the text ends: behind it, it reads the    *)
(* heap, which other allocations of the process change meanwhile, and      *)
(* crashes where no memory is mapped.                                      *)
(***************************************************************************)
EXTENDS Integers, SequencesExt

CONSTANTS
  Char,      \* characters
  Docs,      \* items whose encoding is parsed, without an empty string
  Encode(_), \* the characters that encode an item, by which the parser is judged
  Others,    \* other texts: encodings of no item, or with an empty string
  Behind,    \* what the memory behind the text may hold, up to where it ends
  Garbage,   \* the prev and prevprev that a new Lexer may have: [prev, prevprev]
  LONG_MAX,  \* the largest long
  NUM_BUF,   \* the size of buf in next_token()
  MAX_ERRORS \* the size of errors in Parser

\* OVERRUN is that of a token at which the process crashes.
TokenType ==
  {"ILLEGAL", "LIST_START", "DICT_START", "INT_START", "INT", "END",
   "STRING_SIZE", "STRING", "COLON", "OVERRUN"}

Tokens == [type : TokenType, pos : Nat, int : Int, str : Seq(Char)]

BencodeAssumption ==
  /\ "FAULT" \notin Char
  /\ \A d \in Docs : Encode(d) \in Seq(Char)
  /\ Others \subseteq Seq(Char)
  /\ Behind \subseteq Seq(Char)
  /\ Garbage \subseteq [prev : Tokens, prevprev : Tokens]
  /\ {LONG_MAX, NUM_BUF, MAX_ERRORS} \subseteq Nat

VARIABLES
  doc,      \* the item that was encoded, or Nothing
  text,     \* the characters to parse
  behind,   \* the characters behind them, up to where memory ends
  fresh,    \* the prev and prevprev that the new Lexer happened to have
  p,        \* the Parser: lexer, cur_token, peek_token, number of errors
  stack,    \* the calls under way: [item, key, start], the innermost first
  pc,       \* item, loop, return, done, aborted
  ret,      \* what the last call returned
  hashed    \* calls of BENCODE_GET_SHA1: [item, start, end, bytes]

vars == <<doc, text, behind, fresh, p, stack, pc, ret, hashed>>

-----------------------------------------------------------------------------
(* Items.                                                                  *)

Item(kind, int, str, keys, items) ==
  [kind |-> kind, int |-> int, str |-> str, keys |-> keys, items |-> items]

Nothing   == Item("ERROR", 0, <<>>, <<>>, <<>>)
BInt(n)   == Item("INTEGER", n, <<>>, <<>>, <<>>)
BStr(s)   == Item("BYTESTRING", 0, s, <<>>, <<>>)
BList(v)  == Item("LIST", 0, <<>>, <<>>, v)
BDict(k, v) == Item("DICTIONARY", 0, <<>>, k, v)

INFO == <<"i", "n", "f", "o">>

Digits == <<"0", "1", "2", "3", "4", "5", "6", "7", "8", "9">>

-----------------------------------------------------------------------------
(* The lexer.                                                              *)

\* So many characters can be read.
Memory == Len(text) + Len(behind)

\* buf[i]; FAULT is that of unmapped memory.
At(i) == IF i < Len(text) THEN text[i + 1]
         ELSE IF i < Memory THEN behind[i - Len(text) + 1] ELSE "FAULT"

Token(type, pos, int, str) ==
  [type |-> type, pos |-> pos, int |-> int, str |-> str]

\* Token t = {0}: 0 is ILLEGAL.
NoToken == Token("ILLEGAL", 0, 0, <<>>)

Numeral(c) == c = "-" \/ c \in ToSet(Digits)

\* strtol(): a sign, digits up to what is none; it does not exceed a long.
Number(s) ==
  LET digits == IF Head(s) = "-" THEN Tail(s) ELSE s
      stop   == SelectInSeq(digits \o <<"-">>, LAMBDA c : c = "-")
      n      == FoldLeft(LAMBDA a, c : 10 * a + SelectInSeq(Digits, LAMBDA d : d = c) - 1,
                         0, SubSeq(digits, 1, stop - 1))
      v      == IF n \in 0 .. LONG_MAX THEN n ELSE LONG_MAX
  IN  IF Head(s) # "-" THEN v ELSE IF v = n THEN -v ELSE -v - 1

\* A token and the lexer behind it: reading goes on at r.  Only an ILLEGAL
\* number is not remembered.
Lexed(l, t, r) ==
  [token |-> t, lexer |-> [read_pos |-> r, prev |-> t, prevprev |-> l.prev]]

\* The process crashes, having read up to r.
Crashes(l, r) == Lexed(l, Token("OVERRUN", 0, 0, <<>>), r)

\* Where the loop over the characters of a number ends: at a character that is
\* not of a number, or before an e or a colon.
Stops(j) == ~Numeral(At(j)) \/ At(j + 1) \in {"e", ":"}

\* buf[last - i] is written: behind the end of buf that is taken for a crash.
LexNumber(l) ==
  LET i    == l.read_pos
      last == CHOOSE j \in i .. Memory :
                Stops(j) /\ \A h \in i .. j - 1 : ~Stops(h)
      type == IF l.prev.type = "INT_START" THEN "INT"
              ELSE IF At(last + 1) = ":" THEN "STRING_SIZE" ELSE "ILLEGAL"
  IN  IF At(last) = "FAULT" \/ last - i >= NUM_BUF THEN Crashes(l, last + 1)
      ELSE IF ~Numeral(At(last))
      THEN [token |-> NoToken, lexer |-> [l EXCEPT !.read_pos = last + 1]]
      ELSE Lexed(l, Token(type, 0, Number([j \in 1 .. last - i + 1 |-> At(i + j - 1)]), <<>>),
                 last + 1)

\* MUTANT: a string may not begin with one of these characters.
Structural_Always(l) == TRUE

\* d, l, i and e have their meaning unless a colon precedes them.
Structural(l) == l.prev.type # "COLON"

\* size_t n = l->prevprev.asInt
StringLen(l) == l.prevprev.int

\* MUTANT: where the next token is read.
TokenPos_Next(l) == l.read_pos + 1

\* l->pos
TokenPos(l) == l.read_pos

\* next_token().  The loop that copies a string runs until i = n - 1, a size_t:
\* if n is not positive, the process crashes, as where memory ends before.
next_token(l) ==
  LET c == At(l.read_pos)
      n == StringLen(l)
  IN  CASE c = ":" -> Lexed(l, Token("COLON", 0, 0, <<>>), l.read_pos + 1)
        [] c = "d" /\ Structural(l) ->
             Lexed(l, Token("DICT_START", TokenPos(l), 0, <<>>), l.read_pos + 1)
        [] c = "l" /\ Structural(l) ->
             Lexed(l, Token("LIST_START", 0, 0, <<>>), l.read_pos + 1)
        [] c = "i" /\ Structural(l) ->
             Lexed(l, Token("INT_START", 0, 0, <<>>), l.read_pos + 1)
        [] c = "e" /\ Structural(l) ->
             Lexed(l, Token("END", TokenPos(l), 0, <<>>), l.read_pos + 1)
        [] c = "FAULT" -> Crashes(l, l.read_pos + 1)
        [] OTHER ->
             IF l.prevprev.type = "STRING_SIZE"
             THEN IF n \in 1 .. Memory - l.read_pos
                  THEN Lexed(l, Token("STRING", 0, 0,
                                      [j \in 1 .. n |-> At(l.read_pos + j - 1)]),
                             l.read_pos + n)
                  ELSE Crashes(l, l.read_pos + 1)
             ELSE IF Numeral(c) THEN LexNumber(l)
             ELSE Lexed(l, NoToken, l.read_pos + 1)

-----------------------------------------------------------------------------
(* The parser.                                                             *)

parser_next_token(q) ==
  LET x == next_token(q.lexer)
  IN  [q EXCEPT !.lexer = x.lexer, !.cur = q.peek, !.peek = x.token]

parse_error(q) == [q EXCEPT !.errors = @ + 1]

expect_peek(q, type) ==
  IF q.peek.type = type THEN parser_next_token(q) ELSE parse_error(q)

Overrun(q) == "OVERRUN" \in {q.cur.type, q.peek.type}

new_parser(l) ==
  parser_next_token(parser_next_token(
    [lexer |-> l, cur |-> NoToken, peek |-> NoToken, errors |-> 0]))

\* new_lexer() leaves prev and prevprev as they are in memory.
Init ==
  /\ \/ doc \in Docs /\ text = Encode(doc)
     \/ doc = Nothing /\ text \in Others
  /\ behind \in Behind
  /\ fresh \in Garbage
  /\ p = new_parser([read_pos |-> 0, prev |-> fresh.prev, prevprev |-> fresh.prevprev])
  /\ stack = <<>>
  /\ pc = IF Overrun(p) THEN "aborted" ELSE "item"
  /\ ret = Nothing
  /\ hashed = <<>>

\* The parser has come to q and goes on at next.
Goto(q, next) ==
  /\ p' = q
  /\ pc' = IF Overrun(q) THEN "aborted" ELSE next

\* parse_item() returns v.
Return(v, q) ==
  /\ ret' = v
  /\ Goto(q, "return")
  /\ UNCHANGED <<doc, text, behind, fresh, stack, hashed>>

\* Its two errors do not end it.
ParseInteger ==
  /\ pc = "item"
  /\ p.cur.type = "INT_START"
  /\ LET q == (IF p.peek.type = "INT" THEN expect_peek(p, "INT")
               ELSE parse_error(expect_peek(p, "INT")))
         r == (IF q.peek.type = "END" THEN expect_peek(q, "END")
               ELSE parse_error(expect_peek(q, "END")))
     IN  Return(BInt(q.cur.int), r)

\* BencodeType s = {0}: after an error an empty string is returned.
ParseBytestring ==
  /\ pc = "item"
  /\ p.cur.type = "STRING_SIZE"
  /\ LET q == expect_peek(p, "COLON")
         r == expect_peek(q, "STRING")
     IN  IF p.peek.type # "COLON" THEN Return(BStr(<<>>), q)
         ELSE IF q.peek.type # "STRING" THEN Return(BStr(<<>>), parse_error(r))
         ELSE Return(BStr(r.cur.str), r)

Call(item) ==
  /\ pc = "item"
  /\ stack' = <<[item |-> item, key |-> <<>>, start |-> 0]>> \o stack
  /\ Goto(parser_next_token(p), "loop")
  /\ UNCHANGED <<doc, text, behind, fresh, ret, hashed>>

ParseList == p.cur.type = "LIST_START" /\ Call(BList(<<>>))

ParseDict == p.cur.type = "DICT_START" /\ Call(BDict(<<>>, <<>>))

\* "unexpected token"
ParseUnexpected ==
  /\ pc = "item"
  /\ p.cur.type \notin {"INT_START", "STRING_SIZE", "LIST_START", "DICT_START"}
  /\ Return(Nothing, parse_error(p))

\* while (p->cur_token.type != END)
Loop ==
  /\ pc = "loop"
  /\ IF p.cur.type = "END"
     THEN pc' = "return" /\ ret' = Head(stack).item /\ stack' = Tail(stack)
     ELSE pc' = "item" /\ UNCHANGED <<ret, stack>>
  /\ UNCHANGED <<doc, text, behind, fresh, p, hashed>>

Returned(kind) == pc = "return" /\ stack # <<>> /\ Head(stack).item.kind = kind

\* The innermost call goes on as f.
Update(f) == stack' = <<f>> \o Tail(stack)

ListAppend ==
  /\ Returned("LIST")
  /\ Update([Head(stack) EXCEPT !.item.items = Append(@, ret)])
  /\ Goto(parser_next_token(p), "loop")
  /\ UNCHANGED <<doc, text, behind, fresh, ret, hashed>>

\* A call of parse_dict() waits for a key or, if it has one, for its value.
AwaitsKey == Returned("DICTIONARY") /\ Head(stack).key = <<>>

\* A key that is an erroneous string is a null pointer, which strcmp() follows.
KeyAborts ==
  ret.str = <<>> \/ (ret.str = INFO /\ p.peek.type # "DICT_START")

\* MUTANT: the start is taken after the next token has been read.
DictKey_Late ==
  /\ AwaitsKey
  /\ ret.kind = "BYTESTRING"
  /\ ~KeyAborts
  /\ Update([Head(stack) EXCEPT !.key = ret.str, !.start = parser_next_token(p).peek.pos])
  /\ Goto(parser_next_token(p), "item")
  /\ UNCHANGED <<doc, text, behind, fresh, ret, hashed>>

DictKey ==
  /\ AwaitsKey
  /\ ret.kind = "BYTESTRING"
  /\ ~KeyAborts
  /\ Update([Head(stack) EXCEPT !.key = ret.str, !.start = p.peek.pos])
  /\ Goto(parser_next_token(p), "item")
  /\ UNCHANGED <<doc, text, behind, fresh, ret, hashed>>

\* assert(p->peek_token.type == DICT_START)
DictKeyAborts ==
  /\ AwaitsKey
  /\ ret.kind = "BYTESTRING"
  /\ KeyAborts
  /\ pc' = "aborted"
  /\ UNCHANGED <<doc, text, behind, fresh, p, stack, ret, hashed>>

\* "Dictionary key is not a string": what was parsed so far is returned.
DictKeyBad ==
  /\ AwaitsKey
  /\ ret.kind # "BYTESTRING"
  /\ stack' = Tail(stack)
  /\ ret' = Head(stack).item
  /\ p' = parse_error(p)
  /\ UNCHANGED <<doc, text, behind, fresh, pc, hashed>>

\* The bytes that are hashed, the one at the end included.
compute_info_hash(start, end) ==
  [i \in 1 .. end - start + 1 |-> At(start + i - 1)]

\* The entry is inserted; of the value of "info" the hash is computed first.
DictValue ==
  LET f == Head(stack) IN
  /\ Returned("DICTIONARY") /\ ~AwaitsKey
  /\ f.key # INFO \/ p.cur.type = "END"
  /\ hashed' = IF f.key = INFO
               THEN Append(hashed, [item |-> ret, start |-> f.start, end |-> p.cur.pos,
                                    bytes |-> compute_info_hash(f.start, p.cur.pos)])
               ELSE hashed
  /\ Update([item |-> BDict(Append(f.item.keys, f.key), Append(f.item.items, ret)),
             key |-> <<>>, start |-> 0])
  /\ Goto(parser_next_token(p), "loop")
  /\ UNCHANGED <<doc, text, behind, fresh, ret>>

\* assert(p->cur_token.type == END)
DictValueAborts ==
  /\ Returned("DICTIONARY") /\ ~AwaitsKey
  /\ Head(stack).key = INFO /\ p.cur.type # "END"
  /\ pc' = "aborted"
  /\ UNCHANGED <<doc, text, behind, fresh, p, stack, ret, hashed>>

\* The first call of parse_item() has returned.
Finish ==
  /\ pc = "return"
  /\ stack = <<>>
  /\ pc' = "done"
  /\ UNCHANGED <<doc, text, behind, fresh, p, stack, ret, hashed>>

Running == pc \in {"item", "loop", "return"}

\* What is allocated meanwhile, the parser's own strings, lists and tables too,
\* lies behind the text; the heap does not shrink.
HeapChanges ==
  /\ Running
  /\ behind' \in {b \in Behind : Len(b) >= Len(behind)}
  /\ UNCHANGED <<doc, text, fresh, p, stack, pc, ret, hashed>>

\* parse_error() does not look at the size of errors and has overwritten what
\* lies behind: the process crashes, or goes on as before.
ErrorsOverrun ==
  /\ Running
  /\ p.errors > MAX_ERRORS
  /\ pc' = "aborted"
  /\ UNCHANGED <<doc, text, behind, fresh, p, stack, ret, hashed>>

Done == pc \in {"done", "aborted"} /\ UNCHANGED vars

Next ==
  \/ ParseInteger \/ ParseBytestring \/ ParseList \/ ParseDict \/ ParseUnexpected
  \/ Loop \/ ListAppend \/ DictKey \/ DictKeyAborts \/ DictKeyBad
  \/ DictValue \/ DictValueAborts
  \/ HeapChanges \/ ErrorsOverrun
  \/ Finish \/ Done

Spec == Init /\ [][Next]_vars

-----------------------------------------------------------------------------

\* A string that begins with a colon is taken for a second colon.
TwoColons == \E i \in 1 .. Len(text) - 1 : text[i] = ":" /\ text[i + 1] = ":"

\* The first token is not taken for the beginning of a string.
FreshIsHarmless == fresh.prev.type \notin {"COLON", "STRING_SIZE"}

\* What is parsed is what was encoded, without an error: strings that look like
\* tokens, numbers or keys included, at any depth, whatever is found behind the
\* end of the file, where the parser reads one token more.  That token is the
\* only thing the process may crash at.  Not so if a string begins with a colon
\* or is empty (at 0: the lexer crashes; Docs has none), or the new Lexer's prev
\* happens to be a COLON or a STRING_SIZE.
RoundTrip ==
  doc # Nothing /\ ~TwoColons /\ FreshIsHarmless =>
    /\ pc = "done" => ret = doc /\ p.errors = 0
    /\ pc = "aborted" => p.peek.type = "OVERRUN" /\ p.lexer.read_pos > Len(text)

\* The info hash is that of the bytes that encode the dictionary under the key
\* "info", from its d to its e, with the exceptions of RoundTrip.  (A list whose last string begins with a colon is not closed by its
\* e: the dictionary around it ends one e too late.)
HashedRange ==
  doc # Nothing /\ ~TwoColons /\ FreshIsHarmless =>
    \A i \in DOMAIN hashed : hashed[i].bytes = Encode(hashed[i].item)

\* Whatever the text, a malformed or truncated one too, and whatever is in the
\* heap behind it and in the new Lexer: end is behind start, so that
\* end - start + 1, a size_t, does not wrap; no memory is hashed that the lexer
\* has not read before; and what is of the text begins at a d and ends at an e.
\* (Of a truncated text what is hashed ends at the first e that closes the
\* dictionary, anywhere in the heap.)
HashedFromDToE ==
  \A i \in DOMAIN hashed :
    LET h == hashed[i]
    IN  /\ h.start < h.end
        /\ h.end < p.lexer.read_pos
        /\ h.start < Len(text) => Head(h.bytes) = "d"
        /\ h.end < Len(text) => h.bytes[Len(h.bytes)] = "e"
=============================================================================

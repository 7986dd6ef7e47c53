----------------------------- MODULE JSONParser -----------------------------
(***************************************************************************)
(* The parser of cJSON (libs/json/cJSON.c).  A text is a sequence of bytes *)
(* and a place in it an offset.  A loop of the code is a function of the   *)
(* number of its rounds, of which the length of the text is enough.        *)
(* Left out: numbers, whose digits strtod converts; and allocations that   *)
(* fail, after which CJSON's cJSON_Delete runs.                            *)
(***************************************************************************)
EXTENDS Bytes, SequencesExt

CONSTANT CJSON_NESTING_LIMIT

ASSUME NestingAssumption == CJSON_NESTING_LIMIT \in Nat

Null  == <<110, 117, 108, 108>>
True  == <<116, 114, 117, 101>>
False == <<102, 97, 108, 115, 101>>

(* What a C string holds: the bytes before the first NUL.                  *)
CString(s) == LET i == SelectInSeq(s, LAMBDA b : b = 0)
              IN IF i = 0 THEN s ELSE SubSeq(s, 1, i - 1)

(* A byte by its offset; Outside where nothing may be read.                *)
Outside == -1
At(t, i) == IF i \in 0..Len(t) - 1 THEN t[i + 1] ELSE Outside

-----------------------------------------------------------------------------
(* Strings.                                                                *)

\* Four bytes of which one is no digit count as 0.
parse_hex4(s) ==
  IF \E i \in 1..4 : s[i] \notin DOMAIN HexValue THEN 0
  ELSE 4096 * HexValue[s[1]] + 256 * HexValue[s[2]] + 16 * HexValue[s[3]] + HexValue[s[4]]

\* UTF-8: Tail6 is what a byte but the first holds, six bits of n.
Tail6(n) == 128 + (n % 64)
Utf8(c) ==
  IF c < 128 THEN <<c>>
  ELSE IF c < 2048 THEN <<192 + c \div 64, Tail6(c)>>
  ELSE IF c < 65536 THEN <<224 + c \div 4096, Tail6(c \div 64), Tail6(c)>>
  ELSE <<240 + c \div 262144, Tail6(c \div 4096), Tail6(c \div 64), Tail6(c)>>

(* What stands for bytes, and how many bytes it takes, none if it is refused. *)
Refused == [bytes |-> <<>>, used |-> 0]

\* The first and the second half of a surrogate pair, and the codepoint it is.
IsFirst(c) == 55296 <= c /\ c <= 56319
IsSecond(c) == 56320 <= c /\ c <= 57343
Pair(c, d) == 65536 + ((c % 1024) * 1024) + (d % 1024)

(* s begins with a literal and ends where the string does.                 *)
utf16_literal_to_utf8(s) ==
  LET first   == parse_hex4(SubSeq(s, 3, 6))
      second  == parse_hex4(SubSeq(s, 9, 12))
  IN IF Len(s) < 6 \/ IsSecond(first) THEN Refused
     ELSE IF ~IsFirst(first) THEN [bytes |-> Utf8(first), used |-> 6]
     ELSE IF Len(s) < 12 \/ s[7] # Backslash \/ s[8] # 117 \/ ~IsSecond(second)
          THEN Refused
     ELSE [bytes |-> Utf8(Pair(first, second)), used |-> 12]

\* A round of the loop that looks for the end of a string, from at; skipped: its
\* escapes so far.
EndRound(t, r) ==
  CASE At(t, r.at) \in {Outside, Quote} -> r
    [] At(t, r.at) = Backslash ->
         IF r.at + 1 >= Len(t) THEN [r EXCEPT !.at = Len(t)]
         ELSE [at |-> r.at + 2, skipped |-> r.skipped + 1]
    [] OTHER -> [r EXCEPT !.at = @ + 1]

(* Where the string that begins at i ends: at its second quote, or with    *)
(* the text.                                                               *)
EndOfString(t, i) ==
  LET after[n \in 0..Len(t)] ==
        IF n = 0 THEN [at |-> i, skipped |-> 0] ELSE EndRound(t, after[n - 1])
  IN after[Len(t)]

(* What stands at an offset of a string that ends at end: a byte, an escape *)
(* of one letter (the quote, if a backslash before it comes to be read so), *)
(* or a literal.                                                            *)
Piece(t, at, end) ==
  LET letter == At(t, at + 1)
  IN CASE At(t, at) # Backslash -> [bytes |-> <<At(t, at)>>, used |-> 1]
       [] At(t, at) = Backslash /\ letter \in DOMAIN Escapes ->
            [bytes |-> <<Escapes[letter]>>, used |-> 2]
       [] At(t, at) = Backslash /\ letter = 117 -> utf16_literal_to_utf8(SubSeq(t, at + 1, end))
       [] OTHER -> Refused

UnescapeRound(t, end, r) ==
  LET piece == Piece(t, r.at, end)
  IN IF ~r.ok \/ r.at >= end THEN r
     ELSE [at |-> r.at + piece.used, bytes |-> r.bytes \o piece.bytes, ok |-> piece.used > 0]

(* The bytes that the string from i to end stands for.                     *)
Unescaped(t, i, end) ==
  LET after[n \in 0..Len(t)] ==
        IF n = 0 THEN [at |-> i, bytes |-> <<>>, ok |-> TRUE]
        ELSE UnescapeRound(t, end, after[n - 1])
  IN after[Len(t)]

(* offset: where parsing goes on; outside: a byte was read beyond the text *)
(* or written beyond what was allocated for a string.                      *)
ParseFailed(read) == [ok |-> FALSE, val |-> <<"none">>, offset |-> 0, outside |-> read = Outside]
Parsed(v, o) == [ok |-> TRUE, val |-> v, offset |-> o, outside |-> FALSE]

\* Mutant: every escape is taken for one of a single byte from six.
RoomForShortest(end, i) == end.at - i - 5 * end.skipped + 1

(* What is allocated for the bytes of a string and a NUL.                  *)
Room(end, i) == end.at - i - end.skipped + 1

\* How many bytes have been written; the NUL comes last.
BytesWritten(u) == Len(u.bytes) + (IF u.ok THEN 1 ELSE 0)

\* u is what the string that begins at i stands for, up to where it is refused; it
\* ends at end.
Filled(i, end, u) ==
  IF BytesWritten(u) > Room(end, i) THEN ParseFailed(Outside)
  ELSE IF ~u.ok THEN ParseFailed(Quote)
  ELSE Parsed(<<"string", CString(u.bytes)>>, end.at + 1)

StringTo(t, i, end) ==
  IF At(t, end.at) # Quote THEN ParseFailed(Quote)
  ELSE Filled(i, end, Unescaped(t, i + 1, end.at))

parse_string(t, i) ==
  IF At(t, i) # Quote THEN ParseFailed(At(t, i)) ELSE StringTo(t, i, EndOfString(t, i + 1))

-----------------------------------------------------------------------------
(* Values.  A value is a tuple of its type and, but for the literals, of   *)
(* its string, its elements, or its members as pairs.                      *)

\* NUL counts as whitespace; the last byte is not skipped.
buffer_skip_whitespace(t, i) ==
  LET stop == CHOOSE j \in i..Len(t) : /\ At(t, j) \notin 0..Space
                                       /\ \A k \in i..(j - 1) : At(t, k) \in 0..Space
  IN IF At(t, i) = Outside THEN i ELSE IF stop = Len(t) THEN stop - 1 ELSE stop

skip_utf8_bom(t) ==
  IF Len(t) > 4 /\ SubSeq(t, 1, 3) = <<239, 187, 191>> THEN 3 ELSE 0

Begins(t, i, word) == i + Len(word) <= Len(t) /\ SubSeq(t, i + 1, i + Len(word)) = word

(* The loops of parse_array and parse_object: at offset, having got some   *)
(* values or members, with more to come after a comma.                     *)
Going(i) == [ok |-> TRUE, got |-> <<>>, offset |-> i, more |-> TRUE, outside |-> FALSE]
Stopped(v) == [ok |-> FALSE, got |-> <<>>, offset |-> 0, more |-> FALSE, outside |-> v.outside]

Got(t, r, entry, n) ==
  [ok |-> TRUE, got |-> Append(r.got, entry), offset |-> n, more |-> At(t, n) = Comma,
   outside |-> r.outside]

\* inner: what is parsed from every offset one level deeper.
ElementRound(t, inner, r) ==
  LET v == inner[buffer_skip_whitespace(t, r.offset + 1)]
  IN IF ~r.more THEN r
     ELSE IF ~v.ok THEN Stopped(v)
     ELSE Got(t, r, v.val, buffer_skip_whitespace(t, v.offset))

AfterName(t, inner, r, name) ==
  LET colon == buffer_skip_whitespace(t, name.offset)
      v == inner[buffer_skip_whitespace(t, colon + 1)]
  IN IF ~name.ok THEN Stopped(name)
     ELSE IF At(t, colon) # Colon THEN Stopped(ParseFailed(Comma))
     ELSE IF ~v.ok THEN Stopped(v)
     ELSE Got(t, r, <<name.val[2], v.val>>, buffer_skip_whitespace(t, v.offset))

MemberRound(t, inner, r) ==
  IF ~r.more THEN r
  ELSE IF At(t, r.offset + 1) = Outside THEN Stopped(ParseFailed(Comma))
  ELSE AfterName(t, inner, r, parse_string(t, buffer_skip_whitespace(t, r.offset + 1)))

Elements(t, inner, i) ==
  LET after[n \in 0..Len(t)] == IF n = 0 THEN Going(i) ELSE ElementRound(t, inner, after[n - 1])
  IN after[Len(t)]

Members(t, inner, i) ==
  LET after[n \in 0..Len(t)] == IF n = 0 THEN Going(i) ELSE MemberRound(t, inner, after[n - 1])
  IN after[Len(t)]

Closed(t, r, type, bracket) ==
  IF r.ok /\ At(t, r.offset) = bracket THEN Parsed(<<type, r.got>>, r.offset + 1)
  ELSE [ParseFailed(Comma) EXCEPT !.outside = r.outside]

\* j is where the first byte after the bracket may be; left: the levels that may
\* still be opened.
parse_array(t, j, left, inner) ==
  CASE left = 0 \/ At(t, j) = Outside -> ParseFailed(Comma)
    [] left # 0 /\ At(t, j) = CloseArray -> Parsed(<<"array", <<>>>>, j + 1)
    [] OTHER -> Closed(t, Elements(t, inner, j - 1), "array", CloseArray)

parse_object(t, j, left, inner) ==
  CASE left = 0 \/ At(t, j) = Outside -> ParseFailed(Comma)
    [] left # 0 /\ At(t, j) = CloseObject -> Parsed(<<"object", <<>>>>, j + 1)
    [] OTHER -> Closed(t, Members(t, inner, j - 1), "object", CloseObject)

parse_value(t, i, left, inner) ==
  IF Begins(t, i, Null) THEN Parsed(<<"null">>, i + 4)
  ELSE IF Begins(t, i, False) THEN Parsed(<<"false">>, i + 5)
  ELSE IF Begins(t, i, True) THEN Parsed(<<"true">>, i + 4)
  ELSE CASE At(t, i) = Quote -> parse_string(t, i)
         [] At(t, i) = OpenArray -> parse_array(t, buffer_skip_whitespace(t, i + 1), left, inner)
         [] At(t, i) = OpenObject -> parse_object(t, buffer_skip_whitespace(t, i + 1), left, inner)
         [] OTHER -> ParseFailed(Comma)

(* What is parsed from every offset.                                       *)
ValuesAt(t, left, inner) == [i \in 0..Len(t) |-> parse_value(t, i, left, inner)]

Values(t) ==
  LET value[left \in 0..CJSON_NESTING_LIMIT] ==
        ValuesAt(t, left, IF left = 0 THEN <<>> ELSE value[left - 1])
  IN value[CJSON_NESTING_LIMIT]

\* What has been parsed to v is all, if a NUL has to follow.
Ended(t, v, require_null_terminated) ==
  LET n == buffer_skip_whitespace(t, v.offset)
  IN IF ~v.ok \/ ~require_null_terminated THEN v
     ELSE IF At(t, n) = 0 THEN Parsed(v.val, n) ELSE ParseFailed(Comma)

cJSON_ParseWithLengthOpts(t, require_null_terminated) ==
  IF t = <<>> THEN ParseFailed(Comma)
  ELSE Ended(t, Values(t)[buffer_skip_whitespace(t, skip_utf8_bom(t))], require_null_terminated)

\* cJSON_Parse gives the NUL of its string to be read as well.
cJSON_Parse(s) == cJSON_ParseWithLengthOpts(s \o <<0>>, FALSE)
=============================================================================

------------------------------ MODULE HttpText ------------------------------
(***************************************************************************)
(* The conversions of libs/http/http_support.c: URL encoding and JSON      *)
(* escaping.  A text is a sequence of bytes without NUL; what is allocated *)
(* for a result may not be at hand, which changes nothing else.            *)
(***************************************************************************)
EXTENDS Bytes, SequencesExt

Unreserved == Alnum \cup {45, 95, 46, 126}    \* - _ . ~

\* Mutant: a plus sign stays one.
EncodedPlus(b) ==
  IF b \in Unreserved \cup {Plus} THEN <<b>> ELSE <<Percent, UpperHex(b \div 16), UpperHex(b % 16)>>
EncodedByte(b) ==
  IF b \in Unreserved THEN <<b>> ELSE <<Percent, UpperHex(b \div 16), UpperHex(b % 16)>>

http_url_encode(s) ==
  LET before[n \in 0..Len(s)] ==
        IF n = 0 THEN <<>> ELSE before[n - 1] \o EncodedByte(s[n])
  IN before[Len(s)]

(* Where a round of the decoding loop finds a byte in hexadecimal; the NUL  *)
(* behind the text is no digit.                                            *)
IsEncoded(s, i) ==
  i + 2 <= Len(s) /\ s[i] = Percent /\ {s[i + 1], s[i + 2]} \subseteq DOMAIN HexValue

\* One round, from at; there is none behind the end.
DecodeRound(s, r) ==
  CASE r.at > Len(s) -> r
    [] r.at <= Len(s) /\ IsEncoded(s, r.at) ->
         [at  |-> r.at + 3,
          out |-> Append(r.out, 16 * HexValue[s[r.at + 1]] + HexValue[s[r.at + 2]])]
    [] r.at <= Len(s) /\ ~IsEncoded(s, r.at) ->
         [at |-> r.at + 1, out |-> Append(r.out, IF s[r.at] = Plus THEN Space ELSE s[r.at])]

(* The bytes that are written: what %00 stands for ends the C string.      *)
http_url_decode(s) ==
  LET after[n \in 0..Len(s)] ==
        IF n = 0 THEN [at |-> 1, out |-> <<>>] ELSE DecodeRound(s, after[n - 1])
  IN after[Len(s)].out

\* Mutant: control characters without a short escape stay.
EscapedShort(b) == IF b \in ShortEscapes THEN <<Backslash, EscapeOf(b)>> ELSE <<b>>
EscapedByte(b) ==
  IF b \in ShortEscapes THEN <<Backslash, EscapeOf(b)>>
  ELSE IF b < 32 THEN <<Backslash, 117, 48, 48, LowerHex(b \div 16), LowerHex(b % 16)>>
  ELSE <<b>>

http_escape_json_string(s) == FlattenSeq([i \in DOMAIN s |-> EscapedByte(s[i])])
=============================================================================

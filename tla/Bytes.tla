------------------------------- MODULE Bytes --------------------------------
(***************************************************************************)
(* ASCII, as the helpers of libs/http and cJSON need it.                   *)
(***************************************************************************)
EXTENDS Integers, Sequences

Tab == 9
NewLine == 10
Return == 13
Space == 32
Quote == 34
Percent == 37
Star == 42
Plus == 43
Comma == 44
Slash == 47
Colon == 58
Backslash == 92
OpenArray == 91
CloseArray == 93
OpenObject == 123
CloseObject == 125

Alnum == (48..57) \cup (65..90) \cup (97..122)

HexValue == [b \in (48..57) \cup (65..70) \cup (97..102) |->
               IF b <= 57 THEN b - 48 ELSE IF b <= 70 THEN b - 55 ELSE b - 87]
UpperHex(n) == IF n < 10 THEN 48 + n ELSE 55 + n
LowerHex(n) == IF n < 10 THEN 48 + n ELSE 87 + n

(* The escapes of one letter: b, f, n, r, t, and the three characters that *)
(* stand for themselves.                                                   *)
Escapes == [e \in {98, 102, 110, 114, 116, Quote, Backslash, Slash} |->
              CASE e = 98 -> 8 [] e = 102 -> 12 [] e = 110 -> NewLine
                [] e = 114 -> Return [] e = 116 -> Tab [] OTHER -> e]
ShortEscapes == {Quote, Backslash, 8, 12, NewLine, Return, Tab}
EscapeOf(b) == CHOOSE e \in DOMAIN Escapes : Escapes[e] = b
=============================================================================

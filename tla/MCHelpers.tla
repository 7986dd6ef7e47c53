----------------------------- MODULE MCHelpers ------------------------------
(***************************************************************************)
(* The helpers on small inputs: times around the carries of struct         *)
(* timeval, texts of a few pieces, and what cJSON makes of the texts.      *)
(***************************************************************************)
EXTENDS Helpers, JSONText

DelayValues == {0, 1, 999, 1001, 2500}
StartTimes == [tv_sec : {0}, tv_usec : {0, 999, 999999}]

Member == <<Quote, 97, Quote, Colon>>
PieceValues ==
  [plain   |-> {<<b>> : b \in {1, NewLine, Space, Quote, Percent, Plus, 50, 70, Backslash, 97, 200}},
   literal |-> {<<Quote>>, <<97>>, <<Backslash, Backslash>>, <<Backslash, 110>>, <<Backslash, 117>>,
                <<48, 48, 69, 57>>, <<100, 56, 51, 100>>, <<68, 69, 48, 48>>},
   json    |-> {<<OpenArray>>, <<CloseArray>>, <<OpenObject>>, <<CloseObject>>, <<Comma>>,
                <<Space>>, Null, Member, <<Quote, Backslash, Quote, Slash, Space, Quote>>}]
PieceBounds == [plain |-> 4, literal |-> 5, json |-> 5]

-----------------------------------------------------------------------------
Fits(p, q) == ~q.outside /\ (q.ok => CString(q.mem) = CString(p.mem))
IsPrintOf(val, format, p) ==
  /\ p.ok /\ ~p.outside /\ Last(p.mem) = 0
  /\ cJSON_Parse(Front(p.mem)).val = val
  /\ \A more \in {1 - Len(p.mem), -1, 0, 4, 5} :
       LET q == cJSON_PrintPreallocated(val, Len(p.mem) + more, format)
       IN Fits(p, q) /\ (more = 5 => q.ok)
IsPrinted(r) ==
  r.ok => \A format \in BOOLEAN : IsPrintOf(r.val, format, print(r.val, 8, format, TRUE))

\* What has been parsed, and a string of any bytes, is printed, in either format,
\* to a text that is parsed to the same value; no buffer is written beyond its
\* end, neither one that grows nor one that is given, and five bytes more than the
\* text with its NUL takes are always enough, as cJSON.h:168 has it
\* (cJSON.c:485-568, 976-1066, 1234-1360).
PrintedIsParsed ==
  what \in Kinds =>
    IsPrinted(IF what = "plain" THEN Parsed(<<"string", text>>, 0) ELSE cJSON_Parse(text))

IsMinified(r, small) ==
  LET awkward == \E i \in 1..Len(text) - 2 :
                   SubSeq(text, i, i + 2) = <<Backslash, Backslash, Quote>>
  IN r.ok /\ ~awkward =>
       cJSON_Parse(small).val = r.val /\ Len(small) <= Len(text) /\ cJSON_Minify(small) = small

\* Minifying leaves a text of the same value, no longer than it was, that cannot
\* be minified further, unless the text has a backslash that is escaped before
\* a quote (cJSON.c:2860-2955).
MinifyKeepsValue ==
  what \in {"literal", "json"} => IsMinified(cJSON_Parse(text), cJSON_Minify(text))
=============================================================================

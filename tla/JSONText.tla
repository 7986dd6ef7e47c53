------------------------------ MODULE JSONText ------------------------------
(***************************************************************************)
(* The texts of cJSON (libs/json/cJSON.c): printing into a buffer that     *)
(* grows or is given, and minifying.  Left out: numbers, whose digits      *)
(* printf converts; raw items; and allocations that fail.                  *)
(***************************************************************************)
EXTENDS JSONParser

CONSTANT INT_MAX

-----------------------------------------------------------------------------
(* Printing.  A printbuffer: mem is what has been written of its length    *)
(* bytes; ok: nothing has failed; outside: a byte beyond the buffer was    *)
(* written or read.  hooks: whether cJSON_InitHooks set the allocator, so  *)
(* that there is no realloc.                                               *)

PrintBuffer(length, noalloc, format, hooks) ==
  [mem |-> <<>>, length |-> length, offset |-> 0, depth |-> 0, noalloc |-> noalloc,
   format |-> format, hooks |-> hooks, ok |-> TRUE, outside |-> FALSE]

\* Mutant: a byte less than needed is ensured.
NeededExactly(p, needed) == needed + p.offset - 1
Needed(p, needed) == needed + p.offset + 1

(* Where needed more bytes fit; else the buffer grows to twice what is     *)
(* needed, where it may.                                                   *)
ensure(p, needed) ==
  LET all     == Needed(p, needed)
      newsize == IF all > INT_MAX \div 2 THEN INT_MAX ELSE 2 * all
  IN CASE ~p.ok -> p
       [] p.ok /\ p.length > 0 /\ p.offset >= p.length -> [p EXCEPT !.ok = FALSE]
       [] p.ok /\ ~(p.length > 0 /\ p.offset >= p.length) ->
            IF needed > INT_MAX THEN [p EXCEPT !.ok = FALSE]
            ELSE IF all <= p.length THEN p
            ELSE IF p.noalloc \/ all > INT_MAX THEN [p EXCEPT !.ok = FALSE]
            ELSE [p EXCEPT !.length = newsize,
                           !.outside = @ \/ (p.hooks /\ p.offset + 1 > p.length)]

\* bytes are written where needed are ensured, and the offset goes on.
Write(p, needed, bytes, advance) ==
  LET q == ensure(p, needed)
      written == SubSeq(q.mem, 1, q.offset) \o bytes
  IN IF ~q.ok THEN q
     ELSE [q EXCEPT !.mem = written \o SubSeq(@, Len(written) + 1, Len(@)),
                    !.offset = @ + advance,
                    !.outside = @ \/ q.offset + Len(bytes) > q.length]

\* Past what was written last, which has to end with a NUL.
update_offset(p) ==
  LET i == SelectInSeq(SubSeq(p.mem, p.offset + 1, Len(p.mem)), LAMBDA b : b = 0)
  IN IF ~p.ok THEN p
     ELSE IF i = 0 THEN [p EXCEPT !.outside = TRUE] ELSE [p EXCEPT !.offset = @ + i - 1]

Escaped(b) ==
  CASE b \in ShortEscapes -> <<Backslash, EscapeOf(b)>>
    [] b < 32 /\ b \notin ShortEscapes ->
         <<Backslash, 117, 48, 48, LowerHex(b \div 16), LowerHex(b % 16)>>
    [] OTHER -> <<b>>

\* The additional bytes that escaping takes, as they are counted beforehand.
escape_characters(s) ==
  FoldLeft(LAMBDA n, b : n + IF b \in ShortEscapes THEN 1 ELSE IF b < 32 THEN 5 ELSE 0, 0, s)

QuotedText(s) == <<Quote>> \o FlattenSeq([i \in DOMAIN s |-> Escaped(s[i])]) \o <<Quote>>

print_string_ptr(s, p) ==
  Write(p, Len(s) + escape_characters(s) + 3, QuotedText(s) \o <<0>>, 0)

When(condition, bytes) == IF condition THEN bytes ELSE <<>>
Tabs(n) == [i \in 1..n |-> Tab]

RECURSIVE print_value(_, _)

print_array(v, p) ==
  LET Element(q, i) ==
        LET printed == update_offset(print_value(v[i], q))
            comma   == <<Comma>> \o When(p.format, <<Space>>)
        IN IF i = Len(v) THEN printed
           ELSE Write(printed, Len(comma) + 1, comma \o <<0>>, Len(comma))
      opened == [Write(p, 1, <<OpenArray>>, 1) EXCEPT !.depth = @ + 1]
  IN [Write(FoldLeft(Element, opened, [i \in DOMAIN v |-> i]), 2, <<CloseArray, 0>>, 0)
        EXCEPT !.depth = @ - 1]

print_object(v, p) ==
  LET Member(q, i) ==
        LET indented == IF p.format THEN Write(q, q.depth, Tabs(q.depth), q.depth) ELSE q
            named    == update_offset(print_string_ptr(v[i][1], indented))
            colon    == <<Colon>> \o When(p.format, <<Tab>>)
            printed  == update_offset(print_value(v[i][2], Write(named, Len(colon), colon, Len(colon))))
            end      == When(i < Len(v), <<Comma>>) \o When(p.format, <<NewLine>>)
        IN Write(printed, Len(end) + 1, end \o <<0>>, Len(end))
      open   == <<OpenObject>> \o When(p.format, <<NewLine>>)
      opened == [Write(p, Len(open) + 1, open, Len(open)) EXCEPT !.depth = @ + 1]
      all    == FoldLeft(Member, opened, [i \in DOMAIN v |-> i])
  IN [Write(all, IF p.format THEN all.depth + 1 ELSE 2,
            When(p.format, Tabs(all.depth - 1)) \o <<CloseObject, 0>>, 0)
        EXCEPT !.depth = @ - 1]

print_value(v, p) ==
  CASE v = <<"null">>  -> Write(p, 5, Null \o <<0>>, 0)
    [] v = <<"false">> -> Write(p, 6, False \o <<0>>, 0)
    [] v = <<"true">>  -> Write(p, 5, True \o <<0>>, 0)
    [] v[1] = "string" -> print_string_ptr(v[2], p)
    [] v[1] = "array"  -> print_array(v[2], p)
    [] v[1] = "object" -> print_object(v[2], p)

cJSON_PrintBuffered(v, prebuffer, format, hooks) ==
  print_value(v, PrintBuffer(prebuffer, FALSE, format, hooks))
cJSON_PrintPreallocated(v, length, format) ==
  print_value(v, PrintBuffer(length, TRUE, format, FALSE))

(* cJSON_Print: the buffer is cut to the text and its NUL.                 *)
print(v, default_buffer_size, format, hooks) ==
  LET p == update_offset(cJSON_PrintBuffered(v, default_buffer_size, format, hooks))
  IN [p EXCEPT !.mem = SubSeq(@, 1, p.offset + 1), !.length = p.offset + 1,
               !.outside = @ \/ p.offset + 1 > p.length]

-----------------------------------------------------------------------------
(* Minifying, in place: what is written never overtakes what is read.      *)

RECURSIVE AfterLine(_, _), AfterComment(_, _), Minified(_, _)
AfterLine(t, i) == IF At(t, i) \in {Outside, 0} THEN i
                   ELSE IF At(t, i) = NewLine THEN i + 1 ELSE AfterLine(t, i + 1)
AfterComment(t, i) == IF At(t, i) \in {Outside, 0} THEN i
                      ELSE IF At(t, i) = Star /\ At(t, i + 1) = Slash THEN i + 2
                      ELSE AfterComment(t, i + 1)

\* Mutant: an escaped quote ends the string.
RECURSIVE EndsAtAnyQuote(_, _)
EndsAtAnyQuote(t, i) ==
  CASE At(t, i) \in {Outside, 0} -> i
    [] At(t, i) = Quote -> i + 1
    [] OTHER -> EndsAtAnyQuote(t, i + 1)

(* A quote after a backslash does not end the string, also when that       *)
(* backslash is itself escaped.                                            *)
RECURSIVE minify_string(_, _)
minify_string(t, i) ==
  CASE At(t, i) \in {Outside, 0} -> i
    [] At(t, i) = Quote -> i + 1
    [] At(t, i) = Backslash -> minify_string(t, IF At(t, i + 1) = Quote THEN i + 2 ELSE i + 1)
    [] OTHER -> minify_string(t, i + 1)

Minified(t, i) ==
  LET b == At(t, i)
      end == minify_string(t, i + 1)
  IN CASE b \in {Outside, 0} -> <<>>
       [] b \in {Space, Tab, Return, NewLine} -> Minified(t, i + 1)
       [] b = Slash -> Minified(t, IF At(t, i + 1) = Slash THEN AfterLine(t, i + 2)
                                   ELSE IF At(t, i + 1) = Star THEN AfterComment(t, i + 2)
                                   ELSE i + 1)
       [] b = Quote -> SubSeq(t, i + 1, end) \o Minified(t, end)
       [] OTHER -> <<b>> \o Minified(t, i + 1)

cJSON_Minify(t) == Minified(t, 0)
=============================================================================

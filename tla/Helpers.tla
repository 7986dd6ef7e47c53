------------------------------ MODULE Helpers -------------------------------
(***************************************************************************)
(* The helpers, each in a small machine of its own: a timer that is set    *)
(* and slept for, whatever the clock shows; the growing buffer; and texts  *)
(* that grow piece by piece and are converted at every length.             *)
(***************************************************************************)
EXTENDS DynBuf, Timeval, HttpText, JSONParser, FiniteSets

CONSTANTS DelaysMs, Starts, MaxSec,     \* MaxSec: bound on the clock
          Pieces, MaxPieces             \* of the texts of each kind, and bounds on them

VARIABLES what,       \* which machine this is
          now,        \* the wall clock
          due, armed, \* the timer: when it is due, when it was set
          text, pieces

vars == <<what, now, due, armed, text, pieces, bufvars>>
times == <<now, due, armed>>

Kinds == {"plain", "literal", "json"}

\* The bytes of a C string.
Byte == 1..255

ASSUME HelpersAssumption ==
  /\ DelaysMs \subseteq 0..IntMax /\ Starts \subseteq timeval /\ MaxSec \in Nat
  /\ \A k \in Kinds : Pieces[k] \subseteq Seq(Byte) /\ MaxPieces[k] \in Nat

Init ==
  /\ what \in Kinds \cup {"times", "buffer"}
  /\ now \in (IF what = "times" THEN Starts ELSE {[tv_sec |-> 0, tv_usec |-> 0]})
  /\ due \in {Later(now, d) : d \in IF what = "times" THEN DelaysMs ELSE {0}}
  /\ armed = now
  /\ BufInit
  /\ text = (IF what = "literal" THEN <<Quote>> ELSE <<>>) /\ pieces = 0

\* A timer is set.
Set ==
  /\ what = "times"
  /\ due' \in {Later(now, d) : d \in DelaysMs} /\ armed' = now
  /\ UNCHANGED now

\* poll sleeps for its timeout, which is no timeout if it is negative, or only
\* for a moment.
Sleep ==
  /\ what = "times" /\ Timeout(due, now) >= 0
  /\ now' = Later(now, Timeout(due, now))
  /\ UNCHANGED <<due, armed>>
Wake ==
  /\ what = "times"
  /\ now' \in {[now EXCEPT !.tv_usec = u] : u \in {998999, 999999}}
  /\ now'.tv_usec > now.tv_usec
  /\ UNCHANGED <<due, armed>>

\* Somebody sets the clock back.
SetBack ==
  /\ what = "times" /\ now' \in Starts /\ Before(now', now)
  /\ UNCHANGED <<due, armed>>

Extended ==
  /\ what \in Kinds /\ pieces < MaxPieces[what]
  /\ \E piece \in Pieces[what] : text' = text \o piece
  /\ pieces' = pieces + 1

Next ==
  \/ /\ now.tv_sec < MaxSec
     /\ Set \/ Sleep \/ Wake \/ SetBack
     /\ UNCHANGED <<what, text, pieces, bufvars>>
  \/ what = "buffer" /\ BufNext /\ UNCHANGED <<what, times, text, pieces>>
  \/ Extended /\ UNCHANGED <<what, times, bufvars>>

Spec == Init /\ [][Next]_vars /\ WF_bufvars(BufReturns)

-----------------------------------------------------------------------------
\* Due times computed from any time reached are exact, timers_add and timers_check
\* compare them right, and the timeout given to poll is right as long as the clock
\* has not been set back behind the time the timer was set, however long its
\* delay; after that it is right for a timer in reach only
\* (http_support.c:5, 42, 69-82, 215-225).
TimesAreExact ==
  /\ \A d \in DelaysMs : LaterIsExact(now, d)
  /\ BeforeIsByTime(now, due) /\ BeforeIsByTime(due, now)
  /\ TimeoutIsClose(due, now) /\ TimeoutIsClose(now, due)
  /\ ~Before(now, armed) => InReach(due, now)

\* What is encoded is decoded to the same text, and neither conversion writes
\* more than was allocated, whatever it is given (http_support.c:113-163).
UrlRoundTrip ==
  what = "plain" =>
    /\ http_url_decode(http_url_encode(text)) = text
    /\ Len(http_url_encode(text)) <= 3 * Len(text)
    /\ Len(http_url_decode(text)) <= Len(text)

StandsFor(escaped, r) ==
  /\ r.ok /\ r.val = <<"string", text>>
  /\ Len(escaped) <= 6 * Len(text)
  /\ \A i \in DOMAIN escaped : escaped[i] >= Space

\* What http_escape_json_string makes of a text is a JSON string for cJSON's
\* parser, stands for that text and fits what was allocated
\* (http_support.c:165-198).
EscapedIsJSON ==
  what = "plain" =>
    LET escaped == http_escape_json_string(text)
    IN StandsFor(escaped, cJSON_Parse(<<Quote>> \o escaped \o <<Quote>>))

StaysInside(t, r) == ~r.outside /\ r.offset <= Len(t) /\ (r.ok => r.offset > 0)

\* The parser reads no byte beyond its text, with or without a NUL at the end,
\* and goes on after what it has parsed; what a string stands for fits the room
\* computed for it, of whatever escapes it is made and wherever it ends
\* (cJSON.c:832-868, 1142-1219).
ParseStaysInside ==
  what \in {"literal", "json"} =>
    \A t \in {text, text \o <<0>>}, terminated \in BOOLEAN :
      StaysInside(t, cJSON_ParseWithLengthOpts(t, terminated))
=============================================================================

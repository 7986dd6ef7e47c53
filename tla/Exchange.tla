------------------------------ MODULE Exchange ------------------------------
(***************************************************************************)
(* What one connection of the server promises its client, without buffers, *)
(* parsing or sockets: answers are spoken one at a time, each is delivered *)
(* whole and in order before the next begins, and what an answer's         *)
(* Connection header announces is what happens once it is delivered.       *)
(***************************************************************************)
EXTENDS Integers, Sequences

CONSTANT AnswerLen   \* units of an answer

VARIABLES
  phase,      \* "idle" (waiting for a request), "busy" (an answer is under way) or "closed"
  said,       \* what each answer announced: "keep-alive" or "close"
  delivered   \* units handed to the network, over all answers

vars == <<phase, said, delivered>>

Init == phase = "idle" /\ said = <<>> /\ delivered = 0

\* From now on the answers said have d of their units delivered.
Deliver(announced, d) ==
  /\ d \in 0..(AnswerLen * Len(announced))
  /\ delivered' = d
  /\ phase' = IF d < AnswerLen * Len(announced) THEN "busy"
              ELSE IF announced[Len(announced)] = "close" THEN "closed" ELSE "idle"

\* An answer begins; some of it, or all, is delivered at once.
Answer ==
  /\ phase = "idle"
  /\ \E h \in {"keep-alive", "close"} : said' = Append(said, h)
  /\ \E d \in delivered..(AnswerLen * Len(said')) : Deliver(said', d)

\* More of the answer under way is delivered.
Progress ==
  /\ phase = "busy"
  /\ \E d \in delivered..(AnswerLen * Len(said)) : Deliver(said, d)
  /\ UNCHANGED said

\* The server gives up: the client left, or memory ran out.
Hangup ==
  /\ phase # "closed" /\ phase' = "closed"
  /\ UNCHANGED <<said, delivered>>

Next == Answer \/ Progress \/ Hangup

Spec == Init /\ [][Next]_vars
=============================================================================

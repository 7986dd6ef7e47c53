---------------------------- MODULE MCConnection ----------------------------
(* Small instances of Connection for TLC. *)
EXTENDS Connection

Request(line, keep, body, route, sets, fits) ==
  [line |-> line, keep |-> keep, body |-> body, route |-> route, sets |-> sets, fits |-> fits]

\* One request of every kind the connection tells apart.
EveryKind == {
  Request("ok",  TRUE,  1, "handler",   <<500, 200>>, TRUE),
  Request("ok",  TRUE,  0, "handler",   <<200>>,      TRUE),
  Request("ok",  FALSE, 0, "handler",   <<>>,         TRUE),
  Request("ok",  TRUE,  0, "handler",   <<200>>,      FALSE),
  Request("ok",  TRUE,  0, "no_path",   <<>>,         TRUE),
  Request("ok",  FALSE, 1, "no_method", <<>>,         TRUE),
  Request("bad", FALSE, 1, "handler",   <<>>,         TRUE),
  Request("nul", TRUE,  0, "handler",   <<>>,         TRUE)}
=============================================================================

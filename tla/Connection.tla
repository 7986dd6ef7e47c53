----------------------------- MODULE Connection -----------------------------
(***************************************************************************)
(* One server connection of libs/http: struct http_conn, the whole of      *)
(* handle_conn with everything it calls (recv, parse_request, the route    *)
(* loop, queue_error_response, prepare_response, send_response) and what   *)
(* http_poll does with its result (close_conn).                            *)
(*                                                                         *)
(* The client and the kernel are the environment.  Bytes are units: part i *)
(* of request k is <<k, i>>, the units 1..HdrLen are its header block (the *)
(* last of them holds the blank line) and the rest is its body.  A         *)
(* response is RespLen units <<a, i>>, a being the number of the answer.   *)
(***************************************************************************)
EXTENDS Integers, Sequences

CONSTANTS
  Requests,     \* the requests a client may issue
  MaxRequests,  \* bound: requests issued on the connection
  MaxInFlight,  \* requests a client issues before it has read their answers
  RecvMax,      \* units that fit the 4096-byte buffer of handle_conn
  SendBuf,      \* units the socket's send buffer holds
  HdrLen,       \* units of a request's header block
  RespLen,      \* units of a response
  AllocFails    \* may an allocation fail?

\* line:  does the request line parse, or is there a NUL in it?
\* keep:  "Connection: keep-alive"?      body: its Content-Length.
\* route: what the route loop finds.
\* sets:  the status codes its handler sets, one after the other.
\* fits:  the status line of its handler is shorter than the 64 bytes and every
\*        header than the 1024 that prepare_response has for them.
RequestRecord == [line : {"ok", "bad", "nul"}, keep : BOOLEAN, body : Nat,
                  route : {"handler", "no_method", "no_path"},
                  sets : Seq(Nat), fits : BOOLEAN]

ASSUME RequestsAssumption == Requests \subseteq RequestRecord
ASSUME BoundsAssumption ==
  /\ MaxRequests \in Nat /\ MaxInFlight \in Nat \ {0}
  /\ RecvMax \in Nat \ {0} /\ SendBuf \in Nat \ {0}
  /\ HdrLen \in Nat \ {0} /\ RespLen \in Nat \ {0}
  /\ AllocFails \in BOOLEAN

VARIABLES
  asked,    \* client: the requests it issued, in order
  peer,     \* client's end: "open", "fin" (half closed) or "gone" (reset)
  inq,      \* kernel: units received and not yet read by recv
  wire,     \* kernel: every unit send ever accepted (history)
  nread,    \* client: how many units of wire it has read
  conn,     \* struct http_conn
  answers   \* the responses prepared so far (history)

vars == <<asked, peer, inq, wire, nread, conn, answers>>

Unit == Nat \X Nat

-----------------------------------------------------------------------------
(* struct http_conn; conn_hdr stands for the Connection header inside wb. *)

http_conn == [state : {"READING", "WRITING", "CLOSED"}, rb : Seq(Unit),
              header_parsed : BOOLEAN, keep_alive : BOOLEAN,
              wb : Seq(Unit), wb_sent : Nat, conn_hdr : {"keep-alive", "close"}]

\* What accept_new puts in the zeroed structure.
accept_new == [state |-> "READING", rb |-> <<>>, header_parsed |-> FALSE,
               keep_alive |-> FALSE, wb |-> <<>>, wb_sent |-> 0,
               conn_hdr |-> "close"]

Init ==
  /\ asked = <<>> /\ peer = "open" /\ inq = <<>>
  /\ wire = <<>> /\ nread = 0
  /\ conn = accept_new /\ answers = <<>>

-----------------------------------------------------------------------------
(* parse_request *)

\* find_header_end: the places in the buffer where a header block ends.
HeaderEnds(rb) == {e \in 1..Len(rb) : rb[e][2] = HdrLen}

\* The first of them, or 0.
find_header_end(rb) ==
  IF HeaderEnds(rb) = {} THEN 0
  ELSE CHOOSE e \in HeaderEnds(rb) : \A f \in HeaderEnds(rb) : e <= f

\* What parse_request_line and parse_headers read in a complete header block.
\* A block that starts at a request's first unit is that request.  After
\* pipelined bytes were thrown away the buffer may start inside a request:
\* such a block may read as anything, and is nobody's request (to = 0).
HeaderReadings(rb) ==
  IF rb[1][2] = 1 THEN {[to |-> rb[1][1], req |-> asked[rb[1][1]]]}
  ELSE [to : {0}, req : Requests]

\* The zeroed c->req of a connection that has read no request yet.
NoRequest == [line |-> "ok", keep |-> FALSE, body |-> 0, route |-> "no_path",
              sets |-> <<>>, fits |-> TRUE]

\* Each element is a result of parse_request: its return code, the connection
\* it leaves behind, and what it read.  strstr finds no end of a request line
\* with a NUL in it, which is an error and not a bad request.
parse_request(c) ==
  LET e == find_header_end(c.rb)
      Incomplete == [rc |-> "INCOMPLETE", c |-> c, to |-> 0, req |-> NoRequest]
      Parsed(h) ==
        LET k == [c EXCEPT !.keep_alive = @ \/ h.req.keep]
            Result(rc, left) == [rc |-> rc, c |-> left, to |-> h.to, req |-> h.req]
        IN IF h.req.line = "nul" THEN Result("ERROR", c)
           ELSE IF h.req.line = "bad" THEN Result("BAD_REQUEST", c)
           ELSE IF Len(c.rb) - e < h.req.body THEN Result("INCOMPLETE", k)
           ELSE Result("OK", [k EXCEPT !.header_parsed = TRUE])
  IN IF c.header_parsed
     THEN [rc : {"OK"}, c : {c}, to : {0}, req : Requests]
     ELSE IF e = 0 THEN {Incomplete}
     ELSE {Parsed(h) : h \in HeaderReadings(c.rb)}

-----------------------------------------------------------------------------
(* Responses *)

ResponseUnits(a) == [i \in 1..RespLen |-> <<a, i>>]

\* prepare_response, when it succeeds: the response is appended to wb; its
\* Connection header is the connection's keep_alive flag at this moment.
prepare_response(c) ==
  [c EXCEPT !.wb = @ \o ResponseUnits(Len(answers) + 1),
            !.conn_hdr = IF c.keep_alive THEN "keep-alive" ELSE "close",
            !.wb_sent = 0, !.state = "WRITING"]

\* Mutant: keep_alive is cleared only after the header was written.
QueueErrorClearsLate(c) == [prepare_response(c) EXCEPT !.keep_alive = FALSE]

\* queue_error_response clears keep_alive first.
queue_error_response(c) == prepare_response([c EXCEPT !.keep_alive = FALSE])

\* Does prepare_response succeed?  What queue_error_response sets always fits.
Prepares(req) == req.route = "handler" => req.fits

\* status_code of the response: a handler's is what it set last, or the 0 of
\* http_response_init when it sets none.
StatusOf(req) ==
  CASE req.route = "no_path" -> 404
    [] req.route = "no_method" -> 405
    [] OTHER -> IF req.sets = <<>> THEN 0 ELSE req.sets[Len(req.sets)]

\* The route loop of handle_conn and the response it ends in.
Routed(c, req) ==
  IF req.route = "handler" THEN prepare_response(c) ELSE queue_error_response(c)

\* History: the answer c is about to send is for request number to.
Record(c, to, status) ==
  answers' = Append(answers,
    [to |-> to, status |-> status, conn |-> c.conn_hdr])

\* close_conn.  Closing a socket whose receive queue is not empty resets the
\* connection, and the client may lose what it has not read yet.
close_conn(rest) ==
  /\ conn' = [accept_new EXCEPT !.state = "CLOSED"]
  /\ inq' = <<>>
  /\ peer' \in IF rest = <<>> THEN {peer} ELSE {peer, "gone"}

\* send_response, on connection c, with rest still to be received.  The loop
\* stops when everything is sent or the send buffer is full (EAGAIN).
Room == SendBuf - (Len(wire) - nread)
Burst(c) == LET left == Len(c.wb) - c.wb_sent IN IF left <= Room THEN left ELSE Room

\* Mutants of the reset below: header_parsed, wb, rb or the state is forgotten.
ResetForgetsHeaderParsed(c) ==
  [c EXCEPT !.rb = <<>>, !.wb = <<>>, !.wb_sent = 0, !.state = "READING"]
ResetForgetsWb(c) ==
  [c EXCEPT !.rb = <<>>, !.header_parsed = FALSE, !.wb_sent = 0, !.state = "READING"]
ResetForgetsRb(c) ==
  [c EXCEPT !.header_parsed = FALSE, !.wb = <<>>, !.wb_sent = 0, !.state = "READING"]
ResetForgetsState(c) ==
  [c EXCEPT !.rb = <<>>, !.header_parsed = FALSE, !.wb = <<>>, !.wb_sent = 0]

\* The reset after a response on a keep-alive connection: rb is dropped with
\* everything in it, keep_alive stays as it is.
Reset(c) == [c EXCEPT !.rb = <<>>, !.header_parsed = FALSE,
                      !.wb = <<>>, !.wb_sent = 0, !.state = "READING"]

send_response(c, rest) ==
  \/ /\ peer = "gone"                                      \* send() fails
     /\ close_conn(rest) /\ UNCHANGED wire
  \/ /\ peer # "gone"
     /\ wire' = wire \o SubSeq(c.wb, c.wb_sent + 1, c.wb_sent + Burst(c))
     /\ LET sent == c.wb_sent + Burst(c) IN
        \/ /\ sent < Len(c.wb)
           /\ conn' = [c EXCEPT !.wb_sent = sent]
           /\ inq' = rest /\ UNCHANGED peer
        \/ /\ sent = Len(c.wb) /\ c.keep_alive
           /\ conn' = Reset(c)
           /\ inq' = rest /\ UNCHANGED peer
        \/ /\ sent = Len(c.wb) /\ ~c.keep_alive
           /\ close_conn(rest)

-----------------------------------------------------------------------------
(* handle_conn: one call for a connection in state READING or WRITING *)

\* recv returned 0 or an error.
HandleHangup ==
  /\ conn.state = "READING"
  /\ peer = "gone" \/ (peer = "fin" /\ inq = <<>>)
  /\ close_conn(<<>>)
  /\ UNCHANGED <<asked, wire, nread, answers>>

\* recv and dynbuf_append, when n units are received; what stays in the queue.
Received(n) == [conn EXCEPT !.rb = @ \o SubSeq(inq, 1, n)]
Rest(n) == SubSeq(inq, n + 1, Len(inq))

\* What handle_conn does with a result of parse_request.  An error, and a response
\* that cannot be prepared, closes the connection without an answer; a 400 is
\* only queued here, any other response falls through into send_response.
Respond(p, rest) ==
  \/ /\ p.rc = "ERROR" \/ (p.rc = "OK" /\ ~Prepares(p.req))
     /\ close_conn(rest)
     /\ UNCHANGED <<wire, answers>>
  \/ /\ p.rc = "INCOMPLETE"
     /\ conn' = p.c /\ inq' = rest
     /\ UNCHANGED <<peer, wire, answers>>
  \/ /\ p.rc = "BAD_REQUEST"
     /\ LET w == queue_error_response(p.c) IN
        /\ Record(w, p.to, 400)
        /\ conn' = w /\ inq' = rest
     /\ UNCHANGED <<peer, wire>>
  \/ /\ p.rc = "OK" /\ Prepares(p.req)
     /\ LET w == Routed(p.c, p.req) IN
        /\ Record(w, p.to, StatusOf(p.req))
        /\ send_response(w, rest)

\* recv returned n units (what has arrived by then, at most RecvMax).
HandleRead ==
  /\ conn.state = "READING" /\ peer # "gone" /\ inq # <<>>
  /\ \E n \in 1..Len(inq) :
       /\ n <= RecvMax
       /\ \/ AllocFails /\ close_conn(Rest(n)) /\ UNCHANGED <<wire, answers>>
          \/ \E p \in parse_request(Received(n)) : Respond(p, Rest(n))
  /\ UNCHANGED <<asked, nread>>

HandleWrite ==
  /\ conn.state = "WRITING"
  /\ Room > 0 \/ peer = "gone"                             \* POLLOUT
  /\ send_response(conn, inq)
  /\ UNCHANGED <<asked, nread, answers>>

-----------------------------------------------------------------------------
(* The client and the network *)

AnswersRead == nread \div RespLen
SawClose == \E a \in 1..Len(answers) :
              answers[a].conn = "close" /\ nread > (a - 1) * RespLen

\* The client issues a request, unless it was told that the server closes.
ClientSend ==
  /\ peer = "open" /\ conn.state # "CLOSED" /\ ~SawClose
  /\ Len(asked) < MaxRequests
  /\ Len(asked) < AnswersRead + MaxInFlight
  /\ \E r \in Requests :
       /\ asked' = Append(asked, r)
       /\ inq' = inq \o [i \in 1..(HdrLen + r.body) |-> <<Len(asked) + 1, i>>]
  /\ UNCHANGED <<peer, wire, nread, conn, answers>>

ClientRead ==
  /\ peer # "gone" /\ nread < Len(wire)
  /\ nread' = nread + 1
  /\ UNCHANGED <<asked, peer, inq, wire, conn, answers>>

\* The client half closes, perhaps before its last request is complete.
ClientShutdown ==
  /\ peer = "open" /\ conn.state # "CLOSED"
  /\ peer' = "fin"
  /\ \E n \in 0..Len(inq) : inq' = SubSeq(inq, 1, n)
  /\ UNCHANGED <<asked, wire, nread, conn, answers>>

\* The connection is reset; what was received is lost.
ClientVanish ==
  /\ peer # "gone" /\ conn.state # "CLOSED"
  /\ peer' = "gone" /\ inq' = <<>>
  /\ UNCHANGED <<asked, wire, nread, conn, answers>>

Server == HandleHangup \/ HandleRead \/ HandleWrite
Client == ClientSend \/ ClientRead \/ ClientShutdown \/ ClientVanish
Next == Server \/ Client

Spec == Init /\ [][Next]_vars

\* The server goes on with what is ready, and the client reads what it is sent.
FairSpec == Spec /\ WF_vars(Server) /\ WF_vars(ClientRead)

-----------------------------------------------------------------------------
(* Properties *)

AnswerRecord == [to : Nat, status : Nat, conn : {"keep-alive", "close"}]

\* Types of every variable.
TypeOK ==
  /\ asked \in Seq(Requests)
  /\ peer \in {"open", "fin", "gone"}
  /\ inq \in Seq(Unit) /\ wire \in Seq(Unit) /\ nread \in Nat
  /\ conn \in http_conn /\ answers \in Seq(AnswerRecord)

\* Between two calls of handle_conn a connection that reads is clean (nothing
\* of the last response is left, and parse_request will really parse: its
\* early return at http_parser.c:139 is not reachable), and one that writes
\* has something left to write, so that waiting for POLLOUT makes sense.
CleanBetweenCalls ==
  /\ conn.state = "READING" => conn.wb = <<>> /\ conn.wb_sent = 0 /\ ~conn.header_parsed
  /\ conn.state = "WRITING" => conn.wb_sent < Len(conn.wb)

\* Only the last answer of a connection announces "close", and as long as the
\* connection lives the flag that decides about closing still agrees with what
\* the last answer announced.
OnlyTheLastCloses ==
  /\ \A a \in 1..(Len(answers) - 1) : answers[a].conn = "keep-alive"
  /\ conn.state = "READING" /\ answers # <<>> =>
       conn.keep_alive /\ answers[Len(answers)].conn = "keep-alive"
  /\ conn.state = "WRITING" =>
       answers # <<>> /\ (conn.keep_alive <=> answers[Len(answers)].conn = "keep-alive")

\* The units of the responses reach the network in order, none twice and none
\* left out, however send() splits them (wb_sent, http_response.c:16).
StreamInOrder ==
  \A j \in 1..Len(wire) :
    wire[j] = IF j = 1 THEN <<1, 1>>
              ELSE IF wire[j - 1][2] < RespLen THEN <<wire[j - 1][1], wire[j - 1][2] + 1>>
              ELSE <<wire[j - 1][1] + 1, 1>>

\* No request is answered twice and none before an earlier one, even for a
\* client that pipelines; the answers to nobody's request (to = 0) aside.
AnsweredInOrder ==
  \A a, b \in 1..Len(answers) :
    a < b /\ answers[a].to # 0 /\ answers[b].to # 0 => answers[a].to < answers[b].to

\* Can the request be answered?  Not one with a NUL in its request line, and not
\* one whose handler leaves a response that does not fit.
Answerable(req) == req.line = "bad" \/ (req.line = "ok" /\ Prepares(req))

\* Does status s answer the request?
Answers(s, req) ==
  \/ req.line = "bad" /\ s = 400
  \/ req.line = "ok" /\ req.route = "no_path" /\ s = 404
  \/ req.line = "ok" /\ req.route = "no_method" /\ s = 405
  \/ req.line = "ok" /\ req.route = "handler" /\ req.sets = <<>> /\ s = 0
  \/ /\ req.line = "ok" /\ req.route = "handler" /\ req.sets # <<>>
     /\ s = req.sets[Len(req.sets)]

\* For a client that waits for each answer, answer number k is to request k,
\* a request that can be answered, and has the status of that request: 400,
\* 404, 405 or what its handler set last (0 if it set none, see README.md).
EachAnswerIsToItsRequest ==
  \A k \in 1..Len(answers) :
    /\ k <= Len(asked) /\ answers[k].to = k
    /\ Answerable(asked[k]) /\ Answers(answers[k].status, asked[k])

\* The last answer announced the close and was handed to the network whole.
ClosesAfterLast ==
  /\ answers' # <<>> /\ answers'[Len(answers')].conn = "close"
  /\ Len(wire') = RespLen * Len(answers')

\* What comes next is a request that cannot be answered, or the inside of one
\* whose beginning was thrown away, which may read as such a request.
NextIsUnanswerable ==
  LET u == (conn.rb \o inq)[1] IN u[2] = 1 => ~Answerable(asked[u[1]])

\* That is what closes the connection, after every answer was handed over whole.
ClosesOnUnanswerable ==
  /\ conn.state = "READING" /\ NextIsUnanswerable
  /\ answers' = answers /\ Len(wire') = RespLen * Len(answers')

\* The server does not close a connection of a client that is still there
\* unless the last answer announced it and was handed to the network whole, or
\* the request it reads cannot be answered (then the client gets nothing,
\* http.c:325-328, 369-372), or memory ran out.
CloseOnlyWhenAnnounced ==
  [][conn.state # "CLOSED" /\ conn'.state = "CLOSED" /\ peer = "open" /\ ~AllocFails =>
       ClosesAfterLast \/ ClosesOnUnanswerable]_vars

\* The connection implements the exchange of Exchange.tla.
Promise == INSTANCE Exchange WITH
  AnswerLen <- RespLen,
  phase <- CASE conn.state = "READING" -> "idle"
             [] conn.state = "WRITING" -> "busy"
             [] OTHER -> "closed",
  said <- [a \in 1..Len(answers) |-> answers[a].conn],
  delivered <- Len(wire)
ImplementsExchange == Promise!Spec

\* README.md:258-259: the header is "close" unless the request was recognised as
\* keep-alive.  (Violated: keep_alive is set by http_parser.c:180 and never
\* cleared between the requests of a connection.)
CloseUnlessAsked ==
  \A k \in 1..Len(answers) : answers[k].conn = "keep-alive" => asked[answers[k].to].keep

\* Every request of a client that waits for its answers is answered, and the
\* client reads the answer to its end, unless it half closes or disappears; one
\* that cannot be answered does not leave it waiting: the connection is closed.
EveryRequestIsAnswered ==
  \A k \in 1..MaxRequests :
    Len(asked) >= k ~>
      \/ peer # "open"
      \/ /\ Len(asked) >= k
         /\ IF Answerable(asked[k]) THEN AnswersRead >= k ELSE conn.state = "CLOSED"
=============================================================================

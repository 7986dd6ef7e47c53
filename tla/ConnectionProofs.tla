-------------------------- MODULE ConnectionProofs --------------------------
(* Proofs about Connection, for every value of its constants. *)
EXTENDS Connection, Induction, SequenceTheorems, TLAPS

\* Whatever the server has received was issued by the client: a unit's first
\* component is the number of a request.
FromClient(s) == \A i \in 1..Len(s) : s[i][1] \in 1..Len(asked)
ReceivedWasAsked == FromClient(inq) /\ FromClient(conn.rb)

\* What the client has read was sent, and the rest fits the send buffer.
SendBufferBounded == nread <= Len(wire) /\ Len(wire) - nread <= SendBuf

\* The inductive invariant.
IInv == /\ TypeOK /\ ReceivedWasAsked /\ SendBufferBounded
        /\ CleanBetweenCalls /\ OnlyTheLastCloses

-----------------------------------------------------------------------------
(* Sequences *)

\* The length of two sequences.
LEMMA JoinLength ==
  ASSUME NEW S, NEW a \in Seq(S), NEW b \in Seq(S)
  PROVE  a \o b \in Seq(S) /\ Len(a \o b) = Len(a) + Len(b)
OBVIOUS

\* The length of a part of a sequence.
LEMMA PartLength ==
  ASSUME NEW S, NEW s \in Seq(S), NEW m \in 1..(Len(s) + 1), NEW n \in 0..Len(s), m <= n + 1
  PROVE  SubSeq(s, m, n) \in Seq(S) /\ Len(SubSeq(s, m, n)) = n - m + 1
OBVIOUS

\* A part of a sequence, as far as SubSeq is used here, is a sequence whose
\* elements are elements of the whole.
LEMMA PartOf ==
  ASSUME NEW S, NEW s \in Seq(S), NEW m \in 1..(Len(s) + 1), NEW n \in 0..Len(s)
  PROVE  /\ SubSeq(s, m, n) \in Seq(S)
         /\ \A i \in 1..Len(SubSeq(s, m, n)) :
              \E j \in 1..Len(s) : SubSeq(s, m, n)[i] = s[j]
OBVIOUS

LEMMA Joined ==
  ASSUME NEW S, NEW s \in Seq(S), NEW t \in Seq(S)
  PROVE  /\ s \o t \in Seq(S) /\ Len(s \o t) = Len(s) + Len(t)
         /\ \A i \in 1..Len(s \o t) :
              (s \o t)[i] = IF i <= Len(s) THEN s[i] ELSE t[i - Len(s)]
OBVIOUS

\* The same, with names for the lengths.
LEMMA JoinedUnits ==
  ASSUME NEW s \in Seq(Unit), NEW t \in Seq(Unit),
         NEW l \in Nat, l = Len(s), NEW m \in Nat, m = Len(t)
  PROVE  /\ s \o t \in Seq(Unit) /\ Len(s \o t) = l + m
         /\ \A i \in 1..(l + m) : (s \o t)[i] = IF i <= l THEN s[i] ELSE t[i - l]
<1>1. /\ s \o t \in Seq(Unit) /\ Len(s \o t) = Len(s) + Len(t)
      /\ \A i \in 1..Len(s \o t) :
           (s \o t)[i] = IF i <= Len(s) THEN s[i] ELSE t[i - Len(s)]
  BY Joined
<1> QED BY <1>1

\* A response is RespLen units.
LEMMA ResponseType ==
  ASSUME NEW a \in Nat
  PROVE  ResponseUnits(a) \in Seq(Unit) /\ Len(ResponseUnits(a)) = RespLen
BY BoundsAssumption DEF ResponseUnits, Unit

-----------------------------------------------------------------------------
(* The operators handle_conn is built from *)

\* A connection that reads and whose buffer holds only what the client sent.
Reading(c) == /\ c \in http_conn /\ c.state = "READING" /\ FromClient(c.rb)
              /\ c.wb = <<>> /\ c.wb_sent = 0 /\ ~c.header_parsed

\* What a header block reads as is a request the client may issue.
LEMMA HeaderReadingType ==
  ASSUME TypeOK, NEW c \in http_conn, FromClient(c.rb), find_header_end(c.rb) # 0,
         NEW h \in HeaderReadings(c.rb)
  PROVE  h.to \in Nat /\ h.req \in Requests
<1>1. c.rb \in Seq(Unit) /\ Len(c.rb) >= 1
  BY DEF http_conn, find_header_end, HeaderEnds
<1>2. c.rb[1] \in Unit /\ c.rb[1][1] \in 1..Len(asked)
  BY <1>1 DEF FromClient
<1>3. CASE c.rb[1][2] = 1
  <2>1. h = [to |-> c.rb[1][1], req |-> asked[c.rb[1][1]]]
    BY <1>3 DEF HeaderReadings
  <2> QED BY <1>2, <2>1 DEF TypeOK
<1>4. CASE c.rb[1][2] # 1
  BY <1>4 DEF HeaderReadings
<1> QED BY <1>3, <1>4

\* parse_request leaves a reading connection reading, with nothing to write; it
\* touches header_parsed only when the request is complete.
LEMMA ParseRequest ==
  ASSUME TypeOK, NEW c, Reading(c), NEW p \in parse_request(c)
  PROVE  /\ p.rc \in {"INCOMPLETE", "ERROR", "BAD_REQUEST", "OK"} /\ p.to \in Nat
         /\ p.req \in RequestRecord
         /\ p.c \in http_conn /\ p.c.state = "READING"
         /\ p.c.rb = c.rb /\ p.c.wb = <<>> /\ p.c.wb_sent = 0
         /\ p.rc = "INCOMPLETE" => ~p.c.header_parsed
         /\ c.keep_alive => p.c.keep_alive
<1> USE DEF Reading
<1>1. CASE find_header_end(c.rb) = 0
  <2>1. p = [rc |-> "INCOMPLETE", c |-> c, to |-> 0, req |-> NoRequest]
    BY <1>1 DEF parse_request
  <2>2. NoRequest \in RequestRecord
    <3>1. <<>> \in Seq(Nat)
      OBVIOUS
    <3> QED BY <3>1 DEF NoRequest, RequestRecord
  <2> QED BY <2>1, <2>2
<1>2. CASE find_header_end(c.rb) # 0
  <2>1. PICK h \in HeaderReadings(c.rb) :
          p = LET k == [c EXCEPT !.keep_alive = @ \/ h.req.keep]
                  Result(rc, left) == [rc |-> rc, c |-> left, to |-> h.to, req |-> h.req]
              IN IF h.req.line = "nul" THEN Result("ERROR", c)
                 ELSE IF h.req.line = "bad" THEN Result("BAD_REQUEST", c)
                 ELSE IF Len(c.rb) - find_header_end(c.rb) < h.req.body THEN Result("INCOMPLETE", k)
                 ELSE Result("OK", [k EXCEPT !.header_parsed = TRUE])
    BY <1>2 DEF parse_request
  <2>2. h.to \in Nat /\ h.req \in RequestRecord
    BY <1>2, HeaderReadingType, RequestsAssumption
  <2>3. h.req.keep \in BOOLEAN
    BY <2>2 DEF RequestRecord
  <2> QED BY <2>1, <2>2, <2>3 DEF http_conn
<1> QED BY <1>1, <1>2

\* What a response's status is.
LEMMA StatusType ==
  ASSUME NEW r \in RequestRecord
  PROVE  StatusOf(r) \in Nat
<1>1. r.sets \in Seq(Nat)
  BY DEF RequestRecord
<1>2. r.sets # <<>> => r.sets[Len(r.sets)] \in Nat
  BY <1>1
<1> QED BY <1>2 DEF StatusOf

\* A prepared response is waiting to be written, and its header agrees with
\* the flag that decides about closing.
LEMMA PrepareResponse ==
  ASSUME TypeOK, NEW c \in http_conn, c.wb = <<>>
  PROVE  LET w == prepare_response(c) IN
         /\ w \in http_conn /\ w.state = "WRITING" /\ w.rb = c.rb
         /\ w.wb = ResponseUnits(Len(answers) + 1) /\ Len(w.wb) = RespLen
         /\ w.wb_sent = 0 /\ w.keep_alive = c.keep_alive
         /\ w.conn_hdr = IF w.keep_alive THEN "keep-alive" ELSE "close"
<1>1. Len(answers) + 1 \in Nat
  BY DEF TypeOK
<1>2. /\ ResponseUnits(Len(answers) + 1) \in Seq(Unit)
      /\ Len(ResponseUnits(Len(answers) + 1)) = RespLen
  BY <1>1, ResponseType
<1>3. <<>> \o ResponseUnits(Len(answers) + 1) = ResponseUnits(Len(answers) + 1)
  BY <1>2
<1> QED BY <1>2, <1>3 DEF prepare_response, http_conn

LEMMA QueueErrorResponse ==
  ASSUME TypeOK, NEW c \in http_conn, c.wb = <<>>
  PROVE  LET w == queue_error_response(c) IN
         /\ w \in http_conn /\ w.state = "WRITING" /\ w.rb = c.rb
         /\ w.wb = ResponseUnits(Len(answers) + 1) /\ Len(w.wb) = RespLen
         /\ w.wb_sent = 0 /\ ~w.keep_alive /\ w.conn_hdr = "close"
<1> DEFINE d == [c EXCEPT !.keep_alive = FALSE]
<1>1. d \in http_conn /\ d.wb = <<>> /\ d.rb = c.rb /\ ~d.keep_alive
  BY DEF http_conn
<1> HIDE DEF d
<1>2. /\ prepare_response(d) \in http_conn /\ prepare_response(d).state = "WRITING"
      /\ prepare_response(d).rb = d.rb /\ prepare_response(d).wb_sent = 0
      /\ prepare_response(d).wb = ResponseUnits(Len(answers) + 1)
      /\ Len(prepare_response(d).wb) = RespLen
      /\ prepare_response(d).keep_alive = d.keep_alive
      /\ prepare_response(d).conn_hdr = "close"
  BY <1>1, PrepareResponse
<1> QED BY <1>1, <1>2 DEF d, queue_error_response

-----------------------------------------------------------------------------
(* close_conn and send_response *)

\* What a call of handle_conn that ends in close_conn or send_response leaves.
Settled(keep_alive) ==
  /\ conn' \in http_conn /\ peer' \in {"open", "fin", "gone"}
  /\ inq' \in Seq(Unit) /\ wire' \in Seq(Unit)
  /\ FromClient(inq') /\ FromClient(conn'.rb)
  /\ nread <= Len(wire') /\ Len(wire') - nread <= SendBuf
  /\ conn'.state = "READING" =>
       conn'.wb = <<>> /\ conn'.wb_sent = 0 /\ ~conn'.header_parsed /\ conn'.keep_alive /\ keep_alive
  /\ conn'.state = "WRITING" =>
       conn'.wb_sent < Len(conn'.wb) /\ conn'.keep_alive = keep_alive

LEMMA CloseConn ==
  ASSUME TypeOK, NEW rest, close_conn(rest)
  PROVE  /\ conn' \in http_conn /\ conn'.state = "CLOSED" /\ conn'.rb = <<>>
         /\ inq' = <<>> /\ peer' \in {"open", "fin", "gone"}
<1>1. accept_new \in http_conn
  BY DEF accept_new, http_conn
<1>2. conn' = [accept_new EXCEPT !.state = "CLOSED"] /\ inq' = <<>> /\ peer' \in {peer, "gone"}
  BY DEF close_conn
<1>3. conn' \in http_conn /\ conn'.state = "CLOSED" /\ conn'.rb = <<>>
  BY <1>1, <1>2 DEF accept_new, http_conn
<1> QED BY <1>2, <1>3 DEF TypeOK

LEMMA SendResponse ==
  ASSUME TypeOK, SendBufferBounded,
         NEW c \in http_conn, c.state = "WRITING", c.wb_sent < Len(c.wb), FromClient(c.rb),
         NEW rest \in Seq(Unit), FromClient(rest), send_response(c, rest)
  PROVE  Settled(c.keep_alive)
<1>1. Room \in 0..SendBuf
  BY BoundsAssumption DEF Room, TypeOK, SendBufferBounded
<1>2. /\ Burst(c) \in 0..Room /\ c.wb_sent + Burst(c) \in 0..Len(c.wb)
      /\ c.wb \in Seq(Unit) /\ c.wb_sent \in Nat
  BY <1>1 DEF Burst, http_conn
<1> DEFINE part == SubSeq(c.wb, c.wb_sent + 1, c.wb_sent + Burst(c))
<1>3. part \in Seq(Unit) /\ Len(part) = Burst(c)
  <2> DEFINE m == c.wb_sent + 1
             n == c.wb_sent + Burst(c)
  <2>1. c.wb \in Seq(Unit) /\ m \in 1..(Len(c.wb) + 1) /\ n \in 0..Len(c.wb)
    BY <1>2
  <2>2. n - m + 1 = Burst(c) /\ m <= n + 1
    BY <1>1, <1>2
  <2> HIDE DEF m, n
  <2>3. SubSeq(c.wb, m, n) \in Seq(Unit) /\ Len(SubSeq(c.wb, m, n)) = n - m + 1
    BY <2>1, <2>2, PartLength
  <2> QED BY <2>2, <2>3 DEF m, n
<1> HIDE DEF part
<1>4. wire \o part \in Seq(Unit) /\ Len(wire \o part) = Len(wire) + Burst(c)
  <2>1. wire \in Seq(Unit)
    BY DEF TypeOK
  <2>2. wire \o part \in Seq(Unit) /\ Len(wire \o part) = Len(wire) + Len(part)
    BY <1>3, <2>1, JoinLength
  <2> QED BY <1>3, <2>2
<1>5. nread <= Len(wire \o part) /\ Len(wire \o part) - nread <= SendBuf
  <2>1. Len(wire) \in Nat /\ nread \in Nat /\ SendBuf \in Nat
    BY BoundsAssumption DEF TypeOK
  <2>2. Burst(c) \in Nat /\ Burst(c) <= SendBuf - (Len(wire) - nread)
    BY <1>1, <1>2 DEF Room
  <2> QED BY <1>4, <2>1, <2>2 DEF SendBufferBounded
<1>6. \/ wire' = wire
      \/ wire' = wire \o part
  BY DEF send_response, part
<1>7. wire' \in Seq(Unit) /\ nread <= Len(wire') /\ Len(wire') - nread <= SendBuf
  BY <1>4, <1>5, <1>6 DEF TypeOK, SendBufferBounded
<1>8. CASE close_conn(rest)
  <2>1. /\ conn' \in http_conn /\ conn'.state = "CLOSED" /\ conn'.rb = <<>>
        /\ inq' = <<>> /\ peer' \in {"open", "fin", "gone"}
    BY <1>8, CloseConn
  <2>2. inq' \in Seq(Unit) /\ FromClient(inq') /\ FromClient(conn'.rb)
    BY <2>1 DEF FromClient
  <2> QED BY <1>7, <2>1, <2>2 DEF Settled
<1>9. CASE /\ c.wb_sent + Burst(c) < Len(c.wb)
           /\ conn' = [c EXCEPT !.wb_sent = c.wb_sent + Burst(c)]
           /\ inq' = rest /\ UNCHANGED peer
  <2>1. /\ conn' \in http_conn /\ conn'.state = "WRITING" /\ conn'.rb = c.rb
        /\ conn'.wb_sent < Len(conn'.wb) /\ conn'.keep_alive = c.keep_alive
    BY <1>2, <1>9, SMTT(30) DEF http_conn
  <2>2. FromClient(inq') /\ inq' \in Seq(Unit) /\ FromClient(conn'.rb)
    BY <1>9, <2>1
  <2> QED BY <1>7, <1>9, <2>1, <2>2 DEF Settled, TypeOK
<1>10. CASE /\ c.keep_alive /\ conn' = Reset(c) /\ inq' = rest /\ UNCHANGED peer
  <2>1. /\ conn' \in http_conn /\ conn'.state = "READING" /\ conn'.rb = <<>>
        /\ conn'.wb = <<>> /\ conn'.wb_sent = 0 /\ ~conn'.header_parsed
        /\ conn'.keep_alive
    <3>1. c = [state |-> c.state, rb |-> c.rb, header_parsed |-> c.header_parsed,
               keep_alive |-> c.keep_alive, wb |-> c.wb, wb_sent |-> c.wb_sent,
               conn_hdr |-> c.conn_hdr]
      BY DEF http_conn
    <3>2. conn' = [state |-> "READING", rb |-> <<>>, header_parsed |-> FALSE,
                   keep_alive |-> c.keep_alive, wb |-> <<>>, wb_sent |-> 0,
                   conn_hdr |-> c.conn_hdr]
      BY <1>10, <3>1, Zenon DEF Reset
    <3> QED BY <1>10, <3>2 DEF http_conn
  <2>2. FromClient(conn'.rb)
    BY <2>1 DEF FromClient
  <2> QED BY <1>7, <1>10, <2>1, <2>2 DEF Settled, TypeOK
<1> QED BY <1>8, <1>9, <1>10 DEF send_response

-----------------------------------------------------------------------------
(* The invariant is inductive *)

LEMMA InitIsGood == Init => IInv
<1> SUFFICES ASSUME Init PROVE IInv
  OBVIOUS
<1>1. conn \in http_conn /\ conn.state = "READING" /\ conn.rb = <<>>
      /\ conn.wb = <<>> /\ conn.wb_sent = 0 /\ conn.header_parsed = FALSE
  BY DEF Init, accept_new, http_conn
<1>2. TypeOK /\ SendBufferBounded
  BY <1>1, BoundsAssumption DEF Init, TypeOK, SendBufferBounded
<1>3. ReceivedWasAsked
  BY <1>1 DEF Init, ReceivedWasAsked, FromClient
<1>4. CleanBetweenCalls
  BY <1>1 DEF CleanBetweenCalls
<1>5. OnlyTheLastCloses
  BY <1>1 DEF Init, OnlyTheLastCloses
<1> QED BY <1>2, <1>3, <1>4, <1>5 DEF IInv

\* A step that answers: the connection was reading, a response with header
\* hdr was recorded, and it was prepared under the same flag.
LEMMA AnswerRecorded ==
  ASSUME IInv, conn.state = "READING",
         NEW w \in http_conn, NEW to \in Nat, NEW status \in Nat,
         w.conn_hdr = (IF w.keep_alive THEN "keep-alive" ELSE "close"),
         Record(w, to, status)
  PROVE  /\ answers' \in Seq(AnswerRecord) /\ answers' # <<>>
         /\ \A a \in 1..(Len(answers') - 1) : answers'[a].conn = "keep-alive"
         /\ w.keep_alive <=> answers'[Len(answers')].conn = "keep-alive"
<1> DEFINE new == [to |-> to, status |-> status, conn |-> w.conn_hdr]
<1>1. new \in AnswerRecord /\ new.conn = w.conn_hdr
  BY DEF AnswerRecord, http_conn
<1>2. answers \in Seq(AnswerRecord) /\ answers' = Append(answers, new)
  BY DEF IInv, TypeOK, Record
<1>3. \A a \in 1..Len(answers) : answers[a].conn = "keep-alive"
  <2> SUFFICES ASSUME NEW a \in 1..Len(answers) PROVE answers[a].conn = "keep-alive"
    OBVIOUS
  <2>1. CASE a = Len(answers)
    BY <1>2, <2>1 DEF IInv, OnlyTheLastCloses
  <2>2. CASE a # Len(answers)
    BY <1>2, <2>2 DEF IInv, OnlyTheLastCloses
  <2> QED BY <2>1, <2>2
<1> HIDE DEF new
<1>4. /\ answers' \in Seq(AnswerRecord) /\ Len(answers') = Len(answers) + 1
      /\ answers'[Len(answers')] = new
      /\ \A a \in 1..Len(answers) : answers'[a] = answers[a]
  BY <1>1, <1>2
<1>5. answers' # <<>> /\ \A a \in 1..(Len(answers') - 1) : answers'[a].conn = "keep-alive"
  BY <1>2, <1>3, <1>4
<1>6. w.keep_alive <=> w.conn_hdr = "keep-alive"
  OBVIOUS
<1> QED BY <1>1, <1>4, <1>5, <1>6

\* A call that ends settled, with the answers it leaves, preserves the invariant.
LEMMA SettledIsGood ==
  ASSUME IInv, NEW keep_alive, Settled(keep_alive), UNCHANGED <<asked, nread>>,
         answers' \in Seq(AnswerRecord),
         answers' # <<>>,
         \A a \in 1..(Len(answers') - 1) : answers'[a].conn = "keep-alive",
         keep_alive <=> answers'[Len(answers')].conn = "keep-alive"
  PROVE  IInv'
<1>1. TypeOK'
  BY DEF Settled, IInv, TypeOK
<1>2. ReceivedWasAsked'
  BY DEF Settled, ReceivedWasAsked, FromClient
<1>3. SendBufferBounded'
  BY DEF Settled, SendBufferBounded
<1>4. CleanBetweenCalls'
  BY DEF Settled, CleanBetweenCalls
<1>5. OnlyTheLastCloses'
  BY DEF Settled, OnlyTheLastCloses
<1> QED BY <1>1, <1>2, <1>3, <1>4, <1>5 DEF IInv

\* A step that only closes the connection preserves the invariant.
LEMMA ClosedIsGood ==
  ASSUME IInv, NEW rest, close_conn(rest), UNCHANGED <<asked, wire, nread, answers>>
  PROVE  IInv'
<1>1. /\ conn' \in http_conn /\ conn'.state = "CLOSED" /\ conn'.rb = <<>>
      /\ inq' = <<>> /\ peer' \in {"open", "fin", "gone"}
  BY CloseConn DEF IInv
<1>2. TypeOK'
  BY <1>1 DEF IInv, TypeOK
<1>3. ReceivedWasAsked'
  BY <1>1 DEF ReceivedWasAsked, FromClient
<1>4. SendBufferBounded'
  BY DEF IInv, SendBufferBounded
<1>5. CleanBetweenCalls'
  BY <1>1 DEF CleanBetweenCalls
<1>6. OnlyTheLastCloses'
  BY <1>1 DEF IInv, OnlyTheLastCloses
<1> QED BY <1>2, <1>3, <1>4, <1>5, <1>6 DEF IInv

\* What recv and dynbuf_append leave, in the buffer and in the queue.
LEMMA ReceivedType ==
  ASSUME IInv, conn.state = "READING", NEW n \in 1..Len(inq)
  PROVE  /\ Reading(Received(n)) /\ Received(n).keep_alive = conn.keep_alive
         /\ Rest(n) \in Seq(Unit) /\ FromClient(Rest(n))
<1> DEFINE got == SubSeq(inq, 1, n)
<1>1. /\ conn \in http_conn /\ conn.rb \in Seq(Unit) /\ inq \in Seq(Unit)
      /\ FromClient(inq) /\ FromClient(conn.rb)
      /\ conn.wb = <<>> /\ conn.wb_sent = 0 /\ ~conn.header_parsed
  BY DEF IInv, TypeOK, http_conn, ReceivedWasAsked, CleanBetweenCalls
<1>2. /\ got \in Seq(Unit) /\ \A i \in 1..Len(got) : \E j \in 1..Len(inq) : got[i] = inq[j]
      /\ Rest(n) \in Seq(Unit) /\ \A i \in 1..Len(Rest(n)) : \E j \in 1..Len(inq) : Rest(n)[i] = inq[j]
  <2>1. 1 \in 1..(Len(inq) + 1) /\ n + 1 \in 1..(Len(inq) + 1) /\ n \in 0..Len(inq) /\ Len(inq) \in 0..Len(inq)
    BY <1>1
  <2>2. got \in Seq(Unit) /\ \A i \in 1..Len(got) : \E j \in 1..Len(inq) : got[i] = inq[j]
    BY <1>1, <2>1, PartOf
  <2>3. Rest(n) \in Seq(Unit) /\ \A i \in 1..Len(Rest(n)) : \E j \in 1..Len(inq) : Rest(n)[i] = inq[j]
    BY <1>1, <2>1, PartOf DEF Rest
  <2> QED BY <2>2, <2>3
<1>3. FromClient(got) /\ FromClient(Rest(n))
  BY <1>1, <1>2 DEF FromClient
<1> HIDE DEF got
<1>4. conn.rb \o got \in Seq(Unit) /\ FromClient(conn.rb \o got)
  BY <1>1, <1>2, <1>3, Joined DEF FromClient
<1>5. Received(n) = [conn EXCEPT !.rb = conn.rb \o got]
  BY DEF Received, got
<1> QED BY <1>1, <1>2, <1>3, <1>4, <1>5 DEF Reading, http_conn

\* Each way handle_conn goes on after parse_request preserves the invariant.
LEMMA RespondIsGood ==
  ASSUME IInv, conn.state = "READING", NEW c, Reading(c), c.keep_alive = conn.keep_alive,
         NEW p \in parse_request(c), NEW rest \in Seq(Unit), FromClient(rest),
         Respond(p, rest), UNCHANGED <<asked, nread>>
  PROVE  IInv'
<1>1. /\ p.rc \in {"INCOMPLETE", "ERROR", "BAD_REQUEST", "OK"} /\ p.to \in Nat
      /\ p.req \in RequestRecord
      /\ p.c \in http_conn /\ p.c.state = "READING"
      /\ p.c.rb = c.rb /\ p.c.wb = <<>> /\ p.c.wb_sent = 0
      /\ p.rc = "INCOMPLETE" => ~p.c.header_parsed
      /\ c.keep_alive => p.c.keep_alive
  BY ParseRequest DEF IInv
<1>2. FromClient(p.c.rb)
  BY <1>1 DEF Reading
<1>3. CASE p.rc = "INCOMPLETE"
  <2>1. conn' = p.c /\ inq' = rest /\ UNCHANGED <<peer, wire, answers>>
    BY <1>3 DEF Respond
  <2>2. TypeOK' /\ SendBufferBounded'
    BY <1>1, <2>1 DEF IInv, TypeOK, SendBufferBounded
  <2>3. ReceivedWasAsked'
    BY <1>2, <2>1 DEF ReceivedWasAsked, FromClient
  <2>4. CleanBetweenCalls'
    BY <1>1, <1>3, <2>1 DEF CleanBetweenCalls
  <2>5. OnlyTheLastCloses'
    BY <1>1, <2>1 DEF IInv, OnlyTheLastCloses
  <2> QED BY <2>2, <2>3, <2>4, <2>5 DEF IInv
<1>4. CASE p.rc = "BAD_REQUEST"
  <2> DEFINE w == queue_error_response(p.c)
  <2>1. /\ w \in http_conn /\ w.state = "WRITING" /\ w.rb = p.c.rb
        /\ w.wb_sent = 0 /\ Len(w.wb) = RespLen
        /\ ~w.keep_alive /\ w.conn_hdr = "close"
    BY <1>1, QueueErrorResponse DEF IInv
  <2>2. Record(w, p.to, 400) /\ conn' = w /\ inq' = rest /\ UNCHANGED <<peer, wire>>
    BY <1>4 DEF Respond
  <2> HIDE DEF w
  <2>3. Settled(w.keep_alive)
    BY <1>2, <2>1, <2>2, BoundsAssumption DEF Settled, IInv, TypeOK, SendBufferBounded
  <2> QED BY <1>1, <2>1, <2>2, <2>3, AnswerRecorded, SettledIsGood
<1>5. CASE p.rc = "OK" /\ Prepares(p.req)
  <2> DEFINE w == Routed(p.c, p.req)
  <2>1. /\ w \in http_conn /\ w.state = "WRITING" /\ w.rb = p.c.rb
        /\ w.wb_sent = 0 /\ Len(w.wb) = RespLen
        /\ w.conn_hdr = IF w.keep_alive THEN "keep-alive" ELSE "close"
    <3>1. CASE p.req.route = "handler"
      BY <1>1, <3>1, PrepareResponse DEF Routed, IInv
    <3>2. CASE p.req.route # "handler"
      BY <1>1, <3>2, QueueErrorResponse DEF Routed, IInv
    <3> QED BY <3>1, <3>2
  <2>2. Record(w, p.to, StatusOf(p.req)) /\ send_response(w, rest)
    BY <1>5 DEF Respond
  <2>3. StatusOf(p.req) \in Nat
    BY <1>1, StatusType
  <2> HIDE DEF w
  <2>4. Settled(w.keep_alive)
    <3>1. w.wb_sent < Len(w.wb) /\ FromClient(w.rb)
      BY <1>2, <2>1, BoundsAssumption
    <3> QED BY <2>1, <2>2, <3>1, SendResponse DEF IInv
  <2> QED BY <1>1, <2>1, <2>2, <2>3, <2>4, AnswerRecorded, SettledIsGood
<1>6. CASE p.rc = "ERROR" \/ (p.rc = "OK" /\ ~Prepares(p.req))
  <2>1. close_conn(rest) /\ UNCHANGED <<wire, answers>>
    BY <1>6 DEF Respond
  <2> QED BY <2>1, ClosedIsGood
<1> QED BY <1>1, <1>3, <1>4, <1>5, <1>6

LEMMA HandleReadIsGood == IInv /\ HandleRead => IInv'
<1> SUFFICES ASSUME IInv, HandleRead PROVE IInv'
  OBVIOUS
<1>1. conn.state = "READING" /\ UNCHANGED <<asked, nread>>
  BY DEF HandleRead
<1>2. PICK n \in 1..Len(inq) :
        \/ close_conn(Rest(n)) /\ UNCHANGED <<wire, answers>>
        \/ \E p \in parse_request(Received(n)) : Respond(p, Rest(n))
  BY DEF HandleRead
<1>3. CASE close_conn(Rest(n)) /\ UNCHANGED <<wire, answers>>
  BY <1>1, <1>3, ClosedIsGood
<1>4. CASE \E p \in parse_request(Received(n)) : Respond(p, Rest(n))
  <2>1. PICK p \in parse_request(Received(n)) : Respond(p, Rest(n))
    BY <1>4
  <2>2. /\ Reading(Received(n)) /\ Received(n).keep_alive = conn.keep_alive
        /\ Rest(n) \in Seq(Unit) /\ FromClient(Rest(n))
    BY <1>1, ReceivedType
  <2> QED BY <1>1, <2>1, <2>2, RespondIsGood
<1> QED BY <1>2, <1>3, <1>4

LEMMA HandleWriteIsGood == IInv /\ HandleWrite => IInv'
<1> SUFFICES ASSUME IInv, HandleWrite PROVE IInv'
  OBVIOUS
<1>1. /\ conn.state = "WRITING" /\ send_response(conn, inq)
      /\ UNCHANGED <<asked, nread, answers>>
  BY DEF HandleWrite
<1>2. /\ conn \in http_conn /\ conn.wb_sent < Len(conn.wb) /\ FromClient(conn.rb)
      /\ inq \in Seq(Unit) /\ FromClient(inq)
  BY <1>1 DEF IInv, TypeOK, CleanBetweenCalls, ReceivedWasAsked
<1>3. Settled(conn.keep_alive)
  BY <1>1, <1>2, SendResponse DEF IInv
<1>4. /\ answers' \in Seq(AnswerRecord) /\ answers' # <<>>
      /\ \A a \in 1..(Len(answers') - 1) : answers'[a].conn = "keep-alive"
      /\ conn.keep_alive <=> answers'[Len(answers')].conn = "keep-alive"
  BY <1>1 DEF IInv, TypeOK, OnlyTheLastCloses
<1> QED BY <1>1, <1>3, <1>4, SettledIsGood

\* The client's steps change neither the connection nor the answers.
LEMMA ClientIsGood == IInv /\ Client => IInv'
<1> SUFFICES ASSUME IInv, Client PROVE IInv'
  OBVIOUS
<1>1. UNCHANGED <<conn, wire, answers>>
  BY DEF Client, ClientSend, ClientRead, ClientShutdown, ClientVanish
<1>2. CleanBetweenCalls' /\ OnlyTheLastCloses'
  BY <1>1 DEF IInv, CleanBetweenCalls, OnlyTheLastCloses
<1>3. CASE ClientSend
  <2>1. PICK r \in Requests :
          /\ asked' = Append(asked, r)
          /\ inq' = inq \o [i \in 1..(HdrLen + r.body) |-> <<Len(asked) + 1, i>>]
    BY <1>3 DEF ClientSend
  <2> DEFINE sent == [i \in 1..(HdrLen + r.body) |-> <<Len(asked) + 1, i>>]
  <2>2. asked \in Seq(Requests) /\ inq \in Seq(Unit) /\ HdrLen + r.body \in Nat
    BY BoundsAssumption, RequestsAssumption DEF IInv, TypeOK, RequestRecord
  <2>3. asked' \in Seq(Requests) /\ Len(asked') = Len(asked) + 1
    BY <2>1, <2>2
  <2>4. /\ sent \in Seq(Unit) /\ Len(sent) = HdrLen + r.body
        /\ \A i \in 1..Len(sent) : sent[i][1] = Len(asked')
    <3> DEFINE m == HdrLen + r.body
               k == Len(asked) + 1
    <3>1. m \in Nat /\ k \in Nat /\ k = Len(asked')
      BY <2>2, <2>3
    <3>2. sent = [i \in 1..m |-> <<k, i>>]
      OBVIOUS
    <3> HIDE DEF sent, m, k
    <3>3. sent \in Seq(Unit) /\ Len(sent) = m /\ \A i \in 1..m : sent[i] = <<k, i>>
      BY <3>1, <3>2 DEF Unit
    <3> QED BY <3>1, <3>3 DEF m
  <2>5. inq' = inq \o sent
    BY <2>1
  <2> HIDE DEF sent
  <2>6. inq' \in Seq(Unit) /\ \A i \in 1..Len(inq') : inq'[i][1] \in 1..Len(asked')
    <3>1. /\ inq' \in Seq(Unit)
          /\ \A i \in 1..Len(inq') : inq'[i] = IF i <= Len(inq) THEN inq[i] ELSE sent[i - Len(inq)]
          /\ Len(inq') = Len(inq) + Len(sent)
      BY <2>2, <2>4, <2>5, Joined
    <3>2. SUFFICES ASSUME NEW i \in 1..Len(inq') PROVE inq'[i][1] \in 1..Len(asked')
      BY <3>1
    <3>3. Len(inq) \in Nat /\ Len(sent) \in Nat /\ Len(asked) \in Nat
      BY <2>2, <2>4
    <3>4. CASE i <= Len(inq)
      <4>1. inq'[i] = inq[i] /\ inq[i][1] \in 1..Len(asked)
        BY <3>1, <3>2, <3>3, <3>4 DEF IInv, ReceivedWasAsked, FromClient
      <4> QED BY <2>3, <3>3, <4>1
    <3>5. CASE i > Len(inq)
      <4>1. inq'[i] = sent[i - Len(inq)] /\ i - Len(inq) \in 1..Len(sent)
        BY <3>1, <3>2, <3>3, <3>5
      <4> QED BY <2>3, <2>4, <3>3, <4>1
    <3> QED BY <3>2, <3>3, <3>4, <3>5
  <2>7. ReceivedWasAsked'
    BY <1>1, <2>2, <2>3, <2>6 DEF IInv, ReceivedWasAsked, FromClient
  <2>8. TypeOK' /\ SendBufferBounded'
    BY <1>1, <1>3, <2>3, <2>6 DEF IInv, TypeOK, SendBufferBounded, ClientSend
  <2> QED BY <1>2, <2>7, <2>8 DEF IInv
<1>4. CASE ClientRead
  <2>1. TypeOK' /\ SendBufferBounded'
    <3>1. nread \in Nat /\ Len(wire) \in Nat /\ SendBuf \in Nat
      BY BoundsAssumption DEF IInv, TypeOK
    <3>2. nread' \in Nat /\ nread' <= Len(wire') /\ Len(wire') - nread' <= SendBuf
      BY <1>4, <3>1 DEF ClientRead, IInv, SendBufferBounded
    <3> QED BY <1>4, <3>2 DEF ClientRead, IInv, TypeOK, SendBufferBounded
  <2>2. ReceivedWasAsked'
    BY <1>4 DEF ClientRead, IInv, ReceivedWasAsked, FromClient
  <2> QED BY <1>2, <2>1, <2>2 DEF IInv
<1>5. CASE ClientShutdown
  <2>1. PICK n \in 0..Len(inq) : inq' = SubSeq(inq, 1, n)
    BY <1>5 DEF ClientShutdown
  <2>2. inq \in Seq(Unit) /\ 1 \in 1..(Len(inq) + 1)
    BY DEF IInv, TypeOK
  <2>3. inq' \in Seq(Unit) /\ \A i \in 1..Len(inq') : \E j \in 1..Len(inq) : inq'[i] = inq[j]
    BY <2>1, <2>2, PartOf
  <2>4. ReceivedWasAsked'
    BY <1>1, <1>5, <2>3 DEF ClientShutdown, IInv, ReceivedWasAsked, FromClient
  <2>5. TypeOK' /\ SendBufferBounded'
    BY <1>1, <1>5, <2>3 DEF ClientShutdown, IInv, TypeOK, SendBufferBounded
  <2> QED BY <1>2, <2>4, <2>5 DEF IInv
<1>6. CASE ClientVanish
  <2>1. TypeOK' /\ SendBufferBounded'
    BY <1>6 DEF ClientVanish, IInv, TypeOK, SendBufferBounded
  <2>2. ReceivedWasAsked'
    BY <1>6 DEF ClientVanish, IInv, ReceivedWasAsked, FromClient
  <2> QED BY <1>2, <2>1, <2>2 DEF IInv
<1> QED BY <1>3, <1>4, <1>5, <1>6 DEF Client

LEMMA NextIsGood == IInv /\ [Next]_vars => IInv'
<1> SUFFICES ASSUME IInv, [Next]_vars PROVE IInv'
  OBVIOUS
<1>1. CASE HandleHangup
  BY <1>1, ClosedIsGood DEF HandleHangup
<1>2. CASE HandleRead
  BY <1>2, HandleReadIsGood
<1>3. CASE HandleWrite
  BY <1>3, HandleWriteIsGood
<1>4. CASE Client
  BY <1>4, ClientIsGood
<1>5. CASE UNCHANGED vars
  BY <1>5 DEF vars, IInv, TypeOK, ReceivedWasAsked, FromClient, SendBufferBounded,
              CleanBetweenCalls, OnlyTheLastCloses
<1> QED BY <1>1, <1>2, <1>3, <1>4, <1>5 DEF Next, Server

-----------------------------------------------------------------------------
(* What a call of handle_conn comes to *)

\* Reset clears what it clears and keeps the rest.
LEMMA ResetConnection ==
  ASSUME NEW c \in http_conn
  PROVE  /\ Reset(c).state = "READING" /\ Reset(c).rb = <<>>
         /\ Reset(c).keep_alive = c.keep_alive
BY DEF Reset, http_conn

\* Sequence s with the units m + 1 to n of answer a put behind it.
Onto(s, a, m, n) == s \o SubSeq(ResponseUnits(a), m + 1, n)

\* Connection c, writing answer number a, hands some of it to the network: the
\* call fails, or it sends up to unit n and goes on, resets or closes.
Sent(c, a, rest) ==
  \/ /\ peer = "gone" /\ conn'.state = "CLOSED" /\ conn'.rb = <<>> /\ inq' = <<>>
     /\ UNCHANGED wire
  \/ \E n \in c.wb_sent..RespLen :
       /\ wire' = Onto(wire, a, c.wb_sent, n)
       /\ \/ /\ n < RespLen /\ conn'.state = "WRITING" /\ conn'.rb = c.rb
             /\ conn'.wb = ResponseUnits(a) /\ conn'.wb_sent = n
             /\ conn'.keep_alive = c.keep_alive /\ inq' = rest
          \/ /\ n = RespLen /\ c.keep_alive
             /\ conn'.state = "READING" /\ conn'.rb = <<>> /\ inq' = rest
          \/ /\ n = RespLen /\ ~c.keep_alive
             /\ conn'.state = "CLOSED" /\ conn'.rb = <<>> /\ inq' = <<>>

\* A writing connection: answer number a, not sent to its end.
Writing(c, a) == /\ c \in http_conn /\ c.state = "WRITING"
                 /\ c.wb = ResponseUnits(a) /\ c.wb_sent < RespLen

LEMMA SendEffect ==
  ASSUME TypeOK, SendBufferBounded, NEW a \in Nat, NEW c, Writing(c, a),
         NEW rest, send_response(c, rest)
  PROVE  Sent(c, a, rest)
<1>1. /\ c \in http_conn /\ c.state = "WRITING" /\ c.wb = ResponseUnits(a)
      /\ c.wb_sent \in Nat /\ c.wb_sent < RespLen /\ Len(c.wb) = RespLen
  BY ResponseType DEF Writing, http_conn
<1>2. CASE peer = "gone" /\ close_conn(rest) /\ UNCHANGED wire
  BY <1>2, CloseConn DEF Sent
<1>3. CASE peer # "gone"
  <2> DEFINE n == c.wb_sent + Burst(c)
  <2>1. n \in c.wb_sent..RespLen
    <3>1. Room \in Nat
      BY BoundsAssumption DEF Room, TypeOK, SendBufferBounded
    <3> QED BY <1>1, <3>1, BoundsAssumption DEF Burst
  <2>2. wire' = Onto(wire, a, c.wb_sent, n)
    BY <1>1, <1>3 DEF send_response, Onto
  <2>3. \/ n < RespLen /\ conn' = [c EXCEPT !.wb_sent = n] /\ inq' = rest
        \/ n = RespLen /\ c.keep_alive /\ conn' = Reset(c) /\ inq' = rest
        \/ n = RespLen /\ ~c.keep_alive /\ close_conn(rest)
    BY <1>1, <1>3 DEF send_response
  <2> HIDE DEF n
  <2>4. CASE n < RespLen /\ conn' = [c EXCEPT !.wb_sent = n] /\ inq' = rest
    <3>1. /\ conn'.state = "WRITING" /\ conn'.rb = c.rb /\ conn'.wb = ResponseUnits(a)
          /\ conn'.wb_sent = n /\ conn'.keep_alive = c.keep_alive
      BY <1>1, <2>4 DEF http_conn
    <3> QED BY <2>1, <2>2, <2>4, <3>1 DEF Sent
  <2>5. CASE n = RespLen /\ c.keep_alive /\ conn' = Reset(c) /\ inq' = rest
    BY <1>1, <2>1, <2>2, <2>5, ResetConnection DEF Sent
  <2>6. CASE n = RespLen /\ ~c.keep_alive /\ close_conn(rest)
    BY <2>1, <2>2, <2>6, CloseConn DEF Sent
  <2> QED BY <2>3, <2>4, <2>5, <2>6
<1> QED BY <1>2, <1>3 DEF send_response

\* The connection is closed without a word.
GivesUp ==
  /\ conn.state # "CLOSED" /\ conn'.state = "CLOSED" /\ conn'.rb = <<>> /\ inq' = <<>>
  /\ UNCHANGED <<wire, answers>>
  /\ peer # "open" \/ AllocFails \/ (conn.state = "READING" /\ NextIsUnanswerable)

\* More of a request has come, and not yet enough.
Waits ==
  /\ conn.state = "READING" /\ conn'.state = "READING" /\ UNCHANGED <<wire, answers>>
  /\ \E n \in 1..Len(inq) : conn'.rb = Received(n).rb /\ inq' = Rest(n)

\* What was received is answered.
Starts ==
  /\ conn.state = "READING" /\ peer # "gone"
  /\ \E n \in 1..Len(inq) : \E p \in parse_request(Received(n)), w \in http_conn :
       /\ p.rc \in {"OK", "BAD_REQUEST"} /\ (p.rc = "BAD_REQUEST" => ~w.keep_alive)
       /\ p.rc = "OK" => Prepares(p.req)
       /\ w.rb = Received(n).rb /\ w.wb_sent = 0
       /\ w.conn_hdr = (IF w.keep_alive THEN "keep-alive" ELSE "close")
       /\ Record(w, p.to, IF p.rc = "OK" THEN StatusOf(p.req) ELSE 400)
       /\ Sent(w, Len(answers) + 1, Rest(n))

\* The answer under way goes on.
Continues == conn.state = "WRITING" /\ UNCHANGED answers /\ Sent(conn, Len(answers), inq)

\* wb holds the answer under way, and nothing else.
WbGood == conn.state = "WRITING" => Writing(conn, Len(answers))

\* A request that is refused without an answer cannot be answered.
LEMMA ParseRefused ==
  ASSUME TypeOK, NEW c, Reading(c), NEW p \in parse_request(c),
         p.rc = "ERROR" \/ (p.rc = "OK" /\ ~Prepares(p.req))
  PROVE  /\ Len(c.rb) \in Nat \ {0}
         /\ c.rb[1][2] = 1 => ~Answerable(asked[c.rb[1][1]])
<1> USE DEF Reading
<1>1. CASE find_header_end(c.rb) = 0
  <2>1. p = [rc |-> "INCOMPLETE", c |-> c, to |-> 0, req |-> NoRequest]
    BY <1>1 DEF parse_request
  <2> QED BY <2>1
<1>2. CASE find_header_end(c.rb) # 0
  <2>1. PICK h \in HeaderReadings(c.rb) :
          p = LET k == [c EXCEPT !.keep_alive = @ \/ h.req.keep]
                  Result(rc, left) == [rc |-> rc, c |-> left, to |-> h.to, req |-> h.req]
              IN IF h.req.line = "nul" THEN Result("ERROR", c)
                 ELSE IF h.req.line = "bad" THEN Result("BAD_REQUEST", c)
                 ELSE IF Len(c.rb) - find_header_end(c.rb) < h.req.body THEN Result("INCOMPLETE", k)
                 ELSE Result("OK", [k EXCEPT !.header_parsed = TRUE])
    BY <1>2 DEF parse_request
  <2>2. p.req = h.req /\ (p.rc = "ERROR" => h.req.line = "nul") /\ (p.rc = "OK" => h.req.line # "bad")
    BY <2>1
  <2>3. ~Answerable(h.req)
    BY <2>2 DEF Answerable
  <2>4. c.rb \in Seq(Unit) /\ Len(c.rb) \in Nat \ {0}
    <3>1. c.rb \in Seq(Unit) /\ HeaderEnds(c.rb) # {}
      BY <1>2 DEF http_conn, find_header_end
    <3> QED BY <3>1 DEF HeaderEnds
  <2>5. c.rb[1][2] = 1 => h.req = asked[c.rb[1][1]]
    BY DEF HeaderReadings
  <2> QED BY <2>3, <2>4, <2>5
<1> QED BY <1>1, <1>2

\* What is received next stays the first of what is in the buffer and the queue.
LEMMA FirstReceived ==
  ASSUME IInv, NEW n \in 1..Len(inq), Len(Received(n).rb) \in Nat \ {0}
  PROVE  Received(n).rb[1] = (conn.rb \o inq)[1]
<1>1. conn \in http_conn /\ conn.rb \in Seq(Unit) /\ inq \in Seq(Unit)
  BY DEF IInv, TypeOK, http_conn
<1>2. Received(n).rb = conn.rb \o SubSeq(inq, 1, n)
  BY <1>1 DEF Received, http_conn
<1>3. PICK got : got = SubSeq(inq, 1, n)
  OBVIOUS
<1>4. got \in Seq(Unit) /\ Len(got) = n /\ got[1] = inq[1]
  BY <1>1, <1>3
<1>5. (conn.rb \o got)[1] = IF 1 <= Len(conn.rb) THEN conn.rb[1] ELSE got[1 - Len(conn.rb)]
  BY <1>1, <1>4, Joined
<1>6. (conn.rb \o inq)[1] = IF 1 <= Len(conn.rb) THEN conn.rb[1] ELSE inq[1 - Len(conn.rb)]
  BY <1>1, Joined
<1> QED BY <1>1, <1>2, <1>3, <1>4, <1>5, <1>6

\* Every step of the server is one of the four.
LEMMA ServerSteps ==
  ASSUME IInv, WbGood, Server
  PROVE  UNCHANGED <<asked, nread>> /\ (GivesUp \/ Waits \/ Starts \/ Continues)
<1>1. UNCHANGED <<asked, nread>>
  BY DEF Server, HandleHangup, HandleRead, HandleWrite
<1>2. Len(answers) \in Nat
  BY DEF IInv, TypeOK
<1>3. CASE HandleHangup
  <2>1. /\ conn.state = "READING" /\ peer # "open" /\ close_conn(<<>>)
        /\ UNCHANGED <<wire, answers>>
    BY <1>3 DEF HandleHangup
  <2> QED BY <1>1, <2>1, CloseConn DEF GivesUp, IInv
<1>4. CASE HandleWrite
  <2>1. Sent(conn, Len(answers), inq)
    BY <1>2, <1>4, SendEffect DEF HandleWrite, IInv, WbGood
  <2> QED BY <1>1, <1>4, <2>1 DEF HandleWrite, Continues
<1>5. CASE HandleRead
  <2>1. conn.state = "READING" /\ peer # "gone"
    BY <1>5 DEF HandleRead
  <2>2. PICK n \in 1..Len(inq) :
          \/ AllocFails /\ close_conn(Rest(n)) /\ UNCHANGED <<wire, answers>>
          \/ \E p \in parse_request(Received(n)) : Respond(p, Rest(n))
    BY <1>5 DEF HandleRead
  <2>3. CASE AllocFails /\ close_conn(Rest(n)) /\ UNCHANGED <<wire, answers>>
    BY <1>1, <2>1, <2>3, CloseConn DEF GivesUp, IInv
  <2>4. ASSUME NEW p \in parse_request(Received(n)), Respond(p, Rest(n))
        PROVE  GivesUp \/ Waits \/ Starts
    <3>1. Reading(Received(n))
      BY <2>1, ReceivedType
    <3>2. /\ p.rc \in {"INCOMPLETE", "ERROR", "BAD_REQUEST", "OK"}
          /\ p.c \in http_conn /\ p.c.state = "READING"
          /\ p.c.rb = Received(n).rb /\ p.c.wb = <<>> /\ p.c.wb_sent = 0
      BY <3>1, <2>4, ParseRequest DEF IInv
    <3>3. CASE p.rc = "INCOMPLETE"
      BY <2>1, <2>4, <3>2, <3>3 DEF Respond, Waits
    <3>4. CASE p.rc = "BAD_REQUEST"
      <4> DEFINE w == queue_error_response(p.c)
      <4>1. /\ w \in http_conn /\ w.state = "WRITING" /\ w.rb = Received(n).rb
            /\ w.wb = ResponseUnits(Len(answers) + 1) /\ w.wb_sent = 0
            /\ ~w.keep_alive /\ w.conn_hdr = "close"
        BY <3>2, QueueErrorResponse DEF IInv
      <4>2. Record(w, p.to, 400) /\ conn' = w /\ inq' = Rest(n) /\ UNCHANGED wire
        BY <2>4, <3>4 DEF Respond
      <4> HIDE DEF w
      <4>3. wire' = Onto(wire, Len(answers) + 1, 0, 0)
        <5>1. ResponseUnits(Len(answers) + 1) \in Seq(Unit) /\ wire \in Seq(Unit)
          BY <1>2, ResponseType DEF IInv, TypeOK
        <5>2. SubSeq(ResponseUnits(Len(answers) + 1), 0 + 1, 0) = <<>>
          BY <5>1
        <5> QED BY <4>2, <5>1, <5>2 DEF Onto
      <4>4. Sent(w, Len(answers) + 1, Rest(n))
        <5>1. 0 \in w.wb_sent..RespLen /\ 0 < RespLen
          BY <4>1, BoundsAssumption
        <5> QED BY <4>1, <4>2, <4>3, <5>1 DEF Sent
      <4> QED BY <2>1, <2>4, <3>4, <4>1, <4>2, <4>4 DEF Starts
    <3>5. CASE p.rc = "OK" /\ Prepares(p.req)
      <4> DEFINE w == Routed(p.c, p.req)
      <4>1. /\ w \in http_conn /\ w.state = "WRITING" /\ w.rb = Received(n).rb
            /\ w.wb = ResponseUnits(Len(answers) + 1) /\ w.wb_sent = 0
            /\ w.conn_hdr = IF w.keep_alive THEN "keep-alive" ELSE "close"
        <5>1. CASE p.req.route = "handler"
          BY <3>2, <5>1, PrepareResponse DEF Routed, IInv
        <5>2. CASE p.req.route # "handler"
          BY <3>2, <5>2, QueueErrorResponse DEF Routed, IInv
        <5> QED BY <5>1, <5>2
      <4>2. Record(w, p.to, StatusOf(p.req)) /\ send_response(w, Rest(n))
        BY <2>4, <3>5 DEF Respond
      <4> HIDE DEF w
      <4>3. Writing(w, Len(answers) + 1) /\ Len(answers) + 1 \in Nat
        BY <1>2, <4>1, BoundsAssumption DEF Writing
      <4>4. Sent(w, Len(answers) + 1, Rest(n))
        BY <4>2, <4>3, SendEffect DEF IInv
      <4> QED BY <2>1, <2>4, <3>5, <4>1, <4>2, <4>4 DEF Starts
    <3>6. CASE p.rc = "ERROR" \/ (p.rc = "OK" /\ ~Prepares(p.req))
      <4>1. close_conn(Rest(n)) /\ UNCHANGED <<wire, answers>>
        BY <2>4, <3>6 DEF Respond
      <4>2. /\ Len(Received(n).rb) \in Nat \ {0}
            /\ Received(n).rb[1][2] = 1 => ~Answerable(asked[Received(n).rb[1][1]])
        BY <2>4, <3>1, <3>6, ParseRefused DEF IInv
      <4>3. NextIsUnanswerable
        <5>1. Received(n).rb[1] = (conn.rb \o inq)[1]
          BY <4>2, FirstReceived
        <5> QED BY <4>2, <5>1 DEF NextIsUnanswerable
      <4> QED BY <2>1, <4>1, <4>3, CloseConn DEF GivesUp, IInv
    <3> QED BY <3>2, <3>3, <3>4, <3>5, <3>6
  <2> QED BY <1>1, <2>2, <2>3, <2>4
<1> QED BY <1>3, <1>4, <1>5 DEF Server

-----------------------------------------------------------------------------
(* The stream of responses *)

\* Sequence s ends where unit m + 1 of answer a follows.
Before(s, a, m) ==
  IF Len(s) = 0 THEN a = 1 /\ m = 0
  ELSE s[Len(s)] = IF m > 0 THEN <<a, m>> ELSE <<a - 1, RespLen>>

\* The wire holds the answers before answer a whole, and m units of that one.
Holds(a, m) == Len(wire) + RespLen = RespLen * a + m
NextIs(a, m) == Before(wire, a, m) /\ Holds(a, m)

\* What StreamInOrder says of the wire, of any sequence.
InOrder(s) ==
  \A j \in 1..Len(s) :
    s[j] = IF j = 1 THEN <<1, 1>>
           ELSE IF s[j - 1][2] < RespLen THEN <<s[j - 1][1], s[j - 1][2] + 1>>
           ELSE <<s[j - 1][1] + 1, 1>>

\* The wire is in order and holds every answer but the one under way whole, and
\* of that one what wb_sent says.
StreamGood ==
  /\ StreamInOrder
  /\ conn.state = "READING" => NextIs(Len(answers) + 1, 0)
  /\ conn.state = "WRITING" =>
       /\ Writing(conn, Len(answers)) /\ answers # <<>>
       /\ NextIs(Len(answers), conn.wb_sent)

\* Sequence t is s with units m + 1 to n of answer a behind it.
Extends(t, s, a, m, n) ==
  /\ t \in Seq(Unit) /\ Len(t) = Len(s) + (n - m)
  /\ \A j \in 1..Len(s) : t[j] = s[j]
  /\ \A i \in 1..(n - m) : t[Len(s) + i] = <<a, m + i>>

\* Units m + 1 to n of answer a, put behind the units before them, keep the order.
LEMMA OrderExtends ==
  ASSUME NEW s \in Seq(Unit), NEW t, NEW a \in Nat \ {0},
         NEW m \in Nat, NEW n \in Nat, m < RespLen, m <= n, n <= RespLen,
         Extends(t, s, a, m, n), InOrder(s), Before(s, a, m)
  PROVE  InOrder(t) /\ Before(t, a, n) /\ (n = RespLen => Before(t, a + 1, 0))
<1>0. /\ t \in Seq(Unit) /\ Len(t) = Len(s) + (n - m)
      /\ \A j \in 1..Len(s) : t[j] = s[j]
      /\ \A i \in 1..(n - m) : t[Len(s) + i] = <<a, m + i>>
  BY DEF Extends
<1>1. PICK l \in Nat : l = Len(s)
  OBVIOUS
<1>2. RespLen \in Nat \ {0}
  BY BoundsAssumption
<1>3. Len(t) = l + (n - m)
  BY <1>0, <1>1
<1>4. InOrder(t)
  <2> SUFFICES ASSUME NEW j \in 1..(l + (n - m))
               PROVE  t[j] = IF j = 1 THEN <<1, 1>>
                             ELSE IF t[j - 1][2] < RespLen THEN <<t[j - 1][1], t[j - 1][2] + 1>>
                             ELSE <<t[j - 1][1] + 1, 1>>
    BY <1>3 DEF InOrder
  <2>1. CASE j <= l
    <3>1. j \in 1..Len(s) /\ (j # 1 => j - 1 \in 1..Len(s))
      BY <1>1, <2>1
    <3>2. t[j] = s[j] /\ (j # 1 => t[j - 1] = s[j - 1])
      BY <1>0, <3>1
    <3> QED BY <3>1, <3>2 DEF InOrder
  <2>2. CASE j = l + 1
    <3>1. t[j] = <<a, m + 1>>
      <4>1. 1 \in 1..(n - m)
        BY <2>2
      <4> QED BY <1>0, <1>1, <2>2, <4>1
    <3>2. CASE l = 0
      BY <1>1, <2>2, <3>1, <3>2 DEF Before
    <3>3. CASE l # 0
      <4>1. t[j - 1] = IF m > 0 THEN <<a, m>> ELSE <<a - 1, RespLen>>
        <5>1. j - 1 = l /\ l \in 1..Len(s)
          BY <1>1, <2>2, <3>3
        <5> QED BY <1>0, <1>1, <3>3, <5>1 DEF Before
      <4>2. j # 1
        BY <2>2, <3>3
      <4>3. CASE m > 0
        BY <3>1, <4>1, <4>2, <4>3
      <4>4. CASE m = 0
        BY <1>2, <3>1, <4>1, <4>2, <4>4
      <4> QED BY <4>3, <4>4
    <3> QED BY <3>2, <3>3
  <2>3. CASE j > l + 1
    <3>1. PICK i \in 1..(n - m) : j = l + i /\ i > 1
      BY <2>3
    <3>2. i - 1 \in 1..(n - m) /\ j - 1 = l + (i - 1)
      BY <3>1
    <3>3. t[j] = <<a, m + i>> /\ t[j - 1] = <<a, m + (i - 1)>>
      BY <1>0, <1>1, <3>1, <3>2
    <3>4. m + (i - 1) < RespLen /\ m + (i - 1) + 1 = m + i /\ j # 1
      BY <1>2, <3>1
    <3> QED BY <3>3, <3>4
  <2> QED BY <2>1, <2>2, <2>3
<1>5. Before(t, a, n)
  <2>1. CASE n = m
    <3>1. Len(t) = Len(s)
      BY <1>1, <1>3, <2>1
    <3>2. Len(s) # 0 => t[Len(t)] = s[Len(s)]
      BY <1>0, <1>1, <3>1
    <3> QED BY <2>1, <3>1, <3>2 DEF Before
  <2>2. CASE n # m
    <3>1. n - m \in 1..(n - m) /\ m + (n - m) = n /\ n > 0 /\ Len(t) # 0
      BY <1>3, <2>2
    <3>2. t[Len(t)] = <<a, n>>
      BY <1>0, <1>1, <1>3, <3>1
    <3> QED BY <3>1, <3>2 DEF Before
  <2> QED BY <2>1, <2>2
<1>6. n = RespLen => Before(t, a + 1, 0)
  <2>1. n = RespLen => Len(t) # 0 /\ n > 0
    BY <1>2, <1>3
  <2> QED BY <1>5, <2>1 DEF Before
<1> QED BY <1>4, <1>5, <1>6

\* What is appended to the wire.
LEMMA Appended ==
  ASSUME NEW s \in Seq(Unit), NEW a \in Nat, NEW m \in Nat, NEW n \in Nat,
         m <= n, n <= RespLen
  PROVE  Extends(Onto(s, a, m, n), s, a, m, n)
<1>0. PICK t : t = Onto(s, a, m, n)
  OBVIOUS
<1>1. PICK r : r = ResponseUnits(a)
  OBVIOUS
<1>2. r \in Seq(Unit) /\ Len(r) = RespLen /\ \A i \in 1..RespLen : r[i] = <<a, i>>
  BY <1>1, ResponseType DEF ResponseUnits
<1>3. PICK part : part = SubSeq(r, m + 1, n)
  OBVIOUS
<1>4. part \in Seq(Unit) /\ Len(part) = n - m /\ \A i \in 1..(n - m) : part[i] = <<a, m + i>>
  <2>1. m + 1 \in 1..(Len(r) + 1) /\ n \in 0..Len(r) /\ m + 1 <= n + 1
    BY <1>2, BoundsAssumption
  <2>2. part \in Seq(Unit) /\ Len(part) = n - (m + 1) + 1
    BY <1>2, <1>3, <2>1, PartLength
  <2>3. \A i \in 1..(n - m) : part[i] = r[m + i]
    BY <1>2, <1>3, BoundsAssumption
  <2>4. \A i \in 1..(n - m) : m + i \in 1..RespLen
    BY BoundsAssumption
  <2>5. \A i \in 1..(n - m) : part[i] = <<a, m + i>>
    BY <1>2, <2>3, <2>4
  <2>6. Len(part) = n - m
    BY <2>2
  <2> QED BY <2>2, <2>5, <2>6
<1>5. t = s \o part
  BY <1>0, <1>1, <1>3 DEF Onto
<1>6. /\ t \in Seq(Unit) /\ Len(t) = Len(s) + Len(part)
      /\ \A i \in 1..Len(t) : t[i] = IF i <= Len(s) THEN s[i] ELSE part[i - Len(s)]
  <2>1. part \in Seq(Unit)
    BY <1>4
  <2>2. /\ s \o part \in Seq(Unit) /\ Len(s \o part) = Len(s) + Len(part)
        /\ \A i \in 1..Len(s \o part) :
             (s \o part)[i] = IF i <= Len(s) THEN s[i] ELSE part[i - Len(s)]
    BY <2>1, Joined
  <2> QED BY <1>5, <2>2
<1>7. PICK l \in Nat : l = Len(s)
  OBVIOUS
<1>8. Len(t) = l + (n - m)
  BY <1>4, <1>6, <1>7
<1>9. \A j \in 1..l : t[j] = s[j]
  BY <1>6, <1>7, <1>8
<1>10. ASSUME NEW i \in 1..(n - m) PROVE t[l + i] = <<a, m + i>>
  <2>1. l + i \in 1..Len(t) /\ ~(l + i <= l) /\ (l + i) - l = i
    BY <1>8
  <2>2. t[l + i] = part[i]
    BY <1>6, <1>7, <2>1
  <2> QED BY <1>4, <2>2
<1> QED BY <1>0, <1>6, <1>7, <1>8, <1>9, <1>10 DEF Extends

LEMMA HoldsMore ==
  ASSUME NEW a \in Nat, NEW m \in Nat, NEW n \in Nat, wire \in Seq(Unit), wire' \in Seq(Unit),
         Holds(a, m), Len(wire') = Len(wire) + (n - m)
  PROVE  Holds(a, n)' /\ (n = RespLen => Holds(a + 1, 0)' /\ Len(wire') = RespLen * a)
<1>1. PICK q \in Nat, k \in Nat, l \in Nat : q = RespLen * a /\ k = RespLen /\ l = Len(wire)
  BY BoundsAssumption, SMTT(30)
<1>2. Len(wire') + k = q + n
  <2>1. l + k = q + m /\ Len(wire') = l + (n - m) /\ Len(wire') \in Nat
    BY <1>1 DEF Holds
  <2> HIDE DEF Holds
  <2> QED BY <2>1
<1>3. RespLen * (a + 1) = q + k
  BY <1>1
<1>4. n = k => Len(wire') = q /\ Len(wire') + k = q + k + 0
  BY <1>2
<1> QED BY <1>1, <1>2, <1>3, <1>4 DEF Holds

\* Sending the next part of an answer keeps the stream in order.
LEMMA StreamGrows ==
  ASSUME TypeOK, StreamInOrder, NEW a \in Nat \ {0},
         NEW m \in 0..RespLen, m < RespLen, NEW n \in m..RespLen, NextIs(a, m),
         wire' = Onto(wire, a, m, n)
  PROVE  /\ StreamInOrder' /\ NextIs(a, n)'
         /\ n = RespLen => NextIs(a + 1, 0)' /\ Len(wire') = RespLen * a
<1>1. wire \in Seq(Unit) /\ a \in Nat /\ m \in Nat /\ n \in Nat /\ m <= n /\ n <= RespLen
  BY BoundsAssumption DEF TypeOK
<1>2. PICK t : t = Onto(wire, a, m, n)
  OBVIOUS
<1>3. Extends(t, wire, a, m, n)
  BY <1>1, <1>2, Appended
<1>4. InOrder(wire) /\ Before(wire, a, m) /\ Holds(a, m)
  BY DEF StreamInOrder, InOrder, NextIs
<1>5. InOrder(t) /\ Before(t, a, n) /\ (n = RespLen => Before(t, a + 1, 0))
  BY <1>1, <1>3, <1>4, OrderExtends
<1>6. wire' = t
  BY <1>2
<1>7. Holds(a, n)' /\ (n = RespLen => Holds(a + 1, 0)' /\ Len(wire') = RespLen * a)
  BY <1>1, <1>3, <1>4, <1>6, HoldsMore DEF Extends
<1> QED BY <1>5, <1>6, <1>7 DEF StreamInOrder, InOrder, NextIs

\* Whatever becomes of an answer that is being sent, the stream is good.
LEMMA SentStream ==
  ASSUME IInv, IInv', StreamInOrder, NEW a \in Nat \ {0}, a = Len(answers'),
         NEW c, NEW m \in 0..RespLen, m = c.wb_sent, m < RespLen, NEW rest, Sent(c, a, rest),
         NextIs(a, m)
  PROVE  StreamGood'
<1>1. CASE conn'.state = "CLOSED" /\ UNCHANGED wire
  BY <1>1 DEF StreamGood, StreamInOrder
<1>2. ASSUME NEW n \in m..RespLen,
             wire' = Onto(wire, a, m, n),
             \/ /\ n < RespLen /\ conn'.state = "WRITING" /\ conn'.wb = ResponseUnits(a)
                /\ conn'.wb_sent = n
             \/ n = RespLen /\ conn'.state \in {"READING", "CLOSED"}
      PROVE  StreamGood'
  <2>1. StreamInOrder' /\ NextIs(a, n)' /\ (n = RespLen => NextIs(a + 1, 0)')
    <3>1. TypeOK
      BY DEF IInv
    <3> QED BY <1>2, <3>1, StreamGrows
  <2>2. conn' \in http_conn /\ answers' # <<>>
    BY DEF IInv, TypeOK
  <2> QED BY <1>2, <2>1, <2>2 DEF StreamGood, Writing
<1> QED BY <1>1, <1>2 DEF Sent

LEMMA StreamInit == Init => StreamGood
<1> SUFFICES ASSUME Init PROVE StreamGood
  OBVIOUS
<1>1. wire = <<>> /\ answers = <<>> /\ conn.state = "READING"
  BY DEF Init, accept_new
<1>2. StreamInOrder
  BY <1>1 DEF StreamInOrder
<1>3. Len(wire) = 0 /\ Len(answers) = 0 /\ 0 + RespLen = RespLen * (0 + 1) + 0
  BY <1>1, BoundsAssumption
<1> QED BY <1>1, <1>2, <1>3 DEF StreamGood, NextIs, Before, Holds

LEMMA StreamNext == IInv /\ IInv' /\ StreamGood /\ [Next]_vars => StreamGood'
<1> SUFFICES ASSUME IInv, IInv', StreamGood, [Next]_vars PROVE StreamGood'
  OBVIOUS
<1>1. Len(answers) \in Nat /\ answers \in Seq(AnswerRecord)
  BY DEF IInv, TypeOK
<1>2. CASE Client \/ UNCHANGED vars
  <2>1. UNCHANGED <<conn, wire, answers>>
    BY <1>2 DEF Client, ClientSend, ClientRead, ClientShutdown, ClientVanish, vars
  <2> QED BY <2>1 DEF StreamGood, StreamInOrder, Writing, NextIs, Before, Holds
<1>3. CASE Server
  <2>1. GivesUp \/ Waits \/ Starts \/ Continues
    BY <1>3, ServerSteps DEF StreamGood, WbGood
  <2>2. CASE GivesUp
    BY <2>2 DEF GivesUp, StreamGood, StreamInOrder
  <2>3. CASE Waits
    BY <2>3 DEF Waits, StreamGood, StreamInOrder, NextIs, Before, Holds
  <2>4. CASE Starts
    <3>1. PICK n, p, w :
            /\ w.wb_sent = 0 /\ Record(w, p.to, IF p.rc = "OK" THEN StatusOf(p.req) ELSE 400)
            /\ Sent(w, Len(answers) + 1, Rest(n))
      BY <2>4 DEF Starts
    <3>2. Len(answers') = Len(answers) + 1
      BY <1>1, <3>1 DEF Record
    <3>3. PICK a \in Nat \ {0} : a = Len(answers) + 1
      BY <1>1
    <3>4. a = Len(answers') /\ NextIs(a, 0)
      BY <2>4, <3>2, <3>3 DEF Starts, StreamGood
    <3>5. 0 \in 0..RespLen /\ 0 < RespLen
      BY BoundsAssumption
    <3>6. StreamInOrder /\ Sent(w, a, Rest(n)) /\ 0 = w.wb_sent
      BY <3>1, <3>3 DEF StreamGood
    <3> QED BY <3>4, <3>5, <3>6, SentStream
  <2>5. CASE Continues
    <3>1. /\ NextIs(Len(answers), conn.wb_sent) /\ answers # <<>> /\ Writing(conn, Len(answers))
          /\ StreamInOrder
      BY <2>5 DEF Continues, StreamGood
    <3>2. PICK a \in Nat \ {0}, m \in 0..RespLen : a = Len(answers) /\ m = conn.wb_sent
      BY <1>1, <3>1, BoundsAssumption DEF Writing, http_conn
    <3>3. m < RespLen /\ NextIs(a, m) /\ a = Len(answers') /\ Sent(conn, a, inq)
      BY <2>5, <3>1, <3>2 DEF Continues, Writing
    <3> QED BY <3>1, <3>2, <3>3, SentStream
  <2> QED BY <2>1, <2>2, <2>3, <2>4, <2>5
<1> QED BY <1>2, <1>3 DEF Next

-----------------------------------------------------------------------------
(* The order of the answers *)

\* Everything received and not yet answered or thrown away.
Pending == conn.rb \o inq

\* A request's first unit comes behind units of earlier requests only.
Increasing(s) ==
  \A i, j \in 1..Len(s) : i < j /\ s[j][2] = 1 => s[i][1] < s[j][1]

\* The requests whose first unit is in s come after every answered one.
Unanswered(s) ==
  \A i \in 1..Len(s) : s[i][2] = 1 => \A a \in 1..Len(answers) : answers[a].to < s[i][1]

OrderGood ==
  /\ AnsweredInOrder
  /\ \A a \in 1..Len(answers) : answers[a].to <= Len(asked)
  /\ Increasing(Pending)
  /\ conn.state = "READING" => Unanswered(Pending)
  /\ conn.state = "WRITING" => Unanswered(inq)

\* Sequence t is what is left of s without its first k units, or the first of
\* these.
Part(t, s, k) ==
  /\ t \in Seq(Unit) /\ k \in Nat /\ (Len(t) # 0 => Len(t) + k <= Len(s))
  /\ \A i \in 1..Len(t) : t[i] = s[i + k]

LEMMA PartKeeps ==
  ASSUME NEW s \in Seq(Unit), NEW t, NEW k, Part(t, s, k)
  PROVE  /\ Increasing(s) => Increasing(t)
         /\ Unanswered(s) => Unanswered(t)
         /\ FromClient(s) => FromClient(t)
<1>1. PICK l \in Nat, m \in Nat : l = Len(s) /\ m = Len(t)
  BY DEF Part
<1>2. k \in Nat /\ \A i \in 1..m : i + k \in 1..l /\ t[i] = s[i + k]
  BY <1>1 DEF Part
<1>3. \A i, j \in 1..m : i < j => i + k < j + k
  BY <1>2
<1>4. Increasing(s) => Increasing(t)
  BY <1>1, <1>2, <1>3 DEF Increasing
<1>5. Unanswered(s) => Unanswered(t)
  BY <1>1, <1>2 DEF Unanswered
<1>6. FromClient(s) => FromClient(t)
  BY <1>1, <1>2 DEF FromClient
<1> QED BY <1>4, <1>5, <1>6

\* The pending units, their types and owners, and what is left of them when the
\* buffer is dropped, when recv moves some of them, and when both happens.
LEMMA PendingParts ==
  ASSUME IInv
  PROVE  /\ Pending \in Seq(Unit) /\ Len(Pending) = Len(conn.rb) + Len(inq)
         /\ FromClient(Pending)
         /\ Part(inq, Pending, Len(conn.rb))
         /\ \A n \in 1..Len(inq) :
              /\ Part(Received(n).rb \o Rest(n), Pending, 0)
              /\ Part(Received(n).rb, Pending, 0)
              /\ Len(Received(n).rb) = Len(conn.rb) + n
              /\ Len(Rest(n)) = Len(inq) - n
              /\ Part(Rest(n), Pending, Len(conn.rb) + n)
         /\ \A n \in 0..Len(inq) : Part(conn.rb \o SubSeq(inq, 1, n), Pending, 0)
         /\ \A n \in 0..Len(inq) : Part(SubSeq(inq, 1, n), Pending, Len(conn.rb))
<1>1. /\ conn.rb \in Seq(Unit) /\ inq \in Seq(Unit) /\ conn \in http_conn
      /\ FromClient(inq) /\ FromClient(conn.rb)
  BY DEF IInv, TypeOK, http_conn, ReceivedWasAsked
<1>2. PICK rb \in Seq(Unit), q \in Seq(Unit) : rb = conn.rb /\ q = inq
  BY <1>1
<1>3. PICK s : s = rb \o q
  OBVIOUS
<1>4. /\ s \in Seq(Unit) /\ Len(s) = Len(rb) + Len(q)
      /\ \A i \in 1..Len(rb) : s[i] = rb[i]
      /\ \A i \in 1..Len(q) : s[Len(rb) + i] = q[i]
  BY <1>3
<1>5. s = Pending
  BY <1>2, <1>3 DEF Pending
<1>6. FromClient(s)
  <2>1. PICK l \in Nat, m \in Nat : l = Len(rb) /\ m = Len(q)
    OBVIOUS
  <2>2. Len(s) = l + m
    BY <1>4, <2>1
  <2>3. ASSUME NEW i \in 1..(l + m) PROVE s[i][1] \in 1..Len(asked)
    <3>1. CASE i <= l
      <4>1. s[i] = rb[i] /\ i \in 1..Len(rb)
        BY <1>4, <2>1, <3>1
      <4> QED BY <1>1, <1>2, <4>1 DEF FromClient
    <3>2. CASE ~(i <= l)
      <4>1. PICK j \in 1..m : i = l + j
        BY <3>2
      <4>2. s[i] = q[j] /\ j \in 1..Len(q)
        BY <1>4, <2>1, <4>1
      <4> QED BY <1>1, <1>2, <4>2 DEF FromClient
    <3> QED BY <3>1, <3>2
  <2> QED BY <2>2, <2>3 DEF FromClient
<1>7. Part(q, s, Len(rb))
  BY <1>4 DEF Part
<1>8. ASSUME NEW n \in 0..Len(q), NEW got, got = SubSeq(q, 1, n)
      PROVE  /\ got \in Seq(Unit) /\ Len(got) = n /\ Part(rb \o got, s, 0) /\ Part(got, s, Len(rb))
             /\ Len(rb \o got) = Len(rb) + n
  <2>1. got \in Seq(Unit) /\ Len(got) = n /\ \A i \in 1..n : got[i] = q[i]
    BY <1>8
  <2>2. /\ rb \o got \in Seq(Unit) /\ Len(rb \o got) = Len(rb) + n
        /\ \A i \in 1..(Len(rb) + n) :
             (rb \o got)[i] = IF i <= Len(rb) THEN rb[i] ELSE got[i - Len(rb)]
    BY <2>1, JoinedUnits
  <2>3. PICK l \in Nat, m \in Nat : l = Len(rb) /\ m = Len(q)
    OBVIOUS
  <2>4. \A i \in 1..(l + n) : (rb \o got)[i] = s[i]
    <3> SUFFICES ASSUME NEW i \in 1..(l + n) PROVE (rb \o got)[i] = s[i]
      OBVIOUS
    <3>1. CASE i <= l
      BY <1>4, <2>2, <2>3, <3>1
    <3>2. CASE ~(i <= l)
      <4>1. PICK j \in 1..n : i = l + j
        BY <3>2
      <4>2. (rb \o got)[i] = got[j]
        BY <2>2, <2>3, <3>2, <4>1, SMTT(30)
      <4> QED BY <1>4, <2>1, <2>3, <4>1, <4>2
    <3> QED BY <3>1, <3>2
  <2>5. Part(rb \o got, s, 0)
    BY <1>4, <2>2, <2>3, <2>4 DEF Part
  <2>6. Part(got, s, Len(rb))
    BY <1>4, <2>1, <2>3 DEF Part
  <2> QED BY <2>1, <2>2, <2>5, <2>6
<1>9. ASSUME NEW n \in 1..Len(q)
      PROVE  /\ Part(Received(n).rb \o Rest(n), s, 0)
             /\ Part(Received(n).rb, s, 0)
             /\ Len(Received(n).rb) = Len(rb) + n
             /\ Len(Rest(n)) = Len(q) - n
             /\ Part(Rest(n), s, Len(rb) + n)
  <2>1. PICK got : got = SubSeq(q, 1, n)
    OBVIOUS
  <2>2. PICK rest : rest = SubSeq(q, n + 1, Len(q))
    OBVIOUS
  <2>3. Received(n).rb = rb \o got /\ Rest(n) = rest
    BY <1>1, <1>2, <2>1, <2>2 DEF Received, Rest, http_conn
  <2>4. got \in Seq(Unit) /\ Len(got) = n /\ Part(rb \o got, s, 0) /\ Len(rb \o got) = Len(rb) + n
    <3>1. n \in 0..Len(q)
      OBVIOUS
    <3> QED BY <1>8, <2>1, <3>1
  <2>5. rest \in Seq(Unit) /\ Len(rest) = Len(q) - n /\ \A i \in 1..(Len(q) - n) : rest[i] = q[n + i]
    BY <2>2
  <2>6. PICK l \in Nat, m \in Nat : l = Len(rb) /\ m = Len(q)
    OBVIOUS
  <2>7. \A i \in 1..(m - n) : rest[i] = s[i + (l + n)]
    <3> SUFFICES ASSUME NEW i \in 1..(m - n) PROVE rest[i] = s[i + (l + n)]
      OBVIOUS
    <3>1. n + i \in 1..Len(q) /\ l + (n + i) = i + (l + n)
      BY <2>6
    <3> QED BY <1>4, <2>5, <2>6, <3>1
  <2>8. Part(rest, s, l + n)
    BY <1>4, <2>5, <2>6, <2>7 DEF Part
  <2>9. Part((rb \o got) \o rest, s, 0)
    <3>1. PICK b \in Seq(Unit) : b = rb \o got
      BY <2>4 DEF Part
    <3>2. Len(b) = l + n /\ \A i \in 1..(l + n) : b[i] = s[i]
      BY <2>4, <2>6, <3>1 DEF Part
    <3>3. /\ b \o rest \in Seq(Unit) /\ Len(b \o rest) = l + m
          /\ \A i \in 1..(l + m) :
               (b \o rest)[i] = IF i <= l + n THEN b[i] ELSE rest[i - (l + n)]
      <4>0. PICK u \in Nat : u = l + n
        OBVIOUS
      <4>5. n \in Nat /\ n <= m
        BY <2>6
      <4>6. m - n \in Nat
        BY <4>5
      <4>1. PICK v \in Nat : v = m - n
        BY <4>6
      <4>4. rest \in Seq(Unit) /\ u = Len(b) /\ v = Len(rest)
        BY <2>5, <2>6, <3>2, <4>0, <4>1
      <4>2. /\ b \o rest \in Seq(Unit) /\ Len(b \o rest) = u + v
            /\ \A i \in 1..(u + v) : (b \o rest)[i] = IF i <= u THEN b[i] ELSE rest[i - u]
        BY <4>4, JoinedUnits
      <4>3. u + v = l + m
        BY <4>0, <4>1
      <4> QED BY <4>0, <4>2, <4>3
    <3>4. ASSUME NEW i \in 1..(l + m) PROVE (b \o rest)[i] = s[i]
      <4>1. CASE i <= l + n
        BY <3>2, <3>3, <4>1
      <4>2. CASE ~(i <= l + n)
        <5>1. PICK j \in 1..(m - n) : i = j + (l + n)
          BY <4>2
        <5>2. (b \o rest)[i] = rest[j]
          BY <3>3, <4>2, <5>1
        <5> QED BY <2>7, <5>1, <5>2
      <4> QED BY <4>1, <4>2
    <3>5. Len(s) = l + m
      BY <1>4, <2>6
    <3>6. Part(b \o rest, s, 0)
      BY <3>3, <3>4, <3>5 DEF Part
    <3> QED BY <3>1, <3>6
  <2> QED BY <2>3, <2>4, <2>5, <2>6, <2>8, <2>9
<1> QED BY <1>2, <1>4, <1>5, <1>6, <1>7, <1>8, <1>9

\* A result of parse_request that is answered was read from a complete header
\* block, and an OK only with its whole body behind it.
LEMMA ParseReads ==
  ASSUME TypeOK, NEW c, Reading(c), NEW p \in parse_request(c), p.rc \in {"OK", "BAD_REQUEST"}
  PROVE  \E e \in 1..Len(c.rb), h \in HeaderReadings(c.rb) :
           /\ e = find_header_end(c.rb) /\ c.rb[e][2] = HdrLen
           /\ p.to = h.to /\ p.req = h.req
           /\ h.req.line = IF p.rc = "OK" THEN "ok" ELSE "bad"
           /\ p.rc = "OK" => Len(c.rb) - e >= h.req.body
<1> USE DEF Reading
<1>1. CASE find_header_end(c.rb) = 0
  <2>1. p = [rc |-> "INCOMPLETE", c |-> c, to |-> 0, req |-> NoRequest]
    BY <1>1 DEF parse_request
  <2> QED BY <2>1
<1>2. CASE find_header_end(c.rb) # 0
  <2>1. PICK h \in HeaderReadings(c.rb) :
          p = LET k == [c EXCEPT !.keep_alive = @ \/ h.req.keep]
                  Result(rc, left) == [rc |-> rc, c |-> left, to |-> h.to, req |-> h.req]
              IN IF h.req.line = "nul" THEN Result("ERROR", c)
                 ELSE IF h.req.line = "bad" THEN Result("BAD_REQUEST", c)
                 ELSE IF Len(c.rb) - find_header_end(c.rb) < h.req.body THEN Result("INCOMPLETE", k)
                 ELSE Result("OK", [k EXCEPT !.header_parsed = TRUE])
    BY <1>2 DEF parse_request
  <2>2. /\ h.req \in RequestRecord /\ c.rb \in Seq(Unit)
    BY <1>2, HeaderReadingType, RequestsAssumption DEF http_conn
  <2>3. PICK e : e = find_header_end(c.rb)
    OBVIOUS
  <2>4. HeaderEnds(c.rb) # {} /\ e \in HeaderEnds(c.rb)
    <3>1. HeaderEnds(c.rb) # {}
      BY <1>2 DEF find_header_end
    <3>2. PICK T : T = HeaderEnds(c.rb)
      OBVIOUS
    <3>3. T \in SUBSET Nat /\ T # {}
      BY <2>2, <3>1, <3>2 DEF HeaderEnds
    <3>4. \E f \in T : \A g \in T : f <= g
      BY <3>3, Smallest
    <3>5. e = CHOOSE f \in T : \A g \in T : f <= g
      BY <2>3, <3>1, <3>2 DEF find_header_end
    <3>6. e \in T
      BY <3>4, <3>5
    <3> QED BY <3>1, <3>2, <3>6
  <2>5. e \in 1..Len(c.rb) /\ c.rb[e][2] = HdrLen
    BY <2>4 DEF HeaderEnds
  <2>6. Len(c.rb) \in Nat /\ h.req.body \in Nat /\ h.req.line \in {"ok", "bad", "nul"}
    BY <2>2 DEF RequestRecord
  <2>7. /\ p.to = h.to /\ p.req = h.req
        /\ h.req.line = IF p.rc = "OK" THEN "ok" ELSE "bad"
        /\ p.rc = "OK" => ~(Len(c.rb) - e < h.req.body)
    BY <2>1, <2>3, <2>6
  <2> QED BY <2>3, <2>5, <2>6, <2>7
<1> QED BY <1>1, <1>2

\* It answers nobody's request, or the one the buffer starts with.
LEMMA ParseTo ==
  ASSUME TypeOK, NEW c, Reading(c), NEW p \in parse_request(c), p.rc \in {"OK", "BAD_REQUEST"}
  PROVE  /\ Len(c.rb) \in Nat \ {0}
         /\ p.to = 0 \/ (c.rb[1][2] = 1 /\ p.to = c.rb[1][1])
<1>1. PICK e \in 1..Len(c.rb), h \in HeaderReadings(c.rb) : p.to = h.to
  BY ParseReads
<1>2. c.rb \in Seq(Unit)
  BY DEF Reading, http_conn
<1>3. h.to = 0 \/ (c.rb[1][2] = 1 /\ h.to = c.rb[1][1])
  <2>1. CASE c.rb[1][2] = 1
    BY <2>1 DEF HeaderReadings
  <2>2. CASE c.rb[1][2] # 1
    BY <2>2 DEF HeaderReadings
  <2> QED BY <2>1, <2>2
<1> QED BY <1>1, <1>2, <1>3

\* What a call of handle_conn that answers leaves pending.
LEMMA SentPending ==
  ASSUME NEW c, c.rb \in Seq(Unit), NEW a, NEW rest \in Seq(Unit), Sent(c, a, rest),
         Increasing(c.rb \o rest), Increasing(rest), Unanswered(rest)'
  PROVE  /\ Increasing(Pending)'
         /\ conn'.state = "READING" => Unanswered(Pending)'
         /\ conn'.state = "WRITING" => Unanswered(inq)'
<1>1. CASE conn'.state = "CLOSED" /\ conn'.rb = <<>> /\ inq' = <<>>
  <2>1. Pending' = <<>>
    BY <1>1 DEF Pending
  <2> QED BY <1>1, <2>1 DEF Increasing
<1>2. CASE conn'.state = "WRITING" /\ conn'.rb = c.rb /\ inq' = rest
  <2>1. Pending' = c.rb \o rest
    BY <1>2 DEF Pending
  <2> QED BY <1>2, <2>1 DEF Increasing, Unanswered
<1>3. CASE conn'.state = "READING" /\ conn'.rb = <<>> /\ inq' = rest
  <2>1. Pending' = rest
    BY <1>3 DEF Pending
  <2> QED BY <1>3, <2>1 DEF Increasing, Unanswered
<1> QED BY <1>1, <1>2, <1>3 DEF Sent

LEMMA OrderInit == Init => OrderGood
<1> SUFFICES ASSUME Init PROVE OrderGood
  OBVIOUS
<1>1. answers = <<>> /\ conn.rb = <<>> /\ inq = <<>>
  BY DEF Init, accept_new
<1>2. Pending = <<>>
  BY <1>1 DEF Pending
<1> QED BY <1>1, <1>2 DEF OrderGood, AnsweredInOrder, Increasing, Unanswered

\* The server's part.
LEMMA OrderServer == IInv /\ IInv' /\ WbGood /\ OrderGood /\ Server => OrderGood'
<1> SUFFICES ASSUME IInv, IInv', WbGood, OrderGood, Server PROVE OrderGood'
  OBVIOUS
<1>1. UNCHANGED asked /\ (GivesUp \/ Waits \/ Starts \/ Continues)
  BY ServerSteps
<1>2. /\ answers \in Seq(AnswerRecord) /\ Pending \in Seq(Unit) /\ conn.rb \in Seq(Unit)
      /\ inq \in Seq(Unit) /\ FromClient(Pending) /\ TypeOK
  BY PendingParts DEF IInv, TypeOK, http_conn
<1>3. CASE GivesUp
  <2>1. Pending' = <<>>
    BY <1>3 DEF GivesUp, Pending
  <2> QED BY <1>1, <1>3, <2>1 DEF GivesUp, OrderGood, AnsweredInOrder, Increasing
<1>4. CASE Waits
  <2>1. PICK n \in 1..Len(inq) : conn'.rb = Received(n).rb /\ inq' = Rest(n)
    BY <1>4 DEF Waits
  <2>2. Part(Pending', Pending, 0)
    <3>1. Pending' = Received(n).rb \o Rest(n)
      BY <2>1 DEF Pending
    <3> QED BY <3>1, PendingParts
  <2>3. PICK s : s = Pending'
    OBVIOUS
  <2>4. Increasing(s) /\ Unanswered(s)
    BY <1>2, <1>4, <2>2, <2>3, PartKeeps DEF Waits, OrderGood
  <2>5. Increasing(Pending)' /\ Unanswered(Pending)'
    BY <1>4, <2>3, <2>4 DEF Waits, Increasing, Unanswered
  <2> QED BY <1>1, <1>4, <2>5 DEF Waits, OrderGood, AnsweredInOrder
<1>5. CASE Continues
  <2>1. /\ answers' = answers /\ Sent(conn, Len(answers), inq) /\ conn.state = "WRITING"
    BY <1>5 DEF Continues
  <2>2. Increasing(conn.rb \o inq) /\ Unanswered(inq)
    BY <2>1 DEF OrderGood, Pending
  <2>3. Increasing(inq)
    BY <1>2, <2>2, PendingParts, PartKeeps DEF Pending
  <2>4. \A a, b \in Seq(Unit) : Unanswered(a) => Unanswered(a)'
    BY <2>1 DEF Unanswered
  <2>5. PICK q \in Seq(Unit) : q = inq
    BY <1>2
  <2>6. Sent(conn, Len(answers), q) /\ Increasing(conn.rb \o q) /\ Increasing(q) /\ Unanswered(q)'
    BY <2>1, <2>2, <2>3, <2>4, <2>5
  <2>7. /\ Increasing(Pending)'
        /\ conn'.state = "READING" => Unanswered(Pending)'
        /\ conn'.state = "WRITING" => Unanswered(inq)'
    BY <1>2, <2>6, SentPending
  <2> QED BY <1>1, <2>1, <2>7 DEF OrderGood, AnsweredInOrder
<1>6. CASE Starts
  <2>1. PICK n \in 1..Len(inq) : \E p \in parse_request(Received(n)), w \in http_conn :
          /\ p.rc \in {"OK", "BAD_REQUEST"} /\ w.rb = Received(n).rb
          /\ Record(w, p.to, IF p.rc = "OK" THEN StatusOf(p.req) ELSE 400)
          /\ Sent(w, Len(answers) + 1, Rest(n))
    BY <1>6 DEF Starts
  <2>2. PICK p \in parse_request(Received(n)), w \in http_conn :
          /\ p.rc \in {"OK", "BAD_REQUEST"} /\ w.rb = Received(n).rb
          /\ Record(w, p.to, IF p.rc = "OK" THEN StatusOf(p.req) ELSE 400)
          /\ Sent(w, Len(answers) + 1, Rest(n))
    BY <2>1
  <2>3. PICK rb, rest : rb = Received(n).rb /\ rest = Rest(n)
    OBVIOUS
  <2>4. /\ Part(rb \o rest, Pending, 0) /\ Part(rb, Pending, 0)
        /\ Len(rb) = Len(conn.rb) + n /\ Part(rest, Pending, Len(conn.rb) + n)
    BY <2>3, PendingParts
  <2>5. conn.state = "READING" /\ Unanswered(Pending) /\ Increasing(Pending)
    BY <1>6 DEF Starts, OrderGood
  <2>6. /\ Len(rb) \in Nat \ {0} /\ p.to \in Nat
        /\ p.to = 0 \/ (rb[1][2] = 1 /\ p.to = rb[1][1])
    <3>1. Reading(Received(n))
      BY <2>5, ReceivedType
    <3>2. p.to \in Nat
      BY <1>2, <3>1, ParseRequest
    <3> QED BY <1>2, <2>2, <2>3, <3>1, <3>2, ParseTo
  <2>7. 1 \in 1..Len(Pending) /\ rb[1] = Pending[1]
    BY <1>2, <2>4, <2>6, SMTT(30) DEF Part
  <2>8. Pending[1][1] \in 1..Len(asked)
    BY <1>2, <2>7 DEF FromClient
  <2>9. p.to <= Len(asked) /\ \A a \in 1..Len(answers) : p.to # 0 => answers[a].to < p.to
    BY <1>2, <2>5, <2>6, <2>7, <2>8 DEF Unanswered
  <2>10. /\ Len(answers') = Len(answers) + 1 /\ answers'[Len(answers) + 1].to = p.to
         /\ \A a \in 1..Len(answers) : answers'[a] = answers[a]
    BY <1>2, <2>2 DEF Record
  <2>11. AnsweredInOrder'
    <3>1. PICK l \in Nat : l = Len(answers)
      BY <1>2
    <3>2. \A a, b \in 1..l : a < b /\ answers[a].to # 0 /\ answers[b].to # 0 =>
                            answers[a].to < answers[b].to
      BY <3>1 DEF OrderGood, AnsweredInOrder
    <3>3. ASSUME NEW a \in 1..(l + 1), NEW b \in 1..(l + 1), a < b,
                 answers'[a].to # 0, answers'[b].to # 0
          PROVE  answers'[a].to < answers'[b].to
      <4>1. a \in 1..l /\ answers'[a] = answers[a]
        BY <2>10, <3>1, <3>3
      <4>2. CASE b = l + 1
        BY <2>9, <2>10, <3>1, <3>3, <4>1, <4>2
      <4>3. CASE b # l + 1
        <5>1. b \in 1..l
          BY <4>3
        <5> QED BY <2>10, <3>1, <3>2, <3>3, <4>1, <5>1
      <4> QED BY <4>2, <4>3
    <3>4. Len(answers') = l + 1
      BY <2>10, <3>1
    <3> QED BY <3>3, <3>4 DEF AnsweredInOrder
  <2>12. \A a \in 1..Len(answers') : answers'[a].to <= Len(asked')
    BY <1>1, <1>2, <2>9, <2>10, SMTT(30) DEF OrderGood
  <2>13. Unanswered(rest)'
    <3> SUFFICES ASSUME NEW i \in 1..Len(rest), rest[i][2] = 1, NEW a \in 1..Len(answers')
                 PROVE  answers'[a].to < rest[i][1]
      BY DEF Unanswered
    <3>1. PICK k \in Nat : k = Len(conn.rb) + n /\ k >= 1
      BY <1>2
    <3>2. i + k \in 1..Len(Pending) /\ rest[i] = Pending[i + k] /\ 1 < i + k
      <4>1. Part(rest, Pending, k)
        BY <2>4, <3>1
      <4>2. PICK m \in Nat, l \in Nat : m = Len(rest) /\ l = Len(Pending)
        BY <1>2, <4>1 DEF Part
      <4>3. m # 0 => m + k <= l
        BY <4>1, <4>2 DEF Part
      <4>4. i \in 1..m
        BY <4>2
      <4>5. i + k \in 1..l /\ 1 < i + k
        BY <3>1, <4>3, <4>4
      <4> QED BY <4>1, <4>2, <4>5 DEF Part
    <3>3. Pending[i + k][1] \in 1..Len(asked) /\ Pending[1][1] < Pending[i + k][1]
      BY <1>2, <2>5, <2>7, <3>2 DEF FromClient, Increasing
    <3>4. CASE a = Len(answers) + 1
      BY <2>6, <2>7, <2>8, <2>10, <3>2, <3>3, <3>4, SMTT(30)
    <3>5. CASE a # Len(answers) + 1
      <4>1. a \in 1..Len(answers) /\ answers'[a] = answers[a]
        BY <1>2, <2>10, <3>5
      <4> QED BY <2>5, <3>2, <4>1 DEF Unanswered
    <3> QED BY <3>4, <3>5
  <2>14. Increasing(rb \o rest) /\ Increasing(rest)
    BY <1>2, <2>4, <2>5, PartKeeps
  <2>15. /\ Increasing(Pending)'
         /\ conn'.state = "READING" => Unanswered(Pending)'
         /\ conn'.state = "WRITING" => Unanswered(inq)'
    <3>1. rb \in Seq(Unit) /\ rest \in Seq(Unit) /\ w.rb = rb /\ Sent(w, Len(answers) + 1, rest)
      BY <2>2, <2>3, <2>4 DEF Part
    <3> QED BY <2>13, <2>14, <3>1, SentPending
  <2> QED BY <2>11, <2>12, <2>15 DEF OrderGood
<1> QED BY <1>1, <1>3, <1>4, <1>5, <1>6

\* The first units of request k.
FirstUnits(s, k) == s \in Seq(Unit) /\ \A i \in 1..Len(s) : s[i] = <<k, i>>

\* Sequence t is s and then the first units of request k.
GrownBy(t, s, k) == \E new : FirstUnits(new, k) /\ t = s \o new

\* Unit i of t, behind the first m, is one of request k.
IsNew(t, m, k, i) ==
  \E j \in Nat \ {0} : i = m + j /\ t[i][1] = k /\ t[i][2] = j /\ t[i] = <<k, j>>

\* What is behind s in t are units of request k.
LEMMA Behind ==
  ASSUME NEW s \in Seq(Unit), NEW k \in Nat, NEW t, GrownBy(t, s, k),
         NEW m \in Nat, m = Len(s)
  PROVE  /\ t \in Seq(Unit) /\ Len(t) \in Nat /\ m <= Len(t)
         /\ \A i \in 1..m : t[i] = s[i]
         /\ \A i \in 1..Len(t) : ~(i <= m) => IsNew(t, m, k, i)
<1>1. PICK new : FirstUnits(new, k) /\ t = s \o new
  BY DEF GrownBy
<1>2. PICK d \in Nat : d = Len(new)
  BY <1>1 DEF FirstUnits
<1>3. new \in Seq(Unit) /\ \A i \in 1..d : new[i] = <<k, i>>
  BY <1>1, <1>2 DEF FirstUnits
<1>4. /\ s \o new \in Seq(Unit) /\ Len(s \o new) = m + d
      /\ \A i \in 1..(m + d) : (s \o new)[i] = IF i <= m THEN s[i] ELSE new[i - m]
  BY <1>2, <1>3, JoinedUnits
<1>5. ASSUME NEW i \in 1..(m + d), ~(i <= m)
      PROVE  IsNew(t, m, k, i)
  <2>1. PICK j \in 1..d : i = m + j
    BY <1>5
  <2>2. i - m = j
    BY <2>1
  <2>3. t[i] = new[j]
    BY <1>1, <1>4, <1>5, <2>2
  <2>4. t[i] = <<k, j>>
    BY <1>3, <2>3
  <2> QED BY <2>1, <2>4 DEF IsNew
<1>6. ASSUME NEW i \in 1..m PROVE t[i] = s[i]
  BY <1>1, <1>4
<1>7. t \in Seq(Unit) /\ Len(t) = m + d
  BY <1>1, <1>4
<1>8. PICK n \in Nat : n = m + d
  OBVIOUS
<1>9. m <= n /\ Len(t) = n
  BY <1>7, <1>8
<1>10. \A i \in 1..n : ~(i <= m) => IsNew(t, m, k, i)
  BY <1>5, <1>8
<1>11. \A i \in 1..m : t[i] = s[i]
  BY <1>6
<1>12. /\ t \in Seq(Unit) /\ Len(t) \in Nat /\ m <= Len(t)
       /\ \A i \in 1..Len(t) : ~(i <= m) => IsNew(t, m, k, i)
  BY <1>7, <1>9, <1>10
<1> QED BY <1>11, <1>12, Zenon

LEMMA GrownJoined ==
  ASSUME NEW b \in Seq(Unit), NEW s \in Seq(Unit), NEW k, NEW t, GrownBy(t, s, k)
  PROVE  GrownBy(b \o t, b \o s, k)
<1>1. PICK new : FirstUnits(new, k) /\ t = s \o new
  BY DEF GrownBy
<1>2. new \in Seq(Unit)
  BY <1>1 DEF FirstUnits
<1>3. b \o t = (b \o s) \o new
  <2>1. (b \o s) \o new = b \o (s \o new)
    BY <1>2, ConcatAssociative
  <2> QED BY <1>1, <2>1
<1> QED BY <1>1, <1>3 DEF GrownBy

\* The first unit of a new request comes behind units of earlier requests.
LEMMA GrownKeeps ==
  ASSUME NEW s \in Seq(Unit), NEW k \in Nat, NEW t, GrownBy(t, s, k),
         \A i \in 1..Len(s) : s[i][1] < k, \A a \in 1..Len(answers) : answers[a].to < k
  PROVE  /\ Increasing(s) => Increasing(t)
         /\ Unanswered(s) => Unanswered(t)
<1>1. PICK m \in Nat : m = Len(s)
  OBVIOUS
<1>2. /\ t \in Seq(Unit) /\ Len(t) \in Nat /\ m <= Len(t)
      /\ \A i \in 1..m : t[i] = s[i]
      /\ \A i \in 1..Len(t) : ~(i <= m) => IsNew(t, m, k, i)
  BY <1>1, Behind
<1>3. PICK n \in Nat : n = Len(t) /\ m <= n
  BY <1>2
<1>4. ASSUME NEW j \in 1..n, t[j][2] = 1, ~(j <= m)
      PROVE  j = m + 1 /\ t[j][1] = k
  BY <1>2, <1>3, <1>4 DEF IsNew
<1>5. ASSUME Increasing(s), NEW i \in 1..n, NEW j \in 1..n, i < j, t[j][2] = 1
      PROVE  t[i][1] < t[j][1]
  <2>1. CASE j <= m
    <3>1. i \in 1..m /\ j \in 1..m
      BY <1>5, <2>1
    <3>2. t[i] = s[i] /\ t[j] = s[j]
      BY <1>2, <3>1
    <3>3. s[i][1] < s[j][1]
      BY <1>1, <1>5, <3>1, <3>2 DEF Increasing
    <3> QED BY <3>2, <3>3
  <2>2. CASE ~(j <= m)
    <3>1. j = m + 1 /\ t[j][1] = k
      BY <1>4, <1>5, <2>2
    <3>2. i \in 1..m
      BY <1>5, <3>1
    <3>3. t[i] = s[i]
      BY <1>2, <3>2
    <3> QED BY <1>1, <3>1, <3>2, <3>3
  <2> QED BY <2>1, <2>2
<1>6. ASSUME Unanswered(s), NEW i \in 1..n, t[i][2] = 1, NEW a \in 1..Len(answers)
      PROVE  answers[a].to < t[i][1]
  <2>1. CASE i <= m
    <3>1. i \in 1..m
      BY <2>1
    <3>2. t[i] = s[i]
      BY <1>2, <3>1
    <3>3. answers[a].to < s[i][1]
      BY <1>1, <1>6, <3>1, <3>2 DEF Unanswered
    <3> QED BY <3>2, <3>3
  <2>2. CASE ~(i <= m)
    <3>1. t[i][1] = k
      BY <1>4, <1>6, <2>2
    <3> QED BY <3>1
  <2> QED BY <2>1, <2>2
<1>7. Increasing(s) => Increasing(t)
  BY <1>3, <1>5 DEF Increasing
<1>8. Unanswered(s) => Unanswered(t)
  BY <1>3, <1>6 DEF Unanswered
<1> QED BY <1>7, <1>8

\* The client issues one more request, whose units come last.
LEMMA ClientSends ==
  ASSUME IInv, ClientSend
  PROVE  /\ Len(asked') = Len(asked) + 1 /\ Len(asked) \in Nat
         /\ asked'[Len(asked) + 1] \in Requests
         /\ \A k \in 1..Len(asked) : asked'[k] = asked[k]
         /\ GrownBy(inq', inq, Len(asked) + 1)
         /\ Len(inq') = Len(inq) + HdrLen + asked'[Len(asked) + 1].body
         /\ UNCHANGED <<peer, wire, nread, conn, answers>>
<1>1. PICK r \in Requests :
        /\ asked' = Append(asked, r)
        /\ inq' = inq \o [i \in 1..(HdrLen + r.body) |-> <<Len(asked) + 1, i>>]
  BY DEF ClientSend
<1>2. asked \in Seq(Requests) /\ inq \in Seq(Unit)
  BY DEF IInv, TypeOK
<1>3. r.body \in Nat /\ HdrLen \in Nat
  BY RequestsAssumption, BoundsAssumption DEF RequestRecord
<1>4. PICK k \in Nat, m \in Nat : k = Len(asked) + 1 /\ m = HdrLen + r.body
  BY <1>2, <1>3
<1>5. PICK l \in Nat : l = Len(inq)
  BY <1>2
<1>6. PICK new : new = [i \in 1..m |-> <<k, i>>]
  OBVIOUS
<1>7. new \in Seq(Unit) /\ Len(new) = m /\ \A i \in 1..m : new[i] = <<k, i>>
  BY <1>6 DEF Unit
<1>8. inq' = inq \o new
  BY <1>1, <1>4, <1>6
<1>9. FirstUnits(new, k)
  BY <1>7 DEF FirstUnits
<1>10. GrownBy(inq', inq, k)
  BY <1>8, <1>9 DEF GrownBy
<1>11. Len(inq') = l + m
  <2>1. Len(inq \o new) = l + m
    BY <1>2, <1>5, <1>7, JoinLength
  <2> QED BY <1>8, <2>1
<1>12. l + m = Len(inq) + HdrLen + r.body
  BY <1>3, <1>4, <1>5
<1>13. /\ Len(asked') = Len(asked) + 1 /\ Len(asked) \in Nat /\ asked'[Len(asked) + 1] = r
       /\ \A i \in 1..Len(asked) : asked'[i] = asked[i]
  BY <1>1, <1>2
<1>14. UNCHANGED <<peer, wire, nread, conn, answers>>
  BY DEF ClientSend
<1> QED BY <1>4, <1>10, <1>11, <1>12, <1>13, <1>14

\* An answer is to a request's number, or to none.
LEMMA AnswerTo ==
  ASSUME NEW s \in Seq(AnswerRecord), NEW a \in 1..Len(s)
  PROVE  s[a].to \in Nat
<1>1. s[a] \in AnswerRecord
  OBVIOUS
<1> QED BY <1>1 DEF AnswerRecord

\* The client's part.
LEMMA OrderClient == IInv /\ OrderGood /\ Client => OrderGood'
<1> SUFFICES ASSUME IInv, OrderGood, Client PROVE OrderGood'
  OBVIOUS
<1>1. UNCHANGED <<conn, answers>>
  BY DEF Client, ClientSend, ClientRead, ClientShutdown, ClientVanish
<1>2. /\ answers \in Seq(AnswerRecord) /\ Pending \in Seq(Unit) /\ conn.rb \in Seq(Unit)
      /\ inq \in Seq(Unit) /\ asked \in Seq(Requests) /\ FromClient(Pending)
  BY PendingParts DEF IInv, TypeOK, http_conn
<1>3. ASSUME NEW p, NEW q, p = Pending', q = inq',
             Increasing(p), Len(asked) <= Len(asked'), Len(asked') \in Nat,
             conn.state = "READING" => Unanswered(p), conn.state = "WRITING" => Unanswered(q)
      PROVE  OrderGood'
  <2>1. \A a \in 1..Len(answers) : answers[a].to \in Nat
    BY <1>2, AnswerTo
  <2>2. \A a \in 1..Len(answers') : answers'[a].to <= Len(asked')
    BY <1>1, <1>2, <1>3, <2>1 DEF OrderGood
  <2>3. AnsweredInOrder' /\ Increasing(Pending)'
    BY <1>1, <1>3 DEF OrderGood, AnsweredInOrder, Increasing
  <2>4. conn'.state = "READING" => Unanswered(Pending)'
    BY <1>1, <1>3 DEF Unanswered
  <2>5. conn'.state = "WRITING" => Unanswered(inq)'
    BY <1>1, <1>3 DEF Unanswered
  <2> QED BY <2>2, <2>3, <2>4, <2>5 DEF OrderGood
<1>4. CASE ClientSend
  <2>1. PICK p, q, k : p = Pending' /\ q = inq' /\ k = Len(asked) + 1
    OBVIOUS
  <2>2. GrownBy(q, inq, k) /\ Len(asked') = k /\ k \in Nat
    BY <1>2, <1>4, <2>1, ClientSends
  <2>3. GrownBy(p, Pending, k)
    <3>1. p = conn.rb \o q
      BY <1>1, <2>1 DEF Pending
    <3> QED BY <1>2, <2>2, <3>1, GrownJoined DEF Pending
  <2>4. \A i \in 1..Len(Pending) : Pending[i][1] < k
    BY <1>2, <2>1 DEF FromClient
  <2>5. \A a \in 1..Len(answers) : answers[a].to < k
    <3>1. \A a \in 1..Len(answers) : answers[a].to \in Nat
      BY <1>2, AnswerTo
    <3> QED BY <1>2, <2>1, <3>1 DEF OrderGood
  <2>6. \A i \in 1..Len(inq) : inq[i][1] < k
    BY <1>2, <2>1 DEF IInv, ReceivedWasAsked, FromClient
  <2>7. Increasing(p) /\ (Unanswered(Pending) => Unanswered(p)) /\ (Unanswered(inq) => Unanswered(q))
    BY <1>2, <2>2, <2>3, <2>4, <2>5, <2>6, GrownKeeps DEF OrderGood
  <2>8. Len(asked) <= Len(asked') /\ Len(asked') \in Nat
    BY <1>2, <2>1, <2>2
  <2> QED BY <1>3, <2>1, <2>7, <2>8 DEF OrderGood
<1>5. CASE ClientRead
  <2>1. asked' = asked /\ inq' = inq
    BY <1>5 DEF ClientRead
  <2>2. PICK p, q : p = Pending /\ q = inq
    OBVIOUS
  <2>3. p = Pending' /\ q = inq'
    BY <1>1, <2>1, <2>2 DEF Pending
  <2>4. Len(asked) <= Len(asked') /\ Len(asked') \in Nat
    BY <1>2, <2>1
  <2> QED BY <1>3, <2>2, <2>3, <2>4 DEF OrderGood
<1>6. CASE ClientShutdown \/ ClientVanish
  <2>1. asked' = asked
    BY <1>6 DEF ClientShutdown, ClientVanish
  <2>2. PICK n \in 0..Len(inq) : inq' = SubSeq(inq, 1, n)
    <3>1. CASE ClientShutdown
      BY <3>1 DEF ClientShutdown
    <3>2. CASE ClientVanish
      <4>1. inq' = SubSeq(inq, 1, 0) /\ 0 \in 0..Len(inq)
        BY <1>2, <3>2 DEF ClientVanish
      <4> QED BY <4>1
    <3> QED BY <1>6, <3>1, <3>2
  <2>3. PICK p, q : p = Pending' /\ q = inq'
    OBVIOUS
  <2>4. q = SubSeq(inq, 1, n) /\ p = conn.rb \o q
    BY <1>1, <2>2, <2>3 DEF Pending
  <2>5. Part(p, Pending, 0)
    BY <2>4, PendingParts
  <2>6. Part(q, inq, 0)
    BY <1>2, <2>4 DEF Part
  <2>7. Increasing(p) /\ (Unanswered(Pending) => Unanswered(p)) /\ (Unanswered(inq) => Unanswered(q))
    BY <1>2, <2>5, <2>6, PartKeeps DEF OrderGood
  <2>8. Len(asked) <= Len(asked') /\ Len(asked') \in Nat
    BY <1>2, <2>1
  <2> QED BY <1>3, <2>3, <2>7, <2>8 DEF OrderGood
<1> QED BY <1>4, <1>5, <1>6 DEF Client

LEMMA OrderNext == IInv /\ IInv' /\ WbGood /\ OrderGood /\ [Next]_vars => OrderGood'
<1>1. OrderGood /\ UNCHANGED vars => OrderGood'
  BY DEF OrderGood, AnsweredInOrder, Pending, Increasing, Unanswered, vars
<1> QED BY <1>1, OrderServer, OrderClient DEF Next

-----------------------------------------------------------------------------
(* A client that waits for each answer *)

\* Sequence s is the beginning of request k, or all of it.
Inside(s, k) == FirstUnits(s, k) /\ Len(s) <= HdrLen + asked[k].body

\* Nothing is asked that is not answered; or one request is, and what is
\* pending is what has come of it.
NoneOpen == Len(asked) = Len(answers) /\ Pending = <<>>
OneOpen == Len(asked) = Len(answers) + 1 /\ Inside(Pending, Len(asked))

\* What was not yet received of the request being answered is thrown away by
\* close_conn only.
SeqGood ==
  /\ EachAnswerIsToItsRequest
  /\ conn.state = "READING" => NoneOpen \/ OneOpen
  /\ conn.state = "WRITING" =>
       Len(asked) = Len(answers) /\ (conn.keep_alive => inq = <<>>)

\* Whoever has read m units, fewer than q answers have, has not read q answers.
LEMMA Whole ==
  ASSUME NEW k \in Nat \ {0}, NEW m \in Nat, NEW q \in Nat
  PROVE  /\ m \div k \in Nat
         /\ m <= k * q => m \div k <= q
         /\ m < k * q => m \div k < q
<1>1. PICK d \in Nat : d = m \div k /\ k * d <= m
  OBVIOUS
<1>2. PICK x \in Nat, y \in Nat : x = k * d /\ y = k * q
  OBVIOUS
<1>3. x <= y => d <= q
  BY <1>2
<1>4. x < y => d < q
  BY <1>2
<1> QED BY <1>1, <1>2, <1>3, <1>4

\* The client cannot have read more answers than were given, nor the one under
\* way.
LEMMA ReadWhole ==
  ASSUME IInv, StreamGood
  PROVE  /\ AnswersRead \in Nat
         /\ conn.state = "READING" => AnswersRead <= Len(answers)
         /\ conn.state = "WRITING" => AnswersRead < Len(answers)
<1>1. /\ nread \in Nat /\ Len(wire) \in Nat /\ nread <= Len(wire) /\ Len(answers) \in Nat
      /\ conn.wb_sent \in Nat /\ RespLen \in Nat \ {0}
  BY BoundsAssumption DEF IInv, TypeOK, SendBufferBounded, http_conn
<1>2. PICK k \in Nat \ {0}, a \in Nat, w \in Nat, l \in Nat :
        k = RespLen /\ a = Len(answers) /\ w = conn.wb_sent /\ l = Len(wire)
  BY <1>1
<1>3. PICK x \in Nat : x = k * a
  OBVIOUS
<1>4. CASE conn.state = "READING"
  <2>1. l + k = k * (a + 1)
    BY <1>2, <1>4 DEF StreamGood, NextIs, Holds
  <2>2. k * (a + 1) = k * a + k
    OBVIOUS
  <2>3. nread <= k * a
    BY <1>1, <1>2, <1>3, <2>1, <2>2
  <2> QED BY <1>1, <1>2, <1>4, <2>3, Whole DEF AnswersRead
<1>5. CASE conn.state = "WRITING"
  <2>1. l + k = x + w /\ w < k
    BY <1>2, <1>3, <1>5 DEF StreamGood, NextIs, Holds, Writing
  <2>2. nread < k * a
    BY <1>1, <1>2, <1>3, <2>1
  <2> QED BY <1>1, <1>2, <1>5, <2>2, Whole DEF AnswersRead
<1>6. AnswersRead \in Nat
  BY <1>1, Whole DEF AnswersRead
<1> QED BY <1>4, <1>5, <1>6

\* Part of the beginning of a request, from its first unit on, is such a
\* beginning.
LEMMA InsideKeeps ==
  ASSUME NEW k, asked[k].body \in Nat, NEW s, Inside(s, k), NEW t, Part(t, s, 0)
  PROVE  Inside(t, k)
<1>1. PICK m \in Nat, n \in Nat, b \in Nat :
        m = Len(s) /\ n = Len(t) /\ b = HdrLen + asked[k].body
  BY BoundsAssumption DEF Inside, FirstUnits, Part
<1>2. n <= m
  BY <1>1 DEF Part
<1>3. \A i \in 1..n : i \in 1..m /\ t[i] = s[i]
  BY <1>1, <1>2 DEF Part
<1>4. \A i \in 1..m : s[i] = <<k, i>>
  BY <1>1 DEF Inside, FirstUnits
<1>5. FirstUnits(t, k)
  BY <1>1, <1>3, <1>4 DEF FirstUnits, Part
<1>6. n <= b
  BY <1>1, <1>2 DEF Inside
<1> QED BY <1>1, <1>5, <1>6 DEF Inside

\* What is read in the beginning of a request is that request, and the whole of
\* it when it is accepted.
LEMMA ParseOwn ==
  ASSUME TypeOK, NEW c, Reading(c), NEW p \in parse_request(c), p.rc \in {"OK", "BAD_REQUEST"},
         NEW k \in 1..Len(asked), Inside(c.rb, k)
  PROVE  /\ p.to = k /\ p.req = asked[k]
         /\ asked[k].line = IF p.rc = "OK" THEN "ok" ELSE "bad"
         /\ p.rc = "OK" => Len(c.rb) = HdrLen + asked[k].body
<1>1. PICK e \in 1..Len(c.rb), h \in HeaderReadings(c.rb) :
        /\ c.rb[e][2] = HdrLen
        /\ p.to = h.to /\ p.req = h.req
        /\ h.req.line = IF p.rc = "OK" THEN "ok" ELSE "bad"
        /\ p.rc = "OK" => Len(c.rb) - e >= h.req.body
  BY ParseReads
<1>2. c.rb \in Seq(Unit) /\ \A i \in 1..Len(c.rb) : c.rb[i] = <<k, i>>
  BY DEF Inside, FirstUnits
<1>3. PICK l \in Nat \ {0} : l = Len(c.rb)
  BY <1>1, <1>2
<1>4. c.rb[1] = <<k, 1>> /\ c.rb[e] = <<k, e>>
  BY <1>1, <1>2, <1>3
<1>5. h = [to |-> k, req |-> asked[k]]
  BY <1>4 DEF HeaderReadings
<1>6. e = HdrLen
  BY <1>1, <1>4
<1>7. asked[k] \in RequestRecord
  BY RequestsAssumption DEF TypeOK
<1>8. PICK b \in Nat : b = asked[k].body
  BY <1>7 DEF RequestRecord
<1>9. l <= HdrLen + b
  BY <1>3, <1>8 DEF Inside
<1>10. p.rc = "OK" => l = HdrLen + b
  <2>1. h.req.body = b
    BY <1>5, <1>8
  <2>2. p.rc = "OK" => l - e >= b
    BY <1>1, <1>3, <2>1
  <2>3. PICK d \in Nat : d = HdrLen
    BY BoundsAssumption
  <2> QED BY <1>6, <1>9, <2>2, <2>3
<1> QED BY <1>1, <1>3, <1>5, <1>8, <1>10

\* The request can be answered, and the status answers it.
IsAnswered(req, status) == Answerable(req) /\ Answers(status, req)

LEMMA SeqInit == Init => SeqGood
<1> SUFFICES ASSUME Init PROVE SeqGood
  OBVIOUS
<1>1. asked = <<>> /\ answers = <<>> /\ conn.rb = <<>> /\ inq = <<>> /\ conn.state = "READING"
  BY DEF Init, accept_new
<1>2. Pending = <<>>
  BY <1>1 DEF Pending
<1> QED BY <1>1, <1>2 DEF SeqGood, EachAnswerIsToItsRequest, NoneOpen

\* The server's part.
LEMMA SeqServer == IInv /\ IInv' /\ WbGood /\ SeqGood /\ Server => SeqGood'
<1> SUFFICES ASSUME IInv, IInv', WbGood, SeqGood, Server PROVE SeqGood'
  OBVIOUS
<1>1. UNCHANGED asked /\ (GivesUp \/ Waits \/ Starts \/ Continues)
  BY ServerSteps
<1>2. /\ answers \in Seq(AnswerRecord) /\ Pending \in Seq(Unit) /\ conn.rb \in Seq(Unit)
      /\ inq \in Seq(Unit) /\ asked \in Seq(Requests) /\ TypeOK
  BY PendingParts DEF IInv, TypeOK, http_conn
<1>3. ASSUME NEW k \in 1..Len(asked) PROVE asked[k].body \in Nat
  BY <1>2, <1>3, RequestsAssumption DEF RequestRecord
<1>4. ASSUME conn.state = "READING", NEW n \in 1..Len(inq) PROVE OneOpen
  <2>1. Len(Pending) # 0
    BY <1>2, <1>4, PendingParts
  <2> QED BY <1>4, <2>1 DEF SeqGood, NoneOpen
<1>5. CASE GivesUp
  BY <1>1, <1>5 DEF GivesUp, SeqGood, EachAnswerIsToItsRequest
<1>6. CASE Waits
  <2>1. PICK n \in 1..Len(inq) : conn'.rb = Received(n).rb /\ inq' = Rest(n)
    BY <1>6 DEF Waits
  <2>2. OneOpen
    BY <1>4, <1>6 DEF Waits
  <2>3. PICK s, k : s = Pending' /\ k = Len(asked)
    OBVIOUS
  <2>4. Part(s, Pending, 0)
    <3>1. s = Received(n).rb \o Rest(n)
      BY <2>1, <2>3 DEF Pending
    <3> QED BY <3>1, PendingParts
  <2>5. Inside(s, k)
    <3>1. k \in 1..Len(asked)
      BY <1>2, <2>2, <2>3 DEF OneOpen
    <3> QED BY <1>3, <2>2, <2>3, <2>4, <3>1, InsideKeeps DEF OneOpen
  <2>6. OneOpen'
    BY <1>1, <1>6, <2>2, <2>3, <2>5 DEF OneOpen, Waits, Inside, FirstUnits
  <2>7. EachAnswerIsToItsRequest'
    BY <1>1, <1>6 DEF SeqGood, EachAnswerIsToItsRequest, Waits
  <2>8. conn'.state = "READING"
    BY <1>6 DEF Waits
  <2> QED BY <2>6, <2>7, <2>8 DEF SeqGood
<1>7. CASE Continues
  <2>1. /\ answers' = answers /\ Sent(conn, Len(answers), inq) /\ conn.state = "WRITING"
    BY <1>7 DEF Continues
  <2>2. Len(asked) = Len(answers) /\ (conn.keep_alive => inq = <<>>)
    BY <2>1 DEF SeqGood
  <2>3. EachAnswerIsToItsRequest'
    BY <1>1, <2>1 DEF SeqGood, EachAnswerIsToItsRequest
  <2>4. conn'.state = "WRITING" => conn'.keep_alive = conn.keep_alive /\ inq' = inq
    BY <2>1 DEF Sent
  <2>5. conn'.state = "READING" => conn.keep_alive /\ conn'.rb = <<>> /\ inq' = inq
    BY <2>1 DEF Sent
  <2>6. conn'.state = "READING" => Pending' = <<>>
    BY <2>2, <2>5 DEF Pending
  <2> QED BY <1>1, <2>1, <2>2, <2>3, <2>4, <2>6 DEF SeqGood, NoneOpen
<1>8. CASE Starts
  <2>1. PICK n \in 1..Len(inq) : \E p \in parse_request(Received(n)), w \in http_conn :
          /\ p.rc \in {"OK", "BAD_REQUEST"} /\ (p.rc = "BAD_REQUEST" => ~w.keep_alive)
          /\ p.rc = "OK" => Prepares(p.req)
          /\ w.rb = Received(n).rb
          /\ Record(w, p.to, IF p.rc = "OK" THEN StatusOf(p.req) ELSE 400)
          /\ Sent(w, Len(answers) + 1, Rest(n))
    BY <1>8 DEF Starts
  <2>2. PICK p \in parse_request(Received(n)), w \in http_conn :
          /\ p.rc \in {"OK", "BAD_REQUEST"} /\ (p.rc = "BAD_REQUEST" => ~w.keep_alive)
          /\ p.rc = "OK" => Prepares(p.req)
          /\ w.rb = Received(n).rb
          /\ Record(w, p.to, IF p.rc = "OK" THEN StatusOf(p.req) ELSE 400)
          /\ Sent(w, Len(answers) + 1, Rest(n))
    BY <2>1
  <2>3. conn.state = "READING" /\ OneOpen
    BY <1>4, <1>8 DEF Starts
  <2>4. PICK k \in Nat : k = Len(asked) /\ k = Len(answers) + 1 /\ k \in 1..Len(asked)
    BY <1>2, <2>3 DEF OneOpen
  <2>5. PICK rb, rest : rb = Received(n).rb /\ rest = Rest(n)
    OBVIOUS
  <2>6. /\ Part(rb, Pending, 0) /\ Len(rb) + Len(rest) = Len(Pending)
        /\ Len(rb) \in Nat /\ rest \in Seq(Unit)
    <3>1. /\ Part(rb, Pending, 0) /\ Len(rb) = Len(conn.rb) + n /\ Len(rest) = Len(inq) - n
          /\ Part(rest, Pending, Len(conn.rb) + n) /\ Len(Pending) = Len(conn.rb) + Len(inq)
      BY <2>5, PendingParts
    <3> QED BY <1>2, <3>1 DEF Part
  <2>7. Inside(rb, k) /\ Inside(Pending, k)
    BY <1>3, <2>3, <2>4, <2>6, InsideKeeps DEF OneOpen
  <2>8. /\ p.to = k /\ p.req = asked[k]
        /\ asked[k].line = IF p.rc = "OK" THEN "ok" ELSE "bad"
        /\ p.rc = "OK" => Len(rb) = HdrLen + asked[k].body
    <3>1. Reading(Received(n))
      BY <2>3, ReceivedType
    <3> QED BY <1>2, <2>2, <2>4, <2>5, <2>7, <3>1, ParseOwn
  <2>9. p.rc = "OK" => rest = <<>>
    <3>1. PICK l \in Nat, m \in Nat, b \in Nat : l = Len(rb) /\ m = Len(rest) /\ b = HdrLen + asked[k].body
      BY <1>3, <2>4, <2>6, BoundsAssumption
    <3>2. l + m <= b
      BY <2>6, <2>7, <3>1 DEF Inside
    <3>3. p.rc = "OK" => m = 0
      BY <2>8, <3>1, <3>2
    <3> QED BY <2>6, <3>1, <3>3
  <2>10. PICK status : status = IF p.rc = "OK" THEN StatusOf(p.req) ELSE 400
    OBVIOUS
  <2>11. IsAnswered(asked[k], status)
    <3>1. asked[k].route \in {"handler", "no_method", "no_path"}
      <4>1. asked[k] \in Requests
        <5>1. asked \in Seq(Requests) /\ k \in 1..Len(asked)
          BY <1>2, <2>4
        <5> QED BY <5>1
      <4>2. asked[k] \in RequestRecord
        BY <4>1, RequestsAssumption
      <4> QED BY <4>2 DEF RequestRecord
    <3> QED BY <2>2, <2>8, <2>10, <3>1 DEF IsAnswered, Answerable, Answers, StatusOf
  <2>12. /\ Len(answers') = k /\ answers'[k].to = k /\ answers'[k].status = status
         /\ \A i \in 1..(k - 1) : answers'[i] = answers[i]
    BY <1>2, <2>2, <2>4, <2>8, <2>10 DEF Record
  <2>13. EachAnswerIsToItsRequest'
    <3>1. \A i \in 1..(k - 1) :
            i <= k /\ answers[i].to = i /\ IsAnswered(asked[i], answers[i].status)
      BY <1>2, <2>4, SMTT(30) DEF SeqGood, EachAnswerIsToItsRequest, IsAnswered
    <3>2. \A i \in 1..k : i = k \/ i \in 1..(k - 1)
      OBVIOUS
    <3>3. ASSUME NEW i \in 1..k
          PROVE  i <= k /\ answers'[i].to = i /\ IsAnswered(asked[i], answers'[i].status)
      <4>1. CASE i = k
        BY <2>11, <2>12, <4>1
      <4>2. CASE i # k
        <5>1. i \in 1..(k - 1)
          BY <3>2, <4>2
        <5>2. answers'[i] = answers[i] /\ i <= k
          BY <2>12, <5>1
        <5> QED BY <3>1, <5>1, <5>2
      <4> QED BY <4>1, <4>2
    <3> QED BY <1>1, <2>4, <2>12, <3>3 DEF EachAnswerIsToItsRequest, IsAnswered
  <2>14. Sent(w, Len(answers) + 1, rest)
    BY <2>2, <2>5
  <2>15. conn'.state = "WRITING" => conn'.keep_alive = w.keep_alive /\ inq' = rest
    BY <2>14 DEF Sent
  <2>16. conn'.state = "READING" => w.keep_alive /\ conn'.rb = <<>> /\ inq' = rest
    BY <2>14 DEF Sent
  <2>17. w.keep_alive => rest = <<>>
    BY <2>2, <2>9
  <2>18. conn'.state = "READING" => Pending' = <<>>
    BY <2>16, <2>17 DEF Pending
  <2>19. Len(asked') = Len(answers')
    BY <1>1, <2>4, <2>12
  <2> QED BY <2>13, <2>15, <2>17, <2>18, <2>19 DEF SeqGood, NoneOpen
<1> QED BY <1>1, <1>5, <1>6, <1>7, <1>8

\* The client's part, when it waits for each answer.
LEMMA SeqClient ==
  ASSUME MaxInFlight = 1, IInv, StreamGood, SeqGood, Client
  PROVE  SeqGood'
<1>1. UNCHANGED <<conn, answers>>
  BY DEF Client, ClientSend, ClientRead, ClientShutdown, ClientVanish
<1>2. /\ answers \in Seq(AnswerRecord) /\ Pending \in Seq(Unit) /\ conn.rb \in Seq(Unit)
      /\ inq \in Seq(Unit) /\ asked \in Seq(Requests)
  BY PendingParts DEF IInv, TypeOK, http_conn
<1>3. CASE ClientSend
  <2>1. /\ conn.state \in {"READING", "WRITING"} /\ Len(asked) < AnswersRead + 1
    BY <1>3 DEF ClientSend, IInv, TypeOK, http_conn
  <2>2. /\ AnswersRead \in Nat
        /\ conn.state = "READING" => AnswersRead <= Len(answers)
        /\ conn.state = "WRITING" => AnswersRead < Len(answers)
    BY ReadWhole
  <2>3. conn.state = "READING" /\ NoneOpen
    BY <1>2, <2>1, <2>2 DEF SeqGood, OneOpen
  <2>4. PICK q, k : q = inq' /\ k = Len(asked) + 1 /\ k \in Nat
    BY <1>2
  <2>5. /\ Len(asked') = k /\ asked'[k] \in Requests
        /\ \A i \in 1..(k - 1) : asked'[i] = asked[i]
        /\ GrownBy(q, inq, k) /\ Len(q) = Len(inq) + HdrLen + asked'[k].body
    BY <1>2, <1>3, <2>4, ClientSends
  <2>6. conn.rb = <<>> /\ inq = <<>>
    <3>1. Len(conn.rb) + Len(inq) = 0
      BY <2>3, PendingParts DEF NoneOpen
    <3> QED BY <1>2, <3>1
  <2>7. PICK new : FirstUnits(new, k) /\ q = inq \o new
    BY <2>5 DEF GrownBy
  <2>8. q = new /\ conn.rb \o q = new
    BY <2>6, <2>7 DEF FirstUnits
  <2>9. Pending' = q
    BY <1>1, <2>4, <2>8 DEF Pending
  <2>10. Len(q) <= HdrLen + asked'[k].body
    <3>1. asked'[k].body \in Nat /\ HdrLen \in Nat
      BY <2>5, RequestsAssumption, BoundsAssumption DEF RequestRecord
    <3>2. PICK b \in Nat : b = HdrLen + asked'[k].body
      BY <3>1
    <3>3. Len(q) = b
      <4>1. Len(inq) = 0
        BY <2>6
      <4> QED BY <2>5, <3>1, <3>2, <4>1
    <3> QED BY <3>2, <3>3
  <2>11. Inside(Pending, Len(asked))'
    BY <2>5, <2>7, <2>8, <2>9, <2>10 DEF Inside, FirstUnits
  <2>12. Len(asked') = Len(answers') + 1
    BY <1>1, <2>3, <2>4, <2>5 DEF NoneOpen
  <2>13. EachAnswerIsToItsRequest'
    <3>1. \A i \in 1..Len(answers) :
            i <= Len(asked) /\ answers[i].to = i /\ IsAnswered(asked[i], answers[i].status)
      BY DEF SeqGood, EachAnswerIsToItsRequest, IsAnswered
    <3>2. PICK a \in Nat : a = Len(answers) /\ a = k - 1
      BY <1>2, <2>3, <2>4 DEF NoneOpen
    <3>3. \A i \in 1..a :
            i <= k /\ answers[i].to = i /\ IsAnswered(asked'[i], answers[i].status)
      BY <2>4, <2>5, <3>1, <3>2
    <3> QED BY <1>1, <2>5, <3>2, <3>3 DEF EachAnswerIsToItsRequest, IsAnswered
  <2> QED BY <1>1, <2>3, <2>11, <2>12, <2>13 DEF SeqGood, OneOpen
<1>4. CASE ClientRead
  <2>1. UNCHANGED <<asked, answers, conn, inq>>
    BY <1>4 DEF ClientRead
  <2>2. EachAnswerIsToItsRequest'
    BY <2>1 DEF SeqGood, EachAnswerIsToItsRequest, Answerable, Answers, Prepares
  <2>3. (NoneOpen => NoneOpen') /\ (OneOpen => OneOpen')
    BY <2>1 DEF NoneOpen, OneOpen, Pending, Inside, FirstUnits
  <2> QED BY <2>1, <2>2, <2>3 DEF SeqGood
<1>5. CASE ClientShutdown \/ ClientVanish
  <2>1. asked' = asked
    BY <1>5 DEF ClientShutdown, ClientVanish
  <2>2. PICK n \in 0..Len(inq) : inq' = SubSeq(inq, 1, n)
    <3>1. CASE ClientShutdown
      BY <3>1 DEF ClientShutdown
    <3>2. CASE ClientVanish
      <4>1. inq' = SubSeq(inq, 1, 0) /\ 0 \in 0..Len(inq)
        BY <1>2, <3>2 DEF ClientVanish
      <4> QED BY <4>1
    <3> QED BY <1>5, <3>1, <3>2
  <2>3. PICK p, k : p = Pending' /\ k = Len(asked)
    OBVIOUS
  <2>4. Part(p, Pending, 0)
    <3>1. p = conn.rb \o SubSeq(inq, 1, n)
      BY <1>1, <2>2, <2>3 DEF Pending
    <3> QED BY <3>1, PendingParts
  <2>5. ASSUME NoneOpen PROVE NoneOpen'
    <3>1. Len(p) = 0
      BY <2>4, <2>5 DEF NoneOpen, Part
    <3>2. p = <<>>
      BY <2>4, <3>1 DEF Part
    <3> QED BY <1>1, <2>1, <2>3, <2>5, <3>2 DEF NoneOpen
  <2>6. ASSUME OneOpen PROVE OneOpen'
    <3>1. asked[k].body \in Nat
      <4>1. k \in 1..Len(asked)
        BY <1>2, <2>3, <2>6 DEF OneOpen
      <4> QED BY <1>2, <4>1, RequestsAssumption DEF RequestRecord
    <3>2. Inside(p, k)
      BY <2>3, <2>4, <2>6, <3>1, InsideKeeps DEF OneOpen
    <3> QED BY <1>1, <2>1, <2>3, <2>6, <3>2 DEF OneOpen, Inside, FirstUnits
  <2>7. inq = <<>> => inq' = <<>>
    BY <2>2
  <2>8. EachAnswerIsToItsRequest'
    BY <1>1, <2>1 DEF SeqGood, EachAnswerIsToItsRequest
  <2> QED BY <1>1, <2>1, <2>5, <2>6, <2>7, <2>8 DEF SeqGood
<1> QED BY <1>3, <1>4, <1>5 DEF Client

LEMMA SeqNext ==
  MaxInFlight = 1 /\ IInv /\ IInv' /\ StreamGood /\ SeqGood /\ [Next]_vars => SeqGood'
<1>1. SeqGood /\ UNCHANGED vars => SeqGood'
  <2> SUFFICES ASSUME SeqGood, UNCHANGED vars PROVE SeqGood'
    OBVIOUS
  <2>1. EachAnswerIsToItsRequest'
    BY DEF SeqGood, EachAnswerIsToItsRequest, vars
  <2>2. (NoneOpen => NoneOpen') /\ (OneOpen => OneOpen')
    BY DEF NoneOpen, OneOpen, Pending, Inside, FirstUnits, vars
  <2> QED BY <2>1, <2>2 DEF SeqGood, vars
<1>2. StreamGood => WbGood
  BY DEF StreamGood, WbGood
<1> QED BY <1>1, <1>2, SeqServer, SeqClient DEF Next

-----------------------------------------------------------------------------
(* The exchange of Exchange.tla *)

\* What the answers announced.
Said == [a \in 1..Len(answers) |-> answers[a].conn]

\* How far the wire is once unit n of answer a is on it.
LEMMA HoldsLength ==
  ASSUME NEW a \in Nat, NEW n \in 0..RespLen, NEW l \in Nat, l + RespLen = RespLen * a + n
  PROVE  /\ RespLen * a \in Nat /\ l <= RespLen * a
         /\ l < RespLen * a <=> n < RespLen
<1>1. PICK k \in Nat : k = RespLen
  BY BoundsAssumption
<1>2. PICK q \in Nat : q = k * a
  BY <1>1
<1>3. l + k = q + n
  BY <1>1, <1>2
<1> QED BY <1>1, <1>2, <1>3

\* The next part of answer number a, sent by connection c, is a delivery of the
\* exchange, and leads to the phase the exchange says.
LEMMA SentDelivers ==
  ASSUME IInv, IInv', StreamInOrder, NEW a \in Nat \ {0}, a = Len(answers'),
         NEW c, NEW m \in 0..RespLen, m = c.wb_sent, m < RespLen, NextIs(a, m), NEW rest,
         Sent(c, a, rest), ~(peer = "gone" /\ conn'.state = "CLOSED" /\ UNCHANGED wire),
         c.keep_alive <=> answers'[a].conn = "keep-alive"
  PROVE  \E d \in Len(wire)..(RespLen * a) :
           /\ d \in 0..(RespLen * a) /\ Len(wire') = d
           /\ conn'.state = IF d < RespLen * a THEN "WRITING"
                            ELSE IF Said'[Len(Said')] = "close" THEN "CLOSED" ELSE "READING"
<1>1. PICK n \in m..RespLen :
        /\ wire' = Onto(wire, a, m, n)
        /\ conn'.state = IF n < RespLen THEN "WRITING"
                         ELSE IF c.keep_alive THEN "READING" ELSE "CLOSED"
  BY DEF Sent
<1>2. TypeOK /\ wire \in Seq(Unit) /\ wire' \in Seq(Unit)
  BY DEF IInv, TypeOK
<1>3. NextIs(a, n)' /\ n \in 0..RespLen
  <2>1. wire' = Onto(wire, a, m, n)
    BY <1>1
  <2>2. NextIs(a, n)'
    BY <1>2, <2>1, StreamGrows
  <2> QED BY <2>2, BoundsAssumption
<1>4. /\ RespLen * a \in Nat /\ Len(wire') <= RespLen * a
      /\ Len(wire') < RespLen * a <=> n < RespLen
  <2>1. a \in Nat /\ Len(wire') \in Nat /\ Len(wire') + RespLen = RespLen * a + n
    BY <1>2, <1>3 DEF NextIs, Holds
  <2> QED BY <1>3, <2>1, HoldsLength
<1>5. Len(wire) <= Len(wire')
  <2>1. Extends(Onto(wire, a, m, n), wire, a, m, n)
    <3>1. a \in Nat /\ m \in Nat /\ n \in Nat /\ m <= n /\ n <= RespLen
      BY <1>3, BoundsAssumption
    <3> QED BY <1>2, <3>1, Appended
  <2>2. Len(wire') = Len(wire) + (n - m) /\ n - m \in Nat /\ Len(wire) \in Nat
    BY <1>1, <1>2, <1>3, <2>1, BoundsAssumption DEF Extends
  <2> QED BY <2>2
<1>6. Said'[Len(Said')] = "close" <=> ~c.keep_alive
  <2>1. answers' \in Seq(AnswerRecord) /\ a \in 1..Len(answers')
    BY DEF IInv, TypeOK
  <2>2. Len(Said') = a /\ Said'[a] = answers'[a].conn /\ answers'[a] \in AnswerRecord
    BY <2>1 DEF Said
  <2> QED BY <2>2 DEF AnswerRecord
<1>7. Len(wire) \in Nat /\ Len(wire') \in Nat
  BY <1>2
<1> QED BY <1>1, <1>4, <1>5, <1>6, <1>7

\* Every step of the connection is a step of the exchange, or none.
LEMMA StepIsExchange ==
  ASSUME IInv, IInv', StreamGood, [Next]_vars
  PROVE  [Promise!Next]_(Promise!vars)
<1>1. answers \in Seq(AnswerRecord) /\ Len(answers) \in Nat /\ RespLen \in Nat \ {0}
  BY BoundsAssumption DEF IInv, TypeOK
<1>2. conn.state \in {"READING", "WRITING", "CLOSED"} /\ conn'.state \in {"READING", "WRITING", "CLOSED"}
  BY DEF IInv, TypeOK, http_conn
<1>3. CASE UNCHANGED <<conn.state, wire, answers>>
  BY <1>3 DEF Promise!vars
<1>4. CASE Client \/ UNCHANGED vars
  BY <1>3, <1>4 DEF Client, ClientSend, ClientRead, ClientShutdown, ClientVanish, vars
<1>5. ASSUME conn.state # "CLOSED", conn'.state = "CLOSED", UNCHANGED <<wire, answers>>
      PROVE  Promise!Hangup
  BY <1>2, <1>5 DEF Promise!Hangup
<1>6. CASE Server
  <2>1. GivesUp \/ Waits \/ Starts \/ Continues
    BY <1>6, ServerSteps DEF StreamGood, WbGood
  <2>2. CASE GivesUp
    BY <1>5, <2>2 DEF GivesUp, Promise!Next
  <2>3. CASE Waits
    BY <1>3, <2>3 DEF Waits
  <2>4. CASE Starts
    <3>1. PICK n, p, w :
            /\ w.wb_sent = 0 /\ w.conn_hdr = (IF w.keep_alive THEN "keep-alive" ELSE "close")
            /\ Record(w, p.to, IF p.rc = "OK" THEN StatusOf(p.req) ELSE 400)
            /\ Sent(w, Len(answers) + 1, Rest(n))
      BY <2>4 DEF Starts
    <3>2. PICK a \in Nat \ {0} : a = Len(answers) + 1
      BY <1>1
    <3>3. /\ Len(answers') = a /\ answers'[a].conn = w.conn_hdr
          /\ \A i \in 1..Len(answers) : answers'[i] = answers[i]
      BY <1>1, <3>1, <3>2 DEF Record
    <3>4. w.keep_alive <=> answers'[a].conn = "keep-alive"
      BY <3>1, <3>3
    <3>5. NextIs(a, 0) /\ StreamInOrder /\ peer # "gone" /\ conn.state = "READING"
      BY <2>4, <3>2 DEF Starts, StreamGood
    <3>6. PICK d \in Len(wire)..(RespLen * a) :
            /\ d \in 0..(RespLen * a) /\ Len(wire') = d
            /\ conn'.state = IF d < RespLen * a THEN "WRITING"
                             ELSE IF Said'[Len(Said')] = "close" THEN "CLOSED" ELSE "READING"
      <4>1. 0 \in 0..RespLen /\ 0 < RespLen /\ 0 = w.wb_sent /\ Sent(w, a, Rest(n))
        BY <1>1, <3>1, <3>2
      <4> QED BY <3>3, <3>4, <3>5, <4>1, SentDelivers
    <3>7. Said' = Append(Said, w.conn_hdr) /\ Len(Said') = a
      BY <1>1, <3>2, <3>3 DEF Said
    <3>8. w.conn_hdr \in {"keep-alive", "close"}
      BY <3>1
    <3>9. Promise!Answer
      BY <1>2, <3>5, <3>6, <3>7, <3>8 DEF Promise!Answer, Promise!Deliver, Said
    <3> QED BY <3>9 DEF Promise!Next
  <2>5. CASE Continues
    <3>1. /\ NextIs(Len(answers), conn.wb_sent) /\ answers # <<>> /\ Writing(conn, Len(answers))
          /\ StreamInOrder /\ conn.state = "WRITING" /\ answers' = answers
      BY <2>5 DEF Continues, StreamGood
    <3>2. PICK a \in Nat \ {0}, m \in 0..RespLen : a = Len(answers) /\ m = conn.wb_sent
      BY <1>1, <3>1 DEF Writing, http_conn
    <3>3. CASE peer = "gone" /\ conn'.state = "CLOSED" /\ UNCHANGED wire
      BY <1>5, <3>1, <3>3 DEF Promise!Next
    <3>4. CASE ~(peer = "gone" /\ conn'.state = "CLOSED" /\ UNCHANGED wire)
      <4>1. PICK d \in Len(wire)..(RespLen * a) :
              /\ d \in 0..(RespLen * a) /\ Len(wire') = d
              /\ conn'.state = IF d < RespLen * a THEN "WRITING"
                               ELSE IF Said'[Len(Said')] = "close" THEN "CLOSED" ELSE "READING"
        <5>1. m < RespLen /\ NextIs(a, m) /\ Sent(conn, a, inq) /\ a = Len(answers')
          BY <2>5, <3>1, <3>2 DEF Continues, Writing
        <5>2. conn.keep_alive <=> answers'[a].conn = "keep-alive"
          BY <3>1, <3>2 DEF IInv, OnlyTheLastCloses
        <5> QED BY <3>1, <3>2, <3>4, <5>1, <5>2, SentDelivers
      <4>2. Said' = Said /\ Len(Said) = a
        BY <1>1, <3>1, <3>2 DEF Said
      <4>3. Promise!Progress
        BY <1>2, <3>1, <4>1, <4>2 DEF Promise!Progress, Promise!Deliver, Said
      <4> QED BY <4>3 DEF Promise!Next
    <3> QED BY <3>3, <3>4
  <2> QED BY <2>1, <2>2, <2>3, <2>4, <2>5
<1> QED BY <1>4, <1>6 DEF Next

-----------------------------------------------------------------------------
(* Theorems *)

\* The inductive invariant holds in every reachable state.
THEOREM Invariance == Spec => []IInv
<1>1. Init => IInv
  BY InitIsGood
<1>2. IInv /\ [Next]_vars => IInv'
  BY NextIsGood
<1> QED BY <1>1, <1>2, PTL DEF Spec

\* Type correctness (struct http_conn, the socket queues and the histories).
THEOREM TypeCorrect == Spec => []TypeOK
<1>1. IInv => TypeOK
  BY DEF IInv
<1> QED BY <1>1, Invariance, PTL

\* Between two calls of handle_conn a reading connection is clean and a writing
\* one has something to write: the early return of parse_request is dead code
\* and POLLOUT is never asked for in vain, whatever the sizes and the requests.
THEOREM Clean == Spec => []CleanBetweenCalls
<1>1. IInv => CleanBetweenCalls
  BY DEF IInv
<1> QED BY <1>1, Invariance, PTL

\* Only the last response of a connection announces that it closes, and the
\* keep_alive flag agrees with what was announced.
THEOREM LastCloses == Spec => []OnlyTheLastCloses
<1>1. IInv => OnlyTheLastCloses
  BY DEF IInv
<1> QED BY <1>1, Invariance, PTL

\* The units of the responses reach the network in order, none twice and none
\* left out, however send() splits them, for every size of response and buffer.
THEOREM Stream == Spec => []StreamInOrder
<1>1. StreamGood => StreamInOrder
  BY DEF StreamGood
<1> QED BY <1>1, Invariance, StreamInit, StreamNext, PTL DEF Spec

\* No request is answered twice and none before an earlier one, even for a client
\* that pipelines and whose pipelined bytes the server throws away.
THEOREM InOrderOfTheRequests == Spec => []AnsweredInOrder
<1>1. StreamGood => WbGood
  BY DEF StreamGood, WbGood
<1>2. OrderGood => AnsweredInOrder
  BY DEF OrderGood
<1> QED BY <1>1, <1>2, Invariance, StreamInit, StreamNext, OrderInit, OrderNext, PTL DEF Spec

\* A client that waits for each answer gets, as answer number k, the answer to its
\* request number k, with the status that request deserves, however the bytes of
\* requests and responses are split on the way.
THEOREM OneByOne == ASSUME MaxInFlight = 1 PROVE Spec => []EachAnswerIsToItsRequest
<1>1. SeqGood => EachAnswerIsToItsRequest
  BY DEF SeqGood
<1>2. IInv /\ IInv' /\ StreamGood /\ SeqGood /\ [Next]_vars => SeqGood'
  BY SeqNext
<1> QED BY <1>1, <1>2, Invariance, StreamInit, StreamNext, SeqInit, PTL DEF Spec

\* The server closes a connection whose client is there and that has memory only
\* after the answer that announced it was handed to the network whole, or because
\* what it reads next cannot be answered, and then after every answer before.
THEOREM ClosesAsAnnounced == Spec => CloseOnlyWhenAnnounced
<1> DEFINE Announced ==
      conn.state # "CLOSED" /\ conn'.state = "CLOSED" /\ peer = "open" /\ ~AllocFails =>
        ClosesAfterLast \/ ClosesOnUnanswerable
<1>1. ASSUME IInv, IInv', StreamGood, [Next]_vars PROVE Announced
  <2> SUFFICES ASSUME conn.state # "CLOSED", conn'.state = "CLOSED", peer = "open", ~AllocFails
               PROVE  ClosesAfterLast \/ ClosesOnUnanswerable
    OBVIOUS
  <2>1. answers \in Seq(AnswerRecord) /\ wire \in Seq(Unit) /\ RespLen \in Nat \ {0}
    BY <1>1, BoundsAssumption DEF IInv, TypeOK
  <2>2. Server
    BY <1>1 DEF Next, Client, ClientSend, ClientRead, ClientShutdown, ClientVanish, vars
  <2>3. GivesUp \/ Starts \/ Continues
    BY <1>1, <2>2, ServerSteps DEF StreamGood, WbGood, Waits
  <2>4. CASE Starts
    <3>1. PICK n, p, w :
            /\ w.wb_sent = 0 /\ w.conn_hdr = (IF w.keep_alive THEN "keep-alive" ELSE "close")
            /\ Record(w, p.to, IF p.rc = "OK" THEN StatusOf(p.req) ELSE 400)
            /\ Sent(w, Len(answers) + 1, Rest(n))
      BY <2>4 DEF Starts
    <3>2. /\ wire' = Onto(wire, Len(answers) + 1, 0, RespLen)
          /\ ~w.keep_alive
      BY <3>1 DEF Sent
    <3>3. PICK a \in Nat \ {0} : a = Len(answers) + 1
      BY <2>1
    <3>4. NextIs(a, 0) /\ StreamInOrder /\ TypeOK
      BY <1>1, <2>4, <3>3 DEF Starts, StreamGood, IInv
    <3>5. 0 \in 0..RespLen /\ 0 < RespLen /\ RespLen \in 0..RespLen
      BY <2>1
    <3>6. Len(wire') = RespLen * a
      BY <3>2, <3>3, <3>4, <3>5, StreamGrows
    <3>7. Len(answers') = a /\ answers' # <<>> /\ answers'[Len(answers')].conn = w.conn_hdr
      BY <2>1, <3>1, <3>3 DEF Record
    <3> QED BY <3>1, <3>2, <3>6, <3>7 DEF ClosesAfterLast
  <2>5. CASE Continues
    <3>1. /\ NextIs(Len(answers), conn.wb_sent) /\ answers # <<>> /\ Writing(conn, Len(answers))
          /\ StreamInOrder /\ TypeOK
      BY <1>1, <2>5 DEF Continues, StreamGood, IInv
    <3>2. /\ wire' = Onto(wire, Len(answers), conn.wb_sent, RespLen)
          /\ ~conn.keep_alive /\ answers' = answers
      BY <2>5 DEF Continues, Sent
    <3>3. PICK a \in Nat \ {0}, m \in 0..RespLen : a = Len(answers) /\ m = conn.wb_sent
      BY <2>1, <3>1 DEF Writing, http_conn
    <3>4. m < RespLen /\ NextIs(a, m) /\ RespLen \in m..RespLen /\ wire' = Onto(wire, a, m, RespLen)
      BY <2>1, <3>1, <3>2, <3>3 DEF Writing
    <3>5. Len(wire') = RespLen * a
      BY <3>1, <3>4, StreamGrows
    <3>6. answers[Len(answers)].conn = "close"
      <4>1. answers[Len(answers)] \in AnswerRecord
        BY <2>1, <3>3
      <4>2. answers[Len(answers)].conn # "keep-alive"
        BY <1>1, <2>5, <3>2 DEF IInv, OnlyTheLastCloses, Continues
      <4> QED BY <4>1, <4>2 DEF AnswerRecord
    <3> QED BY <3>1, <3>2, <3>3, <3>5, <3>6 DEF ClosesAfterLast
  <2>6. CASE GivesUp
    <3>1. conn.state = "READING" /\ NextIsUnanswerable /\ UNCHANGED <<wire, answers>>
      BY <2>6 DEF GivesUp
    <3>2. Holds(Len(answers) + 1, 0)
      BY <1>1, <3>1 DEF StreamGood, NextIs
    <3>3. PICK a \in Nat, l \in Nat : a = Len(answers) /\ l = Len(wire)
      BY <2>1
    <3>4. l + RespLen = RespLen * (a + 1) + 0
      BY <3>2, <3>3 DEF Holds
    <3>5. RespLen * (a + 1) = RespLen * a + RespLen
      BY <2>1
    <3>6. RespLen * a \in Nat
      BY <2>1
    <3>7. l = RespLen * a
      BY <2>1, <3>4, <3>5, <3>6
    <3> QED BY <3>1, <3>3, <3>7 DEF ClosesOnUnanswerable
  <2> QED BY <2>3, <2>4, <2>5, <2>6
<1> QED BY <1>1, Invariance, StreamInit, StreamNext, PTL DEF Spec, CloseOnlyWhenAnnounced

\* The connection implements the exchange: what its client sees is one answer
\* after the other, each delivered whole before the next begins, and closed or
\* kept open as announced, however the bytes are split on the way.
THEOREM Implements == Spec => ImplementsExchange
<1>1. Init => Promise!Init
  <2> SUFFICES ASSUME Init PROVE Promise!Init
    OBVIOUS
  <2>1. conn.state = "READING" /\ answers = <<>> /\ wire = <<>>
    BY DEF Init, accept_new
  <2>2. [a \in 1..Len(answers) |-> answers[a].conn] = <<>>
    BY <2>1
  <2> QED BY <2>1, <2>2 DEF Promise!Init
<1> QED BY <1>1, Invariance, StreamInit, StreamNext, StepIsExchange, PTL
        DEF Spec, ImplementsExchange, Promise!Spec
=============================================================================

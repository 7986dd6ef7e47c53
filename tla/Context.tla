------------------------------ MODULE Context -------------------------------
(***************************************************************************)
(* What an http_ctx_t owns and gives back: the descriptors, the route      *)
(* table, the connection and every block of its request and response,      *)
(* while any allocation may fail.  A block is named after the pointer that *)
(* holds it; hstrings and rstrings are the strings of the headers.  There  *)
(* is one connection at a time, for connections share no block, and of a   *)
(* request only what decides the allocations is kept.  Timers are in       *)
(* Timers; setting the status or ending a response allocates nothing.      *)
(***************************************************************************)
EXTENDS Integers, FiniteSets, SequencesExt

CONSTANTS MAX_LISTENERS, INITIAL_ROUTE_CAPACITY,
          Descriptors,                 \* what socket and accept can return
          Patterns,                    \* the patterns of routes
          MaxRoutes, MaxServing,       \* bounds on the routes: of all, when accepting
          MaxRequests, MaxConnections  \* bounds on what arrives

(* "*" is the pattern under which http_listen registers its own routes.    *)
ASSUME ContextAssumption ==
  /\ MAX_LISTENERS \in Nat /\ INITIAL_ROUTE_CAPACITY \in Nat \ {0}
  /\ Descriptors \subseteq Nat /\ "*" \notin Patterns
  /\ {MaxRoutes, MaxServing, MaxRequests, MaxConnections} \subseteq Nat

Hooked == {"conn", "peer", "headers"}    \* allocated by http_malloc
RequestParts == {"method", "path", "query", "headers", "hstrings", "body"}
ConnBlocks == RequestParts \cup
              {"conn", "peer", "rb", "wb", "rheaders", "rstrings", "ri", "bodybuf"}
Blocks == ConnBlocks \cup {"ctx", "routes", "m", "p", "hdr_block"}

VARIABLES ctx,        \* what http_init returned: NULL, in use or freed
          open,       \* the descriptors the process has open
          listen_fds, routes, route_cap,
          mem,        \* the memory: see Memory
          conn,       \* the connection: see Connection
          metrics,    \* the counters and what they should add up to
          past        \* what has happened after which blocks may be lost

vars == <<ctx, open, listen_fds, routes, route_cap, mem, conn, metrics, past>>
table == <<listen_fds, routes, route_cap>>

-----------------------------------------------------------------------------
(* ptr: what each pointer points to; lost: the blocks no pointer holds any *)
(* more; twice: whether a block was freed twice; alien: the blocks freed   *)
(* by another allocator than their own when the embedder brings one.       *)
Memory == [ptr : [Blocks -> {"null", "live", "freed"}], lost : SUBSET Blocks,
           twice : BOOLEAN, alien : SUBSET Blocks]

Live(m) == {k \in Blocks : m.ptr[k] = "live"}

\* Pointers are set to NULL, or where ok to a new block.
Store(m, ks, ok) ==
  [m EXCEPT !.ptr = [k \in Blocks |-> IF k \in ks THEN IF ok THEN "live" ELSE "null"
                                      ELSE @[k]],
            !.lost = @ \cup (ks \cap Live(m))]

\* A block is allocated or grows in place, or joins those the pointer stands for.
Extend(m, k) == [m EXCEPT !.ptr[k] = "live"]

\* free, which leaves the pointers as they are.
Free(m, ks, allocator) ==
  [m EXCEPT !.ptr = [k \in Blocks |-> IF k \in ks \cap Live(m) THEN "freed" ELSE @[k]],
            !.twice = @ \/ \E k \in ks : m.ptr[k] = "freed",
            !.alien = @ \cup {k \in ks \cap Live(m) : (allocator = "hook") # (k \in Hooked)}]

Release(m, ks, allocator) == Store(Free(m, ks, allocator), ks, FALSE)

(* What a call may leave and return.  Then: goes on only after "ok".       *)
Result(m, r) == [mem |-> m, ret |-> r]
Then(results, Step(_)) ==
  UNION {IF res.ret = "ok" THEN Step(res.mem) ELSE {res} : res \in results}
Allocate(m, k) == {Result(Store(m, {k}, TRUE), "ok"), Result(Store(m, {k}, FALSE), "error")}
Grow(m, k) == {Result(Extend(m, k), "ok"), Result(m, "error")}

-----------------------------------------------------------------------------
(* A request: whether its line can be read and its version is known; its   *)
(* header lines, which are skipped without a colon; keep: a header         *)
(* Connection: keep-alive.                                                 *)
Request ==
  {r \in [line : {"good", "malformed", "version"}, query : BOOLEAN,
          headers : {"none", "skipped", "copied"}, body : BOOLEAN, keep : BOOLEAN,
          route : {"handler", "none"}] :
     /\ r.keep \/ r.body => r.headers = "copied"
     /\ r.line # "good" => r.headers = "none" /\ r.route = "none"
     /\ r.line = "malformed" => ~r.query}
NoRequest == [line |-> "none", query |-> FALSE, headers |-> "none", body |-> FALSE,
              keep |-> FALSE, route |-> "none"]

(* req: the request whose body is awaited.                                 *)
Connection ==
  [state : {"none", "reading", "handler", "writing"}, fd : Descriptors \cup {0},
   req : Request \cup {NoRequest}, keep : BOOLEAN]
NoConn == [state |-> "none", fd |-> 0, req |-> NoRequest, keep |-> FALSE]

(* The counters of http_metrics_t, and besides: the requests answered with *)
(* 400, which are not counted; whether an answer is owed, and whether it   *)
(* was when the counters were reset; answers that were never sent whole;   *)
(* and what the bounds count.                                              *)
Metrics ==
  [total_requests : Nat, total_responses : Nat, active_connections : 0..1,
   bad : Nat, owed : 0..1, carried : 0..1, dropped : Nat,
   accepted : 0..MaxConnections, arrived : 0..MaxRequests]

TypeOK ==
  /\ ctx \in {"null", "up", "freed"}
  /\ open \subseteq Descriptors
  /\ listen_fds \in Seq(Descriptors) /\ Len(listen_fds) <= MAX_LISTENERS
  /\ routes \in Seq(Patterns \cup {"*"}) /\ route_cap \in Nat
  /\ mem \in Memory /\ conn \in Connection /\ metrics \in Metrics
  /\ past \subseteq {"closed", "reparsed"}

Init ==
  /\ ctx = "null" /\ open = {} /\ listen_fds = <<>> /\ routes = <<>> /\ route_cap = 0
  /\ mem = [ptr |-> [k \in Blocks |-> "null"], lost |-> {}, twice |-> FALSE, alien |-> {}]
  /\ conn = NoConn
  /\ metrics = [total_requests |-> 0, total_responses |-> 0, active_connections |-> 0,
                bad |-> 0, owed |-> 0, carried |-> 0, dropped |-> 0,
                accepted |-> 0, arrived |-> 0]
  /\ past = {}

-----------------------------------------------------------------------------
(* The context, its routes and its listeners.                              *)

http_init ==
  /\ ctx = "null"
  /\ \E res \in Then(Allocate(mem, "ctx"), LAMBDA m : Allocate(m, "routes")) :
       IF res.ret = "ok"
       THEN ctx' = "up" /\ mem' = res.mem /\ route_cap' = INITIAL_ROUTE_CAPACITY
       ELSE mem' = Release(res.mem, {"ctx"}, "libc") /\ UNCHANGED <<ctx, route_cap>>
  /\ UNCHANGED <<open, listen_fds, routes, conn, metrics, past>>

(* A full table grows first, and stays grown when a name cannot be copied. *)
GrownCapsLate(cap) == IF Len(routes) > cap THEN {2 * cap} ELSE {cap}    \* Mutant: off by one.
GrownCaps(cap) == IF Len(routes) >= cap THEN {2 * cap} ELSE {cap}

\* What registering may leave: the routes, the capacity, the memory.
RegisterResults(pattern) ==
  LET Failed(cap, m) == [routes |-> routes, cap |-> cap, mem |-> m, ret |-> "error"]
      Copied(cap) ==
        {IF mc /\ pc THEN [routes |-> Append(routes, pattern), cap |-> cap, mem |-> mem, ret |-> "ok"]
         ELSE Failed(cap, Release(Store(Store(mem, {"m"}, mc), {"p"}, pc), {"m", "p"}, "libc")) :
           mc \in BOOLEAN, pc \in BOOLEAN}
  IN (UNION {Copied(cap) : cap \in GrownCaps(route_cap)})
     \cup (IF Len(routes) >= route_cap THEN {Failed(route_cap, mem)} ELSE {})

http_register_route(pattern) ==
  \E res \in RegisterResults(pattern) :
    /\ routes' = res.routes /\ route_cap' = res.cap /\ mem' = res.mem
    /\ UNCHANGED <<ctx, open, listen_fds, conn, metrics, past>>

Unused == {d \in Descriptors \ open : \A e \in Descriptors \ open : d <= e}

(* Sockets that cannot be bound are closed again, whichever of the         *)
(* addresses they were for.                                                *)
create_and_bind == {-1} \cup Unused

TooMany == Len(listen_fds) >= MAX_LISTENERS

(* The route "*" is registered last; without it the listener is taken back. *)
NotTakenBack(fds) == fds    \* Mutant: listen_count-- is forgotten.
TakenBack(fds) == Front(fds)

http_listen ==
  /\ IF TooMany
     THEN UNCHANGED <<open, listen_fds, routes, route_cap, mem>>
     ELSE \E fd \in create_and_bind, listens \in BOOLEAN :
            IF fd < 0 \/ ~listens THEN UNCHANGED <<open, listen_fds, routes, route_cap, mem>>
            ELSE \E res \in RegisterResults("*") :
                   LET published == Append(listen_fds, fd)
                   IN /\ routes' = res.routes /\ route_cap' = res.cap /\ mem' = res.mem
                      /\ IF res.ret = "ok"
                         THEN open' = open \cup {fd} /\ listen_fds' = published
                         ELSE open' = open /\ listen_fds' = TakenBack(published)
  /\ UNCHANGED <<ctx, conn, metrics, past>>

\* From the embedder's code: before the loop, in a callback or in a handler.
Embedder == ctx = "up" /\ conn.state \in {"none", "handler"}
RegisterRoute == /\ Embedder /\ Len(routes) < MaxRoutes
                 /\ \E pattern \in Patterns : http_register_route(pattern)
Listen == Embedder /\ Len(routes) < MaxRoutes /\ http_listen

\* Mutant: the responses are left as they are.
ResetForgetsResponses ==
  /\ ctx = "up"
  /\ metrics' = [metrics EXCEPT !.total_requests = 0, !.bad = 0, !.dropped = 0,
                                !.carried = metrics.owed]
  /\ UNCHANGED <<ctx, open, table, mem, conn, past>>

\* active_connections remains current.
ResetMetrics ==
  /\ ctx = "up"
  /\ metrics' = [metrics EXCEPT !.total_requests = 0, !.total_responses = 0,
                                !.bad = 0, !.dropped = 0, !.carried = metrics.owed]
  /\ UNCHANGED <<ctx, open, table, mem, conn, past>>

-----------------------------------------------------------------------------
(* http_parser.c: what parsing allocates.  A request whose body is not     *)
(* there yet is parsed anew with each recv, over what it left before.      *)

parse_request_line(m, r) ==
  IF r.line = "malformed" THEN {Result(m, "bad")}
  ELSE Then(Allocate(m, "method"), LAMBDA n :
         {Result(Store(Store(n, {"path"}, p), {"query"}, r.query /\ q),
                 IF ~p \/ (r.query /\ ~q) THEN "error"
                 ELSE IF r.line = "version" THEN "bad" ELSE "ok") :
            p \in BOOLEAN, q \in BOOLEAN})

(* The array is all that held the former strings.                          *)
parse_headers(m, r) ==
  Then(Allocate(Store(m, {"hstrings"}, FALSE), "headers"), LAMBDA n :
    CASE r.headers = "copied" -> {Result(Extend(n, "hstrings"), "ok"), Result(n, "error"),
                                  Result(Extend(n, "hstrings"), "error")}
      [] OTHER -> {Result(n, "ok")})

parse_body(m, r, whole) ==
  CASE ~whole -> {Result(m, "incomplete")}
    [] r.body -> Allocate(m, "body")
    [] OTHER  -> {Result(m, "ok")}

parse_request(m, r, whole) ==
  LET Parsed == Then(Allocate(m, "hdr_block"), LAMBDA a :
                  Then(parse_request_line(a, r), LAMBDA b :
                    Then(parse_headers(b, r), LAMBDA c : parse_body(c, r, whole))))
  IN {Result(Release(res.mem, {"hdr_block"}, "libc"), res.ret) : res \in Parsed}

-----------------------------------------------------------------------------
(* http_response.c: what making an answer allocates.                       *)

http_response_free(m) ==
  Release(m, {"rstrings", "rheaders", "bodybuf", "ri"}, "libc")

\* Mutant: what the response held is not freed first.
InitForgetsFormer(m) == {Store(m, {"rheaders", "ri"}, ok) : ok \in BOOLEAN}
http_response_init(m) ==
  {Store(http_response_free(m), {"ri"}, ok) : ok \in BOOLEAN}

(* An entry counts although one of its strings or both could not be copied. *)
http_response_add_header(m) ==
  {m, Extend(m, "rheaders"), Extend(Extend(m, "rheaders"), "rstrings")}

http_response_write_body(m) ==
  IF m.ptr["ri"] = "null" THEN {Result(m, "error")} ELSE Grow(m, "bodybuf")

(* It may also fail for a status line or a header that is too long.        *)
prepare_response(m) ==
  Then(Grow(m, "wb") \cup {Result(Extend(m, "wb"), "error")}, LAMBDA n :
       {Result(Release(n, {"bodybuf"}, "libc"), "ok")})

queue_error_response(m) ==
  Then(UNION {http_response_write_body(n) :
                n \in UNION {http_response_add_header(i) : i \in http_response_init(m)}},
       prepare_response)

-----------------------------------------------------------------------------
(* http.c: the connection.                                                 *)

Goes(state, keep) == [conn EXCEPT !.state = state, !.req = NoRequest, !.keep = keep]

Leave(m, met, c, events) ==
  /\ mem' = m /\ metrics' = met /\ conn' = c /\ past' = past \cup events
  /\ UNCHANGED <<ctx, open, table>>

(* What is left in the connection when it is freed is lost.                *)
Closed(m) ==
  LET buffers   == Release(m, {"rb", "wb"}, "libc")
      request   == Release(buffers, {"headers", "peer"}, "hook")
      response  == http_response_free(request)
  IN Store(Release(response, {"conn"}, "hook"), ConnBlocks, FALSE)

close_conn(m, met, events) ==
  /\ mem' = Closed(m) /\ conn' = NoConn /\ open' = open \ {conn.fd}
  /\ metrics' = [met EXCEPT !.active_connections = @ - 1,
                            !.dropped = @ + met.owed, !.owed = 0]
  /\ past' = past \cup events \cup {"closed"}
  /\ UNCHANGED <<ctx, table>>

(* accept_new: without memory for a connection the descriptor is closed; a *)
(* connection goes without an address, or without ri.                      *)
accept_new ==
  /\ ctx = "up" /\ conn = NoConn /\ listen_fds # <<>>
  /\ metrics.accepted < MaxConnections /\ Len(routes) <= MaxServing
  /\ \E fd \in Unused, res \in Allocate(mem, "conn") :
       \/ /\ res.ret = "error" /\ mem' = res.mem
          /\ open' = (open \cup {fd}) \ {fd}
          /\ UNCHANGED <<conn, metrics>>
       \/ /\ res.ret = "ok"
          /\ \E m \in http_response_init(res.mem), peer \in BOOLEAN :
               mem' = Store(m, {"peer"}, peer)
          /\ open' = open \cup {fd}
          /\ conn' = [NoConn EXCEPT !.state = "reading", !.fd = fd]
          /\ metrics' = [metrics EXCEPT !.active_connections = @ + 1, !.accepted = @ + 1]
  /\ UNCHANGED <<ctx, table, past>>

\* Mutant: the pointer to the header array stays.
ResetForgetsHeaders(m) ==
  LET request == Store(Free(Release(m, {"rb"}, "libc"), RequestParts, "libc"),
                       RequestParts \ {"headers"}, FALSE)
  IN Release(request, {"wb"}, "libc")

(* send_response, when all has been sent and the connection is kept.       *)
Reset(m) ==
  LET request == Store(Free(Release(m, {"rb"}, "libc"), RequestParts, "libc"),
                       RequestParts, FALSE)
  IN Release(request, {"wb"}, "libc")

(* send_response: all of it, some of it, or an error.                      *)
send_response(m, met, keep, events) ==
  \/ Leave(m, met, Goes("writing", keep), events)
  \/ close_conn(m, met, events)
  \/ LET n    == Release(m, {"bodybuf", "ri"}, "libc")
         sent == [met EXCEPT !.total_responses = @ + 1, !.owed = 0]
     IN IF keep THEN Leave(Reset(n), sent, Goes("reading", keep), events)
        ELSE close_conn(n, sent, events)

\* handle_conn: the peer has closed, recv fails or rb cannot grow.
HandleHangup == conn.state = "reading" /\ close_conn(mem, metrics, {})

\* handle_conn: the header has not ended.
HandleMore ==
  /\ conn.state = "reading" /\ conn.req = NoRequest
  /\ Leave(Extend(mem, "rb"), metrics, conn, {})

(* handle_conn with all of a header: the 400 is sent by a later call, the  *)
(* 404 or 405 by this one.                                                 *)
Respond(r, res, events) ==
  LET keep    == conn.keep \/ r.keep
      bad     == [metrics EXCEPT !.bad = @ + 1, !.owed = 1, !.arrived = @ + 1]
      counted == [metrics EXCEPT !.total_requests = @ + 1, !.owed = 1, !.arrived = @ + 1]
  IN CASE res.ret = "incomplete" ->
            Leave(res.mem, metrics, [conn EXCEPT !.req = r, !.keep = keep], events)
       [] res.ret = "error" -> close_conn(res.mem, metrics, events)
       [] res.ret = "bad" ->
            \E answer \in queue_error_response(res.mem) :
              IF answer.ret = "ok" THEN Leave(answer.mem, bad, Goes("writing", FALSE), events)
              ELSE close_conn(answer.mem, bad, events)
       [] res.ret = "ok" /\ r.route = "none" ->
            \E answer \in queue_error_response(res.mem) :
              IF answer.ret = "ok" THEN send_response(answer.mem, counted, FALSE, events)
              ELSE close_conn(answer.mem, counted, events)
       [] OTHER ->
            \E m \in http_response_init(res.mem) :
              Leave(m, counted, Goes("handler", keep), events)

HandleRead ==
  /\ conn.state = "reading" /\ metrics.arrived < MaxRequests
  /\ \E r \in IF conn.req = NoRequest THEN Request ELSE {conn.req}, whole \in BOOLEAN :
       /\ ~r.body => whole
       /\ \E res \in parse_request(Extend(mem, "rb"), r, whole) :
            Respond(r, res, IF conn.req = NoRequest THEN {} ELSE {"reparsed"})

HandleWrite == conn.state = "writing" /\ send_response(mem, metrics, conn.keep, {})

\* The handler uses the response API, as often as it likes.  It does not call
\* http_request_free on its request, whose parts the reset or http_free would free
\* again (http_response.c:56-72): a handler need not, README.md:584-587 says.
HandlerCall ==
  /\ conn.state = "handler"
  /\ mem' \in http_response_init(mem) \cup http_response_add_header(mem)
              \cup {http_response_free(mem)}
              \cup {res.mem : res \in http_response_write_body(mem)}
  /\ UNCHANGED <<ctx, open, table, conn, metrics, past>>

\* handle_conn, from where the handler returns.
HandlerReturns ==
  /\ conn.state = "handler"
  /\ \E answer \in prepare_response(mem) :
       IF answer.ret = "ok" THEN send_response(answer.mem, metrics, conn.keep, {})
       ELSE close_conn(answer.mem, metrics, {})

Everything == {listen_fds[i] : i \in 1..Len(listen_fds)} \cup {conn.fd}

(* Everything is closed: the listeners, the connection, the routes.        *)
http_free ==
  /\ ctx = "up" /\ conn.state # "handler"
  /\ LET gone == conn # NoConn
     IN /\ mem' = Release(IF gone THEN Closed(mem) ELSE mem, {"routes", "ctx"}, "libc")
        /\ past' = IF gone THEN past \cup {"closed"} ELSE past
        /\ metrics' = [metrics EXCEPT !.active_connections = 0,
                                      !.dropped = @ + metrics.owed, !.owed = 0]
  /\ ctx' = "freed" /\ conn' = NoConn
  /\ open' = open \ Everything
  /\ listen_fds' = <<>> /\ routes' = <<>> /\ route_cap' = 0

Next == http_init \/ RegisterRoute \/ Listen \/ ResetMetrics \/ accept_new \/ HandleHangup
        \/ HandleMore \/ HandleRead \/ HandleWrite \/ HandlerCall \/ HandlerReturns \/ http_free

Spec == Init /\ [][Next]_vars

-----------------------------------------------------------------------------
(* Nothing is freed twice, no pointer that is still read dangles, and each *)
(* block is freed by the allocator it came from but for the header array   *)
(* of a kept connection, which http_malloc allocated and free gets         *)
(* (http_response.c:69): over the frees of close_conn, send_response,      *)
(* http_response_init and -free, on every path on which an allocation      *)
(* failed.                                                                 *)
MemoryIsSafe ==
  /\ TypeOK
  /\ ~mem.twice /\ \A k \in Blocks : mem.ptr[k] # "freed"
  /\ mem.alien \subseteq {"headers"}

(* Until a connection is closed or a request is parsed a second time no    *)
(* block is lost, whatever allocations fail; then only parts of requests   *)
(* are (http.c:206-229, http_parser.c:189), and the header array only by   *)
(* parsing again.  After http_free no other block is left.                 *)
LossesAreExcused ==
  /\ mem.lost \subseteq RequestParts
  /\ past = {} => mem.lost = {}
  /\ "headers" \in mem.lost => "reparsed" \in past
  /\ ctx = "freed" => Live(mem) = {}

(* Every open descriptor is a listener's or the connection's, and those    *)
(* are open and differ: also when the catch-all route of a listener could  *)
(* not be registered (http.c:492-497), and after http_free.                *)
DescriptorsAreOwned ==
  LET owned == {listen_fds[i] : i \in DOMAIN listen_fds}
               \cup (IF conn = NoConn THEN {} ELSE {conn.fd})
  IN /\ open = owned
     /\ Cardinality(owned) = Len(listen_fds) + (IF conn = NoConn THEN 0 ELSE 1)

(* The table holds its routes, also after it could grow but a name could   *)
(* not be copied; each listener has its catch-all route, and no failed     *)
(* http_listen or http_register_route leaves one behind                    *)
(* (http_support.c:85-111, http.c:492-497).                                *)
RoutesAreKept ==
  /\ Len(routes) <= route_cap
  /\ Cardinality({i \in DOMAIN routes : routes[i] = "*"}) = Len(listen_fds)

(* Every request counted or refused with 400 is being answered, has been   *)
(* or never will be, over a reset of the counters as well                  *)
(* (http.c:332, http_response.c:43, http_support.c:251-262).               *)
CountersAddUp ==
  metrics.total_requests + metrics.bad + metrics.carried
    = metrics.total_responses + metrics.dropped + metrics.owed

(* include/http/http.h:63: "Free context and all associated resources".    *)
FreesAllResources == ctx = "freed" => mem.lost = {}
=============================================================================

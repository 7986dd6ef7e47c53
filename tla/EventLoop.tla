----------------------------- MODULE EventLoop ------------------------------
(***************************************************************************)
(* The single-threaded event loop of libs/http: http_run, http_poll,       *)
(* accept_new, close_conn, http_stop and http_free, down to the pointers   *)
(* of the connection list ctx->conns and the index into the pollfd array.  *)
(*                                                                         *)
(* Between any two steps of the server the kernel and the clients may act. *)
(* What handle_conn does to one connection is module Connection; here a    *)
(* call has one of the outcomes that module allows.                        *)
(***************************************************************************)
EXTENDS Integers, Sequences, FiniteSets

CONSTANTS
  Conn,        \* addresses malloc may return for an http_conn_t
  NULL,        \* the null pointer
  NListen,     \* ctx->listen_count
  MaxBacklog   \* bound: clients waiting in a listener's accept queue

ASSUME ConnAssumption == IsFiniteSet(Conn) /\ NULL \notin Conn
\* A descriptor in the pollfd array is a listener's or a connection's, not both.
ASSUME DescriptorAssumption == Conn \cap (1..NListen) = {}
ASSUME CountAssumption == NListen \in Nat /\ MaxBacklog \in Nat

VARIABLES
  pc,         \* where the server is: see TypeOK
  stopped,    \* ctx->stopped
  head, nxt,  \* ctx->conns and the next pointers
  live,       \* the connections allocated and not freed
  cstate,     \* c->state of each
  fds,        \* open descriptors: listeners and accepted sockets
  active,     \* metrics.active_connections
  pfds,       \* the pollfd array: descriptor, and whether revents is nonzero
  idx,        \* the index into it
  prev, cur,  \* the scan's pointers
  backlog,    \* kernel: clients to accept, per listener
  sock,       \* kernel: each connection's socket
  reported,   \* history: connections the last poll reported as ready
  fresh,      \* history: connections accepted since then
  handled     \* history: connections handle_conn was called for since then

list == <<head, nxt, live, cstate, fds, active>>
scan == <<pfds, idx, prev, cur>>
kernel == <<backlog, sock>>
history == <<reported, fresh, handled>>
vars == <<pc, stopped, list, scan, kernel, history>>

Pointer == Conn \cup {NULL}
Listener == 1..NListen
SockState == [in : BOOLEAN, room : BOOLEAN, gone : BOOLEAN]

\* A socket nobody has written to yet.
FreshSock == [in |-> FALSE, room |-> TRUE, gone |-> FALSE]

Init ==
  /\ pc = "init" /\ stopped = FALSE
  /\ head = NULL /\ nxt = [c \in Conn |-> NULL] /\ live = {}
  /\ cstate = [c \in Conn |-> "READING"] /\ fds = NListen /\ active = 0
  /\ pfds = <<>> /\ idx = 1 /\ prev = NULL /\ cur = NULL
  /\ backlog = [l \in Listener |-> 0] /\ sock = [c \in Conn |-> FreshSock]
  /\ reported = {} /\ fresh = {} /\ handled = {}

-----------------------------------------------------------------------------
(* http_run *)

\* Entering clears stopped.
HttpRun ==
  /\ pc \in {"init", "exit"} /\ pc' = "loop"
  /\ stopped' = FALSE
  /\ UNCHANGED <<list, scan, kernel, history>>

\* while (!ctx->stopped) fails.
RunExit ==
  /\ pc = "loop" /\ stopped /\ pc' = "exit"
  /\ UNCHANGED <<stopped, list, scan, kernel, history>>

-----------------------------------------------------------------------------
(* http_poll: the pollfd array and poll *)

\* The sequences a walk along the next pointers from ctx->conns visits.
Walks == {s \in UNION {[1..n -> live] : n \in 0..Cardinality(live)} :
            IF s = <<>> THEN head = NULL
            ELSE /\ s[1] = head /\ nxt[s[Len(s)]] = NULL
                 /\ \A i \in 1..(Len(s) - 1) : nxt[s[i]] = s[i + 1]}

\* Mutant: the loop does not look at stopped.
LoopForEver == TRUE

\* The condition of http_run's loop.
LoopCondition == ~stopped

\* The array lists the listeners, then the connections in list order.
PollEnter ==
  /\ pc = "loop" /\ LoopCondition /\ pc' = "polling"
  /\ \E s \in Walks :
       pfds' = [i \in 1..(NListen + Len(s)) |->
                  [fd |-> IF i <= NListen THEN i ELSE s[i - NListen], revents |-> FALSE]]
  /\ UNCHANGED <<stopped, list, idx, prev, cur, kernel, history>>

\* Level-triggered readiness: POLLIN for a reading, POLLOUT for a writing
\* connection; a hangup or an error shows as the one or the other.
Readable(c) == sock[c].in \/ sock[c].gone
Ready(c) == IF cstate[c] = "READING" THEN Readable(c) ELSE sock[c].room
ReadyFd(fd) == IF fd \in Listener THEN backlog[fd] > 0 ELSE Ready(fd)

\* poll returns, with something ready or because its timeout expired.
PollReturn ==
  /\ pc = "polling" /\ pc' = "accept"
  /\ pfds' = [i \in 1..Len(pfds) |-> [pfds[i] EXCEPT !.revents = ReadyFd(pfds[i].fd)]]
  /\ idx' = 1
  /\ reported' = {c \in live : Ready(c)} /\ fresh' = {} /\ handled' = {}
  /\ UNCHANGED <<stopped, list, prev, cur, kernel>>

\* poll fails (EINTR), or the array cannot be allocated: http_run continues
\* without timers_check.
PollFail ==
  /\ pc = "polling" /\ pc' = "loop"
  /\ pfds' = <<>>
  /\ UNCHANGED <<stopped, list, idx, prev, cur, kernel, history>>

-----------------------------------------------------------------------------
(* http_poll: the listeners *)

\* accept returns a descriptor.
Accepted(l) == backlog[l] > 0 /\ backlog' = [backlog EXCEPT ![l] = @ - 1]

\* Mutant: the old list is forgotten.
PushFrontAlone(c) == nxt' = [nxt EXCEPT ![c] = NULL] /\ head' = c

\* The new connection becomes the head of the list.
PushFront(c) == nxt' = [nxt EXCEPT ![c] = head] /\ head' = c

AcceptConn(l, c) ==
  /\ Accepted(l)
  /\ c \in Conn \ live /\ live' = live \cup {c}
  /\ PushFront(c)
  /\ cstate' = [cstate EXCEPT ![c] = "READING"]
  /\ sock' = [sock EXCEPT ![c] = FreshSock]
  /\ fds' = fds + 1 /\ active' = active + 1 /\ fresh' = fresh \cup {c}

\* Mutant: the accepted socket is not closed.
AcceptNoMemoryLeaks(l) ==
  /\ Accepted(l) /\ fds' = fds + 1
  /\ UNCHANGED <<head, nxt, live, cstate, active, sock, fresh>>

\* Without memory for the connection the accepted socket is closed again.
AcceptNoMemory(l) == Accepted(l) /\ UNCHANGED <<list, sock, fresh>>

\* accept itself fails: the client is gone again, or no descriptor is left.
AcceptFails == UNCHANGED <<list, kernel, fresh>>

accept_new(l) == (\E c \in Conn : AcceptConn(l, c)) \/ AcceptNoMemory(l) \/ AcceptFails

ListenerStep ==
  /\ pc = "accept" /\ idx <= NListen
  /\ IF pfds[idx].revents THEN accept_new(pfds[idx].fd) ELSE UNCHANGED <<list, kernel, fresh>>
  /\ idx' = idx + 1
  /\ UNCHANGED <<pc, stopped, pfds, prev, cur, reported, handled>>

-----------------------------------------------------------------------------
(* http_poll: the connections *)

\* Mutant: the scan starts with the index of the first listener.
ScanStartAtZero ==
  /\ pc = "accept" /\ idx > NListen /\ pc' = "scan"
  /\ prev' = NULL /\ cur' = head /\ idx' = 1
  /\ UNCHANGED <<stopped, list, pfds, kernel, history>>

\* The scan starts at the present head of the list, with the index that
\* follows the listeners.
ScanStart ==
  /\ pc = "accept" /\ idx > NListen /\ pc' = "scan"
  /\ prev' = NULL /\ cur' = head
  /\ UNCHANGED <<stopped, list, pfds, idx, kernel, history>>

\* The entry the scan looks at.  Past the end of the array (there are more
\* connections than when it was built) the read is undefined: any value.
Revents == IF idx <= Len(pfds) THEN {pfds[idx].revents} ELSE BOOLEAN

\* Mutant: always unlinked from the head.
UnlinkFromHead(p, c) == head' = nxt[c] /\ nxt' = [nxt EXCEPT ![c] = NULL]

\* The predecessor p of c, or the head of the list, now leads to c's successor.
Unlink(p, c) ==
  IF p # NULL THEN nxt' = [nxt EXCEPT ![p] = nxt[c], ![c] = NULL] /\ UNCHANGED head
  ELSE head' = nxt[c] /\ nxt' = [nxt EXCEPT ![c] = NULL]

\* close_conn(ctx, prev, c): unlink, close the socket, free (the fields of a
\* freed block mean nothing: they get their initial values).
close_conn(p, c) ==
  /\ Unlink(p, c)
  /\ live' = live \ {c}
  /\ fds' = fds - 1 /\ active' = active - 1
  /\ cstate' = [cstate EXCEPT ![c] = "READING"]
  /\ sock' = [sock EXCEPT ![c] = FreshSock]

\* Mutant: the index stays where it is when the connection was closed.
AdvanceKeepsIndex(p) == prev' = p /\ cur' = nxt[cur] /\ idx' = IF p = cur THEN idx + 1 ELSE idx

\* The end of a turn of the scan, p being the last connection that stayed.
Advance(p) == prev' = p /\ cur' = nxt[cur] /\ idx' = idx + 1

\* handle_conn returned 0: the socket had nothing to offer (EAGAIN), or the
\* connection read or wrote something and goes on in state st.
HandleAgain ==
  /\ ~Ready(cur)
  /\ UNCHANGED <<list, sock>>
HandleGoesOn ==
  /\ Ready(cur)
  /\ cstate[cur] = "READING" => sock[cur].in
  /\ \E st \in {"READING", "WRITING"}, more, room \in BOOLEAN :
       /\ st = "READING" => room                      \* nothing was held back
       /\ cstate[cur] = st /\ st = "WRITING" => ~room  \* a partial send
       /\ cstate[cur] = "WRITING" => more = sock[cur].in
       /\ cstate' = [cstate EXCEPT ![cur] = st]
       /\ sock' = [sock EXCEPT ![cur].in = more, ![cur].room = room]
  /\ UNCHANGED <<head, nxt, live, fds, active>>

\* One turn of the scan: nothing reported, a call that returned 0, or one that
\* returned 1 or an error and ends in close_conn.
ScanSkip ==
  /\ pc = "scan" /\ cur # NULL /\ FALSE \in Revents
  /\ Advance(cur)
  /\ UNCHANGED <<pc, stopped, list, pfds, kernel, history>>
ScanHandle ==
  /\ pc = "scan" /\ cur # NULL /\ TRUE \in Revents
  /\ handled' = handled \cup {cur}
  /\ HandleAgain \/ HandleGoesOn
  /\ Advance(cur)
  /\ UNCHANGED <<pc, stopped, pfds, backlog, reported, fresh>>
ScanClose ==
  /\ pc = "scan" /\ cur # NULL /\ TRUE \in Revents
  /\ handled' = handled \cup {cur}
  /\ Ready(cur)
  /\ close_conn(prev, cur)
  /\ Advance(prev)
  /\ UNCHANGED <<pc, stopped, pfds, backlog, reported, fresh>>

\* http_poll frees the array and returns.
ScanEnd ==
  /\ pc = "scan" /\ cur = NULL /\ pc' = "timers"
  /\ pfds' = <<>> /\ idx' = 1 /\ prev' = NULL /\ UNCHANGED cur
  /\ UNCHANGED <<stopped, list, kernel, history>>

\* timers_check (its own module's business), then the loop condition.
TimersCheck ==
  /\ pc = "timers" /\ pc' = "loop"
  /\ reported' = {} /\ fresh' = {} /\ handled' = {}
  /\ UNCHANGED <<stopped, list, scan, kernel>>

-----------------------------------------------------------------------------
(* http_stop and http_free *)

\* http_stop may be called by a handler, a timer callback or a signal handler,
\* before or while the loop runs.
HttpStop ==
  /\ pc \notin {"freeing", "freed"}
  /\ stopped' = TRUE
  /\ UNCHANGED <<pc, list, scan, kernel, history>>

\* http_free closes the listeners, then the head of the list until it is empty.
HttpFreeListeners ==
  /\ pc \in {"init", "exit"} /\ pc' = "freeing"
  /\ fds' = fds - NListen
  /\ backlog' = [l \in Listener |-> 0]
  /\ UNCHANGED <<stopped, head, nxt, live, cstate, active, scan, sock, history>>
HttpFreeConn ==
  /\ pc = "freeing" /\ head # NULL
  /\ close_conn(NULL, head)
  /\ UNCHANGED <<pc, stopped, scan, backlog, history>>
HttpFreeEnd ==
  /\ pc = "freeing" /\ head = NULL /\ pc' = "freed"
  /\ UNCHANGED <<stopped, list, scan, kernel, history>>

-----------------------------------------------------------------------------
(* Clients and kernel *)

\* A client connects to a listener, or gives up before it was accepted.
Connect ==
  /\ pc \notin {"freeing", "freed"}
  /\ \E l \in Listener : backlog[l] < MaxBacklog /\ backlog' = [backlog EXCEPT ![l] = @ + 1]
  /\ UNCHANGED <<pc, stopped, list, scan, sock, history>>
GiveUp ==
  /\ \E l \in Listener : backlog[l] > 0 /\ backlog' = [backlog EXCEPT ![l] = @ - 1]
  /\ UNCHANGED <<pc, stopped, list, scan, sock, history>>

\* A connection receives data, drains its send buffer, or its peer half closes
\* or resets it; after a reset the socket is writable, too.
SockChanges(c, s) ==
  /\ c \in live
  /\ sock[c] # s /\ sock' = [sock EXCEPT ![c] = s]
  /\ UNCHANGED <<pc, stopped, list, scan, backlog, history>>
DataArrives(c) == ~sock[c].gone /\ SockChanges(c, [sock[c] EXCEPT !.in = TRUE])
BufferDrains(c) == SockChanges(c, [sock[c] EXCEPT !.room = TRUE])
PeerLeaves(c) == SockChanges(c, [sock[c] EXCEPT !.gone = TRUE, !.room = TRUE])

Server ==
  \/ RunExit \/ PollEnter \/ PollReturn \/ PollFail
  \/ ListenerStep \/ ScanStart \/ ScanSkip \/ ScanHandle \/ ScanClose \/ ScanEnd
  \/ TimersCheck
Embedder == HttpRun \/ HttpStop \/ HttpFreeListeners \/ HttpFreeConn \/ HttpFreeEnd
Environment == Connect \/ GiveUp \/ \E c \in Conn : DataArrives(c) \/ BufferDrains(c) \/ PeerLeaves(c)
Next == Server \/ Embedder \/ Environment

Spec == Init /\ [][Next]_vars

\* The loop goes on, and signals do not interrupt every poll.
FairSpec == Spec /\ WF_vars(HttpRun) /\ WF_vars(Server) /\ SF_vars(PollReturn)

-----------------------------------------------------------------------------
(* Properties *)

Running == {"loop", "polling", "accept", "scan", "timers"}

\* Types of every variable.
TypeOK ==
  /\ pc \in Running \cup {"init", "exit", "freeing", "freed"}
  /\ stopped \in BOOLEAN
  /\ live \subseteq Conn /\ head \in Pointer /\ nxt \in [Conn -> Pointer]
  /\ cstate \in [Conn -> {"READING", "WRITING"}]
  /\ fds \in Nat /\ active \in Nat
  /\ pfds \in Seq([fd : Conn \cup Listener, revents : BOOLEAN])
  /\ idx \in Nat \ {0} /\ prev \in Pointer /\ cur \in Pointer
  /\ backlog \in [Listener -> Nat] /\ sock \in [Conn -> SockState]
  /\ reported \subseteq Conn /\ fresh \subseteq Conn /\ handled \subseteq Conn

\* No pointer of the server dangles: the list and the two pointers of the scan
\* lead to connections that are not freed, and prev is the predecessor of cur
\* in the list (so that close_conn unlinks the right one), although the scan
\* frees connections while it walks and accept_new has put new ones in front.
NothingDangles ==
  /\ head \in live \cup {NULL}
  /\ \A c \in live : nxt[c] \in live \cup {NULL}
  /\ pc = "scan" =>
       /\ cur \in live \cup {NULL} /\ prev \in live \cup {NULL}
       /\ IF prev = NULL THEN cur = head ELSE nxt[prev] = cur

\* No connection is lost: a walk from ctx->conns visits every connection that
\* is not freed, each once.
NothingLost ==
  \E s \in Walks : {s[i] : i \in 1..Len(s)} = live /\ Len(s) = Cardinality(live)

\* Every descriptor is owned by a listener or a connection of the list and is
\* closed with it; active_connections counts the list; http_free leaves nothing
\* open (http.h:63: "Free context and all associated resources").
DescriptorsAccounted ==
  /\ active = Cardinality(live)
  /\ fds = active + (IF pc \in {"freeing", "freed"} THEN 0 ELSE NListen)
  /\ pc = "freed" => fds = 0

\* The index runs ahead of the connection the scan looks at by exactly the
\* connections accepted in the same call: when none was, each connection gets
\* its own revents, however many the scan has closed before it.
IndexIsOffByTheAccepted ==
  pc = "scan" /\ cur # NULL =>
    \A p \in 1..Len(pfds) : pfds[p].fd = cur => idx = p + Cardinality(fresh)

\* http.h:89: http_poll "Returns number of events handled": what poll reported of
\* a connection is handled in the same call.  (Violated: after an accept the
\* scan of http.c:588-608 reads its neighbours' entries.)
EventsHandled == pc = "timers" => reported \subseteq handled

\* Once stopped is set while the loop runs, http_run returns.
RunStops == (stopped /\ pc \in Running) ~> (pc = "exit")

\* Unless connections are added for ever, no connection of a loop that is not
\* stopped stays ready for ever without handle_conn being called for it,
\* whatever the others do.
NoStarvation ==
  (<>[][live' \subseteq live]_vars /\ <>[](~stopped /\ pc \in Running)) =>
    \A c \in Conn : []<>~(c \in live /\ Ready(c) /\ c \notin handled)
=============================================================================

# A verification development for `libs/http` and `libs/json`

`libs/http` is a small event-driven HTTP/1.1 server library in C: one thread, one
`poll` loop, non-blocking sockets, one `struct http_conn` per client, handlers and
timers called from the loop. `libs/json` is the cJSON library that comes with it, which
it does not call. This directory holds TLA+ models of it, the TLC
configurations that check them on small instances, and proofs that TLAPS checks for
every value of the constants.

Everything is translated from the C code (`src/libs/http`, `src/include/http`, `src/libs/json`).
The README and the headers of the libraries are quoted only where they say something the code
does not do (section 7).

## 1. Inventory

| part | code | state it keeps | operations |
|---|---|---|---|
| connection protocol | `http.c:292-382` `handle_conn`, `http_parser.c`, `http_response.c:3-197` | `struct http_conn`: `state`, `rb`, `header_parsed`, `content_length`, `keep_alive`, `wb`, `wb_sent`, `req`, `res` | receive and parse, route, queue an error, prepare, send, reset for the next request, close |
| event loop | `http.c:514-614` | `stopped`, the pollfd array of the current call, its index, the scan's pointers | `http_run`, `http_poll`, `http_stop` |
| connection list | `http.c:154-229`, `433-461` | `ctx->conns`, `next` pointers, descriptors, `active_connections` | `accept_new`, `close_conn`, `http_free` |
| context | `http.c:383-461` | `struct http_ctx` and all it points to | `http_init`, `http_free` |
| request parser | `http_parser.c` | writes `req`, `content_length`, `keep_alive`, `header_parsed` | `parse_request` |
| response API | `http_response.c:199-323` | `http_response_t`: status, headers, `internal->bodybuf` | `init`, `set_status`, `add_header`, `write_body`, `end`, `free` |
| dynamic buffer | `dynbuf.c` | `data`, `len`, `cap` | `init`, `reserve`, `append`, `free` |
| timers | `http_support.c:3-83`, `200-239` | `ctx->timers` (sorted by `due`), `next_timer_id` | set, cancel, check, poll timeout |
| routes, listeners | `http_support.c:85-111`, `http.c:463-500` | `routes`, `route_count`, `route_cap`, `listen_fds`, `listen_count` | `http_register_route`, `http_listen` |
| metrics | `http_support.c:241-294`, `http.c:328-330`, `http_response.c:38-48` | counters, the callback's timer | get, reset, set callback |
| helpers | `http_support.c:113-198`, `340-371` | none | URL and JSON escaping, MIME table |
| stubs | `http.c:502-512`, `616-631` | none | HTTPS and multithreading report "not implemented" |
| logging | `log.h`, `HTTP_ERR`/`HTTP_DBG` | none | output only |
| cJSON items | `cJSON.c:241-277`, `1884-2858`, `3057-3182` | trees of `cJSON` on the heap: `next`, `prev` (of the first child: the last), `child`, a name and a text that are owned or not | create, add, detach, insert, replace, duplicate, compare, delete, references |
| cJSON texts | `cJSON.c:285-304`, `661-1881`, `2860-2955` | a parse buffer with an offset, a print buffer with length, offset and depth | parse, print (growing, buffered, preallocated), minify |

**How the parts interact.** `http_run` calls `http_poll` and then `timers_check`, until
`stopped` is set. `http_poll` builds the pollfd array from the listeners and the list, polls,
calls `accept_new` for ready listeners (which changes the list) and then walks the list and
calls `handle_conn`; a result of 1 or less than 0 leads to `close_conn` in the middle of the
walk. `handle_conn` calls the embedder's handler, which may call `http_stop`, `http_set_timer`
and the response API; `http_stop` may also come from a signal handler at any instruction. There
are no threads and no locks. cJSON and the server share nothing. The actors that interleave are
the loop, the kernel's sockets, the clients, and signal handlers.

**What is hard.** The pollfd array is a snapshot of a list that changes before it is
used. A connection is unlinked and freed under the walk that found it. TCP splits and
merges what the client sends and accepts only part of what the server sends, and a
client may pipeline, half close or reset at any byte. One flag (`keep_alive`) is written
by the parser, cleared by the error path, rendered into the response and read again when
the response has been sent, perhaps many calls later. A stop may come before, in or
between loops. Every allocation may fail half way through an operation, in both libraries.
cJSON items are linked by hand in a ring that is closed on one side only, and references
show what other items own.

**What makes each part correct.**

- Connection: clean buffers between calls; responses sent whole and in order; each answer
  goes to its request; `close` announced exactly on the last response and the connection
  then closed; each request of a client that waits is answered.
- Event loop and list: no dangling pointer, no lost connection, descriptors and the
  metric agree with the list, nothing open after `http_free`; each connection gets its
  own `revents`; a ready connection is handled eventually; a stop ends the loop.
- Dynamic buffer: capacity covers the length, growth ends and does not wrap.
- Timers: sorted list, no early callback, no callback after a cancel, no timer lost or
  freed twice, a bounded wait in `poll`.
- Routes and listeners: table and capacity agree, failure leaves no route without its
  listener and no descriptor without its owner.
- Context: each block is freed once, by the allocator it came from, and none is lost.
- Helpers: what is escaped can be read back, and fits what was allocated.
- cJSON items: lists stay linked, each item has one owner, nothing dangles, strings are
  freed with their items, copies and comparisons agree with what the items say.
- cJSON texts: no byte outside a buffer is read or written, and what is printed is parsed
  to the same value.

All the hazards, each at its line, are listed in `PROJECT.json` under `hazards`.

## 2. Modules

| module | what it is |
|---|---|
| `Exchange` | what a connection promises its client: an abstract specification of answers, of what they announce, and of how much was delivered |
| `Connection` | one connection: `handle_conn` and everything below it, with the client and the network |
| `ConnectionProofs` | theorems about `Connection` |
| `MCConnection` | the requests TLC uses for it |
| `EventLoop` | `http_run`, `http_poll`, `accept_new`, `close_conn`, `http_stop`, `http_free`, with pointers, index and descriptors |
| `EventLoopProofs` | theorems about `EventLoop` |
| `MCEventLoop` | the symmetry of the connection addresses |
| `Schedule` | what the timer API promises: an abstract specification, a set of pending timers of which the one due first is taken |
| `Timers` | the sorted timer list, `http_set_timer`, `http_cancel_timer`, `http_set_metrics_callback`, `timers_check`, `compute_poll_timeout`, inside the loop of `http_run`, with a clock |
| `TimersProofs` | theorems about `Timers` |
| `MCTimers` | the delays, intervals and clock settings TLC uses |
| `Timeval` | the arithmetic of `struct timeval` in those functions, as operators |
| `Context` | everything an `http_ctx_t` owns: blocks, descriptors, routes and counters, from `http_init` to `http_free`, with failing allocations and a handler that uses the response API |
| `ContextProofs` | theorems about `Context` |
| `MCContext` | its descriptors and patterns |
| `DynBuf` | the growing buffer on machine words |
| `Bytes`, `HttpText` | ASCII; URL encoding and decoding and JSON escaping of `http_support.c` |
| `JSONParser` | cJSON's parser on bytes |
| `JSONText` | cJSON's printer and minifier on bytes |
| `Helpers` | machines that drive `Timeval`, `DynBuf`, `HttpText` and `JSONParser`: a timer set and slept for, the buffer, and texts that grow piece by piece |
| `HelperProofs` | theorems about `DynBuf`, `Timeval`, `HttpText`, `JSONParser` and these machines |
| `MCHelpers` | the small inputs TLC uses for them, and what is asked of the printer and the minifier |
| `Induction` | induction and recursion over the numbers, as theorems about sets of numbers and about functions |
| `ItemTree` | what `cJSON.h` promises of item trees: an abstract specification in which an item has a sequence of children and there are no pointers |
| `ItemLists` | the functions of cJSON that link and unlink items, and what a proper list is |
| `ItemListProofs` | theorems about `ItemLists` |
| `CJSON` | cJSON's items with their pointers, and an embedder |
| `CJSONProofs` | theorems about `CJSON` |
| `ItemValues` | what the items of `CJSON` say: how they compare, what a copy says, and how the pointers implement `ItemTree` |
| `MCCJSON` | the embedders TLC tries |

`Connection` and `EventLoop` meet in `handle_conn`: `Connection` says what a call does to
one connection, and `EventLoop` uses the results this allows (go on reading, go on
writing, be closed) for each of its connections. `EventLoop` and `Timers` meet in
`http_run`: what is one step of one of them (`TimersCheck` there, the three ways `poll`
ends here) is the subject of the other. `Timers` counts in milliseconds; `Timeval` shows
what that leaves out. `Context` looks at the same calls of `handle_conn` as `Connection`,
but at the memory behind them instead of the bytes: a call is a step in both. `DynBuf` is
the buffer that `rb`, `wb` and `bodybuf` are. `HttpText` and `JSONParser` meet in
`EscapedIsJSON`: what one escapes, the other parses.

### Connection and the code

Bytes are units. `<<k, i>>` is part `i` of request `k`; the first `HdrLen` units of a
request are its header block and the rest its body. A response is `RespLen` units.
What a request says is a record with the things that decide what the code does: whether its
request line parses or has a NUL in it, whether it asks for keep-alive, its `Content-Length`,
what the route loop finds, which status codes its handler sets one after the other, and
whether the handler's reason and headers fit the buffers of `prepare_response`.

| in the model | in the code |
|---|---|
| `conn` | the fields of `struct http_conn`; `conn_hdr` is the Connection header inside `wb` |
| `inq`, `Room` | the socket's receive queue and the free part of its send buffer |
| `HandleHangup`, `HandleRead`, `HandleWrite` | the calls of `handle_conn`: `recv` gives nothing, `recv` gives `n` bytes, the state is WRITING. Each is the whole call: receive, parse, route, prepare and, in the same call, the first `send` |
| `parse_request` | `http_parser.c:116-204`, as the set of its possible results, the error for a NUL in the request line among them |
| `Prepares` | whether `prepare_response` succeeds: a status line is shorter than 64 bytes, each header than 1024 |
| `StatusOf` | `status_code`: 404, 405, what the handler set last, or the 0 of `http_response_init` |
| `Respond` | what `handle_conn` does with a result: wait, queue a 400, answer, or close without an answer after an error |
| `queue_error_response`, `prepare_response`, `send_response`, `Reset`, `close_conn` | the functions of these names; `Reset` is `http_response.c:50-88` |
| `asked`, `answers`, `wire` | histories: the requests issued, the responses prepared, and what `send` accepted |

Two choices deserve a word. The keep-alive reset throws away whatever is in `rb`. If that
held the beginning of the next, pipelined, request, the buffer then starts inside a
request. What the parser reads there depends on bytes the model does not have, so it may
be any header block and it counts as nobody's request (`to = 0`). And closing a socket
that still has unread data resets the connection on Linux; the client may then lose
responses that it has not read (`close_conn`).

### EventLoop and the code

`pc` is the point of the loop; between any two steps the environment acts. The steps are
as fine as the interleaving with the kernel can be observed: building the array, the
return of `poll`, one listener, the start of the scan, one connection of the scan, the
end. `head`, `nxt` and `live` are the list and the heap blocks behind it; a block may be
used again by a later `accept_new`, as `malloc` does. `prev`, `cur` and `idx` are the
variables of the scan. A read past the end of the pollfd array is undefined in C: it may
give any value (`Revents`). A freed block's fields get their initial values, which keeps
the number of states down; nothing reads them, which is what `NothingDangles` shows.

### Timers and the code

| in the model | in the code |
|---|---|
| `timers` | the list at `ctx->timers`, as a sequence; `ready` is a history: the real time before which the callback must not run |
| `running` | the local `timer` of `timers_check` while its callback runs: it is in no list then |
| `clock` | what `timeval_now` returns: the real time plus an offset that `ClockSet` changes, because the code reads the wall clock |
| `wait` | what is left of `poll`'s timeout, which the kernel counts by real time |
| `now` | the variable of `timers_check`, cleared when it is dead |
| `Places`, `timers_add` | the loop of `http_support.c:5-15`: the place after the head and after every timer that is due earlier |
| `SetTimer`, `CancelTimer`, `SetMetricsCallback` | the calls of the embedder, before the loop, in a request handler or in a timer callback |
| `CheckBegin`, `ReadClock`, `CallbackStart`, `CallbackReturn`, `CheckEnd` | `timers_check`; time passes between any two of them, and during a callback the embedder may act |

A timer being cancelled in its own callback is not found (`http_cancel_timer` returns
nothing); if it is periodic it is put back. No document says otherwise, so
`CancelledForGood` speaks of the other cancellations only. A delay is not negative: the
code would accept a negative one and compute a negative number of microseconds, which
`Timeval` excludes in the same way.

`compute_poll_timeout` computes a `long` and casts it to `int`: `ToInt` keeps the low bits, as
the compilers do, so that a large number may become a small or a negative one. `poll` takes a
negative timeout for none at all, and in both modules nothing but an event ends such a wait.
The code gets there only when the clock was set back: a delay is an `int` itself.

### Context and the code

| in the model | in the code |
|---|---|
| `mem.ptr` | for every pointer of the context and its connection whether it is NULL, points to a block or to a freed one; `hstrings` and `rstrings` stand for all names and values of the headers |
| `mem.lost`, `mem.twice`, `mem.alien` | histories: blocks whose pointer was overwritten, a second `free`, and blocks given to `free` although `http_malloc` (perhaps the embedder's) allocated them, or the other way round |
| `Store`, `Extend`, `Free`, `Release` | an assignment to a pointer; `realloc` or one more string; `free`; `free` and `= NULL` |
| `Then`, `Allocate`, `Grow` | the set of what a function may leave and return when any of its allocations may fail, in the order of the code |
| `HandleRead`, `Respond`, `HandlerCall`, `HandlerReturns`, `HandleWrite` | `handle_conn`; it is split where the handler runs, which calls the response API as often and in whatever order it likes, and may register routes and listeners |
| `metrics` | `http_metrics_t`, and what its counters are compared with: requests refused with 400 (not counted), answers owed, and answers that were never sent whole |

There is one connection at a time because connections share no block (the list is
`EventLoop`'s). `accept_new` may fail to allocate it, and then closes the descriptor. `past`
records the two events after which the code loses blocks. The handler does not call
`http_request_free` on its request (section 6).

### DynBuf and the code

A call of `dynbuf_append` is several steps, one for each turn of the doubling loop, so
that its end is a liveness property. `Twice` wraps as `size_t` does. The one fact from
outside is `SizesAssumption`: an allocator grants at most half of the address space
(`PTRDIFF_MAX`), without which the unchecked first doubling of `dynbuf.c:40` could wrap.

### CJSON and the code

| in the model | in the code |
|---|---|
| `heap` | the allocated `cJSON`s by address, with the same pointers |
| `text`, `ref` | `valuestring` (known by the item it was copied for) and `cJSON_IsReference` |
| `key`, `const` | `string` and `cJSON_StringIsConst` |
| `strings` | how many copies of `cJSON_strdup` are allocated |
| `roots` | what the embedder owns |
| `use` | chosen once: how many items fit, which types and names the embedder uses, whether it makes references. It stands for several embedders in one run |
| actions | each is one call of the API, with the allocation that fails chosen by `strdup`, `broken`, or a full heap |

What is done to pointers alone (append, insert, detach, put in place, and the walk that
reads a list) is in `ItemLists`: functions from one heap to another.

Two functions of the code recurse over trees and are modelled without recursion, so that they
can be proved about. `cJSON_Delete` frees what it visits, the smallest set that holds the item
and, with each of its members, what `Visited` says comes after it (`Closure`, `Doomed`).
`cJSON_Duplicate_rec` is a function of the levels that may still be entered (`Copies`): what a
copy is of every item, in every memory, given what the copies of its children a level deeper are
(`CopyOf`). Comparing recurses in `ItemValues`, about which nothing is proved.

The embedder keeps to what `cJSON.h` says: it gives away only what it owns, makes no ring,
and neither frees nor rearranges what a reference shows (`MayFree`, `MayChange`, `MayAdd`).
For a replacement that is asked of the heap in which the new item is already in place, because
the reference may be inside the new item; with a weaker condition the proof does not go through,
and six items are enough to leave a reference behind that shows a freed one.

### Texts and the code

`HttpText`, `JSONParser` and `JSONText` are functions on sequences of bytes. The parser keeps
its offset, and reads outside the text are values of their own (`Outside`) that end in the
`outside` flag. Each of its loops is a function of the number of rounds (`EndRound`,
`UnescapeRound`, `ElementRound`, `MemberRound` are the bodies), and its recursion a function of
the levels that may still be opened (`Values`: what is parsed from every offset of the text),
because the provers have no recursive operators. The printer keeps `length`, `offset` and
`depth` and the bytes themselves, because `update_offset` searches them for a NUL and because
each writer asks `ensure` for a number of bytes that need not be the number it writes. What
`parse_string` has written before it refuses a string is checked like the rest (`BytesWritten`).
Numbers are not parsed: a text with a number in it is refused.

## 3. Runs

| run | what it asks | result |
|---|---|---|
| `connection_pipelined` | a client that pipelines, half closes and disappears, allocations that fail: buffers clean between calls, only the last answer closes, the stream in order, no answer twice or out of order, `Exchange` implemented | holds |
| `connection_sequential` | a client that waits for each answer: answer `k` is to request `k`, with status 400, 404, 405 or what its handler set last (0 if it set none); the server closes only when it said so and the last answer was handed over, or when the request it reads cannot be answered; every request that can be answered is, to its end, and the others do not leave the client waiting, unless the client leaves | holds |
| `connection_close` | `close` unless the request asked for keep-alive | violated |
| `eventloop_safety` | everything may happen, three connection blocks, one listener: pointers, list, descriptors, metric, and how far the index is off | holds |
| `eventloop_live` | two listeners: no starvation unless connections are added for ever or the loop is stopped, and a stop while the loop runs ends it | holds |
| `eventloop_handled` | what `poll` reported is handled in the same call | violated |
| `timers_safety` | three timers, set and cancelled anywhere, and a clock that is set: the list stays sorted, no timer is in two places, none comes back after a cancel, `Schedule` implemented | holds |
| `timers_ontime` | nobody sets the clock: `poll` wakes up in time, no callback is early, no timer stays due for ever | holds |
| `helpers` | the buffer on words of five bits: what is copied lies inside, no doubling wraps, calls return; due times, comparisons and the poll timeout around the carries and, with a clock that is set back, beyond what an `int` holds; URL encoding comes back, JSON escaping is valid JSON; parsing stays inside its text, strings fit their room (also those that are refused), what is printed (into growing and given buffers) is parsed to the same value, minifying keeps the value | holds |
| `context` | every allocation may fail, a handler uses the response API and registers routes and listeners in any order: nothing freed twice or used after, each descriptor and catch-all route has its listener, the table holds its routes, the counters add up over a reset, and `http_free` gives back everything except what was lost before, which are parts of requests only | holds |
| `context_leak` | `http_free` gives back all resources | violated |
| `cjson` | five embedders, memory that runs out: lists linked, roots clean, one owner each, nothing dangles, strings freed, comparison is equality, copies are faithful, `ItemTree` implemented | holds |

**Bounds of Connection.** `MaxRequests = 3`: a first request, one after a reset, and one after
that, so that state carried from one request to the next can be carried twice. `HdrLen = 2`: a
header block may arrive in parts. `MCConnection!EveryKind` has eight requests: bodies of zero
and one unit, a line that does not parse and one with a NUL, an unknown path, an unknown method,
a handler that sets no status, one or two, and one whose response does not fit. `RecvMax = 3`:
one `recv` may take less than a request, a request, or a request and the start of the next.
`SendBuf = 2` and `RespLen = 3`: no response fits the send buffer, so each takes at least two
calls. `MaxInFlight` is 1 for a client that waits and 2 for one that pipelines.

**Bounds of EventLoop.** Three connections give a list with a head, a middle and an end,
an accept in front of two polled connections, and an unlink in each position; one
listener in the safety run and two in the loop run (two accepts in one call).
`MaxBacklog = 1` per listener: `accept_new` takes one client per call, so a longer queue
only delays the others. The address symmetry is used in the safety run only.

**Bounds of Timers.** `MaxTimers = 3` is enough for a head, a middle and an end, and for an
insertion and a removal at each of them, while one more timer is in its callback. Delays are 0
and 2, so that timers are due at once, at the same time and after each other; intervals are
-1 (which the code turns into 0) and 1. `MaxTime` is 2 or 3: a periodic timer runs and is put
back several times. `Default` is as long as the longest delay, so that a timeout taken from it
is too long for a timer that is due sooner. `IntMax = 2` is the longest delay; a clock that is
set back by one makes a difference of 3, which wraps.

**Bounds of the helpers.** `SIZE_MAX = 31`, `Initial = 3`, `MaxBlock = 15`: needs below, between
and above every doubling, and needs no doubling reaches without wrapping. Microseconds 0, 999
(the last before the next millisecond) and 999999 (before the next second); delays of 0, 1, 999,
1001 and 2500 milliseconds, of which `IntMax = 2500` is the longest; a clock that runs for four
seconds and may be set back, after which a timer may be further ahead than `IntMax`. Texts are
all sequences of at most four or five pieces of three kinds: `plain` bytes with each special
character, a control character without a short escape and a byte beyond ASCII; the insides of
string `literal`s, with escapes, lone and paired surrogates and hex digits in every wrong order;
`json` tokens, with names and a string that needs escapes. `CJSON_NESTING_LIMIT = 3` and
`INT_MAX = 60` let both limits be reached; the code's are 1000 and the machine's.

**Bounds of Context.** `MAX_LISTENERS = 2` and three descriptors: one listener too many,
and descriptors that are used again. `INITIAL_ROUTE_CAPACITY = 1` and `MaxRoutes = 3`: the
table grows twice. `MaxRequests = 2`: what one request leaves is seen by the next.
`MaxConnections = 1`, `MaxServing = 1` (routes there may be when a connection is accepted):
routes and requests do not touch the same memory, so that more combinations show nothing.

**Bounds of CJSON.** Five embedders: five arrays (a list of four, or two lists), four items that
are arrays or leaves, three with names that differ in case only, two of which one has a name
that is not copied, three with references; `MaxCount = 3`. `CJSON_CIRCULAR_LIMIT = 1` is reached
by a tree of depth two; the code's is 10000.

**Types.** `TypeOK` of `Connection`, `EventLoop`, `Timers` and `DynBuf` is proved (section 5)
and not checked again; that of `Context` and of `CJSON` is the first part of `MemoryIsSafe`
and of `ListsAreLinked`, which are both checked and proved.

**Deadlock** is not checked: the systems may really stop. A connection is closed and its
client is gone, the context has been freed, a text has its last piece, or the bounds on
what arrives are used up.

## 4. Fairness

- `FairSpec` (Connection): weak fairness of the server and of the client's reading. The
  server's part is what the level-triggered poll loop gives one connection (`eventloop_live`
  shows it for the whole loop). The client's is an assumption about the client: the
  property is about clients that read what they are sent. Nothing is assumed of the
  client's next request.
- `FairSpec` (EventLoop): weak fairness of the loop's steps (a single thread that is not
  blocked goes on; `poll` returns at the latest when its timeout expires), of the
  embedder's call of `http_run`, and strong fairness of `PollReturn`: signals do not
  interrupt every `poll`. Without it the loop may fail with `EINTR` for ever and handle
  nothing, which is what the code does.
- `LiveSpec` (Timers): weak fairness of the loop's own steps (callbacks return), weak
  fairness of time, and strong fairness of `PollTimeout`. The last is needed for the
  reason given for `EventLoop`: `http_run` skips `timers_check` when `poll` fails.
- `Helpers`, `BufSpec` (DynBuf): weak fairness of the steps of a call that is under way,
  which is what calling a function means.

## 5. Proofs

`ConnectionProofs` shows, for every set of requests and every size of buffers, headers,
bodies and responses:

- `TypeCorrect`: `TypeOK`. It is not inductive by itself: `HeaderReadings` looks up the
  request a unit belongs to, so every unit received or buffered must be of a request that
  was issued (`ReceivedWasAsked`), and `send` must not be given a negative
  room (`SendBufferBounded`).
- `Clean`: `CleanBetweenCalls`. In particular the early return of `parse_request` at
  `http_parser.c:139` is dead code.
- `LastCloses`: `OnlyTheLastCloses`. Both directions are needed: the flag must agree with
  what was announced while the response is being written, over any number of calls.
- `Stream`: `StreamInOrder`. The property compares neighbours on the wire; the invariant
  (`StreamGood`) also says where the next unit comes from: the wire holds every answer but
  the one under way whole, and of that one the `wb_sent` units that `wb` has been rid of
  (`NextIs`, `Writing`).
- `InOrderOfTheRequests`: `AnsweredInOrder`. What is in `rb` and in the socket is one
  sequence (`Pending`), in which the first unit of a request comes behind units of earlier
  requests only, and the requests that have their first unit in it come after every answered
  one (`OrderGood`). A part of such a sequence is one again, so that neither `recv` nor the
  reset, which throws away what is in `rb`, can bring an old request back.
- `OneByOne`: `EachAnswerIsToItsRequest`, from `MaxInFlight = 1`, which is what a client that
  waits means. Either nothing is open and nothing pending, or the last request is open and what
  is pending are its first units (`SeqGood`). A request that cannot be answered has no answer,
  and an answer has the status of its request.
- `ClosesAsAnnounced`: `CloseOnlyWhenAnnounced`, by cases over the ways a call ends. A connection
  that is closed without having announced it has read a request that cannot be answered, or the
  inside of one whose beginning was thrown away (`NextIsUnanswerable`), or had no memory.
- `Implements`: `ImplementsExchange`. Each call is one of four kinds (`GivesUp`, `Waits`,
  `Starts`, `Continues`), and each kind is a step of `Exchange` or changes nothing in it;
  `StreamGood` is what makes the number of units delivered the right one (`StepIsExchange`).

`EventLoopProofs` shows, for every finite set of connection blocks and any number of
listeners:

- `Memory`: `NothingDangles`; `Reachability`: `NothingLost`;
  `Descriptors`: `DescriptorsAccounted`; `TypeCorrect`: `TypeOK`.
- `IndexOff`: `IndexIsOffByTheAccepted`.

"Every connection is reachable" speaks of a path through pointers, which an inductive
proof cannot use as it stands. The invariant says instead that the live connections can
be numbered so that the head has the highest number, each `next` pointer goes down by exactly one,
and the last has number one (`Numbered`). Pushing a
connection gives it the next number, and unlinking one lowers those above it by one; both
are defined functions, so no induction over the list is needed. To this the invariant
adds that `prev` is the predecessor of `cur` during the scan (`ScanGood`), without which
`close_conn` could unlink the wrong connection. For the index (`IndexGood`) the same
numbers say where a connection's entry is. They count from the end of the list, so that
neither the connections accepted in front nor those closed behind the scan change the
numbers of what lies ahead.

`ContextProofs` shows, for any number of listeners, routes, requests and connections and any
set of descriptors, from one inductive invariant (`Invariance`):

- `Memory_Safe`: `MemoryIsSafe`; `Losses`: `LossesAreExcused`; `Descriptors_Owned`:
  `DescriptorsAreOwned`; `Routes_Kept`: `RoutesAreKept`; `Counters`: `CountersAddUp`.

The functions of `Context` on the memory give sets of results, one for each allocation that may
fail. Each has a lemma that says what all its results have in common: the memory stays safe and
either grows by certain blocks or replaces them (`Grows`, `Replaces`), so that an operation made
of several is treated by composing lemmas and not by counting its failures. The invariant says
which blocks may be allocated between two calls, and that none of a request is before one was
parsed (`MemGood`); that an answer is owed while a handler runs or a response is being sent
(`ConnGood`); that the table has room to double and as many catch-all routes as there are
listeners (`TableGood`); and that the open descriptors are the listeners' and the connection's,
which differ (`DescriptorsGood`). None of the five properties is inductive by itself: that the
counters add up when a connection closes needs to know whether it was owed an answer, and that
nothing is lost when one is accepted needs to know that nothing of the last one is left.

`HelperProofs` is about the machines of `Helpers`. `Times`: `TimesAreExact`, from `Exact`,
`Ordered` and `Close`, which hold for all times and delays: a due time is normalised and exactly
the delay later, `timercmp` orders normalised times as their microseconds do, and for a timer
that is due in at most `IntMax` milliseconds (`InReach`) the timeout given to `poll` is not
negative and less than a millisecond off. The invariant says that a timer was in reach when it
was set; so it is in reach as long as the clock is not behind that time, and nothing is claimed
after the clock was set back further. `Url`: `UrlRoundTrip` for texts of any length. The loops
of `http_url_encode` and `http_url_decode` are functions of the number of rounds
(`EncodingLoop`, `DecodingLoop`); what the encoder has written stays and takes one to three
bytes for each it read (`Joined`, `Written`); where an encoded byte stands, one round of the
decoder reads all of it and gives the byte back (`RoundReads`); so after `n` rounds the decoder
stands behind the `n`th encoded byte and has written the first `n` bytes (`RoundTrip`). That
neither writes beyond what it allocated comes from the states the decoder can be in
(`DecodeStates`: no more is written than was read).

For the buffer it shows `BufTypeCorrect`, `CopyInside` (`CopyStaysInside`), `Measured`
(`GrowthIsMeasured`: what is asked for is less than twice the need) and `Grows`
(`DoublingGrows`) for every word size, first capacity and largest block that satisfy
`SizesAssumption`. The invariant is that during a call `need` has been computed without wrapping
and is more than the capacity, that each candidate is less than twice the need, and that a
capacity is at most the largest block: hence twice a capacity does not wrap.

About `JSONParser` it shows `ParserInside`: whatever the text, its length and the nesting limit,
and whether or not a NUL has to follow, the parser reads no byte outside its text, writes no
byte beyond what it allocated for a string, and goes on behind what it has parsed.
`ParserInBounds`, about every state of the machines, is a case of it. The hard part is a string.
The first loop counts the escapes to compute the room and ends at the quote; the second loop
reads literals of six and twelve bytes, so that it may come to stand where the first loop never
stood, between a backslash and the byte after it. `Counted` relates the place of the first loop
to the escapes it has seen; `Passed` and `Reached` say what is left of them behind a place of
the second; a piece the second loop reads takes as many bytes as it gives and leaves enough
(`OneOn`, `SixOn`, `OneUnitFits`, `TwoUnitsFit`, together `PieceFits`), so that the bytes it
gives are at most the room (`UnescapeLoop`, `StringInside`). Arrays and objects are loops whose
rounds keep their place inside (`ElementsInside`, `MembersInside`), and nesting is an induction
on the levels (`Levels`, `ValuesInside`).

It also shows `EscapedParsed`, and with it `EscapesAreRead` (`EscapedIsJSON`), about two programs that
share no code: what `http_escape_json_string` makes of a text of any length, `cJSON_Parse` reads
back. An escape is one of three kinds (`EscapedShape`). Where one stands, the first loop of
`parse_string` passes it without taking a byte of it for the closing quote (`EscapePassed`), and one
piece of the second is all of it and gives the byte back (`EscapeGivesBack`). `Laid` says that the
escapes stand one behind the other between two quotes; then the first loop ends at the second quote
(`EndFound`), the second has given the first `n` bytes when it stands behind the `n`th escape
(`TextBack`), and since `ParserInside` rules out that the room is too small, the string is the text
(`StringBack`). What the escaping loop writes is laid out so (`EscapedLaid`, by `Flattening` and
`Joined`).

`Induction` makes such proofs possible although the provers cannot use an induction
principle about a predicate: `Induct` and `InductBetween` speak of a set of numbers, and
`Recursion` of the function that goes on from a first value by a given function; both rest
on `NatLessThanWellFounded` of the library.

`ItemListProofs` shows, for heaps of any size and lists of any length, what the pointer
operations of cJSON do to the sequences of children. `Forest(h, owners, kids)` says that the
children of each owner are the sequence `kids[p]`, linked by `next`, by `prev` and from the first
to the last, and that no two owners share one. Then `AddsLast`, `Inserts`, `Detaches` and `Replaces`
say that the heap after a call is a forest again in which `kids[p]` has become `Append`, `InsertAt`,
`RemoveAt` or `ReplaceAt` of what it was, no other sequence has changed, no field but a pointer has
changed (`SameItems`), and an item that was taken out leads to no sibling, so that
`cJSON_Delete` frees it alone. `Reads` says that the walk along `next` finds `kids[p]`, whatever its
length (`AllRead`: so `kids` is determined by the heap). These are the steps `InsertChild`,
`RemoveChild` and `ReplaceChild` of `ItemTree`. What the
theorems suppose, `Forest` with the items that are no references as owners, is what
`ListsAreLinked` says, and `CJSONProofs` shows that it holds in every state an embedder reaches.
The argument has three layers. An assignment to a pointer changes one of three
functions at one item (`NextIsSet`, `PrevIsSet`, `ChildIsSet`). `ChainWithout`, `ChainWith` and
`ChainReplaced` say, about sequences alone, which values at the neighbours of a place link what
is left. And one list changed while the others lie elsewhere is a forest
(`OneListChanged`, where the hypothesis that the new item is in no list is needed).

`CJSONProofs` shows, for every embedder that keeps to `cJSON.h`, every size of the heap, every nesting
limit and trees of any shape:

- `TypeCorrect`: `TypeOK`; `ListsStayLinked`: `ListsAreLinked`; `OneOwnerEach`: `EachHasOneOwner`;
  `NoPointerDangles`: `NothingDangles`.

All four follow from one invariant, `IInv` (`HeapStaysTended`): there are sequences of children
with which the heap is a forest, the roots and the leaked references are in no list and lead to
no sibling, every item is reached from one of them (`Grove`), what the references show is there,
and `strings` counts the copies that the items own (`Tended`). "Reached" speaks of paths, as
"every connection is reachable" does, and again the proof avoids them: a set is `Whole` when it
holds with each item its children, and every whole set that holds the roots holds every item.
Freeing is then a matter of such sets: what `cJSON_Delete` visits from a root is the smallest
whole set that holds it (`TreeIsDoomed`), no list leads into it or out of it, and what is left
is a grove with one root less (`TreeTaken`, `TendedDeleted`). Taking in, detaching and replacing
exchange the roots for members of one list (`TendedTakesIn`, `TendedDetached`, `TendedReplaced`,
on the theorems of `ItemListProofs`). Making goes the other way: a new tree is a grove of its
own beside the heap (`Both`), while it is being made a list whose first `prev` is still missing
(`ListGrows`, `ListEnds`), and it joins the heap when it is done (`TendedJoined`) or is freed
again when an allocation failed (`MadeIsFreed`). For a copy this is shown of every level by an
induction on the levels (`CopiesMade`): a copy of any item, in any memory, is a tree of new
items next to what was there. Each action of the embedder has a lemma (`CreateKeeps` to
`AddNewToObjectKeeps`) that cites these.

The assumptions are the named `ASSUME`s of the modules, which TLC evaluates in each run.
They say what a constant is (a number, a positive number, a set of these). Four say more:
`SizesAssumption` (an allocator grants at most half of the address space), `DescriptorAssumption`
(a descriptor is a listener's or a connection's), `ContextAssumption` (`*`, the pattern
of the catch-all routes, is none of the other patterns) and `HelpersAssumption` (a delay is at most
`IntMax`, the argument of `http_set_timer` being an `int`).

Only model-checked: all liveness properties (`AppendReturns`, `EveryRequestIsAnswered`,
`NoStarvation`, `RunStops`, `DueTimersFire`; proving them needs fairness and `ENABLED`, which
the prover does not handle); what items say (`CompareIsEquality`, `CopyIsFaithful`) and the
refinement of `ItemTree`, all of which `ItemValues` states with operators that recurse over
trees; and, of the texts, `PrintedIsParsed` and `MinifyKeepsValue`: the printer recurses over
values. The provers have no recursive operators.

## 6. Not modelled

- Logging, the HTTPS and multithreading stubs (they only report that they are not
  implemented), the self tests, the MIME table.
- Address parsing and socket options: sequences of system calls without state of their
  own. `create_and_bind` is modelled by its result and the descriptors it leaves.
- `keep_alive_timeout_ms`, `request_timeout_ms`, `max_connections` and the buffer sizes of
  the configuration are read by no code.
- The splitting of header lines into names and values, and the average response time.
- `http_request_free`. It is public and takes the request a handler holds, but it frees its parts without
  clearing the pointers (`http_support.c:314-338`), and the reset frees them again
  (`http_response.c:56-72`). README.md:584-587 says that a handler normally need not call it; a
  handler that does is not in `Context`, and `MemoryIsSafe` says nothing about it.
- `SIGPIPE`: `send` is called without `MSG_NOSIGNAL` (`http_response.c:17`) and the library does not
  ignore the signal, so that an embedder that does not either may be ended by a client that is
  gone. In `Connection` a failed `send` returns an error.
- An embedder that calls `http_poll` in a loop of its own. `timers_check` is called by `http_run` only,
  so its timers never run; `EventLoop` and `Timers` model the loop of `http_run`.
- A clock near the end of what `struct timeval` holds.
- In cJSON: the conversion of numbers to and from text, the contents of leaves in
  `cJSON_Compare` (two leaves of one kind are equal in the model; comparing without regard to
  case is modelled, and checked of searches only), raw items, `cJSON_InitHooks` in the middle of
  use, a print buffer that begins with no bytes, `cJSON_SetValuestring` (it puts one copy in the
  place of another).

## 7. Where code and documents disagree

- A request without keep-alive after one with it is answered `Connection: keep-alive`
  and the connection stays open: `keep_alive` is never cleared (`connection_close`).
- After an accept, `http_poll` reads each connection's `revents` at its neighbour's index
  and the last ones past the array. Readiness is lost for one call, which `poll`'s level
  triggering repairs unless there is always something to accept (`eventloop_handled`,
  `IndexIsOffByTheAccepted`, `NoStarvation`).
- A connection that is closed after a request was parsed, and not followed by a keep-alive
  reset, loses the strings and the body of that request; `http_free`, documented to free
  "all associated resources", loses them too (`context_leak`). `LossesAreExcused` says
  that nothing else is lost.

Seen in the code, without a run of their own:

- A stop that comes before `http_run` (a signal handler between `http_listen` and the
  loop) is forgotten: `http_run` begins with `ctx->stopped = 0` (`http.c:516`).
- `http_set_metrics_callback` called a second time leaves the first timer, so that the
  callback runs at both intervals (`http_support.c:288`; `metrics.h:31` says "Set or update").
- A keep-alive request for an unknown path or method is answered `Connection: close`
  (`http.c:274`; README.md:258 says `keep-alive` for every request recognised as such).
- The header array of a request is allocated with `http_malloc` and, on the keep-alive
  path, freed with `free` (`http_response.c:69`; `MemoryIsSafe` allows this block only).
- A response whose handler sets no status has status 0 (`http_response.c:206`);
  http_response.h:33 says "Initialize to defaults (status=200 OK, no headers, empty body)".
  `EachAnswerIsToItsRequest` has the 0.
- A NUL in the request line is not answered with 400: the connection is closed without an answer
  (`http_parser.c:16-20`, `http.c:325-328`). So is one whose handler sets a reason that does not
  fit a status line of 64 bytes, or a header of 1024 bytes or more (`http_response.c:113-118`,
  `133-137`, `http.c:369-372`). `EveryRequestIsAnswered` and `CloseOnlyWhenAnnounced` except
  these requests by name (`Answerable`).
- A timer that is more than `INT_MAX` milliseconds ahead, which takes a clock that is set back
  by weeks, gives `poll` whatever the cast leaves, perhaps no timeout at all
  (`http_support.c:82`).
- `max_connections` and the two timeouts of `config.h` are read by no code, and
  `total_errors` is never incremented.
- Timers follow the wall clock, so that setting it makes callbacks early or late
  (`NeverEarly` fails when `Offsets` has a second value).
- The handler given to `http_listen` is registered for the pattern `*`, which is compared
  as it stands: it is called for the path `*` only.
- `http_url_decode` turns `%00` into the end of its string.
- cJSON: `cJSON_Minify` takes the quote after an escaped backslash for an escaped one, and
  may change the value; four characters after `\u` that are no digits count as U+0000;
  `cJSON_AddItemReferenceToObject` loses the reference when the name cannot be copied; a
  case-sensitive search ends at a member without a name; a replacement in an object that
  finds nothing to replace has been renamed all the same; and an object with unnamed or
  duplicate members is not equal to its copy. With hooks and a `prebuffer` of 0 the first
  growth of a print buffer copies one byte that was not allocated.

## 8. Plan

Done: `Exchange`, `Connection`, `EventLoop`, `Schedule`, `Timers`, `Timeval`, `Context`,
`DynBuf`, `HttpText`, `JSONParser`, `Helpers`, `ItemTree`, `ItemLists`, `CJSON`, `ItemValues`
and `JSONText` with their runs, and the proofs of section 5.

Modules to come: numbers in `JSONParser` and `JSONText`; a `Server` with the protocol and the
timers in the loop, and its refinement of the loop alone.

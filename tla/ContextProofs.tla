--------------------------- MODULE ContextProofs ---------------------------
(* Proofs about Context, for every value of its constants.                 *)
EXTENDS Context, FiniteSetTheorems, TLAPS

-----------------------------------------------------------------------------
(* Blocks and pointers                                                     *)

\* A memory in which nothing went wrong so far.
Safe(m) ==
  /\ m \in Memory /\ ~m.twice /\ m.alien \subseteq {"headers"}
  /\ \A k \in Blocks : m.ptr[k] # "freed"

\* The blocks of one answer.
ResponseParts == {"wb", "rheaders", "rstrings", "ri", "bodybuf"}

\* From memory m to n no block is lost, and at most those of ks are new.
Grows(m, n, ks) ==
  /\ Safe(n) /\ n.lost = m.lost /\ Live(n) \subseteq Live(m) \cup ks

\* From memory m to n at most the blocks of ks are new, and at most those of them
\* that there were are lost.
Replaces(m, n, ks) ==
  /\ Safe(n) /\ n.lost \subseteq m.lost \cup (ks \cap Live(m))
  /\ Live(n) \subseteq Live(m) \cup ks

\* The blocks have different names.
LEMMA Names ==
  /\ RequestParts \subseteq ConnBlocks /\ ResponseParts \subseteq ConnBlocks
  /\ ConnBlocks \subseteq Blocks /\ Hooked \subseteq ConnBlocks
  /\ {"ctx", "routes", "m", "p", "hdr_block"} \subseteq Blocks \ ConnBlocks
  /\ "rb" \in ConnBlocks \ (RequestParts \cup ResponseParts)
  /\ {"conn", "peer"} \subseteq ConnBlocks \ (RequestParts \cup ResponseParts)
  /\ RequestParts \cap ResponseParts = {}
BY DEF RequestParts, ResponseParts, ConnBlocks, Blocks, Hooked

\* Pointers that get new blocks, and pointers that are set to NULL.
Fill(m, ks) == Store(m, ks, TRUE)
Clear(m, ks) == Store(m, ks, FALSE)

\* A pointer that held a block loses it, and holds a new one or none.
LEMMA FillFields ==
  ASSUME NEW m \in Memory, NEW ks \in SUBSET Blocks, NEW n, n = Fill(m, ks)
  PROVE  /\ n.ptr = [k \in Blocks |-> IF k \in ks THEN "live" ELSE m.ptr[k]]
         /\ n.lost = m.lost \cup (ks \cap Live(m)) /\ n.twice = m.twice /\ n.alien = m.alien
         /\ n \in Memory
BY DEF Fill, Store, Memory, Live

LEMMA FillEffect ==
  ASSUME NEW m, Safe(m), NEW ks \in SUBSET Blocks, NEW n, n = Fill(m, ks)
  PROVE  /\ Safe(n) /\ n.lost = m.lost \cup (ks \cap Live(m))
         /\ Live(n) = Live(m) \cup ks
<1>1. m \in Memory
  BY DEF Safe
<1>2. /\ n.ptr = [k \in Blocks |-> IF k \in ks THEN "live" ELSE m.ptr[k]]
      /\ n.lost = m.lost \cup (ks \cap Live(m)) /\ n.twice = m.twice /\ n.alien = m.alien
      /\ n \in Memory
  BY <1>1, FillFields
<1>3. \A k \in Blocks : n.ptr[k] # "freed"
  BY <1>2 DEF Safe
<1> QED BY <1>2, <1>3 DEF Safe, Live

LEMMA ClearFields ==
  ASSUME NEW m \in Memory, NEW ks \in SUBSET Blocks, NEW n, n = Clear(m, ks)
  PROVE  /\ n.ptr = [k \in Blocks |-> IF k \in ks THEN "null" ELSE m.ptr[k]]
         /\ n.lost = m.lost \cup (ks \cap Live(m)) /\ n.twice = m.twice /\ n.alien = m.alien
         /\ n \in Memory
BY DEF Clear, Store, Memory, Live

LEMMA ClearEffect ==
  ASSUME NEW m, Safe(m), NEW ks \in SUBSET Blocks, NEW n, n = Clear(m, ks)
  PROVE  /\ Safe(n) /\ n.lost = m.lost \cup (ks \cap Live(m))
         /\ Live(n) = Live(m) \ ks
<1>1. m \in Memory
  BY DEF Safe
<1>2. /\ n.ptr = [k \in Blocks |-> IF k \in ks THEN "null" ELSE m.ptr[k]]
      /\ n.lost = m.lost \cup (ks \cap Live(m)) /\ n.twice = m.twice /\ n.alien = m.alien
      /\ n \in Memory
  BY <1>1, ClearFields
<1>3. \A k \in Blocks : n.ptr[k] # "freed"
  BY <1>2 DEF Safe
<1> QED BY <1>2, <1>3 DEF Safe, Live

LEMMA StoreEither ==
  ASSUME NEW m, Safe(m), NEW ks \in SUBSET Blocks, NEW ok \in BOOLEAN,
         NEW n, n = Store(m, ks, ok)
  PROVE  Replaces(m, n, ks)
<1>1. CASE ok
  <2>1. n = Fill(m, ks)
    BY <1>1 DEF Store, Fill
  <2> QED BY <2>1, FillEffect DEF Replaces
<1>2. CASE ~ok
  <2>1. n = Clear(m, ks)
    BY <1>2 DEF Store, Clear
  <2> QED BY <2>1, ClearEffect DEF Replaces
<1> QED BY <1>1, <1>2

LEMMA ExtendEffect ==
  ASSUME NEW m, Safe(m), NEW k \in Blocks, NEW n, n = Extend(m, k)
  PROVE  Safe(n) /\ n.lost = m.lost /\ Live(n) = Live(m) \cup {k}
<1>1. /\ n.ptr = [m.ptr EXCEPT ![k] = "live"] /\ m.ptr \in [Blocks -> {"null", "live", "freed"}]
      /\ n.lost = m.lost /\ n.twice = m.twice /\ n.alien = m.alien
      /\ n \in Memory
  BY DEF Extend, Safe, Memory
<1>2. Safe(n)
  BY <1>1 DEF Safe
<1>3. Live(n) = Live(m) \cup {k}
  BY <1>1 DEF Live
<1> QED BY <1>1, <1>2, <1>3

\* What is released by the right allocator is gone, and nothing is lost.
LEMMA ReleaseEffect ==
  ASSUME NEW m, Safe(m), NEW ks \in SUBSET Blocks, NEW allocator,
         \A k \in ks : (allocator = "hook") # (k \in Hooked) => k = "headers",
         NEW n, n = Release(m, ks, allocator)
  PROVE  Safe(n) /\ n.lost = m.lost /\ Live(n) = Live(m) \ ks
<1>1. PICK f : f = Free(m, ks, allocator)
  OBVIOUS
<1>2. /\ f.ptr = [k \in Blocks |-> IF k \in ks \cap Live(m) THEN "freed" ELSE m.ptr[k]]
      /\ f.lost = m.lost
      /\ f.twice = (m.twice \/ \E k \in ks : m.ptr[k] = "freed")
      /\ f.alien = m.alien \cup {k \in ks \cap Live(m) : (allocator = "hook") # (k \in Hooked)}
  BY <1>1 DEF Free, Safe, Memory
<1>3. f.twice = FALSE /\ f.alien \subseteq {"headers"} /\ f.alien \in SUBSET Blocks
  BY <1>2 DEF Safe, Memory
<1>4. f.ptr \in [Blocks -> {"null", "live", "freed"}] /\ Live(f) = Live(m) \ ks
  BY <1>2 DEF Safe, Memory, Live
<1>5. f \in Memory
  <2>1. m \in Memory
    BY DEF Safe
  <2>2. DOMAIN f = {"ptr", "lost", "twice", "alien"}
    BY <1>1, <2>1 DEF Free, Memory
  <2>3. f = [ptr |-> f.ptr, lost |-> f.lost, twice |-> f.twice, alien |-> f.alien]
    BY <1>1, <2>1, <2>2 DEF Free, Memory
  <2>4. f.lost \in SUBSET Blocks /\ f.twice \in BOOLEAN
    BY <1>2, <1>3, <2>1 DEF Memory
  <2> QED BY <1>3, <1>4, <2>3, <2>4 DEF Memory
<1>6. n = Clear(f, ks)
  BY <1>1 DEF Release, Clear
<1>7. /\ n.ptr = [k \in Blocks |-> IF k \in ks THEN "null" ELSE f.ptr[k]]
      /\ n.lost = f.lost \cup (ks \cap Live(f)) /\ n.twice = f.twice /\ n.alien = f.alien
      /\ n \in Memory
  BY <1>5, <1>6, ClearFields
<1>8. Live(n) = Live(m) \ ks
  BY <1>2, <1>7 DEF Live
<1>9. \A k \in Blocks : n.ptr[k] # "freed"
  <2> TAKE k \in Blocks
  <2>1. m.ptr[k] # "freed"
    BY DEF Safe
  <2>2. CASE k \in ks
    BY <1>7, <2>2
  <2>3. CASE k \notin ks
    BY <1>2, <1>7, <2>1, <2>3
  <2> QED BY <2>2, <2>3
<1> QED BY <1>2, <1>3, <1>4, <1>7, <1>8, <1>9 DEF Safe

LEMMA ReleaseByLibc ==
  ASSUME NEW m, Safe(m), NEW ks \in SUBSET Blocks, \A k \in ks : k \notin Hooked,
         NEW n, n = Release(m, ks, "libc")
  PROVE  Safe(n) /\ n.lost = m.lost /\ Live(n) = Live(m) \ ks
<1>1. \A k \in ks : ("libc" = "hook") # (k \in Hooked) => k = "headers"
  OBVIOUS
<1> QED BY <1>1, ReleaseEffect

LEMMA AllocateEffect ==
  ASSUME NEW m, Safe(m), NEW k \in Blocks, NEW res \in Allocate(m, k)
  PROVE  /\ Replaces(m, res.mem, {k}) /\ res.ret \in {"ok", "error"}
         /\ res.ret = "error" => Live(res.mem) \subseteq Live(m)
<1>1. PICK ks \in SUBSET Blocks : ks = {k}
  OBVIOUS
<1>2. CASE res = Result(Store(m, {k}, TRUE), "ok")
  <2>1. PICK n : n = Fill(m, ks) /\ res.mem = n /\ res.ret = "ok"
    BY <1>1, <1>2 DEF Fill, Result
  <2> QED BY <1>1, <2>1, FillEffect DEF Replaces
<1>3. CASE res = Result(Store(m, {k}, FALSE), "error")
  <2>1. PICK n : n = Clear(m, ks) /\ res.mem = n /\ res.ret = "error"
    BY <1>1, <1>3 DEF Clear, Result
  <2> QED BY <1>1, <2>1, ClearEffect DEF Replaces
<1> QED BY <1>2, <1>3 DEF Allocate

LEMMA GrowEffect ==
  ASSUME NEW m, Safe(m), NEW k \in Blocks, NEW res \in Grow(m, k)
  PROVE  Grows(m, res.mem, {k}) /\ res.ret \in {"ok", "error"}
<1>1. CASE res = Result(Extend(m, k), "ok")
  BY <1>1, ExtendEffect DEF Result, Grows
<1>2. CASE res = Result(m, "error")
  BY <1>2 DEF Result, Grows
<1> QED BY <1>1, <1>2 DEF Grow

\* One replacement after another, of other blocks.
LEMMA ReplacesTwice ==
  ASSUME NEW m, NEW n, NEW o, NEW a, NEW b, a \cap b = {}, Replaces(m, n, a), Replaces(n, o, b)
  PROVE  Replaces(m, o, a \cup b)
BY DEF Replaces

LEMMA GrowsReplaces ==
  ASSUME NEW m, NEW n, NEW o, NEW a, NEW b,
         Replaces(m, n, a), Grows(n, o, b), b \subseteq a
  PROVE  Replaces(m, o, a)
BY DEF Replaces, Grows

LEMMA GrowsTwice ==
  ASSUME NEW m, NEW n, NEW o, NEW a, NEW b, NEW c,
         Grows(m, n, a), Grows(n, o, b), a \subseteq c, b \subseteq c
  PROVE  Grows(m, o, c)
BY DEF Grows

-----------------------------------------------------------------------------
(* What http_response.c does to the memory                                 *)

LEMMA HttpResponseFree ==
  ASSUME NEW m, Safe(m)
  PROVE  /\ Grows(m, http_response_free(m), {})
         /\ Live(http_response_free(m)) = Live(m) \ {"rstrings", "rheaders", "bodybuf", "ri"}
<1>1. PICK ks \in SUBSET Blocks : ks = {"rstrings", "rheaders", "bodybuf", "ri"}
  BY Names DEF ResponseParts
<1>2. \A k \in ks : k \notin Hooked
  BY <1>1 DEF Hooked
<1>3. PICK n : n = http_response_free(m)
  OBVIOUS
<1>4. n = Release(m, ks, "libc")
  BY <1>1, <1>3 DEF http_response_free
<1>5. Safe(n) /\ n.lost = m.lost /\ Live(n) = Live(m) \ ks
  BY <1>2, <1>4, ReleaseEffect
<1> QED BY <1>1, <1>3, <1>5 DEF Grows

LEMMA HttpResponseInit ==
  ASSUME NEW m, Safe(m), NEW n \in http_response_init(m)
  PROVE  Grows(m, n, ResponseParts)
<1>1. PICK ok \in BOOLEAN : n = Store(http_response_free(m), {"ri"}, ok)
  BY DEF http_response_init
<1>2. PICK f : f = http_response_free(m)
  OBVIOUS
<1>3. Grows(m, f, {}) /\ "ri" \notin Live(f)
  BY <1>2, HttpResponseFree
<1>4. PICK ks \in SUBSET Blocks : ks = {"ri"}
  BY Names DEF ResponseParts
<1>5. Replaces(f, n, ks)
  <2>1. n = Store(f, ks, ok)
    BY <1>1, <1>2, <1>4
  <2> QED BY <1>3, <2>1, StoreEither DEF Grows
<1>6. Safe(n) /\ n.lost \subseteq m.lost /\ Live(n) \subseteq Live(m) \cup {"ri"}
  BY <1>3, <1>4, <1>5 DEF Replaces, Grows
<1>7. m.lost \subseteq n.lost
  <2>1. m.lost \in SUBSET Blocks /\ f.lost = m.lost
    BY <1>3 DEF Safe, Memory, Grows
  <2>2. n.lost = f.lost \cup (ks \cap Live(f))
    <3>1. f \in Memory
      BY <1>3 DEF Grows, Safe
    <3>2. n = Store(f, ks, ok)
      BY <1>1, <1>2, <1>4
    <3> QED BY <3>1, <3>2 DEF Store, Memory
  <2> QED BY <2>1, <2>2
<1> QED BY <1>6, <1>7 DEF Grows, ResponseParts

LEMMA HttpResponseAddHeader ==
  ASSUME NEW m, Safe(m), NEW n \in http_response_add_header(m)
  PROVE  Grows(m, n, ResponseParts)
<1>1. "rheaders" \in Blocks /\ "rstrings" \in Blocks
  BY Names DEF ResponseParts
<1>2. PICK h : h = Extend(m, "rheaders")
  OBVIOUS
<1>3. Grows(m, h, ResponseParts)
  BY <1>1, <1>2, ExtendEffect DEF Grows, ResponseParts
<1>4. Grows(h, Extend(h, "rstrings"), ResponseParts)
  <2>1. PICK o : o = Extend(h, "rstrings")
    OBVIOUS
  <2>2. Safe(o) /\ o.lost = h.lost /\ Live(o) = Live(h) \cup {"rstrings"}
    BY <1>1, <1>3, <2>1, ExtendEffect DEF Grows
  <2> QED BY <2>1, <2>2 DEF Grows, ResponseParts
<1>5. Grows(m, m, ResponseParts)
  BY DEF Grows
<1>6. n \in {m, h, Extend(h, "rstrings")}
  BY <1>2 DEF http_response_add_header
<1> QED BY <1>3, <1>4, <1>5, <1>6, GrowsTwice

LEMMA HttpResponseWriteBody ==
  ASSUME NEW m, Safe(m), NEW res \in http_response_write_body(m)
  PROVE  Grows(m, res.mem, ResponseParts) /\ res.ret \in {"ok", "error"}
<1>1. CASE res = Result(m, "error")
  BY <1>1 DEF Result, Grows
<1>2. CASE res \in Grow(m, "bodybuf")
  <2>1. "bodybuf" \in Blocks
    BY Names DEF ResponseParts
  <2>2. Grows(m, res.mem, {"bodybuf"}) /\ res.ret \in {"ok", "error"}
    BY <1>2, <2>1, GrowEffect
  <2> QED BY <2>2 DEF Grows, ResponseParts
<1> QED BY <1>1, <1>2 DEF http_response_write_body

LEMMA PrepareResponse ==
  ASSUME NEW m, Safe(m), NEW res \in prepare_response(m)
  PROVE  Grows(m, res.mem, ResponseParts) /\ res.ret \in {"ok", "error"}
<1>1. PICK a \in Grow(m, "wb") \cup {Result(Extend(m, "wb"), "error")} :
        res \in IF a.ret = "ok" THEN {Result(Release(a.mem, {"bodybuf"}, "libc"), "ok")} ELSE {a}
  BY DEF prepare_response, Then
<1>2. {"wb", "bodybuf"} \subseteq Blocks
  BY Names DEF ResponseParts
<1>3. Grows(m, a.mem, {"wb"}) /\ a.ret \in {"ok", "error"}
  <2>1. CASE a \in Grow(m, "wb")
    BY <1>2, <2>1, GrowEffect
  <2>2. CASE a = Result(Extend(m, "wb"), "error")
    BY <1>2, <2>2, ExtendEffect DEF Grows, Result
  <2> QED BY <1>1, <2>1, <2>2
<1>4. CASE a.ret = "ok"
  <2>1. PICK ks \in SUBSET Blocks : ks = {"bodybuf"}
    BY <1>2
  <2>2. PICK n : n = Release(a.mem, ks, "libc")
    OBVIOUS
  <2>3. \A k \in ks : k \notin Hooked
    BY <2>1 DEF Hooked
  <2>4. Safe(a.mem)
    BY <1>3 DEF Grows
  <2>5. Safe(n) /\ n.lost = a.mem.lost /\ Live(n) = Live(a.mem) \ ks
    BY <2>2, <2>3, <2>4, ReleaseEffect, SMTT(30)
  <2>6. res.mem = n /\ res.ret = "ok"
    BY <1>1, <1>4, <2>1, <2>2 DEF Result
  <2> QED BY <1>3, <2>5, <2>6 DEF Grows, ResponseParts
<1>5. CASE a.ret # "ok"
  BY <1>1, <1>3, <1>5 DEF Grows, ResponseParts
<1> QED BY <1>4, <1>5

LEMMA QueueErrorResponse ==
  ASSUME NEW m, Safe(m), NEW res \in queue_error_response(m)
  PROVE  Grows(m, res.mem, ResponseParts) /\ res.ret \in {"ok", "error"}
<1> DEFINE bodies == UNION {http_response_write_body(n) :
                              n \in UNION {http_response_add_header(i) : i \in http_response_init(m)}}
<1>1. PICK b \in bodies : res \in IF b.ret = "ok" THEN prepare_response(b.mem) ELSE {b}
  BY DEF queue_error_response, Then
<1>2. PICK n \in UNION {http_response_add_header(i) : i \in http_response_init(m)} :
        b \in http_response_write_body(n)
  OBVIOUS
<1>3. PICK i \in http_response_init(m) : n \in http_response_add_header(i)
  OBVIOUS
<1>4. Grows(m, i, ResponseParts)
  BY HttpResponseInit
<1>5. Grows(m, n, ResponseParts)
  BY <1>4, <1>3, HttpResponseAddHeader, GrowsTwice DEF Grows
<1>6. Grows(m, b.mem, ResponseParts) /\ b.ret \in {"ok", "error"}
  BY <1>5, <1>2, HttpResponseWriteBody, GrowsTwice DEF Grows
<1>7. CASE b.ret = "ok"
  <2>1. Grows(b.mem, res.mem, ResponseParts) /\ res.ret \in {"ok", "error"}
    BY <1>1, <1>6, <1>7, PrepareResponse DEF Grows
  <2> QED BY <1>6, <2>1, GrowsTwice
<1> QED BY <1>1, <1>6, <1>7

-----------------------------------------------------------------------------
(* What http_parser.c does to the memory                                   *)

LEMMA ParseRequestLine ==
  ASSUME NEW m, Safe(m), NEW r, NEW res \in parse_request_line(m, r)
  PROVE  /\ Replaces(m, res.mem, {"method", "path", "query"})
         /\ res.ret \in {"ok", "error", "bad"}
<1>1. CASE r.line = "malformed"
  <2>1. res = Result(m, "bad")
    BY <1>1 DEF parse_request_line, Then
  <2> QED BY <2>1 DEF Result, Replaces
<1>2. CASE r.line # "malformed"
  <2>1. PICK a \in Allocate(m, "method") :
          res \in IF a.ret = "ok"
                  THEN {Result(Store(Store(a.mem, {"path"}, p), {"query"}, r.query /\ q),
                               IF ~p \/ (r.query /\ ~q) THEN "error"
                               ELSE IF r.line = "version" THEN "bad" ELSE "ok") :
                          p \in BOOLEAN, q \in BOOLEAN}
                  ELSE {a}
    BY <1>2 DEF parse_request_line, Then
  <2>2. {"method", "path", "query"} \subseteq Blocks
    BY Names DEF RequestParts
  <2>3. Replaces(m, a.mem, {"method"}) /\ a.ret \in {"ok", "error"}
    BY <2>2, AllocateEffect
  <2>4. CASE a.ret = "ok"
    <3>1. PICK p \in BOOLEAN : \E q \in BOOLEAN :
            res = Result(Store(Store(a.mem, {"path"}, p), {"query"}, r.query /\ q),
                         IF ~p \/ (r.query /\ ~q) THEN "error"
                         ELSE IF r.line = "version" THEN "bad" ELSE "ok")
      BY <2>1, <2>4
    <3>2. PICK q \in BOOLEAN :
            res = Result(Store(Store(a.mem, {"path"}, p), {"query"}, r.query /\ q),
                         IF ~p \/ (r.query /\ ~q) THEN "error"
                         ELSE IF r.line = "version" THEN "bad" ELSE "ok")
      BY <3>1
    <3>3. PICK two \in SUBSET Blocks : two = {"query"}
      BY <2>2
    <3>4. PICK path \in SUBSET Blocks : path = {"path"}
      BY <2>2
    <3>5. PICK b : b = Store(a.mem, path, p)
      OBVIOUS
    <3>6. Replaces(a.mem, b, path)
      BY <2>3, <3>5, StoreEither DEF Replaces
    <3>7. PICK n : n = Store(b, two, r.query /\ q) /\ res.mem = n
      BY <3>2, <3>3, <3>4, <3>5 DEF Result
    <3>8. Replaces(b, n, two)
      <4>1. Safe(b)
        BY <3>6 DEF Replaces
      <4>2. CASE r.query /\ q
        <5>1. n = Fill(b, two)
          BY <3>7, <4>2 DEF Store, Fill
        <5> QED BY <4>1, <5>1, FillEffect DEF Replaces
      <4>3. CASE ~(r.query /\ q)
        <5>1. n = Clear(b, two)
          BY <3>7, <4>3 DEF Store, Clear
        <5> QED BY <4>1, <5>1, ClearEffect DEF Replaces
      <4> QED BY <4>2, <4>3
    <3>9. Replaces(m, b, {"method", "path"})
      <4>1. {"method"} \cap path = {} /\ {"method"} \cup path = {"method", "path"}
        BY <3>4
      <4> QED BY <2>3, <3>6, <4>1, ReplacesTwice
    <3>10. Replaces(m, n, {"method", "path", "query"})
      <4>1. {"method", "path"} \cap two = {} /\ {"method", "path"} \cup two = {"method", "path", "query"}
        BY <3>3
      <4> QED BY <3>8, <3>9, <4>1, ReplacesTwice
    <3>11. res.ret \in {"ok", "error", "bad"}
      BY <3>2 DEF Result
    <3> QED BY <3>7, <3>10, <3>11
  <2>5. CASE a.ret # "ok"
    <3>1. res = a
      BY <2>1, <2>5
    <3> QED BY <2>3, <3>1 DEF Replaces
  <2> QED BY <2>4, <2>5
<1> QED BY <1>1, <1>2

LEMMA ParseHeaders ==
  ASSUME NEW m, Safe(m), NEW r, NEW res \in parse_headers(m, r)
  PROVE  /\ Replaces(m, res.mem, {"headers", "hstrings"})
         /\ res.ret \in {"ok", "error"}
<1>1. {"headers", "hstrings"} \subseteq Blocks
  BY Names DEF RequestParts
<1>2. PICK strings \in SUBSET Blocks : strings = {"hstrings"}
  BY <1>1
<1>3. PICK o : o = Clear(m, strings)
  OBVIOUS
<1>4. Replaces(m, o, strings)
  BY <1>3, ClearEffect DEF Replaces
<1>5. PICK a \in Allocate(o, "headers") :
        res \in IF a.ret = "ok"
                THEN CASE r.headers = "copied" ->
                            {Result(Extend(a.mem, "hstrings"), "ok"), Result(a.mem, "error"),
                             Result(Extend(a.mem, "hstrings"), "error")}
                       [] OTHER -> {Result(a.mem, "ok")}
                ELSE {a}
  BY <1>2, <1>3 DEF parse_headers, Then, Clear
<1>6. Replaces(o, a.mem, {"headers"}) /\ a.ret \in {"ok", "error"}
  BY <1>1, <1>4, AllocateEffect DEF Replaces
<1>7. Replaces(m, a.mem, {"headers", "hstrings"})
  <2>1. strings \cap {"headers"} = {} /\ strings \cup {"headers"} = {"headers", "hstrings"}
    BY <1>2
  <2> QED BY <1>4, <1>6, <2>1, ReplacesTwice
<1>8. PICK e : e = Extend(a.mem, "hstrings")
  OBVIOUS
<1>9. Replaces(m, e, {"headers", "hstrings"})
  <2>1. Grows(a.mem, e, {"hstrings"})
    BY <1>1, <1>6, <1>8, ExtendEffect DEF Replaces, Grows
  <2> QED BY <1>7, <2>1, GrowsReplaces
<1>10. res.mem \in {a.mem, e} /\ res.ret \in {"ok", "error"}
  BY <1>5, <1>6, <1>8 DEF Result
<1> QED BY <1>7, <1>9, <1>10

LEMMA ParseBody ==
  ASSUME NEW m, Safe(m), NEW r, NEW whole, NEW res \in parse_body(m, r, whole)
  PROVE  /\ Replaces(m, res.mem, {"body"})
         /\ res.ret \in {"ok", "error", "incomplete"}
<1>1. CASE res \in {Result(m, "incomplete"), Result(m, "ok")}
  BY <1>1 DEF Result, Replaces
<1>2. CASE res \in Allocate(m, "body")
  <2>1. "body" \in Blocks
    BY Names DEF RequestParts
  <2> QED BY <1>2, <2>1, AllocateEffect
<1> QED BY <1>1, <1>2 DEF parse_body

\* Parsing allocates parts of the request, over those of an earlier parse.
LEMMA ParseRequest ==
  ASSUME NEW m, Safe(m), "hdr_block" \notin Live(m), NEW r, NEW whole,
         NEW res \in parse_request(m, r, whole)
  PROVE  /\ Replaces(m, res.mem, RequestParts)
         /\ "hdr_block" \notin Live(res.mem)
         /\ res.ret \in {"ok", "error", "bad", "incomplete"}
<1>1. "hdr_block" \in Blocks
  BY Names
<1>2. PICK d \in Then(Allocate(m, "hdr_block"), LAMBDA a :
                   Then(parse_request_line(a, r), LAMBDA b :
                     Then(parse_headers(b, r), LAMBDA c : parse_body(c, r, whole)))) :
        res = Result(Release(d.mem, {"hdr_block"}, "libc"), d.ret)
  BY DEF parse_request
<1>3. PICK a \in Allocate(m, "hdr_block") :
        d \in IF a.ret = "ok"
              THEN Then(parse_request_line(a.mem, r), LAMBDA b :
                     Then(parse_headers(b, r), LAMBDA c : parse_body(c, r, whole)))
              ELSE {a}
  BY <1>2 DEF Then
<1>4. Replaces(m, a.mem, {"hdr_block"}) /\ a.ret \in {"ok", "error"}
  BY <1>1, AllocateEffect
<1>5. PICK parts : parts = {"method", "path", "query", "headers", "hstrings", "body"}
  OBVIOUS
<1>6. Replaces(a.mem, d.mem, parts) /\ d.ret \in {"ok", "error", "bad", "incomplete"}
  <2>1. CASE d = a
    BY <1>4, <2>1 DEF Replaces
  <2>2. CASE d \in Then(parse_request_line(a.mem, r), LAMBDA b :
                     Then(parse_headers(b, r), LAMBDA c : parse_body(c, r, whole)))
    <3>1. PICK b \in parse_request_line(a.mem, r) :
            d \in IF b.ret = "ok"
                  THEN Then(parse_headers(b.mem, r), LAMBDA c : parse_body(c, r, whole))
                  ELSE {b}
      BY <2>2 DEF Then
    <3>2. Replaces(a.mem, b.mem, {"method", "path", "query"}) /\ b.ret \in {"ok", "error", "bad"}
      BY <1>4, ParseRequestLine DEF Replaces
    <3>3. CASE d = b
      BY <1>5, <3>2, <3>3 DEF Replaces
    <3>4. CASE d \in Then(parse_headers(b.mem, r), LAMBDA c : parse_body(c, r, whole))
      <4>1. PICK c \in parse_headers(b.mem, r) :
              d \in IF c.ret = "ok" THEN parse_body(c.mem, r, whole) ELSE {c}
        BY <3>4 DEF Then
      <4>2. Replaces(b.mem, c.mem, {"headers", "hstrings"}) /\ c.ret \in {"ok", "error"}
        BY <3>2, ParseHeaders DEF Replaces
      <4>3. PICK some : some = {"method", "path", "query", "headers", "hstrings"}
        OBVIOUS
      <4>4. Replaces(a.mem, c.mem, some)
        <5>1. /\ {"method", "path", "query"} \cap {"headers", "hstrings"} = {}
              /\ {"method", "path", "query"} \cup {"headers", "hstrings"} = some
          BY <4>3
        <5> QED BY <3>2, <4>2, <5>1, ReplacesTwice
      <4>5. CASE d = c
        BY <1>5, <4>2, <4>3, <4>4, <4>5 DEF Replaces
      <4>6. CASE d \in parse_body(c.mem, r, whole)
        <5>1. Replaces(c.mem, d.mem, {"body"}) /\ d.ret \in {"ok", "error", "incomplete"}
          BY <4>4, <4>6, ParseBody DEF Replaces
        <5>2. some \cap {"body"} = {} /\ some \cup {"body"} = parts
          BY <1>5, <4>3
        <5> QED BY <4>4, <5>1, <5>2, ReplacesTwice
      <4> QED BY <4>1, <4>5, <4>6
    <3> QED BY <3>1, <3>3, <3>4
  <2> QED BY <1>3, <2>1, <2>2
<1>7. PICK block \in SUBSET Blocks : block = {"hdr_block"}
  BY <1>1
<1>8. PICK n : n = Release(d.mem, block, "libc") /\ res.mem = n /\ res.ret = d.ret
  BY <1>2, <1>7 DEF Result
<1>9. Safe(n) /\ n.lost = d.mem.lost /\ Live(n) = Live(d.mem) \ block
  <2>1. \A k \in block : k \notin Hooked
    BY <1>7 DEF Hooked
  <2> QED BY <1>6, <1>8, <2>1, ReleaseEffect DEF Replaces
<1>10. "hdr_block" \notin parts /\ parts = RequestParts
  BY <1>5 DEF RequestParts
<1> QED BY <1>4, <1>6, <1>7, <1>8, <1>9, <1>10 DEF Replaces

-----------------------------------------------------------------------------
(* What http.c and http_response.c free                                    *)

\* Closing keeps nothing, and loses what parsing left and nothing else.
LEMMA ClosedEffect ==
  ASSUME NEW m, Safe(m), Live(m) \subseteq ConnBlocks \cup {"ctx", "routes"},
         NEW n, n = Closed(m)
  PROVE  /\ Safe(n) /\ Live(n) \subseteq {"ctx", "routes"}
         /\ n.lost \subseteq m.lost \cup (RequestParts \ {"headers"})
<1>1. PICK one \in SUBSET Blocks : one = {"rb", "wb"}
  BY Names DEF ResponseParts
<1>2. PICK two \in SUBSET Blocks : two = {"headers", "peer"}
  BY Names DEF Hooked
<1>3. PICK three \in SUBSET Blocks : three = {"conn"}
  BY Names DEF Hooked
<1>4. PICK a : a = Release(m, one, "libc")
  OBVIOUS
<1>5. PICK b : b = Release(a, two, "hook")
  OBVIOUS
<1>6. PICK c : c = http_response_free(b)
  OBVIOUS
<1>7. PICK d : d = Release(c, three, "hook")
  OBVIOUS
<1>8. PICK all \in SUBSET Blocks : all = ConnBlocks
  BY Names
<1>9. n = Clear(d, all)
  BY <1>1, <1>2, <1>3, <1>4, <1>5, <1>6, <1>7, <1>8 DEF Closed, Clear
<1>10. Safe(a) /\ a.lost = m.lost /\ Live(a) = Live(m) \ one
  <2>1. \A k \in one : k \notin Hooked
    BY <1>1 DEF Hooked
  <2> QED BY <1>4, <2>1, ReleaseEffect
<1>11. Safe(b) /\ b.lost = m.lost /\ Live(b) = Live(a) \ two
  <2>1. \A k \in two : k \in Hooked
    BY <1>2 DEF Hooked
  <2> QED BY <1>5, <1>10, <2>1, ReleaseEffect
<1>12. Safe(c) /\ c.lost = m.lost /\ Live(c) = Live(b) \ {"rstrings", "rheaders", "bodybuf", "ri"}
  BY <1>6, <1>11, HttpResponseFree DEF Grows
<1>13. Safe(d) /\ d.lost = m.lost /\ Live(d) = Live(c) \ three
  <2>1. \A k \in three : k \in Hooked
    BY <1>3 DEF Hooked
  <2> QED BY <1>7, <1>12, <2>1, ReleaseEffect
<1>14. Safe(n) /\ n.lost = d.lost \cup (all \cap Live(d)) /\ Live(n) = Live(d) \ all
  BY <1>9, <1>13, ClearEffect
<1>15. Live(d) \cap ConnBlocks \subseteq RequestParts \ {"headers"}
  BY <1>1, <1>2, <1>3, <1>10, <1>11, <1>12, <1>13 DEF ConnBlocks, RequestParts
<1>16. Live(d) \subseteq Live(m)
  BY <1>10, <1>11, <1>12, <1>13
<1> QED BY <1>8, <1>13, <1>14, <1>15, <1>16

\* The reset after a response frees the request and loses nothing.
LEMMA ResetEffect ==
  ASSUME NEW m, Safe(m), NEW n, n = Reset(m)
  PROVE  Safe(n) /\ n.lost = m.lost /\ Live(n) = Live(m) \ (RequestParts \cup {"rb", "wb"})
<1>1. PICK one \in SUBSET Blocks : one = {"rb"}
  BY Names
<1>2. PICK two \in SUBSET Blocks : two = RequestParts
  BY Names
<1>3. PICK three \in SUBSET Blocks : three = {"wb"}
  BY Names DEF ResponseParts
<1>4. PICK a : a = Release(m, one, "libc")
  OBVIOUS
<1>5. PICK b : b = Release(a, two, "libc")
  OBVIOUS
<1>6. n = Release(b, three, "libc")
  BY <1>1, <1>2, <1>3, <1>4, <1>5 DEF Reset, Release
<1>7. Safe(a) /\ a.lost = m.lost /\ Live(a) = Live(m) \ one
  <2>1. \A k \in one : k \notin Hooked
    BY <1>1 DEF Hooked
  <2> QED BY <1>4, <2>1, ReleaseEffect
<1>8. Safe(b) /\ b.lost = a.lost /\ Live(b) = Live(a) \ two
  <2>1. \A k \in two : k \in Hooked => k = "headers"
    BY <1>2 DEF Hooked, RequestParts
  <2>2. \A k \in two : ("libc" = "hook") # (k \in Hooked) => k = "headers"
    BY <2>1
  <2> QED BY <1>5, <1>7, <2>2, ReleaseEffect, SMTT(30)
<1>9. Safe(n) /\ n.lost = b.lost /\ Live(n) = Live(b) \ three
  <2>1. \A k \in three : k \notin Hooked
    BY <1>3 DEF Hooked
  <2> QED BY <1>6, <1>8, <2>1, ReleaseEffect
<1> QED BY <1>1, <1>2, <1>3, <1>7, <1>8, <1>9

-----------------------------------------------------------------------------
(* The inductive invariant                                                 *)

\* The blocks m has lost may be lost after what has happened.
Excused(m, events) ==
  /\ m.lost \subseteq RequestParts /\ (events = {} => m.lost = {})
  /\ ("headers" \in m.lost => "reparsed" \in events)

\* Between two calls only the blocks of the context and of the connection are
\* allocated, and none of a request before it is parsed.
MemGood ==
  /\ Safe(mem) /\ Excused(mem, past)
  /\ Live(mem) \subseteq ConnBlocks \cup {"ctx", "routes"}
  /\ conn = NoConn => Live(mem) \subseteq {"ctx", "routes"}
  /\ ctx # "up" => Live(mem) = {} /\ conn = NoConn
  /\ conn.state = "reading" /\ conn.req = NoRequest => Live(mem) \cap RequestParts = {}

AddsUp(met) ==
  met.total_requests + met.bad + met.carried = met.total_responses + met.dropped + met.owed

Owes(c) == IF c.state \in {"handler", "writing"} THEN 1 ELSE 0

\* An answer is owed while a handler runs or a response is being sent.
ConnGood ==
  /\ conn # NoConn => conn.state # "none"
  /\ metrics.active_connections = IF conn = NoConn THEN 0 ELSE 1
  /\ metrics.owed = Owes(conn) /\ AddsUp(metrics)

CatchAll(s) == {i \in DOMAIN s : s[i] = "*"}

\* The table can always double.
TableGood ==
  /\ Len(routes) <= route_cap /\ Cardinality(CatchAll(routes)) = Len(listen_fds)
  /\ ctx = "up" => route_cap # 0
  /\ ctx # "up" => routes = <<>> /\ route_cap = 0 /\ listen_fds = <<>>

Listening == {listen_fds[i] : i \in DOMAIN listen_fds}

\* No listener has the connection's descriptor.
DescriptorsGood ==
  /\ IsFiniteSet(open)
  /\ conn = NoConn => open = Listening /\ Cardinality(open) = Len(listen_fds)
  /\ conn # NoConn => /\ conn.fd \notin Listening /\ open = Listening \cup {conn.fd}
                      /\ Cardinality(open) = Len(listen_fds) + 1

IInv == TypeOK /\ MemGood /\ ConnGood /\ TableGood /\ DescriptorsGood

\* The connection after it was opened is none that is not there.
LEMMA SomeConn ==
  ASSUME NEW c, c.state # "none"
  PROVE  c # NoConn
BY DEF NoConn

LEMMA NoConnType == NoConn \in Connection /\ NoConn.state = "none"
BY DEF NoConn, Connection

LEMMA InitIsGood == Init => IInv
<1> SUFFICES ASSUME Init PROVE IInv
  OBVIOUS
<1>1. /\ ctx = "null" /\ open = {} /\ listen_fds = <<>> /\ routes = <<>> /\ route_cap = 0
      /\ mem = [ptr |-> [k \in Blocks |-> "null"], lost |-> {}, twice |-> FALSE, alien |-> {}]
      /\ conn = NoConn /\ past = {}
  BY DEF Init
<1>2. /\ metrics.total_requests = 0 /\ metrics.total_responses = 0 /\ metrics.bad = 0
      /\ metrics.active_connections = 0 /\ metrics.owed = 0 /\ metrics.carried = 0
      /\ metrics.dropped = 0
  BY DEF Init
<1>3. metrics \in Metrics
  BY ContextAssumption DEF Init, Metrics
<1>4. Safe(mem) /\ Live(mem) = {} /\ mem.lost = {} /\ mem \in Memory
  BY <1>1 DEF Safe, Live, Memory
<1>5. TypeOK
  BY <1>1, <1>3, <1>4, NoConnType, ContextAssumption DEF TypeOK
<1>6. MemGood
  BY <1>1, <1>4 DEF MemGood, Excused
<1>7. ConnGood
  BY <1>1, <1>2, NoConnType DEF ConnGood, AddsUp, Owes
<1>8. CatchAll(routes) = {} /\ Listening = {}
  BY <1>1 DEF CatchAll, Listening
<1>9. Len(listen_fds) = 0 /\ Len(routes) = 0
  BY <1>1
<1>10. TableGood
  <2>1. Cardinality(CatchAll(routes)) = Len(listen_fds)
    BY <1>8, <1>9, FS_EmptySet
  <2>2. Len(routes) <= route_cap
    BY <1>1, <1>9
  <2> QED BY <1>1, <2>1, <2>2 DEF TableGood
<1>11. DescriptorsGood
  BY <1>1, <1>8, <1>9, FS_EmptySet DEF DescriptorsGood
<1> QED BY <1>5, <1>6, <1>7, <1>10, <1>11 DEF IInv

-----------------------------------------------------------------------------
(* What the calls on a connection leave                                    *)

LEMMA CountOfListeners == IInv => Len(listen_fds) \in Nat
BY DEF IInv, TypeOK

\* A memory that a call on the connection may leave.
Fine(m, events) ==
  /\ Safe(m) /\ Live(m) \subseteq ConnBlocks \cup {"ctx", "routes"}
  /\ Excused(m, past \cup events) /\ events \subseteq {"closed", "reparsed"}

\* Counters that a call on the connection may leave.
Counted(met, owed) ==
  /\ met \in Metrics /\ AddsUp(met) /\ met.active_connections = 1 /\ met.owed = owed

LEMMA CounterTypes ==
  ASSUME NEW met \in Metrics
  PROVE  /\ met.total_requests \in Nat /\ met.total_responses \in Nat /\ met.bad \in Nat
         /\ met.carried \in 0..1 /\ met.dropped \in Nat /\ met.owed \in 0..1
         /\ met.active_connections \in 0..1 /\ met.accepted \in 0..MaxConnections
         /\ met.arrived \in 0..MaxRequests
BY DEF Metrics

\* Counters of which two are changed.
LEMMA CounterUpdates ==
  ASSUME NEW met \in Metrics, NEW x \in Nat, NEW y \in Nat
  PROVE  /\ [met EXCEPT !.total_responses = x, !.owed = 0] \in Metrics
         /\ [met EXCEPT !.active_connections = 0, !.dropped = y, !.owed = 0] \in Metrics
<1>1. 0 \in 0..1
  OBVIOUS
<1> QED BY <1>1 DEF Metrics

\* The answer that was owed is sent, or the connection is closed and it never is.
LEMMA CountersSent ==
  ASSUME NEW met, Counted(met, 1), NEW n,
         n = [met EXCEPT !.total_responses = @ + 1, !.owed = 0]
  PROVE  Counted(n, 0)
<1>1. met \in Metrics /\ AddsUp(met) /\ met.active_connections = 1 /\ met.owed = 1
  BY DEF Counted
<1>2. PICK x \in Nat : x = met.total_responses + 1
  BY <1>1, CounterTypes
<1>3. /\ n.total_requests = met.total_requests /\ n.bad = met.bad /\ n.carried = met.carried
      /\ n.total_responses = x /\ n.dropped = met.dropped /\ n.owed = 0
      /\ n.active_connections = met.active_connections
  BY <1>1, <1>2 DEF Metrics
<1>4. n \in Metrics
  <2>1. n = [met EXCEPT !.total_responses = x, !.owed = 0]
    BY <1>1, <1>2
  <2>2. [met EXCEPT !.total_responses = x, !.owed = 0] \in Metrics
    BY <1>1, CounterUpdates
  <2> QED BY <2>1, <2>2
<1>5. AddsUp(n)
  BY <1>1, <1>2, <1>3, CounterTypes DEF AddsUp
<1> QED BY <1>1, <1>3, <1>4, <1>5 DEF Counted

LEMMA CountersClosed ==
  ASSUME NEW met, NEW owed \in 0..1, Counted(met, owed), NEW n,
         n = [met EXCEPT !.active_connections = @ - 1, !.dropped = @ + met.owed, !.owed = 0]
  PROVE  n \in Metrics /\ n.active_connections = 0 /\ n.owed = 0 /\ AddsUp(n)
<1>1. met \in Metrics /\ AddsUp(met) /\ met.active_connections = 1
  BY DEF Counted
<1>2. PICK x \in Nat : x = met.dropped + met.owed
  BY <1>1, CounterTypes
<1>3. /\ n.total_requests = met.total_requests /\ n.bad = met.bad /\ n.carried = met.carried
      /\ n.total_responses = met.total_responses /\ n.dropped = x /\ n.owed = 0
      /\ n.active_connections = 0
  BY <1>1, <1>2 DEF Metrics
<1>4. n \in Metrics
  <2>1. n = [met EXCEPT !.active_connections = 0, !.dropped = x, !.owed = 0]
    BY <1>1, <1>2
  <2>2. [met EXCEPT !.active_connections = 0, !.dropped = x, !.owed = 0] \in Metrics
    BY <1>1, CounterUpdates
  <2> QED BY <2>1, <2>2
<1>5. AddsUp(n)
  BY <1>1, <1>2, <1>3, CounterTypes DEF AddsUp
<1> QED BY <1>3, <1>4, <1>5

LEMMA LeaveKeeps ==
  ASSUME IInv, conn # NoConn, NEW m, NEW events, Fine(m, events),
         NEW c \in Connection, c.state # "none", c.fd = conn.fd,
         NEW met, Counted(met, Owes(c)),
         c.state = "reading" /\ c.req = NoRequest => Live(m) \cap RequestParts = {},
         Leave(m, met, c, events)
  PROVE  IInv'
<1>1. /\ mem' = m /\ metrics' = met /\ conn' = c /\ past' = past \cup events
      /\ ctx' = ctx /\ open' = open /\ listen_fds' = listen_fds
      /\ routes' = routes /\ route_cap' = route_cap
  BY DEF Leave, table
<1>2. c # NoConn /\ ctx = "up"
  BY SomeConn DEF IInv, MemGood
<1>3. TypeOK'
  BY <1>1 DEF IInv, TypeOK, Fine, Safe, Counted
<1>4. MemGood'
  <2>1. Safe(mem)' /\ Live(mem)' = Live(m) /\ Excused(mem, past)'
    BY <1>1 DEF Fine, Safe, Live, Excused
  <2> QED BY <1>1, <1>2, <2>1 DEF MemGood, Fine
<1>5. ConnGood'
  BY <1>1, <1>2 DEF ConnGood, Counted, AddsUp, Owes
<1>6. TableGood' /\ DescriptorsGood'
  BY <1>1, <1>2 DEF IInv, TableGood, DescriptorsGood, CatchAll, Listening
<1> QED BY <1>3, <1>4, <1>5, <1>6 DEF IInv

LEMMA CloseKeeps ==
  ASSUME IInv, conn # NoConn, NEW m, NEW events, Fine(m, events),
         NEW met, NEW owed \in 0..1, Counted(met, owed), close_conn(m, met, events)
  PROVE  IInv'
<1>1. /\ mem' = Closed(m) /\ conn' = NoConn /\ open' = open \ {conn.fd}
      /\ metrics' = [met EXCEPT !.active_connections = @ - 1,
                                !.dropped = @ + met.owed, !.owed = 0]
      /\ past' = past \cup events \cup {"closed"}
      /\ ctx' = ctx /\ listen_fds' = listen_fds /\ routes' = routes /\ route_cap' = route_cap
  BY DEF close_conn, table
<1>2. ctx = "up"
  BY DEF IInv, MemGood
<1>3. PICK n : n = Closed(m)
  OBVIOUS
<1>4. /\ Safe(n) /\ Live(n) \subseteq {"ctx", "routes"}
      /\ n.lost \subseteq m.lost \cup (RequestParts \ {"headers"})
  BY <1>3, ClosedEffect DEF Fine
<1>5. /\ metrics' \in Metrics /\ metrics'.active_connections = 0 /\ metrics'.owed = 0
      /\ AddsUp(metrics')
  BY <1>1, CountersClosed
<1>6. open' = Listening /\ Cardinality(open') = Len(listen_fds) /\ IsFiniteSet(open')
  <2>1. /\ conn.fd \notin Listening /\ open = Listening \cup {conn.fd} /\ IsFiniteSet(open)
        /\ Cardinality(open) = Len(listen_fds) + 1 /\ Len(listen_fds) \in Nat
    BY CountOfListeners DEF IInv, DescriptorsGood
  <2>2. open \ {conn.fd} = Listening
    BY <2>1
  <2>3. IsFiniteSet(open \ {conn.fd}) /\ Cardinality(open \ {conn.fd}) = Cardinality(open) - 1
    BY <2>1, FS_RemoveElement
  <2> QED BY <1>1, <2>1, <2>2, <2>3
<1>7. TypeOK'
  BY <1>1, <1>3, <1>4, <1>5, NoConnType DEF IInv, TypeOK, Fine, Safe
<1>8. MemGood'
  <2>1. Safe(mem)' /\ Live(mem)' = Live(n)
    BY <1>1, <1>3, <1>4 DEF Safe, Live
  <2>2. Excused(mem, past)'
    BY <1>1, <1>3, <1>4 DEF Fine, Excused
  <2> QED BY <1>1, <1>2, <1>4, <2>1, <2>2, NoConnType DEF MemGood
<1>9. ConnGood'
  BY <1>1, <1>5, NoConnType DEF ConnGood, Owes, AddsUp
<1>10. TableGood' /\ DescriptorsGood'
  BY <1>1, <1>6 DEF IInv, TableGood, DescriptorsGood, CatchAll, Listening
<1> QED BY <1>7, <1>8, <1>9, <1>10 DEF IInv

\* The connection goes on, its request done with.
LEMMA GoesType ==
  ASSUME IInv, NEW state \in {"reading", "handler", "writing"}, NEW keep \in BOOLEAN
  PROVE  LET c == Goes(state, keep) IN
         /\ c \in Connection /\ c.state = state /\ c.req = NoRequest /\ c.fd = conn.fd
BY DEF Goes, IInv, TypeOK, Connection

LEMMA SendKeeps ==
  ASSUME IInv, conn # NoConn, NEW m, NEW events, Fine(m, events),
         NEW met, Counted(met, 1), NEW keep \in BOOLEAN,
         send_response(m, met, keep, events)
  PROVE  IInv'
<1>1. CASE Leave(m, met, Goes("writing", keep), events)
  <2>1. PICK c : c = Goes("writing", keep)
    OBVIOUS
  <2>2. c \in Connection /\ c.state = "writing" /\ c.fd = conn.fd
    BY <2>1, GoesType
  <2>3. Owes(c) = 1
    BY <2>2 DEF Owes
  <2> QED BY <1>1, <2>1, <2>2, <2>3, LeaveKeeps
<1>2. CASE close_conn(m, met, events)
  BY <1>2, CloseKeeps
<1>3. CASE LET n    == Release(m, {"bodybuf", "ri"}, "libc")
               sent == [met EXCEPT !.total_responses = @ + 1, !.owed = 0]
           IN IF keep THEN Leave(Reset(n), sent, Goes("reading", keep), events)
              ELSE close_conn(n, sent, events)
  <2>1. PICK ks \in SUBSET Blocks : ks = {"bodybuf", "ri"}
    BY Names DEF ResponseParts
  <2>2. PICK n : n = Release(m, ks, "libc")
    OBVIOUS
  <2>3. Safe(n) /\ n.lost = m.lost /\ Live(n) = Live(m) \ ks
    <3>1. \A k \in ks : k \notin Hooked
      BY <2>1 DEF Hooked
    <3>2. Safe(m)
      BY DEF Fine
    <3> QED BY <2>2, <3>1, <3>2, ReleaseEffect
  <2>4. Fine(n, events)
    BY <2>3 DEF Fine, Excused
  <2>5. PICK sent : sent = [met EXCEPT !.total_responses = @ + 1, !.owed = 0]
    OBVIOUS
  <2>6. Counted(sent, 0)
    BY <2>5, CountersSent
  <2>7. CASE keep
    <3>1. PICK o : o = Reset(n)
      OBVIOUS
    <3>2. Safe(o) /\ o.lost = n.lost /\ Live(o) = Live(n) \ (RequestParts \cup {"rb", "wb"})
      BY <2>3, <3>1, ResetEffect
    <3>3. Fine(o, events)
      BY <2>4, <3>2 DEF Fine, Excused
    <3>4. PICK c : c = Goes("reading", keep)
      OBVIOUS
    <3>5. c \in Connection /\ c.state = "reading" /\ c.fd = conn.fd
      BY <3>4, GoesType
    <3>6. Owes(c) = 0
      BY <3>5 DEF Owes
    <3>7. Leave(o, sent, c, events)
      BY <1>3, <2>1, <2>2, <2>5, <2>7, <3>1, <3>4
    <3> QED BY <2>6, <3>2, <3>3, <3>5, <3>6, <3>7, LeaveKeeps
  <2>8. CASE ~keep
    <3>1. close_conn(n, sent, events)
      BY <1>3, <2>1, <2>2, <2>5, <2>8
    <3> QED BY <2>4, <2>6, <3>1, CloseKeeps
  <2> QED BY <2>7, <2>8
<1> QED BY <1>1, <1>2, <1>3 DEF send_response
-----------------------------------------------------------------------------
(* The context, its routes and its listeners                               *)

LEMMA CatchAllAppend ==
  ASSUME NEW S, NEW s \in Seq(S), NEW p \in S
  PROVE  /\ Cardinality(CatchAll(s)) \in Nat
         /\ Cardinality(CatchAll(Append(s, p)))
              = Cardinality(CatchAll(s)) + (IF p = "*" THEN 1 ELSE 0)
<1>1. CatchAll(Append(s, p)) = CatchAll(s) \cup (IF p = "*" THEN {Len(s) + 1} ELSE {})
  <2>1. /\ DOMAIN Append(s, p) = DOMAIN s \cup {Len(s) + 1} /\ Append(s, p)[Len(s) + 1] = p
        /\ \A i \in DOMAIN s : Append(s, p)[i] = s[i]
    OBVIOUS
  <2>2. Len(s) + 1 \notin DOMAIN s
    OBVIOUS
  <2>3. PICK a : a = Append(s, p)
    OBVIOUS
  <2>4. CatchAll(a) = CatchAll(s) \cup (IF p = "*" THEN {Len(s) + 1} ELSE {})
    BY <2>1, <2>2, <2>3 DEF CatchAll
  <2> QED BY <2>3, <2>4
<1>2. CatchAll(s) \subseteq 1..Len(s) /\ Len(s) \in Nat
  BY DEF CatchAll
<1>3. IsFiniteSet(CatchAll(s))
  <2>1. IsFiniteSet(1..Len(s))
    BY <1>2, FS_Interval
  <2> QED BY <1>2, <2>1, FS_Subset
<1>4. Len(s) + 1 \notin CatchAll(s)
  BY <1>2
<1>5. Cardinality(CatchAll(s)) \in Nat
  BY <1>3, FS_CardinalityType
<1>6. CASE p = "*"
  <2>1. Cardinality(CatchAll(s) \cup {Len(s) + 1}) = Cardinality(CatchAll(s)) + 1
    BY <1>3, <1>4, FS_AddElement
  <2> QED BY <1>1, <1>5, <1>6, <2>1
<1>7. CASE p # "*"
  <2>1. CatchAll(Append(s, p)) = CatchAll(s)
    BY <1>1, <1>7
  <2> QED BY <1>5, <1>7, <2>1
<1> QED BY <1>6, <1>7

\* The table doubles before it would overflow, and a copied name is freed again.
LEMMA RegisterEffect ==
  ASSUME IInv, ctx = "up", NEW pattern, NEW res \in RegisterResults(pattern)
  PROVE  /\ res.ret \in {"ok", "error"} /\ res.cap \in Nat \ {0}
         /\ Safe(res.mem) /\ res.mem.lost \subseteq mem.lost /\ Live(res.mem) \subseteq Live(mem)
         /\ res.ret = "ok" => res.routes = Append(routes, pattern) /\ Len(routes) + 1 <= res.cap
         /\ res.ret = "error" => res.routes = routes /\ Len(routes) <= res.cap
<1> DEFINE Kept(mc, pc) == Release(Store(Store(mem, {"m"}, mc), {"p"}, pc), {"m", "p"}, "libc")
<1>1. PICK l \in Nat : l = Len(routes)
  BY DEF IInv, TypeOK
<1>2. route_cap \in Nat \ {0} /\ l <= route_cap
  BY <1>1 DEF IInv, TypeOK, TableGood
<1>3. \A cap \in GrownCaps(route_cap) : cap \in Nat \ {0} /\ l + 1 <= cap
  BY <1>1, <1>2 DEF GrownCaps
<1>4. Safe(mem) /\ Live(mem) \cap {"m", "p"} = {}
  BY Names DEF IInv, MemGood
<1>5. \A mc, pc \in BOOLEAN : LET n == Kept(mc, pc) IN
        Safe(n) /\ n.lost \subseteq mem.lost /\ Live(n) \subseteq Live(mem)
  <2> TAKE mc, pc \in BOOLEAN
  <2>1. PICK one \in SUBSET Blocks : one = {"m"}
    BY Names
  <2>2. PICK two \in SUBSET Blocks : two = {"p"}
    BY Names
  <2>3. PICK both \in SUBSET Blocks : both = {"m", "p"}
    BY Names
  <2>4. PICK a : a = Store(mem, one, mc)
    OBVIOUS
  <2>5. PICK b : b = Store(a, two, pc)
    OBVIOUS
  <2>6. PICK n : n = Release(b, both, "libc")
    OBVIOUS
  <2>7. Replaces(mem, a, one)
    BY <1>4, <2>4, StoreEither
  <2>8. Replaces(a, b, two)
    BY <2>5, <2>7, StoreEither DEF Replaces
  <2>9. Safe(b) /\ b.lost \subseteq mem.lost /\ Live(b) \subseteq Live(mem) \cup both
    BY <1>4, <2>1, <2>2, <2>3, <2>7, <2>8 DEF Replaces
  <2>10. \A k \in both : k \notin Hooked
    BY <2>3 DEF Hooked
  <2>11. Safe(n) /\ n.lost = b.lost /\ Live(n) = Live(b) \ both
    <3>1. \A k \in both : k \notin Hooked
      BY <2>10
    <3>2. Safe(b)
      BY <2>9
    <3> QED BY <2>6, <3>1, <3>2, ReleaseByLibc
  <2>12. Kept(mc, pc) = n
    BY <2>1, <2>2, <2>3, <2>4, <2>5, <2>6 DEF Kept
  <2>13. Safe(n) /\ n.lost \subseteq mem.lost /\ Live(n) \subseteq Live(mem)
    BY <2>3, <2>9, <2>11
  <2> HIDE DEF Kept
  <2> QED BY <2>12, <2>13
<1> HIDE DEF Kept
<1>6. \/ \E cap \in GrownCaps(route_cap) :
            res = [routes |-> Append(routes, pattern), cap |-> cap, mem |-> mem, ret |-> "ok"]
      \/ \E cap \in GrownCaps(route_cap) : \E mc, pc \in BOOLEAN :
            res = [routes |-> routes, cap |-> cap, mem |-> Kept(mc, pc), ret |-> "error"]
      \/ res = [routes |-> routes, cap |-> route_cap, mem |-> mem, ret |-> "error"]
  <2>1. CASE res \in UNION {{IF mc /\ pc
                             THEN [routes |-> Append(routes, pattern), cap |-> cap,
                                   mem |-> mem, ret |-> "ok"]
                             ELSE [routes |-> routes, cap |-> cap,
                                   mem |-> Kept(mc, pc), ret |-> "error"] :
                               mc \in BOOLEAN, pc \in BOOLEAN} : cap \in GrownCaps(route_cap)}
    BY <2>1
  <2>2. CASE res = [routes |-> routes, cap |-> route_cap, mem |-> mem, ret |-> "error"]
    BY <2>2
  <2> QED BY <2>1, <2>2 DEF RegisterResults, Kept
<1>7. CASE \E cap \in GrownCaps(route_cap) :
            res = [routes |-> Append(routes, pattern), cap |-> cap, mem |-> mem, ret |-> "ok"]
  BY <1>1, <1>3, <1>4, <1>7
<1>8. CASE \E cap \in GrownCaps(route_cap) : \E mc, pc \in BOOLEAN :
            res = [routes |-> routes, cap |-> cap, mem |-> Kept(mc, pc), ret |-> "error"]
  <2>1. PICK cap \in GrownCaps(route_cap) : \E mc, pc \in BOOLEAN :
            res = [routes |-> routes, cap |-> cap, mem |-> Kept(mc, pc), ret |-> "error"]
    BY <1>8
  <2>2. PICK mc \in BOOLEAN : \E pc \in BOOLEAN :
            res = [routes |-> routes, cap |-> cap, mem |-> Kept(mc, pc), ret |-> "error"]
    BY <2>1
  <2>3. PICK pc \in BOOLEAN :
            res = [routes |-> routes, cap |-> cap, mem |-> Kept(mc, pc), ret |-> "error"]
    BY <2>2
  <2>4. PICK n : n = Kept(mc, pc)
    OBVIOUS
  <2>5. Safe(n) /\ n.lost \subseteq mem.lost /\ Live(n) \subseteq Live(mem)
    BY <1>5, <2>4
  <2>6. cap \in Nat \ {0} /\ l <= cap
    BY <1>3
  <2> QED BY <1>1, <2>3, <2>4, <2>5, <2>6
<1>9. CASE res = [routes |-> routes, cap |-> route_cap, mem |-> mem, ret |-> "error"]
  BY <1>1, <1>2, <1>4, <1>9
<1> QED BY <1>6, <1>7, <1>8, <1>9

\* A call that leaves no more than there was, and not more lost.
LEMMA MemoryKept ==
  ASSUME IInv, Safe(mem'), mem'.lost \subseteq mem.lost, Live(mem') \subseteq Live(mem),
         ctx' = ctx, conn' = conn, past' = past
  PROVE  MemGood' /\ mem' \in Memory
<1>1. MemGood
  BY DEF IInv
<1>2. Safe(mem)' /\ Live(mem)' = Live(mem')
  BY DEF Safe, Live
<1>3. Excused(mem, past)'
  BY <1>1 DEF MemGood, Excused
<1>4. mem' \in Memory
  BY DEF Safe
<1> QED BY <1>1, <1>2, <1>3, <1>4 DEF MemGood

LEMMA RegisterRouteKeeps == ASSUME IInv, RegisterRoute PROVE IInv'
<1>1. PICK pattern \in Patterns : http_register_route(pattern)
  BY DEF RegisterRoute
<1>2. ctx = "up" /\ pattern # "*"
  BY ContextAssumption DEF RegisterRoute, Embedder
<1>3. PICK res \in RegisterResults(pattern) :
        /\ routes' = res.routes /\ route_cap' = res.cap /\ mem' = res.mem
        /\ UNCHANGED <<ctx, open, listen_fds, conn, metrics, past>>
  BY <1>1 DEF http_register_route
<1>4. /\ res.ret \in {"ok", "error"} /\ res.cap \in Nat \ {0}
      /\ Safe(res.mem) /\ res.mem.lost \subseteq mem.lost /\ Live(res.mem) \subseteq Live(mem)
      /\ res.ret = "ok" => res.routes = Append(routes, pattern) /\ Len(routes) + 1 <= res.cap
      /\ res.ret = "error" => res.routes = routes /\ Len(routes) <= res.cap
  BY <1>2, RegisterEffect
<1>5. MemGood' /\ mem' \in Memory
  BY <1>3, <1>4, MemoryKept
<1>6. routes \in Seq(Patterns \cup {"*"}) /\ TableGood
  BY DEF IInv, TypeOK
<1>7. /\ routes' \in Seq(Patterns \cup {"*"}) /\ Len(routes') <= route_cap'
      /\ Cardinality(CatchAll(routes')) = Cardinality(CatchAll(routes))
  <2>1. CASE res.ret = "ok"
    <3>1. routes' = Append(routes, pattern) /\ Len(routes) + 1 <= route_cap'
      BY <1>3, <1>4, <2>1
    <3>2. Cardinality(CatchAll(Append(routes, pattern))) = Cardinality(CatchAll(routes))
      BY <1>2, <1>6, CatchAllAppend
    <3> QED BY <1>6, <3>1, <3>2
  <2>2. CASE res.ret = "error"
    BY <1>3, <1>4, <1>6, <2>2
  <2> QED BY <1>4, <2>1, <2>2
<1>8. TypeOK'
  BY <1>3, <1>4, <1>5, <1>7 DEF IInv, TypeOK
<1>9. TableGood'
  BY <1>2, <1>3, <1>4, <1>6, <1>7 DEF TableGood, CatchAll
<1>10. ConnGood' /\ DescriptorsGood'
  BY <1>3 DEF IInv, ConnGood, DescriptorsGood, Owes, AddsUp, Listening
<1> QED BY <1>5, <1>8, <1>9, <1>10 DEF IInv
LEMMA HttpInitKeeps == ASSUME IInv, http_init PROVE IInv'
<1>1. PICK res \in Then(Allocate(mem, "ctx"), LAMBDA m : Allocate(m, "routes")) :
        IF res.ret = "ok"
        THEN ctx' = "up" /\ mem' = res.mem /\ route_cap' = INITIAL_ROUTE_CAPACITY
        ELSE mem' = Release(res.mem, {"ctx"}, "libc") /\ UNCHANGED <<ctx, route_cap>>
  BY DEF http_init
<1>2. PICK a \in Allocate(mem, "ctx") :
        res \in IF a.ret = "ok" THEN Allocate(a.mem, "routes") ELSE {a}
  BY <1>1 DEF Then
<1>3. /\ ctx = "null" /\ Safe(mem) /\ Live(mem) = {} /\ conn = NoConn /\ Excused(mem, past)
      /\ open' = open /\ listen_fds' = listen_fds /\ routes' = routes /\ conn' = conn
      /\ metrics' = metrics /\ past' = past
      /\ routes = <<>> /\ route_cap = 0 /\ listen_fds = <<>>
  BY DEF http_init, IInv, MemGood, TableGood
<1>4. Replaces(mem, a.mem, {"ctx"}) /\ a.ret \in {"ok", "error"}
  <2>1. "ctx" \in Blocks
    BY Names
  <2> QED BY <1>3, <2>1, AllocateEffect
<1>5. /\ Safe(res.mem) /\ res.mem.lost \subseteq mem.lost
      /\ Live(res.mem) \subseteq {"ctx", "routes"}
      /\ res.ret # "ok" => Live(res.mem) \subseteq {"ctx"}
  <2>1. Safe(a.mem) /\ a.mem.lost \subseteq mem.lost /\ Live(a.mem) \subseteq {"ctx"}
    BY <1>3, <1>4 DEF Replaces
  <2>2. CASE a.ret = "ok"
    <3>1. res \in Allocate(a.mem, "routes")
      BY <1>2, <2>2
    <3>2. "routes" \in Blocks
      BY Names
    <3>3. /\ Replaces(a.mem, res.mem, {"routes"}) /\ res.ret \in {"ok", "error"}
          /\ res.ret = "error" => Live(res.mem) \subseteq Live(a.mem)
      BY <2>1, <3>1, <3>2, AllocateEffect
    <3> QED BY <2>1, <3>3 DEF Replaces
  <2>3. CASE a.ret # "ok"
    BY <1>2, <2>1, <2>3
  <2> QED BY <2>2, <2>3
<1>6. /\ Safe(mem') /\ mem'.lost \subseteq mem.lost /\ Live(mem') \subseteq {"ctx", "routes"}
      /\ ctx' # "up" => Live(mem') = {}
      /\ ctx' \in {"null", "up"} /\ route_cap' \in Nat
      /\ IF ctx' = "up" THEN route_cap' # 0 ELSE route_cap' = 0
  <2>1. CASE res.ret = "ok"
    BY <1>1, <1>5, <2>1, ContextAssumption
  <2>2. CASE res.ret # "ok"
    <3>1. PICK ks \in SUBSET Blocks : ks = {"ctx"}
      BY Names
    <3>2. PICK n : n = Release(res.mem, ks, "libc")
      OBVIOUS
    <3>3. \A k \in ks : k \notin Hooked
      BY <3>1 DEF Hooked
    <3>4. Safe(res.mem)
      BY <1>5
    <3>5. Safe(n) /\ n.lost = res.mem.lost /\ Live(n) = Live(res.mem) \ ks
      BY <3>2, <3>3, <3>4, ReleaseByLibc
    <3>6. mem' = n /\ ctx' = ctx /\ route_cap' = route_cap
      BY <1>1, <2>2, <3>1, <3>2
    <3> QED BY <1>3, <1>5, <2>2, <3>1, <3>5, <3>6
  <2> QED BY <2>1, <2>2
<1>7. MemGood'
  <2>1. Safe(mem)' /\ Live(mem)' = Live(mem')
    BY <1>6 DEF Safe, Live
  <2>2. Excused(mem, past)'
    BY <1>3, <1>6 DEF Excused
  <2> QED BY <1>3, <1>6, <2>1, <2>2, NoConnType DEF MemGood
<1>8. TypeOK'
  BY <1>3, <1>6 DEF IInv, TypeOK, Safe
<1>9. TableGood'
  <2>1. Len(routes) = 0 /\ Cardinality(CatchAll(routes)) = Len(listen_fds)
    BY <1>3 DEF IInv, TableGood
  <2>2. Len(routes') = 0 /\ Cardinality(CatchAll(routes')) = Len(listen_fds')
    BY <1>3, <2>1
  <2> QED BY <1>3, <1>6, <2>2 DEF TableGood, CatchAll
<1>10. ConnGood' /\ DescriptorsGood'
  BY <1>3 DEF IInv, ConnGood, DescriptorsGood, Owes, AddsUp, Listening
<1> QED BY <1>7, <1>8, <1>9, <1>10 DEF IInv

\* What was appended last can be taken back.
LEMMA AppendTakenBack ==
  ASSUME NEW S, NEW s \in Seq(S), NEW e \in S
  PROVE  Front(Append(s, e)) = s
<1>1. Append(s, e) \in Seq(S) /\ Len(Append(s, e)) = Len(s) + 1 /\ Len(s) \in Nat
  OBVIOUS
<1>2. SubSeq(Append(s, e), 1, Len(s)) = s
  OBVIOUS
<1> QED BY <1>1, <1>2 DEF Front

\* A listener was published, or nothing is left of it.
LEMMA http_listenKeeps ==
  ASSUME IInv, ctx = "up", NEW fd \in Unused, NEW res \in RegisterResults("*"),
         ~TooMany,
         routes' = res.routes, route_cap' = res.cap, mem' = res.mem,
         IF res.ret = "ok" THEN open' = open \cup {fd} /\ listen_fds' = Append(listen_fds, fd)
         ELSE open' = open /\ listen_fds' = TakenBack(Append(listen_fds, fd)),
         UNCHANGED <<ctx, conn, metrics, past>>
  PROVE  IInv'
<1>1. /\ res.ret \in {"ok", "error"} /\ res.cap \in Nat \ {0}
      /\ Safe(res.mem) /\ res.mem.lost \subseteq mem.lost /\ Live(res.mem) \subseteq Live(mem)
      /\ res.ret = "ok" => res.routes = Append(routes, "*") /\ Len(routes) + 1 <= res.cap
      /\ res.ret = "error" => res.routes = routes /\ Len(routes) <= res.cap
  BY RegisterEffect
<1>2. MemGood' /\ mem' \in Memory
  BY <1>1, MemoryKept
<1>3. /\ routes \in Seq(Patterns \cup {"*"}) /\ listen_fds \in Seq(Descriptors)
      /\ Len(listen_fds) \in Nat /\ Len(listen_fds) < MAX_LISTENERS
      /\ fd \in Descriptors \ open /\ TableGood /\ DescriptorsGood
  BY ContextAssumption DEF IInv, TypeOK, TooMany, Unused
<1>4. CASE res.ret = "ok"
  <2>1. /\ routes' = Append(routes, "*") /\ Len(routes) + 1 <= route_cap'
        /\ open' = open \cup {fd} /\ listen_fds' = Append(listen_fds, fd)
    BY <1>1, <1>4
  <2>2. Cardinality(CatchAll(routes')) = Cardinality(CatchAll(routes)) + 1
    BY <1>3, <2>1, CatchAllAppend
  <2>3. Len(routes') <= route_cap' /\ routes' \in Seq(Patterns \cup {"*"})
    BY <1>3, <2>1
  <2>4. /\ listen_fds' \in Seq(Descriptors) /\ Len(listen_fds') = Len(listen_fds) + 1
        /\ Len(listen_fds') <= MAX_LISTENERS
    BY <1>3, <2>1, ContextAssumption
  <2>5. Listening' = Listening \cup {fd}
    <3>1. /\ DOMAIN Append(listen_fds, fd) = DOMAIN listen_fds \cup {Len(listen_fds) + 1}
          /\ Append(listen_fds, fd)[Len(listen_fds) + 1] = fd
          /\ \A i \in DOMAIN listen_fds : Append(listen_fds, fd)[i] = listen_fds[i]
      BY <1>3
    <3> QED BY <2>1, <3>1 DEF Listening
  <2>6. IsFiniteSet(open') /\ Cardinality(open') = Cardinality(open) + 1
    BY <1>3, <2>1, FS_AddElement DEF DescriptorsGood
  <2>7. DescriptorsGood'
    <3>1. Cardinality(open) \in Nat
      BY <1>3, FS_CardinalityType DEF DescriptorsGood
    <3>2. conn.fd # fd \/ conn = NoConn
      BY <1>3 DEF DescriptorsGood
    <3> QED BY <1>3, <2>1, <2>4, <2>5, <2>6, <3>1, <3>2 DEF DescriptorsGood
  <2>8. TypeOK'
    BY <1>1, <1>2, <1>3, <2>1, <2>3, <2>4 DEF IInv, TypeOK
  <2>9. TableGood'
    <3>1. Cardinality(CatchAll(routes')) = Len(listen_fds')
      BY <1>3, <2>2, <2>4 DEF TableGood
    <3> QED BY <1>1, <2>3, <3>1 DEF TableGood, CatchAll
  <2>10. ConnGood'
    BY DEF IInv, ConnGood, Owes, AddsUp
  <2> QED BY <1>2, <2>7, <2>8, <2>9, <2>10 DEF IInv
<1>5. CASE res.ret = "error"
  <2>1. routes' = routes /\ Len(routes) <= route_cap' /\ open' = open
    BY <1>1, <1>5
  <2>2. listen_fds' = listen_fds
    <3>1. Front(Append(listen_fds, fd)) = listen_fds
      BY <1>3, AppendTakenBack
    <3> QED BY <1>5, <3>1 DEF TakenBack
  <2>3. TypeOK'
    BY <1>1, <1>2, <2>1, <2>2 DEF IInv, TypeOK
  <2>4. TableGood'
    BY <1>1, <1>3, <2>1, <2>2 DEF TableGood, CatchAll
  <2>5. ConnGood' /\ DescriptorsGood'
    BY <2>1, <2>2 DEF IInv, ConnGood, DescriptorsGood, Owes, AddsUp, Listening
  <2> QED BY <1>2, <2>3, <2>4, <2>5 DEF IInv
<1> QED BY <1>1, <1>4, <1>5

LEMMA StutterKeeps == ASSUME IInv, UNCHANGED vars PROVE IInv'
<1>1. TypeOK' /\ MemGood'
  BY DEF IInv, vars, TypeOK, MemGood, Safe, Live, Excused
<1>2. ConnGood' /\ TableGood' /\ DescriptorsGood'
  BY DEF IInv, vars, ConnGood, TableGood, DescriptorsGood, Owes, AddsUp, Listening, CatchAll
<1> QED BY <1>1, <1>2 DEF IInv

LEMMA ListenKeeps == ASSUME IInv, Listen PROVE IInv'
<1>1. ctx = "up" /\ UNCHANGED <<ctx, conn, metrics, past>>
  BY DEF Listen, http_listen, Embedder
<1>2. CASE UNCHANGED <<open, listen_fds, routes, route_cap, mem>>
  BY <1>1, <1>2, StutterKeeps DEF vars
<1>3. CASE ~UNCHANGED <<open, listen_fds, routes, route_cap, mem>>
  <2>1. ~TooMany
    BY <1>3 DEF Listen, http_listen
  <2>2. PICK fd \in create_and_bind : \E listens \in BOOLEAN :
          IF fd < 0 \/ ~listens THEN UNCHANGED <<open, listen_fds, routes, route_cap, mem>>
          ELSE \E res \in RegisterResults("*") :
                 LET published == Append(listen_fds, fd)
                 IN /\ routes' = res.routes /\ route_cap' = res.cap /\ mem' = res.mem
                    /\ IF res.ret = "ok"
                       THEN open' = open \cup {fd} /\ listen_fds' = published
                       ELSE open' = open /\ listen_fds' = TakenBack(published)
    BY <2>1 DEF Listen, http_listen
  <2>3. fd \in Unused
    BY <1>3, <2>2 DEF create_and_bind
  <2>4. PICK res \in RegisterResults("*") :
          /\ routes' = res.routes /\ route_cap' = res.cap /\ mem' = res.mem
          /\ IF res.ret = "ok" THEN open' = open \cup {fd} /\ listen_fds' = Append(listen_fds, fd)
             ELSE open' = open /\ listen_fds' = TakenBack(Append(listen_fds, fd))
    BY <1>3, <2>2
  <2> QED BY <1>1, <2>1, <2>3, <2>4, http_listenKeeps
<1> QED BY <1>2, <1>3

\* What is owed when the counters are reset is carried over.
LEMMA ResetMetricsKeeps == ASSUME IInv, ResetMetrics PROVE IInv'
<1>1. /\ ctx' = ctx /\ open' = open /\ listen_fds' = listen_fds /\ routes' = routes
      /\ route_cap' = route_cap /\ mem' = mem /\ conn' = conn /\ past' = past
  BY DEF ResetMetrics, table
<1>2. PICK owed \in 0..1 : owed = metrics.owed
  BY CounterTypes DEF IInv, TypeOK
<1>3. PICK n : n = metrics'
  OBVIOUS
<1>4. metrics \in Metrics
  BY DEF IInv, TypeOK
<1>5. n = [metrics EXCEPT !.total_requests = 0, !.total_responses = 0,
                          !.bad = 0, !.dropped = 0, !.carried = owed]
  BY <1>2, <1>3 DEF ResetMetrics
<1>6. /\ n.total_requests = 0 /\ n.total_responses = 0 /\ n.bad = 0 /\ n.dropped = 0
      /\ n.carried = owed /\ n.owed = owed /\ n.active_connections = metrics.active_connections
  BY <1>2, <1>4, <1>5 DEF Metrics
<1>7. n \in Metrics
  BY <1>2, <1>4, <1>5 DEF Metrics
<1>8. TypeOK' /\ MemGood'
  BY <1>1, <1>3, <1>7 DEF IInv, TypeOK, MemGood, Safe, Live, Excused
<1>9. ConnGood'
  BY <1>1, <1>2, <1>3, <1>6 DEF IInv, ConnGood, Owes, AddsUp
<1>10. TableGood' /\ DescriptorsGood'
  BY <1>1 DEF IInv, TableGood, DescriptorsGood, Listening, CatchAll
<1> QED BY <1>8, <1>9, <1>10 DEF IInv
-----------------------------------------------------------------------------
(* The connection                                                          *)

\* What holds between two calls on the connection.
LEMMA Between ==
  ASSUME IInv, conn # NoConn
  PROVE  /\ Fine(mem, {}) /\ Counted(metrics, Owes(conn)) /\ Owes(conn) \in 0..1
         /\ conn \in Connection /\ conn.state \in {"reading", "handler", "writing"}
         /\ conn.keep \in BOOLEAN
<1>1. Fine(mem, {})
  BY DEF IInv, MemGood, Fine
<1>2. Counted(metrics, Owes(conn))
  BY DEF IInv, TypeOK, ConnGood, Counted
<1>3. conn \in Connection /\ conn.state \in {"reading", "handler", "writing"}
      /\ conn.keep \in BOOLEAN
  BY DEF IInv, TypeOK, ConnGood, Connection
<1> QED BY <1>1, <1>2, <1>3 DEF Owes

\* A response may be made of any memory a connection may have.
LEMMA GrowsFine ==
  ASSUME NEW m, NEW n, NEW events, Fine(m, events), Grows(m, n, ResponseParts)
  PROVE  Fine(n, events)
BY Names DEF Fine, Grows, Excused

\* What accept_new needs, and leaves alone.
Accepting ==
  /\ ctx = "up" /\ conn = NoConn /\ metrics.accepted < MaxConnections
  /\ ctx' = ctx /\ listen_fds' = listen_fds /\ routes' = routes
  /\ route_cap' = route_cap /\ past' = past

\* What it does with a descriptor when there is memory for a connection.
Accepted(fd) ==
  /\ \E res \in Allocate(mem, "conn") :
       /\ res.ret = "ok"
       /\ \E m \in http_response_init(res.mem), peer \in BOOLEAN :
            mem' = Store(m, {"peer"}, peer)
  /\ open' = open \cup {fd}
  /\ conn' = [NoConn EXCEPT !.state = "reading", !.fd = fd]
  /\ metrics' = [metrics EXCEPT !.active_connections = @ + 1, !.accepted = @ + 1]

\* What it does when there is none.
Refused ==
  /\ \E res \in Allocate(mem, "conn") : res.ret = "error" /\ mem' = res.mem
  /\ open' = open /\ conn' = conn /\ metrics' = metrics

LEMMA AcceptedOrRefused ==
  ASSUME accept_new
  PROVE  Accepting /\ (Refused \/ \E fd \in Unused : Accepted(fd))
<1>1. Accepting
  BY DEF accept_new, Accepting, table
<1>2. PICK fd \in Unused, res \in Allocate(mem, "conn") :
        \/ /\ res.ret = "error" /\ mem' = res.mem
           /\ open' = (open \cup {fd}) \ {fd}
           /\ UNCHANGED <<conn, metrics>>
        \/ /\ res.ret = "ok"
           /\ \E m \in http_response_init(res.mem), peer \in BOOLEAN :
                mem' = Store(m, {"peer"}, peer)
           /\ open' = open \cup {fd}
           /\ conn' = [NoConn EXCEPT !.state = "reading", !.fd = fd]
           /\ metrics' = [metrics EXCEPT !.active_connections = @ + 1, !.accepted = @ + 1]
  BY DEF accept_new
<1>3. CASE res.ret = "error"
  <2>1. (open \cup {fd}) \ {fd} = open
    BY DEF Unused
  <2> QED BY <1>1, <1>2, <1>3, <2>1 DEF Refused
<1>4. CASE res.ret = "ok"
  BY <1>1, <1>2, <1>4 DEF Accepted
<1> QED BY <1>2, <1>3, <1>4

LEMMA RefusedKeeps == ASSUME IInv, Accepting, Refused PROVE IInv'
<1>1. PICK res \in Allocate(mem, "conn") : res.ret = "error" /\ mem' = res.mem
  BY DEF Refused
<1>2. PICK n : n = mem'
  OBVIOUS
<1>3. Safe(mem) /\ "conn" \in Blocks /\ "conn" \notin Live(mem)
  BY Names DEF Accepting, IInv, MemGood
<1>4. Safe(n) /\ n.lost \subseteq mem.lost /\ Live(n) \subseteq Live(mem)
  BY <1>1, <1>2, <1>3, AllocateEffect DEF Replaces
<1>5. Safe(mem)' /\ Live(mem)' = Live(n) /\ mem' \in Memory
  BY <1>2, <1>4 DEF Safe, Live
<1>6. Excused(mem, past)'
  BY <1>2, <1>4 DEF Accepting, IInv, MemGood, Excused
<1>7. MemGood'
  BY <1>4, <1>5, <1>6 DEF Accepting, Refused, IInv, MemGood
<1>8. TypeOK'
  BY <1>5 DEF Accepting, Refused, IInv, TypeOK
<1>9. ConnGood' /\ TableGood' /\ DescriptorsGood'
  BY DEF Accepting, Refused, IInv, ConnGood, TableGood, DescriptorsGood, Listening, AddsUp, Owes
<1> QED BY <1>7, <1>8, <1>9 DEF IInv

LEMMA AcceptKeeps == ASSUME IInv, Accepting, NEW fd \in Unused, Accepted(fd) PROVE IInv'
<1>1. /\ \E res \in Allocate(mem, "conn") :
           /\ res.ret = "ok"
           /\ \E m \in http_response_init(res.mem), peer \in BOOLEAN :
                mem' = Store(m, {"peer"}, peer)
      /\ open' = open \cup {fd}
      /\ conn' = [NoConn EXCEPT !.state = "reading", !.fd = fd]
  BY DEF Accepted
<1>2. PICK res \in Allocate(mem, "conn") :
        /\ \E m \in http_response_init(res.mem), peer \in BOOLEAN :
             mem' = Store(m, {"peer"}, peer)
        /\ open' = open \cup {fd}
        /\ conn' = [NoConn EXCEPT !.state = "reading", !.fd = fd]
  BY <1>1
<1>3. PICK m \in http_response_init(res.mem) : \E peer \in BOOLEAN :
        mem' = Store(m, {"peer"}, peer)
  BY <1>2
<1>4. PICK peer \in BOOLEAN : mem' = Store(m, {"peer"}, peer)
  BY <1>3
<1>5. /\ ctx = "up" /\ conn = NoConn /\ metrics.accepted < MaxConnections
      /\ metrics' = [metrics EXCEPT !.active_connections = @ + 1, !.accepted = @ + 1]
      /\ ctx' = ctx /\ listen_fds' = listen_fds /\ routes' = routes
      /\ route_cap' = route_cap /\ past' = past
  BY DEF Accepting, Accepted
<1>6. /\ Safe(mem) /\ Live(mem) \subseteq {"ctx", "routes"} /\ Excused(mem, past)
  BY <1>5 DEF IInv, MemGood
<1>7. PICK n : n = mem'
  OBVIOUS
<1>8. /\ Safe(n) /\ n.lost \subseteq mem.lost
      /\ Live(n) \subseteq {"ctx", "routes", "conn", "peer"} \cup ResponseParts
  <2>1. PICK ks \in SUBSET Blocks : ks = {"peer"}
    BY Names
  <2>2. Replaces(mem, res.mem, {"conn"})
    <3>1. "conn" \in Blocks
      BY Names
    <3> QED BY <1>6, <3>1, AllocateEffect
  <2>3. Grows(res.mem, m, ResponseParts)
    <3>1. Safe(res.mem)
      BY <2>2 DEF Replaces
    <3> QED BY <3>1, HttpResponseInit
  <2>4. Replaces(m, n, ks)
    <3>1. Safe(m)
      BY <2>3 DEF Grows
    <3>2. n = Store(m, ks, peer)
      BY <1>4, <1>7, <2>1
    <3> QED BY <3>1, <3>2, StoreEither
  <2>5. /\ Safe(n) /\ Live(m) \subseteq {"ctx", "routes", "conn"} \cup ResponseParts
        /\ m.lost \subseteq mem.lost
    BY <1>6, <2>2, <2>3, <2>4 DEF Replaces, Grows
  <2>6. "peer" \notin Live(m)
    BY <2>5 DEF ResponseParts
  <2> QED BY <2>1, <2>4, <2>5, <2>6 DEF Replaces
<1>9. /\ conn' \in Connection /\ conn'.state = "reading" /\ conn'.fd = fd
      /\ conn' # NoConn /\ fd \in Descriptors /\ fd \notin open
  <2>1. fd \in Descriptors /\ fd \notin open
    BY DEF Unused
  <2> QED BY <1>2, <2>1, NoConnType DEF NoConn, Connection
<1>10. MemGood'
  <2>1. Safe(mem)' /\ Live(mem)' = Live(n)
    BY <1>7, <1>8 DEF Safe, Live
  <2>2. Excused(mem, past)'
    BY <1>5, <1>6, <1>7, <1>8 DEF Excused
  <2>3. Live(n) \subseteq ConnBlocks \cup {"ctx", "routes"} /\ Live(n) \cap RequestParts = {}
    BY <1>8, Names
  <2> QED BY <1>5, <1>9, <2>1, <2>2, <2>3 DEF MemGood
<1>11. /\ metrics' \in Metrics /\ metrics'.active_connections = 1 /\ metrics'.owed = 0
       /\ AddsUp(metrics')
  <2>1. /\ metrics \in Metrics /\ metrics.active_connections = 0 /\ metrics.owed = 0
        /\ AddsUp(metrics)
    BY <1>5, NoConnType DEF IInv, TypeOK, ConnGood, Owes
  <2>2. PICK x \in 0..MaxConnections : x = metrics.accepted + 1
    <3>1. MaxConnections \in Nat /\ metrics.accepted \in 0..MaxConnections
      BY <2>1, ContextAssumption, CounterTypes
    <3> QED BY <1>5, <3>1
  <2>3. metrics' = [metrics EXCEPT !.active_connections = 1, !.accepted = x]
    BY <1>5, <2>1, <2>2
  <2>4. metrics' \in Metrics
    <3>1. 1 \in 0..1
      OBVIOUS
    <3> QED BY <2>1, <2>2, <2>3, <3>1 DEF Metrics
  <2>5. /\ metrics'.total_requests = metrics.total_requests /\ metrics'.bad = metrics.bad
        /\ metrics'.carried = metrics.carried /\ metrics'.dropped = metrics.dropped
        /\ metrics'.total_responses = metrics.total_responses /\ metrics'.owed = metrics.owed
        /\ metrics'.active_connections = 1
    BY <2>1, <2>3 DEF Metrics
  <2> QED BY <2>1, <2>4, <2>5 DEF AddsUp
<1>12. ConnGood'
  BY <1>9, <1>11 DEF ConnGood, Owes, AddsUp
<1>13. DescriptorsGood'
  <2>1. open = Listening /\ Cardinality(open) = Len(listen_fds) /\ IsFiniteSet(open)
    BY <1>5 DEF IInv, DescriptorsGood
  <2>2. open' = open \cup {fd}
    BY <1>2
  <2>3. IsFiniteSet(open') /\ Cardinality(open') = Cardinality(open) + 1
    BY <1>9, <2>1, <2>2, FS_AddElement
  <2> QED BY <1>5, <1>9, <2>1, <2>2, <2>3 DEF DescriptorsGood, Listening
<1>14. TypeOK'
  <2>1. open' \subseteq Descriptors /\ mem' \in Memory
    BY <1>2, <1>7, <1>8, <1>9 DEF IInv, TypeOK, Safe
  <2> QED BY <1>5, <1>9, <1>11, <2>1 DEF IInv, TypeOK
<1>15. TableGood'
  BY <1>5 DEF IInv, TableGood, CatchAll
<1> QED BY <1>10, <1>12, <1>13, <1>14, <1>15 DEF IInv

LEMMA HangupKeeps == ASSUME IInv, HandleHangup PROVE IInv'
<1>1. conn # NoConn /\ close_conn(mem, metrics, {})
  BY NoConnType DEF HandleHangup
<1> QED BY <1>1, Between, CloseKeeps

LEMMA MoreKeeps == ASSUME IInv, HandleMore PROVE IInv'
<1>1. conn # NoConn /\ conn.state = "reading" /\ conn.req = NoRequest
  BY NoConnType DEF HandleMore
<1>2. PICK m : m = Extend(mem, "rb")
  OBVIOUS
<1>3. Leave(m, metrics, conn, {})
  BY <1>2 DEF HandleMore
<1>4. Fine(mem, {}) /\ Counted(metrics, Owes(conn)) /\ conn \in Connection
  BY <1>1, Between
<1>5. Safe(m) /\ m.lost = mem.lost /\ Live(m) = Live(mem) \cup {"rb"}
  <2>1. "rb" \in Blocks
    BY Names
  <2> QED BY <1>2, <1>4, <2>1, ExtendEffect DEF Fine
<1>6. Fine(m, {})
  BY <1>4, <1>5, Names DEF Fine, Excused
<1>7. Live(m) \cap RequestParts = {}
  BY <1>1, <1>5, Names DEF IInv, MemGood
<1> QED BY <1>1, <1>3, <1>4, <1>6, <1>7, LeaveKeeps

\* A request that is answered is counted, one with 400 on its own.
LEMMA CountersArrived ==
  ASSUME NEW met, Counted(met, 0), met.arrived < MaxRequests,
         NEW n, \/ n = [met EXCEPT !.bad = @ + 1, !.owed = 1, !.arrived = @ + 1]
                \/ n = [met EXCEPT !.total_requests = @ + 1, !.owed = 1, !.arrived = @ + 1]
  PROVE  Counted(n, 1)
<1>1. met \in Metrics /\ AddsUp(met) /\ met.active_connections = 1 /\ met.owed = 0
  BY DEF Counted
<1>2. PICK x \in 0..MaxRequests : x = met.arrived + 1
  <2>1. MaxRequests \in Nat /\ met.arrived \in 0..MaxRequests
    BY <1>1, ContextAssumption, CounterTypes
  <2> QED BY <2>1
<1>3. CASE n = [met EXCEPT !.bad = @ + 1, !.owed = 1, !.arrived = @ + 1]
  <2>1. PICK y \in Nat : y = met.bad + 1
    BY <1>1, CounterTypes
  <2>2. n = [met EXCEPT !.bad = y, !.owed = 1, !.arrived = x]
    BY <1>1, <1>2, <1>3, <2>1
  <2>3. /\ n.total_requests = met.total_requests /\ n.bad = y /\ n.carried = met.carried
        /\ n.total_responses = met.total_responses /\ n.dropped = met.dropped /\ n.owed = 1
        /\ n.active_connections = 1
    BY <1>1, <2>2 DEF Metrics
  <2>4. n \in Metrics
    <3>1. 1 \in 0..1
      OBVIOUS
    <3> QED BY <1>1, <1>2, <2>1, <2>2, <3>1 DEF Metrics
  <2>5. AddsUp(n)
    BY <1>1, <2>1, <2>3, CounterTypes DEF AddsUp
  <2> QED BY <2>3, <2>4, <2>5 DEF Counted
<1>4. CASE n = [met EXCEPT !.total_requests = @ + 1, !.owed = 1, !.arrived = @ + 1]
  <2>1. PICK y \in Nat : y = met.total_requests + 1
    BY <1>1, CounterTypes
  <2>2. n = [met EXCEPT !.total_requests = y, !.owed = 1, !.arrived = x]
    BY <1>1, <1>2, <1>4, <2>1
  <2>3. /\ n.total_requests = y /\ n.bad = met.bad /\ n.carried = met.carried
        /\ n.total_responses = met.total_responses /\ n.dropped = met.dropped /\ n.owed = 1
        /\ n.active_connections = 1
    BY <1>1, <2>2 DEF Metrics
  <2>4. n \in Metrics
    <3>1. 1 \in 0..1
      OBVIOUS
    <3> QED BY <1>1, <1>2, <2>1, <2>2, <3>1 DEF Metrics
  <2>5. AddsUp(n)
    BY <1>1, <2>1, <2>3, CounterTypes DEF AddsUp
  <2> QED BY <2>3, <2>4, <2>5 DEF Counted
<1> QED BY <1>3, <1>4
\* A request that was read is answered, counted, refused or waits for its body.
LEMMA RespondKeeps ==
  ASSUME IInv, conn.state = "reading", metrics.arrived < MaxRequests,
         NEW r \in Request, NEW res, NEW events, Fine(res.mem, events),
         res.ret \in {"ok", "error", "bad", "incomplete"}, Respond(r, res, events)
  PROVE  IInv'
<1>1. conn # NoConn
  BY NoConnType
<1>2. Counted(metrics, 0) /\ conn \in Connection /\ conn.keep \in BOOLEAN
  BY <1>1, Between DEF Owes
<1>3. PICK keep \in BOOLEAN : keep = (conn.keep \/ r.keep)
  BY <1>2 DEF Request
<1>4. PICK bad : bad = [metrics EXCEPT !.bad = @ + 1, !.owed = 1, !.arrived = @ + 1]
  OBVIOUS
<1>5. PICK counted :
        counted = [metrics EXCEPT !.total_requests = @ + 1, !.owed = 1, !.arrived = @ + 1]
  OBVIOUS
<1>6. PICK m : m = res.mem
  OBVIOUS
<1>7. Safe(m) /\ Fine(m, events)
  BY <1>6 DEF Fine
<1>8. Counted(bad, 1)
  BY <1>2, <1>4, CountersArrived
<1>9. Counted(counted, 1)
  BY <1>2, <1>5, CountersArrived
<1>10. \A answer \in queue_error_response(m) :
         Fine(answer.mem, events) /\ answer.ret \in {"ok", "error"}
  BY <1>7, QueueErrorResponse, GrowsFine
<1>11. CASE res.ret = "incomplete"
  <2>1. PICK c : c = [conn EXCEPT !.req = r, !.keep = keep]
    OBVIOUS
  <2>2. /\ c \in Connection /\ c.state = "reading" /\ c.fd = conn.fd /\ c.req = r
    BY <1>2, <2>1 DEF Connection
  <2>3. c.req # NoRequest
    BY <2>2 DEF Request, NoRequest
  <2>4. Owes(c) = 0
    BY <2>2 DEF Owes
  <2>5. Leave(m, metrics, c, events)
    BY <1>3, <1>6, <1>11, <2>1 DEF Respond
  <2> QED BY <1>1, <1>2, <1>7, <2>2, <2>3, <2>4, <2>5, LeaveKeeps
<1>12. CASE res.ret = "error"
  <2>1. close_conn(m, metrics, events)
    BY <1>6, <1>12 DEF Respond
  <2>2. 0 \in 0..1
    OBVIOUS
  <2> QED BY <1>1, <1>2, <1>7, <2>1, <2>2, CloseKeeps
<1>13. CASE res.ret = "bad"
  <2>1. PICK answer \in queue_error_response(m) :
          IF answer.ret = "ok" THEN Leave(answer.mem, bad, Goes("writing", FALSE), events)
          ELSE close_conn(answer.mem, bad, events)
    BY <1>4, <1>6, <1>13 DEF Respond
  <2>2. PICK a : a = answer.mem
    OBVIOUS
  <2>3. Fine(a, events)
    BY <1>10, <2>2
  <2>4. CASE answer.ret = "ok"
    <3>1. PICK c : c = Goes("writing", FALSE)
      OBVIOUS
    <3>2. c \in Connection /\ c.state = "writing" /\ c.fd = conn.fd
      BY <3>1, GoesType
    <3>3. Owes(c) = 1
      BY <3>2 DEF Owes
    <3>4. Leave(a, bad, c, events)
      BY <2>1, <2>2, <2>4, <3>1
    <3> QED BY <1>1, <1>8, <2>3, <3>2, <3>3, <3>4, LeaveKeeps
  <2>5. CASE answer.ret # "ok"
    <3>1. close_conn(a, bad, events) /\ 1 \in 0..1
      BY <2>1, <2>2, <2>5
    <3> QED BY <1>1, <1>8, <2>3, <3>1, CloseKeeps
  <2> QED BY <2>4, <2>5
<1>14. CASE res.ret = "ok" /\ r.route = "none"
  <2>1. PICK answer \in queue_error_response(m) :
          IF answer.ret = "ok" THEN send_response(answer.mem, counted, FALSE, events)
          ELSE close_conn(answer.mem, counted, events)
    BY <1>5, <1>6, <1>14 DEF Respond
  <2>2. PICK a : a = answer.mem
    OBVIOUS
  <2>3. Fine(a, events)
    BY <1>10, <2>2
  <2>4. CASE answer.ret = "ok"
    <3>1. PICK no \in BOOLEAN : no = FALSE
      OBVIOUS
    <3>2. send_response(a, counted, no, events)
      BY <2>1, <2>2, <2>4, <3>1
    <3> QED BY <1>1, <1>9, <2>3, <3>2, SendKeeps
  <2>5. CASE answer.ret # "ok"
    <3>1. close_conn(a, counted, events) /\ 1 \in 0..1
      BY <2>1, <2>2, <2>5
    <3> QED BY <1>1, <1>9, <2>3, <3>1, CloseKeeps
  <2> QED BY <2>4, <2>5
<1>15. CASE res.ret = "ok" /\ r.route # "none"
  <2>1. PICK n \in http_response_init(m) : Leave(n, counted, Goes("handler", keep), events)
    BY <1>3, <1>5, <1>6, <1>15 DEF Respond
  <2>2. Fine(n, events)
    BY <1>7, HttpResponseInit, GrowsFine
  <2>3. PICK c : c = Goes("handler", keep)
    OBVIOUS
  <2>4. c \in Connection /\ c.state = "handler" /\ c.fd = conn.fd
    BY <2>3, GoesType
  <2>5. Owes(c) = 1
    BY <2>4 DEF Owes
  <2> QED BY <1>1, <1>9, <2>1, <2>2, <2>3, <2>4, <2>5, LeaveKeeps
<1> QED BY <1>11, <1>12, <1>13, <1>14, <1>15

\* What a former attempt at the same request left is lost, and nothing else.
LEMMA ReadKeeps == ASSUME IInv, HandleRead PROVE IInv'
<1>1. conn.state = "reading" /\ metrics.arrived < MaxRequests /\ conn # NoConn
  BY NoConnType DEF HandleRead
<1>2. PICK events : events = IF conn.req = NoRequest THEN {} ELSE {"reparsed"}
  OBVIOUS
<1>3. PICK m : m = Extend(mem, "rb")
  OBVIOUS
<1>4. PICK r \in IF conn.req = NoRequest THEN Request ELSE {conn.req} :
        \E whole \in BOOLEAN : \E res \in parse_request(m, r, whole) : Respond(r, res, events)
  BY <1>2, <1>3 DEF HandleRead
<1>5. PICK whole \in BOOLEAN : \E res \in parse_request(m, r, whole) : Respond(r, res, events)
  BY <1>4
<1>6. PICK res \in parse_request(m, r, whole) : Respond(r, res, events)
  BY <1>5
<1>7. r \in Request
  <2>1. conn.req \in Request \cup {NoRequest}
    BY DEF IInv, TypeOK, Connection
  <2> QED BY <2>1
<1>8. Fine(mem, {})
  BY <1>1, Between
<1>9. Safe(m) /\ m.lost = mem.lost /\ Live(m) = Live(mem) \cup {"rb"}
  <2>1. "rb" \in Blocks
    BY Names
  <2> QED BY <1>3, <1>8, <2>1, ExtendEffect DEF Fine
<1>10. "hdr_block" \notin Live(m)
  BY <1>8, <1>9, Names DEF Fine
<1>11. /\ Replaces(m, res.mem, RequestParts)
       /\ res.ret \in {"ok", "error", "bad", "incomplete"}
  BY <1>9, <1>10, ParseRequest
<1>12. PICK n : n = res.mem
  OBVIOUS
<1>13. /\ Safe(n) /\ n.lost \subseteq mem.lost \cup (RequestParts \cap Live(m))
       /\ Live(n) \subseteq Live(mem) \cup {"rb"} \cup RequestParts
  BY <1>9, <1>11, <1>12 DEF Replaces
<1>14. Live(n) \subseteq ConnBlocks \cup {"ctx", "routes"}
  BY <1>8, <1>13, Names DEF Fine
<1>15. Excused(n, past \cup events) /\ events \subseteq {"closed", "reparsed"}
  <2>1. Excused(mem, past)
    BY <1>8 DEF Fine
  <2>2. CASE conn.req = NoRequest
    <3>1. Live(m) \cap RequestParts = {}
      BY <1>1, <1>9, <2>2, Names DEF IInv, MemGood
    <3> QED BY <1>2, <1>13, <2>1, <2>2, <3>1 DEF Excused
  <2>3. CASE conn.req # NoRequest
    BY <1>2, <1>13, <2>1, <2>3 DEF Excused
  <2> QED BY <2>2, <2>3
<1>16. Fine(res.mem, events)
  BY <1>12, <1>13, <1>14, <1>15 DEF Fine
<1> QED BY <1>1, <1>6, <1>7, <1>11, <1>16, RespondKeeps

LEMMA WriteKeeps == ASSUME IInv, HandleWrite PROVE IInv'
<1>1. conn # NoConn /\ conn.state = "writing" /\ send_response(mem, metrics, conn.keep, {})
  BY NoConnType DEF HandleWrite
<1>2. Fine(mem, {}) /\ Counted(metrics, 1) /\ conn.keep \in BOOLEAN
  BY <1>1, Between DEF Owes
<1> QED BY <1>1, <1>2, SendKeeps

LEMMA CallKeeps == ASSUME IInv, HandlerCall PROVE IInv'
<1>1. /\ conn # NoConn /\ conn.state = "handler"
      /\ UNCHANGED <<ctx, open, table, conn, metrics, past>>
  BY NoConnType DEF HandlerCall
<1>2. PICK n : n = mem'
  OBVIOUS
<1>3. Fine(mem, {}) /\ Counted(metrics, Owes(conn)) /\ conn \in Connection
  BY <1>1, Between
<1>4. Safe(mem)
  BY <1>3 DEF Fine
<1>5. Grows(mem, n, ResponseParts)
  <2>1. CASE n \in http_response_init(mem)
    BY <1>4, <2>1, HttpResponseInit
  <2>2. CASE n \in http_response_add_header(mem)
    BY <1>4, <2>2, HttpResponseAddHeader
  <2>3. CASE n = http_response_free(mem)
    BY <1>4, <2>3, HttpResponseFree DEF Grows
  <2>4. CASE n \in {res.mem : res \in http_response_write_body(mem)}
    BY <1>4, <2>4, HttpResponseWriteBody
  <2> QED BY <1>2, <2>1, <2>2, <2>3, <2>4 DEF HandlerCall
<1>6. Fine(n, {})
  BY <1>3, <1>5, GrowsFine
<1>7. Leave(n, metrics, conn, {})
  BY <1>1, <1>2 DEF Leave, table
<1> QED BY <1>1, <1>3, <1>6, <1>7, LeaveKeeps

LEMMA ReturnsKeeps == ASSUME IInv, HandlerReturns PROVE IInv'
<1>1. conn # NoConn /\ conn.state = "handler"
  BY NoConnType DEF HandlerReturns
<1>2. PICK answer \in prepare_response(mem) :
        IF answer.ret = "ok" THEN send_response(answer.mem, metrics, conn.keep, {})
        ELSE close_conn(answer.mem, metrics, {})
  BY DEF HandlerReturns
<1>3. Fine(mem, {}) /\ Counted(metrics, 1) /\ conn.keep \in BOOLEAN /\ Safe(mem)
  BY <1>1, Between DEF Owes, Fine
<1>4. Fine(answer.mem, {})
  BY <1>3, PrepareResponse, GrowsFine
<1>5. CASE answer.ret = "ok"
  BY <1>1, <1>2, <1>3, <1>4, <1>5, SendKeeps
<1>6. CASE answer.ret # "ok"
  <2>1. close_conn(answer.mem, metrics, {}) /\ 1 \in 0..1
    BY <1>2, <1>6
  <2> QED BY <1>1, <1>3, <1>4, <2>1, CloseKeeps
<1> QED BY <1>5, <1>6
\* The blocks of the context go last, and what is owed is never sent.
LEMMA HttpFreeKeeps == ASSUME IInv, http_free PROVE IInv'
<1>1. /\ ctx = "up" /\ conn.state # "handler"
      /\ mem' = Release(IF conn # NoConn THEN Closed(mem) ELSE mem, {"routes", "ctx"}, "libc")
      /\ past' = IF conn # NoConn THEN past \cup {"closed"} ELSE past
      /\ metrics' = [metrics EXCEPT !.active_connections = 0,
                                    !.dropped = @ + metrics.owed, !.owed = 0]
      /\ ctx' = "freed" /\ conn' = NoConn /\ open' = open \ Everything
      /\ listen_fds' = <<>> /\ routes' = <<>> /\ route_cap' = 0
  BY DEF http_free
<1>2. /\ Safe(mem) /\ Excused(mem, past) /\ Live(mem) \subseteq ConnBlocks \cup {"ctx", "routes"}
      /\ conn = NoConn => Live(mem) \subseteq {"ctx", "routes"}
  BY DEF IInv, MemGood
<1>3. PICK c : c = IF conn # NoConn THEN Closed(mem) ELSE mem
  OBVIOUS
<1>4. /\ Safe(c) /\ Live(c) \subseteq {"ctx", "routes"}
      /\ c.lost \subseteq mem.lost \cup (IF conn # NoConn THEN RequestParts \ {"headers"} ELSE {})
  <2>1. CASE conn # NoConn
    <3>1. c = Closed(mem)
      BY <1>3, <2>1
    <3> QED BY <1>2, <2>1, <3>1, ClosedEffect
  <2>2. CASE conn = NoConn
    BY <1>2, <1>3, <2>2
  <2> QED BY <2>1, <2>2
<1>5. PICK n : n = mem'
  OBVIOUS
<1>6. Safe(n) /\ n.lost = c.lost /\ Live(n) = {}
  <2>1. PICK ks \in SUBSET Blocks : ks = {"routes", "ctx"}
    BY Names
  <2>2. \A k \in ks : k \notin Hooked
    BY <2>1 DEF Hooked
  <2>3. n = Release(c, ks, "libc")
    BY <1>1, <1>3, <1>5, <2>1
  <2>4. Safe(n) /\ n.lost = c.lost /\ Live(n) = Live(c) \ ks
    BY <1>4, <2>2, <2>3, ReleaseByLibc
  <2> QED BY <1>4, <2>1, <2>4
<1>7. /\ metrics' \in Metrics /\ metrics'.active_connections = 0 /\ metrics'.owed = 0
      /\ AddsUp(metrics')
  <2>1. metrics \in Metrics /\ AddsUp(metrics)
    BY DEF IInv, TypeOK, ConnGood
  <2>2. PICK x \in Nat : x = metrics.dropped + metrics.owed
    BY <2>1, CounterTypes
  <2>3. metrics' = [metrics EXCEPT !.active_connections = 0, !.dropped = x, !.owed = 0]
    BY <1>1, <2>1, <2>2
  <2>4. [metrics EXCEPT !.active_connections = 0, !.dropped = x, !.owed = 0] \in Metrics
    BY <2>1, CounterUpdates
  <2>5. /\ metrics'.total_requests = metrics.total_requests /\ metrics'.bad = metrics.bad
        /\ metrics'.carried = metrics.carried /\ metrics'.dropped = x
        /\ metrics'.total_responses = metrics.total_responses /\ metrics'.owed = 0
        /\ metrics'.active_connections = 0
    BY <2>1, <2>3 DEF Metrics
  <2>6. AddsUp(metrics')
    BY <2>1, <2>2, <2>5, CounterTypes DEF AddsUp
  <2> QED BY <2>3, <2>4, <2>5, <2>6
<1>8. open' = {}
  <2>1. conn # NoConn => open = Listening \cup {conn.fd}
    BY DEF IInv, DescriptorsGood
  <2>2. conn = NoConn => open = Listening
    BY DEF IInv, DescriptorsGood
  <2>3. Everything = Listening \cup {conn.fd}
    BY DEF Everything, Listening, IInv, TypeOK
  <2> QED BY <1>1, <2>1, <2>2, <2>3
<1>9. CatchAll(<<>>) = {} /\ Listening' = {} /\ Len(routes') = 0 /\ Len(listen_fds') = 0
  BY <1>1 DEF CatchAll, Listening
<1>10. MemGood'
  <2>1. Safe(mem)' /\ Live(mem)' = {}
    BY <1>5, <1>6 DEF Safe, Live
  <2>2. Excused(mem, past)'
    BY <1>1, <1>2, <1>4, <1>5, <1>6 DEF Excused
  <2> QED BY <1>1, <2>1, <2>2, NoConnType DEF MemGood
<1>11. TypeOK'
  <2>1. mem' \in Memory
    BY <1>5, <1>6 DEF Safe
  <2>2. /\ listen_fds' \in Seq(Descriptors) /\ routes' \in Seq(Patterns \cup {"*"})
        /\ Len(listen_fds') <= MAX_LISTENERS
    BY <1>1, ContextAssumption
  <2>3. past' \subseteq {"closed", "reparsed"}
    BY <1>1 DEF IInv, TypeOK
  <2> QED BY <1>1, <1>7, <1>8, <2>1, <2>2, <2>3, NoConnType DEF TypeOK
<1>12. ConnGood'
  BY <1>1, <1>7, NoConnType DEF ConnGood, Owes, AddsUp
<1>13. TableGood'
  <2>1. Cardinality(CatchAll(routes')) = Len(listen_fds')
    BY <1>1, <1>9, FS_EmptySet
  <2>2. Len(routes') <= route_cap'
    BY <1>1, <1>9
  <2> QED BY <1>1, <2>1, <2>2 DEF TableGood, CatchAll
<1>14. DescriptorsGood'
  BY <1>1, <1>8, <1>9, FS_EmptySet DEF DescriptorsGood
<1> QED BY <1>10, <1>11, <1>12, <1>13, <1>14 DEF IInv

LEMMA NextIsGood == ASSUME IInv, [Next]_vars PROVE IInv'
<1>1. CASE http_init
  BY <1>1, HttpInitKeeps
<1>2. CASE RegisterRoute
  BY <1>2, RegisterRouteKeeps
<1>3. CASE Listen
  BY <1>3, ListenKeeps
<1>4. CASE ResetMetrics
  BY <1>4, ResetMetricsKeeps
<1>5. CASE accept_new
  <2>1. Accepting /\ (Refused \/ \E fd \in Unused : Accepted(fd))
    BY <1>5, AcceptedOrRefused
  <2> QED BY <2>1, RefusedKeeps, AcceptKeeps
<1>6. CASE HandleHangup
  BY <1>6, HangupKeeps
<1>7. CASE HandleMore
  BY <1>7, MoreKeeps
<1>8. CASE HandleRead
  BY <1>8, ReadKeeps
<1>9. CASE HandleWrite
  BY <1>9, WriteKeeps
<1>10. CASE HandlerCall
  BY <1>10, CallKeeps
<1>11. CASE HandlerReturns
  BY <1>11, ReturnsKeeps
<1>12. CASE http_free
  BY <1>12, HttpFreeKeeps
<1>13. CASE UNCHANGED vars
  BY <1>13, StutterKeeps
<1> QED BY <1>1, <1>2, <1>3, <1>4, <1>5, <1>6, <1>7, <1>8, <1>9, <1>10, <1>11, <1>12, <1>13
        DEF Next

-----------------------------------------------------------------------------
(* The theorems                                                            *)

\* IInv holds always.
THEOREM Invariance == Spec => []IInv
BY InitIsGood, NextIsGood, PTL DEF Spec

\* Whatever allocations fail and in whatever order requests come, are answered and
\* refused, for handlers that use the response API as they like but do not free
\* their request: nothing is freed twice, nothing dangles, and of the blocks of http_malloc
\* only a header array ever gets free (http_response.c:60-80, http.c:206-229).
THEOREM Memory_Safe == Spec => []MemoryIsSafe
<1>1. IInv => MemoryIsSafe
  BY DEF IInv, MemGood, MemoryIsSafe, Safe
<1> QED BY <1>1, Invariance, PTL

\* However long the server runs, what is lost are parts of requests, and only after a
\* connection was closed or a request was parsed again, and http_free leaves nothing
\* else (http.c:206-229, http_parser.c:189).
THEOREM Losses == Spec => []LossesAreExcused
<1>1. IInv => LossesAreExcused
  BY DEF IInv, MemGood, LossesAreExcused, Excused
<1> QED BY <1>1, Invariance, PTL

\* For any number of descriptors and listeners: no descriptor is left open that
\* nothing holds, and none is held twice (http.c:492-497, http_free).
THEOREM Descriptors_Owned == Spec => []DescriptorsAreOwned
<1>1. IInv => DescriptorsAreOwned
  <2> SUFFICES ASSUME IInv PROVE DescriptorsAreOwned
    OBVIOUS
  <2>1. CASE conn = NoConn
    <3>1. open = Listening /\ Cardinality(open) = Len(listen_fds) /\ Len(listen_fds) \in Nat
      BY <2>1, CountOfListeners DEF IInv, DescriptorsGood
    <3>2. Listening \cup {} = open
      BY <3>1
    <3> QED BY <2>1, <3>1, <3>2 DEF DescriptorsAreOwned, Listening
  <2>2. CASE conn # NoConn
    <3>1. open = Listening \cup {conn.fd} /\ Cardinality(open) = Len(listen_fds) + 1
      BY <2>2 DEF IInv, DescriptorsGood
    <3> QED BY <2>2, <3>1 DEF DescriptorsAreOwned, Listening
  <2> QED BY <2>1, <2>2
<1> QED BY <1>1, Invariance, PTL

\* For any initial capacity, which doubles as often as it must: the table holds its
\* routes, and there are as many catch-all routes as listeners, whichever
\* registrations failed (http_support.c:85-111, http.c:492-497).
THEOREM Routes_Kept == Spec => []RoutesAreKept
<1>1. IInv => RoutesAreKept
  BY DEF IInv, TableGood, RoutesAreKept, CatchAll
<1> QED BY <1>1, Invariance, PTL

\* Over any number of requests and resets of the counters, each request counted or
\* refused is answered, being answered or dropped
\* (http.c:332, http_response.c:43, http_support.c:251-262).
THEOREM Counters == Spec => []CountersAddUp
<1>1. IInv => CountersAddUp
  BY DEF IInv, ConnGood, CountersAddUp, AddsUp
<1> QED BY <1>1, Invariance, PTL
=============================================================================

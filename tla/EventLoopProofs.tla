-------------------------- MODULE EventLoopProofs ---------------------------
(* Proofs about EventLoop, for every value of its constants. *)
EXTENDS EventLoop, FiniteSetTheorems, Induction, TLAPS

\* pos numbers the connections from the end of the list to its head: the last
\* one is 1, the head is the number of connections.
Numbered(pos) ==
  /\ pos \in [Conn -> Int]
  /\ \A c \in live : pos[c] \in 1..Cardinality(live)
  /\ \A c, d \in live : pos[c] = pos[d] => c = d
  /\ \A k \in 1..Cardinality(live) : \E c \in live : pos[c] = k
  /\ \A c \in live : IF nxt[c] = NULL THEN pos[c] = 1
                     ELSE nxt[c] \in live /\ pos[nxt[c]] = pos[c] - 1
  /\ IF head = NULL THEN live = {} ELSE head \in live /\ pos[head] = Cardinality(live)

\* The list is in order: such a numbering exists.
ListGood == \E pos : Numbered(pos)

\* The scan's pointers.
ScanGood ==
  pc = "scan" =>
    /\ cur \in live \cup {NULL} /\ prev \in live \cup {NULL}
    /\ IF prev = NULL THEN cur = head ELSE nxt[prev] = cur

\* The inductive invariant.
IInv == TypeOK /\ ListGood /\ ScanGood /\ DescriptorsAccounted

-----------------------------------------------------------------------------
(* Counting *)

\* The connections in the list are finitely many; one more or one less counts.
LEMMA Counting ==
  ASSUME TypeOK
  PROVE  /\ IsFiniteSet(live) /\ Cardinality(live) \in Nat
         /\ \A c \in Conn \ live : Cardinality(live \cup {c}) = Cardinality(live) + 1
         /\ \A c \in live : Cardinality(live \ {c}) = Cardinality(live) - 1
<1>1. IsFiniteSet(live)
  BY ConnAssumption, FS_Subset DEF TypeOK
<1> QED BY <1>1, FS_CardinalityType, FS_AddElement, FS_RemoveElement

-----------------------------------------------------------------------------
(* The list *)

\* Linking a new connection in front keeps the list in order, and the others
\* keep their numbers.
LEMMA PushFrontNumbers ==
  ASSUME TypeOK, NEW pos, Numbered(pos),
         NEW c \in Conn \ live, PushFront(c), live' = live \cup {c},
         NEW n, n = Cardinality(live)
  PROVE  Numbered([pos EXCEPT ![c] = n + 1])'
<1>1. Numbered(pos)
  OBVIOUS
<1>0. n \in Nat /\ n = Cardinality(live)
  BY Counting
<1> DEFINE new == [pos EXCEPT ![c] = n + 1]
<1>2. n \in Nat /\ Cardinality(live') = n + 1
  BY <1>0, Counting
<1>3. /\ nxt'[c] = head /\ head' = c /\ c # NULL /\ NULL \notin live
      /\ \A d \in live : d # c /\ nxt'[d] = nxt[d]
  BY ConnAssumption DEF PushFront, TypeOK
<1>4. new \in [Conn -> Int] /\ new[c] = n + 1 /\ \A d \in live : new[d] = pos[d]
  BY <1>1, <1>2, <1>3 DEF Numbered
<1> HIDE DEF new
<1>5. /\ \A d \in live : pos[d] \in 1..n
      /\ \A d, e \in live : pos[d] = pos[e] => d = e
      /\ \A k \in 1..n : \E d \in live : pos[d] = k
      /\ \A d \in live : IF nxt[d] = NULL THEN pos[d] = 1
                         ELSE nxt[d] \in live /\ pos[nxt[d]] = pos[d] - 1
      /\ IF head = NULL THEN live = {} ELSE head \in live /\ pos[head] = n
  BY <1>0, <1>1 DEF Numbered
<1>6. \A d \in live' : new[d] \in 1..(n + 1)
  BY <1>2, <1>4, <1>5
<1>7. \A d, e \in live' : new[d] = new[e] => d = e
  BY <1>2, <1>4, <1>5
<1>8. \A k \in 1..(n + 1) : \E d \in live' : new[d] = k
  BY <1>2, <1>4, <1>5
<1>9. \A d \in live' : IF nxt'[d] = NULL THEN new[d] = 1
                       ELSE nxt'[d] \in live' /\ new[nxt'[d]] = new[d] - 1
  <2>1. head = NULL => n = 0
    BY <1>0, <1>5, FS_EmptySet
  <2> QED BY <1>2, <1>3, <1>4, <1>5, <2>1
<1>10. Numbered(new)'
  BY <1>2, <1>3, <1>4, <1>6, <1>7, <1>8, <1>9 DEF Numbered
<1> QED BY <1>10 DEF new

LEMMA PushFrontIsGood ==
  ASSUME TypeOK, ListGood, NEW c \in Conn \ live, PushFront(c), live' = live \cup {c}
  PROVE  ListGood'
<1>1. PICK pos : Numbered(pos)
  BY DEF ListGood
<1>2. PICK n : n = Cardinality(live)
  OBVIOUS
<1>3. Numbered([pos EXCEPT ![c] = n + 1])'
  BY <1>1, <1>2, PushFrontNumbers
<1> QED BY <1>3 DEF ListGood

\* The numbers once c is unlinked: those in front of it lose one.
Closer(pos, c) == [d \in Conn |-> IF pos[d] > pos[c] THEN pos[d] - 1 ELSE pos[d]]

\* Unlinking a connection by its predecessor, or the head of the list, keeps
\* the list in order, and leads past the connection.
LEMMA UnlinkNumbers ==
  ASSUME TypeOK, NEW pos, Numbered(pos), NEW c \in live, NEW p \in live \cup {NULL},
         IF p = NULL THEN c = head ELSE nxt[p] = c,
         Unlink(p, c), live' = live \ {c}
  PROVE  /\ Numbered(Closer(pos, c))' /\ p # c /\ nxt[c] \in live' \cup {NULL}
         /\ IF p = NULL THEN nxt[c] = head' ELSE nxt'[p] = nxt[c]
<1>1. Numbered(pos)
  OBVIOUS
<1> DEFINE n == Cardinality(live)
           new == [d \in Conn |-> IF pos[d] > pos[c] THEN pos[d] - 1 ELSE pos[d]]
<1>2. n \in Nat /\ Cardinality(live') = n - 1 /\ live \subseteq Conn /\ NULL \notin live /\ c # NULL
  BY Counting, ConnAssumption DEF TypeOK
<1>3. /\ pos \in [Conn -> Int]
      /\ \A d \in live : pos[d] \in 1..n
      /\ \A d, e \in live : pos[d] = pos[e] => d = e
      /\ \A k \in 1..n : \E d \in live : pos[d] = k
      /\ \A d \in live : IF nxt[d] = NULL THEN pos[d] = 1
                         ELSE nxt[d] \in live /\ pos[nxt[d]] = pos[d] - 1
      /\ head # NULL /\ head \in live /\ pos[head] = n
  BY <1>1 DEF Numbered
<1> HIDE DEF n
<1>4. new \in [Conn -> Int] /\ \A d \in live : new[d] = IF pos[d] > pos[c] THEN pos[d] - 1 ELSE pos[d]
  BY <1>2, <1>3
<1> HIDE DEF new
<1>5. p # c /\ (p # NULL => p \in live /\ pos[p] = pos[c] + 1 /\ nxt[p] = c)
  BY <1>2, <1>3
<1>6. nxt[c] \in live' \cup {NULL}
  BY <1>2, <1>3
<1>7. IF p = NULL THEN head' = nxt[c] ELSE head' = head /\ nxt'[p] = nxt[c]
  BY <1>2, <1>5 DEF Unlink, TypeOK
<1>8. \A d \in live : d # c /\ d # p => nxt'[d] = nxt[d]
  BY <1>2 DEF Unlink, TypeOK
<1>9. \A d \in live' : new[d] \in 1..(n - 1)
  BY <1>2, <1>3, <1>4
<1>10. \A d, e \in live' : new[d] = new[e] => d = e
  BY <1>2, <1>3, <1>4
<1>11. \A k \in 1..(n - 1) : \E d \in live' : new[d] = k
  <2> SUFFICES ASSUME NEW k \in 1..(n - 1) PROVE \E d \in live' : new[d] = k
    OBVIOUS
  <2>1. CASE k < pos[c]
    BY <1>2, <1>3, <1>4, <2>1
  <2>2. CASE k >= pos[c]
    <3>1. PICK d \in live : pos[d] = k + 1
      BY <1>2, <1>3
    <3> QED BY <1>2, <1>3, <1>4, <2>2, <3>1
  <2> QED BY <1>2, <1>3, <2>1, <2>2
<1>12. \A d \in live' : IF nxt'[d] = NULL THEN new[d] = 1
                        ELSE nxt'[d] \in live' /\ new[nxt'[d]] = new[d] - 1
  <2> SUFFICES ASSUME NEW d \in live'
               PROVE  IF nxt'[d] = NULL THEN new[d] = 1
                      ELSE nxt'[d] \in live' /\ new[nxt'[d]] = new[d] - 1
    OBVIOUS
  <2>1. CASE d = p
    BY <1>2, <1>3, <1>4, <1>5, <1>6, <1>7, <2>1
  <2>2. CASE d # p
    <3>1. nxt'[d] = nxt[d] /\ d \in live /\ d # c
      BY <1>8, <2>2
    <3>2. nxt[d] # c
      <4>1. CASE p = NULL
        BY <1>2, <1>3, <3>1, <4>1
      <4>2. CASE p # NULL
        BY <1>2, <1>3, <1>5, <2>2, <3>1, <4>2
      <4> QED BY <4>1, <4>2
    <3> QED BY <1>2, <1>3, <1>4, <3>1, <3>2
  <2> QED BY <2>1, <2>2
<1>13. IF head' = NULL THEN live' = {} ELSE head' \in live' /\ new[head'] = n - 1
  <2>1. CASE p = NULL
    <3>1. CASE nxt[c] = NULL
      BY <1>2, <1>3, <1>7, <2>1, <3>1
    <3>2. CASE nxt[c] # NULL
      BY <1>2, <1>3, <1>4, <1>6, <1>7, <2>1, <3>2
    <3> QED BY <3>1, <3>2
  <2>2. CASE p # NULL
    BY <1>2, <1>3, <1>4, <1>5, <1>7, <2>2
  <2> QED BY <2>1, <2>2
<1>14. Numbered(new)'
  BY <1>2, <1>4, <1>9, <1>10, <1>11, <1>12, <1>13 DEF Numbered
<1> QED BY <1>5, <1>6, <1>7, <1>14 DEF new, Closer

LEMMA UnlinkIsGood ==
  ASSUME TypeOK, ListGood, NEW c \in live, NEW p \in live \cup {NULL},
         IF p = NULL THEN c = head ELSE nxt[p] = c,
         Unlink(p, c), live' = live \ {c}
  PROVE  /\ ListGood' /\ p # c /\ nxt[c] \in live' \cup {NULL}
         /\ IF p = NULL THEN nxt[c] = head' ELSE nxt'[p] = nxt[c]
<1>1. PICK pos : Numbered(pos)
  BY DEF ListGood
<1> QED BY <1>1, UnlinkNumbers DEF ListGood

-----------------------------------------------------------------------------
(* The steps *)

\* A step that leaves the list and its counters alone, and does not enter or
\* leave the scan or http_free, needs only its types checked.
LEMMA ListUntouched ==
  ASSUME IInv, TypeOK', UNCHANGED list,
         pc' = "scan" => pc = "scan" /\ UNCHANGED <<prev, cur>>,
         pc' \in {"freeing", "freed"} <=> pc \in {"freeing", "freed"},
         pc' = "freed" => pc = "freed"
  PROVE  IInv'
<1>1. ListGood'
  BY DEF IInv, ListGood, Numbered, list
<1>2. ScanGood'
  BY DEF IInv, ScanGood, list
<1>3. DescriptorsAccounted'
  BY DEF IInv, DescriptorsAccounted, list
<1> QED BY <1>1, <1>2, <1>3 DEF IInv

LEMMA InitIsGood == Init => IInv
<1> SUFFICES ASSUME Init PROVE IInv
  OBVIOUS
<1>1. TypeOK
  <2>1. sock \in [Conn -> SockState] /\ backlog \in [Listener -> Nat]
    BY DEF Init, FreshSock, SockState
  <2>2. pfds \in Seq([fd : Conn \cup Listener, revents : BOOLEAN])
    BY DEF Init
  <2>3. cstate \in [Conn -> {"READING", "WRITING"}] /\ nxt \in [Conn -> Pointer]
    BY DEF Init, Pointer
  <2>4. pc \in Running \cup {"init", "exit", "freeing", "freed"} /\ stopped \in BOOLEAN
    BY DEF Init, Running
  <2>5. live \subseteq Conn /\ reported \subseteq Conn /\ fresh \subseteq Conn /\ handled \subseteq Conn
    BY DEF Init
  <2>6. head \in Pointer /\ prev \in Pointer /\ cur \in Pointer
    BY DEF Init, Pointer
  <2>7. fds \in Nat /\ active \in Nat /\ idx \in Nat \ {0}
    BY CountAssumption DEF Init
  <2> QED BY <2>1, <2>2, <2>3, <2>4, <2>5, <2>6, <2>7 DEF TypeOK
<1>2. ScanGood
  BY DEF Init, ScanGood
<1>3. ListGood
  <2>1. Cardinality(live) = 0
    BY FS_EmptySet DEF Init
  <2>2. Numbered([c \in Conn |-> 0])
    BY <2>1 DEF Init, Numbered
  <2> QED BY <2>2 DEF ListGood
<1>4. DescriptorsAccounted
  BY FS_EmptySet, CountAssumption DEF Init, DescriptorsAccounted
<1> QED BY <1>1, <1>2, <1>3, <1>4 DEF IInv

LEMMA PollEnterIsGood == IInv /\ PollEnter => IInv'
<1> SUFFICES ASSUME IInv, PollEnter PROVE IInv'
  OBVIOUS
<1>1. PICK s \in Walks :
        pfds' = [i \in 1..(NListen + Len(s)) |->
                   [fd |-> IF i <= NListen THEN i ELSE s[i - NListen], revents |-> FALSE]]
  BY DEF PollEnter
<1>2. PICK n \in 0..Cardinality(live) : s \in [1..n -> live]
  BY DEF Walks
<1>3. n \in Nat /\ Len(s) = n /\ \A i \in 1..n : s[i] \in live
  BY <1>2, Counting DEF IInv
<1>4. pfds' \in Seq([fd : Conn \cup Listener, revents : BOOLEAN])
  <2> DEFINE m == NListen + n
             entry(i) == [fd |-> IF i <= NListen THEN i ELSE s[i - NListen], revents |-> FALSE]
  <2>1. m \in Nat /\ pfds' = [i \in 1..m |-> entry(i)]
    BY <1>1, <1>3, CountAssumption
  <2>2. \A i \in 1..m : entry(i) \in [fd : Conn \cup Listener, revents : BOOLEAN]
    BY <1>3, CountAssumption DEF IInv, TypeOK, Listener
  <2> HIDE DEF m, entry
  <2> QED BY <2>1, <2>2
<1>5. TypeOK'
  BY <1>4 DEF PollEnter, IInv, TypeOK, Running, list, kernel, history
<1> QED BY <1>5, ListUntouched DEF PollEnter

LEMMA PollReturnIsGood == IInv /\ PollReturn => IInv'
<1> SUFFICES ASSUME IInv, PollReturn PROVE IInv'
  OBVIOUS
<1>1. pfds' \in Seq([fd : Conn \cup Listener, revents : BOOLEAN])
  <2>1. /\ pfds \in Seq([fd : Conn \cup Listener, revents : BOOLEAN])
        /\ pfds' = [i \in 1..Len(pfds) |-> [pfds[i] EXCEPT !.revents = ReadyFd(pfds[i].fd)]]
    BY DEF PollReturn, IInv, TypeOK
  <2>2. ASSUME NEW fd \in Conn \cup Listener PROVE ReadyFd(fd) \in BOOLEAN
    <3>1. CASE fd \in Listener
      BY <3>1 DEF ReadyFd
    <3>2. CASE fd \notin Listener
      <4>1. sock[fd].room \in BOOLEAN
        BY <2>2, <3>2 DEF IInv, TypeOK, SockState
      <4>2. Ready(fd) \in BOOLEAN
        BY <4>1, Zenon DEF Ready, Readable
      <4> QED BY <3>2, <4>2 DEF ReadyFd
    <3> QED BY <2>2, <3>1, <3>2
  <2> DEFINE new(i) == [pfds[i] EXCEPT !.revents = ReadyFd(pfds[i].fd)]
  <2>3. ASSUME NEW i \in 1..Len(pfds) PROVE new(i) \in [fd : Conn \cup Listener, revents : BOOLEAN]
    <3> DEFINE Entry == [fd : Conn \cup Listener, revents : BOOLEAN]
    <3>0. pfds \in Seq(Entry)
      BY <2>1
    <3> HIDE DEF Entry
    <3>1. pfds[i] \in Entry
      BY <2>3, <3>0
    <3> USE DEF Entry
    <3>2. ReadyFd(pfds[i].fd) \in BOOLEAN
      BY <2>2, <3>1
    <3> QED BY <3>1, <3>2
  <2>4. pfds' = [i \in 1..Len(pfds) |-> new(i)] /\ Len(pfds) \in Nat
    BY <2>1
  <2> HIDE DEF new
  <2> QED BY <2>3, <2>4
<1>2. TypeOK'
  <2>1. reported' \subseteq Conn /\ fresh' \subseteq Conn /\ handled' \subseteq Conn
    BY DEF PollReturn, IInv, TypeOK
  <2> QED BY <1>1, <2>1 DEF PollReturn, IInv, TypeOK, Running, list, kernel
<1> QED BY <1>2, ListUntouched DEF PollReturn

\* The steps of the server, the embedder and the environment that neither open
\* nor close anything.
LEMMA QuietStepsAreGood ==
  IInv /\ (HttpRun \/ RunExit \/ PollFail \/ ScanEnd \/ TimersCheck \/ HttpStop
           \/ Connect \/ GiveUp) => IInv'
<1> SUFFICES ASSUME IInv,
                    HttpRun \/ RunExit \/ PollFail \/ ScanEnd \/ TimersCheck \/ HttpStop
                      \/ Connect \/ GiveUp
             PROVE  IInv'
  OBVIOUS
<1> USE DEF IInv, TypeOK, Running, Pointer, list, scan, kernel, history
<1>1. CASE HttpRun
  BY <1>1, ListUntouched DEF HttpRun
<1>2. CASE RunExit
  BY <1>2, ListUntouched DEF RunExit
<1>3. CASE PollFail
  BY <1>3, ListUntouched DEF PollFail
<1>5. CASE TimersCheck
  BY <1>5, ListUntouched DEF TimersCheck
<1>6. CASE HttpStop
  BY <1>6, ListUntouched DEF HttpStop
<1>7. CASE Connect
  BY <1>7, ListUntouched DEF Connect
<1>8. CASE GiveUp
  BY <1>8, ListUntouched DEF GiveUp
<1>4. CASE ScanEnd
  <2>1. TypeOK'
    BY <1>4 DEF ScanEnd
  <2> QED BY <1>4, <2>1, ListUntouched DEF ScanEnd
<1> QED BY <1>1, <1>2, <1>3, <1>4, <1>5, <1>6, <1>7, <1>8

LEMMA ListenerStepIsGood == IInv /\ ListenerStep => IInv'
<1> SUFFICES ASSUME IInv, ListenerStep PROVE IInv'
  OBVIOUS
<1>1. /\ pc = "accept" /\ pc' = "accept" /\ idx' = idx + 1
      /\ UNCHANGED <<stopped, pfds, prev, cur, reported, handled>>
  BY DEF ListenerStep
<1>2. CASE UNCHANGED <<list, kernel, fresh>>
  <2>1. TypeOK'
    BY <1>1, <1>2 DEF IInv, TypeOK, list, kernel
  <2> QED BY <1>1, <1>2, <2>1, ListUntouched
<1>3. ASSUME NEW l, Accepted(l) PROVE backlog' \in [Listener -> Nat]
  <2>1. backlog \in [Listener -> Nat]
    BY DEF IInv, TypeOK
  <2>2. backlog[l] > 0 /\ backlog' = [backlog EXCEPT ![l] = backlog[l] - 1]
    BY <1>3 DEF Accepted
  <2>3. CASE l \in Listener
    <3>1. backlog[l] - 1 \in Nat
      BY <2>1, <2>2, <2>3
    <3> QED BY <2>1, <2>2, <3>1
  <2>4. CASE l \notin Listener
    BY <2>1, <2>2, <2>4
  <2> QED BY <2>3, <2>4
<1>4. ASSUME NEW l, AcceptNoMemory(l) PROVE IInv'
  <2>1. backlog' \in [Listener -> Nat] /\ UNCHANGED <<list, sock, fresh>>
    BY <1>3, <1>4 DEF AcceptNoMemory
  <2>2. TypeOK'
    BY <1>1, <2>1 DEF IInv, TypeOK, list
  <2> QED BY <1>1, <2>1, <2>2, ListUntouched
<1>5. ASSUME NEW l, NEW c \in Conn, AcceptConn(l, c) PROVE IInv'
  <2>1. /\ backlog' \in [Listener -> Nat] /\ c \in Conn \ live /\ live' = live \cup {c}
        /\ PushFront(c) /\ fds' = fds + 1 /\ active' = active + 1 /\ fresh' = fresh \cup {c}
        /\ cstate' \in [Conn -> {"READING", "WRITING"}] /\ sock' \in [Conn -> SockState]
    BY <1>3, <1>5 DEF AcceptConn, IInv, TypeOK, FreshSock, SockState
  <2>2. ListGood'
    BY <1>1, <2>1, PushFrontIsGood DEF IInv
  <2>3. nxt' \in [Conn -> Pointer] /\ head' \in Pointer
    BY <2>1 DEF PushFront, IInv, TypeOK, Pointer
  <2>4. TypeOK'
    <3>1. /\ live' \subseteq Conn /\ fresh' \subseteq Conn
          /\ fds' \in Nat /\ active' \in Nat /\ idx' \in Nat \ {0}
      BY <1>1, <2>1 DEF IInv, TypeOK
    <3>2. pc' \in Running
      BY <1>1 DEF Running
    <3> QED BY <1>1, <2>1, <2>3, <3>1, <3>2 DEF IInv, TypeOK
  <2>5. DescriptorsAccounted'
    <3>1. Cardinality(live') = Cardinality(live) + 1 /\ Cardinality(live) \in Nat
      BY <2>1, Counting DEF IInv
    <3>2. active = Cardinality(live) /\ fds = active + NListen
      BY <1>1 DEF IInv, DescriptorsAccounted
    <3> QED BY <1>1, <2>1, <3>1, <3>2, CountAssumption DEF DescriptorsAccounted
  <2>6. ScanGood'
    BY <1>1 DEF ScanGood
  <2> QED BY <2>2, <2>4, <2>5, <2>6 DEF IInv
<1> QED BY <1>2, <1>4, <1>5 DEF ListenerStep, accept_new, AcceptFails

LEMMA ScanStartIsGood == IInv /\ ScanStart => IInv'
<1> SUFFICES ASSUME IInv, ScanStart PROVE IInv'
  OBVIOUS
<1>1. TypeOK'
  BY DEF ScanStart, IInv, TypeOK, Running, Pointer, list, kernel, history
<1>2. head \in live \cup {NULL}
  BY DEF IInv, ListGood, Numbered
<1>3. ScanGood'
  BY <1>2 DEF ScanStart, ScanGood, list
<1>4. ListGood' /\ DescriptorsAccounted'
  BY DEF ScanStart, IInv, ListGood, Numbered, DescriptorsAccounted, list
<1> QED BY <1>1, <1>3, <1>4 DEF IInv

\* A turn of the scan that leaves the connection in the list: the old cur is
\* the new prev.
LEMMA ScanStaysIsGood == IInv /\ (ScanSkip \/ ScanHandle) => IInv'
<1> SUFFICES ASSUME IInv, ScanSkip \/ ScanHandle PROVE IInv'
  OBVIOUS
<1>1. /\ pc = "scan" /\ pc' = "scan" /\ cur # NULL
      /\ prev' = cur /\ cur' = nxt[cur] /\ idx' = idx + 1
      /\ UNCHANGED <<stopped, head, nxt, live, fds, active, pfds, backlog, reported, fresh>>
      /\ handled' \in {handled, handled \cup {cur}}
  BY DEF ScanSkip, ScanHandle, HandleAgain, HandleGoesOn, Advance, list, kernel, history
<1>2. cur \in live /\ cur \in Conn /\ nxt[cur] \in live \cup {NULL}
  <2>1. cur \in live
    BY <1>1 DEF IInv, ScanGood
  <2> QED BY <2>1 DEF IInv, TypeOK, ListGood, Numbered
<1>3. cstate' \in [Conn -> {"READING", "WRITING"}] /\ sock' \in [Conn -> SockState]
  <2>1. CASE UNCHANGED <<cstate, sock>>
    BY <2>1 DEF IInv, TypeOK
  <2>2. CASE HandleGoesOn
    <3>1. PICK st \in {"READING", "WRITING"}, more \in BOOLEAN, room \in BOOLEAN :
            /\ cstate' = [cstate EXCEPT ![cur] = st]
            /\ sock' = [sock EXCEPT ![cur].in = more, ![cur].room = room]
      BY <2>2 DEF HandleGoesOn
    <3>2. cstate \in [Conn -> {"READING", "WRITING"}] /\ sock \in [Conn -> SockState]
      BY DEF IInv, TypeOK
    <3>3. [sock[cur] EXCEPT !.in = more, !.room = room] \in SockState
      BY <1>2, <3>2 DEF SockState
    <3>4. sock' = [sock EXCEPT ![cur] = [sock[cur] EXCEPT !.in = more, !.room = room]]
      BY <1>2, <3>1, <3>2 DEF SockState
    <3> QED BY <1>2, <3>1, <3>2, <3>3, <3>4
  <2> QED BY <2>1, <2>2 DEF ScanSkip, ScanHandle, HandleAgain, list, kernel
<1>4. TypeOK'
  BY <1>1, <1>2, <1>3 DEF IInv, TypeOK, Pointer
<1>5. ScanGood'
  BY <1>1, <1>2 DEF ScanGood
<1>6. ListGood' /\ DescriptorsAccounted'
  BY <1>1 DEF IInv, ListGood, Numbered, DescriptorsAccounted
<1> QED BY <1>4, <1>5, <1>6 DEF IInv

\* What close_conn leaves, whoever calls it.
LEMMA CloseConnIsGood ==
  ASSUME IInv, NEW c \in live, NEW p \in live \cup {NULL},
         IF p = NULL THEN c = head ELSE nxt[p] = c,
         close_conn(p, c)
  PROVE  /\ ListGood' /\ p # c /\ nxt[c] \in live' \cup {NULL}
         /\ IF p = NULL THEN nxt[c] = head' ELSE nxt'[p] = nxt[c]
         /\ live' = live \ {c} /\ head' \in Pointer /\ nxt' \in [Conn -> Pointer]
         /\ cstate' \in [Conn -> {"READING", "WRITING"}] /\ sock' \in [Conn -> SockState]
         /\ active' = Cardinality(live') /\ active' \in Nat
         /\ fds' = active' + (fds - active) /\ fds' \in Nat
<1>1. Unlink(p, c) /\ live' = live \ {c} /\ fds' = fds - 1 /\ active' = active - 1
  BY DEF close_conn
<1>2. /\ ListGood' /\ p # c /\ nxt[c] \in live' \cup {NULL}
      /\ IF p = NULL THEN nxt[c] = head' ELSE nxt'[p] = nxt[c]
  BY <1>1, UnlinkIsGood DEF IInv
<1>3. head' \in Pointer /\ nxt' \in [Conn -> Pointer]
  BY <1>1 DEF Unlink, IInv, TypeOK, Pointer
<1>4. cstate' \in [Conn -> {"READING", "WRITING"}] /\ sock' \in [Conn -> SockState]
  BY DEF close_conn, IInv, TypeOK, FreshSock, SockState
<1>5. active' = Cardinality(live') /\ active' \in Nat
  <2>1. live' \subseteq Conn /\ IsFiniteSet(live')
    BY <1>1, Counting, FS_Subset DEF IInv, TypeOK
  <2>2. Cardinality(live') \in Nat
    BY <2>1, FS_CardinalityType
  <2> QED BY <1>1, <2>2, Counting DEF IInv, DescriptorsAccounted
<1>6. fds' = active' + (fds - active) /\ fds' \in Nat
  <2>1. fds \in Nat /\ active \in Nat /\ NListen \in Nat /\ fds - active \in {0, NListen}
    BY CountAssumption DEF IInv, TypeOK, DescriptorsAccounted
  <2> QED BY <1>1, <1>5, <2>1
<1> QED BY <1>1, <1>2, <1>3, <1>4, <1>5, <1>6

LEMMA ScanCloseIsGood == IInv /\ ScanClose => IInv'
<1> SUFFICES ASSUME IInv, ScanClose PROVE IInv'
  OBVIOUS
<1>1. /\ pc = "scan" /\ pc' = "scan" /\ cur # NULL /\ close_conn(prev, cur)
      /\ prev' = prev /\ cur' = nxt[cur] /\ idx' = idx + 1
      /\ UNCHANGED <<stopped, pfds, backlog, reported, fresh>> /\ handled' = handled \cup {cur}
  BY DEF ScanClose, Advance
<1>2. /\ cur \in live /\ prev \in live \cup {NULL}
      /\ IF prev = NULL THEN cur = head ELSE nxt[prev] = cur
  BY <1>1 DEF IInv, ScanGood
<1>3. /\ ListGood' /\ prev # cur /\ nxt[cur] \in live' \cup {NULL}
      /\ IF prev = NULL THEN nxt[cur] = head' ELSE nxt'[prev] = nxt[cur]
      /\ live' = live \ {cur} /\ head' \in Pointer /\ nxt' \in [Conn -> Pointer]
      /\ cstate' \in [Conn -> {"READING", "WRITING"}] /\ sock' \in [Conn -> SockState]
      /\ active' = Cardinality(live') /\ active' \in Nat
      /\ fds' = active' + (fds - active) /\ fds' \in Nat
  BY <1>1, <1>2, CloseConnIsGood
<1>4. ScanGood'
  BY <1>1, <1>2, <1>3 DEF ScanGood
<1>5. TypeOK'
  <2>1. cur \in Conn /\ cur' \in Pointer /\ prev' \in Pointer /\ live' \subseteq Conn
    BY <1>1, <1>2, <1>3 DEF IInv, TypeOK, Pointer
  <2>2. idx' \in Nat \ {0} /\ handled' \subseteq Conn
    BY <1>1, <2>1 DEF IInv, TypeOK
  <2> QED BY <1>1, <1>3, <2>1, <2>2 DEF IInv, TypeOK
<1>6. DescriptorsAccounted'
  BY <1>1, <1>3, CountAssumption DEF IInv, TypeOK, DescriptorsAccounted
<1> QED BY <1>3, <1>4, <1>5, <1>6 DEF IInv

LEMMA HttpFreeIsGood ==
  IInv /\ (HttpFreeListeners \/ HttpFreeConn \/ HttpFreeEnd) => IInv'
<1> SUFFICES ASSUME IInv, HttpFreeListeners \/ HttpFreeConn \/ HttpFreeEnd PROVE IInv'
  OBVIOUS
<1>1. CASE HttpFreeListeners
  <2>1. fds' \in Nat /\ DescriptorsAccounted'
    BY <1>1, Counting, CountAssumption DEF HttpFreeListeners, IInv, TypeOK, DescriptorsAccounted
  <2>2. backlog' \in [Listener -> Nat]
    BY <1>1 DEF HttpFreeListeners
  <2>3. TypeOK'
    BY <1>1, <2>1, <2>2 DEF HttpFreeListeners, IInv, TypeOK, scan, history
  <2>4. ListGood' /\ ScanGood'
    BY <1>1 DEF HttpFreeListeners, IInv, ListGood, Numbered, ScanGood
  <2> QED BY <2>1, <2>3, <2>4 DEF IInv
<1>2. CASE HttpFreeConn
  <2>1. /\ pc = "freeing" /\ pc' = "freeing" /\ head # NULL /\ close_conn(NULL, head)
        /\ UNCHANGED <<stopped, pfds, idx, prev, cur, backlog, reported, fresh, handled>>
    BY <1>2 DEF HttpFreeConn, scan, history
  <2>2. head \in live
    BY <2>1 DEF IInv, ListGood, Numbered
  <2>3. /\ ListGood' /\ live' = live \ {head} /\ head' \in Pointer /\ nxt' \in [Conn -> Pointer]
        /\ cstate' \in [Conn -> {"READING", "WRITING"}] /\ sock' \in [Conn -> SockState]
        /\ active' = Cardinality(live') /\ active' \in Nat
        /\ fds' = active' + (fds - active) /\ fds' \in Nat
    BY <2>1, <2>2, CloseConnIsGood
  <2>4. ScanGood'
    BY <2>1 DEF ScanGood
  <2>5. TypeOK'
    BY <2>1, <2>3 DEF IInv, TypeOK
  <2>6. DescriptorsAccounted'
    BY <2>1, <2>3 DEF IInv, TypeOK, DescriptorsAccounted
  <2> QED BY <2>3, <2>4, <2>5, <2>6 DEF IInv
<1>3. CASE HttpFreeEnd
  <2>1. live = {}
    BY <1>3 DEF HttpFreeEnd, IInv, ListGood, Numbered
  <2>2. UNCHANGED list /\ pc = "freeing" /\ pc' = "freed"
    BY <1>3 DEF HttpFreeEnd
  <2>3. TypeOK'
    BY <1>3 DEF HttpFreeEnd, IInv, TypeOK, list, scan, kernel, history
  <2>4. DescriptorsAccounted'
    BY <2>1, <2>2, FS_EmptySet DEF IInv, DescriptorsAccounted, list
  <2>5. ListGood' /\ ScanGood'
    BY <2>2 DEF IInv, ListGood, Numbered, ScanGood, list
  <2> QED BY <2>3, <2>4, <2>5 DEF IInv
<1> QED BY <1>1, <1>2, <1>3

\* What happens to a connection's socket concerns only sock.
LEMMA SocketEventIsGood ==
  ASSUME IInv, NEW c \in Conn, DataArrives(c) \/ BufferDrains(c) \/ PeerLeaves(c)
  PROVE  IInv'
<1>1. PICK s \in SockState : SockChanges(c, s)
  BY DEF DataArrives, BufferDrains, PeerLeaves, IInv, TypeOK, SockState
<1>2. TypeOK'
  BY <1>1 DEF SockChanges, IInv, TypeOK, list, scan, history
<1> QED BY <1>1, <1>2, ListUntouched DEF SockChanges, list, scan

LEMMA NextIsGood == IInv /\ [Next]_vars => IInv'
<1> SUFFICES ASSUME IInv, [Next]_vars PROVE IInv'
  OBVIOUS
<1>1. CASE Server
  BY <1>1, PollEnterIsGood, PollReturnIsGood, QuietStepsAreGood, ListenerStepIsGood,
     ScanStartIsGood, ScanStaysIsGood, ScanCloseIsGood DEF Server
<1>2. CASE Embedder
  BY <1>2, QuietStepsAreGood, HttpFreeIsGood DEF Embedder
<1>3. CASE Environment
  BY <1>3, QuietStepsAreGood, SocketEventIsGood DEF Environment
<1>4. CASE UNCHANGED vars
  <2>1. TypeOK'
    BY <1>4 DEF IInv, TypeOK, vars, list, scan, kernel, history
  <2> QED BY <1>4, <2>1, ListUntouched DEF vars, list, scan
<1> QED BY <1>1, <1>2, <1>3, <1>4 DEF Next

-----------------------------------------------------------------------------
(* The index into the pollfd array *)

\* Where in the array a connection's entry is, by its number.  Numbers count
\* from the end of the list, so that neither those accepted in front nor those
\* the scan has closed behind it change the numbers of what lies ahead.
ArrayGood(pos) ==
  /\ pc \in {"polling", "accept"} =>
       \A p \in 1..Len(pfds) : pfds[p].fd \in Conn =>
         pfds[p].fd \in live /\ p = Len(pfds) + 1 - pos[pfds[p].fd]
  /\ pc = "polling" => Len(pfds) = NListen + Cardinality(live)
  /\ pc = "accept" =>
       /\ idx <= NListen + 1 /\ fresh \subseteq live
       /\ Len(pfds) + Cardinality(fresh) = NListen + Cardinality(live)
  /\ pc = "scan" /\ cur # NULL =>
       /\ idx + pos[cur] = 1 + Len(pfds) + Cardinality(fresh)
       /\ \A p \in 1..Len(pfds) :
            pfds[p].fd \in live /\ pos[pfds[p].fd] <= pos[cur] =>
              p = Len(pfds) + 1 - pos[pfds[p].fd]

\* The list is in order, and the array matches its numbers.
IndexGood == \E pos : Numbered(pos) /\ ArrayGood(pos)

\* A walk from ctx->conns meets the connections from the highest number down.
LEMMA WalkNumbers ==
  ASSUME TypeOK, NEW pos, Numbered(pos), NEW s \in Walks
  PROVE  /\ Len(s) = Cardinality(live)
         /\ \A i \in 1..Len(s) : s[i] \in live /\ pos[s[i]] = Cardinality(live) + 1 - i
<1>1. PICK n \in Nat : n = Cardinality(live)
  BY Counting
<1>2. PICK m \in 0..n : s \in [1..m -> live]
  BY <1>1 DEF Walks
<1>3. m \in Nat /\ Len(s) = m /\ \A i \in 1..m : s[i] \in live
  BY <1>2
<1>4. CASE m = 0
  <2>1. s = <<>>
    BY <1>2, <1>4
  <2>2. live = {}
    BY <2>1 DEF Walks, Numbered
  <2> QED BY <1>1, <1>3, <1>4, <2>2, FS_EmptySet
<1>5. CASE m # 0
  <2>1. /\ s[1] = head /\ nxt[s[m]] = NULL
        /\ \A i \in 1..(m - 1) : nxt[s[i]] = s[i + 1]
    BY <1>3, <1>5 DEF Walks
  <2> DEFINE T == {i \in 1..m : pos[s[i]] = n + 1 - i}
  <2>2. 1 \in T
    BY <1>1, <1>3, <1>5, <2>1 DEF Numbered
  <2>3. ASSUME NEW i \in 1..(m - 1), i \in T PROVE i + 1 \in T
    <3>1. /\ s[i] \in live /\ s[i + 1] \in live /\ nxt[s[i]] = s[i + 1]
          /\ pos[s[i]] = n + 1 - i
      BY <1>3, <2>1, <2>3
    <3>2. s[i + 1] # NULL
      BY <3>1, ConnAssumption DEF TypeOK
    <3>3. pos[s[i + 1]] = pos[s[i]] - 1
      BY <3>1, <3>2 DEF Numbered
    <3> QED BY <1>1, <1>3, <3>1, <3>3
  <2>4. 1..m \subseteq T
    <3> HIDE DEF T
    <3> QED BY <1>3, <2>2, <2>3, InductBetween
  <2>5. pos[s[m]] = n + 1 - m /\ s[m] \in live
    BY <1>3, <1>5, <2>4
  <2>6. pos[s[m]] = 1
    BY <2>1, <2>5 DEF Numbered
  <2> QED BY <1>1, <1>3, <2>4, <2>5, <2>6
<1> QED BY <1>4, <1>5

\* Where there is no array or no scan, nothing is claimed.
LEMMA IndexOutside ==
  ASSUME IInv', pc' \notin {"polling", "accept", "scan"}
  PROVE  IndexGood'
BY DEF IInv, ListGood, IndexGood, ArrayGood

LEMMA IndexUntouched ==
  ASSUME IndexGood, UNCHANGED <<pc, head, nxt, live, pfds, idx, cur, fresh>>
  PROVE  IndexGood'
BY DEF IndexGood, ArrayGood, Numbered

LEMMA IndexPollEnter == IInv /\ PollEnter => IndexGood'
<1> SUFFICES ASSUME IInv, PollEnter PROVE IndexGood'
  OBVIOUS
<1>1. PICK pos : Numbered(pos)
  BY DEF IInv, ListGood
<1>2. PICK s \in Walks :
        pfds' = [i \in 1..(NListen + Len(s)) |->
                   [fd |-> IF i <= NListen THEN i ELSE s[i - NListen], revents |-> FALSE]]
  BY DEF PollEnter
<1>3. PICK n \in Nat : n = Cardinality(live)
  BY Counting DEF IInv
<1>4. Len(s) = n /\ \A i \in 1..n : s[i] \in live /\ pos[s[i]] = n + 1 - i
  BY <1>1, <1>3, WalkNumbers DEF IInv
<1>5. /\ Len(pfds') = NListen + n
      /\ \A i \in 1..Len(pfds') : pfds'[i].fd = IF i <= NListen THEN i ELSE s[i - NListen]
  BY <1>2, <1>4, CountAssumption
<1>6. ASSUME NEW p \in 1..Len(pfds'), pfds'[p].fd \in Conn
      PROVE  pfds'[p].fd \in live /\ p = Len(pfds') + 1 - pos[pfds'[p].fd]
  <2>1. ~(p <= NListen)
    BY <1>5, <1>6, CountAssumption, DescriptorAssumption
  <2>2. PICK i \in 1..n : i = p - NListen /\ pfds'[p].fd = s[i]
    BY <1>5, <2>1, CountAssumption
  <2>3. pfds'[p].fd \in live /\ pos[pfds'[p].fd] = n + 1 - i
    BY <1>4, <2>2
  <2>4. Len(pfds') = NListen + n
    BY <1>5
  <2> QED BY <2>2, <2>3, <2>4, CountAssumption
<1>7. UNCHANGED <<head, nxt, live>> /\ pc' = "polling"
  BY DEF PollEnter, list
<1>8. Numbered(pos)'
  BY <1>1, <1>7 DEF Numbered
<1>9. ArrayGood(pos)'
  BY <1>3, <1>5, <1>6, <1>7 DEF ArrayGood
<1> QED BY <1>8, <1>9 DEF IndexGood

LEMMA IndexPollReturn == IInv /\ IndexGood /\ PollReturn => IndexGood'
<1> SUFFICES ASSUME IInv, IndexGood, PollReturn PROVE IndexGood'
  OBVIOUS
<1>1. PICK pos : Numbered(pos) /\ ArrayGood(pos)
  BY DEF IndexGood
<1>2. /\ pc = "polling" /\ pc' = "accept" /\ idx' = 1 /\ fresh' = {}
      /\ UNCHANGED <<head, nxt, live>>
      /\ pfds' = [i \in 1..Len(pfds) |-> [pfds[i] EXCEPT !.revents = ReadyFd(pfds[i].fd)]]
  BY DEF PollReturn, list
<1>3. pfds \in Seq([fd : Conn \cup Listener, revents : BOOLEAN])
  BY DEF IInv, TypeOK
<1>4. Len(pfds') = Len(pfds) /\ Len(pfds) \in Nat
  BY <1>2, <1>3
<1>5. ASSUME NEW p \in 1..Len(pfds) PROVE pfds'[p].fd = pfds[p].fd
  <2> DEFINE Entries == [fd : Conn \cup Listener, revents : BOOLEAN]
  <2>3. pfds \in Seq(Entries)
    BY <1>3
  <2>4. pfds[p] \in Entries
    <3> HIDE DEF Entries
    <3> QED BY <1>5, <2>3
  <2>1. pfds[p] \in [fd : Conn \cup Listener, revents : BOOLEAN]
    BY <2>4
  <2>2. PICK r : pfds'[p] = [pfds[p] EXCEPT !.revents = r]
    BY <1>2, <1>5
  <2> QED BY <2>1, <2>2
<1>6. Cardinality(fresh') = 0 /\ Cardinality(live) \in Nat
  BY <1>2, Counting, FS_EmptySet DEF IInv
<1>7. Numbered(pos)'
  BY <1>1, <1>2 DEF Numbered
<1>8. ArrayGood(pos)'
  BY <1>1, <1>2, <1>4, <1>5, <1>6, CountAssumption DEF ArrayGood
<1> QED BY <1>7, <1>8 DEF IndexGood

LEMMA IndexListenerStep == IInv /\ IndexGood /\ ListenerStep => IndexGood'
<1> SUFFICES ASSUME IInv, IndexGood, ListenerStep PROVE IndexGood'
  OBVIOUS
<1>1. PICK pos : Numbered(pos) /\ ArrayGood(pos)
  BY DEF IndexGood
<1>2. pc = "accept" /\ pc' = "accept" /\ idx <= NListen /\ idx' = idx + 1 /\ UNCHANGED pfds
  BY DEF ListenerStep
<1>3. idx' <= NListen + 1
  BY <1>2, CountAssumption DEF IInv, TypeOK
<1>4. CASE UNCHANGED <<head, nxt, live, fresh>>
  <2>1. Numbered(pos)'
    BY <1>1, <1>4 DEF Numbered
  <2>2. ArrayGood(pos)'
    BY <1>1, <1>2, <1>3, <1>4 DEF ArrayGood
  <2> QED BY <2>1, <2>2 DEF IndexGood
<1>5. ASSUME NEW l, NEW c \in Conn, AcceptConn(l, c) PROVE IndexGood'
  <2>1. /\ c \in Conn \ live /\ PushFront(c) /\ live' = live \cup {c}
        /\ fresh' = fresh \cup {c}
    BY <1>5 DEF AcceptConn
  <2>2. PICK n \in Nat : n = Cardinality(live)
    BY Counting DEF IInv
  <2> DEFINE new == [pos EXCEPT ![c] = n + 1]
  <2>3. Numbered(new)'
    BY <1>1, <2>1, <2>2, PushFrontNumbers DEF IInv
  <2>4. \A d \in live : new[d] = pos[d]
    BY <2>1 
  <2> HIDE DEF new
  <2>5. fresh \subseteq live /\ IsFiniteSet(fresh) /\ c \notin fresh
    BY <1>1, <1>2, <2>1, Counting, FS_Subset DEF ArrayGood, IInv
  <2>6. Cardinality(fresh') = Cardinality(fresh) + 1 /\ Cardinality(fresh) \in Nat
    BY <2>1, <2>5, FS_AddElement, FS_CardinalityType
  <2>7. Cardinality(live') = n + 1
    BY <2>1, <2>2, Counting DEF IInv
  <2>8. Len(pfds) \in Nat
    BY DEF IInv, TypeOK
  <2>9. fresh' \subseteq live' /\ Len(pfds') + Cardinality(fresh') = NListen + Cardinality(live')
    BY <1>1, <1>2, <2>1, <2>2, <2>5, <2>6, <2>7, <2>8, CountAssumption DEF ArrayGood
  <2>10. \A p \in 1..Len(pfds') : pfds'[p].fd \in Conn =>
           pfds'[p].fd \in live' /\ p = Len(pfds') + 1 - new[pfds'[p].fd]
    BY <1>1, <1>2, <2>1, <2>4 DEF ArrayGood
  <2>11. ArrayGood(new)'
    BY <1>2, <1>3, <2>9, <2>10 DEF ArrayGood
  <2> QED BY <2>3, <2>11 DEF IndexGood
<1> QED BY <1>4, <1>5 DEF ListenerStep, accept_new, AcceptNoMemory, AcceptFails, list

LEMMA IndexScanStart == IInv /\ IndexGood /\ ScanStart => IndexGood'
<1> SUFFICES ASSUME IInv, IndexGood, ScanStart PROVE IndexGood'
  OBVIOUS
<1>1. PICK pos : Numbered(pos) /\ ArrayGood(pos)
  BY DEF IndexGood
<1>2. /\ pc = "accept" /\ idx > NListen /\ pc' = "scan" /\ cur' = head
      /\ UNCHANGED <<head, nxt, live, pfds, idx, fresh>>
  BY DEF ScanStart, list, history
<1>3. idx = NListen + 1
  BY <1>1, <1>2, CountAssumption DEF ArrayGood, IInv, TypeOK
<1>4. Numbered(pos)'
  BY <1>1, <1>2 DEF Numbered
<1>5. head # NULL => pos[head] = Cardinality(live)
  BY <1>1 DEF Numbered
<1>6. Len(pfds) \in Nat /\ Cardinality(live) \in Nat /\ Cardinality(fresh) \in Nat
  <2>1. IsFiniteSet(fresh)
    BY <1>1, <1>2, Counting, FS_Subset DEF ArrayGood, IInv
  <2> QED BY <2>1, Counting, FS_CardinalityType DEF IInv, TypeOK
<1>7. live \subseteq Conn
  BY DEF IInv, TypeOK
<1>8. ArrayGood(pos)'
  BY <1>1, <1>2, <1>3, <1>5, <1>6, <1>7, CountAssumption, SMTT(30) DEF ArrayGood
<1> QED BY <1>4, <1>8 DEF IndexGood

LEMMA IndexScanStays == IInv /\ IndexGood /\ (ScanSkip \/ ScanHandle) => IndexGood'
<1> SUFFICES ASSUME IInv, IndexGood, ScanSkip \/ ScanHandle PROVE IndexGood'
  OBVIOUS
<1>1. PICK pos : Numbered(pos) /\ ArrayGood(pos)
  BY DEF IndexGood
<1>2. /\ pc = "scan" /\ pc' = "scan" /\ cur # NULL /\ cur' = nxt[cur] /\ idx' = idx + 1
      /\ UNCHANGED <<head, nxt, live, pfds, fresh>>
  BY DEF ScanSkip, ScanHandle, HandleAgain, HandleGoesOn, Advance, list, history
<1>3. cur \in live
  BY <1>2 DEF IInv, ScanGood
<1>4. Numbered(pos)'
  BY <1>1, <1>2 DEF Numbered
<1>5. nxt[cur] # NULL => nxt[cur] \in live /\ pos[nxt[cur]] = pos[cur] - 1
  BY <1>1, <1>3 DEF Numbered
<1>6. idx \in Nat /\ \A d \in live : pos[d] \in Int
  BY <1>1 DEF IInv, TypeOK, Numbered
<1>7. ArrayGood(pos)'
  <2> SUFFICES ASSUME cur' # NULL
               PROVE  /\ idx' + pos[cur'] = 1 + Len(pfds) + Cardinality(fresh)
                      /\ \A p \in 1..Len(pfds) :
                           pfds[p].fd \in live /\ pos[pfds[p].fd] <= pos[cur'] =>
                             p = Len(pfds) + 1 - pos[pfds[p].fd]
    BY <1>2 DEF ArrayGood
  <2>1. idx + pos[cur] = 1 + Len(pfds) + Cardinality(fresh)
    BY <1>1, <1>2 DEF ArrayGood
  <2>2. idx' + pos[cur'] = idx + pos[cur]
    BY <1>2, <1>3, <1>5, <1>6
  <2>3. \A d \in live : pos[d] <= pos[cur'] => pos[d] <= pos[cur]
    BY <1>2, <1>3, <1>5, <1>6
  <2> QED BY <1>1, <1>2, <2>1, <2>2, <2>3 DEF ArrayGood
<1> QED BY <1>4, <1>7 DEF IndexGood

LEMMA IndexScanClose == IInv /\ IndexGood /\ ScanClose => IndexGood'
<1> SUFFICES ASSUME IInv, IndexGood, ScanClose PROVE IndexGood'
  OBVIOUS
<1>1. PICK pos : Numbered(pos) /\ ArrayGood(pos)
  BY DEF IndexGood
<1>2. /\ pc = "scan" /\ pc' = "scan" /\ cur # NULL /\ cur' = nxt[cur] /\ idx' = idx + 1
      /\ Unlink(prev, cur) /\ live' = live \ {cur} /\ UNCHANGED <<pfds, fresh>>
  BY DEF ScanClose, close_conn, Advance
<1>3. PICK c \in live, p \in live \cup {NULL} :
        c = cur /\ p = prev /\ IF p = NULL THEN c = head ELSE nxt[p] = c
  BY <1>2 DEF IInv, ScanGood
<1> DEFINE new == Closer(pos, c)
<1>4. Numbered(new)'
  BY <1>1, <1>2, <1>3, UnlinkNumbers DEF IInv
<1>5. /\ live' \subseteq live /\ live \subseteq Conn /\ pos \in [Conn -> Int]
      /\ \A d \in live : new[d] = IF pos[d] > pos[c] THEN pos[d] - 1 ELSE pos[d]
  BY <1>1, <1>2 DEF Closer, Numbered, IInv, TypeOK, close_conn
<1> HIDE DEF new
<1>6. nxt[c] # NULL => nxt[c] \in live /\ pos[nxt[c]] = pos[c] - 1
  BY <1>1, <1>3 DEF Numbered
<1>7. cur' # NULL => new[cur'] = pos[c] - 1
  BY <1>2, <1>3, <1>5, <1>6
<1>8. idx \in Nat
  BY DEF IInv, TypeOK
<1>9. ArrayGood(new)'
  <2> SUFFICES ASSUME cur' # NULL
               PROVE  /\ idx' + new[cur'] = 1 + Len(pfds) + Cardinality(fresh)
                      /\ \A q \in 1..Len(pfds) :
                           pfds[q].fd \in live' /\ new[pfds[q].fd] <= new[cur'] =>
                             q = Len(pfds) + 1 - new[pfds[q].fd]
    BY <1>2 DEF ArrayGood
  <2>1. idx + pos[c] = 1 + Len(pfds) + Cardinality(fresh)
    BY <1>1, <1>2, <1>3 DEF ArrayGood
  <2>2. idx' + new[cur'] = idx + pos[c]
    BY <1>2, <1>5, <1>7, <1>8
  <2>3. \A d \in live' : new[d] <= new[cur'] => d \in live /\ pos[d] <= pos[c] /\ new[d] = pos[d]
    <3> SUFFICES ASSUME NEW d \in live', new[d] <= new[cur']
                 PROVE  pos[d] <= pos[c]
      BY <1>5
    <3>1. pos[d] \in Int /\ pos[c] \in Int
      BY <1>5
    <3> QED BY <1>5, <1>7, <3>1
  <2>4. \A q \in 1..Len(pfds) : pfds[q].fd \in live /\ pos[pfds[q].fd] <= pos[c] =>
          q = Len(pfds) + 1 - pos[pfds[q].fd]
    BY <1>1, <1>2, <1>3 DEF ArrayGood
  <2> QED BY <2>1, <2>2, <2>3, <2>4
<1> QED BY <1>4, <1>9 DEF IndexGood

LEMMA IndexInit == Init => IndexGood
<1> SUFFICES ASSUME Init PROVE IndexGood
  OBVIOUS
<1>1. ListGood
  BY InitIsGood DEF IInv
<1>2. pc = "init"
  BY DEF Init
<1> QED BY <1>1, <1>2 DEF ListGood, IndexGood, ArrayGood

LEMMA IndexNext == IInv /\ IInv' /\ IndexGood /\ [Next]_vars => IndexGood'
<1> SUFFICES ASSUME IInv, IInv', IndexGood, [Next]_vars PROVE IndexGood'
  OBVIOUS
<1>1. CASE PollEnter \/ PollReturn \/ ListenerStep \/ ScanStart \/ ScanSkip \/ ScanHandle \/ ScanClose
  BY <1>1, IndexPollEnter, IndexPollReturn, IndexListenerStep, IndexScanStart, IndexScanStays,
     IndexScanClose
<1>2. CASE RunExit \/ PollFail \/ ScanEnd \/ TimersCheck \/ HttpRun
           \/ HttpFreeListeners \/ HttpFreeConn \/ HttpFreeEnd
  <2>1. pc' \notin {"polling", "accept", "scan"}
    BY <1>2 DEF RunExit, PollFail, ScanEnd, TimersCheck, HttpRun, HttpFreeListeners,
                HttpFreeConn, HttpFreeEnd
  <2> QED BY <2>1, IndexOutside
<1>3. CASE HttpStop \/ Environment \/ UNCHANGED vars
  <2>1. UNCHANGED <<pc, head, nxt, live, pfds, idx, cur, fresh>>
    BY <1>3 DEF HttpStop, Environment, Connect, GiveUp, DataArrives, BufferDrains, PeerLeaves,
                SockChanges, vars, list, scan, history
  <2> QED BY <2>1, IndexUntouched
<1> QED BY <1>1, <1>2, <1>3 DEF Next, Server, Embedder

-----------------------------------------------------------------------------
(* Theorems *)

\* The inductive invariant holds in every reachable state.
THEOREM Invariance == Spec => []IInv
<1> QED BY InitIsGood, NextIsGood, PTL DEF Spec

\* Type correctness.
THEOREM TypeCorrect == Spec => []TypeOK
<1>1. IInv => TypeOK
  BY DEF IInv
<1> QED BY <1>1, Invariance, PTL

\* However accepts, scans, closes and http_free interleave, no pointer of the
\* list or of the scan leads to a freed connection.
THEOREM Memory == Spec => []NothingDangles
<1>1. IInv => NothingDangles
  BY DEF IInv, ListGood, Numbered, ScanGood, NothingDangles
<1> QED BY <1>1, Invariance, PTL

\* Every connection that is not freed is in the list, once.
THEOREM Reachability == Spec => []NothingLost
<1>1. ASSUME IInv PROVE NothingLost
  <2>1. PICK pos : Numbered(pos)
    BY <1>1 DEF IInv, ListGood
  <2>2. PICK n \in Nat : n = Cardinality(live)
    BY <1>1, Counting DEF IInv
  <2>3. NULL \notin live
    BY <1>1, ConnAssumption DEF IInv, TypeOK
  <2> DEFINE at(k) == CHOOSE c \in live : pos[c] = k
             s == [i \in 1..n |-> at(n + 1 - i)]
  <2>4. \A k \in 1..n : at(k) \in live /\ pos[at(k)] = k
    BY <2>1, <2>2 DEF Numbered
  <2>5. \A c \in live : pos[c] \in 1..n /\ at(pos[c]) = c
    BY <2>1, <2>2, <2>4 DEF Numbered
  <2> HIDE DEF at
  <2>6. s \in [1..n -> live] /\ Len(s) = n /\ \A i \in 1..n : s[i] = at(n + 1 - i)
    BY <2>2, <2>4
  <2> HIDE DEF s
  <2>7. \A i \in 1..n : s[i] \in live /\ pos[s[i]] = n + 1 - i
    BY <2>2, <2>4, <2>6
  <2>8. {s[i] : i \in 1..n} = live
    <3>1. \A c \in live : n + 1 - pos[c] \in 1..n /\ s[n + 1 - pos[c]] = c
      BY <2>2, <2>5, <2>6
    <3> QED BY <2>7, <3>1
  <2>9. s \in Walks
    <3>1. CASE n = 0
      <4>1. s = <<>> /\ live = {}
        BY <2>6, <2>8, <3>1
      <4>2. head = NULL
        BY <2>1, <4>1 DEF Numbered
      <4> QED BY <2>2, <2>6, <3>1, <4>1, <4>2 DEF Walks
    <3>2. CASE n # 0
      <4>1. s # <<>> /\ 1 \in 1..n /\ n \in 1..n
        BY <2>2, <2>6, <3>2
      <4>2. s[1] = head
        BY <2>1, <2>2, <2>7, <4>1 DEF Numbered
      <4>3. nxt[s[n]] = NULL
        <5>1. pos[s[n]] = 1 /\ s[n] \in live
          BY <2>2, <2>7, <4>1
        <5>2. \A c \in live : pos[c] # 0
          BY <2>5
        <5> QED BY <2>1, <5>1, <5>2 DEF Numbered
      <4>4. ASSUME NEW i \in 1..(n - 1) PROVE nxt[s[i]] = s[i + 1]
        <5>1. /\ s[i] \in live /\ pos[s[i]] = n + 1 - i
              /\ s[i + 1] \in live /\ pos[s[i + 1]] = n - i
          BY <2>2, <2>7, <4>4
        <5>2. nxt[s[i]] # NULL
          BY <2>1, <2>2, <4>4, <5>1 DEF Numbered
        <5> QED BY <2>1, <2>2, <4>4, <5>1, <5>2 DEF Numbered
      <4> QED BY <2>2, <2>6, <4>1, <4>2, <4>3, <4>4 DEF Walks
    <3> QED BY <3>1, <3>2
  <2> QED BY <2>2, <2>6, <2>8, <2>9 DEF NothingLost
<1> QED BY <1>1, Invariance, PTL

\* Descriptors and the active_connections metric follow the list, and http_free
\* closes everything.
THEOREM Descriptors == Spec => []DescriptorsAccounted
<1>1. IInv => DescriptorsAccounted
  BY DEF IInv
<1> QED BY <1>1, Invariance, PTL

\* The index of the scan is off by exactly the connections accepted in the same
\* call, whatever the scan has closed before: http_poll reads a connection's own
\* revents if and only if it accepted nobody.
THEOREM IndexOff == Spec => []IndexIsOffByTheAccepted
<1>1. ASSUME IInv, IndexGood PROVE IndexIsOffByTheAccepted
  <2> SUFFICES ASSUME pc = "scan", cur # NULL, NEW p \in 1..Len(pfds), pfds[p].fd = cur
               PROVE  idx = p + Cardinality(fresh)
    BY DEF IndexIsOffByTheAccepted
  <2>1. PICK pos : Numbered(pos) /\ ArrayGood(pos)
    BY <1>1 DEF IndexGood
  <2>2. cur \in live /\ pos[cur] \in Int
    BY <1>1, <2>1 DEF IInv, TypeOK, ScanGood, Numbered
  <2>3. p = Len(pfds) + 1 - pos[cur] /\ idx + pos[cur] = 1 + Len(pfds) + Cardinality(fresh)
    BY <2>1, <2>2 DEF ArrayGood
  <2>4. idx \in Nat /\ Len(pfds) \in Nat /\ Cardinality(fresh) \in Nat
    BY <1>1, ConnAssumption, FS_Subset, FS_CardinalityType DEF IInv, TypeOK
  <2> QED BY <2>2, <2>3, <2>4, SMTT(30)
<1> QED BY <1>1, Invariance, IndexInit, IndexNext, PTL DEF Spec
=============================================================================

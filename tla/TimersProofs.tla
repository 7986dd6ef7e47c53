---------------------------- MODULE TimersProofs ----------------------------
(* Proofs about Timers, for every value of its constants. *)
EXTENDS Timers, SequenceTheorems, TLAPS

\* The ids in use, or cancelled, were given out.
Given ==
  /\ \A i \in 1..Len(running) : running[i].id < next_timer_id
  /\ \A id \in cancelled : id < next_timer_id

\* The inductive invariant.
IInv == TypeOK /\ Sorted /\ EachOnce /\ CancelledForGood /\ Given

-----------------------------------------------------------------------------
(* The list after timers_add and timers_remove *)

\* r is s with e behind the first k.
Longer(r, s, k, e) ==
  /\ Len(r) = Len(s) + 1
  /\ \A i \in 1..(Len(s) + 1) :
       r[i] = IF i <= k THEN s[i] ELSE IF i = k + 1 THEN e ELSE s[i - 1]

\* r is s without its k-th element.
Shorter(r, s, k) ==
  /\ Len(r) = Len(s) - 1
  /\ \A i \in 1..(Len(s) - 1) : r[i] = IF i < k THEN s[i] ELSE s[i + 1]

\* What InsertAt returns.
LEMMA Inserted ==
  ASSUME NEW S, NEW s \in Seq(S), NEW e \in S, NEW k \in 0..Len(s)
  PROVE  InsertAt(s, k + 1, e) \in Seq(S) /\ Longer(InsertAt(s, k + 1, e), s, k, e)
<1> DEFINE a == SubSeq(s, 1, k)
           b == SubSeq(s, k + 1, Len(s))
<1>1. /\ a \in Seq(S) /\ Len(a) = k /\ \A i \in 1..k : a[i] = s[i]
      /\ b \in Seq(S) /\ Len(b) = Len(s) - k /\ \A i \in 1..(Len(s) - k) : b[i] = s[k + i]
  OBVIOUS
<1>2. InsertAt(s, k + 1, e) = a \o <<e>> \o b
  <2>1. (k + 1) - 1 = k
    OBVIOUS
  <2> QED BY <2>1, Zenon DEF InsertAt
<1> HIDE DEF a, b
<1>3. a \o <<e>> \in Seq(S) /\ Len(a \o <<e>>) = k + 1
      /\ \A i \in 1..(k + 1) : (a \o <<e>>)[i] = IF i <= k THEN s[i] ELSE e
  BY <1>1
<1> DEFINE c == a \o <<e>>
<1>4. c \o b \in Seq(S) /\ Len(c \o b) = Len(s) + 1
      /\ \A i \in 1..(Len(s) + 1) : (c \o b)[i] = IF i <= k + 1 THEN c[i] ELSE b[i - (k + 1)]
  <2> HIDE DEF c
  <2> QED BY <1>1, <1>3 DEF c
<1>5. ASSUME NEW i \in 1..(Len(s) + 1), i > k + 1
      PROVE  b[i - (k + 1)] = s[i - 1]
  <2>1. i - (k + 1) \in 1..(Len(s) - k) /\ k + (i - (k + 1)) = i - 1
    BY <1>5
  <2> QED BY <1>1, <2>1
<1>6. InsertAt(s, k + 1, e) = c \o b
  BY <1>2
<1>7. \A i \in 1..(k + 1) : c[i] = IF i <= k THEN s[i] ELSE e
  BY <1>3
<1> HIDE DEF c
<1>8. ASSUME NEW i \in 1..(Len(s) + 1)
      PROVE  (c \o b)[i] = IF i <= k THEN s[i] ELSE IF i = k + 1 THEN e ELSE s[i - 1]
  <2>1. CASE i <= k + 1
    <3>1. (c \o b)[i] = c[i] /\ i \in 1..(k + 1)
      BY <1>4, <2>1
    <3> QED BY <1>7, <3>1
  <2>2. CASE i > k + 1
    <3>1. (c \o b)[i] = s[i - 1] /\ ~(i <= k) /\ i # k + 1
      BY <1>4, <1>5, <2>2
    <3> QED BY <3>1
  <2>3. i <= k + 1 \/ i > k + 1
    OBVIOUS
  <2> QED BY <2>1, <2>2, <2>3, Zenon
<1>9. Longer(c \o b, s, k, e)
  BY <1>4, <1>8, Zenon DEF Longer
<1> QED BY <1>4, <1>6, <1>9, Zenon

\* What RemoveAt returns.
LEMMA Removed ==
  ASSUME NEW S, NEW s \in Seq(S), NEW k \in 1..Len(s)
  PROVE  RemoveAt(s, k) \in Seq(S) /\ Shorter(RemoveAt(s, k), s, k)
<1> DEFINE a == SubSeq(s, 1, k - 1)
           b == SubSeq(s, k + 1, Len(s))
<1>1. /\ a \in Seq(S) /\ Len(a) = k - 1 /\ \A i \in 1..(k - 1) : a[i] = s[i]
      /\ b \in Seq(S) /\ Len(b) = Len(s) - k /\ \A i \in 1..(Len(s) - k) : b[i] = s[k + i]
  OBVIOUS
<1>2. RemoveAt(s, k) = a \o b
  BY DEF RemoveAt
<1> HIDE DEF a, b
<1>3. a \o b \in Seq(S) /\ Len(a \o b) = Len(s) - 1
      /\ \A i \in 1..(Len(s) - 1) : (a \o b)[i] = IF i <= k - 1 THEN a[i] ELSE b[i - (k - 1)]
  <2>1. /\ a \o b \in Seq(S) /\ Len(a \o b) = Len(a) + Len(b)
        /\ \A i \in 1..(Len(a) + Len(b)) : (a \o b)[i] = IF i <= Len(a) THEN a[i] ELSE b[i - Len(a)]
    BY <1>1, ConcatProperties, Zenon
  <2>2. Len(a) = k - 1 /\ Len(a) + Len(b) = Len(s) - 1
    BY <1>1
  <2> QED BY <2>1, <2>2
<1>4. ASSUME NEW i \in 1..(Len(s) - 1), ~(i < k)
      PROVE  b[i - (k - 1)] = s[i + 1]
  <2>1. i - (k - 1) \in 1..(Len(s) - k) /\ k + (i - (k - 1)) = i + 1
    BY <1>4
  <2> QED BY <1>1, <2>1
<1>5. Shorter(a \o b, s, k)
  BY <1>1, <1>3, <1>4 DEF Shorter
<1> QED BY <1>2, <1>3, <1>5, Zenon

\* Due times are numbers.
LEMMA DueTypes ==
  ASSUME TypeOK
  PROVE  /\ timers \in Seq(http_timer) /\ Len(timers) \in Nat
         /\ \A u \in http_timer : u.due \in Nat
         /\ \A i \in 1..Len(timers) : timers[i].due \in Nat
<1>1. timers \in Seq(http_timer)
  BY DEF TypeOK
<1>2. Len(timers) \in Nat /\ \A i \in 1..Len(timers) : timers[i] \in http_timer
  BY <1>1
<1>3. \A u \in http_timer : u.due \in Nat
  BY DEF http_timer
<1> QED BY <1>1, <1>2, <1>3

\* t stands behind the first k timers of the former list.
AddedBehind(t, k) ==
  /\ \A j \in 1..k : timers[j].due <= t.due
  /\ \A j \in (k + 1)..Len(timers) : t.due <= timers[j].due
  /\ Longer(timers', timers, k, t)

\* timers_add finds a place where the order is kept.
LEMMA Added ==
  ASSUME TypeOK, Sorted, NEW t \in http_timer, timers_add(t)
  PROVE  timers' \in Seq(http_timer) /\ \E k \in 0..Len(timers) : AddedBehind(t, k)
<1>1. PICK k \in Places(t) : timers' = InsertAt(timers, k + 1, t)
  BY DEF timers_add
<1>2. /\ timers \in Seq(http_timer) /\ Len(timers) \in Nat /\ t.due \in Nat
      /\ \A i \in 1..Len(timers) : timers[i].due \in Nat
  BY DueTypes
<1>3. /\ k \in 0..Len(timers)
      /\ \A j \in 1..k : timers[j].due <= t.due
      /\ \A j \in (k + 1)..Len(timers) : t.due <= timers[j].due
  <2>1. CASE timers = <<>>
    BY <1>2, <2>1 DEF Places
  <2>2. CASE timers # <<>> /\ t.due < timers[1].due
    <3>1. k = 0 /\ 1 \in 1..Len(timers)
      BY <1>2, <2>2, EmptySeq DEF Places
    <3> QED BY <1>2, <2>2, <3>1 DEF Sorted
  <2>3. CASE timers # <<>> /\ ~(t.due < timers[1].due)
    <3>1. /\ k \in 1..Len(timers) /\ \A j \in 2..k : timers[j].due < t.due
          /\ k < Len(timers) => t.due <= timers[k + 1].due
      BY <2>3 DEF Places
    <3>2. ASSUME NEW j \in 1..k
          PROVE  timers[j].due <= t.due
      BY <1>2, <2>3, <3>1
    <3>3. ASSUME NEW j \in (k + 1)..Len(timers)
          PROVE  t.due <= timers[j].due
      <4>1. k + 1 \in 1..Len(timers) /\ j \in 1..Len(timers) /\ t.due <= timers[k + 1].due
        BY <1>2, <3>1
      <4> QED BY <1>2, <4>1, <3>1 DEF Sorted
    <3> QED BY <3>1, <3>2, <3>3
  <2> QED BY <2>1, <2>2, <2>3
<1>4. timers' \in Seq(http_timer) /\ Longer(timers', timers, k, t)
  <2>1. timers \in Seq(http_timer) /\ t \in http_timer /\ k \in 0..Len(timers)
    BY <1>2, <1>3
  <2> QED BY <1>1, <2>1, Inserted, Zenon
<1> QED BY <1>3, <1>4 DEF AddedBehind

\* The list without its k-th timer.
Without(k) ==
  /\ timers' \in Seq(http_timer)
  /\ Shorter(timers', timers, k)

\* timers_remove takes the timer with this id away, if there is one.
LEMMA RemovedOne ==
  ASSUME TypeOK, NEW id, timers_remove(id)
  PROVE  \/ UNCHANGED timers /\ \A i \in 1..Len(timers) : timers[i].id # id
         \/ \E k \in 1..Len(timers) : timers[k].id = id /\ Without(k)
<1>1. timers \in Seq(http_timer)
  BY DEF TypeOK
<1>2. CASE \A i \in 1..Len(timers) : timers[i].id # id
  BY <1>2 DEF timers_remove
<1>3. CASE \E i \in 1..Len(timers) : timers[i].id = id
  <2>1. PICK k \in 1..Len(timers) : timers[k].id = id /\ timers' = RemoveAt(timers, k)
    BY <1>3 DEF timers_remove
  <2>2. Without(k)
    BY <1>1, <2>1, Removed DEF Without
  <2> QED BY <2>1, <2>2
<1> QED BY <1>2, <1>3

\* Taking the head is removing the first.
LEMMA PoppedHead ==
  ASSUME TypeOK, timers # <<>>, timers' = Popped
  PROVE  1 \in 1..Len(timers) /\ Without(1)
BY HeadTailProperties, EmptySeq DEF TypeOK, Popped, Without, Shorter

-----------------------------------------------------------------------------
(* What a longer or shorter list keeps *)

\* An id names one timer of the list.
Distinct == \A i, j \in 1..Len(timers) : timers[i].id = timers[j].id => i = j

\* One more timer, with an id of its own.
LEMMA AddKeeps ==
  ASSUME TypeOK, Sorted, Distinct, NEW t \in http_timer, timers_add(t),
         \A i \in 1..Len(timers) : timers[i].id # t.id
  PROVE  /\ timers' \in Seq(http_timer) /\ Sorted' /\ Distinct'
         /\ \A i \in 1..Len(timers') : timers'[i] \in {t} \cup {timers[j] : j \in 1..Len(timers)}
         /\ \A u \in {t} \cup {timers[j] : j \in 1..Len(timers)} :
              \E i \in 1..Len(timers') : timers'[i] = u
<1>1. PICK k \in 0..Len(timers) : timers' \in Seq(http_timer) /\ AddedBehind(t, k)
  BY Added
<1>2. Len(timers) \in Nat /\ k \in Nat /\ k <= Len(timers)
  BY DEF TypeOK
<1>3. /\ Len(timers') = Len(timers) + 1
      /\ timers'[k + 1] = t
      /\ \A i \in 1..k : timers'[i] = timers[i]
      /\ \A i \in (k + 2)..Len(timers') : i - 1 \in (k + 1)..Len(timers) /\ timers'[i] = timers[i - 1]
  BY <1>1, <1>2 DEF AddedBehind, Longer
<1>4. t.due \in Nat /\ \A i \in 1..Len(timers) : timers[i].due \in Nat
  BY DueTypes
<1>5. \A i \in 1..Len(timers') : i \in 1..k \/ i = k + 1 \/ i \in (k + 2)..Len(timers')
  BY <1>2, <1>3
<1>6. Sorted'
  <2> SUFFICES ASSUME NEW i \in 1..Len(timers'), NEW j \in 1..Len(timers'), i < j
               PROVE  timers'[i].due <= timers'[j].due
    BY DEF Sorted
  <2>1. CASE i \in 1..k /\ j \in 1..k
    <3>1. i \in 1..Len(timers) /\ j \in 1..Len(timers) /\ timers'[i] = timers[i] /\ timers'[j] = timers[j]
      BY <1>2, <1>3, <2>1
    <3> QED BY <3>1 DEF Sorted
  <2>2. CASE i \in 1..k /\ j = k + 1
    BY <1>1, <1>3, <2>2 DEF AddedBehind
  <2>3. CASE i \in 1..k /\ j \in (k + 2)..Len(timers')
    <3>1. timers'[i] = timers[i] /\ timers'[j] = timers[j - 1]
      BY <1>3, <2>3
    <3>2. i \in 1..Len(timers) /\ j - 1 \in 1..Len(timers) /\ i < j - 1
      BY <1>2, <1>3, <2>3
    <3> QED BY <3>1, <3>2 DEF Sorted
  <2>4. CASE i = k + 1 /\ j \in (k + 2)..Len(timers')
    BY <1>1, <1>3, <2>4 DEF AddedBehind
  <2>5. CASE i \in (k + 2)..Len(timers') /\ j \in (k + 2)..Len(timers')
    <3>1. timers'[i] = timers[i - 1] /\ timers'[j] = timers[j - 1]
      BY <1>3, <2>5
    <3>2. i - 1 \in 1..Len(timers) /\ j - 1 \in 1..Len(timers) /\ i - 1 < j - 1
      BY <1>2, <1>3, <2>5
    <3> QED BY <3>1, <3>2 DEF Sorted
  <2> QED BY <1>2, <1>5, <2>1, <2>2, <2>3, <2>4, <2>5
<1>7. Distinct'
  <2> SUFFICES ASSUME NEW i \in 1..Len(timers'), NEW j \in 1..Len(timers'), i < j
               PROVE  timers'[i].id # timers'[j].id
    BY <1>2, <1>3 DEF Distinct
  <2>1. CASE i \in 1..k /\ j \in 1..k
    <3>1. i \in 1..Len(timers) /\ j \in 1..Len(timers) /\ timers'[i] = timers[i] /\ timers'[j] = timers[j]
      BY <1>2, <1>3, <2>1
    <3> QED BY <3>1 DEF Distinct
  <2>2. CASE i \in 1..k /\ j = k + 1
    BY <1>2, <1>3, <2>2
  <2>3. CASE i \in 1..k /\ j \in (k + 2)..Len(timers')
    <3>1. timers'[i] = timers[i] /\ timers'[j] = timers[j - 1]
      BY <1>3, <2>3
    <3>2. i \in 1..Len(timers) /\ j - 1 \in 1..Len(timers) /\ i < j - 1
      BY <1>2, <1>3, <2>3
    <3> QED BY <3>1, <3>2 DEF Distinct
  <2>4. CASE i = k + 1 /\ j \in (k + 2)..Len(timers')
    BY <1>2, <1>3, <2>4
  <2>5. CASE i \in (k + 2)..Len(timers') /\ j \in (k + 2)..Len(timers')
    <3>1. timers'[i] = timers[i - 1] /\ timers'[j] = timers[j - 1]
      BY <1>3, <2>5
    <3>2. i - 1 \in 1..Len(timers) /\ j - 1 \in 1..Len(timers) /\ i - 1 < j - 1
      BY <1>2, <1>3, <2>5
    <3> QED BY <3>1, <3>2 DEF Distinct
  <2> QED BY <1>2, <1>5, <2>1, <2>2, <2>3, <2>4, <2>5
<1>8. ASSUME NEW i \in 1..Len(timers')
      PROVE  timers'[i] \in {t} \cup {timers[j] : j \in 1..Len(timers)}
  <2>1. CASE i \in 1..k
    BY <1>2, <1>3, <2>1
  <2>2. CASE i = k + 1
    BY <1>3, <2>2
  <2>3. CASE i \in (k + 2)..Len(timers')
    <3>1. i - 1 \in 1..Len(timers) /\ timers'[i] = timers[i - 1]
      BY <1>2, <1>3, <2>3
    <3> QED BY <3>1
  <2> QED BY <1>5, <2>1, <2>2, <2>3
<1>9. ASSUME NEW u \in {t} \cup {timers[j] : j \in 1..Len(timers)}
      PROVE  \E i \in 1..Len(timers') : timers'[i] = u
  <2>1. CASE u = t
    <3>1. k + 1 \in 1..Len(timers')
      BY <1>2, <1>3
    <3> QED BY <1>3, <2>1, <3>1
  <2>2. ASSUME NEW j \in 1..Len(timers), u = timers[j]
        PROVE  \E i \in 1..Len(timers') : timers'[i] = u
    <3>1. CASE j <= k
      <4>1. j \in 1..k /\ j \in 1..Len(timers')
        BY <1>2, <1>3, <3>1
      <4> QED BY <1>3, <2>2, <4>1
    <3>2. CASE j > k
      <4>1. j + 1 \in (k + 2)..Len(timers') /\ j + 1 \in 1..Len(timers') /\ (j + 1) - 1 = j
        BY <1>2, <1>3, <3>2
      <4> QED BY <1>3, <2>2, <4>1
    <3> QED BY <1>2, <3>1, <3>2
  <2> QED BY <2>1, <2>2
<1> QED BY <1>1, <1>6, <1>7, <1>8, <1>9

\* One timer less: the others stay, and none with its id.
LEMMA WithoutKeeps ==
  ASSUME TypeOK, Sorted, Distinct, NEW k \in 1..Len(timers), Without(k)
  PROVE  /\ timers' \in Seq(http_timer) /\ Sorted' /\ Distinct'
         /\ \A i \in 1..Len(timers') :
              /\ timers'[i] \in {timers[j] : j \in 1..Len(timers)}
              /\ timers'[i].id # timers[k].id
         /\ \A j \in 1..Len(timers) : j = k \/ \E i \in 1..Len(timers') : timers'[i] = timers[j]
<1>1. /\ Len(timers) \in Nat /\ Len(timers') = Len(timers) - 1
      /\ \A i \in 1..Len(timers') :
           \/ i < k /\ timers'[i] = timers[i]
           \/ i >= k /\ timers'[i] = timers[i + 1]
  BY DEF TypeOK, Without, Shorter
<1>2. \A i \in 1..Len(timers) : timers[i].due \in Nat
  BY DueTypes
<1>3. Sorted'
  <2> SUFFICES ASSUME NEW i \in 1..Len(timers'), NEW j \in 1..Len(timers'), i < j
               PROVE  timers'[i].due <= timers'[j].due
    BY DEF Sorted
  <2>1. PICK a \in {i, i + 1} : a \in 1..Len(timers) /\ timers'[i] = timers[a] /\ (a = i + 1 => i >= k)
    BY <1>1
  <2>2. PICK b \in {j, j + 1} : b \in 1..Len(timers) /\ timers'[j] = timers[b] /\ (b = j => j < k)
    BY <1>1
  <2>3. a < b
    BY <2>1, <2>2
  <2> QED BY <2>1, <2>2, <2>3 DEF Sorted
<1>4. Distinct'
  BY <1>1 DEF Distinct
<1>5. ASSUME NEW i \in 1..Len(timers')
      PROVE  /\ timers'[i] \in {timers[j] : j \in 1..Len(timers)}
             /\ timers'[i].id # timers[k].id
  BY <1>1 DEF Distinct
<1>6. ASSUME NEW j \in 1..Len(timers), j # k
      PROVE  \E i \in 1..Len(timers') : timers'[i] = timers[j]
  <2>1. CASE j < k
    <3>1. j \in 1..Len(timers') /\ timers'[j] = timers[j]
      BY <1>1, <2>1
    <3> QED BY <3>1
  <2>2. CASE j > k
    <3>1. j - 1 \in 1..Len(timers') /\ timers'[j - 1] = timers[(j - 1) + 1] /\ (j - 1) + 1 = j
      BY <1>1, <2>2
    <3> QED BY <3>1
  <2> QED BY <1>6, <2>1, <2>2
<1> QED BY <1>3, <1>4, <1>5, <1>6 DEF Without

-----------------------------------------------------------------------------
(* The inductive invariant *)

\* What the invariant says of ids, by name.
LEMMA Ids ==
  ASSUME IInv
  PROVE  /\ Distinct
         /\ next_timer_id \in Nat \ {0}
         /\ \A i \in 1..Len(timers) :
              /\ timers[i] \in http_timer /\ timers[i].id \in Nat
              /\ timers[i].id < next_timer_id /\ timers[i].id \notin cancelled
              /\ \A j \in 1..Len(running) : timers[i].id # running[j].id
         /\ pc = "callback" =>
              /\ Len(running) = 1 /\ running[1] \in http_timer /\ running[1].id \in Nat
              /\ running[1].id < next_timer_id /\ running[1].id \notin cancelled
         /\ pc # "callback" => running = <<>>
<1>1. timers \in Seq(http_timer) /\ running \in Seq(http_timer) /\ next_timer_id \in Nat \ {0}
  BY DEF IInv, TypeOK
<1>2. /\ \A i \in 1..Len(timers) : timers[i] \in http_timer
      /\ \A i \in 1..Len(running) : running[i] \in http_timer
  BY <1>1
<1>3. \A t \in http_timer : t.id \in Nat
  BY DEF http_timer
<1>4. ASSUME pc = "callback"
      PROVE  Len(running) = 1
  <2>1. running # <<>> /\ Len(running) <= 1
    BY <1>4 DEF IInv, EachOnce
  <2>2. Len(running) \in Nat /\ Len(running) # 0
    BY <1>1, <2>1, EmptySeq
  <2> QED BY <2>1, <2>2
<1> QED BY <1>1, <1>2, <1>3, <1>4 DEF IInv, EachOnce, CancelledForGood, Given, Distinct

\* An interval that is stored is an int that is not negative.
LEMMA IntervalType == \A i \in Ints : Interval(i) \in 0..IntMax
BY IntAssumption DEF Ints, Interval

\* http_set_timer keeps the invariant.
LEMMA SetKeeps ==
  ASSUME IInv, NEW d \in Nat, NEW i \in Ints, NEW cb \in {"user", "metrics"},
         http_set_timer(d, i, cb), metrics' \in Nat,
         UNCHANGED <<pc, running, now, wait, env, cancelled>>
  PROVE  IInv'
<1> DEFINE t == [id |-> next_timer_id, due |-> clock + d, interval |-> Interval(i), cb |-> cb, ready |-> real + d]
<1>1. t \in http_timer /\ t.id = next_timer_id
  BY IntervalType DEF IInv, TypeOK, http_timer, clock
<1>2. timers_add(t) /\ next_timer_id' = next_timer_id + 1
  BY DEF http_set_timer
<1> HIDE DEF t
<1>3. \A j \in 1..Len(timers) : timers[j].id # t.id
  BY <1>1, Ids
<1>4. /\ timers' \in Seq(http_timer) /\ Sorted' /\ Distinct'
      /\ \A j \in 1..Len(timers') : timers'[j] \in {t} \cup {timers[k] : k \in 1..Len(timers)}
  BY <1>1, <1>2, <1>3, AddKeeps, Ids DEF IInv
<1>5. TypeOK'
  BY <1>2, <1>4 DEF IInv, TypeOK, env
<1>6. next_timer_id \in Nat
  BY DEF IInv, TypeOK
<1>7. \A j \in 1..Len(running) : running[j].id \in Nat /\ running[j].id < next_timer_id
  <2>1. \A j \in 1..Len(running) : running[j] \in http_timer
    BY DEF IInv, TypeOK
  <2> QED BY <2>1 DEF IInv, Given, http_timer
<1>8. \A j \in 1..Len(timers') :
        /\ timers'[j].id \in Nat /\ timers'[j].id < next_timer_id + 1
        /\ timers'[j].id \notin cancelled
        /\ \A k \in 1..Len(running) : timers'[j].id # running[k].id
  <2> SUFFICES ASSUME NEW j \in 1..Len(timers')
               PROVE  /\ timers'[j].id \in Nat /\ timers'[j].id < next_timer_id + 1
                      /\ timers'[j].id \notin cancelled
                      /\ \A k \in 1..Len(running) : timers'[j].id # running[k].id
    OBVIOUS
  <2>1. CASE timers'[j] = t
    BY <1>1, <1>6, <1>7, <2>1 DEF IInv, Given
  <2>2. ASSUME NEW k \in 1..Len(timers), timers'[j] = timers[k]
        PROVE  /\ timers'[j].id \in Nat /\ timers'[j].id < next_timer_id + 1
               /\ timers'[j].id \notin cancelled
               /\ \A l \in 1..Len(running) : timers'[j].id # running[l].id
    BY <1>6, <2>2, Ids, SMTT(30)
  <2> QED BY <1>4, <2>1, <2>2
<1>9. EachOnce' /\ CancelledForGood' /\ Given'
  BY <1>2, <1>4, <1>6, <1>7, <1>8 DEF IInv, EachOnce, CancelledForGood, Given, Distinct, TypeOK
<1> QED BY <1>4, <1>5, <1>9 DEF IInv

\* timers_remove, by whomever, keeps the invariant.
LEMMA CancelKeeps ==
  ASSUME IInv, CancelTimer
  PROVE  IInv'
<1>1. PICK id \in 1..(next_timer_id - 1) :
        /\ timers_remove(id)
        /\ cancelled' = IF \E i \in 1..Len(running) : running[i].id = id THEN cancelled
                        ELSE cancelled \cup {id}
  BY DEF CancelTimer
<1>2. UNCHANGED <<pc, next_timer_id, running, now, wait, metrics, real, offset>>
  BY DEF CancelTimer, env
<1>3. id \in Nat /\ id < next_timer_id /\ next_timer_id \in Nat
  BY <1>1 DEF IInv, TypeOK
<1>4. /\ timers' \in Seq(http_timer) /\ Sorted' /\ Distinct'
      /\ \A i \in 1..Len(timers') :
           timers'[i] \in {timers[j] : j \in 1..Len(timers)} /\ timers'[i].id # id
  <2>1. CASE UNCHANGED timers /\ \A i \in 1..Len(timers) : timers[i].id # id
    BY <2>1, Ids DEF IInv, TypeOK, Sorted, Distinct
  <2>2. ASSUME NEW k \in 1..Len(timers), timers[k].id = id, Without(k)
        PROVE  /\ timers' \in Seq(http_timer) /\ Sorted' /\ Distinct'
               /\ \A i \in 1..Len(timers') :
                    timers'[i] \in {timers[j] : j \in 1..Len(timers)} /\ timers'[i].id # id
    BY <2>2, Ids, WithoutKeeps DEF IInv
  <2> QED BY <1>1, <2>1, <2>2, RemovedOne DEF IInv
<1>5. TypeOK'
  BY <1>1, <1>2, <1>3, <1>4 DEF IInv, TypeOK
<1>6. EachOnce'
  <2>1. ASSUME NEW i \in 1..Len(timers')
        PROVE  /\ timers'[i].id < next_timer_id
               /\ \A j \in 1..Len(running) : timers'[i].id # running[j].id
    <3>1. PICK j \in 1..Len(timers) : timers'[i] = timers[j]
      BY <1>4
    <3> QED BY <3>1, Ids
  <2>2. (pc = "callback" <=> running # <<>>) /\ Len(running) <= 1
    BY DEF IInv, EachOnce
  <2> QED BY <1>2, <1>4, <2>1, <2>2 DEF EachOnce, Distinct
<1>7. CancelledForGood'
  <2>1. cancelled' \subseteq cancelled \cup {id}
    BY <1>1
  <2>2. \A i \in 1..Len(timers') : timers'[i].id \notin cancelled'
    BY <1>4, <2>1, Ids
  <2>3. \A i \in 1..Len(running) : running[i].id \notin cancelled'
    BY <1>1 DEF IInv, CancelledForGood
  <2> QED BY <1>2, <2>2, <2>3 DEF CancelledForGood
<1>8. Given'
  BY <1>1, <1>2, <1>3 DEF IInv, Given
<1> QED BY <1>4, <1>5, <1>6, <1>7, <1>8 DEF IInv

\* Taking the head of the list for its callback keeps the invariant.
LEMMA StartKeeps ==
  ASSUME IInv, CallbackStart
  PROVE  IInv'
<1>1. /\ pc = "checking" /\ pc' = "callback" /\ timers # <<>>
      /\ running' = <<timers[1]>> /\ timers' = Popped /\ now' = 0
      /\ UNCHANGED <<next_timer_id, wait, metrics, real, offset, cancelled>>
  BY DEF CallbackStart, HeadIsDue, env
<1>2. 1 \in 1..Len(timers) /\ Without(1)
  BY <1>1, PoppedHead DEF IInv
<1>3. /\ timers' \in Seq(http_timer) /\ Sorted' /\ Distinct'
      /\ \A i \in 1..Len(timers') :
           timers'[i] \in {timers[j] : j \in 1..Len(timers)} /\ timers'[i].id # timers[1].id
  BY <1>2, Ids, WithoutKeeps DEF IInv
<1>4. timers[1] \in http_timer /\ timers[1].id < next_timer_id /\ timers[1].id \notin cancelled
  BY <1>2, Ids
<1>5. running' \in Seq(http_timer) /\ Len(running') = 1 /\ running'[1] = timers[1] /\ running' # <<>>
  BY <1>1, <1>4
<1>6. TypeOK'
  BY <1>1, <1>3, <1>5 DEF IInv, TypeOK
<1>7. \A i \in 1..Len(timers') :
        /\ timers'[i].id < next_timer_id /\ timers'[i].id \notin cancelled
        /\ timers'[i].id # timers[1].id
  BY <1>3, Ids
<1>8. \A j \in 1..Len(running') : running'[j] = timers[1]
  BY <1>5
<1>9. EachOnce'
  BY <1>1, <1>3, <1>5, <1>7, <1>8 DEF EachOnce, Distinct
<1>10. CancelledForGood'
  BY <1>1, <1>4, <1>7, <1>8 DEF CancelledForGood
<1>11. Given'
  BY <1>1, <1>4, <1>8 DEF IInv, Given
<1> QED BY <1>3, <1>6, <1>9, <1>10, <1>11 DEF IInv

\* A periodic timer gets new times only.
LEMMA RearmedIs ==
  ASSUME TypeOK, NEW u \in http_timer
  PROVE  Rearmed(u) \in http_timer /\ Rearmed(u).id = u.id /\ Rearmed(u).interval = u.interval
<1>1. real \in Nat /\ offset \in Nat
  BY DEF TypeOK
<1>2. u.interval \in Nat
  BY IntAssumption DEF http_timer
<1>3. real + offset + u.interval \in Nat /\ real + u.interval \in Nat
  BY <1>1, <1>2
<1> DEFINE v == [u EXCEPT !.due = real + offset + u.interval]
           w == [v EXCEPT !.ready = real + u.interval]
<1>4. v \in http_timer /\ v.id = u.id /\ v.interval = u.interval
  BY <1>3 DEF http_timer
<1>5. w \in http_timer /\ w.id = u.id /\ w.interval = u.interval
  <2> HIDE DEF v
  <2> QED BY <1>3, <1>4 DEF http_timer
<1>6. Rearmed(u) = w
  BY Zenon DEF Rearmed, clock
<1> HIDE DEF w
<1> QED BY <1>5, <1>6, Zenon

\* It may run again when it is due, if the wall clock is right.
LEMMA RearmedOnTime ==
  ASSUME TypeOK, offset = 0, NEW u \in http_timer
  PROVE  Rearmed(u).ready <= Rearmed(u).due /\ Rearmed(u).due <= real + IntMax
<1>1. u.interval \in 0..IntMax /\ IntMax \in Nat /\ real \in Nat
  BY IntAssumption DEF TypeOK, http_timer
<1>2. Rearmed(u).due = real + u.interval /\ Rearmed(u).ready = real + u.interval
  BY <1>1 DEF Rearmed, clock, http_timer
<1> QED BY <1>1, <1>2

\* Putting a periodic timer back keeps the invariant.
LEMMA ReturnKeeps ==
  ASSUME IInv, CallbackReturn
  PROVE  IInv'
<1>1. /\ pc = "callback" /\ pc' = "reading" /\ running' = <<>>
      /\ UNCHANGED <<next_timer_id, now, wait, metrics, real, offset, cancelled>>
  BY DEF CallbackReturn, env
<1> DEFINE t == Rearmed(running[1])
<1>2. 1 \in 1..Len(running) /\ running[1] \in http_timer
  <2>1. Len(running) = 1 /\ running[1] \in http_timer
    BY <1>1, Ids
  <2> QED BY <2>1
<1>3. t \in http_timer /\ t.id = running[1].id
  BY <1>2, RearmedIs DEF IInv
<1>4. \A i \in 1..Len(timers) : timers[i].id # t.id
  BY <1>2, <1>3, Ids
<1>5. t.id < next_timer_id /\ t.id \notin cancelled
  BY <1>1, <1>3, Ids
<1> HIDE DEF t
<1>6. /\ timers' \in Seq(http_timer) /\ Sorted' /\ Distinct'
      /\ \A i \in 1..Len(timers') : timers'[i] \in {t} \cup {timers[k] : k \in 1..Len(timers)}
  <2>1. CASE UNCHANGED timers
    BY <2>1, Ids DEF IInv, TypeOK, Sorted, Distinct
  <2>2. CASE timers_add(t)
    BY <1>3, <1>4, <2>2, Ids, AddKeeps DEF IInv
  <2> QED BY <2>1, <2>2 DEF CallbackReturn, t
<1>7. TypeOK'
  BY <1>1, <1>6, EmptySeq DEF IInv, TypeOK
<1>8. \A i \in 1..Len(timers') : timers'[i].id < next_timer_id /\ timers'[i].id \notin cancelled
  BY <1>5, <1>6, Ids
<1>9. Len(running') = 0
  BY <1>1
<1>10. EachOnce' /\ CancelledForGood' /\ Given'
  BY <1>1, <1>6, <1>8, <1>9 DEF IInv, EachOnce, CancelledForGood, Given, Distinct
<1> QED BY <1>6, <1>7, <1>10 DEF IInv

\* Steps that leave the list, its ids and the callback alone.
LEMMA OthersKeep ==
  ASSUME IInv, UNCHANGED <<timers, next_timer_id, running, cancelled>>, TypeOK',
         pc' = "callback" <=> pc = "callback"
  PROVE  IInv'
BY DEF IInv, Sorted, EachOnce, CancelledForGood, Given

-----------------------------------------------------------------------------
(* The invariants *)

\* What an int is converted to is an int, and itself if it was one.
LEMMA Converted == \A x \in Int : ToInt(x) \in Int /\ (x \in 0..IntMax => ToInt(x) = x)
<1> SUFFICES ASSUME NEW x \in Int
             PROVE  ToInt(x) \in Int /\ (x \in 0..IntMax => ToInt(x) = x)
  OBVIOUS
<1>1. PICK k \in Nat \ {0}, m \in Nat \ {0} : k = IntMax /\ m = 2 * (k + 1)
  BY IntAssumption
<1>2. x % m \in Int /\ (x \in 0..k => x % m = x)
  BY <1>1
<1>3. PICK y \in Int : y = x % m
  BY <1>2
<1>4. ToInt(x) = IF y <= k THEN y ELSE y - m
  BY <1>1, <1>3 DEF ToInt
<1> QED BY <1>1, <1>2, <1>3, <1>4

\* A timeout is a number.
LEMMA TimeoutType ==
  ASSUME TypeOK
  PROVE  compute_poll_timeout \in Int
<1>1. real + offset \in Nat /\ Default \in Int
  BY TimesAssumption, IntAssumption DEF TypeOK
<1>2. ASSUME timers # <<>>
      PROVE  ToInt(timers[1].due - clock) \in Int
  <2>1. 1 \in 1..Len(timers)
    BY <1>2, EmptySeq, DueTypes
  <2>2. timers[1].due - clock \in Int
    BY <1>1, <2>1, DueTypes DEF clock
  <2> QED BY <2>2, Converted
<1> QED BY <1>1, <1>2 DEF compute_poll_timeout

\* Every step keeps the invariant.
LEMMA Inductive ==
  ASSUME IInv, [Next]_vars
  PROVE  IInv'
<1> USE DEF env
<1>0. /\ TypeOK
      /\ clock \in Nat
  BY DEF IInv, TypeOK, clock
<1>1. CASE SetTimer
  <2>1. PICK d \in Delays, i \in Intervals : http_set_timer(d, i, "user")
    BY <1>1 DEF SetTimer
  <2>2. d \in Nat /\ i \in Ints /\ metrics' \in Nat
    BY <1>0, <1>1, TimesAssumption DEF SetTimer, TypeOK
  <2> QED BY <1>1, <2>1, <2>2, SetKeeps DEF SetTimer
<1>2. CASE CancelTimer
  BY <1>2, CancelKeeps
<1>3. CASE SetMetricsCallback
  <2>1. PICK i \in Intervals :
          \/ metrics' \in Nat /\ UNCHANGED <<timers, next_timer_id>>
          \/ i \in Ints \cap Nat /\ metrics' \in Nat /\ http_set_timer(i, i, "metrics")
    BY <1>3, TimesAssumption, IntAssumption DEF SetMetricsCallback, Ints
  <2>2. UNCHANGED <<pc, running, now, wait, env, cancelled>>
    BY <1>3 DEF SetMetricsCallback
  <2>3. CASE metrics' \in Nat /\ UNCHANGED <<timers, next_timer_id>>
    BY <1>0, <2>2, <2>3, OthersKeep DEF TypeOK
  <2>4. CASE i \in Ints \cap Nat /\ metrics' \in Nat /\ http_set_timer(i, i, "metrics")
    BY <2>2, <2>4, SetKeeps
  <2> QED BY <2>1, <2>3, <2>4
<1>4. CASE HttpFree
  <2>1. timers' = <<>> /\ timers' \in Seq(http_timer) /\ Len(timers') = 0
    BY <1>4 DEF HttpFree
  <2> QED BY <1>0, <1>4, <2>1 DEF HttpFree, IInv, TypeOK, Sorted, EachOnce, CancelledForGood, Given
<1>5. CASE PollStart
  <2>1. wait' \in Nat \cup {-1}
    BY <1>5, TimeoutType DEF IInv, PollStart
  <2> QED BY <1>0, <1>5, <2>1, OthersKeep DEF PollStart, TypeOK
<1>6. CASE PollTimeout \/ PollEvent \/ PollFail
  <2>1. CASE LeavePoll("handlers")
    BY <1>0, <2>1, OthersKeep DEF LeavePoll, TypeOK
  <2>2. CASE LeavePoll("idle")
    BY <1>0, <2>2, OthersKeep DEF LeavePoll, TypeOK
  <2> QED BY <1>6, <2>1, <2>2 DEF PollTimeout, PollEvent, PollFail
<1>7. CASE CheckBegin \/ ReadClock \/ CheckEnd
  <2>1. CASE CheckBegin
    BY <1>0, <2>1, OthersKeep DEF CheckBegin, TypeOK
  <2>2. CASE ReadClock
    BY <1>0, <2>2, OthersKeep DEF ReadClock, TypeOK
  <2>3. CASE CheckEnd
    BY <1>0, <2>3, OthersKeep DEF CheckEnd, TypeOK
  <2> QED BY <1>7, <2>1, <2>2, <2>3
<1>8. CASE CallbackStart
  BY <1>8, StartKeeps
<1>9. CASE CallbackReturn
  BY <1>9, ReturnKeeps
<1>10. CASE Tick
  BY <1>0, <1>10, OthersKeep DEF Tick, TypeOK
<1>11. CASE ClockSet
  BY <1>0, <1>11, OthersKeep, TimesAssumption DEF ClockSet, TypeOK
<1>12. CASE UNCHANGED vars
  BY <1>0, <1>12, OthersKeep DEF vars, TypeOK
<1> QED BY <1>1, <1>2, <1>3, <1>4, <1>5, <1>6, <1>7, <1>8, <1>9, <1>10, <1>11, <1>12
        DEF Next, Loop, Embedder

\* The invariant holds.
LEMMA Invariant == Spec => []IInv
<1>1. Init => IInv
  <2> SUFFICES ASSUME Init
               PROVE  IInv
    OBVIOUS
  <2>1. timers = <<>> /\ running = <<>> /\ Len(timers) = 0 /\ Len(running) = 0
        /\ timers \in Seq(http_timer) /\ running \in Seq(http_timer)
    BY DEF Init
  <2> QED BY <2>1 DEF Init, IInv, TypeOK, Sorted, EachOnce, CancelledForGood, Given
<1> QED BY <1>1, Inductive, PTL DEF Spec

\* Every variable keeps its type.
THEOREM TypeCorrect == Spec => []TypeOK
BY Invariant, PTL DEF IInv

\* The list stays sorted, for any timers and clock.
THEOREM Order == Spec => []Sorted
BY Invariant, PTL DEF IInv

\* An id names one timer, which is in one place.
THEOREM Once == Spec => []EachOnce
BY Invariant, PTL DEF IInv

\* Both together: the list is what its functions take it for.
THEOREM Sound == Spec => []ListIsSound
BY Order, Once, PTL DEF ListIsSound

\* A cancelled timer never comes back, wherever it was cancelled from.
THEOREM Cancelled == Spec => []CancelledForGood
BY Invariant, PTL DEF IInv

-----------------------------------------------------------------------------
(* The list implements the set of pending timers *)

Pending == {Job(timers[i]) : i \in 1..Len(timers)}
Firing == {Job(running[i]) : i \in 1..Len(running)}

\* One more timer in the list is one more in the set.
LEMMA PendingAdded ==
  ASSUME TypeOK, Sorted, Distinct, NEW t \in http_timer, timers_add(t),
         \A i \in 1..Len(timers) : timers[i].id # t.id
  PROVE  Pending' = Pending \cup {Job(t)}
<1>1. /\ \A i \in 1..Len(timers') : timers'[i] \in {t} \cup {timers[j] : j \in 1..Len(timers)}
      /\ \A u \in {t} \cup {timers[j] : j \in 1..Len(timers)} :
           \E i \in 1..Len(timers') : timers'[i] = u
  BY AddKeeps
<1>2. Pending' = {Job(timers'[i]) : i \in 1..Len(timers')}
  BY DEF Pending, Job
<1>3. ASSUME NEW x \in Pending'
      PROVE  x \in Pending \cup {Job(t)}
  <2>1. PICK i \in 1..Len(timers') : x = Job(timers'[i])
    BY <1>2, <1>3
  <2> QED BY <1>1, <2>1 DEF Pending
<1>4. ASSUME NEW x \in Pending \cup {Job(t)}
      PROVE  x \in Pending'
  <2>1. PICK u \in {t} \cup {timers[j] : j \in 1..Len(timers)} : x = Job(u)
    BY <1>4 DEF Pending
  <2>2. PICK i \in 1..Len(timers') : timers'[i] = u
    BY <1>1
  <2> QED BY <1>2, <2>1, <2>2
<1> QED BY <1>3, <1>4

\* One timer less in the list is one less in the set.
LEMMA PendingWithout ==
  ASSUME TypeOK, Sorted, Distinct, NEW k \in 1..Len(timers), Without(k)
  PROVE  Pending' = Pending \ {Job(timers[k])}
<1>1. /\ \A i \in 1..Len(timers') :
           /\ timers'[i] \in {timers[j] : j \in 1..Len(timers)}
           /\ timers'[i].id # timers[k].id
      /\ \A j \in 1..Len(timers) : j = k \/ \E i \in 1..Len(timers') : timers'[i] = timers[j]
  BY WithoutKeeps
<1>2. Pending' = {Job(timers'[i]) : i \in 1..Len(timers')}
  BY DEF Pending, Job
<1>3. ASSUME NEW x \in Pending'
      PROVE  x \in Pending \ {Job(timers[k])}
  <2>1. PICK i \in 1..Len(timers') : x = Job(timers'[i])
    BY <1>2, <1>3
  <2>2. x # Job(timers[k])
    BY <1>1, <2>1 DEF Job
  <2> QED BY <1>1, <2>1, <2>2 DEF Pending
<1>4. ASSUME NEW x \in Pending, x # Job(timers[k])
      PROVE  x \in Pending'
  <2>1. PICK j \in 1..Len(timers) : x = Job(timers[j])
    BY DEF Pending
  <2>2. PICK i \in 1..Len(timers') : timers'[i] = timers[j]
    BY <1>1, <1>4, <2>1
  <2> QED BY <1>2, <2>1, <2>2
<1> QED BY <1>3, <1>4

\* A timer that is set is armed.
LEMMA SetArms ==
  ASSUME IInv, NEW d \in Nat, NEW i \in Ints, NEW cb \in {"user", "metrics"},
         http_set_timer(d, i, cb), UNCHANGED running
  PROVE  Promise!Next
<1> DEFINE t == [id |-> next_timer_id, due |-> clock + d, interval |-> Interval(i), cb |-> cb, ready |-> real + d]
<1>1. t \in http_timer /\ t.id = next_timer_id
  BY IntervalType DEF IInv, TypeOK, http_timer, clock
<1>2. timers_add(t)
  BY DEF http_set_timer
<1> HIDE DEF t
<1>3. \A j \in 1..Len(timers) : timers[j].id # t.id
  BY <1>1, Ids
<1>4. Pending' = Pending \cup {Job(t)}
  BY <1>1, <1>2, <1>3, Ids, PendingAdded DEF IInv
<1>5. \A j \in 1..Len(running) : running[j].id # t.id
  BY <1>1, Ids
<1>6. \A u \in Pending \cup Firing : u.id # Job(t).id
  BY <1>3, <1>5 DEF Pending, Firing, Job
<1>7. Firing' = Firing
  BY DEF Firing
<1>8. Promise!Arm(Job(t)) /\ Job(t) \in Pending'
  BY <1>4, <1>6, <1>7 DEF Promise!Arm, Pending, Firing
<1> QED BY <1>8 DEF Promise!Next, Pending

\* Every step is one of the promised ones, or changes no timer.
LEMMA Simulates ==
  ASSUME IInv, [Next]_vars
  PROVE  [Promise!Next]_(Promise!vars)
<1>1. CASE SetTimer
  <2>1. PICK d \in Delays, i \in Intervals : http_set_timer(d, i, "user")
    BY <1>1 DEF SetTimer
  <2> QED BY <1>1, <2>1, SetArms, TimesAssumption DEF SetTimer
<1>2. CASE CancelTimer
  <2>1. PICK id \in 1..(next_timer_id - 1) : timers_remove(id) /\ UNCHANGED running
    BY <1>2 DEF CancelTimer
  <2>2. CASE UNCHANGED timers
    BY <2>1, <2>2 DEF Promise!vars, Job
  <2>3. ASSUME NEW k \in 1..Len(timers), Without(k)
        PROVE  Promise!Next
    <3>1. Pending' = Pending \ {Job(timers[k])} /\ Job(timers[k]) \in Pending /\ Firing' = Firing
      BY <2>1, <2>3, Ids, PendingWithout DEF IInv, Firing, Pending
    <3>2. Promise!Cancel(Job(timers[k]))
      BY <3>1 DEF Promise!Cancel, Pending, Firing
    <3> QED BY <3>1, <3>2 DEF Promise!Next, Pending
  <2> QED BY <2>1, <2>2, <2>3, RemovedOne DEF IInv
<1>3. CASE SetMetricsCallback
  <2>1. PICK i \in Intervals :
          UNCHANGED timers \/ (i \in Ints \cap Nat /\ http_set_timer(i, i, "metrics"))
    BY <1>3, TimesAssumption, IntAssumption DEF SetMetricsCallback, Ints
  <2>2. UNCHANGED running
    BY <1>3 DEF SetMetricsCallback
  <2>3. CASE UNCHANGED timers
    BY <2>2, <2>3 DEF Promise!vars, Job
  <2>4. CASE i \in Ints \cap Nat /\ http_set_timer(i, i, "metrics")
    BY <2>2, <2>4, SetArms
  <2> QED BY <2>1, <2>3, <2>4
<1>4. CASE HttpFree
  <2>1. pc = "idle" /\ timers' = <<>> /\ UNCHANGED running
    BY <1>4 DEF HttpFree
  <2>2. running = <<>> /\ Len(running) = 0 /\ Len(timers') = 0
    BY <2>1, Ids
  <2>3. Pending' = {} /\ Firing = {} /\ Firing' = {}
    BY <2>1, <2>2 DEF Pending, Firing
  <2>4. Promise!Drop
    BY <2>3 DEF Promise!Drop, Pending, Firing
  <2> QED BY <2>4 DEF Promise!Next
<1>5. CASE CallbackStart
  <2>1. /\ pc = "checking" /\ timers # <<>> /\ timers' = Popped /\ running' = <<timers[1]>>
    BY <1>5 DEF CallbackStart, HeadIsDue
  <2>2. 1 \in 1..Len(timers) /\ Without(1)
    BY <2>1, PoppedHead DEF IInv
  <2>3. Pending' = Pending \ {Job(timers[1])} /\ Job(timers[1]) \in Pending
    BY <2>2, Ids, PendingWithout DEF IInv, Pending
  <2>4. running = <<>> /\ Len(running) = 0 /\ Len(running') = 1 /\ running'[1] = timers[1]
    BY <2>1, Ids
  <2>5. Firing = {} /\ Firing' = {Job(timers[1])}
    BY <2>4 DEF Firing, Job
  <2>6. ASSUME NEW u \in Pending
        PROVE  Job(timers[1]).due <= u.due
    <3>1. PICK j \in 1..Len(timers) : u = Job(timers[j])
      BY DEF Pending
    <3>2. timers[1].due <= timers[j].due
      BY <2>2, DueTypes DEF IInv, Sorted
    <3> QED BY <3>1, <3>2 DEF Job
  <2>7. Promise!Fire(Job(timers[1]))
    BY <2>3, <2>5, <2>6 DEF Promise!Fire, Pending, Firing
  <2> QED BY <2>3, <2>7 DEF Promise!Next, Pending
<1>6. CASE CallbackReturn
  <2>1. /\ pc = "callback" /\ running' = <<>>
        /\ IF running[1].interval > 0 THEN timers_add(Rearmed(running[1])) ELSE UNCHANGED timers
    BY <1>6 DEF CallbackReturn
  <2> DEFINE o == running[1]
             t == Rearmed(o)
  <2>2. Len(running) = 1 /\ Len(running') = 0 /\ o \in http_timer
    BY <2>1, Ids
  <2>3. Firing = {Job(o)} /\ Firing' = {}
    BY <2>2 DEF Firing, Job
  <2>4. t \in http_timer /\ t.id = o.id /\ t.interval = o.interval
    BY <2>2, RearmedIs DEF IInv
  <2>5. o.interval \in Nat
    BY <2>2 DEF http_timer
  <2>6. \A i \in 1..Len(timers) : timers[i].id # t.id
    BY <2>2, <2>4, Ids
  <2> HIDE DEF t, o
  <2>7. CASE o.interval > 0
    <3>1. Pending' = Pending \cup {Job(t)}
      BY <2>1, <2>4, <2>6, <2>7, Ids, PendingAdded DEF IInv, o, t
    <3>2. Job(t).id = Job(o).id /\ Job(t).interval = Job(o).interval /\ Job(o).interval > 0
      BY <2>4, <2>7 DEF Job
    <3>3. Promise!Again(Job(o))
      BY <2>3, <3>1, <3>2 DEF Promise!Again, Pending, Firing
    <3> QED BY <2>3, <3>3 DEF Promise!Next, Firing
  <2>8. CASE o.interval = 0
    <3>1. Pending' = Pending
      BY <2>1, <2>8 DEF Pending, Job, o
    <3>2. Promise!Gone(Job(o))
      BY <2>3, <2>8, <3>1 DEF Promise!Gone, Pending, Firing, Job
    <3> QED BY <2>3, <3>2 DEF Promise!Next, Firing
  <2> QED BY <2>5, <2>7, <2>8
<1>7. CASE UNCHANGED <<timers, running>>
  BY <1>7 DEF Promise!vars, Job
<1>8. CASE PollStart \/ PollTimeout \/ PollEvent \/ PollFail \/ CheckBegin \/ ReadClock \/ CheckEnd
           \/ Tick \/ ClockSet \/ UNCHANGED vars
  BY <1>7, <1>8 DEF PollStart, PollTimeout, PollEvent, PollFail, LeavePoll, CheckBegin, ReadClock,
                   CheckEnd, Tick, ClockSet, vars
<1> QED BY <1>1, <1>2, <1>3, <1>4, <1>5, <1>6, <1>8 DEF Next, Loop, Embedder

\* The list, with timers_add, timers_remove and the head taken by timers_check,
\* implements the set of pending timers of Schedule.
THEOREM Implements == Spec => ImplementsSchedule
<1>1. Init => Promise!Init
  <2> SUFFICES ASSUME Init
               PROVE  Promise!Init
    OBVIOUS
  <2>1. Len(timers) = 0 /\ Len(running) = 0
    BY DEF Init
  <2> QED BY <2>1 DEF Promise!Init
<1> QED BY <1>1, Simulates, Invariant, PTL DEF Spec, ImplementsSchedule, Promise!Spec

-----------------------------------------------------------------------------
(* Timers are on time, if nobody sets the wall clock *)

\* A callback may run when its timer is due, and no timer is due further ahead
\* of the time r than an int reaches.
InTime(t, r) == t.ready <= t.due /\ t.due <= r + IntMax

\* The wall clock is the real one; every timer is in time; now was read in the
\* past; poll wakes up in time.
OnTime ==
  /\ offset = 0
  /\ \A i \in 1..Len(timers) : InTime(timers[i], real)
  /\ now <= real
  /\ PollWakesInTime

\* The clauses about the list, after timers_add.
LEMMA AddOnTime ==
  ASSUME IInv, OnTime, NEW t \in http_timer, timers_add(t), InTime(t, real),
         \A i \in 1..Len(timers) : timers[i].id # t.id
  PROVE  \A i \in 1..Len(timers') : InTime(timers'[i], real)
<1>1. \A i \in 1..Len(timers') : timers'[i] \in {t} \cup {timers[j] : j \in 1..Len(timers)}
  BY Ids, AddKeeps DEF IInv
<1> QED BY <1>1 DEF OnTime

\* http_set_timer keeps timers on time.
LEMMA SetOnTime ==
  ASSUME IInv, OnTime, NEW d \in 0..IntMax, NEW i \in Ints, NEW cb \in {"user", "metrics"},
         http_set_timer(d, i, cb)
  PROVE  \A j \in 1..Len(timers') : InTime(timers'[j], real)
<1> DEFINE t == [id |-> next_timer_id, due |-> clock + d, interval |-> Interval(i), cb |-> cb, ready |-> real + d]
<1>1. t \in http_timer /\ t.id = next_timer_id /\ InTime(t, real)
  <2>1. real \in Nat /\ offset = 0 /\ IntMax \in Nat /\ next_timer_id \in Nat \ {0}
    BY IntAssumption DEF IInv, TypeOK, OnTime
  <2>2. Interval(i) \in 0..IntMax
    BY IntervalType
  <2> QED BY <2>1, <2>2 DEF http_timer, clock, InTime
<1>2. timers_add(t)
  BY DEF http_set_timer
<1> HIDE DEF t
<1>3. \A j \in 1..Len(timers) : timers[j].id # t.id
  BY <1>1, Ids
<1> QED BY <1>1, <1>2, <1>3, AddOnTime

\* Every step keeps timers on time.
LEMMA OnTimeKept ==
  ASSUME Offsets = {0}, IInv, OnTime, [Next]_vars
  PROVE  OnTime'
<1>0. /\ real \in Nat /\ wait \in Nat \cup {-1} /\ now \in Nat
      /\ \A i \in 1..Len(timers) : timers[i].due \in Nat
  BY DueTypes DEF IInv, TypeOK
<1>1. CASE SetTimer
  <2>1. PICK d \in Delays, i \in Intervals : http_set_timer(d, i, "user")
    BY <1>1 DEF SetTimer
  <2>2. \A j \in 1..Len(timers') : InTime(timers'[j], real)
    BY <2>1, SetOnTime, TimesAssumption
  <2>3. pc' # "polling" /\ UNCHANGED <<now, real, offset>>
    BY <1>1 DEF SetTimer, EmbedderRuns, env
  <2> QED BY <2>2, <2>3 DEF OnTime, PollWakesInTime
<1>2. CASE CancelTimer
  <2>1. PICK id \in 1..(next_timer_id - 1) : timers_remove(id)
    BY <1>2 DEF CancelTimer
  <2>2. \A i \in 1..Len(timers') : InTime(timers'[i], real)
    <3>1. CASE UNCHANGED timers
      BY <3>1 DEF OnTime
    <3>2. ASSUME NEW k \in 1..Len(timers), Without(k)
          PROVE  \A i \in 1..Len(timers') : InTime(timers'[i], real)
      <4>1. TypeOK /\ Sorted /\ Distinct
        BY Ids DEF IInv
      <4>2. \A i \in 1..Len(timers') : timers'[i] \in {timers[j] : j \in 1..Len(timers)}
        BY <3>2, <4>1, WithoutKeeps
      <4>3. \A j \in 1..Len(timers) : InTime(timers[j], real)
        BY DEF OnTime
      <4>4. TAKE i \in 1..Len(timers')
      <4>5. PICK j \in 1..Len(timers) : timers'[i] = timers[j]
        BY <4>2
      <4> QED BY <4>3, <4>5
    <3> QED BY <2>1, <3>1, <3>2, RemovedOne DEF IInv
  <2>3. pc' # "polling" /\ UNCHANGED <<now, real, offset>>
    BY <1>2 DEF CancelTimer, EmbedderRuns, env
  <2> QED BY <2>2, <2>3 DEF OnTime, PollWakesInTime
<1>3. CASE SetMetricsCallback
  <2>1. PICK i \in Intervals :
          UNCHANGED timers \/ (i \in Ints \cap Nat /\ http_set_timer(i, i, "metrics"))
    BY <1>3, TimesAssumption, IntAssumption DEF SetMetricsCallback, Ints
  <2>2. \A j \in 1..Len(timers') : InTime(timers'[j], real)
    <3>1. CASE UNCHANGED timers
      BY <3>1 DEF OnTime
    <3>2. CASE i \in Ints \cap Nat /\ http_set_timer(i, i, "metrics")
      <4>1. i \in Ints /\ i \in 0..IntMax
        BY <3>2, IntAssumption DEF Ints
      <4> QED BY <3>2, <4>1, SetOnTime
    <3> QED BY <2>1, <3>1, <3>2
  <2>3. pc' # "polling" /\ UNCHANGED <<now, real, offset>>
    BY <1>3 DEF SetMetricsCallback, EmbedderRuns, env
  <2> QED BY <2>2, <2>3 DEF OnTime, PollWakesInTime
<1>4. CASE HttpFree
  <2>1. Len(timers') = 0 /\ pc' # "polling" /\ UNCHANGED <<now, real, offset>>
    BY <1>4 DEF HttpFree, env
  <2> QED BY <2>1 DEF OnTime, PollWakesInTime
<1>5. CASE PollStart
  <2>1. /\ wait' = IF compute_poll_timeout < 0 THEN -1 ELSE compute_poll_timeout
        /\ UNCHANGED <<timers, now, real, offset>>
    BY <1>5 DEF PollStart, env
  <2>2. ASSUME NEW i \in 1..Len(timers), wait' # 0
        PROVE  wait' > 0 /\ real + wait' <= timers[i].due
    <3>1. timers # <<>> /\ 1 \in 1..Len(timers) /\ timers[1].due <= timers[i].due
      BY <1>0, DueTypes DEF IInv, Sorted
    <3>2. PICK w \in Int : w = timers[1].due - real
      BY <1>0, <3>1
    <3>3. timers[1].due <= real + IntMax /\ IntMax \in Nat
      BY <3>1, IntAssumption DEF OnTime, InTime
    <3>4. w >= 0 => ToInt(w) = w
      <4>1. w >= 0 => w \in 0..IntMax
        BY <1>0, <3>1, <3>2, <3>3
      <4> QED BY <4>1, Converted
    <3>5. clock = real
      BY <1>0 DEF clock, OnTime
    <3>6. wait' = w /\ w > 0
      BY <1>0, <2>1, <2>2, <3>1, <3>2, <3>4, <3>5 DEF compute_poll_timeout
    <3> QED BY <1>0, <3>1, <3>2, <3>6
  <2>3. PollWakesInTime'
    <3>1. clock' = real /\ timers' = timers
      BY <1>0, <2>1 DEF clock, OnTime
    <3> QED BY <2>2, <3>1 DEF PollWakesInTime
  <2> QED BY <2>1, <2>3 DEF OnTime
<1>6. CASE PollTimeout \/ PollEvent \/ PollFail
  <2>1. pc' # "polling" /\ UNCHANGED <<timers, now, real, offset>>
    BY <1>6 DEF PollTimeout, PollEvent, PollFail, LeavePoll, env
  <2> QED BY <2>1 DEF OnTime, PollWakesInTime
<1>7. CASE CheckBegin \/ ReadClock \/ CheckEnd
  <2>1. pc' # "polling" /\ now' \in {now, real, 0} /\ UNCHANGED <<timers, real, offset>>
    BY <1>7, <1>0 DEF CheckBegin, ReadClock, CheckEnd, env, clock, OnTime
  <2> QED BY <1>0, <2>1 DEF OnTime, PollWakesInTime
<1>8. CASE CallbackStart
  <2>1. /\ pc' # "polling" /\ now' = 0 /\ UNCHANGED <<real, offset>>
        /\ timers # <<>> /\ timers' = Popped
    BY <1>8 DEF CallbackStart, HeadIsDue, env
  <2>2. \A i \in 1..Len(timers') : InTime(timers'[i], real)
    <3>1. 1 \in 1..Len(timers) /\ Without(1)
      BY <2>1, PoppedHead DEF IInv
    <3>2. \A i \in 1..Len(timers') : timers'[i] \in {timers[j] : j \in 1..Len(timers)}
      BY <3>1, Ids, WithoutKeeps DEF IInv
    <3> QED BY <3>2 DEF OnTime
  <2> QED BY <1>0, <2>1, <2>2 DEF OnTime, PollWakesInTime
<1>9. CASE CallbackReturn
  <2>1. /\ pc = "callback" /\ pc' # "polling" /\ UNCHANGED <<now, real, offset>>
        /\ timers_add(Rearmed(running[1])) \/ UNCHANGED timers
    BY <1>9 DEF CallbackReturn, env
  <2>2. Len(running) = 1 /\ running[1] \in http_timer
    BY <2>1, Ids
  <2>3. /\ Rearmed(running[1]) \in http_timer /\ Rearmed(running[1]).id = running[1].id
        /\ InTime(Rearmed(running[1]), real)
    BY <2>2, RearmedIs, RearmedOnTime DEF IInv, OnTime, InTime
  <2>4. \A i \in 1..Len(timers) : timers[i].id # Rearmed(running[1]).id
    BY <2>2, <2>3, Ids
  <2>5. \A i \in 1..Len(timers') : InTime(timers'[i], real)
    <3>1. CASE UNCHANGED timers
      BY <3>1 DEF OnTime
    <3>2. CASE timers_add(Rearmed(running[1]))
      BY <2>3, <2>4, <3>2, AddOnTime
    <3> QED BY <2>1, <3>1, <3>2
  <2> QED BY <2>1, <2>5 DEF OnTime, PollWakesInTime
<1>10. CASE Tick
  <2>1. /\ real' = real + 1 /\ wait' = (IF wait > 0 THEN wait - 1 ELSE wait)
        /\ UNCHANGED <<pc, timers, now, offset>>
    BY <1>10 DEF Tick
  <2>2. \A i \in 1..Len(timers') : InTime(timers'[i], real')
    BY <1>0, <2>1, IntAssumption DEF OnTime, InTime
  <2>3. ASSUME pc' = "polling", NEW i \in 1..Len(timers')
        PROVE  wait' = 0 \/ (wait' > 0 /\ clock' + wait' <= timers'[i].due)
    <3>1. /\ timers' = timers /\ i \in 1..Len(timers)
          /\ wait = 0 \/ (wait > 0 /\ clock + wait <= timers[i].due)
      BY <2>1, <2>3 DEF OnTime, PollWakesInTime
    <3>2. clock = real /\ clock' = real + 1 /\ timers[i].due \in Nat
      BY <1>0, <2>1, <3>1 DEF OnTime, clock
    <3>3. CASE wait = 0
      BY <2>1, <3>3
    <3>4. CASE wait > 0 /\ clock + wait <= timers[i].due
      <4>1. wait' = wait - 1 /\ wait \in Nat
        BY <1>0, <2>1, <3>4
      <4> QED BY <1>0, <3>1, <3>2, <3>4, <4>1
    <3> QED BY <3>1, <3>3, <3>4
  <2> QED BY <1>0, <2>1, <2>2, <2>3 DEF OnTime, PollWakesInTime
<1>11. CASE ClockSet
  BY <1>11 DEF ClockSet, OnTime
<1>12. CASE UNCHANGED vars
  BY <1>12 DEF vars, OnTime, PollWakesInTime, clock
<1> QED BY <1>1, <1>2, <1>3, <1>4, <1>5, <1>6, <1>7, <1>8, <1>9, <1>10, <1>11, <1>12
        DEF Next, Loop, Embedder

\* While nobody sets the wall clock, timers are on time.
LEMMA AlwaysOnTime ==
  ASSUME Offsets = {0}
  PROVE  Spec => []OnTime
<1>1. Init => OnTime
  BY DEF Init, OnTime, PollWakesInTime
<1>2. IInv /\ OnTime /\ [Next]_vars => OnTime'
  BY OnTimeKept
<1> QED BY <1>1, <1>2, Invariant, PTL DEF Spec

\* While nobody sets the wall clock, poll never sleeps past a due time.
THEOREM WakesInTime ==
  ASSUME Offsets = {0}
  PROVE  Spec => []PollWakesInTime
BY AlwaysOnTime, PTL DEF OnTime

\* While nobody sets the wall clock, no callback starts before its delay or its
\* interval is over.
THEOREM NotEarly ==
  ASSUME Offsets = {0}
  PROVE  Spec => NeverEarly
<1>1. IInv /\ OnTime /\ [Next]_vars =>
        [pc # "callback" /\ pc' = "callback" => real >= running'[1].ready]_vars
  <2> SUFFICES ASSUME IInv, OnTime, Next, pc # "callback", pc' = "callback"
               PROVE  real >= running'[1].ready
    OBVIOUS
  <2>1. CallbackStart
    BY DEF Next, Loop, Embedder, SetTimer, CancelTimer, SetMetricsCallback, HttpFree, PollStart,
           PollTimeout, PollEvent, PollFail, LeavePoll, CheckBegin, ReadClock, CallbackStart,
           CallbackReturn, CheckEnd, Tick, ClockSet
  <2>2. timers # <<>> /\ timers[1].due <= now /\ running' = <<timers[1]>>
    BY <2>1 DEF CallbackStart, HeadIsDue
  <2>3. 1 \in 1..Len(timers) /\ timers[1] \in http_timer /\ now \in Nat /\ real \in Nat
    BY <2>2, Ids, EmptySeq DEF IInv, TypeOK
  <2>4. timers[1].ready \in Nat /\ timers[1].due \in Nat
    BY <2>3 DEF http_timer
  <2>5. timers[1].ready <= timers[1].due /\ now <= real /\ running'[1] = timers[1]
    BY <2>2, <2>3 DEF OnTime, InTime
  <2> QED BY <2>2, <2>3, <2>4, <2>5
<1> QED BY <1>1, Invariant, AlwaysOnTime, PTL DEF Spec, NeverEarly
=============================================================================

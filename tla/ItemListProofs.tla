--------------------------- MODULE ItemListProofs ---------------------------
(***************************************************************************)
(* What the functions of ItemLists do to lists of any length on heaps of   *)
(* any size: where the children of items are properly linked, each call    *)
(* changes one sequence of children as InsertAt, Append, RemoveAt or       *)
(* ReplaceAt would, and no other.                                          *)
(***************************************************************************)
EXTENDS ItemLists, SequencesExt, Induction, SequenceTheorems, FiniteSetTheorems

-----------------------------------------------------------------------------
(* Assignments to pointers *)

(* n is h but for pointers. *)
SameItems(h, n) ==
  /\ Heap(n) /\ DOMAIN n = DOMAIN h
  /\ \A x \in DOMAIN h :
       DOMAIN n[x] = DOMAIN h[x] /\ \A f \in DOMAIN h[x] \ Pointers : n[x][f] = h[x][f]

SetNext(h, x, v) == [h EXCEPT ![x].next = v]
SetPrev(h, x, v) == [h EXCEPT ![x].prev = v]
SetChild(h, x, v) == [h EXCEPT ![x].child = v]
With(f, x, v) == [f EXCEPT ![x] = v]

LEMMA Fields ==
  \A h : \A y \in DOMAIN h : h[y].next = Nexts(h)[y] /\ h[y].prev = Prevs(h)[y] /\ h[y].child = Firsts(h)[y]
BY DEF Nexts, Prevs, Firsts

LEMMA Domains ==
  \A h : DOMAIN Nexts(h) = DOMAIN h /\ DOMAIN Prevs(h) = DOMAIN h /\ DOMAIN Firsts(h) = DOMAIN h
BY DEF Nexts, Prevs, Firsts

LEMMA SameAgain == \A h, m, n : SameItems(h, m) /\ SameItems(m, n) => SameItems(h, n)
<1> SUFFICES ASSUME NEW h, NEW m, NEW n, SameItems(h, m), SameItems(m, n) PROVE SameItems(h, n)
  OBVIOUS
<1> QED BY DEF SameItems

LEMMA SameItself == \A h : Heap(h) => SameItems(h, h)
BY DEF SameItems

\* An assignment to a next pointer.
LEMMA NextIsSet ==
  ASSUME NEW h, Heap(h), NEW x \in DOMAIN h, NEW v, NEW n, n = SetNext(h, x, v)
  PROVE  /\ SameItems(h, n) /\ Heap(n) /\ DOMAIN n = DOMAIN h
         /\ Nexts(n) = With(Nexts(h), x, v) /\ Prevs(n) = Prevs(h) /\ Firsts(n) = Firsts(h)
<1>1. \A y \in DOMAIN h : n[y] = IF y = x THEN [h[x] EXCEPT !.next = v] ELSE h[y]
  BY DEF Heap, SetNext
<1>2. DOMAIN n = DOMAIN h /\ n = [y \in DOMAIN n |-> n[y]]
  BY DEF Heap, SetNext
<1>3. \A y \in DOMAIN h : /\ n[y].next = IF y = x THEN v ELSE h[y].next
                          /\ n[y].prev = h[y].prev /\ n[y].child = h[y].child
  BY <1>1 DEF Heap, Pointers
<1>4. \A y \in DOMAIN h : /\ n[y] = [f \in DOMAIN n[y] |-> n[y][f]] /\ DOMAIN n[y] = DOMAIN h[y]
                          /\ \A f \in DOMAIN h[y] \ Pointers : n[y][f] = h[y][f]
  BY <1>1 DEF Heap, Pointers
<1>5. SameItems(h, n)
  BY <1>2, <1>4 DEF SameItems, Heap
<1>6. Prevs(n) = Prevs(h) /\ Firsts(n) = Firsts(h)
  BY <1>2, <1>3 DEF Prevs, Firsts
<1>7. Nexts(n) = With(Nexts(h), x, v)
  BY <1>2, <1>3 DEF Nexts, With
<1> QED BY <1>2, <1>5, <1>6, <1>7 DEF SameItems

\* An assignment to a prev pointer.
LEMMA PrevIsSet ==
  ASSUME NEW h, Heap(h), NEW x \in DOMAIN h, NEW v, NEW n, n = SetPrev(h, x, v)
  PROVE  /\ SameItems(h, n) /\ Heap(n) /\ DOMAIN n = DOMAIN h
         /\ Prevs(n) = With(Prevs(h), x, v) /\ Nexts(n) = Nexts(h) /\ Firsts(n) = Firsts(h)
<1>1. \A y \in DOMAIN h : n[y] = IF y = x THEN [h[x] EXCEPT !.prev = v] ELSE h[y]
  BY DEF Heap, SetPrev
<1>2. DOMAIN n = DOMAIN h /\ n = [y \in DOMAIN n |-> n[y]]
  BY DEF Heap, SetPrev
<1>3. \A y \in DOMAIN h : /\ n[y].prev = IF y = x THEN v ELSE h[y].prev
                          /\ n[y].next = h[y].next /\ n[y].child = h[y].child
  BY <1>1 DEF Heap, Pointers
<1>4. \A y \in DOMAIN h : /\ n[y] = [f \in DOMAIN n[y] |-> n[y][f]] /\ DOMAIN n[y] = DOMAIN h[y]
                          /\ \A f \in DOMAIN h[y] \ Pointers : n[y][f] = h[y][f]
  BY <1>1 DEF Heap, Pointers
<1>5. SameItems(h, n)
  BY <1>2, <1>4 DEF SameItems, Heap
<1>6. Nexts(n) = Nexts(h) /\ Firsts(n) = Firsts(h)
  BY <1>2, <1>3 DEF Nexts, Firsts
<1>7. Prevs(n) = With(Prevs(h), x, v)
  BY <1>2, <1>3 DEF Prevs, With
<1> QED BY <1>2, <1>5, <1>6, <1>7 DEF SameItems

\* An assignment to a child pointer.
LEMMA ChildIsSet ==
  ASSUME NEW h, Heap(h), NEW x \in DOMAIN h, NEW v, NEW n, n = SetChild(h, x, v)
  PROVE  /\ SameItems(h, n) /\ Heap(n) /\ DOMAIN n = DOMAIN h
         /\ Firsts(n) = With(Firsts(h), x, v) /\ Nexts(n) = Nexts(h) /\ Prevs(n) = Prevs(h)
<1>1. \A y \in DOMAIN h : n[y] = IF y = x THEN [h[x] EXCEPT !.child = v] ELSE h[y]
  BY DEF Heap, SetChild
<1>2. DOMAIN n = DOMAIN h /\ n = [y \in DOMAIN n |-> n[y]]
  BY DEF Heap, SetChild
<1>3. \A y \in DOMAIN h : /\ n[y].child = IF y = x THEN v ELSE h[y].child
                          /\ n[y].next = h[y].next /\ n[y].prev = h[y].prev
  BY <1>1 DEF Heap, Pointers
<1>4. \A y \in DOMAIN h : /\ n[y] = [f \in DOMAIN n[y] |-> n[y][f]] /\ DOMAIN n[y] = DOMAIN h[y]
                          /\ \A f \in DOMAIN h[y] \ Pointers : n[y][f] = h[y][f]
  BY <1>1 DEF Heap, Pointers
<1>5. SameItems(h, n)
  BY <1>2, <1>4 DEF SameItems, Heap
<1>6. Nexts(n) = Nexts(h) /\ Prevs(n) = Prevs(h)
  BY <1>2, <1>3 DEF Nexts, Prevs
<1>7. Firsts(n) = With(Firsts(h), x, v)
  BY <1>2, <1>3 DEF Firsts, With
<1> QED BY <1>2, <1>5, <1>6, <1>7 DEF SameItems

-----------------------------------------------------------------------------
(* Lists *)

Unlisted(kids, x) == \A p \in DOMAIN kids : x \notin Members(kids[p])

(* x leads to no sibling. *)
Alone(h, x) == h[x].next = NULL /\ h[x].prev = NULL

(* Between h and n only the child of p and the neighbours of S have changed. *)
Within(h, n, p, S) ==
  \A y \in DOMAIN h : /\ y # p => Firsts(n)[y] = Firsts(h)[y]
                      /\ y \notin S => Nexts(n)[y] = Nexts(h)[y] /\ Prevs(n)[y] = Prevs(h)[y]

\* A list none of whose members changed is still there.
LEMMA OthersStay ==
  ASSUME NEW h, NEW n, SameItems(h, n), NEW p \in DOMAIN h, NEW S, Within(h, n, p, S),
         NEW q \in DOMAIN h, q # p, NEW c, Linked(h, q, c), Members(c) \cap S = {}
  PROVE  Linked(n, q, c)
<1>1. \A i \in 1..Len(c) : c[i] \in DOMAIN h /\ c[i] \notin S
  BY DEF Linked, Members
<1>2. \A i \in 1..Len(c) : Nexts(n)[c[i]] = Nexts(h)[c[i]] /\ Prevs(n)[c[i]] = Prevs(h)[c[i]]
  BY <1>1 DEF Within
<1> QED BY <1>2 DEF Linked, Chain, Within, SameItems

\* When the children of p are linked as c and only they and x were touched, which
\* is in no other list, c has taken the place of what was there.
LEMMA OneListChanged ==
  ASSUME NEW h, NEW owners, NEW kids, Forest(h, owners, kids), NEW p \in owners,
         NEW n, SameItems(h, n), NextIsItem(n), NEW c, Linked(n, p, c),
         NEW x, x \in Members(kids[p]) \/ Unlisted(kids, x),
         Members(c) \subseteq Members(kids[p]) \cup {x},
         Within(h, n, p, Members(kids[p]) \cup {x})
  PROVE  Forest(n, owners, [kids EXCEPT ![p] = c])
<1> DEFINE K == [kids EXCEPT ![p] = c]
           S == Members(kids[p]) \cup {x}
<1>1. DOMAIN n = DOMAIN h /\ Heap(n) /\ owners \subseteq DOMAIN h /\ DOMAIN kids = owners
  BY DEF SameItems, Forest
<1>2. K[p] = c /\ (\A q \in owners : q # p => K[q] = kids[q]) /\ K \in [owners -> Seq(DOMAIN n)]
  BY <1>1 DEF Forest, Linked
<1>3. ASSUME NEW q \in owners, q # p PROVE Members(kids[q]) \cap S = {}
  <2>1. Members(kids[q]) \cap Members(kids[p]) = {}
    BY <1>3 DEF Forest
  <2>2. x \notin Members(kids[q])
    BY <1>1, <2>1 DEF Unlisted
  <2> QED BY <2>1, <2>2
<1>4. ASSUME NEW q \in owners PROVE Linked(n, q, K[q])
  <2>1. CASE q = p
    BY <1>2, <2>1
  <2>2. CASE q # p
    <3>1. Linked(h, q, kids[q]) /\ q \in DOMAIN h /\ p \in DOMAIN h
      BY <1>1 DEF Forest
    <3>2. Linked(n, q, kids[q])
      BY <1>3, <2>2, <3>1, OthersStay
    <3> QED BY <1>2, <2>2, <3>2
  <2> QED BY <2>1, <2>2
<1>5. \A q, r \in owners : q # r => Members(K[q]) \cap Members(K[r]) = {}
  <2>1. \A q \in owners : q # p => Members(kids[q]) \cap Members(c) = {}
    BY <1>3
  <2>2. \A q, r \in owners : q # r => Members(kids[q]) \cap Members(kids[r]) = {}
    BY DEF Forest
  <2> QED BY <1>2, <2>1, <2>2
<1> HIDE DEF K, S
<1> QED BY <1>1, <1>2, <1>4, <1>5 DEF Forest, K

-----------------------------------------------------------------------------
(* Adding at the end *)

\* A loose item, which leads to no sibling, becomes the last child of p, and all
\* other children stay what they were (cJSON.c:2012-2048).
THEOREM AddsLast ==
  ASSUME NEW h, NEW owners, NEW kids, Forest(h, owners, kids), NEW p \in owners,
         NEW x \in DOMAIN h, x # p, Unlisted(kids, x), h[x].next = NULL,
         NEW n, n = add_item_to_array(h, p, x)
  PROVE  /\ SameItems(h, n) /\ Forest(n, owners, [kids EXCEPT ![p] = Append(kids[p], x)])
         /\ Within(h, n, p, Members(kids[p]) \cup {x})
<1>1. PICK c \in Seq(DOMAIN h), l \in Nat : c = kids[p] /\ l = Len(c) /\ Linked(h, p, c)
  BY DEF Forest
<1>2. /\ Heap(h) /\ p \in DOMAIN h /\ NULL \notin DOMAIN h
      /\ DOMAIN kids = owners /\ x \notin Members(c)
  BY <1>1 DEF Forest, Heap, Unlisted
<1>3. PICK d \in Seq(DOMAIN h) : /\ d = Append(c, x) /\ Len(d) = l + 1 /\ d[l + 1] = x
                                 /\ \A i \in 1..l : d[i] = c[i]
  <2>1. /\ Append(c, x) \in Seq(DOMAIN h) /\ Len(Append(c, x)) = Len(c) + 1
        /\ \A i \in 1..Len(c) : Append(c, x)[i] = c[i]
        /\ Append(c, x)[Len(c) + 1] = x
    BY AppendProperties
  <2> QED BY <1>1, <2>1
<1>4. \A i \in 1..(l + 1) : i = l + 1 \/ i \in 1..l
  OBVIOUS
<1>5. \A i \in 1..l : c[i] \in DOMAIN h /\ c[i] # x
  BY <1>1, <1>2 DEF Members
<1>6. Distinct(d) /\ Members(d) \subseteq Members(c) \cup {x}
  <2>1. \A i, j \in 1..l : c[i] = c[j] => i = j
    BY <1>1 DEF Linked, Distinct
  <2> QED BY <1>3, <1>4, <1>5, <2>1 DEF Distinct, Members
<1>7. /\ DOMAIN Nexts(h) = DOMAIN h /\ DOMAIN Prevs(h) = DOMAIN h /\ DOMAIN Firsts(h) = DOMAIN h
      /\ Firsts(h)[p] = h[p].child /\ Nexts(h)[x] = NULL
      /\ \A y \in DOMAIN h : Prevs(h)[y] = h[y].prev
  BY <1>2 DEF Nexts, Prevs, Firsts
<1>8. /\ SameItems(h, n) /\ NextIsItem(n) /\ Linked(n, p, d)
      /\ Within(h, n, p, Members(c) \cup {x})
  <2>1. CASE l = 0
    <3>1. n = SetNext(SetPrev(SetChild(h, p, x), x, x), x, NULL)
      BY <1>1, <1>7, <2>1 DEF add_item_to_array, Linked, SetNext, SetPrev, SetChild
    <3>2. /\ SameItems(h, n) /\ Firsts(n) = With(Firsts(h), p, x)
          /\ Nexts(n) = With(Nexts(h), x, NULL) /\ Prevs(n) = With(Prevs(h), x, x)
      <4>1. PICK h1 : h1 = SetChild(h, p, x)
        OBVIOUS
      <4>2. /\ SameItems(h, h1) /\ Heap(h1) /\ DOMAIN h1 = DOMAIN h /\ Firsts(h1) = With(Firsts(h), p, x)
            /\ Nexts(h1) = Nexts(h) /\ Prevs(h1) = Prevs(h)
        BY <1>2, <4>1, ChildIsSet
      <4>3. PICK h2 : h2 = SetPrev(h1, x, x)
        OBVIOUS
      <4>4. /\ SameItems(h1, h2) /\ Heap(h2) /\ DOMAIN h2 = DOMAIN h /\ Prevs(h2) = With(Prevs(h1), x, x)
            /\ Nexts(h2) = Nexts(h1) /\ Firsts(h2) = Firsts(h1)
        BY <4>2, <4>3, PrevIsSet
      <4>5. n = SetNext(h2, x, NULL)
        BY <3>1, <4>1, <4>3
      <4>6. /\ SameItems(h2, n) /\ Nexts(n) = With(Nexts(h2), x, NULL)
            /\ Prevs(n) = Prevs(h2) /\ Firsts(n) = Firsts(h2)
        BY <4>4, <4>5, NextIsSet
      <4>7. SameItems(h, n)
        BY <4>2, <4>4, <4>6, SameAgain
      <4> QED BY <4>2, <4>4, <4>6, <4>7
    <3>3. Within(h, n, p, Members(c) \cup {x})
      BY <1>7, <3>2 DEF Within, With
    <3>4. d[1] = x /\ Len(d) = 1 /\ Firsts(n)[p] = x /\ Nexts(n)[x] = NULL /\ Prevs(n)[x] = x
      BY <1>2, <1>3, <1>7, <2>1, <3>2 DEF With
    <3>5. Linked(n, p, d)
      BY <1>3, <1>6, <3>2, <3>4 DEF Linked, Chain, NextOf, PrevOf, SameItems
    <3>6. NextIsItem(n)
      BY <1>7, <3>2 DEF Forest, NextIsItem, SameItems, With
    <3> QED BY <3>2, <3>3, <3>5, <3>6
  <2>2. CASE l # 0
    <3>1. PICK a \in DOMAIN h, z \in DOMAIN h : a = c[1] /\ z = c[l]
      <4>1. 1 \in 1..l /\ l \in 1..l
        BY <2>2
      <4> QED BY <1>5, <4>1
    <3>2. /\ Firsts(h)[p] = a /\ Prevs(h)[a] = z /\ a # NULL /\ z # NULL
          /\ \A i \in 1..l : /\ Nexts(h)[c[i]] = IF i = l THEN NULL ELSE c[i + 1]
                             /\ Prevs(h)[c[i]] = IF i = 1 THEN z ELSE c[i - 1]
      <4>1. Firsts(h)[p] = a /\ a # NULL /\ z # NULL /\ 1 \in 1..l
        BY <1>1, <1>2, <2>2, <3>1 DEF Linked
      <4>2. \A i \in 1..l : Nexts(h)[c[i]] = NextOf(c, i) /\ Prevs(h)[c[i]] = PrevOf(c, i)
        BY <1>1 DEF Linked, Chain
      <4>3. Prevs(h)[a] = z
        BY <1>1, <3>1, <4>1, <4>2 DEF PrevOf
      <4> QED BY <1>1, <3>1, <4>1, <4>2, <4>3 DEF NextOf, PrevOf
    <3>3. n = SetPrev(SetPrev(SetNext(h, z, x), x, z), a, x)
      <4>1. h[p].child = a /\ h[a].prev = z
        BY <1>7, <3>2
      <4>2. n = [suffix_object(h, z, x) EXCEPT ![a].prev = x]
        BY <3>2, <4>1 DEF add_item_to_array
      <4>3. suffix_object(h, z, x) = SetPrev(SetNext(h, z, x), x, z)
        BY DEF suffix_object, SetNext, SetPrev
      <4> QED BY <4>2, <4>3 DEF SetPrev
    <3>4. /\ SameItems(h, n) /\ Firsts(n) = Firsts(h)
          /\ Nexts(n) = With(Nexts(h), z, x) /\ Prevs(n) = With(With(Prevs(h), x, z), a, x)
      <4>1. PICK h1 : h1 = SetNext(h, z, x)
        OBVIOUS
      <4>2. /\ SameItems(h, h1) /\ Heap(h1) /\ DOMAIN h1 = DOMAIN h /\ Nexts(h1) = With(Nexts(h), z, x)
            /\ Prevs(h1) = Prevs(h) /\ Firsts(h1) = Firsts(h)
        BY <1>2, <4>1, NextIsSet
      <4>3. PICK h2 : h2 = SetPrev(h1, x, z)
        OBVIOUS
      <4>4. /\ SameItems(h1, h2) /\ Heap(h2) /\ DOMAIN h2 = DOMAIN h /\ Prevs(h2) = With(Prevs(h1), x, z)
            /\ Nexts(h2) = Nexts(h1) /\ Firsts(h2) = Firsts(h1)
        BY <4>2, <4>3, PrevIsSet
      <4>5. n = SetPrev(h2, a, x)
        BY <3>3, <4>1, <4>3
      <4>6. /\ SameItems(h2, n) /\ Prevs(n) = With(Prevs(h2), a, x)
            /\ Nexts(n) = Nexts(h2) /\ Firsts(n) = Firsts(h2)
        BY <4>4, <4>5, PrevIsSet
      <4>7. SameItems(h, n)
        BY <4>2, <4>4, <4>6, SameAgain
      <4> QED BY <4>2, <4>4, <4>6, <4>7
    <3>5. a \in Members(c) /\ z \in Members(c) /\ a # x /\ z # x
      BY <1>1, <1>5, <2>2, <3>1 DEF Members
    <3>6. Within(h, n, p, Members(c) \cup {x})
      BY <1>7, <3>4, <3>5 DEF Within, With
    <3>7. \A i \in 1..l : (c[i] = z <=> i = l) /\ (c[i] = a <=> i = 1)
      BY <1>1, <2>2, <3>1 DEF Linked, Distinct
    <3>8. ASSUME NEW i \in 1..(l + 1) PROVE Nexts(n)[d[i]] = NextOf(d, i) /\ Prevs(n)[d[i]] = PrevOf(d, i)
      <4>1. CASE i = l + 1
        <5>1. d[i] = x /\ d[i - 1] = z /\ i # 1 /\ i = Len(d)
          BY <1>3, <2>2, <3>1, <4>1
        <5>2. Nexts(n)[x] = NULL /\ Prevs(n)[x] = z
          BY <1>7, <3>4, <3>5 DEF With
        <5> QED BY <5>1, <5>2 DEF NextOf, PrevOf
      <4>2. CASE i \in 1..l
        <5>1. PICK y \in DOMAIN h : y = c[i] /\ y # x /\ (y = z <=> i = l) /\ (y = a <=> i = 1)
          BY <1>5, <3>7, <4>2
        <5>2. Nexts(n)[y] = IF i = l THEN x ELSE c[i + 1]
          BY <1>7, <3>2, <3>4, <4>2, <5>1 DEF With
        <5>3. Prevs(n)[y] = IF i = 1 THEN x ELSE c[i - 1]
          BY <1>7, <3>2, <3>4, <4>2, <5>1 DEF With
        <5>4. d[i] = y /\ d[i + 1] = (IF i = l THEN x ELSE c[i + 1]) /\ (i # 1 => d[i - 1] = c[i - 1])
          <6>1. i = l \/ i + 1 \in 1..l
            BY <4>2
          <6>2. i = 1 \/ i - 1 \in 1..l
            BY <4>2
          <6> QED BY <1>3, <4>2, <5>1, <6>1, <6>2
        <5> QED BY <1>3, <4>2, <5>2, <5>3, <5>4 DEF NextOf, PrevOf
      <4> QED BY <1>4, <4>1, <4>2
    <3>9. d[1] = a /\ Len(d) # 0 /\ Firsts(n)[p] = a
      BY <1>2, <1>3, <2>2, <3>1, <3>2, <3>4
    <3>10. Linked(n, p, d)
      BY <1>3, <1>6, <3>4, <3>8, <3>9 DEF Linked, Chain, SameItems
    <3>11. NextIsItem(n)
      BY <1>7, <3>4 DEF Forest, NextIsItem, SameItems, With
    <3> QED BY <3>4, <3>6, <3>10, <3>11
  <2> QED BY <2>1, <2>2
<1>9. Forest(n, owners, [kids EXCEPT ![p] = d])
  BY <1>1, <1>6, <1>8, OneListChanged
<1> QED BY <1>1, <1>3, <1>8, <1>9

-----------------------------------------------------------------------------
(* Sequences with a place removed, inserted or replaced *)

LEMMA Joined ==
  ASSUME NEW S, NEW a \in Seq(S), NEW b \in Seq(S), NEW d, d = a \o b
  PROVE  /\ d \in Seq(S) /\ Len(d) = Len(a) + Len(b)
         /\ \A k \in 1..Len(a) : d[k] = a[k]
         /\ \A k \in 1..Len(b) : d[Len(a) + k] = b[k]
<1>1. d \in Seq(S) /\ Len(d) = Len(a) + Len(b) /\ Len(a) \in Nat /\ Len(b) \in Nat
  BY ConcatProperties
<1>2. ASSUME NEW k \in 1..Len(a) PROVE d[k] = a[k]
  <2>1. k \in 1..(Len(a) + Len(b)) /\ k <= Len(a)
    BY <1>1
  <2> QED BY <2>1, ConcatProperties
<1>3. ASSUME NEW k \in 1..Len(b) PROVE d[Len(a) + k] = b[k]
  <2>1. Len(a) + k \in 1..(Len(a) + Len(b)) /\ ~(Len(a) + k <= Len(a)) /\ (Len(a) + k) - Len(a) = k
    BY <1>1
  <2> QED BY <2>1, ConcatProperties
<1> QED BY <1>1, <1>2, <1>3

(* d is c without place i. *)
Without(c, i, d) ==
  Len(d) = Len(c) - 1 /\ \A k \in 1..(Len(c) - 1) : d[k] = c[IF k < i THEN k ELSE k + 1]

LEMMA Removed ==
  ASSUME NEW S, NEW c \in Seq(S), NEW i \in 1..Len(c), NEW d, d = RemoveAt(c, i)
  PROVE  d \in Seq(S) /\ Without(c, i, d)
<1>1. PICK m \in Nat : m = i - 1
  OBVIOUS
<1>2. PICK a \in Seq(S) : a = SubSeq(c, 1, i - 1) /\ Len(a) = m /\ \A k \in 1..m : a[k] = c[k]
  <2>1. /\ SubSeq(c, 1, i - 1) \in Seq(S) /\ Len(SubSeq(c, 1, i - 1)) = i - 1
        /\ \A k \in 1..(i - 1) : SubSeq(c, 1, i - 1)[k] = c[k]
    BY SubSeqProperties
  <2> QED BY <1>1, <2>1
<1>3. PICK r \in Nat : r = Len(c) - i
  <2>1. Len(c) \in Nat /\ i <= Len(c)
    OBVIOUS
  <2>2. Len(c) - i \in Nat
    BY <2>1
  <2> QED BY <2>2
<1>4. PICK b \in Seq(S) : b = SubSeq(c, i + 1, Len(c)) /\ Len(b) = r /\ \A k \in 1..r : b[k] = c[i + k]
  <2>1. SubSeq(c, i + 1, Len(c)) \in Seq(S) /\ Len(SubSeq(c, i + 1, Len(c))) = r
    BY <1>3, SubSeqProperties
  <2>2. ASSUME NEW k \in 1..r PROVE SubSeq(c, i + 1, Len(c))[k] = c[i + k]
    <3>1. k \in 1..(Len(c) - (i + 1) + 1) /\ (i + 1) + k - 1 = i + k
      BY <1>3
    <3> QED BY <3>1, SubSeqProperties
  <2> QED BY <2>1, <2>2
<1>5. d = a \o b
  BY <1>2, <1>4 DEF RemoveAt
<1>6. d \in Seq(S) /\ Len(d) = m + r /\ (\A k \in 1..m : d[k] = a[k])
  <2>1. d \in Seq(S) /\ Len(d) = Len(a) + Len(b) /\ \A k \in 1..Len(a) : d[k] = a[k]
    BY <1>5, Joined
  <2> QED BY <1>2, <1>4, <2>1
<1>7. \A k \in 1..r : d[m + k] = b[k]
  <2>1. \A k \in 1..Len(b) : d[Len(a) + k] = b[k]
    BY <1>5, Joined
  <2> QED BY <1>2, <1>4, <2>1
<1>8. ASSUME NEW k \in 1..(Len(c) - 1) PROVE d[k] = c[IF k < i THEN k ELSE k + 1]
  <2>1. CASE k < i
    <3>1. k \in 1..m
      BY <1>1, <2>1
    <3> QED BY <1>2, <1>6, <2>1, <3>1
  <2>2. CASE ~(k < i)
    <3>1. PICK j \in 1..r : k = m + j /\ k + 1 = i + j
      <4>1. k - m \in 1..r
        BY <1>1, <1>3, <2>2
      <4> QED BY <1>1, <4>1
    <3> QED BY <1>4, <1>7, <2>2, <3>1
  <2> QED BY <2>1, <2>2
<1>9. Len(c) - 1 = m + r
  BY <1>1, <1>3
<1> QED BY <1>6, <1>8, <1>9 DEF Without

(* d is c with x before place i. *)
WithBefore(c, i, x, d) ==
  /\ Len(d) = Len(c) + 1 /\ d[i] = x
  /\ \A k \in 1..Len(c) : d[IF k < i THEN k ELSE k + 1] = c[k]

LEMMA Inserted ==
  ASSUME NEW S, NEW c \in Seq(S), NEW i \in 1..Len(c), NEW x \in S, NEW d, d = InsertAt(c, i, x)
  PROVE  d \in Seq(S) /\ WithBefore(c, i, x, d)
<1>1. PICK m \in Nat : m = i - 1
  OBVIOUS
<1>2. PICK a \in Seq(S) : a = SubSeq(c, 1, i - 1) /\ Len(a) = m /\ \A k \in 1..m : a[k] = c[k]
  <2>1. /\ SubSeq(c, 1, i - 1) \in Seq(S) /\ Len(SubSeq(c, 1, i - 1)) = i - 1
        /\ \A k \in 1..(i - 1) : SubSeq(c, 1, i - 1)[k] = c[k]
    BY SubSeqProperties
  <2> QED BY <1>1, <2>1
<1>3. PICK r \in Nat : r = Len(c) - m
  <2>1. Len(c) \in Nat /\ i <= Len(c)
    OBVIOUS
  <2>2. Len(c) - m \in Nat
    BY <1>1, <2>1
  <2> QED BY <2>2
<1>4. PICK b \in Seq(S) : /\ b = SubSeq(c, i, Len(c)) /\ Len(b) = r
                          /\ \A k \in 1..r : b[k] = c[m + k]
  <2>1. SubSeq(c, i, Len(c)) \in Seq(S) /\ Len(SubSeq(c, i, Len(c))) = r
    BY <1>1, <1>3, SubSeqProperties
  <2>2. ASSUME NEW k \in 1..r PROVE SubSeq(c, i, Len(c))[k] = c[m + k]
    <3>1. k \in 1..(Len(c) - i + 1) /\ i + k - 1 = m + k
      BY <1>1, <1>3
    <3> QED BY <3>1, SubSeqProperties
  <2> QED BY <2>1, <2>2
<1>5. PICK e \in Seq(S) : e = <<x>> /\ Len(e) = 1 /\ e[1] = x
  <2>1. <<x>> \in Seq(S) /\ Len(<<x>>) = 1 /\ <<x>>[1] = x
    OBVIOUS
  <2> QED BY <2>1
<1>6. PICK f : f = a \o e
  OBVIOUS
<1>7. f \in Seq(S) /\ Len(f) = m + 1 /\ f[m + 1] = x /\ \A k \in 1..m : f[k] = c[k]
  <2>1. f \in Seq(S) /\ Len(f) = Len(a) + Len(e) /\ \A k \in 1..Len(a) : f[k] = a[k]
    BY <1>6, Joined
  <2>2. \A k \in 1..Len(e) : f[Len(a) + k] = e[k]
    BY <1>6, Joined
  <2> QED BY <1>2, <1>5, <2>1, <2>2
<1>8. d = f \o b
  BY <1>2, <1>4, <1>5, <1>6 DEF InsertAt
<1>9. d \in Seq(S) /\ Len(d) = (m + 1) + r /\ \A k \in 1..(m + 1) : d[k] = f[k]
  <2>1. f \in Seq(S)
    BY <1>7
  <2>2. d \in Seq(S) /\ Len(d) = Len(f) + Len(b)
    BY <1>8, <2>1, Joined
  <2>3. \A k \in 1..Len(f) : d[k] = f[k]
    BY <1>8, <2>1, Joined
  <2> QED BY <1>4, <1>7, <2>2, <2>3
<1>10. \A k \in 1..r : d[(m + 1) + k] = b[k]
  <2>1. \A k \in 1..Len(b) : d[Len(f) + k] = b[k]
    BY <1>7, <1>8, Joined
  <2> QED BY <1>4, <1>7, <2>1
<1>11. ASSUME NEW k \in 1..Len(c) PROVE d[IF k < i THEN k ELSE k + 1] = c[k]
  <2>1. CASE k < i
    <3>1. k \in 1..m /\ k \in 1..(m + 1)
      BY <1>1, <2>1
    <3> QED BY <1>7, <1>9, <2>1, <3>1
  <2>2. CASE ~(k < i)
    <3>1. PICK j \in 1..r : k = m + j /\ k + 1 = (m + 1) + j
      <4>1. k - m \in 1..r
        BY <1>1, <1>3, <2>2
      <4> QED BY <1>1, <4>1
    <3> QED BY <1>4, <1>10, <2>2, <3>1
  <2> QED BY <2>1, <2>2
<1>12. i = m + 1 /\ Len(c) + 1 = (m + 1) + r /\ m + 1 \in 1..(m + 1)
  BY <1>1, <1>3
<1> QED BY <1>7, <1>9, <1>11, <1>12 DEF WithBefore

(* The place whose prev pointer leads to place i of a list with l members. *)
After(l, i) == IF i = l THEN 1 ELSE i + 1

(* The neighbours of place i point past it, the others as ever. *)
Bridged(next, prev, c, i) ==
  \A j \in 1..Len(c) : j # i =>
    /\ next[c[j]] = IF j = i - 1 THEN NextOf(c, i) ELSE NextOf(c, j)
    /\ prev[c[j]] = IF j = After(Len(c), i) THEN PrevOf(c, i) ELSE PrevOf(c, j)

\* What is linked when the neighbours of place i point past it.
LEMMA ChainWithout ==
  ASSUME NEW S, NEW c \in Seq(S), NEW l \in Nat, l = Len(c), NEW i \in 1..l,
         NEW d \in Seq(S), Without(c, i, d), NEW next, NEW prev, Bridged(next, prev, c, i)
  PROVE  Chain(next, prev, d)
<1>0. /\ Len(d) = l - 1 /\ \A k \in 1..(l - 1) : d[k] = c[IF k < i THEN k ELSE k + 1]
      /\ \A j \in 1..l : j # i =>
           /\ next[c[j]] = IF j = i - 1 THEN NextOf(c, i) ELSE NextOf(c, j)
           /\ prev[c[j]] = IF j = After(l, i) THEN PrevOf(c, i) ELSE PrevOf(c, j)
  BY DEF Without, Bridged
<1> SUFFICES ASSUME NEW k \in 1..(l - 1) PROVE next[d[k]] = NextOf(d, k) /\ prev[d[k]] = PrevOf(d, k)
  BY <1>0 DEF Chain
<1> USE <1>0
<1>1. d[1] = c[IF i = 1 THEN 2 ELSE 1] /\ d[l - 1] = c[IF i = l THEN l - 1 ELSE l]
  OBVIOUS
<1>2. CASE k < i
  <2>1. d[k] = c[k] /\ k \in 1..l /\ k # i
    BY <1>2
  <2>2. next[d[k]] = NextOf(d, k)
    <3>1. CASE k = i - 1
      <4>1. next[c[k]] = NextOf(c, i)
        BY <2>1, <3>1
      <4>2. i # l => d[i] = c[i + 1] /\ k + 1 = i
        BY <3>1
      <4> QED BY <2>1, <3>1, <4>1, <4>2 DEF NextOf
    <3>2. CASE k # i - 1
      <4>1. next[c[k]] = NextOf(c, k) /\ k # l /\ k # l - 1
        BY <1>2, <2>1, <3>2
      <4>2. d[k + 1] = c[k + 1]
        BY <1>2, <3>2
      <4> QED BY <2>1, <4>1, <4>2 DEF NextOf
    <3> QED BY <3>1, <3>2
  <2>3. prev[d[k]] = PrevOf(d, k)
    <3>1. CASE k = 1
      <4>1. prev[c[1]] = IF i = l THEN PrevOf(c, l) ELSE PrevOf(c, 1)
        BY <1>2, <2>1, <3>1 DEF After
      <4> QED BY <1>1, <1>2, <2>1, <3>1, <4>1 DEF PrevOf
    <3>2. CASE k # 1
      <4>1. prev[c[k]] = PrevOf(c, k)
        BY <1>2, <2>1, <3>2 DEF After
      <4>2. d[k - 1] = c[k - 1]
        BY <1>2, <3>2
      <4> QED BY <2>1, <3>2, <4>1, <4>2 DEF PrevOf
    <3> QED BY <3>1, <3>2
  <2> QED BY <2>2, <2>3
<1>3. CASE ~(k < i)
  <2>1. PICK j \in 1..l : j = k + 1 /\ d[k] = c[j] /\ j # i /\ j # i - 1
    BY <1>3
  <2>2. next[d[k]] = NextOf(d, k)
    <3>1. next[c[j]] = NextOf(c, j)
      BY <2>1
    <3>2. k # l - 1 => d[k + 1] = c[j + 1]
      BY <1>3, <2>1
    <3> QED BY <2>1, <3>1, <3>2 DEF NextOf
  <2>3. prev[d[k]] = PrevOf(d, k)
    <3>1. CASE k = i
      <4>1. prev[c[j]] = PrevOf(c, i) /\ i # l
        BY <2>1, <3>1 DEF After
      <4>2. i # 1 => d[k - 1] = c[i - 1]
        BY <3>1
      <4> QED BY <1>1, <2>1, <3>1, <4>1, <4>2 DEF PrevOf
    <3>2. CASE k # i
      <4>1. prev[c[j]] = PrevOf(c, j) /\ k # 1 /\ j # 1
        BY <1>3, <2>1, <3>2 DEF After
      <4>2. d[k - 1] = c[k] /\ j - 1 = k
        BY <1>3, <2>1, <3>2
      <4> QED BY <2>1, <4>1, <4>2 DEF PrevOf
    <3> QED BY <3>1, <3>2
  <2> QED BY <2>2, <2>3
<1> QED BY <1>2, <1>3

(* x leads to the item at place i and to the one before, and they to it. *)
Spliced(next, prev, c, i, x) ==
  /\ next[x] = c[i] /\ prev[x] = PrevOf(c, i)
  /\ \A j \in 1..Len(c) : /\ next[c[j]] = IF j = i - 1 THEN x ELSE NextOf(c, j)
                          /\ prev[c[j]] = IF j = i THEN x ELSE PrevOf(c, j)

\* What is linked when x has come before place i.
LEMMA ChainWith ==
  ASSUME NEW S, NEW c \in Seq(S), NEW l \in Nat, l = Len(c), NEW i \in 1..l, NEW x \in S,
         NEW d \in Seq(S), WithBefore(c, i, x, d), NEW next, NEW prev, Spliced(next, prev, c, i, x)
  PROVE  Chain(next, prev, d)
<1>0. /\ Len(d) = l + 1 /\ d[i] = x /\ \A k \in 1..l : d[IF k < i THEN k ELSE k + 1] = c[k]
      /\ next[x] = c[i] /\ prev[x] = PrevOf(c, i)
      /\ \A j \in 1..l : /\ next[c[j]] = IF j = i - 1 THEN x ELSE NextOf(c, j)
                         /\ prev[c[j]] = IF j = i THEN x ELSE PrevOf(c, j)
  BY DEF WithBefore, Spliced
<1> USE <1>0
<1> SUFFICES ASSUME NEW k \in 1..(l + 1) PROVE next[d[k]] = NextOf(d, k) /\ prev[d[k]] = PrevOf(d, k)
  BY DEF Chain
<1>1. d[l + 1] = c[l]
  OBVIOUS
<1>2. CASE k < i
  <2>1. d[k] = c[k] /\ k \in 1..l /\ k # i /\ k # l + 1 /\ k # l
    BY <1>2
  <2>2. next[d[k]] = NextOf(d, k)
    <3>1. k # i - 1 => d[k + 1] = c[k + 1]
      <4>1. k # i - 1 => k + 1 \in 1..l /\ k + 1 < i
        BY <1>2
      <4> QED BY <4>1
    <3> QED BY <2>1, <3>1 DEF NextOf
  <2>3. prev[d[k]] = PrevOf(d, k)
    <3>1. k # 1 => d[k - 1] = c[k - 1]
      BY <1>2
    <3> QED BY <1>1, <2>1, <3>1 DEF PrevOf
  <2> QED BY <2>2, <2>3
<1>3. CASE k = i
  <2>1. d[k + 1] = c[i] /\ (i # 1 => d[k - 1] = c[i - 1]) /\ k # l + 1
    BY <1>3
  <2> QED BY <1>1, <1>3, <2>1 DEF NextOf, PrevOf
<1>4. CASE k > i
  <2>1. PICK j \in 1..l : k = j + 1 /\ d[k] = c[j] /\ j # i - 1
    <3>1. k - 1 \in 1..l /\ ~(k - 1 < i) /\ k = (k - 1) + 1 /\ k - 1 # i - 1
      BY <1>4
    <3>2. d[k] = c[k - 1]
      BY <3>1
    <3> QED BY <3>1, <3>2
  <2>2. next[d[k]] = NextOf(d, k)
    <3>1. j # l => d[k + 1] = c[j + 1]
      BY <1>4, <2>1
    <3> QED BY <2>1, <3>1 DEF NextOf
  <2>3. prev[d[k]] = PrevOf(d, k)
    <3>1. CASE j = i
      <4>1. d[k - 1] = x /\ k # 1 /\ prev[c[j]] = x
        BY <2>1, <3>1
      <4> QED BY <2>1, <4>1 DEF PrevOf
    <3>2. CASE j # i
      <4>1. j > i /\ k = j + 1
        BY <1>4, <2>1, <3>2
      <4>2. PICK b \in 1..l : b = j - 1 /\ ~(b < i) /\ k - 1 = b + 1 /\ j # 1 /\ k # 1
        <5>1. j - 1 \in 1..l
          BY <4>1
        <5> QED BY <4>1, <5>1
      <4>3. d[k - 1] = c[j - 1] /\ prev[c[j]] = PrevOf(c, j)
        BY <3>2, <4>2
      <4> QED BY <2>1, <4>2, <4>3 DEF PrevOf
    <3> QED BY <3>1, <3>2
  <2> QED BY <2>2, <2>3
<1> QED BY <1>2, <1>3, <1>4

(* d is c with x at place i. *)
WithAt(c, i, x, d) == Len(d) = Len(c) /\ d[i] = x /\ \A k \in 1..Len(c) : k # i => d[k] = c[k]

(* x leads to the neighbours of place i, and they to it. *)
Exchanged(next, prev, c, i, x) ==
  /\ next[x] = NextOf(c, i) /\ prev[x] = IF Len(c) = 1 THEN x ELSE PrevOf(c, i)
  /\ \A j \in 1..Len(c) : j # i =>
       /\ next[c[j]] = IF j = i - 1 THEN x ELSE NextOf(c, j)
       /\ prev[c[j]] = IF j = After(Len(c), i) THEN x ELSE PrevOf(c, j)

\* What is linked when x has come in the place of the item at i.
LEMMA ChainReplaced ==
  ASSUME NEW S, NEW c \in Seq(S), NEW l \in Nat, l = Len(c), NEW i \in 1..l, NEW x \in S,
         NEW d \in Seq(S), WithAt(c, i, x, d), NEW next, NEW prev, Exchanged(next, prev, c, i, x)
  PROVE  Chain(next, prev, d)
<1>0. /\ Len(d) = l /\ d[i] = x /\ \A k \in 1..l : k # i => d[k] = c[k]
      /\ next[x] = NextOf(c, i) /\ prev[x] = IF l = 1 THEN x ELSE PrevOf(c, i)
      /\ \A j \in 1..l : j # i =>
           /\ next[c[j]] = IF j = i - 1 THEN x ELSE NextOf(c, j)
           /\ prev[c[j]] = IF j = After(l, i) THEN x ELSE PrevOf(c, j)
  BY DEF WithAt, Exchanged
<1> USE <1>0
<1> SUFFICES ASSUME NEW k \in 1..l PROVE next[d[k]] = NextOf(d, k) /\ prev[d[k]] = PrevOf(d, k)
  BY DEF Chain
<1>1. CASE k = i
  <2>1. i # l => d[i + 1] = c[i + 1]
    OBVIOUS
  <2>2. i # 1 => d[i - 1] = c[i - 1]
    OBVIOUS
  <2>3. i = 1 => d[l] = IF l = 1 THEN x ELSE c[l]
    OBVIOUS
  <2> QED BY <1>1, <2>1, <2>2, <2>3 DEF NextOf, PrevOf
<1>2. CASE k # i
  <2>1. d[k] = c[k]
    BY <1>2
  <2>2. k # l => d[k + 1] = IF k = i - 1 THEN x ELSE c[k + 1]
    OBVIOUS
  <2>3. k # 1 => d[k - 1] = IF k = i + 1 THEN x ELSE c[k - 1]
    OBVIOUS
  <2>4. k = 1 => d[l] = IF i = l THEN x ELSE c[l]
    BY <1>2
  <2>5. next[d[k]] = NextOf(d, k)
    BY <1>2, <2>1, <2>2 DEF NextOf
  <2>6. prev[d[k]] = PrevOf(d, k)
    BY <1>2, <2>1, <2>3, <2>4 DEF PrevOf, After
  <2> QED BY <2>5, <2>6
<1> QED BY <1>1, <1>2

-----------------------------------------------------------------------------
(* Detaching *)

\* What a list says of its members.
LEMMA LinkedFacts ==
  ASSUME NEW h, Heap(h), NEW p \in DOMAIN h, NEW c, Linked(h, p, c), NEW i \in 1..Len(c)
  PROVE  /\ c \in Seq(DOMAIN h) /\ Len(c) \in Nat /\ c[i] \in DOMAIN h /\ c[i] # NULL
         /\ \A j \in 1..Len(c) : c[i] = c[j] => i = j
         /\ Firsts(h)[p] = c[1] /\ h[p].child = c[1] /\ c[i] \in Members(c)
         /\ Nexts(h)[c[i]] = NextOf(c, i) /\ h[c[i]].next = NextOf(c, i)
         /\ Prevs(h)[c[i]] = PrevOf(c, i) /\ h[c[i]].prev = PrevOf(c, i)
<1>1. c \in Seq(DOMAIN h) /\ Len(c) \in Nat /\ c[i] \in DOMAIN h
  BY DEF Linked
<1>2. Firsts(h)[p] = c[1] /\ Nexts(h)[c[i]] = NextOf(c, i) /\ Prevs(h)[c[i]] = PrevOf(c, i)
  BY DEF Linked, Chain
<1>3. c[i] # NULL /\ c[i] \in Members(c)
  BY <1>1 DEF Heap, Members
<1>4. \A j \in 1..Len(c) : c[i] = c[j] => i = j
  BY DEF Linked, Distinct
<1> QED BY <1>1, <1>2, <1>3, <1>4, Fields

(* In n the neighbours of place i of the list c of p point past it. *)
PointPast(h, n, p, c, i) ==
  /\ Firsts(n)[p] = IF i = 1 THEN NextOf(c, 1) ELSE c[1]
  /\ Bridged(Nexts(n), Prevs(n), c, i)
  /\ Within(h, n, p, Members(c)) /\ NextIsItem(n)

\* The two shapes a detached item leaves, by whether it was the first.
LEMMA FirstUnlinked ==
  ASSUME NEW h, Heap(h), NextIsItem(h), NEW p \in DOMAIN h, NEW c, Linked(h, p, c),
         NEW x, 0 < Len(c), x = c[1]
  PROVE  \E m : /\ SameItems(h, m) /\ PointPast(h, m, p, c, 1)
                /\ cJSON_DetachItemViaPointer(h, p, x) = SetNext(SetPrev(m, x, NULL), x, NULL)
<1>1. PICK l \in Nat : l = Len(c) /\ 1 \in 1..l /\ l \in 1..l
  BY LinkedFacts DEF Linked
<1>2. /\ x \in DOMAIN h /\ x # NULL /\ h[p].child = x
      /\ h[x].next = NextOf(c, 1) /\ h[x].prev = PrevOf(c, 1) /\ PrevOf(c, 1) = c[l]
  BY <1>1, LinkedFacts DEF PrevOf
<1>3. \A j \in 1..l : /\ c[j] \in DOMAIN h /\ c[j] # NULL /\ c[j] \in Members(c)
                     /\ Nexts(h)[c[j]] = NextOf(c, j) /\ Prevs(h)[c[j]] = PrevOf(c, j)
  BY <1>1, LinkedFacts
<1>4. CASE l = 1
  <2>1. NextOf(c, 1) = NULL
    BY <1>1, <1>4 DEF NextOf
  <2>2. DetachUnlinked(h, p, x) = h
    BY <1>2, <2>1 DEF DetachUnlinked
  <2>3. PICK m : m = SetChild(h, p, NULL)
    OBVIOUS
  <2>4. cJSON_DetachItemViaPointer(h, p, x) = SetNext(SetPrev(m, x, NULL), x, NULL)
    BY <1>2, <2>1, <2>2, <2>3 DEF cJSON_DetachItemViaPointer, SetNext, SetPrev, SetChild
  <2>5. /\ SameItems(h, m) /\ Firsts(m) = With(Firsts(h), p, NULL)
        /\ Nexts(m) = Nexts(h) /\ Prevs(m) = Prevs(h)
    BY <2>3, ChildIsSet
  <2>6. PointPast(h, m, p, c, 1)
    <3>1. NextIsItem(m)
      BY <2>5 DEF NextIsItem, SameItems
    <3> QED BY <1>1, <1>4, <2>1, <2>5, <3>1, Domains DEF PointPast, Bridged, Within, With
  <2> QED BY <2>4, <2>5, <2>6
<1>5. CASE l # 1
  <2>1. PICK b \in DOMAIN h : b = c[2] /\ b # NULL /\ b # x /\ NextOf(c, 1) = b /\ b \in Members(c)
    <3>1. 2 \in 1..l
      BY <1>1, <1>5
    <3>2. c[2] # c[1]
      BY <1>1, <3>1 DEF Linked, Distinct
    <3> QED BY <1>1, <1>2, <1>3, <1>5, <3>1, <3>2 DEF NextOf
  <2>2. PICK h2 : h2 = SetPrev(h, b, c[l])
    OBVIOUS
  <2>3. DetachUnlinked(h, p, x) = h2
    BY <1>2, <2>1, <2>2 DEF DetachUnlinked, SetPrev
  <2>4. /\ SameItems(h, h2) /\ Heap(h2) /\ DOMAIN h2 = DOMAIN h
        /\ Prevs(h2) = With(Prevs(h), b, c[l]) /\ Nexts(h2) = Nexts(h) /\ Firsts(h2) = Firsts(h)
    BY <2>1, <2>2, PrevIsSet
  <2>5. h2[p].child = x /\ h2[x].next = b
    BY <1>2, <2>1, <2>4, Fields
  <2>6. PICK m : m = SetChild(h2, p, b)
    OBVIOUS
  <2>7. cJSON_DetachItemViaPointer(h, p, x) = SetNext(SetPrev(m, x, NULL), x, NULL)
    BY <2>3, <2>5, <2>6 DEF cJSON_DetachItemViaPointer, SetNext, SetPrev, SetChild
  <2>8. /\ SameItems(h2, m) /\ Firsts(m) = With(Firsts(h2), p, b)
        /\ Nexts(m) = Nexts(h2) /\ Prevs(m) = Prevs(h2)
    BY <2>4, <2>6, ChildIsSet
  <2>9. SameItems(h, m)
    BY <2>4, <2>8, SameAgain
  <2>10. Within(h, m, p, Members(c)) /\ Firsts(m)[p] = b
    BY <2>1, <2>4, <2>8, Domains DEF Within, With
  <2>11. \A j \in 1..l : c[j] = b <=> j = 2
    BY <1>1, <1>5, <2>1 DEF Linked, Distinct
  <2>12. ASSUME NEW j \in 1..l, j # 1
         PROVE  /\ Nexts(m)[c[j]] = IF j = 1 - 1 THEN NextOf(c, 1) ELSE NextOf(c, j)
                /\ Prevs(m)[c[j]] = IF j = After(l, 1) THEN PrevOf(c, 1) ELSE PrevOf(c, j)
    <3>1. After(l, 1) = 2
      BY <1>5 DEF After
    <3>2. Nexts(m)[c[j]] = NextOf(c, j)
      BY <1>3, <2>4, <2>8
    <3>3. Prevs(m)[c[j]] = IF j = 2 THEN c[l] ELSE PrevOf(c, j)
      BY <1>3, <2>4, <2>8, <2>11, Domains DEF With
    <3> QED BY <1>2, <3>1, <3>2, <3>3
  <2>13. NextIsItem(m)
    BY <2>4, <2>8, <2>9 DEF NextIsItem, SameItems
  <2>14. PointPast(h, m, p, c, 1)
    BY <1>1, <2>1, <2>10, <2>12, <2>13 DEF PointPast, Bridged
  <2> QED BY <2>7, <2>9, <2>14
<1> QED BY <1>4, <1>5

LEMMA LaterUnlinked ==
  ASSUME NEW h, Heap(h), NextIsItem(h), NEW p \in DOMAIN h, NEW c, Linked(h, p, c),
         NEW i \in 2..Len(c), NEW x, x = c[i]
  PROVE  \E m : /\ SameItems(h, m) /\ PointPast(h, m, p, c, i)
                /\ cJSON_DetachItemViaPointer(h, p, x) = SetNext(SetPrev(m, x, NULL), x, NULL)
<1>1. PICK l \in Nat : l = Len(c) /\ 1 \in 1..l /\ i \in 1..l /\ i - 1 \in 1..l /\ After(l, i) \in 1..l
  BY DEF Linked, After
<1>2. /\ x \in DOMAIN h /\ x # NULL /\ h[p].child = c[1] /\ Firsts(h)[p] = c[1]
      /\ h[x].next = NextOf(c, i) /\ h[x].prev = PrevOf(c, i) /\ PrevOf(c, i) = c[i - 1]
      /\ Nexts(h)[x] = NextOf(c, i) /\ Prevs(h)[x] = PrevOf(c, i)
  BY <1>1, LinkedFacts DEF PrevOf
<1>3. \A j \in 1..l : /\ c[j] \in DOMAIN h /\ c[j] # NULL /\ c[j] \in Members(c)
                     /\ Nexts(h)[c[j]] = NextOf(c, j) /\ Prevs(h)[c[j]] = PrevOf(c, j)
  BY <1>1, LinkedFacts
<1>4. \A j, k \in 1..l : c[j] = c[k] => j = k
  BY <1>1 DEF Linked, Distinct
<1>5. PICK b \in DOMAIN h, t \in DOMAIN h :
        /\ b = c[i - 1] /\ t = c[After(l, i)] /\ b # x /\ t # x /\ x # c[1]
        /\ b \in Members(c) /\ t \in Members(c)
  BY <1>1, <1>3, <1>4 DEF After
<1>6. PICK v : v = NextOf(c, i)
  OBVIOUS
<1>7. PICK h1 : h1 = SetNext(h, b, v)
  OBVIOUS
<1>8. /\ SameItems(h, h1) /\ Heap(h1) /\ DOMAIN h1 = DOMAIN h
      /\ Nexts(h1) = With(Nexts(h), b, v) /\ Prevs(h1) = Prevs(h) /\ Firsts(h1) = Firsts(h)
  BY <1>7, NextIsSet
<1>9. h1[x].next = v /\ h1[x].prev = b /\ h1[p].child = c[1]
  <2>1. Nexts(h1)[x] = v
    BY <1>2, <1>5, <1>6, <1>8, Domains DEF With
  <2>2. Prevs(h1)[x] = b /\ Firsts(h1)[p] = c[1]
    BY <1>2, <1>5, <1>8
  <2> QED BY <1>2, <1>8, <2>1, <2>2, Fields
<1>10. PICK m : m = SetPrev(h1, t, b)
  OBVIOUS
<1>11. /\ SameItems(h1, m) /\ Prevs(m) = With(Prevs(h1), t, b)
       /\ Nexts(m) = Nexts(h1) /\ Firsts(m) = Firsts(h1)
  BY <1>8, <1>10, PrevIsSet
<1>12. h1 = [h EXCEPT ![h[x].prev].next = h[x].next]
  BY <1>2, <1>5, <1>6, <1>7 DEF SetNext
<1>13. DetachUnlinked(h, p, x) = IF v # NULL THEN SetPrev(h1, v, b) ELSE h1
  BY <1>2, <1>5, <1>9, <1>12 DEF DetachUnlinked, SetPrev
<1>14. cJSON_DetachItemViaPointer(h, p, x) = SetNext(SetPrev(m, x, NULL), x, NULL)
  <2>1. CASE i = l
    <3>1. v = NULL /\ t = c[1]
      BY <1>1, <1>5, <1>6, <2>1 DEF NextOf, After
    <3>2. DetachUnlinked(h, p, x) = h1
      BY <1>13, <3>1
    <3> QED BY <1>5, <1>9, <1>10, <3>1, <3>2 DEF cJSON_DetachItemViaPointer, SetNext, SetPrev
  <2>2. CASE i # l
    <3>1. v = t /\ v # NULL
      BY <1>1, <1>3, <1>5, <1>6, <2>2 DEF NextOf, After
    <3>2. DetachUnlinked(h, p, x) = m
      BY <1>10, <1>13, <3>1
    <3>3. m[p].child = c[1] /\ m[x].next = v
      <4>1. DOMAIN m = DOMAIN h /\ Firsts(m)[p] = c[1]
        BY <1>2, <1>8, <1>11 DEF SameItems
      <4>2. Nexts(m)[x] = v
        BY <1>2, <1>5, <1>6, <1>8, <1>11, Domains DEF With
      <4> QED BY <1>2, <4>1, <4>2, Fields
    <3> QED BY <1>5, <3>1, <3>2, <3>3 DEF cJSON_DetachItemViaPointer, SetNext, SetPrev
  <2> QED BY <2>1, <2>2
<1>15. SameItems(h, m)
  BY <1>8, <1>11, SameAgain
<1>16. Within(h, m, p, Members(c)) /\ Firsts(m)[p] = c[1]
  BY <1>2, <1>5, <1>8, <1>11, Domains DEF Within, With
<1>17. ASSUME NEW j \in 1..l, j # i
       PROVE  /\ Nexts(m)[c[j]] = IF j = i - 1 THEN NextOf(c, i) ELSE NextOf(c, j)
              /\ Prevs(m)[c[j]] = IF j = After(l, i) THEN PrevOf(c, i) ELSE PrevOf(c, j)
  <2>1. (c[j] = b <=> j = i - 1) /\ (c[j] = t <=> j = After(l, i))
    BY <1>1, <1>4, <1>5
  <2>2. Nexts(m)[c[j]] = IF c[j] = b THEN v ELSE NextOf(c, j)
    BY <1>3, <1>8, <1>11, Domains DEF With
  <2>3. Prevs(m)[c[j]] = IF c[j] = t THEN b ELSE PrevOf(c, j)
    BY <1>3, <1>8, <1>11, Domains DEF With
  <2> QED BY <1>2, <1>5, <1>6, <2>1, <2>2, <2>3
<1>18. NextIsItem(m)
  <2>1. v \in DOMAIN h \cup {NULL}
    BY <1>2, <1>6 DEF NextIsItem
  <2> QED BY <1>8, <1>11, <1>15, <2>1, Domains DEF NextIsItem, SameItems, With
<1>19. PointPast(h, m, p, c, i)
  BY <1>1, <1>16, <1>17, <1>18 DEF PointPast, Bridged
<1> QED BY <1>14, <1>15, <1>19

\* The item at place i leaves the list, the others keep their order, all other
\* lists stay what they were, and what was detached leads to no sibling
\* (cJSON.c:2243-2277).
THEOREM Detaches ==
  ASSUME NEW h, NEW owners, NEW kids, Forest(h, owners, kids), NEW p \in owners,
         NEW i \in 1..Len(kids[p]), NEW x, x = kids[p][i],
         NEW n, n = cJSON_DetachItemViaPointer(h, p, x),
         NEW after, after = [kids EXCEPT ![p] = RemoveAt(kids[p], i)]
  PROVE  /\ SameItems(h, n) /\ Forest(n, owners, after)
         /\ Within(h, n, p, Members(kids[p]) \cup {x})
         /\ Unlisted(after, x) /\ Alone(n, x)
<1>1. PICK c \in Seq(DOMAIN h), l \in Nat : c = kids[p] /\ l = Len(c) /\ Linked(h, p, c)
  BY DEF Forest
<1>2. Heap(h) /\ NextIsItem(h) /\ p \in DOMAIN h /\ DOMAIN kids = owners /\ i \in 1..l /\ x = c[i]
  BY <1>1 DEF Forest
<1>3. PICK m : /\ SameItems(h, m) /\ PointPast(h, m, p, c, i)
               /\ n = SetNext(SetPrev(m, x, NULL), x, NULL)
  <2>1. CASE i = 1
    <3>1. 0 < Len(c) /\ x = c[1]
      BY <1>1, <1>2, <2>1
    <3> QED BY <1>1, <1>2, <2>1, <3>1, FirstUnlinked
  <2>2. CASE i # 1
    <3>1. i \in 2..Len(c)
      BY <1>1, <1>2, <2>2
    <3> QED BY <1>1, <1>2, <3>1, LaterUnlinked
  <2> QED BY <2>1, <2>2
<1>4. x \in DOMAIN h /\ x \in Members(c) /\ Heap(m) /\ DOMAIN m = DOMAIN h
  BY <1>1, <1>2, <1>3 DEF SameItems, Members
<1>5. PICK m2 : m2 = SetPrev(m, x, NULL)
  OBVIOUS
<1>6. /\ SameItems(m, m2) /\ Heap(m2) /\ DOMAIN m2 = DOMAIN h
      /\ Prevs(m2) = With(Prevs(m), x, NULL) /\ Nexts(m2) = Nexts(m) /\ Firsts(m2) = Firsts(m)
  BY <1>4, <1>5, PrevIsSet
<1>7. /\ SameItems(m2, n) /\ DOMAIN n = DOMAIN h
      /\ Nexts(n) = With(Nexts(m2), x, NULL) /\ Prevs(n) = Prevs(m2) /\ Firsts(n) = Firsts(m2)
  BY <1>3, <1>4, <1>5, <1>6, NextIsSet
<1>8. SameItems(h, n)
  BY <1>3, <1>6, <1>7, SameAgain
<1>9. n[x].next = NULL /\ n[x].prev = NULL
  <2>1. Nexts(n)[x] = NULL /\ Prevs(n)[x] = NULL
    BY <1>4, <1>6, <1>7, Domains DEF With
  <2> QED BY <1>4, <1>7, <2>1, Fields
<1>10. PICK d : d = RemoveAt(c, i)
  OBVIOUS
<1>11. d \in Seq(DOMAIN h) /\ Without(c, i, d)
  BY <1>1, <1>2, <1>10, Removed
<1>12. Len(d) = l - 1 /\ \A k \in 1..(l - 1) : d[k] = c[IF k < i THEN k ELSE k + 1]
  BY <1>1, <1>11 DEF Without
<1>13. \A j, k \in 1..l : c[j] = c[k] => j = k
  BY <1>1 DEF Linked, Distinct
<1>14. \A k \in 1..(l - 1) : \E j \in 1..l : j = (IF k < i THEN k ELSE k + 1) /\ j # i /\ d[k] = c[j]
  BY <1>2, <1>12
<1>15. Distinct(d) /\ Members(d) \subseteq Members(c) /\ x \notin Members(d)
  <2>1. Distinct(d)
    <3> SUFFICES ASSUME NEW k1 \in 1..(l - 1), NEW k2 \in 1..(l - 1), d[k1] = d[k2] PROVE k1 = k2
      BY <1>12 DEF Distinct
    <3>1. PICK j1 \in 1..l : j1 = (IF k1 < i THEN k1 ELSE k1 + 1) /\ d[k1] = c[j1]
      BY <1>14
    <3>2. PICK j2 \in 1..l : j2 = (IF k2 < i THEN k2 ELSE k2 + 1) /\ d[k2] = c[j2]
      BY <1>14
    <3>3. j1 = j2
      BY <1>13, <3>1, <3>2
    <3> QED BY <3>1, <3>2, <3>3
  <2>2. \A k \in 1..(l - 1) : d[k] \in Members(c) /\ d[k] # x
    BY <1>1, <1>2, <1>13, <1>14 DEF Members
  <2> QED BY <1>12, <2>1, <2>2 DEF Members
<1>16. Bridged(Nexts(n), Prevs(n), c, i)
  <2>1. ASSUME NEW j \in 1..l, j # i
        PROVE  Nexts(n)[c[j]] = Nexts(m)[c[j]] /\ Prevs(n)[c[j]] = Prevs(m)[c[j]]
    <3>1. c[j] # x /\ c[j] \in DOMAIN h
      BY <1>1, <1>2, <1>13, <2>1
    <3> QED BY <1>4, <1>6, <1>7, <3>1, Domains DEF With
  <2> QED BY <1>1, <1>3, <2>1 DEF PointPast, Bridged
<1>17. Chain(Nexts(n), Prevs(n), d)
  BY <1>1, <1>2, <1>11, <1>16, ChainWithout
<1>18. Firsts(n)[p] = IF Len(d) = 0 THEN NULL ELSE d[1]
  <2>1. Firsts(n)[p] = IF i = 1 THEN NextOf(c, 1) ELSE c[1]
    BY <1>3, <1>6, <1>7 DEF PointPast
  <2>2. CASE l = 1
    BY <1>1, <1>2, <1>12, <2>1, <2>2 DEF NextOf
  <2>3. CASE l # 1
    <3>1. 1 \in 1..(l - 1)
      BY <1>2, <2>3
    <3>2. d[1] = IF i = 1 THEN c[2] ELSE c[1]
      BY <1>2, <1>12, <3>1
    <3> QED BY <1>1, <1>12, <2>1, <2>3, <3>1, <3>2 DEF NextOf
  <2> QED BY <2>2, <2>3
<1>19. Linked(n, p, d)
  BY <1>7, <1>11, <1>15, <1>17, <1>18 DEF Linked
<1>20. Within(h, n, p, Members(c) \cup {x})
  <2>1. Within(h, m, p, Members(c))
    BY <1>3 DEF PointPast
  <2> QED BY <1>4, <1>6, <1>7, <2>1, Domains DEF Within, With
<1>21. Forest(n, owners, after)
  <2>1. Members(d) \subseteq Members(kids[p]) \cup {x} /\ x \in Members(kids[p])
    BY <1>1, <1>4, <1>15
  <2>2. NextIsItem(n)
    BY <1>3, <1>4, <1>6, <1>7, Domains DEF PointPast, NextIsItem, With
  <2>3. Forest(n, owners, [kids EXCEPT ![p] = d])
    BY <1>1, <1>8, <1>19, <1>20, <2>1, <2>2, OneListChanged
  <2> QED BY <1>1, <1>10, <2>3
<1>22. Unlisted(after, x)
  <2>1. \A q \in owners : q # p => x \notin Members(kids[q])
    BY <1>1, <1>4 DEF Forest
  <2>2. \A q \in owners : after[q] = IF q = p THEN d ELSE kids[q]
    BY <1>1, <1>2, <1>10
  <2>3. DOMAIN after = owners
    BY <1>2
  <2> QED BY <1>15, <2>1, <2>2, <2>3 DEF Unlisted
<1> QED BY <1>1, <1>8, <1>9, <1>20, <1>21, <1>22 DEF Alone

-----------------------------------------------------------------------------
(* Reading *)

(* What the walk of Children collects in k steps from each item, f[k]. *)
Walk(h, k, g) ==
  [n \in DOMAIN h \cup {NULL} |-> IF n = NULL \/ k = 0 THEN <<>> ELSE <<n>> \o g[h[n].next]]
IsWalk(h, f) ==
  f = [k \in 0..Cardinality(DOMAIN h) |->
         [n \in DOMAIN h \cup {NULL} |->
            IF n = NULL \/ k = 0 THEN <<>> ELSE <<n>> \o f[k - 1][h[n].next]]]

\* The walk is well defined where no next pointer dangles.
LEMMA WalkExists ==
  ASSUME NEW h, Heap(h), NextIsItem(h)
  PROVE  \E f : IsWalk(h, f)
<1>1. PICK D : D = DOMAIN h
  OBVIOUS
<1>2. PICK E : E = D \cup {NULL} /\ NULL \in E
  <2>1. NULL \in D \cup {NULL}
    OBVIOUS
  <2> QED BY <2>1
<1>3. PICK N \in Nat : N = Cardinality(D)
  BY <1>1, FS_CardinalityType DEF Heap
<1>4. PICK U : U = [E -> Seq(D)]
  OBVIOUS
<1>5. \A n \in D : h[n].next \in E
  BY <1>1, <1>2, Fields DEF NextIsItem
<1>6. PICK a \in U : a = [n \in E |-> <<>>]
  <2>1. <<>> \in Seq(D)
    OBVIOUS
  <2>2. [n \in E |-> <<>>] \in [E -> Seq(D)]
    BY <2>1
  <2> QED BY <1>4, <2>2
<1>7. ASSUME NEW g \in U PROVE Walk(h, 1, g) \in U
  <2>1. ASSUME NEW n \in E PROVE Walk(h, 1, g)[n] \in Seq(D)
    <3>1. CASE n = NULL
      <4>1. Walk(h, 1, g)[n] = <<>>
        BY <1>1, <1>2, <3>1 DEF Walk
      <4>2. <<>> \in Seq(D)
        OBVIOUS
      <4> QED BY <4>1, <4>2
    <3>2. CASE n # NULL
      <4>1. n \in D /\ <<n>> \in Seq(D)
        BY <1>2, <3>2
      <4>2. PICK t \in Seq(D) : t = g[h[n].next]
        BY <1>4, <1>5, <4>1
      <4>3. Walk(h, 1, g)[n] = <<n>> \o t
        BY <1>1, <1>2, <3>2, <4>2 DEF Walk
      <4>4. <<n>> \o t \in Seq(D)
        BY <4>1, <4>2, ConcatProperties
      <4> QED BY <4>3, <4>4
    <3> QED BY <3>1, <3>2
  <2>2. Walk(h, 1, g) = [n \in E |-> Walk(h, 1, g)[n]]
    BY <1>1, <1>2 DEF Walk
  <2> QED BY <1>4, <2>1, <2>2
<1>8. PICK G : G = [k \in Nat |-> [g \in U |-> Walk(h, 1, g)]]
  OBVIOUS
<1>9. G \in [Nat -> [U -> U]]
  BY <1>7, <1>8
<1>10. PICK F \in [Nat -> U] : Iterates(F, a, G)
  BY <1>6, <1>9, Recursion
<1>11. \A k \in Nat : F[k + 1] = Walk(h, 1, F[k])
  BY <1>8, <1>10 DEF Iterates
<1>12. F[0] = Walk(h, 0, F[0])
  BY <1>1, <1>2, <1>6, <1>10 DEF Iterates, Walk
<1>13. PICK f : f = [k \in 0..N |-> F[k]]
  OBVIOUS
<1>14. ASSUME NEW k \in 0..N PROVE f[k] = Walk(h, k, f[k - 1])
  <2>1. CASE k = 0
    BY <1>3, <1>12, <1>13, <2>1 DEF Walk
  <2>2. CASE k # 0
    <3>1. PICK j \in Nat : j = k - 1 /\ k = j + 1 /\ j \in 0..N
      BY <1>3, <2>2
    <3>2. f[k] = F[j + 1] /\ f[k - 1] = F[j]
      BY <1>13, <3>1
    <3>3. f[k] = Walk(h, 1, f[k - 1])
      BY <1>11, <3>1, <3>2
    <3>4. Walk(h, 1, f[k - 1]) = Walk(h, k, f[k - 1])
      BY <2>2 DEF Walk
    <3> QED BY <3>3, <3>4
  <2> QED BY <2>1, <2>2
<1>15. f = [k \in 0..N |-> Walk(h, k, f[k - 1])]
  BY <1>13, <1>14
<1>16. IsWalk(h, f)
  BY <1>1, <1>3, <1>15 DEF IsWalk, Walk
<1> QED BY <1>16

\* No list is longer than the heap has items.
LEMMA ListsFit ==
  ASSUME NEW h, Heap(h), NEW p, NEW c, Linked(h, p, c)
  PROVE  Len(c) \in Nat /\ Cardinality(DOMAIN h) \in Nat /\ Len(c) <= Cardinality(DOMAIN h)
<1>1. c \in [1..Len(c) -> DOMAIN h] /\ Len(c) \in Nat
  BY DEF Linked
<1>2. \A i, j \in 1..Len(c) : c[i] = c[j] => i = j
  BY DEF Linked, Distinct
<1>3. c \in Injection(1..Len(c), DOMAIN h)
  BY <1>1, <1>2 DEF Injection, IsInjective
<1>4. IsFiniteSet(DOMAIN h)
  BY DEF Heap
<1>5. Cardinality(1..Len(c)) <= Cardinality(DOMAIN h)
  BY <1>3, <1>4, FS_Injection
<1>6. Cardinality(1..Len(c)) = Len(c)
  <2>1. 1 \in Int /\ Len(c) \in Int
    BY <1>1
  <2>2. Cardinality(1..Len(c)) = IF 1 <= Len(c) THEN Len(c) - 1 + 1 ELSE 0
    BY <2>1, FS_Interval
  <2> QED BY <1>1, <2>2
<1> QED BY <1>1, <1>4, <1>5, <1>6, FS_CardinalityType

\* The list that starts at place i, item by item.
LEMMA TailsGrow ==
  ASSUME NEW S, NEW c \in Seq(S), NEW i \in 1..Len(c)
  PROVE  <<c[i]>> \o SubSeq(c, i + 1, Len(c)) = SubSeq(c, i, Len(c))
<1>1. PICK l \in Nat : l = Len(c)
  OBVIOUS
<1>2. PICK e \in Seq(S) : e = <<c[i]>> /\ Len(e) = 1 /\ e[1] = c[i]
  <2>1. <<c[i]>> \in Seq(S) /\ Len(<<c[i]>>) = 1 /\ <<c[i]>>[1] = c[i]
    OBVIOUS
  <2> QED BY <2>1
<1>3. PICK r \in Nat : r = l - i
  <2>1. l - i \in Nat
    BY <1>1
  <2> QED BY <2>1
<1>4. PICK b \in Seq(S) : b = SubSeq(c, i + 1, Len(c)) /\ Len(b) = r /\ \A k \in 1..r : b[k] = c[i + k]
  <2>1. SubSeq(c, i + 1, Len(c)) \in Seq(S) /\ Len(SubSeq(c, i + 1, Len(c))) = r
    BY <1>1, <1>3, SubSeqProperties
  <2>2. ASSUME NEW k \in 1..r PROVE SubSeq(c, i + 1, Len(c))[k] = c[i + k]
    <3>1. k \in 1..(Len(c) - (i + 1) + 1) /\ (i + 1) + k - 1 = i + k
      BY <1>1, <1>3
    <3> QED BY <3>1, SubSeqProperties
  <2> QED BY <2>1, <2>2
<1>5. PICK t \in Seq(S) : t = SubSeq(c, i, Len(c)) /\ Len(t) = r + 1 /\ \A k \in 1..(r + 1) : t[k] = c[i + k - 1]
  <2>1. SubSeq(c, i, Len(c)) \in Seq(S) /\ Len(SubSeq(c, i, Len(c))) = r + 1
    BY <1>1, <1>3, SubSeqProperties
  <2>2. ASSUME NEW k \in 1..(r + 1) PROVE SubSeq(c, i, Len(c))[k] = c[i + k - 1]
    <3>1. k \in 1..(Len(c) - i + 1)
      BY <1>1, <1>3
    <3> QED BY <3>1, SubSeqProperties
  <2> QED BY <2>1, <2>2
<1>6. PICK u : u = e \o b
  OBVIOUS
<1>7. u \in Seq(S) /\ Len(u) = Len(e) + Len(b) /\ \A k \in 1..Len(e) : u[k] = e[k]
  BY <1>6, Joined
<1>8. \A k \in 1..Len(b) : u[Len(e) + k] = b[k]
  BY <1>6, Joined
<1>9. \A k \in 1..(r + 1) : u[k] = t[k]
  <2> TAKE k \in 1..(r + 1)
  <2>1. CASE k = 1
    BY <1>2, <1>5, <1>7, <2>1
  <2>2. CASE k # 1
    <3>1. PICK j \in 1..r : k = 1 + j /\ i + k - 1 = i + j
      <4>1. k - 1 \in 1..r
        BY <2>2
      <4> QED BY <4>1
    <3>2. u[k] = b[j] /\ b[j] = c[i + j]
      BY <1>2, <1>4, <1>8, <3>1
    <3> QED BY <1>5, <3>1, <3>2
  <2> QED BY <2>1, <2>2
<1>10. Len(u) = Len(t)
  BY <1>2, <1>4, <1>5, <1>7
<1>11. u = t
  BY <1>5, <1>7, <1>9, <1>10, SeqEqual
<1> QED BY <1>2, <1>4, <1>5, <1>6, <1>11

\* The walk along next pointers finds the children of an item, all of them and in
\* their order (cJSON.c:1884-1934).
THEOREM Reads ==
  ASSUME NEW h, NEW owners, NEW kids, Forest(h, owners, kids), NEW p \in owners
  PROVE  Children(h, p) = kids[p]
<1>1. PICK c \in Seq(DOMAIN h), l \in Nat : c = kids[p] /\ l = Len(c) /\ Linked(h, p, c)
  BY DEF Forest
<1>2. Heap(h) /\ NextIsItem(h) /\ p \in DOMAIN h /\ NULL \notin DOMAIN h
  BY DEF Forest, Heap
<1>3. PICK N \in Nat : N = Cardinality(DOMAIN h) /\ l <= N /\ N \in 0..N
  BY <1>1, <1>2, ListsFit
<1>4. PICK f : IsWalk(h, f) /\ Children(h, p) = f[N][h[p].child]
  <2>1. IsWalk(h, CHOOSE f : IsWalk(h, f))
    BY <1>2, WalkExists
  <2>2. Children(h, p) = (CHOOSE f : IsWalk(h, f))[N][h[p].child]
    BY <1>3 DEF Children, IsWalk
  <2> QED BY <2>1, <2>2
<1>5. \A k \in 0..N, n \in DOMAIN h \cup {NULL} :
        f[k][n] = IF n = NULL \/ k = 0 THEN <<>> ELSE <<n>> \o f[k - 1][h[n].next]
  <2> SUFFICES ASSUME NEW k \in 0..N, NEW n \in DOMAIN h \cup {NULL}
               PROVE  f[k][n] = Walk(h, k, f[k - 1])[n]
    BY DEF Walk
  <2>1. f = [j \in 0..N |-> Walk(h, j, f[j - 1])]
    BY <1>3, <1>4 DEF IsWalk, Walk
  <2>2. f[k] = Walk(h, k, f[k - 1])
    BY <2>1
  <2> QED BY <2>2
<1>6. \A k \in 0..N : f[k][NULL] = <<>>
  BY <1>5
<1>7. \A i \in 1..l : c[i] \in DOMAIN h /\ c[i] # NULL /\ h[c[i]].next = NextOf(c, i)
  BY <1>1, <1>2, LinkedFacts
<1> DEFINE Found(k) == \A i \in 1..l : l - i < k => f[k][c[i]] = SubSeq(c, i, l)
           T == {k \in 0..N : Found(k)}
<1>8. 0 \in T
  BY <1>3
<1>9. ASSUME NEW k \in 0..(N - 1), Found(k) PROVE k + 1 \in 0..N /\ Found(k + 1)
  <2>1. PICK m \in 0..N : m = k + 1 /\ m # 0 /\ m - 1 = k /\ k \in 0..N
    BY <1>3
  <2> SUFFICES ASSUME NEW i \in 1..l, l - i < m PROVE f[m][c[i]] = SubSeq(c, i, l)
    BY <2>1
  <2>2. f[m][c[i]] = <<c[i]>> \o f[k][NextOf(c, i)]
    <3>1. PICK y \in DOMAIN h : y = c[i] /\ y # NULL /\ h[y].next = NextOf(c, i)
      BY <1>7
    <3>2. f[m][y] = IF y = NULL \/ m = 0 THEN <<>> ELSE <<y>> \o f[m - 1][h[y].next]
      BY <1>5
    <3> QED BY <2>1, <3>1, <3>2
  <2>3. f[k][NextOf(c, i)] = SubSeq(c, i + 1, l)
    <3>1. CASE i = l
      <4>1. f[k][NextOf(c, i)] = <<>>
        BY <1>1, <1>6, <2>1, <3>1 DEF NextOf
      <4>2. SubSeq(c, l + 1, l) = <<>>
        BY <1>1
      <4> QED BY <3>1, <4>1, <4>2
    <3>2. CASE i # l
      <4>1. i + 1 \in 1..l /\ l - (i + 1) < k
        BY <1>1, <2>1, <3>2
      <4>2. f[k][c[i + 1]] = SubSeq(c, i + 1, l)
        BY <1>9, <4>1
      <4> QED BY <1>1, <3>2, <4>2 DEF NextOf
    <3> QED BY <3>1, <3>2
  <2>4. <<c[i]>> \o SubSeq(c, i + 1, l) = SubSeq(c, i, l)
    BY <1>1, TailsGrow
  <2> QED BY <2>2, <2>3, <2>4
<1>10. N \in T
  <2>1. 0 \in Int /\ N \in Int
    BY <1>3
  <2>2. \A k \in 0..(N - 1) : k \in T => k + 1 \in T
    BY <1>9
  <2> HIDE DEF T
  <2>3. 0..N \subseteq T
    BY <1>8, <2>1, <2>2, InductBetween
  <2> QED BY <1>3, <2>3
<1>11. CASE l = 0
  <2>1. h[p].child = NULL
    BY <1>1, <1>2, <1>11, Fields DEF Linked
  <2>2. c = <<>>
    BY <1>1, <1>11, EmptySeq
  <2> QED BY <1>1, <1>3, <1>4, <1>6, <2>1, <2>2
<1>12. CASE l # 0
  <2>1. 1 \in 1..l /\ l - 1 < N
    BY <1>1, <1>3, <1>12
  <2>2. h[p].child = c[1]
    BY <1>1, <1>2, <2>1, LinkedFacts
  <2>3. f[N][c[1]] = SubSeq(c, 1, l)
    BY <1>10, <2>1
  <2>4. SubSeq(c, 1, l) = c
    BY <1>1
  <2> QED BY <1>1, <1>4, <2>2, <2>3, <2>4
<1> QED BY <1>11, <1>12

\* So the sequences of children are what Children finds: a result above or below
\* that speaks of kids speaks of what the library reads, and Forest is what
\* ListsAreLinked says of the heap of CJSON.
THEOREM AllRead ==
  ASSUME NEW h, NEW owners, NEW kids, Forest(h, owners, kids)
  PROVE  kids = [p \in owners |-> Children(h, p)]
<1>1. \A p \in owners : Children(h, p) = kids[p]
  BY Reads
<1> QED BY <1>1 DEF Forest

-----------------------------------------------------------------------------
(* Inserting *)

(* x is at hand for place i of the children c of p. *)
AtHand(h, p, c, i, x) ==
  /\ Heap(h) /\ NextIsItem(h) /\ p \in DOMAIN h /\ Linked(h, p, c)
  /\ i \in 1..Len(c) /\ x \in DOMAIN h \ Members(c)

(* Between h and n x has come before place i. *)
CameBefore(h, n, p, c, i, x) ==
  /\ SameItems(h, n) /\ NextIsItem(n) /\ Spliced(Nexts(n), Prevs(n), c, i, x)
  /\ Within(h, n, p, Members(c) \cup {x})
  /\ Firsts(n)[p] = IF i = 1 THEN x ELSE c[1]

\* What cJSON_InsertItemInArray writes before the item at place i.
LEMMA InsertEffect ==
  ASSUME NEW h, NEW p, NEW c, NEW i, NEW x, AtHand(h, p, c, i, x),
         NEW which, get_array_item(h, p, which) = c[i]
  PROVE  CameBefore(h, cJSON_InsertItemInArray(h, p, which, x), p, c, i, x)
<1>0. /\ Heap(h) /\ NextIsItem(h) /\ p \in DOMAIN h /\ Linked(h, p, c)
      /\ i \in 1..Len(c) /\ x \in DOMAIN h /\ x \notin Members(c)
  BY DEF AtHand
<1> USE <1>0
<1> PICK n : n = cJSON_InsertItemInArray(h, p, which, x)
  OBVIOUS
<1> SUFFICES CameBefore(h, n, p, c, i, x)
  OBVIOUS
<1>1. PICK l \in Nat : l = Len(c) /\ 1 \in 1..l /\ i \in 1..l
  BY DEF Linked
<1>2. \A j \in 1..l : /\ c[j] \in DOMAIN h /\ c[j] # NULL /\ c[j] \in Members(c) /\ c[j] # x
                     /\ Nexts(h)[c[j]] = NextOf(c, j) /\ Prevs(h)[c[j]] = PrevOf(c, j)
  BY <1>1, LinkedFacts
<1>3. \A j, k \in 1..l : c[j] = c[k] => j = k
  BY <1>1 DEF Linked, Distinct
<1>4. PICK a \in DOMAIN h, w \in DOMAIN h :
        a = c[i] /\ w = PrevOf(c, i) /\ a # NULL /\ a # x /\ a \in Members(c) /\ w \in Members(c) /\ w # x /\ w # NULL
  BY <1>1, <1>2 DEF PrevOf
<1>5. h[a].prev = w /\ h[p].child = c[1] /\ Firsts(h)[p] = c[1]
  BY <1>1, <1>4, LinkedFacts
<1>6. PICK h1 : h1 = SetNext(h, x, a)
  OBVIOUS
<1>7. /\ SameItems(h, h1) /\ Heap(h1) /\ DOMAIN h1 = DOMAIN h
      /\ Nexts(h1) = With(Nexts(h), x, a) /\ Prevs(h1) = Prevs(h) /\ Firsts(h1) = Firsts(h)
  BY <1>6, NextIsSet
<1>8. PICK h2 : h2 = SetPrev(h1, x, w)
  OBVIOUS
<1>9. /\ SameItems(h1, h2) /\ Heap(h2) /\ DOMAIN h2 = DOMAIN h
      /\ Prevs(h2) = With(Prevs(h1), x, w) /\ Nexts(h2) = Nexts(h1) /\ Firsts(h2) = Firsts(h1)
  BY <1>7, <1>8, PrevIsSet
<1>10. PICK h3 : h3 = SetPrev(h2, a, x)
  OBVIOUS
<1>11. /\ SameItems(h2, h3) /\ Heap(h3) /\ DOMAIN h3 = DOMAIN h
       /\ Prevs(h3) = With(Prevs(h2), a, x) /\ Nexts(h3) = Nexts(h2) /\ Firsts(h3) = Firsts(h2)
  BY <1>9, <1>10, PrevIsSet
<1>12. h3 = [h EXCEPT ![x].next = a, ![x].prev = h[a].prev, ![a].prev = x]
  BY <1>5, <1>6, <1>8, <1>10 DEF SetNext, SetPrev
<1>13. n = IF a = h[p].child THEN SetChild(h3, p, x)
           ELSE IF h[a].prev = NULL THEN h ELSE SetNext(h3, h3[x].prev, x)
  <2>1. get_array_item(h, p, which) = a
    BY <1>4
  <2>2. n = IF a = h[p].child THEN [h3 EXCEPT ![p].child = x]
            ELSE IF h[a].prev = NULL THEN h ELSE [h3 EXCEPT ![h3[x].prev].next = x]
    <3>1. n = LET after == a
                  g == h3
              IN IF after = NULL THEN add_item_to_array(h, p, x)
                 ELSE IF after = h[p].child THEN [g EXCEPT ![p].child = x]
                 ELSE IF h[after].prev = NULL THEN h
                 ELSE [g EXCEPT ![g[x].prev].next = x]
      BY <1>12, <2>1 DEF cJSON_InsertItemInArray
    <3> QED BY <1>4, <3>1
  <2> QED BY <2>2 DEF SetChild, SetNext
<1>14. SameItems(h, h3)
  BY <1>7, <1>9, <1>11, SameAgain
<1>15. NextIsItem(h3)
  BY <1>7, <1>9, <1>11, Domains DEF NextIsItem, With
<1>16. \A j \in 1..l : /\ Nexts(h3)[c[j]] = NextOf(c, j)
                      /\ Prevs(h3)[c[j]] = IF j = i THEN x ELSE PrevOf(c, j)
  <2> TAKE j \in 1..l
  <2>1. c[j] = a <=> j = i
    BY <1>1, <1>3, <1>4
  <2>2. PICK y \in DOMAIN h : /\ y = c[j] /\ y # x
                              /\ Nexts(h)[y] = NextOf(c, j) /\ Prevs(h)[y] = PrevOf(c, j)
    BY <1>2
  <2>3. Nexts(h3)[y] = NextOf(c, j)
    BY <1>7, <1>9, <1>11, <2>2, Domains DEF With
  <2>4. Prevs(h3)[y] = IF y = a THEN x ELSE PrevOf(c, j)
    BY <1>7, <1>9, <1>11, <2>2, Domains DEF With
  <2> QED BY <2>1, <2>2, <2>3, <2>4
<1>17. Nexts(h3)[x] = a /\ Prevs(h3)[x] = w /\ Firsts(h3) = Firsts(h)
  BY <1>4, <1>7, <1>9, <1>11, Domains DEF With
<1>18. Within(h, h3, p, Members(c) \cup {x})
  BY <1>4, <1>7, <1>9, <1>11, Domains DEF Within, With
<1>19. CASE i = 1
  <2>1. n = SetChild(h3, p, x)
    BY <1>4, <1>5, <1>13, <1>19
  <2>2. /\ SameItems(h3, n) /\ DOMAIN n = DOMAIN h /\ Firsts(n) = With(Firsts(h3), p, x)
        /\ Nexts(n) = Nexts(h3) /\ Prevs(n) = Prevs(h3)
    BY <1>11, <2>1, ChildIsSet
  <2>3. SameItems(h, n) /\ NextIsItem(n)
    BY <1>11, <1>14, <1>15, <2>2, SameAgain DEF NextIsItem
  <2>4. Firsts(n)[p] = x /\ Within(h, n, p, Members(c) \cup {x})
    BY <1>17, <1>18, <2>2, Domains DEF Within, With
  <2>5. Spliced(Nexts(n), Prevs(n), c, i, x)
    BY <1>1, <1>4, <1>16, <1>17, <1>19, <2>2 DEF Spliced
  <2> QED BY <1>19, <2>3, <2>4, <2>5 DEF CameBefore
<1>20. CASE i # 1
  <2>1. PICK b : b = c[i - 1] /\ i - 1 \in 1..l /\ b = w /\ a # c[1]
    BY <1>1, <1>3, <1>4, <1>20 DEF PrevOf
  <2>2. h3[x].prev = b
    BY <1>11, <1>17, <2>1, Fields
  <2>3. n = SetNext(h3, b, x)
    BY <1>4, <1>5, <1>13, <2>1, <2>2
  <2>4. /\ SameItems(h3, n) /\ DOMAIN n = DOMAIN h /\ Nexts(n) = With(Nexts(h3), b, x)
        /\ Prevs(n) = Prevs(h3) /\ Firsts(n) = Firsts(h3)
    BY <1>4, <1>11, <2>1, <2>3, NextIsSet
  <2>5. SameItems(h, n)
    BY <1>14, <2>4, SameAgain
  <2>6. NextIsItem(n)
    BY <1>11, <1>15, <2>4, Domains DEF NextIsItem, With
  <2>7. Firsts(n)[p] = c[1] /\ Within(h, n, p, Members(c) \cup {x})
    BY <1>4, <1>5, <1>11, <1>17, <1>18, <2>1, <2>4, Domains DEF Within, With
  <2>8. Nexts(n)[x] = a /\ Prevs(n)[x] = w
    BY <1>4, <1>11, <1>17, <2>1, <2>4, Domains DEF With
  <2>9. \A j \in 1..l : /\ Nexts(n)[c[j]] = IF j = i - 1 THEN x ELSE NextOf(c, j)
                       /\ Prevs(n)[c[j]] = IF j = i THEN x ELSE PrevOf(c, j)
    <3> TAKE j \in 1..l
    <3>1. c[j] = b <=> j = i - 1
      BY <1>3, <2>1
    <3>2. Nexts(n)[c[j]] = IF c[j] = b THEN x ELSE Nexts(h3)[c[j]]
      BY <1>2, <1>11, <2>4, Domains DEF With
    <3> QED BY <1>16, <2>4, <3>1, <3>2
  <2>10. Spliced(Nexts(n), Prevs(n), c, i, x)
    BY <1>1, <1>4, <2>8, <2>9 DEF Spliced
  <2> QED BY <1>20, <2>5, <2>6, <2>7, <2>10 DEF CameBefore
<1> QED BY <1>19, <1>20

\* A loose item comes before the child at that place, or last where there is no
\* such place, and all other children stay what they were (cJSON.c:2319-2351).
THEOREM Inserts ==
  ASSUME NEW h, NEW owners, NEW kids, Forest(h, owners, kids), NEW p \in owners,
         NEW x \in DOMAIN h, x # p, Unlisted(kids, x), h[x].next = NULL, NEW which \in Nat,
         NEW n, n = cJSON_InsertItemInArray(h, p, which, x),
         NEW d, d = IF which < Len(kids[p]) THEN InsertAt(kids[p], which + 1, x) ELSE Append(kids[p], x)
  PROVE  /\ SameItems(h, n) /\ Forest(n, owners, [kids EXCEPT ![p] = d])
         /\ Within(h, n, p, Members(kids[p]) \cup {x})
<1>1. PICK c \in Seq(DOMAIN h), l \in Nat : c = kids[p] /\ l = Len(c) /\ Linked(h, p, c)
  BY DEF Forest
<1>2. Heap(h) /\ NextIsItem(h) /\ p \in DOMAIN h /\ DOMAIN kids = owners /\ x \notin Members(c)
  BY <1>1 DEF Forest, Unlisted
<1>3. get_array_item(h, p, which) = IF which < l THEN c[which + 1] ELSE NULL
  BY <1>1, Reads DEF get_array_item
<1>4. CASE ~(which < l)
  <2>1. n = add_item_to_array(h, p, x) /\ d = Append(kids[p], x)
    BY <1>1, <1>3, <1>4 DEF cJSON_InsertItemInArray
  <2> QED BY <2>1, AddsLast
<1>5. CASE which < l
  <2>1. PICK i \in 1..l : i = which + 1 /\ which = i - 1
    BY <1>5
  <2>2. get_array_item(h, p, which) = c[i]
    BY <1>3, <1>5, <2>1
  <2>3. /\ SameItems(h, n) /\ NextIsItem(n) /\ Spliced(Nexts(n), Prevs(n), c, i, x)
        /\ Within(h, n, p, Members(c) \cup {x}) /\ Firsts(n)[p] = IF i = 1 THEN x ELSE c[1]
    <3>1. AtHand(h, p, c, i, x)
      BY <1>1, <1>2 DEF AtHand
    <3>2. CameBefore(h, n, p, c, i, x)
      BY <2>2, <3>1, InsertEffect
    <3> QED BY <3>2 DEF CameBefore
  <2>4. d = InsertAt(c, i, x)
    BY <1>1, <1>5, <2>1
  <2>5. d \in Seq(DOMAIN h) /\ WithBefore(c, i, x, d)
    BY <1>1, <2>4, Inserted
  <2>6. Len(d) = l + 1 /\ d[i] = x /\ \A k \in 1..l : d[IF k < i THEN k ELSE k + 1] = c[k]
    BY <1>1, <2>5 DEF WithBefore
  <2>7. ASSUME NEW k \in 1..(l + 1), k # i
        PROVE  \E j \in 1..l : j = (IF k < i THEN k ELSE k - 1) /\ d[k] = c[j]
    <3>1. PICK j \in 1..l : j = (IF k < i THEN k ELSE k - 1) /\ k = (IF j < i THEN j ELSE j + 1)
      <4>1. CASE k < i
        <5>1. k \in 1..l
          BY <4>1
        <5> QED BY <4>1, <5>1
      <4>2. CASE ~(k < i)
        <5>1. k - 1 \in 1..l /\ ~(k - 1 < i) /\ k = (k - 1) + 1
          BY <2>7, <4>2
        <5> QED BY <4>2, <5>1
      <4> QED BY <4>1, <4>2
    <3>2. d[k] = c[j]
      BY <2>6, <3>1
    <3> QED BY <3>1, <3>2
  <2>8. \A j, k \in 1..l : c[j] = c[k] => j = k
    BY <1>1 DEF Linked, Distinct
  <2>9. \A j \in 1..l : c[j] \in Members(c) /\ c[j] # x
    BY <1>1, <1>2 DEF Members
  <2>10. Distinct(d)
    <3> SUFFICES ASSUME NEW k1 \in 1..(l + 1), NEW k2 \in 1..(l + 1), d[k1] = d[k2] PROVE k1 = k2
      BY <2>6 DEF Distinct
    <3>1. \A k \in 1..(l + 1) : k = i <=> d[k] = x
      <4> TAKE k \in 1..(l + 1)
      <4>1. ASSUME k # i PROVE d[k] # x
        <5>1. PICK j \in 1..l : d[k] = c[j]
          BY <2>7, <4>1
        <5> QED BY <2>9, <5>1
      <4> QED BY <2>6, <4>1
    <3>2. CASE k1 # i /\ k2 # i
      <4>1. PICK j1 \in 1..l : j1 = (IF k1 < i THEN k1 ELSE k1 - 1) /\ d[k1] = c[j1]
        BY <2>7, <3>2
      <4>2. PICK j2 \in 1..l : j2 = (IF k2 < i THEN k2 ELSE k2 - 1) /\ d[k2] = c[j2]
        BY <2>7, <3>2
      <4>3. j1 = j2
        BY <2>8, <4>1, <4>2
      <4> QED BY <3>2, <4>1, <4>2, <4>3
    <3> QED BY <3>1, <3>2
  <2>11. Members(d) \subseteq Members(c) \cup {x}
    <3>1. \A k \in 1..(l + 1) : d[k] \in Members(c) \cup {x}
      BY <2>6, <2>7, <2>9
    <3> QED BY <2>6, <3>1 DEF Members
  <2>12. Chain(Nexts(n), Prevs(n), d)
    BY <1>1, <2>3, <2>5, ChainWith
  <2>13. Len(d) # 0 /\ Firsts(n)[p] = d[1]
    <3>1. CASE i = 1
      BY <2>3, <2>6, <3>1
    <3>2. CASE i # 1
      <4>1. 1 \in 1..l /\ 1 < i
        BY <3>2
      <4> QED BY <2>3, <2>6, <3>2, <4>1
    <3> QED BY <3>1, <3>2
  <2>14. Linked(n, p, d)
    BY <2>3, <2>5, <2>10, <2>12, <2>13 DEF Linked, SameItems
  <2>15. Forest(n, owners, [kids EXCEPT ![p] = d])
    BY <1>1, <2>3, <2>11, <2>14, OneListChanged
  <2> QED BY <1>1, <2>3, <2>15
<1> QED BY <1>4, <1>5
-----------------------------------------------------------------------------
(* Replacing *)

LEMMA Replaced ==
  ASSUME NEW S, NEW c \in Seq(S), NEW i \in 1..Len(c), NEW x \in S, NEW d, d = ReplaceAt(c, i, x)
  PROVE  d \in Seq(S) /\ WithAt(c, i, x, d)
<1>1. d = [c EXCEPT ![i] = x]
  BY DEF ReplaceAt
<1>2. d \in Seq(S) /\ Len(d) = Len(c)
  BY <1>1
<1>3. d[i] = x /\ \A k \in 1..Len(c) : k # i => d[k] = c[k]
  BY <1>1
<1> QED BY <1>2, <1>3 DEF WithAt

(* Between h and n x has come in the place of the item at i. *)
CameFor(h, n, p, c, i, x) ==
  /\ SameItems(h, n) /\ NextIsItem(n) /\ Exchanged(Nexts(n), Prevs(n), c, i, x)
  /\ Within(h, n, p, Members(c) \cup {x})
  /\ Firsts(n)[p] = IF i = 1 THEN x ELSE c[1]

(* The steps of PutInPlace: x gets the pointers of o, then the item after it,   *)
(* then those before it and the parent, are told.                              *)
Taken(h, o, x) == [h EXCEPT ![x].next = h[o].next, ![x].prev = h[o].prev]
NextTold(g, x) == IF g[x].next # NULL THEN [g EXCEPT ![g[x].next].prev = x] ELSE g
OthersTold(g, p, o, x) ==
  LET first == g[p].child IN
  IF first = o
    THEN [(IF g[first].prev = first THEN [g EXCEPT ![x].prev = x] ELSE g) EXCEPT ![p].child = x]
  ELSE LET g4 == IF g[x].prev # NULL THEN [g EXCEPT ![g[x].prev].next = x] ELSE g
       IN IF g4[x].next = NULL THEN [g4 EXCEPT ![first].prev = x] ELSE g4

LEMMA InThreeSteps ==
  \A h, p, o, x :
    PutInPlace(h, p, o, x)
      = SetPrev(SetNext(OthersTold(NextTold(Taken(h, o, x), x), p, o, x), o, NULL), o, NULL)
<1> SUFFICES ASSUME NEW h, NEW p, NEW o, NEW x
             PROVE  PutInPlace(h, p, o, x)
               = SetPrev(SetNext(OthersTold(NextTold(Taken(h, o, x), x), p, o, x), o, NULL), o, NULL)
  OBVIOUS
<1>1. PutInPlace(h, p, o, x) =
        [OthersTold(NextTold(Taken(h, o, x), x), p, o, x) EXCEPT ![o].next = NULL, ![o].prev = NULL]
  BY DEF PutInPlace, Taken, NextTold, OthersTold
<1> QED BY <1>1 DEF SetNext, SetPrev

(* In h1 x has the pointers of the item at place i. *)
HasPointersOf(h, h1, p, c, i, x) ==
  /\ SameItems(h, h1) /\ Heap(h1) /\ DOMAIN h1 = DOMAIN h
  /\ Nexts(h1) = With(Nexts(h), x, NextOf(c, i)) /\ Prevs(h1) = With(Prevs(h), x, PrevOf(c, i))
  /\ Firsts(h1) = Firsts(h)
  /\ h1[x].next = NextOf(c, i) /\ h1[x].prev = PrevOf(c, i) /\ h1[p].child = c[1]

\* x is given the pointers of the item it replaces.
LEMMA PointersTaken ==
  ASSUME NEW h, NEW p, NEW c, NEW i, NEW x, AtHand(h, p, c, i, x)
  PROVE  HasPointersOf(h, Taken(h, c[i], x), p, c, i, x)
<1>0. /\ Heap(h) /\ p \in DOMAIN h /\ Linked(h, p, c)
      /\ i \in 1..Len(c) /\ x \in DOMAIN h /\ x \notin Members(c)
  BY DEF AtHand
<1>1. PICK u, w : u = NextOf(c, i) /\ w = PrevOf(c, i)
  OBVIOUS
<1>2. h[c[i]].next = u /\ h[c[i]].prev = w /\ c[i] # x /\ Firsts(h)[p] = c[1]
  BY <1>0, <1>1, LinkedFacts
<1>3. PICK h0 : h0 = SetNext(h, x, u)
  OBVIOUS
<1>4. /\ SameItems(h, h0) /\ Heap(h0) /\ DOMAIN h0 = DOMAIN h
      /\ Nexts(h0) = With(Nexts(h), x, u) /\ Prevs(h0) = Prevs(h) /\ Firsts(h0) = Firsts(h)
  BY <1>0, <1>3, NextIsSet
<1>5. PICK h1 : h1 = SetPrev(h0, x, w)
  OBVIOUS
<1>6. /\ SameItems(h0, h1) /\ Heap(h1) /\ DOMAIN h1 = DOMAIN h
      /\ Prevs(h1) = With(Prevs(h0), x, w) /\ Nexts(h1) = Nexts(h0) /\ Firsts(h1) = Firsts(h0)
  BY <1>0, <1>4, <1>5, PrevIsSet
<1>7. SameItems(h, h1)
  BY <1>4, <1>6, SameAgain
<1>8. h1 = Taken(h, c[i], x)
  BY <1>2, <1>3, <1>5 DEF SetNext, SetPrev, Taken
<1>9. h1[x].next = u /\ h1[x].prev = w /\ h1[p].child = c[1]
  <2>1. Nexts(h1)[x] = u /\ Prevs(h1)[x] = w /\ Firsts(h1)[p] = c[1]
    BY <1>0, <1>2, <1>4, <1>6, Domains DEF With
  <2> QED BY <1>0, <1>6, <2>1, Fields
<1>10. HasPointersOf(h, h1, p, c, i, x)
  BY <1>1, <1>4, <1>6, <1>7, <1>9 DEF HasPointersOf
<1> QED BY <1>8, <1>10

\* What cJSON_ReplaceItemViaPointer writes for the first item.
LEMMA FirstReplaced ==
  ASSUME NEW h, NEW p, NEW c, NEW x, AtHand(h, p, c, 1, x), NEW o, o = c[1]
  PROVE  \E m : /\ CameFor(h, m, p, c, 1, x)
                /\ PutInPlace(h, p, o, x) = SetPrev(SetNext(m, o, NULL), o, NULL)
<1>0. /\ Heap(h) /\ NextIsItem(h) /\ p \in DOMAIN h /\ Linked(h, p, c)
      /\ 1 \in 1..Len(c) /\ x \in DOMAIN h /\ x \notin Members(c)
  BY DEF AtHand
<1>1. PICK l \in Nat : l = Len(c) /\ 1 \in 1..l /\ l \in 1..l
  BY <1>0 DEF Linked
<1>2. \A j \in 1..l : /\ c[j] \in DOMAIN h /\ c[j] # NULL /\ c[j] \in Members(c) /\ c[j] # x
                     /\ Nexts(h)[c[j]] = NextOf(c, j) /\ Prevs(h)[c[j]] = PrevOf(c, j)
  BY <1>0, <1>1, LinkedFacts
<1>3. \A j, k \in 1..l : c[j] = c[k] => j = k
  BY <1>0, <1>1 DEF Linked, Distinct
<1>4. PICK u, w : u = NextOf(c, 1) /\ w = c[l] /\ w = PrevOf(c, 1)
  BY <1>1 DEF PrevOf
<1>5. PICK h1 : h1 = Taken(h, o, x)
  OBVIOUS
<1>6. /\ SameItems(h, h1) /\ Heap(h1) /\ DOMAIN h1 = DOMAIN h
      /\ Nexts(h1) = With(Nexts(h), x, u) /\ Prevs(h1) = With(Prevs(h), x, w) /\ Firsts(h1) = Firsts(h)
      /\ h1[x].next = u /\ h1[x].prev = w /\ h1[p].child = o
  <2>1. HasPointersOf(h, h1, p, c, 1, x)
    BY <1>5, PointersTaken
  <2> QED BY <1>4, <2>1 DEF HasPointersOf
<1>7. o \in DOMAIN h /\ o # x /\ o # NULL /\ Prevs(h)[o] = w /\ Firsts(h)[p] = o
  BY <1>0, <1>1, <1>2, <1>4, LinkedFacts
<1>8. CASE l = 1
  <2>1. u = NULL /\ w = o
    BY <1>1, <1>4, <1>8 DEF NextOf
  <2>2. h1[o].prev = o
    <3>1. Prevs(h1)[o] = o
      BY <1>6, <1>7, <2>1, Domains DEF With
    <3> QED BY <1>6, <1>7, <3>1, Fields
  <2>3. PICK h2 : h2 = SetPrev(h1, x, x)
    OBVIOUS
  <2>4. PICK m : m = SetChild(h2, p, x)
    OBVIOUS
  <2>5. PutInPlace(h, p, o, x) = SetPrev(SetNext(m, o, NULL), o, NULL)
    <3>1. h1 = NextTold(h1, x)
      BY <1>6, <2>1 DEF NextTold
    <3>2. m = OthersTold(h1, p, o, x)
      BY <1>6, <2>2, <2>3, <2>4 DEF OthersTold, SetPrev, SetChild
    <3> QED BY <1>5, <3>1, <3>2, InThreeSteps
  <2>6. /\ SameItems(h1, h2) /\ Heap(h2) /\ DOMAIN h2 = DOMAIN h
        /\ Prevs(h2) = With(Prevs(h1), x, x) /\ Nexts(h2) = Nexts(h1) /\ Firsts(h2) = Firsts(h1)
    BY <1>0, <1>6, <2>3, PrevIsSet
  <2>7. /\ SameItems(h2, m) /\ DOMAIN m = DOMAIN h /\ Firsts(m) = With(Firsts(h2), p, x)
        /\ Nexts(m) = Nexts(h2) /\ Prevs(m) = Prevs(h2)
    BY <1>0, <2>4, <2>6, ChildIsSet
  <2>8. SameItems(h, m)
    BY <1>6, <2>6, <2>7, SameAgain
  <2>9. /\ Nexts(m)[x] = u /\ Prevs(m)[x] = x /\ Firsts(m)[p] = x
        /\ Within(h, m, p, Members(c) \cup {x})
    BY <1>0, <1>6, <2>6, <2>7, Domains DEF With, Within
  <2>10. NextIsItem(m)
    BY <1>0, <1>6, <2>1, <2>6, <2>7, Domains DEF NextIsItem, With
  <2>11. Exchanged(Nexts(m), Prevs(m), c, 1, x)
    BY <1>1, <1>4, <1>8, <2>9 DEF Exchanged
  <2> QED BY <2>5, <2>8, <2>9, <2>10, <2>11 DEF CameFor
<1>9. CASE l # 1
  <2>1. /\ 2 \in 1..l /\ u = c[2] /\ u \in DOMAIN h /\ u # NULL /\ u # x /\ u # o /\ w # o
        /\ u \in Members(c)
    <3>1. 2 \in 1..l /\ u = c[2]
      BY <1>1, <1>4, <1>9 DEF NextOf
    <3>2. c[2] # c[1] /\ c[l] # c[1]
      BY <1>1, <1>3, <1>9, <3>1
    <3> QED BY <1>2, <1>4, <3>1, <3>2
  <2>2. PICK h2 : h2 = SetPrev(h1, u, x)
    OBVIOUS
  <2>3. /\ SameItems(h1, h2) /\ Heap(h2) /\ DOMAIN h2 = DOMAIN h
        /\ Prevs(h2) = With(Prevs(h1), u, x) /\ Nexts(h2) = Nexts(h1) /\ Firsts(h2) = Firsts(h1)
    BY <1>6, <2>1, <2>2, PrevIsSet
  <2>4. h2[o].prev = w /\ h2[p].child = o
    <3>1. Prevs(h2)[o] = w /\ Firsts(h2)[p] = o
      BY <1>6, <1>7, <2>1, <2>3, Domains DEF With
    <3> QED BY <1>0, <1>7, <2>3, <3>1, Fields
  <2>5. PICK m : m = SetChild(h2, p, x)
    OBVIOUS
  <2>6. PutInPlace(h, p, o, x) = SetPrev(SetNext(m, o, NULL), o, NULL)
    <3>1. h2 = NextTold(h1, x)
      BY <1>6, <2>1, <2>2 DEF NextTold, SetPrev
    <3>2. m = OthersTold(h2, p, o, x)
      BY <2>1, <2>4, <2>5 DEF OthersTold, SetChild
    <3> QED BY <1>5, <3>1, <3>2, InThreeSteps
  <2>7. /\ SameItems(h2, m) /\ DOMAIN m = DOMAIN h /\ Firsts(m) = With(Firsts(h2), p, x)
        /\ Nexts(m) = Nexts(h2) /\ Prevs(m) = Prevs(h2)
    BY <1>0, <2>3, <2>5, ChildIsSet
  <2>8. SameItems(h, m)
    BY <1>6, <2>3, <2>7, SameAgain
  <2>9. /\ Nexts(m)[x] = u /\ Prevs(m)[x] = w /\ Firsts(m)[p] = x
        /\ Within(h, m, p, Members(c) \cup {x})
    BY <1>0, <1>6, <2>1, <2>3, <2>7, Domains DEF With, Within
  <2>10. NextIsItem(m)
    BY <1>0, <1>6, <2>1, <2>3, <2>7, Domains DEF NextIsItem, With
  <2>11. ASSUME NEW j \in 1..l, j # 1
         PROVE  /\ Nexts(m)[c[j]] = NextOf(c, j)
                /\ Prevs(m)[c[j]] = IF j = 2 THEN x ELSE PrevOf(c, j)
    <3>1. PICK y \in DOMAIN h : /\ y = c[j] /\ y # x /\ (y = u <=> j = 2)
                                /\ Nexts(h)[y] = NextOf(c, j) /\ Prevs(h)[y] = PrevOf(c, j)
      BY <1>2, <1>3, <2>1
    <3>2. Nexts(m)[y] = NextOf(c, j)
      BY <1>6, <2>3, <2>7, <3>1, Domains DEF With
    <3>3. Prevs(m)[y] = IF y = u THEN x ELSE PrevOf(c, j)
      BY <1>6, <2>3, <2>7, <3>1, Domains DEF With
    <3> QED BY <3>1, <3>2, <3>3
  <2>12. Exchanged(Nexts(m), Prevs(m), c, 1, x)
    BY <1>1, <1>4, <1>9, <2>9, <2>11 DEF Exchanged, After
  <2> QED BY <2>6, <2>8, <2>9, <2>10, <2>12 DEF CameFor
<1> QED BY <1>8, <1>9

\* What cJSON_ReplaceItemViaPointer writes for any other item.
LEMMA LaterReplaced ==
  ASSUME NEW h, NEW p, NEW c, NEW i, NEW x, AtHand(h, p, c, i, x), i # 1, NEW o, o = c[i]
  PROVE  \E m : /\ CameFor(h, m, p, c, i, x)
                /\ PutInPlace(h, p, o, x) = SetPrev(SetNext(m, o, NULL), o, NULL)
<1>0. /\ Heap(h) /\ NextIsItem(h) /\ p \in DOMAIN h /\ Linked(h, p, c)
      /\ i \in 1..Len(c) /\ x \in DOMAIN h /\ x \notin Members(c)
  BY DEF AtHand
<1>1. PICK l \in Nat : l = Len(c) /\ 1 \in 1..l /\ i \in 1..l /\ i - 1 \in 1..l /\ After(l, i) \in 1..l
  BY <1>0 DEF Linked, After
<1>2. \A j \in 1..l : /\ c[j] \in DOMAIN h /\ c[j] # NULL /\ c[j] \in Members(c) /\ c[j] # x
                     /\ Nexts(h)[c[j]] = NextOf(c, j) /\ Prevs(h)[c[j]] = PrevOf(c, j)
  BY <1>0, <1>1, LinkedFacts
<1>3. \A j, k \in 1..l : c[j] = c[k] => j = k
  BY <1>0, <1>1 DEF Linked, Distinct
<1>4. PICK w \in DOMAIN h, t \in DOMAIN h :
        /\ w = c[i - 1] /\ w = PrevOf(c, i) /\ w # NULL /\ w # x /\ w \in Members(c)
        /\ t = c[After(l, i)] /\ t # NULL /\ t # x /\ t \in Members(c)
  BY <1>1, <1>2 DEF PrevOf
<1>5. PICK u : u = NextOf(c, i) /\ u = (IF i = l THEN NULL ELSE t) /\ (i = l => t = c[1])
  BY <1>1, <1>4 DEF NextOf, After
<1>6. PICK h1 : h1 = Taken(h, o, x)
  OBVIOUS
<1>7. /\ SameItems(h, h1) /\ Heap(h1) /\ DOMAIN h1 = DOMAIN h
      /\ Nexts(h1) = With(Nexts(h), x, u) /\ Prevs(h1) = With(Prevs(h), x, w) /\ Firsts(h1) = Firsts(h)
      /\ h1[x].next = u /\ h1[x].prev = w /\ h1[p].child = c[1]
  <2>1. HasPointersOf(h, h1, p, c, i, x)
    BY <1>6, PointersTaken
  <2> QED BY <1>4, <1>5, <2>1 DEF HasPointersOf
<1>8. o # c[1] /\ Firsts(h)[p] = c[1]
  BY <1>0, <1>1, <1>3, LinkedFacts
<1>9. \E m : /\ SameItems(h1, m) /\ DOMAIN m = DOMAIN h
             /\ Nexts(m) = With(Nexts(h1), w, x) /\ Prevs(m) = With(Prevs(h1), t, x) /\ Firsts(m) = Firsts(h1)
             /\ m = OthersTold(NextTold(h1, x), p, o, x)
  <2>1. CASE i = l
    <3>1. NextTold(h1, x) = h1
      BY <1>5, <1>7, <2>1 DEF NextTold
    <3>2. PICK g : g = SetNext(h1, w, x)
      OBVIOUS
    <3>3. /\ SameItems(h1, g) /\ Heap(g) /\ DOMAIN g = DOMAIN h
          /\ Nexts(g) = With(Nexts(h1), w, x) /\ Prevs(g) = Prevs(h1) /\ Firsts(g) = Firsts(h1)
      BY <1>4, <1>7, <3>2, NextIsSet
    <3>4. g[x].next = NULL
      <4>1. Nexts(g)[x] = NULL
        BY <1>0, <1>4, <1>5, <1>7, <2>1, <3>3, Domains DEF With
      <4> QED BY <1>0, <3>3, <4>1, Fields
    <3>5. PICK m : m = SetPrev(g, t, x)
      OBVIOUS
    <3>6. /\ SameItems(g, m) /\ DOMAIN m = DOMAIN h
          /\ Prevs(m) = With(Prevs(g), t, x) /\ Nexts(m) = Nexts(g) /\ Firsts(m) = Firsts(g)
      BY <1>4, <3>3, <3>5, PrevIsSet
    <3>7. SameItems(h1, m)
      BY <3>3, <3>6, SameAgain
    <3>8. m = OthersTold(h1, p, o, x)
      <4>1. g = IF h1[x].prev # NULL THEN [h1 EXCEPT ![h1[x].prev].next = x] ELSE h1
        BY <1>4, <1>7, <3>2 DEF SetNext
      <4>2. OthersTold(h1, p, o, x) = IF g[x].next = NULL THEN [g EXCEPT ![c[1]].prev = x] ELSE g
        BY <1>7, <1>8, <4>1 DEF OthersTold
      <4> QED BY <1>5, <2>1, <3>4, <3>5, <4>2 DEF SetPrev
    <3> QED BY <3>1, <3>3, <3>6, <3>7, <3>8
  <2>2. CASE i # l
    <3>1. PICK h2 : h2 = SetPrev(h1, t, x)
      OBVIOUS
    <3>2. NextTold(h1, x) = h2
      BY <1>4, <1>5, <1>7, <2>2, <3>1 DEF NextTold, SetPrev
    <3>3. /\ SameItems(h1, h2) /\ Heap(h2) /\ DOMAIN h2 = DOMAIN h
          /\ Prevs(h2) = With(Prevs(h1), t, x) /\ Nexts(h2) = Nexts(h1) /\ Firsts(h2) = Firsts(h1)
      BY <1>4, <1>7, <3>1, PrevIsSet
    <3>4. h2[x].prev = w /\ h2[p].child = c[1]
      <4>1. Prevs(h2)[x] = w /\ Firsts(h2)[p] = c[1]
        BY <1>0, <1>4, <1>7, <1>8, <3>3, Domains DEF With
      <4> QED BY <1>0, <3>3, <4>1, Fields
    <3>5. PICK m : m = SetNext(h2, w, x)
      OBVIOUS
    <3>6. /\ SameItems(h2, m) /\ DOMAIN m = DOMAIN h
          /\ Nexts(m) = With(Nexts(h2), w, x) /\ Prevs(m) = Prevs(h2) /\ Firsts(m) = Firsts(h2)
      BY <1>4, <3>3, <3>5, NextIsSet
    <3>7. SameItems(h1, m)
      BY <3>3, <3>6, SameAgain
    <3>8. m[x].next # NULL
      <4>1. Nexts(m)[x] = t
        BY <1>0, <1>4, <1>5, <1>7, <2>2, <3>3, <3>6, Domains DEF With
      <4> QED BY <1>0, <1>4, <3>6, <4>1, Fields
    <3>9. m = OthersTold(h2, p, o, x)
      <4>1. m = IF h2[x].prev # NULL THEN [h2 EXCEPT ![h2[x].prev].next = x] ELSE h2
        BY <1>4, <3>4, <3>5 DEF SetNext
      <4>2. OthersTold(h2, p, o, x) = IF m[x].next = NULL THEN [m EXCEPT ![c[1]].prev = x] ELSE m
        BY <1>8, <3>4, <4>1 DEF OthersTold
      <4> QED BY <3>8, <4>2
    <3> QED BY <3>2, <3>3, <3>6, <3>7, <3>9
  <2> QED BY <2>1, <2>2
<1>10. PICK m : /\ SameItems(h1, m) /\ DOMAIN m = DOMAIN h
                /\ Nexts(m) = With(Nexts(h1), w, x) /\ Prevs(m) = With(Prevs(h1), t, x) /\ Firsts(m) = Firsts(h1)
                /\ m = OthersTold(NextTold(h1, x), p, o, x)
  BY <1>9
<1>11. PutInPlace(h, p, o, x) = SetPrev(SetNext(m, o, NULL), o, NULL)
  BY <1>6, <1>10, InThreeSteps
<1>12. SameItems(h, m)
  BY <1>7, <1>10, SameAgain
<1>13. NextIsItem(m)
  BY <1>0, <1>4, <1>5, <1>7, <1>10, Domains DEF NextIsItem, With
<1>14. /\ Nexts(m)[x] = u /\ Prevs(m)[x] = w /\ Firsts(m)[p] = c[1]
       /\ Within(h, m, p, Members(c) \cup {x})
  BY <1>0, <1>4, <1>7, <1>8, <1>10, Domains DEF With, Within
<1>15. ASSUME NEW j \in 1..l, j # i
       PROVE  /\ Nexts(m)[c[j]] = IF j = i - 1 THEN x ELSE NextOf(c, j)
              /\ Prevs(m)[c[j]] = IF j = After(l, i) THEN x ELSE PrevOf(c, j)
  <2>1. PICK y \in DOMAIN h : /\ y = c[j] /\ y # x
                              /\ Nexts(h)[y] = NextOf(c, j) /\ Prevs(h)[y] = PrevOf(c, j)
    BY <1>2
  <2>2. (y = w <=> j = i - 1) /\ (y = t <=> j = After(l, i))
    BY <1>1, <1>3, <1>4, <2>1
  <2>3. Nexts(m)[y] = IF y = w THEN x ELSE NextOf(c, j)
    BY <1>7, <1>10, <2>1, Domains DEF With
  <2>4. Prevs(m)[y] = IF y = t THEN x ELSE PrevOf(c, j)
    BY <1>7, <1>10, <2>1, Domains DEF With
  <2> QED BY <2>1, <2>2, <2>3, <2>4
<1>16. Exchanged(Nexts(m), Prevs(m), c, i, x)
  <2>1. l # 1
    BY <1>1
  <2> QED BY <1>1, <1>4, <1>5, <1>14, <1>15, <2>1 DEF Exchanged
<1> QED BY <1>11, <1>12, <1>13, <1>14, <1>16 DEF CameFor

(* The child o is at place i of the list of p, and x is in no list. *)
Replaceable(h, kids, p, i, o, x) ==
  i \in 1..Len(kids[p]) /\ o = kids[p][i] /\ x \in DOMAIN h /\ Unlisted(kids, x)

\* A loose item comes in the place of the one at that place, all other children
\* stay what they were, and what was replaced leads to no sibling
\* (cJSON.c:2353-2395, before the old item is deleted).
THEOREM Replaces ==
  ASSUME NEW h, NEW owners, NEW kids, Forest(h, owners, kids), NEW p \in owners,
         NEW i, NEW o, NEW x, Replaceable(h, kids, p, i, o, x),
         NEW n, n = PutInPlace(h, p, o, x),
         NEW after, after = [kids EXCEPT ![p] = ReplaceAt(kids[p], i, x)]
  PROVE  /\ SameItems(h, n) /\ Forest(n, owners, after)
         /\ Within(h, n, p, Members(kids[p]) \cup {x})
         /\ Unlisted(after, o) /\ Alone(n, o)
<1>0. i \in 1..Len(kids[p]) /\ o = kids[p][i] /\ x \in DOMAIN h /\ Unlisted(kids, x)
  BY DEF Replaceable
<1> USE <1>0
<1>1. PICK c \in Seq(DOMAIN h), l \in Nat : c = kids[p] /\ l = Len(c) /\ Linked(h, p, c)
  BY DEF Forest
<1>2. /\ Heap(h) /\ NextIsItem(h) /\ p \in DOMAIN h /\ DOMAIN kids = owners
      /\ i \in 1..l /\ o = c[i] /\ x \notin Members(c)
  BY <1>1 DEF Forest, Unlisted
<1>3. PICK m : CameFor(h, m, p, c, i, x) /\ n = SetPrev(SetNext(m, o, NULL), o, NULL)
  <2>1. AtHand(h, p, c, i, x)
    BY <1>1, <1>2 DEF AtHand
  <2> QED BY <1>2, <2>1, FirstReplaced, LaterReplaced
<1>4. /\ SameItems(h, m) /\ NextIsItem(m) /\ Exchanged(Nexts(m), Prevs(m), c, i, x)
      /\ Within(h, m, p, Members(c) \cup {x}) /\ Firsts(m)[p] = IF i = 1 THEN x ELSE c[1]
  BY <1>3 DEF CameFor
<1>5. Heap(m) /\ DOMAIN m = DOMAIN h /\ o \in DOMAIN h /\ o \in Members(c) /\ o # x
  BY <1>1, <1>2, <1>4 DEF SameItems, Members
<1>6. PICK m2 : m2 = SetNext(m, o, NULL)
  OBVIOUS
<1>7. /\ SameItems(m, m2) /\ Heap(m2) /\ DOMAIN m2 = DOMAIN h
      /\ Nexts(m2) = With(Nexts(m), o, NULL) /\ Prevs(m2) = Prevs(m) /\ Firsts(m2) = Firsts(m)
  BY <1>5, <1>6, NextIsSet
<1>8. /\ SameItems(m2, n) /\ DOMAIN n = DOMAIN h
      /\ Prevs(n) = With(Prevs(m2), o, NULL) /\ Nexts(n) = Nexts(m2) /\ Firsts(n) = Firsts(m2)
  BY <1>3, <1>5, <1>6, <1>7, PrevIsSet
<1>9. SameItems(h, n)
  BY <1>4, <1>7, <1>8, SameAgain
<1>10. n[o].next = NULL /\ n[o].prev = NULL
  <2>1. Nexts(n)[o] = NULL /\ Prevs(n)[o] = NULL
    BY <1>5, <1>7, <1>8, Domains DEF With
  <2> QED BY <1>5, <1>8, <2>1, Fields
<1>11. PICK d : d = ReplaceAt(c, i, x)
  OBVIOUS
<1>12. d \in Seq(DOMAIN h) /\ WithAt(c, i, x, d)
  BY <1>1, <1>2, <1>11, Replaced
<1>13. Len(d) = l /\ d[i] = x /\ \A k \in 1..l : k # i => d[k] = c[k]
  BY <1>1, <1>12 DEF WithAt
<1>14. \A j, k \in 1..l : c[j] = c[k] => j = k
  BY <1>1 DEF Linked, Distinct
<1>15. \A k \in 1..l : c[k] \in DOMAIN h /\ c[k] \in Members(c) /\ c[k] # x
  BY <1>1, <1>2 DEF Members
<1>16. Distinct(d)
  BY <1>2, <1>13, <1>14, <1>15 DEF Distinct
<1>17. \A k \in 1..l : d[k] \in Members(c) \cup {x} /\ d[k] # o
  BY <1>2, <1>5, <1>13, <1>14, <1>15
<1>18. Members(d) \subseteq Members(c) \cup {x} /\ o \notin Members(d)
  BY <1>13, <1>17 DEF Members
<1>19. Exchanged(Nexts(n), Prevs(n), c, i, x)
  <2>1. Nexts(n)[x] = Nexts(m)[x] /\ Prevs(n)[x] = Prevs(m)[x]
    BY <1>5, <1>7, <1>8, Domains DEF With
  <2>2. ASSUME NEW j \in 1..l, j # i
        PROVE  Nexts(n)[c[j]] = Nexts(m)[c[j]] /\ Prevs(n)[c[j]] = Prevs(m)[c[j]]
    <3>1. c[j] # o /\ c[j] \in DOMAIN h
      BY <1>2, <1>14, <1>15, <2>2
    <3> QED BY <1>5, <1>7, <1>8, <3>1, Domains DEF With
  <2> QED BY <1>1, <1>4, <2>1, <2>2 DEF Exchanged
<1>20. Chain(Nexts(n), Prevs(n), d)
  BY <1>1, <1>2, <1>12, <1>19, ChainReplaced
<1>21. Len(d) # 0 /\ Firsts(n)[p] = d[1]
  <2>1. l # 0 /\ 1 \in 1..l
    BY <1>2
  <2> QED BY <1>4, <1>7, <1>8, <1>13, <2>1
<1>22. Linked(n, p, d)
  BY <1>8, <1>12, <1>16, <1>20, <1>21 DEF Linked
<1>23. Within(h, n, p, Members(c) \cup {x})
  BY <1>4, <1>5, <1>7, <1>8, Domains DEF Within, With
<1>24. NextIsItem(n)
  BY <1>4, <1>5, <1>7, <1>8, Domains DEF NextIsItem, With
<1>25. Forest(n, owners, after)
  <2>1. Forest(n, owners, [kids EXCEPT ![p] = d])
    BY <1>1, <1>9, <1>18, <1>22, <1>23, <1>24, OneListChanged
  <2> QED BY <1>1, <1>11, <2>1
<1>26. Unlisted(after, o)
  <2>1. \A q \in owners : q # p => o \notin Members(kids[q])
    BY <1>1, <1>5 DEF Forest
  <2>2. \A q \in owners : after[q] = IF q = p THEN d ELSE kids[q]
    BY <1>1, <1>2, <1>11
  <2>3. DOMAIN after = owners
    BY <1>2
  <2> QED BY <1>18, <2>1, <2>2, <2>3 DEF Unlisted
<1> QED BY <1>1, <1>9, <1>10, <1>23, <1>25, <1>26 DEF Alone
=============================================================================

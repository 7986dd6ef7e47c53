---------------------------- MODULE CJSONProofs -----------------------------
(* Proofs about the heap of cJSON, for every embedder, every size of the    *)
(* heap and every shape of the trees in it.  A tree is not followed down:   *)
(* what hangs from a root is the smallest set that holds the root and is    *)
(* whole, and the functions that make, move and free trees are described by *)
(* what they do to such sets.                                               *)
EXTENDS CJSON, ItemListProofs

-----------------------------------------------------------------------------
(* Items and the trees they make *)

Owners(h) == {p \in DOMAIN h : ~h[p].ref}

(* A heap of items, for whose text malloc has been asked once at most. *)
Cells(h) ==
  /\ use.room \in Nat /\ DOMAIN h \subseteq 1..use.room
  /\ h \in [DOMAIN h -> Item]
  /\ \A p \in Owners(h) : h[p].text \in {NULL, p}

(* The items of R are in no list and lead to no sibling. *)
Loose(h, kids, R) ==
  \A x \in R : x \in DOMAIN h /\ Unlisted(kids, x) /\ h[x].next = NULL /\ h[x].prev = NULL

(* T holds with each item its children. *)
Whole(kids, T) == \A p \in DOMAIN kids : p \in T => Members(kids[p]) \subseteq T

(* Every item is one of R or below one. *)
Reached(h, kids, R) == \A T : R \subseteq T /\ Whole(kids, T) => DOMAIN h \subseteq T

(* A heap that is nothing but the trees with the roots R. *)
Grove(h, R, kids) ==
  Cells(h) /\ Forest(h, Owners(h), kids) /\ Loose(h, kids, R) /\ Reached(h, kids, R)

LEMMA ItemFields ==
  ASSUME NEW n, n \in Item
  PROVE  /\ n.type \in Leaf \cup Container /\ n.ref \in BOOLEAN /\ n.const \in BOOLEAN
         /\ n.key \in Key \cup {NoKey} /\ n.text \in Pointer
         /\ n.next \in Pointer /\ n.prev \in Pointer /\ n.child \in Pointer
         /\ DOMAIN n = {"type", "ref", "const", "key", "text", "next", "prev", "child"}
         /\ n = [f \in DOMAIN n |-> n[f]]
BY DEF Item

\* A heap of items stays one when only pointers are assigned to.
LEMMA CellsStay ==
  ASSUME NEW h, Cells(h), NEW n, SameItems(h, n),
         \A x \in DOMAIN n : n[x].next \in Pointer /\ n[x].prev \in Pointer /\ n[x].child \in Pointer
  PROVE  /\ Cells(n) /\ Owners(n) = Owners(h)
         /\ \A x \in DOMAIN h : /\ n[x].type = h[x].type /\ n[x].ref = h[x].ref /\ n[x].const = h[x].const
                                /\ n[x].key = h[x].key /\ n[x].text = h[x].text
<1>1. ASSUME NEW x \in DOMAIN h
      PROVE  /\ n[x].type = h[x].type /\ n[x].ref = h[x].ref /\ n[x].const = h[x].const
             /\ n[x].key = h[x].key /\ n[x].text = h[x].text /\ n[x] \in Item
  <2>1. h[x] \in Item /\ x \in DOMAIN n
    BY DEF Cells, SameItems
  <2>2. PICK a, b : a = h[x] /\ b = n[x]
    OBVIOUS
  <2>3. /\ DOMAIN b = DOMAIN a /\ \A f \in DOMAIN a \ Pointers : b[f] = a[f]
        /\ b = [f \in DOMAIN b |-> b[f]]
    BY <2>1, <2>2 DEF SameItems, Heap
  <2>4. /\ a.type \in Leaf \cup Container /\ a.ref \in BOOLEAN /\ a.const \in BOOLEAN
        /\ a.key \in Key \cup {NoKey} /\ a.text \in Pointer
        /\ DOMAIN a = {"type", "ref", "const", "key", "text", "next", "prev", "child"}
    BY <2>1, <2>2, ItemFields
  <2>5. b.type = a.type /\ b.ref = a.ref /\ b.const = a.const /\ b.key = a.key /\ b.text = a.text
    BY <2>3, <2>4 DEF Pointers
  <2>6. b.next \in Pointer /\ b.prev \in Pointer /\ b.child \in Pointer
    BY <2>1, <2>2
  <2>7. b \in Item
    BY <2>3, <2>4, <2>5, <2>6 DEF Item
  <2> QED BY <2>2, <2>5, <2>7
<1>2. DOMAIN n = DOMAIN h /\ n = [x \in DOMAIN n |-> n[x]]
  BY DEF SameItems, Heap
<1>3. n \in [DOMAIN n -> Item]
  BY <1>1, <1>2
<1>4. Owners(n) = Owners(h)
  BY <1>1, <1>2 DEF Owners
<1>5. \A p \in Owners(n) : n[p].text \in {NULL, p}
  BY <1>1, <1>2, <1>4 DEF Owners, Cells
<1> QED BY <1>1, <1>2, <1>3, <1>4, <1>5 DEF Cells

LEMMA GroveFacts ==
  ASSUME NEW h, NEW R, NEW kids, Grove(h, R, kids)
  PROVE  /\ Cells(h) /\ Heap(h) /\ NextIsItem(h) /\ NULL \notin DOMAIN h /\ R \subseteq DOMAIN h
         /\ DOMAIN kids = Owners(h) /\ Owners(h) \subseteq DOMAIN h
         /\ \A p \in Owners(h) : Linked(h, p, kids[p]) /\ Members(kids[p]) \subseteq DOMAIN h
                                 /\ Members(kids[p]) \cap R = {}
<1>1. Cells(h) /\ Forest(h, Owners(h), kids) /\ Loose(h, kids, R)
  BY DEF Grove
<1>2. Heap(h) /\ NextIsItem(h) /\ DOMAIN kids = Owners(h) /\ \A p \in Owners(h) : Linked(h, p, kids[p])
  BY <1>1 DEF Forest
<1>3. \A p \in Owners(h) : Members(kids[p]) \subseteq DOMAIN h
  BY <1>2 DEF Linked, Members
<1>4. \A p \in Owners(h) : Members(kids[p]) \cap R = {}
  BY <1>1, <1>2 DEF Loose, Unlisted
<1> QED BY <1>1, <1>2, <1>3, <1>4 DEF Loose, Heap, Owners

(* Between h and n the list of p became d, from what it had and x. *)
Rearranged(h, n, kids, p, x, d) ==
  /\ SameItems(h, n) /\ Forest(n, Owners(h), [kids EXCEPT ![p] = d])
  /\ Within(h, n, p, Members(kids[p]) \cup {x})
  /\ Members(d) \subseteq Members(kids[p]) \cup {x}
  /\ x \in Members(kids[p]) \cup Members(d)
  /\ \A y \in Members(kids[p]) \ Members(d) : n[y].next = NULL /\ n[y].prev = NULL

(* n has the items of h, as they were but for their lists. *)
Alike(h, n) ==
  /\ DOMAIN n = DOMAIN h
  /\ \A y \in DOMAIN h : /\ n[y].type = h[y].type /\ n[y].ref = h[y].ref /\ n[y].const = h[y].const
                         /\ n[y].key = h[y].key /\ n[y].text = h[y].text
                         /\ n[y].ref => n[y].child = h[y].child

(* What comes into the list of p is x, a root that p is not below, or is in *)
(* the list already; what leaves it makes R into R2.                         *)
Exchange(R, kids, p, x, d, B, R2) ==
  /\ x \in R \cup Members(kids[p])
  /\ Whole(kids, B) /\ Members(d) \ Members(kids[p]) \subseteq B /\ p \notin B
  /\ R2 = (R \cup Members(kids[p])) \ Members(d)

\* The items that leave a list become roots and those that come were roots, which
\* keeps trees trees when p is not below what comes.
LEMMA GroveRearranged ==
  ASSUME NEW h, NEW R, NEW kids, Grove(h, R, kids), NEW p \in Owners(h), NEW x, NEW d, NEW n,
         Rearranged(h, n, kids, p, x, d), NEW B, NEW R2, Exchange(R, kids, p, x, d, B, R2)
  PROVE  Grove(n, R2, With(kids, p, d)) /\ Owners(n) = Owners(h) /\ Alike(h, n)
<1> USE DEF Exchange
<1> DEFINE K == [kids EXCEPT ![p] = d]
           A == Members(kids[p])
           M == Members(d)
<1>1. /\ Cells(h) /\ Heap(h) /\ NULL \notin DOMAIN h /\ R \subseteq DOMAIN h
      /\ DOMAIN kids = Owners(h) /\ Owners(h) \subseteq DOMAIN h
      /\ A \subseteq DOMAIN h /\ A \cap R = {}
      /\ \A q \in Owners(h) : Members(kids[q]) \cap R = {}
  BY GroveFacts
<1>2. /\ SameItems(h, n) /\ Forest(n, Owners(h), K) /\ Within(h, n, p, A \cup {x})
      /\ M \subseteq A \cup {x} /\ x \in A \cup M
      /\ \A y \in A \ M : n[y].next = NULL /\ n[y].prev = NULL
  BY DEF Rearranged
<1>3. DOMAIN n = DOMAIN h /\ DOMAIN K = Owners(h) /\ K[p] = d /\ \A q \in Owners(h) : q # p => K[q] = kids[q]
  BY <1>1, <1>2 DEF SameItems
<1>4. /\ Heap(n) /\ NextIsItem(n) /\ \A q \in Owners(h) : Linked(n, q, K[q])
      /\ \A q, r \in Owners(h) : q # r => Members(K[q]) \cap Members(K[r]) = {}
  BY <1>2 DEF Forest
<1>5. M \subseteq R \cup A /\ x \in DOMAIN h
  BY <1>1, <1>2
<1>6. \A y \in DOMAIN h : y \notin A \cup {x} => n[y].next = h[y].next /\ n[y].prev = h[y].prev
  BY <1>2, <1>3, Fields DEF Within
<1>7. \A y \in DOMAIN h : y # p => n[y].child = h[y].child
  BY <1>2, <1>3, Fields DEF Within
<1>8. ASSUME NEW y \in DOMAIN n
      PROVE  n[y].next \in Pointer /\ n[y].prev \in Pointer /\ n[y].child \in Pointer
  <2>1. DOMAIN n \cup {NULL} \subseteq Pointer
    BY <1>1, <1>3 DEF Cells, Pointer, NULL
  <2>2. n[y].next \in Pointer
    BY <1>4, <2>1, Fields DEF NextIsItem
  <2>3. h[y].prev \in Pointer /\ h[y].child \in Pointer
    <3>1. h[y] \in Item
      BY <1>1, <1>3 DEF Cells
    <3> QED BY <3>1, ItemFields
  <2>4. n[y].prev \in Pointer
    <3>1. CASE y \in A \ M
      BY <1>2, <2>1, <3>1
    <3>2. CASE y \in M
      <4>1. PICK i \in 1..Len(d) : y = d[i]
        BY <3>2 DEF Members
      <4>2. d \in Seq(DOMAIN n) /\ n[y].prev = PrevOf(d, i) /\ Len(d) \in Nat
        <5>1. Linked(n, p, d) /\ p \in DOMAIN n
          BY <1>1, <1>3, <1>4
        <5> QED BY <1>4, <4>1, <5>1, LinkedFacts
      <4>3. PrevOf(d, i) \in DOMAIN n
        BY <4>1, <4>2 DEF PrevOf
      <4> QED BY <2>1, <4>2, <4>3
    <3>3. CASE y \notin A \cup M
      BY <1>2, <1>3, <1>6, <2>3, <3>3
    <3> QED BY <3>1, <3>2, <3>3
  <2>5. n[y].child \in Pointer
    <3>1. CASE y = p
      <4>1. Linked(n, p, d) /\ Firsts(n)[p] = n[p].child /\ p \in DOMAIN n
        BY <1>1, <1>3, <1>4, Fields
      <4>2. Firsts(n)[p] \in DOMAIN n \cup {NULL}
        BY <4>1 DEF Linked
      <4> QED BY <2>1, <3>1, <4>1, <4>2
    <3>2. CASE y # p
      BY <1>3, <1>7, <2>3, <3>2
    <3> QED BY <3>1, <3>2
  <2> QED BY <2>2, <2>4, <2>5
<1>9. /\ Cells(n) /\ Owners(n) = Owners(h)
      /\ \A y \in DOMAIN h : /\ n[y].type = h[y].type /\ n[y].ref = h[y].ref /\ n[y].const = h[y].const
                             /\ n[y].key = h[y].key /\ n[y].text = h[y].text
  BY <1>1, <1>2, <1>8, CellsStay
<1>10. Loose(n, K, R2)
  <2> SUFFICES ASSUME NEW y \in R2
               PROVE  y \in DOMAIN n /\ Unlisted(K, y) /\ n[y].next = NULL /\ n[y].prev = NULL
    BY DEF Loose
  <2>1. y \in DOMAIN n /\ y \in R \cup A /\ y \notin M
    BY <1>1, <1>3
  <2>2. Unlisted(K, y)
    <3>1. ASSUME NEW q \in Owners(h), q # p PROVE y \notin Members(kids[q])
      <4>1. CASE y \in R
        BY <1>1, <3>1, <4>1
      <4>2. CASE y \in A
        <5>1. Members(kids[q]) \cap Members(kids[p]) = {}
          BY <3>1 DEF Grove, Forest
        <5> QED BY <4>2, <5>1
      <4> QED BY <2>1, <4>1, <4>2
    <3> QED BY <1>3, <2>1, <3>1 DEF Unlisted
  <2>3. n[y].next = NULL /\ n[y].prev = NULL
    <3>1. CASE y \in A
      BY <1>2, <2>1, <3>1
    <3>2. CASE y \in R
      <4>1. y # x /\ y \notin A /\ h[y].next = NULL /\ h[y].prev = NULL
        <5>1. y \notin A
          BY <1>1, <3>2
        <5>2. y # x
          BY <1>2, <2>1, <5>1
        <5> QED BY <3>2, <5>1, <5>2 DEF Grove, Loose
      <4> QED BY <1>3, <1>6, <2>1, <4>1
    <3> QED BY <2>1, <3>1, <3>2
  <2> QED BY <2>1, <2>2, <2>3
<1>11. Reached(n, K, R2)
  <2> SUFFICES ASSUME NEW T, R2 \subseteq T, Whole(K, T) PROVE DOMAIN h \subseteq T
    BY <1>3 DEF Reached
  <2>1. \A q \in Owners(h) : q \in T => Members(K[q]) \subseteq T
    BY <1>3 DEF Whole
  <2>2. ASSUME NEW S, p \in S => A \subseteq S, S = T \cup B \/ S = T PROVE Whole(kids, S)
    <3> SUFFICES ASSUME NEW q \in Owners(h), q \in S PROVE Members(kids[q]) \subseteq S
      BY <1>1 DEF Whole
    <3>1. CASE q = p
      BY <2>2, <3>1
    <3>2. CASE q # p /\ q \in T
      BY <1>3, <2>1, <2>2, <3>2
    <3>3. CASE q \in B /\ S = T \cup B
      BY <1>1, <3>3 DEF Whole
    <3> QED BY <2>2, <3>1, <3>2, <3>3
  <2>3. ASSUME p \in T PROVE R \cup A \subseteq T
    <3>1. M \subseteq T
      BY <1>3, <2>1, <2>3
    <3> QED BY <3>1
  <2>4. p \in T
    <3>1. PICK S : S = T \cup B
      OBVIOUS
    <3>2. Whole(kids, S)
      <4>1. p \in S => A \subseteq S
        BY <2>3, <3>1
      <4> QED BY <2>2, <3>1, <4>1
    <3>3. R \subseteq S
      BY <1>1, <3>1
    <3>4. DOMAIN h \subseteq S
      BY <3>2, <3>3 DEF Grove, Reached
    <3> QED BY <1>1, <3>1, <3>4
  <2>5. Whole(kids, T)
    BY <2>2, <2>3, <2>4
  <2> QED BY <2>3, <2>4, <2>5 DEF Grove, Reached
<1>12. Grove(n, R2, K)
  BY <1>2, <1>9, <1>10, <1>11 DEF Grove
<1>13. \A y \in DOMAIN h : n[y].ref => n[y].child = h[y].child
  BY <1>7, <1>9 DEF Owners
<1> QED BY <1>3, <1>9, <1>12, <1>13 DEF Alike, With

LEMMA CellsAreHeap == ASSUME NEW h, Cells(h) PROVE Heap(h) /\ DOMAIN h \cup {NULL} \subseteq Pointer
<1>1. use.room \in Nat /\ DOMAIN h \subseteq 1..use.room /\ h \in [DOMAIN h -> Item]
  BY DEF Cells
<1>2. IsFiniteSet(DOMAIN h)
  <2>1. PICK N \in Nat : N = use.room
    BY <1>1
  <2>2. IsFiniteSet(1..N)
    BY FS_Interval
  <2> QED BY <1>1, <2>1, <2>2, FS_Subset
<1>3. \A x \in DOMAIN h : h[x] = [f \in DOMAIN h[x] |-> h[x][f]] /\ Pointers \subseteq DOMAIN h[x]
  <2> TAKE x \in DOMAIN h
  <2>1. h[x] \in Item
    BY <1>1
  <2> QED BY <2>1, ItemFields DEF Pointers
<1>4. NULL \notin DOMAIN h
  BY <1>1 DEF NULL
<1>5. DOMAIN h \cup {NULL} \subseteq Pointer
  BY <1>1 DEF NULL, Pointer
<1> QED BY <1>1, <1>2, <1>3, <1>4, <1>5 DEF Heap

\* What is not a pointer has no say in the shape of the trees.
LEMMA GroveRelabelled ==
  ASSUME NEW h, NEW R, NEW kids, Grove(h, R, kids), NEW n, Cells(n), DOMAIN n = DOMAIN h,
         Owners(n) = Owners(h),
         \A x \in DOMAIN h : n[x].next = h[x].next /\ n[x].prev = h[x].prev /\ n[x].child = h[x].child
  PROVE  Grove(n, R, kids)
<1>1. Nexts(n) = Nexts(h) /\ Prevs(n) = Prevs(h) /\ Firsts(n) = Firsts(h) /\ Heap(n)
  BY CellsAreHeap DEF Nexts, Prevs, Firsts
<1>2. Forest(n, Owners(n), kids)
  <2>1. Forest(h, Owners(h), kids)
    BY DEF Grove
  <2> QED BY <1>1, <2>1 DEF Forest, Linked, NextIsItem
<1>3. Loose(n, kids, R) /\ Reached(n, kids, R)
  BY DEF Grove, Loose, Reached
<1> QED BY <1>2, <1>3 DEF Grove

-----------------------------------------------------------------------------
(* Two heaps that have no item in common, and a heap in two parts *)

Both(f, g) == [x \in DOMAIN f \cup DOMAIN g |-> IF x \in DOMAIN f THEN f[x] ELSE g[x]]
Part(f, S) == [x \in S |-> f[x]]

LEMMA SeqIn == ASSUME NEW S, NEW T, S \subseteq T, NEW c \in Seq(S) PROVE c \in Seq(T)
OBVIOUS

\* A list is one in every heap that has its items as they are.
LEMMA LinkedIn ==
  ASSUME NEW h, NEW p \in DOMAIN h, NEW c, Linked(h, p, c), NEW n, p \in DOMAIN n,
         Members(c) \subseteq DOMAIN n, n[p].child = h[p].child,
         \A x \in Members(c) : n[x].next = h[x].next /\ n[x].prev = h[x].prev
  PROVE  Linked(n, p, c)
<1>1. \A i \in 1..Len(c) : c[i] \in DOMAIN h /\ c[i] \in DOMAIN n /\ c[i] \in Members(c)
  BY DEF Linked, Members
<1>2. \A i \in 1..Len(c) : Nexts(n)[c[i]] = Nexts(h)[c[i]] /\ Prevs(n)[c[i]] = Prevs(h)[c[i]]
  BY <1>1, Fields
<1>3. Firsts(n)[p] = Firsts(h)[p]
  BY Fields
<1>4. c \in Seq(DOMAIN n)
  BY <1>1 DEF Linked
<1> QED BY <1>2, <1>3, <1>4 DEF Linked, Chain

(* h is a heap with the items of a and of b. *)
Holds(h, a, b) ==
  /\ Cells(h) /\ DOMAIN h = DOMAIN a \cup DOMAIN b /\ Owners(h) = Owners(a) \cup Owners(b)
  /\ (\A x \in DOMAIN a : h[x] = a[x]) /\ (\A x \in DOMAIN b : h[x] = b[x])

LEMMA CellsInBoth ==
  ASSUME NEW a, Cells(a), NEW b, Cells(b), DOMAIN a \cap DOMAIN b = {}, NEW h, h = Both(a, b)
  PROVE  Holds(h, a, b)
<1>1. /\ DOMAIN h = DOMAIN a \cup DOMAIN b
      /\ (\A x \in DOMAIN a : h[x] = a[x]) /\ (\A x \in DOMAIN b : h[x] = b[x])
  BY DEF Both
<1>2. h \in [DOMAIN h -> Item]
  BY <1>1 DEF Cells, Both
<1>3. Owners(h) = Owners(a) \cup Owners(b)
  BY <1>1 DEF Owners
<1>4. \A p \in Owners(h) : h[p].text \in {NULL, p}
  BY <1>1, <1>3 DEF Owners, Cells
<1> QED BY <1>1, <1>2, <1>3, <1>4 DEF Cells, Holds

LEMMA GroveBoth ==
  ASSUME NEW a, NEW Ra, NEW ka, Grove(a, Ra, ka), NEW b, NEW Rb, NEW kb, Grove(b, Rb, kb),
         DOMAIN a \cap DOMAIN b = {}, NEW h, h = Both(a, b)
  PROVE  Grove(h, Ra \cup Rb, Both(ka, kb))
<1> DEFINE K == Both(ka, kb)
<1>1. /\ Cells(h) /\ DOMAIN h = DOMAIN a \cup DOMAIN b /\ Owners(h) = Owners(a) \cup Owners(b)
      /\ (\A x \in DOMAIN a : h[x] = a[x]) /\ (\A x \in DOMAIN b : h[x] = b[x])
  <2>1. Cells(a) /\ Cells(b)
    BY DEF Grove
  <2> QED BY <2>1, CellsInBoth DEF Holds
<1>2. /\ Heap(a) /\ NextIsItem(a) /\ NULL \notin DOMAIN a /\ Ra \subseteq DOMAIN a
      /\ DOMAIN ka = Owners(a) /\ Owners(a) \subseteq DOMAIN a
      /\ \A p \in Owners(a) : Linked(a, p, ka[p]) /\ Members(ka[p]) \subseteq DOMAIN a
  BY GroveFacts
<1>3. /\ Heap(b) /\ NextIsItem(b) /\ NULL \notin DOMAIN b /\ Rb \subseteq DOMAIN b
      /\ DOMAIN kb = Owners(b) /\ Owners(b) \subseteq DOMAIN b
      /\ \A p \in Owners(b) : Linked(b, p, kb[p]) /\ Members(kb[p]) \subseteq DOMAIN b
  BY GroveFacts
<1>4. /\ DOMAIN K = Owners(h) /\ (\A p \in Owners(a) : K[p] = ka[p])
      /\ (\A p \in Owners(b) : p \notin Owners(a) /\ K[p] = kb[p])
  BY <1>1, <1>2, <1>3 DEF Both
<1> HIDE DEF K
<1>5. Heap(h)
  BY <1>1, CellsAreHeap
<1>6. NextIsItem(h)
  <2> SUFFICES ASSUME NEW x \in DOMAIN h PROVE Nexts(h)[x] \in DOMAIN h \cup {NULL}
    BY DEF NextIsItem
  <2>1. CASE x \in DOMAIN a
    BY <1>1, <1>2, <2>1, Fields DEF NextIsItem
  <2>2. CASE x \in DOMAIN b
    BY <1>1, <1>3, <2>2, Fields DEF NextIsItem
  <2> QED BY <1>1, <2>1, <2>2
<1>7. \A p \in Owners(h) : Linked(h, p, K[p])
  <2> TAKE p \in Owners(h)
  <2>1. CASE p \in Owners(a)
    <3>1. Linked(a, p, ka[p]) /\ Members(ka[p]) \subseteq DOMAIN a /\ p \in DOMAIN a
      BY <1>2, <2>1
    <3>2. Linked(h, p, ka[p])
      BY <1>1, <3>1, LinkedIn
    <3> QED BY <1>4, <2>1, <3>2
  <2>2. CASE p \in Owners(b)
    <3>1. Linked(b, p, kb[p]) /\ Members(kb[p]) \subseteq DOMAIN b /\ p \in DOMAIN b
      BY <1>3, <2>2
    <3>2. Linked(h, p, kb[p])
      BY <1>1, <3>1, LinkedIn
    <3> QED BY <1>4, <2>2, <3>2
  <2> QED BY <1>1, <2>1, <2>2
<1>8. \A p, q \in Owners(h) : p # q => Members(K[p]) \cap Members(K[q]) = {}
  <2>1. \A p, q \in Owners(a) : p # q => Members(ka[p]) \cap Members(ka[q]) = {}
    BY DEF Grove, Forest
  <2>2. \A p, q \in Owners(b) : p # q => Members(kb[p]) \cap Members(kb[q]) = {}
    BY DEF Grove, Forest
  <2>3. \A p \in Owners(a), q \in Owners(b) : Members(ka[p]) \cap Members(kb[q]) = {}
    BY <1>2, <1>3
  <2> QED BY <1>1, <1>4, <2>1, <2>2, <2>3
<1>9. K \in [Owners(h) -> Seq(DOMAIN h)]
  <2>1. K = [p \in DOMAIN K |-> K[p]]
    BY DEF K, Both
  <2>2. \A p \in Owners(h) : K[p] \in Seq(DOMAIN h)
    BY <1>7 DEF Linked
  <2> QED BY <1>4, <2>1, <2>2
<1>10. Forest(h, Owners(h), K)
  BY <1>1, <1>2, <1>3, <1>5, <1>6, <1>7, <1>8, <1>9 DEF Forest
<1>11. Loose(h, K, Ra \cup Rb)
  <2>1. ASSUME NEW x \in Ra \cup Rb, NEW p \in Owners(h) PROVE x \notin Members(K[p])
    <3>1. x \in Ra => \A q \in Owners(a) : x \notin Members(ka[q])
      BY <1>2 DEF Grove, Loose, Unlisted
    <3>2. x \in Rb => \A q \in Owners(b) : x \notin Members(kb[q])
      BY <1>3 DEF Grove, Loose, Unlisted
    <3> QED BY <1>1, <1>2, <1>3, <1>4, <2>1, <3>1, <3>2
  <2>2. ASSUME NEW x \in Ra \cup Rb PROVE x \in DOMAIN h /\ h[x].next = NULL /\ h[x].prev = NULL
    BY <1>1, <1>2, <1>3 DEF Grove, Loose
  <2> QED BY <1>4, <2>1, <2>2 DEF Loose, Unlisted
<1>12. Reached(h, K, Ra \cup Rb)
  <2> SUFFICES ASSUME NEW T, Ra \cup Rb \subseteq T, Whole(K, T) PROVE DOMAIN h \subseteq T
    BY DEF Reached
  <2>1. Whole(ka, T)
    BY <1>1, <1>2, <1>4 DEF Whole
  <2>2. Whole(kb, T)
    BY <1>1, <1>3, <1>4 DEF Whole
  <2>3. DOMAIN a \subseteq T
    BY <2>1 DEF Grove, Reached
  <2>4. DOMAIN b \subseteq T
    BY <2>2 DEF Grove, Reached
  <2> QED BY <1>1, <2>3, <2>4
<1> QED BY <1>1, <1>10, <1>11, <1>12 DEF Grove, K

\* A set that neither a list leads into nor one out of is a grove of its own.
LEMMA GrovePart ==
  ASSUME NEW h, NEW R, NEW kids, Grove(h, R, kids), NEW C \in SUBSET DOMAIN h,
         Whole(kids, C), Whole(kids, DOMAIN h \ C), NEW g, g = Part(h, C)
  PROVE  Grove(g, R \cap C, Part(kids, Owners(g))) /\ Owners(g) = Owners(h) \cap C /\ DOMAIN g = C
<1> DEFINE K == Part(kids, Owners(g))
<1>1. /\ Cells(h) /\ NextIsItem(h) /\ NULL \notin DOMAIN h /\ R \subseteq DOMAIN h
      /\ DOMAIN kids = Owners(h) /\ Owners(h) \subseteq DOMAIN h
      /\ \A p \in Owners(h) : Linked(h, p, kids[p]) /\ Members(kids[p]) \subseteq DOMAIN h
  BY GroveFacts
<1>2. DOMAIN g = C /\ (\A x \in C : g[x] = h[x]) /\ Owners(g) = Owners(h) \cap C
  BY DEF Part, Owners
<1>3. Cells(g)
  <2>1. g \in [DOMAIN g -> Item]
    BY <1>1, <1>2 DEF Cells, Part
  <2> QED BY <1>1, <1>2, <2>1 DEF Cells
<1>4. DOMAIN K = Owners(g) /\ (\A p \in Owners(g) : K[p] = kids[p]) /\ K = [p \in DOMAIN K |-> K[p]]
  BY DEF Part
<1> HIDE DEF K
<1>5. \A p \in Owners(g) : Members(K[p]) \subseteq C
  BY <1>1, <1>2, <1>4 DEF Whole
<1>6. \A p \in Owners(g) : Linked(g, p, K[p])
  <2> TAKE p \in Owners(g)
  <2>1. Linked(h, p, kids[p]) /\ Members(kids[p]) \subseteq DOMAIN g /\ p \in DOMAIN g /\ p \in DOMAIN h
    BY <1>1, <1>2, <1>4, <1>5
  <2>2. Linked(g, p, kids[p])
    BY <1>2, <2>1, LinkedIn
  <2> QED BY <1>4, <2>2
<1>7. NextIsItem(g)
  <2> SUFFICES ASSUME NEW x \in C, g[x].next # NULL PROVE g[x].next \in C
    BY <1>2, Fields DEF NextIsItem
  <2>1. x \in DOMAIN h /\ h[x].next \in DOMAIN h /\ h[x].next # NULL
    BY <1>1, <1>2, Fields DEF NextIsItem
  <2>2. CASE \E p \in Owners(h) : x \in Members(kids[p])
    <3>1. PICK p \in Owners(h) : x \in Members(kids[p])
      BY <2>2
    <3>2. PICK c : c = kids[p]
      OBVIOUS
    <3>3. Linked(h, p, c) /\ Len(c) \in Nat /\ p \in DOMAIN h /\ Heap(h)
      BY <1>1, <3>2, GroveFacts DEF Linked
    <3>4. PICK i \in 1..Len(c) : x = c[i]
      BY <3>1, <3>2 DEF Members
    <3>5. h[x].next = NextOf(c, i)
      BY <3>3, <3>4, LinkedFacts
    <3>6. h[x].next \in Members(kids[p])
      <4>1. i # Len(c) /\ h[x].next = c[i + 1] /\ i + 1 \in 1..Len(c)
        BY <2>1, <3>3, <3>4, <3>5 DEF NextOf
      <4> QED BY <3>2, <4>1 DEF Members
    <3>7. p \in C
      BY <1>1, <3>1 DEF Whole
    <3> QED BY <1>1, <1>2, <3>6, <3>7 DEF Whole
  <2>3. CASE \A p \in Owners(h) : x \notin Members(kids[p])
    <3> DEFINE T == R \cup {y \in DOMAIN h : \E p \in Owners(h) : y \in Members(kids[p])}
    <3>1. Whole(kids, T)
      BY <1>1 DEF Whole
    <3>2. R \subseteq T
      OBVIOUS
    <3> HIDE DEF T
    <3>3. x \in T
      BY <2>1, <3>1, <3>2 DEF Grove, Reached
    <3>4. x \in R
      BY <2>3, <3>3 DEF T
    <3> QED BY <2>1, <3>4 DEF Grove, Loose
  <2> QED BY <2>2, <2>3
<1>8. Forest(g, Owners(g), K)
  <2>1. \A p, q \in Owners(g) : p # q => Members(K[p]) \cap Members(K[q]) = {}
    BY <1>2, <1>4 DEF Grove, Forest
  <2>2. K \in [Owners(g) -> Seq(DOMAIN g)]
    <3>1. \A p \in Owners(g) : K[p] \in Seq(DOMAIN g)
      BY <1>6 DEF Linked
    <3> QED BY <1>4, <3>1
  <2>3. Heap(g) /\ Owners(g) \subseteq DOMAIN g
    BY <1>3, CellsAreHeap DEF Owners
  <2> QED BY <1>6, <1>7, <2>1, <2>2, <2>3 DEF Forest
<1>9. Loose(g, K, R \cap C)
  BY <1>1, <1>2, <1>4 DEF Grove, Loose, Unlisted
<1>10. Reached(g, K, R \cap C)
  <2> SUFFICES ASSUME NEW T, R \cap C \subseteq T, Whole(K, T) PROVE C \subseteq T
    BY <1>2 DEF Reached
  <2>1. PICK S : S = (T \cap C) \cup (DOMAIN h \ C)
    OBVIOUS
  <2>2. Whole(kids, S)
    BY <1>1, <1>2, <1>4, <1>5, <2>1 DEF Whole
  <2>3. R \subseteq S
    BY <1>1, <2>1
  <2>4. DOMAIN h \subseteq S
    BY <2>2, <2>3 DEF Grove, Reached
  <2> QED BY <2>1, <2>4
<1> QED BY <1>2, <1>3, <1>8, <1>9, <1>10 DEF Grove, K

-----------------------------------------------------------------------------
(* What hangs from a root *)

LEMMA ClosureLeast ==
  ASSUME NEW f, NEW S, NEW T \in SUBSET DOMAIN f, S \subseteq T, \A n \in T : f[n] \subseteq T
  PROVE  Closure(f, S) \subseteq T
BY DEF Closure

LEMMA ClosureCloses ==
  ASSUME NEW f, NEW S, NEW C, C = Closure(f, S)
  PROVE  /\ C \subseteq DOMAIN f /\ S \cap DOMAIN f \subseteq C
         /\ \A n \in C : f[n] \cap DOMAIN f \subseteq C
<1> DEFINE Closed == {T \in SUBSET DOMAIN f : S \subseteq T /\ \A n \in T : f[n] \subseteq T}
<1>1. C = {n \in DOMAIN f : \A T \in Closed : n \in T}
  BY DEF Closure
<1>2. \A T \in Closed : S \subseteq T /\ \A n \in T : f[n] \subseteq T
  OBVIOUS
<1> HIDE DEF Closed
<1> QED BY <1>1, <1>2

\* cJSON_Delete visits a tree that is whole, and nothing else.
LEMMA TreeIsDoomed ==
  ASSUME NEW g, NEW S, NEW kids, Grove(g, S, kids), NEW h, DOMAIN g \subseteq DOMAIN h,
         \A n \in DOMAIN g : h[n].next = g[n].next /\ h[n].child = g[n].child /\ h[n].ref = g[n].ref
  PROVE  Doomed(h, S) = DOMAIN g
<1>1. /\ Cells(g) /\ Heap(g) /\ NextIsItem(g) /\ NULL \notin DOMAIN g /\ S \subseteq DOMAIN g
      /\ DOMAIN kids = Owners(g) /\ Owners(g) \subseteq DOMAIN g
      /\ \A p \in Owners(g) : Linked(g, p, kids[p]) /\ Members(kids[p]) \subseteq DOMAIN g
  BY GroveFacts
<1>2. PICK f : f = [n \in DOMAIN h |-> Visited(h[n])]
  OBVIOUS
<1>3. PICK T : T = Closure(f, S) /\ T = Doomed(h, S)
  BY <1>2 DEF Doomed
<1>4. \A n \in DOMAIN g : f[n] = ({g[n].next} \cup IF g[n].ref THEN {} ELSE {g[n].child}) \ {NULL}
  BY <1>2 DEF Visited
<1>5. T \subseteq DOMAIN g
  <2>1. ASSUME NEW n \in DOMAIN g PROVE f[n] \subseteq DOMAIN g
    <3>1. g[n].next \in DOMAIN g \cup {NULL}
      BY <1>1, Fields DEF NextIsItem
    <3>2. ~g[n].ref => g[n].child \in DOMAIN g \cup {NULL}
      <4> SUFFICES ASSUME ~g[n].ref PROVE g[n].child \in DOMAIN g \cup {NULL}
        OBVIOUS
      <4>1. Linked(g, n, kids[n])
        BY <1>1 DEF Owners
      <4>2. Firsts(g)[n] \in DOMAIN g \cup {NULL}
        BY <4>1 DEF Linked
      <4> QED BY <4>2, Fields
    <3> QED BY <1>4, <3>1, <3>2
  <2>2. DOMAIN g \in SUBSET DOMAIN f /\ S \subseteq DOMAIN g
    BY <1>1, <1>2
  <2> QED BY <1>3, <2>1, <2>2, ClosureLeast
<1>6. /\ S \subseteq T
      /\ \A n \in T : f[n] \cap DOMAIN h \subseteq T
  <2>1. DOMAIN f = DOMAIN h /\ S \subseteq DOMAIN h
    BY <1>1, <1>2
  <2>2. S \cap DOMAIN f \subseteq T /\ \A n \in T : f[n] \cap DOMAIN f \subseteq T
    BY <1>3, ClosureCloses
  <2> QED BY <2>1, <2>2
<1>7. ASSUME NEW p \in Owners(g), p \in T PROVE Members(kids[p]) \subseteq T
  <2>1. PICK c : c = kids[p]
    OBVIOUS
  <2>2. /\ Linked(g, p, c) /\ p \in DOMAIN g /\ ~g[p].ref
    BY <1>1, <2>1 DEF Owners
  <2>3. PICK l \in Nat : l = Len(c)
    BY <2>2 DEF Linked
  <2>4. \A i \in 1..l : /\ c[i] \in DOMAIN g /\ c[i] # NULL /\ g[p].child = c[1]
                        /\ g[c[i]].next = NextOf(c, i)
    BY <1>1, <2>2, <2>3, LinkedFacts
  <2>5. CASE l = 0
    BY <2>1, <2>3, <2>5 DEF Members
  <2>6. CASE l # 0
    <3> DEFINE U == {i \in 1..l : c[i] \in T}
    <3>1. 1 \in U
      <4>1. 1 \in 1..l /\ c[1] \in f[p] /\ c[1] \in DOMAIN h
        BY <1>4, <2>2, <2>4, <2>6
      <4> QED BY <1>6, <1>7, <4>1
    <3>2. ASSUME NEW i \in 1..(l - 1), i \in U PROVE i + 1 \in U
      <4>1. i + 1 \in 1..l /\ i # l /\ i \in 1..l /\ c[i] \in T
        BY <3>2
      <4>2. g[c[i]].next = c[i + 1] /\ c[i + 1] # NULL /\ c[i + 1] \in DOMAIN h /\ c[i] \in DOMAIN g
        BY <2>3, <2>4, <4>1 DEF NextOf
      <4>3. c[i + 1] \in f[c[i]]
        BY <1>4, <4>2
      <4> QED BY <1>6, <4>1, <4>2, <4>3
    <3> HIDE DEF U
    <3>3. 1..l \subseteq U
      BY <3>1, <3>2, InductBetween
    <3> QED BY <2>1, <2>3, <3>3 DEF U, Members
  <2> QED BY <2>5, <2>6
<1>8. Whole(kids, T)
  BY <1>1, <1>7 DEF Whole
<1>9. DOMAIN g \subseteq T
  BY <1>6, <1>8 DEF Grove, Reached
<1> QED BY <1>3, <1>5, <1>9

(* C is the tree of the root x. *)
TreeOf(h, R, kids, x, C) ==
  /\ C \subseteq DOMAIN h /\ R \cap C = {x}
  /\ Whole(kids, C) /\ Whole(kids, DOMAIN h \ C)

\* A root and what hangs from it can be taken out.
LEMMA TreeTaken ==
  ASSUME NEW h, NEW R, NEW kids, Grove(h, R, kids), NEW x \in R
  PROVE  \E C : TreeOf(h, R, kids, x, C)
<1> DEFINE C == {n \in DOMAIN h : \A T : x \in T /\ Whole(kids, T) => n \in T}
           rest == DOMAIN h \ C
<1>1. /\ R \subseteq DOMAIN h /\ DOMAIN kids = Owners(h) /\ Owners(h) \subseteq DOMAIN h
      /\ \A p \in Owners(h) : Members(kids[p]) \subseteq DOMAIN h /\ Members(kids[p]) \cap R = {}
  BY GroveFacts
<1>2. \A T : x \in T /\ Whole(kids, T) => C \subseteq T
  OBVIOUS
<1>3. x \in C
  BY <1>1
<1>4. Whole(kids, C)
  <2> SUFFICES ASSUME NEW p \in Owners(h), p \in C, NEW y \in Members(kids[p]) PROVE y \in C
    BY <1>1 DEF Whole
  <2>1. ASSUME NEW T, x \in T, Whole(kids, T) PROVE y \in T
    BY <1>1, <2>1 DEF Whole
  <2> QED BY <1>1, <2>1
<1> HIDE DEF C
<1>5. \A y \in C : y = x \/ \E p \in Owners(h) \cap C : y \in Members(kids[p])
  <2>1. PICK B : B = {y \in C : y = x \/ \E p \in Owners(h) \cap C : y \in Members(kids[p])}
    OBVIOUS
  <2>2. x \in B
    BY <1>3, <2>1
  <2>3. Whole(kids, B)
    <3> SUFFICES ASSUME NEW p \in Owners(h), p \in B, NEW y \in Members(kids[p]) PROVE y \in B
      BY <1>1 DEF Whole
    <3>1. p \in C /\ y \in C
      BY <1>1, <1>4, <2>1 DEF Whole
    <3> QED BY <2>1, <3>1
  <2> QED BY <1>2, <2>1, <2>2, <2>3
<1>6. R \cap C = {x}
  BY <1>1, <1>3, <1>5
<1>7. Whole(kids, rest)
  <2> SUFFICES ASSUME NEW q \in Owners(h), q \notin C, NEW y \in Members(kids[q]), y \in C PROVE FALSE
    BY <1>1 DEF Whole
  <2>1. y # x
    BY <1>1
  <2>2. PICK p \in Owners(h) \cap C : y \in Members(kids[p])
    BY <1>5, <2>1
  <2> QED BY <2>2 DEF Grove, Forest
<1>8. C \in SUBSET DOMAIN h
  BY DEF C
<1> QED BY <1>4, <1>6, <1>7, <1>8 DEF TreeOf

-----------------------------------------------------------------------------
(* Counting the copies of strings *)

LEMMA OwnedSplit ==
  ASSUME NEW h, NEW S, IsFiniteSet(S), NEW T, IsFiniteSet(T), S \cap T = {}
  PROVE  /\ Owned(h, S) \in Nat /\ Owned(h, T) \in Nat
         /\ Owned(h, S \cup T) = Owned(h, S) + Owned(h, T)
<1> DEFINE Text(U) == {n \in U : OwnsText(h[n])}
           Name(U) == {n \in U : OwnsKey(h[n])}
<1>1. IsFiniteSet(Text(S)) /\ IsFiniteSet(Text(T)) /\ IsFiniteSet(Name(S)) /\ IsFiniteSet(Name(T))
  <2>1. Text(S) \subseteq S /\ Name(S) \subseteq S /\ Text(T) \subseteq T /\ Name(T) \subseteq T
    OBVIOUS
  <2> HIDE DEF Text, Name
  <2> QED BY <2>1, FS_Subset
<1>2. /\ Text(S \cup T) = Text(S) \cup Text(T) /\ Text(S) \cap Text(T) = {}
      /\ Name(S \cup T) = Name(S) \cup Name(T) /\ Name(S) \cap Name(T) = {}
  OBVIOUS
<1>3. \A U : Owned(h, U) = Cardinality(Text(U)) + Cardinality(Name(U))
  BY DEF Owned
<1> HIDE DEF Text, Name
<1>4. PICK a \in Nat : a = Cardinality(Text(S))
  BY <1>1, FS_CardinalityType
<1>5. PICK b \in Nat : b = Cardinality(Text(T))
  BY <1>1, FS_CardinalityType
<1>6. PICK c \in Nat : c = Cardinality(Name(S))
  BY <1>1, FS_CardinalityType
<1>7. PICK d \in Nat : d = Cardinality(Name(T))
  BY <1>1, FS_CardinalityType
<1>8. Cardinality(Text(S) \cup Text(T)) = a + b
  <2>1. /\ Cardinality(Text(S) \cup Text(T))
             = Cardinality(Text(S)) + Cardinality(Text(T)) - Cardinality(Text(S) \cap Text(T))
    BY <1>1, FS_Union
  <2> QED BY <1>2, <1>4, <1>5, <2>1, FS_EmptySet
<1>9. Cardinality(Name(S) \cup Name(T)) = c + d
  <2>1. /\ Cardinality(Name(S) \cup Name(T))
             = Cardinality(Name(S)) + Cardinality(Name(T)) - Cardinality(Name(S) \cap Name(T))
    BY <1>1, FS_Union
  <2> QED BY <1>2, <1>6, <1>7, <2>1, FS_EmptySet
<1>10. Owned(h, S) = a + c /\ Owned(h, T) = b + d
  BY <1>3, <1>4, <1>5, <1>6, <1>7
<1>11. Owned(h, S \cup T) = (a + b) + (c + d)
  BY <1>2, <1>3, <1>8, <1>9
<1>12. (a + b) + (c + d) = (a + c) + (b + d) /\ a + c \in Nat /\ b + d \in Nat
  OBVIOUS
<1> QED BY <1>10, <1>11, <1>12

LEMMA OwnedAlike ==
  ASSUME NEW h, NEW g, NEW S,
         \A n \in S : (OwnsText(h[n]) <=> OwnsText(g[n])) /\ (OwnsKey(h[n]) <=> OwnsKey(g[n]))
  PROVE  Owned(h, S) = Owned(g, S)
<1>1. {n \in S : OwnsText(h[n])} = {n \in S : OwnsText(g[n])}
  OBVIOUS
<1>2. {n \in S : OwnsKey(h[n])} = {n \in S : OwnsKey(g[n])}
  OBVIOUS
<1> QED BY <1>1, <1>2 DEF Owned

LEMMA OwnedByOne == ASSUME NEW h, NEW x PROVE Owned(h, {x}) = Copied(h[x])
<1>1. {n \in {x} : OwnsText(h[n])} = IF OwnsText(h[x]) THEN {x} ELSE {}
  OBVIOUS
<1>2. {n \in {x} : OwnsKey(h[n])} = IF OwnsKey(h[x]) THEN {x} ELSE {}
  OBVIOUS
<1>3. Cardinality({x}) = 1 /\ Cardinality({}) = 0
  BY FS_EmptySet, FS_Singleton
<1>4. Cardinality(IF OwnsText(h[x]) THEN {x} ELSE {}) = IF OwnsText(h[x]) THEN 1 ELSE 0
  BY <1>3
<1>5. Cardinality(IF OwnsKey(h[x]) THEN {x} ELSE {}) = IF OwnsKey(h[x]) THEN 1 ELSE 0
  BY <1>3
<1> QED BY <1>1, <1>2, <1>4, <1>5 DEF Owned, Copied

-----------------------------------------------------------------------------
(* The heap of an embedder *)

Total(h) == Owned(h, DOMAIN h)

(* What the references show is there; those of L may show anything, and none *)
(* shows one of L.                                                            *)
Shown(h, L) ==
  \A r \in DOMAIN h \ L : h[r].ref => {h[r].child, h[r].text} \subseteq (DOMAIN h \ L) \cup {NULL}

(* A heap h with s copies of strings, of which an embedder owns the roots R *)
(* and nobody those in L.                                                    *)
Tended(h, s, R, L, kids) ==
  /\ Grove(h, R \cup L, kids) /\ R \cap L = {}
  /\ Shown(h, L) /\ \A x \in L : h[x].ref
  /\ s = Total(h)

LEMMA TendedRearranged ==
  ASSUME NEW h, NEW s, NEW R, NEW L, NEW kids, Tended(h, s, R, L, kids),
         NEW p \in Owners(h), NEW x, NEW d, NEW n, Rearranged(h, n, kids, p, x, d),
         NEW B, NEW R2, Exchange(R, kids, p, x, d, B, R2)
  PROVE  Alike(h, n) /\ Owners(n) = Owners(h) /\ Tended(n, s, R2, L, With(kids, p, d))
<1>1. /\ Grove(h, R \cup L, kids) /\ R \cap L = {} /\ Shown(h, L) /\ (\A y \in L : h[y].ref) /\ s = Total(h)
  BY DEF Tended
<1>2. Members(kids[p]) \cap (R \cup L) = {} /\ L \subseteq DOMAIN h
  BY <1>1, GroveFacts
<1>3. PICK Z, Q : Z = R \cup L /\ Q = R2 \cup L
  OBVIOUS
<1>4. Exchange(Z, kids, p, x, d, B, Q)
  <2>1. Members(d) \cap L = {}
    BY <1>1, <1>2 DEF Rearranged, Exchange
  <2> QED BY <1>3, <2>1 DEF Exchange
<1>5. Grove(n, Q, With(kids, p, d)) /\ Alike(h, n) /\ Owners(n) = Owners(h)
  BY <1>1, <1>3, <1>4, GroveRearranged
<1>6. R2 \cap L = {}
  BY <1>1, <1>2 DEF Exchange
<1>7. Shown(n, L) /\ \A y \in L : n[y].ref
  BY <1>1, <1>2, <1>5 DEF Shown, Alike
<1>8. Total(n) = Total(h)
  <2>1. \A y \in DOMAIN h : (OwnsText(n[y]) <=> OwnsText(h[y])) /\ (OwnsKey(n[y]) <=> OwnsKey(h[y]))
    BY <1>5 DEF Alike, OwnsText, OwnsKey
  <2> QED BY <1>5, <2>1, OwnedAlike DEF Total, Alike
<1> QED BY <1>1, <1>3, <1>5, <1>6, <1>7, <1>8 DEF Tended

\* add_item_to_array and cJSON_InsertItemInArray take a root in.
LEMMA TendedTakesIn ==
  ASSUME NEW h, NEW s, NEW R, NEW L, NEW kids, Tended(h, s, R, L, kids),
         NEW p \in Owners(h), NEW x \in R, NEW B, Whole(kids, B), x \in B, p \notin B,
         NEW which \in Nat,
         NEW n, n = add_item_to_array(h, p, x) \/ n = cJSON_InsertItemInArray(h, p, which, x)
  PROVE  Alike(h, n) /\ Owners(n) = Owners(h) /\ \E k : Tended(n, s, R \ {x}, L, k)
<1>1. /\ Forest(h, Owners(h), kids) /\ x \in DOMAIN h /\ Unlisted(kids, x) /\ h[x].next = NULL
      /\ DOMAIN kids = Owners(h) /\ kids[p] \in Seq(DOMAIN h)
  <2>1. Grove(h, R \cup L, kids)
    BY DEF Tended
  <2> QED BY <2>1 DEF Grove, Loose, Forest
<1>2. PICK c \in Seq(DOMAIN h) : c = kids[p]
  BY <1>1
<1>3. \E d : /\ SameItems(h, n) /\ Forest(n, Owners(h), [kids EXCEPT ![p] = d])
             /\ Within(h, n, p, Members(c) \cup {x}) /\ Members(d) = Members(c) \cup {x}
  <2>1. Members(Append(c, x)) = Members(c) \cup {x}
    <3>1. PICK l \in Nat : l = Len(c)
      OBVIOUS
    <3>2. PICK d : d = Append(c, x)
      OBVIOUS
    <3>3. Len(d) = l + 1 /\ d[l + 1] = x /\ \A i \in 1..l : d[i] = c[i]
      BY <1>1, <3>1, <3>2, AppendProperties
    <3>4. \A i \in 1..(l + 1) : i = l + 1 \/ i \in 1..l
      OBVIOUS
    <3>5. \A i \in 1..l : i \in 1..(l + 1)
      OBVIOUS
    <3>6. l + 1 \in 1..(l + 1)
      OBVIOUS
    <3> QED BY <3>1, <3>2, <3>3, <3>4, <3>5, <3>6 DEF Members
  <2>2. CASE n = add_item_to_array(h, p, x)
    <3>1. /\ SameItems(h, n) /\ Forest(n, Owners(h), [kids EXCEPT ![p] = Append(c, x)])
          /\ Within(h, n, p, Members(c) \cup {x})
      BY <1>1, <1>2, <2>2, AddsLast, x # p
    <3> QED BY <2>1, <3>1
  <2>3. CASE n = cJSON_InsertItemInArray(h, p, which, x)
    <3>1. PICK d : d = IF which < Len(c) THEN InsertAt(c, which + 1, x) ELSE Append(c, x)
      OBVIOUS
    <3>2. /\ SameItems(h, n) /\ Forest(n, Owners(h), [kids EXCEPT ![p] = d])
          /\ Within(h, n, p, Members(c) \cup {x})
      BY <1>1, <1>2, <2>3, <3>1, Inserts, x # p
    <3>3. Members(d) = Members(c) \cup {x}
      <4>1. CASE ~(which < Len(c))
        BY <2>1, <3>1, <4>1
      <4>2. CASE which < Len(c)
        <5>1. PICK l \in Nat, i \in Nat : l = Len(c) /\ i = which + 1 /\ i \in 1..l
          BY <4>2
        <5>2. d \in Seq(DOMAIN h) /\ WithBefore(c, i, x, d)
          BY <1>1, <3>1, <4>2, <5>1, Inserted
        <5>3. Len(d) = l + 1 /\ d[i] = x /\ \A k \in 1..l : d[IF k < i THEN k ELSE k + 1] = c[k]
          BY <5>1, <5>2 DEF WithBefore
        <5>4. \A k \in 1..l : c[k] \in Members(d)
          <6> TAKE k \in 1..l
          <6>1. (IF k < i THEN k ELSE k + 1) \in 1..(l + 1)
            OBVIOUS
          <6> QED BY <5>3, <6>1 DEF Members
        <5>5. \A k \in 1..(l + 1) : d[k] \in Members(c) \cup {x}
          <6> TAKE k \in 1..(l + 1)
          <6>1. CASE k = i
            BY <5>3, <6>1
          <6>2. CASE k < i
            <7>1. k \in 1..l
              BY <5>1, <6>2
            <7>2. d[k] = c[k]
              BY <5>3, <6>2, <7>1
            <7> QED BY <5>1, <7>1, <7>2 DEF Members
          <6>3. CASE k > i
            <7>1. PICK j \in 1..l : k = j + 1 /\ ~(j < i)
              <8>1. k - 1 \in 1..l /\ ~(k - 1 < i) /\ k = (k - 1) + 1
                BY <5>1, <6>3
              <8> QED BY <8>1
            <7>2. d[k] = c[j]
              BY <5>3, <7>1
            <7> QED BY <5>1, <7>1, <7>2 DEF Members
          <6> QED BY <5>1, <6>1, <6>2, <6>3
        <5>6. x \in Members(d)
          <6>1. i \in 1..(l + 1)
            BY <5>1
          <6> QED BY <5>3, <6>1 DEF Members
        <5> QED BY <5>1, <5>3, <5>4, <5>5, <5>6 DEF Members
      <4> QED BY <4>1, <4>2
    <3> QED BY <3>2, <3>3
  <2> QED BY <2>2, <2>3
<1>4. PICK d : /\ SameItems(h, n) /\ Forest(n, Owners(h), [kids EXCEPT ![p] = d])
               /\ Within(h, n, p, Members(c) \cup {x}) /\ Members(d) = Members(c) \cup {x}
  BY <1>3
<1>5. x \notin Members(c)
  BY <1>1, <1>2 DEF Unlisted
<1>6. Rearranged(h, n, kids, p, x, d)
  BY <1>2, <1>4 DEF Rearranged
<1>7. R \ {x} = (R \cup Members(kids[p])) \ Members(d)
  <2>1. Members(kids[p]) \cap (R \cup L) = {}
    BY GroveFacts DEF Tended
  <2> QED BY <1>2, <1>4, <2>1
<1>8. Members(d) \ Members(kids[p]) \subseteq B
  BY <1>2, <1>4
<1>9. PICK R2 : R2 = R \ {x}
  OBVIOUS
<1>10. Exchange(R, kids, p, x, d, B, R2)
  BY <1>7, <1>8, <1>9 DEF Exchange
<1>11. Alike(h, n) /\ Owners(n) = Owners(h) /\ Tended(n, s, R2, L, With(kids, p, d))
  BY <1>6, <1>10, TendedRearranged
<1> QED BY <1>9, <1>11

\* cJSON_DetachItemViaPointer makes a child a root.
LEMMA TendedDetached ==
  ASSUME NEW h, NEW s, NEW R, NEW L, NEW kids, Tended(h, s, R, L, kids),
         NEW p \in Owners(h), NEW x \in Members(kids[p]),
         NEW n, n = cJSON_DetachItemViaPointer(h, p, x)
  PROVE  Alike(h, n) /\ Owners(n) = Owners(h) /\ \E k : Tended(n, s, R \cup {x}, L, k)
<1>1. Forest(h, Owners(h), kids) /\ DOMAIN kids = Owners(h) /\ kids[p] \in Seq(DOMAIN h)
  BY DEF Tended, Grove, Forest
<1>2. PICK c \in Seq(DOMAIN h), l \in Nat : c = kids[p] /\ l = Len(c)
  BY <1>1
<1>3. PICK i \in 1..l : x = c[i]
  BY <1>2 DEF Members
<1>4. PICK d : d = RemoveAt(c, i)
  OBVIOUS
<1>5. \A j, k \in 1..l : c[j] = c[k] => j = k
  BY <1>1, <1>2 DEF Forest, Linked, Distinct
<1>6. d \in Seq(DOMAIN h) /\ Without(c, i, d)
  BY <1>2, <1>4, Removed
<1>7. Len(d) = l - 1 /\ \A k \in 1..(l - 1) : d[k] = c[IF k < i THEN k ELSE k + 1]
  BY <1>2, <1>6 DEF Without
<1>8. Members(d) = Members(c) \ {x}
  <2>1. \A k \in 1..(l - 1) : d[k] \in Members(c) \ {x}
    <3> TAKE k \in 1..(l - 1)
    <3>1. PICK j \in 1..l : j = (IF k < i THEN k ELSE k + 1) /\ j # i
      OBVIOUS
    <3>2. d[k] = c[j] /\ c[j] # x
      BY <1>3, <1>5, <1>7, <3>1
    <3> QED BY <1>2, <3>2 DEF Members
  <2>2. \A j \in 1..l : j # i => \E k \in 1..(l - 1) : d[k] = c[j]
    <3> TAKE j \in 1..l
    <3> HAVE j # i
    <3>1. CASE j < i
      <4>1. j \in 1..(l - 1)
        BY <3>1
      <4>2. d[j] = c[j]
        BY <1>7, <3>1, <4>1
      <4> QED BY <4>1, <4>2
    <3>2. CASE j > i
      <4>1. PICK k \in 1..(l - 1) : j = k + 1 /\ ~(k < i)
        <5>1. j - 1 \in 1..(l - 1) /\ ~(j - 1 < i) /\ j = (j - 1) + 1
          BY <3>2
        <5> QED BY <5>1
      <4>2. d[k] = c[j]
        BY <1>7, <4>1
      <4> QED BY <4>2
    <3> QED BY <3>1, <3>2
  <2>3. \A j \in 1..l : c[j] # x => j # i
    BY <1>3
  <2>4. Members(c) = {c[j] : j \in 1..l} /\ Members(d) = {d[k] : k \in 1..(l - 1)}
    BY <1>2, <1>7 DEF Members
  <2>5. \A y \in Members(c) \ {x} : y \in Members(d)
    BY <2>2, <2>3, <2>4
  <2> QED BY <2>1, <2>4, <2>5
<1>9. /\ SameItems(h, n) /\ Forest(n, Owners(h), [kids EXCEPT ![p] = d])
      /\ Within(h, n, p, Members(c) \cup {x}) /\ n[x].next = NULL /\ n[x].prev = NULL
  <2>1. PICK after : after = [kids EXCEPT ![p] = RemoveAt(kids[p], i)]
    OBVIOUS
  <2>2. i \in 1..Len(kids[p]) /\ x = kids[p][i] /\ n = cJSON_DetachItemViaPointer(h, p, x)
    BY <1>2, <1>3
  <2>3. /\ SameItems(h, n) /\ Forest(n, Owners(h), after)
        /\ Within(h, n, p, Members(kids[p]) \cup {x}) /\ Alone(n, x)
    <3>1. Forest(h, Owners(h), kids)
      BY <1>1
    <3> QED BY <2>1, <2>2, <3>1, Detaches, Zenon
  <2> QED BY <1>2, <1>4, <2>1, <2>3 DEF Alone
<1>10. Rearranged(h, n, kids, p, x, d)
  BY <1>2, <1>8, <1>9 DEF Rearranged
<1>11. PICK R2, B : R2 = R \cup {x} /\ B = {}
  OBVIOUS
<1>12. Members(kids[p]) \cap (R \cup L) = {}
  BY GroveFacts DEF Tended
<1>13. Exchange(R, kids, p, x, d, B, R2)
  <2>1. Whole(kids, B)
    BY <1>11 DEF Whole
  <2> QED BY <1>2, <1>8, <1>11, <1>12, <2>1 DEF Exchange
<1>14. Alike(h, n) /\ Owners(n) = Owners(h) /\ Tended(n, s, R2, L, With(kids, p, d))
  BY <1>10, <1>13, TendedRearranged
<1> QED BY <1>11, <1>14

\* cJSON_ReplaceItemViaPointer puts a root in the place of a child, which is a
\* root until it is deleted.
LEMMA TendedReplaced ==
  ASSUME NEW h, NEW s, NEW R, NEW L, NEW kids, Tended(h, s, R, L, kids),
         NEW p \in Owners(h), NEW o \in Members(kids[p]), NEW x \in R,
         NEW B, Whole(kids, B), x \in B, p \notin B, NEW n, n = PutInPlace(h, p, o, x)
  PROVE  Alike(h, n) /\ Owners(n) = Owners(h) /\ \E k : Tended(n, s, (R \ {x}) \cup {o}, L, k)
<1>1. /\ Forest(h, Owners(h), kids) /\ DOMAIN kids = Owners(h) /\ kids[p] \in Seq(DOMAIN h)
      /\ x \in DOMAIN h /\ Unlisted(kids, x)
  BY DEF Tended, Grove, Forest, Loose
<1>2. PICK c \in Seq(DOMAIN h), l \in Nat : c = kids[p] /\ l = Len(c)
  BY <1>1
<1>3. PICK i \in 1..l : o = c[i]
  BY <1>2 DEF Members
<1>4. PICK d : d = ReplaceAt(c, i, x)
  OBVIOUS
<1>5. \A j, k \in 1..l : c[j] = c[k] => j = k
  BY <1>1, <1>2 DEF Forest, Linked, Distinct
<1>6. d \in Seq(DOMAIN h) /\ WithAt(c, i, x, d)
  BY <1>1, <1>2, <1>4, Replaced
<1>7. Len(d) = l /\ d[i] = x /\ \A k \in 1..l : k # i => d[k] = c[k]
  BY <1>2, <1>6 DEF WithAt
<1>8. x \notin Members(c)
  BY <1>1, <1>2 DEF Unlisted
<1>9. Members(d) = (Members(c) \ {o}) \cup {x}
  <2>1. \A k \in 1..l : d[k] \in (Members(c) \ {o}) \cup {x}
    <3> TAKE k \in 1..l
    <3>1. CASE k = i
      BY <1>7, <3>1
    <3>2. CASE k # i
      <4>1. d[k] = c[k] /\ c[k] # o
        BY <1>3, <1>5, <1>7, <3>2
      <4> QED BY <1>2, <4>1 DEF Members
    <3> QED BY <3>1, <3>2
  <2>2. \A k \in 1..l : c[k] # o => d[k] = c[k]
    BY <1>3, <1>7
  <2> QED BY <1>2, <1>7, <2>1, <2>2 DEF Members
<1>10. /\ SameItems(h, n) /\ Forest(n, Owners(h), [kids EXCEPT ![p] = d])
       /\ Within(h, n, p, Members(c) \cup {x}) /\ n[o].next = NULL /\ n[o].prev = NULL
  <2>1. PICK after : after = [kids EXCEPT ![p] = ReplaceAt(kids[p], i, x)]
    OBVIOUS
  <2>2. Replaceable(h, kids, p, i, o, x)
    BY <1>1, <1>2, <1>3 DEF Replaceable
  <2>3. /\ SameItems(h, n) /\ Forest(n, Owners(h), after)
        /\ Within(h, n, p, Members(kids[p]) \cup {x}) /\ Alone(n, o)
    BY <1>1, <2>1, <2>2, Replaces, Zenon
  <2> QED BY <1>2, <1>4, <2>1, <2>3 DEF Alone
<1>11. Rearranged(h, n, kids, p, x, d)
  <2>1. \A y \in Members(c) \ Members(d) : y = o
    BY <1>9
  <2>2. /\ Members(d) \subseteq Members(c) \cup {x} /\ x \in Members(c) \cup Members(d)
    BY <1>9
  <2> QED BY <1>2, <1>10, <2>1, <2>2 DEF Rearranged
<1>12. PICK R2 : R2 = (R \ {x}) \cup {o}
  OBVIOUS
<1>13. Members(kids[p]) \cap (R \cup L) = {}
  BY GroveFacts DEF Tended
<1>14. Exchange(R, kids, p, x, d, B, R2)
  BY <1>2, <1>8, <1>9, <1>12, <1>13 DEF Exchange
<1>15. Alike(h, n) /\ Owners(n) = Owners(h) /\ Tended(n, s, R2, L, With(kids, p, d))
  BY <1>11, <1>14, TendedRearranged
<1> QED BY <1>12, <1>15

\* cJSON_Delete frees a root with all that is below it, which no reference may show.
LEMMA TendedDeleted ==
  ASSUME NEW h, NEW s, NEW R, NEW L, NEW kids, Tended(h, s, R, L, kids), NEW x \in R,
         NEW C, C = Doomed(h, {x}),
         \A r \in DOMAIN h \ (L \cup C) : h[r].ref => h[r].child \notin C /\ h[r].text \notin C,
         NEW n, n = [h |-> [a \in DOMAIN h \ C |-> h[a]], s |-> s - Owned(h, C)]
  PROVE  \E k : Tended(n.h, n.s, R \ {x}, L, k)
<1>1. PICK Z : Z = R \cup L
  OBVIOUS
<1>2. /\ Grove(h, Z, kids) /\ R \cap L = {} /\ Shown(h, L) /\ (\A y \in L : h[y].ref) /\ s = Total(h)
      /\ x \in Z
  BY <1>1 DEF Tended
<1>3. PICK D : TreeOf(h, Z, kids, x, D)
  BY <1>2, TreeTaken
<1> USE DEF TreeOf
<1>4. PICK g : g = Part(h, D)
  OBVIOUS
<1>5. Grove(g, {x}, Part(kids, Owners(g))) /\ DOMAIN g = D
  <2>1. Grove(g, Z \cap D, Part(kids, Owners(g))) /\ DOMAIN g = D
    BY <1>2, <1>3, <1>4, GrovePart
  <2> QED BY <1>3, <2>1
<1>6. C = D
  <2>1. DOMAIN g \subseteq DOMAIN h /\ \A y \in DOMAIN g : h[y] = g[y]
    BY <1>3, <1>4 DEF Part
  <2>2. Doomed(h, {x}) = DOMAIN g
    BY <1>5, <2>1, TreeIsDoomed
  <2> QED BY <1>5, <2>2
<1>7. PICK E, f : E \in SUBSET DOMAIN h /\ E = DOMAIN h \ D /\ f = Part(h, E)
  OBVIOUS
<1>8. Grove(f, Z \cap E, Part(kids, Owners(f))) /\ DOMAIN f = E
  <2>1. DOMAIN h \ E = D /\ Whole(kids, E) /\ Whole(kids, D)
    BY <1>3, <1>7
  <2> QED BY <1>2, <1>7, <2>1, GrovePart
<1>9. Z \cap E = (R \ {x}) \cup L
  <2>1. Z \subseteq DOMAIN h
    BY <1>2, GroveFacts
  <2> QED BY <1>1, <1>2, <1>3, <1>7, <2>1
<1>10. n.h = f /\ n.s = Total(h) - Owned(h, D)
  BY <1>2, <1>6, <1>7 DEF Part
<1>11. Total(h) - Owned(h, D) = Total(f)
  <2>1. IsFiniteSet(D) /\ IsFiniteSet(E) /\ D \cap E = {} /\ D \cup E = DOMAIN h
    <3>1. IsFiniteSet(DOMAIN h)
      BY <1>2, GroveFacts DEF Heap
    <3> QED BY <1>3, <1>7, <3>1, FS_Subset
  <2>2. /\ Owned(h, D) \in Nat /\ Owned(h, E) \in Nat
        /\ Owned(h, D \cup E) = Owned(h, D) + Owned(h, E)
    BY <2>1, OwnedSplit
  <2>3. Owned(h, E) = Owned(f, E)
    <3>1. \A y \in E : h[y] = f[y]
      BY <1>7 DEF Part
    <3> QED BY <3>1, OwnedAlike
  <2>4. Total(h) = Owned(h, D) + Owned(h, E)
    BY <2>1, <2>2 DEF Total
  <2>5. Total(f) = Owned(h, E)
    BY <1>8, <2>3 DEF Total
  <2> QED BY <2>2, <2>4, <2>5
<1>12. Shown(f, L)
  <2> SUFFICES ASSUME NEW r \in E \ L, f[r].ref
               PROVE  {f[r].child, f[r].text} \subseteq (E \ L) \cup {NULL}
    BY <1>8 DEF Shown
  <2>1. f[r] = h[r] /\ r \in DOMAIN h \ L /\ r \notin D
    BY <1>7 DEF Part
  <2>2. {h[r].child, h[r].text} \subseteq (DOMAIN h \ L) \cup {NULL}
    BY <1>2, <2>1 DEF Shown
  <2>3. h[r].child \notin D /\ h[r].text \notin D
    BY <1>6, <2>1
  <2> QED BY <1>7, <2>1, <2>2, <2>3
<1>13. \A y \in L : f[y].ref
  <2>1. L \subseteq E
    BY <1>9
  <2> QED BY <1>2, <1>7, <2>1 DEF Part
<1> QED BY <1>2, <1>8, <1>9, <1>10, <1>11, <1>12, <1>13 DEF Tended

-----------------------------------------------------------------------------
(* New items *)

\* A heap of one item that has no children.
LEMMA GroveOfOne ==
  ASSUME use.room \in Nat, NEW n \in 1..use.room, NEW item \in Item,
         item.next = NULL, item.prev = NULL,
         ~item.ref => item.child = NULL /\ item.text \in {NULL, n},
         NEW g, g = [a \in {n} |-> item]
  PROVE  Grove(g, {n}, [p \in Owners(g) |-> <<>>]) /\ Total(g) = Copied(item)
<1> DEFINE K == [p \in Owners(g) |-> <<>>]
<1>1. DOMAIN g = {n} /\ g[n] = item /\ g \in [DOMAIN g -> Item]
  OBVIOUS
<1>2. Owners(g) = IF item.ref THEN {} ELSE {n}
  BY <1>1 DEF Owners
<1>3. Cells(g)
  BY <1>1, <1>2 DEF Cells
<1>4. Heap(g)
  BY <1>3, CellsAreHeap
<1>5. NextIsItem(g) /\ Owners(g) \subseteq DOMAIN g
  BY <1>1, <1>2, Fields DEF NextIsItem
<1>6. PICK e \in Seq(DOMAIN g) : e = <<>> /\ Len(e) = 0
  <2>1. <<>> \in Seq(DOMAIN g) /\ Len(<<>>) = 0
    OBVIOUS
  <2> QED BY <2>1
<1>7. Members(e) = {}
  BY <1>6 DEF Members
<1>8. \A p \in Owners(g) : K[p] = e
  BY <1>6
<1>9. K \in [Owners(g) -> Seq(DOMAIN g)]
  BY <1>6
<1> HIDE DEF K
<1>10. DOMAIN K = Owners(g)
  BY <1>9
<1>11. \A p \in Owners(g) : Linked(g, p, K[p])
  <2> TAKE p \in Owners(g)
  <2>1. Firsts(g)[p] = NULL
    BY <1>1, <1>2, Fields
  <2>2. Linked(g, p, e)
    BY <1>6, <2>1 DEF Linked, Distinct, Chain
  <2> QED BY <1>8, <2>2
<1>12. Forest(g, Owners(g), K)
  BY <1>4, <1>5, <1>7, <1>8, <1>9, <1>11 DEF Forest
<1>13. Loose(g, K, {n})
  BY <1>1, <1>7, <1>8, <1>10 DEF Loose, Unlisted
<1>14. Reached(g, K, {n})
  BY <1>1 DEF Reached
<1>15. Total(g) = Copied(item)
  BY <1>1, OwnedByOne DEF Total
<1> QED BY <1>3, <1>12, <1>13, <1>14, <1>15 DEF Grove, K

LEMMA TotalOfBoth ==
  ASSUME NEW a, NEW b, IsFiniteSet(DOMAIN a), IsFiniteSet(DOMAIN b), DOMAIN a \cap DOMAIN b = {},
         NEW h, h = Both(a, b)
  PROVE  Total(h) = Total(a) + Total(b) /\ Total(a) \in Nat /\ Total(b) \in Nat
         /\ Owned(h, DOMAIN b) = Total(b)
<1>1. /\ DOMAIN h = DOMAIN a \cup DOMAIN b
      /\ (\A x \in DOMAIN a : h[x] = a[x]) /\ (\A x \in DOMAIN b : h[x] = b[x])
  BY DEF Both
<1>2. Owned(h, DOMAIN a) = Owned(a, DOMAIN a) /\ Owned(h, DOMAIN b) = Owned(b, DOMAIN b)
  BY <1>1, OwnedAlike
<1>3. /\ Owned(h, DOMAIN a) \in Nat /\ Owned(h, DOMAIN b) \in Nat
      /\ Owned(h, DOMAIN a \cup DOMAIN b) = Owned(h, DOMAIN a) + Owned(h, DOMAIN b)
  BY OwnedSplit
<1> QED BY <1>1, <1>2, <1>3 DEF Total

(* What the references of g show is in g or in h; L and M may show anything. *)
ShownThere(h, L, g, M) ==
  \A r \in DOMAIN g \ M :
    g[r].ref => {g[r].child, g[r].text} \subseteq ((DOMAIN h \ L) \cup (DOMAIN g \ M)) \cup {NULL}

\* Trees of their own are added to a heap.
LEMMA TendedJoined ==
  ASSUME NEW h, NEW s, NEW R, NEW L, NEW kids, Tended(h, s, R, L, kids),
         NEW g, NEW Q, NEW M, NEW k, Grove(g, Q \cup M, k), Q \cap M = {},
         DOMAIN h \cap DOMAIN g = {}, ShownThere(h, L, g, M), \A x \in M : g[x].ref,
         NEW n, n = Both(h, g)
  PROVE  Tended(n, s + Total(g), R \cup Q, L \cup M, Both(kids, k))
<1>1. /\ Grove(h, R \cup L, kids) /\ R \cap L = {} /\ Shown(h, L) /\ (\A y \in L : h[y].ref) /\ s = Total(h)
  BY DEF Tended
<1>2. PICK Z, Y, X : Z = R \cup L /\ Y = Q \cup M /\ X = Z \cup Y
  OBVIOUS
<1>3. Grove(h, Z, kids) /\ Grove(g, Y, k)
  BY <1>1, <1>2
<1>4. Z \subseteq DOMAIN h /\ Y \subseteq DOMAIN g /\ IsFiniteSet(DOMAIN h) /\ IsFiniteSet(DOMAIN g)
  BY <1>3, GroveFacts DEF Heap
<1>5. Grove(n, X, Both(kids, k))
  BY <1>2, <1>3, GroveBoth
<1>6. X = (R \cup Q) \cup (L \cup M)
  BY <1>2
<1>7. (R \cup Q) \cap (L \cup M) = {}
  BY <1>1, <1>2, <1>4
<1>8. /\ DOMAIN n = DOMAIN h \cup DOMAIN g
      /\ (\A x \in DOMAIN h : n[x] = h[x]) /\ (\A x \in DOMAIN g : n[x] = g[x])
  BY DEF Both
<1>9. \A y \in L \cup M : n[y].ref
  BY <1>1, <1>2, <1>4, <1>8
<1>10. Shown(n, L \cup M)
  <2> SUFFICES ASSUME NEW r \in DOMAIN n \ (L \cup M), n[r].ref
               PROVE  {n[r].child, n[r].text} \subseteq (DOMAIN n \ (L \cup M)) \cup {NULL}
    BY DEF Shown
  <2>1. CASE r \in DOMAIN h
    <3>1. {h[r].child, h[r].text} \subseteq (DOMAIN h \ L) \cup {NULL}
      BY <1>1, <1>8, <2>1 DEF Shown
    <3> QED BY <1>2, <1>4, <1>8, <2>1, <3>1
  <2>2. CASE r \in DOMAIN g
    <3>1. {g[r].child, g[r].text} \subseteq ((DOMAIN h \ L) \cup (DOMAIN g \ M)) \cup {NULL}
      BY <1>8, <2>2 DEF ShownThere
    <3> QED BY <1>2, <1>4, <1>8, <2>2, <3>1
  <2> QED BY <1>8, <2>1, <2>2
<1>11. s + Total(g) = Total(n)
  BY <1>1, <1>4, TotalOfBoth
<1> QED BY <1>5, <1>6, <1>7, <1>9, <1>10, <1>11 DEF Tended

LEMMA NewAddress ==
  ASSUME NEW m, use.room \in Nat, NEW n, n = cJSON_New_Item(m), n # NULL
  PROVE  n \in 1..use.room /\ n \notin DOMAIN m.h
<1> DEFINE free == (1..use.room) \ DOMAIN m.h
<1>1. free # {} /\ n = CHOOSE a \in free : \A b \in free : a <= b
  BY DEF cJSON_New_Item
<1>2. free \in SUBSET Nat
  OBVIOUS
<1> HIDE DEF free
<1>3. \E a \in free : \A b \in free : a <= b
  BY <1>1, <1>2, Smallest
<1>4. n \in free
  BY <1>1, <1>3
<1> QED BY <1>4 DEF free

LEMMA ExtendIsBoth ==
  ASSUME NEW h, NEW n, n \notin DOMAIN h, NEW item, NEW g, g = [a \in {n} |-> item]
  PROVE  Extend(h, n, item) = Both(h, g) /\ DOMAIN h \cap DOMAIN g = {}
<1>1. DOMAIN g = {n} /\ g[n] = item
  OBVIOUS
<1>2. \A a \in DOMAIN h \cup {n} : (IF a = n THEN item ELSE h[a]) = (IF a \in DOMAIN h THEN h[a] ELSE g[a])
  BY <1>1
<1> QED BY <1>1, <1>2 DEF Extend, Both

-----------------------------------------------------------------------------
(* Making trees *)

(* g is a new tree with the root x, in no place of h. *)
Grown(h, g, x) ==
  /\ DOMAIN g \cap DOMAIN h = {} /\ (\A a \in DOMAIN g : ~g[a].ref)
  /\ \E k : Grove(g, {x}, k)

(* r is what making a tree in the memory m gives: nothing and m, or a new *)
(* tree beside what there was.                                            *)
Made(m, r) ==
  \/ r = Nothing(m)
  \/ \E g : Grown(m.h, g, r.item) /\ r.m = [h |-> Both(m.h, g), s |-> m.s + Total(g)]

Memory(m) == m = [h |-> m.h, s |-> m.s] /\ Cells(m.h) /\ NextIsItem(m.h) /\ m.s \in Nat

(* The new tree is one item. *)
MadeOne(m, type, r) ==
  r = Nothing(m) \/ \E g : /\ Grown(m.h, g, r.item) /\ DOMAIN g = {r.item}
                           /\ g[r.item].child = NULL /\ g[r.item].type = type
                           /\ r.m = [h |-> Both(m.h, g), s |-> m.s + Total(g)]

\* What cJSON_CreateNull and its relatives give.
LEMMA ItemCreated ==
  ASSUME NEW m, Memory(m), NEW type \in Leaf \cup Container, NEW strdup \in BOOLEAN,
         NEW r, r = CreateItem(m, type, strdup)
  PROVE  Made(m, r) /\ MadeOne(m, type, r)
<1>1. PICK n : n = cJSON_New_Item(m)
  OBVIOUS
<1>2. PICK text : text = IF type = "string" THEN n ELSE NULL
  OBVIOUS
<1>3. CASE n = NULL \/ (type = "string" /\ ~strdup)
  <2>1. r = Nothing(m)
    BY <1>1, <1>3 DEF CreateItem
  <2> QED BY <2>1 DEF Made, MadeOne
<1>4. CASE ~(n = NULL \/ (type = "string" /\ ~strdup))
  <2>1. use.room \in Nat /\ n \in 1..use.room /\ n \notin DOMAIN m.h
    BY <1>1, <1>4, NewAddress DEF Memory, Cells
  <2>2. PICK item : item = [Blank EXCEPT !.type = type, !.text = text]
    OBVIOUS
  <2>3. /\ item.type = type /\ item.text = text /\ item.ref = FALSE /\ item.const = FALSE /\ item.key = NoKey
        /\ item.next = NULL /\ item.prev = NULL /\ item.child = NULL /\ item \in Item
    <3>1. text \in Pointer /\ NULL \in Pointer
      BY <1>2, <2>1 DEF Pointer, NULL
    <3>2. item = [type |-> type, ref |-> FALSE, const |-> FALSE, key |-> NoKey,
                  text |-> text, next |-> NULL, prev |-> NULL, child |-> NULL]
      BY <2>2 DEF Blank
    <3> QED BY <3>1, <3>2 DEF Item
  <2>4. PICK g : g = [a \in {n} |-> item]
    OBVIOUS
  <2>5. Grove(g, {n}, [p \in Owners(g) |-> <<>>]) /\ Total(g) = Copied(item)
    BY <1>2, <2>1, <2>3, <2>4, GroveOfOne
  <2>6. Copied(item) = IF type = "string" THEN 1 ELSE 0
    BY <1>2, <1>4, <2>3 DEF Copied, OwnsText, OwnsKey
  <2>7. Extend(m.h, n, item) = Both(m.h, g) /\ DOMAIN m.h \cap DOMAIN g = {}
    BY <2>1, <2>4, ExtendIsBoth
  <2>8. r = [m |-> [h |-> Extend(m.h, n, item), s |-> m.s + IF type = "string" THEN 1 ELSE 0], item |-> n]
    BY <1>1, <1>2, <1>4, <2>2 DEF CreateItem
  <2>9. r.m = [h |-> Both(m.h, g), s |-> m.s + Total(g)] /\ r.item = n
    BY <2>5, <2>6, <2>7, <2>8
  <2>10. Grown(m.h, g, n) /\ DOMAIN g = {n} /\ g[n].child = NULL /\ g[n].type = type
    BY <2>3, <2>4, <2>5, <2>7 DEF Grown
  <2> QED BY <2>9, <2>10 DEF Made, MadeOne
<1> QED BY <1>3, <1>4

\* The embedder owns a tree that was made.
LEMMA TendedMade ==
  ASSUME NEW h, NEW s, NEW R, NEW L, NEW kids, Tended(h, s, R, L, kids),
         NEW r, Made([h |-> h, s |-> s], r), NEW S, S = R \cup ({r.item} \ {NULL})
  PROVE  \E k : Tended(r.m.h, r.m.s, S, L, k)
<1>1. CASE r = Nothing([h |-> h, s |-> s])
  <2>1. r.m.h = h /\ r.m.s = s /\ r.item = NULL
    BY <1>1 DEF Nothing
  <2> QED BY <2>1
<1>2. CASE \E g : Grown(h, g, r.item) /\ r.m = [h |-> Both(h, g), s |-> s + Total(g)]
  <2>1. PICK g : Grown(h, g, r.item) /\ r.m = [h |-> Both(h, g), s |-> s + Total(g)]
    BY <1>2
  <2>2. PICK x, Q, M : x = r.item /\ Q = {x} /\ M = {}
    OBVIOUS
  <2>3. PICK k : Grove(g, Q \cup M, k)
    <3>1. Q \cup M = {x}
      BY <2>2
    <3> QED BY <2>1, <2>2, <3>1 DEF Grown
  <2>4. ShownThere(h, L, g, M) /\ DOMAIN h \cap DOMAIN g = {} /\ Q \cap M = {} /\ \A y \in M : g[y].ref
    BY <2>1, <2>2 DEF ShownThere, Grown
  <2>5. PICK n : n = Both(h, g)
    OBVIOUS
  <2>6. Tended(n, s + Total(g), R \cup Q, L \cup M, Both(kids, k))
    BY <2>3, <2>4, <2>5, TendedJoined
  <2>7. x # NULL
    <3>1. Q \cup M \subseteq DOMAIN g /\ NULL \notin DOMAIN g
      BY <2>3, GroveFacts
    <3> QED BY <2>2, <3>1
  <2>8. R \cup Q = S /\ L \cup M = L /\ r.m.h = n /\ r.m.s = s + Total(g)
    BY <2>1, <2>2, <2>5, <2>7
  <2> QED BY <2>6, <2>8
<1> QED BY <1>1, <1>2 DEF Made

-----------------------------------------------------------------------------
(* Lists under way *)

LEMMA HeapsAgree ==
  ASSUME NEW a, NEW b, Heap(a), SameItems(a, b),
         Nexts(a) = Nexts(b), Prevs(a) = Prevs(b), Firsts(a) = Firsts(b)
  PROVE  a = b
<1>1. Heap(b) /\ DOMAIN b = DOMAIN a
  BY DEF SameItems
<1>2. ASSUME NEW x \in DOMAIN a PROVE a[x] = b[x]
  <2>1. PICK r, t : r = a[x] /\ t = b[x]
    OBVIOUS
  <2>2. r.next = t.next /\ r.prev = t.prev /\ r.child = t.child
    BY <1>1, <2>1, Fields
  <2>3. DOMAIN t = DOMAIN r /\ \A f \in DOMAIN r \ Pointers : t[f] = r[f]
    BY <2>1 DEF SameItems
  <2>4. r = [f \in DOMAIN r |-> r[f]] /\ t = [f \in DOMAIN t |-> t[f]]
    BY <1>1, <2>1 DEF Heap
  <2>5. \A f \in DOMAIN r : t[f] = r[f]
    BY <2>2, <2>3 DEF Pointers
  <2> QED BY <2>1, <2>3, <2>4, <2>5
<1> QED BY <1>1, <1>2 DEF Heap

LEMMA WithGives ==
  /\ \A f, x, v : DOMAIN With(f, x, v) = DOMAIN f
  /\ \A f, x, v : \A y \in DOMAIN f : With(f, x, v)[y] = IF y = x THEN v ELSE f[y]
BY DEF With

LEMMA BothTwice == \A a, b, c : Both(Both(a, b), c) = Both(a, Both(b, c))
BY DEF Both

LEMMA SetInBoth ==
  ASSUME NEW a, NEW b, DOMAIN a \cap DOMAIN b = {}, NEW x, NEW v
  PROVE  /\ x \in DOMAIN b => /\ SetNext(Both(a, b), x, v) = Both(a, SetNext(b, x, v))
                              /\ SetPrev(Both(a, b), x, v) = Both(a, SetPrev(b, x, v))
                              /\ SetChild(Both(a, b), x, v) = Both(a, SetChild(b, x, v))
         /\ x \in DOMAIN a => SetPrev(Both(a, b), x, v) = Both(SetPrev(a, x, v), b)
         /\ DOMAIN SetNext(b, x, v) = DOMAIN b /\ DOMAIN SetPrev(b, x, v) = DOMAIN b
         /\ DOMAIN SetChild(b, x, v) = DOMAIN b
BY DEF Both, SetNext, SetPrev, SetChild

(* The new item n has children so far up to l, the first without prev pointer. *)
Unfinished(U, n, l) ==
  /\ Cells(U) /\ n \in DOMAIN U /\ (\A a \in DOMAIN U : ~U[a].ref)
  /\ l = NULL <=> U[n].child = NULL
  /\ l # NULL => l \in DOMAIN U /\ U[n].child \in DOMAIN U
  /\ \E k : Grove(Finish(U, n, l), {n}, k)

LEMMA FinishEffect ==
  ASSUME NEW U, NEW n, NEW l, Unfinished(U, n, l), NEW F, F = Finish(U, n, l)
  PROVE  /\ SameItems(U, F) /\ DOMAIN F = DOMAIN U /\ Nexts(F) = Nexts(U) /\ Firsts(F) = Firsts(U)
         /\ l = NULL => F = U
         /\ l # NULL => F = SetPrev(U, U[n].child, l) /\ F[U[n].child].prev = l
<1>1. Heap(U)
  BY CellsAreHeap DEF Unfinished
<1>2. CASE l = NULL
  BY <1>1, <1>2, SameItself DEF Finish
<1>3. CASE l # NULL
  <2>1. PICK c \in DOMAIN U : c = U[n].child
    BY <1>3 DEF Unfinished
  <2>2. F = SetPrev(U, c, l)
    BY <1>3, <2>1 DEF Finish, SetPrev
  <2>3. /\ SameItems(U, F) /\ DOMAIN F = DOMAIN U /\ Nexts(F) = Nexts(U) /\ Firsts(F) = Firsts(U)
        /\ Prevs(F) = With(Prevs(U), c, l)
    BY <1>1, <2>1, <2>2, PrevIsSet
  <2>4. F[c].prev = l
    <3>1. c \in DOMAIN F /\ c \in DOMAIN Prevs(U) /\ Prevs(F)[c] = With(Prevs(U), c, l)[c]
      BY <2>1, <2>3, Domains
    <3> QED BY <3>1, WithGives, Fields
  <2> QED BY <1>3, <2>1, <2>2, <2>3, <2>4
<1> QED BY <1>2, <1>3

(* W is U with one more child of n, the root x of g. *)
Lengthened(U, g, W, n, x) ==
  Unfinished(W, n, x) /\ DOMAIN W = DOMAIN U \cup DOMAIN g /\ Total(W) = Total(U) + Total(g)

\* One more child.
LEMMA ListGrows ==
  ASSUME NEW U, NEW n, NEW l, Unfinished(U, n, l), NEW g, NEW x, Grown(U, g, x),
         NEW W, W = Hang(Both(U, g), n, l, x)
  PROVE  Lengthened(U, g, W, n, x)
<1>1. PICK F : F = Finish(U, n, l)
  OBVIOUS
<1>2. /\ SameItems(U, F) /\ DOMAIN F = DOMAIN U /\ Nexts(F) = Nexts(U) /\ Firsts(F) = Firsts(U)
      /\ (l = NULL => F = U) /\ (l # NULL => F = SetPrev(U, U[n].child, l) /\ F[U[n].child].prev = l)
  BY <1>1, FinishEffect
<1>3. PICK k, kg : Grove(F, {n}, k) /\ Grove(g, {x}, kg)
  BY <1>1 DEF Unfinished, Grown
<1>4. DOMAIN g \cap DOMAIN U = {} /\ (\A a \in DOMAIN g : ~g[a].ref) /\ n \in DOMAIN U /\ Cells(U)
  BY DEF Unfinished, Grown
<1>5. Cells(g) /\ x \in DOMAIN g /\ x # NULL /\ DOMAIN kg = Owners(g) /\ g[x].next = NULL
  <2>1. Cells(g) /\ {x} \subseteq DOMAIN g /\ NULL \notin DOMAIN g /\ DOMAIN kg = Owners(g)
    BY <1>3, GroveFacts
  <2> QED BY <1>3, <2>1 DEF Grove, Loose
<1>6. PICK V : V = Both(U, g)
  OBVIOUS
<1>7. /\ Cells(V) /\ DOMAIN V = DOMAIN U \cup DOMAIN g
      /\ (\A a \in DOMAIN U : V[a] = U[a]) /\ (\A a \in DOMAIN g : V[a] = g[a])
  <2>1. DOMAIN U \cap DOMAIN g = {}
    BY <1>4
  <2>2. Cells(U) /\ Cells(g)
    BY <1>4, <1>5
  <2>3. Holds(V, U, g)
    BY <1>6, <2>1, <2>2, CellsInBoth
  <2> QED BY <2>3 DEF Holds
<1>8. Heap(V) /\ DOMAIN V \cup {NULL} \subseteq Pointer
  BY <1>7, CellsAreHeap
<1>9. PICK A : A = Both(F, g)
  OBVIOUS
<1>10. PICK N, k2 : N = add_item_to_array(A, n, x) /\ Grove(N, {n}, k2)
  <2>1. PICK R, K : R = {n} \cup {x} /\ K = Both(k, kg)
    OBVIOUS
  <2>2. Grove(A, R, K) /\ DOMAIN F \cap DOMAIN g = {}
    BY <1>2, <1>3, <1>4, <1>9, <2>1, GroveBoth
  <2>3. PICK L : L = {}
    OBVIOUS
  <2>4. /\ DOMAIN A = DOMAIN F \cup DOMAIN g
        /\ (\A a \in DOMAIN F : A[a] = F[a]) /\ (\A a \in DOMAIN g : A[a] = g[a])
    BY <1>9, <2>2 DEF Both
  <2>5. \A a \in DOMAIN A : ~A[a].ref
    <3>1. \A a \in DOMAIN F : F[a].ref = U[a].ref
      <4> TAKE a \in DOMAIN F
      <4>1. "ref" \in DOMAIN U[a] /\ "ref" \notin Pointers
        <5>1. U[a] \in Item
          BY <1>2, <1>4 DEF Cells
        <5> QED BY <5>1, ItemFields DEF Pointers
      <4> QED BY <1>2, <4>1 DEF SameItems
    <3>2. \A a \in DOMAIN U : ~U[a].ref
      BY DEF Unfinished
    <3> QED BY <1>2, <1>4, <2>4, <3>1, <3>2
  <2>6. Tended(A, Total(A), R, L, K)
    <3>1. R \cup L = R
      BY <2>3
    <3> QED BY <2>2, <2>3, <2>5, <3>1 DEF Tended, Shown
  <2>7. PICK B : B = DOMAIN g
    OBVIOUS
  <2>8. Whole(K, B) /\ x \in B /\ n \notin B
    <3>1. \A p \in DOMAIN K : p \in B => K[p] = kg[p] /\ Members(kg[p]) \subseteq B
      <4>1. \A p \in Owners(g) : Members(kg[p]) \subseteq DOMAIN g
        BY <1>3, GroveFacts
      <4>2. DOMAIN k \subseteq DOMAIN F
        BY <1>3, GroveFacts
      <4>3. DOMAIN K = DOMAIN k \cup DOMAIN kg /\ \A p \in DOMAIN kg : p \notin DOMAIN k => K[p] = kg[p]
        BY <2>1 DEF Both
      <4> QED BY <1>5, <2>2, <2>7, <4>1, <4>2, <4>3
    <3> QED BY <1>4, <1>5, <2>7, <3>1 DEF Whole
  <2>9. n \in Owners(A) /\ x \in R
    BY <1>2, <1>4, <2>1, <2>4, <2>5 DEF Owners
  <2>10. PICK N : N = add_item_to_array(A, n, x)
    OBVIOUS
  <2>11. PICK k2 : Tended(N, Total(A), R \ {x}, L, k2)
    <3>1. PICK which \in Nat : which = 0
      OBVIOUS
    <3>2. \E k2 : Tended(N, Total(A), R \ {x}, L, k2)
      BY <2>6, <2>8, <2>9, <2>10, <3>1, TendedTakesIn
    <3> QED BY <3>2
  <2>12. (R \ {x}) \cup L = {n}
    BY <1>4, <1>5, <2>1, <2>3
  <2> QED BY <2>10, <2>11, <2>12 DEF Tended
<1>11. /\ SameItems(V, W) /\ W[n].child # NULL /\ W[n].child \in DOMAIN V
       /\ \A y \in DOMAIN V : W[y].next \in Pointer /\ W[y].prev \in Pointer /\ W[y].child \in Pointer
       /\ Finish(W, n, x) = N
  <2>1. n \in DOMAIN V /\ x \in DOMAIN V /\ Nexts(V)[x] = NULL /\ n \in Pointer /\ x \in Pointer /\ x # n
    BY <1>4, <1>5, <1>7, <1>8, Fields
  <2>2. \A y \in DOMAIN V : Nexts(V)[y] \in Pointer /\ Prevs(V)[y] \in Pointer /\ Firsts(V)[y] \in Pointer
    <3> TAKE y \in DOMAIN V
    <3>1. V[y] \in Item
      BY <1>7 DEF Cells
    <3> QED BY <3>1, ItemFields, Fields
  <2>3. CASE l = NULL
    <3>1. A = V /\ U[n].child = NULL /\ V[n].child = NULL
      BY <1>2, <1>4, <1>6, <1>7, <1>9, <2>3 DEF Unfinished
    <3>2. W = SetChild(V, n, x)
      BY <1>6, <2>3 DEF Hang, SetChild
    <3>3. /\ SameItems(V, W) /\ Heap(W) /\ DOMAIN W = DOMAIN V
          /\ Firsts(W) = With(Firsts(V), n, x) /\ Nexts(W) = Nexts(V) /\ Prevs(W) = Prevs(V)
      BY <1>8, <2>1, <3>2, ChildIsSet
    <3>4. W[n].child = x
      <4>1. n \in DOMAIN W /\ n \in DOMAIN Firsts(V) /\ Firsts(W)[n] = With(Firsts(V), n, x)[n]
        BY <2>1, <3>3, Domains
      <4> QED BY <4>1, WithGives, Fields
    <3>5. PICK X : X = SetPrev(W, x, x)
      OBVIOUS
    <3>6. Finish(W, n, x) = X
      BY <1>5, <3>4, <3>5 DEF Finish, SetPrev
    <3>7. /\ SameItems(W, X) /\ Heap(X) /\ DOMAIN X = DOMAIN V
          /\ Prevs(X) = With(Prevs(W), x, x) /\ Nexts(X) = Nexts(W) /\ Firsts(X) = Firsts(W)
      BY <2>1, <3>3, <3>5, PrevIsSet
    <3>8. N = SetNext(X, x, NULL)
      BY <1>10, <2>1, <3>1, <3>2, <3>5 DEF add_item_to_array, SetNext, SetPrev, SetChild
    <3>9. /\ SameItems(X, N) /\ Nexts(N) = With(Nexts(X), x, NULL)
          /\ Prevs(N) = Prevs(X) /\ Firsts(N) = Firsts(X)
      BY <2>1, <3>7, <3>8, NextIsSet
    <3>10. With(Nexts(V), x, NULL) = Nexts(V)
      BY <2>1 DEF With, Nexts
    <3>11. X = N
      BY <3>3, <3>7, <3>9, <3>10, HeapsAgree
    <3>12. \A y \in DOMAIN V : W[y].next \in Pointer /\ W[y].prev \in Pointer /\ W[y].child \in Pointer
      <4> TAKE y \in DOMAIN V
      <4>1. /\ W[y].next = Nexts(V)[y] /\ W[y].prev = Prevs(V)[y]
            /\ W[y].child = With(Firsts(V), n, x)[y] /\ y \in DOMAIN Firsts(V)
        <5>1. /\ y \in DOMAIN W /\ y \in DOMAIN Firsts(V)
          BY <3>3, Domains
        <5>2. W[y].next = Nexts(W)[y] /\ W[y].prev = Prevs(W)[y] /\ W[y].child = Firsts(W)[y]
          BY <5>1, Fields
        <5> QED BY <3>3, <5>1, <5>2
      <4>2. With(Firsts(V), n, x)[y] = IF y = n THEN x ELSE Firsts(V)[y]
        BY <4>1, WithGives
      <4> QED BY <2>1, <2>2, <4>1, <4>2
    <3> QED BY <1>5, <2>1, <3>3, <3>4, <3>6, <3>11, <3>12
  <2>4. CASE l # NULL
    <3>1. PICK c \in DOMAIN U : c = U[n].child /\ c # NULL
      BY <2>4 DEF Unfinished
    <3>2. l \in DOMAIN U /\ l \in Pointer /\ l \in DOMAIN V /\ c \in DOMAIN V /\ V[n].child = c
      BY <1>4, <1>7, <1>8, <2>4, <3>1 DEF Unfinished
    <3>3. PICK X : X = SetNext(V, l, x)
      OBVIOUS
    <3>4. /\ SameItems(V, X) /\ Heap(X) /\ DOMAIN X = DOMAIN V
          /\ Nexts(X) = With(Nexts(V), l, x) /\ Prevs(X) = Prevs(V) /\ Firsts(X) = Firsts(V)
      BY <1>8, <3>2, <3>3, NextIsSet
    <3>5. W = SetPrev(X, x, l)
      BY <1>6, <2>4, <3>3 DEF Hang, suffix_object, SetNext, SetPrev
    <3>6. /\ SameItems(X, W) /\ Heap(W) /\ DOMAIN W = DOMAIN V
          /\ Prevs(W) = With(Prevs(X), x, l) /\ Nexts(W) = Nexts(X) /\ Firsts(W) = Firsts(X)
      BY <2>1, <3>4, <3>5, PrevIsSet
    <3>7. SameItems(V, W)
      BY <3>4, <3>6, SameAgain
    <3>8. W[n].child = c
      BY <2>1, <3>2, <3>4, <3>6, Fields
    <3>9. PICK Y : Y = SetPrev(W, c, x)
      OBVIOUS
    <3>10. Finish(W, n, x) = Y
      BY <1>5, <3>8, <3>9 DEF Finish, SetPrev
    <3>11. /\ SameItems(W, Y) /\ Heap(Y) /\ DOMAIN Y = DOMAIN V
           /\ Prevs(Y) = With(Prevs(W), c, x) /\ Nexts(Y) = Nexts(W) /\ Firsts(Y) = Firsts(W)
      BY <3>2, <3>6, <3>9, PrevIsSet
    <3>12. A = SetPrev(V, c, l)
      <4>1. F = SetPrev(U, c, l)
        BY <1>2, <2>4, <3>1
      <4>2. DOMAIN U \cap DOMAIN g = {}
        BY <1>4
      <4> QED BY <1>6, <1>9, <3>1, <4>1, <4>2, SetInBoth
    <3>13. /\ SameItems(V, A) /\ Heap(A) /\ DOMAIN A = DOMAIN V
           /\ Prevs(A) = With(Prevs(V), c, l) /\ Nexts(A) = Nexts(V) /\ Firsts(A) = Firsts(V)
      BY <1>8, <3>2, <3>12, PrevIsSet
    <3>14. A[n].child = c /\ A[c].prev = l
      <4>1. /\ c \in DOMAIN A /\ c \in DOMAIN Prevs(V) /\ Prevs(A)[c] = With(Prevs(V), c, l)[c]
            /\ n \in DOMAIN A /\ Firsts(A)[n] = Firsts(V)[n]
        BY <2>1, <3>2, <3>13, Domains
      <4> QED BY <2>1, <3>2, <4>1, WithGives, Fields
    <3>15. PICK A1 : A1 = SetNext(A, l, x)
      OBVIOUS
    <3>16. /\ SameItems(A, A1) /\ Heap(A1) /\ DOMAIN A1 = DOMAIN V
           /\ Nexts(A1) = With(Nexts(A), l, x) /\ Prevs(A1) = Prevs(A) /\ Firsts(A1) = Firsts(A)
      BY <3>2, <3>13, <3>15, NextIsSet
    <3>17. PICK A2 : A2 = SetPrev(A1, x, l)
      OBVIOUS
    <3>18. /\ SameItems(A1, A2) /\ Heap(A2) /\ DOMAIN A2 = DOMAIN V
           /\ Prevs(A2) = With(Prevs(A1), x, l) /\ Nexts(A2) = Nexts(A1) /\ Firsts(A2) = Firsts(A1)
      BY <2>1, <3>16, <3>17, PrevIsSet
    <3>19. N = SetPrev(A2, c, x)
      <4>1. N = [suffix_object(A, l, x) EXCEPT ![c].prev = x]
        BY <1>10, <2>1, <2>4, <3>1, <3>14 DEF add_item_to_array
      <4> QED BY <3>15, <3>17, <4>1 DEF suffix_object, SetNext, SetPrev
    <3>20. /\ SameItems(A2, N) /\ Prevs(N) = With(Prevs(A2), c, x)
           /\ Nexts(N) = Nexts(A2) /\ Firsts(N) = Firsts(A2)
      BY <3>2, <3>18, <3>19, PrevIsSet
    <3>21. Prevs(Y) = Prevs(N)
      <4>1. PICK P : P = Prevs(V)
        OBVIOUS
      <4>2. Prevs(Y) = With(With(P, x, l), c, x) /\ Prevs(N) = With(With(With(P, c, l), x, l), c, x)
        BY <3>4, <3>6, <3>11, <3>13, <3>16, <3>18, <3>20, <4>1
      <4>3. With(With(P, x, l), c, x) = With(With(With(P, c, l), x, l), c, x)
        BY <2>1 DEF With
      <4> QED BY <4>2, <4>3
    <3>22. SameItems(Y, N)
      <4>1. SameItems(V, Y) /\ SameItems(V, N)
        BY <3>7, <3>11, <3>13, <3>16, <3>18, <3>20, SameAgain
      <4> QED BY <3>11, <4>1 DEF SameItems
    <3>23. Y = N
      BY <3>4, <3>6, <3>11, <3>13, <3>16, <3>18, <3>20, <3>21, <3>22, HeapsAgree
    <3>24. \A y \in DOMAIN V : W[y].next \in Pointer /\ W[y].prev \in Pointer /\ W[y].child \in Pointer
      <4> TAKE y \in DOMAIN V
      <4>1. /\ W[y].next = With(Nexts(V), l, x)[y] /\ W[y].prev = With(Prevs(V), x, l)[y]
            /\ W[y].child = Firsts(V)[y] /\ y \in DOMAIN Nexts(V) /\ y \in DOMAIN Prevs(V)
        <5>1. /\ y \in DOMAIN W /\ y \in DOMAIN Nexts(V) /\ y \in DOMAIN Prevs(V)
          BY <3>6, Domains
        <5>2. W[y].next = Nexts(W)[y] /\ W[y].prev = Prevs(W)[y] /\ W[y].child = Firsts(W)[y]
          BY <5>1, Fields
        <5> QED BY <3>4, <3>6, <5>1, <5>2
      <4>2. /\ With(Nexts(V), l, x)[y] = (IF y = l THEN x ELSE Nexts(V)[y])
            /\ With(Prevs(V), x, l)[y] = (IF y = x THEN l ELSE Prevs(V)[y])
        BY <4>1, WithGives
      <4> QED BY <2>1, <2>2, <3>2, <4>1, <4>2
    <3> QED BY <3>1, <3>2, <3>7, <3>8, <3>10, <3>23, <3>24
  <2> QED BY <2>3, <2>4
<1>12. DOMAIN W = DOMAIN V
  BY <1>11 DEF SameItems
<1>13. /\ Cells(W) /\ \A a \in DOMAIN V : /\ W[a].ref = V[a].ref /\ W[a].const = V[a].const
                                          /\ W[a].key = V[a].key /\ W[a].text = V[a].text
  BY <1>7, <1>11, <1>12, CellsStay
<1>14. Unfinished(W, n, x)
  <2>1. \A a \in DOMAIN U : ~U[a].ref
    BY DEF Unfinished
  <2>2. \A a \in DOMAIN W : ~W[a].ref
    BY <1>4, <1>7, <1>12, <1>13, <2>1
  <2> QED BY <1>4, <1>5, <1>7, <1>10, <1>11, <1>12, <1>13, <2>2 DEF Unfinished
<1>15. Total(W) = Total(U) + Total(g)
  <2>1. Total(W) = Total(V)
    <3>1. \A a \in DOMAIN V : (OwnsText(W[a]) <=> OwnsText(V[a])) /\ (OwnsKey(W[a]) <=> OwnsKey(V[a]))
      BY <1>13 DEF OwnsText, OwnsKey
    <3> QED BY <1>12, <3>1, OwnedAlike DEF Total
  <2>2. IsFiniteSet(DOMAIN U) /\ IsFiniteSet(DOMAIN g) /\ DOMAIN U \cap DOMAIN g = {}
    BY <1>4, <1>5, CellsAreHeap DEF Heap
  <2>3. Total(V) = Total(U) + Total(g)
    BY <1>6, <2>2, TotalOfBoth
  <2> QED BY <2>1, <2>3
<1> QED BY <1>7, <1>12, <1>14, <1>15 DEF Lengthened

LEMMA HangInBoth ==
  ASSUME NEW a, NEW b, DOMAIN a \cap DOMAIN b = {}, NEW n \in DOMAIN b, NEW x \in DOMAIN b,
         NEW l, l # NULL => l \in DOMAIN b
  PROVE  Hang(Both(a, b), n, l, x) = Both(a, Hang(b, n, l, x))
<1>1. CASE l = NULL
  <2>1. /\ Hang(Both(a, b), n, l, x) = SetChild(Both(a, b), n, x) /\ Hang(b, n, l, x) = SetChild(b, n, x)
    BY <1>1 DEF Hang, SetChild
  <2> QED BY <2>1, SetInBoth
<1>2. CASE l # NULL
  <2>1. PICK c : c = SetNext(b, l, x)
    OBVIOUS
  <2>2. SetNext(Both(a, b), l, x) = Both(a, c) /\ DOMAIN c = DOMAIN b
    BY <1>2, <2>1, SetInBoth
  <2>3. DOMAIN a \cap DOMAIN c = {} /\ x \in DOMAIN c
    BY <2>2
  <2>4. SetPrev(Both(a, c), x, l) = Both(a, SetPrev(c, x, l))
    BY <2>3, SetInBoth
  <2>5. Hang(Both(a, b), n, l, x) = SetPrev(SetNext(Both(a, b), l, x), x, l)
    BY <1>2 DEF Hang, suffix_object, SetNext, SetPrev
  <2>6. Hang(b, n, l, x) = SetPrev(c, x, l)
    BY <1>2, <2>1 DEF Hang, suffix_object, SetNext, SetPrev
  <2> QED BY <2>2, <2>4, <2>5, <2>6
<1> QED BY <1>1, <1>2

(* From the memory m a list of children of a new item n is under way. *)
Progress(m, n, list) ==
  /\ list = [m |-> list.m, last |-> list.last, ok |-> list.ok]
  /\ \E U, l : /\ DOMAIN m.h \cap DOMAIN U = {} /\ Unfinished(U, n, l)
               /\ list.m = [h |-> Both(m.h, U), s |-> m.s + Total(U)]
               /\ list.ok => l = list.last

\* Made things are new items in a memory as good as the one before.
LEMMA MemoryGrows ==
  ASSUME NEW m, Memory(m), NEW U, DOMAIN m.h \cap DOMAIN U = {}, Cells(U), NextIsItem(U),
         NEW q, q = [h |-> Both(m.h, U), s |-> m.s + Total(U)]
  PROVE  Memory(q)
<1>1. PICK h, s : h = Both(m.h, U) /\ s = m.s + Total(U)
  OBVIOUS
<1>2. Cells(m.h) /\ NextIsItem(m.h) /\ m.s \in Nat
  BY DEF Memory
<1>3. Holds(h, m.h, U)
  BY <1>1, <1>2, CellsInBoth
<1>4. NextIsItem(h)
  <2> SUFFICES ASSUME NEW y \in DOMAIN h PROVE h[y].next \in DOMAIN h \cup {NULL}
    BY Fields DEF NextIsItem
  <2>1. CASE y \in DOMAIN m.h
    BY <1>2, <1>3, <2>1, Fields DEF NextIsItem, Holds
  <2>2. CASE y \in DOMAIN U
    BY <1>3, <2>2, Fields DEF NextIsItem, Holds
  <2> QED BY <1>3, <2>1, <2>2 DEF Holds
<1>5. s \in Nat
  <2>1. IsFiniteSet(DOMAIN m.h) /\ IsFiniteSet(DOMAIN U)
    BY <1>2, CellsAreHeap DEF Heap
  <2>2. Total(U) \in Nat
    BY <2>1, TotalOfBoth
  <2> QED BY <1>1, <1>2, <2>2
<1>6. q = [h |-> q.h, s |-> q.s] /\ q.h = h /\ q.s = s
  BY <1>1
<1> QED BY <1>3, <1>4, <1>5, <1>6 DEF Memory, Holds

LEMMA UnfinishedIsSound ==
  ASSUME NEW U, NEW n, NEW l, Unfinished(U, n, l)
  PROVE  Cells(U) /\ NextIsItem(U)
<1>1. PICK F, k : F = Finish(U, n, l) /\ Grove(F, {n}, k)
  BY DEF Unfinished
<1>2. NextIsItem(F)
  BY <1>1, GroveFacts
<1>3. Nexts(F) = Nexts(U) /\ DOMAIN F = DOMAIN U
  BY <1>1, FinishEffect
<1> QED BY <1>2, <1>3 DEF Unfinished, NextIsItem

LEMMA ProgressIsSound ==
  ASSUME NEW m, Memory(m), NEW n, NEW list, Progress(m, n, list)
  PROVE  Memory(list.m)
<1>1. PICK U, l : /\ DOMAIN m.h \cap DOMAIN U = {} /\ Unfinished(U, n, l)
                  /\ list.m = [h |-> Both(m.h, U), s |-> m.s + Total(U)]
  BY DEF Progress
<1>2. Cells(U) /\ NextIsItem(U)
  BY <1>1, UnfinishedIsSound
<1> QED BY <1>1, <1>2, MemoryGrows

\* The list begins with none.
LEMMA ListBegins ==
  ASSUME NEW m, Memory(m), NEW g, NEW n, Grown(m.h, g, n), g[n].child = NULL,
         NEW q, q = [h |-> Both(m.h, g), s |-> m.s + Total(g)]
  PROVE  Progress(m, n, UnderWay(q))
<1>1. PICK k : Grove(g, {n}, k) /\ DOMAIN m.h \cap DOMAIN g = {} /\ \A a \in DOMAIN g : ~g[a].ref
  BY DEF Grown
<1>2. Cells(g) /\ n \in DOMAIN g
  <2>1. Cells(g) /\ {n} \subseteq DOMAIN g
    BY <1>1, GroveFacts
  <2> QED BY <2>1
<1>3. Finish(g, n, NULL) = g
  BY DEF Finish
<1>4. Unfinished(g, n, NULL)
  BY <1>1, <1>2, <1>3 DEF Unfinished
<1>5. PICK list : list = UnderWay(q)
  OBVIOUS
<1>6. list.m = q /\ list.last = NULL /\ list = [m |-> list.m, last |-> list.last, ok |-> list.ok]
  BY <1>5 DEF UnderWay
<1> QED BY <1>1, <1>4, <1>5, <1>6 DEF Progress

\* It stays one whatever comes of the next child.
LEMMA ListGoesOn ==
  ASSUME NEW m, Memory(m), NEW n, NEW list, Progress(m, n, list), NEW r,
         list.ok => Made(list.m, r), NEW longer, longer = Longer(list, n, r)
  PROVE  Progress(m, n, longer)
<1>1. PICK U, l : /\ DOMAIN m.h \cap DOMAIN U = {} /\ Unfinished(U, n, l)
                  /\ list.m = [h |-> Both(m.h, U), s |-> m.s + Total(U)]
                  /\ list.ok => l = list.last
  BY DEF Progress
<1>2. CASE ~list.ok
  BY <1>2 DEF Longer
<1>3. CASE list.ok /\ r = Nothing(list.m)
  <2>1. r.item = NULL /\ r.m = list.m
    BY <1>3 DEF Nothing
  <2>2. longer = [m |-> list.m, last |-> list.last, ok |-> FALSE]
    BY <1>3, <2>1 DEF Longer
  <2>3. /\ longer.m = list.m /\ ~longer.ok
        /\ longer = [m |-> longer.m, last |-> longer.last, ok |-> longer.ok]
    BY <2>2
  <2> QED BY <1>1, <2>3 DEF Progress
<1>4. CASE list.ok /\ r # Nothing(list.m)
  <2>1. PICK h, x, s : h = list.m.h /\ x = r.item /\ s = list.m.s
    OBVIOUS
  <2>2. PICK g : Grown(h, g, x) /\ r.m = [h |-> Both(h, g), s |-> s + Total(g)]
    BY <1>4, <2>1 DEF Made
  <2>3. h = Both(m.h, U) /\ s = m.s + Total(U) /\ l = list.last
    BY <1>1, <1>4, <2>1
  <2>4. DOMAIN h = DOMAIN m.h \cup DOMAIN U
    BY <2>3 DEF Both
  <2>5. DOMAIN g \cap DOMAIN U = {} /\ DOMAIN g \cap DOMAIN m.h = {}
    BY <2>2, <2>4 DEF Grown
  <2>6. Grown(U, g, x)
    BY <2>2, <2>5 DEF Grown
  <2>7. x \in DOMAIN g /\ x # NULL /\ Cells(g)
    <3>1. PICK k : Grove(g, {x}, k)
      BY <2>2 DEF Grown
    <3>2. {x} \subseteq DOMAIN g /\ NULL \notin DOMAIN g /\ Cells(g)
      BY <3>1, GroveFacts
    <3> QED BY <3>2
  <2>8. PICK V, W : V = Both(U, g) /\ W = Hang(V, n, l, x)
    OBVIOUS
  <2>9. Unfinished(W, n, x) /\ DOMAIN W = DOMAIN U \cup DOMAIN g /\ Total(W) = Total(U) + Total(g)
    <3>1. W = Hang(Both(U, g), n, l, x)
      BY <2>8
    <3>2. Unfinished(U, n, l)
      BY <1>1
    <3>3. Lengthened(U, g, W, n, x)
      BY <2>6, <3>1, <3>2, ListGrows
    <3> QED BY <3>3 DEF Lengthened
  <2>10. r.m.h = Both(m.h, V)
    BY <2>2, <2>3, <2>8, BothTwice
  <2>11. Hang(Both(m.h, V), n, l, x) = Both(m.h, W)
    <3>1. DOMAIN V = DOMAIN U \cup DOMAIN g
      BY <2>8 DEF Both
    <3>2. DOMAIN m.h \cap DOMAIN V = {}
      BY <1>1, <2>5, <3>1
    <3>3. n \in DOMAIN V /\ x \in DOMAIN V /\ (l # NULL => l \in DOMAIN V)
      BY <1>1, <2>7, <3>1 DEF Unfinished
    <3> QED BY <2>8, <3>2, <3>3, HangInBoth
  <2>12. longer = [m |-> [h |-> Both(m.h, W), s |-> s + Total(g)], last |-> x, ok |-> TRUE]
    <3>1. longer = [m |-> [r.m EXCEPT !.h = Hang(@, n, l, x)], last |-> x, ok |-> TRUE]
      BY <1>4, <2>1, <2>3, <2>7 DEF Longer
    <3>2. [r.m EXCEPT !.h = Hang(@, n, l, x)] = [h |-> Hang(r.m.h, n, l, x), s |-> s + Total(g)]
      BY <2>2
    <3> QED BY <2>10, <2>11, <3>1, <3>2
  <2>13. s + Total(g) = m.s + Total(W)
    <3>1. IsFiniteSet(DOMAIN U) /\ IsFiniteSet(DOMAIN g) /\ DOMAIN U \cap DOMAIN g = {}
      BY <1>1, <2>5, <2>7, CellsAreHeap DEF Unfinished, Heap
    <3>2. PICK t \in Nat, u \in Nat : t = Total(U) /\ u = Total(g)
      BY <3>1, TotalOfBoth
    <3>3. PICK v \in Nat : v = m.s
      BY DEF Memory
    <3>4. (v + t) + u = v + (t + u)
      OBVIOUS
    <3> QED BY <2>3, <2>9, <3>2, <3>3, <3>4
  <2>14. DOMAIN m.h \cap DOMAIN W = {}
    BY <1>1, <2>5, <2>9
  <2>15. /\ longer.m = [h |-> Both(m.h, W), s |-> m.s + Total(W)] /\ longer.last = x
         /\ longer = [m |-> longer.m, last |-> longer.last, ok |-> longer.ok]
    BY <2>12, <2>13
  <2> QED BY <2>9, <2>14, <2>15 DEF Progress
<1> QED BY <1>2, <1>3, <1>4

LEMMA FinishKeeps ==
  ASSUME NEW U, NEW n, NEW l, Unfinished(U, n, l), NEW F, F = Finish(U, n, l)
  PROVE  /\ DOMAIN F = DOMAIN U /\ Total(F) = Total(U)
         /\ \A a \in DOMAIN U : F[a].next = U[a].next /\ F[a].child = U[a].child /\ F[a].ref = U[a].ref
<1>1. SameItems(U, F) /\ DOMAIN F = DOMAIN U /\ Nexts(F) = Nexts(U) /\ Firsts(F) = Firsts(U)
  BY FinishEffect
<1>2. ASSUME NEW a \in DOMAIN U
      PROVE  F[a].ref = U[a].ref /\ F[a].const = U[a].const /\ F[a].key = U[a].key /\ F[a].text = U[a].text
  <2>1. U[a] \in Item
    BY DEF Unfinished, Cells
  <2>2. {"ref", "const", "key", "text"} \subseteq DOMAIN U[a] \ Pointers
    BY <2>1, ItemFields DEF Pointers
  <2>3. \A f \in DOMAIN U[a] \ Pointers : F[a][f] = U[a][f]
    BY <1>1 DEF SameItems
  <2> QED BY <2>2, <2>3
<1>3. \A a \in DOMAIN U : (OwnsText(F[a]) <=> OwnsText(U[a])) /\ (OwnsKey(F[a]) <=> OwnsKey(U[a]))
  BY <1>2 DEF OwnsText, OwnsKey
<1>4. Total(F) = Total(U)
  BY <1>1, <1>3, OwnedAlike DEF Total
<1>5. \A a \in DOMAIN U : F[a].next = U[a].next /\ F[a].child = U[a].child
  BY <1>1, Fields
<1> QED BY <1>1, <1>2, <1>4, <1>5

\* A list that is complete is a new tree; of one that is not nothing remains.
LEMMA ListEnds ==
  ASSUME NEW m, Memory(m), NEW n, NEW list, Progress(m, n, list), NEW r, r = Finished(list, n)
  PROVE  Made(m, r)
<1>1. PICK U, l : /\ DOMAIN m.h \cap DOMAIN U = {} /\ Unfinished(U, n, l)
                  /\ list.m = [h |-> Both(m.h, U), s |-> m.s + Total(U)]
                  /\ list.ok => l = list.last
  BY DEF Progress
<1>2. PICK F, k : F = Finish(U, n, l) /\ Grove(F, {n}, k)
  BY <1>1 DEF Unfinished
<1>3. /\ DOMAIN F = DOMAIN U /\ Total(F) = Total(U)
      /\ \A a \in DOMAIN U : F[a].next = U[a].next /\ F[a].child = U[a].child /\ F[a].ref = U[a].ref
  BY <1>1, <1>2, FinishKeeps
<1>4. n \in DOMAIN U /\ n # NULL /\ n \notin DOMAIN m.h
  <2>1. Cells(U) /\ n \in DOMAIN U
    BY <1>1 DEF Unfinished
  <2>2. NULL \notin DOMAIN U
    BY <2>1, CellsAreHeap DEF Heap
  <2> QED BY <1>1, <2>1, <2>2
<1>5. PICK h : h = Both(m.h, U)
  OBVIOUS
<1>6. DOMAIN h = DOMAIN m.h \cup DOMAIN U /\ \A a \in DOMAIN U : h[a] = U[a]
  BY <1>1, <1>5 DEF Both
<1>7. CASE list.ok
  <2>1. Finish(h, n, l) = Both(m.h, F)
    <3>1. CASE l = NULL
      BY <1>2, <1>5, <3>1 DEF Finish
    <3>2. CASE l # NULL
      <4>1. PICK c \in DOMAIN U : c = U[n].child /\ c = h[n].child
        BY <1>1, <1>4, <1>6, <3>2 DEF Unfinished
      <4>2. F = SetPrev(U, c, l) /\ Finish(h, n, l) = SetPrev(h, c, l)
        BY <1>2, <3>2, <4>1 DEF Finish, SetPrev
      <4>3. SetPrev(Both(m.h, U), c, l) = Both(m.h, SetPrev(U, c, l))
        BY <1>1, <4>1, SetInBoth
      <4> QED BY <1>5, <4>2, <4>3
    <3> QED BY <3>1, <3>2
  <2>2. r = [m |-> [list.m EXCEPT !.h = Finish(@, n, l)], item |-> n]
    BY <1>1, <1>7 DEF Finished
  <2>3. r.m = [h |-> Both(m.h, F), s |-> m.s + Total(F)] /\ r.item = n
    BY <1>1, <1>3, <1>5, <2>1, <2>2
  <2>4. Grown(m.h, F, n)
    <3>1. \A a \in DOMAIN U : ~U[a].ref
      BY <1>1 DEF Unfinished
    <3> QED BY <1>1, <1>2, <1>3, <3>1 DEF Grown
  <2> QED BY <2>3, <2>4 DEF Made
<1>8. CASE ~list.ok
  <2>1. PICK D : D = DOMAIN U
    OBVIOUS
  <2>2. Doomed(h, {n}) = D
    <3>1. DOMAIN F \subseteq DOMAIN h
      BY <1>3, <1>6
    <3>2. \A a \in DOMAIN F : h[a].next = F[a].next /\ h[a].child = F[a].child /\ h[a].ref = F[a].ref
      BY <1>3, <1>6
    <3> QED BY <1>2, <1>3, <2>1, <3>1, <3>2, TreeIsDoomed
  <2>3. PICK s, t : s = m.s + Total(U) /\ t = Owned(h, D)
    OBVIOUS
  <2>4. cJSON_Delete(list.m, n) = [h |-> [a \in DOMAIN h \ D |-> h[a]], s |-> s - t]
    BY <1>1, <1>4, <1>5, <2>2, <2>3 DEF cJSON_Delete
  <2>5. [a \in DOMAIN h \ D |-> h[a]] = m.h
    <3>1. DOMAIN h \ D = DOMAIN m.h /\ \A a \in DOMAIN m.h : h[a] = m.h[a]
      BY <1>1, <1>5, <1>6, <2>1 DEF Both
    <3>2. m.h = [a \in DOMAIN m.h |-> m.h[a]]
      BY DEF Memory, Cells
    <3> QED BY <3>1, <3>2
  <2>6. s - t = m.s
    <3>1. IsFiniteSet(DOMAIN m.h) /\ IsFiniteSet(DOMAIN U)
      BY <1>1, CellsAreHeap DEF Unfinished, Memory, Heap
    <3>2. t = Total(U) /\ Total(U) \in Nat
      BY <1>1, <1>5, <2>1, <2>3, <3>1, TotalOfBoth
    <3>3. m.s \in Nat
      BY DEF Memory
    <3> QED BY <2>3, <3>2, <3>3
  <2>7. cJSON_Delete(list.m, n) = m
    BY <2>4, <2>5, <2>6 DEF Memory
  <2> QED BY <1>8, <2>7 DEF Finished, Made
<1> QED BY <1>7, <1>8

\* What cJSON_CreateStringArray and its relatives give.
LEMMA ArrayCreated ==
  ASSUME NEW m, Memory(m), NEW count \in Nat, NEW type \in Leaf, NEW broken,
         NEW r, r = CreateArrayOf(m, count, type, broken)
  PROVE  Made(m, r)
<1>1. PICK a : a = CreateItem(m, "array", TRUE)
  OBVIOUS
<1>2. Made(m, a) /\ MadeOne(m, "array", a)
  <2>1. "array" \in Leaf \cup Container /\ TRUE \in BOOLEAN
    BY DEF Container
  <2> QED BY <1>1, <2>1, ItemCreated
<1> DEFINE Next1(i, list) == Longer(list, a.item, CreateItem(list.m, type, i # broken))
           IsList(f, k) == f = [i \in 0..k |-> IF i = 0 THEN UnderWay(a.m) ELSE
                                  Longer(f[i - 1], a.item, CreateItem(f[i - 1].m, type, i # broken))]
           F == CHOOSE f : IsList(f, count)
<1>3. r = IF a.item = NULL THEN a ELSE Finished(F[count], a.item)
  BY <1>1 DEF CreateArrayOf
<1>4. CASE a.item = NULL
  BY <1>2, <1>3, <1>4
<1>5. CASE a.item # NULL
  <2>1. PICK n : n = a.item
    OBVIOUS
  <2>2. IsList(F, count)
    <3> DEFINE T == {k \in 0..count : \E f : IsList(f, k)}
    <3>1. 0 \in T
      <4>1. PICK f : f = [i \in 0..0 |-> UnderWay(a.m)]
        OBVIOUS
      <4>2. IsList(f, 0)
        BY <4>1
      <4>3. 0 \in 0..count
        OBVIOUS
      <4> HIDE DEF IsList
      <4> QED BY <4>2, <4>3
    <3>2. ASSUME NEW k \in 0..(count - 1), k \in T PROVE k + 1 \in T
      <4>1. PICK f : IsList(f, k)
        BY <3>2
      <4>2. PICK g : g = [i \in 0..(k + 1) |-> IF i = k + 1 THEN Next1(k + 1, f[k]) ELSE f[i]]
        OBVIOUS
      <4>3. \A i \in 0..k : g[i] = f[i]
        BY <4>2
      <4>4. \A i \in 0..(k + 1) : g[i] = IF i = 0 THEN UnderWay(a.m) ELSE Next1(i, g[i - 1])
        <5> TAKE i \in 0..(k + 1)
        <5>1. CASE i = k + 1
          <6>1. i # 0 /\ i - 1 = k /\ g[k] = f[k]
            BY <4>3, <5>1
          <6>2. g[i] = Next1(k + 1, f[k])
            BY <4>2, <5>1
          <6> QED BY <5>1, <6>1, <6>2
        <5>2. CASE i # k + 1
          <6>1. i \in 0..k /\ (i # 0 => i - 1 \in 0..k)
            BY <5>2
          <6>2. f[i] = IF i = 0 THEN UnderWay(a.m) ELSE Next1(i, f[i - 1])
            BY <4>1, <6>1
          <6> QED BY <4>3, <6>1, <6>2
        <5> QED BY <5>1, <5>2
      <4>5. IsList(g, k + 1)
        <5>1. g = [i \in 0..(k + 1) |-> g[i]]
          BY <4>2
        <5> QED BY <4>4, <5>1
      <4> QED BY <4>5
    <3> HIDE DEF T
    <3>3. 0..count \subseteq T
      BY <3>1, <3>2, InductBetween
    <3>4. count \in T
      BY <3>3
    <3> QED BY <3>4 DEF T
  <2>3. PICK f : f = F /\ IsList(f, count)
    BY <2>2
  <2> HIDE DEF F
  <2>4. \A i \in 0..count : f[i] = IF i = 0 THEN UnderWay(a.m) ELSE Next1(i, f[i - 1])
    BY <2>3
  <2>5. PICK T : T = {i \in 0..count : Progress(m, n, f[i])}
    OBVIOUS
  <2>6. 0 \in T
    <3>1. PICK g : /\ Grown(m.h, g, n) /\ g[n].child = NULL
                   /\ a.m = [h |-> Both(m.h, g), s |-> m.s + Total(g)]
      BY <1>2, <1>5, <2>1 DEF Nothing, MadeOne
    <3>2. Progress(m, n, UnderWay(a.m))
      BY <3>1, ListBegins
    <3>3. f[0] = UnderWay(a.m) /\ 0 \in 0..count
      BY <2>4
    <3> QED BY <2>5, <3>2, <3>3
  <2>7. ASSUME NEW i \in 0..(count - 1), i \in T PROVE i + 1 \in T
    <3>1. PICK list : list = f[i] /\ Progress(m, n, list)
      BY <2>5, <2>7
    <3>2. PICK q : q = CreateItem(list.m, type, i + 1 # broken)
      OBVIOUS
    <3>3. Made(list.m, q)
      <4>1. Memory(list.m)
        BY <3>1, ProgressIsSound
      <4>2. type \in Leaf \cup Container /\ (i + 1 # broken) \in BOOLEAN
        OBVIOUS
      <4>3. PICK strdup \in BOOLEAN : strdup = (i + 1 # broken)
        BY <4>2
      <4> QED BY <3>2, <4>1, <4>2, <4>3, ItemCreated
    <3>4. PICK longer : longer = Longer(list, n, q)
      OBVIOUS
    <3>5. Progress(m, n, longer)
      BY <3>1, <3>3, <3>4, ListGoesOn
    <3>6. f[i + 1] = longer /\ i + 1 \in 0..count
      <4>1. i + 1 \in 0..count /\ i + 1 # 0 /\ (i + 1) - 1 = i
        OBVIOUS
      <4>2. f[i + 1] = Next1(i + 1, f[i])
        BY <2>4, <4>1
      <4> QED BY <2>1, <3>1, <3>2, <3>4, <4>1, <4>2
    <3> QED BY <2>5, <3>5, <3>6
  <2>8. count \in T
    <3>1. 0..count \subseteq T
      BY <2>6, <2>7, InductBetween
    <3> QED BY <3>1
  <2>9. PICK list : list = f[count] /\ Progress(m, n, list) /\ r = Finished(list, n)
    BY <1>3, <1>5, <2>1, <2>3, <2>5, <2>8
  <2> QED BY <2>9, ListEnds
<1> QED BY <1>4, <1>5

-----------------------------------------------------------------------------
(* Copying trees *)

(* What the items of S lead to is in S. *)
Source(h, S) == S \subseteq DOMAIN h /\ \A x \in S : {h[x].next, h[x].child} \subseteq S \cup {NULL}

LEMMA ChildrenWithin ==
  ASSUME NEW h, Heap(h), NextIsItem(h), NEW S, Source(h, S), NEW item \in S
  PROVE  Children(h, item) \in Seq(S)
<1>1. PICK N \in Nat : N = Cardinality(DOMAIN h)
  BY FS_CardinalityType DEF Heap
<1>2. PICK f : IsWalk(h, f) /\ Children(h, item) = f[N][h[item].child]
  <2>1. IsWalk(h, CHOOSE f : IsWalk(h, f))
    BY WalkExists
  <2>2. Children(h, item) = (CHOOSE f : IsWalk(h, f))[N][h[item].child]
    BY <1>1 DEF Children, IsWalk
  <2> QED BY <2>1, <2>2
<1>3. \A k \in 0..N, n \in DOMAIN h \cup {NULL} :
        f[k][n] = IF n = NULL \/ k = 0 THEN <<>> ELSE <<n>> \o f[k - 1][h[n].next]
  <2> SUFFICES ASSUME NEW k \in 0..N, NEW n \in DOMAIN h \cup {NULL}
               PROVE  f[k][n] = Walk(h, k, f[k - 1])[n]
    BY DEF Walk
  <2>1. f = [j \in 0..N |-> Walk(h, j, f[j - 1])]
    BY <1>1, <1>2 DEF IsWalk, Walk
  <2>2. f[k] = Walk(h, k, f[k - 1])
    BY <2>1
  <2> QED BY <2>2
<1>4. S \subseteq DOMAIN h /\ \A n \in S : h[n].next \in S \cup {NULL} /\ h[n].child \in S \cup {NULL}
  BY DEF Source
<1>5. <<>> \in Seq(S)
  OBVIOUS
<1>6. PICK T : T = {k \in 0..N : \A n \in S \cup {NULL} : f[k][n] \in Seq(S)}
  OBVIOUS
<1>7. 0 \in T
  <2>1. \A n \in S \cup {NULL} : f[0][n] = <<>>
    <3>1. 0 \in 0..N
      OBVIOUS
    <3>2. \A n \in DOMAIN h \cup {NULL} : f[0][n] = <<>>
      BY <1>3, <3>1
    <3> QED BY <1>4, <3>2
  <2>2. ASSUME NEW n \in S \cup {NULL} PROVE f[0][n] \in Seq(S)
    <3>1. f[0][n] = <<>>
      BY <2>1
    <3> QED BY <1>5, <3>1
  <2>3. 0 \in 0..N
    OBVIOUS
  <2> QED BY <1>6, <2>2, <2>3
<1>8. ASSUME NEW k \in 0..(N - 1), k \in T PROVE k + 1 \in T
  <2>1. PICK j \in 0..N : j = k + 1 /\ j # 0 /\ j - 1 = k
    BY <1>1
  <2>2. ASSUME NEW n \in S \cup {NULL} PROVE f[j][n] \in Seq(S)
    <3>1. f[j][n] = IF n = NULL THEN <<>> ELSE <<n>> \o f[k][h[n].next]
      BY <1>3, <1>4, <2>1
    <3>2. CASE n = NULL
      BY <1>5, <3>1, <3>2
    <3>3. CASE n # NULL
      <4>1. PICK t \in Seq(S) : t = f[k][h[n].next]
        BY <1>4, <1>6, <1>8, <3>3
      <4>2. <<n>> \in Seq(S)
        BY <3>3
      <4>3. <<n>> \o t \in Seq(S)
        BY <4>1, <4>2, ConcatProperties
      <4> QED BY <3>1, <3>3, <4>1, <4>3
    <3> QED BY <3>2, <3>3
  <2> QED BY <1>6, <2>1, <2>2
<1>9. N \in T
  <2>1. 0..N \subseteq T
    BY <1>1, <1>7, <1>8, InductBetween
  <2> QED BY <1>1, <2>1
<1> QED BY <1>2, <1>4, <1>6, <1>9

\* It is one in a memory that grew.
LEMMA SourceStays ==
  ASSUME NEW h, NEW S, Source(h, S), NEW U, NEW n, n = Both(h, U)
  PROVE  Source(n, S)
<1>1. DOMAIN h \subseteq DOMAIN n /\ \A x \in DOMAIN h : n[x] = h[x]
  BY DEF Both
<1> QED BY <1>1 DEF Source

(* copies gives a copy of every item of a source, or nothing. *)
Maker(copies) ==
  \A m, S, item : Memory(m) /\ Source(m.h, S) /\ item \in S => Made(m, CopyBy(copies, m, item))

\* A copy of an item with copies of its children is a new tree.
LEMMA CopyMade ==
  ASSUME NEW m, Memory(m), NEW S, Source(m.h, S), NEW item \in S, NEW children \in Seq(S),
         NEW left, NEW deeper, left # 0 => Maker(deeper), NEW broken,
         NEW r, r = CopyOf(m, item, children, left, deeper, broken)
  PROVE  Made(m, r)
<1>1. PICK n, old : n = cJSON_New_Item(m) /\ old = m.h[item]
  OBVIOUS
<1>2. PICK new, m0 : /\ new = [Blank EXCEPT !.type = old.type, !.const = old.const, !.key = old.key,
                                            !.text = IF old.type = "string" THEN n ELSE NULL]
                     /\ m0 = [h |-> Extend(m.h, n, new), s |-> m.s + Copied(new)]
  OBVIOUS
<1>3. PICK count \in Nat : count = Len(children)
  OBVIOUS
<1> DEFINE Next1(i, list) == IF left = 0 THEN [list EXCEPT !.ok = FALSE]
                             ELSE Longer(list, n, CopyBy(deeper, list.m, children[i]))
           IsList(f, k) == f = [i \in 0..k |-> IF i = 0 THEN UnderWay(m0) ELSE
                                  IF left = 0 THEN [f[i - 1] EXCEPT !.ok = FALSE]
                                  ELSE Longer(f[i - 1], n, CopyBy(deeper, f[i - 1].m, children[i]))]
           F == CHOOSE f : IsList(f, count)
<1>4. r = IF n = NULL \/ (broken = item /\ Copied(new) > 0) THEN Nothing(m) ELSE Finished(F[count], n)
  BY <1>1, <1>2, <1>3 DEF CopyOf
<1>5. CASE n = NULL \/ (broken = item /\ Copied(new) > 0)
  BY <1>4, <1>5 DEF Made
<1>6. CASE ~(n = NULL \/ (broken = item /\ Copied(new) > 0))
  <2>1. IsList(F, count)
    <3> DEFINE T == {k \in 0..count : \E f : IsList(f, k)}
    <3>1. 0 \in T
      <4>1. PICK f : f = [i \in 0..0 |-> UnderWay(m0)]
        OBVIOUS
      <4>2. IsList(f, 0)
        BY <4>1
      <4>3. 0 \in 0..count
        OBVIOUS
      <4> HIDE DEF IsList
      <4> QED BY <4>2, <4>3
    <3>2. ASSUME NEW k \in 0..(count - 1), k \in T PROVE k + 1 \in T
      <4>1. PICK f : IsList(f, k)
        BY <3>2
      <4>2. PICK g : g = [i \in 0..(k + 1) |-> IF i = k + 1 THEN Next1(k + 1, f[k]) ELSE f[i]]
        OBVIOUS
      <4>3. \A i \in 0..k : g[i] = f[i]
        BY <4>2
      <4>4. \A i \in 0..(k + 1) : g[i] = IF i = 0 THEN UnderWay(m0) ELSE Next1(i, g[i - 1])
        <5> TAKE i \in 0..(k + 1)
        <5>1. CASE i = k + 1
          <6>1. i # 0 /\ i - 1 = k /\ g[k] = f[k]
            BY <4>3, <5>1
          <6>2. g[i] = Next1(k + 1, f[k])
            BY <4>2, <5>1
          <6> QED BY <5>1, <6>1, <6>2
        <5>2. CASE i # k + 1
          <6>1. i \in 0..k /\ (i # 0 => i - 1 \in 0..k)
            BY <5>2
          <6>2. f[i] = IF i = 0 THEN UnderWay(m0) ELSE Next1(i, f[i - 1])
            BY <4>1, <6>1
          <6> QED BY <4>3, <6>1, <6>2
        <5> QED BY <5>1, <5>2
      <4>5. IsList(g, k + 1)
        <5>1. g = [i \in 0..(k + 1) |-> g[i]]
          BY <4>2
        <5> QED BY <4>4, <5>1
      <4>6. k + 1 \in 0..count
        OBVIOUS
      <4> HIDE DEF IsList
      <4> QED BY <4>5, <4>6
    <3> HIDE DEF T
    <3>3. 0..count \subseteq T
      BY <3>1, <3>2, InductBetween
    <3>4. count \in T
      BY <3>3
    <3> QED BY <3>4 DEF T
  <2>2. PICK f : f = F /\ IsList(f, count)
    BY <2>1
  <2> HIDE DEF F
  <2>3. \A i \in 0..count : f[i] = IF i = 0 THEN UnderWay(m0) ELSE Next1(i, f[i - 1])
    BY <2>2
  <2>4. PICK T : T = {i \in 0..count : Progress(m, n, f[i])}
    OBVIOUS
  <2>5. 0 \in T
    <3>1. use.room \in Nat /\ n \in 1..use.room /\ n \notin DOMAIN m.h
      BY <1>1, <1>6, NewAddress DEF Memory, Cells
    <3>2. /\ new.ref = FALSE /\ new.next = NULL /\ new.prev = NULL /\ new.child = NULL
          /\ new.text \in {NULL, n} /\ new \in Item
      <4>1. old \in Item
        BY <1>1 DEF Memory, Cells, Source
      <4>2. PICK text : text = IF old.type = "string" THEN n ELSE NULL
        OBVIOUS
      <4>3. text \in Pointer /\ NULL \in Pointer
        BY <3>1, <4>2 DEF Pointer, NULL
      <4>4. new = [type |-> old.type, ref |-> FALSE, const |-> old.const, key |-> old.key,
                   text |-> text, next |-> NULL, prev |-> NULL, child |-> NULL]
        BY <1>2, <4>2 DEF Blank
      <4>5. /\ old.type \in Leaf \cup Container /\ old.const \in BOOLEAN /\ old.key \in Key \cup {NoKey}
        BY <4>1, ItemFields
      <4> QED BY <4>2, <4>3, <4>4, <4>5 DEF Item
    <3>3. PICK g : g = [a \in {n} |-> new]
      OBVIOUS
    <3>4. Grove(g, {n}, [p \in Owners(g) |-> <<>>]) /\ Total(g) = Copied(new)
      BY <3>1, <3>2, <3>3, GroveOfOne
    <3>5. Extend(m.h, n, new) = Both(m.h, g) /\ DOMAIN m.h \cap DOMAIN g = {}
      BY <3>1, <3>3, ExtendIsBoth
    <3>6. m0 = [h |-> Both(m.h, g), s |-> m.s + Total(g)]
      BY <1>2, <3>4, <3>5
    <3>7. Grown(m.h, g, n) /\ g[n].child = NULL
      BY <3>2, <3>3, <3>4, <3>5 DEF Grown
    <3>8. Progress(m, n, UnderWay(m0))
      BY <3>6, <3>7, ListBegins
    <3>9. f[0] = UnderWay(m0) /\ 0 \in 0..count
      <4>1. 0 \in 0..count
        OBVIOUS
      <4> HIDE DEF Next1
      <4> QED BY <2>3, <4>1
    <3> QED BY <2>4, <3>8, <3>9
  <2>6. ASSUME NEW i \in 0..(count - 1), i \in T PROVE i + 1 \in T
    <3>1. PICK list : list = f[i] /\ Progress(m, n, list)
      BY <2>4, <2>6
    <3>2. i + 1 \in 0..count /\ f[i + 1] = Next1(i + 1, list)
      <4>1. i + 1 \in 0..count /\ i + 1 # 0 /\ (i + 1) - 1 = i
        OBVIOUS
      <4>2. f[i + 1] = Next1(i + 1, f[i])
        BY <2>3, <4>1
      <4> QED BY <3>1, <4>1, <4>2
    <3>3. PICK longer : longer = Next1(i + 1, list)
      OBVIOUS
    <3>4. CASE left = 0
      <4>1. longer = [list EXCEPT !.ok = FALSE]
        BY <3>3, <3>4
      <4>2. list = [m |-> list.m, last |-> list.last, ok |-> list.ok]
        BY <3>1 DEF Progress
      <4>3. longer.m = list.m /\ ~longer.ok /\ longer = [m |-> longer.m, last |-> longer.last, ok |-> longer.ok]
        BY <4>1, <4>2
      <4>4. Progress(m, n, longer)
        BY <3>1, <4>3 DEF Progress
      <4> QED BY <2>4, <3>2, <3>3, <4>4
    <3>5. CASE left # 0
      <4>1. PICK x \in S : x = children[i + 1]
        <5>1. i + 1 \in 1..Len(children)
          BY <1>3
        <5> QED BY <5>1
      <4>2. PICK q : q = CopyBy(deeper, list.m, x)
        OBVIOUS
      <4>3. Made(list.m, q)
        <5>1. Memory(list.m)
          BY <3>1, ProgressIsSound
        <5>2. Source(list.m.h, S)
          <6>1. PICK U : list.m = [h |-> Both(m.h, U), s |-> m.s + Total(U)]
            BY <3>1 DEF Progress
          <6>2. list.m.h = Both(m.h, U)
            BY <6>1
          <6> QED BY <6>2, SourceStays
        <5> QED BY <3>5, <4>1, <4>2, <5>1, <5>2 DEF Maker
      <4>4. longer = Longer(list, n, q)
        BY <3>3, <3>5, <4>1, <4>2
      <4>5. Progress(m, n, longer)
        BY <3>1, <4>3, <4>4, ListGoesOn
      <4> QED BY <2>4, <3>2, <3>3, <4>5
    <3> QED BY <3>4, <3>5
  <2>7. count \in T
    <3>1. 0..count \subseteq T
      BY <2>5, <2>6, InductBetween
    <3> QED BY <3>1
  <2>8. PICK list : list = f[count] /\ Progress(m, n, list) /\ r = Finished(list, n)
    BY <1>4, <1>6, <2>2, <2>4, <2>7
  <2> QED BY <2>8, ListEnds
<1> QED BY <1>5, <1>6

LEMMA CopiesMade ==
  ASSUME NEW left, NEW deeper, left # 0 => Maker(deeper), NEW broken
  PROVE  Maker(CopiesAt(left, deeper, broken))
<1>1. PICK copies : copies = CopiesAt(left, deeper, broken)
  OBVIOUS
<1>2. ASSUME NEW m, NEW S, NEW item, Memory(m), Source(m.h, S), item \in S
      PROVE  Made(m, CopyBy(copies, m, item))
  <2>1. PICK D : D = DOMAIN m.h
    OBVIOUS
  <2>2. D \in SUBSET (1..use.room) /\ m \in [h : [D -> Item], s : Nat] /\ item \in D
    BY <1>2, <2>1 DEF Memory, Cells, Source
  <2>3. PICK children : children = Children(m.h, item)
    OBVIOUS
  <2>4. CopyBy(copies, m, item) = CopyOf(m, item, children, left, deeper, broken)
    BY <1>1, <2>1, <2>2, <2>3 DEF CopyBy, CopiesAt
  <2>5. children \in Seq(S)
    <3>1. Heap(m.h) /\ NextIsItem(m.h)
      BY <1>2, CellsAreHeap DEF Memory
    <3> QED BY <1>2, <2>3, <3>1, ChildrenWithin
  <2> QED BY <1>2, <2>4, <2>5, CopyMade
<1> QED BY <1>1, <1>2 DEF Maker

\* So cJSON_Duplicate gives a new tree or nothing, whatever it is called for.
LEMMA Duplicated ==
  ASSUME NEW m, Memory(m), NEW S, Source(m.h, S), NEW item \in S, NEW recurse, NEW broken,
         NEW r, r = Duplicate_rec(m, item, recurse, broken)
  PROVE  Made(m, r)
<1>1. CASE ~recurse
  <2>1. r = CopyOf(m, item, <<>>, 0, <<>>, broken)
    BY <1>1 DEF Duplicate_rec
  <2>2. PICK e \in Seq(S) : e = <<>>
    <3>1. <<>> \in Seq(S)
      OBVIOUS
    <3> QED BY <3>1
  <2>3. PICK zero : zero = 0
    OBVIOUS
  <2> QED BY <2>1, <2>2, <2>3, CopyMade
<1>2. CASE recurse
  <2>1. PICK L \in Nat : L = CJSON_CIRCULAR_LIMIT
    BY LimitAssumption
  <2> DEFINE IsCopy(f, k) == f = [left \in 0..k |-> CopiesAt(left, IF left = 0 THEN <<>> ELSE f[left - 1], broken)]
             F == CHOOSE f : IsCopy(f, L)
  <2>2. Copies(broken) = F[L]
    BY <2>1 DEF Copies
  <2>3. IsCopy(F, L)
    <3> DEFINE T == {k \in 0..L : \E f : IsCopy(f, k)}
    <3>1. 0 \in T
      <4>1. PICK f : f = [left \in 0..0 |-> CopiesAt(0, <<>>, broken)]
        OBVIOUS
      <4>2. IsCopy(f, 0)
        BY <4>1
      <4>3. 0 \in 0..L
        OBVIOUS
      <4> HIDE DEF IsCopy
      <4> QED BY <4>2, <4>3
    <3>2. ASSUME NEW k \in 0..(L - 1), k \in T PROVE k + 1 \in T
      <4>1. PICK f : IsCopy(f, k)
        BY <3>2
      <4>2. PICK g : g = [i \in 0..(k + 1) |-> IF i = k + 1 THEN CopiesAt(k + 1, f[k], broken) ELSE f[i]]
        OBVIOUS
      <4>3. \A i \in 0..k : g[i] = f[i]
        BY <4>2
      <4>4. \A i \in 0..(k + 1) : g[i] = CopiesAt(i, IF i = 0 THEN <<>> ELSE g[i - 1], broken)
        <5> TAKE i \in 0..(k + 1)
        <5>1. CASE i = k + 1
          <6>1. i # 0 /\ i - 1 = k /\ g[k] = f[k]
            BY <4>3, <5>1
          <6>2. g[i] = CopiesAt(k + 1, f[k], broken)
            BY <4>2, <5>1
          <6> QED BY <5>1, <6>1, <6>2
        <5>2. CASE i # k + 1
          <6>1. i \in 0..k /\ (i # 0 => i - 1 \in 0..k)
            BY <5>2
          <6>2. f[i] = CopiesAt(i, IF i = 0 THEN <<>> ELSE f[i - 1], broken)
            BY <4>1, <6>1
          <6> QED BY <4>3, <6>1, <6>2
        <5> QED BY <5>1, <5>2
      <4>5. IsCopy(g, k + 1)
        <5>1. g = [i \in 0..(k + 1) |-> g[i]]
          BY <4>2
        <5> QED BY <4>4, <5>1
      <4> QED BY <4>5
    <3> HIDE DEF T
    <3>3. 0..L \subseteq T
      BY <3>1, <3>2, InductBetween
    <3>4. L \in T
      BY <3>3
    <3> QED BY <3>4 DEF T
  <2>4. PICK f : f = F /\ IsCopy(f, L)
    BY <2>3
  <2> HIDE DEF F
  <2>5. \A i \in 0..L : f[i] = CopiesAt(i, IF i = 0 THEN <<>> ELSE f[i - 1], broken)
    BY <2>4
  <2>6. PICK T : T = {i \in 0..L : Maker(f[i])}
    OBVIOUS
  <2>7. 0 \in T
    <3>1. PICK left : left = 0
      OBVIOUS
    <3>2. Maker(CopiesAt(left, <<>>, broken))
      BY <3>1, CopiesMade
    <3>3. f[0] = CopiesAt(left, <<>>, broken) /\ 0 \in 0..L
      BY <2>5, <3>1
    <3> QED BY <2>6, <3>2, <3>3
  <2>8. ASSUME NEW i \in 0..(L - 1), i \in T PROVE i + 1 \in T
    <3>1. PICK deeper : deeper = f[i] /\ Maker(deeper)
      BY <2>6, <2>8
    <3>2. i + 1 \in 0..L /\ i + 1 # 0 /\ (i + 1) - 1 = i
      OBVIOUS
    <3>3. PICK j : j = i + 1
      OBVIOUS
    <3>4. f[j] = CopiesAt(j, deeper, broken)
      BY <2>5, <3>1, <3>2, <3>3
    <3>5. Maker(CopiesAt(j, deeper, broken))
      BY <3>1, CopiesMade
    <3> QED BY <2>6, <3>2, <3>3, <3>4, <3>5
  <2>9. L \in T
    <3>1. 0..L \subseteq T
      BY <2>7, <2>8, InductBetween
    <3> QED BY <3>1
  <2>10. Maker(Copies(broken))
    BY <2>2, <2>4, <2>6, <2>9
  <2>11. r = CopyBy(Copies(broken), m, item)
    BY <1>2 DEF Duplicate_rec
  <2> QED BY <2>10, <2>11 DEF Maker
<1> QED BY <1>1, <1>2

-----------------------------------------------------------------------------
(* What the steps of the embedder rely on *)

LEMMA TendedFacts ==
  ASSUME NEW h, NEW s, NEW R, NEW L, NEW kids, Tended(h, s, R, L, kids)
  PROVE  /\ Cells(h) /\ Heap(h) /\ NextIsItem(h) /\ NULL \notin DOMAIN h /\ IsFiniteSet(DOMAIN h)
         /\ R \subseteq DOMAIN h /\ L \subseteq DOMAIN h /\ R \cap L = {} /\ s \in Nat
         /\ DOMAIN kids = Owners(h) /\ Owners(h) \subseteq DOMAIN h \ L
         /\ \A p \in Owners(h) : /\ Linked(h, p, kids[p]) /\ Children(h, p) = kids[p]
                                 /\ Members(kids[p]) \subseteq DOMAIN h \ L /\ Members(kids[p]) \cap R = {}
<1>1. PICK Z : Z = R \cup L
  OBVIOUS
<1>2. Grove(h, Z, kids) /\ R \cap L = {} /\ (\A y \in L : h[y].ref) /\ s = Total(h)
  BY <1>1 DEF Tended
<1>3. /\ Cells(h) /\ Heap(h) /\ NextIsItem(h) /\ NULL \notin DOMAIN h /\ Z \subseteq DOMAIN h
      /\ DOMAIN kids = Owners(h) /\ Owners(h) \subseteq DOMAIN h
      /\ \A p \in Owners(h) : Linked(h, p, kids[p]) /\ Members(kids[p]) \subseteq DOMAIN h
                              /\ Members(kids[p]) \cap Z = {}
  BY <1>2, GroveFacts
<1>4. IsFiniteSet(DOMAIN h)
  BY <1>3 DEF Heap
<1>5. s \in Nat
  <2>1. IsFiniteSet({}) /\ DOMAIN h \cap {} = {}
    BY FS_EmptySet
  <2>2. Owned(h, DOMAIN h) \in Nat
    BY <1>4, <2>1, OwnedSplit
  <2> QED BY <1>2, <2>2 DEF Total
<1>6. \A p \in Owners(h) : Children(h, p) = kids[p]
  <2>1. Forest(h, Owners(h), kids)
    BY <1>2 DEF Grove
  <2> QED BY <2>1, Reads
<1>7. Owners(h) \cap L = {}
  BY <1>2 DEF Owners
<1>8. R \subseteq DOMAIN h /\ L \subseteq DOMAIN h /\ Owners(h) \subseteq DOMAIN h \ L
  BY <1>1, <1>3, <1>7
<1>9. \A p \in Owners(h) : Members(kids[p]) \subseteq DOMAIN h \ L /\ Members(kids[p]) \cap R = {}
  BY <1>1, <1>3
<1> QED BY <1>2, <1>3, <1>4, <1>5, <1>6, <1>8, <1>9

\* Nobody's items are out of reach for the others.
LEMMA LeadsTo ==
  ASSUME NEW h, NEW s, NEW R, NEW L, NEW kids, Tended(h, s, R, L, kids), NEW x \in DOMAIN h \ L
  PROVE  {h[x].next, h[x].prev, h[x].child, h[x].text} \subseteq (DOMAIN h \ L) \cup {NULL}
<1>1. /\ Cells(h) /\ Heap(h) /\ DOMAIN kids = Owners(h) /\ Owners(h) \subseteq DOMAIN h \ L
      /\ \A p \in Owners(h) : Linked(h, p, kids[p]) /\ Members(kids[p]) \subseteq DOMAIN h \ L
  BY TendedFacts
<1>2. {h[x].child, h[x].text} \subseteq (DOMAIN h \ L) \cup {NULL}
  <2>1. CASE h[x].ref
    BY <2>1 DEF Tended, Shown
  <2>2. CASE ~h[x].ref
    <3>1. x \in Owners(h) /\ h[x].text \in {NULL, x}
      BY <1>1, <2>2 DEF Owners, Cells
    <3>2. PICK c : c = kids[x] /\ Linked(h, x, c) /\ Members(c) \subseteq DOMAIN h \ L
      BY <1>1, <3>1
    <3>3. h[x].child = IF Len(c) = 0 THEN NULL ELSE c[1]
      BY <3>2, Fields DEF Linked
    <3>4. Len(c) = 0 \/ 1 \in 1..Len(c)
      BY <3>2 DEF Linked
    <3>5. h[x].child \in (DOMAIN h \ L) \cup {NULL}
      BY <3>2, <3>3, <3>4 DEF Members
    <3> QED BY <3>1, <3>5
  <2> QED BY <2>1, <2>2
<1>3. {h[x].next, h[x].prev} \subseteq (DOMAIN h \ L) \cup {NULL}
  <2>1. CASE \E p \in Owners(h) : x \in Members(kids[p])
    <3>1. PICK p \in Owners(h) : x \in Members(kids[p])
      BY <2>1
    <3>2. PICK c : c = kids[p] /\ Linked(h, p, c) /\ Members(c) \subseteq DOMAIN h \ L
      BY <1>1, <3>1
    <3>3. PICK l \in Nat : l = Len(c)
      BY <3>2 DEF Linked
    <3>4. PICK i \in 1..l : x = c[i]
      BY <3>1, <3>2, <3>3 DEF Members
    <3>5. h[x].next = NextOf(c, i) /\ h[x].prev = PrevOf(c, i)
      BY <1>1, <3>1, <3>2, <3>3, <3>4, LinkedFacts
    <3>6. \A j \in 1..l : c[j] \in DOMAIN h \ L
      BY <3>2, <3>3 DEF Members
    <3>7. NextOf(c, i) \in (DOMAIN h \ L) \cup {NULL}
      <4>1. CASE i = l
        BY <3>3, <4>1 DEF NextOf
      <4>2. CASE i # l
        <5>1. i + 1 \in 1..l
          BY <4>2
        <5> QED BY <3>3, <3>6, <4>2, <5>1 DEF NextOf
      <4> QED BY <4>1, <4>2
    <3>8. PrevOf(c, i) \in (DOMAIN h \ L) \cup {NULL}
      <4>1. l \in 1..l /\ (i # 1 => i - 1 \in 1..l)
        OBVIOUS
      <4> QED BY <3>3, <3>6, <4>1 DEF PrevOf
    <3> QED BY <3>5, <3>7, <3>8
  <2>2. CASE \A p \in Owners(h) : x \notin Members(kids[p])
    <3> DEFINE T == R \cup L \cup {y \in DOMAIN h : \E p \in Owners(h) : y \in Members(kids[p])}
    <3>1. Whole(kids, T)
      BY <1>1 DEF Whole
    <3>2. R \cup L \subseteq T
      OBVIOUS
    <3> HIDE DEF T
    <3>3. x \in T
      BY <3>1, <3>2 DEF Tended, Grove, Reached
    <3>4. x \in R \cup L
      BY <2>2, <3>3 DEF T
    <3>5. h[x].next = NULL /\ h[x].prev = NULL
      BY <3>4 DEF Tended, Grove, Loose
    <3> QED BY <3>5
  <2> QED BY <2>1, <2>2
<1> QED BY <1>2, <1>3

\* What is owned may be copied.
LEMMA OwnedIsSource ==
  ASSUME NEW h, NEW s, NEW R, NEW L, NEW kids, Tended(h, s, R, L, kids)
  PROVE  Source(h, DOMAIN h \ L)
<1>1. \A x \in DOMAIN h \ L : {h[x].next, h[x].child} \subseteq (DOMAIN h \ L) \cup {NULL}
  BY LeadsTo
<1> QED BY <1>1 DEF Source

LEMMA TendedIsMemory ==
  ASSUME NEW h, NEW s, NEW R, NEW L, NEW kids, Tended(h, s, R, L, kids), NEW m, m = [h |-> h, s |-> s]
  PROVE  Memory(m)
<1>1. Cells(h) /\ NextIsItem(h) /\ s \in Nat
  BY TendedFacts
<1>2. m.h = h /\ m.s = s /\ m = [h |-> m.h, s |-> m.s]
  OBVIOUS
<1> QED BY <1>1, <1>2 DEF Memory

\* A picked child is one, by whatever it was picked.
LEMMA PickedIsChild ==
  ASSUME NEW h, NEW s, NEW R, NEW L, NEW kids, Tended(h, s, R, L, kids), NEW p \in Owners(h)
  PROVE  /\ \A i \in Nat : get_array_item(h, p, i) \in Members(kids[p]) \cup {NULL}
         /\ \A name, case : get_object_item(h, p, name, case) \in Members(kids[p]) \cup {NULL}
<1>1. PICK c : c = kids[p] /\ c = Children(h, p) /\ Linked(h, p, c)
  BY TendedFacts
<1>2. PICK l \in Nat : l = Len(c)
  BY <1>1 DEF Linked
<1>3. \A i \in 1..l : c[i] \in Members(c)
  BY <1>2 DEF Members
<1>4. ASSUME NEW i \in Nat PROVE get_array_item(h, p, i) \in Members(c) \cup {NULL}
  <2>1. get_array_item(h, p, i) = IF i < l THEN c[i + 1] ELSE NULL
    BY <1>1, <1>2 DEF get_array_item
  <2>2. i < l => i + 1 \in 1..l
    OBVIOUS
  <2> QED BY <1>3, <2>1, <2>2
<1>5. ASSUME NEW name, NEW case PROVE get_object_item(h, p, name, case) \in Members(c) \cup {NULL}
  <2> DEFINE stops(n) == IF case THEN h[n].key \in {name, NoKey}
                         ELSE h[n].key # NoKey /\ Lower(h[n].key) = Lower(name)
             i == SelectInSeq(c, stops)
  <2>1. get_object_item(h, p, name, case) = IF name = NoKey \/ i = 0 \/ h[c[i]].key = NoKey THEN NULL ELSE c[i]
    BY <1>1 DEF get_object_item
  <2>2. i = 0 \/ i \in 1..l
    <3>1. PICK I \in SUBSET (1..l) : I = {k \in 1..l : stops(c[k])}
      OBVIOUS
    <3>2. i = IF I # {} THEN Min(I) ELSE 0
      BY <1>2, <3>1 DEF SelectInSeq
    <3>3. I # {} => Min(I) \in I
      <4>1. I \in SUBSET Nat
        OBVIOUS
      <4>2. I # {} => \E k \in I : \A j \in I : k <= j
        BY <4>1, Smallest
      <4> QED BY <4>2 DEF Min
    <3> HIDE DEF i
    <3> QED BY <3>2, <3>3
  <2> HIDE DEF i
  <2> QED BY <1>3, <2>1, <2>2
<1> QED BY <1>1, <1>4, <1>5

\* What an item is not below may take it in.
LEMMA AddedIsWhole ==
  ASSUME NEW kids, Tended(heap, strings, roots, leaked, kids), NEW x \in items \ leaked,
         NEW B, B = Below(heap, {x})
  PROVE  Whole(kids, B) /\ x \in B
<1>1. PICK f : f = [n \in DOMAIN heap \ leaked |-> ToSet(Children(heap, n))]
  OBVIOUS
<1>2. B = Closure(f, {x}) /\ DOMAIN f = DOMAIN heap \ leaked
  BY <1>1 DEF Below, items
<1>3. x \in B /\ \A n \in B : f[n] \cap DOMAIN f \subseteq B
  <2>1. B \subseteq DOMAIN f /\ {x} \cap DOMAIN f \subseteq B /\ \A n \in B : f[n] \cap DOMAIN f \subseteq B
    BY <1>2, ClosureCloses
  <2> QED BY <1>2, <2>1 DEF items
<1>4. ASSUME NEW q \in DOMAIN kids, q \in B PROVE Members(kids[q]) \subseteq B
  <2>1. /\ q \in DOMAIN heap \ leaked /\ Children(heap, q) = kids[q]
        /\ Members(kids[q]) \subseteq DOMAIN heap \ leaked /\ Linked(heap, q, kids[q])
    BY TendedFacts
  <2>2. f[q] = Members(kids[q])
    <3>1. PICK c : c = kids[q] /\ c \in Seq(DOMAIN heap)
      BY <2>1 DEF Linked
    <3>2. DOMAIN c = 1..Len(c)
      BY <3>1
    <3>3. f[q] = ToSet(c)
      BY <1>1, <2>1, <3>1
    <3>4. ToSet(c) = Members(c)
      BY <3>2 DEF ToSet, Members
    <3> QED BY <3>1, <3>3, <3>4
  <2> QED BY <1>2, <1>3, <1>4, <2>1, <2>2
<1> QED BY <1>3, <1>4 DEF Whole

(* n is h but for the name of x. *)
Renamed(h, n, x) ==
  /\ DOMAIN n = DOMAIN h /\ Owners(n) = Owners(h)
  /\ \A y \in DOMAIN h : n[y].type = h[y].type /\ n[y].ref = h[y].ref /\ n[y].child = h[y].child
                         /\ n[y].text = h[y].text

WithName(h, x, name, constant) == [h EXCEPT ![x].key = name, ![x].const = constant]

(* The copies of a name: name is constant, or not. *)
Named(name, constant) == IF name # NoKey /\ ~constant THEN 1 ELSE 0

\* An item may get another name, or lose its own.
LEMMA TendedRenamed ==
  ASSUME NEW h, NEW s, NEW R, NEW L, NEW kids, Tended(h, s, R, L, kids), NEW x \in DOMAIN h,
         NEW name \in Key \cup {NoKey}, NEW constant \in BOOLEAN,
         NEW n, n = WithName(h, x, name, constant),
         NEW t, t = s + Named(name, constant) - IF OwnsKey(h[x]) THEN 1 ELSE 0
  PROVE  Renamed(h, n, x) /\ Tended(n, t, R, L, kids)
<1>1. Cells(h) /\ IsFiniteSet(DOMAIN h) /\ s = Total(h) /\ h[x] \in Item
  <2>1. Cells(h) /\ IsFiniteSet(DOMAIN h)
    BY TendedFacts
  <2>2. h[x] \in Item
    BY <2>1 DEF Cells
  <2> QED BY <2>1, <2>2 DEF Tended
<1>2. PICK old, new : old = h[x] /\ new = [old EXCEPT !.key = name, !.const = constant]
  OBVIOUS
<1>3. /\ new \in Item /\ new.key = name /\ new.const = constant
      /\ new.type = old.type /\ new.ref = old.ref /\ new.text = old.text
      /\ new.next = old.next /\ new.prev = old.prev /\ new.child = old.child
  BY <1>1, <1>2, ItemFields DEF Item
<1>4. n = [y \in DOMAIN h |-> IF y = x THEN new ELSE h[y]]
  <2>1. n = [[h EXCEPT ![x] = [h[x] EXCEPT !.key = name]] EXCEPT ![x] = [@ EXCEPT !.const = constant]]
    BY DEF WithName
  <2>2. h = [y \in DOMAIN h |-> h[y]]
    BY <1>1 DEF Cells
  <2> QED BY <1>2, <2>1, <2>2
<1>5. /\ DOMAIN n = DOMAIN h /\ n[x] = new /\ \A y \in DOMAIN h : y # x => n[y] = h[y]
  BY <1>4
<1>6. \A y \in DOMAIN h : /\ n[y].type = h[y].type /\ n[y].ref = h[y].ref /\ n[y].text = h[y].text
                          /\ n[y].next = h[y].next /\ n[y].prev = h[y].prev /\ n[y].child = h[y].child
  BY <1>2, <1>3, <1>5
<1>7. Owners(n) = Owners(h)
  BY <1>5, <1>6 DEF Owners
<1>8. Cells(n)
  <2>1. n \in [DOMAIN n -> Item]
    BY <1>1, <1>3, <1>4, <1>5 DEF Cells
  <2> QED BY <1>1, <1>5, <1>6, <1>7, <2>1 DEF Cells, Owners
<1>9. PICK Z : Z = R \cup L
  OBVIOUS
<1>10. Grove(n, Z, kids)
  <2>1. Grove(h, Z, kids)
    BY <1>9 DEF Tended
  <2> QED BY <1>5, <1>6, <1>7, <1>8, <2>1, GroveRelabelled
<1>11. t = Total(n)
  <2>1. PICK rest : rest = DOMAIN h \ {x}
    OBVIOUS
  <2>2. IsFiniteSet(rest) /\ IsFiniteSet({x}) /\ rest \cap {x} = {} /\ DOMAIN h = rest \cup {x}
    <3>1. rest \subseteq DOMAIN h /\ rest \cap {x} = {} /\ DOMAIN h = rest \cup {x}
      BY <2>1
    <3>2. IsFiniteSet(rest)
      BY <1>1, <3>1, FS_Subset
    <3> QED BY <3>1, <3>2, FS_Singleton
  <2>3. Owned(h, rest) = Owned(n, rest)
    <3>1. \A y \in rest : (OwnsText(h[y]) <=> OwnsText(n[y])) /\ (OwnsKey(h[y]) <=> OwnsKey(n[y]))
      BY <1>5, <2>1
    <3> QED BY <3>1, OwnedAlike
  <2>4. PICK a \in Nat : a = Owned(h, rest)
    BY <2>2, OwnedSplit
  <2>5. Total(h) = a + Owned(h, {x})
    BY <2>2, <2>4, OwnedSplit DEF Total
  <2>6. Total(n) = a + Owned(n, {x})
    BY <1>5, <2>2, <2>3, <2>4, OwnedSplit DEF Total
  <2>7. Owned(h, {x}) = Copied(old) /\ Owned(n, {x}) = Copied(new)
    <3>1. Owned(h, {x}) = Copied(h[x]) /\ Owned(n, {x}) = Copied(n[x])
      BY OwnedByOne
    <3> QED BY <1>2, <1>5, <3>1
  <2>8. PICK b \in {0, 1} : b = IF OwnsText(old) THEN 1 ELSE 0
    OBVIOUS
  <2>9. Copied(old) = b + IF OwnsKey(old) THEN 1 ELSE 0
    BY <2>8 DEF Copied
  <2>10. Copied(new) = b + Named(name, constant)
    <3>1. OwnsText(new) <=> OwnsText(old)
      BY <1>3 DEF OwnsText
    <3>2. OwnsKey(new) <=> name # NoKey /\ ~constant
      BY <1>3 DEF OwnsKey
    <3> QED BY <2>8, <3>1, <3>2 DEF Copied, Named
  <2>11. PICK c \in {0, 1}, d \in {0, 1} : c = (IF OwnsKey(old) THEN 1 ELSE 0) /\ d = Named(name, constant)
    BY DEF Named
  <2>12. s = a + (b + c) /\ Total(n) = a + (b + d)
    BY <1>1, <2>5, <2>6, <2>7, <2>9, <2>10, <2>11
  <2>13. t = s + d - c
    BY <1>2, <2>11
  <2> QED BY <2>12, <2>13
<1>12. Shown(n, L) /\ \A y \in L : n[y].ref
  <2>1. L \subseteq DOMAIN h
    BY TendedFacts
  <2> QED BY <1>5, <1>6, <2>1 DEF Tended, Shown
<1>13. Renamed(h, n, x)
  BY <1>5, <1>6, <1>7 DEF Renamed
<1>14. Tended(n, t, R, L, kids)
  BY <1>9, <1>10, <1>11, <1>12 DEF Tended
<1> QED BY <1>13, <1>14

(* e is h with a new reference n, which may be the embedder's or nobody's. *)
NewReference(h, s, R, L, n, e) ==
  /\ n \notin DOMAIN h /\ DOMAIN e = DOMAIN h \cup {n} /\ Owners(e) = Owners(h)
  /\ \E k : Tended(e, s, R \cup {n}, L, k)
  /\ \E k : Tended(e, s, R, L \cup {n}, k)

LEMMA TendedRefers ==
  ASSUME NEW h, NEW s, NEW R, NEW L, NEW kids, Tended(h, s, R, L, kids),
         NEW n, n = cJSON_New_Item([h |-> h, s |-> s]), n # NULL,
         NEW item \in Item, item.ref, item.key = NoKey, item.next = NULL, item.prev = NULL,
         {item.child, item.text} \subseteq (DOMAIN h \ L) \cup {NULL},
         NEW e, e = Extend(h, n, item)
  PROVE  NewReference(h, s, R, L, n, e)
<1>1. use.room \in Nat /\ n \in 1..use.room /\ n \notin DOMAIN h
  <2>1. PICK m : m = [h |-> h, s |-> s]
    OBVIOUS
  <2>2. use.room \in Nat /\ m.h = h /\ n = cJSON_New_Item(m)
    BY <2>1, TendedFacts DEF Cells
  <2> QED BY <2>2, NewAddress
<1>2. PICK g : g = [a \in {n} |-> item]
  OBVIOUS
<1>3. Grove(g, {n}, [p \in Owners(g) |-> <<>>]) /\ Total(g) = Copied(item)
  BY <1>1, <1>2, GroveOfOne
<1>4. Copied(item) = 0
  BY DEF Copied, OwnsText, OwnsKey
<1>5. s + Total(g) = s
  <2>1. s \in Nat
    BY TendedFacts
  <2> QED BY <1>3, <1>4, <2>1
<1>6. e = Both(h, g) /\ DOMAIN h \cap DOMAIN g = {} /\ DOMAIN g = {n} /\ g[n] = item
  <2>1. Extend(h, n, item) = Both(h, g) /\ DOMAIN h \cap DOMAIN g = {}
    <3>1. n \notin DOMAIN h
      BY <1>1
    <3>2. DOMAIN g = {n} /\ g[n] = item
      BY <1>2
    <3>3. \A a \in DOMAIN h \cup {n} : (IF a = n THEN item ELSE h[a]) = (IF a \in DOMAIN h THEN h[a] ELSE g[a])
      BY <3>1, <3>2
    <3> QED BY <3>1, <3>2, <3>3 DEF Extend, Both
  <2> QED BY <1>2, <2>1
<1>7. PICK one, none, k : one = {n} /\ none = {} /\ k = [p \in Owners(g) |-> <<>>]
  OBVIOUS
<1>8. Grove(g, one \cup none, k) /\ Grove(g, none \cup one, k) /\ one \cap none = {} /\ none \cap one = {}
  <2>1. one \cup none = {n} /\ none \cup one = {n}
    BY <1>7
  <2> QED BY <1>3, <1>7, <2>1
<1>9. Tended(e, s + Total(g), R \cup one, L \cup none, Both(kids, k))
  <2>1. ShownThere(h, L, g, none) /\ \A y \in none : g[y].ref
    BY <1>6, <1>7 DEF ShownThere
  <2> QED BY <1>6, <1>8, <2>1, TendedJoined
<1>10. Tended(e, s + Total(g), R \cup none, L \cup one, Both(kids, k))
  <2>1. ShownThere(h, L, g, one) /\ \A y \in one : g[y].ref
    BY <1>6, <1>7 DEF ShownThere
  <2> QED BY <1>6, <1>8, <2>1, TendedJoined
<1>11. L \cup none = L /\ R \cup none = R
  BY <1>7
<1>12. DOMAIN e = DOMAIN h \cup {n} /\ (\A y \in DOMAIN h : e[y] = h[y]) /\ e[n] = item
  BY <1>1, <1>6 DEF Both
<1>13. Owners(e) = Owners(h)
  BY <1>1, <1>12 DEF Owners
<1> QED BY <1>1, <1>5, <1>7, <1>9, <1>10, <1>11, <1>12, <1>13 DEF NewReference

\* cJSON_Delete frees a root that no reference shows.
LEMMA TendedFreed ==
  ASSUME NEW h, NEW s, NEW R, NEW L, NEW kids, Tended(h, s, R, L, kids), NEW x \in R,
         \A r \in DOMAIN h \ (L \cup Doomed(h, {x})) :
           h[r].ref => h[r].child \notin Doomed(h, {x}) /\ h[r].text \notin Doomed(h, {x}),
         NEW q, q = cJSON_Delete([h |-> h, s |-> s], x)
  PROVE  \E k : Tended(q.h, q.s, R \ {x}, L, k)
<1>1. x # NULL
  BY TendedFacts
<1>2. PICK C : C = Doomed(h, {x})
  OBVIOUS
<1>3. q = [h |-> [a \in DOMAIN h \ C |-> h[a]], s |-> s - Owned(h, C)]
  BY <1>1, <1>2 DEF cJSON_Delete
<1>4. \A r \in DOMAIN h \ (L \cup C) : h[r].ref => h[r].child \notin C /\ h[r].text \notin C
  BY <1>2
<1> QED BY <1>2, <1>3, <1>4, TendedDeleted

\* add_item_to_object takes a root in under a name, or does nothing.
LEMMA TendedAdded ==
  ASSUME NEW h, NEW s, NEW R, NEW L, NEW kids, Tended(h, s, R, L, kids),
         NEW p \in Owners(h), NEW x \in R, NEW B, Whole(kids, B), x \in B, p \notin B,
         NEW name \in Key \ {NoKey}, NEW constant \in BOOLEAN, NEW strdup \in BOOLEAN,
         NEW r, r = add_item_to_object([h |-> h, s |-> s], p, name, x, constant, strdup)
  PROVE  \/ ~r.ok /\ r.m = [h |-> h, s |-> s]
         \/ r.ok /\ \E k : Tended(r.m.h, r.m.s, R \ {x}, L, k)
<1>1. x \in DOMAIN h /\ x # NULL
  BY TendedFacts
<1>2. CASE ~constant /\ ~strdup
  BY <1>2 DEF add_item_to_object
<1>3. CASE constant \/ strdup
  <2>1. PICK m, q : m = [h |-> h, s |-> s] /\ q = Rename(m, x, name, constant)
    OBVIOUS
  <2>2. PICK n, t : /\ n = WithName(h, x, name, constant)
                    /\ t = s + Named(name, constant) - IF OwnsKey(h[x]) THEN 1 ELSE 0
    OBVIOUS
  <2>3. q = [h |-> n, s |-> t]
    <3>1. Named(name, constant) = IF constant THEN 0 ELSE 1
      BY DEF Named
    <3> QED BY <2>1, <2>2, <3>1 DEF Rename, WithName
  <2>4. Renamed(h, n, x) /\ Tended(n, t, R, L, kids)
    <3>1. n = WithName(h, x, name, constant)
      BY <2>2
    <3>2. t = s + Named(name, constant) - IF OwnsKey(h[x]) THEN 1 ELSE 0
      BY <2>2
    <3>3. name \in Key \cup {NoKey} /\ x \in DOMAIN h
      BY <1>1
    <3> QED BY <3>1, <3>2, <3>3, TendedRenamed
  <2>5. PICK which \in Nat : which = 0
    OBVIOUS
  <2>6. PICK e : e = add_item_to_array(n, p, x)
    OBVIOUS
  <2>7. p \in Owners(n)
    BY <2>4 DEF Renamed
  <2>8. \E k : Tended(e, t, R \ {x}, L, k)
    BY <2>4, <2>5, <2>6, <2>7, TendedTakesIn
  <2>9. r = [m |-> [q EXCEPT !.h = add_item_to_array(@, p, x)], ok |-> TRUE]
    BY <1>1, <1>3, <2>1 DEF add_item_to_object
  <2>10. r.ok /\ r.m.h = e /\ r.m.s = t
    BY <2>3, <2>6, <2>9
  <2> QED BY <2>8, <2>10
<1> QED BY <1>2, <1>3

\* create_reference gives a reference or nothing.
LEMMA TendedReferred ==
  ASSUME NEW h, NEW s, NEW R, NEW L, NEW kids, Tended(h, s, R, L, kids), NEW x \in DOMAIN h \ L,
         NEW r, r = create_reference([h |-> h, s |-> s], x)
  PROVE  \/ r = Nothing([h |-> h, s |-> s])
         \/ /\ r.item # NULL /\ r.m = [h |-> r.m.h, s |-> s]
            /\ NewReference(h, s, R, L, r.item, r.m.h)
<1>1. PICK m, n : m = [h |-> h, s |-> s] /\ n = cJSON_New_Item(m)
  OBVIOUS
<1>2. CASE n = NULL
  BY <1>1, <1>2 DEF create_reference
<1>3. CASE n # NULL
  <2>1. PICK old : old = h[x]
    OBVIOUS
  <2>2. PICK item : item = [old EXCEPT !.key = NoKey, !.ref = TRUE, !.next = NULL, !.prev = NULL]
    OBVIOUS
  <2>3. old \in Item
    <3>1. Cells(h)
      BY TendedFacts
    <3> QED BY <2>1, <3>1 DEF Cells
  <2>4. /\ item \in Item /\ item.ref /\ item.key = NoKey /\ item.next = NULL /\ item.prev = NULL
        /\ item.child = old.child /\ item.text = old.text
    <3>1. NULL \in Pointer
      <4>1. Cells(h)
        BY TendedFacts
      <4> QED BY <4>1, CellsAreHeap
    <3> QED BY <2>2, <2>3, <3>1 DEF Item
  <2>5. {item.child, item.text} \subseteq (DOMAIN h \ L) \cup {NULL}
    <3>1. {h[x].next, h[x].prev, h[x].child, h[x].text} \subseteq (DOMAIN h \ L) \cup {NULL}
      BY LeadsTo
    <3> QED BY <2>1, <2>4, <3>1
  <2>6. PICK e : e = Extend(h, n, item)
    OBVIOUS
  <2>7. NewReference(h, s, R, L, n, e)
    <3>1. n = cJSON_New_Item([h |-> h, s |-> s])
      BY <1>1
    <3>2. item.ref /\ item.key = NoKey /\ item.next = NULL /\ item.prev = NULL /\ item \in Item
      BY <2>4
    <3> QED BY <1>3, <2>5, <2>6, <3>1, <3>2, TendedRefers
  <2>8. r = [m |-> [m EXCEPT !.h = e], item |-> n]
    BY <1>1, <1>3, <2>1, <2>2, <2>6 DEF create_reference
  <2>9. r.m = [h |-> e, s |-> s] /\ r.item = n /\ r.m.h = e
    BY <1>1, <2>8
  <2> QED BY <1>3, <2>7, <2>9
<1> QED BY <1>2, <1>3

(* What n says of references is what h says. *)
SameReferences(h, n) ==
  /\ DOMAIN n = DOMAIN h
  /\ \A y \in DOMAIN h : n[y].ref = h[y].ref /\ n[y].text = h[y].text /\ (n[y].ref => n[y].child = h[y].child)

(* No reference of h that stays shows one of D. *)
Unshown(h, L, D) == \A r \in DOMAIN h \ (L \cup D) : h[r].ref => h[r].child \notin D /\ h[r].text \notin D

LEMMA UnshownStays ==
  ASSUME NEW h, NEW n, SameReferences(h, n), NEW L, NEW D
  PROVE  Unshown(h, L, D) <=> Unshown(n, L, D)
BY DEF SameReferences, Unshown

LEMMA AlikeRefers == \A h, n : Alike(h, n) => SameReferences(h, n)
BY DEF Alike, SameReferences

LEMMA RenamedRefers == \A h, n, x : Renamed(h, n, x) => SameReferences(h, n)
BY DEF Renamed, SameReferences

\* cJSON_ReplaceItemViaPointer takes a root in for a child, which it frees, or does
\* nothing.
LEMMA TendedExchanged ==
  ASSUME NEW h, NEW s, NEW R, NEW L, NEW kids, Tended(h, s, R, L, kids),
         NEW p \in Owners(h), NEW o \in Members(kids[p]) \cup {NULL}, NEW x \in R,
         NEW B, Whole(kids, B), x \in B, p \notin B,
         o # NULL => Unshown(h, L, Doomed(PutInPlace(h, p, o, x), {o})),
         NEW r, r = cJSON_ReplaceItemViaPointer([h |-> h, s |-> s], p, o, x)
  PROVE  \/ ~r.ok /\ r.m = [h |-> h, s |-> s]
         \/ r.ok /\ \E k : Tended(r.m.h, r.m.s, R \ {x}, L, k)
<1>1. CASE o = NULL \/ h[p].child = NULL
  BY <1>1 DEF cJSON_ReplaceItemViaPointer
<1>2. CASE o # NULL /\ h[p].child # NULL
  <2>1. PICK n, D : n = PutInPlace(h, p, o, x) /\ D = Doomed(n, {o})
    OBVIOUS
  <2>2. o \in Members(kids[p])
    BY <1>2
  <2>3. PICK S : S = (R \ {x}) \cup {o}
    OBVIOUS
  <2>4. Alike(h, n) /\ \E k : Tended(n, s, S, L, k)
    <3>1. n = PutInPlace(h, p, o, x)
      BY <2>1
    <3>2. Alike(h, n)
      BY <2>2, <3>1, TendedReplaced
    <3>3. \E k : Tended(n, s, (R \ {x}) \cup {o}, L, k)
      BY <2>2, <3>1, TendedReplaced
    <3> QED BY <2>3, <3>2, <3>3
  <2>5. PICK k : Tended(n, s, S, L, k)
    BY <2>4
  <2>6. Unshown(n, L, D)
    <3>1. Unshown(h, L, D)
      BY <1>2, <2>1
    <3>2. SameReferences(h, n)
      BY <2>4, AlikeRefers
    <3> QED BY <3>1, <3>2, UnshownStays
  <2>7. PICK q : q = cJSON_Delete([h |-> n, s |-> s], o)
    OBVIOUS
  <2>8. \E kk : Tended(q.h, q.s, S \ {o}, L, kk)
    <3>1. o \in S
      BY <2>3
    <3>2. /\ \A y \in DOMAIN n \ (L \cup Doomed(n, {o})) :
               n[y].ref => n[y].child \notin Doomed(n, {o}) /\ n[y].text \notin Doomed(n, {o})
      BY <2>1, <2>6 DEF Unshown
    <3> QED BY <2>5, <2>7, <3>1, <3>2, TendedFreed
  <2>9. S \ {o} = R \ {x}
    <3>1. o \notin R
      BY <2>2, TendedFacts
    <3> QED BY <2>3, <3>1
  <2>10. r = [m |-> q, ok |-> TRUE]
    <3>1. r = [m |-> cJSON_Delete([[h |-> h, s |-> s] EXCEPT !.h = n], o), ok |-> TRUE]
      BY <1>2, <2>1 DEF cJSON_ReplaceItemViaPointer
    <3>2. [[h |-> h, s |-> s] EXCEPT !.h = n] = [h |-> n, s |-> s]
      OBVIOUS
    <3> QED BY <2>7, <3>1, <3>2
  <2> QED BY <2>8, <2>9, <2>10
<1> QED BY <1>1, <1>2

-----------------------------------------------------------------------------
(* The invariant *)

(* The heap is the trees of the embedder's roots and the references that     *)
(* nobody owns, properly linked, and no reference shows what is not there.    *)
IInv == use \in Usage /\ \E kids : Tended(heap, strings, roots, leaked, kids)

(* A step leaves it so. *)
Kept == use' = use /\ \E kids : Tended(heap', strings', roots', leaked', kids)

LEMMA Uses ==
  ASSUME IInv
  PROVE  /\ use.room \in Nat /\ use.types \subseteq Leaf \cup Container
         /\ use.keys \subseteq Key \ {NoKey}
BY UsageAssumption DEF IInv, Key

LEMMA TakesPart ==
  ASSUME NEW kids, Tended(heap, strings, roots, leaked, kids), NEW p \in items, MayChange(p)
  PROVE  p \in Owners(heap)
BY DEF MayChange, Owners, items

LEMMA MayTakeIn ==
  ASSUME NEW kids, Tended(heap, strings, roots, leaked, kids), NEW p, NEW x \in roots, MayAdd(p, x)
  PROVE  \E B : Whole(kids, B) /\ x \in B /\ p \notin B
<1>1. x \in items \ leaked
  BY TendedFacts DEF items
<1>2. PICK B : B = Below(heap, {x})
  OBVIOUS
<1>3. Whole(kids, B) /\ x \in B
  BY <1>1, <1>2, AddedIsWhole
<1> QED BY <1>2, <1>3 DEF MayAdd

LEMMA PickedMember ==
  ASSUME NEW kids, Tended(heap, strings, roots, leaked, kids), NEW p \in Owners(heap),
         NEW x \in Picked(p) \ {NULL}
  PROVE  x \in Members(kids[p])
<1>1. /\ \A i \in Nat : get_array_item(heap, p, i) \in Members(kids[p]) \cup {NULL}
      /\ \A name, case : get_object_item(heap, p, name, case) \in Members(kids[p]) \cup {NULL}
  BY PickedIsChild
<1>2. 0..MaxCount \subseteq Nat
  BY LimitAssumption
<1> QED BY <1>1, <1>2 DEF Picked

LEMMA FreeIsUnshown ==
  ASSUME NEW n, SameReferences(heap, n), NEW D, MayFree(D)
  PROVE  Unshown(n, leaked, D)
<1>1. Unshown(heap, leaked, D)
  BY DEF MayFree, References, Unshown, items
<1> QED BY <1>1, UnshownStays

LEMMA CreateKeeps == ASSUME IInv, Create PROVE Kept
<1>1. PICK kids : Tended(heap, strings, roots, leaked, kids)
  BY DEF IInv
<1>2. PICK m : m = [h |-> heap, s |-> strings]
  OBVIOUS
<1>3. PICK type \in use.types, strdup \in BOOLEAN :
        /\ Store(CreateItem(m, type, strdup).m)
        /\ roots' = roots \cup ({CreateItem(m, type, strdup).item} \ {NULL}) /\ leaked' = leaked
  BY <1>2 DEF Create, Mem
<1>4. PICK r : r = CreateItem(m, type, strdup)
  OBVIOUS
<1>5. Made([h |-> heap, s |-> strings], r)
  <2>1. Memory(m) /\ type \in Leaf \cup Container
    BY <1>1, <1>2, TendedIsMemory, Uses
  <2> QED BY <1>2, <1>4, <2>1, ItemCreated
<1>6. PICK S : S = roots \cup ({r.item} \ {NULL})
  OBVIOUS
<1>7. \E k : Tended(r.m.h, r.m.s, S, leaked, k)
  BY <1>1, <1>5, <1>6, TendedMade
<1> QED BY <1>3, <1>4, <1>6, <1>7 DEF Kept, Store

LEMMA CreateArrayKeeps == ASSUME IInv, CreateArray PROVE Kept
<1>1. PICK kids : Tended(heap, strings, roots, leaked, kids)
  BY DEF IInv
<1>2. PICK m : m = [h |-> heap, s |-> strings]
  OBVIOUS
<1>3. PICK count \in 0..MaxCount, type \in use.types \cap Leaf, broken \in 0..MaxCount :
        /\ Store(CreateArrayOf(m, count, type, broken).m)
        /\ roots' = roots \cup ({CreateArrayOf(m, count, type, broken).item} \ {NULL}) /\ leaked' = leaked
  <2>1. \A count \in 0..MaxCount : \A type : (IF type = "string" THEN 0..count ELSE {0}) \subseteq 0..MaxCount
    BY LimitAssumption
  <2> QED BY <1>2, <2>1 DEF CreateArray, Mem
<1>4. PICK r : r = CreateArrayOf(m, count, type, broken)
  OBVIOUS
<1>5. Made([h |-> heap, s |-> strings], r)
  <2>1. Memory(m) /\ type \in Leaf /\ count \in Nat
    BY <1>1, <1>2, TendedIsMemory, LimitAssumption
  <2> QED BY <1>2, <1>4, <2>1, ArrayCreated
<1>6. PICK S : S = roots \cup ({r.item} \ {NULL})
  OBVIOUS
<1>7. \E k : Tended(r.m.h, r.m.s, S, leaked, k)
  BY <1>1, <1>5, <1>6, TendedMade
<1> QED BY <1>3, <1>4, <1>6, <1>7 DEF Kept, Store

LEMMA CreateReferenceKeeps == ASSUME IInv, CreateReference PROVE Kept
<1>1. PICK kids : Tended(heap, strings, roots, leaked, kids)
  BY DEF IInv
<1>2. PICK n : n = cJSON_New_Item([h |-> heap, s |-> strings]) /\ n # NULL
  BY DEF CreateReference, Mem
<1>3. roots' = roots \cup {n} /\ leaked' = leaked
  BY <1>2 DEF CreateReference, Mem
<1>4. \E child \in (items \ leaked) \cup {NULL}, type \in Leaf \cup Container :
        Store([Mem EXCEPT !.h = Extend(@, n, [Blank EXCEPT !.type = type, !.child = child, !.ref = TRUE])])
  <2>1. CASE Store([Mem EXCEPT !.h = Extend(@, n, [[Blank EXCEPT !.type = "string"] EXCEPT !.ref = TRUE])])
    <3>1. [[Blank EXCEPT !.type = "string"] EXCEPT !.ref = TRUE]
             = [Blank EXCEPT !.type = "string", !.child = NULL, !.ref = TRUE]
      <4>1. PICK blank, type : blank = Blank /\ type = "string"
        OBVIOUS
      <4>2. blank.child = NULL /\ {"type", "ref", "child"} \subseteq DOMAIN blank
            /\ blank = [f \in DOMAIN blank |-> blank[f]]
        BY <4>1 DEF Blank
      <4>3. [[blank EXCEPT !.type = type] EXCEPT !.ref = TRUE]
              = [blank EXCEPT !.type = type, !.child = NULL, !.ref = TRUE]
        BY <4>2
      <4> QED BY <4>1, <4>3
    <3> QED BY <2>1, <3>1 DEF Leaf
  <2>2. CASE \E p \in items \ leaked, type \in Container :
               Store([Mem EXCEPT !.h = Extend(@, n, [[Blank EXCEPT !.type = type, !.child = heap[p].child]
                                                       EXCEPT !.ref = TRUE])])
    <3>1. PICK p \in items \ leaked, type \in Container :
            Store([Mem EXCEPT !.h = Extend(@, n, [[Blank EXCEPT !.type = type, !.child = heap[p].child]
                                                    EXCEPT !.ref = TRUE])])
      BY <2>2
    <3>2. PICK child : child = heap[p].child
      OBVIOUS
    <3>3. child \in (items \ leaked) \cup {NULL}
      <4>1. {heap[p].next, heap[p].prev, heap[p].child, heap[p].text} \subseteq (DOMAIN heap \ leaked) \cup {NULL}
        BY <1>1, LeadsTo DEF items
      <4> QED BY <3>2, <4>1 DEF items
    <3>4. [[Blank EXCEPT !.type = type, !.child = child] EXCEPT !.ref = TRUE]
             = [Blank EXCEPT !.type = type, !.child = child, !.ref = TRUE]
      BY DEF Blank
    <3> QED BY <3>1, <3>2, <3>3, <3>4
  <2> QED BY <1>2, <2>1, <2>2 DEF CreateReference, Mem
<1>5. PICK child \in (items \ leaked) \cup {NULL}, type \in Leaf \cup Container :
        Store([Mem EXCEPT !.h = Extend(@, n, [Blank EXCEPT !.type = type, !.child = child, !.ref = TRUE])])
  BY <1>4
<1>6. PICK item : item = [Blank EXCEPT !.type = type, !.child = child, !.ref = TRUE]
  OBVIOUS
<1>7. /\ item \in Item /\ item.ref /\ item.key = NoKey /\ item.next = NULL /\ item.prev = NULL
      /\ {item.child, item.text} \subseteq (DOMAIN heap \ leaked) \cup {NULL}
  <2>1. child \in Pointer /\ NULL \in Pointer
    <3>1. Cells(heap)
      BY <1>1, TendedFacts
    <3> QED BY <3>1, CellsAreHeap DEF items
  <2>2. item = [type |-> type, ref |-> TRUE, const |-> FALSE, key |-> NoKey,
                text |-> NULL, next |-> NULL, prev |-> NULL, child |-> child]
    BY <1>6 DEF Blank
  <2> QED BY <2>1, <2>2 DEF Item, items
<1>8. PICK e : e = Extend(heap, n, item)
  OBVIOUS
<1>9. NewReference(heap, strings, roots, leaked, n, e)
  BY <1>1, <1>2, <1>7, <1>8, TendedRefers
<1>10. use' = use /\ heap' = e /\ strings' = strings
  BY <1>5, <1>6, <1>8 DEF Store, Mem
<1> QED BY <1>3, <1>9, <1>10 DEF Kept, NewReference

LEMMA AddItemToArrayKeeps == ASSUME IInv, AddItemToArray PROVE Kept
<1>1. PICK kids : Tended(heap, strings, roots, leaked, kids)
  BY DEF IInv
<1>2. PICK p \in items, x \in roots :
        /\ MayChange(p) /\ MayAdd(p, x) /\ heap' = add_item_to_array(heap, p, x)
        /\ roots' = roots \ {x} /\ UNCHANGED <<use, strings, leaked>>
  BY DEF AddItemToArray
<1>3. p \in Owners(heap)
  BY <1>1, <1>2, TakesPart
<1>4. PICK B : Whole(kids, B) /\ x \in B /\ p \notin B
  BY <1>1, <1>2, MayTakeIn
<1>5. PICK n : n = add_item_to_array(heap, p, x)
  OBVIOUS
<1>6. \E k : Tended(n, strings, roots \ {x}, leaked, k)
  <2>1. PICK which \in Nat : which = 0
    OBVIOUS
  <2> QED BY <1>1, <1>3, <1>4, <1>5, TendedTakesIn
<1> QED BY <1>2, <1>5, <1>6 DEF Kept

LEMMA InsertItemInArrayKeeps == ASSUME IInv, InsertItemInArray PROVE Kept
<1>1. PICK kids : Tended(heap, strings, roots, leaked, kids)
  BY DEF IInv
<1>2. PICK p \in items, x \in roots, which \in 0..MaxCount :
        /\ MayChange(p) /\ MayAdd(p, x) /\ heap' = cJSON_InsertItemInArray(heap, p, which, x)
        /\ roots' = roots \ {x} /\ UNCHANGED <<use, strings, leaked>>
  BY DEF InsertItemInArray
<1>3. p \in Owners(heap) /\ which \in Nat
  BY <1>1, <1>2, TakesPart, LimitAssumption
<1>4. PICK B : Whole(kids, B) /\ x \in B /\ p \notin B
  BY <1>1, <1>2, MayTakeIn
<1>5. PICK n : n = cJSON_InsertItemInArray(heap, p, which, x)
  OBVIOUS
<1>6. \E k : Tended(n, strings, roots \ {x}, leaked, k)
  BY <1>1, <1>3, <1>4, <1>5, TendedTakesIn, ZenonT(30)
<1> QED BY <1>2, <1>5, <1>6 DEF Kept

LEMMA AddItemToObjectKeeps == ASSUME IInv, AddItemToObject PROVE Kept
<1>1. PICK kids : Tended(heap, strings, roots, leaked, kids)
  BY DEF IInv
<1>2. PICK m : m = [h |-> heap, s |-> strings]
  OBVIOUS
<1>3. PICK p \in items, x \in roots, name \in use.keys, strdup \in BOOLEAN, constant \in BOOLEAN :
        /\ MayChange(p) /\ MayAdd(p, x)
        /\ Store(add_item_to_object(m, p, name, x, constant, strdup).m)
        /\ roots' = (IF add_item_to_object(m, p, name, x, constant, strdup).ok THEN roots \ {x} ELSE roots)
        /\ leaked' = leaked
  <2>1. PICK p \in items, x \in roots, name \in use.keys, strdup \in BOOLEAN :
          /\ MayChange(p) /\ MayAdd(p, x)
          /\ Store(add_item_to_object(m, p, name, x, name \in use.literals, strdup).m)
          /\ roots' = (IF add_item_to_object(m, p, name, x, name \in use.literals, strdup).ok
                       THEN roots \ {x} ELSE roots)
          /\ leaked' = leaked
    BY <1>2, ZenonT(30) DEF AddItemToObject, Mem
  <2>2. PICK constant : constant = (name \in use.literals)
    OBVIOUS
  <2>3. constant \in BOOLEAN
    BY <2>2
  <2> QED BY <2>1, <2>2, <2>3
<1>4. p \in Owners(heap) /\ name \in Key \ {NoKey}
  BY <1>1, <1>3, TakesPart, Uses
<1>5. PICK B : Whole(kids, B) /\ x \in B /\ p \notin B
  BY <1>1, <1>3, MayTakeIn
<1>6. PICK r : r = add_item_to_object(m, p, name, x, constant, strdup)
  OBVIOUS
<1>7. \/ ~r.ok /\ r.m = m
      \/ r.ok /\ \E k : Tended(r.m.h, r.m.s, roots \ {x}, leaked, k)
  BY <1>1, <1>2, <1>4, <1>5, <1>6, TendedAdded
<1>8. CASE ~r.ok /\ r.m = m
  BY <1>1, <1>2, <1>3, <1>6, <1>8 DEF Kept, Store
<1>9. CASE r.ok /\ \E k : Tended(r.m.h, r.m.s, roots \ {x}, leaked, k)
  BY <1>3, <1>6, <1>9 DEF Kept, Store
<1> QED BY <1>7, <1>8, <1>9

LEMMA AddItemReferenceToArrayKeeps == ASSUME IInv, AddItemReferenceToArray PROVE Kept
<1>1. PICK kids : Tended(heap, strings, roots, leaked, kids)
  BY DEF IInv
<1>2. PICK m : m = [h |-> heap, s |-> strings]
  OBVIOUS
<1>3. PICK p \in items \ leaked, x \in items \ leaked :
        /\ MayChange(p) /\ create_reference(m, x).item # NULL
        /\ Store([create_reference(m, x).m EXCEPT !.h = add_item_to_array(@, p, create_reference(m, x).item)])
        /\ UNCHANGED <<roots, leaked>>
  BY <1>2 DEF AddItemReferenceToArray, Mem
<1>4. PICK r : r = create_reference(m, x)
  OBVIOUS
<1>5. NewReference(heap, strings, roots, leaked, r.item, r.m.h) /\ r.m = [h |-> r.m.h, s |-> strings]
  <2>1. x \in DOMAIN heap \ leaked
    BY DEF items
  <2>2. r.item # NULL
    BY <1>3, <1>4
  <2>3. r # Nothing([h |-> heap, s |-> strings])
    BY <2>2 DEF Nothing
  <2> QED BY <1>1, <1>2, <1>4, <2>1, <2>3, TendedReferred
<1>6. PICK n, e : n = r.item /\ e = r.m.h
  OBVIOUS
<1>7. n \notin DOMAIN heap /\ Owners(e) = Owners(heap) /\ \E k : Tended(e, strings, roots \cup {n}, leaked, k)
  BY <1>5, <1>6 DEF NewReference
<1>8. PICK k : Tended(e, strings, roots \cup {n}, leaked, k)
  BY <1>7
<1>9. p \in Owners(e)
  BY <1>1, <1>3, <1>7, TakesPart
<1>10. PICK B : B = {n}
  OBVIOUS
<1>11. Whole(k, B) /\ n \in B /\ p \notin B
  <2>1. DOMAIN k = Owners(e)
    BY <1>8, TendedFacts
  <2> QED BY <1>3, <1>7, <1>10, <2>1 DEF Whole, Owners, items
<1>12. PICK q : q = add_item_to_array(e, p, n)
  OBVIOUS
<1>13. \E l : Tended(q, strings, (roots \cup {n}) \ {n}, leaked, l)
  <2>1. PICK which \in Nat : which = 0
    OBVIOUS
  <2>2. n \in roots \cup {n}
    OBVIOUS
  <2> QED BY <1>8, <1>9, <1>11, <1>12, <2>2, TendedTakesIn
<1>14. (roots \cup {n}) \ {n} = roots
  <2>1. roots \subseteq DOMAIN heap
    BY <1>1, TendedFacts
  <2> QED BY <1>7, <2>1
<1>15. use' = use /\ heap' = q /\ strings' = strings
  <2>1. PICK z : z = [r.m EXCEPT !.h = q]
    OBVIOUS
  <2>2. z = [h |-> q, s |-> strings]
    BY <1>5, <2>1
  <2>3. Store(z)
    BY <1>3, <1>4, <1>6, <1>12, <2>1
  <2> QED BY <2>2, <2>3 DEF Store
<1> QED BY <1>3, <1>13, <1>14, <1>15 DEF Kept

LEMMA AddItemReferenceToObjectKeeps == ASSUME IInv, AddItemReferenceToObject PROVE Kept
<1>1. PICK kids : Tended(heap, strings, roots, leaked, kids)
  BY DEF IInv
<1>2. PICK m : m = [h |-> heap, s |-> strings]
  OBVIOUS
<1>3. PICK p \in items \ leaked, x \in items \ leaked, name \in use.keys, strdup \in BOOLEAN : \E ref, r :
        /\ ref = create_reference(m, x) /\ r = add_item_to_object(ref.m, p, name, ref.item, FALSE, strdup)
        /\ MayChange(p) /\ Store(r.m)
        /\ leaked' = (IF r.ok THEN leaked ELSE leaked \cup ({ref.item} \ {NULL}))
        /\ roots' = roots
  BY <1>2 DEF AddItemReferenceToObject, Mem
<1>4. PICK ref, r :
        /\ ref = create_reference(m, x) /\ r = add_item_to_object(ref.m, p, name, ref.item, FALSE, strdup)
        /\ MayChange(p) /\ Store(r.m)
        /\ leaked' = (IF r.ok THEN leaked ELSE leaked \cup ({ref.item} \ {NULL}))
        /\ roots' = roots
  BY <1>3
<1>5. CASE ref = Nothing(m)
  <2>1. ref.m = m /\ ref.item = NULL
    BY <1>5 DEF Nothing
  <2>2. r = [m |-> m, ok |-> FALSE]
    BY <1>4, <2>1 DEF add_item_to_object
  <2>3. leaked' = leaked
    BY <1>4, <2>1, <2>2
  <2>4. use' = use /\ heap' = heap /\ strings' = strings
    <3>1. r.m = m
      BY <2>2
    <3>2. Store(m)
      BY <1>4, <3>1
    <3> QED BY <1>2, <3>2 DEF Store
  <2> QED BY <1>1, <1>4, <2>3, <2>4 DEF Kept
<1>6. CASE /\ ref.item # NULL /\ ref.m = [h |-> ref.m.h, s |-> strings]
           /\ NewReference(heap, strings, roots, leaked, ref.item, ref.m.h)
  <2>1. PICK n, e : n = ref.item /\ e = ref.m.h
    OBVIOUS
  <2>2. /\ n \notin DOMAIN heap /\ Owners(e) = Owners(heap)
        /\ \E k : Tended(e, strings, roots \cup {n}, leaked, k)
        /\ \E k : Tended(e, strings, roots, leaked \cup {n}, k)
    BY <1>6, <2>1 DEF NewReference
  <2>3. PICK k : Tended(e, strings, roots \cup {n}, leaked, k)
    BY <2>2
  <2>4. p \in Owners(e) /\ name \in Key \ {NoKey}
    BY <1>1, <1>3, <1>4, <2>2, TakesPart, Uses
  <2>5. PICK B : B = {n}
    OBVIOUS
  <2>6. Whole(k, B) /\ n \in B /\ p \notin B
    <3>1. DOMAIN k = Owners(e)
      BY <2>3, TendedFacts
    <3> QED BY <1>3, <2>2, <2>5, <3>1 DEF Whole, Owners, items
  <2>7. PICK constant : constant = FALSE
    OBVIOUS
  <2>8. r = add_item_to_object([h |-> e, s |-> strings], p, name, n, constant, strdup)
    BY <1>4, <1>6, <2>1, <2>7
  <2>9. \/ ~r.ok /\ r.m = [h |-> e, s |-> strings]
        \/ r.ok /\ \E l : Tended(r.m.h, r.m.s, (roots \cup {n}) \ {n}, leaked, l)
    <3>1. n \in roots \cup {n} /\ constant \in BOOLEAN
      BY <2>7
    <3> QED BY <2>3, <2>4, <2>6, <2>8, <3>1, TendedAdded, ZenonT(30)
  <2>10. CASE ~r.ok /\ r.m = [h |-> e, s |-> strings]
    <3>1. use' = use /\ heap' = e /\ strings' = strings
      <4>1. PICK z : z = [h |-> e, s |-> strings]
        OBVIOUS
      <4>2. Store(z)
        BY <1>4, <2>10, <4>1
      <4> QED BY <4>1, <4>2 DEF Store
    <3>2. leaked' = leaked \cup {n}
      BY <1>4, <1>6, <2>1, <2>10
    <3> QED BY <1>4, <2>2, <3>1, <3>2 DEF Kept
  <2>11. CASE r.ok /\ \E l : Tended(r.m.h, r.m.s, (roots \cup {n}) \ {n}, leaked, l)
    <3>1. use' = use /\ heap' = r.m.h /\ strings' = r.m.s
      BY <1>4 DEF Store
    <3>2. (roots \cup {n}) \ {n} = roots
      <4>1. roots \subseteq DOMAIN heap
        BY <1>1, TendedFacts
      <4> QED BY <2>2, <4>1
    <3> QED BY <1>4, <2>11, <3>1, <3>2 DEF Kept
  <2> QED BY <2>9, <2>10, <2>11
<1>7. ref = Nothing(m) \/ /\ ref.item # NULL /\ ref.m = [h |-> ref.m.h, s |-> strings]
                          /\ NewReference(heap, strings, roots, leaked, ref.item, ref.m.h)
  <2>1. x \in DOMAIN heap \ leaked
    BY DEF items
  <2> QED BY <1>1, <1>2, <1>4, <2>1, TendedReferred
<1> QED BY <1>5, <1>6, <1>7

LEMMA DetachKeeps == ASSUME IInv, Detach PROVE Kept
<1>1. PICK kids : Tended(heap, strings, roots, leaked, kids)
  BY DEF IInv
<1>2. PICK p \in items : \E x \in Picked(p) \ {NULL} :
        /\ MayChange(p) /\ heap' = cJSON_DetachItemViaPointer(heap, p, x)
        /\ roots' = roots \cup {x} /\ UNCHANGED <<use, strings, leaked>>
  BY DEF Detach
<1>3. PICK x \in Picked(p) \ {NULL} :
        /\ MayChange(p) /\ heap' = cJSON_DetachItemViaPointer(heap, p, x)
        /\ roots' = roots \cup {x} /\ UNCHANGED <<use, strings, leaked>>
  BY <1>2
<1>4. p \in Owners(heap)
  BY <1>1, <1>3, TakesPart
<1>5. x \in Members(kids[p])
  BY <1>1, <1>4, PickedMember
<1>6. PICK n : n = cJSON_DetachItemViaPointer(heap, p, x)
  OBVIOUS
<1>7. \E k : Tended(n, strings, roots \cup {x}, leaked, k)
  BY <1>1, <1>4, <1>5, <1>6, TendedDetached
<1> QED BY <1>3, <1>6, <1>7 DEF Kept

LEMMA DeleteItemKeeps == ASSUME IInv, DeleteItem PROVE Kept
<1>1. PICK kids : Tended(heap, strings, roots, leaked, kids)
  BY DEF IInv
<1>2. PICK p \in items : \E x \in Picked(p) \ {NULL} :
        LET m == [Mem EXCEPT !.h = cJSON_DetachItemViaPointer(@, p, x)] IN
        /\ MayChange(p) /\ MayFree(Doomed(m.h, {x}))
        /\ Store(cJSON_Delete(m, x)) /\ UNCHANGED <<roots, leaked>>
  BY DEF DeleteItem
<1>3. PICK x \in Picked(p) \ {NULL} :
        LET m == [Mem EXCEPT !.h = cJSON_DetachItemViaPointer(@, p, x)] IN
        /\ MayChange(p) /\ MayFree(Doomed(m.h, {x}))
        /\ Store(cJSON_Delete(m, x)) /\ UNCHANGED <<roots, leaked>>
  BY <1>2
<1>4. PICK n : n = cJSON_DetachItemViaPointer(heap, p, x)
  OBVIOUS
<1>5. [Mem EXCEPT !.h = cJSON_DetachItemViaPointer(@, p, x)] = [h |-> n, s |-> strings]
  BY <1>4 DEF Mem
<1>6. PICK q : q = cJSON_Delete([h |-> n, s |-> strings], x)
  OBVIOUS
<1>7. MayChange(p) /\ MayFree(Doomed(n, {x})) /\ Store(q) /\ roots' = roots /\ leaked' = leaked
  BY <1>3, <1>5, <1>6
<1>8. p \in Owners(heap)
  BY <1>1, <1>7, TakesPart
<1>9. x \in Members(kids[p])
  BY <1>1, <1>8, PickedMember
<1>10. Alike(heap, n) /\ \E k : Tended(n, strings, roots \cup {x}, leaked, k)
  BY <1>1, <1>4, <1>8, <1>9, TendedDetached
<1>11. PICK k : Tended(n, strings, roots \cup {x}, leaked, k)
  BY <1>10
<1>12. Unshown(n, leaked, Doomed(n, {x}))
  BY <1>7, <1>10, AlikeRefers, FreeIsUnshown
<1>13. \E l : Tended(q.h, q.s, (roots \cup {x}) \ {x}, leaked, l)
  <2>1. \A r \in DOMAIN n \ (leaked \cup Doomed(n, {x})) :
          n[r].ref => n[r].child \notin Doomed(n, {x}) /\ n[r].text \notin Doomed(n, {x})
    BY <1>12 DEF Unshown
  <2>2. x \in roots \cup {x}
    OBVIOUS
  <2> QED BY <1>6, <1>11, <2>1, <2>2, TendedFreed
<1>14. (roots \cup {x}) \ {x} = roots
  <2>1. Members(kids[p]) \cap roots = {}
    BY <1>1, <1>8, TendedFacts
  <2> QED BY <1>9, <2>1
<1> QED BY <1>7, <1>13, <1>14 DEF Kept, Store

LEMMA DeleteKeeps == ASSUME IInv, Delete PROVE Kept
<1>1. PICK kids : Tended(heap, strings, roots, leaked, kids)
  BY DEF IInv
<1>2. PICK x \in roots :
        /\ MayFree(Doomed(heap, {x})) /\ Store(cJSON_Delete([h |-> heap, s |-> strings], x))
        /\ roots' = roots \ {x} /\ leaked' = leaked
  BY DEF Delete, Mem
<1>3. PICK q : q = cJSON_Delete([h |-> heap, s |-> strings], x)
  OBVIOUS
<1>4. SameReferences(heap, heap)
  BY DEF SameReferences
<1>5. Unshown(heap, leaked, Doomed(heap, {x}))
  BY <1>2, <1>4, FreeIsUnshown
<1>6. \E k : Tended(q.h, q.s, roots \ {x}, leaked, k)
  <2>1. \A r \in DOMAIN heap \ (leaked \cup Doomed(heap, {x})) :
          heap[r].ref => heap[r].child \notin Doomed(heap, {x}) /\ heap[r].text \notin Doomed(heap, {x})
    BY <1>5 DEF Unshown
  <2> QED BY <1>1, <1>3, <2>1, TendedFreed
<1> QED BY <1>2, <1>3, <1>6 DEF Kept, Store

LEMMA DuplicateKeeps == ASSUME IInv, Duplicate PROVE Kept
<1>1. PICK kids : Tended(heap, strings, roots, leaked, kids)
  BY DEF IInv
<1>2. PICK m : m = [h |-> heap, s |-> strings]
  OBVIOUS
<1>3. PICK x \in items \ leaked, recurse \in BOOLEAN : \E broken :
        /\ Store(Duplicate_rec(m, x, recurse, broken).m)
        /\ roots' = roots \cup ({Duplicate_rec(m, x, recurse, broken).item} \ {NULL}) /\ leaked' = leaked
  BY <1>2 DEF Duplicate, Mem
<1>4. PICK broken :
        /\ Store(Duplicate_rec(m, x, recurse, broken).m)
        /\ roots' = roots \cup ({Duplicate_rec(m, x, recurse, broken).item} \ {NULL}) /\ leaked' = leaked
  BY <1>3
<1>5. PICK r : r = Duplicate_rec(m, x, recurse, broken)
  OBVIOUS
<1>6. Made([h |-> heap, s |-> strings], r)
  <2>1. PICK S : S = DOMAIN heap \ leaked
    OBVIOUS
  <2>2. Memory(m)
    BY <1>1, <1>2, TendedIsMemory
  <2>3. Source(m.h, S) /\ x \in S
    BY <1>1, <1>2, <2>1, OwnedIsSource DEF items
  <2> QED BY <1>2, <1>5, <2>2, <2>3, Duplicated
<1>7. PICK S : S = roots \cup ({r.item} \ {NULL})
  OBVIOUS
<1>8. \E k : Tended(r.m.h, r.m.s, S, leaked, k)
  BY <1>1, <1>6, <1>7, TendedMade
<1> QED BY <1>4, <1>5, <1>7, <1>8 DEF Kept, Store

LEMMA ReplaceItemInArrayKeeps == ASSUME IInv, ReplaceItemInArray PROVE Kept
<1>1. PICK kids : Tended(heap, strings, roots, leaked, kids)
  BY DEF IInv
<1>2. PICK m : m = [h |-> heap, s |-> strings]
  OBVIOUS
<1>3. PICK p \in items, x \in roots, which \in 0..MaxCount : \E old, r :
        /\ old = get_array_item(heap, p, which) /\ r = cJSON_ReplaceItemViaPointer(m, p, old, x)
        /\ MayChange(p) /\ MayAdd(p, x)
        /\ old # NULL => MayFree(Doomed(PutInPlace(heap, p, old, x), {old}))
        /\ Store(r.m) /\ roots' = (IF r.ok THEN roots \ {x} ELSE roots) /\ leaked' = leaked
  BY <1>2 DEF ReplaceItemInArray, Mem
<1>4. PICK old, r :
        /\ old = get_array_item(heap, p, which) /\ r = cJSON_ReplaceItemViaPointer(m, p, old, x)
        /\ MayChange(p) /\ MayAdd(p, x)
        /\ old # NULL => MayFree(Doomed(PutInPlace(heap, p, old, x), {old}))
        /\ Store(r.m) /\ roots' = (IF r.ok THEN roots \ {x} ELSE roots) /\ leaked' = leaked
  BY <1>3
<1>5. p \in Owners(heap) /\ which \in Nat
  BY <1>1, <1>3, <1>4, TakesPart, LimitAssumption
<1>6. PICK B : Whole(kids, B) /\ x \in B /\ p \notin B
  BY <1>1, <1>4, MayTakeIn
<1>7. old \in Members(kids[p]) \cup {NULL}
  BY <1>1, <1>4, <1>5, PickedIsChild
<1>8. old # NULL => Unshown(heap, leaked, Doomed(PutInPlace(heap, p, old, x), {old}))
  <2>1. SameReferences(heap, heap)
    BY DEF SameReferences
  <2> QED BY <1>4, <2>1, FreeIsUnshown
<1>9. \/ ~r.ok /\ r.m = m
      \/ r.ok /\ \E k : Tended(r.m.h, r.m.s, roots \ {x}, leaked, k)
  <2>1. r = cJSON_ReplaceItemViaPointer([h |-> heap, s |-> strings], p, old, x)
    BY <1>2, <1>4
  <2> QED BY <1>1, <1>2, <1>5, <1>6, <1>7, <1>8, <2>1, TendedExchanged
<1>10. CASE ~r.ok /\ r.m = m
  <2>1. Store(m) /\ roots' = roots
    BY <1>4, <1>10
  <2> QED BY <1>1, <1>2, <1>4, <2>1 DEF Kept, Store
<1>11. CASE r.ok /\ \E k : Tended(r.m.h, r.m.s, roots \ {x}, leaked, k)
  BY <1>4, <1>11 DEF Kept, Store
<1> QED BY <1>9, <1>10, <1>11

\* A root loses its name.
LEMMA NameTaken ==
  ASSUME NEW h, Cells(h), NEW x \in DOMAIN h
  PROVE  [h EXCEPT ![x].key = NoKey] = WithName(h, x, NoKey, h[x].const)
<1>1. PICK item, n : item = h[x] /\ n = WithName(h, x, NoKey, item.const)
  OBVIOUS
<1>2. /\ h = [y \in DOMAIN h |-> h[y]] /\ item \in Item
  BY <1>1 DEF Cells
<1>3. [item EXCEPT !.key = NoKey] = [item EXCEPT !.key = NoKey, !.const = item.const]
  BY <1>2 DEF Item
<1>4. n = [h EXCEPT ![x] = [item EXCEPT !.key = NoKey, !.const = item.const]]
  BY <1>1, <1>2 DEF WithName
<1>5. [h EXCEPT ![x].key = NoKey] = [h EXCEPT ![x] = [item EXCEPT !.key = NoKey]]
  BY <1>1
<1> QED BY <1>1, <1>3, <1>4, <1>5

LEMMA ReplaceItemInObjectKeeps == ASSUME IInv, ReplaceItemInObject PROVE Kept
<1>1. PICK kids : Tended(heap, strings, roots, leaked, kids)
  BY DEF IInv
<1>2. PICK p \in items, x \in roots :
        /\ MayChange(p) /\ MayAdd(p, x)
        /\ \E name \in use.keys, case, strdup \in BOOLEAN :
             LET unnamed == [h |-> [heap EXCEPT ![x].key = NoKey],
                             s |-> strings - IF OwnsKey(heap[x]) THEN 1 ELSE 0]
                 renamed == Rename(Mem, x, name, FALSE)
                 old == get_object_item(renamed.h, p, name, case)
                 r == IF strdup THEN cJSON_ReplaceItemViaPointer(renamed, p, old, x)
                      ELSE [m |-> unnamed, ok |-> FALSE] IN
             /\ old # NULL => MayFree(Doomed(PutInPlace(renamed.h, p, old, x), {old}))
             /\ Store(r.m)
             /\ roots' = IF r.ok THEN roots \ {x} ELSE roots
        /\ leaked' = leaked
  BY Zenon DEF ReplaceItemInObject
<1>3. PICK name \in use.keys, case, strdup \in BOOLEAN :
        LET unnamed == [h |-> [heap EXCEPT ![x].key = NoKey],
                        s |-> strings - IF OwnsKey(heap[x]) THEN 1 ELSE 0]
            renamed == Rename(Mem, x, name, FALSE)
            old == get_object_item(renamed.h, p, name, case)
            r == IF strdup THEN cJSON_ReplaceItemViaPointer(renamed, p, old, x)
                 ELSE [m |-> unnamed, ok |-> FALSE] IN
        /\ old # NULL => MayFree(Doomed(PutInPlace(renamed.h, p, old, x), {old}))
        /\ Store(r.m)
        /\ roots' = IF r.ok THEN roots \ {x} ELSE roots
  BY <1>2
<1>4. PICK unnamed, renamed, old, r :
        /\ unnamed = [h |-> [heap EXCEPT ![x].key = NoKey],
                      s |-> strings - IF OwnsKey(heap[x]) THEN 1 ELSE 0]
        /\ renamed = Rename([h |-> heap, s |-> strings], x, name, FALSE)
        /\ old = get_object_item(renamed.h, p, name, case)
        /\ r = (IF strdup THEN cJSON_ReplaceItemViaPointer(renamed, p, old, x)
                ELSE [m |-> unnamed, ok |-> FALSE])
        /\ MayChange(p) /\ MayAdd(p, x)
        /\ old # NULL => MayFree(Doomed(PutInPlace(renamed.h, p, old, x), {old}))
        /\ Store(r.m) /\ roots' = (IF r.ok THEN roots \ {x} ELSE roots) /\ leaked' = leaked
  BY <1>3, <1>2 DEF Mem
<1>5. /\ x \in DOMAIN heap /\ Cells(heap) /\ strings \in Nat
      /\ name \in Key \cup {NoKey} /\ name # NoKey
  BY <1>1, <1>3, TendedFacts, Uses
<1>6. CASE ~strdup
  <2>1. r.m = unnamed /\ ~r.ok
    BY <1>4, <1>6
  <2>2. PICK constant : constant = heap[x].const
    OBVIOUS
  <2>3. constant \in BOOLEAN
    BY <1>5, <2>2 DEF Cells, Item
  <2>4. PICK none : none = NoKey
    OBVIOUS
  <2>5. PICK n, t : n = [heap EXCEPT ![x].key = NoKey] /\ t = strings - IF OwnsKey(heap[x]) THEN 1 ELSE 0
    OBVIOUS
  <2>6. n = WithName(heap, x, none, constant)
    BY <1>5, <2>2, <2>4, <2>5, NameTaken
  <2>7. t = strings + Named(none, constant) - IF OwnsKey(heap[x]) THEN 1 ELSE 0
    <3>1. Named(none, constant) = 0
      BY <2>4 DEF Named
    <3>2. PICK gone : gone = IF OwnsKey(heap[x]) THEN 1 ELSE 0
      OBVIOUS
    <3>3. t = strings - gone
      BY <2>5, <3>2
    <3>4. t = strings + Named(none, constant) - gone
      BY <1>5, <3>1, <3>2, <3>3
    <3> QED BY <3>2, <3>4
  <2>8. Tended(n, t, roots, leaked, kids)
    <3>1. none \in Key \cup {NoKey}
      BY <2>4
    <3> QED BY <1>1, <1>5, <2>3, <2>6, <2>7, <3>1, TendedRenamed
  <2>9. use' = use /\ heap' = n /\ strings' = t
    <3>1. PICK z : z = [h |-> n, s |-> t]
      OBVIOUS
    <3>2. Store(z)
      BY <1>4, <2>1, <2>5, <3>1
    <3> QED BY <3>1, <3>2 DEF Store
  <2> QED BY <1>4, <2>1, <2>8, <2>9 DEF Kept
<1>7. CASE strdup
  <2>1. PICK constant : constant = FALSE
    OBVIOUS
  <2>2. PICK n, t : /\ n = WithName(heap, x, name, constant)
                    /\ t = strings + Named(name, constant) - IF OwnsKey(heap[x]) THEN 1 ELSE 0
    OBVIOUS
  <2>3. renamed = [h |-> n, s |-> t]
    <3>1. Named(name, constant) = 1
      BY <1>5, <2>1 DEF Named
    <3> QED BY <1>4, <2>1, <2>2, <3>1 DEF Rename, WithName
  <2>4. Renamed(heap, n, x) /\ Tended(n, t, roots, leaked, kids)
    <3>1. constant \in BOOLEAN
      BY <2>1
    <3> QED BY <1>1, <1>5, <2>2, <3>1, TendedRenamed
  <2>5. p \in Owners(n)
    <3>1. p \in Owners(heap)
      BY <1>1, <1>4, TakesPart
    <3> QED BY <2>4, <3>1 DEF Renamed
  <2>6. PICK B : Whole(kids, B) /\ x \in B /\ p \notin B
    BY <1>1, <1>4, MayTakeIn
  <2>7. renamed.h = n
    BY <2>3
  <2>8. old \in Members(kids[p]) \cup {NULL}
    BY <1>4, <2>4, <2>5, <2>7, PickedIsChild
  <2>9. old # NULL => Unshown(n, leaked, Doomed(PutInPlace(n, p, old, x), {old}))
    <3>1. SameReferences(heap, n)
      BY <2>4, RenamedRefers
    <3> QED BY <1>4, <2>7, <3>1, FreeIsUnshown
  <2>10. r = cJSON_ReplaceItemViaPointer([h |-> n, s |-> t], p, old, x)
    BY <1>4, <1>7, <2>3
  <2>11. \/ ~r.ok /\ r.m = [h |-> n, s |-> t]
         \/ r.ok /\ \E k : Tended(r.m.h, r.m.s, roots \ {x}, leaked, k)
    BY <2>4, <2>5, <2>6, <2>8, <2>9, <2>10, TendedExchanged
  <2>12. CASE ~r.ok /\ r.m = [h |-> n, s |-> t]
    <3>1. use' = use /\ heap' = n /\ strings' = t
      <4>1. PICK z : z = [h |-> n, s |-> t]
        OBVIOUS
      <4>2. Store(z)
        BY <1>4, <2>12, <4>1
      <4> QED BY <4>1, <4>2 DEF Store
    <3> QED BY <1>4, <2>4, <2>12, <3>1 DEF Kept
  <2>13. CASE r.ok /\ \E k : Tended(r.m.h, r.m.s, roots \ {x}, leaked, k)
    BY <1>4, <2>13 DEF Kept, Store
  <2> QED BY <2>11, <2>12, <2>13
<1> QED BY <1>3, <1>6, <1>7

\* What is made is given back when its name cannot be copied.
LEMMA MadeIsFreed ==
  ASSUME NEW h, NEW s, NEW R, NEW L, NEW kids, Tended(h, s, R, L, kids),
         NEW g, NEW n, Grown(h, g, n), DOMAIN g = {n}, NEW e, e = Both(h, g), NEW t,
         NEW k, Tended(e, t, R \cup {n}, L, k), NEW q, q = cJSON_Delete([h |-> e, s |-> t], n)
  PROVE  \E l : Tended(q.h, q.s, (R \cup {n}) \ {n}, L, l)
<1>1. n \notin DOMAIN h /\ n # NULL
  <2>1. PICK kg : Grove(g, {n}, kg)
    BY DEF Grown
  <2>2. NULL \notin DOMAIN g
    BY <2>1, GroveFacts
  <2> QED BY <2>2 DEF Grown
<1>2. Doomed(e, {n}) = {n}
  <2>1. PICK kg : Grove(g, {n}, kg)
    BY DEF Grown
  <2>2. DOMAIN g \subseteq DOMAIN e
    BY DEF Both
  <2>3. \A a \in DOMAIN g : e[a].next = g[a].next /\ e[a].child = g[a].child /\ e[a].ref = g[a].ref
    BY <1>1 DEF Both
  <2> QED BY <2>1, <2>2, <2>3, TreeIsDoomed
<1>3. \A r \in DOMAIN e \ (L \cup Doomed(e, {n})) :
        e[r].ref => e[r].child \notin Doomed(e, {n}) /\ e[r].text \notin Doomed(e, {n})
  <2>1. SUFFICES ASSUME NEW r \in DOMAIN e \ (L \cup {n}), e[r].ref
                 PROVE  e[r].child # n /\ e[r].text # n
    BY <1>2
  <2>2. r \in DOMAIN h \ L /\ e[r] = h[r]
    BY DEF Both
  <2>3. {h[r].child, h[r].text} \subseteq (DOMAIN h \ L) \cup {NULL}
    BY <2>1, <2>2 DEF Tended, Shown
  <2> QED BY <1>1, <2>2, <2>3
<1>4. n \in R \cup {n}
  OBVIOUS
<1> QED BY <1>3, <1>4, TendedFreed

LEMMA AddNewToObjectKeeps == ASSUME IInv, AddNewToObject PROVE Kept
<1>1. PICK kids : Tended(heap, strings, roots, leaked, kids)
  BY DEF IInv
<1>2. PICK m : m = [h |-> heap, s |-> strings]
  OBVIOUS
<1>3. PICK p \in items, type \in Leaf \cup Container, name \in use.keys, strdup \in BOOLEAN, strdup2 \in BOOLEAN :
        LET new == CreateItem(Mem, type, strdup)
            r == add_item_to_object(new.m, p, name, new.item, FALSE, strdup2) IN
        /\ MayChange(p)
        /\ Store(IF r.ok THEN r.m ELSE cJSON_Delete(r.m, new.item))
        /\ UNCHANGED <<roots, leaked>>
  BY DEF AddNewToObject
<1>4. PICK new, r :
        /\ new = CreateItem(m, type, strdup) /\ r = add_item_to_object(new.m, p, name, new.item, FALSE, strdup2)
        /\ MayChange(p) /\ Store(IF r.ok THEN r.m ELSE cJSON_Delete(r.m, new.item))
        /\ UNCHANGED <<roots, leaked>>
  BY <1>2, <1>3 DEF Mem
<1>5. Made(m, new) /\ MadeOne(m, type, new)
  <2>1. Memory(m)
    BY <1>1, <1>2, TendedIsMemory
  <2> QED BY <1>4, <2>1, ItemCreated
<1>6. CASE new = Nothing(m)
  <2>1. new.m = m /\ new.item = NULL
    BY <1>6 DEF Nothing
  <2>2. r = [m |-> m, ok |-> FALSE]
    BY <1>4, <2>1 DEF add_item_to_object
  <2>3. r.m = m /\ ~r.ok
    BY <2>2
  <2>4. cJSON_Delete(r.m, new.item) = m
    BY <2>1, <2>3 DEF cJSON_Delete
  <2>5. Store(m)
    BY <1>4, <2>3, <2>4
  <2>6. use' = use /\ heap' = heap /\ strings' = strings
    BY <1>2, <2>5 DEF Store
  <2> QED BY <1>1, <1>4, <2>6 DEF Kept
<1>7. CASE \E g : /\ Grown(m.h, g, new.item) /\ DOMAIN g = {new.item}
                  /\ g[new.item].child = NULL /\ g[new.item].type = type
                  /\ new.m = [h |-> Both(m.h, g), s |-> m.s + Total(g)]
  <2>1. PICK g : /\ Grown(m.h, g, new.item) /\ DOMAIN g = {new.item}
                 /\ g[new.item].child = NULL
                 /\ new.m = [h |-> Both(m.h, g), s |-> m.s + Total(g)]
    BY <1>7
  <2>2. PICK n, e, t : n = new.item /\ e = Both(heap, g) /\ t = strings + Total(g)
    OBVIOUS
  <2>3. new.m = [h |-> e, s |-> t] /\ new.item = n /\ Grown(heap, g, n) /\ DOMAIN g = {n} /\ g[n].child = NULL
    BY <1>2, <2>1, <2>2
  <2>4. n # NULL /\ n \notin items
    <3>1. PICK kg : Grove(g, {n}, kg)
      BY <2>3 DEF Grown
    <3>2. NULL \notin DOMAIN g
      BY <3>1, GroveFacts
    <3> QED BY <2>3, <3>2 DEF Grown, items
  <2>5. \E k : Tended(e, t, roots \cup {n}, leaked, k)
    <3>1. PICK S : S = roots \cup ({new.item} \ {NULL})
      OBVIOUS
    <3>2. S = roots \cup {n}
      BY <2>3, <2>4, <3>1
    <3>3. \E k : Tended(new.m.h, new.m.s, S, leaked, k)
      BY <1>1, <1>2, <1>5, <3>1, TendedMade
    <3>4. new.m.h = e /\ new.m.s = t
      BY <2>3
    <3> QED BY <3>2, <3>3, <3>4
  <2>6. PICK k : Tended(e, t, roots \cup {n}, leaked, k)
    BY <2>5
  <2>7. p \in Owners(e) /\ name \in Key \ {NoKey} /\ n \in Owners(e)
    <3>1. p \in Owners(heap)
      BY <1>1, <1>4, TakesPart
    <3>2. ~g[n].ref
      BY <2>3 DEF Grown
    <3> QED BY <1>3, <2>2, <2>3, <2>4, <3>1, <3>2, Uses DEF Owners, Both, items
  <2>8. PICK B : B = {n}
    OBVIOUS
  <2>9. Whole(k, B) /\ n \in B /\ p \notin B
    <3>1. Linked(e, n, k[n])
      BY <2>6, <2>7, TendedFacts
    <3>2. e[n].child = NULL
      BY <2>2, <2>3, <2>4 DEF Both, items
    <3>3. NULL \notin DOMAIN e /\ n \in DOMAIN e
      BY <2>6, <2>7, TendedFacts DEF Owners
    <3>4. PICK c : c = k[n]
      OBVIOUS
    <3>5. c \in Seq(DOMAIN e) /\ Firsts(e)[n] = IF Len(c) = 0 THEN NULL ELSE c[1]
      BY <3>1, <3>4 DEF Linked
    <3>6. Firsts(e)[n] = NULL
      BY <3>2, <3>3 DEF Firsts
    <3>7. Len(c) = 0
      BY <3>3, <3>5, <3>6
    <3>8. Members(c) = {}
      BY <3>7 DEF Members
    <3> QED BY <1>3, <2>4, <2>8, <3>4, <3>8 DEF Whole
  <2>10. PICK constant : constant = FALSE
    OBVIOUS
  <2>11. r = add_item_to_object([h |-> e, s |-> t], p, name, n, constant, strdup2)
    BY <1>4, <2>3, <2>10
  <2>12. \/ ~r.ok /\ r.m = [h |-> e, s |-> t]
         \/ r.ok /\ \E l : Tended(r.m.h, r.m.s, (roots \cup {n}) \ {n}, leaked, l)
    <3>1. n \in roots \cup {n} /\ constant \in BOOLEAN
      BY <2>10
    <3> QED BY <2>6, <2>7, <2>9, <2>11, <3>1, TendedAdded, ZenonT(30)
  <2>13. (roots \cup {n}) \ {n} = roots
    <3>1. roots \subseteq DOMAIN heap
      BY <1>1, TendedFacts
    <3> QED BY <2>4, <3>1 DEF items
  <2>14. CASE ~r.ok /\ r.m = [h |-> e, s |-> t]
    <3>1. PICK q : q = cJSON_Delete([h |-> e, s |-> t], n)
      OBVIOUS
    <3>2. \E l : Tended(q.h, q.s, (roots \cup {n}) \ {n}, leaked, l)
      BY <1>1, <2>2, <2>3, <2>6, <3>1, MadeIsFreed
    <3>3. Store(q)
      BY <1>4, <2>3, <2>14, <3>1
    <3> QED BY <1>4, <2>13, <3>2, <3>3 DEF Kept, Store
  <2>15. CASE r.ok /\ \E l : Tended(r.m.h, r.m.s, (roots \cup {n}) \ {n}, leaked, l)
    <3>1. Store(r.m)
      BY <1>4, <2>15
    <3> QED BY <1>4, <2>13, <2>15, <3>1 DEF Kept, Store
  <2> QED BY <2>12, <2>14, <2>15
<1> QED BY <1>5, <1>6, <1>7 DEF MadeOne

LEMMA InitHeap == Init => IInv
<1> SUFFICES ASSUME Init PROVE IInv
  OBVIOUS
<1>1. /\ use \in Usage /\ use.room \in Nat /\ DOMAIN heap = {} /\ strings = 0 /\ roots = {} /\ leaked = {}
  BY UsageAssumption DEF Init
<1>2. heap = [x \in DOMAIN heap |-> heap[x]] /\ heap \in [DOMAIN heap -> Item]
  <2>1. heap \in Seq(Item)
    BY DEF Init
  <2> QED BY <1>1, <2>1
<1>3. PICK kids : kids = [p \in {} |-> NULL]
  OBVIOUS
<1>4. Owners(heap) = {} /\ DOMAIN kids = {}
  BY <1>1, <1>3 DEF Owners
<1>5. Cells(heap)
  BY <1>1, <1>2, <1>4 DEF Cells
<1>6. Forest(heap, Owners(heap), kids)
  <2>1. IsFiniteSet(DOMAIN heap)
    BY <1>1, FS_EmptySet
  <2> QED BY <1>1, <1>2, <1>3, <1>4, <2>1 DEF Forest, Heap, NextIsItem
<1>7. Loose(heap, kids, roots \cup leaked) /\ Reached(heap, kids, roots \cup leaked)
  BY <1>1 DEF Loose, Reached
<1>8. Shown(heap, leaked)
  BY <1>1 DEF Shown
<1>9. Total(heap) = 0
  <2>1. {n \in DOMAIN heap : OwnsText(heap[n])} = {} /\ {n \in DOMAIN heap : OwnsKey(heap[n])} = {}
    BY <1>1
  <2>2. Cardinality({}) = 0
    BY FS_EmptySet
  <2>3. Total(heap) = Cardinality({n \in DOMAIN heap : OwnsText(heap[n])})
                      + Cardinality({n \in DOMAIN heap : OwnsKey(heap[n])})
    BY DEF Total, Owned
  <2>4. Total(heap) = 0 + 0
    BY <2>1, <2>2, <2>3
  <2> QED BY <2>4
<1>10. Tended(heap, strings, roots, leaked, kids)
  BY <1>1, <1>5, <1>6, <1>7, <1>8, <1>9 DEF Tended, Grove
<1> QED BY <1>1, <1>10 DEF IInv

\* What a heap is does not depend on which step it is seen after.
LEMMA KeptIsNext == ASSUME IInv, Kept PROVE IInv'
<1>1. PICK kids : use' = use /\ Tended(heap', strings', roots', leaked', kids)
  BY DEF Kept
<1>2. Tended(heap, strings, roots, leaked, kids)'
  BY <1>1 DEF Tended, Grove, Cells, Item, Pointer
<1>3. use' \in Usage
  BY <1>1 DEF IInv
<1> QED BY <1>2, <1>3 DEF IInv

LEMMA NextKeeps == ASSUME IInv, [Next]_vars PROVE IInv'
<1>1. CASE Next
  <2>1. Kept
    BY <1>1, CreateKeeps, CreateArrayKeeps, CreateReferenceKeeps, AddItemToArrayKeeps,
       AddItemToObjectKeeps, AddItemReferenceToArrayKeeps, AddItemReferenceToObjectKeeps,
       AddNewToObjectKeeps, DetachKeeps, DeleteItemKeeps, InsertItemInArrayKeeps,
       ReplaceItemInArrayKeeps, ReplaceItemInObjectKeeps, DuplicateKeeps, DeleteKeeps DEF Next
  <2> QED BY <2>1, KeptIsNext
<1>2. CASE UNCHANGED vars
  <2>1. Kept
    BY <1>2 DEF IInv, Kept, vars
  <2> QED BY <2>1, KeptIsNext
<1> QED BY <1>1, <1>2

\* The heap is tended always: after every call of every function, with any of its
\* allocations failing (cJSON.c:241-2858).
THEOREM HeapStaysTended == Spec => []IInv
<1>1. IInv /\ [Next]_vars => IInv'
  BY NextKeeps
<1> QED BY <1>1, InitHeap, PTL DEF Spec

-----------------------------------------------------------------------------
(* What the invariant says *)

LEMMA IInvTypeOK == IInv => TypeOK
<1> SUFFICES ASSUME IInv PROVE TypeOK
  OBVIOUS
<1>1. PICK kids : Tended(heap, strings, roots, leaked, kids)
  BY DEF IInv
<1>2. Cells(heap) /\ strings \in Nat /\ roots \subseteq DOMAIN heap /\ leaked \subseteq DOMAIN heap
  BY <1>1, TendedFacts
<1> QED BY <1>2 DEF TypeOK, Cells, IInv

LEMMA IInvLinked == IInv => ListsAreLinked
<1> SUFFICES ASSUME IInv PROVE ListsAreLinked
  OBVIOUS
<1>1. PICK kids : Tended(heap, strings, roots, leaked, kids)
  BY DEF IInv
<1>2. Forest(heap, Owners(heap), kids)
  BY <1>1 DEF Tended, Grove
<1>3. kids = [p \in Owners(heap) |-> Children(heap, p)]
  <2>1. kids = [p \in Owners(heap) |-> kids[p]]
    BY <1>2 DEF Forest
  <2>2. \A p \in Owners(heap) : Children(heap, p) = kids[p]
    BY <1>1, TendedFacts
  <2> QED BY <2>1, <2>2
<1>4. PICK owners : owners = Owners(heap)
  OBVIOUS
<1>5. Forest(heap, owners, [p \in owners |-> Children(heap, p)])
  BY <1>2, <1>3, <1>4
<1>6. \A x \in roots : heap[x].next = NULL /\ heap[x].prev = NULL
  BY <1>1 DEF Tended, Grove, Loose
<1>7. {p \in items : ~heap[p].ref} = owners
  BY <1>4 DEF Owners, items
<1> QED BY <1>5, <1>6, <1>7, IInvTypeOK DEF ListsAreLinked

LEMMA IInvOneOwner == IInv => EachHasOneOwner
<1> SUFFICES ASSUME IInv PROVE EachHasOneOwner
  OBVIOUS
<1>1. PICK kids : Tended(heap, strings, roots, leaked, kids)
  BY DEF IInv
<1>2. PICK R : R = roots \cup leaked
  OBVIOUS
<1>3. Grove(heap, R, kids) /\ NULL \notin items /\ DOMAIN kids = Owners(heap)
  <2>1. Grove(heap, R, kids)
    BY <1>1, <1>2 DEF Tended
  <2> QED BY <2>1, GroveFacts DEF items
<1>4. ASSUME NEW x \in items
      PROVE  Cardinality({p \in Lists : x \in ToSet(Children(heap, p))})
               = IF x \in roots \cup leaked THEN 0 ELSE 1
  <2>1. PICK P : P = {p \in Lists : x \in ToSet(Children(heap, p))}
    OBVIOUS
  <2>2. \A p : p \in P <=> p \in Owners(heap) /\ x \in Members(kids[p])
    <3>1. SUFFICES ASSUME NEW p \in Owners(heap)
                   PROVE  p \in P <=> x \in Members(kids[p])
      BY <2>1 DEF Lists, Owners, items
    <3>2. PICK c : c = kids[p]
      OBVIOUS
    <3>3. Linked(heap, p, c) /\ Children(heap, p) = c
      BY <1>1, <3>2, TendedFacts
    <3>4. /\ c \in Seq(DOMAIN heap) /\ Firsts(heap)[p] = IF Len(c) = 0 THEN NULL ELSE c[1]
      BY <3>3 DEF Linked
    <3>5. ToSet(c) = Members(c)
      BY <3>4 DEF ToSet, Members
    <3>6. x \in Members(c) => heap[p].child # NULL
      <4>1. p \in DOMAIN heap
        BY DEF Owners
      <4> QED BY <1>3, <3>4, <4>1 DEF Members, Firsts, items
    <3> QED BY <2>1, <3>2, <3>3, <3>5, <3>6 DEF Lists, Owners, items
  <2>3. CASE x \in R
    <3>1. P = {}
      BY <1>3, <2>2, <2>3 DEF Grove, Loose, Unlisted
    <3>2. Cardinality({}) = 0
      BY FS_EmptySet
    <3> QED BY <1>2, <2>1, <2>3, <3>1, <3>2
  <2>4. CASE x \notin R
    <3>1. PICK T : T = R \cup {y \in items : \E p \in Owners(heap) : y \in Members(kids[p])}
      OBVIOUS
    <3>2. R \subseteq T /\ Whole(kids, T)
      <4>1. \A p \in Owners(heap) : Members(kids[p]) \subseteq items
        BY <1>3, GroveFacts DEF items
      <4> QED BY <1>3, <3>1, <4>1 DEF Whole
    <3>3. x \in T
      BY <1>3, <3>2 DEF Grove, Reached, items
    <3>4. PICK q \in Owners(heap) : x \in Members(kids[q])
      BY <2>4, <3>1, <3>3
    <3>5. \A p \in Owners(heap) : x \in Members(kids[p]) => p = q
      BY <1>3, <3>4 DEF Grove, Forest
    <3>6. P = {q}
      BY <2>2, <3>4, <3>5
    <3>7. Cardinality({q}) = 1
      BY FS_Singleton
    <3> QED BY <1>2, <2>1, <2>4, <3>6, <3>7
  <2> QED BY <2>3, <2>4
<1>5. Doomed(heap, roots \cup leaked) = items
  BY <1>2, <1>3, TreeIsDoomed DEF items
<1>6. (\A x \in leaked : heap[x].ref) /\ strings = Owned(heap, items)
  BY <1>1 DEF Tended, Total, items
<1> QED BY <1>4, <1>5, <1>6 DEF EachHasOneOwner

LEMMA IInvNothingDangles == IInv => NothingDangles
<1> SUFFICES ASSUME IInv, NEW n \in items \ leaked
             PROVE  {heap[n].next, heap[n].prev, heap[n].child, heap[n].text} \subseteq items \cup {NULL}
  BY DEF NothingDangles
<1>1. PICK kids : Tended(heap, strings, roots, leaked, kids)
  BY DEF IInv
<1>2. {heap[n].next, heap[n].prev, heap[n].child, heap[n].text} \subseteq (DOMAIN heap \ leaked) \cup {NULL}
  <2>1. n \in DOMAIN heap \ leaked
    BY DEF items
  <2> QED BY <1>1, <2>1, LeadsTo
<1> QED BY <1>2 DEF items

\* Every item has a type, a name, a text and pointers as struct cJSON has them, and
\* what the embedder owns is allocated.
THEOREM TypeCorrect == Spec => []TypeOK
BY HeapStaysTended, IInvTypeOK, PTL

\* In every state an embedder reaches, every list is doubly linked with the prev of
\* its first item its last, no two lists share an item, and what the embedder owns
\* leads to no sibling: what cJSON_Delete and add_item_to_array rely on
\* (cJSON.c:253-277, 2012-2048).
THEOREM ListsStayLinked == Spec => []ListsAreLinked
BY HeapStaysTended, IInvLinked, PTL

\* Every item has one owner, from which it is freed, and the copied strings are
\* those of the items: nothing is lost or freed twice when an allocation fails
\* half way, but for references that could not be named (cJSON.c:2125-2133).
THEOREM OneOwnerEach == Spec => []EachHasOneOwner
BY HeapStaysTended, IInvOneOwner, PTL

\* No pointer of an item leads to a freed item or text, although references share
\* what they show, if nothing they show is freed (cJSON.c:253-277, 1991-2010).
THEOREM NoPointerDangles == Spec => []NothingDangles
BY HeapStaysTended, IInvNothingDangles, PTL
=============================================================================

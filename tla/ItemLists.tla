----------------------------- MODULE ItemLists ------------------------------
(***************************************************************************)
(* How cJSON links items (libs/json/cJSON.c): the children of an item are  *)
(* a list by next pointers; prev points back, from the first child to the  *)
(* last.  The functions that change such a list take a heap h of items and *)
(* give back another one.                                                  *)
(***************************************************************************)
EXTENDS Naturals, Sequences, FiniteSets

NULL == 0

(* The list that begins at the child of p, by next pointers; cut when it    *)
(* runs in a ring.                                                          *)
Children(h, p) ==
  LET from[k \in 0..Cardinality(DOMAIN h)] ==
        [n \in DOMAIN h \cup {NULL} |->
           IF n = NULL \/ k = 0 THEN << >> ELSE <<n>> \o from[k - 1][h[n].next]]
  IN from[Cardinality(DOMAIN h)][h[p].child]

get_array_item(h, array, index) ==
  LET c == Children(h, array) IN IF index < Len(c) THEN c[index + 1] ELSE NULL

suffix_object(h, prev, item) == [h EXCEPT ![prev].next = item, ![item].prev = prev]

(* A first child without a prev pointer makes this a success that adds nothing. *)
add_item_to_array(h, array, item) ==
  LET child == h[array].child IN
  IF array = item THEN h
  ELSE IF child = NULL
    THEN [h EXCEPT ![array].child = item, ![item].prev = item, ![item].next = NULL]
  ELSE IF h[child].prev = NULL THEN h
  ELSE [suffix_object(h, h[child].prev, item) EXCEPT ![child].prev = item]

(* The neighbours of item point past it. *)
DetachUnlinked(h, parent, item) ==
  LET h1 == IF item # h[parent].child THEN [h EXCEPT ![h[item].prev].next = h[item].next] ELSE h
  IN IF h1[item].next # NULL THEN [h1 EXCEPT ![h1[item].next].prev = h1[item].prev] ELSE h1

\* Mutant: the first item keeps its pointer to a detached last one.
DetachForgetsTail(h, parent, item) ==
  LET h2 == DetachUnlinked(h, parent, item)
      h3 == IF item = h2[parent].child THEN [h2 EXCEPT ![parent].child = h2[item].next] ELSE h2
  IN [h3 EXCEPT ![item].prev = NULL, ![item].next = NULL]

cJSON_DetachItemViaPointer(h, parent, item) ==
  LET h2 == DetachUnlinked(h, parent, item)
      h3 == IF item = h2[parent].child THEN [h2 EXCEPT ![parent].child = h2[item].next]
            ELSE IF h2[item].next = NULL THEN [h2 EXCEPT ![h2[parent].child].prev = h2[item].prev]
            ELSE h2
  IN [h3 EXCEPT ![item].prev = NULL, ![item].next = NULL]

cJSON_InsertItemInArray(h, array, which, newitem) ==
  LET after == get_array_item(h, array, which)
      h1 == [h EXCEPT ![newitem].next = after, ![newitem].prev = h[after].prev, ![after].prev = newitem]
  IN IF after = NULL THEN add_item_to_array(h, array, newitem)
     ELSE IF after = h[array].child THEN [h1 EXCEPT ![array].child = newitem]
     ELSE IF h[after].prev = NULL THEN h
     ELSE [h1 EXCEPT ![h1[newitem].prev].next = newitem]

(* The part of cJSON_ReplaceItemViaPointer before the old item is deleted. *)
PutInPlace(h, parent, item, replacement) ==
  LET h1 == [h EXCEPT ![replacement].next = h[item].next, ![replacement].prev = h[item].prev]
      h2 == IF h1[replacement].next # NULL
              THEN [h1 EXCEPT ![h1[replacement].next].prev = replacement] ELSE h1
      first == h2[parent].child
      h3 == IF first = item
              THEN [(IF h2[first].prev = first THEN [h2 EXCEPT ![replacement].prev = replacement] ELSE h2)
                      EXCEPT ![parent].child = replacement]
            ELSE LET h4 == IF h2[replacement].prev # NULL
                             THEN [h2 EXCEPT ![h2[replacement].prev].next = replacement] ELSE h2
                 IN IF h4[replacement].next = NULL THEN [h4 EXCEPT ![first].prev = replacement] ELSE h4
  IN [h3 EXCEPT ![item].next = NULL, ![item].prev = NULL]

-----------------------------------------------------------------------------
(* Proper lists *)

Pointers == {"next", "prev", "child"}

(* Items, whatever else they hold than pointers.  malloc never gives NULL. *)
Heap(h) ==
  /\ NULL \notin DOMAIN h /\ IsFiniteSet(DOMAIN h)
  /\ h = [x \in DOMAIN h |-> h[x]]
  /\ \A x \in DOMAIN h : h[x] = [f \in DOMAIN h[x] |-> h[x][f]] /\ Pointers \subseteq DOMAIN h[x]

(* The pointers of a heap, each kind a function of the items. *)
Nexts(h) == [x \in DOMAIN h |-> h[x].next]
Prevs(h) == [x \in DOMAIN h |-> h[x].prev]
Firsts(h) == [x \in DOMAIN h |-> h[x].child]

Members(c) == {c[i] : i \in 1..Len(c)}
Distinct(c) == \A i, j \in 1..Len(c) : c[i] = c[j] => i = j

NextOf(c, i) == IF i = Len(c) THEN NULL ELSE c[i + 1]
PrevOf(c, i) == IF i = 1 THEN c[Len(c)] ELSE c[i - 1]

Chain(next, prev, c) ==
  \A i \in 1..Len(c) : next[c[i]] = NextOf(c, i) /\ prev[c[i]] = PrevOf(c, i)

(* The children of p are linked as the sequence c (ListsAreLinked). *)
Linked(h, p, c) ==
  /\ c \in Seq(DOMAIN h) /\ Distinct(c)
  /\ Firsts(h)[p] = IF Len(c) = 0 THEN NULL ELSE c[1]
  /\ Chain(Nexts(h), Prevs(h), c)

(* No next pointer dangles (NothingDangles). *)
NextIsItem(h) == \A y \in DOMAIN h : Nexts(h)[y] \in DOMAIN h \cup {NULL}

(* The owners are the items that are no references: each has its own        *)
(* children, in its order (EachHasOneOwner).                                 *)
Forest(h, owners, kids) ==
  /\ Heap(h) /\ NextIsItem(h) /\ owners \subseteq DOMAIN h
  /\ kids \in [owners -> Seq(DOMAIN h)]
  /\ \A p \in owners : Linked(h, p, kids[p])
  /\ \A p, q \in owners : p # q => Members(kids[p]) \cap Members(kids[q]) = {}
=============================================================================

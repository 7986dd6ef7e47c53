-------------------------------- MODULE CJSON --------------------------------
(***************************************************************************)
(* The item trees of cJSON (libs/json/cJSON.c): items with next, prev and  *)
(* child pointers on a heap that may be exhausted, every function of the   *)
(* library that creates, links (ItemLists), copies or frees items, and an  *)
(* embedder that calls them as cJSON.h allows.                             *)
(*                                                                         *)
(* Numbers, strings and raw text are two kinds of leaves, "null" (without  *)
(* a valuestring) and "string"; the name of an item is a member of Key.    *)
(* cJSON_SetValuestring puts one copy in the place of another, which is no *)
(* step here: a text is known by the item it was copied for.               *)
(***************************************************************************)
EXTENDS ItemLists, SequencesExt

CONSTANTS MaxCount,        \* the longest array the embedder asks for at once
          Usage,           \* what embedders may work with, see use
          Lower(_),        \* a name in lower case
          CJSON_CIRCULAR_LIMIT

NoKey == "NoKey"
Key == UNION {u.keys : u \in Usage}
Leaf == {"null", "string"}
Container == {"array", "object"}

ASSUME UsageAssumption ==
  \A u \in Usage : u.room \in Nat /\ u.types \subseteq Leaf \cup Container /\ NoKey \notin u.keys

ASSUME LimitAssumption == MaxCount \in Nat /\ CJSON_CIRCULAR_LIMIT \in Nat

VARIABLES use,       \* what this embedder works with: the items its heap has room for,
                     \* the types and names it uses, whether it makes references
          heap,      \* a cJSON for every address that is allocated
          strings,   \* how many copies made by cJSON_strdup are allocated
          roots,     \* the items the embedder owns
          leaked     \* items nobody owns any more

vars == <<use, heap, strings, roots, leaked>>

Pointer == 0..use.room
Item == [type: Leaf \cup Container, ref: BOOLEAN, const: BOOLEAN, key: Key \cup {NoKey},
         text: Pointer, next: Pointer, prev: Pointer, child: Pointer]

(* The functions take and give back a heap h and the number s of strings. *)
Mem == [h |-> heap, s |-> strings]

TypeOK ==
  /\ use \in Usage /\ DOMAIN heap \subseteq 1..use.room
  /\ \A n \in DOMAIN heap : heap[n] \in Item
  /\ strings \in Nat
  /\ roots \subseteq DOMAIN heap /\ leaked \subseteq DOMAIN heap

Init == use \in Usage /\ heap = << >> /\ strings = 0 /\ roots = {} /\ leaked = {}

-----------------------------------------------------------------------------
(* Reading *)

(* Case-sensitive search also ends at a member without a name. *)
get_object_item(h, object, name, case_sensitive) ==
  LET c == Children(h, object)
      stops(n) == IF case_sensitive THEN h[n].key \in {name, NoKey}
                  ELSE h[n].key # NoKey /\ Lower(h[n].key) = Lower(name)
      i == SelectInSeq(c, stops)
  IN IF name = NoKey \/ i = 0 \/ h[c[i]].key = NoKey THEN NULL ELSE c[i]

-----------------------------------------------------------------------------
(* Allocating and freeing *)

Blank == [type |-> "null", ref |-> FALSE, const |-> FALSE, key |-> NoKey,
          text |-> NULL, next |-> NULL, prev |-> NULL, child |-> NULL]

Extend(h, n, item) == [a \in DOMAIN h \cup {n} |-> IF a = n THEN item ELSE h[a]]

(* The address of a new item, NULL when there is none; which free address *)
(* malloc takes makes no difference.                                       *)
cJSON_New_Item(m) ==
  LET free == (1..use.room) \ DOMAIN m.h
  IN IF free = {} THEN NULL ELSE CHOOSE a \in free : \A b \in free : a <= b

(* The smallest set that holds S and, with each of its members n, f[n].     *)
Closure(f, S) ==
  LET Closed == {T \in SUBSET DOMAIN f : S \subseteq T /\ \A n \in T : f[n] \subseteq T}
  IN {n \in DOMAIN f : \A T \in Closed : n \in T}

\* Mutant: what a reference shows is freed with it.
DoomedThroughReferences(h, S) == Closure([n \in DOMAIN h |-> {h[n].next, h[n].child} \ {NULL}], S)

(* What cJSON_Delete visits after an item: what follows it, and what is below *)
(* it unless a reference shows it.                                            *)
Visited(item) == ({item.next} \cup IF item.ref THEN {} ELSE {item.child}) \ {NULL}

Doomed(h, S) == Closure([n \in DOMAIN h |-> Visited(h[n])], S)

OwnsText(item) == item.text # NULL /\ ~item.ref
OwnsKey(item) == item.key # NoKey /\ ~item.const
Owned(h, S) == Cardinality({n \in S : OwnsText(h[n])}) + Cardinality({n \in S : OwnsKey(h[n])})
Copied(item) == (IF OwnsText(item) THEN 1 ELSE 0) + (IF OwnsKey(item) THEN 1 ELSE 0)

(* item, what is below it and what follows it. *)
cJSON_Delete(m, item) ==
  IF item = NULL THEN m ELSE
  LET D == Doomed(m.h, {item})
  IN [h |-> [a \in DOMAIN m.h \ D |-> m.h[a]], s |-> m.s - Owned(m.h, D)]

(* Making a tree gives the memory and its root, NULL after a failure. *)
Nothing(m) == [m |-> m, item |-> NULL]

(* cJSON_CreateNull and its relatives: strdup is whether a copy of the text *)
(* can be had.                                                               *)
CreateItem(m, type, strdup) ==
  LET n == cJSON_New_Item(m)
      text == IF type = "string" THEN n ELSE NULL
  IN IF n = NULL \/ (type = "string" /\ ~strdup) THEN Nothing(m)
     ELSE [m |-> [h |-> Extend(m.h, n, [Blank EXCEPT !.type = type, !.text = text]),
                  s |-> m.s + IF type = "string" THEN 1 ELSE 0],
           item |-> n]

-----------------------------------------------------------------------------
(* Linking and unlinking *)

\* Mutant: the old name is not freed.
RenameForgetsOld(m, item, name, constant_key) ==
  [h |-> [m.h EXCEPT ![item].key = name, ![item].const = constant_key],
   s |-> m.s + (IF constant_key THEN 0 ELSE 1)]

(* The name of item becomes name: the old one is freed if it was a copy. *)
Rename(m, item, name, constant_key) ==
  [h |-> [m.h EXCEPT ![item].key = name, ![item].const = constant_key],
   s |-> m.s + (IF constant_key THEN 0 ELSE 1) - (IF OwnsKey(m.h[item]) THEN 1 ELSE 0)]

(* strdup is whether a copy of the name can be had; it comes before all else. *)
add_item_to_object(m, object, name, item, constant_key, strdup) ==
  IF item = NULL \/ (~constant_key /\ ~strdup) THEN [m |-> m, ok |-> FALSE]
  ELSE LET r == Rename(m, item, name, constant_key)
       IN [m |-> [r EXCEPT !.h = add_item_to_array(@, object, item)], ok |-> TRUE]

create_reference(m, item) ==
  LET n == cJSON_New_Item(m) IN
  IF n = NULL THEN Nothing(m)
  ELSE [m |-> [m EXCEPT !.h = Extend(@, n, [m.h[item] EXCEPT !.key = NoKey, !.ref = TRUE,
                                                             !.next = NULL, !.prev = NULL])],
        item |-> n]

\* Mutant: the old item is not deleted.
ReplaceKeepsOld(m, parent, item, replacement) ==
  IF item = NULL \/ m.h[parent].child = NULL THEN [m |-> m, ok |-> FALSE]
  ELSE [m |-> [m EXCEPT !.h = PutInPlace(@, parent, item, replacement)], ok |-> TRUE]

cJSON_ReplaceItemViaPointer(m, parent, item, replacement) ==
  IF item = NULL \/ m.h[parent].child = NULL THEN [m |-> m, ok |-> FALSE]
  ELSE [m |-> cJSON_Delete([m EXCEPT !.h = PutInPlace(@, parent, item, replacement)], item), ok |-> TRUE]

(* A list is under way: so far last is the last child of a new item.         *)
UnderWay(m) == [m |-> m, last |-> NULL, ok |-> TRUE]

Hang(h, parent, last, item) ==
  IF last = NULL THEN [h EXCEPT ![parent].child = item] ELSE suffix_object(h, last, item)

(* r is what making the next child gave. *)
Longer(list, parent, r) ==
  IF ~list.ok THEN list
  ELSE IF r.item = NULL THEN [m |-> r.m, last |-> list.last, ok |-> FALSE]
  ELSE [m |-> [r.m EXCEPT !.h = Hang(@, parent, list.last, r.item)], last |-> r.item, ok |-> TRUE]

(* The first child gets its prev pointer when all are there. *)
Finish(h, parent, last) == IF last = NULL THEN h ELSE [h EXCEPT ![h[parent].child].prev = last]

Finished(list, parent) ==
  IF list.ok THEN [m |-> [list.m EXCEPT !.h = Finish(@, parent, list.last)], item |-> parent]
  ELSE Nothing(cJSON_Delete(list.m, parent))

(* count leaves in a new array; the text of the one called broken cannot be *)
(* copied.                                                                   *)
CreateArrayOf(m, count, type, broken) ==
  LET a == CreateItem(m, "array", TRUE)
      list[i \in 0..count] ==
        IF i = 0 THEN UnderWay(a.m)
        ELSE Longer(list[i - 1], a.item, CreateItem(list[i - 1].m, type, i # broken))
  IN IF a.item = NULL THEN a ELSE Finished(list[count], a.item)

CopyBy(copies, m, item) == copies[DOMAIN m.h][m][item]

(* A copy of item with copies of children, which a level deeper are made by *)
(* deeper; left: the levels that may still be entered.  The strings of the   *)
(* item called broken cannot be copied.                                      *)
CopyOf(m, item, children, left, deeper, broken) ==
  LET n == cJSON_New_Item(m)
      old == m.h[item]
      new == [Blank EXCEPT !.type = old.type, !.const = old.const, !.key = old.key,
                           !.text = IF old.type = "string" THEN n ELSE NULL]
      m0 == [h |-> Extend(m.h, n, new), s |-> m.s + Copied(new)]
      list[i \in 0..Len(children)] ==
        IF i = 0 THEN UnderWay(m0)
        ELSE IF left = 0 THEN [list[i - 1] EXCEPT !.ok = FALSE]
        ELSE Longer(list[i - 1], n, CopyBy(deeper, list[i - 1].m, children[i]))
  IN IF n = NULL \/ (broken = item /\ Copied(new) > 0) THEN Nothing(m)
     ELSE Finished(list[Len(children)], n)

(* A copy of every item with all it shows, in every memory where the items   *)
(* are at the addresses D.                                                    *)
CopiesAt(left, deeper, broken) ==
  [D \in SUBSET (1..use.room) |->
     [m \in [h : [D -> Item], s : Nat] |->
        [item \in D |-> CopyOf(m, item, Children(m.h, item), left, deeper, broken)]]]

Copies(broken) ==
  LET copy[left \in 0..CJSON_CIRCULAR_LIMIT] ==
        CopiesAt(left, IF left = 0 THEN << >> ELSE copy[left - 1], broken)
  IN copy[CJSON_CIRCULAR_LIMIT]

\* Mutant: children and strings are shared with the original.
DuplicateShares(m, item, recurse, broken) ==
  LET n == cJSON_New_Item(m) IN
  IF n = NULL THEN Nothing(m)
  ELSE [m |-> [m EXCEPT !.h = Extend(@, n, [m.h[item] EXCEPT !.next = NULL, !.prev = NULL])], item |-> n]

Duplicate_rec(m, item, recurse, broken) ==
  IF recurse THEN CopyBy(Copies(broken), m, item) ELSE CopyOf(m, item, << >>, 0, << >>, broken)

-----------------------------------------------------------------------------
(* The embedder.  It owns roots; it gives away only what it owns, makes no  *)
(* ring, and neither frees nor rearranges what a reference shows.           *)

items == DOMAIN heap

Below(h, S) == Closure([n \in DOMAIN h \ leaked |-> ToSet(Children(h, n))], S)

References == {r \in items \ leaked : heap[r].ref}

MayFree(D) == \A r \in References \ D : heap[r].child \notin D /\ heap[r].text \notin D

MayChange(p) ==
  /\ heap[p].type \in Container /\ ~heap[p].ref /\ p \notin leaked
  /\ \A r \in References : heap[r].child \notin ToSet(Children(heap, p))

MayAdd(p, x) == p \notin Below(heap, {x})

Store(m) == use' = use /\ heap' = m.h /\ strings' = m.s

Create ==
  \E type \in use.types, strdup \in BOOLEAN :
    LET r == CreateItem(Mem, type, strdup) IN
    /\ Store(r.m)
    /\ roots' = roots \cup ({r.item} \ {NULL})
    /\ leaked' = leaked

CreateArray ==
  \E count \in 0..MaxCount, type \in use.types \cap Leaf :
  \E broken \in IF type = "string" THEN 0..count ELSE {0} :
    LET r == CreateArrayOf(Mem, count, type, broken) IN
    /\ "array" \in use.types
    /\ Store(r.m)
    /\ roots' = roots \cup ({r.item} \ {NULL})
    /\ leaked' = leaked

(* cJSON_CreateStringReference, CreateObjectReference, CreateArrayReference: *)
(* a string of the embedder's, or the children of an item.                   *)
CreateReference ==
  LET n == cJSON_New_Item(Mem)
      add(item) == Store([Mem EXCEPT !.h = Extend(@, n, [item EXCEPT !.ref = TRUE])])
  IN /\ use.refs /\ n # NULL
     /\ \/ add([Blank EXCEPT !.type = "string"])
        \/ \E p \in items \ leaked, type \in Container :
             heap[p].child # NULL /\ add([Blank EXCEPT !.type = type, !.child = heap[p].child])
     /\ roots' = roots \cup {n}
     /\ leaked' = leaked

AddItemToArray ==
  \E p \in items, x \in roots :
    /\ MayChange(p) /\ MayAdd(p, x)
    /\ heap' = add_item_to_array(heap, p, x)
    /\ roots' = roots \ {x}
    /\ UNCHANGED <<use, strings, leaked>>

AddItemToObject ==
  \E p \in items, x \in roots :
    /\ MayChange(p) /\ MayAdd(p, x)
    /\ \E name \in use.keys, strdup \in BOOLEAN :
         LET r == add_item_to_object(Mem, p, name, x, name \in use.literals, strdup) IN
         /\ Store(r.m)
         /\ roots' = IF r.ok THEN roots \ {x} ELSE roots
    /\ leaked' = leaked

AddItemReferenceToArray ==
  \E p, x \in items \ leaked :
    LET r == create_reference(Mem, x) IN
    /\ use.refs /\ MayChange(p) /\ MayAdd(p, x) /\ r.item # NULL
    /\ Store([r.m EXCEPT !.h = add_item_to_array(@, p, r.item)])
    /\ UNCHANGED <<roots, leaked>>

(* A name that cannot be copied leaves the reference to nobody. *)
AddItemReferenceToObject ==
  \E p, x \in items \ leaked, name \in use.keys, strdup \in BOOLEAN :
    LET ref == create_reference(Mem, x)
        r == add_item_to_object(ref.m, p, name, ref.item, FALSE, strdup) IN
    /\ use.refs /\ MayChange(p) /\ MayAdd(p, x)
    /\ Store(r.m)
    /\ leaked' = IF r.ok THEN leaked ELSE leaked \cup ({ref.item} \ {NULL})
    /\ roots' = roots

(* cJSON_AddNullToObject and its relatives. *)
AddNewToObject ==
  \E p \in items, type \in Leaf \cup Container, name \in use.keys, strdup, strdup2 \in BOOLEAN :
    LET new == CreateItem(Mem, type, strdup)
        r == add_item_to_object(new.m, p, name, new.item, FALSE, strdup2) IN
    /\ MayChange(p)
    /\ Store(IF r.ok THEN r.m ELSE cJSON_Delete(r.m, new.item))
    /\ UNCHANGED <<roots, leaked>>

(* A child of p by its place or by its name, NULL when there is none. *)
Picked(p) ==
  {get_array_item(heap, p, i) : i \in 0..MaxCount}
  \cup {get_object_item(heap, p, name, case) : name \in use.keys, case \in BOOLEAN}

Detach ==
  \E p \in items : \E x \in Picked(p) \ {NULL} :
    /\ MayChange(p)
    /\ heap' = cJSON_DetachItemViaPointer(heap, p, x)
    /\ roots' = roots \cup {x}
    /\ UNCHANGED <<use, strings, leaked>>

DeleteItem ==
  \E p \in items : \E x \in Picked(p) \ {NULL} :
    LET m == [Mem EXCEPT !.h = cJSON_DetachItemViaPointer(@, p, x)] IN
    /\ MayChange(p) /\ MayFree(Doomed(m.h, {x}))
    /\ Store(cJSON_Delete(m, x))
    /\ UNCHANGED <<roots, leaked>>

InsertItemInArray ==
  \E p \in items, x \in roots :
    /\ MayChange(p) /\ MayAdd(p, x)
    /\ \E which \in 0..MaxCount : heap' = cJSON_InsertItemInArray(heap, p, which, x)
    /\ roots' = roots \ {x}
    /\ UNCHANGED <<use, strings, leaked>>

ReplaceItemInArray ==
  \E p \in items, x \in roots :
    /\ MayChange(p) /\ MayAdd(p, x)
    /\ \E which \in 0..MaxCount :
         LET old == get_array_item(heap, p, which)
             r == cJSON_ReplaceItemViaPointer(Mem, p, old, x) IN
         /\ old # NULL => MayFree(Doomed(PutInPlace(heap, p, old, x), {old}))
         /\ Store(r.m)
         /\ roots' = IF r.ok THEN roots \ {x} ELSE roots
    /\ leaked' = leaked

(* The replacement has the new name, or none, even when nothing is replaced. *)
ReplaceItemInObject ==
  \E p \in items, x \in roots :
    /\ MayChange(p) /\ MayAdd(p, x)
    /\ \E name \in use.keys, case, strdup \in BOOLEAN :
         LET unnamed == [h |-> [heap EXCEPT ![x].key = NoKey],
                         s |-> strings - IF OwnsKey(heap[x]) THEN 1 ELSE 0]
             renamed == Rename(Mem, x, name, FALSE)
             old == get_object_item(renamed.h, p, name, case)
             r == IF strdup THEN cJSON_ReplaceItemViaPointer(renamed, p, old, x)
                  ELSE [m |-> unnamed, ok |-> FALSE] IN
         /\ old # NULL => MayFree(Doomed(PutInPlace(renamed.h, p, old, x), {old}))
         /\ Store(r.m)
         /\ roots' = IF r.ok THEN roots \ {x} ELSE roots
    /\ leaked' = leaked

Duplicate ==
  \E x \in items \ leaked, recurse \in BOOLEAN :
  \E broken \in {n \in items : OwnsText(heap[n]) \/ OwnsKey(heap[n])} \cup {NULL} :
    LET r == Duplicate_rec(Mem, x, recurse, broken) IN
    /\ Store(r.m)
    /\ roots' = roots \cup ({r.item} \ {NULL})
    /\ leaked' = leaked

Delete ==
  \E x \in roots :
    /\ MayFree(Doomed(heap, {x}))
    /\ Store(cJSON_Delete(Mem, x))
    /\ roots' = roots \ {x}
    /\ leaked' = leaked

Next ==
  \/ Create \/ CreateArray \/ CreateReference
  \/ AddItemToArray \/ AddItemToObject \/ AddItemReferenceToArray \/ AddItemReferenceToObject
  \/ AddNewToObject \/ Detach \/ DeleteItem \/ InsertItemInArray
  \/ ReplaceItemInArray \/ ReplaceItemInObject \/ Duplicate \/ Delete

Spec == Init /\ [][Next]_vars

-----------------------------------------------------------------------------
(* Properties *)

Lists == {p \in items : ~heap[p].ref /\ heap[p].child # NULL}

(* Every list is doubly linked, and the prev of its first item is its last: *)
(* what add_item_to_array and cJSON_DetachItemViaPointer rely on, and what   *)
(* the theorems of ItemListProofs suppose and preserve.  An item             *)
(* the embedder owns points at no sibling: cJSON_Delete would free it, too,  *)
(* and add_item_to_array would bring it along.                               *)
ListsAreLinked ==
  /\ TypeOK
  /\ LET owners == {p \in items : ~heap[p].ref}
     IN Forest(heap, owners, [p \in owners |-> Children(heap, p)])
  /\ \A x \in roots : heap[x].next = NULL /\ heap[x].prev = NULL

(* Every item has one owner: the embedder, one list, or nobody, and then it *)
(* is a reference that AddItemReferenceToObject could not name.  A name or  *)
(* text copied by the library belongs to one item, with which it is freed   *)
(* unless it is replaced (cJSON.c:253-277, 2067-2102, 2412-2443).            *)
EachHasOneOwner ==
  /\ \A x \in items :
       Cardinality({p \in Lists : x \in ToSet(Children(heap, p))})
         = IF x \in roots \cup leaked THEN 0 ELSE 1
  /\ \A x \in leaked : heap[x].ref
  /\ Doomed(heap, roots \cup leaked) = items
  /\ strings = Owned(heap, items)

(* No pointer leads to a freed item, nor to the text of one: items are shared *)
(* by references (cJSON.c:253-277, 1991-2010).                               *)
NothingDangles ==
  \A n \in items \ leaked :
    {heap[n].next, heap[n].prev, heap[n].child, heap[n].text} \subseteq items \cup {NULL}
=============================================================================

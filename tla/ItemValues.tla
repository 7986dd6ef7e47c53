----------------------------- MODULE ItemValues -----------------------------
(***************************************************************************)
(* What the items of CJSON say: how cJSON_Compare compares them, what a    *)
(* copy says, and how the pointers implement ItemTree.                     *)
(***************************************************************************)
EXTENDS CJSON

\* Mutant: members of b that a lacks go unnoticed.
RECURSIVE CompareOneWay(_, _, _, _)
CompareOneWay(h, a, b, case_sensitive) ==
  LET A == Children(h, a)
      B == Children(h, b)
      same(x, y) == CompareOneWay(h, x, y, case_sensitive)
      found(x, p) == get_object_item(h, p, h[x].key, case_sensitive)
  IN /\ h[a].type = h[b].type
     /\ \/ h[a].type \in Leaf
        \/ h[a].type = "array" /\ Len(A) = Len(B) /\ \A i \in DOMAIN A : same(A[i], B[i])
        \/ h[a].type = "object" /\ \A i \in DOMAIN A : found(A[i], b) # NULL /\ same(A[i], found(A[i], b))

RECURSIVE cJSON_Compare(_, _, _, _)
cJSON_Compare(h, a, b, case_sensitive) ==
  LET A == Children(h, a)
      B == Children(h, b)
      same(x, y) == cJSON_Compare(h, x, y, case_sensitive)
      found(x, p) == get_object_item(h, p, h[x].key, case_sensitive)
  IN /\ h[a].type = h[b].type
     /\ \/ a = b
        \/ h[a].type \in Leaf
        \/ /\ h[a].type = "array"
           /\ Len(A) = Len(B)
           /\ \A i \in DOMAIN A : same(A[i], B[i])
        \/ /\ h[a].type = "object"
           /\ \A i \in DOMAIN A : found(A[i], b) # NULL /\ same(A[i], found(A[i], b))
           /\ \A i \in DOMAIN B : found(B[i], a) # NULL /\ same(B[i], found(B[i], a))

-----------------------------------------------------------------------------
(* Properties *)

(* What an item says, without pointers. *)
RECURSIVE Value(_, _)
Value(h, n) ==
  LET c == Children(h, n) IN
  [type |-> h[n].type,
   members |-> IF h[n].type = "object" THEN {<<h[c[i]].key, Value(h, c[i])>> : i \in DOMAIN c} ELSE {},
   elements |-> IF h[n].type = "array" THEN [i \in DOMAIN c |-> Value(h, c[i])] ELSE << >>]

(* Every object below n has members with different names. *)
ProperlyNamed(n) ==
  \A p \in {k \in Below(heap, {n}) : heap[k].type = "object"} :
    LET c == Children(heap, p) IN
    /\ \A i \in DOMAIN c : heap[c[i]].key # NoKey
    /\ \A i, j \in DOMAIN c : i # j => heap[c[i]].key # heap[c[j]].key

(* cJSON_Compare says equal exactly of items that say the same               *)
(* (cJSON.c:3057-3182).                                                      *)
CompareIsEquality ==
  \A a, b \in {n \in items \ leaked : ProperlyNamed(n)} :
    cJSON_Compare(heap, a, b, TRUE) <=> Value(heap, a) = Value(heap, b)

(* A copy says what the original says, and shares no item with anything,    *)
(* also when the original is a reference (cJSON.c:2769-2858).                *)
CopyIsFaithful ==
  \A x \in items \ leaked :
    LET r == Duplicate_rec(Mem, x, TRUE, NULL) IN
    r.item # NULL =>
      /\ Value(r.m.h, r.item) = Value(heap, x)
      /\ Doomed(r.m.h, {r.item}) = Below(r.m.h, {r.item})
      /\ Doomed(r.m.h, {r.item}) \cap items = {}

\* The pointers implement sequences of children.
Tree == INSTANCE ItemTree WITH
  kids <- [n \in items |-> Children(heap, n)],
  shared <- {n \in items : heap[n].ref}

(* Whatever the pointers, each call does to the sequences of children what   *)
(* ItemTree allows, and fails by changing nothing else (cJSON.c:241-2858).   *)
ImplementsItemTree == [][Tree!Next]_(Tree!vars)
=============================================================================

------------------------------ MODULE ItemTree ------------------------------
(***************************************************************************)
(* What cJSON.h promises of the functions that build and change a tree of *)
(* items: an abstract specification.  An item has a sequence of children;  *)
(* there are no pointers.  A reference shows the children of another item  *)
(* and owns none.                                                          *)
(***************************************************************************)
EXTENDS Naturals, Sequences, SequencesExt

VARIABLES kids,     \* for every item, its children in order
          shared    \* the items that are references

vars == <<kids, shared>>
items == DOMAIN kids

Owned(K, R, S) == S \cup UNION {ToSet(K[n]) : n \in S \cap (DOMAIN K \ R)}

RECURSIVE Below(_, _, _)
Below(K, R, S) == IF Owned(K, R, S) = S THEN S ELSE Below(K, R, Owned(K, R, S))

(* The items that go when x is deleted. *)
Subtree(x) == Below(kids, shared, {x})

Free(x) == \A p \in items \ shared : x \notin ToSet(kids[p])

Without(D) == [n \in items \ D |-> kids[n]]

Init == kids = << >> /\ shared = {}

(* New items that form one tree, beside what there was. *)
Make(x) ==
  /\ x \notin items
  /\ \A n \in items : n \in DOMAIN kids' /\ kids'[n] = kids[n]
  /\ shared' \cap items = shared
  /\ DOMAIN kids' = items \cup Below(kids', shared', {x})

(* An item that is nobody's child becomes the child of p at place i. *)
InsertChild(p, i, x) ==
  /\ kids' = [kids EXCEPT ![p] = InsertAt(@, i, x)]
  /\ shared' = shared
  /\ Free(x) /\ p \notin Subtree(x)

(* A new item, alone or a view of another one's children, is made and       *)
(* becomes the last child of p.                                             *)
MakeLast(p, x) ==
  /\ x \notin items
  /\ DOMAIN kids' = items \cup {x}
  /\ kids'[p] = Append(kids[p], x)
  /\ \A n \in items \ {p} : kids'[n] = kids[n]
  /\ shared' \in {shared, shared \cup {x}}
  /\ x \notin shared' => kids'[x] = << >>

RemoveChild(p, i) ==
  /\ i <= Len(kids[p])
  /\ kids' = [kids EXCEPT ![p] = RemoveAt(@, i)]
  /\ shared' = shared

(* Child i of p is deleted with all that is below it, and new are the       *)
(* children of p after that.                                                *)
DropFor(p, i, new) ==
  LET D == Subtree(kids[p][i]) IN
  /\ i <= Len(kids[p])
  /\ kids'[p] = new
  /\ kids' = [Without(D) EXCEPT ![p] = new]
  /\ shared' = shared \ D

DropChild(p, i) == DropFor(p, i, RemoveAt(kids[p], i))

ReplaceChild(p, i, x) ==
  /\ DropFor(p, i, ReplaceAt(kids[p], i, x))
  /\ Free(x) /\ p \notin Subtree(x)

DropTree(x) ==
  /\ x \notin DOMAIN kids'
  /\ kids' = Without(Subtree(x))
  /\ shared' = shared \ Subtree(x)
  /\ Free(x)

Made == DOMAIN kids' \ items
Gone == items \ DOMAIN kids'
Changed == {p \in items \ (shared \cup Gone) : kids'[p] # kids[p]}
Added(p) == (ToSet(kids'[p]) \ ToSet(kids[p])) \cap items

Next ==
  \/ \E x \in Made : Make(x) \/ (\E p \in Changed : MakeLast(p, x))
  \/ \E p \in Changed : \E i \in 1..(Len(kids[p]) + 1) :
       \/ RemoveChild(p, i) \/ DropChild(p, i)
       \/ \E x \in Added(p) : InsertChild(p, i, x) \/ ReplaceChild(p, i, x)
  \/ \E x \in Gone : DropTree(x)

Spec == Init /\ [][Next]_vars
=============================================================================

------------------------------ MODULE MCCJSON ------------------------------
(* Five embedders; their names may differ in case only. *)
EXTENDS ItemValues

Embedder(room, types, keys, literals, refs) ==
  [room |-> room, types |-> types, keys |-> keys, literals |-> literals, refs |-> refs]

Embedders == {
  Embedder(5, {"array"}, {}, {}, FALSE),
  Embedder(4, {"null", "array"}, {}, {}, FALSE),
  Embedder(3, {"string", "object"}, {"a", "A"}, {}, FALSE),
  Embedder(2, {"string", "object"}, {"a", "A"}, {"A"}, FALSE),
  Embedder(3, {"string", "object"}, {"a"}, {}, TRUE)}

LowerCase(k) == IF k = "A" THEN "a" ELSE k
=============================================================================

----------------------------- MODULE MCContext ------------------------------
(* Context with few descriptors and one pattern besides "*".               *)
EXTENDS Context

Fds == 1..3
Paths == {"/a"}
=============================================================================

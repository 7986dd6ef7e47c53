---------------------------- MODULE MCEventLoop -----------------------------
(* Small instances of EventLoop for TLC. *)
EXTENDS EventLoop, TLC

\* Connection blocks are interchangeable.
Symmetry == Permutations(Conn)
=============================================================================

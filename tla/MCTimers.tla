------------------------------ MODULE MCTimers ------------------------------
(* Values for TLC. *)
EXTENDS Timers

NeverSet == {0}
SetForward == {0, 1}
NowOrLater == {0, 2}
OnceOrAgain == {-1, 1}
=============================================================================

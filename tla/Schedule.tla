------------------------------ MODULE Schedule ------------------------------
(***************************************************************************)
(* What the timer API promises (http.h: http_set_timer, http_cancel_timer):*)
(* a set of pending timers from which the one that is due first is taken;  *)
(* its callback runs alone, and afterwards a periodic timer is pending     *)
(* again and any other is gone.                                            *)
(***************************************************************************)
EXTENDS Integers

VARIABLES
  pending,  \* the timers waiting, records [id, due, interval]
  firing    \* the timer whose callback runs, as a set of at most one

vars == <<pending, firing>>

Init == pending = {} /\ firing = {}

\* A new timer; its id is not in use.
Arm(t) ==
  /\ \A u \in pending \cup firing : u.id # t.id
  /\ pending' = pending \cup {t} /\ UNCHANGED firing

Cancel(t) == pending' = pending \ {t} /\ UNCHANGED firing

Fire(t) ==
  /\ firing = {} /\ \A u \in pending : t.due <= u.due
  /\ pending' = pending \ {t} /\ firing' = {t}

\* The callback of t returns.
Gone(t) == t.interval = 0 /\ firing' = {} /\ UNCHANGED pending
Again(t) ==
  /\ t.interval > 0 /\ firing' = {}
  /\ \E u \in pending' : u.id = t.id /\ u.interval = t.interval /\ pending' = pending \cup {u}

\* The context is freed.
Drop == firing = {} /\ pending' = {} /\ UNCHANGED firing

Next ==
  \/ \E t \in pending' : Arm(t)
  \/ \E t \in pending : Cancel(t) \/ Fire(t)
  \/ \E t \in firing : Gone(t) \/ Again(t)
  \/ Drop

Spec == Init /\ [][Next]_vars
=============================================================================

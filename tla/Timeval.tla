------------------------------ MODULE Timeval -------------------------------
(***************************************************************************)
(* How libs/http computes with struct timeval: the due time of a timer,    *)
(* the comparison of two times, and the timeout given to poll.  Module     *)
(* Timers counts in milliseconds instead; the properties below justify it. *)
(***************************************************************************)
EXTENDS Integers

CONSTANT IntMax   \* INT_MAX

ASSUME IntAssumption == IntMax \in Nat \ {0}

\* The values of an int, and what one gets of a long: the low bits.
Ints == -(IntMax + 1)..IntMax
ToInt(x) ==
  LET r == x % (2 * (IntMax + 1)) IN IF r <= IntMax THEN r ELSE r - 2 * (IntMax + 1)

Million == 1000 * 1000

\* struct timeval as gettimeofday fills it in.
timeval == [tv_sec : Nat, tv_usec : {u \in Nat : u < Million}]

\* The time it stands for, in microseconds.
Micros(t) == Million * t.tv_sec + t.tv_usec

-----------------------------------------------------------------------------
\* C's division truncates towards zero.
Quotient(a, b) == IF a >= 0 THEN a \div b ELSE -((-a) \div b)
Remainder(a, b) == a - b * Quotient(a, b)

\* Mutant: no carry into the seconds.
LaterWithoutCarry(t, ms) ==
  [tv_sec |-> t.tv_sec + Quotient(ms, 1000),
   tv_usec |-> t.tv_usec + Remainder(ms, 1000) * 1000]

\* t, ms milliseconds later (http_set_timer, timers_check).
Later(t, ms) ==
  LET sec == t.tv_sec + Quotient(ms, 1000)
      usec == t.tv_usec + Remainder(ms, 1000) * 1000
  IN IF usec >= Million THEN [tv_sec |-> sec + 1, tv_usec |-> usec - Million]
     ELSE [tv_sec |-> sec, tv_usec |-> usec]

\* timercmp(a, b, <): the seconds decide unless they are equal.
Before(a, b) ==
  IF a.tv_sec = b.tv_sec THEN a.tv_usec < b.tv_usec ELSE a.tv_sec < b.tv_sec

\* compute_poll_timeout, with a timer due at that time: a long, cast to int.
Timeout(due, now) ==
  LET ms == (due.tv_sec - now.tv_sec) * 1000 + Quotient(due.tv_usec - now.tv_usec, 1000)
  IN IF ms < 0 THEN 0 ELSE ToInt(ms)

-----------------------------------------------------------------------------
(* Properties of the functions *)

\* For a delay that is not negative Later gives a time gettimeofday could have
\* given, exactly the delay after t (http_support.c:215-225).
LaterIsExact(t, ms) ==
  Later(t, ms) \in timeval /\ Micros(Later(t, ms)) = Micros(t) + 1000 * ms

\* timercmp compares the times, when both are as gettimeofday gives them.
BeforeIsByTime(a, b) == Before(a, b) <=> Micros(a) < Micros(b)

\* A timer that is due in at most IntMax milliseconds, as every timer is whose
\* delay is an int while the clock is not set back behind the time it was set.
InReach(due, now) == Micros(due) - Micros(now) <= 1000 * IntMax

\* For a timer in reach compute_poll_timeout is not negative (poll would wait for
\* ever), is zero when it is overdue, and is less than a millisecond off otherwise:
\* poll neither sleeps through a timer nor wakes up long before it.  (Of a time
\* further ahead the cast to int leaves anything.)
TimeoutIsClose(due, now) ==
  /\ InReach(due, now) => Timeout(due, now) \in Nat
  /\ Micros(due) <= Micros(now) => Timeout(due, now) = 0
  /\ InReach(due, now) /\ Micros(due) > Micros(now) =>
       /\ 1000 * Timeout(due, now) < Micros(due) - Micros(now) + 1000
       /\ 1000 * Timeout(due, now) > Micros(due) - Micros(now) - 1000

=============================================================================

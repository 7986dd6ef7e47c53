------------------------------- MODULE Timers -------------------------------
(***************************************************************************)
(* The timers of libs/http: the list ctx->timers, sorted by due time, with *)
(* http_set_timer, http_cancel_timer, http_set_metrics_callback,           *)
(* timers_check and compute_poll_timeout, inside the loop of http_run.     *)
(*                                                                         *)
(* Time is counted in milliseconds (how struct timeval is computed with is *)
(* module Timeval).  The code reads the wall clock, which may be set while *)
(* the server runs; poll sleeps by a clock that is not.                    *)
(***************************************************************************)
EXTENDS Timeval, Sequences, SequencesExt

CONSTANTS
  Delays,     \* delays http_set_timer is called with
  Intervals,  \* intervals it is called with
  Default,    \* the default poll timeout of http_run
  Offsets,    \* wall clock minus real time: the values it may be set to
  MaxTimers,  \* bound: timers ever set
  MaxTime     \* bound: real time

ASSUME TimesAssumption ==
  /\ Delays \subseteq 0..IntMax /\ Intervals \subseteq Ints /\ Default \in 0..IntMax
  /\ Offsets \subseteq Nat /\ 0 \in Offsets
  /\ MaxTimers \in Nat /\ MaxTime \in Nat

VARIABLES
  pc,             \* where http_run is: see TypeOK
  timers,         \* ctx->timers
  next_timer_id,  \* ctx->next_timer_id
  running,        \* timers_check's timer, while its callback runs
  now,            \* timers_check's now, while it is of use (0 otherwise)
  wait,           \* what is left of poll's timeout, -1 if it has none
  metrics,        \* config.metrics_interval_ms, 0 with no callback
  real, offset,   \* real time; what the wall clock differs from it
  cancelled       \* history: cancelled outside their own callback

clock == real + offset

vars == <<pc, timers, next_timer_id, running, now, wait, metrics, real, offset, cancelled>>
env == <<real, offset>>

\* struct http_timer.  ready (history) is the real time before which the
\* callback must not run.
http_timer == [id : Nat \ {0}, due : Nat, interval : 0..IntMax, cb : {"user", "metrics"}, ready : Nat]

Init ==
  /\ pc = "idle" /\ timers = <<>> /\ next_timer_id = 1
  /\ running = <<>> /\ now = 0 /\ wait = 0 /\ metrics = 0
  /\ real = 0 /\ offset = 0 /\ cancelled = {}

-----------------------------------------------------------------------------
(* The list *)

\* How many timers timers_add leaves in front of t: none if t is due before the
\* head, otherwise the head and those behind it that are due before t.
Places(t) ==
  IF timers = <<>> \/ t.due < timers[1].due THEN {0}
  ELSE {k \in 1..Len(timers) :
          /\ \A j \in 2..k : timers[j].due < t.due
          /\ k < Len(timers) => t.due <= timers[k + 1].due}

timers_add(t) == \E k \in Places(t) : timers' = InsertAt(timers, k + 1, t)

\* Mutant: the timer behind the one that was found goes, too.
RemoveCutsList(id) ==
  IF \E i \in 1..Len(timers) : timers[i].id = id
  THEN \E i \in 1..Len(timers) : timers[i].id = id /\ timers' = SubSeq(timers, 1, i - 1)
  ELSE UNCHANGED timers
\* Mutant: the head is not looked at.
RemoveSkipsHead(id) ==
  IF \E i \in 2..Len(timers) : timers[i].id = id
  THEN \E i \in 2..Len(timers) : timers[i].id = id /\ timers' = RemoveAt(timers, i)
  ELSE UNCHANGED timers

\* The first timer with this id is unlinked and freed, if there is one.
timers_remove(id) ==
  IF \E i \in 1..Len(timers) : timers[i].id = id
  THEN \E i \in 1..Len(timers) :
         /\ timers[i].id = id /\ \A j \in 1..(i - 1) : timers[j].id # id
         /\ timers' = RemoveAt(timers, i)
  ELSE UNCHANGED timers

-----------------------------------------------------------------------------
(* The embedder: before the loop, in a request handler, in a timer callback *)

EmbedderRuns == pc \in {"idle", "handlers", "callback"}

\* http_set_timer's interval.
Interval(i) == IF i < 0 THEN 0 ELSE i

\* http_set_timer, when the timer can be allocated (otherwise nothing happens).
http_set_timer(delay, interval, cb) ==
  /\ timers_add([id |-> next_timer_id, due |-> clock + delay,
                 interval |-> Interval(interval), cb |-> cb, ready |-> real + delay])
  /\ next_timer_id' = next_timer_id + 1

SetTimer ==
  /\ EmbedderRuns /\ next_timer_id <= MaxTimers
  /\ \E d \in Delays, i \in Intervals : http_set_timer(d, i, "user")
  /\ UNCHANGED <<pc, running, now, wait, metrics, env, cancelled>>

\* http_cancel_timer of a timer that was set.  Inside its own callback a timer
\* is not in the list: nothing happens then.
CancelTimer ==
  /\ EmbedderRuns
  /\ \E id \in 1..(next_timer_id - 1) :
       /\ timers_remove(id)
       /\ cancelled' = IF \E i \in 1..Len(running) : running[i].id = id THEN cancelled
                       ELSE cancelled \cup {id}
  /\ UNCHANGED <<pc, next_timer_id, running, now, wait, metrics, env>>

\* http_set_metrics_callback: disable, or store and set a timer, which may fail.
SetMetricsCallback ==
  /\ EmbedderRuns
  /\ \E i \in Intervals :
       \/ /\ i <= 0 /\ metrics' = 0
          /\ UNCHANGED <<timers, next_timer_id>>
       \/ /\ i > 0 /\ metrics' = i
          /\ \/ UNCHANGED <<timers, next_timer_id>>
             \/ next_timer_id <= MaxTimers /\ http_set_timer(i, i, "metrics")
  /\ UNCHANGED <<pc, running, now, wait, env, cancelled>>

\* http_free frees the timers.
HttpFree ==
  /\ pc = "idle" /\ pc' = "freed"
  /\ timers' = <<>>
  /\ UNCHANGED <<next_timer_id, running, now, wait, metrics, env, cancelled>>

-----------------------------------------------------------------------------
(* http_run: the wait *)

\* Mutants: the default is used although a timer waits; what is overdue gives a
\* negative timeout.
TimeoutIsDefault == Default
TimeoutNegative == IF timers = <<>> THEN Default ELSE ToInt(timers[1].due - clock)

\* A timer that is due too far ahead, after the clock was set back, may give any
\* timeout (ToInt).
compute_poll_timeout ==
  IF timers = <<>> THEN Default
  ELSE IF timers[1].due < clock THEN 0 ELSE ToInt(timers[1].due - clock)

\* With a negative timeout poll waits for ever.
PollStart ==
  /\ pc = "idle" /\ pc' = "polling"
  /\ wait' = IF compute_poll_timeout < 0 THEN -1 ELSE compute_poll_timeout
  /\ UNCHANGED <<timers, next_timer_id, running, now, metrics, env, cancelled>>

\* poll returns when its timeout is over, or earlier for a descriptor; the
\* handlers run.  A failed poll is followed by the next turn of the loop.
LeavePoll(next) ==
  /\ pc = "polling" /\ pc' = next /\ wait' = 0
  /\ UNCHANGED <<timers, next_timer_id, running, now, metrics, env, cancelled>>
PollTimeout == wait = 0 /\ LeavePoll("handlers")
PollEvent == wait # 0 /\ LeavePoll("handlers")
PollFail == LeavePoll("idle")

-----------------------------------------------------------------------------
(* timers_check *)

CheckBegin ==
  /\ pc = "handlers" /\ pc' = "reading"
  /\ UNCHANGED <<timers, next_timer_id, running, now, wait, metrics, env, cancelled>>

\* timeval_now(&now), on entry and after each callback.
ReadClock ==
  /\ pc = "reading" /\ pc' = "checking"
  /\ now' = clock
  /\ UNCHANGED <<timers, next_timer_id, running, wait, metrics, env, cancelled>>

\* Mutant: the timer stays in the list while its callback runs.
PopLeavesHead == timers

\* The timer leaves the list before its callback is called.
Popped == Tail(timers)

HeadIsDue == timers # <<>> /\ timers[1].due <= now

CallbackStart ==
  /\ pc = "checking" /\ HeadIsDue /\ pc' = "callback"
  /\ running' = <<timers[1]>> /\ timers' = Popped
  /\ now' = 0
  /\ UNCHANGED <<next_timer_id, wait, metrics, env, cancelled>>

\* Mutant: the due time of a periodic timer is not moved.
RearmKeepsDue(t) == [t EXCEPT !.ready = real + t.interval]

\* A periodic timer is due its interval after the end of its callback.
Rearmed(t) == [t EXCEPT !.due = clock + t.interval, !.ready = real + t.interval]

CallbackReturn ==
  /\ pc = "callback" /\ pc' = "reading"
  /\ IF running[1].interval > 0 THEN timers_add(Rearmed(running[1])) ELSE UNCHANGED timers
  /\ running' = <<>>
  /\ UNCHANGED <<next_timer_id, now, wait, metrics, env, cancelled>>

CheckEnd ==
  /\ pc = "checking" /\ ~HeadIsDue /\ pc' = "idle"
  /\ now' = 0
  /\ UNCHANGED <<timers, next_timer_id, running, wait, metrics, env, cancelled>>

-----------------------------------------------------------------------------
(* Time *)

Tick ==
  /\ real < MaxTime /\ real' = real + 1
  /\ wait' = IF wait > 0 THEN wait - 1 ELSE wait
  /\ UNCHANGED <<pc, timers, next_timer_id, running, now, metrics, offset, cancelled>>

\* Somebody sets the wall clock.
ClockSet ==
  /\ offset' \in Offsets \ {offset}
  /\ UNCHANGED <<pc, timers, next_timer_id, running, now, wait, metrics, real, cancelled>>

Loop == PollStart \/ CheckBegin \/ ReadClock \/ CallbackStart \/ CallbackReturn \/ CheckEnd
Embedder == SetTimer \/ CancelTimer \/ SetMetricsCallback \/ HttpFree
Next == Loop \/ PollTimeout \/ PollEvent \/ PollFail \/ Embedder \/ Tick \/ ClockSet

Spec == Init /\ [][Next]_vars

\* The loop goes on, time passes, and signals do not interrupt every poll.
LiveSpec == Spec /\ WF_vars(Loop) /\ WF_vars(Tick) /\ SF_vars(PollTimeout)

-----------------------------------------------------------------------------
(* Properties *)

\* Types of every variable.
TypeOK ==
  /\ pc \in {"idle", "polling", "handlers", "reading", "checking", "callback", "freed"}
  /\ timers \in Seq(http_timer) /\ next_timer_id \in Nat \ {0}
  /\ running \in Seq(http_timer)
  /\ now \in Nat /\ wait \in Nat \cup {-1} /\ metrics \in Nat
  /\ real \in Nat /\ offset \in Nat /\ cancelled \subseteq Nat

\* The list stays sorted by due time, whatever callbacks and handlers set and
\* cancel between the timers of one check, and although the head is popped while
\* its callback runs: timers_check and compute_poll_timeout look at the head only.
Sorted == \A i, j \in 1..Len(timers) : i < j => timers[i].due <= timers[j].due

\* No timer is in two places: an id names one timer, in the list or in its
\* callback, so that nothing is freed twice or cancelled in another's place.
EachOnce ==
  /\ pc = "callback" <=> running # <<>>
  /\ Len(running) <= 1
  /\ \A i \in 1..Len(timers) :
       /\ timers[i].id < next_timer_id
       /\ \A j \in 1..Len(timers) : timers[i].id = timers[j].id => i = j
       /\ \A j \in 1..Len(running) : timers[i].id # running[j].id

\* What timers_add, timers_remove and timers_check take for granted of the list
\* and must restore (http_support.c:3-67).
ListIsSound == Sorted /\ EachOnce

\* poll does not sleep past the time a timer is due, let alone for ever, even when
\* its delay is the longest there is, as long as nobody sets the clock.
PollWakesInTime ==
  pc = "polling" =>
    \A i \in 1..Len(timers) :
      wait = 0 \/ (wait > 0 /\ clock + wait <= timers[i].due)

\* A timer that was cancelled, and not from its own callback, never runs again,
\* not even when it was due and its predecessor's callback cancelled it.
CancelledForGood ==
  /\ \A i \in 1..Len(timers) : timers[i].id \notin cancelled
  /\ \A i \in 1..Len(running) : running[i].id \notin cancelled

\* The list implements the set of pending timers of Schedule.tla.
Job(t) == [id |-> t.id, due |-> t.due, interval |-> t.interval]
Promise == INSTANCE Schedule WITH
  pending <- {Job(timers[i]) : i \in 1..Len(timers)},
  firing <- {Job(running[i]) : i \in 1..Len(running)}
ImplementsSchedule == Promise!Spec

\* http.h:109: "schedule a callback after delay_ms; if interval_ms>0, repeats
\* every interval_ms": no callback starts earlier, as long as nobody sets the
\* wall clock (timeval_now, http.c:38, reads gettimeofday).
NeverEarly ==
  [][pc # "callback" /\ pc' = "callback" => real >= running'[1].ready]_vars

\* No timer stays due for ever, whatever the other timers and handlers do.
DueTimersFire ==
  \A id \in 1..MaxTimers :
    []<>~(\E i \in 1..Len(timers) : timers[i].id = id /\ timers[i].due <= clock)
=============================================================================

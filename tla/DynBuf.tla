------------------------------- MODULE DynBuf -------------------------------
(***************************************************************************)
(* The growing buffer of libs/http (dynbuf.c), which holds what was        *)
(* received and what is to be sent: lengths and capacities as machine      *)
(* words, a realloc that may fail, and any sequence of calls.  Between two *)
(* steps of one call nothing else touches the buffer.                      *)
(***************************************************************************)
EXTENDS Integers

CONSTANTS SIZE_MAX,
          Initial,      \* the first capacity, 1024 in the code
          MaxBlock      \* the largest block an allocator grants

(* malloc grants at most PTRDIFF_MAX bytes. *)
ASSUME SizesAssumption ==
  /\ SIZE_MAX \in Nat /\ MaxBlock \in Nat /\ 2 * MaxBlock <= SIZE_MAX
  /\ Initial \in Nat /\ 0 < Initial /\ Initial <= MaxBlock

VARIABLES pc,          \* where the call is
          appends,     \* whether dynbuf_append called dynbuf_reserve
          len, cap,    \* the fields of dynbuf_t
          additional,  \* the argument
          need, newcap \* the locals of dynbuf_reserve

bufvars == <<pc, appends, len, cap, additional, need, newcap>>

Size == 0..SIZE_MAX

BufTypeOK ==
  /\ pc \in {"idle", "grow", "realloc", "copy"}
  /\ appends \in BOOLEAN
  /\ len \in Size /\ cap \in Size /\ additional \in Size /\ need \in Size /\ newcap \in Size

BufInit ==
  /\ pc = "idle" /\ appends = FALSE
  /\ len = 0 /\ cap = 0 /\ additional = 0 /\ need = 0 /\ newcap = 0

(* size_t: twice a number wraps at most once. *)
Twice(n) == IF 2 * n > SIZE_MAX THEN 2 * n - (SIZE_MAX + 1) ELSE 2 * n

After(append) == IF append THEN "copy" ELSE "idle"

(* dynbuf_append of nothing and a length beyond SIZE_MAX return at once. *)
dynbuf_reserve(n, append) ==
  /\ pc = "idle" /\ (append => n > 0)
  /\ n <= SIZE_MAX - len
  /\ appends' = append /\ additional' = n /\ need' = len + n
  /\ \/ need' <= cap /\ pc' = After(append) /\ newcap' = newcap
     \/ need' > cap /\ pc' = "grow" /\ newcap' = IF cap # 0 THEN Twice(cap) ELSE Initial
  /\ UNCHANGED <<len, cap>>

Reserve == \E n \in Size, append \in BOOLEAN : dynbuf_reserve(n, append)

\* Mutant: the doubling is not checked.
GrowUnchecked ==
  /\ pc = "grow"
  /\ \/ newcap >= need /\ pc' = "realloc" /\ newcap' = newcap
     \/ newcap < need /\ pc' = pc /\ newcap' = Twice(newcap)
  /\ UNCHANGED <<appends, len, cap, additional, need>>

\* Mutant: the capacity is doubled once.
GrowTwice ==
  /\ pc = "grow"
  /\ pc' = "realloc"
  /\ newcap' = IF newcap < need THEN Twice(newcap) ELSE newcap
  /\ UNCHANGED <<appends, len, cap, additional, need>>

(* The loop that doubles. *)
Grow ==
  /\ pc = "grow"
  /\ \/ newcap >= need /\ pc' = "realloc" /\ newcap' = newcap
     \/ newcap < need /\ newcap > SIZE_MAX \div 2 /\ pc' = "realloc" /\ newcap' = need
     \/ newcap < need /\ newcap <= SIZE_MAX \div 2 /\ pc' = pc /\ newcap' = Twice(newcap)
  /\ UNCHANGED <<appends, len, cap, additional, need>>

Realloc ==
  /\ pc = "realloc" /\ newcap <= MaxBlock
  /\ cap' = newcap /\ pc' = After(appends)
  /\ UNCHANGED <<appends, len, additional, need, newcap>>

ReallocFails ==
  /\ pc = "realloc"
  /\ pc' = "idle"
  /\ UNCHANGED <<appends, len, cap, additional, need, newcap>>

(* The rest of dynbuf_append. *)
Copy ==
  /\ pc = "copy"
  /\ len' = len + additional /\ pc' = "idle"
  /\ UNCHANGED <<appends, cap, additional, need, newcap>>

dynbuf_free ==
  /\ pc = "idle"
  /\ len' = 0 /\ cap' = 0
  /\ UNCHANGED <<pc, appends, additional, need, newcap>>

BufReturns == Grow \/ Realloc \/ ReallocFails \/ Copy
BufNext == Reserve \/ BufReturns \/ dynbuf_free

BufSpec == BufInit /\ [][BufNext]_bufvars /\ WF_bufvars(BufReturns)

-----------------------------------------------------------------------------
(* Properties *)

\* memcpy of dynbuf.c:70 stays inside the block, whatever was appended before
\* and whichever allocations failed.
CopyStaysInside == pc = "copy" => len + additional <= cap

\* What realloc is asked for is enough, and less than twice the need unless it
\* is the first capacity (dynbuf.c:40-49).
GrowthIsMeasured ==
  pc = "realloc" => need <= newcap /\ (newcap = Initial \/ newcap < 2 * need)

\* No doubling wraps: from the capacity on, each candidate is larger than the
\* one before (dynbuf.c:40 has no check of its own, 44 has).
DoublingGrows ==
  [][/\ (pc = "idle" /\ pc' = "grow" => newcap' > cap)
     /\ (pc = "grow" => newcap' > newcap \/ (pc' = "realloc" /\ newcap' = newcap))]_bufvars

\* A call returns: the loop ends for every need (dynbuf.c:42-49).
AppendReturns == pc # "idle" ~> pc = "idle"
=============================================================================

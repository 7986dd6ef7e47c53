---------------------------- MODULE HelperProofs ----------------------------
(* Proofs about the growing buffer, the arithmetic on times and the URL     *)
(* conversions, for every word size, every time, every delay and every      *)
(* text; then about the parser of cJSON, for every text and every limit on  *)
(* nesting, and about the strings that are escaped for it.                  *)
EXTENDS Helpers, Induction, SequenceTheorems

(* The buffer *)

\* A call that is under way has computed what it needs without wrapping, and
\* what it has settled on covers it.
UnderWay ==
  /\ cap <= MaxBlock /\ len <= cap
  /\ pc \in {"grow", "realloc"} => need = len + additional /\ cap < need
  /\ pc = "grow" => 0 < newcap /\ (newcap = Initial \/ newcap < 2 * need)

\* The inductive invariant.
BufInv == BufTypeOK /\ CopyStaysInside /\ GrowthIsMeasured /\ UnderWay

LEMMA BufStarts == BufInit => BufInv
<1> SUFFICES ASSUME BufInit PROVE BufInv
  OBVIOUS
<1>1. appends \in BOOLEAN
  BY Zenon DEF BufInit
<1>2. 0 \in Size
  BY SizesAssumption DEF SizesAssumption, Size
<1>3. BufTypeOK
  BY <1>1, <1>2, Zenon DEF BufInit, BufTypeOK
<1>4. CopyStaysInside /\ GrowthIsMeasured /\ UnderWay
  BY SizesAssumption
  DEF SizesAssumption, BufInit, CopyStaysInside, GrowthIsMeasured, UnderWay
<1> QED BY <1>3, <1>4 DEF BufInv

\* Each action keeps the invariant.
LEMMA BufKeeps == BufInv /\ [BufNext]_bufvars => BufInv'
<1> SUFFICES ASSUME BufInv, [BufNext]_bufvars PROVE BufInv'
  OBVIOUS
<1> USE SizesAssumption DEF SizesAssumption, BufInv, BufTypeOK, Size, CopyStaysInside, GrowthIsMeasured, UnderWay
<1>1. ASSUME NEW n \in Size, NEW append \in BOOLEAN, dynbuf_reserve(n, append)
      PROVE  BufInv'
  <2>1. CASE need' <= cap
    BY <1>1, <2>1 DEF dynbuf_reserve, After
  <2>2. CASE need' > cap /\ cap # 0
    <3>1. newcap' = 2 * cap
      BY <1>1, <2>2 DEF dynbuf_reserve, Twice
    <3> QED BY <1>1, <2>2, <3>1 DEF dynbuf_reserve
  <2>3. CASE need' > cap /\ cap = 0
    BY <1>1, <2>3 DEF dynbuf_reserve
  <2> QED BY <1>1, <2>1, <2>2, <2>3 DEF dynbuf_reserve
<1>2. CASE Grow
  <2>1. CASE newcap < need /\ newcap <= SIZE_MAX \div 2
    <3>1. Twice(newcap) = 2 * newcap
      BY <2>1 DEF Twice
    <3> QED BY <1>2, <2>1, <3>1 DEF Grow
  <2>2. CASE ~(newcap < need /\ newcap <= SIZE_MAX \div 2)
    BY <1>2, <2>2 DEF Grow
  <2> QED BY <2>1, <2>2
<1>3. CASE Realloc
  BY <1>3 DEF Realloc, After
<1>4. CASE ReallocFails
  BY <1>4 DEF ReallocFails
<1>5. CASE Copy
  BY <1>5 DEF Copy
<1>6. CASE dynbuf_free
  BY <1>6 DEF dynbuf_free
<1>7. CASE UNCHANGED bufvars
  BY <1>7 DEF bufvars
<1> QED BY <1>1, <1>2, <1>3, <1>4, <1>5, <1>6, <1>7 DEF BufNext, BufReturns, Reserve

LEMMA BufHolds == BufSpec => []BufInv
BY BufStarts, BufKeeps, PTL DEF BufSpec

\* Lengths, capacities and the locals of dynbuf_reserve are machine words.
THEOREM BufTypeCorrect == BufSpec => []BufTypeOK
BY BufHolds, PTL DEF BufInv

\* memcpy never writes behind the block (dynbuf.c:70).
THEOREM CopyInside == BufSpec => []CopyStaysInside
BY BufHolds, PTL DEF BufInv

\* realloc is asked for enough and for less than twice as much (dynbuf.c:51).
THEOREM Measured == BufSpec => []GrowthIsMeasured
BY BufHolds, PTL DEF BufInv

\* Candidates for the capacity only grow, so that the loop of dynbuf.c:42
\* cannot go round for ever.
THEOREM Grows == BufSpec => DoublingGrows
<1> DEFINE Step == /\ (pc = "idle" /\ pc' = "grow" => newcap' > cap)
                   /\ (pc = "grow" => newcap' > newcap \/ (pc' = "realloc" /\ newcap' = newcap))
<1>1. BufInv /\ [BufNext]_bufvars => [Step]_bufvars
  <2> SUFFICES ASSUME BufInv, BufNext PROVE Step
    OBVIOUS
  <2> USE SizesAssumption DEF SizesAssumption, BufInv, BufTypeOK, Size, UnderWay
  <2>1. ASSUME NEW n \in Size, NEW append \in BOOLEAN, dynbuf_reserve(n, append)
        PROVE  Step
    BY <2>1 DEF dynbuf_reserve, Twice, After
  <2>2. CASE Grow
    BY <2>2 DEF Grow, Twice
  <2>3. CASE Realloc \/ ReallocFails \/ Copy \/ dynbuf_free
    BY <2>3 DEF Realloc, ReallocFails, Copy, dynbuf_free, After
  <2> QED BY <2>1, <2>2, <2>3 DEF BufNext, BufReturns, Reserve
<1> QED BY <1>1, BufHolds, PTL DEF BufSpec, DoublingGrows

-----------------------------------------------------------------------------
(* Times *)

\* Due times are exact for every time and every delay.
THEOREM Exact == \A t \in timeval, ms \in Nat : LaterIsExact(t, ms)
<1> SUFFICES ASSUME NEW t \in timeval, NEW ms \in Nat
             PROVE  LaterIsExact(t, ms)
  OBVIOUS
<1> USE DEF LaterIsExact, Million
<1> DEFINE q == ms \div 1000
           r == ms - 1000 * q
<1>1. q \in Nat /\ r \in Nat /\ r < 1000
  OBVIOUS
<1>2. Quotient(ms, 1000) = q /\ Remainder(ms, 1000) = r
  BY DEF Quotient, Remainder
<1>3. t.tv_sec \in Nat /\ t.tv_usec \in Nat /\ t.tv_usec < Million
  BY DEF timeval
<1> HIDE DEF r
<1>4. CASE t.tv_usec + r * 1000 >= Million
  <2>1. Later(t, ms) = [tv_sec |-> t.tv_sec + q + 1, tv_usec |-> t.tv_usec + r * 1000 - Million]
    BY <1>1, <1>2, <1>3, <1>4, SMT DEF Later
  <2> QED BY <1>1, <1>3, <2>1, <1>4 DEF timeval, Micros, r
<1>5. CASE ~(t.tv_usec + r * 1000 >= Million)
  <2>1. Later(t, ms) = [tv_sec |-> t.tv_sec + q, tv_usec |-> t.tv_usec + r * 1000]
    BY <1>1, <1>2, <1>3, <1>5, SMT DEF Later
  <2> QED BY <1>1, <1>3, <2>1, <1>5 DEF timeval, Micros, r
<1> QED BY <1>4, <1>5

\* Comparing two times is right for all of them.
THEOREM Ordered == \A a, b \in timeval : BeforeIsByTime(a, b)
BY DEF timeval, Before, Micros, BeforeIsByTime, Million

\* An int is not changed by the conversion to an int.
LEMMA SmallInt == \A x \in 0..IntMax : ToInt(x) = x
<1> SUFFICES ASSUME NEW x \in 0..IntMax
             PROVE  ToInt(x) = x
  OBVIOUS
<1>1. IntMax \in Nat /\ x \in Nat /\ x <= IntMax
  BY IntAssumption
<1>2. PICK m \in Nat : m = 2 * (IntMax + 1)
  BY <1>1
<1>3. x % m = x
  BY <1>1, <1>2
<1> QED BY <1>1, <1>2, <1>3 DEF ToInt

\* The timeout is right for every two times that are in reach of each other.
THEOREM Close == \A a, b \in timeval : TimeoutIsClose(a, b)
<1> SUFFICES ASSUME NEW a \in timeval, NEW b \in timeval
             PROVE  TimeoutIsClose(a, b)
  OBVIOUS
<1> USE DEF Million
<1> DEFINE s == a.tv_sec - b.tv_sec
           u == a.tv_usec - b.tv_usec
           q == Quotient(u, 1000)
<1>1. s \in Int /\ u \in Int /\ -Million < u /\ u < Million
  BY DEF timeval
<1>2. /\ q \in Int /\ -1000 < q /\ q < 1000
      /\ u >= 0 => 1000 * q <= u /\ u < 1000 * q + 1000
      /\ u < 0 => u <= 1000 * q /\ 1000 * q < u + 1000
  <2> HIDE DEF u
  <2>1. CASE u >= 0
    BY <1>1, <2>1 DEF Quotient
  <2>2. CASE u < 0
    <3>1. q = -((-u) \div 1000)
      BY <1>1, <2>2 DEF Quotient
    <3> DEFINE v == -u
    <3>2. v \in Nat /\ v > 0 /\ v < Million /\ q = -(v \div 1000)
      BY <1>1, <2>2, <3>1
    <3> HIDE DEF v
    <3>3. v \div 1000 \in Nat /\ v \div 1000 < 1000 /\ 1000 * (v \div 1000) <= v /\ v < 1000 * (v \div 1000) + 1000
      BY <3>2
    <3>4. u = -v
      BY <1>1 DEF v
    <3> QED BY <1>1, <2>2, <3>2, <3>3, <3>4
  <2> QED BY <1>1, <2>1, <2>2
<1>3. Timeout(a, b) = IF s * 1000 + q < 0 THEN 0 ELSE ToInt(s * 1000 + q)
  BY DEF Timeout
<1>4. Micros(a) - Micros(b) = Million * s + u
  BY DEF timeval, Micros
<1>5. Micros(a) \in Int /\ Micros(b) \in Int
  BY DEF timeval, Micros
<1> HIDE DEF s, u, q
<1>6. PICK d \in Int, ms \in Int : d = Micros(a) - Micros(b) /\ ms = s * 1000 + q
  BY <1>1, <1>2, <1>5
<1>7. /\ d > 0 => ms >= 0 /\ 1000 * ms < d + 1000 /\ 1000 * ms > d - 1000
      /\ d <= 0 => ms <= 0
  BY <1>1, <1>2, <1>4, <1>6
<1>8. ToInt(0) = 0
  BY SmallInt, IntAssumption
<1>9. ASSUME InReach(a, b), d > 0
      PROVE  Timeout(a, b) = ms
  <2>1. IntMax \in Nat /\ d <= 1000 * IntMax
    BY <1>6, <1>9, IntAssumption DEF InReach
  <2>2. ms \in 0..IntMax
    BY <1>7, <1>9, <2>1
  <2> QED BY <1>3, <1>6, <2>2, SmallInt
<1>10. d <= 0 => Timeout(a, b) = 0
  BY <1>3, <1>6, <1>7, <1>8
<1>11. /\ Micros(a) <= Micros(b) <=> d <= 0
       /\ Micros(a) > Micros(b) <=> d > 0
  BY <1>5, <1>6
<1>12. InReach(a, b) => Timeout(a, b) \in Nat
  BY <1>7, <1>9, <1>10
<1>13. InReach(a, b) /\ d > 0 =>
         /\ 1000 * Timeout(a, b) < Micros(a) - Micros(b) + 1000
         /\ 1000 * Timeout(a, b) > Micros(a) - Micros(b) - 1000
  BY <1>6, <1>7, <1>9
<1> QED BY <1>10, <1>11, <1>12, <1>13 DEF TimeoutIsClose
-----------------------------------------------------------------------------
(* URL encoding *)

\* What EncodedByte writes for a byte is one unreserved character, or a percent
\* sign and the two digits of the byte.
LEMMA EncodedShape ==
  ASSUME NEW b \in Byte
  PROVE  \/ b \in Unreserved /\ EncodedByte(b) = <<b>> /\ b # Percent /\ b # Plus
         \/ \E h, l \in 0..15 : /\ b = 16 * h + l
                                /\ EncodedByte(b) = <<Percent, UpperHex(h), UpperHex(l)>>
<1>1. CASE b \in Unreserved
  <2>1. b # 37 /\ b # 43
    BY <1>1 DEF Unreserved, Alnum
  <2>2. EncodedByte(b) = <<b>>
    BY <1>1 DEF EncodedByte
  <2> QED BY <1>1, <2>1, <2>2 DEF Percent, Plus
<1>2. CASE b \notin Unreserved
  <2>1. PICK h : h = b \div 16
    OBVIOUS
  <2>2. PICK l : l = b % 16
    OBVIOUS
  <2>3. h \in 0..15 /\ l \in 0..15 /\ b = 16 * h + l
    BY <2>1, <2>2 DEF Byte
  <2>4. EncodedByte(b) = <<Percent, UpperHex(h), UpperHex(l)>>
    BY <1>2, <2>1, <2>2 DEF EncodedByte
  <2> QED BY <2>3, <2>4
<1> QED BY <1>1, <1>2

\* A digit that was written is read back.
LEMMA DigitsRead ==
  ASSUME NEW d \in 0..15
  PROVE  UpperHex(d) \in Byte /\ UpperHex(d) \in DOMAIN HexValue /\ HexValue[UpperHex(d)] = d
<1>1. CASE d < 10
  <2>1. UpperHex(d) = 48 + d
    BY <1>1 DEF UpperHex
  <2>2. 48 + d \in 48..57 /\ (48 + d) - 48 = d
    BY <1>1
  <2> QED BY <2>1, <2>2 DEF HexValue, Byte
<1>2. CASE ~(d < 10)
  <2>1. UpperHex(d) = 55 + d
    BY <1>2 DEF UpperHex
  <2>2. 55 + d \in 65..70
    BY <1>2
  <2> QED BY <2>1, <2>2 DEF HexValue, Byte
<1> QED BY <1>1, <1>2

LEMMA DigitsAreSmall == \A c \in DOMAIN HexValue : HexValue[c] \in 0..15
BY DEF HexValue

LEMMA EncodedBytes ==
  ASSUME NEW b \in Byte
  PROVE  EncodedByte(b) \in Seq(Byte) /\ Len(EncodedByte(b)) \in 1..3
<1>1. CASE EncodedByte(b) = <<b>>
  BY <1>1
<1>2. ASSUME NEW h \in 0..15, NEW l \in 0..15, EncodedByte(b) = <<Percent, UpperHex(h), UpperHex(l)>>
      PROVE  EncodedByte(b) \in Seq(Byte) /\ Len(EncodedByte(b)) \in 1..3
  <2>1. UpperHex(h) \in Byte /\ UpperHex(l) \in Byte /\ Percent \in Byte
    BY DigitsRead DEF Percent, Byte
  <2> QED BY <1>2, <2>1
<1> QED BY <1>1, <1>2, EncodedShape

\* The loop of http_url_encode: what it has written after each byte.
LEMMA EncodingLoop ==
  ASSUME NEW s \in Seq(Byte)
  PROVE  \E f \in [0..Len(s) -> Seq(Byte)] :
           /\ f[0] = <<>> /\ \A n \in 1..Len(s) : f[n] = f[n - 1] \o EncodedByte(s[n])
           /\ http_url_encode(s) = f[Len(s)]
<1> DEFINE IsLoop(f) == f = [n \in 0..Len(s) |-> IF n = 0 THEN <<>> ELSE f[n - 1] \o EncodedByte(s[n])]
<1>1. PICK N : N = Len(s) /\ N \in Nat
  OBVIOUS
<1>2. PICK U : U = Seq(Byte)
  OBVIOUS
<1>3. PICK e \in U : e = <<>>
  <2>1. <<>> \in U
    BY <1>2
  <2> QED BY <2>1
<1> DEFINE Round(n, t) == IF n + 1 \in 1..N THEN t \o EncodedByte(s[n + 1]) ELSE t
<1>4. \A n \in Nat, t \in U : Round(n, t) \in U
  <2> TAKE n \in Nat, t \in U
  <2>1. CASE n + 1 \in 1..N
    <3>1. s[n + 1] \in Byte
      BY <1>1, <2>1
    <3>2. EncodedByte(s[n + 1]) \in Seq(Byte)
      BY <3>1, EncodedBytes
    <3> QED BY <1>2, <2>1, <3>2
  <2> QED BY <2>1
<1> HIDE DEF Round
<1>5. PICK G : G = [n \in Nat |-> [t \in U |-> Round(n, t)]]
  OBVIOUS
<1>6. G \in [Nat -> [U -> U]]
  BY <1>4, <1>5
<1>7. PICK F \in [Nat -> U] : Iterates(F, e, G)
  BY <1>3, <1>6, Recursion
<1>8. \A n \in 1..N : F[n] = F[n - 1] \o EncodedByte(s[n])
  <2> TAKE n \in 1..N
  <2>1. PICK k \in Nat : k = n - 1 /\ k + 1 = n
    BY <1>1
  <2>2. F[k + 1] = Round(k, F[k])
    BY <1>5, <1>7, <2>1 DEF Iterates
  <2> QED BY <2>1, <2>2 DEF Round
<1>9. PICK g : g = [n \in 0..N |-> F[n]]
  OBVIOUS
<1>10. IsLoop(g)
  <2>1. \A n \in 0..N : g[n] = IF n = 0 THEN <<>> ELSE g[n - 1] \o EncodedByte(s[n])
    <3> TAKE n \in 0..N
    <3>1. CASE n = 0
      BY <1>1, <1>3, <1>7, <1>9, <3>1 DEF Iterates
    <3>2. CASE n # 0
      <4>1. n \in 1..N /\ n - 1 \in 0..N
        BY <1>1, <3>2
      <4>2. g[n] = F[n] /\ g[n - 1] = F[n - 1]
        BY <1>9, <4>1
      <4> QED BY <1>8, <3>2, <4>1, <4>2
    <3> QED BY <3>1, <3>2
  <2> QED BY <1>1, <1>9, <2>1
<1>11. PICK f : IsLoop(f) /\ http_url_encode(s) = f[Len(s)]
  <2>1. IsLoop(CHOOSE f : IsLoop(f))
    <3> HIDE DEF IsLoop
    <3> QED BY <1>10
  <2>2. http_url_encode(s) = (CHOOSE f : IsLoop(f))[Len(s)]
    BY DEF http_url_encode
  <2> HIDE DEF IsLoop
  <2> QED BY <2>1, <2>2
<1>12. f[0] = <<>> /\ \A n \in 1..N : f[n] = f[n - 1] \o EncodedByte(s[n])
  BY <1>1, <1>11
<1>13. f \in [0..N -> U]
  <2> DEFINE T == {n \in 0..N : f[n] \in U}
  <2>1. 0 \in T
    BY <1>1, <1>3, <1>12
  <2>2. \A n \in 0..(N - 1) : n \in T => n + 1 \in T
    <3> SUFFICES ASSUME NEW n \in 0..(N - 1), f[n] \in U PROVE n + 1 \in T
      OBVIOUS
    <3>1. n + 1 \in 1..N /\ n + 1 \in 0..N /\ (n + 1) - 1 = n
      BY <1>1
    <3>2. s[n + 1] \in Byte
      BY <1>1, <3>1
    <3>3. EncodedByte(s[n + 1]) \in Seq(Byte)
      BY <3>2, EncodedBytes
    <3>4. f[n + 1] = f[n] \o EncodedByte(s[n + 1])
      BY <1>12, <3>1
    <3>5. f[n + 1] \in U
      BY <1>2, <3>3, <3>4
    <3> QED BY <3>1, <3>5
  <2> HIDE DEF T
  <2>3. 0..N \subseteq T
    <3>1. N \in Int /\ 0 \in Int
      BY <1>1
    <3> QED BY <2>1, <2>2, <3>1, InductBetween
  <2>4. \A n \in 0..N : f[n] \in U
    BY <2>3 DEF T
  <2> QED BY <1>1, <1>11, <2>4
<1> HIDE DEF IsLoop
<1> QED BY <1>1, <1>2, <1>11, <1>12, <1>13

\* Where http_url_decode can be in a text: no more is written than was read.
DecodeStates(s) ==
  {r \in [at : 1..(Len(s) + 1), out : Seq(0..255)] : Len(r.out) < r.at}

LEMMA RoundStays ==
  ASSUME NEW s \in Seq(Byte), NEW r \in DecodeStates(s)
  PROVE  DecodeRound(s, r) \in DecodeStates(s)
<1>1. PICK i, o : i = r.at /\ o = r.out
  OBVIOUS
<1>2. PICK N \in Nat : N = Len(s)
  OBVIOUS
<1>3. i \in 1..(N + 1) /\ o \in Seq(0..255) /\ Len(o) < i /\ Len(o) \in Nat
  BY <1>1, <1>2 DEF DecodeStates
<1>4. ASSUME NEW j \in 1..(N + 1), NEW c \in 0..255, i < j
      PROVE  [at |-> j, out |-> Append(o, c)] \in DecodeStates(s)
  <2>1. Append(o, c) \in Seq(0..255) /\ Len(Append(o, c)) = Len(o) + 1
    BY <1>3
  <2>2. Len(o) + 1 < j
    BY <1>3, <1>4
  <2> QED BY <1>2, <2>1, <2>2 DEF DecodeStates
<1>5. CASE i > N
  <2>1. DecodeRound(s, r) = r
    BY <1>1, <1>2, <1>3, <1>5 DEF DecodeRound
  <2> QED BY <2>1
<1>6. CASE i <= N /\ IsEncoded(s, i)
  <2>1. s[i + 1] \in DOMAIN HexValue /\ s[i + 2] \in DOMAIN HexValue /\ i + 2 <= N
    BY <1>2, <1>6 DEF IsEncoded
  <2>2. PICK h \in 0..15, l \in 0..15 : h = HexValue[s[i + 1]] /\ l = HexValue[s[i + 2]]
    BY <2>1, DigitsAreSmall
  <2>3. DecodeRound(s, r) = [at |-> i + 3, out |-> Append(o, 16 * h + l)]
    BY <1>1, <1>2, <1>3, <1>6, <2>2 DEF DecodeRound
  <2>4. 16 * h + l \in 0..255 /\ i + 3 \in 1..(N + 1) /\ i < i + 3
    BY <1>3, <2>1
  <2> QED BY <1>4, <2>3, <2>4
<1>7. CASE i <= N /\ ~IsEncoded(s, i)
  <2>1. s[i] \in Byte
    BY <1>2, <1>3, <1>7
  <2>2. PICK c \in 0..255 : c = IF s[i] = Plus THEN Space ELSE s[i]
    BY <2>1 DEF Byte, Space
  <2>3. DecodeRound(s, r) = [at |-> i + 1, out |-> Append(o, c)]
    BY <1>1, <1>2, <1>3, <1>7, <2>2 DEF DecodeRound
  <2>4. i + 1 \in 1..(N + 1) /\ i < i + 1
    BY <1>3, <1>7
  <2> QED BY <1>4, <2>3, <2>4
<1> QED BY <1>3, <1>5, <1>6, <1>7

\* The loop of http_url_decode: where it is after each round.
LEMMA DecodingLoop ==
  ASSUME NEW s \in Seq(Byte)
  PROVE  \E f \in [0..Len(s) -> DecodeStates(s)] :
           /\ f[0] = [at |-> 1, out |-> <<>>]
           /\ \A n \in 1..Len(s) : f[n] = DecodeRound(s, f[n - 1])
           /\ http_url_decode(s) = f[Len(s)].out
<1> DEFINE start == [at |-> 1, out |-> <<>>]
           IsLoop(f) == f = [n \in 0..Len(s) |-> IF n = 0 THEN start ELSE DecodeRound(s, f[n - 1])]
<1>1. PICK N : N = Len(s) /\ N \in Nat
  OBVIOUS
<1>2. PICK U : U = DecodeStates(s)
  OBVIOUS
<1>3. PICK e \in U : e = start
  <2>1. <<>> \in Seq(0..255) /\ Len(<<>>) = 0 /\ 1 \in 1..(N + 1)
    BY <1>1
  <2>2. start \in U
    BY <1>1, <1>2, <2>1 DEF DecodeStates
  <2> QED BY <2>2
<1> HIDE DEF start
<1>4. PICK G : G = [n \in Nat |-> [r \in U |-> DecodeRound(s, r)]]
  OBVIOUS
<1>5. G \in [Nat -> [U -> U]]
  <2>1. \A r \in U : DecodeRound(s, r) \in U
    BY <1>2, RoundStays
  <2> QED BY <1>4, <2>1
<1>6. PICK F \in [Nat -> U] : Iterates(F, e, G)
  BY <1>3, <1>5, Recursion
<1>7. \A n \in 1..N : F[n] = DecodeRound(s, F[n - 1])
  <2> TAKE n \in 1..N
  <2>1. PICK k \in Nat : k = n - 1 /\ k + 1 = n
    BY <1>1
  <2> QED BY <1>4, <1>6, <2>1 DEF Iterates
<1>8. PICK g : g = [n \in 0..N |-> F[n]]
  OBVIOUS
<1>9. IsLoop(g)
  <2>1. \A n \in 0..N : g[n] = IF n = 0 THEN start ELSE DecodeRound(s, g[n - 1])
    <3> TAKE n \in 0..N
    <3>1. CASE n = 0
      BY <1>1, <1>3, <1>6, <1>8, <3>1 DEF Iterates
    <3>2. CASE n # 0
      <4>1. n \in 1..N /\ n - 1 \in 0..N
        BY <1>1, <3>2
      <4>2. g[n] = F[n] /\ g[n - 1] = F[n - 1]
        BY <1>8, <4>1
      <4> QED BY <1>7, <3>2, <4>1, <4>2
    <3> QED BY <3>1, <3>2
  <2> QED BY <1>1, <1>8, <2>1
<1>10. PICK f : IsLoop(f) /\ http_url_decode(s) = f[Len(s)].out
  <2>1. IsLoop(CHOOSE f : IsLoop(f))
    <3> HIDE DEF IsLoop
    <3> QED BY <1>9
  <2>2. http_url_decode(s) = (CHOOSE f : IsLoop(f))[Len(s)].out
    BY DEF http_url_decode, start
  <2> HIDE DEF IsLoop
  <2> QED BY <2>1, <2>2
<1>11. f[0] = start /\ \A n \in 1..N : f[n] = DecodeRound(s, f[n - 1])
  <2>1. \A n \in 0..N : f[n] = IF n = 0 THEN start ELSE DecodeRound(s, f[n - 1])
    BY <1>1, <1>10, Zenon
  <2>2. 0 \in 0..N /\ \A n \in 1..N : n \in 0..N /\ n # 0
    BY <1>1
  <2> QED BY <2>1, <2>2, Zenon
<1>12. f \in [0..N -> U]
  <2> DEFINE T == {n \in 0..N : f[n] \in U}
  <2>1. 0 \in T
    BY <1>1, <1>3, <1>11
  <2>2. \A n \in 0..(N - 1) : n \in T => n + 1 \in T
    <3> SUFFICES ASSUME NEW n \in 0..(N - 1), f[n] \in U PROVE n + 1 \in T
      OBVIOUS
    <3>1. n + 1 \in 1..N /\ n + 1 \in 0..N /\ (n + 1) - 1 = n
      BY <1>1
    <3>2. f[n + 1] = DecodeRound(s, f[n])
      BY <1>11, <3>1
    <3>3. f[n + 1] \in U
      BY <1>2, <3>2, RoundStays
    <3> QED BY <3>1, <3>3
  <2> HIDE DEF T
  <2>3. 0..N \subseteq T
    <3>1. N \in Int /\ 0 \in Int
      BY <1>1
    <3> QED BY <2>1, <2>2, <3>1, InductBetween
  <2>4. \A n \in 0..N : f[n] \in U
    BY <2>3 DEF T
  <2> QED BY <1>1, <1>10, <2>4
<1> HIDE DEF IsLoop
<1> QED BY <1>1, <1>2, <1>10, <1>11, <1>12 DEF start

\* f is what is put together of the N pieces c, after each.
Joins(A, N, c, f) ==
  /\ c \in [1..N -> Seq(A)] /\ f \in [0..N -> Seq(A)]
  /\ f[0] = <<>> /\ \A n \in 1..N : f[n] = f[n - 1] \o c[n]

\* The lengths add up, and what has been put together stays.
AddsUp(N, c, f) == \A n \in 0..(N - 1) : Len(f[n + 1]) = Len(f[n]) + Len(c[n + 1])
Keeps(N, f) == \A n \in 0..N : Len(f[n]) <= Len(f[N]) /\ \A i \in 1..Len(f[n]) : f[N][i] = f[n][i]

LEMMA Joined ==
  ASSUME NEW A, NEW N \in Nat, NEW c, NEW f, Joins(A, N, c, f)
  PROVE  AddsUp(N, c, f) /\ Keeps(N, f)
<1>0. c \in [1..N -> Seq(A)] /\ f \in [0..N -> Seq(A)] /\ \A n \in 1..N : f[n] = f[n - 1] \o c[n]
  BY DEF Joins
<1>1. \A n \in 0..N : Len(f[n]) \in Nat
  BY <1>0
<1>2. \A n \in 0..(N - 1) : /\ n \in 0..N /\ n + 1 \in 0..N
                            /\ Len(f[n + 1]) = Len(f[n]) + Len(c[n + 1]) /\ Len(f[n]) <= Len(f[n + 1])
                            /\ \A i \in 1..Len(f[n]) : f[n + 1][i] = f[n][i]
  <2> TAKE n \in 0..(N - 1)
  <2>1. n + 1 \in 1..N /\ (n + 1) - 1 = n /\ n \in 0..N /\ n + 1 \in 0..N
    OBVIOUS
  <2>2. PICK u \in Seq(A), e \in Seq(A) : u = f[n] /\ e = c[n + 1]
    BY <1>0, <2>1
  <2>3. f[n + 1] = u \o e
    BY <1>0, <2>1, <2>2
  <2>4. PICK x \in Nat, y \in Nat : x = Len(u) /\ y = Len(e)
    OBVIOUS
  <2>5. PICK d : d = u \o e
    OBVIOUS
  <2>6. Len(d) = x + y /\ \A i \in 1..x : d[i] = u[i]
    BY <2>4, <2>5, ConcatProperties
  <2>7. f[n + 1] = d
    BY <2>3, <2>5
  <2>8. Len(f[n + 1]) = x + y /\ Len(f[n]) = x /\ Len(c[n + 1]) = y
    BY <2>2, <2>4, <2>6, <2>7
  <2>9. \A i \in 1..Len(f[n]) : f[n + 1][i] = f[n][i]
    BY <2>2, <2>4, <2>6, <2>7
  <2>10. x <= x + y
    BY <2>4
  <2> QED BY <2>1, <2>8, <2>9, <2>10
<1>3. ASSUME NEW n \in 0..N
      PROVE  Len(f[n]) <= Len(f[N]) /\ \A i \in 1..Len(f[n]) : f[N][i] = f[n][i]
  <2> DEFINE T == {m \in n..N : Len(f[n]) <= Len(f[m]) /\ \A i \in 1..Len(f[n]) : f[m][i] = f[n][i]}
  <2>1. n \in T
    BY <1>1
  <2>2. \A m \in n..(N - 1) : m \in T => m + 1 \in T
    <3> SUFFICES ASSUME NEW m \in n..(N - 1), m \in T PROVE m + 1 \in T
      OBVIOUS
    <3>1. m \in 0..(N - 1) /\ m \in 0..N /\ m + 1 \in 0..N /\ m + 1 \in n..N
      OBVIOUS
    <3>2. PICK x \in Nat, y \in Nat, z \in Nat : x = Len(f[n]) /\ y = Len(f[m]) /\ z = Len(f[m + 1])
      BY <1>1, <3>1
    <3>3. x <= y /\ \A i \in 1..x : f[m][i] = f[n][i]
      BY <3>2
    <3>4. y <= z /\ \A i \in 1..y : f[m + 1][i] = f[m][i]
      BY <1>2, <3>1, <3>2
    <3>5. \A i \in 1..x : f[m + 1][i] = f[n][i]
      BY <3>3, <3>4
    <3>6. x <= z
      BY <3>3, <3>4
    <3> QED BY <3>1, <3>2, <3>5, <3>6
  <2> HIDE DEF T
  <2>3. n..N \subseteq T
    <3>1. N \in Int /\ n \in Int
      OBVIOUS
    <3> QED BY <2>1, <2>2, <3>1, InductBetween
  <2>4. N \in T
    BY <2>3
  <2> QED BY <2>4 DEF T
<1> QED BY <1>2, <1>3 DEF AddsUp, Keeps

\* FlattenSeq puts the pieces of a sequence together one after the other.
LEMMA Flattening ==
  ASSUME NEW A, NEW c \in Seq(Seq(A))
  PROVE  \E f : Joins(A, Len(c), c, f) /\ FlattenSeq(c) = f[Len(c)]
<1> DEFINE IsLoop(h) == h = [i \in 1..Len(c) |-> IF i = 1 THEN c[i] ELSE h[i - 1] \o c[i]]
<1>1. PICK N \in Nat : N = Len(c)
  OBVIOUS
<1>2. PICK U : U = Seq(A)
  OBVIOUS
<1>3. PICK e \in U : e = <<>>
  <2>1. <<>> \in U
    BY <1>2
  <2> QED BY <2>1
<1>4. c \in [1..N -> U]
  BY <1>1, <1>2
<1> DEFINE Round(n, t) == IF n + 1 \in 1..N THEN t \o c[n + 1] ELSE t
<1>5. \A n \in Nat, t \in U : Round(n, t) \in U
  <2> TAKE n \in Nat, t \in U
  <2>1. CASE n + 1 \in 1..N
    BY <1>2, <1>4, <2>1
  <2> QED BY <2>1
<1> HIDE DEF Round
<1>6. PICK G : G = [n \in Nat |-> [t \in U |-> Round(n, t)]]
  OBVIOUS
<1>7. G \in [Nat -> [U -> U]]
  BY <1>5, <1>6
<1>8. PICK F \in [Nat -> U] : Iterates(F, e, G)
  BY <1>3, <1>7, Recursion
<1>9. F[0] = e /\ \A n \in 1..N : F[n] = F[n - 1] \o c[n]
  <2> SUFFICES ASSUME NEW n \in 1..N PROVE F[n] = F[n - 1] \o c[n]
    BY <1>8 DEF Iterates
  <2>1. PICK k \in Nat : k = n - 1 /\ k + 1 = n
    OBVIOUS
  <2>2. F[k + 1] = Round(k, F[k])
    BY <1>6, <1>8, <2>1 DEF Iterates
  <2> QED BY <2>1, <2>2 DEF Round
<1>10. PICK f : f = [n \in 0..N |-> F[n]]
  OBVIOUS
<1>11. \A n \in 0..N : f[n] = F[n] /\ n \in Nat
  BY <1>10
<1>12. Joins(A, N, c, f)
  <2>1. f \in [0..N -> U]
    BY <1>10
  <2>2. 0 \in 0..N /\ \A n \in 1..N : n \in 0..N /\ n - 1 \in 0..N
    OBVIOUS
  <2> QED BY <1>2, <1>3, <1>4, <1>9, <1>11, <2>1, <2>2 DEF Joins
<1>13. CASE N = 0
  <2>1. FlattenSeq(c) = c /\ c = <<>>
    <3>1. Len(c) = 0
      BY <1>1, <1>13
    <3>2. FlattenSeq(c) = c
      BY <3>1, Zenon DEF FlattenSeq
    <3>3. c = <<>>
      BY <3>1, EmptySeq
    <3> QED BY <3>2, <3>3
  <2>2. f[N] = <<>>
    BY <1>13, <1>12 DEF Joins
  <2> QED BY <1>1, <1>12, <2>1, <2>2
<1>14. CASE N # 0
  <2>1. \E h : IsLoop(h)
    <3>1. PICK h : h = [n \in 1..N |-> F[n]]
      OBVIOUS
    <3>2. \A i \in 1..N : h[i] = IF i = 1 THEN c[i] ELSE h[i - 1] \o c[i]
      <4> TAKE i \in 1..N
      <4>1. CASE i = 1
        <5>1. F[1] = e \o c[1] /\ c[1] \in Seq(A)
          <6>1. 1 \in 1..N /\ 1 - 1 = 0
            BY <4>1
          <6> QED BY <1>2, <1>4, <1>9, <6>1
        <5>2. e \o c[1] = c[1]
          BY <1>3, <5>1
        <5> QED BY <3>1, <4>1, <5>1, <5>2
      <4>2. CASE i # 1
        <5>1. i - 1 \in 1..N
          BY <4>2
        <5> QED BY <1>9, <3>1, <4>2, <5>1
      <4> QED BY <4>1, <4>2
    <3>3. h = [i \in 1..N |-> IF i = 1 THEN c[i] ELSE h[i - 1] \o c[i]]
      BY <3>1, <3>2
    <3>4. IsLoop(h)
      BY <1>1, <3>3
    <3> QED BY <3>4
  <2>2. PICK h : IsLoop(h) /\ FlattenSeq(c) = h[N]
    <3>1. IsLoop(CHOOSE h : IsLoop(h))
      <4> HIDE DEF IsLoop
      <4> QED BY <2>1
    <3>2. FlattenSeq(c) = (CHOOSE h : IsLoop(h))[N]
      BY <1>1, <1>14 DEF FlattenSeq
    <3> HIDE DEF IsLoop
    <3> QED BY <3>1, <3>2
  <2>3. \A i \in 1..N : h[i] = IF i = 1 THEN c[i] ELSE h[i - 1] \o c[i]
    BY <1>1, <2>2
  <2> DEFINE T == {n \in 1..N : h[n] = f[n]}
  <2>4. 1 \in T
    <3>1. 1 \in 1..N /\ 1 - 1 = 0 /\ 0 \in 0..N /\ 1 \in 0..N
      BY <1>14
    <3>2. h[1] = c[1] /\ f[1] = e \o c[1] /\ c[1] \in Seq(A)
      BY <1>2, <1>4, <1>9, <1>11, <2>3, <3>1
    <3>3. e \o c[1] = c[1]
      BY <1>3, <3>2
    <3> QED BY <3>1, <3>2, <3>3
  <2>5. \A n \in 1..(N - 1) : n \in T => n + 1 \in T
    <3> SUFFICES ASSUME NEW n \in 1..(N - 1), h[n] = f[n] PROVE n + 1 \in 1..N /\ h[n + 1] = f[n + 1]
      OBVIOUS
    <3>1. n + 1 \in 1..N /\ n + 1 # 1 /\ (n + 1) - 1 = n
      OBVIOUS
    <3>2. h[n + 1] = h[n] \o c[n + 1]
      BY <2>3, <3>1
    <3>3. f[n + 1] = f[n] \o c[n + 1]
      BY <1>12, <3>1 DEF Joins
    <3> QED BY <3>1, <3>2, <3>3
  <2> HIDE DEF T
  <2>6. N \in T
    <3>1. 1 \in Int /\ N \in Int /\ N \in 1..N
      BY <1>14
    <3> QED BY <2>4, <2>5, <3>1, InductBetween
  <2>7. h[N] = f[N]
    BY <2>6 DEF T
  <2> QED BY <1>1, <1>12, <2>2, <2>7
<1> QED BY <1>13, <1>14

\* Each byte takes one to three characters, and what has been written stays.
LEMMA Written ==
  ASSUME NEW s \in Seq(Byte), NEW f \in [0..Len(s) -> Seq(Byte)],
         f[0] = <<>>, \A n \in 1..Len(s) : f[n] = f[n - 1] \o EncodedByte(s[n])
  PROVE  /\ \A n \in 0..Len(s) : n <= Len(f[n]) /\ Len(f[n]) <= 3 * n
         /\ \A n \in 0..Len(s) :
              Len(f[n]) <= Len(f[Len(s)]) /\ \A i \in 1..Len(f[n]) : f[Len(s)][i] = f[n][i]
<1>1. PICK N \in Nat : N = Len(s)
  OBVIOUS
<1>2. PICK c : c = [n \in 1..N |-> EncodedByte(s[n])]
  OBVIOUS
<1>3. ASSUME NEW n \in 1..N PROVE c[n] \in Seq(Byte) /\ Len(c[n]) \in 1..3
  <2>1. s[n] \in Byte
    BY <1>1
  <2> QED BY <1>2, <2>1, EncodedBytes
<1>4. c \in [1..N -> Seq(Byte)]
  BY <1>2, <1>3
<1>5. f \in [0..N -> Seq(Byte)] /\ Joins(Byte, N, c, f)
  BY <1>1, <1>2, <1>4 DEF Joins
<1>6. AddsUp(N, c, f) /\ Keeps(N, f)
  BY <1>5, Joined
<1>7. \A n \in 0..N : Len(f[n]) <= Len(f[N]) /\ \A i \in 1..Len(f[n]) : f[N][i] = f[n][i]
  BY <1>6 DEF Keeps
<1>8. \A n \in 0..N : n <= Len(f[n]) /\ Len(f[n]) <= 3 * n
  <2> DEFINE T == {n \in 0..N : n <= Len(f[n]) /\ Len(f[n]) <= 3 * n}
  <2>1. 0 \in T
    OBVIOUS
  <2>2. \A n \in 0..(N - 1) : n \in T => n + 1 \in T
    <3> SUFFICES ASSUME NEW n \in 0..(N - 1), n \in T PROVE n + 1 \in T
      OBVIOUS
    <3>1. n \in 0..N /\ n + 1 \in 0..N /\ n + 1 \in 1..N
      OBVIOUS
    <3>2. PICK x \in Nat, y \in 1..3 : x = Len(f[n]) /\ y = Len(c[n + 1])
      <4>1. Len(f[n]) \in Nat
        BY <1>5, <3>1
      <4>2. Len(c[n + 1]) \in 1..3
        BY <1>3, <3>1
      <4> QED BY <4>1, <4>2
    <3>3. Len(f[n + 1]) = x + y /\ n <= x /\ x <= 3 * n
      BY <1>6, <3>2 DEF AddsUp
    <3>4. n + 1 <= x + y /\ x + y <= 3 * (n + 1)
      BY <3>3
    <3> QED BY <3>1, <3>3, <3>4
  <2> HIDE DEF T
  <2>3. 0..N \subseteq T
    <3>1. N \in Int /\ 0 \in Int
      OBVIOUS
    <3> QED BY <2>1, <2>2, <3>1, InductBetween
  <2> QED BY <2>3 DEF T
<1> QED BY <1>1, <1>7, <1>8

\* Where an encoded byte stands, a round of the decoding loop reads all of it.
LEMMA RoundReads ==
  ASSUME NEW t \in Seq(Byte), NEW b \in Byte, NEW r \in DecodeStates(t),
         r.at + Len(EncodedByte(b)) <= Len(t) + 1,
         \A i \in 1..Len(EncodedByte(b)) : t[r.at + (i - 1)] = EncodedByte(b)[i]
  PROVE  DecodeRound(t, r) = [at |-> r.at + Len(EncodedByte(b)), out |-> Append(r.out, b)]
<1>1. PICK p, o : p = r.at /\ o = r.out
  OBVIOUS
<1>2. PICK N \in Nat : N = Len(t)
  OBVIOUS
<1>3. p \in 1..(N + 1)
  BY <1>1, <1>2 DEF DecodeStates
<1>4. CASE EncodedByte(b) = <<b>> /\ b # Percent /\ b # Plus
  <2>1. Len(<<b>>) = 1 /\ <<b>>[1] = b /\ 1 \in 1..1 /\ p + (1 - 1) = p
    BY <1>3
  <2>2. t[p] = b /\ p <= N
    BY <1>1, <1>2, <1>3, <1>4, <2>1
  <2>3. ~IsEncoded(t, p)
    BY <1>4, <2>2 DEF IsEncoded
  <2>4. DecodeRound(t, r) = [at |-> p + 1, out |-> Append(o, b)]
    BY <1>1, <1>2, <1>3, <1>4, <2>2, <2>3 DEF DecodeRound
  <2> QED BY <1>1, <1>4, <2>1, <2>4
<1>5. ASSUME NEW h \in 0..15, NEW l \in 0..15, b = 16 * h + l,
             EncodedByte(b) = <<Percent, UpperHex(h), UpperHex(l)>>
      PROVE  DecodeRound(t, r) = [at |-> r.at + Len(EncodedByte(b)), out |-> Append(r.out, b)]
  <2>1. PICK x, y : x = UpperHex(h) /\ y = UpperHex(l) /\ x \in DOMAIN HexValue /\ y \in DOMAIN HexValue
                    /\ HexValue[x] = h /\ HexValue[y] = l
    BY DigitsRead
  <2>2. PICK e : e = <<Percent, x, y>>
    OBVIOUS
  <2>3. Len(e) = 3 /\ e[1] = Percent /\ e[2] = x /\ e[3] = y
    BY <2>2
  <2>4. EncodedByte(b) = e
    BY <1>5, <2>1, <2>2
  <2>5. p + 3 <= N + 1 /\ \A i \in 1..3 : t[p + (i - 1)] = e[i]
    BY <1>1, <1>2, <2>3, <2>4
  <2>6. t[p] = Percent /\ t[p + 1] = x /\ t[p + 2] = y
    <3>1. 1 \in 1..3 /\ 2 \in 1..3 /\ 3 \in 1..3
      OBVIOUS
    <3>2. t[p + (1 - 1)] = e[1] /\ t[p + (2 - 1)] = e[2] /\ t[p + (3 - 1)] = e[3]
      BY <2>5, <3>1
    <3>3. p + (1 - 1) = p /\ p + (2 - 1) = p + 1 /\ p + (3 - 1) = p + 2
      BY <1>3
    <3> QED BY <2>3, <3>2, <3>3
  <2>7. IsEncoded(t, p) /\ p <= N
    BY <1>2, <1>3, <2>1, <2>5, <2>6 DEF IsEncoded
  <2>8. DecodeRound(t, r) = [at |-> p + 3, out |-> Append(o, 16 * HexValue[t[p + 1]] + HexValue[t[p + 2]])]
    BY <1>1, <1>2, <1>3, <2>7 DEF DecodeRound
  <2>9. 16 * HexValue[t[p + 1]] + HexValue[t[p + 2]] = b
    BY <1>5, <2>1, <2>6
  <2> QED BY <1>1, <2>3, <2>4, <2>8, <2>9
<1> QED BY <1>4, <1>5, EncodedShape

\* What is appended to a text is found behind it.
LEMMA Behind ==
  ASSUME NEW A, NEW u \in Seq(A), NEW e \in Seq(A)
  PROVE  \A i \in 1..Len(e) : (u \o e)[Len(u) + i] = e[i]
<1> SUFFICES ASSUME NEW i \in 1..Len(e) PROVE (u \o e)[Len(u) + i] = e[i]
  OBVIOUS
<1>1. Len(u) \in Nat /\ Len(e) \in Nat
  OBVIOUS
<1>2. Len(u) + i \in 1..(Len(u) + Len(e)) /\ Len(u) + i > Len(u) /\ (Len(u) + i) - Len(u) = i
  BY <1>1
<1> QED BY <1>2, ConcatProperties

\* What is encoded is decoded to the same text, in the room allocated for each
\* (http_support.c:113-163).
THEOREM RoundTrip ==
  ASSUME NEW s \in Seq(Byte)
  PROVE  /\ http_url_decode(http_url_encode(s)) = s
         /\ Len(http_url_encode(s)) <= 3 * Len(s)
         /\ Len(http_url_decode(s)) <= Len(s)
<1>1. PICK N \in Nat : N = Len(s)
  OBVIOUS
<1>2. PICK f \in [0..N -> Seq(Byte)] :
        /\ f[0] = <<>> /\ \A n \in 1..N : f[n] = f[n - 1] \o EncodedByte(s[n])
        /\ http_url_encode(s) = f[N]
  BY <1>1, EncodingLoop
<1>3. PICK t \in Seq(Byte) : t = f[N] /\ t = http_url_encode(s)
  BY <1>2
<1>4. PICK M \in Nat : M = Len(t)
  OBVIOUS
<1>5. /\ \A n \in 0..N : n <= Len(f[n]) /\ Len(f[n]) <= 3 * n
      /\ \A n \in 0..N : Len(f[n]) <= M /\ \A i \in 1..Len(f[n]) : t[i] = f[n][i]
  <2>1. f \in [0..Len(s) -> Seq(Byte)] /\ f[0] = <<>>
    BY <1>1, <1>2
  <2>2. \A n \in 1..Len(s) : f[n] = f[n - 1] \o EncodedByte(s[n])
    BY <1>1, <1>2
  <2>3. \A n \in 0..Len(s) : n <= Len(f[n]) /\ Len(f[n]) <= 3 * n
    BY <2>1, <2>2, Written
  <2>4. \A n \in 0..Len(s) :
          Len(f[n]) <= Len(f[Len(s)]) /\ \A i \in 1..Len(f[n]) : f[Len(s)][i] = f[n][i]
    BY <2>1, <2>2, Written
  <2> QED BY <1>1, <1>3, <1>4, <2>3, <2>4
<1>6. N <= M /\ M <= 3 * N
  <2>1. N \in 0..N /\ Len(f[N]) = M
    BY <1>3, <1>4
  <2> QED BY <1>5, <2>1
<1>7. PICK g \in [0..M -> DecodeStates(t)] :
        /\ g[0] = [at |-> 1, out |-> <<>>]
        /\ \A n \in 1..M : g[n] = DecodeRound(t, g[n - 1])
        /\ http_url_decode(t) = g[M].out
  BY <1>4, DecodingLoop
\* After n rounds the first n bytes are decoded.
<1> DEFINE Decoded(n) == /\ g[n].at = Len(f[n]) + 1
                         /\ g[n].out \in Seq(Byte) /\ Len(g[n].out) = n
                         /\ \A i \in 1..n : g[n].out[i] = s[i]
<1>8. \A n \in 0..N : Decoded(n)
  <2> DEFINE T == {n \in 0..N : Decoded(n)}
  <2>1. 0 \in T
    <3>1. PICK o \in Seq(Byte) : o = <<>> /\ Len(o) = 0
      <4>1. <<>> \in Seq(Byte) /\ Len(<<>>) = 0
        OBVIOUS
      <4> QED BY <4>1
    <3>2. f[0] = o /\ g[0].at = 1 /\ g[0].out = o
      BY <1>2, <1>7, <3>1
    <3> QED BY <3>1, <3>2
  <2>2. \A n \in 0..(N - 1) : n \in T => n + 1 \in T
    <3> SUFFICES ASSUME NEW n \in 0..(N - 1), Decoded(n) PROVE n + 1 \in 0..N /\ Decoded(n + 1)
      OBVIOUS
    <3>1. n + 1 \in 1..N /\ n + 1 \in 0..N /\ (n + 1) - 1 = n /\ n \in 0..N /\ n + 1 \in 1..M /\ n \in 0..M
      BY <1>6
    <3>2. PICK b \in Byte : b = s[n + 1]
      BY <1>1, <3>1
    <3>3. PICK e \in Seq(Byte) : e = EncodedByte(b) /\ Len(e) \in 1..3
      BY EncodedBytes
    <3>4. PICK u \in Seq(Byte) : u = f[n] /\ f[n + 1] = u \o e
      BY <1>2, <3>1, <3>2, <3>3
    <3>5. PICK p \in Nat, l \in 1..3 : p = Len(u) /\ l = Len(e)
      <4>1. Len(u) \in Nat
        OBVIOUS
      <4> QED BY <3>3, <4>1
    <3>6. Len(f[n + 1]) = p + l /\ \A i \in 1..l : f[n + 1][p + i] = e[i]
      <4>0. u \o e \in Seq(Byte) /\ Len(u \o e) = Len(u) + Len(e)
        BY ConcatProperties
      <4>1. PICK c \in Seq(Byte) : c = u \o e /\ Len(c) = p + l
        BY <3>5, <4>0
      <4>2. \A i \in 1..Len(e) : (u \o e)[Len(u) + i] = e[i]
        BY Behind
      <4>3. \A i \in 1..l : c[p + i] = e[i]
        BY <3>5, <4>1, <4>2
      <4> QED BY <3>4, <4>1, <4>3
    <3>7. p + l <= M /\ \A i \in 1..(p + l) : t[i] = f[n + 1][i]
      BY <1>5, <3>1, <3>6
    <3>8. PICK r \in DecodeStates(t) : r = g[n]
      BY <1>7, <3>1
    <3>9. r.at = p + 1
      BY <3>4, <3>5, <3>8
    <3>10. \A i \in 1..l : t[(p + 1) + (i - 1)] = e[i]
      <4> TAKE i \in 1..l
      <4>1. i \in Nat /\ 1 <= i /\ i <= l
        OBVIOUS
      <4>2. (p + 1) + (i - 1) = p + i /\ p + i \in 1..(p + l)
        BY <4>1
      <4> QED BY <3>6, <3>7, <4>2
    <3>11. DecodeRound(t, r) = [at |-> r.at + l, out |-> Append(r.out, b)]
      <4>1. r.at + Len(EncodedByte(b)) <= Len(t) + 1
        BY <1>4, <3>3, <3>5, <3>7, <3>9
      <4>2. \A i \in 1..Len(EncodedByte(b)) : t[r.at + (i - 1)] = EncodedByte(b)[i]
        BY <3>3, <3>5, <3>9, <3>10
      <4> QED BY <3>3, <3>5, <4>1, <4>2, RoundReads
    <3>12. g[n + 1] = [at |-> p + 1 + l, out |-> Append(r.out, b)]
      BY <1>7, <3>1, <3>8, <3>9, <3>11
    <3>13. PICK o \in Seq(Byte) : o = r.out /\ Len(o) = n /\ \A i \in 1..n : o[i] = s[i]
      BY <3>8
    <3>14. PICK a : a = Append(o, b)
      OBVIOUS
    <3>15. a \in Seq(Byte) /\ Len(a) = n + 1
      BY <3>13, <3>14, AppendProperties, SMTT(30)
    <3>16. \A i \in 1..(n + 1) : a[i] = s[i]
      <4> TAKE i \in 1..(n + 1)
      <4>1. CASE i = n + 1
        <5>1. a[i] = b
          BY <3>13, <3>14, <4>1, AppendProperties, SMTT(30)
        <5> QED BY <3>2, <4>1, <5>1
      <4>2. CASE i # n + 1
        <5>1. i \in 1..n
          BY <4>2
        <5>2. a[i] = o[i]
          BY <3>13, <3>14, <5>1, AppendProperties
        <5> QED BY <3>13, <5>1, <5>2
      <4> QED BY <4>1, <4>2
    <3>18. g[n + 1].at = p + 1 + l /\ g[n + 1].out = a
      <4>1. g[n + 1] = [at |-> p + 1 + l, out |-> a]
        BY <3>12, <3>13, <3>14
      <4> QED BY <4>1
    <3>17. p + 1 + l = Len(f[n + 1]) + 1
      BY <3>6
    <3> QED BY <3>1, <3>15, <3>16, <3>17, <3>18
  <2> HIDE DEF T, Decoded
  <2>3. 0..N \subseteq T
    <3>1. N \in Int /\ 0 \in Int
      OBVIOUS
    <3> QED BY <2>1, <2>2, <3>1, InductBetween
  <2> QED BY <2>3 DEF T
<1>9. Decoded(N) /\ g[N].at = M + 1
  <2>1. N \in 0..N /\ Len(f[N]) = M
    BY <1>3, <1>4
  <2>2. Decoded(N)
    BY <1>8, <2>1
  <2> QED BY <2>1, <2>2
<1>10. g[N].out = s
  <2>1. PICK o \in Seq(Byte) : o = g[N].out /\ Len(o) = N /\ \A i \in 1..N : o[i] = s[i]
    BY <1>9
  <2>2. o = s
    BY <1>1, <2>1, SeqEqual
  <2> QED BY <2>1, <2>2
<1> HIDE DEF Decoded
\* The rounds that are left find nothing to read.
<1>11. g[M] = g[N]
  <2> DEFINE T == {n \in N..M : g[n] = g[N]}
  <2>1. N \in T
    BY <1>6
  <2>2. \A n \in N..(M - 1) : n \in T => n + 1 \in T
    <3> SUFFICES ASSUME NEW n \in N..(M - 1), g[n] = g[N] PROVE n + 1 \in N..M /\ g[n + 1] = g[N]
      OBVIOUS
    <3>1. n + 1 \in 1..M /\ (n + 1) - 1 = n /\ n + 1 \in N..M
      OBVIOUS
    <3>2. g[n + 1] = DecodeRound(t, g[N])
      BY <1>7, <3>1
    <3>3. g[N].at > Len(t)
      BY <1>4, <1>9
    <3>4. DecodeRound(t, g[N]) = g[N]
      BY <1>4, <1>9, <3>3 DEF DecodeRound
    <3> QED BY <3>1, <3>2, <3>4
  <2> HIDE DEF T
  <2>3. N..M \subseteq T
    <3>1. N \in Int /\ M \in Int
      OBVIOUS
    <3> QED BY <2>1, <2>2, <3>1, InductBetween
  <2> QED BY <1>6, <2>3 DEF T
<1>12. http_url_decode(http_url_encode(s)) = s
  BY <1>3, <1>7, <1>10, <1>11
<1>13. Len(http_url_decode(s)) <= Len(s)
  <2>1. PICK h \in [0..N -> DecodeStates(s)] : http_url_decode(s) = h[N].out
    BY <1>1, DecodingLoop
  <2>2. PICK r \in DecodeStates(s) : r = h[N]
    BY <2>1
  <2>3. Len(r.out) < r.at /\ r.at <= N + 1 /\ Len(r.out) \in Nat /\ r.at \in Nat
    BY <1>1 DEF DecodeStates
  <2> QED BY <1>1, <2>1, <2>2, <2>3
<1> QED BY <1>1, <1>3, <1>4, <1>6, <1>12, <1>13
-----------------------------------------------------------------------------
(* The machine that drives them *)

\* The times stay as gettimeofday gives them, the timer was in reach when it was
\* set, and the text is a C string.
HelpersInv ==
  /\ now \in timeval /\ due \in timeval /\ armed \in timeval /\ InReach(due, armed)
  /\ text \in Seq(Byte) /\ what \in Kinds \cup {"times", "buffer"}

LEMMA LaterIsATime == \A t \in timeval, d \in Nat : Later(t, d) \in timeval
BY Exact DEF LaterIsExact

\* A delay is in reach.
LEMMA LaterIsInReach == \A t \in timeval, d \in 0..IntMax : InReach(Later(t, d), t)
<1> SUFFICES ASSUME NEW t \in timeval, NEW d \in 0..IntMax
             PROVE  InReach(Later(t, d), t)
  OBVIOUS
<1>1. IntMax \in Nat /\ d \in Nat /\ d <= IntMax
  BY IntAssumption
<1>2. Micros(Later(t, d)) = Micros(t) + 1000 * d
  BY <1>1, Exact DEF LaterIsExact
<1>3. Micros(t) \in Nat
  BY DEF timeval, Micros, Million
<1> QED BY <1>1, <1>2, <1>3 DEF InReach

LEMMA HelpersStart == Init => HelpersInv
<1> SUFFICES ASSUME Init PROVE HelpersInv
  OBVIOUS
<1>1. now \in timeval
  BY HelpersAssumption DEF HelpersAssumption, Init, timeval, Million
<1>2. PICK d \in 0..IntMax : due = Later(now, d)
  BY HelpersAssumption, IntAssumption DEF HelpersAssumption, Init
<1>3. text \in Seq(Byte)
  <2>1. <<>> \in Seq(Byte) /\ <<Quote>> \in Seq(Byte)
    BY DEF Byte, Quote
  <2> QED BY <2>1 DEF Init
<1>4. what \in Kinds \cup {"times", "buffer"}
  BY DEF Init
<1>5. due \in timeval /\ armed = now /\ InReach(due, armed)
  <2>1. armed = now /\ d \in Nat
    BY IntAssumption DEF Init
  <2> QED BY <1>1, <1>2, <2>1, LaterIsATime, LaterIsInReach
<1> QED BY <1>1, <1>3, <1>4, <1>5 DEF HelpersInv

\* The timeout is a number.
LEMMA TimeoutType == \A a, b \in timeval : Timeout(a, b) \in Int
<1> SUFFICES ASSUME NEW a \in timeval, NEW b \in timeval
             PROVE  Timeout(a, b) \in Int
  OBVIOUS
<1>1. \A u \in Int : Quotient(u, 1000) \in Int
  BY DEF Quotient
<1>2. PICK ms \in Int : Timeout(a, b) = IF ms < 0 THEN 0 ELSE ToInt(ms)
  <2>1. a.tv_sec - b.tv_sec \in Int /\ a.tv_usec - b.tv_usec \in Int
    BY DEF timeval
  <2> QED BY <1>1, <2>1 DEF Timeout
<1>3. ToInt(ms) \in Int
  <2>1. PICK m \in Nat \ {0} : m = 2 * (IntMax + 1)
    BY IntAssumption
  <2>2. ms % m \in Int
    BY <2>1
  <2> QED BY <2>1, <2>2 DEF ToInt
<1> QED BY <1>2, <1>3

LEMMA HelpersKeep == HelpersInv /\ [Next]_vars => HelpersInv'
<1> SUFFICES ASSUME HelpersInv, [Next]_vars PROVE HelpersInv'
  OBVIOUS
<1>1. CASE Set /\ UNCHANGED <<what, text>>
  <2>1. PICK d \in 0..IntMax : due' = Later(now, d)
    BY <1>1, HelpersAssumption DEF HelpersAssumption, Set
  <2>2. d \in Nat /\ armed' = now /\ now' = now
    BY <1>1, IntAssumption DEF Set
  <2> QED BY <1>1, <2>1, <2>2, LaterIsATime, LaterIsInReach DEF HelpersInv, InReach
<1>2. CASE Sleep /\ UNCHANGED <<what, text>>
  <2>1. Timeout(due, now) \in Nat
    BY <1>2, TimeoutType DEF HelpersInv, Sleep
  <2> QED BY <1>2, <2>1, LaterIsATime DEF HelpersInv, Sleep, InReach
<1>3. CASE (Wake \/ SetBack) /\ UNCHANGED <<what, text>>
  <2>1. now' \in timeval /\ UNCHANGED <<due, armed>>
    <3>1. CASE Wake
      BY <3>1 DEF HelpersInv, Wake, timeval, Million
    <3>2. CASE SetBack
      BY <3>2, HelpersAssumption DEF HelpersAssumption, SetBack
    <3> QED BY <1>3, <3>1, <3>2
  <2> QED BY <1>3, <2>1 DEF HelpersInv, InReach
<1>4. CASE UNCHANGED <<what, times, text>>
  BY <1>4 DEF HelpersInv, times, InReach
<1>5. CASE Extended /\ UNCHANGED <<what, times>>
  <2>1. PICK piece \in Pieces[what] : text' = text \o piece
    BY <1>5 DEF Extended
  <2>2. piece \in Seq(Byte)
    BY <1>5, <2>1, HelpersAssumption DEF HelpersAssumption, Extended
  <2>3. text' \in Seq(Byte)
    BY <2>1, <2>2 DEF HelpersInv
  <2> QED BY <1>5, <2>3 DEF HelpersInv, times, InReach
<1>6. CASE UNCHANGED vars
  BY <1>4, <1>6 DEF vars, times
<1>7. CASE Next
  <2>1. CASE (Set \/ Sleep \/ Wake \/ SetBack) /\ UNCHANGED <<what, text, pieces, bufvars>>
    BY <1>1, <1>2, <1>3, <2>1
  <2>2. CASE what = "buffer" /\ UNCHANGED <<what, times, text, pieces>>
    BY <1>4, <2>2
  <2>3. CASE Extended /\ UNCHANGED <<what, times, bufvars>>
    BY <1>5, <2>3
  <2> QED BY <1>7, <2>1, <2>2, <2>3 DEF Next
<1> QED BY <1>6, <1>7

LEMMA HelpersHold == Spec => []HelpersInv
BY HelpersStart, HelpersKeep, PTL DEF Spec

\* Whatever times the machine comes to, due times and comparisons are exact, and so
\* is the timeout of a timer that is in reach, as it is as long as the clock is not
\* set back behind the time the timer was set, for every delay an int can hold
\* (http_support.c:5, 42, 69-82, 215-225).
THEOREM Times == Spec => []TimesAreExact
<1>1. HelpersInv => TimesAreExact
  <2> SUFFICES ASSUME HelpersInv
               PROVE  TimesAreExact
    OBVIOUS
  <2>1. now \in timeval /\ due \in timeval /\ armed \in timeval
    BY DEF HelpersInv
  <2>2. \A d \in DelaysMs : d \in Nat
    BY HelpersAssumption, IntAssumption DEF HelpersAssumption
  <2>3. ~Before(now, armed) => InReach(due, now)
    <3>1. Before(now, armed) <=> Micros(now) < Micros(armed)
      BY <2>1, Ordered DEF BeforeIsByTime
    <3>2. Micros(due) \in Int /\ Micros(now) \in Int /\ Micros(armed) \in Int /\ 1000 * IntMax \in Int
      BY <2>1, IntAssumption DEF timeval, Micros, Million
    <3>3. Micros(due) - Micros(armed) <= 1000 * IntMax
      BY DEF HelpersInv, InReach
    <3> QED BY <3>1, <3>2, <3>3 DEF InReach
  <2> QED BY <2>1, <2>2, <2>3, Exact, Ordered, Close DEF TimesAreExact
<1> QED BY <1>1, HelpersHold, PTL

\* Whatever text is put together, it survives URL encoding, and each conversion
\* fits what was allocated for it (http_support.c:113-163).
THEOREM Url == Spec => []UrlRoundTrip
<1>1. HelpersInv => UrlRoundTrip
  BY RoundTrip DEF HelpersInv, UrlRoundTrip
<1> QED BY <1>1, HelpersHold, PTL

-----------------------------------------------------------------------------
(* Loops *)

\* g is the loop that begins with a and of which G is a round, up to round N.
Loops(g, N, a, G) == g[0] = a /\ \A n \in 1..N : g[n] = G[g[n - 1]]

\* A loop is a function of the number of its rounds.
LEMMA Looping ==
  ASSUME NEW S, NEW a \in S, NEW N \in Nat, NEW G \in [S -> S]
  PROVE  \E g \in [0..N -> S] : Loops(g, N, a, G)
<1>1. PICK H : H = [n \in Nat |-> G]
  OBVIOUS
<1>2. H \in [Nat -> [S -> S]] /\ \A n \in Nat : H[n] = G
  BY <1>1
<1>3. PICK f \in [Nat -> S] : Iterates(f, a, H)
  BY <1>2, Recursion
<1>4. PICK g : g = [n \in 0..N |-> f[n]]
  OBVIOUS
<1>5. \A n \in 0..N : g[n] = f[n] /\ n \in Nat
  BY <1>4
<1>6. g \in [0..N -> S]
  BY <1>4
<1>7. g[0] = a
  <2>1. 0 \in 0..N
    OBVIOUS
  <2> QED BY <1>3, <1>5, <2>1 DEF Iterates
<1>8. ASSUME NEW n \in 1..N PROVE g[n] = G[g[n - 1]]
  <2>1. PICK k \in Nat : k = n - 1 /\ k + 1 = n /\ k \in 0..N /\ n \in 0..N
    OBVIOUS
  <2>2. f[k + 1] = H[k][f[k]]
    BY <1>3, <2>1 DEF Iterates
  <2>3. f[n] = G[f[k]]
    BY <1>2, <2>1, <2>2
  <2> QED BY <1>5, <2>1, <2>3
<1> QED BY <1>6, <1>7, <1>8 DEF Loops

\* What holds before a loop and is kept by each round holds after all of them.
LEMMA Staying ==
  ASSUME NEW N \in Nat, NEW T, NEW f, f[0] \in T, \A n \in 1..N : f[n - 1] \in T => f[n] \in T
  PROVE  \A n \in 0..N : f[n] \in T
<1> DEFINE U == {n \in 0..N : f[n] \in T}
<1>1. 0 \in U
  OBVIOUS
<1>2. \A n \in 0..(N - 1) : n \in U => n + 1 \in U
  <2> SUFFICES ASSUME NEW n \in 0..(N - 1), n \in U PROVE n + 1 \in U
    OBVIOUS
  <2>1. PICK m \in 1..N : m = n + 1 /\ m - 1 = n /\ m \in 0..N
    OBVIOUS
  <2>2. f[m - 1] \in T
    BY <2>1
  <2> QED BY <2>1, <2>2
<1> HIDE DEF U
<1>3. 0..N \subseteq U
  <2>1. N \in Int /\ 0 \in Int
    OBVIOUS
  <2> QED BY <1>1, <1>2, <2>1, InductBetween
<1> QED BY <1>3 DEF U

-----------------------------------------------------------------------------
(* The end of a string *)

\* A byte of a text that may hold a NUL.
Octet == 0..255

LEMMA Bytewise ==
  ASSUME NEW t \in Seq(Octet), NEW i \in Int
  PROVE  /\ At(t, i) \in Octet \cup {Outside}
         /\ At(t, i) # Outside <=> i \in 0..(Len(t) - 1)
         /\ i \in 0..(Len(t) - 1) => At(t, i) = t[i + 1] /\ At(t, i) \in Octet
<1>1. PICK N \in Nat : N = Len(t)
  OBVIOUS
<1>2. CASE i \in 0..(N - 1)
  <2>1. t[i + 1] \in Octet /\ At(t, i) = t[i + 1]
    BY <1>1, <1>2 DEF At
  <2>2. At(t, i) # Outside
    <3>1. PICK b \in 0..255 : b = At(t, i)
      BY <2>1 DEF Octet
    <3>2. b # -1
      OBVIOUS
    <3> QED BY <3>1, <3>2 DEF Outside
  <2> QED BY <1>1, <1>2, <2>1, <2>2
<1>3. CASE i \notin 0..(N - 1)
  BY <1>1, <1>3 DEF At
<1> QED BY <1>2, <1>3

\* The escapes and bytes from i to end, as they are counted beforehand: K of them,
\* the nth from p[n].
Counted(t, p, K, i, end) ==
  /\ K \in Nat /\ p \in [0..K -> Nat] /\ p[0] = i /\ p[K] = end
  /\ \A n \in 0..(K - 1) : p[n] < end /\ p[n + 1] = p[n] + IF At(t, p[n]) = Backslash THEN 2 ELSE 1

EndStates(t) == [at : 0..Len(t), skipped : Nat]

LEMMA EndRoundStays ==
  ASSUME NEW t \in Seq(Octet), NEW r \in EndStates(t)
  PROVE  EndRound(t, r) \in EndStates(t)
<1>0. PICK N \in Nat : N = Len(t)
  OBVIOUS
<1>1. PICK a \in 0..N, k \in Nat : r = [at |-> a, skipped |-> k]
  BY <1>0 DEF EndStates
<1>2. CASE At(t, a) \in {Outside, Quote}
  <2>1. EndRound(t, r) = r
    BY <1>1, <1>2 DEF EndRound, Outside, Quote, Backslash
  <2> QED BY <2>1
<1>3. CASE At(t, a) \notin {Outside, Quote}
  <2>1. a \in 0..(N - 1)
    BY <1>0, <1>3, Bytewise
  <2>2. \/ EndRound(t, r) = [at |-> N, skipped |-> k]
        \/ a + 1 < N /\ EndRound(t, r) = [at |-> a + 2, skipped |-> k + 1]
        \/ EndRound(t, r) = [at |-> a + 1, skipped |-> k]
    BY <1>0, <1>1, <1>3, <2>1 DEF EndRound
  <2> QED BY <1>0, <2>1, <2>2 DEF EndStates
<1> QED BY <1>2, <1>3

\* The loop of parse_string that looks for the end.
LEMMA EndLoop ==
  ASSUME NEW t \in Seq(Octet), NEW i \in 0..Len(t)
  PROVE  \E f \in [0..Len(t) -> EndStates(t)] :
           /\ f[0] = [at |-> i, skipped |-> 0]
           /\ \A n \in 1..Len(t) : f[n] = EndRound(t, f[n - 1])
           /\ EndOfString(t, i) = f[Len(t)]
<1> DEFINE start == [at |-> i, skipped |-> 0]
           IsLoop(f) == f = [n \in 0..Len(t) |-> IF n = 0 THEN start ELSE EndRound(t, f[n - 1])]
<1>1. PICK N \in Nat : N = Len(t)
  OBVIOUS
<1>2. PICK S : S = EndStates(t)
  OBVIOUS
<1>3. PICK a \in S : a = start
  BY <1>2 DEF EndStates
<1> HIDE DEF start
<1>4. PICK G : G = [r \in S |-> EndRound(t, r)]
  OBVIOUS
<1>5. G \in [S -> S]
  BY <1>2, <1>4, EndRoundStays
<1>6. PICK g \in [0..N -> S] : Loops(g, N, a, G)
  BY <1>5, Looping
<1>7. IsLoop(g)
  <2>1. ASSUME NEW n \in 0..N PROVE g[n] = IF n = 0 THEN start ELSE EndRound(t, g[n - 1])
    <3>1. CASE n = 0
      BY <1>3, <1>6, <3>1 DEF Loops
    <3>2. CASE n # 0
      <4>1. n \in 1..N /\ n - 1 \in 0..N
        BY <3>2
      <4>2. g[n] = G[g[n - 1]] /\ g[n - 1] \in S
        BY <1>6, <4>1 DEF Loops
      <4> QED BY <1>4, <3>2, <4>2
    <3> QED BY <3>1, <3>2
  <2> QED BY <1>1, <1>6, <2>1
<1>8. PICK f : IsLoop(f) /\ EndOfString(t, i) = f[Len(t)]
  <2>1. IsLoop(CHOOSE f : IsLoop(f))
    <3> HIDE DEF IsLoop
    <3> QED BY <1>7
  <2>2. EndOfString(t, i) = (CHOOSE f : IsLoop(f))[Len(t)]
    BY DEF EndOfString, start
  <2> HIDE DEF IsLoop
  <2> QED BY <2>1, <2>2
<1>9. f[0] = a /\ \A n \in 1..N : f[n] = EndRound(t, f[n - 1])
  <2>1. \A n \in 0..N : f[n] = IF n = 0 THEN start ELSE EndRound(t, f[n - 1])
    BY <1>1, <1>8, Zenon
  <2>2. 0 \in 0..N /\ \A n \in 1..N : n \in 0..N /\ n # 0
    OBVIOUS
  <2> QED BY <1>3, <2>1, <2>2, Zenon
<1>10. f \in [0..N -> S]
  <2>1. \A n \in 1..N : f[n - 1] \in S => f[n] \in S
    BY <1>2, <1>9, EndRoundStays
  <2>2. f[0] \in S
    BY <1>9
  <2>3. \A n \in 0..N : f[n] \in S
    BY <2>1, <2>2, Staying
  <2> QED BY <1>1, <1>8, <2>3
<1> HIDE DEF IsLoop
<1> QED BY <1>1, <1>2, <1>3, <1>8, <1>9, <1>10 DEF start

\* A round that does not end the loop.
LEMMA Counting ==
  ASSUME NEW t \in Seq(Octet), NEW r \in EndStates(t), At(t, r.at) \notin {Outside, Quote},
         EndRound(t, r).at < Len(t)
  PROVE  /\ EndRound(t, r).at = r.at + IF At(t, r.at) = Backslash THEN 2 ELSE 1
         /\ EndRound(t, r).skipped = r.skipped + IF At(t, r.at) = Backslash THEN 1 ELSE 0
<1>0. PICK N \in Nat : N = Len(t)
  OBVIOUS
<1>1. PICK a \in 0..N, k \in Nat : r = [at |-> a, skipped |-> k]
  BY <1>0 DEF EndStates
<1>2. CASE At(t, a) = Backslash
  <2>1. EndRound(t, r) = IF a + 1 >= N THEN [at |-> N, skipped |-> k] ELSE [at |-> a + 2, skipped |-> k + 1]
    BY <1>0, <1>1, <1>2 DEF EndRound, Outside, Quote, Backslash
  <2>2. a + 1 < N
    BY <1>0, <1>1, <2>1
  <2>3. EndRound(t, r) = [at |-> a + 2, skipped |-> k + 1]
    BY <2>1, <2>2
  <2> QED BY <1>1, <1>2, <2>3
<1>3. CASE At(t, a) # Backslash
  <2>1. EndRound(t, r) = [at |-> a + 1, skipped |-> k]
    BY <1>0, <1>1, <1>3 DEF EndRound
  <2> QED BY <1>1, <1>3, <2>1
<1> QED BY <1>2, <1>3

\* Once a round changes nothing, none does.
LEMMA EndStays ==
  ASSUME NEW t, NEW N \in Nat, NEW f, \A n \in 1..N : f[n] = EndRound(t, f[n - 1]),
         NEW n \in 0..N, At(t, f[n].at) \in {Outside, Quote}
  PROVE  f[n] = f[N]
<1> DEFINE T == {m \in n..N : f[m] = f[n]}
<1>1. n \in T
  OBVIOUS
<1>2. \A m \in n..(N - 1) : m \in T => m + 1 \in T
  <2> SUFFICES ASSUME NEW m \in n..(N - 1), f[m] = f[n] PROVE m + 1 \in n..N /\ f[m + 1] = f[n]
    OBVIOUS
  <2>1. m + 1 \in 1..N /\ (m + 1) - 1 = m /\ m + 1 \in n..N
    OBVIOUS
  <2>2. f[m + 1] = EndRound(t, f[n])
    BY <2>1
  <2>3. EndRound(t, f[n]) = f[n]
    BY DEF EndRound, Outside, Quote, Backslash
  <2> QED BY <2>1, <2>2, <2>3
<1> HIDE DEF T
<1>3. n..N \subseteq T
  <2>1. n \in Int /\ N \in Int
    OBVIOUS
  <2> QED BY <1>1, <1>2, <2>1, InductBetween
<1>4. N \in T
  BY <1>3
<1> QED BY <1>4 DEF T

\* Where a string ends with a quote, its escapes and bytes are counted.
LEMMA CountedString ==
  ASSUME NEW t \in Seq(Octet), NEW i \in 0..Len(t), At(t, EndOfString(t, i).at) = Quote
  PROVE  /\ EndOfString(t, i) \in EndStates(t)
         /\ \E K, p : /\ Counted(t, p, K, i, EndOfString(t, i).at)
                      /\ EndOfString(t, i).at = i + K + EndOfString(t, i).skipped
<1>1. PICK N \in Nat : N = Len(t)
  OBVIOUS
<1>2. PICK S : S = EndStates(t)
  OBVIOUS
<1>3. PICK f \in [0..N -> S] :
        /\ f[0] = [at |-> i, skipped |-> 0]
        /\ \A n \in 1..N : f[n] = EndRound(t, f[n - 1])
        /\ EndOfString(t, i) = f[N]
  BY <1>1, <1>2, EndLoop
<1>4. PICK end, skipped \in Nat : f[N] = [at |-> end, skipped |-> skipped] /\ end \in 0..N
  BY <1>1, <1>2, <1>3 DEF EndStates
<1>5. At(t, end) = Quote /\ end < N
  <2>1. At(t, end) = Quote
    BY <1>3, <1>4
  <2>2. Quote # Outside
    BY DEF Quote, Outside
  <2>3. end \in 0..(Len(t) - 1)
    BY <1>4, <2>1, <2>2, Bytewise
  <2> QED BY <1>1, <2>1, <2>3
<1>6. ASSUME NEW n \in 0..N, At(t, f[n].at) \in {Outside, Quote} PROVE f[n] = f[N]
  <2>1. \A k \in 1..N : f[k] = EndRound(t, f[k - 1])
    BY <1>3
  <2> QED BY <1>6, <2>1, EndStays, Zenon
<1>7. PICK K \in 0..N : f[K].at = end /\ \A n \in 0..(K - 1) : f[n].at # end
  <2> DEFINE T == {n \in 0..N : f[n].at = end}
  <2>1. N \in T /\ T \in SUBSET Nat
    BY <1>4
  <2>2. PICK K \in T : \A m \in T : K <= m
    BY <2>1, Smallest
  <2>3. \A n \in 0..(K - 1) : n \in 0..N /\ ~(K <= n)
    BY <2>2
  <2> QED BY <2>2, <2>3
\* Every round before the quote counts one.
<1>8. ASSUME NEW n \in 0..(K - 1)
      PROVE  /\ f[n + 1].at = f[n].at + IF At(t, f[n].at) = Backslash THEN 2 ELSE 1
             /\ f[n + 1].skipped = f[n].skipped + IF At(t, f[n].at) = Backslash THEN 1 ELSE 0
             /\ n \in 0..N /\ n + 1 \in 0..N
  <2>1. n \in 0..N /\ n + 1 \in 1..N /\ (n + 1) - 1 = n /\ n + 1 \in 0..N
    BY <1>7
  <2>2. PICK r \in S : r = f[n] /\ f[n + 1] = EndRound(t, r)
    BY <1>3, <2>1
  <2>3. At(t, r.at) \notin {Outside, Quote}
    <3> SUFFICES ASSUME At(t, r.at) \in {Outside, Quote} PROVE FALSE
      OBVIOUS
    <3>1. f[n] = f[N]
      BY <1>6, <2>1, <2>2
    <3> QED BY <1>4, <1>7, <3>1
  <2>4. f[n + 1].at < N
    <3> SUFFICES ASSUME ~(f[n + 1].at < N) PROVE FALSE
      OBVIOUS
    <3>2. f[n + 1].at \in 0..N
      BY <1>1, <1>2, <1>3, <2>1 DEF EndStates
    <3>3. f[n + 1].at = N
      BY <3>2
    <3>4. At(t, N) = Outside
      BY <1>1 DEF At
    <3>5. f[n + 1] = f[N]
      BY <1>6, <2>1, <3>3, <3>4
    <3> QED BY <1>4, <1>5, <3>3, <3>5
  <2>5. EndRound(t, r).at < Len(t)
    BY <1>1, <2>2, <2>4
  <2>6. /\ EndRound(t, r).at = r.at + IF At(t, r.at) = Backslash THEN 2 ELSE 1
        /\ EndRound(t, r).skipped = r.skipped + IF At(t, r.at) = Backslash THEN 1 ELSE 0
    BY <1>2, <2>3, <2>5, Counting
  <2> QED BY <2>1, <2>2, <2>6
<1>9. PICK p : p = [n \in 0..K |-> f[n].at]
  OBVIOUS
<1>10. \A n \in 0..K : n \in 0..N /\ p[n] = f[n].at /\ p[n] \in Nat /\ f[n].skipped \in Nat
  <2> TAKE n \in 0..K
  <2>1. n \in 0..N
    OBVIOUS
  <2>2. PICK r \in S : r = f[n]
    BY <2>1
  <2>3. r.at \in Nat /\ r.skipped \in Nat
    BY <1>1, <1>2 DEF EndStates
  <2> QED BY <1>9, <2>1, <2>2, <2>3
<1>11. \A n \in 0..K : f[n].at = i + n + f[n].skipped
  <2> DEFINE T == {n \in 0..K : f[n].at = i + n + f[n].skipped}
  <2>1. 0 \in T
    BY <1>3
  <2>2. \A n \in 0..(K - 1) : n \in T => n + 1 \in T
    <3> SUFFICES ASSUME NEW n \in 0..(K - 1), n \in T PROVE n + 1 \in T
      OBVIOUS
    <3>1. n \in 0..K /\ n + 1 \in 0..K
      OBVIOUS
    <3>2. PICK a \in Nat, k \in Nat : a = f[n].at /\ k = f[n].skipped /\ a = i + n + k
      BY <1>10, <3>1
    <3>3. \/ f[n + 1].at = a + 2 /\ f[n + 1].skipped = k + 1
          \/ f[n + 1].at = a + 1 /\ f[n + 1].skipped = k
      BY <1>8, <3>2
    <3>5. a + 2 = i + (n + 1) + (k + 1) /\ a + 1 = i + (n + 1) + k
      BY <3>2
    <3>4. f[n + 1].at = i + (n + 1) + f[n + 1].skipped
      BY <3>3, <3>5
    <3> QED BY <3>1, <3>4
  <2> HIDE DEF T
  <2>3. 0..K \subseteq T
    <3>1. K \in Int /\ 0 \in Int
      OBVIOUS
    <3> QED BY <2>1, <2>2, <3>1, InductBetween
  <2> QED BY <2>3 DEF T
<1>12. \A n \in 0..K : p[n] <= end
  <2> DEFINE T == {n \in 0..K : p[n] <= end => \A m \in 0..n : p[m] <= end}
  <2>1. 0 \in T
    OBVIOUS
  <2>2. \A n \in 0..(K - 1) : n \in T => n + 1 \in T
    <3> SUFFICES ASSUME NEW n \in 0..(K - 1), n \in T, p[n + 1] <= end
                 PROVE  \A m \in 0..(n + 1) : p[m] <= end
      OBVIOUS
    <3>1. n \in 0..K /\ n + 1 \in 0..K
      OBVIOUS
    <3>4. PICK x, y \in Nat : x = p[n] /\ y = p[n + 1]
      BY <1>10, <3>1
    <3>5. y = x + 2 \/ y = x + 1
      BY <1>8, <1>10, <3>1, <3>4
    <3>6. y <= end
      BY <3>4
    <3>7. x <= end
      BY <3>5, <3>6
    <3>2. p[n] <= end
      BY <3>4, <3>7
    <3>3. \A m \in 0..n : p[m] <= end
      BY <3>2
    <3> QED BY <3>1, <3>3
  <2> HIDE DEF T
  <2>3. 0..K \subseteq T
    <3>1. K \in Int /\ 0 \in Int
      OBVIOUS
    <3> QED BY <2>1, <2>2, <3>1, InductBetween
  <2>4. K \in T /\ p[K] <= end
    BY <1>7, <1>10, <2>3
  <2> QED BY <2>4 DEF T
<1>13. Counted(t, p, K, i, end)
  <2>1. p \in [0..K -> Nat]
    BY <1>9, <1>10
  <2>2. p[0] = i /\ p[K] = end
    BY <1>3, <1>7, <1>10
  <2>3. ASSUME NEW n \in 0..(K - 1)
        PROVE  p[n] < end /\ p[n + 1] = p[n] + IF At(t, p[n]) = Backslash THEN 2 ELSE 1
    <3>1. n \in 0..K /\ n + 1 \in 0..K
      OBVIOUS
    <3>2. p[n] <= end /\ p[n] # end /\ p[n] \in Nat
      BY <1>7, <1>10, <1>12, <3>1
    <3>3. p[n + 1] = p[n] + IF At(t, p[n]) = Backslash THEN 2 ELSE 1
      BY <1>8, <1>10, <3>1
    <3> QED BY <3>2, <3>3
  <2> QED BY <2>1, <2>2, <2>3 DEF Counted
<1>14. f[K] = f[N]
  BY <1>5, <1>6, <1>7
<1>15. end = i + K + skipped
  BY <1>4, <1>11, <1>14
<1> QED BY <1>2, <1>3, <1>4, <1>13, <1>15

-----------------------------------------------------------------------------
(* What a string stands for *)

\* Where the second loop may be at q: at the nth escape or byte of the first, or in
\* the middle of it.
Reached(t, p, K, q, n) ==
  n \in 0..K /\ (q = p[n] \/ (n < K /\ At(t, p[n]) = Backslash /\ q = p[n] + 1))

\* A byte further it has left n, or come into the middle of it.
LEMMA OneOn ==
  ASSUME NEW t \in Seq(Octet), NEW p, NEW K, NEW i, NEW end, Counted(t, p, K, i, end),
         NEW q \in Nat, NEW n, Reached(t, p, K, q, n), q < end
  PROVE  /\ n < K
         /\ \/ Reached(t, p, K, q + 1, n + 1)
            \/ At(t, q) = Backslash /\ Reached(t, p, K, q + 1, n) /\ Reached(t, p, K, q + 2, n + 1)
<1>1. n \in 0..K /\ K \in Nat /\ p[n] \in Nat /\ p[K] = end
  BY DEF Counted, Reached
<1>2. n < K
  <2>1. q # p[K]
    BY <1>1
  <2> QED BY <1>1, <2>1 DEF Reached
<1>3. n \in 0..(K - 1) /\ n + 1 \in 0..K
  BY <1>1, <1>2
<1>4. p[n + 1] = p[n] + IF At(t, p[n]) = Backslash THEN 2 ELSE 1
  BY <1>3 DEF Counted
<1>5. CASE q = p[n] /\ At(t, q) = Backslash
  <2>1. p[n + 1] = q + 2 /\ q + 1 = p[n] + 1
    BY <1>4, <1>5
  <2> QED BY <1>1, <1>2, <1>3, <1>5, <2>1 DEF Reached
<1>6. CASE q = p[n] /\ At(t, q) # Backslash
  <2>1. p[n + 1] = q + 1
    BY <1>4, <1>6
  <2> QED BY <1>2, <1>3, <2>1 DEF Reached
<1>7. CASE At(t, p[n]) = Backslash /\ q = p[n] + 1
  <2>1. p[n + 1] = q + 1
    BY <1>1, <1>4, <1>7
  <2> QED BY <1>2, <1>3, <2>1 DEF Reached
<1> QED BY <1>5, <1>6, <1>7 DEF Reached

\* It comes to the end with all of them left behind.
LEMMA AllLeft ==
  ASSUME NEW t \in Seq(Octet), NEW p, NEW K, NEW i, NEW end, Counted(t, p, K, i, end),
         NEW n, Reached(t, p, K, end, n)
  PROVE  n = K
<1> SUFFICES ASSUME n # K PROVE FALSE
  OBVIOUS
<1>1. n \in 0..(K - 1) /\ K \in Nat /\ n + 1 \in 0..K
  BY DEF Counted, Reached
<1>2. p[n] \in Nat /\ p[n] < end /\ p[n + 1] = p[n] + (IF At(t, p[n]) = Backslash THEN 2 ELSE 1) /\ p[K] = end
  BY <1>1 DEF Counted
<1>3. At(t, p[n]) = Backslash /\ end = p[n] + 1
  BY <1>2 DEF Reached
<1>4. p[n + 1] = end + 1
  BY <1>2, <1>3
<1>5. CASE n + 1 = K
  BY <1>2, <1>3, <1>4, <1>5
<1>6. CASE n + 1 # K
  <2>1. n + 1 \in 0..(K - 1)
    BY <1>1, <1>6
  <2>2. p[n + 1] < end
    BY <2>1 DEF Counted
  <2> QED BY <1>2, <1>3, <1>4, <2>2
<1> QED BY <1>5, <1>6

\* It has left at least n behind.
Passed(t, p, K, q, n) == \E m \in 0..K : m >= n /\ Reached(t, p, K, q, m)

LEMMA Further ==
  ASSUME NEW t \in Seq(Octet), NEW p, NEW K, NEW i, NEW end, Counted(t, p, K, i, end),
         NEW q \in Nat, NEW n \in Nat, Passed(t, p, K, q, n), q < end
  PROVE  /\ Passed(t, p, K, q + 1, n)
         /\ At(t, q) # Backslash => Passed(t, p, K, q + 1, n + 1)
         /\ q + 1 < end => Passed(t, p, K, q + 2, n + 1)
<1>1. PICK m \in 0..K : m >= n /\ Reached(t, p, K, q, m)
  BY DEF Passed
<1>2. K \in Nat /\ m \in Nat
  BY <1>1 DEF Counted
<1>3. /\ m < K
      /\ \/ Reached(t, p, K, q + 1, m + 1)
         \/ At(t, q) = Backslash /\ Reached(t, p, K, q + 1, m) /\ Reached(t, p, K, q + 2, m + 1)
  BY <1>1, OneOn
<1>4. m + 1 \in 0..K /\ m + 1 >= n + 1 /\ m + 1 >= n
  BY <1>1, <1>2, <1>3
<1>5. CASE Reached(t, p, K, q + 1, m + 1)
  <2>1. Passed(t, p, K, q + 1, n + 1) /\ Passed(t, p, K, q + 1, n)
    BY <1>4, <1>5 DEF Passed
  <2>2. ASSUME q + 1 < end PROVE Passed(t, p, K, q + 2, n + 1)
    <3>1. PICK r \in Nat : r = q + 1 /\ r + 1 = q + 2
      OBVIOUS
    <3>2. /\ m + 1 < K
          /\ \/ Reached(t, p, K, r + 1, (m + 1) + 1)
             \/ Reached(t, p, K, r + 1, m + 1)
      BY <1>5, <2>2, <3>1, OneOn
    <3>3. (m + 1) + 1 \in 0..K /\ (m + 1) + 1 >= n + 1
      BY <1>2, <1>4, <3>2
    <3> QED BY <1>4, <3>1, <3>2, <3>3 DEF Passed
  <2> QED BY <2>1, <2>2
<1>6. CASE At(t, q) = Backslash /\ Reached(t, p, K, q + 1, m) /\ Reached(t, p, K, q + 2, m + 1)
  BY <1>1, <1>4, <1>6 DEF Passed
<1> QED BY <1>3, <1>5, <1>6

-----------------------------------------------------------------------------
(* Literals *)

LEMMA HexIsSmall == \A c \in DOMAIN HexValue : HexValue[c] \in 0..15 /\ c # Backslash
BY DEF HexValue, Backslash

\* Digits are no backslashes.
LEMMA Hex4 ==
  ASSUME NEW s, parse_hex4(s) # 0
  PROVE  parse_hex4(s) \in Nat /\ parse_hex4(s) <= 65535 /\ \A k \in 1..4 : s[k] # Backslash
<1>1. \A k \in 1..4 : s[k] \in DOMAIN HexValue
  BY DEF parse_hex4
<1>2. PICK a, b, c, d \in 0..15 : a = HexValue[s[1]] /\ b = HexValue[s[2]] /\ c = HexValue[s[3]] /\ d = HexValue[s[4]]
  <2>1. s[1] \in DOMAIN HexValue /\ s[2] \in DOMAIN HexValue /\ s[3] \in DOMAIN HexValue /\ s[4] \in DOMAIN HexValue
    <3>1. 1 \in 1..4 /\ 2 \in 1..4 /\ 3 \in 1..4 /\ 4 \in 1..4
      OBVIOUS
    <3> QED BY <1>1, <3>1
  <2> QED BY <2>1, HexIsSmall
<1>3. parse_hex4(s) = 4096 * a + 256 * b + 16 * c + d
  <2>1. PICK v : v = 4096 * HexValue[s[1]] + 256 * HexValue[s[2]] + 16 * HexValue[s[3]] + HexValue[s[4]]
    OBVIOUS
  <2>2. parse_hex4(s) \in {0, v}
    BY <2>1 DEF parse_hex4
  <2>3. v = 4096 * a + 256 * b + 16 * c + d
    BY <1>2, <2>1
  <2> QED BY <2>2, <2>3
<1>4. \A k \in 1..4 : s[k] # Backslash
  BY <1>1, HexIsSmall
<1>5. 4096 * a + 256 * b + 16 * c + d \in Nat /\ 4096 * a + 256 * b + 16 * c + d <= 65535
  OBVIOUS
<1> QED BY <1>3, <1>4, <1>5

LEMMA Hex4IsSmall ==
  ASSUME NEW s
  PROVE  parse_hex4(s) \in Nat /\ parse_hex4(s) <= 65535
BY Hex4

\* A codepoint takes at most four bytes, one of 16 bits three, and NUL one.
LEMMA Utf8Bytes ==
  ASSUME NEW c \in Nat, c <= 1114111
  PROVE  /\ Utf8(c) \in Seq(Octet) /\ Len(Utf8(c)) \in Nat /\ 1 <= Len(Utf8(c)) /\ Len(Utf8(c)) <= 4
         /\ c < 65536 => Len(Utf8(c)) <= 3
         /\ c = 0 => Len(Utf8(c)) = 1
<1>1. \A n \in Nat : Tail6(n) \in Octet
  BY DEF Tail6, Octet
<1>2. CASE c < 128
  <2>1. Utf8(c) = <<c>> /\ c \in Octet
    BY <1>2 DEF Utf8, Octet
  <2> QED BY <2>1
<1>3. CASE c >= 128 /\ c < 2048
  <2>1. PICK x, y \in Octet : x = 192 + c \div 64 /\ y = Tail6(c)
    <3>1. 192 + c \div 64 \in Octet
      BY <1>3 DEF Octet
    <3> QED BY <1>1, <3>1
  <2>2. Utf8(c) = <<x, y>>
    BY <1>3, <2>1 DEF Utf8
  <2> QED BY <1>3, <2>2
<1>4. CASE c >= 2048 /\ c < 65536
  <2>1. PICK x, y, z \in Octet : x = 224 + c \div 4096 /\ y = Tail6(c \div 64) /\ z = Tail6(c)
    <3>1. 224 + c \div 4096 \in Octet /\ c \div 64 \in Nat
      BY <1>4 DEF Octet
    <3> QED BY <1>1, <3>1
  <2>2. Utf8(c) = <<x, y, z>>
    BY <1>4, <2>1 DEF Utf8
  <2> QED BY <1>4, <2>2
<1>5. CASE c >= 65536
  <2>1. PICK w, x, y, z \in Octet : /\ w = 240 + c \div 262144 /\ x = Tail6(c \div 4096)
                                    /\ y = Tail6(c \div 64) /\ z = Tail6(c)
    <3>1. 240 + c \div 262144 \in Octet /\ c \div 4096 \in Nat /\ c \div 64 \in Nat
      BY <1>5 DEF Octet
    <3> QED BY <1>1, <3>1
  <2>2. Utf8(c) = <<w, x, y, z>>
    BY <1>5, <2>1 DEF Utf8
  <2> QED BY <1>5, <2>2
<1> QED BY <1>2, <1>3, <1>4, <1>5

\* Six bytes further: one is left behind for sure, five if none but the first is a
\* backslash.
LEMMA SixOn ==
  ASSUME NEW t \in Seq(Octet), NEW p, NEW K, NEW i, NEW end, Counted(t, p, K, i, end), end \in Nat,
         NEW q \in Nat, NEW n \in Nat, Passed(t, p, K, q, n), q + 6 <= end
  PROVE  /\ Passed(t, p, K, q + 6, n + 1)
         /\ (\A k \in 1..5 : At(t, q + k) # Backslash) => Passed(t, p, K, q + 6, n + 5)
<1>1. \A k \in 0..5 : q + k \in Nat /\ q + k < end /\ (q + k) + 1 = q + (k + 1)
  OBVIOUS
<1>2. ASSUME NEW k \in 0..5, NEW m \in Nat, Passed(t, p, K, q + k, m)
      PROVE  /\ Passed(t, p, K, q + (k + 1), m)
             /\ At(t, q + k) # Backslash => Passed(t, p, K, q + (k + 1), m + 1)
  <2>1. PICK r \in Nat : r = q + k /\ r < end /\ r + 1 = q + (k + 1)
    BY <1>1
  <2>2. Passed(t, p, K, r, m)
    BY <1>2, <2>1
  <2>3. Passed(t, p, K, r + 1, m) /\ (At(t, r) # Backslash => Passed(t, p, K, r + 1, m + 1))
    BY <2>1, <2>2, Further
  <2> QED BY <2>1, <2>3
<1>3. Passed(t, p, K, q + 6, n + 1)
  <2>1. q < end /\ q + 1 < end
    OBVIOUS
  <2>2. Passed(t, p, K, q + 2, n + 1)
    BY <2>1, Further
  <2>3. Passed(t, p, K, q + 3, n + 1)
    BY <1>2, <2>2, 2 \in 0..5, n + 1 \in Nat, 2 + 1 = 3
  <2>4. Passed(t, p, K, q + 4, n + 1)
    BY <1>2, <2>3, 3 \in 0..5, n + 1 \in Nat, 3 + 1 = 4
  <2>5. Passed(t, p, K, q + 5, n + 1)
    BY <1>2, <2>4, 4 \in 0..5, n + 1 \in Nat, 4 + 1 = 5
  <2> QED BY <1>2, <2>5, 5 \in 0..5, n + 1 \in Nat, 5 + 1 = 6
<1>4. ASSUME \A k \in 1..5 : At(t, q + k) # Backslash PROVE Passed(t, p, K, q + 6, n + 5)
  <2>1. Passed(t, p, K, q + 1, n)
    <3>1. q < end
      OBVIOUS
    <3> QED BY <3>1, Further
  <2>2. ASSUME NEW k \in 1..5, Passed(t, p, K, q + k, n + (k - 1)) PROVE Passed(t, p, K, q + (k + 1), n + k)
    <3>1. PICK m \in Nat : m = n + (k - 1) /\ m + 1 = n + k /\ k \in 0..5
      OBVIOUS
    <3>2. Passed(t, p, K, q + k, m) /\ At(t, q + k) # Backslash
      BY <1>4, <2>2, <3>1
    <3>3. Passed(t, p, K, q + (k + 1), m + 1)
      BY <1>2, <3>1, <3>2
    <3> QED BY <3>1, <3>3
  <2>3. Passed(t, p, K, q + 2, n + 1)
    BY <2>1, <2>2, 1 \in 1..5, 1 - 1 = 0, n + 0 = n, 1 + 1 = 2
  <2>4. Passed(t, p, K, q + 3, n + 2)
    BY <2>2, <2>3, 2 \in 1..5, 2 - 1 = 1, 2 + 1 = 3
  <2>5. Passed(t, p, K, q + 4, n + 3)
    BY <2>2, <2>4, 3 \in 1..5, 3 - 1 = 2, 3 + 1 = 4
  <2>6. Passed(t, p, K, q + 5, n + 4)
    BY <2>2, <2>5, 4 \in 1..5, 4 - 1 = 3, 4 + 1 = 5
  <2> QED BY <2>2, <2>6, 5 \in 1..5, 5 - 1 = 4, 5 + 1 = 6
<1> QED BY <1>3, <1>4

LEMMA Weaker ==
  ASSUME NEW t, NEW p, NEW K \in Nat, NEW q, NEW n \in Nat, NEW m \in Nat, m <= n, Passed(t, p, K, q, n)
  PROVE  Passed(t, p, K, q, m) /\ n <= K
<1>1. PICK k \in 0..K : k >= n /\ Reached(t, p, K, q, k)
  BY DEF Passed
<1>2. k >= m
  BY <1>1
<1> QED BY <1>1, <1>2 DEF Passed

\* The text from q to end, as a literal is given it.
RestOf(t, q, end) == SubSeq(t, q + 1, end)

LEMMA PartOf ==
  ASSUME NEW t \in Seq(Octet), NEW q \in Nat, NEW end \in 0..Len(t), q <= end
  PROVE  /\ RestOf(t, q, end) \in Seq(Octet) /\ Len(RestOf(t, q, end)) = end - q
         /\ \A k \in 1..(end - q) : RestOf(t, q, end)[k] = At(t, q + (k - 1))
<1>1. PICK s : s = SubSeq(t, q + 1, end)
  OBVIOUS
<1>2. s \in Seq(Octet)
  BY <1>1, SubSeqProperties
<1>3. Len(s) = end - q
  BY <1>1, SubSeqProperties
<1>4. ASSUME NEW k \in 1..(end - q) PROVE s[k] = At(t, q + (k - 1))
  <2>1. s[k] = t[(q + 1) + k - 1]
    BY <1>1, SubSeqProperties
  <2>2. q + (k - 1) \in 0..(Len(t) - 1) /\ (q + 1) + k - 1 = (q + (k - 1)) + 1
    BY <1>1
  <2> QED BY <1>1, <2>1, <2>2 DEF At
<1> QED BY <1>1, <1>2, <1>3, <1>4 DEF RestOf

\* What four digits of a literal at q say, from offset q + c.
DigitsFrom(t, q, end, c) == parse_hex4(SubSeq(RestOf(t, q, end), c + 1, c + 4))
NoBackslash(t, i) == \A k \in 1..4 : At(t, i + (k - 1)) # Backslash

LEMMA DigitsAt ==
  ASSUME NEW t \in Seq(Octet), NEW q \in Nat, NEW end \in 0..Len(t), NEW c \in Nat, q + c + 4 <= end,
         DigitsFrom(t, q, end, c) # 0
  PROVE  NoBackslash(t, q + c)
<1>0. PICK s : s = RestOf(t, q, end)
  OBVIOUS
<1>1. s \in Seq(Octet) /\ Len(s) = end - q /\ \A k \in 1..(end - q) : s[k] = At(t, q + (k - 1))
  <2>1. q <= end
    OBVIOUS
  <2> QED BY <1>0, <2>1, PartOf
<1>2. PICK d : d = SubSeq(s, c + 1, c + 4)
  OBVIOUS
<1>3. \A k \in 1..4 : d[k] = s[(c + 1) + k - 1]
  <2>1. c + 1 >= 1 /\ c + 4 <= Len(s) /\ c + 1 \in Nat /\ c + 4 \in Nat /\ (c + 4) - (c + 1) + 1 = 4
    BY <1>1
  <2>2. \A k \in 1..((c + 4) - (c + 1) + 1) : d[k] = s[(c + 1) + k - 1]
    BY <1>2, <2>1, SubSeqProperties
  <2> QED BY <2>1, <2>2
<1>4. \A k \in 1..4 : d[k] # Backslash
  <2>1. parse_hex4(d) # 0
    BY <1>0, <1>2 DEF DigitsFrom
  <2> QED BY <2>1, Hex4
<1> SUFFICES ASSUME NEW k \in 1..4 PROVE At(t, (q + c) + (k - 1)) # Backslash
  BY DEF NoBackslash
<1>5. (c + 1) + k - 1 = c + k /\ c + k \in 1..(end - q) /\ q + ((c + k) - 1) = (q + c) + (k - 1)
  OBVIOUS
<1>6. d[k] = s[c + k]
  BY <1>3, <1>5
<1>7. s[c + k] = At(t, (q + c) + (k - 1))
  BY <1>1, <1>5
<1> QED BY <1>4, <1>6, <1>7

\* What four digits say, and a codepoint.
Unit(c) == c \in Nat /\ c <= 65535
Codepoint(c) == c \in Nat /\ c <= 1114111

LEMMA UnitBytes ==
  ASSUME NEW c, Unit(c)
  PROVE  Utf8(c) \in Seq(Octet) /\ Len(Utf8(c)) <= 3 /\ (c = 0 => Len(Utf8(c)) = 1)
BY Utf8Bytes, SMT DEF Unit

LEMMA PairIsCodepoint ==
  ASSUME NEW a \in Nat, NEW b \in Nat
  PROVE  Codepoint(Pair(a, b))
<1>1. PICK y, z \in Nat : y = a % 1024 /\ z = b % 1024 /\ y <= 1023 /\ z <= 1023
  OBVIOUS
<1>2. Pair(a, b) = 65536 + (y * 1024) + z
  BY <1>1, SMT DEF Pair
<1> QED BY <1>1, <1>2, SMT DEF Codepoint

LEMMA CodepointBytes ==
  ASSUME NEW c, Codepoint(c) PROVE Utf8(c) \in Seq(Octet) /\ Len(Utf8(c)) <= 4
BY Utf8Bytes, SMT DEF Codepoint

\* What a literal that is not refused stands for.
OneUnit(s, u) ==
  /\ Len(s) >= 6 /\ utf16_literal_to_utf8(s) = [bytes |-> u, used |-> 6]
  /\ u \in Seq(Octet) /\ Len(u) <= 3 /\ (parse_hex4(SubSeq(s, 3, 6)) = 0 => Len(u) = 1)
TwoUnits(s, u) ==
  /\ Len(s) >= 12 /\ utf16_literal_to_utf8(s) = [bytes |-> u, used |-> 12]
  /\ u \in Seq(Octet) /\ Len(u) <= 4 /\ parse_hex4(SubSeq(s, 3, 6)) # 0

LEMMA LiteralBytes ==
  ASSUME NEW s \in Seq(Octet), utf16_literal_to_utf8(s).used # 0
  PROVE  \E u : OneUnit(s, u) \/ TwoUnits(s, u)
<1>1. PICK l : l = utf16_literal_to_utf8(s)
  OBVIOUS
<1>2. PICK a : a = parse_hex4(SubSeq(s, 3, 6))
  OBVIOUS
<1>3. PICK b : b = parse_hex4(SubSeq(s, 9, 12))
  OBVIOUS
<1>4. Unit(a) /\ a \in Nat /\ b \in Nat
  BY <1>2, <1>3, Hex4IsSmall DEF Unit
<1>5. \/ ~IsFirst(a) /\ l = [bytes |-> Utf8(a), used |-> 6] /\ Len(s) >= 6
      \/ IsFirst(a) /\ Len(s) >= 12 /\ l = [bytes |-> Utf8(Pair(a, b)), used |-> 12]
  <2>1. l # Refused
    BY <1>1 DEF Refused
  <2> QED BY <1>1, <1>2, <1>3, <2>1 DEF utf16_literal_to_utf8
<1>6. CASE ~IsFirst(a) /\ l = [bytes |-> Utf8(a), used |-> 6] /\ Len(s) >= 6
  <2>1. Utf8(a) \in Seq(Octet) /\ Len(Utf8(a)) <= 3 /\ (a = 0 => Len(Utf8(a)) = 1)
    BY <1>4, UnitBytes
  <2>2. OneUnit(s, Utf8(a))
    BY <1>1, <1>2, <1>6, <2>1 DEF OneUnit
  <2> QED BY <2>2
<1>7. CASE IsFirst(a) /\ Len(s) >= 12 /\ l = [bytes |-> Utf8(Pair(a, b)), used |-> 12]
  <2>1. Utf8(Pair(a, b)) \in Seq(Octet) /\ Len(Utf8(Pair(a, b))) <= 4
    BY <1>4, PairIsCodepoint, CodepointBytes
  <2>2. a # 0
    BY <1>7 DEF IsFirst
  <2>3. TwoUnits(s, Utf8(Pair(a, b)))
    BY <1>1, <1>2, <1>7, <2>1, <2>2 DEF TwoUnits
  <2> QED BY <2>3
<1> QED BY <1>5, <1>6, <1>7

\* A literal takes no more bytes than were counted for it.
Fits(t, p, K, end, q, n, piece) ==
  /\ piece.bytes \in Seq(Octet) /\ piece.used \in Nat /\ q + piece.used <= end
  /\ Passed(t, p, K, q + piece.used, n + Len(piece.bytes))

LEMMA DigitsFit ==
  ASSUME NEW t \in Seq(Octet), NEW p, NEW K, NEW i, NEW end \in 0..Len(t), Counted(t, p, K, i, end),
         NEW q \in Nat, NEW n \in Nat, Passed(t, p, K, q, n), q + 6 <= end, At(t, q + 1) = 117
  PROVE  /\ Passed(t, p, K, q + 6, n + 1)
         /\ parse_hex4(SubSeq(RestOf(t, q, end), 3, 6)) # 0 => Passed(t, p, K, q + 6, n + 5)
<1>1. end \in Nat
  OBVIOUS
<1>2. Passed(t, p, K, q + 6, n + 1)
  BY <1>1, SixOn
<1>3. ASSUME parse_hex4(SubSeq(RestOf(t, q, end), 3, 6)) # 0 PROVE Passed(t, p, K, q + 6, n + 5)
  <2>0. PICK c \in Nat : c = 2 /\ c + 1 = 3 /\ c + 4 = 6 /\ q + c + 4 <= end
    OBVIOUS
  <2>1. DigitsFrom(t, q, end, c) # 0
    BY <1>3, <2>0 DEF DigitsFrom
  <2>2. NoBackslash(t, q + c)
    BY <2>0, <2>1, DigitsAt
  <2>3. \A k \in 1..5 : At(t, q + k) # Backslash
    <3> TAKE k \in 1..5
    <3>1. CASE k = 1
      BY <3>1 DEF Backslash
    <3>2. CASE k # 1
      <4>1. k - 1 \in 1..4 /\ (q + c) + ((k - 1) - 1) = q + k
        BY <2>0, <3>2
      <4> QED BY <2>2, <4>1 DEF NoBackslash
    <3> QED BY <3>1, <3>2
  <2> QED BY <1>1, <2>3, SixOn
<1> QED BY <1>2, <1>3

LEMMA OneUnitFits ==
  ASSUME NEW t \in Seq(Octet), NEW p, NEW K, NEW i, NEW end \in 0..Len(t), Counted(t, p, K, i, end),
         NEW q \in Nat, NEW n \in Nat, Passed(t, p, K, q, n), q < end, At(t, q + 1) = 117,
         NEW u, OneUnit(RestOf(t, q, end), u)
  PROVE  Fits(t, p, K, end, q, n, utf16_literal_to_utf8(RestOf(t, q, end)))
<1>0. PICK s : s = RestOf(t, q, end)
  OBVIOUS
<1>1. K \in Nat /\ end \in Nat
  BY DEF Counted
<1>2. q + 6 <= end
  <2>1. Len(s) = end - q
    BY <1>0, q <= end, PartOf
  <2> QED BY <1>0, <1>1, <2>1 DEF OneUnit
<1>3. PICK x \in Nat : x = Len(u)
  BY DEF OneUnit
<1>4. PICK first : first = parse_hex4(SubSeq(s, 3, 6))
  OBVIOUS
<1>5. Passed(t, p, K, q + 6, n + 1) /\ (first # 0 => Passed(t, p, K, q + 6, n + 5))
  BY <1>0, <1>2, <1>4, DigitsFit
<1>6. u \in Seq(Octet) /\ x <= 3 /\ (first = 0 => x = 1)
  BY <1>0, <1>3, <1>4 DEF OneUnit
<1>7. Passed(t, p, K, q + 6, n + x)
  <2>1. CASE first = 0
    BY <1>5, <1>6, <2>1
  <2>2. CASE first # 0
    <3>1. n + x <= n + 5 /\ n + x \in Nat /\ n + 5 \in Nat
      BY <1>6
    <3>2. Passed(t, p, K, q + 6, n + 5)
      BY <1>5, <2>2
    <3> QED BY <1>1, <3>1, <3>2, Weaker
  <2> QED BY <2>1, <2>2
<1> DEFINE l == [bytes |-> u, used |-> 6]
<1>8. l.bytes = u /\ l.used = 6
  OBVIOUS
<1> HIDE DEF l
<1>9. Fits(t, p, K, end, q, n, l)
  BY <1>2, <1>3, <1>6, <1>7, <1>8 DEF Fits
<1> QED BY <1>9 DEF OneUnit, l

LEMMA TwoUnitsFit ==
  ASSUME NEW t \in Seq(Octet), NEW p, NEW K, NEW i, NEW end \in 0..Len(t), Counted(t, p, K, i, end),
         NEW q \in Nat, NEW n \in Nat, Passed(t, p, K, q, n), q < end, At(t, q + 1) = 117,
         NEW u, TwoUnits(RestOf(t, q, end), u)
  PROVE  Fits(t, p, K, end, q, n, utf16_literal_to_utf8(RestOf(t, q, end)))
<1>0. PICK s : s = RestOf(t, q, end)
  OBVIOUS
<1>1. K \in Nat /\ end \in Nat
  BY DEF Counted
<1>2. q + 12 <= end
  <2>1. Len(s) = end - q
    BY <1>0, q <= end, PartOf
  <2> QED BY <1>0, <1>1, <2>1 DEF TwoUnits
<1>3. PICK x \in Nat : x = Len(u)
  BY DEF TwoUnits
<1>4. u \in Seq(Octet) /\ x <= 4
  BY <1>3 DEF TwoUnits
<1>5. PICK r \in Nat, m \in Nat : r = q + 6 /\ m = n + 5
  OBVIOUS
<1>6. Passed(t, p, K, r, m)
  <2>1. q + 6 <= end
    BY <1>1, <1>2
  <2>2. parse_hex4(SubSeq(RestOf(t, q, end), 3, 6)) # 0
    BY DEF TwoUnits
  <2> QED BY <1>5, <2>1, <2>2, DigitsFit
<1>7. r + 6 <= end /\ r + 6 = q + 12
  BY <1>2, <1>5
<1>8. Passed(t, p, K, r + 6, m + 1)
  BY <1>1, <1>6, <1>7, SixOn
<1>9. n + x <= m + 1 /\ n + x \in Nat /\ m + 1 \in Nat
  BY <1>4, <1>5
<1>10. Passed(t, p, K, q + 12, n + x)
  BY <1>1, <1>7, <1>8, <1>9, Weaker
<1> DEFINE l == [bytes |-> u, used |-> 12]
<1>11. l.bytes = u /\ l.used = 12
  OBVIOUS
<1> HIDE DEF l
<1>12. Fits(t, p, K, end, q, n, l)
  BY <1>2, <1>3, <1>4, <1>10, <1>11 DEF Fits
<1> QED BY <1>12 DEF TwoUnits, l

-----------------------------------------------------------------------------
(* The bytes of a string *)

LEMMA EscapesAreBytes ==
  117 \notin DOMAIN Escapes /\ \A e \in DOMAIN Escapes : Escapes[e] \in Octet
<1>0. 117 \notin DOMAIN Escapes
  BY DEF Escapes, Quote, Backslash, Slash
<1> SUFFICES ASSUME NEW e \in DOMAIN Escapes PROVE Escapes[e] \in Octet
  BY <1>0
<1>1. e \in {98, 102, 110, 114, 116, 34, 92, 47}
  BY DEF Escapes, Quote, Backslash, Slash
<1>2. Escapes[e] \in {8, 12, 10, 13, 9, e}
  BY <1>1 DEF Escapes, Quote, Backslash, Slash, NewLine, Return, Tab
<1> QED BY <1>1, <1>2 DEF Octet

LEMMA RefusedAtOnce ==
  ASSUME NEW t, NEW q, NEW end, Piece(t, q, end).used = 0
  PROVE  Piece(t, q, end).bytes = <<>>
<1>0. PICK l : l = Piece(t, q, end)
  OBVIOUS
<1>1. CASE At(t, q) # Backslash
  <2>1. l = [bytes |-> <<At(t, q)>>, used |-> 1]
    BY <1>0, <1>1 DEF Piece
  <2>2. l.used # 0
    BY <2>1
  <2> QED BY <1>0, <2>2
<1>2. CASE At(t, q) = Backslash /\ At(t, q + 1) \in DOMAIN Escapes
  <2>1. l = [bytes |-> <<Escapes[At(t, q + 1)]>>, used |-> 2]
    BY <1>0, <1>2, EscapesAreBytes DEF Piece
  <2>2. l.used # 0
    BY <2>1
  <2> QED BY <1>0, <2>2
<1>3. CASE At(t, q) = Backslash /\ At(t, q + 1) \notin DOMAIN Escapes
  <2>1. PICK s : s = SubSeq(t, q + 1, end)
    OBVIOUS
  <2>2. l = Refused \/ l = utf16_literal_to_utf8(s)
    BY <1>0, <1>3, <2>1 DEF Piece
  <2>3. utf16_literal_to_utf8(s) = Refused \/ utf16_literal_to_utf8(s).used \in {6, 12}
    BY DEF utf16_literal_to_utf8
  <2>4. l = Refused
    BY <1>0, <2>2, <2>3
  <2> QED BY <1>0, <2>4 DEF Refused
<1> QED BY <1>1, <1>2, <1>3

\* A piece takes no more bytes than were counted, those that are left included.
LEMMA PieceFits ==
  ASSUME NEW t \in Seq(Octet), NEW p, NEW K, NEW i, NEW end \in 0..Len(t), Counted(t, p, K, i, end),
         NEW q \in Nat, NEW n \in Nat, Passed(t, p, K, q, n), q < end, Piece(t, q, end).used # 0
  PROVE  /\ Piece(t, q, end).bytes \in Seq(Octet) /\ Piece(t, q, end).used \in Nat
         /\ n + Len(Piece(t, q, end).bytes) <= K
         /\ q + Piece(t, q, end).used <= end =>
              Passed(t, p, K, q + Piece(t, q, end).used, n + Len(Piece(t, q, end).bytes))
<1>0. PICK letter, l : letter = At(t, q + 1) /\ l = Piece(t, q, end)
  OBVIOUS
<1>1. K \in Nat /\ end \in Nat /\ q \in 0..(Len(t) - 1)
  BY DEF Counted
<1>2. l.used # 0 /\ l # Refused
  BY <1>0 DEF Refused
<1>3. ASSUME NEW b \in Octet, l.bytes = <<b>>, l.used \in {1, 2}, n + 1 <= K,
             q + l.used <= end => Passed(t, p, K, q + l.used, n + 1)
      PROVE  /\ l.bytes \in Seq(Octet) /\ l.used \in Nat /\ n + Len(l.bytes) <= K
             /\ q + l.used <= end => Passed(t, p, K, q + l.used, n + Len(l.bytes))
  <2>1. l.bytes \in Seq(Octet) /\ Len(l.bytes) = 1
    BY <1>3
  <2> QED BY <1>3, <2>1
<1>4. CASE At(t, q) # Backslash
  <2>1. l = [bytes |-> <<At(t, q)>>, used |-> 1]
    BY <1>0, <1>4 DEF Piece
  <2>2. At(t, q) \in Octet
    BY <1>1, Bytewise
  <2>3. Passed(t, p, K, q + 1, n + 1)
    BY <1>4, Further
  <2>4. n + 1 <= K
    <3>1. n + 1 \in Nat
      OBVIOUS
    <3> QED BY <1>1, <2>3, <3>1, Weaker
  <2> QED BY <1>0, <1>3, <2>1, <2>2, <2>3, <2>4
<1>5. CASE At(t, q) = Backslash /\ letter \in DOMAIN Escapes
  <2>1. l = [bytes |-> <<Escapes[letter]>>, used |-> 2]
    BY <1>0, <1>5, EscapesAreBytes DEF Piece
  <2>2. Escapes[letter] \in Octet
    BY <1>5, EscapesAreBytes
  <2>3. q + 2 <= end => Passed(t, p, K, q + 2, n + 1)
    <3>1. q + 2 <= end => q + 1 < end
      BY <1>1
    <3> QED BY <3>1, Further
  <2>4. n + 1 <= K
    <3>1. PICK m \in 0..K : m >= n /\ Reached(t, p, K, q, m)
      BY DEF Passed
    <3>2. m < K
      BY <3>1, OneOn
    <3> QED BY <1>1, <3>1, <3>2
  <2> QED BY <1>0, <1>3, <2>1, <2>2, <2>3, <2>4
<1>6. CASE At(t, q) = Backslash /\ letter \notin DOMAIN Escapes
  <2>1. letter = 117 /\ l = utf16_literal_to_utf8(RestOf(t, q, end))
    BY <1>0, <1>2, <1>6 DEF Piece, RestOf
  <2>0. PICK u : OneUnit(RestOf(t, q, end), u) \/ TwoUnits(RestOf(t, q, end), u)
    <3>1. RestOf(t, q, end) \in Seq(Octet)
      <4>1. q <= end
        BY <1>1
      <4> QED BY <4>1, PartOf
    <3>2. utf16_literal_to_utf8(RestOf(t, q, end)).used # 0
      BY <1>2, <2>1
    <3> QED BY <3>1, <3>2, LiteralBytes
  <2>2. Fits(t, p, K, end, q, n, l)
    BY <1>0, <2>0, <2>1, OneUnitFits, TwoUnitsFit
  <2>3. PICK x \in Nat : x = Len(l.bytes)
    BY <2>2 DEF Fits
  <2>4. n + x \in Nat /\ Passed(t, p, K, q + l.used, n + x)
    BY <2>2, <2>3 DEF Fits
  <2>5. n + x <= K
    BY <1>1, <2>4, Weaker
  <2> QED BY <1>0, <2>2, <2>3, <2>5 DEF Fits
<1> QED BY <1>4, <1>5, <1>6

-----------------------------------------------------------------------------
(* The loop that takes the pieces *)

UnescapeStates(t, p, K, end) ==
  {r \in [at : Nat, bytes : Seq(Octet), ok : BOOLEAN] :
     Len(r.bytes) <= K /\ (r.ok /\ r.at <= end => Passed(t, p, K, r.at, Len(r.bytes)))}

LEMMA UnescapeRoundStays ==
  ASSUME NEW t \in Seq(Octet), NEW p, NEW K, NEW i, NEW end \in 0..Len(t), Counted(t, p, K, i, end),
         NEW r \in UnescapeStates(t, p, K, end)
  PROVE  UnescapeRound(t, end, r) \in UnescapeStates(t, p, K, end)
<1>1. PICK q \in Nat, b \in Seq(Octet), ok \in BOOLEAN : r = [at |-> q, bytes |-> b, ok |-> ok]
  BY DEF UnescapeStates
<1>2. Len(b) <= K /\ (ok /\ q <= end => Passed(t, p, K, q, Len(b)))
  BY <1>1 DEF UnescapeStates
<1>3. PICK piece : piece = Piece(t, q, end)
  OBVIOUS
<1>4. CASE ~ok \/ q >= end
  BY <1>1, <1>4 DEF UnescapeRound
<1>5. CASE ok /\ q < end
  <2>1. UnescapeRound(t, end, r) = [at |-> q + piece.used, bytes |-> b \o piece.bytes, ok |-> piece.used > 0]
    BY <1>1, <1>3, <1>5 DEF UnescapeRound
  <2>2. CASE piece.used = 0
    <3>1. piece.bytes = <<>>
      BY <1>3, <2>2, RefusedAtOnce
    <3>2. b \o <<>> = b /\ q + 0 = q
      BY EmptySeq
    <3>4. (piece.used > 0) = FALSE
      BY <2>2
    <3>3. UnescapeRound(t, end, r) = [at |-> q, bytes |-> b, ok |-> FALSE]
      BY <2>1, <2>2, <3>1, <3>2, <3>4
    <3> QED BY <1>2, <3>3 DEF UnescapeStates
  <2>3. CASE piece.used # 0
    <3>1. PICK n \in Nat : n = Len(b)
      OBVIOUS
    <3>2. Passed(t, p, K, q, n) /\ Piece(t, q, end).used # 0
      BY <1>2, <1>3, <1>5, <2>3, <3>1
    <3>3. /\ piece.bytes \in Seq(Octet) /\ piece.used \in Nat /\ n + Len(piece.bytes) <= K
          /\ q + piece.used <= end => Passed(t, p, K, q + piece.used, n + Len(piece.bytes))
      BY <1>3, <1>5, <3>2, PieceFits
    <3>4. PICK c \in Seq(Octet), x \in Nat, y \in Nat : c = piece.bytes /\ x = Len(c) /\ y = q + piece.used
      BY <3>3
    <3>5. PICK d \in Seq(Octet) : d = b \o c /\ Len(d) = n + x
      BY <3>1, <3>4, ConcatProperties
    <3>8. (piece.used > 0) = TRUE
      BY <2>3, <3>3
    <3>6. UnescapeRound(t, end, r) = [at |-> y, bytes |-> d, ok |-> TRUE]
      BY <2>1, <3>4, <3>5, <3>8
    <3>7. Len(d) <= K /\ (y <= end => Passed(t, p, K, y, Len(d)))
      BY <3>3, <3>4, <3>5
    <3> QED BY <3>6, <3>7 DEF UnescapeStates
  <2> QED BY <2>2, <2>3
<1> QED BY <1>4, <1>5

LEMMA UnescapeLoop ==
  ASSUME NEW t \in Seq(Octet), NEW p, NEW K, NEW i \in Nat, NEW end \in 0..Len(t), Counted(t, p, K, i, end)
  PROVE  /\ Unescaped(t, i, end) \in UnescapeStates(t, p, K, end)
         /\ \E f : /\ f[0] = [at |-> i, bytes |-> <<>>, ok |-> TRUE]
                   /\ \A n \in 1..Len(t) : f[n] = UnescapeRound(t, end, f[n - 1])
                   /\ Unescaped(t, i, end) = f[Len(t)]
<1> DEFINE start == [at |-> i, bytes |-> <<>>, ok |-> TRUE]
           IsLoop(f) == f = [n \in 0..Len(t) |-> IF n = 0 THEN start ELSE UnescapeRound(t, end, f[n - 1])]
<1>1. PICK N \in Nat : N = Len(t)
  OBVIOUS
<1>2. PICK S : S = UnescapeStates(t, p, K, end)
  OBVIOUS
<1>3. PICK a \in S : a = start
  <2>1. K \in Nat /\ 0 \in 0..K /\ p[0] = i
    BY DEF Counted
  <2>2. Passed(t, p, K, i, 0)
    <3>1. Reached(t, p, K, i, 0) /\ 0 >= 0
      BY <2>1 DEF Reached
    <3> QED BY <2>1, <3>1 DEF Passed
  <2>3. <<>> \in Seq(Octet) /\ Len(<<>>) = 0
    OBVIOUS
  <2>4. start \in [at : Nat, bytes : Seq(Octet), ok : BOOLEAN]
    BY <2>3
  <2>5. start.at = i /\ start.bytes = <<>>
    OBVIOUS
  <2> HIDE DEF start
  <2>6. start \in S
    BY <1>2, <2>1, <2>2, <2>3, <2>4, <2>5 DEF UnescapeStates
  <2> QED BY <2>6
<1> HIDE DEF start
<1>4. PICK G : G = [r \in S |-> UnescapeRound(t, end, r)]
  OBVIOUS
<1>5. G \in [S -> S]
  BY <1>2, <1>4, UnescapeRoundStays
<1>6. PICK g \in [0..N -> S] : Loops(g, N, a, G)
  BY <1>5, Looping
<1>7. IsLoop(g)
  <2>1. ASSUME NEW n \in 0..N PROVE g[n] = IF n = 0 THEN start ELSE UnescapeRound(t, end, g[n - 1])
    <3>1. CASE n = 0
      BY <1>3, <1>6, <3>1 DEF Loops
    <3>2. CASE n # 0
      <4>1. n \in 1..N /\ n - 1 \in 0..N
        BY <3>2
      <4>2. g[n] = G[g[n - 1]] /\ g[n - 1] \in S
        BY <1>6, <4>1 DEF Loops
      <4> QED BY <1>4, <3>2, <4>2
    <3> QED BY <3>1, <3>2
  <2> QED BY <1>1, <1>6, <2>1
<1>8. PICK f : IsLoop(f) /\ Unescaped(t, i, end) = f[Len(t)]
  <2>1. IsLoop(CHOOSE f : IsLoop(f))
    <3> HIDE DEF IsLoop
    <3> QED BY <1>7
  <2>2. Unescaped(t, i, end) = (CHOOSE f : IsLoop(f))[Len(t)]
    BY DEF Unescaped, start
  <2> HIDE DEF IsLoop
  <2> QED BY <2>1, <2>2
<1>9. f[0] = a /\ \A n \in 1..N : f[n] = UnescapeRound(t, end, f[n - 1])
  <2>1. \A n \in 0..N : f[n] = IF n = 0 THEN start ELSE UnescapeRound(t, end, f[n - 1])
    BY <1>1, <1>8, Zenon
  <2>2. 0 \in 0..N /\ \A n \in 1..N : n \in 0..N /\ n # 0
    OBVIOUS
  <2> QED BY <1>3, <2>1, <2>2, Zenon
<1>10. \A n \in 1..N : f[n - 1] \in S => f[n] \in S
  BY <1>2, <1>9, UnescapeRoundStays
<1>11. \A n \in 0..N : f[n] \in S
  BY <1>9, <1>10, Staying
<1> HIDE DEF IsLoop
<1>12. Unescaped(t, i, end) \in UnescapeStates(t, p, K, end)
  BY <1>1, <1>2, <1>8, <1>11
<1>13. f[0] = [at |-> i, bytes |-> <<>>, ok |-> TRUE]
  BY <1>3, <1>9 DEF start
<1> QED BY <1>1, <1>8, <1>9, <1>12, <1>13

-----------------------------------------------------------------------------
(* A string *)

\* What the parser gives for a text t.
Inside(t, v) == v.ok \in BOOLEAN /\ v.outside = FALSE /\ v.offset \in 0..Len(t) /\ (v.ok => v.offset # 0)

LEMMA FailedInside ==
  ASSUME NEW t \in Seq(Octet), NEW b \in Octet
  PROVE  Inside(t, ParseFailed(b)) /\ ~ParseFailed(b).ok
<1>1. b # Outside
  BY DEF Octet, Outside
<1>2. ParseFailed(b) = [ok |-> FALSE, val |-> <<"none">>, offset |-> 0, outside |-> FALSE]
  BY <1>1 DEF ParseFailed
<1> QED BY <1>2 DEF Inside

LEMMA ParsedInside ==
  ASSUME NEW t \in Seq(Octet), NEW v, NEW o \in 1..Len(t) PROVE Inside(t, Parsed(v, o)) /\ Parsed(v, o).ok
<1>1. Parsed(v, o) = [ok |-> TRUE, val |-> v, offset |-> o, outside |-> FALSE]
  BY DEF Parsed
<1> QED BY <1>1 DEF Inside

LEMMA StringInside ==
  ASSUME NEW t \in Seq(Octet), NEW i \in 0..(Len(t) - 1)
  PROVE  Inside(t, parse_string(t, i))
<1>0. PICK N \in Nat : N = Len(t)
  OBVIOUS
<1>1. Quote \in Octet /\ Quote # Outside
  BY DEF Quote, Octet, Outside
<1>2. CASE At(t, i) # Quote
  BY <1>2, Bytewise, FailedInside DEF parse_string
<1>3. CASE At(t, i) = Quote
  <2>1. PICK j \in 0..Len(t) : j = i + 1
    BY <1>0
  <2>2. PICK e : e = EndOfString(t, j)
    OBVIOUS
  <2>3. parse_string(t, i) = StringTo(t, i, e)
    BY <1>3, <2>1, <2>2 DEF parse_string
  <2>4. CASE At(t, e.at) # Quote
    BY <1>1, <2>3, <2>4, FailedInside DEF StringTo
  <2>5. CASE At(t, e.at) = Quote
    <3>1. PICK K, p : Counted(t, p, K, j, e.at) /\ e.at = j + K + e.skipped /\ e \in EndStates(t)
      <4>1. At(t, EndOfString(t, j).at) = Quote
        BY <2>2, <2>5
      <4> QED BY <2>2, <4>1, CountedString
    <3>2. PICK end \in 0..Len(t), skipped \in Nat : end = e.at /\ skipped = e.skipped
      BY <3>1 DEF EndStates
    <3>3. end < N /\ K \in Nat
      BY <1>0, <1>1, <2>5, <3>1, <3>2, Bytewise DEF Counted
    <3>4. PICK u : u = Unescaped(t, j, end)
      OBVIOUS
    <3>5. u \in UnescapeStates(t, p, K, end)
      <4>1. j \in Nat /\ Counted(t, p, K, j, end)
        BY <3>1, <3>2
      <4>2. Unescaped(t, j, end) \in UnescapeStates(t, p, K, end)
        BY <4>1, UnescapeLoop
      <4> QED BY <3>4, <4>2
    <3>6. u.bytes \in Seq(Octet) /\ u.ok \in BOOLEAN /\ Len(u.bytes) <= K
      BY <3>5 DEF UnescapeStates
    <3>7. StringTo(t, i, e) = Filled(i, e, u)
      BY <2>1, <2>5, <3>2, <3>4 DEF StringTo
    <3>8. Room(e, i) = K + 2
      <4>1. end = (i + 1) + K + skipped /\ i \in Nat
        BY <2>1, <3>1, <3>2
      <4>2. Room(e, i) = end - i - skipped + 1
        BY <3>2 DEF Room
      <4> QED BY <3>2, <3>3, <4>1, <4>2, SMTT(30)
    <3>9. CASE ~u.ok
      <4>1. ~(BytesWritten(u) > Room(e, i))
        BY <3>3, <3>6, <3>8, <3>9 DEF BytesWritten
      <4>2. Filled(i, e, u) = ParseFailed(Quote)
        BY <3>9, <4>1 DEF Filled
      <4> QED BY <1>1, <2>3, <3>7, <4>2, FailedInside
    <3>10. CASE u.ok
      <4>1. ~(BytesWritten(u) > Room(e, i))
        BY <3>3, <3>6, <3>8, <3>10 DEF BytesWritten
      <4>2. Filled(i, e, u) = Parsed(<<"string", CString(u.bytes)>>, e.at + 1)
        BY <3>10, <4>1 DEF Filled
      <4>3. e.at + 1 \in 1..Len(t)
        BY <1>0, <3>2, <3>3
      <4> QED BY <2>3, <3>7, <4>2, <4>3, ParsedInside
    <3> QED BY <3>9, <3>10
  <2> QED BY <2>4, <2>5
<1> QED BY <1>2, <1>3

-----------------------------------------------------------------------------
(* Between the values *)

LEMMA Skipping ==
  ASSUME NEW t \in Seq(Octet), NEW i \in 0..Len(t)
  PROVE  /\ buffer_skip_whitespace(t, i) \in 0..Len(t)
         /\ i < Len(t) => buffer_skip_whitespace(t, i) \in i..(Len(t) - 1)
<1>1. PICK N \in Nat : N = Len(t)
  OBVIOUS
<1>2. CASE At(t, i) = Outside
  <2>1. buffer_skip_whitespace(t, i) = i
    BY <1>2 DEF buffer_skip_whitespace
  <2> QED BY <1>1, <1>2, <2>1, Bytewise
<1>3. CASE At(t, i) # Outside
  <2> DEFINE Stop(j) == At(t, j) \notin 0..Space /\ \A k \in i..(j - 1) : At(t, k) \in 0..Space
  <2>1. \E j \in i..N : Stop(j)
    <3> DEFINE T == {j \in i..N : At(t, j) \notin 0..Space}
    <3>1. At(t, N) = -1 /\ -1 \notin 0..Space
      BY <1>1 DEF At, Outside, Space
    <3>2. N \in T /\ T \in SUBSET Nat
      BY <1>1, <3>1
    <3>3. PICK j \in T : \A k \in T : j <= k
      BY <3>2, Smallest
    <3>4. \A k \in i..(j - 1) : At(t, k) \in 0..Space
      BY <3>3
    <3> QED BY <3>4
  <2>2. PICK stop : stop = CHOOSE j \in i..N : Stop(j)
    OBVIOUS
  <2>3. stop \in i..N
    <3> HIDE DEF Stop
    <3> QED BY <2>1, <2>2
  <2>4. buffer_skip_whitespace(t, i) = IF stop = N THEN stop - 1 ELSE stop
    BY <1>1, <1>3, <2>2 DEF buffer_skip_whitespace
  <2>5. i < N
    BY <1>1, <1>3, Bytewise
  <2> QED BY <1>1, <2>3, <2>4, <2>5
<1> QED BY <1>2, <1>3

LEMMA SkippingOn ==
  ASSUME NEW t \in Seq(Octet), NEW i \in 1..Len(t)
  PROVE  buffer_skip_whitespace(t, i) \in 1..Len(t)
<1>0. i \in 0..Len(t)
  OBVIOUS
<1>1. CASE i < Len(t)
  <2>1. buffer_skip_whitespace(t, i) \in i..(Len(t) - 1)
    BY <1>0, <1>1, Skipping
  <2> QED BY <2>1
<1>2. CASE i = Len(t)
  <2>1. At(t, i) = Outside
    BY <1>2 DEF At
  <2>2. buffer_skip_whitespace(t, i) = i
    BY <2>1 DEF buffer_skip_whitespace
  <2> QED BY <2>2
<1> QED BY <1>1, <1>2

-----------------------------------------------------------------------------
(* Arrays and objects *)

\* Every value one level deeper is inside.
AllInside(t, inner) == DOMAIN inner = 0..Len(t) /\ \A i \in 0..Len(t) : Inside(t, inner[i])

\* Where a loop that takes entries from E may be: at an offset after which there
\* may be more, or stopped.
LoopStates(t, E) ==
  {r \in [ok : BOOLEAN, got : Seq(E), offset : 0..Len(t), more : BOOLEAN, outside : {FALSE}] :
     r.more => r.offset < Len(t)}

LEMMA LoopStops ==
  ASSUME NEW t \in Seq(Octet), NEW E, NEW v, v.outside = FALSE
  PROVE  Stopped(v) \in LoopStates(t, E)
<1>1. Stopped(v) = [ok |-> FALSE, got |-> <<>>, offset |-> 0, more |-> FALSE, outside |-> FALSE]
  BY DEF Stopped
<1>2. <<>> \in Seq(E) /\ 0 \in 0..Len(t)
  OBVIOUS
<1> QED BY <1>1, <1>2 DEF LoopStates

LEMMA LoopGets ==
  ASSUME NEW t \in Seq(Octet), NEW E, NEW r \in LoopStates(t, E), NEW e \in E, NEW n \in 0..Len(t)
  PROVE  Got(t, r, e, n) \in LoopStates(t, E)
<1>1. PICK got \in Seq(E) : got = Append(r.got, e)
  <2>1. r.got \in Seq(E)
    BY DEF LoopStates
  <2>2. Append(r.got, e) \in Seq(E)
    BY <2>1, AppendProperties
  <2> QED BY <2>2
<1>2. r.outside = FALSE
  BY DEF LoopStates
<1>3. PICK more \in BOOLEAN : more = (At(t, n) = Comma)
  OBVIOUS
<1>4. more => n < Len(t)
  <2> SUFFICES ASSUME more PROVE n < Len(t)
    OBVIOUS
  <2>0. At(t, n) = Comma
    BY <1>3
  <2>1. Comma # Outside
    BY DEF Comma, Outside
  <2>2. n \in Int
    OBVIOUS
  <2>3. n \in 0..(Len(t) - 1)
    BY <2>0, <2>1, <2>2, Bytewise
  <2> QED BY <2>3
<1>5. Got(t, r, e, n) = [ok |-> TRUE, got |-> got, offset |-> n, more |-> more, outside |-> FALSE]
  BY <1>1, <1>2, <1>3 DEF Got
<1> QED BY <1>4, <1>5 DEF LoopStates

LEMMA ElementRoundStays ==
  ASSUME NEW t \in Seq(Octet), NEW inner, AllInside(t, inner),
         NEW E, E = {inner[i].val : i \in 0..Len(t)}, NEW r \in LoopStates(t, E)
  PROVE  ElementRound(t, inner, r) \in LoopStates(t, E)
<1>1. CASE ~r.more
  BY <1>1 DEF ElementRound
<1>2. CASE r.more
  <2>1. PICK j \in 0..Len(t) : j = r.offset + 1
    BY <1>2 DEF LoopStates
  <2>2. PICK k \in 0..Len(t) : k = buffer_skip_whitespace(t, j)
    BY Skipping
  <2>3. PICK v : v = inner[k] /\ Inside(t, v) /\ v.val \in E
    BY <2>2 DEF AllInside
  <2>4. ElementRound(t, inner, r) = IF ~v.ok THEN Stopped(v)
                                    ELSE Got(t, r, v.val, buffer_skip_whitespace(t, v.offset))
    BY <1>2, <2>1, <2>2, <2>3 DEF ElementRound
  <2>5. v.outside = FALSE /\ buffer_skip_whitespace(t, v.offset) \in 0..Len(t)
    BY <2>3, Skipping DEF Inside
  <2>6. Stopped(v) \in LoopStates(t, E)
    BY <2>5, LoopStops
  <2>7. Got(t, r, v.val, buffer_skip_whitespace(t, v.offset)) \in LoopStates(t, E)
    BY <2>3, <2>5, LoopGets
  <2> QED BY <2>4, <2>6, <2>7
<1> QED BY <1>1, <1>2

NamesAndValues(t, inner) == {<<parse_string(t, i).val[2], inner[j].val>> : i, j \in 0..Len(t)}

LEMMA MemberRoundStays ==
  ASSUME NEW t \in Seq(Octet), NEW inner, AllInside(t, inner),
         NEW E, E = NamesAndValues(t, inner), NEW r \in LoopStates(t, E)
  PROVE  MemberRound(t, inner, r) \in LoopStates(t, E)
<1>0. Stopped(ParseFailed(Comma)) \in LoopStates(t, E)
  <2>1. Comma \in Octet
    BY DEF Comma, Octet
  <2>2. ParseFailed(Comma).outside = FALSE
    BY <2>1, FailedInside DEF Inside
  <2> QED BY <2>2, LoopStops
<1>1. CASE ~r.more
  BY <1>1 DEF MemberRound
<1>2. CASE r.more /\ At(t, r.offset + 1) = Outside
  BY <1>0, <1>2 DEF MemberRound
<1>3. CASE r.more /\ At(t, r.offset + 1) # Outside
  <2>1. PICK j \in 0..(Len(t) - 1) : j = r.offset + 1
    <3>1. r.offset + 1 \in Int
      BY DEF LoopStates
    <3> QED BY <1>3, <3>1, Bytewise
  <2>2. PICK k \in 0..(Len(t) - 1) : k = buffer_skip_whitespace(t, j)
    <3>1. j \in 0..Len(t) /\ j < Len(t)
      OBVIOUS
    <3>2. buffer_skip_whitespace(t, j) \in j..(Len(t) - 1)
      BY <3>1, Skipping
    <3> QED BY <3>2
  <2>3. PICK name : name = parse_string(t, k) /\ Inside(t, name)
    BY StringInside
  <2>4. MemberRound(t, inner, r) = AfterName(t, inner, r, name)
    BY <1>3, <2>1, <2>2, <2>3 DEF MemberRound
  <2>5. PICK colon \in 0..Len(t) : colon = buffer_skip_whitespace(t, name.offset)
    BY <2>3, Skipping DEF Inside
  <2>6. CASE ~name.ok
    <3>1. Stopped(name) \in LoopStates(t, E)
      BY <2>3, LoopStops DEF Inside
    <3> QED BY <2>4, <2>6, <3>1 DEF AfterName
  <2>7. CASE name.ok /\ At(t, colon) # Colon
    BY <1>0, <2>4, <2>5, <2>7 DEF AfterName
  <2>8. CASE name.ok /\ At(t, colon) = Colon
    <3>1. PICK after \in 0..Len(t) : after = colon + 1
      <4>1. Colon # Outside
        BY DEF Colon, Outside
      <4>2. colon \in 0..(Len(t) - 1)
        BY <2>8, <4>1, Bytewise
      <4> QED BY <4>2
    <3>2. PICK n \in 0..Len(t) : n = buffer_skip_whitespace(t, after)
      BY Skipping
    <3>3. PICK v : v = inner[n] /\ Inside(t, v)
      BY <3>2 DEF AllInside
    <3>4. <<name.val[2], v.val>> \in E
      BY <2>2, <2>3, <3>2, <3>3 DEF NamesAndValues
    <3>5. AfterName(t, inner, r, name) =
            IF ~v.ok THEN Stopped(v)
            ELSE Got(t, r, <<name.val[2], v.val>>, buffer_skip_whitespace(t, v.offset))
      BY <2>5, <2>8, <3>1, <3>2, <3>3 DEF AfterName
    <3>6. v.outside = FALSE /\ buffer_skip_whitespace(t, v.offset) \in 0..Len(t)
      BY <3>3, Skipping DEF Inside
    <3>7. Stopped(v) \in LoopStates(t, E)
      BY <3>6, LoopStops
    <3>8. Got(t, r, <<name.val[2], v.val>>, buffer_skip_whitespace(t, v.offset)) \in LoopStates(t, E)
      BY <3>4, <3>6, LoopGets
    <3> QED BY <2>4, <3>5, <3>7, <3>8
  <2> QED BY <2>6, <2>7, <2>8
<1> QED BY <1>1, <1>2, <1>3

\* Where such a loop ends.
LoopEnded(t, r) == r.ok \in BOOLEAN /\ r.outside = FALSE /\ r.offset \in 0..Len(t)

LEMMA ElementsInside ==
  ASSUME NEW t \in Seq(Octet), NEW inner, AllInside(t, inner), NEW i \in 0..(Len(t) - 1)
  PROVE  LoopEnded(t, Elements(t, inner, i))
<1> DEFINE IsLoop(f) == f = [n \in 0..Len(t) |-> IF n = 0 THEN Going(i) ELSE ElementRound(t, inner, f[n - 1])]
<1>1. PICK N \in Nat : N = Len(t)
  OBVIOUS
<1>2. PICK E : E = {inner[k].val : k \in 0..Len(t)}
  OBVIOUS
<1>3. PICK S : S = LoopStates(t, E)
  OBVIOUS
<1>4. PICK a \in S : a = Going(i)
  <2>1. Going(i) = [ok |-> TRUE, got |-> <<>>, offset |-> i, more |-> TRUE, outside |-> FALSE]
    BY DEF Going
  <2>2. <<>> \in Seq(E) /\ i \in 0..Len(t) /\ i < Len(t)
    OBVIOUS
  <2> QED BY <1>3, <2>1, <2>2 DEF LoopStates
<1>5. \A r \in S : ElementRound(t, inner, r) \in S
  BY <1>2, <1>3, ElementRoundStays
<1>6. PICK G : G = [r \in S |-> ElementRound(t, inner, r)]
  OBVIOUS
<1>7. G \in [S -> S]
  BY <1>5, <1>6
<1>8. PICK g \in [0..N -> S] : Loops(g, N, a, G)
  BY <1>7, Looping
<1>9. IsLoop(g)
  <2>1. ASSUME NEW n \in 0..N PROVE g[n] = IF n = 0 THEN Going(i) ELSE ElementRound(t, inner, g[n - 1])
    <3>1. CASE n = 0
      BY <1>4, <1>8, <3>1 DEF Loops
    <3>2. CASE n # 0
      <4>1. n \in 1..N /\ n - 1 \in 0..N
        BY <3>2
      <4>2. g[n] = G[g[n - 1]] /\ g[n - 1] \in S
        BY <1>8, <4>1 DEF Loops
      <4> QED BY <1>6, <3>2, <4>2
    <3> QED BY <3>1, <3>2
  <2> QED BY <1>1, <1>8, <2>1
<1>10. PICK f : IsLoop(f) /\ Elements(t, inner, i) = f[Len(t)]
  <2>1. IsLoop(CHOOSE f : IsLoop(f))
    <3> HIDE DEF IsLoop
    <3> QED BY <1>9
  <2>2. Elements(t, inner, i) = (CHOOSE f : IsLoop(f))[Len(t)]
    BY DEF Elements
  <2> HIDE DEF IsLoop
  <2> QED BY <2>1, <2>2
<1>11. f[0] = a /\ \A n \in 1..N : f[n] = ElementRound(t, inner, f[n - 1])
  <2>1. \A n \in 0..N : f[n] = IF n = 0 THEN Going(i) ELSE ElementRound(t, inner, f[n - 1])
    BY <1>1, <1>10, Zenon
  <2>2. 0 \in 0..N /\ \A n \in 1..N : n \in 0..N /\ n # 0
    OBVIOUS
  <2> QED BY <1>4, <2>1, <2>2, Zenon
<1>12. \A n \in 1..N : f[n - 1] \in S => f[n] \in S
  BY <1>5, <1>11
<1>13. \A n \in 0..N : f[n] \in S
  BY <1>11, <1>12, Staying
<1> HIDE DEF IsLoop
<1>14. Elements(t, inner, i) \in S
  BY <1>1, <1>10, <1>13
<1> QED BY <1>3, <1>14 DEF LoopStates, LoopEnded

LEMMA MembersInside ==
  ASSUME NEW t \in Seq(Octet), NEW inner, AllInside(t, inner), NEW i \in 0..(Len(t) - 1)
  PROVE  LoopEnded(t, Members(t, inner, i))
<1> DEFINE IsLoop(f) == f = [n \in 0..Len(t) |-> IF n = 0 THEN Going(i) ELSE MemberRound(t, inner, f[n - 1])]
<1>1. PICK N \in Nat : N = Len(t)
  OBVIOUS
<1>2. PICK E : E = NamesAndValues(t, inner)
  OBVIOUS
<1>3. PICK S : S = LoopStates(t, E)
  OBVIOUS
<1>4. PICK a \in S : a = Going(i)
  <2>1. Going(i) = [ok |-> TRUE, got |-> <<>>, offset |-> i, more |-> TRUE, outside |-> FALSE]
    BY DEF Going
  <2>2. <<>> \in Seq(E) /\ i \in 0..Len(t) /\ i < Len(t)
    OBVIOUS
  <2> QED BY <1>3, <2>1, <2>2 DEF LoopStates
<1>5. \A r \in S : MemberRound(t, inner, r) \in S
  BY <1>2, <1>3, MemberRoundStays
<1>6. PICK G : G = [r \in S |-> MemberRound(t, inner, r)]
  OBVIOUS
<1>7. G \in [S -> S]
  BY <1>5, <1>6
<1>8. PICK g \in [0..N -> S] : Loops(g, N, a, G)
  BY <1>7, Looping
<1>9. IsLoop(g)
  <2>1. ASSUME NEW n \in 0..N PROVE g[n] = IF n = 0 THEN Going(i) ELSE MemberRound(t, inner, g[n - 1])
    <3>1. CASE n = 0
      BY <1>4, <1>8, <3>1 DEF Loops
    <3>2. CASE n # 0
      <4>1. n \in 1..N /\ n - 1 \in 0..N
        BY <3>2
      <4>2. g[n] = G[g[n - 1]] /\ g[n - 1] \in S
        BY <1>8, <4>1 DEF Loops
      <4> QED BY <1>6, <3>2, <4>2
    <3> QED BY <3>1, <3>2
  <2> QED BY <1>1, <1>8, <2>1
<1>10. PICK f : IsLoop(f) /\ Members(t, inner, i) = f[Len(t)]
  <2>1. IsLoop(CHOOSE f : IsLoop(f))
    <3> HIDE DEF IsLoop
    <3> QED BY <1>9
  <2>2. Members(t, inner, i) = (CHOOSE f : IsLoop(f))[Len(t)]
    BY DEF Members
  <2> HIDE DEF IsLoop
  <2> QED BY <2>1, <2>2
<1>11. f[0] = a /\ \A n \in 1..N : f[n] = MemberRound(t, inner, f[n - 1])
  <2>1. \A n \in 0..N : f[n] = IF n = 0 THEN Going(i) ELSE MemberRound(t, inner, f[n - 1])
    BY <1>1, <1>10, Zenon
  <2>2. 0 \in 0..N /\ \A n \in 1..N : n \in 0..N /\ n # 0
    OBVIOUS
  <2> QED BY <1>4, <2>1, <2>2, Zenon
<1>12. \A n \in 1..N : f[n - 1] \in S => f[n] \in S
  BY <1>5, <1>11
<1>13. \A n \in 0..N : f[n] \in S
  BY <1>11, <1>12, Staying
<1> HIDE DEF IsLoop
<1>14. Members(t, inner, i) \in S
  BY <1>1, <1>10, <1>13
<1> QED BY <1>3, <1>14 DEF LoopStates, LoopEnded

LEMMA ClosedInside ==
  ASSUME NEW t \in Seq(Octet), NEW r, LoopEnded(t, r), NEW type, NEW bracket \in Octet
  PROVE  Inside(t, Closed(t, r, type, bracket))
<1>1. CASE r.ok /\ At(t, r.offset) = bracket
  <2>1. bracket # Outside
    BY DEF Octet, Outside
  <2>2. r.offset \in 0..(Len(t) - 1)
    BY <1>1, <2>1, Bytewise DEF LoopEnded
  <2>3. r.offset + 1 \in 1..Len(t)
    BY <2>2
  <2> QED BY <1>1, <2>3, ParsedInside DEF Closed
<1>2. CASE ~(r.ok /\ At(t, r.offset) = bracket)
  <2>1. Closed(t, r, type, bracket) = [ok |-> FALSE, val |-> <<"none">>, offset |-> 0, outside |-> FALSE]
    BY <1>2 DEF Closed, ParseFailed, LoopEnded
  <2> QED BY <2>1 DEF Inside
<1> QED BY <1>1, <1>2

\* Brackets are bytes.
LEMMA Marks ==
  /\ Comma \in Octet /\ Quote \in Octet /\ CloseArray \in Octet /\ CloseObject \in Octet
  /\ Outside \notin {Comma, Quote, OpenArray, CloseArray, OpenObject, CloseObject}
BY DEF Octet, Outside, Comma, Quote, OpenArray, CloseArray, OpenObject, CloseObject

LEMMA ArrayInside ==
  ASSUME NEW t \in Seq(Octet), NEW inner, NEW left \in Nat, left # 0 => AllInside(t, inner), NEW j \in 1..Len(t)
  PROVE  Inside(t, parse_array(t, j, left, inner))
<1>1. CASE left = 0 \/ At(t, j) = Outside
  BY <1>1, Marks, FailedInside DEF parse_array
<1>2. CASE left # 0 /\ At(t, j) = CloseArray
  <2>1. j \in 0..(Len(t) - 1)
    BY <1>2, Marks, Bytewise
  <2>2. j + 1 \in 1..Len(t)
    BY <2>1
  <2>3. parse_array(t, j, left, inner) = Parsed(<<"array", <<>>>>, j + 1)
    BY <1>2, Marks DEF parse_array
  <2> QED BY <2>2, <2>3, ParsedInside
<1>3. CASE left # 0 /\ At(t, j) \notin {Outside, CloseArray}
  <2>1. PICK i \in 0..(Len(t) - 1) : i = j - 1
    OBVIOUS
  <2>2. PICK r : r = Elements(t, inner, i)
    OBVIOUS
  <2>3. LoopEnded(t, r)
    BY <1>3, <2>2, ElementsInside
  <2>4. parse_array(t, j, left, inner) = Closed(t, r, "array", CloseArray)
    BY <1>3, <2>1, <2>2 DEF parse_array
  <2>5. CloseArray \in Octet
    BY Marks
  <2>6. Inside(t, Closed(t, r, "array", CloseArray))
    BY <2>3, <2>5, ClosedInside
  <2> QED BY <2>4, <2>6
<1> QED BY <1>1, <1>2, <1>3

LEMMA ObjectInside ==
  ASSUME NEW t \in Seq(Octet), NEW inner, NEW left \in Nat, left # 0 => AllInside(t, inner), NEW j \in 1..Len(t)
  PROVE  Inside(t, parse_object(t, j, left, inner))
<1>1. CASE left = 0 \/ At(t, j) = Outside
  BY <1>1, Marks, FailedInside DEF parse_object
<1>2. CASE left # 0 /\ At(t, j) = CloseObject
  <2>1. j \in 0..(Len(t) - 1)
    BY <1>2, Marks, Bytewise
  <2>2. j + 1 \in 1..Len(t)
    BY <2>1
  <2>3. parse_object(t, j, left, inner) = Parsed(<<"object", <<>>>>, j + 1)
    BY <1>2, Marks DEF parse_object
  <2> QED BY <2>2, <2>3, ParsedInside
<1>3. CASE left # 0 /\ At(t, j) \notin {Outside, CloseObject}
  <2>1. PICK i \in 0..(Len(t) - 1) : i = j - 1
    OBVIOUS
  <2>2. PICK r : r = Members(t, inner, i)
    OBVIOUS
  <2>3. LoopEnded(t, r)
    BY <1>3, <2>2, MembersInside
  <2>4. parse_object(t, j, left, inner) = Closed(t, r, "object", CloseObject)
    BY <1>3, <2>1, <2>2 DEF parse_object
  <2>5. CloseObject \in Octet
    BY Marks
  <2>6. Inside(t, Closed(t, r, "object", CloseObject))
    BY <2>3, <2>5, ClosedInside
  <2> QED BY <2>4, <2>6
<1> QED BY <1>1, <1>2, <1>3

-----------------------------------------------------------------------------
(* Values *)

LEMMA WordInside ==
  ASSUME NEW t \in Seq(Octet), NEW i \in 0..Len(t), NEW word, NEW n \in Nat \ {0}, Len(word) = n,
         Begins(t, i, word), NEW v
  PROVE  Inside(t, Parsed(v, i + n))
<1>1. i + n \in 1..Len(t)
  BY DEF Begins
<1> QED BY <1>1, ParsedInside

\* One value, if those one level deeper are inside.
LEMMA ValueInside ==
  ASSUME NEW t \in Seq(Octet), NEW i \in 0..Len(t), NEW left \in Nat, NEW inner, left # 0 => AllInside(t, inner)
  PROVE  Inside(t, parse_value(t, i, left, inner))
<1>1. CASE Begins(t, i, Null)
  <2>1. Len(Null) = 4
    BY DEF Null
  <2>2. Inside(t, Parsed(<<"null">>, i + 4))
    <3>1. 4 \in Nat \ {0} /\ Begins(t, i, Null)
      BY <1>1
    <3> QED BY <2>1, <3>1, WordInside
  <2>3. parse_value(t, i, left, inner) = Parsed(<<"null">>, i + 4)
    BY <1>1 DEF parse_value
  <2> QED BY <2>2, <2>3
<1>2. CASE ~Begins(t, i, Null) /\ Begins(t, i, False)
  <2>1. Len(False) = 5
    BY DEF False
  <2>2. Inside(t, Parsed(<<"false">>, i + 5))
    <3>1. 5 \in Nat \ {0} /\ Begins(t, i, False)
      BY <1>2
    <3> QED BY <2>1, <3>1, WordInside
  <2>3. parse_value(t, i, left, inner) = Parsed(<<"false">>, i + 5)
    BY <1>2 DEF parse_value
  <2> QED BY <2>2, <2>3
<1>3. CASE ~Begins(t, i, Null) /\ ~Begins(t, i, False) /\ Begins(t, i, True)
  <2>1. Len(True) = 4
    BY DEF True
  <2>2. Inside(t, Parsed(<<"true">>, i + 4))
    <3>1. 4 \in Nat \ {0} /\ Begins(t, i, True)
      BY <1>3
    <3> QED BY <2>1, <3>1, WordInside
  <2>3. parse_value(t, i, left, inner) = Parsed(<<"true">>, i + 4)
    BY <1>3 DEF parse_value
  <2> QED BY <2>2, <2>3
<1>4. CASE ~Begins(t, i, Null) /\ ~Begins(t, i, False) /\ ~Begins(t, i, True)
  <2>0. At(t, i) # Outside => i \in 0..(Len(t) - 1)
    BY Bytewise
  <2>1. CASE At(t, i) = Quote
    <3>1. parse_value(t, i, left, inner) = parse_string(t, i)
      BY <1>4, <2>1 DEF parse_value, Quote, OpenArray, OpenObject
    <3> QED BY <2>0, <2>1, <3>1, Marks, StringInside
  <2>2. ASSUME At(t, i) # Outside PROVE buffer_skip_whitespace(t, i + 1) \in 1..Len(t)
    <3>1. i + 1 \in 1..Len(t)
      BY <2>0, <2>2
    <3> QED BY <3>1, SkippingOn
  <2>3. CASE At(t, i) = OpenArray
    <3>1. PICK j \in 1..Len(t) : j = buffer_skip_whitespace(t, i + 1)
      BY <2>2, <2>3, Marks
    <3>2. parse_value(t, i, left, inner) = parse_array(t, j, left, inner)
      BY <1>4, <2>3, <3>1 DEF parse_value, Quote, OpenArray, OpenObject
    <3> QED BY <3>2, ArrayInside
  <2>4. CASE At(t, i) = OpenObject
    <3>1. PICK j \in 1..Len(t) : j = buffer_skip_whitespace(t, i + 1)
      BY <2>2, <2>4, Marks
    <3>2. parse_value(t, i, left, inner) = parse_object(t, j, left, inner)
      BY <1>4, <2>4, <3>1 DEF parse_value, Quote, OpenArray, OpenObject
    <3> QED BY <3>2, ObjectInside
  <2>5. CASE At(t, i) \notin {Quote, OpenArray, OpenObject}
    <3>1. parse_value(t, i, left, inner) = ParseFailed(Comma)
      BY <1>4, <2>5 DEF parse_value
    <3> QED BY <3>1, Marks, FailedInside
  <2> QED BY <2>1, <2>3, <2>4, <2>5
<1> QED BY <1>1, <1>2, <1>3, <1>4

\* What the values of a level are parsed with: those one level deeper.
Deeper(f, left) == IF left = 0 THEN <<>> ELSE f[left - 1]
Tower(t, f, N) == \A left \in 0..N : f[left] = ValuesAt(t, left, Deeper(f, left))

\* There are as many levels as may be opened.
LEMMA Levels ==
  ASSUME NEW t, NEW N \in Nat
  PROVE  \E f : Tower(t, f, N)
<1> DEFINE T == {n \in Nat : \E f : Tower(t, f, n)}
<1>1. 0 \in T
  <2>1. PICK f : f = [left \in {0} |-> ValuesAt(t, 0, <<>>)]
    OBVIOUS
  <2>2. Tower(t, f, 0)
    BY <2>1 DEF Tower, Deeper
  <2> QED BY <2>2
<1>2. ASSUME NEW n \in T PROVE n + 1 \in T
  <2>1. PICK g : Tower(t, g, n) /\ n \in Nat
    OBVIOUS
  <2>2. PICK m \in Nat : m = n + 1
    BY <2>1
  <2>3. PICK h : h = [left \in 0..m |-> IF left = m THEN ValuesAt(t, m, g[n]) ELSE g[left]]
    OBVIOUS
  <2>4. \A left \in 0..n : h[left] = g[left]
    BY <2>1, <2>2, <2>3
  <2>5. h[m] = ValuesAt(t, m, g[n])
    BY <2>2, <2>3
  <2>6. ASSUME NEW left \in 0..m PROVE h[left] = ValuesAt(t, left, Deeper(h, left))
    <3>1. CASE left = m
      <4>1. Deeper(h, m) = g[n]
        BY <2>1, <2>2, <2>4 DEF Deeper
      <4> QED BY <2>5, <3>1, <4>1
    <3>2. CASE left # m
      <4>1. left \in 0..n
        BY <2>1, <2>2, <3>2
      <4>2. Deeper(h, left) = Deeper(g, left)
        <5>1. left # 0 => left - 1 \in 0..n
          BY <2>1, <4>1
        <5> QED BY <2>4, <5>1 DEF Deeper
      <4>3. g[left] = ValuesAt(t, left, Deeper(g, left))
        BY <2>1, <4>1 DEF Tower
      <4> QED BY <2>4, <4>1, <4>2, <4>3
    <3> QED BY <3>1, <3>2
  <2>7. Tower(t, h, m)
    BY <2>6 DEF Tower
  <2> QED BY <2>2, <2>7
<1>3. T = Nat
  <2> HIDE DEF T
  <2>1. T \in SUBSET Nat
    BY DEF T
  <2> QED BY <1>1, <1>2, <2>1, Induct
<1> QED BY <1>3

\* What is parsed from every offset, with all levels left.
LEMMA ValuesTower ==
  ASSUME NEW t
  PROVE  \E f : Tower(t, f, CJSON_NESTING_LIMIT) /\ Values(t) = f[CJSON_NESTING_LIMIT]
<1> DEFINE IsTower(f) == f = [left \in 0..CJSON_NESTING_LIMIT |->
                                ValuesAt(t, left, IF left = 0 THEN <<>> ELSE f[left - 1])]
<1>1. PICK N \in Nat : N = CJSON_NESTING_LIMIT
  BY NestingAssumption
<1>2. PICK g : Tower(t, g, N)
  BY Levels
<1>3. PICK h : h = [left \in 0..N |-> g[left]]
  OBVIOUS
<1>4. IsTower(h)
  <2>1. ASSUME NEW left \in 0..N PROVE h[left] = ValuesAt(t, left, IF left = 0 THEN <<>> ELSE h[left - 1])
    <3>1. h[left] = ValuesAt(t, left, Deeper(g, left))
      BY <1>2, <1>3 DEF Tower
    <3>2. left # 0 => left - 1 \in 0..N
      OBVIOUS
    <3>3. Deeper(g, left) = IF left = 0 THEN <<>> ELSE h[left - 1]
      BY <1>3, <3>2 DEF Deeper
    <3> QED BY <3>1, <3>3
  <2> QED BY <1>1, <1>3, <2>1
<1>5. PICK f : IsTower(f) /\ Values(t) = f[CJSON_NESTING_LIMIT]
  <2>1. IsTower(CHOOSE f : IsTower(f))
    <3> HIDE DEF IsTower
    <3> QED BY <1>4
  <2>2. Values(t) = (CHOOSE f : IsTower(f))[CJSON_NESTING_LIMIT]
    BY DEF Values
  <2> HIDE DEF IsTower
  <2> QED BY <2>1, <2>2
<1>6. \A left \in 0..N : f[left] = ValuesAt(t, left, Deeper(f, left))
  BY <1>1, <1>5, Zenon DEF Deeper
<1> HIDE DEF IsTower
<1>7. Tower(t, f, N)
  BY <1>6 DEF Tower
<1> QED BY <1>1, <1>5, <1>7

LEMMA ValuesOfLevel ==
  ASSUME NEW t
  PROVE  \E inner : Values(t) = ValuesAt(t, CJSON_NESTING_LIMIT, inner)
<1>1. PICK N \in Nat : N = CJSON_NESTING_LIMIT
  BY NestingAssumption
<1>2. PICK f : Tower(t, f, N) /\ Values(t) = f[N]
  BY <1>1, ValuesTower
<1>3. N \in 0..N
  OBVIOUS
<1> QED BY <1>1, <1>2, <1>3 DEF Tower

LEMMA ValuesInside ==
  ASSUME NEW t \in Seq(Octet)
  PROVE  AllInside(t, Values(t))
<1>1. PICK N \in Nat : N = CJSON_NESTING_LIMIT
  BY NestingAssumption
<1>5. PICK f : Tower(t, f, N) /\ Values(t) = f[N]
  BY <1>1, ValuesTower
<1>6. \A left \in 0..N : f[left] = ValuesAt(t, left, Deeper(f, left))
  BY <1>5 DEF Tower
<1> DEFINE T == {left \in 0..N : AllInside(t, f[left])}
<1>7. ASSUME NEW left \in 0..N, left # 0 => AllInside(t, Deeper(f, left)) PROVE left \in T
  <2>1. PICK inner : inner = Deeper(f, left)
    OBVIOUS
  <2>2. f[left] = [i \in 0..Len(t) |-> parse_value(t, i, left, inner)]
    BY <1>6, <2>1 DEF ValuesAt
  <2>3. \A i \in 0..Len(t) : Inside(t, parse_value(t, i, left, inner))
    <3>1. left \in Nat
      OBVIOUS
    <3> QED BY <1>7, <2>1, <3>1, ValueInside
  <2>4. DOMAIN f[left] = 0..Len(t) /\ \A i \in 0..Len(t) : Inside(t, f[left][i])
    BY <2>2, <2>3
  <2> QED BY <2>4 DEF AllInside
<1>8. 0 \in T
  <2>1. 0 \in 0..N
    OBVIOUS
  <2> QED BY <1>7, <2>1
<1>9. \A left \in 0..(N - 1) : left \in T => left + 1 \in T
  <2> SUFFICES ASSUME NEW left \in 0..(N - 1), left \in T PROVE left + 1 \in T
    OBVIOUS
  <2>1. PICK m \in 0..N : m = left + 1 /\ m # 0 /\ m - 1 = left
    OBVIOUS
  <2>2. Deeper(f, m) = f[left]
    BY <2>1 DEF Deeper
  <2>3. AllInside(t, Deeper(f, m))
    BY <2>2
  <2>4. m \in T
    BY <1>7, <2>3
  <2> QED BY <2>1, <2>4
<1>10. N \in T
  <2> HIDE DEF T
  <2>1. 0 \in Int /\ N \in Int /\ N \in 0..N
    OBVIOUS
  <2>2. 0..N \subseteq T
    BY <1>8, <1>9, <2>1, InductBetween
  <2> QED BY <2>1, <2>2
<1> QED BY <1>1, <1>5, <1>10

-----------------------------------------------------------------------------
(* A text *)

\* Whatever the text, the parser stays inside it.
THEOREM ParserInside ==
  ASSUME NEW t \in Seq(Octet), NEW terminated \in BOOLEAN
  PROVE  StaysInside(t, cJSON_ParseWithLengthOpts(t, terminated))
<1>1. ASSUME NEW v, Inside(t, v) PROVE StaysInside(t, v)
  BY <1>1 DEF Inside, StaysInside
<1>2. CASE t = <<>>
  BY <1>1, <1>2, Marks, FailedInside DEF cJSON_ParseWithLengthOpts
<1>3. CASE t # <<>>
  <2>1. PICK i \in 0..Len(t) : i = skip_utf8_bom(t)
    BY <1>3 DEF skip_utf8_bom
  <2>2. PICK j \in 0..Len(t) : j = buffer_skip_whitespace(t, i)
    BY Skipping
  <2>3. PICK v : v = Values(t)[j] /\ Inside(t, v)
    BY ValuesInside DEF AllInside
  <2>4. cJSON_ParseWithLengthOpts(t, terminated) = Ended(t, v, terminated)
    BY <1>3, <2>1, <2>2, <2>3 DEF cJSON_ParseWithLengthOpts
  <2>5. CASE ~v.ok \/ ~terminated
    BY <1>1, <2>3, <2>4, <2>5 DEF Ended
  <2>6. CASE v.ok /\ terminated
    <3>1. PICK o \in 1..Len(t) : o = v.offset
      BY <2>3, <2>6 DEF Inside
    <3>2. PICK n : n = buffer_skip_whitespace(t, o)
      OBVIOUS
    <3>3. CASE At(t, n) = 0
      <4>2. n \in 1..Len(t)
        BY <3>2, SkippingOn
      <4>3. Ended(t, v, terminated) = Parsed(v.val, n)
        BY <2>6, <3>1, <3>2, <3>3 DEF Ended
      <4> QED BY <1>1, <2>4, <4>2, <4>3, ParsedInside
    <3>4. CASE At(t, n) # 0
      <4>1. Ended(t, v, terminated) = ParseFailed(Comma)
        BY <2>6, <3>1, <3>2, <3>4 DEF Ended
      <4> QED BY <1>1, <2>4, <4>1, Marks, FailedInside
    <3> QED BY <3>3, <3>4
  <2> QED BY <2>5, <2>6
<1> QED BY <1>2, <1>3

\* Whatever text is put together, with a NUL behind it or without, the parser reads
\* no byte beyond it and writes none beyond what it allocated (cJSON.c:832-868,
\* 1142-1219).
THEOREM ParserInBounds == Spec => []ParseStaysInside
<1>1. ASSUME NEW s \in Seq(Byte), NEW b \in Octet PROVE s \in Seq(Octet) /\ s \o <<b>> \in Seq(Octet)
  <2>1. s \in Seq(Octet)
    BY DEF Byte, Octet
  <2>2. <<b>> \in Seq(Octet)
    OBVIOUS
  <2> QED BY <2>1, <2>2, ConcatProperties
<1>2. HelpersInv => ParseStaysInside
  <2>1. 0 \in Octet
    BY DEF Octet
  <2> QED BY <1>1, <2>1, ParserInside DEF HelpersInv, ParseStaysInside
<1> QED BY <1>2, HelpersHold, PTL

-----------------------------------------------------------------------------
(* An escaped text *)

\* What EscapedByte writes for a byte is the byte, or an escape of one letter, or
\* a literal of four digits.
IsItself(e, b) == e = <<b>> /\ b # Quote /\ b # Backslash /\ b >= Space
IsEscape(e, b, c) == e = <<Backslash, c>> /\ c \in DOMAIN Escapes /\ Escapes[c] = b
IsLiteral(e, b, h, l) ==
  /\ e = <<Backslash, 117, 48, 48, h, l>> /\ h \in DOMAIN HexValue /\ l \in DOMAIN HexValue
  /\ 16 * HexValue[h] + HexValue[l] = b /\ b < Space

LEMMA LowerRead ==
  ASSUME NEW d \in 0..15
  PROVE  LowerHex(d) \in DOMAIN HexValue /\ HexValue[LowerHex(d)] = d
<1>1. CASE d < 10
  <2>1. LowerHex(d) = 48 + d
    BY <1>1 DEF LowerHex
  <2>2. 48 + d \in 48..57 /\ (48 + d) - 48 = d
    BY <1>1
  <2> QED BY <2>1, <2>2 DEF HexValue
<1>2. CASE ~(d < 10)
  <2>1. LowerHex(d) = 87 + d
    BY <1>2 DEF LowerHex
  <2>2. 87 + d \in 97..102
    BY <1>2
  <2> QED BY <2>1, <2>2 DEF HexValue
<1> QED BY <1>1, <1>2

LEMMA ShortHasEscape == ASSUME NEW b \in ShortEscapes PROVE \E c \in DOMAIN Escapes : Escapes[c] = b
<1>1. \A c \in {98, 102, 110, 114, 116, 34, 92} : c \in DOMAIN Escapes
  BY DEF Escapes, Quote, Backslash, Slash
<1>2. Escapes[98] = 8 /\ Escapes[102] = 12 /\ Escapes[110] = 10 /\ Escapes[114] = 13 /\ Escapes[116] = 9
  BY DEF Escapes, NewLine, Return, Tab
<1>3. Escapes[34] = 34 /\ Escapes[92] = 92
  BY DEF Escapes, Quote, Backslash
<1>4. b \in {34, 92, 8, 12, 10, 13, 9}
  BY DEF ShortEscapes, Quote, Backslash, NewLine, Return, Tab
<1> QED BY <1>1, <1>2, <1>3, <1>4

LEMMA EscapedShape ==
  ASSUME NEW b \in Byte
  PROVE  \/ IsItself(EscapedByte(b), b) \/ \E c : IsEscape(EscapedByte(b), b, c)
         \/ \E h, l : IsLiteral(EscapedByte(b), b, h, l)
<1>1. CASE b \in ShortEscapes
  <2>1. PICK c : c = EscapeOf(b)
    OBVIOUS
  <2>2. c \in DOMAIN Escapes /\ Escapes[c] = b
    BY <1>1, <2>1, ShortHasEscape DEF EscapeOf
  <2>3. EscapedByte(b) = <<Backslash, c>>
    BY <1>1, <2>1 DEF EscapedByte
  <2> QED BY <2>2, <2>3 DEF IsEscape
<1>2. CASE b \notin ShortEscapes /\ b < 32
  <2>1. PICK x : x = b \div 16
    OBVIOUS
  <2>2. PICK y : y = b % 16
    OBVIOUS
  <2>3. x \in 0..15 /\ y \in 0..15 /\ b = 16 * x + y
    BY <2>1, <2>2 DEF Byte
  <2>4. EscapedByte(b) = <<Backslash, 117, 48, 48, LowerHex(x), LowerHex(y)>>
    BY <1>2, <2>1, <2>2 DEF EscapedByte
  <2>5. PICK h : h = LowerHex(x)
    OBVIOUS
  <2>6. PICK l : l = LowerHex(y)
    OBVIOUS
  <2>7. h \in DOMAIN HexValue /\ HexValue[h] = x /\ l \in DOMAIN HexValue /\ HexValue[l] = y
    BY <2>3, <2>5, <2>6, LowerRead
  <2>8. IsLiteral(EscapedByte(b), b, h, l)
    BY <1>2, <2>3, <2>4, <2>5, <2>6, <2>7 DEF IsLiteral, Space
  <2> QED BY <2>8
<1>3. CASE b \notin ShortEscapes /\ b >= 32
  <2>1. EscapedByte(b) = <<b>>
    BY <1>3 DEF EscapedByte, Byte
  <2>2. b # Quote /\ b # Backslash
    BY <1>3 DEF ShortEscapes
  <2> QED BY <1>3, <2>1, <2>2 DEF IsItself, Space
<1> QED BY <1>1, <1>2, <1>3 DEF Byte

\* The bytes from the space on.
Graphic == 32..255

LEMMA EscapedBytes ==
  ASSUME NEW b \in Byte
  PROVE  EscapedByte(b) \in Seq(Graphic) /\ Len(EscapedByte(b)) \in 1..6
<1>0. \A c \in DOMAIN Escapes \cup DOMAIN HexValue \cup {Backslash, 117, 48} : c \in Graphic
  BY DEF Escapes, HexValue, Quote, Backslash, Slash, Graphic
<1>1. CASE IsItself(EscapedByte(b), b)
  <2>1. b \in Graphic
    BY <1>1 DEF IsItself, Byte, Graphic, Space
  <2> QED BY <1>1, <2>1 DEF IsItself
<1>2. ASSUME NEW c, IsEscape(EscapedByte(b), b, c) PROVE EscapedByte(b) \in Seq(Graphic) /\ Len(EscapedByte(b)) \in 1..6
  <2>1. c \in Graphic /\ Backslash \in Graphic
    BY <1>0, <1>2 DEF IsEscape
  <2> QED BY <1>2, <2>1 DEF IsEscape
<1>3. ASSUME NEW h, NEW l, IsLiteral(EscapedByte(b), b, h, l)
      PROVE  EscapedByte(b) \in Seq(Graphic) /\ Len(EscapedByte(b)) \in 1..6
  <2>1. h \in Graphic /\ l \in Graphic /\ Backslash \in Graphic /\ 117 \in Graphic /\ 48 \in Graphic
    BY <1>0, <1>3 DEF IsLiteral
  <2> QED BY <1>3, <2>1 DEF IsLiteral
<1> QED BY <1>1, <1>2, <1>3, EscapedShape

LEMMA EscapedLength == ASSUME NEW b \in Byte PROVE \E l \in Nat : l = Len(EscapedByte(b)) /\ 1 <= l /\ l <= 6
<1>1. PICK l : l = Len(EscapedByte(b))
  OBVIOUS
<1>2. l \in 1..6
  BY <1>1, EscapedBytes
<1>3. l \in Nat /\ 1 <= l /\ l <= 6
  BY <1>2
<1> QED BY <1>1, <1>3, Zenon

\* e stands at q.
Stands(t, q, e) == \A k \in 1..Len(e) : At(t, q + (k - 1)) = e[k]

\* One round of the first loop.
LEMMA OneByteOn ==
  ASSUME NEW t \in Seq(Octet), NEW r \in EndStates(t), At(t, r.at) \notin {Outside, Quote, Backslash}
  PROVE  EndRound(t, r).at = r.at + 1
<1>1. PICK a \in 0..Len(t), k \in Nat : r = [at |-> a, skipped |-> k]
  BY DEF EndStates
<1>2. EndRound(t, r) = [at |-> a + 1, skipped |-> k]
  BY <1>1 DEF EndRound
<1> QED BY <1>1, <1>2

LEMMA OneEscapeOn ==
  ASSUME NEW t \in Seq(Octet), NEW r \in EndStates(t), At(t, r.at) = Backslash, At(t, r.at + 1) # Outside
  PROVE  EndRound(t, r).at = r.at + 2
<1>0. PICK N \in Nat : N = Len(t)
  OBVIOUS
<1>1. PICK a \in 0..N, k \in Nat : r = [at |-> a, skipped |-> k]
  BY <1>0 DEF EndStates
<1>2. a + 1 < N
  BY <1>0, <1>1 DEF At
<1>3. EndRound(t, r) = [at |-> a + 2, skipped |-> k + 1]
  BY <1>0, <1>1, <1>2 DEF EndRound, Outside, Quote, Backslash
<1> QED BY <1>1, <1>3

\* Up to l rounds after the ith, f is l bytes further.
Beyond(f, i, l) == \E k \in 1..l : f[i + k].at = f[i].at + l

\* Where the escape of b stands, the first loop passes it in as many rounds as it
\* has bytes, or fewer.
LEMMA EscapePassed ==
  ASSUME NEW t \in Seq(Octet), NEW N \in Nat, N = Len(t), NEW f \in [0..N -> EndStates(t)],
         \A n \in 1..N : f[n] = EndRound(t, f[n - 1]),
         NEW b \in Byte, NEW q \in Nat, Stands(t, q, EscapedByte(b)),
         NEW m \in 0..N, f[m].at = q, m + Len(EscapedByte(b)) <= N
  PROVE  Beyond(f, m, Len(EscapedByte(b)))
<1>1. ASSUME NEW n \in 0..(N - 1), At(t, f[n].at) \notin {Outside, Quote, Backslash}
      PROVE  f[n + 1].at = f[n].at + 1
  <2>1. n + 1 \in 1..N /\ (n + 1) - 1 = n /\ n \in 0..N
    OBVIOUS
  <2>2. f[n + 1] = EndRound(t, f[n]) /\ f[n] \in EndStates(t)
    BY <2>1
  <2> QED BY <1>1, <2>2, OneByteOn
<1>2. ASSUME NEW n \in 0..(N - 1), At(t, f[n].at) = Backslash, At(t, f[n].at + 1) # Outside
      PROVE  f[n + 1].at = f[n].at + 2
  <2>1. n + 1 \in 1..N /\ (n + 1) - 1 = n /\ n \in 0..N
    OBVIOUS
  <2>2. f[n + 1] = EndRound(t, f[n]) /\ f[n] \in EndStates(t)
    BY <2>1
  <2> QED BY <1>2, <2>2, OneEscapeOn
<1>3. CASE IsItself(EscapedByte(b), b)
  <2>1. EscapedByte(b) = <<b>> /\ Len(<<b>>) = 1 /\ <<b>>[1] = b /\ 1 \in 1..1 /\ q + (1 - 1) = q
    BY <1>3 DEF IsItself
  <2>2. At(t, q) = b
    BY <2>1 DEF Stands
  <2>3. b \notin {Outside, Quote, Backslash}
    BY <1>3 DEF IsItself, Outside, Byte
  <2>4. m \in 0..(N - 1)
    BY <2>1
  <2>5. f[m + 1].at = q + 1
    BY <1>1, <2>2, <2>3, <2>4
  <2>6. Beyond(f, m, 1)
    <3>1. 1 \in 1..1 /\ f[m + 1].at = f[m].at + 1
      BY <2>5
    <3> QED BY <3>1 DEF Beyond
  <2> QED BY <2>1, <2>6
<1>4. ASSUME NEW c, IsEscape(EscapedByte(b), b, c)
      PROVE  Beyond(f, m, Len(EscapedByte(b)))
  <2>0. c # Outside
    <3>1. c \in {34, 92, 47, 98, 102, 110, 114, 116}
      BY <1>4, Zenon DEF IsEscape, Escapes, Quote, Backslash, Slash
    <3> QED BY <3>1 DEF Outside
  <2>1. PICK e : e = EscapedByte(b) /\ Len(e) = 2 /\ e[1] = Backslash /\ e[2] = c
    BY <1>4 DEF IsEscape
  <2>2. At(t, q) = Backslash /\ At(t, q + 1) = c
    <3>1. 1 \in 1..2 /\ 2 \in 1..2 /\ q + (1 - 1) = q /\ q + (2 - 1) = q + 1
      OBVIOUS
    <3> QED BY <2>1, <3>1 DEF Stands
  <2>3. m \in 0..(N - 1)
    BY <2>1
  <2>4. f[m + 1].at = q + 2
    BY <1>2, <2>0, <2>2, <2>3
  <2>5. Beyond(f, m, 2)
    <3>1. 1 \in 1..2 /\ f[m + 1].at = f[m].at + 2
      BY <2>4
    <3> QED BY <3>1 DEF Beyond
  <2> QED BY <2>1, <2>5
<1>5. ASSUME NEW h, NEW l, IsLiteral(EscapedByte(b), b, h, l)
      PROVE  Beyond(f, m, Len(EscapedByte(b)))
  <2>1. PICK e : /\ e = EscapedByte(b) /\ Len(e) = 6 /\ e[1] = Backslash /\ e[2] = 117 /\ e[3] = 48 /\ e[4] = 48
                 /\ e[5] = h /\ e[6] = l
    BY <1>5 DEF IsLiteral
  <2>2. At(t, q) = Backslash /\ At(t, q + 1) = 117 /\ At(t, q + 2) = 48 /\ At(t, q + 3) = 48
        /\ At(t, q + 4) = h /\ At(t, q + 5) = l
    <3>1. \A k \in 1..6 : At(t, q + (k - 1)) = e[k]
      BY <2>1 DEF Stands
    <3>2. q + (1 - 1) = q /\ q + (2 - 1) = q + 1 /\ q + (3 - 1) = q + 2
          /\ q + (4 - 1) = q + 3 /\ q + (5 - 1) = q + 4 /\ q + (6 - 1) = q + 5
      OBVIOUS
    <3>3. 1 \in 1..6 /\ 2 \in 1..6 /\ 3 \in 1..6 /\ 4 \in 1..6 /\ 5 \in 1..6 /\ 6 \in 1..6
      OBVIOUS
    <3> QED BY <2>1, <3>1, <3>2, <3>3
  <2>3. \A x \in {48, h, l} : x \notin {Outside, Quote, Backslash}
    <3>1. \A x \in DOMAIN HexValue : x \notin {Outside, Quote, Backslash}
      BY DEF HexValue, Outside, Quote, Backslash
    <3>2. 48 \in DOMAIN HexValue
      BY DEF HexValue
    <3> QED BY <1>5, <3>1, <3>2 DEF IsLiteral
  <2>5. f[m + 1].at = q + 2
    <3>1. m \in 0..(N - 1) /\ 117 # Outside
      BY <2>1 DEF Outside
    <3> QED BY <1>2, <2>2, <3>1
  <2>6. f[m + 2].at = q + 3
    <3>1. m + 1 \in 0..(N - 1) /\ (m + 1) + 1 = m + 2 /\ (q + 2) + 1 = q + 3
      BY <2>1
    <3> QED BY <1>1, <2>2, <2>3, <2>5, <3>1
  <2>7. f[m + 3].at = q + 4
    <3>1. m + 2 \in 0..(N - 1) /\ (m + 2) + 1 = m + 3 /\ (q + 3) + 1 = q + 4
      BY <2>1
    <3> QED BY <1>1, <2>2, <2>3, <2>6, <3>1
  <2>8. f[m + 4].at = q + 5
    <3>1. m + 3 \in 0..(N - 1) /\ (m + 3) + 1 = m + 4 /\ (q + 4) + 1 = q + 5
      BY <2>1
    <3> QED BY <1>1, <2>2, <2>3, <2>7, <3>1
  <2>9. f[m + 5].at = q + 6
    <3>1. m + 4 \in 0..(N - 1) /\ (m + 4) + 1 = m + 5 /\ (q + 5) + 1 = q + 6
      BY <2>1
    <3> QED BY <1>1, <2>2, <2>3, <2>8, <3>1
  <2>10. Beyond(f, m, 6)
    <3>1. 5 \in 1..6 /\ f[m + 5].at = f[m].at + 6
      BY <2>9
    <3> QED BY <3>1 DEF Beyond
  <2> QED BY <2>1, <2>10
<1> QED BY <1>3, <1>4, <1>5, EscapedShape

\* And the second loop takes it in one piece, which gives b back.
LEMMA EscapeGivesBack ==
  ASSUME NEW t \in Seq(Octet), NEW b \in Byte, NEW q \in Nat, Stands(t, q, EscapedByte(b)),
         NEW end \in 0..Len(t), q + Len(EscapedByte(b)) <= end
  PROVE  Piece(t, q, end) = [bytes |-> <<b>>, used |-> Len(EscapedByte(b))]
<1>1. CASE IsItself(EscapedByte(b), b)
  <2>1. EscapedByte(b) = <<b>> /\ Len(<<b>>) = 1 /\ <<b>>[1] = b /\ 1 \in 1..1 /\ q + (1 - 1) = q
    BY <1>1 DEF IsItself
  <2>2. At(t, q) = b
    BY <2>1 DEF Stands
  <2>3. b # Backslash
    BY <1>1 DEF IsItself
  <2> QED BY <2>1, <2>2, <2>3 DEF Piece
<1>2. ASSUME NEW c, IsEscape(EscapedByte(b), b, c)
      PROVE  Piece(t, q, end) = [bytes |-> <<b>>, used |-> Len(EscapedByte(b))]
  <2>1. PICK e : e = EscapedByte(b) /\ Len(e) = 2 /\ e[1] = Backslash /\ e[2] = c
    BY <1>2 DEF IsEscape
  <2>2. At(t, q) = Backslash /\ At(t, q + 1) = c
    <3>1. 1 \in 1..2 /\ 2 \in 1..2 /\ q + (1 - 1) = q /\ q + (2 - 1) = q + 1
      OBVIOUS
    <3> QED BY <2>1, <3>1 DEF Stands
  <2>3. c \in DOMAIN Escapes /\ Escapes[c] = b /\ c # 117
    BY <1>2, EscapesAreBytes DEF IsEscape
  <2>4. Piece(t, q, end) = [bytes |-> <<Escapes[c]>>, used |-> 2]
    BY <2>2, <2>3 DEF Piece
  <2> QED BY <2>1, <2>3, <2>4
<1>3. ASSUME NEW h, NEW l, IsLiteral(EscapedByte(b), b, h, l)
      PROVE  Piece(t, q, end) = [bytes |-> <<b>>, used |-> Len(EscapedByte(b))]
  <2>1. PICK e : /\ e = EscapedByte(b) /\ Len(e) = 6 /\ e[1] = Backslash /\ e[2] = 117 /\ e[3] = 48 /\ e[4] = 48
                 /\ e[5] = h /\ e[6] = l
    BY <1>3 DEF IsLiteral
  <2>2. \A k \in 1..6 : At(t, q + (k - 1)) = e[k]
    BY <2>1 DEF Stands
  <2>3. At(t, q) = Backslash /\ At(t, q + 1) = 117
    <3>1. 1 \in 1..6 /\ 2 \in 1..6 /\ q + (1 - 1) = q /\ q + (2 - 1) = q + 1
      OBVIOUS
    <3> QED BY <2>1, <2>2, <3>1
  <2>4. PICK s : s = RestOf(t, q, end)
    OBVIOUS
  <2>5. s \in Seq(Octet) /\ Len(s) >= 6 /\ \A k \in 1..6 : s[k] = e[k]
    <3>1. q <= end /\ q + 6 <= end
      BY <2>1
    <3>2. s \in Seq(Octet) /\ Len(s) = end - q /\ \A k \in 1..(end - q) : s[k] = At(t, q + (k - 1))
      BY <2>4, <3>1, PartOf
    <3>3. \A k \in 1..6 : k \in 1..(end - q)
      BY <3>1
    <3> QED BY <2>2, <3>1, <3>2, <3>3
  <2>6. PICK d : d = SubSeq(s, 3, 6)
    OBVIOUS
  <2>7. d[1] = 48 /\ d[2] = 48 /\ d[3] = h /\ d[4] = l
    <3>1. 3 >= 1 /\ 6 <= Len(s) /\ 6 - 3 + 1 = 4
      BY <2>5
    <3>2. \A k \in 1..4 : d[k] = s[3 + k - 1]
      BY <2>5, <2>6, <3>1, SubSeqProperties
    <3>3. d[1] = s[3] /\ d[2] = s[4] /\ d[3] = s[5] /\ d[4] = s[6]
      BY <3>2
    <3> QED BY <2>1, <2>5, <3>3
  <2>8. parse_hex4(d) = b
    <3>1. 48 \in DOMAIN HexValue /\ HexValue[48] = 0
      BY DEF HexValue
    <3>2. h \in DOMAIN HexValue /\ l \in DOMAIN HexValue /\ 16 * HexValue[h] + HexValue[l] = b
      BY <1>3 DEF IsLiteral
    <3>3. \A k \in 1..4 : d[k] \in DOMAIN HexValue
      BY <2>7, <3>1, <3>2
    <3>4. parse_hex4(d) = 4096 * HexValue[48] + 256 * HexValue[48] + 16 * HexValue[h] + HexValue[l]
      BY <2>7, <3>3 DEF parse_hex4
    <3>5. HexValue[h] \in 0..15 /\ HexValue[l] \in 0..15
      BY <3>2, HexIsSmall
    <3> QED BY <3>1, <3>2, <3>4, <3>5, SMTT(30)
  <2>9. b < 32
    BY <1>3 DEF IsLiteral, Space
  <2>10. utf16_literal_to_utf8(s) = [bytes |-> <<b>>, used |-> 6]
    <3>1. ~IsFirst(b) /\ ~IsSecond(b) /\ Utf8(b) = <<b>>
      BY <2>9 DEF IsFirst, IsSecond, Utf8, Byte
    <3> QED BY <2>5, <2>6, <2>8, <3>1 DEF utf16_literal_to_utf8
  <2>11. Piece(t, q, end) = utf16_literal_to_utf8(s)
    BY <2>3, <2>4, EscapesAreBytes DEF Piece, RestOf
  <2> QED BY <2>1, <2>10, <2>11
<1> QED BY <1>1, <1>2, <1>3, EscapedShape

\* Where t has a quote, the text s escaped byte by byte, and a quote; w[n] is where
\* the escape of the next byte after n stands.
Laid(t, s, w) ==
  /\ w \in [0..Len(s) -> Nat] /\ w[0] = 1 /\ At(t, 0) = Quote /\ At(t, w[Len(s)]) = Quote
  /\ \A n \in 0..(Len(s) - 1) : /\ w[n + 1] = w[n] + Len(EscapedByte(s[n + 1]))
                               /\ Stands(t, w[n], EscapedByte(s[n + 1]))

LEMMA LaidInOrder ==
  ASSUME NEW t \in Seq(Octet), NEW s \in Seq(Byte), NEW w, Laid(t, s, w)
  PROVE  /\ \A n \in 0..Len(s) : n < w[n] /\ w[n] <= w[Len(s)]
         /\ w[Len(s)] < Len(t)
<1>0. PICK N \in Nat : N = Len(s)
  OBVIOUS
<1>1. w \in [0..N -> Nat] /\ w[0] = 1
  BY <1>0 DEF Laid
<1>2. \A n \in 0..(N - 1) : n \in 0..N /\ n + 1 \in 0..N /\ w[n] \in Nat /\ w[n + 1] \in Nat /\ w[n] < w[n + 1]
  <2> TAKE n \in 0..(N - 1)
  <2>1. n \in 0..N /\ n + 1 \in 0..N /\ n + 1 \in 1..N
    OBVIOUS
  <2>2. PICK b \in Byte : b = s[n + 1]
    BY <1>0, <2>1
  <2>3. PICK l \in Nat : l = Len(EscapedByte(b)) /\ 1 <= l
    BY EscapedLength
  <2>4. w[n + 1] = w[n] + l
    BY <1>0, <2>2, <2>3 DEF Laid
  <2>5. PICK x \in Nat : x = w[n]
    BY <1>1, <2>1
  <2> QED BY <1>1, <2>1, <2>3, <2>4, <2>5
<1>3. \A n \in 0..N : n < w[n]
  <2> DEFINE T == {n \in 0..N : n < w[n]}
  <2>1. 0 \in T
    BY <1>1
  <2>2. \A n \in 0..(N - 1) : n \in T => n + 1 \in T
    BY <1>2
  <2> HIDE DEF T
  <2>3. 0..N \subseteq T
    <3>1. N \in Int /\ 0 \in Int
      OBVIOUS
    <3> QED BY <2>1, <2>2, <3>1, InductBetween
  <2> QED BY <2>3 DEF T
<1>4. \A n \in 0..N : w[n] <= w[N]
  <2> DEFINE T == {n \in 0..N : \A m \in 0..n : w[m] <= w[n]}
  <2>1. 0 \in T
    BY <1>1
  <2>2. \A n \in 0..(N - 1) : n \in T => n + 1 \in T
    <3> SUFFICES ASSUME NEW n \in 0..(N - 1), n \in T, NEW m \in 0..(n + 1) PROVE n + 1 \in 0..N /\ w[m] <= w[n + 1]
      OBVIOUS
    <3>1. PICK x \in Nat, y \in Nat : x = w[n] /\ y = w[n + 1] /\ x < y /\ n + 1 \in 0..N
      BY <1>2
    <3>2. CASE m = n + 1
      BY <3>1, <3>2
    <3>3. CASE m # n + 1
      <4>1. m \in 0..n /\ m \in 0..N
        BY <3>3
      <4>2. PICK z \in Nat : z = w[m]
        BY <1>1, <4>1
      <4>3. z <= x
        BY <3>1, <4>1, <4>2
      <4> QED BY <3>1, <4>2, <4>3
    <3> QED BY <3>2, <3>3
  <2> HIDE DEF T
  <2>3. 0..N \subseteq T
    <3>1. N \in Int /\ 0 \in Int
      OBVIOUS
    <3> QED BY <2>1, <2>2, <3>1, InductBetween
  <2>4. N \in T
    BY <2>3
  <2> QED BY <2>4 DEF T
<1>5. w[N] < Len(t)
  <2>1. At(t, w[N]) = Quote /\ Quote # Outside /\ w[N] \in Int
    BY <1>0, <1>1 DEF Laid, Quote, Outside
  <2>2. w[N] \in 0..(Len(t) - 1)
    BY <2>1, Bytewise
  <2> QED BY <2>2
<1> QED BY <1>0, <1>3, <1>4, <1>5

\* The first loop finds the end of it.
LEMMA EndFound ==
  ASSUME NEW t \in Seq(Octet), NEW s \in Seq(Byte), NEW w, Laid(t, s, w)
  PROVE  EndOfString(t, 1).at = w[Len(s)]
<1>0. PICK L \in Nat, N \in Nat : L = Len(s) /\ N = Len(t)
  OBVIOUS
<1>1. w \in [0..L -> Nat] /\ w[0] = 1 /\ w[L] < N /\ \A n \in 0..L : n < w[n] /\ w[n] <= w[L]
  BY <1>0, LaidInOrder DEF Laid
<1>2. PICK f \in [0..N -> EndStates(t)] :
        /\ f[0] = [at |-> 1, skipped |-> 0]
        /\ \A n \in 1..N : f[n] = EndRound(t, f[n - 1])
        /\ EndOfString(t, 1) = f[N]
  <2>1. 1 \in 0..Len(t)
    <3>1. 0 \in 0..L
      OBVIOUS
    <3> QED BY <1>0, <1>1, <3>1
  <2> QED BY <1>0, <2>1, EndLoop
<1> DEFINE There(n) == \E m \in 0..(w[n] - 1) : f[m].at = w[n]
           T == {n \in 0..L : There(n)}
<1>3. 0 \in T
  <2>1. 0 \in 0..L /\ 0 \in 0..(1 - 1) /\ f[0].at = 1
    BY <1>2
  <2> QED BY <1>1, <2>1
<1>4. \A n \in 0..(L - 1) : n \in T => n + 1 \in T
  <2> SUFFICES ASSUME NEW n \in 0..(L - 1), There(n) PROVE n + 1 \in 0..L /\ There(n + 1)
    OBVIOUS
  <2>1. n \in 0..L /\ n + 1 \in 0..L /\ n + 1 \in 1..L
    OBVIOUS
  <2>2. PICK b \in Byte : b = s[n + 1]
    BY <1>0, <2>1
  <2>3. PICK l \in Nat : l = Len(EscapedByte(b)) /\ 1 <= l
    BY EscapedLength
  <2>4. PICK q \in Nat : q = w[n]
    BY <1>1, <2>1
  <2>5. w[n + 1] = q + l /\ Stands(t, q, EscapedByte(b))
    BY <1>0, <2>2, <2>3, <2>4 DEF Laid
  <2>6. q + l < N
    <3>1. PICK x \in Nat : x = w[L]
      BY <1>1
    <3>2. q + l <= x /\ x < N
      BY <1>1, <2>1, <2>5, <3>1
    <3> QED BY <3>2
  <2>7. PICK m \in 0..(q - 1) : f[m].at = q
    BY <2>4
  <2>8. m \in 0..N /\ m + l <= N
    BY <2>6, <2>7
  <2>9. PICK k \in 1..l : f[m + k].at = q + l
    <3>1. m \in 0..N /\ m + Len(EscapedByte(b)) <= N /\ f[m].at = q /\ N = Len(t)
      BY <1>0, <2>3, <2>7, <2>8
    <3>2. Stands(t, q, EscapedByte(b))
      BY <2>5
    <3>3. \A k \in 1..N : f[k] = EndRound(t, f[k - 1])
      BY <1>2
    <3>4. Beyond(f, m, Len(EscapedByte(b)))
      BY <3>1, <3>2, <3>3, EscapePassed
    <3> QED BY <2>3, <2>7, <3>4 DEF Beyond
  <2>10. m + k \in 0..((q + l) - 1)
    OBVIOUS
  <2> QED BY <2>1, <2>5, <2>9, <2>10
<1>5. There(L)
  <2> HIDE DEF T
  <2>1. 0 \in Int /\ L \in Int /\ L \in 0..L
    OBVIOUS
  <2>2. L \in T
    BY <1>3, <1>4, <2>1, InductBetween
  <2> QED BY <2>2 DEF T
<1>6. PICK m \in 0..N : f[m].at = w[L]
  <2>1. PICK x \in Nat : x = w[L] /\ x < N
    BY <1>1
  <2>2. \A m \in 0..(x - 1) : m \in 0..N
    BY <2>1
  <2> QED BY <1>5, <2>1, <2>2
<1>7. At(t, f[m].at) = Quote
  BY <1>0, <1>6 DEF Laid
<1>8. f[m] = f[N]
  <2>1. \A n \in 1..N : f[n] = EndRound(t, f[n - 1])
    BY <1>2
  <2>2. At(t, f[m].at) \in {Outside, Quote}
    BY <1>7
  <2> QED BY <2>1, <2>2, EndStays, Zenon
<1> QED BY <1>0, <1>2, <1>6, <1>8

\* The second loop gives the text back.
LEMMA TextBack ==
  ASSUME NEW t \in Seq(Octet), NEW s \in Seq(Byte), NEW w, Laid(t, s, w)
  PROVE  Unescaped(t, 1, w[Len(s)]) = [at |-> w[Len(s)], bytes |-> s, ok |-> TRUE]
<1>0. PICK L \in Nat, N \in Nat : L = Len(s) /\ N = Len(t)
  OBVIOUS
<1>1. w \in [0..L -> Nat] /\ w[0] = 1 /\ w[L] < N /\ \A n \in 0..L : n < w[n] /\ w[n] <= w[L]
  BY <1>0, LaidInOrder DEF Laid
<1>2. PICK end \in 0..Len(t) : end = w[L] /\ 1 <= end /\ L < end
  <2>1. L \in 0..L /\ w[L] \in Nat
    BY <1>1
  <2> QED BY <1>0, <1>1, <2>1
<1>3. PICK K, p : Counted(t, p, K, 1, end)
  <2>1. EndOfString(t, 1).at = w[Len(s)] /\ At(t, w[Len(s)]) = Quote
    BY EndFound DEF Laid
  <2>2. EndOfString(t, 1).at = end /\ At(t, EndOfString(t, 1).at) = Quote /\ 1 \in 0..Len(t)
    BY <1>0, <1>2, <2>1
  <2> QED BY <2>2, CountedString
<1>4. PICK f : /\ f[0] = [at |-> 1, bytes |-> <<>>, ok |-> TRUE]
               /\ \A n \in 1..N : f[n] = UnescapeRound(t, end, f[n - 1])
               /\ Unescaped(t, 1, end) = f[N]
  <2>1. 1 \in Nat
    OBVIOUS
  <2> QED BY <1>0, <1>3, <2>1, UnescapeLoop
<1> DEFINE State(n) == [at |-> w[n], bytes |-> SubSeq(s, 1, n), ok |-> TRUE]
           T == {n \in 0..L : f[n] = State(n)}
<1>5. 0 \in T
  <2>1. SubSeq(s, 1, 0) = <<>>
    BY SubSeqEmpty
  <2>2. 0 \in 0..L
    OBVIOUS
  <2>3. State(0) = [at |-> 1, bytes |-> <<>>, ok |-> TRUE]
    BY <1>1, <2>1
  <2>4. f[0] = State(0)
    BY <1>4, <2>3
  <2> HIDE DEF State
  <2> QED BY <2>2, <2>4
<1>6. \A n \in 0..(L - 1) : n \in T => n + 1 \in T
  <2> SUFFICES ASSUME NEW n \in 0..(L - 1), f[n] = State(n) PROVE n + 1 \in 0..L /\ f[n + 1] = State(n + 1)
    OBVIOUS
  <2>1. n \in 0..L /\ n + 1 \in 0..L /\ n + 1 \in 1..L /\ n + 1 \in 1..N /\ (n + 1) - 1 = n
    BY <1>0, <1>2
  <2>2. PICK b \in Byte : b = s[n + 1]
    BY <1>0, <2>1
  <2>3. PICK l \in Nat : l = Len(EscapedByte(b)) /\ 1 <= l
    BY EscapedLength
  <2>4. PICK q \in Nat : q = w[n]
    BY <1>1, <2>1
  <2>5. w[n + 1] = q + l /\ Stands(t, q, EscapedByte(b))
    BY <1>0, <2>2, <2>3, <2>4 DEF Laid
  <2>6. q + l <= end
    BY <1>1, <1>2, <2>1, <2>5
  <2>7. Piece(t, q, end) = [bytes |-> <<b>>, used |-> l]
    BY <2>3, <2>5, <2>6, EscapeGivesBack
  <2>8. PICK c : c = SubSeq(s, 1, n)
    OBVIOUS
  <2>9. SubSeq(s, 1, n + 1) = c \o <<b>>
    <3>1. n + 1 \in 1..Len(s) /\ 1 \in 1..Len(s)
      BY <1>0, <2>1
    <3>2. SubSeq(s, 1, n + 1) = SubSeq(s, 1, (n + 1) - 1) \o <<s[n + 1]>>
      BY <3>1, SubSeqRecursiveSecond
    <3> QED BY <2>1, <2>2, <2>8, <3>2
  <2>10. f[n + 1] = UnescapeRound(t, end, [at |-> q, bytes |-> c, ok |-> TRUE])
    BY <1>4, <2>1, <2>4, <2>8
  <2>11. UnescapeRound(t, end, [at |-> q, bytes |-> c, ok |-> TRUE]) = [at |-> q + l, bytes |-> c \o <<b>>, ok |-> TRUE]
    <3>1. q < end /\ (l > 0) = TRUE
      BY <2>3, <2>6
    <3>2. PICK r : r = [at |-> q, bytes |-> c, ok |-> TRUE]
      OBVIOUS
    <3>3. r.at = q /\ r.bytes = c /\ r.ok = TRUE
      BY <3>2
    <3>4. PICK piece : piece = Piece(t, q, end) /\ piece.used = l /\ piece.bytes = <<b>>
      BY <2>7
    <3>5. UnescapeRound(t, end, r) = [at |-> q + piece.used, bytes |-> c \o piece.bytes, ok |-> piece.used > 0]
      BY <3>1, <3>3, <3>4 DEF UnescapeRound
    <3> QED BY <3>1, <3>2, <3>4, <3>5
  <2> QED BY <2>1, <2>5, <2>9, <2>10, <2>11
<1>7. f[L] = [at |-> end, bytes |-> s, ok |-> TRUE]
  <2> HIDE DEF T
  <2>1. 0 \in Int /\ L \in Int /\ L \in 0..L
    OBVIOUS
  <2>2. L \in T
    BY <1>5, <1>6, <2>1, InductBetween
  <2>3. SubSeq(s, 1, L) = s
    BY <1>0, SubSeqFull
  <2> QED BY <1>2, <2>2, <2>3 DEF T
\* The rounds that are left change nothing.
<1> DEFINE U == {n \in L..N : f[n] = f[L]}
<1>8. L \in U
  BY <1>1, <1>2
<1>9. \A n \in L..(N - 1) : n \in U => n + 1 \in U
  <2> SUFFICES ASSUME NEW n \in L..(N - 1), f[n] = f[L] PROVE n + 1 \in L..N /\ f[n + 1] = f[L]
    OBVIOUS
  <2>1. n + 1 \in 1..N /\ (n + 1) - 1 = n /\ n + 1 \in L..N
    OBVIOUS
  <2>2. f[n + 1] = UnescapeRound(t, end, f[L])
    BY <1>4, <2>1
  <2>3. UnescapeRound(t, end, f[L]) = f[L]
    BY <1>7 DEF UnescapeRound
  <2> QED BY <2>1, <2>2, <2>3
<1>10. N \in U
  <2> HIDE DEF U
  <2>1. L \in Int /\ N \in Int /\ N \in L..N
    BY <1>1, <1>2
  <2> QED BY <1>8, <1>9, <2>1, InductBetween
<1> QED BY <1>0, <1>2, <1>4, <1>7, <1>10

\* No NUL, no end before the last byte.
LEMMA NoNul == ASSUME NEW s \in Seq(Byte) PROVE CString(s) = s
<1>1. {i \in 1..Len(s) : s[i] = 0} = {}
  <2>1. \A i \in 1..Len(s) : s[i] \in Byte
    OBVIOUS
  <2>2. 0 \notin Byte
    BY DEF Byte
  <2> QED BY <2>1, <2>2
<1> QED BY <1>1 DEF CString, SelectInSeq

LEMMA StringBack ==
  ASSUME NEW t \in Seq(Octet), NEW s \in Seq(Byte), NEW w, Laid(t, s, w)
  PROVE  parse_string(t, 0) = Parsed(<<"string", s>>, w[Len(s)] + 1)
<1>1. PICK end : end = w[Len(s)]
  OBVIOUS
<1>2. At(t, 0) = Quote /\ At(t, end) = Quote
  BY <1>1 DEF Laid
<1>3. PICK e : e = EndOfString(t, 1) /\ e.at = end
  BY <1>1, EndFound
<1>4. PICK u : u = Unescaped(t, 1, end) /\ u.ok = TRUE /\ u.bytes = s
  <2>1. Unescaped(t, 1, w[Len(s)]) = [at |-> w[Len(s)], bytes |-> s, ok |-> TRUE]
    BY TextBack
  <2>2. Unescaped(t, 1, end) = [at |-> end, bytes |-> s, ok |-> TRUE]
    BY <1>1, <2>1
  <2> QED BY <2>2
<1>5. parse_string(t, 0) = Filled(0, e, u)
  <2>1. 0 + 1 = 1
    OBVIOUS
  <2> QED BY <1>2, <1>3, <1>4, <2>1 DEF parse_string, StringTo
<1>6. Filled(0, e, u) = ParseFailed(Outside) \/ Filled(0, e, u) = Parsed(<<"string", s>>, end + 1)
  BY <1>3, <1>4, NoNul DEF Filled
<1>7. Filled(0, e, u) # ParseFailed(Outside)
  <2>1. 0 \in 0..(Len(t) - 1)
    BY <1>2, Bytewise DEF Quote, Outside
  <2>2. parse_string(t, 0).outside = FALSE
    BY <2>1, StringInside DEF Inside
  <2>3. ParseFailed(Outside).outside = TRUE
    BY DEF ParseFailed
  <2> QED BY <1>5, <2>2, <2>3
<1> QED BY <1>1, <1>5, <1>6, <1>7

-----------------------------------------------------------------------------
(* A text between quotes *)

\* A text in quotes and a byte behind it.
InQuotes(e, b) == <<Quote>> \o e \o <<Quote>> \o <<b>>

LEMMA InQuotesAt ==
  ASSUME NEW e \in Seq(Graphic), NEW b \in Octet
  PROVE  /\ InQuotes(e, b) \in Seq(Octet) /\ Len(InQuotes(e, b)) = Len(e) + 3
         /\ At(InQuotes(e, b), 0) = Quote /\ At(InQuotes(e, b), Len(e) + 1) = Quote
         /\ \A j \in 1..Len(e) : At(InQuotes(e, b), j) = e[j]
<1>1. PICK q \in Seq(Octet) : q = <<Quote>> /\ Len(q) = 1 /\ q[1] = Quote
  <2>1. <<Quote>> \in Seq(Octet) /\ Len(<<Quote>>) = 1 /\ <<Quote>>[1] = Quote
    BY DEF Quote, Octet
  <2> QED BY <2>1
<1>2. PICK z \in Seq(Octet) : z = <<b>> /\ Len(z) = 1
  <2>1. <<b>> \in Seq(Octet) /\ Len(<<b>>) = 1
    OBVIOUS
  <2> QED BY <2>1
<1>3. PICK x \in Seq(Octet) : x = e
  BY DEF Graphic, Octet
<1>4. PICK M \in Nat : M = Len(x)
  OBVIOUS
<1>5. PICK u \in Seq(Octet) : u = q \o x /\ Len(u) = M + 1 /\ u[1] = Quote /\ \A j \in 1..M : u[j + 1] = x[j]
  <2>1. q \o x \in Seq(Octet) /\ Len(q \o x) = M + 1
    BY <1>1, <1>4, ConcatProperties
  <2>2. (q \o x)[1] = Quote
    BY <1>1, <1>4, ConcatProperties
  <2>3. ASSUME NEW j \in 1..M PROVE (q \o x)[j + 1] = x[j]
    <3>1. (q \o x)[Len(q) + j] = x[j]
      BY <1>4, Behind
    <3>2. Len(q) + j = j + 1
      BY <1>1
    <3> QED BY <3>1, <3>2
  <2> QED BY <2>1, <2>2, <2>3
<1>6. PICK v \in Seq(Octet) : v = u \o q /\ Len(v) = M + 2 /\ v[M + 2] = Quote /\ \A j \in 1..(M + 1) : v[j] = u[j]
  <2>1. u \o q \in Seq(Octet) /\ Len(u \o q) = M + 2
    BY <1>1, <1>5, ConcatProperties
  <2>2. \A j \in 1..(M + 1) : (u \o q)[j] = u[j]
    BY <1>1, <1>5, ConcatProperties
  <2>3. (u \o q)[Len(u) + 1] = q[1]
    <3>1. 1 \in 1..Len(q)
      BY <1>1
    <3> QED BY <3>1, Behind
  <2>4. Len(u) + 1 = M + 2
    BY <1>5
  <2> QED BY <1>1, <2>1, <2>2, <2>3, <2>4
<1>7. PICK t \in Seq(Octet) : t = v \o z /\ Len(t) = M + 3 /\ \A j \in 1..(M + 2) : t[j] = v[j]
  <2>1. v \o z \in Seq(Octet) /\ Len(v \o z) = M + 3
    BY <1>2, <1>6, ConcatProperties
  <2>2. \A j \in 1..(M + 2) : (v \o z)[j] = v[j]
    BY <1>2, <1>6, ConcatProperties
  <2> QED BY <2>1, <2>2
<1>8. InQuotes(e, b) = t
  BY <1>1, <1>2, <1>3, <1>5, <1>6, <1>7 DEF InQuotes
<1>9. \A i \in 0..(M + 2) : At(t, i) = t[i + 1]
  BY <1>7 DEF At
<1>10. At(t, 0) = Quote
  <2>1. 0 \in 0..(M + 2) /\ 0 + 1 = 1 /\ 1 \in 1..(M + 2) /\ 1 \in 1..(M + 1)
    OBVIOUS
  <2> QED BY <1>5, <1>6, <1>7, <1>9, <2>1
<1>11. At(t, M + 1) = Quote
  <2>1. M + 1 \in 0..(M + 2) /\ (M + 1) + 1 = M + 2 /\ M + 2 \in 1..(M + 2)
    OBVIOUS
  <2> QED BY <1>6, <1>7, <1>9, <2>1
<1>12. ASSUME NEW j \in 1..M PROVE At(t, j) = x[j]
  <2>1. j \in 0..(M + 2) /\ j + 1 \in 1..(M + 2) /\ j + 1 \in 1..(M + 1)
    OBVIOUS
  <2>2. At(t, j) = t[j + 1]
    BY <1>9, <2>1
  <2>3. t[j + 1] = v[j + 1]
    BY <1>7, <2>1
  <2>4. v[j + 1] = u[j + 1]
    BY <1>6, <2>1
  <2>5. u[j + 1] = x[j]
    BY <1>5
  <2> QED BY <2>2, <2>3, <2>4, <2>5
<1> QED BY <1>3, <1>4, <1>7, <1>8, <1>10, <1>11, <1>12

\* What http_escape_json_string puts together: six bytes at most for each, none of
\* them a control character; in quotes it is laid out as parse_string reads it.
LEMMA EscapedLaid ==
  ASSUME NEW s \in Seq(Byte), NEW b \in Octet
  PROVE  /\ http_escape_json_string(s) \in Seq(Graphic)
         /\ Len(http_escape_json_string(s)) <= 6 * Len(s)
         /\ \E w : Laid(InQuotes(http_escape_json_string(s), b), s, w)
<1>1. PICK N \in Nat : N = Len(s)
  OBVIOUS
<1>2. PICK c : c = [n \in 1..N |-> EscapedByte(s[n])]
  OBVIOUS
<1>3. ASSUME NEW n \in 1..N PROVE c[n] = EscapedByte(s[n]) /\ c[n] \in Seq(Graphic) /\ Len(c[n]) \in 1..6
  <2>1. s[n] \in Byte
    BY <1>1
  <2> QED BY <1>2, <2>1, EscapedBytes
<1>4. c \in Seq(Seq(Graphic)) /\ Len(c) = N
  <2>1. c \in [1..N -> Seq(Graphic)]
    BY <1>2, <1>3
  <2> QED BY <2>1
<1>5. PICK f : Joins(Graphic, N, c, f) /\ FlattenSeq(c) = f[N]
  BY <1>4, Flattening
<1>6. f \in [0..N -> Seq(Graphic)] /\ f[0] = <<>> /\ \A n \in 1..N : f[n] = f[n - 1] \o c[n]
  BY <1>5 DEF Joins
<1>7. AddsUp(N, c, f) /\ Keeps(N, f)
  BY <1>5, Joined
<1>8. PICK e \in Seq(Graphic) : e = f[N] /\ e = http_escape_json_string(s)
  <2>1. http_escape_json_string(s) = FlattenSeq(c)
    <3>1. DOMAIN s = 1..N
      BY <1>1
    <3> QED BY <1>2, <3>1 DEF http_escape_json_string
  <2>2. N \in 0..N
    OBVIOUS
  <2> QED BY <1>5, <1>6, <2>1, <2>2
<1>9. PICK M \in Nat : M = Len(e)
  OBVIOUS
<1>10. Len(e) <= 6 * N
  <2> DEFINE T == {n \in 0..N : Len(f[n]) <= 6 * n}
  <2>1. 0 \in T
    BY <1>6
  <2>2. \A n \in 0..(N - 1) : n \in T => n + 1 \in T
    <3> SUFFICES ASSUME NEW n \in 0..(N - 1), n \in T PROVE n + 1 \in T
      OBVIOUS
    <3>1. n \in 0..N /\ n + 1 \in 0..N /\ n + 1 \in 1..N
      OBVIOUS
    <3>2. PICK x \in Nat, y \in 1..6 : x = Len(f[n]) /\ y = Len(c[n + 1])
      <4>1. Len(f[n]) \in Nat
        BY <1>6, <3>1
      <4>2. Len(c[n + 1]) \in 1..6
        BY <1>3, <3>1
      <4> QED BY <4>1, <4>2
    <3>3. Len(f[n + 1]) = x + y /\ x <= 6 * n
      BY <1>7, <3>2 DEF AddsUp
    <3>4. x + y <= 6 * (n + 1)
      BY <3>3
    <3> QED BY <3>1, <3>3, <3>4
  <2> HIDE DEF T
  <2>3. 0..N \subseteq T
    <3>1. N \in Int /\ 0 \in Int
      OBVIOUS
    <3> QED BY <2>1, <2>2, <3>1, InductBetween
  <2>4. N \in T
    BY <2>3
  <2> QED BY <1>8, <2>4 DEF T
<1>11. PICK t \in Seq(Octet) :
         /\ t = InQuotes(e, b) /\ At(t, 0) = Quote /\ At(t, M + 1) = Quote
         /\ \A j \in 1..M : At(t, j) = e[j]
  BY <1>9, InQuotesAt
<1>12. PICK w : w = [n \in 0..N |-> Len(f[n]) + 1]
  OBVIOUS
<1>13. w \in [0..N -> Nat]
  BY <1>6, <1>12
<1>14. w[0] = 1
  <2>1. 0 \in 0..N /\ Len(<<>>) = 0
    OBVIOUS
  <2> QED BY <1>6, <1>12, <2>1
<1>15. w[N] = M + 1
  <2>1. N \in 0..N /\ Len(f[N]) = M
    BY <1>8, <1>9
  <2> QED BY <1>12, <2>1
<1>16. ASSUME NEW n \in 0..(N - 1)
       PROVE  w[n + 1] = w[n] + Len(EscapedByte(s[n + 1])) /\ Stands(t, w[n], EscapedByte(s[n + 1]))
  <2>1. n \in 0..N /\ n + 1 \in 0..N /\ n + 1 \in 1..N /\ (n + 1) - 1 = n
    OBVIOUS
  <2>2. PICK d \in Seq(Graphic) : d = EscapedByte(s[n + 1]) /\ d = c[n + 1]
    BY <1>3, <2>1
  <2>3. PICK u \in Seq(Graphic) : u = f[n]
    BY <1>6, <2>1
  <2>4. PICK x \in Nat, y \in Nat : x = Len(u) /\ y = Len(d)
    OBVIOUS
  <2>5. Len(f[n + 1]) = x + y
    BY <1>7, <2>2, <2>3, <2>4 DEF AddsUp
  <2>6. w[n] = x + 1 /\ w[n + 1] = (x + y) + 1
    BY <1>12, <2>1, <2>3, <2>4, <2>5
  <2>7. x + y <= M /\ \A i \in 1..(x + y) : e[i] = f[n + 1][i]
    BY <1>7, <1>8, <1>9, <2>1, <2>5 DEF Keeps
  <2>8. f[n + 1] = u \o d
    BY <1>6, <2>1, <2>2, <2>3
  <2>9. ASSUME NEW k \in 1..y PROVE At(t, (x + 1) + (k - 1)) = d[k]
    <3>1. (x + 1) + (k - 1) = x + k /\ x + k \in 1..(x + y)
      OBVIOUS
    <3>2. x + k \in 1..M
      BY <2>7, <3>1
    <3>3. (u \o d)[x + k] = d[k]
      BY <2>4, Behind
    <3> QED BY <1>11, <2>7, <2>8, <3>1, <3>2, <3>3
  <2>10. Stands(t, x + 1, d)
    BY <2>4, <2>9 DEF Stands
  <2>11. (x + y) + 1 = (x + 1) + y
    BY <2>4
  <2> QED BY <2>2, <2>4, <2>6, <2>10, <2>11
<1>17. Laid(t, s, w)
  BY <1>1, <1>11, <1>13, <1>14, <1>15, <1>16 DEF Laid
<1> QED BY <1>1, <1>8, <1>10, <1>11, <1>17

LEMMA NoWord ==
  ASSUME NEW t \in Seq(Octet), At(t, 0) = Quote, NEW word, Len(word) \in Nat \ {0}, Begins(t, 0, word)
  PROVE  word[1] = Quote
<1>1. PICK n \in Nat \ {0} : n = Len(word) /\ n <= Len(t) /\ SubSeq(t, 1, n) = word
  <2>1. PICK n \in Nat \ {0} : n = Len(word)
    OBVIOUS
  <2>2. 0 + n = n /\ 0 + 1 = 1
    OBVIOUS
  <2> QED BY <2>1, <2>2 DEF Begins
<1>2. 1 \in 1..n /\ 0 \in 0..(Len(t) - 1) /\ 0 + 1 = 1
  BY <1>1
<1>3. SubSeq(t, 1, n)[1] = t[1]
  BY <1>1, <1>2
<1>4. t[1] = Quote
  BY <1>2 DEF At
<1> QED BY <1>1, <1>3, <1>4

\* The parser begins with the string where the text does.
LEMMA StringAtOnce ==
  ASSUME NEW t \in Seq(Octet), At(t, 0) = Quote
  PROVE  cJSON_ParseWithLengthOpts(t, FALSE) = parse_string(t, 0)
<1>1. PICK N \in Nat \ {0} : N = Len(t) /\ t[1] = Quote
  <2>1. 0 \in 0..(Len(t) - 1)
    BY Bytewise DEF Quote, Outside
  <2>2. t[0 + 1] = Quote /\ 0 + 1 = 1
    BY <2>1 DEF At
  <2> QED BY <2>1, <2>2
<1>2. t # <<>>
  BY <1>1
<1>3. skip_utf8_bom(t) = 0
  <2>1. CASE Len(t) > 4
    <3>1. SubSeq(t, 1, 3)[1] = Quote
      BY <1>1, <2>1
    <3>2. <<239, 187, 191>>[1] = 239 /\ Quote # 239
      BY DEF Quote
    <3>3. SubSeq(t, 1, 3) # <<239, 187, 191>>
      BY <3>1, <3>2
    <3> QED BY <3>3 DEF skip_utf8_bom
  <2>2. CASE ~(Len(t) > 4)
    BY <2>2 DEF skip_utf8_bom
  <2> QED BY <2>1, <2>2
<1>4. buffer_skip_whitespace(t, 0) = 0
  <2> DEFINE Stop(j) == At(t, j) \notin 0..Space /\ \A k \in 0..(j - 1) : At(t, k) \in 0..Space
  <2>1. PICK stop : stop = CHOOSE j \in 0..Len(t) : Stop(j)
    OBVIOUS
  <2>2. At(t, 0) \notin 0..Space /\ At(t, 0) # Outside
    <3>1. 34 \notin 0..32 /\ 34 # -1
      OBVIOUS
    <3> QED BY <3>1 DEF Quote, Space, Outside
  <2>3. 0 \in 0..Len(t) /\ Stop(0)
    BY <2>2
  <2>4. ASSUME NEW j \in 0..Len(t), Stop(j) PROVE j = 0
    <3>1. CASE j # 0
      <4>1. 0 \in 0..(j - 1)
        BY <3>1
      <4> QED BY <2>2, <2>4, <4>1
    <3> QED BY <3>1
  <2>5. stop = 0
    <3> HIDE DEF Stop
    <3> QED BY <2>1, <2>3, <2>4
  <2>6. buffer_skip_whitespace(t, 0) = IF stop = Len(t) THEN stop - 1 ELSE stop
    BY <2>1, <2>2 DEF buffer_skip_whitespace
  <2> QED BY <1>1, <2>5, <2>6
<1>5. PICK inner : Values(t) = ValuesAt(t, CJSON_NESTING_LIMIT, inner)
  BY ValuesOfLevel
<1>6. Values(t)[0] = parse_value(t, 0, CJSON_NESTING_LIMIT, inner)
  <2>1. 0 \in 0..Len(t)
    OBVIOUS
  <2> QED BY <1>5, <2>1 DEF ValuesAt
<1>7. ~Begins(t, 0, Null) /\ ~Begins(t, 0, False) /\ ~Begins(t, 0, True)
  <2>1. /\ Len(Null) = 4 /\ Null[1] # Quote
        /\ Len(False) = 5 /\ False[1] # Quote
        /\ Len(True) = 4 /\ True[1] # Quote
    BY DEF Null, False, True, Quote
  <2>2. \A n \in {4, 5} : n \in Nat \ {0}
    OBVIOUS
  <2> QED BY <2>1, <2>2, NoWord
<1>8. parse_value(t, 0, CJSON_NESTING_LIMIT, inner) = parse_string(t, 0)
  BY <1>7 DEF parse_value, Quote, OpenArray, OpenObject
<1>9. cJSON_ParseWithLengthOpts(t, FALSE) = Ended(t, Values(t)[0], FALSE)
  BY <1>2, <1>3, <1>4 DEF cJSON_ParseWithLengthOpts
<1>10. \A v : Ended(t, v, FALSE) = v
  BY DEF Ended
<1> QED BY <1>6, <1>8, <1>9, <1>10

\* Whatever text http_escape_json_string is given, cJSON_Parse reads it back from
\* what was made of it, which has six bytes at most for each and no control
\* character (http_support.c:165-198).
THEOREM EscapedParsed ==
  ASSUME NEW s \in Seq(Byte)
  PROVE  LET escaped == http_escape_json_string(s)
             r == cJSON_Parse(<<Quote>> \o escaped \o <<Quote>>)
         IN  /\ r.ok /\ r.val = <<"string", s>>
             /\ Len(escaped) <= 6 * Len(s) /\ \A i \in DOMAIN escaped : escaped[i] >= Space
<1>1. PICK b \in Octet : b = 0
  BY DEF Octet
<1>2. PICK e \in Seq(Graphic) : e = http_escape_json_string(s) /\ Len(e) <= 6 * Len(s)
  BY <1>1, EscapedLaid
<1>3. PICK t \in Seq(Octet) : t = InQuotes(e, b) /\ At(t, 0) = Quote
  BY InQuotesAt
<1>4. PICK w : Laid(t, s, w)
  BY <1>2, <1>3, EscapedLaid
<1>5. PICK r : r = cJSON_Parse(<<Quote>> \o e \o <<Quote>>)
  OBVIOUS
<1>6. r = cJSON_ParseWithLengthOpts(t, FALSE)
  BY <1>1, <1>3, <1>5 DEF cJSON_Parse, InQuotes
<1>7. r = Parsed(<<"string", s>>, w[Len(s)] + 1)
  BY <1>3, <1>4, <1>6, StringAtOnce, StringBack
<1>8. r.ok /\ r.val = <<"string", s>>
  BY <1>7 DEF Parsed
<1>9. \A i \in DOMAIN e : e[i] >= Space
  <2> SUFFICES ASSUME NEW i \in DOMAIN e PROVE e[i] >= Space
    OBVIOUS
  <2>1. i \in 1..Len(e)
    OBVIOUS
  <2>2. e[i] \in Graphic
    BY <2>1
  <2>3. PICK x \in 32..255 : x = e[i]
    BY <2>2 DEF Graphic
  <2>4. x >= 32
    OBVIOUS
  <2> QED BY <2>3, <2>4 DEF Space
<1> QED BY <1>2, <1>5, <1>8, <1>9

\* A text that is put together comes back from its escapes (http_support.c:165-198).
THEOREM EscapesAreRead == Spec => []EscapedIsJSON
<1>1. HelpersInv => EscapedIsJSON
  <2> SUFFICES ASSUME HelpersInv PROVE EscapedIsJSON
    OBVIOUS
  <2>1. text \in Seq(Byte)
    BY DEF HelpersInv
  <2> QED BY <2>1, EscapedParsed DEF EscapedIsJSON, StandsFor
<1> QED BY <1>1, HelpersHold, PTL

=============================================================================

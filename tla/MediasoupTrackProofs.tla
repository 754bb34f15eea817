------------------------ MODULE MediasoupTrackProofs ------------------------
(***************************************************************************)
(* Proofs about MediasoupTrack, for streams of any length, whatever is      *)
(* lost, late or given up on, however often the wire numbers wrap: its      *)
(* types, that the recorder gets the packets in order, what the sampler     *)
(* makes of them, and what the receive log knows of them.                   *)
(***************************************************************************)
EXTENDS MediasoupTrack, SequenceTheorems, WellFoundedInduction, TLAPS

-----------------------------------------------------------------------------
(* Arithmetic *)

\* Division with a remainder.
LEMMA DivMod ==
  ASSUME NEW S \in Nat \ {0}, NEW x \in Int
  PROVE  /\ x \div S \in Int /\ x % S \in 0 .. S - 1
         /\ x = S * (x \div S) + (x % S)
OBVIOUS

\* The only multiple of S closer to 0 than S is 0.
LEMMA SmallMultiple ==
  ASSUME NEW S \in Nat \ {0}, NEW d \in Int, S * d < S, S * d > -S
  PROVE  d = 0
<1>1. CASE d >= 1 BY <1>1
<1>2. CASE d <= -1 BY <1>2
<1> QED BY <1>1, <1>2

\* Numbers of one residue are S apart, or the same.
LEMMA SameInWindow ==
  ASSUME NEW S \in Nat \ {0}, NEW x \in Int, NEW y \in Int, (x % S) = (y % S),
         x - y < S, y - x < S
  PROVE  x = y
<1> DEFINE p == x \div S
           q == y \div S
           r == x % S
<1>1. /\ p \in Int /\ q \in Int /\ r \in Int
      /\ x = S * p + r /\ y = S * q + r
  BY DivMod
<1> HIDE DEF p, q, r
<1>2. x - y = S * (p - q) /\ y - x = -(S * (p - q))
  BY <1>1
<1>3. p - q = 0
  BY <1>1, <1>2, SmallMultiple
<1> QED BY <1>1, <1>2, <1>3

\* S further has the same residue.
LEMMA ModPlus ==
  ASSUME NEW S \in Nat \ {0}, NEW x \in Int
  PROVE  (x + S) % S = x % S
<1> DEFINE p == x \div S
           q == (x + S) \div S
           r == x % S
           t == (x + S) % S
<1>1. x + S \in Int
  OBVIOUS
<1>2. /\ p \in Int /\ q \in Int /\ r \in 0 .. S - 1 /\ t \in 0 .. S - 1
      /\ x = S * p + r /\ x + S = S * q + t
  BY <1>1, DivMod
<1> HIDE DEF p, q, r, t
<1>3. S * (q - p - 1) = r - t
  BY <1>2
<1>4. q - p - 1 = 0
  BY <1>2, <1>3, SmallMultiple
<1>5. r = t
  BY <1>2, <1>3, <1>4
<1> QED BY <1>5 DEF r, t

\* A set of naturals has a least one, as WFMin says of well-founded orders.
LEMMA LeastNumber ==
  ASSUME NEW T \in SUBSET Nat, T # {}
  PROVE  \E x \in T : \A y \in T : x <= y
<1> DEFINE Less == {p \in Nat \X Nat : p[1] < p[2]}
<1>1. IsWellFoundedOn(Less, Nat)
  BY NatLessThanWellFounded, Zenon DEF OpToRel
<1>2. \A x, y \in Nat : x < y => <<x, y>> \in Less
  OBVIOUS
<1> HIDE DEF Less
<1>3. PICK x \in T : \A y \in T : ~(<<y, x>> \in Less)
  BY <1>1, WFMin
<1>4. ASSUME NEW y \in T PROVE x <= y
  <2>1. x \in Nat /\ y \in Nat
    OBVIOUS
  <2>2. ~(y < x)
    BY <1>2, <1>3, <2>1
  <2> QED BY <2>1, <2>2
<1> QED BY <1>4

LEMMA MinIs ==
  ASSUME NEW T \in SUBSET Nat, T # {}
  PROVE  JB!Min(T) \in T /\ \A y \in T : JB!Min(T) <= y
BY LeastNumber DEF JB!Min

\* The greatest is found from the bound down.
LEMMA MaxIs ==
  ASSUME NEW b \in Int, NEW T \in SUBSET Int, T # {}, \A x \in T : x <= b
  PROVE  JB!Max(T) \in T /\ \A y \in T : JB!Max(T) >= y
<1> DEFINE D == {b - x : x \in T}
<1>1. D \in SUBSET Nat /\ D # {}
  <2>1. \A x \in T : b - x \in Nat
    OBVIOUS
  <2> QED BY <2>1
<1>2. PICK d \in D : \A e \in D : d <= e
  BY <1>1, LeastNumber
<1>3. PICK x \in T : d = b - x
  BY <1>2
<1>4. \A y \in T : x >= y
  BY <1>2, <1>3
<1> QED BY <1>4 DEF JB!Max

\* The unwrapper and the log use their own names for them.
LEMMA OneMax == \A S : RL!Max(S) = JB!Max(S)
BY DEF RL!Max, JB!Max

LEMMA MaxOfTwo ==
  ASSUME NEW a \in Int, NEW b \in Int
  PROVE  JB!Max({a, b}) = IF a >= b THEN a ELSE b
<1>1. \E c \in Int : \A x \in {a, b} : x <= c
  BY a <= b \/ b <= a
<1>2. JB!Max({a, b}) \in {a, b} /\ \A y \in {a, b} : JB!Max({a, b}) >= y
  BY <1>1, MaxIs
<1> QED BY <1>2

-----------------------------------------------------------------------------
(* The unwrapper *)

LEMMA Sizes ==
  /\ SeqMod \in Nat \ {0} /\ LogSize \in Nat \ {0} /\ Size \in Nat \ {0}
  /\ RL!Half \in Nat /\ 2 * RL!Half <= SeqMod /\ LogSize <= RL!Half
  /\ Wires \subseteq Nat
BY TrackAssumption DEF RL!Half, Wires


LEMMA UnwrapType ==
  ASSUME NEW u \in RL!Unwrappers, NEW n \in Wires
  PROVE  /\ RL!Unwrap(u, n).number \in Nat
         /\ RL!Unwrap(u, n).unwrapper \in RL!Unwrappers
<1>1. /\ u.started \in BOOLEAN /\ u.wrapArounds \in Nat /\ u.highest \in Wires
      /\ SeqMod \in Nat /\ n \in Nat
      /\ u = [started |-> u.started, wrapArounds |-> u.wrapArounds, highest |-> u.highest]
  BY Sizes DEF RL!Unwrappers, Wires
<1>2. RL!Max({u.highest, n}) \in Wires
  BY <1>1, MaxOfTwo, OneMax DEF Wires
<1>3. ASSUME NEW b \in BOOLEAN, NEW w \in Nat, NEW h \in Wires
      PROVE  [started |-> b, wrapArounds |-> w, highest |-> h] \in RL!Unwrappers
  BY DEF RL!Unwrappers, Wires
<1>4. CASE ~u.started
  BY <1>1, <1>3, <1>4 DEF RL!Unwrap
<1>5. CASE u.started /\ u.highest - n > RL!Half
  <2> DEFINE wraps == u.wrapArounds + SeqMod
  <2>1. RL!Unwrap(u, n) =
          [number |-> wraps + n, unwrapper |-> [u EXCEPT !.wrapArounds = wraps, !.highest = n]]
    BY <1>5 DEF RL!Unwrap
  <2>2. wraps \in Nat /\ wraps + n \in Nat
    BY <1>1
  <2> HIDE DEF wraps
  <2>3. [u EXCEPT !.wrapArounds = wraps, !.highest = n] \in RL!Unwrappers
    BY <2>2 DEF RL!Unwrappers, Wires
  <2> QED BY <2>1, <2>2, <2>3
<1>6. CASE u.started /\ ~(u.highest - n > RL!Half) /\ n - u.highest > RL!Half
  <2> DEFINE wraps == u.wrapArounds + (IF u.wrapArounds - SeqMod + n <= 0 THEN SeqMod ELSE 0)
  <2>1. wraps \in Nat /\ wraps - SeqMod + n \in Nat
    BY <1>1
  <2>2. RL!Unwrap(u, n) =
          [number |-> wraps - SeqMod + n, unwrapper |-> [u EXCEPT !.wrapArounds = wraps]]
    BY <1>6 DEF RL!Unwrap
  <2> HIDE DEF wraps
  <2> QED BY <1>1, <1>3, <2>1, <2>2
<1>7. CASE u.started /\ ~(u.highest - n > RL!Half) /\ ~(n - u.highest > RL!Half)
  <2>1. RL!Unwrap(u, n) =
          [number |-> u.wrapArounds + n,
           unwrapper |-> [u EXCEPT !.highest = RL!Max({u.highest, n})]]
    BY <1>7 DEF RL!Unwrap
  <2> QED BY <1>1, <1>2, <1>3, <2>1
<1> QED BY <1>4, <1>5, <1>6, <1>7

\* A packet less than half the wire numbers from the newest, and not from a
\* round of them before the first one's, gets the number it was sent as,
\* counted from the start of the first one's round. Packets are x and y here, f
\* is that round.
LEMMA UnwrapIs ==
  ASSUME NEW u \in RL!Unwrappers, u.started,
         NEW x \in Nat, NEW y \in Nat, NEW f \in Nat,
         x - y < RL!Half, y - x < RL!Half,
         u.highest = y % SeqMod, u.wrapArounds = SeqMod * ((y \div SeqMod) - f),
         x \div SeqMod >= f
  PROVE  LET to == RL!Unwrap(u, x % SeqMod)
             newest == IF x >= y THEN x ELSE y
         IN  /\ to.number = x - SeqMod * f
             /\ to.unwrapper.started
             /\ to.unwrapper.highest = newest % SeqMod
             /\ to.unwrapper.wrapArounds = SeqMod * ((newest \div SeqMod) - f)
<1> DEFINE S == SeqMod
           p == x \div S
           q == y \div S
           a == x % S
           b == y % S
           H == RL!Half
           to == RL!Unwrap(u, a)
<1>1. /\ S \in Nat \ {0} /\ p \in Int /\ q \in Int /\ a \in 0 .. S - 1 /\ b \in 0 .. S - 1
      /\ x = S * p + a /\ y = S * q + b
  BY Sizes, DivMod
<1>2. H \in Nat /\ 2 * H <= S
  BY Sizes
<1>3. /\ u.started /\ u.highest = b /\ u.wrapArounds = S * (q - f) /\ u.wrapArounds \in Nat
      /\ p >= f /\ x - y < H /\ y - x < H
      /\ u = [started |-> u.started, wrapArounds |-> u.wrapArounds, highest |-> u.highest]
  BY DEF RL!Unwrappers
<1>4. /\ (a = x % SeqMod /\ b = y % SeqMod) /\ (p = x \div SeqMod /\ q = y \div SeqMod)
      /\ S = SeqMod
  OBVIOUS
<1>5. SUFFICES /\ to.number = x - S * f
               /\ to.unwrapper.started
               /\ to.unwrapper.highest = IF x >= y THEN a ELSE b
               /\ to.unwrapper.wrapArounds = S * ((IF x >= y THEN p ELSE q) - f)
  BY <1>4
<1> HIDE DEF p, q, a, b
<1>6. to = IF b - a > H
             THEN [number |-> u.wrapArounds + S + a,
                   unwrapper |-> [u EXCEPT !.wrapArounds = u.wrapArounds + S, !.highest = a]]
           ELSE IF a - b > H
             THEN LET wraps == u.wrapArounds + (IF u.wrapArounds - S + a <= 0 THEN S ELSE 0)
                  IN  [number |-> wraps - S + a, unwrapper |-> [u EXCEPT !.wrapArounds = wraps]]
           ELSE [number |-> u.wrapArounds + a,
                 unwrapper |-> [u EXCEPT !.highest = IF b >= a THEN b ELSE a]]
  BY <1>1, <1>3, MaxOfTwo, OneMax DEF RL!Unwrap
<1>7. S * (p - q) = x - y - a + b
  BY <1>1
<1>8. p - q \in {-1, 0, 1}
  <2>1. S * (p - q) < 2 * S /\ S * (p - q) > -2 * S
    BY <1>1, <1>2, <1>3, <1>7
  <2>2. ~(p - q >= 2)
    BY <1>1, <2>1
  <2>3. ~(p - q <= -2)
    BY <1>1, <2>1
  <2> QED BY <1>1, <2>2, <2>3
<1> HIDE DEF H, S, to
<1>9. CASE p = q
  <2>1. a - b = x - y
    BY <1>1, <1>7, <1>9
  <2>2. to = [number |-> u.wrapArounds + a,
              unwrapper |-> [u EXCEPT !.highest = IF b >= a THEN b ELSE a]]
    BY <1>1, <1>2, <1>3, <1>6, <2>1
  <2>3. u.wrapArounds + a = x - S * f
    BY <1>1, <1>3, <1>9
  <2> QED BY <1>1, <1>3, <1>9, <2>1, <2>2, <2>3
<1>10. CASE p = q + 1
  <2>1. S = x - y - a + b
    BY <1>1, <1>7, <1>10
  <2>2. b - a > H /\ x >= y
    BY <1>1, <1>2, <1>3, <2>1
  <2>3. to = [number |-> u.wrapArounds + S + a,
              unwrapper |-> [u EXCEPT !.wrapArounds = u.wrapArounds + S, !.highest = a]]
    BY <1>6, <2>2
  <2>4. u.wrapArounds + S = S * (p - f)
    BY <1>1, <1>3, <1>10
  <2>5. u.wrapArounds + S + a = x - S * f
    BY <1>1, <2>4
  <2> QED BY <1>3, <2>2, <2>3, <2>4, <2>5
<1>11. CASE p = q - 1
  <2>1. -S = x - y - a + b
    BY <1>1, <1>7, <1>11
  <2>2. a - b > H /\ ~(b - a > H) /\ ~(x >= y)
    BY <1>1, <1>2, <1>3, <2>1
  <2>3. u.wrapArounds >= S
    <3>1. q - f >= 1 /\ q - f \in Int
      BY <1>1, <1>3, <1>11
    <3> QED BY <1>1, <1>3, <3>1
  <2>4. ~(u.wrapArounds - S + a <= 0)
    BY <1>1, <1>2, <1>3, <2>2, <2>3
  <2>5. to = [number |-> u.wrapArounds - S + a, unwrapper |-> [u EXCEPT !.wrapArounds = u.wrapArounds]]
    BY <1>3, <1>6, <2>2, <2>4
  <2>6. u.wrapArounds - S + a = x - S * f
    BY <1>1, <1>3, <1>11
  <2> QED BY <1>3, <2>2, <2>5, <2>6
<1> QED BY <1>1, <1>8, <1>9, <1>10, <1>11

-----------------------------------------------------------------------------
(* The jitter buffer *)

\* Each slot holds the packet of the newest number it can be for, num of it.
InWindow(b, num) ==
  \A k \in JB!Slots : b.slot[k] # NoPacket =>
    /\ num[b.slot[k]] % Size = k
    /\ b.end - Size < num[b.slot[k]] /\ num[b.slot[k]] <= b.end

LEMMA ModInSlots == \A x \in Int : x % Size \in JB!Slots
BY Sizes, DivMod DEF JB!Slots

LEMMA BufferFields ==
  ASSUME NEW ids, NEW b \in JB!Buffers(ids)
  PROVE  /\ b.nextStart \in Nat /\ b.end \in Nat /\ b.slot \in [JB!Slots -> {NoPacket} \cup ids]
         /\ b.waiting \in SUBSET Nat /\ b.overdue \in SUBSET Nat /\ b.lastSkipped \in Nat
BY DEF JB!Buffers

\* Add, once it accepts a packet.
LEMMA AddIs ==
  ASSUME NEW ids, NEW b \in JB!Buffers(ids), NEW s \in Nat, NEW p \in ids, JB!Accepts(b, s)
  PROVE  LET a == JB!Add(b, s, p)
             passed == IF s - b.end >= Size THEN JB!Slots
                       ELSE {i % Size : i \in b.end + 1 .. s - 1}
         IN  /\ a \in JB!Buffers(ids)
             /\ a.end = IF b.end >= s THEN b.end ELSE s
             /\ a.nextStart >= b.nextStart /\ a.nextStart > a.end - Size
             /\ \A k \in JB!Slots :
                  a.slot[k] = IF k = s % Size THEN p
                              ELSE IF k \in passed THEN NoPacket ELSE b.slot[k]
<1> DEFINE passed == IF s - b.end >= Size THEN JB!Slots
                     ELSE {i % Size : i \in b.end + 1 .. s - 1}
           end == JB!Max({b.end, s})
           from == IF b.nextStart = 0 THEN s ELSE b.nextStart
           start == JB!Max({from, end - Size + 1})
           slot == [i \in JB!Slots |-> IF i = s % Size THEN p
                                       ELSE IF i \in passed THEN NoPacket ELSE b.slot[i]]
           a == JB!Add(b, s, p)
<1>1. a = [b EXCEPT !.end = end, !.nextStart = start, !.slot = slot]
  BY DEF JB!Add
<1>2. end \in Nat /\ end = IF b.end >= s THEN b.end ELSE s
  BY BufferFields, MaxOfTwo
<1> HIDE DEF end
<1>3. from \in Nat /\ from >= b.nextStart
  BY BufferFields
<1> HIDE DEF from
<1>4. end - Size + 1 \in Int
  BY <1>2, Sizes
<1>5. start \in Nat /\ start >= from /\ start >= end - Size + 1
  BY <1>2, <1>3, <1>4, Sizes, MaxOfTwo
<1> HIDE DEF start
<1>6. start >= b.nextStart /\ start > end - Size
  BY <1>2, <1>3, <1>5, BufferFields, Sizes
<1>7. slot \in [JB!Slots -> {NoPacket} \cup ids]
  <2> HIDE DEF passed
  <2> QED BY BufferFields
<1>8. \A k \in JB!Slots : slot[k] = IF k = s % Size THEN p
                                    ELSE IF k \in passed THEN NoPacket ELSE b.slot[k]
  OBVIOUS
<1> HIDE DEF slot, passed
<1>9. a \in JB!Buffers(ids)
  BY <1>1, <1>2, <1>5, <1>7 DEF JB!Buffers
<1>10. a.end = end /\ a.nextStart = start /\ a.slot = slot
  BY <1>1 DEF JB!Buffers
<1> QED BY <1>2, <1>6, <1>8, <1>9, <1>10 DEF passed

\* Whatever Add does to a buffer, it slides its window on.
LEMMA AddStep ==
  ASSUME NEW ids, NEW b \in JB!Buffers(ids), NEW s \in Nat, NEW p \in ids
  PROVE  /\ JB!Add(b, s, p) \in JB!Buffers(ids)
         /\ JB!Add(b, s, p).nextStart >= b.nextStart
         /\ b.nextStart > b.end - Size =>
              JB!Add(b, s, p).nextStart > JB!Add(b, s, p).end - Size
<1>1. CASE ~JB!Accepts(b, s)
  BY <1>1, BufferFields DEF JB!Add
<1>2. CASE JB!Accepts(b, s)
  BY <1>2, AddIs
<1> QED BY <1>1, <1>2

\* A packet that leaves the window as it slides is overwritten or emptied.
LEMMA AddKeepsWindow ==
  ASSUME NEW ids, NoPacket \notin ids, NEW num \in [ids -> Int],
         NEW b \in JB!Buffers(ids), NEW s \in Nat, NEW p \in ids, num[p] = s,
         InWindow(b, num)
  PROVE  InWindow(JB!Add(b, s, p), num)
<1> DEFINE a == JB!Add(b, s, p)
<1>1. CASE ~JB!Accepts(b, s)
  BY <1>1 DEF JB!Add
<1>2. CASE JB!Accepts(b, s)
  <2> DEFINE passed == IF s - b.end >= Size THEN JB!Slots
                       ELSE {i % Size : i \in b.end + 1 .. s - 1}
  <2>1. /\ a.end = IF b.end >= s THEN b.end ELSE s
        /\ \A k \in JB!Slots : a.slot[k] = IF k = s % Size THEN p
                                           ELSE IF k \in passed THEN NoPacket ELSE b.slot[k]
    BY <1>2, AddIs
  <2>2. b.end \in Nat /\ Size \in Nat \ {0} /\ b.end - s < Size
    BY <1>2, Sizes, BufferFields DEF JB!Accepts
  <2> HIDE DEF a
  <2> SUFFICES ASSUME NEW k \in JB!Slots, a.slot[k] # NoPacket
               PROVE  /\ num[a.slot[k]] % Size = k
                      /\ a.end - Size < num[a.slot[k]] /\ num[a.slot[k]] <= a.end
    BY DEF InWindow, a
  <2>3. CASE k = s % Size
    <3>1. a.slot[k] = p
      BY <2>1, <2>3
    <3>2. num[a.slot[k]] = s
      BY <3>1
    <3> QED BY <2>1, <2>2, <2>3, <3>2
  <2>4. CASE k # s % Size
    <3>1. k \notin passed /\ a.slot[k] = b.slot[k]
      BY <2>1, <2>4
    <3> DEFINE n == num[b.slot[k]]
    <3>2. b.slot[k] \in ids
      BY <3>1, BufferFields
    <3>3. n \in Int /\ n % Size = k /\ b.end - Size < n /\ n <= b.end
      BY <3>1, <3>2 DEF InWindow
    <3> HIDE DEF n
    <3>4. CASE b.end >= s
      BY <2>1, <2>2, <3>1, <3>3, <3>4 DEF n
    <3>5. CASE b.end < s
      <4>1. s - b.end < Size /\ k \notin {i % Size : i \in b.end + 1 .. s - 1}
        BY <2>2, <3>1
      <4>2. (n + Size) % Size = k
        BY <2>2, <3>3, ModPlus
      <4>3. n + Size # s
        BY <2>4, <4>2
      <4>4. ~(n + Size \in b.end + 1 .. s - 1)
        BY <4>1, <4>2
      <4>5. n + Size > s
        BY <2>2, <3>3, <3>5, <4>3, <4>4
      <4> QED BY <2>1, <2>2, <3>1, <3>3, <3>5, <4>5 DEF n
    <3> QED BY <2>2, <3>4, <3>5
  <2> QED BY <2>3, <2>4
<1> QED BY <1>1, <1>2

LEMMA AfterSkipsIs ==
  ASSUME NEW ids, NEW b \in JB!Buffers(ids), b.nextStart <= b.end
  PROVE  /\ JB!AfterSkips(b) \in b.nextStart .. b.end + 1
         /\ JB!AfterSkips(b) \in Nat
<1> DEFINE T == {n \in b.nextStart .. b.end + 1 :
                   n > b.end \/ JB!Holds(b, n) \/ n \notin b.overdue}
<1>1. b.nextStart \in Nat /\ b.end \in Nat
  BY BufferFields
<1>2. T \in SUBSET Nat /\ b.end + 1 \in T
  BY <1>1
<1>3. JB!Min(T) \in T
  BY <1>2, MinIs
<1> QED BY <1>1, <1>3 DEF JB!AfterSkips

LEMMA LastHeldIs ==
  ASSUME NEW ids, NEW b \in JB!Buffers(ids), NEW n \in Nat, n <= b.end, JB!Holds(b, n)
  PROVE  /\ JB!LastHeld(b, n) \in n .. b.end
         /\ \A i \in n .. JB!LastHeld(b, n) : JB!Holds(b, i)
<1> DEFINE T == {m \in n .. b.end : \A i \in n .. m : JB!Holds(b, i)}
<1>1. b.end \in Nat
  BY BufferFields
<1>2. n \in T
  <2>1. \A i \in n .. n : i = n
    OBVIOUS
  <2> QED BY <1>1, <2>1
<1>3. T \in SUBSET Int
  BY <1>1
<1> DEFINE e == b.end
<1>4. e \in Int /\ \A m \in T : m <= e
  BY <1>1
<1> HIDE DEF T, e
<1>5. JB!Max(T) \in T
  BY <1>2, <1>3, <1>4, MaxIs
<1> QED BY <1>5 DEF JB!LastHeld, T

\* What NextPackets does: its start moves to some number n, and past the packets
\* it releases from there on. Slots are only emptied.
LEMMA NextPacketsIs ==
  ASSUME NEW ids, NEW b \in JB!Buffers(ids)
  PROVE  LET next == JB!NextPackets(b)
             a == next.buffer
         IN
         /\ a \in JB!Buffers(ids)
         /\ a.end = b.end
         /\ \A k \in JB!Slots : a.slot[k] \in {b.slot[k], NoPacket}
         /\ \E n \in Nat, m \in Nat :
              /\ n >= b.nextStart
              /\ a.nextStart = n + m
              /\ m > 0 => n + m - 1 <= b.end
              /\ next.packets = [k \in 1 .. m |-> b.slot[(n + k - 1) % Size]]
              /\ \A k \in 1 .. m : b.slot[(n + k - 1) % Size] \in ids
<1> DEFINE n == IF b.nextStart > b.end THEN b.nextStart ELSE JB!AfterSkips(b)
           next == JB!NextPackets(b)
           a == next.buffer
           skips == b.nextStart .. n - 1
           lastSkipped == IF skips = {} THEN b.lastSkipped ELSE n - 1
           skipped == [b EXCEPT !.nextStart = n, !.waiting = b.waiting \ skips,
                                !.overdue = b.overdue \ skips, !.lastSkipped = lastSkipped]
           last == JB!LastHeld(b, n)
           slot == [i \in JB!Slots |-> IF i \in {j % Size : j \in n .. last} THEN NoPacket
                                       ELSE b.slot[i]]
<1>1. b.nextStart \in Nat /\ b.end \in Nat
  BY BufferFields
<1>2. n \in Nat /\ n >= b.nextStart
  BY <1>1, AfterSkipsIs
<1>3. next = IF n > b.end
               THEN [packets |-> <<>>, skipped |-> skips # {}, buffer |-> skipped]
             ELSE IF ~JB!Holds(b, n)
               THEN [packets |-> <<>>, skipped |-> skips # {},
                     buffer |-> [skipped EXCEPT !.waiting = @ \cup {n}]]
             ELSE [packets |-> [k \in 1 .. last - n + 1 |-> b.slot[(n + k - 1) % Size]],
                   skipped |-> skips # {},
                   buffer |-> [skipped EXCEPT
                     !.nextStart = last + 1, !.waiting = @ \ {n}, !.overdue = @ \ {n},
                     !.slot = [i \in JB!Slots |-> IF i \in {j % Size : j \in n .. last} THEN NoPacket
                                                  ELSE @[i]]]]
  BY DEF JB!NextPackets
<1> SUFFICES /\ a \in JB!Buffers(ids)
             /\ a.end = b.end
             /\ \A k \in JB!Slots : a.slot[k] \in {b.slot[k], NoPacket}
             /\ \E m \in Nat :
                  /\ a.nextStart = n + m
                  /\ m > 0 => n + m - 1 <= b.end
                  /\ next.packets = [k \in 1 .. m |-> b.slot[(n + k - 1) % Size]]
                  /\ \A k \in 1 .. m : b.slot[(n + k - 1) % Size] \in ids
  <2> HIDE DEF n
  <2> QED BY <1>2
<1> HIDE DEF n, next
<1>4. lastSkipped \in Nat
  BY <1>1, <1>2, BufferFields
<1> HIDE DEF lastSkipped, skips
<1>5. /\ skipped \in JB!Buffers(ids)
      /\ skipped.nextStart = n /\ skipped.end = b.end /\ skipped.slot = b.slot
      /\ skipped.waiting \in SUBSET Nat /\ skipped.overdue \in SUBSET Nat
  BY <1>2, <1>4 DEF JB!Buffers
<1> HIDE DEF skipped
<1>6. ASSUME next.packets = <<>>, a \in JB!Buffers(ids),
             a.nextStart = n, a.end = b.end, a.slot = b.slot
      PROVE  /\ \A k \in JB!Slots : a.slot[k] \in {b.slot[k], NoPacket}
             /\ \E m \in Nat :
                  /\ a.nextStart = n + m
                  /\ m > 0 => n + m - 1 <= b.end
                  /\ next.packets = [k \in 1 .. m |-> b.slot[(n + k - 1) % Size]]
                  /\ \A k \in 1 .. m : b.slot[(n + k - 1) % Size] \in ids
  <2>1. next.packets = [k \in 1 .. 0 |-> b.slot[(n + k - 1) % Size]]
    BY <1>6
  <2>2. a.nextStart = n + 0
    BY <1>2, <1>6
  <2> QED BY <1>6, <2>1, <2>2
<1>7. CASE n > b.end
  <2>1. next.packets = <<>> /\ a = skipped
    BY <1>3, <1>7
  <2> QED BY <1>5, <1>6, <2>1
<1>8. CASE ~(n > b.end) /\ ~JB!Holds(b, n)
  <2>1. next.packets = <<>> /\ a = [skipped EXCEPT !.waiting = @ \cup {n}]
    BY <1>3, <1>8
  <2>2. /\ a \in JB!Buffers(ids)
        /\ a.nextStart = n /\ a.end = b.end /\ a.slot = b.slot
    BY <1>2, <1>5, <2>1 DEF JB!Buffers
  <2> QED BY <1>6, <2>1, <2>2
<1>9. CASE ~(n > b.end) /\ JB!Holds(b, n)
  <2>1. /\ last \in n .. b.end
        /\ \A i \in n .. last : JB!Holds(b, i)
    BY <1>1, <1>2, <1>9, LastHeldIs
  <2> DEFINE m == last - n + 1
  <2>2. m \in Nat /\ n + m = last + 1 /\ n + m - 1 <= b.end /\ last + 1 \in Nat
    BY <1>1, <1>2, <2>1
  <2>3. /\ next.packets = [k \in 1 .. m |-> b.slot[(n + k - 1) % Size]]
        /\ a = [skipped EXCEPT !.nextStart = last + 1, !.waiting = @ \ {n}, !.overdue = @ \ {n},
                               !.slot = slot]
    BY <1>3, <1>5, <1>9
  <2>4. slot \in [JB!Slots -> {NoPacket} \cup ids]
    BY BufferFields
  <2>5. \A k \in JB!Slots : slot[k] \in {b.slot[k], NoPacket}
    OBVIOUS
  <2>6. ASSUME NEW k \in 1 .. m PROVE b.slot[(n + k - 1) % Size] \in ids
    <3>1. n + k - 1 \in n .. last
      BY <1>1, <1>2, <2>1
    <3>2. b.slot[(n + k - 1) % Size] # NoPacket
      BY <2>1, <3>1 DEF JB!Holds
    <3>3. (n + k - 1) % Size \in JB!Slots
      BY <1>2, ModInSlots
    <3> QED BY <3>2, <3>3, BufferFields
  <2> HIDE DEF m, slot, last
  <2>7. /\ a \in JB!Buffers(ids)
        /\ a.nextStart = last + 1 /\ a.end = b.end /\ a.slot = slot
    <3> DEFINE start == last + 1
               waiting == skipped.waiting \ {n}
               overdue == skipped.overdue \ {n}
    <3>1. start \in Nat /\ waiting \in SUBSET Nat /\ overdue \in SUBSET Nat
      BY <1>5, <2>2
    <3>2. a = [skipped EXCEPT !.nextStart = start, !.waiting = waiting, !.overdue = overdue,
                              !.slot = slot]
      BY <2>3
    <3>3. start = last + 1
      OBVIOUS
    <3> HIDE DEF start, waiting, overdue, a
    <3> QED BY <1>5, <2>4, <3>1, <3>2, <3>3 DEF JB!Buffers
  <2> QED BY <2>2, <2>3, <2>5, <2>6, <2>7
<1> QED BY <1>7, <1>8, <1>9

\* NextPackets only takes packets, and the start never goes back.
LEMMA NextPacketsStep ==
  ASSUME NEW ids, NEW b \in JB!Buffers(ids)
  PROVE  LET next == JB!NextPackets(b)
         IN  /\ next.packets \in Seq(ids)
             /\ next.buffer.nextStart >= b.nextStart
             /\ b.nextStart > b.end - Size =>
                  next.buffer.nextStart > next.buffer.end - Size
<1> DEFINE next == JB!NextPackets(b)
<1>1. PICK n \in Nat, m \in Nat :
        /\ n >= b.nextStart
        /\ next.buffer.nextStart = n + m
        /\ next.packets = [k \in 1 .. m |-> b.slot[(n + k - 1) % Size]]
        /\ \A k \in 1 .. m : b.slot[(n + k - 1) % Size] \in ids
  BY NextPacketsIs
<1>2. next.buffer.end = b.end
  BY NextPacketsIs
<1>3. b.nextStart \in Nat /\ b.end \in Nat /\ Size \in Nat
  BY BufferFields, Sizes
<1> HIDE DEF next
<1>4. next.packets \in Seq(ids)
  BY <1>1
<1>5. next.buffer.nextStart >= b.nextStart
  BY <1>1, <1>3
<1> QED BY <1>1, <1>2, <1>3, <1>4, <1>5 DEF next

LEMMA NextPacketsKeepsWindow ==
  ASSUME NEW ids, NEW num, NEW b \in JB!Buffers(ids), InWindow(b, num)
  PROVE  InWindow(JB!NextPackets(b).buffer, num)
<1>1. /\ JB!NextPackets(b).buffer.end = b.end
      /\ \A k \in JB!Slots : JB!NextPackets(b).buffer.slot[k] \in {b.slot[k], NoPacket}
  BY NextPacketsIs
<1> QED BY <1>1 DEF InWindow

\* While the start is in the window, the packets released are those of
\* successive numbers from the start on.
LEMMA NextPacketsInOrder ==
  ASSUME NEW ids, NoPacket \notin ids, NEW num \in [ids -> Int], NEW b \in JB!Buffers(ids),
         InWindow(b, num), b.nextStart > b.end - Size
  PROVE  LET out == JB!NextPackets(b).packets
         IN  /\ \A k \in DOMAIN out :
                  /\ b.nextStart <= num[out[k]]
                  /\ num[out[k]] < JB!NextPackets(b).buffer.nextStart
             /\ \A k, l \in DOMAIN out : k < l => num[out[k]] < num[out[l]]
<1> DEFINE out == JB!NextPackets(b).packets
           start == JB!NextPackets(b).buffer.nextStart
<1>1. PICK n \in Nat, m \in Nat :
        /\ n >= b.nextStart
        /\ start = n + m
        /\ m > 0 => n + m - 1 <= b.end
        /\ out = [k \in 1 .. m |-> b.slot[(n + k - 1) % Size]]
        /\ \A k \in 1 .. m : b.slot[(n + k - 1) % Size] \in ids
  BY NextPacketsIs
<1>2. b.nextStart \in Nat /\ b.end \in Nat /\ Size \in Nat \ {0}
  BY BufferFields, Sizes
<1> HIDE DEF out, start
<1>3. ASSUME NEW k \in 1 .. m PROVE num[out[k]] = n + k - 1
  <2> DEFINE i == n + k - 1
             p == b.slot[i % Size]
  <2>1. i \in Int /\ b.end - Size < i /\ i <= b.end
    BY <1>1, <1>2
  <2>2. out[k] = p /\ p \in ids
    BY <1>1
  <2>3. i % Size \in JB!Slots
    BY <2>1, ModInSlots
  <2>4. p # NoPacket /\ num[p] \in Int
    BY <2>2
  <2>5. num[p] % Size = i % Size /\ b.end - Size < num[p] /\ num[p] <= b.end
    BY <2>3, <2>4 DEF InWindow
  <2> HIDE DEF p, i
  <2>6. num[p] - i < Size /\ i - num[p] < Size
    BY <1>2, <2>1, <2>4, <2>5
  <2>7. num[p] = i
    BY <1>2, <2>1, <2>4, <2>5, <2>6, SameInWindow
  <2> QED BY <2>2, <2>7 DEF i
<1>4. DOMAIN out = 1 .. m
  BY <1>1
<1>5. ASSUME NEW k \in DOMAIN out PROVE b.nextStart <= num[out[k]] /\ num[out[k]] < start
  <2>1. k \in 1 .. m
    BY <1>4
  <2>2. num[out[k]] = n + k - 1
    BY <1>3, <2>1
  <2>3. start = n + m /\ n >= b.nextStart
    BY <1>1
  <2> QED BY <1>2, <2>1, <2>2, <2>3
<1>6. ASSUME NEW k \in DOMAIN out, NEW l \in DOMAIN out, k < l PROVE num[out[k]] < num[out[l]]
  BY <1>3, <1>4, <1>6
<1> QED BY <1>5, <1>6 DEF out, start

LEMMA SetStartType ==
  ASSUME NEW ids, NEW b \in JB!Buffers(ids), NEW s \in Nat
  PROVE  JB!SetNextPacketsStart(b, s) \in JB!Buffers(ids)
<1> DEFINE slot == IF b.nextStart = s THEN [b.slot EXCEPT ![s % Size] = NoPacket] ELSE b.slot
           start == s + 1
<1>1. slot \in [JB!Slots -> {NoPacket} \cup ids] /\ start \in Nat
  <2>1. b.slot \in [JB!Slots -> {NoPacket} \cup ids]
    BY BufferFields
  <2>2. [b.slot EXCEPT ![s % Size] = NoPacket] \in [JB!Slots -> {NoPacket} \cup ids]
    BY <2>1
  <2> QED BY <2>1, <2>2
<1>2. JB!SetNextPacketsStart(b, s) = [b EXCEPT !.nextStart = start, !.slot = slot]
  BY DEF JB!SetNextPacketsStart
<1> HIDE DEF slot, start
<1> QED BY <1>1, <1>2 DEF JB!Buffers

LEMMA SetStartIs ==
  ASSUME NEW ids, NEW b \in JB!Buffers(ids), NEW s \in Nat
  PROVE  LET a == JB!SetNextPacketsStart(b, s)
         IN  /\ a.nextStart = s + 1 /\ a.end = b.end
             /\ \A k \in JB!Slots : a.slot[k] \in {b.slot[k], NoPacket}
<1> DEFINE slot == IF b.nextStart = s THEN [b.slot EXCEPT ![s % Size] = NoPacket] ELSE b.slot
           start == s + 1
<1>1. \A k \in JB!Slots : slot[k] \in {b.slot[k], NoPacket}
  BY BufferFields
<1>2. JB!SetNextPacketsStart(b, s) = [b EXCEPT !.nextStart = start, !.slot = slot]
  BY DEF JB!SetNextPacketsStart
<1> HIDE DEF slot, start
<1>3. LET a == JB!SetNextPacketsStart(b, s) IN a.nextStart = start /\ a.end = b.end /\ a.slot = slot
  BY <1>2 DEF JB!Buffers
<1> QED BY <1>1, <1>3 DEF start

LEMMA SkipPacketIs ==
  ASSUME NEW ids, NEW b \in JB!Buffers(ids), NEW s \in Nat
  PROVE  LET a == JB!SkipPacket(b, s)
         IN  /\ a \in JB!Buffers(ids)
             /\ a.nextStart = b.nextStart /\ a.end = b.end /\ a.slot = b.slot
BY DEF JB!SkipPacket, JB!Buffers

-----------------------------------------------------------------------------
(* The receive log *)

LEMMA LogFields ==
  ASSUME NEW l \in RL!Logs
  PROVE  /\ l.started \in BOOLEAN /\ l.end \in Wires /\ l.lastConsecutive \in Wires
         /\ l.bits \in SUBSET (0 .. LogSize - 1)
BY DEF RL!Logs, Wires

LEMMA WireType == \A x \in Int : x % SeqMod \in Wires /\ x % LogSize \in 0 .. LogSize - 1
BY Sizes, DivMod DEF Wires

LEMMA MinusType == \A x, y \in Int : RL!Minus(x, y) \in Wires
BY WireType DEF RL!Minus

LEMMA SetType ==
  ASSUME NEW l \in RL!Logs, NEW s \in Int
  PROVE  RL!Set(l, s) \in RL!Logs
<1>1. s % LogSize \in 0 .. LogSize - 1
  BY WireType
<1> QED BY <1>1 DEF RL!Set, RL!Logs

LEMMA FixType ==
  ASSUME NEW l \in RL!Logs
  PROVE  RL!FixLastConsecutive(l) \in RL!Logs
<1> DEFINE span == RL!Minus(l.end, l.lastConsecutive)
           run == {k \in 0 .. span : \A i \in 1 .. k : RL!Get(l, l.lastConsecutive + i)}
           last == (l.lastConsecutive + RL!Max(run)) % SeqMod
<1>1. l.end \in Int /\ l.lastConsecutive \in Int
  BY LogFields DEF Wires
<1>2. span \in Nat
  BY <1>1, MinusType, Sizes
<1> HIDE DEF span
<1>3. run \in SUBSET Int
  BY <1>2
<1>4. span \in Int /\ \A k \in run : k <= span
  BY <1>2
<1>5. 0 \in run
  BY <1>2
<1> HIDE DEF run
<1>6. JB!Max(run) \in Int
  <2>1. JB!Max(run) \in run
    BY <1>3, <1>4, <1>5, MaxIs
  <2> QED BY <1>3, <2>1
<1>7. last \in Wires
  BY <1>1, <1>6, OneMax, WireType
<1>8. RL!FixLastConsecutive(l) = [l EXCEPT !.lastConsecutive = last]
  BY DEF RL!FixLastConsecutive, run, span
<1> HIDE DEF last
<1> QED BY <1>7, <1>8 DEF RL!Logs, Wires

LEMMA LogType ==
  ASSUME NEW l \in RL!Logs, NEW s \in Wires
  PROVE  /\ RL!Add(l, s) \in RL!Logs
         /\ RL!Ignore(l, s) \in RL!Logs
<1> DEFINE diff == RL!Minus(s, l.end)
           gap == RL!Minus(s, l.lastConsecutive)
           back == RL!Minus(s, LogSize)
           bits == l.bits \ {(l.end + i) % LogSize : i \in 1 .. diff - 1}
           ahead == [l EXCEPT !.end = s, !.bits = bits]
<1>1. s \in Int /\ LogSize \in Int
  BY Sizes
<1>2. back \in Wires
  BY <1>1, MinusType
<1>3. bits \in SUBSET (0 .. LogSize - 1)
  BY LogFields
<1>4. RL!Add(l, s) =
        IF ~l.started
          THEN RL!Set([l EXCEPT !.started = TRUE, !.end = s, !.lastConsecutive = s], s)
        ELSE IF diff = 0 THEN l
        ELSE IF diff < RL!Half /\ gap = 1 THEN RL!Set([ahead EXCEPT !.lastConsecutive = s], s)
        ELSE IF diff < RL!Half /\ gap > LogSize
          THEN RL!Set(RL!FixLastConsecutive([ahead EXCEPT !.lastConsecutive = back]), s)
        ELSE IF diff < RL!Half THEN RL!Set(ahead, s)
        ELSE IF gap = 1 THEN RL!Set(RL!FixLastConsecutive([l EXCEPT !.lastConsecutive = s]), s)
        ELSE RL!Set(l, s)
  BY DEF RL!Add
<1> HIDE DEF diff, gap, back, bits
<1>5. ahead \in RL!Logs
  BY <1>3 DEF RL!Logs, Wires
<1> HIDE DEF ahead
<1>6. /\ [l EXCEPT !.started = TRUE, !.end = s, !.lastConsecutive = s] \in RL!Logs
      /\ [ahead EXCEPT !.lastConsecutive = s] \in RL!Logs
      /\ [ahead EXCEPT !.lastConsecutive = back] \in RL!Logs
      /\ \A m \in RL!Logs : [m EXCEPT !.lastConsecutive = s] \in RL!Logs
  BY <1>2, <1>5 DEF RL!Logs, Wires
<1>7. RL!Add(l, s) \in RL!Logs
  BY <1>1, <1>4, <1>5, <1>6, SetType, FixType
<1>8. RL!Ignore(l, s) \in RL!Logs
  BY <1>1, <1>6, SetType, FixType DEF RL!Ignore
<1> QED BY <1>7, <1>8

LEMMA MissingType == \A l, n : l.lastConsecutive \in Int => RL!Missing(l, n) \in SUBSET Wires
BY WireType DEF RL!Missing

-----------------------------------------------------------------------------
(* The recorder *)

\* The steps of the sampler, and the calls of the recorder, keep its types.
LEMMA RecorderFields ==
  ASSUME NEW ids, NEW r \in Rec!Recorders(ids)
  PROVE  /\ r.file \in Seq(Seq(ids)) /\ r.currentFrame \in Seq(ids)
         /\ r.writers \in SUBSET {"audio", "video"}
         /\ r.hasAudio \in BOOLEAN /\ r.closed \in BOOLEAN /\ r.hasKeyFrame \in BOOLEAN
         /\ r.hasValidAudio \in BOOLEAN /\ r.hasValidVideo \in BOOLEAN
         /\ r.skipSignaled \in BOOLEAN
         /\ r.currentFrameInfo # NoInfo => r.currentFrameInfo.pic \in 0 .. PicMod - 1
BY DEF Rec!Recorders, Rec!FrameInfos

LEMMA DropFrameType ==
  ASSUME NEW ids, NEW r \in Rec!Recorders(ids)
  PROVE  Rec!DropFrame(r) \in Rec!Recorders(ids)
<1>1. NoInfo \in Rec!FrameInfos /\ <<>> \in Seq(ids)
  BY DEF Rec!FrameInfos
<1> QED BY <1>1 DEF Rec!DropFrame, Rec!Recorders

LEMMA AwaitKeyFrameType ==
  ASSUME NEW ids, NEW r \in Rec!Recorders(ids)
  PROVE  Rec!AwaitKeyFrame(r) \in Rec!Recorders(ids)
<1>1. \A q \in Rec!Recorders(ids) : [q EXCEPT !.hasKeyFrame = FALSE] \in Rec!Recorders(ids)
  BY DEF Rec!Recorders
<1> QED BY <1>1, DropFrameType DEF Rec!AwaitKeyFrame

LEMMA NotifyType ==
  ASSUME NEW ids, NEW r \in Rec!Recorders(ids), NEW s \in Wires
  PROVE  Rec!NotifySkippedPacket(r, s) \in Rec!Recorders(ids)
<1> DEFINE told == [r EXCEPT !.lastSkippedSeq = s, !.skipSignaled = TRUE]
<1>1. told \in Rec!Recorders(ids)
  BY DEF Rec!Recorders, Wires
<1> HIDE DEF told
<1>2. Rec!NotifySkippedPacket(r, s) \in {told, Rec!AwaitKeyFrame(told)}
  BY DEF Rec!NotifySkippedPacket, told
<1> QED BY <1>1, <1>2, AwaitKeyFrameType

\* A packet as the sampler reads it.
IsPacket(p, ids) == p.id \in ids /\ p.seq \in Wires /\ p.pic \in 0 .. PicMod - 1 /\ p.key \in BOOLEAN

LEMMA AtGapType ==
  ASSUME NEW ids, NEW r \in Rec!Recorders(ids), NEW p, IsPacket(p, ids)
  PROVE  Rec!AtGap(r, p) \in Rec!Recorders(ids)
<1> DEFINE gap == r.expectedNextSeq > 0 /\ p.seq # r.expectedNextSeq
           boundary == gap /\ r.skipSignaled /\ Rec!Follows(p.seq, r.lastSkippedSeq)
           cut == IF boundary /\ r.currentFrame # <<>> THEN Rec!DropFrame(r) ELSE r
           next == (p.seq + 1) % SeqMod
           signaled == cut.skipSignaled /\ ~gap
           seq == p.seq
<1>1. cut \in Rec!Recorders(ids)
  BY DropFrameType
<1>2. next \in 0 .. SeqMod - 1 /\ seq \in 0 .. SeqMod - 1
  <2>1. p.seq \in Int
    BY DEF IsPacket, Wires
  <2> QED BY <2>1, WireType DEF IsPacket, Wires
<1>3. Rec!AtGap(r, p) = [cut EXCEPT !.skipSignaled = signaled, !.lastProcessedSeq = seq,
                                    !.expectedNextSeq = next]
  BY DEF Rec!AtGap
<1> HIDE DEF cut, next, gap, seq
<1>4. signaled \in BOOLEAN
  BY <1>1, RecorderFields
<1> HIDE DEF signaled
<1> QED BY <1>1, <1>2, <1>3, <1>4 DEF Rec!Recorders

LEMMA StartFrameType ==
  ASSUME NEW ids, NEW r \in Rec!Recorders(ids), NEW p, IsPacket(p, ids)
  PROVE  Rec!StartFrame(r, p) \in Rec!Recorders(ids)
<1> DEFINE cut == IF r.currentFrame # <<>> THEN Rec!AwaitKeyFrame(r) ELSE r
           info == [start |-> p.seq, pic |-> p.pic]
           begun == [cut EXCEPT !.currentFrameInfo = info]
           key == p.key
<1>1. cut \in Rec!Recorders(ids)
  BY AwaitKeyFrameType
<1>2. info \in Rec!FrameInfos /\ key \in BOOLEAN
  BY DEF IsPacket, Wires, Rec!FrameInfos
<1>3. Rec!StartFrame(r, p) \in {begun, [begun EXCEPT !.hasKeyFrame = key]}
  BY DEF Rec!StartFrame
<1> HIDE DEF cut, info, key
<1>4. begun \in Rec!Recorders(ids)
  BY <1>1, <1>2 DEF Rec!Recorders
<1> HIDE DEF begun
<1>5. [begun EXCEPT !.hasKeyFrame = key] \in Rec!Recorders(ids)
  BY <1>2, <1>4 DEF Rec!Recorders
<1> QED BY <1>3, <1>4, <1>5

LEMMA OpenFileType ==
  ASSUME NEW ids, NEW r \in Rec!Recorders(ids)
  PROVE  Rec!OpenFile(r) \in Rec!Recorders(ids)
<1> DEFINE writers == {"video"} \cup (IF r.hasAudio THEN {"audio"} ELSE {})
<1>1. writers \in SUBSET {"audio", "video"}
  OBVIOUS
<1>2. Rec!OpenFile(r) = [r EXCEPT !.file = <<>>, !.writers = writers]
  BY DEF Rec!OpenFile
<1>3. <<>> \in Seq(Seq(ids))
  OBVIOUS
<1> HIDE DEF writers
<1> QED BY <1>1, <1>2, <1>3 DEF Rec!Recorders

LEMMA WriteFrameType ==
  ASSUME NEW ids, NEW r \in Rec!Recorders(ids), NEW fate
  PROVE  Rec!WriteFrame(r, fate) \in Rec!Recorders(ids)
<1> DEFINE open == IF Rec!NeedsWriters(r) THEN Rec!OpenFile(r) ELSE r
           file == IF fate = "unwritten" THEN open.file ELSE Append(open.file, r.currentFrame)
           key == fate # "unwritten"
           written == [open EXCEPT !.file = file, !.hasKeyFrame = key, !.hasValidVideo = TRUE]
<1>1. open \in Rec!Recorders(ids)
  BY OpenFileType
<1>2. Rec!WriteFrame(r, fate) = Rec!DropFrame(written)
  BY DEF Rec!WriteFrame
<1> HIDE DEF open
<1>3. file \in Seq(Seq(ids)) /\ key \in BOOLEAN
  <2>1. open.file \in Seq(Seq(ids)) /\ r.currentFrame \in Seq(ids)
    BY <1>1, RecorderFields
  <2> QED BY <2>1
<1> HIDE DEF file, key
<1>4. written \in Rec!Recorders(ids)
  BY <1>1, <1>3 DEF Rec!Recorders
<1> QED BY <1>2, <1>4, DropFrameType

LEMMA CompleteFrameType ==
  ASSUME NEW ids, NEW r \in Rec!Recorders(ids), NEW fate
  PROVE  Rec!CompleteFrame(r, fate) \in Rec!Recorders(ids)
<1> DEFINE pic == r.currentFrameInfo.pic
           named == IF r.currentFrameInfo = NoInfo THEN r ELSE [r EXCEPT !.lastPictureID = pic]
<1>1. named \in Rec!Recorders(ids)
  <2>1. CASE r.currentFrameInfo = NoInfo
    BY <2>1
  <2>2. CASE r.currentFrameInfo # NoInfo
    <3>1. pic \in 0 .. PicMod - 1
      BY <2>2, RecorderFields
    <3> HIDE DEF pic
    <3>2. [r EXCEPT !.lastPictureID = pic] \in Rec!Recorders(ids)
      BY <3>1 DEF Rec!Recorders
    <3> QED BY <2>2, <3>2
  <2> QED BY <2>1, <2>2
<1>2. Rec!CompleteFrame(r, fate) \in {Rec!AwaitKeyFrame(named), Rec!WriteFrame(named, fate)}
  BY DEF Rec!CompleteFrame
<1> HIDE DEF named
<1> QED BY <1>1, <1>2, AwaitKeyFrameType, WriteFrameType

LEMMA AssembleType ==
  ASSUME NEW ids, NEW r \in Rec!Recorders(ids), NEW p, IsPacket(p, ids), NEW fate
  PROVE  Rec!Assemble(r, p, fate) \in Rec!Recorders(ids)
<1> DEFINE frame == Append(r.currentFrame, p.id)
           grown == [r EXCEPT !.hasKeyFrame = TRUE, !.currentFrame = frame]
<1>1. frame \in Seq(ids)
  <2>1. r.currentFrame \in Seq(ids) /\ p.id \in ids
    BY RecorderFields DEF IsPacket
  <2> QED BY <2>1
<1>2. Rec!Assemble(r, p, fate) \in
        {Rec!AwaitKeyFrame(r), Rec!DropFrame(r), grown, Rec!CompleteFrame(grown, fate)}
  BY DEF Rec!Assemble
<1> HIDE DEF frame
<1>3. grown \in Rec!Recorders(ids)
  BY <1>1 DEF Rec!Recorders
<1> HIDE DEF grown
<1> QED BY <1>2, <1>3, AwaitKeyFrameType, DropFrameType, CompleteFrameType

LEMMA PushVideoType ==
  ASSUME NEW ids, NEW r \in Rec!Recorders(ids), NEW p, IsPacket(p, ids), NEW fate
  PROVE  Rec!PushVideo(r, p, fate) \in Rec!Recorders(ids)
<1> DEFINE at == Rec!AtGap(r, p)
           frame == Append(at.currentFrame, p.id)
<1>1. at \in Rec!Recorders(ids)
  BY AtGapType
<1>2. Rec!PushVideo(r, p, fate) \in
        {r, [at EXCEPT !.hasKeyFrame = FALSE], [at EXCEPT !.currentFrame = frame],
         Rec!Assemble(at, p, fate), Rec!StartFrame(at, p),
         Rec!Assemble(Rec!StartFrame(at, p), p, fate)}
  BY DEF Rec!PushVideo
<1> HIDE DEF at
<1>3. frame \in Seq(ids)
  <2>1. at.currentFrame \in Seq(ids) /\ p.id \in ids
    BY <1>1, RecorderFields DEF IsPacket
  <2> QED BY <2>1
<1> HIDE DEF frame
<1>4. /\ [at EXCEPT !.hasKeyFrame = FALSE] \in Rec!Recorders(ids)
      /\ [at EXCEPT !.currentFrame = frame] \in Rec!Recorders(ids)
  BY <1>1, <1>3 DEF Rec!Recorders
<1>5. Rec!StartFrame(at, p) \in Rec!Recorders(ids)
  BY <1>1, StartFrameType
<1>6. \A q \in Rec!Recorders(ids) : Rec!Assemble(q, p, fate) \in Rec!Recorders(ids)
  BY AssembleType
<1>7. /\ Rec!Assemble(at, p, fate) \in Rec!Recorders(ids)
      /\ Rec!Assemble(Rec!StartFrame(at, p), p, fate) \in Rec!Recorders(ids)
  BY <1>1, <1>5, <1>6
<1> QED BY <1>2, <1>4, <1>5, <1>7

LEMMA RecorderCallType ==
  ASSUME NEW ids, NEW r \in Rec!Recorders(ids)
  PROVE  /\ \A written \in BOOLEAN : Rec!WriteAudio(r, written) \in Rec!Recorders(ids)
         /\ Rec!Close(r) \in Rec!Recorders(ids)
         /\ [r EXCEPT !.hasAudio = TRUE] \in Rec!Recorders(ids)
BY DEF Rec!WriteAudio, Rec!Close, Rec!Recorders

-----------------------------------------------------------------------------
(* Types *)

LEMMA IdsAreNumbers ==
  TypeOK => /\ Ids \in SUBSET Nat /\ base \in Nat /\ NoPacket \notin Ids
            /\ \A i \in Ids : i >= 1 /\ Wire(i) \in Wires /\ IsPacket(Packet(i), Ids)
<1> SUFFICES ASSUME TypeOK
             PROVE  /\ Ids \in SUBSET Nat /\ base \in Nat /\ NoPacket \notin Ids
                    /\ \A i \in Ids : i >= 1 /\ Wire(i) \in Wires /\ IsPacket(Packet(i), Ids)
  OBVIOUS
<1>1. stream \in Seq(Descriptors) /\ base \in Nat /\ NoPacket \notin Nat
  <2>1. stream \in Streams /\ base \in Bases
    BY DEF TypeOK
  <2>2. /\ \A s \in Streams : s \in Seq(Descriptors)
        /\ Bases \subseteq 0 .. SeqMod - 1 /\ NoPacket \notin Nat
    BY TrackAssumption
  <2>3. base \in 0 .. SeqMod - 1
    BY <2>1, <2>2
  <2> QED BY <2>1, <2>2, <2>3
<1>2. Ids \in SUBSET Nat /\ \A i \in Ids : i >= 1
  BY <1>1 DEF Ids
<1>3. ASSUME NEW i \in Ids PROVE Wire(i) \in Wires /\ IsPacket(Packet(i), Ids)
  <2>1. base + i - 1 \in Int
    BY <1>1, <1>2
  <2>2. Wire(i) \in Wires
    BY <2>1, WireType DEF Wire
  <2>3. stream[i] \in Descriptors
    BY <1>1 DEF Ids
  <2>4. stream[i].pic \in Nat /\ stream[i].key \in BOOLEAN
    BY <2>3 DEF Descriptors
  <2>5. /\ Packet(i).id = i /\ Packet(i).seq = Wire(i)
        /\ Packet(i).pic = stream[i].pic % PicMod /\ Packet(i).key = stream[i].key
    BY DEF Packet
  <2>6. stream[i].pic % PicMod \in 0 .. PicMod - 1
    <3>1. PicMod \in Nat \ {0}
      BY TrackAssumption
    <3> QED BY <2>4, <3>1
  <2> QED BY <2>2, <2>4, <2>5, <2>6 DEF IsPacket
<1> QED BY <1>1, <1>2, <1>3

LEMMA OldestIs ==
  ASSUME TypeOK, nacker.due # {}
  PROVE  Oldest(nacker.due) \in nacker.due /\ Oldest(nacker.due) \in Wires
<1> DEFINE due == nacker.due
           dist(s) == RL!Minus(s, rl.end)
           D == {dist(s) : s \in due}
<1>1. due \in SUBSET Wires /\ rl.end \in Int /\ due \in SUBSET Int
  <2>1. nacker.due \in SUBSET Wires /\ rl \in RL!Logs
    BY DEF TypeOK
  <2>2. rl.end \in Wires
    BY <2>1, LogFields
  <2> QED BY <2>1, <2>2 DEF Wires
<1>2. \A s \in due : dist(s) \in Nat
  BY <1>1, MinusType, Sizes
<1> HIDE DEF dist
<1>3. D \in SUBSET Nat /\ D # {}
  BY <1>2
<1>4. PICK d \in D : \A e \in D : d <= e
  BY <1>3, LeastNumber
<1>5. PICK s \in due : d = dist(s)
  BY <1>4
<1>6. \A t \in due : dist(s) <= dist(t)
  BY <1>4, <1>5
<1>7. Oldest(due) \in due
  BY <1>6 DEF Oldest, dist
<1> QED BY <1>1, <1>7

LEMMA TypeInit == Init => TypeOK
<1> SUFFICES ASSUME Init PROVE TypeOK
  OBVIOUS
<1>1. 0 \in Wires /\ 0 \in 0 .. PicMod - 1 /\ 0 \in 0 .. MaxFates /\ 0 \in 0 .. MaxNacks + 1
  BY TrackAssumption DEF Wires
<1>2. su \in RL!Unwrappers /\ rl \in RL!Logs
  BY <1>1 DEF Init, RL!NewUnwrapper, RL!Unwrappers, RL!NewLog, RL!Logs, Wires
<1>3. jb \in JB!Buffers(Ids)
  BY DEF Init, JB!NewBuffer, JB!Buffers
<1>4. rec \in Rec!Recorders(Ids)
  <2>1. NoInfo \in Rec!FrameInfos /\ <<>> \in Seq(Ids) /\ <<>> \in Seq(Seq(Ids))
    BY DEF Rec!FrameInfos
  <2> QED BY <1>1, <2>1 DEF Init, Rec!NewRecorder, Rec!Recorders, Wires
<1>5. attempts \in [Wires -> 0 .. MaxNacks + 1]
  BY <1>1 DEF Init
<1>6. <<>> \in Seq(Ids)
  OBVIOUS
<1> QED BY <1>1, <1>2, <1>3, <1>4, <1>5, <1>6 DEF Init, TypeOK

\* Where the reader and the NACK goroutine are says what they have at hand.
BatchAtHand ==
  /\ reader.at \in {"reading", "log", "next"} => batch = <<>>
  /\ reader.at \in {"notify", "push"} => batch # <<>>
DueAtHand == nacker.at = "giving up" => nacker.due # {}

LEMMA NextCases ==
  ASSUME Next
  PROVE  \/ \E i \in Ids : Receive(i)
         \/ LogPacket \/ TakePackets \/ TakeNothing \/ Notify \/ Push
         \/ EndTrack \/ EndFlow \/ EndNacker \/ EndPli
         \/ NackTick \/ GiveUp \/ SetStart
         \/ CloseFlow \/ Timeout \/ StartAudio \/ PushAudio \/ CloseRecorder
BY DEF Next, Read, Ending, Nack

\* The parts of TypeOK, one for each of the actors.
SentTypes ==
  /\ stream \in Streams /\ base \in Bases
  /\ arrived \in SUBSET Ids /\ first \in {0} \cup arrived
BufferTypes == su \in RL!Unwrappers /\ jb \in JB!Buffers(Ids) /\ rl \in RL!Logs
ReaderTypes ==
  /\ reader \in [at : {"reading", "log", "next", "notify", "push", "ending", "flow ended",
                       "nacker ended", "gone"},
                 id : {0} \cup Ids]
  /\ batch \in Seq(Ids) /\ pushed \in Seq(Ids)
NackerTypes ==
  /\ nacker \in [at : {"select", "giving up", "set", "gone"}, due : SUBSET Wires, seq : Wires]
  /\ attempts \in [Wires -> 0 .. MaxNacks + 1]
  /\ ignored \in SUBSET Ids /\ stale \in BOOLEAN /\ rewound \in BOOLEAN
OtherTypes == pli \in {"running", "gone"} /\ flow \in {"running", "closing", "gone"}
RecorderTypes == rec \in Rec!Recorders(Ids) /\ fates \in 0 .. MaxFates

LEMMA TypeParts ==
  TypeOK <=> /\ SentTypes /\ BufferTypes /\ ReaderTypes
             /\ NackerTypes /\ OtherTypes /\ RecorderTypes
BY DEF TypeOK, SentTypes, BufferTypes, ReaderTypes, NackerTypes, OtherTypes, RecorderTypes

LEMMA SameStream == [Next]_vars => stream' = stream /\ base' = base /\ Ids' = Ids
<1> SUFFICES ASSUME [Next]_vars PROVE stream' = stream /\ base' = base
  BY DEF Ids
<1>1. CASE UNCHANGED vars
  BY <1>1 DEF vars
<1>2. CASE Next
  BY <1>2, NextCases
  DEF Receive, LogPacket, TakePackets, TakeNothing, Notify, Push, EndTrack, EndFlow, EndNacker,
      EndPli, NackTick, GiveUp, SetStart, CloseFlow, Timeout, StartAudio, PushAudio, CloseRecorder
<1> QED BY <1>1, <1>2

LEMMA TypeStep == TypeOK /\ BatchAtHand /\ DueAtHand /\ [Next]_vars => TypeOK'
<1> SUFFICES ASSUME TypeOK, BatchAtHand, DueAtHand, [Next]_vars
             PROVE  /\ SentTypes' /\ BufferTypes' /\ ReaderTypes'
                    /\ NackerTypes' /\ OtherTypes' /\ RecorderTypes'
  BY DEF TypeOK, SentTypes, BufferTypes, ReaderTypes, NackerTypes, OtherTypes, RecorderTypes
<1>a. Ids' = Ids /\ stream' = stream /\ base' = base
  BY SameStream
<1>b. /\ UNCHANGED <<arrived, first>> => SentTypes'
      /\ UNCHANGED <<su, jb, rl>> => BufferTypes'
      /\ UNCHANGED <<reader, batch, pushed>> => ReaderTypes'
      /\ UNCHANGED <<nacker, attempts, ignored, stale, rewound>> => NackerTypes'
      /\ UNCHANGED <<pli, flow>> => OtherTypes'
      /\ UNCHANGED <<rec, fates>> => RecorderTypes'
  <2>1. SentTypes /\ BufferTypes /\ ReaderTypes /\ NackerTypes /\ OtherTypes /\ RecorderTypes
    BY TypeParts
  <2>2. UNCHANGED <<arrived, first>> => SentTypes'
    BY <1>a, <2>1 DEF SentTypes
  <2>3. UNCHANGED <<su, jb, rl>> => BufferTypes'
    BY <1>a, <2>1 DEF BufferTypes
  <2>4. UNCHANGED <<reader, batch, pushed>> => ReaderTypes'
    BY <1>a, <2>1 DEF ReaderTypes
  <2>5. UNCHANGED <<nacker, attempts, ignored, stale, rewound>> => NackerTypes'
    BY <1>a, <2>1 DEF NackerTypes
  <2>6. UNCHANGED <<pli, flow>> => OtherTypes'
    BY <2>1 DEF OtherTypes
  <2>7. UNCHANGED <<rec, fates>> => RecorderTypes'
    BY <1>a, <2>1 DEF RecorderTypes
  <2> QED BY <2>2, <2>3, <2>4, <2>5, <2>6, <2>7
<1>c. \A step : step \in {"reading", "log", "next", "notify", "push", "ending", "flow ended",
                         "nacker ended", "gone"}
                 /\ Goes(step) /\ UNCHANGED <<batch, pushed>> => ReaderTypes'
  BY <1>a DEF Goes, TypeOK, ReaderTypes
<1>1. CASE UNCHANGED vars
  <2>1. UNCHANGED <<stream, base, arrived, first, su, jb, rl, reader, batch, nacker, attempts,
                    ignored, stale, rewound, pli, flow, rec, fates, pushed>>
    BY <1>1 DEF vars, readVars, recVars, nackVars
  <2> QED BY <1>b, <2>1
<1>2. CASE \E i \in Ids : Receive(i)
  <2>1. PICK i \in Ids : Receive(i)
    BY <1>2
  <2>2. UNCHANGED <<rl, batch, recVars, nackVars, pli, flow>>
    BY <2>1 DEF Receive
  <2>3. arrived' \in SUBSET Ids /\ first' \in {0} \cup arrived'
    BY <2>1 DEF Receive, TypeOK
  <2>4. su' \in RL!Unwrappers /\ jb' \in JB!Buffers(Ids)
    <3>1. su \in RL!Unwrappers /\ jb \in JB!Buffers(Ids)
      BY DEF TypeOK
    <3>2. RL!Unwrap(su, Wire(i)).number \in Nat /\ RL!Unwrap(su, Wire(i)).unwrapper \in RL!Unwrappers
      BY <3>1, UnwrapType, IdsAreNumbers
    <3>3. su' = RL!Unwrap(su, Wire(i)).unwrapper /\ jb' = JB!Add(jb, RL!Unwrap(su, Wire(i)).number, i)
      BY <2>1 DEF Receive
    <3> QED BY <3>1, <3>2, <3>3, AddStep
  <2>5. reader' = [at |-> "log", id |-> i]
    BY <2>1 DEF Receive
  <2>6. SentTypes' /\ BufferTypes'
    BY <1>a, <2>2, <2>3, <2>4 DEF TypeOK, SentTypes, BufferTypes
  <2>7. ReaderTypes'
    BY <1>a, <2>2, <2>5 DEF TypeOK, ReaderTypes, recVars
  <2> QED BY <1>b, <2>2, <2>6, <2>7 DEF recVars, nackVars
<1>3. CASE LogPacket
  <2>1. reader.id \in {0} \cup Ids /\ rl \in RL!Logs
    BY DEF TypeOK
  <2>2. reader.id \in Int /\ base \in Int
    BY <2>1, IdsAreNumbers
  <2>3. Wire(reader.id) \in Wires
    BY <2>2, WireType DEF Wire
  <2>4. rl' \in RL!Logs
    BY <1>3, <2>1, <2>3, LogType DEF LogPacket
  <2>5. BufferTypes'
    BY <1>3, <1>a, <2>4 DEF LogPacket, TypeOK, BufferTypes
  <2> QED BY <1>3, <1>b, <1>c, <2>5 DEF LogPacket, recVars, nackVars
<1>4. CASE TakePackets
  <2>1. jb \in JB!Buffers(Ids)
    BY DEF TypeOK
  <2>2. batch' \in Seq(Ids) /\ jb' \in JB!Buffers(Ids)
    BY <1>4, <2>1, NextPacketsIs, NextPacketsStep DEF TakePackets
  <2>3. \E step \in {"reading", "notify", "push"} : reader' = [reader EXCEPT !.at = step]
    BY <1>4 DEF TakePackets, Goes
  <2>4. BufferTypes'
    BY <1>4, <1>a, <2>2 DEF TakePackets, TypeOK, BufferTypes
  <2>5. ReaderTypes'
    BY <1>4, <1>a, <2>2, <2>3 DEF TakePackets, TypeOK, ReaderTypes, recVars
  <2> QED BY <1>4, <1>b, <2>4, <2>5 DEF TakePackets, recVars, nackVars
<1>5. CASE TakeNothing
  BY <1>5, <1>b, <1>c DEF TakeNothing, readVars, recVars, nackVars
<1>6. CASE Notify
  <2>1. jb \in JB!Buffers(Ids) /\ rec \in Rec!Recorders(Ids)
    BY DEF TypeOK
  <2>2. jb.lastSkipped % SeqMod \in Wires
    BY <2>1, BufferFields, WireType
  <2>3. rec' \in Rec!Recorders(Ids)
    BY <1>6, <2>1, <2>2, NotifyType DEF Notify
  <2>4. jb' \in JB!Buffers(Ids)
    BY <1>6, <2>1 DEF Notify, JB!Buffers
  <2>5. BufferTypes' /\ RecorderTypes'
    BY <1>6, <1>a, <2>3, <2>4 DEF Notify, TypeOK, BufferTypes, RecorderTypes
  <2> QED BY <1>6, <1>b, <1>c, <2>5 DEF Notify, nackVars
<1>7. CASE Push
  <2>1. UNCHANGED <<su, jb, rl, arrived, first, nackVars, pli, flow>>
    BY <1>7 DEF Push
  <2>2. PICK fate \in Rec!Fates :
          /\ rec' = Rec!PushVideo(rec, Packet(Head(batch)), fate)
          /\ fates' = IF fate = "fine" THEN fates ELSE fates + 1
          /\ fate # "fine" => fates < MaxFates
    BY <1>7 DEF Push, Rec!Fates
  <2>3. batch \in Seq(Ids) /\ batch # <<>> /\ pushed \in Seq(Ids) /\ rec \in Rec!Recorders(Ids)
    BY <1>7 DEF Push, At, TypeOK, BatchAtHand
  <2>4. Head(batch) \in Ids /\ Tail(batch) \in Seq(Ids)
    BY <2>3
  <2>5. rec' \in Rec!Recorders(Ids)
    <3>1. IsPacket(Packet(Head(batch)), Ids)
      BY <2>4, IdsAreNumbers
    <3> QED BY <2>2, <2>3, <3>1, PushVideoType
  <2>6. fates' \in 0 .. MaxFates
    <3>1. fates \in 0 .. MaxFates /\ MaxFates \in Nat
      BY TrackAssumption DEF TypeOK
    <3> QED BY <2>2, <3>1
  <2>7. pushed' \in Seq(Ids) /\ batch' \in Seq(Ids)
    BY <1>7, <2>3, <2>4 DEF Push
  <2>8. \E step \in {"reading", "push"} : reader' = [reader EXCEPT !.at = step]
    BY <1>7 DEF Push, Goes
  <2>9. RecorderTypes' /\ ReaderTypes'
    BY <1>a, <2>5, <2>6, <2>7, <2>8 DEF TypeOK, RecorderTypes, ReaderTypes
  <2> QED BY <1>b, <2>1, <2>9 DEF nackVars
<1>8. CASE EndTrack
  BY <1>8, <1>b, <1>c DEF EndTrack, readVars, recVars, nackVars
<1>9. CASE EndFlow
  <2>1. OtherTypes'
    BY <1>9 DEF EndFlow, TypeOK, OtherTypes
  <2> QED BY <1>9, <1>b, <1>c, <2>1 DEF EndFlow, readVars, recVars, nackVars
<1>10. CASE EndNacker
  <2>1. NackerTypes'
    BY <1>10, <1>a DEF EndNacker, TypeOK, NackerTypes
  <2> QED BY <1>10, <1>b, <1>c, <2>1 DEF EndNacker, readVars, recVars, nackVars
<1>11. CASE EndPli
  <2>1. OtherTypes'
    BY <1>11 DEF EndPli, TypeOK, OtherTypes
  <2> QED BY <1>11, <1>b, <1>c, <2>1 DEF EndPli, readVars, recVars, nackVars
<1>12. CASE NackTick
  <2> DEFINE missing == RL!Missing(rl, SkipLast)
             due == {s \in missing : attempts[s] = MaxNacks}
  <2>1. UNCHANGED <<readVars, reader, recVars, ignored, stale, rewound, pli, flow>>
    BY <1>12 DEF NackTick
  <2>2. missing \in SUBSET Wires
    <3>1. rl \in RL!Logs
      BY DEF TypeOK
    <3>2. rl.lastConsecutive \in Int
      BY <3>1, LogFields DEF Wires
    <3> QED BY <3>2, MissingType
  <2>3. nacker' = [nacker EXCEPT !.at = IF due = {} THEN "select" ELSE "giving up", !.due = due]
    BY <1>12 DEF NackTick
  <2>4. attempts' = [s \in Wires |->
          IF s \notin missing THEN 0 ELSE IF attempts[s] <= MaxNacks THEN attempts[s] + 1
          ELSE attempts[s]]
    BY <1>12 DEF NackTick
  <2> HIDE DEF missing
  <2>5. due \in SUBSET Wires
    BY <2>2
  <2> HIDE DEF due
  <2>6. attempts' \in [Wires -> 0 .. MaxNacks + 1]
    <3>1. MaxNacks \in Nat /\ \A s \in Wires : attempts[s] \in 0 .. MaxNacks + 1
      BY TrackAssumption DEF TypeOK
    <3> QED BY <2>4, <3>1
  <2>7. NackerTypes'
    BY <1>a, <2>1, <2>3, <2>5, <2>6 DEF TypeOK, NackerTypes
  <2> QED BY <1>b, <2>1, <2>7 DEF readVars, recVars
<1>13. CASE GiveUp
  <2> DEFINE s == Oldest(nacker.due)
             rest == nacker.due \ {s}
  <2>1. UNCHANGED <<su, batch, arrived, first, reader, recVars, attempts, rewound, pli, flow>>
    BY <1>13 DEF GiveUp
  <2>2. /\ rl' = RL!Ignore(rl, s) /\ jb' = JB!SkipPacket(jb, s)
        /\ ignored' = ignored \cup {i \in Covered : Wire(i) = s}
        /\ stale' = (stale \/ RL!Minus(rl.end, s) >= LogSize)
        /\ \/ nacker' = [at |-> "set", due |-> rest, seq |-> s]
           \/ \E back \in {"select", "giving up"} :
                nacker' = [nacker EXCEPT !.at = back, !.due = rest]
    BY <1>13 DEF GiveUp
  <2>3. s \in Wires /\ rest \in SUBSET Wires
    BY <1>13, OldestIs DEF GiveUp, DueAtHand, TypeOK
  <2> HIDE DEF s, rest
  <2>4. rl' \in RL!Logs
    BY <2>2, <2>3, LogType DEF TypeOK
  <2>5. jb' \in JB!Buffers(Ids)
    <3>1. jb \in JB!Buffers(Ids) /\ s \in Nat
      BY <2>3, Sizes DEF TypeOK
    <3> QED BY <2>2, <3>1, SkipPacketIs
  <2>6. BufferTypes'
    BY <1>a, <2>1, <2>4, <2>5 DEF TypeOK, BufferTypes
  <2>7. nacker' \in [at : {"select", "giving up", "set", "gone"}, due : SUBSET Wires, seq : Wires]
    <3>1. nacker \in [at : {"select", "giving up", "set", "gone"}, due : SUBSET Wires, seq : Wires]
      BY DEF TypeOK
    <3>2. CASE nacker' = [at |-> "set", due |-> rest, seq |-> s]
      BY <2>3, <3>2
    <3>3. CASE \E back \in {"select", "giving up"} :
                 nacker' = [nacker EXCEPT !.at = back, !.due = rest]
      BY <2>3, <3>1, <3>3
    <3> QED BY <2>2, <3>2, <3>3
  <2>8. ignored' \in SUBSET Ids /\ stale' \in BOOLEAN
    BY <2>2 DEF TypeOK, Covered
  <2>9. NackerTypes'
    BY <1>a, <2>1, <2>7, <2>8 DEF TypeOK, NackerTypes
  <2> QED BY <1>b, <2>1, <2>6, <2>9 DEF recVars
<1>14. CASE SetStart
  <2>1. jb \in JB!Buffers(Ids) /\ nacker.seq \in Nat
    BY Sizes DEF TypeOK
  <2>2. jb' \in JB!Buffers(Ids)
    BY <1>14, <2>1, SetStartType DEF SetStart
  <2>3. BufferTypes'
    BY <1>14, <1>a, <2>2 DEF SetStart, TypeOK, BufferTypes
  <2>4. NackerTypes'
    BY <1>14, <1>a DEF SetStart, TypeOK, NackerTypes
  <2> QED BY <1>14, <1>b, <2>3, <2>4 DEF SetStart, recVars
<1>15. CASE CloseFlow
  <2>1. OtherTypes'
    BY <1>15 DEF CloseFlow, TypeOK, OtherTypes
  <2> QED BY <1>15, <1>b, <2>1 DEF CloseFlow, readVars, recVars, nackVars
<1>16. CASE Timeout
  <2>1. jb \in JB!Buffers(Ids)
    BY DEF TypeOK
  <2>2. jb' \in JB!Buffers(Ids)
    BY <1>16, <2>1 DEF Timeout, JB!Buffers
  <2>3. BufferTypes'
    BY <1>16, <1>a, <2>2 DEF Timeout, TypeOK, BufferTypes
  <2> QED BY <1>16, <1>b, <2>3 DEF Timeout, recVars, nackVars
<1>17. CASE StartAudio
  <2>1. rec \in Rec!Recorders(Ids)
    BY DEF TypeOK
  <2>2. rec' \in Rec!Recorders(Ids)
    BY <1>17, <2>1, RecorderCallType DEF StartAudio
  <2>3. RecorderTypes'
    BY <1>17, <1>a, <2>2 DEF StartAudio, TypeOK, RecorderTypes
  <2> QED BY <1>17, <1>b, <2>3 DEF StartAudio, readVars, nackVars
<1>18. CASE PushAudio
  <2>1. rec \in Rec!Recorders(Ids)
    BY DEF TypeOK
  <2>2. rec' \in Rec!Recorders(Ids)
    BY <1>18, <2>1, RecorderCallType DEF PushAudio
  <2>3. RecorderTypes'
    BY <1>18, <1>a, <2>2 DEF PushAudio, TypeOK, RecorderTypes
  <2> QED BY <1>18, <1>b, <2>3 DEF PushAudio, readVars, nackVars
<1>19. CASE CloseRecorder
  <2>1. rec \in Rec!Recorders(Ids)
    BY DEF TypeOK
  <2>2. rec' \in Rec!Recorders(Ids)
    BY <1>19, <2>1, RecorderCallType DEF CloseRecorder
  <2>3. RecorderTypes'
    BY <1>19, <1>a, <2>2 DEF CloseRecorder, TypeOK, RecorderTypes
  <2> QED BY <1>19, <1>b, <2>3 DEF CloseRecorder, readVars, nackVars
<1> QED
  BY <1>1, <1>2, <1>3, <1>4, <1>5, <1>6, <1>7, <1>8, <1>9, <1>10, <1>11, <1>12, <1>13, <1>14,
     <1>15, <1>16, <1>17, <1>18, <1>19, NextCases

LEMMA AtHandStep ==
  TypeOK /\ BatchAtHand /\ DueAtHand /\ [Next]_vars => BatchAtHand' /\ DueAtHand'
<1> SUFFICES ASSUME TypeOK, BatchAtHand, DueAtHand, [Next]_vars PROVE BatchAtHand' /\ DueAtHand'
  OBVIOUS
<1> DEFINE Steps == {"reading", "log", "next", "notify", "push", "ending", "flow ended",
                     "nacker ended", "gone"}
<1>1. /\ reader \in [at : Steps, id : {0} \cup Ids]
      /\ nacker \in [at : {"select", "giving up", "set", "gone"}, due : SUBSET Wires, seq : Wires]
  BY DEF TypeOK
<1>2. /\ \A step : Goes(step) => reader'.at = step
      /\ UNCHANGED <<reader, batch>> => BatchAtHand'
      /\ UNCHANGED nacker => DueAtHand'
  BY <1>1 DEF Goes, BatchAtHand, DueAtHand
<1>3. CASE UNCHANGED vars
  BY <1>2, <1>3 DEF vars, readVars, nackVars
<1>4. CASE \E i \in Ids : Receive(i)
  BY <1>2, <1>4 DEF Receive, At, BatchAtHand, nackVars
<1>5. CASE LogPacket
  BY <1>2, <1>5 DEF LogPacket, At, BatchAtHand, nackVars
<1>6. CASE TakePackets
  <2>1. reader'.at = IF batch' = <<>> THEN "reading"
                     ELSE IF JB!NextPackets(jb).skipped THEN "notify" ELSE "push"
    BY <1>2, <1>6 DEF TakePackets
  <2>2. UNCHANGED nacker
    BY <1>6 DEF TakePackets, nackVars
  <2> QED BY <1>2, <2>1, <2>2 DEF BatchAtHand
<1>7. CASE TakeNothing
  BY <1>2, <1>7 DEF TakeNothing, BatchAtHand, nackVars
<1>8. CASE Notify
  BY <1>2, <1>8 DEF Notify, At, BatchAtHand, nackVars
<1>9. CASE Push
  BY <1>2, <1>9 DEF Push, BatchAtHand, nackVars
<1>10. CASE EndTrack
  BY <1>2, <1>10 DEF EndTrack, BatchAtHand, nackVars
<1>11. CASE EndFlow
  BY <1>2, <1>11 DEF EndFlow, BatchAtHand, nackVars
<1>12. CASE EndNacker
  BY <1>1, <1>2, <1>12 DEF EndNacker, BatchAtHand, DueAtHand
<1>13. CASE EndPli
  BY <1>2, <1>13 DEF EndPli, BatchAtHand, nackVars
<1>14. CASE NackTick
  <2>1. UNCHANGED <<reader, batch>>
    BY <1>14 DEF NackTick, readVars
  <2>2. \E due : nacker' = [nacker EXCEPT !.at = IF due = {} THEN "select" ELSE "giving up",
                                          !.due = due]
    BY <1>14 DEF NackTick
  <2> QED BY <1>1, <1>2, <2>1, <2>2 DEF DueAtHand
<1>15. CASE GiveUp
  <2>1. UNCHANGED <<reader, batch>>
    BY <1>15 DEF GiveUp
  <2> DEFINE s == Oldest(nacker.due)
             rest == nacker.due \ {s}
  <2>2. \/ nacker' = [at |-> "set", due |-> rest, seq |-> s]
        \/ nacker' = [nacker EXCEPT !.at = IF rest = {} THEN "select" ELSE "giving up",
                                    !.due = rest]
    BY <1>15 DEF GiveUp
  <2> HIDE DEF s, rest
  <2>3. DueAtHand'
    <3>1. CASE nacker' = [at |-> "set", due |-> rest, seq |-> s]
      BY <3>1 DEF DueAtHand
    <3>2. CASE nacker' = [nacker EXCEPT !.at = IF rest = {} THEN "select" ELSE "giving up",
                                        !.due = rest]
      BY <1>1, <3>2 DEF DueAtHand
    <3> QED BY <2>2, <3>1, <3>2
  <2> QED BY <1>2, <2>1, <2>3
<1>16. CASE SetStart
  BY <1>1, <1>2, <1>16 DEF SetStart, DueAtHand
<1>17. CASE CloseFlow
  BY <1>2, <1>17 DEF CloseFlow, readVars, nackVars
<1>18. CASE Timeout \/ StartAudio \/ PushAudio \/ CloseRecorder
  BY <1>2, <1>18 DEF Timeout, StartAudio, PushAudio, CloseRecorder, readVars, nackVars
<1> QED
  BY <1>3, <1>4, <1>5, <1>6, <1>7, <1>8, <1>9, <1>10, <1>11, <1>12, <1>13, <1>14,
     <1>15, <1>16, <1>17, <1>18, NextCases

-----------------------------------------------------------------------------
(* Order *)

\* The number a packet is unwrapped to, while none is from before the first
\* one's round.
Number(i) == base + i - 1 - SeqMod * Round(first)
Numbers == [i \in Ids |-> Number(i)]

\* Before the first packet there is nothing anywhere.
NothingYet ==
  /\ arrived = {} <=> first = 0
  /\ arrived # {} => su.started
  /\ arrived = {} => /\ su = RL!NewUnwrapper /\ batch = <<>> /\ pushed = <<>>
                     /\ \A k \in JB!Slots : jb.slot[k] = NoPacket

\* The unwrapper counts on from the newest packet.
HighestIsNewest ==
  Anchored /\ arrived # {} =>
    \E n \in arrived :
      /\ \A j \in arrived : j <= n
      /\ su.highest = Wire(n) /\ su.wrapArounds = SeqMod * (Round(n) - Round(first))

SlotsAreTheWindow == Anchored => InWindow(jb, Numbers)

\* Only SetNextPacketsStart moves the start back.
StartInWindow == ~rewound => jb.nextStart > jb.end - Size

\* What the recorder got and what it gets next ascends, and is from before
\* what the jitter buffer releases next.
Line == pushed \o batch
Released ==
  Anchored /\ ~rewound =>
    /\ \A k \in DOMAIN Line : Number(Line[k]) < jb.nextStart
    /\ \A k, l \in DOMAIN Line : k < l => Line[k] < Line[l]

Inv ==
  /\ TypeOK /\ BatchAtHand /\ DueAtHand
  /\ NothingYet /\ HighestIsNewest /\ SlotsAreTheWindow /\ StartInWindow /\ Released

LEMMA RoundIs ==
  ASSUME TypeOK
  PROVE  \A i \in {0} \cup Ids :
           /\ Round(i) \in Int /\ Wire(i) \in Wires
           /\ base + i - 1 = SeqMod * Round(i) + Wire(i)
           /\ i \in Ids => base + i - 1 \in Nat /\ Round(i) \in Nat
<1> SUFFICES ASSUME NEW i \in {0} \cup Ids
             PROVE  /\ Round(i) \in Int /\ Wire(i) \in Wires
                    /\ base + i - 1 = SeqMod * Round(i) + Wire(i)
                    /\ i \in Ids => base + i - 1 \in Nat /\ Round(i) \in Nat
  OBVIOUS
<1> DEFINE x == base + i - 1
           q == x \div SeqMod
           r == x % SeqMod
<1>1. x \in Int /\ (i \in Ids => x \in Nat)
  BY IdsAreNumbers
<1>2. SeqMod \in Nat \ {0}
  BY Sizes
<1> HIDE DEF x
<1>3. q \in Int /\ r \in 0 .. SeqMod - 1 /\ x = SeqMod * q + r
  BY <1>1, <1>2, DivMod
<1> HIDE DEF q, r
<1>4. ASSUME x \in Nat PROVE q \in Nat
  <2>1. CASE q <= -1
    <3>1. SeqMod * q <= -SeqMod
      BY <1>2, <1>3, <2>1
    <3> QED BY <1>2, <1>3, <1>4, <3>1
  <2> QED BY <1>3, <2>1
<1> QED BY <1>1, <1>3, <1>4 DEF Round, Wire, Wires, x, q, r

LEMMA NumbersAre ==
  ASSUME TypeOK
  PROVE  /\ Numbers \in [Ids -> Int]
         /\ \A i \in Ids : Numbers[i] = Number(i) /\ Number(i) \in Int
         /\ \A i, j \in Ids : Number(i) < Number(j) => i < j
<1>1. first \in {0} \cup Ids
  BY DEF TypeOK
<1>2. Round(first) \in Int /\ SeqMod \in Int /\ base \in Int /\ Ids \in SUBSET Nat
  BY <1>1, RoundIs, IdsAreNumbers, Sizes
<1> DEFINE f == SeqMod * Round(first)
<1>3. f \in Int
  BY <1>2
<1>4. \A i \in Ids : Number(i) = base + i - 1 - f
  BY DEF Number
<1> HIDE DEF f
<1> QED BY <1>2, <1>3, <1>4 DEF Numbers

\* Only the reader's Receive touches what arrived, and the unwrapper.
LEMMA OnlyReceive ==
  ASSUME [Next]_vars
  PROVE  (\E i \in Ids : Receive(i)) \/ UNCHANGED <<arrived, first, su>>
<1>1. CASE UNCHANGED vars
  BY <1>1 DEF vars, readVars
<1>2. CASE Next
  BY <1>2, NextCases
  DEF LogPacket, TakePackets, TakeNothing, Notify, Push, EndTrack, EndFlow, EndNacker,
      EndPli, NackTick, GiveUp, SetStart, CloseFlow, Timeout, StartAudio, PushAudio, CloseRecorder,
      readVars
<1> QED BY <1>1, <1>2

\* The rest only take packets out of the jitter buffer and move its start on,
\* unless SetNextPacketsStart moves it back.
LEMMA BufferStep ==
  ASSUME TypeOK, [Next]_vars, ~\E i \in Ids : Receive(i)
  PROVE  /\ jb'.end = jb.end
         /\ \A k \in JB!Slots : jb'.slot[k] \in {jb.slot[k], NoPacket}
         /\ ~rewound' => ~rewound /\ jb'.nextStart >= jb.nextStart
<1>1. jb \in JB!Buffers(Ids)
  BY DEF TypeOK
<1>2. jb.nextStart \in Nat
  BY <1>1, BufferFields
<1>3. CASE UNCHANGED <<jb, rewound>>
  BY <1>2, <1>3
<1>4. CASE TakePackets
  <2>1. jb' = JB!NextPackets(jb).buffer /\ rewound' = rewound
    BY <1>4 DEF TakePackets, nackVars
  <2>2. jb'.end = jb.end /\ \A k \in JB!Slots : jb'.slot[k] \in {jb.slot[k], NoPacket}
    BY <1>1, <2>1, NextPacketsIs
  <2>3. jb'.nextStart >= jb.nextStart
    BY <1>1, <2>1, NextPacketsStep
  <2> QED BY <2>1, <2>2, <2>3
<1>5. CASE Notify
  <2>1. jb' = [jb EXCEPT !.lastSkipped = 0] /\ rewound' = rewound
    BY <1>5 DEF Notify, nackVars
  <2>2. jb'.end = jb.end /\ jb'.slot = jb.slot /\ jb'.nextStart = jb.nextStart
    BY <1>1, <2>1 DEF JB!Buffers
  <2> QED BY <1>2, <2>1, <2>2
<1>6. CASE GiveUp
  <2>1. jb' = JB!SkipPacket(jb, Oldest(nacker.due)) /\ rewound' = rewound
    BY <1>6 DEF GiveUp
  <2>2. jb'.end = jb.end /\ jb'.slot = jb.slot /\ jb'.nextStart = jb.nextStart
    BY <1>1, <2>1 DEF JB!SkipPacket, JB!Buffers
  <2> QED BY <1>2, <2>1, <2>2
<1>7. CASE SetStart
  <2>1. /\ jb' = JB!SetNextPacketsStart(jb, nacker.seq)
        /\ rewound' = (rewound \/ jb.nextStart > nacker.seq + 1)
    BY <1>7 DEF SetStart
  <2>2. nacker.seq \in Nat
    BY Sizes DEF TypeOK
  <2>3. /\ jb'.nextStart = nacker.seq + 1 /\ jb'.end = jb.end
        /\ \A k \in JB!Slots : jb'.slot[k] \in {jb.slot[k], NoPacket}
    BY <1>1, <2>1, <2>2, SetStartIs
  <2>4. ~rewound' => ~rewound /\ ~(jb.nextStart > nacker.seq + 1)
    BY <2>1, Zenon
  <2>5. ~(jb.nextStart > nacker.seq + 1) => jb'.nextStart >= jb.nextStart
    BY <1>2, <2>2, <2>3
  <2> QED BY <2>3, <2>4, <2>5
<1>8. CASE Timeout
  <2>1. jb' = [jb EXCEPT !.overdue = jb.waiting] /\ rewound' = rewound
    BY <1>8 DEF Timeout, nackVars
  <2>2. jb'.end = jb.end /\ jb'.slot = jb.slot /\ jb'.nextStart = jb.nextStart
    BY <1>1, <2>1 DEF JB!Buffers
  <2> QED BY <1>2, <2>1, <2>2
<1>9. \/ TakePackets \/ Notify \/ GiveUp \/ SetStart \/ Timeout \/ UNCHANGED <<jb, rewound>>
  <2>1. CASE UNCHANGED vars
    BY <2>1 DEF vars, readVars, nackVars
  <2>2. CASE Next
    BY <2>2, NextCases
    DEF LogPacket, TakeNothing, Push, EndTrack, EndFlow, EndNacker, EndPli, NackTick, CloseFlow,
        StartAudio, PushAudio, CloseRecorder, readVars, nackVars
  <2> QED BY <2>1, <2>2
<1> QED BY <1>3, <1>4, <1>5, <1>6, <1>7, <1>8, <1>9

\* A push takes the first of the batch to the recorder.
LEMMA LineStep ==
  ASSUME TypeOK, BatchAtHand, [Next]_vars, ~TakePackets
  PROVE  Line' = Line /\ (batch = <<>> => UNCHANGED <<batch, pushed>>)
<1>1. batch \in Seq(Ids) /\ pushed \in Seq(Ids)
  BY DEF TypeOK
<1>2. CASE UNCHANGED <<batch, pushed>>
  BY <1>2 DEF Line
<1>3. CASE Push
  <2>1. batch # <<>> /\ pushed' = Append(pushed, Head(batch)) /\ batch' = Tail(batch)
    BY <1>3 DEF Push, At, BatchAtHand
  <2> DEFINE h == Head(batch)
             t == Tail(batch)
  <2>2. batch = <<h>> \o t /\ h \in Ids /\ t \in Seq(Ids)
    BY <1>1, <2>1
  <2> HIDE DEF h, t
  <2>3. Append(pushed, h) \o t = pushed \o (<<h>> \o t)
    BY <1>1, <2>2
  <2>4. Line' = Line
    BY <2>1, <2>2, <2>3 DEF Line, h, t
  <2> QED BY <2>1, <2>4
<1>4. Push \/ UNCHANGED <<batch, pushed>>
  <2>1. CASE UNCHANGED vars
    BY <2>1 DEF vars, readVars, recVars
  <2>2. CASE Next
    BY <2>2, NextCases
    DEF Receive, LogPacket, TakeNothing, Notify, EndTrack, EndFlow, EndNacker, EndPli, NackTick,
        GiveUp, SetStart, CloseFlow, Timeout, StartAudio, PushAudio, CloseRecorder, readVars, recVars
  <2> QED BY <2>1, <2>2
<1> QED BY <1>2, <1>3, <1>4

LEMMA UnwrapStarts ==
  ASSUME NEW u \in RL!Unwrappers, NEW n
  PROVE  RL!Unwrap(u, n).unwrapper.started
<1> DEFINE wraps == u.wrapArounds + (IF u.wrapArounds - SeqMod + n <= 0 THEN SeqMod ELSE 0)
           high == RL!Max({u.highest, n})
<1>1. \/ RL!Unwrap(u, n).unwrapper = [u EXCEPT !.started = TRUE, !.highest = n]
      \/ /\ u.started
         /\ RL!Unwrap(u, n).unwrapper
              \in {[u EXCEPT !.wrapArounds = u.wrapArounds + SeqMod, !.highest = n],
                   [u EXCEPT !.wrapArounds = wraps], [u EXCEPT !.highest = high]}
  BY DEF RL!Unwrap
<1> HIDE DEF wraps, high
<1> QED BY <1>1 DEF RL!Unwrappers

LEMMA NothingYetStep == TypeOK /\ BatchAtHand /\ NothingYet /\ [Next]_vars => NothingYet'
<1> SUFFICES ASSUME TypeOK, BatchAtHand, NothingYet, [Next]_vars PROVE NothingYet'
  OBVIOUS
<1>1. CASE \E i \in Ids : Receive(i)
  <2>1. PICK i \in Ids : Receive(i)
    BY <1>1
  <2>2. su \in RL!Unwrappers /\ first \in {0} \cup Ids
    BY DEF TypeOK
  <2>3. arrived' # {} /\ first' # 0
    BY <2>1, IdsAreNumbers DEF Receive
  <2>4. su'.started
    <3>1. su' = RL!Unwrap(su, Wire(i)).unwrapper
      BY <2>1 DEF Receive
    <3> QED BY <2>2, <3>1, UnwrapStarts
  <2> QED BY <2>3, <2>4 DEF NothingYet
<1>2. CASE ~\E i \in Ids : Receive(i)
  <2>1. UNCHANGED <<arrived, first, su>>
    BY <1>2, OnlyReceive
  <2>2. ASSUME arrived = {} PROVE batch' = <<>> /\ pushed' = <<>>
    <3>1. batch = <<>> /\ pushed = <<>> /\ \A k \in JB!Slots : jb.slot[k] = NoPacket
      BY <2>2 DEF NothingYet
    <3>2. CASE TakePackets
      <4>1. jb \in JB!Buffers(Ids) /\ NoPacket \notin Ids
        BY IdsAreNumbers DEF TypeOK
      <4>2. PICK n \in Nat, m \in Nat :
              /\ JB!NextPackets(jb).packets = [k \in 1 .. m |-> jb.slot[(n + k - 1) % Size]]
              /\ \A k \in 1 .. m : jb.slot[(n + k - 1) % Size] \in Ids
        BY <4>1, NextPacketsIs
      <4>3. m = 0
        <5>1. ASSUME m # 0 PROVE FALSE
          <6>1. 1 \in 1 .. m /\ n + 1 - 1 \in Int
            BY <5>1
          <6>2. (n + 1 - 1) % Size \in JB!Slots
            BY <6>1, ModInSlots
          <6> QED BY <3>1, <4>1, <4>2, <6>1, <6>2
        <5> QED BY <5>1
      <4>4. JB!NextPackets(jb).packets = <<>>
        BY <4>2, <4>3
      <4> QED BY <3>1, <3>2, <4>4 DEF TakePackets, recVars
    <3>3. CASE ~TakePackets
      BY <3>1, <3>3, LineStep
    <3> QED BY <3>2, <3>3
  <2>3. ASSUME arrived = {} PROVE \A k \in JB!Slots : jb'.slot[k] = NoPacket
    BY <1>2, <2>3, BufferStep DEF NothingYet
  <2> QED BY <2>1, <2>2, <2>3 DEF NothingYet
<1> QED BY <1>1, <1>2

\* The first packet starts the unwrapper at its own number.
LEMMA FirstReceive ==
  ASSUME TypeOK, NothingYet, arrived = {}, NEW i \in Ids, Receive(i)
  PROVE  /\ arrived' = {i} /\ first' = i /\ Numbers' \in [Ids -> Int]
         /\ RL!Unwrap(su, Wire(i)).number = Numbers'[i]
         /\ su'.highest = Wire(i) /\ su'.wrapArounds = 0
<1>1. su = RL!NewUnwrapper /\ first = 0
  BY DEF NothingYet
<1>2. arrived' = {i} /\ first' = i /\ base' = base /\ Ids' = Ids
  BY <1>1 DEF Receive, Ids
<1>3. /\ RL!Unwrap(su, Wire(i)).number = Wire(i)
      /\ su' = [RL!NewUnwrapper EXCEPT !.started = TRUE, !.highest = Wire(i)]
  BY <1>1 DEF Receive, RL!Unwrap, RL!NewUnwrapper
<1> DEFINE f == SeqMod * Round(i)
<1>4. f \in Int /\ base \in Int /\ Ids \in SUBSET Int /\ base + i - 1 = f + Wire(i) /\ Wire(i) \in Int
  BY RoundIs, IdsAreNumbers, Sizes DEF Wires
<1>5. Numbers' = [j \in Ids |-> base + j - 1 - f]
  BY <1>2 DEF Numbers, Number, Round
<1> HIDE DEF f
<1>6. Numbers' \in [Ids -> Int] /\ Numbers'[i] = Wire(i)
  BY <1>4, <1>5
<1> QED BY <1>2, <1>3, <1>6 DEF RL!NewUnwrapper

\* Each later one is unwrapped to its number: it is less than half the wire
\* numbers from the newest.
LEMMA LaterReceive ==
  ASSUME TypeOK, NothingYet, HighestIsNewest, arrived # {}, NEW i \in Ids, Receive(i)
  PROVE  /\ first' = first /\ Numbers' = Numbers /\ (Anchored' => Anchored)
         /\ Anchored' => RL!Unwrap(su, Wire(i)).number = Numbers[i] /\ HighestIsNewest'
<1>1. first # 0 /\ su.started
  BY DEF NothingYet
<1>2. /\ first' = first /\ base' = base /\ Ids' = Ids /\ arrived' = arrived \cup {i}
      /\ su' = RL!Unwrap(su, Wire(i)).unwrapper
      /\ \A j \in arrived : j - i < LogSize
      /\ \E j \in arrived : i - j < RL!Half
  BY <1>1 DEF Receive, Ids
<1>3. /\ Numbers' = Numbers
      /\ \A j : Round(j)' = Round(j) /\ Wire(j)' = Wire(j)
      /\ Round(first)' = Round(first)
  BY <1>2 DEF Numbers, Number, Round, Wire
<1>4. Anchored' => Anchored /\ Round(i) >= Round(first)
  BY <1>2, <1>3 DEF Anchored
<1>5. ASSUME Anchored'
      PROVE  RL!Unwrap(su, Wire(i)).number = Numbers[i] /\ HighestIsNewest'
  <2>1. PICK n \in arrived :
          /\ \A j \in arrived : j <= n
          /\ su.highest = Wire(n) /\ su.wrapArounds = SeqMod * (Round(n) - Round(first))
    BY <1>4, <1>5 DEF HighestIsNewest
  <2> DEFINE x == base + i - 1
             y == base + n - 1
             f == Round(first)
             to == RL!Unwrap(su, Wire(i))
  <2>2. i \in Nat /\ n \in Nat /\ base \in Nat /\ arrived \in SUBSET Nat /\ n \in Ids /\ first \in Ids
    <3>1. arrived \in SUBSET Ids /\ first \in {0} \cup arrived
      BY DEF TypeOK
    <3> QED BY <1>1, <3>1, IdsAreNumbers
  <2>3. x \in Nat /\ y \in Nat /\ f \in Nat
    BY <2>2, RoundIs
  <2>4. x - y < RL!Half /\ y - x < RL!Half
    <3>1. n - i < LogSize
      BY <1>2
    <3>2. PICK j \in arrived : i - j < RL!Half
      BY <1>2
    <3>3. j <= n /\ j \in Nat
      BY <2>1, <2>2
    <3> QED BY <2>2, <3>1, <3>2, <3>3, Sizes
  <2>5. su.highest = y % SeqMod /\ su.wrapArounds = SeqMod * ((y \div SeqMod) - f)
    BY <2>1 DEF Wire, Round
  <2>6. x \div SeqMod >= f
    BY <1>4, <1>5 DEF Round
  <2>7. su \in RL!Unwrappers
    BY DEF TypeOK
  <2>8. to = RL!Unwrap(su, x % SeqMod) /\ su' = to.unwrapper
    BY <1>2 DEF Wire
  <2> HIDE DEF to
  <2>9. /\ to.number = x - SeqMod * f
        /\ to.unwrapper.highest = (IF x >= y THEN x ELSE y) % SeqMod
        /\ to.unwrapper.wrapArounds = SeqMod * (((IF x >= y THEN x ELSE y) \div SeqMod) - f)
    <3> HIDE DEF x, y, f
    <3> QED BY <1>1, <2>3, <2>4, <2>5, <2>6, <2>7, <2>8, UnwrapIs
  <2>10. to.number = Numbers[i]
    <3>1. Numbers[i] = Number(i)
      BY NumbersAre
    <3> DEFINE p == SeqMod * f
    <3>2. p \in Int
      BY <2>3, Sizes
    <3>3. Number(i) = base + i - 1 - p
      BY DEF Number
    <3> HIDE DEF p
    <3>4. Number(i) = x - p
      BY <2>2, <3>2, <3>3
    <3> QED BY <2>9, <3>1, <3>4 DEF p
  <2> DEFINE m == IF i >= n THEN i ELSE n
  <2>11. m \in arrived' /\ \A j \in arrived' : j <= m
    <3>1. \A j \in arrived : j \in Nat /\ j <= n
      BY <2>1, <2>2
    <3>2. CASE i >= n
      BY <1>2, <2>2, <3>1, <3>2
    <3>3. CASE ~(i >= n)
      BY <1>2, <2>2, <3>1, <3>3
    <3> QED BY <3>2, <3>3
  <2>12. (IF x >= y THEN x ELSE y) = base + m - 1
    BY <2>2
  <2> HIDE DEF m, x, y
  <2>13. su'.highest = Wire(m) /\ su'.wrapArounds = SeqMod * (Round(m) - Round(first))
    BY <2>8, <2>9, <2>12 DEF Wire, Round
  <2>14. HighestIsNewest'
    BY <1>2, <1>3, <2>11, <2>13 DEF HighestIsNewest
  <2> QED BY <2>10, <2>14 DEF to
<1> QED BY <1>2, <1>3, <1>4, <1>5

LEMMA HighestStep ==
  TypeOK /\ NothingYet /\ HighestIsNewest /\ [Next]_vars => HighestIsNewest'
<1> SUFFICES ASSUME TypeOK, NothingYet, HighestIsNewest, [Next]_vars PROVE HighestIsNewest'
  OBVIOUS
<1>1. ASSUME NEW i \in Ids, Receive(i), arrived = {} PROVE HighestIsNewest'
  <2>1. arrived' = {i} /\ first' = i /\ su'.highest = Wire(i) /\ su'.wrapArounds = 0
    BY <1>1, FirstReceive
  <2>2. Wire(i)' = Wire(i) /\ Round(i)' = Round(i) /\ Round(first)' = Round(i)
    BY <2>1, SameStream DEF Wire, Round
  <2>3. Round(i) \in Int /\ SeqMod \in Int /\ i <= i
    BY RoundIs, Sizes, IdsAreNumbers
  <2>4. SeqMod * (Round(i) - Round(i)) = 0
    BY <2>3
  <2> QED BY <2>1, <2>2, <2>3, <2>4 DEF HighestIsNewest
<1>2. ASSUME NEW i \in Ids, Receive(i), arrived # {} PROVE HighestIsNewest'
  <2>1. CASE Anchored'
    BY <1>2, <2>1, LaterReceive
  <2>2. CASE ~Anchored'
    BY <2>2 DEF HighestIsNewest
  <2> QED BY <2>1, <2>2
<1>3. CASE ~\E i \in Ids : Receive(i)
  BY <1>3, OnlyReceive, SameStream DEF HighestIsNewest, Anchored, Wire, Round
<1> QED BY <1>1, <1>2, <1>3

LEMMA WindowStep ==
  TypeOK /\ NothingYet /\ HighestIsNewest /\ SlotsAreTheWindow /\ [Next]_vars
    => SlotsAreTheWindow'
<1> SUFFICES ASSUME TypeOK, NothingYet, HighestIsNewest, SlotsAreTheWindow, [Next]_vars, Anchored'
             PROVE  InWindow(jb', Numbers')
  BY DEF SlotsAreTheWindow
<1>1. jb \in JB!Buffers(Ids) /\ NoPacket \notin Ids /\ Numbers \in [Ids -> Int] /\ su \in RL!Unwrappers
  BY IdsAreNumbers, NumbersAre DEF TypeOK
<1>2. ASSUME NEW i \in Ids, Receive(i) PROVE InWindow(jb', Numbers')
  <2> DEFINE s == RL!Unwrap(su, Wire(i)).number
  <2>1. s \in Nat
    BY <1>1, IdsAreNumbers, UnwrapType
  <2>2. jb' = JB!Add(jb, s, i)
    BY <1>2 DEF Receive
  <2>3. Numbers' \in [Ids -> Int] /\ Numbers'[i] = s /\ InWindow(jb, Numbers')
    <3>1. CASE arrived = {}
      <4>1. \A k \in JB!Slots : jb.slot[k] = NoPacket
        BY <3>1 DEF NothingYet
      <4> QED BY <1>2, <3>1, <4>1, FirstReceive DEF InWindow
    <3>2. CASE arrived # {}
      BY <1>1, <1>2, <3>2, LaterReceive DEF SlotsAreTheWindow
    <3> QED BY <3>1, <3>2
  <2> HIDE DEF s
  <2> DEFINE num == Numbers'
  <2>4. num \in [Ids -> Int] /\ num[i] = s /\ InWindow(jb, num)
    BY <2>3
  <2> HIDE DEF num
  <2>5. InWindow(JB!Add(jb, s, i), num)
    BY <1>1, <2>1, <2>4, AddKeepsWindow
  <2> QED BY <2>2, <2>5 DEF num
<1>3. CASE ~\E i \in Ids : Receive(i)
  <2>1. Numbers' = Numbers /\ Anchored
    BY <1>3, OnlyReceive, SameStream DEF Numbers, Number, Round, Anchored
  <2>2. jb'.end = jb.end /\ \A k \in JB!Slots : jb'.slot[k] \in {jb.slot[k], NoPacket}
    BY <1>3, BufferStep
  <2>3. InWindow(jb, Numbers)
    BY <2>1 DEF SlotsAreTheWindow
  <2>4. InWindow(jb', Numbers)
    BY <2>2, <2>3 DEF InWindow
  <2> QED BY <2>1, <2>4
<1> QED BY <1>2, <1>3

\* A packet received only slides the buffer's window on.
LEMMA ReceiveMovesOn ==
  ASSUME TypeOK, NEW i \in Ids, Receive(i)
  PROVE  /\ rewound' = rewound /\ jb'.nextStart >= jb.nextStart
         /\ jb.nextStart > jb.end - Size => jb'.nextStart > jb'.end - Size
<1>1. jb \in JB!Buffers(Ids) /\ su \in RL!Unwrappers
  BY DEF TypeOK
<1>2. RL!Unwrap(su, Wire(i)).number \in Nat
  BY <1>1, IdsAreNumbers, UnwrapType
<1>3. jb' = JB!Add(jb, RL!Unwrap(su, Wire(i)).number, i) /\ rewound' = rewound
  BY DEF Receive, nackVars
<1> QED BY <1>1, <1>2, <1>3, AddStep

LEMMA StartStep == TypeOK /\ TypeOK' /\ StartInWindow /\ [Next]_vars => StartInWindow'
<1> SUFFICES ASSUME TypeOK, TypeOK', StartInWindow, [Next]_vars, ~rewound'
             PROVE  jb'.nextStart > jb'.end - Size
  BY DEF StartInWindow
<1>1. CASE \E i \in Ids : Receive(i)
  BY <1>1, ReceiveMovesOn DEF StartInWindow
<1>2. CASE ~\E i \in Ids : Receive(i)
  <2>1. jb'.end = jb.end /\ jb'.nextStart >= jb.nextStart /\ jb.nextStart > jb.end - Size
    BY <1>2, BufferStep DEF StartInWindow
  <2>2. jb.nextStart \in Int /\ jb.end \in Int /\ Size \in Int
    <3>1. jb \in JB!Buffers(Ids)
      BY DEF TypeOK
    <3> QED BY <3>1, BufferFields, Sizes
  <2>3. jb'.nextStart \in Int
    <3>1. jb' \in JB!Buffers(Ids')
      BY DEF TypeOK
    <3> QED BY <3>1, BufferFields
  <2> QED BY <2>1, <2>2, <2>3
<1> QED BY <1>1, <1>2

\* What is in line stays so while it and its numbers do, and the buffer moves on.
LEMMA LineStaysReleased ==
  ASSUME NEW line \in Seq(Ids), NEW num \in [Ids -> Int], NEW a \in Int, NEW b \in Int, a <= b,
         \A k \in DOMAIN line : num[line[k]] < a
  PROVE  \A k \in DOMAIN line : num[line[k]] < b
BY DOMAIN line = 1 .. Len(line)

\* Packets released from the start on follow those that were in line.
LEMMA ReleasedJoin ==
  ASSUME NEW line \in Seq(Ids), NEW out \in Seq(Ids), NEW num \in [Ids -> Int],
         NEW a \in Int, NEW b \in Int, a <= b,
         \A i, j \in Ids : num[i] < num[j] => i < j,
         \A k \in DOMAIN line : num[line[k]] < a,
         \A k, l \in DOMAIN line : k < l => line[k] < line[l],
         \A k \in DOMAIN out : a <= num[out[k]] /\ num[out[k]] < b,
         \A k, l \in DOMAIN out : k < l => num[out[k]] < num[out[l]]
  PROVE  /\ \A k \in DOMAIN (line \o out) : num[(line \o out)[k]] < b
         /\ \A k, l \in DOMAIN (line \o out) : k < l => (line \o out)[k] < (line \o out)[l]
<1> DEFINE all == line \o out
           n == Len(line)
           m == Len(out)
<1>1. /\ n \in Nat /\ m \in Nat /\ DOMAIN line = 1 .. n /\ DOMAIN out = 1 .. m
      /\ DOMAIN all = 1 .. n + m
      /\ \A k \in 1 .. n : all[k] = line[k] /\ line[k] \in Ids
      /\ \A k \in n + 1 .. n + m : all[k] = out[k - n] /\ out[k - n] \in Ids /\ k - n \in 1 .. m
  OBVIOUS
<1> HIDE DEF all, n, m
<1>a. ASSUME NEW k \in 1 .. n
      PROVE  all[k] \in Ids /\ num[all[k]] \in Int /\ num[all[k]] < a
  <2>1. k \in DOMAIN line /\ all[k] = line[k] /\ line[k] \in Ids
    BY <1>1
  <2>2. num[line[k]] < a
    BY <2>1
  <2> QED BY <2>1, <2>2
<1>b. ASSUME NEW k \in n + 1 .. n + m
      PROVE  /\ k - n \in 1 .. m /\ all[k] = out[k - n]
             /\ all[k] \in Ids /\ num[all[k]] \in Int /\ a <= num[all[k]] /\ num[all[k]] < b
  <2>1. k - n \in DOMAIN out /\ all[k] = out[k - n] /\ out[k - n] \in Ids
    BY <1>1
  <2>2. a <= num[out[k - n]] /\ num[out[k - n]] < b
    BY <2>1
  <2> QED BY <1>1, <2>1, <2>2
<1>2. ASSUME NEW k \in 1 .. n + m PROVE num[all[k]] < b
  <2>1. CASE k <= n
    <3>1. k \in 1 .. n
      BY <1>1, <2>1
    <3> QED BY <1>a, <3>1
  <2>2. CASE k > n
    <3>1. k \in n + 1 .. n + m
      BY <1>1, <2>2
    <3> QED BY <1>b, <3>1
  <2> QED BY <1>1, <2>1, <2>2
<1>3. ASSUME NEW k \in 1 .. n + m, NEW l \in 1 .. n + m, k < l PROVE all[k] < all[l]
  <2>1. CASE l <= n
    <3>1. k \in 1 .. n /\ l \in 1 .. n
      BY <1>1, <1>3, <2>1
    <3> QED BY <1>1, <1>3, <3>1
  <2>2. CASE k <= n /\ l > n
    <3>1. k \in 1 .. n /\ l \in n + 1 .. n + m
      BY <1>1, <2>2
    <3>2. /\ num[all[k]] < a /\ num[all[k]] \in Int /\ all[k] \in Ids
          /\ a <= num[all[l]] /\ num[all[l]] \in Int /\ all[l] \in Ids
      BY <1>a, <1>b, <3>1
    <3>3. num[all[k]] < num[all[l]]
      BY <3>2
    <3> QED BY <3>2, <3>3
  <2>3. CASE k > n
    <3>1. k \in n + 1 .. n + m /\ l \in n + 1 .. n + m /\ k - n < l - n
      BY <1>1, <1>3, <2>3
    <3>2. /\ k - n \in DOMAIN out /\ all[k] = out[k - n] /\ all[k] \in Ids
          /\ l - n \in DOMAIN out /\ all[l] = out[l - n] /\ all[l] \in Ids
      BY <1>1, <1>b, <3>1
    <3>3. num[out[k - n]] < num[out[l - n]]
      BY <3>1, <3>2
    <3> QED BY <3>2, <3>3
  <2> QED BY <1>1, <2>1, <2>2, <2>3
<1> QED BY <1>1, <1>2, <1>3 DEF all

LEMMA ReleasedStep ==
  TypeOK /\ TypeOK' /\ BatchAtHand /\ NothingYet /\ HighestIsNewest /\ SlotsAreTheWindow
    /\ StartInWindow /\ Released /\ [Next]_vars => Released'
<1> SUFFICES ASSUME TypeOK, TypeOK', BatchAtHand, NothingYet, HighestIsNewest, SlotsAreTheWindow,
                    StartInWindow, Released, [Next]_vars
             PROVE  Released'
  OBVIOUS
<1>1. /\ Line \in Seq(Ids) /\ batch \in Seq(Ids) /\ pushed \in Seq(Ids)
      /\ jb \in JB!Buffers(Ids) /\ jb' \in JB!Buffers(Ids')
  <2>1. /\ batch \in Seq(Ids) /\ pushed \in Seq(Ids)
        /\ jb \in JB!Buffers(Ids) /\ jb' \in JB!Buffers(Ids')
    BY DEF TypeOK
  <2>2. Line \in Seq(Ids)
    BY <2>1 DEF Line
  <2> QED BY <2>1, <2>2
<1>0. \A k \in DOMAIN Line' : Number(Line[k])' = Numbers'[Line'[k]]
  <2>1. batch' \in Seq(Ids') /\ pushed' \in Seq(Ids')
    BY DEF TypeOK
  <2>2. Line' \in Seq(Ids')
    BY <2>1 DEF Line
  <2> QED BY <2>2 DEF Numbers, Number, Round
<1> SUFFICES ASSUME Anchored', ~rewound'
             PROVE  /\ \A k \in DOMAIN Line' : Numbers'[Line'[k]] < jb'.nextStart
                    /\ \A k, l \in DOMAIN Line' : k < l => Line'[k] < Line'[l]
  BY <1>0 DEF Released
<1>2. /\ jb.nextStart \in Int /\ jb'.nextStart \in Int
      /\ Numbers \in [Ids -> Int] /\ NoPacket \notin Ids
      /\ \A i, j \in Ids : Numbers[i] < Numbers[j] => i < j
  BY <1>1, BufferFields, NumbersAre, IdsAreNumbers
<1>3. Anchored /\ ~rewound =>
        /\ \A k \in DOMAIN Line : Numbers[Line[k]] < jb.nextStart
        /\ \A k, l \in DOMAIN Line : k < l => Line[k] < Line[l]
  BY <1>1, NumbersAre DEF Released
<1>4. CASE \E i \in Ids : Receive(i) /\ arrived = {}
  <2>1. ~TakePackets
    BY <1>4 DEF Receive, TakePackets, At
  <2>2. Line' = <<>>
    BY <1>4, <2>1, LineStep DEF NothingYet, Line
  <2> QED BY <2>2
<1>5. CASE /\ ~TakePackets
           /\ ~\E i \in Ids : Receive(i) /\ arrived = {}
  <2>1. Line' = Line
    BY <1>5, LineStep
  <2>2. /\ Numbers' = Numbers /\ Anchored /\ ~rewound
        /\ jb.nextStart <= jb'.nextStart
    <3>1. CASE \E i \in Ids : Receive(i) /\ arrived # {}
      BY <1>2, <3>1, LaterReceive, ReceiveMovesOn
    <3>2. CASE ~\E i \in Ids : Receive(i)
      <4>1. UNCHANGED <<arrived, first>>
        BY <3>2, OnlyReceive
      <4>2. Numbers' = Numbers /\ Anchored
        BY <4>1, SameStream DEF Numbers, Number, Round, Anchored
      <4> QED BY <1>2, <3>2, <4>2, BufferStep
    <3> QED BY <1>5, <3>1, <3>2
  <2> DEFINE a == jb.nextStart
             b == jb'.nextStart
             line == Line
             num == Numbers
  <2>3. /\ line \in Seq(Ids) /\ num \in [Ids -> Int] /\ a \in Int /\ b \in Int /\ a <= b
        /\ \A k \in DOMAIN line : num[line[k]] < a
    BY <1>1, <1>2, <1>3, <2>2
  <2> HIDE DEF a, b, line, num
  <2>4. \A k \in DOMAIN line : num[line[k]] < b
    BY <2>3, LineStaysReleased
  <2> QED BY <1>3, <2>1, <2>2, <2>4 DEF b, line, num
<1>6. CASE TakePackets
  <2>1. ~\E i \in Ids : Receive(i)
    BY <1>6 DEF Receive, TakePackets, At
  <2>2. UNCHANGED <<arrived, first>>
    BY <2>1, OnlyReceive
  <2>3. Numbers' = Numbers /\ Anchored
    BY <2>2, SameStream DEF Numbers, Number, Round, Anchored
  <2>4. ~rewound /\ jb.nextStart <= jb'.nextStart
    BY <1>2, <2>1, BufferStep
  <2> DEFINE out == JB!NextPackets(jb).packets
             a == jb.nextStart
             b == jb'.nextStart
             line == Line
             num == Numbers
  <2>5. jb' = JB!NextPackets(jb).buffer /\ batch' = out /\ pushed' = pushed /\ batch = <<>>
    BY <1>6 DEF TakePackets, recVars, BatchAtHand, At
  <2>6. Line = pushed /\ Line' = line \o out
    <3>1. Line = pushed
      BY <1>1, <2>5 DEF Line
    <3> QED BY <2>5, <3>1 DEF Line
  <2>7. /\ \A k \in DOMAIN out : a <= num[out[k]] /\ num[out[k]] < b
        /\ \A k, l \in DOMAIN out : k < l => num[out[k]] < num[out[l]]
    <3>1. InWindow(jb, Numbers) /\ jb.nextStart > jb.end - Size
      BY <2>3, <2>4 DEF SlotsAreTheWindow, StartInWindow
    <3> QED BY <1>1, <1>2, <2>5, <3>1, NextPacketsInOrder
  <2>8. out \in Seq(Ids)
    BY <1>1, NextPacketsStep
  <2>9. /\ line \in Seq(Ids) /\ num \in [Ids -> Int] /\ a \in Int /\ b \in Int /\ a <= b
        /\ \A i, j \in Ids : num[i] < num[j] => i < j
        /\ \A k \in DOMAIN line : num[line[k]] < a
        /\ \A k, l \in DOMAIN line : k < l => line[k] < line[l]
    BY <1>1, <1>2, <1>3, <2>3, <2>4
  <2> HIDE DEF a, b, line, num, out
  <2>10. /\ \A k \in DOMAIN (line \o out) : num[(line \o out)[k]] < b
         /\ \A k, l \in DOMAIN (line \o out) : k < l => (line \o out)[k] < (line \o out)[l]
    BY <2>7, <2>8, <2>9, ReleasedJoin
  <2> QED BY <2>3, <2>6, <2>10 DEF b, num
<1> QED BY <1>4, <1>5, <1>6

LEMMA InvInit == Init => Inv
<1> SUFFICES ASSUME Init PROVE Inv
  OBVIOUS
<1>1. TypeOK
  BY TypeInit
<1>2. BatchAtHand /\ DueAtHand /\ NothingYet /\ HighestIsNewest
  BY DEF Init, BatchAtHand, DueAtHand, NothingYet, HighestIsNewest, JB!NewBuffer
<1>3. \A k \in JB!Slots : jb.slot[k] = NoPacket
  BY DEF Init, JB!NewBuffer
<1>4. SlotsAreTheWindow
  BY <1>3 DEF SlotsAreTheWindow, InWindow
<1>5. StartInWindow
  BY Sizes DEF Init, JB!NewBuffer, StartInWindow
<1>6. Released
  BY DEF Init, Released, Line
<1> QED BY <1>1, <1>2, <1>4, <1>5, <1>6 DEF Inv

LEMMA InvStep == Inv /\ [Next]_vars => Inv'
<1> SUFFICES ASSUME Inv, [Next]_vars PROVE Inv'
  OBVIOUS
<1>1. /\ TypeOK /\ BatchAtHand /\ DueAtHand
      /\ NothingYet /\ HighestIsNewest /\ SlotsAreTheWindow /\ StartInWindow /\ Released
  BY DEF Inv
<1>2. TypeOK' /\ BatchAtHand' /\ DueAtHand'
  BY <1>1, TypeStep, AtHandStep
<1>3. NothingYet' /\ HighestIsNewest' /\ SlotsAreTheWindow' /\ StartInWindow'
  BY <1>1, <1>2, NothingYetStep, HighestStep, WindowStep, StartStep
<1>4. Released'
  BY <1>1, <1>2, ReleasedStep
<1> QED BY <1>2, <1>3, <1>4 DEF Inv

LEMMA TrackInvariant == Spec => []Inv
BY InvInit, InvStep, PTL DEF Spec

-----------------------------------------------------------------------------
(* The sampler *)

Vp8(i) == stream[i].payload = "vp8"

\* The frame in progress, of packets up to L. A frame that has no packet yet
\* waits for a key frame.
FrameAtHand(r, L) ==
  /\ r.currentFrame # <<>> =>
       LET h == Head(r.currentFrame) IN
       /\ r.currentFrameInfo # NoInfo
       /\ h <= L /\ Vp8(h)
       /\ r.hasKeyFrame => r.currentFrameInfo.pic = stream[h].pic % PicMod
  /\ r.currentFrame = <<>> /\ r.currentFrameInfo # NoInfo => ~r.hasKeyFrame

\* The sampler completed picture n last, written or not. With no key frame to
\* wait for, it wrote that one or began a later one since.
LastWritten(r) == stream[Head(r.file[Len(r.file)])]
CameTo(r, L, n) ==
  /\ r.lastPictureID = n % PicMod /\ LastWritten(r).pic <= n
  /\ \A i \in Ids : L < i /\ Vp8(i) => n < stream[i].pic
  /\ r.hasKeyFrame =>
       n = LastWritten(r).pic \/ \E i \in Ids : i <= L /\ Vp8(i) /\ n < stream[i].pic
  /\ r.currentFrame # <<>> =>
       /\ n < stream[Head(r.currentFrame)].pic
       /\ r.hasKeyFrame => Follows(stream[Head(r.currentFrame)], LastWritten(r))

FileFollows(file) ==
  \A k \in 2 .. Len(file) : Follows(stream[Head(file[k])], stream[Head(file[k - 1])])

\* What the sampler is after the packets up to L, in order.
Sampled(r, L) ==
  /\ FrameAtHand(r, L)
  /\ r.file # <<>> => r.file[Len(r.file)] # <<>> /\ \E n \in Nat : CameTo(r, L, n)
  /\ FileFollows(r.file)

LEMMA StreamIs ==
  ASSUME TypeOK
  PROVE  /\ Ids \in SUBSET Nat
         /\ \A i \in Ids : stream[i] \in Descriptors /\ stream[i].pic \in Nat
         /\ \A i \in Ids : Vp8(i) /\ stream[i].key => IsFirst(stream[i])
         /\ \A i, j \in Ids : Vp8(i) /\ Vp8(j) /\ i < j =>
              /\ stream[i].pic <= stream[j].pic
              /\ stream[i].marker \/ IsFirst(stream[j]) => stream[i].pic < stream[j].pic
<1>1. stream \in Seq(Descriptors) /\ InSequence(stream)
  BY TrackAssumption DEF TypeOK
<1>2. DOMAIN stream = Ids
  BY <1>1 DEF Ids
<1>3. Ids \in SUBSET Nat
  BY IdsAreNumbers
<1>4. \A i \in Ids : stream[i] \in Descriptors
  BY <1>1, <1>2
<1>5. \A i \in Ids : stream[i].pic \in Nat
  BY <1>4 DEF Descriptors
<1> QED BY <1>1, <1>2, <1>3, <1>4, <1>5 DEF InSequence, Vp8

\* A step that begins, ends and writes nothing: it keeps the frame or drops it,
\* and may begin to wait for a key frame.
Shrinks(r, q) ==
  /\ q.file = r.file /\ q.lastPictureID = r.lastPictureID
  /\ q.hasKeyFrame => r.hasKeyFrame
  /\ \/ q.currentFrame = <<>> /\ (q.currentFrameInfo = NoInfo \/ ~q.hasKeyFrame)
     \/ q.currentFrame = r.currentFrame /\ q.currentFrameInfo = r.currentFrameInfo

LEMMA ShrinkIsSampled ==
  ASSUME NEW r, NEW q, NEW L, Sampled(r, L), Shrinks(r, q)
  PROVE  Sampled(q, L)
<1>1. FrameAtHand(q, L)
  BY DEF Sampled, Shrinks, FrameAtHand
<1>2. ASSUME NEW n, r.file # <<>>, CameTo(r, L, n) PROVE CameTo(q, L, n)
  BY <1>2 DEF Shrinks, CameTo, LastWritten
<1> QED BY <1>1, <1>2 DEF Sampled, Shrinks

LEMMA LaterIsSampled ==
  ASSUME TypeOK, NEW r \in Rec!Recorders(Ids), NEW L \in Nat, NEW M \in Nat, L <= M, Sampled(r, L)
  PROVE  Sampled(r, M)
<1>1. Ids \in SUBSET Nat
  BY StreamIs
<1>2. r.currentFrame # <<>> => Head(r.currentFrame) \in Ids
  BY RecorderFields
<1>3. FrameAtHand(r, M)
  <2>1. FrameAtHand(r, L)
    BY DEF Sampled
  <2> DEFINE h == Head(r.currentFrame)
  <2>2. ASSUME r.currentFrame # <<>> PROVE h <= M
    <3>1. h \in Nat /\ h <= L
      BY <1>1, <1>2, <2>1, <2>2 DEF FrameAtHand
    <3> HIDE DEF h
    <3> QED BY <3>1
  <2> QED BY <2>1, <2>2 DEF FrameAtHand
<1>4. ASSUME NEW n \in Nat, CameTo(r, L, n) PROVE CameTo(r, M, n)
  BY <1>1, <1>4 DEF CameTo
<1> QED BY <1>3, <1>4 DEF Sampled

LEMMA DropShrinks ==
  ASSUME NEW ids, NEW r \in Rec!Recorders(ids)
  PROVE  /\ Shrinks(r, Rec!DropFrame(r)) /\ Rec!DropFrame(r).currentFrame = <<>>
         /\ Shrinks(r, Rec!AwaitKeyFrame(r)) /\ Rec!AwaitKeyFrame(r).currentFrame = <<>>
         /\ ~Rec!AwaitKeyFrame(r).hasKeyFrame
BY DEF Shrinks, Rec!DropFrame, Rec!AwaitKeyFrame, Rec!Recorders

LEMMA CallsShrink ==
  ASSUME NEW ids, NEW r \in Rec!Recorders(ids)
  PROVE  /\ \A written \in BOOLEAN : Shrinks(r, Rec!WriteAudio(r, written))
         /\ Shrinks(r, Rec!Close(r)) /\ Shrinks(r, [r EXCEPT !.hasAudio = TRUE])
         /\ Shrinks(r, [r EXCEPT !.hasKeyFrame = FALSE])
BY DEF Shrinks, Rec!WriteAudio, Rec!Close, Rec!Recorders

LEMMA NotifyShrinks ==
  ASSUME NEW ids, NEW r \in Rec!Recorders(ids), NEW s \in Wires
  PROVE  Shrinks(r, Rec!NotifySkippedPacket(r, s))
<1> DEFINE told == [r EXCEPT !.lastSkippedSeq = s, !.skipSignaled = TRUE]
<1>1. told \in Rec!Recorders(ids) /\ Shrinks(r, told)
  BY DEF Rec!Recorders, Wires, Shrinks
<1>2. \A q : Shrinks(told, q) => Shrinks(r, q)
  BY DEF Shrinks, Rec!Recorders
<1> HIDE DEF told
<1>3. Rec!NotifySkippedPacket(r, s) \in {told, Rec!AwaitKeyFrame(told)}
  BY DEF Rec!NotifySkippedPacket, told
<1> QED BY <1>1, <1>2, <1>3, DropShrinks

LEMMA AtGapShrinks ==
  ASSUME NEW ids, NEW r \in Rec!Recorders(ids), NEW p
  PROVE  Shrinks(r, Rec!AtGap(r, p))
<1> DEFINE gap == r.expectedNextSeq > 0 /\ p.seq # r.expectedNextSeq
           boundary == gap /\ r.skipSignaled /\ Rec!Follows(p.seq, r.lastSkippedSeq)
           cut == IF boundary /\ r.currentFrame # <<>> THEN Rec!DropFrame(r) ELSE r
           next == (p.seq + 1) % SeqMod
           signaled == cut.skipSignaled /\ ~gap
           seq == p.seq
<1>1. cut \in Rec!Recorders(ids) /\ Shrinks(r, cut)
  <2>1. Shrinks(r, r)
    BY DEF Shrinks
  <2> QED BY <2>1, DropFrameType, DropShrinks
<1>2. Rec!AtGap(r, p) = [cut EXCEPT !.skipSignaled = signaled, !.lastProcessedSeq = seq,
                                    !.expectedNextSeq = next]
  BY DEF Rec!AtGap
<1> HIDE DEF cut, next, gap, seq, signaled
<1> QED BY <1>1, <1>2 DEF Shrinks, Rec!Recorders

\* Numbers that are less than S apart differ by their residues' difference.
LEMMA ModDiff ==
  ASSUME NEW S \in Nat \ {0}, NEW x \in Int, NEW y \in Int, x <= y, y - x < S
  PROVE  ((y % S) - (x % S)) % S = y - x
<1> DEFINE p == x \div S
           q == y \div S
           a == x % S
           b == y % S
           d == b - a
           e == d \div S
           f == d % S
<1>1. /\ p \in Int /\ q \in Int /\ a \in Int /\ b \in Int
      /\ x = S * p + a /\ y = S * q + b
  BY DivMod
<1>2. d \in Int
  BY <1>1
<1> HIDE DEF p, q, a, b, d
<1>3. e \in Int /\ f \in 0 .. S - 1 /\ d = S * e + f
  BY <1>2, DivMod
<1>4. d = b - a
  BY DEF d
<1> HIDE DEF e, f
<1>5. S * (q - p + e) = (y - x) - f
  BY <1>1, <1>3, <1>4
<1>6. q - p + e = 0
  BY <1>1, <1>3, <1>5, SmallMultiple
<1>7. f = y - x
  BY <1>1, <1>3, <1>5, <1>6
<1> QED BY <1>7 DEF f, d, a, b

\* Of S numbers in a row one is a multiple of S.
LEMMA MultipleWithin ==
  ASSUME NEW S \in Nat \ {0}, NEW x \in Int, NEW y \in Int, y - x >= S
  PROVE  \E n \in x .. y - 1 : n % S = 0
<1> DEFINE q == x \div S
           r == x % S
           n == S * q + S
           m == n % S
           k == n \div S
<1>1. q \in Int /\ r \in 0 .. S - 1 /\ x = S * q + r
  BY DivMod
<1> HIDE DEF q, r
<1>2. CASE r = 0
  BY <1>1, <1>2 DEF r
<1>3. CASE r # 0
  <2>1. n \in Int /\ n = S * (q + 1)
    BY <1>1
  <2>2. n \in x .. y - 1
    BY <1>1, <1>3, <2>1
  <2> HIDE DEF n
  <2>3. k \in Int /\ m \in 0 .. S - 1 /\ n = S * k + m
    BY <2>1, DivMod
  <2> HIDE DEF k, m
  <2>4. S * (q + 1 - k) = m
    BY <1>1, <2>1, <2>3
  <2>5. q + 1 - k = 0
    BY <1>1, <2>3, <2>4, SmallMultiple
  <2>6. m = 0
    BY <1>1, <2>3, <2>4, <2>5
  <2> QED BY <2>2, <2>6 DEF m
<1> QED BY <1>2, <1>3

LEMMA PacketFields ==
  ASSUME TypeOK, NEW i \in Ids
  PROVE  /\ Packet(i).id = i /\ Packet(i).seq = Wire(i) /\ Packet(i).payload = stream[i].payload
         /\ Packet(i).start = stream[i].start /\ Packet(i).partition = stream[i].partition
         /\ Packet(i).key = stream[i].key /\ Packet(i).marker = stream[i].marker
         /\ Packet(i).pic = stream[i].pic % PicMod
         /\ IsPacket(Packet(i), Ids)
BY IdsAreNumbers DEF Packet

\* A packet that starts a frame with no picture gap before it follows what was
\* written last.
LEMMA NoGapFollows ==
  ASSUME TypeOK, NEW r \in Rec!Recorders(Ids), NEW L \in Nat, NEW i \in Ids, L < i, Vp8(i),
         r.file # <<>>, r.file[Len(r.file)] # <<>>, NEW n \in Nat, CameTo(r, L, n),
         r.hasKeyFrame, ~Rec!PictureGap(r, Packet(i))
  PROVE  Follows(stream[i], LastWritten(r))
<1> DEFINE b == LastWritten(r).pic
           m == stream[i].pic
           diff == (Packet(i).pic - r.lastPictureID) % PicMod
<1>1. PicMod \in Nat \ {0} /\ PicLate \in Nat
  BY TrackAssumption
<1>2. /\ b \in Nat /\ m \in Nat /\ b <= n /\ n < m
      /\ r.lastPictureID = n % PicMod /\ Packet(i).pic = m % PicMod
  <2>1. Head(r.file[Len(r.file)]) \in Ids
    BY RecorderFields
  <2> QED BY <2>1, StreamIs, PacketFields DEF CameTo, LastWritten
<1>3. n = b \/ \E j \in Ids : j <= L /\ Vp8(j) /\ n < stream[j].pic
  BY DEF CameTo
<1>4. ~(r.lastPictureID > 0 /\ diff > 1 /\ diff < PicLate)
  BY DEF Rec!PictureGap
<1>5. m = n + 1 => n = b \/ ~IsFirst(stream[i])
  <2> SUFFICES ASSUME m = n + 1, NEW j \in Ids, j <= L, Vp8(j), n < stream[j].pic, IsFirst(stream[i])
               PROVE  FALSE
    BY <1>3
  <2>1. j < i
    BY StreamIs
  <2>2. stream[j].pic < m /\ stream[j].pic \in Nat
    BY <2>1, StreamIs
  <2> QED BY <1>2, <2>2
<1>6. \/ \E k \in b .. m - 1 : k % PicMod = 0
      \/ m - b >= PicLate
      \/ m = n + 1
  <2> HIDE DEF m, b
  <2>1. CASE m - n >= PicMod
    <3>1. m \in Int /\ n \in Int
      BY <1>2
    <3>2. \E k \in n .. m - 1 : k % PicMod = 0
      BY <1>1, <2>1, <3>1, MultipleWithin
    <3> QED BY <1>2, <3>2
  <2>2. CASE r.lastPictureID = 0
    <3>1. n \in b .. m - 1 /\ n % PicMod = 0
      BY <1>2, <2>2
    <3> QED BY <3>1
  <2>3. CASE m - n < PicMod /\ r.lastPictureID # 0
    <3>1. diff = m - n
      <4>1. m \in Int /\ n \in Int /\ n <= m
        BY <1>2
      <4>2. ((m % PicMod) - (n % PicMod)) % PicMod = m - n
        BY <1>1, <2>3, <4>1, ModDiff
      <4> QED BY <1>2, <4>2
    <3>2. r.lastPictureID \in Nat
      BY <1>1, <1>2
    <3> HIDE DEF diff
    <3> QED BY <1>1, <1>2, <1>4, <2>3, <3>1, <3>2
  <2> QED BY <1>1, <1>2, <2>1, <2>2, <2>3
<1> QED BY <1>5, <1>6 DEF Follows

\* A packet joins a frame in progress.
LEMMA ExtendIsSampled ==
  ASSUME TypeOK, NEW r \in Rec!Recorders(Ids), NEW L \in Nat, NEW i \in Ids, L < i, Vp8(i),
         Sampled(r, L), NEW q, q.file = r.file, q.lastPictureID = r.lastPictureID,
         q.currentFrame = Append(r.currentFrame, i), q.currentFrameInfo = r.currentFrameInfo,
         r.currentFrameInfo # NoInfo, q.hasKeyFrame = r.hasKeyFrame
  PROVE  Sampled(q, i)
<1> DEFINE frame == q.currentFrame
<1>1. i \in Nat
  BY StreamIs
<1>2. Sampled(r, i)
  BY <1>1, LaterIsSampled
<1>3. r.currentFrame \in Seq(Ids)
  BY RecorderFields
<1>4. /\ frame # <<>>
      /\ r.currentFrame # <<>> => Head(frame) = Head(r.currentFrame)
      /\ r.currentFrame = <<>> => Head(frame) = i
  <2> DEFINE cur == r.currentFrame
  <2>1. cur \in Seq(Ids) /\ frame = Append(cur, i)
    BY <1>3
  <2> HIDE DEF frame, cur
  <2>2. /\ Len(frame) = Len(cur) + 1 /\ Len(cur) \in Nat
        /\ \A k \in 1 .. Len(cur) : frame[k] = cur[k]
        /\ frame[Len(cur) + 1] = i
    BY <2>1
  <2>3. cur # <<>> => Len(cur) >= 1
    BY <2>1
  <2>4. frame \in Seq(Ids) /\ frame # <<>>
    BY <2>1
  <2>5. Head(frame) = frame[1] /\ (cur # <<>> => Head(cur) = cur[1])
    BY <2>1, <2>4
  <2>6. cur # <<>> => Head(frame) = Head(cur)
    BY <2>2, <2>3, <2>5
  <2>7. cur = <<>> => Head(frame) = i
    BY <2>2, <2>5
  <2> QED BY <2>4, <2>6, <2>7 DEF cur
<1> HIDE DEF frame
<1>5. r.currentFrame = <<>> => ~r.hasKeyFrame
  BY DEF Sampled, FrameAtHand
<1>6. FrameAtHand(q, i)
  <2>1. CASE r.currentFrame # <<>>
    BY <1>2, <1>4, <2>1 DEF frame, Sampled, FrameAtHand
  <2>2. CASE r.currentFrame = <<>>
    BY <1>1, <1>4, <1>5, <2>2 DEF frame, FrameAtHand
  <2> QED BY <2>1, <2>2
<1>7. ASSUME NEW n \in Nat, CameTo(r, L, n), CameTo(r, i, n) PROVE CameTo(q, i, n)
  <2>1. CASE r.currentFrame # <<>>
    BY <1>4, <1>7, <2>1 DEF frame, CameTo, LastWritten
  <2>2. CASE r.currentFrame = <<>>
    <3>1. n < stream[i].pic
      BY <1>7 DEF CameTo
    <3> QED BY <1>4, <1>5, <1>7, <2>2, <3>1 DEF frame, CameTo, LastWritten
  <2> QED BY <2>1, <2>2
<1>8. \A n \in Nat : CameTo(r, L, n) => CameTo(r, i, n)
  BY <1>1, StreamIs DEF CameTo
<1> QED BY <1>2, <1>6, <1>7, <1>8 DEF Sampled

\* A packet begins a frame: a key frame, or one the sampler went on to without
\* a gap.
LEMMA BeginIsSampled ==
  ASSUME TypeOK, NEW r \in Rec!Recorders(Ids), NEW L \in Nat, NEW i \in Ids, L < i, Vp8(i),
         Sampled(r, L), NEW q, q.file = r.file, q.lastPictureID = r.lastPictureID,
         q.currentFrame = <<i>>, q.currentFrameInfo # NoInfo,
         q.currentFrameInfo.pic = stream[i].pic % PicMod,
         stream[i].key \/ (r.hasKeyFrame /\ ~Rec!PictureGap(r, Packet(i)))
  PROVE  Sampled(q, i)
<1>1. i \in Nat
  BY StreamIs
<1>2. FrameAtHand(q, i)
  BY <1>1 DEF FrameAtHand
<1>3. ASSUME r.file # <<>>, r.file[Len(r.file)] # <<>>, NEW n \in Nat, CameTo(r, L, n)
      PROVE  CameTo(q, i, n)
  <2>1. Follows(stream[i], LastWritten(r))
    <3>1. CASE stream[i].key
      BY <3>1 DEF Follows
    <3>2. CASE r.hasKeyFrame /\ ~Rec!PictureGap(r, Packet(i))
      BY <1>3, <3>2, NoGapFollows
    <3> QED BY <3>1, <3>2
  <2>2. LastWritten(q) = LastWritten(r)
    BY DEF LastWritten
  <2>3. n < stream[i].pic
    BY <1>3 DEF CameTo
  <2>4. \A j \in Ids : i < j => L < j
    BY <1>1, StreamIs
  <2> QED BY <1>1, <1>3, <2>1, <2>2, <2>3, <2>4 DEF CameTo
<1> QED BY <1>2, <1>3 DEF Sampled

\* The last packet of a frame has come, and the sampler waits for no key frame.
LEMMA CompleteIsSampled ==
  ASSUME TypeOK, NEW r \in Rec!Recorders(Ids), NEW i \in Ids, Vp8(i), stream[i].marker,
         Sampled(r, i), r.currentFrame # <<>>, r.hasKeyFrame, NEW fate
  PROVE  Sampled(Rec!CompleteFrame(r, fate), i)
<1> DEFINE h == Head(r.currentFrame)
           m == stream[h].pic
           named == [r EXCEPT !.lastPictureID = r.currentFrameInfo.pic]
           end == Rec!CompleteFrame(r, fate)
           open == IF Rec!NeedsWriters(named) THEN Rec!OpenFile(named) ELSE named
           kept == r.file # <<>> /\ end.file = r.file /\ ~end.hasKeyFrame
           wrote == end.file = Append(open.file, r.currentFrame)
<1> SUFFICES Sampled(end, i)
  OBVIOUS
<1>1. /\ r.file \in Seq(Seq(Ids)) /\ r.currentFrame \in Seq(Ids) /\ h \in Ids
  BY RecorderFields
<1>2. /\ r.currentFrameInfo # NoInfo /\ h <= i /\ Vp8(h)
      /\ r.currentFrameInfo.pic = m % PicMod
  BY DEF Sampled, FrameAtHand
<1>3. m \in Nat /\ \A j \in Ids : i < j /\ Vp8(j) => m < stream[j].pic
  <2> SUFFICES ASSUME NEW j \in Ids, i < j, Vp8(j) PROVE m < stream[j].pic
    BY <1>1, StreamIs
  <2>1. /\ h \in Nat /\ i \in Nat /\ j \in Nat
        /\ m \in Nat /\ stream[i].pic \in Nat /\ stream[j].pic \in Nat
    BY <1>1, StreamIs
  <2>2. m <= stream[i].pic
    <3>1. CASE h = i
      BY <2>1, <3>1
    <3>2. CASE h < i
      BY <1>1, <1>2, <3>2, StreamIs
    <3> QED BY <1>2, <2>1, <3>1, <3>2
  <2>3. stream[i].pic < stream[j].pic
    BY StreamIs
  <2> HIDE DEF m
  <2> QED BY <2>1, <2>2, <2>3
<1>4. /\ named \in Rec!Recorders(Ids) /\ named.file = r.file /\ named.currentFrame = r.currentFrame
      /\ named.lastPictureID = m % PicMod
  <2>1. r.currentFrameInfo.pic \in 0 .. PicMod - 1
    BY <1>2, RecorderFields
  <2> HIDE DEF m
  <2> QED BY <1>2, <2>1 DEF Rec!Recorders
<1>5. end = IF fate = "invalid" THEN Rec!AwaitKeyFrame(named) ELSE Rec!WriteFrame(named, fate)
  BY <1>2 DEF Rec!CompleteFrame
<1>6. /\ open \in Rec!Recorders(Ids) /\ open.file \in {<<>>, r.file}
      /\ open.lastPictureID = m % PicMod
  <2> HIDE DEF m, named
  <2>1. Rec!OpenFile(named) \in Rec!Recorders(Ids)
    BY <1>4, OpenFileType
  <2>2. Rec!OpenFile(named).file = <<>> /\ Rec!OpenFile(named).lastPictureID = named.lastPictureID
    BY <1>4 DEF Rec!OpenFile, Rec!Recorders
  <2> QED BY <1>4, <2>1, <2>2
<1>7. /\ end.currentFrame = <<>> /\ end.currentFrameInfo = NoInfo
      /\ end.lastPictureID = m % PicMod
      /\ \/ end.file = <<>>
         \/ kept
         \/ wrote
  <2> HIDE DEF m, named, h
  <2>1. CASE fate = "invalid"
    <3> HIDE DEF end
    <3> QED BY <1>4, <1>5, <2>1 DEF Rec!AwaitKeyFrame, Rec!DropFrame, Rec!Recorders
  <2>2. CASE fate # "invalid"
    <3> DEFINE file == IF fate = "unwritten" THEN open.file ELSE Append(open.file, r.currentFrame)
               key == fate # "unwritten"
               written == [open EXCEPT !.file = file, !.hasKeyFrame = key, !.hasValidVideo = TRUE]
    <3>1. end = Rec!DropFrame(written)
      BY <1>4, <1>5, <2>2 DEF Rec!WriteFrame
    <3> HIDE DEF open, end, file, key
    <3>2. /\ end.currentFrame = <<>> /\ end.currentFrameInfo = NoInfo
          /\ end.lastPictureID = m % PicMod /\ end.file = file /\ end.hasKeyFrame = key
      BY <1>6, <3>1 DEF Rec!DropFrame, Rec!Recorders
    <3> QED BY <1>6, <3>2 DEF file, key
  <2> QED BY <2>1, <2>2
<1> HIDE DEF end, named, open
<1>8. FrameAtHand(end, i)
  BY <1>7 DEF FrameAtHand
<1>9. r.file # <<>> =>
        \E n \in Nat : /\ LastWritten(r).pic <= n /\ n < m
                       /\ Follows(stream[h], LastWritten(r))
  BY DEF Sampled, CameTo
<1>10. CASE end.file = <<>>
  BY <1>7, <1>8, <1>10 DEF Sampled, FileFollows
<1>11. CASE kept
  <2>1. LastWritten(end) = LastWritten(r) /\ LastWritten(r).pic \in Nat
    <3>1. r.file[Len(r.file)] # <<>>
      BY <1>11 DEF Sampled
    <3>2. Head(r.file[Len(r.file)]) \in Ids
      BY <1>1, <1>11, <3>1
    <3> QED BY <1>11, <3>2, StreamIs DEF LastWritten
  <2>2. LastWritten(r).pic <= m
    <3> HIDE DEF m
    <3> QED BY <1>3, <1>9, <1>11, <2>1
  <2>3. CameTo(end, i, m)
    BY <1>3, <1>7, <1>11, <2>1, <2>2 DEF CameTo
  <2> QED BY <1>3, <1>8, <1>11, <2>3 DEF Sampled
<1>12. CASE wrote
  <2> DEFINE o == open.file
             len == Len(o)
  <2>1. o \in Seq(Seq(Ids)) /\ o \in {<<>>, r.file}
    BY <1>6, RecorderFields
  <2> HIDE DEF o
  <2>2. /\ len \in Nat /\ Len(end.file) = len + 1
        /\ end.file[len + 1] = r.currentFrame
        /\ \A k \in 1 .. len : end.file[k] = o[k]
    BY <1>1, <1>12, <2>1 DEF o
  <2>3. LastWritten(end) = stream[h]
    BY <2>2 DEF LastWritten
  <2>4. CameTo(end, i, m)
    BY <1>3, <1>7, <2>3 DEF CameTo
  <2>5. FileFollows(end.file)
    <3> SUFFICES ASSUME NEW k \in 2 .. Len(end.file)
                 PROVE  Follows(stream[Head(end.file[k])], stream[Head(end.file[k - 1])])
      BY DEF FileFollows
    <3> HIDE DEF len
    <3>1. CASE k = len + 1
      <4>1. o = r.file /\ r.file # <<>> /\ end.file[k - 1] = r.file[Len(r.file)]
        BY <2>1, <2>2, <3>1 DEF len
      <4> QED BY <1>9, <2>2, <3>1, <4>1 DEF LastWritten
    <3>2. CASE k # len + 1
      <4>1. k \in 2 .. len /\ end.file[k] = o[k] /\ end.file[k - 1] = o[k - 1]
        BY <2>2, <3>2
      <4>2. o = r.file /\ len = Len(r.file)
        BY <2>1, <4>1 DEF len
      <4> QED BY <4>1, <4>2 DEF Sampled, FileFollows
    <3> QED BY <3>1, <3>2
  <2> QED BY <1>3, <1>8, <2>2, <2>4, <2>5 DEF Sampled
<1> QED BY <1>7, <1>10, <1>11, <1>12

\* A packet that starts no frame is the next of the one in progress, or dropped
\* with it.
LEMMA AssembleIsSampled ==
  ASSUME TypeOK, NEW r \in Rec!Recorders(Ids), NEW L \in Nat, NEW i \in Ids, L < i, Vp8(i),
         Sampled(r, L), ~stream[i].start, NEW fate
  PROVE  Sampled(Rec!Assemble(r, Packet(i), fate), i)
<1> DEFINE frame == Append(r.currentFrame, i)
           grown == [r EXCEPT !.hasKeyFrame = TRUE, !.currentFrame = frame]
           end == Rec!Assemble(r, Packet(i), fate)
<1> SUFFICES Sampled(end, i)
  OBVIOUS
<1>1. i \in Nat /\ Sampled(r, i)
  BY StreamIs, LaterIsSampled
<1>2. ~stream[i].key
  BY StreamIs DEF IsFirst
<1>3. \/ end \in {Rec!AwaitKeyFrame(r), Rec!DropFrame(r)}
      \/ /\ r.hasKeyFrame /\ r.currentFrame # <<>>
         /\ \/ end = grown
            \/ stream[i].marker /\ end = Rec!CompleteFrame(grown, fate)
  BY <1>2, PacketFields DEF Rec!Assemble
<1> HIDE DEF end
<1>4. CASE end \in {Rec!AwaitKeyFrame(r), Rec!DropFrame(r)}
  BY <1>1, <1>4, DropShrinks, ShrinkIsSampled
<1>5. CASE r.hasKeyFrame /\ r.currentFrame # <<>>
  <2>1. frame \in Seq(Ids) /\ frame # <<>>
    <3>1. r.currentFrame \in Seq(Ids)
      BY RecorderFields
    <3> QED BY <3>1
  <2>2. /\ grown \in Rec!Recorders(Ids)
        /\ grown.file = r.file /\ grown.lastPictureID = r.lastPictureID
        /\ grown.currentFrame = Append(r.currentFrame, i)
        /\ grown.currentFrameInfo = r.currentFrameInfo /\ grown.hasKeyFrame = TRUE
    <3> DEFINE f == frame
    <3> HIDE DEF f
    <3>1. grown = [r EXCEPT !.hasKeyFrame = TRUE, !.currentFrame = f] /\ f \in Seq(Ids)
      BY <2>1 DEF f
    <3> HIDE DEF grown, frame
    <3>2. /\ grown \in Rec!Recorders(Ids)
          /\ grown.file = r.file /\ grown.lastPictureID = r.lastPictureID
          /\ grown.currentFrame = f
          /\ grown.currentFrameInfo = r.currentFrameInfo /\ grown.hasKeyFrame = TRUE
      BY <3>1 DEF Rec!Recorders
    <3> QED BY <3>2 DEF f, frame
  <2> HIDE DEF grown
  <2>3. r.currentFrameInfo # NoInfo /\ r.hasKeyFrame = TRUE
    BY <1>5, RecorderFields DEF Sampled, FrameAtHand
  <2>4. Sampled(grown, i)
    BY <2>2, <2>3, ExtendIsSampled
  <2>5. grown.currentFrame # <<>>
    BY <2>1, <2>2
  <2>6. stream[i].marker => Sampled(Rec!CompleteFrame(grown, fate), i)
    BY <2>2, <2>4, <2>5, CompleteIsSampled
  <2> QED BY <1>3, <1>4, <2>4, <2>6
<1> QED BY <1>3, <1>4, <1>5

\* The first packet of a frame: it begins one, or is dropped.
LEMMA FirstIsSampled ==
  ASSUME TypeOK, NEW r \in Rec!Recorders(Ids), NEW L \in Nat, NEW i \in Ids, L < i, Vp8(i),
         Sampled(r, L), stream[i].start, NEW fate,
         stream[i].key \/ ~Rec!PictureGap(r, Packet(i))
  PROVE  Sampled(Rec!Assemble(Rec!StartFrame(r, Packet(i)), Packet(i), fate), i)
<1> DEFINE p == Packet(i)
           cut == IF r.currentFrame # <<>> THEN Rec!AwaitKeyFrame(r) ELSE r
           info == [start |-> p.seq, pic |-> p.pic]
           begun == Rec!StartFrame(r, p)
           frame == Append(begun.currentFrame, i)
           grown == [begun EXCEPT !.hasKeyFrame = TRUE, !.currentFrame = frame]
           end == Rec!Assemble(begun, p, fate)
<1> SUFFICES Sampled(end, i)
  OBVIOUS
<1>1. /\ p.id = i /\ p.start /\ p.key = stream[i].key /\ p.marker = stream[i].marker
      /\ p.pic = stream[i].pic % PicMod /\ IsPacket(p, Ids)
  BY PacketFields
<1> HIDE DEF p
<1>2. /\ Shrinks(r, cut) /\ cut.currentFrame = <<>> /\ cut \in Rec!Recorders(Ids)
      /\ cut.hasKeyFrame => r.hasKeyFrame
  <2>1. Shrinks(r, r)
    BY DEF Shrinks
  <2> QED BY <2>1, DropShrinks, AwaitKeyFrameType DEF Shrinks
<1>3. begun \in Rec!Recorders(Ids)
  BY <1>1, StartFrameType
<1>4. /\ begun.file = r.file /\ begun.lastPictureID = r.lastPictureID
      /\ begun.currentFrame = <<>> /\ begun.currentFrameInfo = info
      /\ begun.hasKeyFrame => p.key \/ r.hasKeyFrame
  <2> DEFINE key == p.key
             q == [cut EXCEPT !.currentFrameInfo = info]
  <2>1. begun = IF Rec!PictureGap(r, p) THEN [q EXCEPT !.hasKeyFrame = key] ELSE q
    BY DEF Rec!StartFrame
  <2> HIDE DEF begun, cut, info, key
  <2>2. begun.file = cut.file /\ begun.lastPictureID = cut.lastPictureID
        /\ begun.currentFrame = cut.currentFrame /\ begun.currentFrameInfo = info
        /\ (begun.hasKeyFrame = key \/ begun.hasKeyFrame = cut.hasKeyFrame)
    BY <1>2, <2>1 DEF Rec!Recorders
  <2> QED BY <1>2, <2>2 DEF Shrinks, key
<1>6. \/ end = Rec!DropFrame(begun) /\ ~begun.hasKeyFrame
      \/ /\ p.key \/ begun.hasKeyFrame
         /\ \/ end = grown
            \/ stream[i].marker /\ end = Rec!CompleteFrame(grown, fate)
  <2> HIDE DEF begun
  <2> QED BY <1>1, <1>4 DEF Rec!Assemble
<1> HIDE DEF end, begun, info
<1>7. CASE end = Rec!DropFrame(begun) /\ ~begun.hasKeyFrame
  <2>1. Shrinks(begun, end)
    BY <1>3, <1>7, DropShrinks
  <2>2. Shrinks(r, end)
    BY <1>3, <1>4, <1>7, <2>1 DEF Shrinks, Rec!DropFrame, Rec!Recorders
  <2>3. Sampled(end, L) /\ i \in Nat
    BY <2>2, ShrinkIsSampled, StreamIs
  <2>4. end \in Rec!Recorders(Ids)
    BY <1>3, <1>7, DropFrameType
  <2> QED BY <2>3, <2>4, LaterIsSampled
<1>8. CASE p.key \/ begun.hasKeyFrame
  <2>1. frame = <<i>> /\ <<i>> \in Seq(Ids)
    BY <1>4
  <2>2. /\ grown \in Rec!Recorders(Ids)
        /\ grown.file = r.file /\ grown.lastPictureID = r.lastPictureID
        /\ grown.currentFrame = <<i>> /\ grown.currentFrameInfo = info /\ grown.hasKeyFrame
    <3> DEFINE f == <<i>>
    <3> HIDE DEF f
    <3>1. grown = [begun EXCEPT !.hasKeyFrame = TRUE, !.currentFrame = f] /\ f \in Seq(Ids)
      BY <2>1 DEF f
    <3> HIDE DEF grown, frame
    <3>2. /\ grown \in Rec!Recorders(Ids)
          /\ grown.file = begun.file /\ grown.lastPictureID = begun.lastPictureID
          /\ grown.currentFrame = f
          /\ grown.currentFrameInfo = begun.currentFrameInfo /\ grown.hasKeyFrame
      BY <1>3, <3>1 DEF Rec!Recorders
    <3> QED BY <1>4, <3>2 DEF f
  <2> HIDE DEF grown
  <2>3. info # NoInfo /\ info.pic = stream[i].pic % PicMod
    <3>1. info \in [start : 0 .. SeqMod - 1, pic : 0 .. PicMod - 1]
      BY <1>1 DEF info, IsPacket, Wires
    <3> QED BY <1>1, <3>1, TrackAssumption DEF info
  <2>4. stream[i].key \/ (r.hasKeyFrame /\ ~Rec!PictureGap(r, Packet(i)))
    BY <1>1, <1>4, <1>8
  <2>5. Sampled(grown, i)
    BY <2>2, <2>3, <2>4, BeginIsSampled
  <2>6. grown.currentFrame # <<>>
    BY <2>2
  <2>7. stream[i].marker => Sampled(Rec!CompleteFrame(grown, fate), i)
    BY <2>2, <2>5, <2>6, CompleteIsSampled
  <2> QED BY <1>6, <1>7, <2>5, <2>7
<1> QED BY <1>6, <1>7, <1>8

\* PushVideo takes the sampler on by a packet.
LEMMA PushIsSampled ==
  ASSUME TypeOK, NEW r \in Rec!Recorders(Ids), NEW L \in Nat, NEW i \in Ids, L < i,
         Sampled(r, L), NEW fate
  PROVE  Sampled(Rec!PushVideo(r, Packet(i), fate), i)
<1> DEFINE p == Packet(i)
           at == Rec!AtGap(r, p)
           end == Rec!PushVideo(r, p, fate)
           frame == Append(at.currentFrame, i)
           joined == [at EXCEPT !.currentFrame = frame]
           waits == [at EXCEPT !.hasKeyFrame = FALSE]
           begun == Rec!StartFrame(at, p)
           gap == Rec!PictureGap(at, p)
<1> SUFFICES Sampled(end, i)
  OBVIOUS
<1>1. i \in Nat
  BY StreamIs
<1>2. at \in Rec!Recorders(Ids) /\ Sampled(at, L)
  BY PacketFields, AtGapType, AtGapShrinks, ShrinkIsSampled
<1>3. /\ p.payload = stream[i].payload /\ p.start = stream[i].start /\ p.id = i
      /\ p.partition = stream[i].partition /\ p.key = stream[i].key /\ IsPacket(p, Ids)
  BY PacketFields
<1>4. stream[i].payload \in {"vp8", "none", "broken"}
  BY StreamIs DEF Descriptors
<1>5. \/ end = r
      \/ end = waits
      \/ Vp8(i) /\ at.currentFrameInfo # NoInfo /\ end = joined
      \/ Vp8(i) /\ ~stream[i].start /\ end = Rec!Assemble(at, p, fate)
      \/ gap /\ ~stream[i].key /\ end = begun
      \/ /\ Vp8(i) /\ stream[i].start /\ (stream[i].key \/ ~gap)
         /\ end = Rec!Assemble(begun, p, fate)
  <2> HIDE DEF p, at, gap, begun
  <2> QED BY <1>3, <1>4 DEF Rec!PushVideo, Vp8, gap, begun, at
<1> HIDE DEF end, gap
<1>6. CASE end = r
  BY <1>1, <1>6, LaterIsSampled
<1>7. CASE end = waits
  <2>1. Shrinks(at, waits)
    BY <1>2, CallsShrink
  <2>2. waits \in Rec!Recorders(Ids)
    <3> HIDE DEF at
    <3> QED BY <1>2 DEF Rec!Recorders
  <2> QED BY <1>1, <1>2, <1>7, <2>1, <2>2, ShrinkIsSampled, LaterIsSampled
<1>8. CASE Vp8(i) /\ at.currentFrameInfo # NoInfo /\ end = joined
  <2> HIDE DEF at
  <2>1. /\ end.file = at.file /\ end.lastPictureID = at.lastPictureID
        /\ end.currentFrame = Append(at.currentFrame, i)
        /\ end.currentFrameInfo = at.currentFrameInfo /\ end.hasKeyFrame = at.hasKeyFrame
    <3> HIDE DEF frame
    <3>1. /\ end.file = at.file /\ end.lastPictureID = at.lastPictureID
          /\ end.currentFrame = frame
          /\ end.currentFrameInfo = at.currentFrameInfo /\ end.hasKeyFrame = at.hasKeyFrame
      BY <1>2, <1>8 DEF Rec!Recorders
    <3> QED BY <3>1 DEF frame
  <2> QED BY <1>2, <1>8, <2>1, ExtendIsSampled
<1>9. CASE Vp8(i) /\ ~stream[i].start /\ end = Rec!Assemble(at, p, fate)
  BY <1>2, <1>9, AssembleIsSampled
<1>10. CASE gap /\ ~stream[i].key /\ end = begun
  <2> DEFINE cut == IF at.currentFrame # <<>> THEN Rec!AwaitKeyFrame(at) ELSE at
             key == p.key
             info == [start |-> p.seq, pic |-> p.pic]
  <2>1. end = [[cut EXCEPT !.currentFrameInfo = info] EXCEPT !.hasKeyFrame = key]
    BY <1>10 DEF gap, Rec!StartFrame
  <2>2. key = FALSE
    BY <1>3, <1>10, StreamIs DEF Descriptors
  <2> HIDE DEF at, p
  <2>3. cut \in Rec!Recorders(Ids) /\ Shrinks(at, cut) /\ cut.currentFrame = <<>>
    <3>1. Shrinks(at, at)
      BY DEF Shrinks
    <3> QED BY <1>2, <3>1, AwaitKeyFrameType, DropShrinks
  <2> HIDE DEF cut, info, key
  <2>4. /\ end.file = cut.file /\ end.lastPictureID = cut.lastPictureID
        /\ end.currentFrame = <<>> /\ end.hasKeyFrame = FALSE
    BY <2>1, <2>2, <2>3 DEF Rec!Recorders
  <2>5. Shrinks(at, end)
    BY <2>3, <2>4 DEF Shrinks
  <2>6. end \in Rec!Recorders(Ids)
    BY <1>2, <1>3, <1>10, StartFrameType
  <2> QED BY <1>1, <1>2, <2>5, <2>6, ShrinkIsSampled, LaterIsSampled
<1>11. CASE /\ Vp8(i) /\ stream[i].start /\ (stream[i].key \/ ~gap)
            /\ end = Rec!Assemble(begun, p, fate)
  BY <1>2, <1>11, FirstIsSampled DEF gap
<1> QED BY <1>5, <1>6, <1>7, <1>8, <1>9, <1>10, <1>11

\* The sampler stands where the last packet pushed took it.
LastPushed == IF pushed = <<>> THEN 0 ELSE pushed[Len(pushed)]
SamplerIsAt == Anchored /\ ~rewound => Sampled(rec, LastPushed)

\* What holds of the packets and the buffer's start held before.
LEMMA AnchoredBefore ==
  ASSUME TypeOK, NothingYet, HighestIsNewest, [Next]_vars
  PROVE  Anchored' /\ ~rewound' => Anchored /\ ~rewound
<1> SUFFICES ASSUME Anchored', ~rewound' PROVE Anchored /\ ~rewound
  OBVIOUS
<1>1. CASE \E i \in Ids : Receive(i)
  <2>1. ~rewound
    BY <1>1 DEF Receive, nackVars
  <2>2. CASE arrived = {}
    BY <2>1, <2>2 DEF Anchored
  <2>3. CASE arrived # {}
    BY <1>1, <2>1, <2>3, LaterReceive
  <2> QED BY <2>2, <2>3
<1>2. CASE ~\E i \in Ids : Receive(i)
  <2>1. UNCHANGED <<arrived, first>> /\ ~rewound
    BY <1>2, OnlyReceive, BufferStep
  <2> QED BY <2>1, SameStream DEF Anchored, Round
<1> QED BY <1>1, <1>2

LEMMA SamplerStep ==
  TypeOK /\ TypeOK' /\ BatchAtHand /\ NothingYet /\ HighestIsNewest /\ Released /\ SamplerIsAt
    /\ [Next]_vars => SamplerIsAt'
<1> SUFFICES ASSUME TypeOK, TypeOK', BatchAtHand, NothingYet, HighestIsNewest, Released,
                    SamplerIsAt, [Next]_vars, Anchored', ~rewound'
             PROVE  Sampled(rec, LastPushed)'
  BY DEF SamplerIsAt
<1>1. stream' = stream /\ Ids' = Ids
  BY SameStream
<1>2. Anchored /\ ~rewound
  BY AnchoredBefore
<1>3. rec \in Rec!Recorders(Ids) /\ Sampled(rec, LastPushed)
  BY <1>2 DEF SamplerIsAt, TypeOK
<1>4. SUFFICES Sampled(rec', LastPushed')
  BY <1>1 DEF Sampled, FrameAtHand, CameTo, LastWritten, FileFollows, Vp8
<1>5. CASE Push
  <2>1. /\ batch \in Seq(Ids) /\ pushed \in Seq(Ids) /\ batch # <<>> /\ Ids \in SUBSET Nat
        /\ \A i \in Ids : i >= 1
    BY <1>5, IdsAreNumbers DEF TypeOK, Push, At, BatchAtHand
  <2> DEFINE i == Head(batch)
  <2>2. i \in Ids /\ LastPushed \in Nat /\ LastPushed' = i
    <3>1. pushed' = Append(pushed, i) /\ i \in Ids
      BY <1>5, <2>1 DEF Push
    <3> HIDE DEF i
    <3>2. pushed' # <<>> /\ pushed'[Len(pushed')] = i
      BY <2>1, <3>1
    <3>3. pushed # <<>> => pushed[Len(pushed)] \in Ids
      BY <2>1
    <3> QED BY <2>1, <3>1, <3>2, <3>3 DEF LastPushed
  <2>3. LastPushed < i
    <3>1. CASE pushed = <<>>
      <4> HIDE DEF i
      <4> QED BY <2>1, <2>2, <3>1 DEF LastPushed
    <3>2. CASE pushed # <<>>
      <4> DEFINE n == Len(pushed)
      <4>1. n \in Nat /\ n >= 1
        BY <2>1, <3>2
      <4>2. /\ n \in DOMAIN Line /\ n + 1 \in DOMAIN Line
            /\ Line[n] = pushed[n] /\ Line[n + 1] = i
        BY <2>1, <4>1 DEF Line
      <4>3. \A k, l \in DOMAIN Line : k < l => Line[k] < Line[l]
        BY <1>2 DEF Released
      <4> HIDE DEF i
      <4> QED BY <3>2, <4>1, <4>2, <4>3 DEF LastPushed
    <3> QED BY <3>1, <3>2
  <2>4. \E fate \in Rec!Fates \cup {"fine"} : rec' = Rec!PushVideo(rec, Packet(i), fate)
    BY <1>5 DEF Push
  <2> HIDE DEF i
  <2> QED BY <1>3, <2>2, <2>3, <2>4, PushIsSampled
<1>6. CASE pushed' = pushed /\ Shrinks(rec, rec')
  BY <1>3, <1>6, ShrinkIsSampled DEF LastPushed
<1>7. Push \/ (pushed' = pushed /\ Shrinks(rec, rec'))
  <2>1. ASSUME UNCHANGED <<rec, pushed>> PROVE pushed' = pushed /\ Shrinks(rec, rec')
    BY <2>1 DEF Shrinks
  <2>2. CASE UNCHANGED vars
    BY <2>1, <2>2 DEF vars, recVars
  <2>3. CASE Notify
    <3>1. jb.lastSkipped % SeqMod \in Wires
      <4>1. jb \in JB!Buffers(Ids)
        BY DEF TypeOK
      <4>2. jb.lastSkipped \in Int
        BY <4>1, BufferFields
      <4> QED BY <4>2, WireType
    <3> QED BY <1>3, <2>1, <2>3, <3>1, NotifyShrinks DEF Notify
  <2>4. CASE StartAudio \/ PushAudio \/ CloseRecorder
    BY <1>3, <2>4, CallsShrink DEF StartAudio, PushAudio, CloseRecorder
  <2>5. CASE /\ Next
             /\ ~Push /\ ~Notify /\ ~StartAudio /\ ~PushAudio /\ ~CloseRecorder
    BY <2>1, <2>5, NextCases
    DEF Receive, LogPacket, TakePackets, TakeNothing, EndTrack, EndFlow, EndNacker, EndPli,
        NackTick, GiveUp, SetStart, CloseFlow, Timeout, recVars
  <2> QED BY <2>2, <2>3, <2>4, <2>5
<1> QED BY <1>5, <1>6, <1>7

LEMMA SamplerInvariant == Spec => []SamplerIsAt
<1>1. Init => SamplerIsAt
  <2>1. Sampled(Rec!NewRecorder, 0)
    BY DEF Sampled, FrameAtHand, FileFollows, Rec!NewRecorder
  <2> QED BY <2>1 DEF Init, SamplerIsAt, LastPushed
<1>2. Inv /\ Inv' /\ SamplerIsAt /\ [Next]_vars => SamplerIsAt'
  BY SamplerStep DEF Inv
<1> QED BY <1>1, <1>2, TrackInvariant, PTL DEF Spec

-----------------------------------------------------------------------------
(* What the receive log knows *)

\* A multiple of S more has the same residue.
LEMMA ModTimes ==
  ASSUME NEW S \in Nat \ {0}, NEW m \in Int, NEW y \in Int
  PROVE  (S * m + y) % S = y % S
<1> DEFINE x == S * m + y
           p == x \div S
           q == y \div S
           r == x % S
           t == y % S
<1>1. x \in Int
  OBVIOUS
<1>2. x = S * m + y
  OBVIOUS
<1> HIDE DEF x
<1>3. /\ p \in Int /\ q \in Int /\ r \in 0 .. S - 1 /\ t \in 0 .. S - 1
      /\ x = S * p + r /\ y = S * q + t
  BY <1>1, DivMod
<1> HIDE DEF p, q, r, t
<1>4. S * (p - q - m) = t - r
  BY <1>2, <1>3
<1>5. p - q - m = 0
  BY <1>3, <1>4, SmallMultiple
<1>6. r = t
  BY <1>3, <1>4, <1>5
<1> QED BY <1>6 DEF r, t, x

\* Residues can be taken before or after.
LEMMA ModOfSum ==
  ASSUME NEW S \in Nat \ {0}, NEW x \in Int, NEW k \in Int
  PROVE  /\ ((x % S) + k) % S = (x + k) % S
         /\ (k - (x % S)) % S = (k - x) % S
<1> DEFINE p == x \div S
           r == x % S
<1>1. p \in Int /\ r \in Int /\ x = S * p + r
  BY DivMod
<1> HIDE DEF p, r
<1>2. x + k = S * p + (r + k) /\ k - r = S * p + (k - x)
  BY <1>1
<1>3. (S * p + (r + k)) % S = (r + k) % S
  <2>1. r + k \in Int
    BY <1>1
  <2> QED BY <1>1, <2>1, ModTimes
<1>4. (S * p + (k - x)) % S = (k - x) % S
  <2>1. k - x \in Int
    OBVIOUS
  <2> QED BY <1>1, <2>1, ModTimes
<1> QED BY <1>2, <1>3, <1>4 DEF r

LEMMA SmallMod ==
  ASSUME NEW S \in Nat \ {0}, NEW x \in Int, -S < x, x < S
  PROVE  x % S = IF x < 0 THEN x + S ELSE x
<1> DEFINE q == x \div S
           r == x % S
<1>1. q \in Int /\ r \in 0 .. S - 1 /\ x = S * q + r
  BY DivMod
<1> HIDE DEF q, r
<1>2. CASE x < 0
  <2>1. S * (q + 1) = x + S - r
    BY <1>1
  <2>2. q + 1 = 0
    BY <1>1, <1>2, <2>1, SmallMultiple
  <2>3. r = x + S
    BY <1>1, <2>1, <2>2
  <2> QED BY <1>2, <2>3 DEF r
<1>3. CASE ~(x < 0)
  <2>1. S * q = x - r
    BY <1>1
  <2>2. q = 0
    BY <1>1, <1>3, <2>1, SmallMultiple
  <2>3. r = x
    BY <1>1, <2>1, <2>2
  <2> QED BY <1>3, <2>3 DEF r
<1> QED BY <1>2, <1>3

\* A wire number's slot is that of its place in the stream, and numbers count on
\* from one another by their places.
LEMMA Slots ==
  ASSUME NEW x \in Int, NEW k \in Int
  PROVE  /\ ((x % SeqMod) + k) % LogSize = (x + k) % LogSize
         /\ (x % SeqMod) % LogSize = x % LogSize
<1> DEFINE t == SeqMod \div LogSize
           q == x \div SeqMod
           r == x % SeqMod
           m == t * q
<1>1. SeqMod \in Nat \ {0} /\ LogSize \in Nat \ {0} /\ SeqMod % LogSize = 0
  BY TrackAssumption
<1>2. /\ t \in Int /\ SeqMod = LogSize * t
      /\ q \in Int /\ r \in Int /\ x = SeqMod * q + r
  BY <1>1, DivMod
<1> HIDE DEF t, q, r
<1>3. m \in Int /\ SeqMod * q = LogSize * m
  BY <1>1, <1>2
<1> HIDE DEF m
<1>4. ASSUME NEW j \in Int PROVE (r + j) % LogSize = (x + j) % LogSize
  <2>1. r + j \in Int /\ x + j = LogSize * m + (r + j)
    BY <1>1, <1>2, <1>3
  <2>2. (LogSize * m + (r + j)) % LogSize = (r + j) % LogSize
    BY <1>1, <1>3, <2>1, ModTimes
  <2> QED BY <2>1, <2>2
<1>5. (r + k) % LogSize = (x + k) % LogSize
  BY <1>4
<1>6. (r + 0) % LogSize = (x + 0) % LogSize
  BY <1>4
<1> QED BY <1>2, <1>5, <1>6 DEF r

LEMMA MinusIs ==
  ASSUME NEW x \in Int, NEW y \in Int
  PROVE  /\ RL!Minus(x % SeqMod, y % SeqMod) = (x - y) % SeqMod
         /\ RL!Minus(x % SeqMod, y) = (x - y) % SeqMod
         /\ -SeqMod < x - y /\ x - y < SeqMod
              => RL!Minus(x % SeqMod, y % SeqMod) = IF x < y THEN x - y + SeqMod ELSE x - y
<1> DEFINE w == y % SeqMod
<1>1. SeqMod \in Nat \ {0} /\ w \in Int
  BY Sizes, DivMod
<1>2. ((x % SeqMod) + (-w)) % SeqMod = (x + (-w)) % SeqMod
  <2> DEFINE k == -w
  <2>1. k \in Int
    BY <1>1
  <2> HIDE DEF k
  <2>2. ((x % SeqMod) + k) % SeqMod = (x + k) % SeqMod
    BY <1>1, <2>1, ModOfSum
  <2> QED BY <2>2 DEF k
<1>3. ((x % SeqMod) + (-y)) % SeqMod = (x + (-y)) % SeqMod
  <2> DEFINE k == -y
  <2>1. k \in Int
    OBVIOUS
  <2> HIDE DEF k
  <2>2. ((x % SeqMod) + k) % SeqMod = (x + k) % SeqMod
    BY <1>1, <2>1, ModOfSum
  <2> QED BY <2>2 DEF k
<1>4. (x - w) % SeqMod = (x - y) % SeqMod
  BY <1>1, ModOfSum DEF w
<1>5. x % SeqMod \in Int
  BY <1>1, DivMod
<1>6. RL!Minus(x % SeqMod, w) = (x - y) % SeqMod
  <2> HIDE DEF w
  <2>1. (x % SeqMod) - w = (x % SeqMod) + (-w) /\ x - w = x + (-w)
    BY <1>1, <1>5
  <2> QED BY <1>2, <1>4, <2>1 DEF RL!Minus
<1>7. RL!Minus(x % SeqMod, y) = (x - y) % SeqMod
  <2>1. (x % SeqMod) - y = (x % SeqMod) + (-y) /\ x - y = x + (-y)
    BY <1>5
  <2> QED BY <1>3, <2>1 DEF RL!Minus
<1>8. -SeqMod < x - y /\ x - y < SeqMod
        => (x - y) % SeqMod = IF x < y THEN x - y + SeqMod ELSE x - y
  <2> DEFINE d == x - y
  <2>1. d \in Int /\ (d < 0 <=> x < y)
    OBVIOUS
  <2> HIDE DEF d
  <2>2. -SeqMod < d /\ d < SeqMod => d % SeqMod = IF d < 0 THEN d + SeqMod ELSE d
    BY <1>1, <2>1, SmallMod
  <2> QED BY <2>1, <2>2 DEF d
<1> QED BY <1>6, <1>7, <1>8

\* FixLastConsecutive goes on over numbers that are set.
LEMMA FixIs ==
  ASSUME NEW l \in RL!Logs, NEW c \in Int, NEW n \in Int, c <= n, n - c < SeqMod,
         l.end = n % SeqMod, l.lastConsecutive = c % SeqMod
  PROVE  \E d \in c .. n :
           /\ RL!FixLastConsecutive(l) = [l EXCEPT !.lastConsecutive = d % SeqMod]
           /\ \A y \in c + 1 .. d : y % LogSize \in l.bits
<1> DEFINE span == RL!Minus(l.end, l.lastConsecutive)
           run == {k \in 0 .. span : \A i \in 1 .. k : RL!Get(l, l.lastConsecutive + i)}
           k0 == RL!Max(run)
<1>1. SeqMod \in Nat \ {0}
  BY Sizes
<1>2. span = n - c
  <2>1. -SeqMod < n - c /\ n - c < SeqMod /\ ~(n < c)
    BY <1>1
  <2>2. -SeqMod < n - c /\ n - c < SeqMod
          => RL!Minus(n % SeqMod, c % SeqMod) = IF n < c THEN n - c + SeqMod ELSE n - c
    BY MinusIs
  <2> QED BY <2>1, <2>2
<1> HIDE DEF span
<1>3. run \in SUBSET Int /\ 0 \in run /\ \A k \in run : k <= n - c
  BY <1>2
<1>4. RL!FixLastConsecutive(l) = [l EXCEPT !.lastConsecutive = ((c % SeqMod) + k0) % SeqMod]
  BY DEF RL!FixLastConsecutive, run, span
<1>5. /\ k0 \in 0 .. n - c
      /\ \A i \in 1 .. k0 : RL!Get(l, (c % SeqMod) + i)
  <2> DEFINE b == n - c
  <2>1. b \in Int /\ \A k \in run : k <= b
    BY <1>3
  <2> HIDE DEF b
  <2>2. JB!Max(run) \in run
    <3> HIDE DEF run
    <3> QED BY <1>3, <2>1, MaxIs
  <2>3. k0 \in run
    BY <2>2, OneMax
  <2> HIDE DEF k0
  <2> QED BY <1>2, <2>3
<1> HIDE DEF k0
<1> DEFINE d == c + k0
<1>6. d \in c .. n
  BY <1>5
<1>7. ((c % SeqMod) + k0) % SeqMod = d % SeqMod
  <2>1. k0 \in Int
    BY <1>5
  <2> QED BY <1>1, <2>1, ModOfSum
<1>8. ASSUME NEW y \in c + 1 .. d PROVE y % LogSize \in l.bits
  <2> DEFINE i == y - c
  <2>1. i \in 1 .. k0 /\ y = c + i
    BY <1>5
  <2> HIDE DEF i
  <2>2. RL!Get(l, (c % SeqMod) + i)
    BY <1>5, <2>1
  <2>3. ((c % SeqMod) + i) % LogSize = y % LogSize
    BY <2>1, Slots
  <2> QED BY <2>2, <2>3 DEF RL!Get
<1> QED BY <1>4, <1>6, <1>7, <1>8

\* The slots of the numbers behind place n have what is known of the places
\* after f.
SlotsTell(bits, known, f, n) ==
  \A y \in f + 1 .. n : n - LogSize < y => (y % LogSize \in bits <=> y \in known)

\* A log whose newest number is at place n, and whose last consecutive one is at
\* place c; it knows of the places from LogSize back, after the first one at f.
LogIs(l, known, f, c, n) ==
  /\ l.started /\ l.end = n % SeqMod /\ l.lastConsecutive = c % SeqMod
  /\ f <= c /\ c <= n /\ n - LogSize <= c
  /\ SlotsTell(l.bits, known, f, n)
  /\ \A y \in f + 1 .. c : n - LogSize < y => y \in known
  /\ \A y \in known : y <= n

LEMMA SlotsApart ==
  \A x, y \in Int :
    x # y /\ x - y < LogSize /\ y - x < LogSize => x % LogSize # y % LogSize
BY Sizes, SameInWindow

\* A newer number: those between it and the newest are cleared.
LEMMA AheadTells ==
  ASSUME NEW bits, NEW known, NEW f \in Int, NEW n \in Int, NEW x \in Int, n < x,
         SlotsTell(bits, known, f, n), \A y \in known : y <= n
  PROVE  SlotsTell((bits \ {z % LogSize : z \in n + 1 .. x - 1}) \cup {x % LogSize},
                   known \cup {x}, f, x)
<1> DEFINE cleared == {z % LogSize : z \in n + 1 .. x - 1}
<1>1. LogSize \in Nat \ {0}
  BY Sizes
<1> SUFFICES ASSUME NEW y \in f + 1 .. x, x - LogSize < y
             PROVE  y % LogSize \in (bits \ cleared) \cup {x % LogSize} <=> y \in known \cup {x}
  BY DEF SlotsTell
<1>0. y \in Int /\ y <= x /\ x - y < LogSize
  BY <1>1
<1>2. CASE y = x
  BY <1>2
<1>3. CASE n < y /\ y # x
  <2>1. y % LogSize # x % LogSize
    <3>1. y # x /\ x - y < LogSize /\ y - x < LogSize
      BY <1>0, <1>1, <1>3
    <3> QED BY <1>0, <3>1, SlotsApart
  <2>2. y % LogSize \in cleared
    BY <1>3
  <2>3. y \notin known
    BY <1>3
  <2> QED BY <1>3, <2>1, <2>2, <2>3
<1>4. CASE y <= n
  <2>1. y % LogSize # x % LogSize
    <3>1. y # x /\ x - y < LogSize /\ y - x < LogSize
      BY <1>0, <1>1, <1>4
    <3> QED BY <1>0, <3>1, SlotsApart
  <2>2. y % LogSize \notin cleared
    <3> SUFFICES ASSUME NEW z \in n + 1 .. x - 1 PROVE y % LogSize # z % LogSize
      OBVIOUS
    <3>1. z \in Int /\ y # z /\ z - y < LogSize /\ y - z < LogSize
      BY <1>0, <1>1, <1>4
    <3> QED BY <1>0, <3>1, SlotsApart
  <2>3. y % LogSize \in bits <=> y \in known
    BY <1>1, <1>4 DEF SlotsTell
  <2> HIDE DEF cleared
  <2> QED BY <1>4, <2>1, <2>2, <2>3
<1> QED BY <1>2, <1>3, <1>4

\* A number no newer is set.
LEMMA BehindTells ==
  ASSUME NEW bits, NEW known, NEW f \in Int, NEW n \in Int, NEW x \in Int, x <= n, n - x < LogSize,
         SlotsTell(bits, known, f, n)
  PROVE  SlotsTell(bits \cup {x % LogSize}, known \cup {x}, f, n)
<1> SUFFICES ASSUME NEW y \in f + 1 .. n, n - LogSize < y
             PROVE  y % LogSize \in bits \cup {x % LogSize} <=> y \in known \cup {x}
  BY DEF SlotsTell
<1>1. LogSize \in Nat \ {0}
  BY Sizes
<1>2. y # x => y % LogSize # x % LogSize
  <2>1. y \in Int /\ x - y < LogSize /\ y - x < LogSize
    BY <1>1
  <2> QED BY <2>1, SlotsApart
<1>3. y % LogSize \in bits <=> y \in known
  BY DEF SlotsTell
<1> QED BY <1>2, <1>3

\* FixLastConsecutive, and then a number is set: the log tells what it did.
LEMMA FixedTells ==
  ASSUME NEW l \in RL!Logs, NEW known \in SUBSET Int, NEW f \in Int, NEW n \in Int, NEW c \in Int,
         NEW x \in Int, l.started, l.end = n % SeqMod, l.lastConsecutive = c % SeqMod,
         f <= c, c <= n, n - LogSize <= c,
         SlotsTell(l.bits \cup {x % LogSize}, known, f, n),
         \A y \in f + 1 .. c : n - LogSize < y => y \in known,
         \A y \in known : y <= n
  PROVE  \E d \in Int :
           LogIs(RL!Set(RL!FixLastConsecutive(l), x % SeqMod), known, f, d, n)
<1>1. /\ SeqMod \in Nat \ {0} /\ LogSize \in Nat \ {0} /\ LogSize < SeqMod
  BY Sizes, TrackAssumption DEF RL!Half
<1>2. n - c < SeqMod
  BY <1>1
<1>3. PICK d \in c .. n :
        /\ RL!FixLastConsecutive(l) = [l EXCEPT !.lastConsecutive = d % SeqMod]
        /\ \A y \in c + 1 .. d : y % LogSize \in l.bits
  BY <1>2, FixIs
<1> DEFINE end == RL!Set(RL!FixLastConsecutive(l), x % SeqMod)
           fixed == d % SeqMod
           slot == (x % SeqMod) % LogSize
<1>4. end = [[l EXCEPT !.lastConsecutive = fixed] EXCEPT !.bits = @ \cup {slot}]
  BY <1>3 DEF RL!Set
<1> HIDE DEF end, slot, fixed
<1>5. /\ end.started /\ end.end = l.end /\ end.lastConsecutive = fixed
      /\ end.bits = l.bits \cup {slot}
  BY <1>4 DEF RL!Logs
<1>6. slot = x % LogSize
  BY Slots DEF slot
<1>7. ASSUME NEW y \in f + 1 .. d, n - LogSize < y PROVE y \in known
  <2>1. CASE y <= c
    BY <1>7, <2>1
  <2>2. CASE y > c
    <3>1. y \in c + 1 .. d /\ y \in f + 1 .. n
      BY <1>3, <1>7, <2>2
    <3>2. y % LogSize \in l.bits \cup {x % LogSize}
      BY <1>3, <3>1
    <3> QED BY <1>7, <3>1, <3>2 DEF SlotsTell
  <2> QED BY <2>1, <2>2
<1>8. f <= d /\ d <= n /\ n - LogSize <= d
  BY <1>1, <1>3
<1>9. LogIs(end, known, f, d, n)
  BY <1>5, <1>6, <1>7, <1>8 DEF LogIs, fixed
<1> QED BY <1>9 DEF end

\* Setting a number, when nothing is left to fix.
LEMMA SetTells ==
  ASSUME NEW l \in RL!Logs, NEW known, NEW f \in Int, NEW n \in Int, NEW c \in Int,
         NEW x \in Int, l.started, l.end = n % SeqMod, l.lastConsecutive = c % SeqMod,
         f <= c, c <= n, n - LogSize <= c,
         SlotsTell(l.bits \cup {x % LogSize}, known, f, n),
         \A y \in f + 1 .. c : n - LogSize < y => y \in known,
         \A y \in known : y <= n
  PROVE  LogIs(RL!Set(l, x % SeqMod), known, f, c, n)
<1> DEFINE slot == (x % SeqMod) % LogSize
           end == RL!Set(l, x % SeqMod)
<1>1. end = [l EXCEPT !.bits = @ \cup {slot}]
  BY DEF RL!Set
<1> HIDE DEF slot, end
<1>2. /\ end.started /\ end.end = l.end /\ end.lastConsecutive = l.lastConsecutive
      /\ end.bits = l.bits \cup {slot}
  BY <1>1 DEF RL!Logs
<1>3. slot = x % LogSize
  BY Slots DEF slot
<1>4. LogIs(end, known, f, c, n)
  BY <1>2, <1>3 DEF LogIs
<1> QED BY <1>4 DEF end

\* Add, the first number.
LEMMA FirstAdd ==
  ASSUME NEW x \in Int
  PROVE  LogIs(RL!Add(RL!NewLog, x % SeqMod), {x}, x, x, x)
<1> DEFINE s == x % SeqMod
           l == [RL!NewLog EXCEPT !.started = TRUE, !.end = s, !.lastConsecutive = s]
<1>1. RL!Add(RL!NewLog, s) = RL!Set(l, s)
  BY DEF RL!Add, RL!NewLog
<1>2. s \in 0 .. SeqMod - 1 /\ LogSize \in Nat \ {0}
  BY WireType, Sizes DEF Wires
<1> HIDE DEF s
<1>3. /\ l \in RL!Logs /\ l.started /\ l.end = s /\ l.lastConsecutive = s /\ l.bits = {}
  BY <1>2 DEF RL!NewLog, RL!Logs
<1> HIDE DEF l
<1>4. SlotsTell(l.bits \cup {x % LogSize}, {x}, x, x)
  BY DEF SlotsTell
<1>5. LogIs(RL!Set(l, x % SeqMod), {x}, x, x, x)
  BY <1>2, <1>3, <1>4, SetTells DEF s
<1> QED BY <1>1, <1>5 DEF s

\* Add, a number newer than all.
LEMMA NewerAdd ==
  ASSUME NEW l \in RL!Logs, NEW known \in SUBSET Int, NEW f \in Int, NEW c \in Int, NEW n \in Int,
         LogIs(l, known, f, c, n), NEW x \in Int, n < x, x - n < RL!Half
  PROVE  \E d \in Int : LogIs(RL!Add(l, x % SeqMod), known \cup {x}, f, d, x)
<1> DEFINE s == x % SeqMod
           diff == RL!Minus(s, l.end)
           gap == RL!Minus(s, l.lastConsecutive)
           back == RL!Minus(s, LogSize)
           now == known \cup {x}
           bits == l.bits \ {(l.end + i) % LogSize : i \in 1 .. diff - 1}
           left == l.bits \ {z % LogSize : z \in n + 1 .. x - 1}
           ahead == [l EXCEPT !.end = s, !.bits = bits]
           b == x - LogSize
<1>1. /\ SeqMod \in Nat \ {0} /\ LogSize \in Nat \ {0}
      /\ RL!Half \in Nat /\ 2 * RL!Half <= SeqMod /\ LogSize < RL!Half
  BY Sizes, TrackAssumption DEF RL!Half
<1>2. /\ l.started /\ l.end = n % SeqMod /\ l.lastConsecutive = c % SeqMod
      /\ f <= c /\ c <= n /\ n - LogSize <= c
      /\ SlotsTell(l.bits, known, f, n)
      /\ \A y \in f + 1 .. c : n - LogSize < y => y \in known
      /\ \A y \in known : y <= n
  BY DEF LogIs
<1>3. diff = x - n
  <2>1. -SeqMod < x - n /\ x - n < SeqMod /\ ~(x < n)
    BY <1>1
  <2>2. -SeqMod < x - n /\ x - n < SeqMod
          => RL!Minus(x % SeqMod, n % SeqMod) = IF x < n THEN x - n + SeqMod ELSE x - n
    BY MinusIs
  <2> QED BY <1>2, <2>1, <2>2
<1>4. gap = x - c
  <2>1. -SeqMod < x - c /\ x - c < SeqMod /\ ~(x < c)
    BY <1>1, <1>2
  <2>2. -SeqMod < x - c /\ x - c < SeqMod
          => RL!Minus(x % SeqMod, c % SeqMod) = IF x < c THEN x - c + SeqMod ELSE x - c
    BY MinusIs
  <2> QED BY <1>2, <2>1, <2>2
<1>5. back = b % SeqMod /\ b \in Int
  <2>1. LogSize \in Int
    BY <1>1
  <2> QED BY <2>1, MinusIs
<1>6. RL!Add(l, s) =
        IF ~l.started
          THEN RL!Set([l EXCEPT !.started = TRUE, !.end = s, !.lastConsecutive = s], s)
        ELSE IF diff = 0 THEN l
        ELSE IF diff < RL!Half /\ gap = 1 THEN RL!Set([ahead EXCEPT !.lastConsecutive = s], s)
        ELSE IF diff < RL!Half /\ gap > LogSize
          THEN RL!Set(RL!FixLastConsecutive([ahead EXCEPT !.lastConsecutive = back]), s)
        ELSE IF diff < RL!Half THEN RL!Set(ahead, s)
        ELSE IF gap = 1 THEN RL!Set(RL!FixLastConsecutive([l EXCEPT !.lastConsecutive = s]), s)
        ELSE RL!Set(l, s)
  BY DEF RL!Add
<1>7. bits = left
  <2> DEFINE A == {(l.end + i) % LogSize : i \in 1 .. diff - 1}
             B == {z % LogSize : z \in n + 1 .. x - 1}
  <2>1. \A i \in 1 .. diff - 1 : (l.end + i) % LogSize = (n + i) % LogSize
    BY <1>2, <1>3, Slots
  <2>2. A \subseteq B
    <3> SUFFICES ASSUME NEW i \in 1 .. diff - 1 PROVE (l.end + i) % LogSize \in B
      OBVIOUS
    <3>1. n + i \in n + 1 .. x - 1
      BY <1>3
    <3> QED BY <2>1, <3>1
  <2>3. B \subseteq A
    <3> SUFFICES ASSUME NEW z \in n + 1 .. x - 1 PROVE z % LogSize \in A
      OBVIOUS
    <3> DEFINE i == z - n
    <3>1. i \in 1 .. diff - 1 /\ z = n + i
      BY <1>3
    <3> HIDE DEF i
    <3> QED BY <2>1, <3>1
  <2> QED BY <2>2, <2>3
<1>8. SlotsTell(left \cup {x % LogSize}, now, f, x)
  BY <1>2, AheadTells
<1>9. /\ s \in 0 .. SeqMod - 1 /\ back \in 0 .. SeqMod - 1 /\ left \in SUBSET (0 .. LogSize - 1)
  BY <1>5, WireType, LogFields DEF Wires
<1>10. now \in SUBSET Int /\ \A y \in now : y <= x
  BY <1>2
<1> HIDE DEF diff, gap, back, bits, left, now, s
<1>11. ahead \in RL!Logs /\ ahead.started /\ ahead.end = s /\ ahead.bits = left
       /\ ahead.lastConsecutive = l.lastConsecutive
  BY <1>2, <1>7, <1>9 DEF RL!Logs
<1> HIDE DEF ahead
<1>12. ASSUME NEW k \in 0 .. SeqMod - 1
       PROVE  LET a == [ahead EXCEPT !.lastConsecutive = k] IN
              a \in RL!Logs /\ a.started /\ a.end = s /\ a.bits = left /\ a.lastConsecutive = k
  BY <1>11 DEF RL!Logs
<1>13. \A y \in f + 1 .. c : x - LogSize < y => y \in now
  BY <1>1, <1>2 DEF now
<1>14. CASE gap = 1
  <2> DEFINE a == [ahead EXCEPT !.lastConsecutive = s]
  <2>1. RL!Add(l, s) = RL!Set(a, s)
    BY <1>1, <1>2, <1>3, <1>6, <1>14
  <2>2. a \in RL!Logs /\ a.started /\ a.end = s /\ a.bits = left /\ a.lastConsecutive = s
    BY <1>9, <1>12
  <2> HIDE DEF a
  <2>3. \A y \in f + 1 .. x : x - LogSize < y => y \in now
    BY <1>2, <1>4, <1>13, <1>14 DEF now
  <2>4. f <= x /\ x - LogSize <= x
    BY <1>1, <1>2
  <2>5. LogIs(RL!Set(a, x % SeqMod), now, f, x, x)
    <3>1. x <= x
      OBVIOUS
    <3> QED BY <3>1, <1>8, <1>10, <2>2, <2>3, <2>4, SetTells DEF s
  <2> QED BY <2>1, <2>5 DEF s, now
<1>15. CASE gap > LogSize /\ gap # 1
  <2> DEFINE a == [ahead EXCEPT !.lastConsecutive = back]
  <2>1. RL!Add(l, s) = RL!Set(RL!FixLastConsecutive(a), s)
    BY <1>1, <1>2, <1>3, <1>6, <1>15
  <2>2. a \in RL!Logs /\ a.started /\ a.end = s /\ a.bits = left /\ a.lastConsecutive = back
    BY <1>9, <1>12
  <2> HIDE DEF a
  <2>3. f <= b /\ b <= x /\ x - LogSize <= b
    BY <1>1, <1>2, <1>4, <1>15
  <2>4. \A y \in f + 1 .. b : x - LogSize < y => y \in now
    BY <1>1
  <2> HIDE DEF b
  <2>5. \E d \in Int : LogIs(RL!Set(RL!FixLastConsecutive(a), x % SeqMod), now, f, d, x)
    BY <1>5, <1>8, <1>10, <2>2, <2>3, <2>4, FixedTells DEF s
  <2> QED BY <2>1, <2>5 DEF s, now
<1>16. CASE gap <= LogSize /\ gap # 1
  <2>1. RL!Add(l, s) = RL!Set(ahead, s)
    BY <1>1, <1>2, <1>3, <1>4, <1>6, <1>16
  <2>2. f <= c /\ c <= x /\ x - LogSize <= c
    BY <1>1, <1>2, <1>4, <1>16
  <2>3. LogIs(RL!Set(ahead, x % SeqMod), now, f, c, x)
    BY <1>2, <1>8, <1>10, <1>11, <1>13, <2>2, SetTells DEF s
  <2> QED BY <2>1, <2>3 DEF s, now
<1>17. gap = 1 \/ (gap > LogSize /\ gap # 1) \/ (gap <= LogSize /\ gap # 1)
  BY <1>1, <1>4
<1> QED BY <1>14, <1>15, <1>16, <1>17, Zenon

\* Add, a number that is late.
LEMMA LateAdd ==
  ASSUME NEW l \in RL!Logs, NEW known \in SUBSET Int, NEW f \in Int, NEW c \in Int, NEW n \in Int,
         LogIs(l, known, f, c, n), NEW x \in Int, x < n, n - x < LogSize
  PROVE  \E d \in Int : LogIs(RL!Add(l, x % SeqMod), known \cup {x}, f, d, n)
<1> DEFINE s == x % SeqMod
           diff == RL!Minus(s, l.end)
           gap == RL!Minus(s, l.lastConsecutive)
           now == known \cup {x}
           at == [l EXCEPT !.lastConsecutive = s]
<1>1. /\ SeqMod \in Nat \ {0} /\ LogSize \in Nat \ {0}
      /\ RL!Half \in Nat /\ 2 * RL!Half <= SeqMod /\ LogSize < RL!Half
  BY Sizes, TrackAssumption DEF RL!Half
<1>2. /\ l.started /\ l.end = n % SeqMod /\ l.lastConsecutive = c % SeqMod
      /\ f <= c /\ c <= n /\ n - LogSize <= c
      /\ SlotsTell(l.bits, known, f, n)
      /\ \A y \in f + 1 .. c : n - LogSize < y => y \in known
      /\ \A y \in known : y <= n
  BY DEF LogIs
<1>3. diff = x - n + SeqMod
  <2>1. -SeqMod < x - n /\ x - n < SeqMod
    BY <1>1
  <2>2. -SeqMod < x - n /\ x - n < SeqMod
          => RL!Minus(x % SeqMod, n % SeqMod) = IF x < n THEN x - n + SeqMod ELSE x - n
    BY MinusIs
  <2> QED BY <1>2, <2>1, <2>2
<1>4. gap = IF x < c THEN x - c + SeqMod ELSE x - c
  <2>1. -SeqMod < x - c /\ x - c < SeqMod
    BY <1>1, <1>2
  <2>2. -SeqMod < x - c /\ x - c < SeqMod
          => RL!Minus(x % SeqMod, c % SeqMod) = IF x < c THEN x - c + SeqMod ELSE x - c
    BY MinusIs
  <2> QED BY <1>2, <2>1, <2>2
<1>5. RL!Add(l, s) = IF gap = 1 THEN RL!Set(RL!FixLastConsecutive(at), s) ELSE RL!Set(l, s)
  <2> HIDE DEF gap, s
  <2>1. ~(diff < RL!Half) /\ diff # 0
    BY <1>1, <1>3
  <2> QED BY <1>2, <2>1 DEF RL!Add, gap
<1>6. SlotsTell(l.bits \cup {x % LogSize}, now, f, n)
  BY <1>2, BehindTells
<1>7. s \in 0 .. SeqMod - 1
  BY WireType DEF Wires
<1>8. now \in SUBSET Int /\ \A y \in now : y <= n
  BY <1>2
<1> HIDE DEF s, gap, now, diff
<1>9. CASE gap = 1
  <2>1. x = c + 1
    BY <1>1, <1>2, <1>4, <1>9
  <2>2. at \in RL!Logs /\ at.started /\ at.end = l.end /\ at.bits = l.bits /\ at.lastConsecutive = s
    BY <1>2, <1>7 DEF RL!Logs
  <2> HIDE DEF at
  <2>3. f <= x /\ x <= n /\ n - LogSize <= x
    BY <1>1, <1>2, <2>1
  <2>4. \A y \in f + 1 .. x : n - LogSize < y => y \in now
    BY <1>2, <2>1 DEF now
  <2>5. \E d \in Int : LogIs(RL!Set(RL!FixLastConsecutive(at), x % SeqMod), now, f, d, n)
    BY <1>2, <1>6, <1>8, <2>2, <2>3, <2>4, FixedTells DEF s
  <2> QED BY <1>5, <1>9, <2>5 DEF s, now
<1>10. CASE gap # 1
  <2>1. \A y \in f + 1 .. c : n - LogSize < y => y \in now
    BY <1>2 DEF now
  <2>2. LogIs(RL!Set(l, x % SeqMod), now, f, c, n)
    BY <1>2, <1>6, <1>8, <2>1, SetTells
  <2> QED BY <1>5, <1>10, <2>2 DEF s, now
<1> QED BY <1>9, <1>10

\* IgnoreSeqNum, of a number the log covers.
LEMMA IgnoreTells ==
  ASSUME NEW l \in RL!Logs, NEW known \in SUBSET Int, NEW f \in Int, NEW c \in Int, NEW n \in Int,
         LogIs(l, known, f, c, n), NEW s \in Wires, RL!Minus(l.end, s) < LogSize
  PROVE  \E x \in Int, d \in Int :
           /\ x % SeqMod = s /\ x <= n /\ n - x < LogSize
           /\ LogIs(RL!Ignore(l, s), known \cup {x}, f, d, n)
<1> DEFINE k == RL!Minus(l.end, s)
           x == n - k
           q == (n - s) \div SeqMod
           gap == RL!Minus(s, l.lastConsecutive)
           set == RL!Set(l, s)
           at == [set EXCEPT !.lastConsecutive = s]
           slot == s % LogSize
           now == known \cup {x}
<1>1. /\ SeqMod \in Nat \ {0} /\ LogSize \in Nat \ {0}
      /\ RL!Half \in Nat /\ 2 * RL!Half <= SeqMod /\ LogSize < RL!Half
      /\ s \in Int /\ s \in 0 .. SeqMod - 1
  BY Sizes, TrackAssumption DEF RL!Half, Wires
<1>2. /\ l.started /\ l.end = n % SeqMod /\ l.lastConsecutive = c % SeqMod
      /\ f <= c /\ c <= n /\ n - LogSize <= c
      /\ SlotsTell(l.bits, known, f, n)
      /\ \A y \in f + 1 .. c : n - LogSize < y => y \in known
      /\ \A y \in known : y <= n
  BY DEF LogIs
<1>3. k = (n - s) % SeqMod
  BY <1>1, <1>2, MinusIs
<1>4. k \in 0 .. SeqMod - 1 /\ q \in Int /\ n - s = SeqMod * q + k
  <2>1. n - s \in Int
    BY <1>1
  <2> QED BY <1>1, <1>3, <2>1, DivMod
<1> HIDE DEF k, q
<1>5. x = SeqMod * q + s /\ x \in Int /\ x <= n /\ n - x < LogSize
  <2>1. k < LogSize
    BY DEF k
  <2> QED BY <1>1, <1>4, <2>1
<1>6. x % SeqMod = s
  <2>1. (SeqMod * q + s) % SeqMod = s % SeqMod
    BY <1>1, <1>4, ModTimes
  <2>2. s % SeqMod = s
    <3>1. -SeqMod < s /\ s < SeqMod /\ ~(s < 0)
      BY <1>1
    <3> QED BY <1>1, <3>1, SmallMod
  <2> QED BY <1>5, <2>1, <2>2
<1> HIDE DEF x
<1>7. gap = IF x < c THEN x - c + SeqMod ELSE x - c
  <2>1. -SeqMod < x - c /\ x - c < SeqMod
    BY <1>1, <1>2, <1>5
  <2>2. -SeqMod < x - c /\ x - c < SeqMod
          => RL!Minus(x % SeqMod, c % SeqMod) = IF x < c THEN x - c + SeqMod ELSE x - c
    BY <1>5, MinusIs
  <2> QED BY <1>2, <1>6, <2>1, <2>2
<1>8. RL!Ignore(l, s) = IF gap = 1 THEN RL!FixLastConsecutive(at) ELSE set
  BY DEF RL!Ignore
<1>9. slot = x % LogSize /\ slot \in 0 .. LogSize - 1
  BY <1>1, <1>5, <1>6, Slots, WireType
<1>10. SlotsTell(l.bits \cup {x % LogSize}, now, f, n)
  BY <1>2, <1>5, BehindTells
<1>11. now \in SUBSET Int /\ \A y \in now : y <= n
  BY <1>2, <1>5
<1>12. set = [l EXCEPT !.bits = @ \cup {slot}]
  BY DEF RL!Set
<1> HIDE DEF gap, now, slot, set
<1>13. CASE gap = 1
  <2>1. x = c + 1
    BY <1>1, <1>2, <1>5, <1>7, <1>13
  <2>2. /\ at \in RL!Logs /\ at.started /\ at.end = l.end /\ at.lastConsecutive = s
        /\ at.bits = l.bits \cup {slot}
    BY <1>1, <1>2, <1>9, <1>12 DEF RL!Logs
  <2> HIDE DEF at
  <2>3. f <= x /\ x <= n /\ n - LogSize <= x
    BY <1>1, <1>2, <1>5, <2>1
  <2>4. \A y \in f + 1 .. x : n - LogSize < y => y \in now
    BY <1>2, <2>1 DEF now
  <2>5. at.bits \cup {x % LogSize} = l.bits \cup {x % LogSize}
    BY <1>9, <2>2
  <2>6. \E d \in Int : LogIs(RL!Set(RL!FixLastConsecutive(at), x % SeqMod), now, f, d, n)
    BY <1>2, <1>5, <1>6, <1>10, <1>11, <2>2, <2>3, <2>4, <2>5, FixedTells
  <2>7. RL!Set(RL!FixLastConsecutive(at), s) = RL!FixLastConsecutive(at)
    <3> DEFINE fixed == RL!FixLastConsecutive(at)
    <3>1. fixed \in RL!Logs
      BY <2>2, FixType
    <3>2. fixed.bits = at.bits
      <4> DEFINE last == (at.lastConsecutive
                 + RL!Max({j \in 0 .. RL!Minus(at.end, at.lastConsecutive) :
                             \A i \in 1 .. j : RL!Get(at, at.lastConsecutive + i)})) % SeqMod
      <4>1. fixed = [at EXCEPT !.lastConsecutive = last]
        BY DEF RL!FixLastConsecutive
      <4> HIDE DEF fixed, last
      <4> QED BY <2>2, <4>1 DEF RL!Logs
    <3> HIDE DEF fixed
    <3>3. RL!Set(fixed, s) = [fixed EXCEPT !.bits = fixed.bits]
      <4>1. fixed.bits \cup {slot} = fixed.bits
        BY <2>2, <3>2
      <4> QED BY <4>1 DEF RL!Set, slot
    <3>4. [fixed EXCEPT !.bits = fixed.bits] = fixed
      BY <3>1 DEF RL!Logs
    <3> QED BY <3>3, <3>4 DEF fixed
  <2> QED BY <1>5, <1>6, <1>8, <1>13, <2>6, <2>7 DEF now
<1>14. CASE gap # 1
  <2>1. \A y \in f + 1 .. c : n - LogSize < y => y \in now
    BY <1>2 DEF now
  <2>2. LogIs(RL!Set(l, x % SeqMod), now, f, c, n)
    BY <1>2, <1>5, <1>10, <1>11, <2>1, SetTells
  <2> QED BY <1>5, <1>6, <1>8, <1>14, <2>2 DEF now, set
<1> QED BY <1>13, <1>14

\* MissingSeqNumbers: the numbers of the places not known of.
LEMMA MissingIs ==
  ASSUME NEW l \in RL!Logs, NEW known, NEW f \in Int, NEW c \in Int, NEW n \in Int,
         LogIs(l, known, f, c, n)
  PROVE  RL!Missing(l, 0) =
           {y % SeqMod : y \in {z \in f + 1 .. n : n - LogSize < z} \ known}
<1> DEFINE until == RL!Minus(l.end, 0)
           span == RL!Minus(until, l.lastConsecutive)
           unknown == {z \in f + 1 .. n : n - LogSize < z} \ known
           missing == {s \in {(l.lastConsecutive + i) % SeqMod : i \in 1 .. span} : ~RL!Get(l, s)}
<1>1. /\ SeqMod \in Nat \ {0} /\ LogSize \in Nat \ {0}
      /\ RL!Half \in Nat /\ 2 * RL!Half <= SeqMod /\ LogSize < RL!Half
  BY Sizes, TrackAssumption DEF RL!Half
<1>2. /\ l.end = n % SeqMod /\ l.lastConsecutive = c % SeqMod
      /\ f <= c /\ c <= n /\ n - LogSize <= c
      /\ SlotsTell(l.bits, known, f, n)
      /\ \A y \in f + 1 .. c : n - LogSize < y => y \in known
  BY DEF LogIs
<1>3. until = n % SeqMod
  <2>1. RL!Minus(n % SeqMod, 0) = (n - 0) % SeqMod
    BY MinusIs
  <2>2. n - 0 = n
    OBVIOUS
  <2> QED BY <1>2, <2>1, <2>2
<1>4. span = n - c
  <2>1. -SeqMod < n - c /\ n - c < SeqMod /\ ~(n < c)
    BY <1>1, <1>2
  <2>2. -SeqMod < n - c /\ n - c < SeqMod
          => RL!Minus(n % SeqMod, c % SeqMod) = IF n < c THEN n - c + SeqMod ELSE n - c
    BY MinusIs
  <2> QED BY <1>2, <1>3, <2>1, <2>2
<1>5. RL!Missing(l, 0) = missing
  <2>1. ~(span >= RL!Half)
    BY <1>1, <1>2, <1>4
  <2> HIDE DEF span
  <2> QED BY <2>1 DEF RL!Missing, span
<1>6. ASSUME NEW i \in 1 .. span
      PROVE  /\ (l.lastConsecutive + i) % SeqMod = (c + i) % SeqMod
             /\ RL!Get(l, (c + i) % SeqMod) <=> c + i \in known
             /\ c + i \in {z \in f + 1 .. n : n - LogSize < z}
  <2> DEFINE y == c + i
  <2>1. y \in Int /\ i \in Int /\ y \in f + 1 .. n /\ n - LogSize < y
    BY <1>1, <1>2, <1>4
  <2>2. (l.lastConsecutive + i) % SeqMod = y % SeqMod
    <3>1. ((c % SeqMod) + i) % SeqMod = (c + i) % SeqMod
      BY <1>1, <2>1, ModOfSum
    <3> QED BY <1>2, <3>1
  <2> HIDE DEF y
  <2>3. (y % SeqMod) % LogSize = y % LogSize
    BY <2>1, Slots
  <2>4. RL!Get(l, y % SeqMod) <=> y \in known
    BY <1>2, <2>1, <2>3 DEF SlotsTell, RL!Get
  <2> QED BY <2>1, <2>2, <2>4 DEF y
<1> HIDE DEF span
<1>7. missing \subseteq {y % SeqMod : y \in unknown}
  <2> SUFFICES ASSUME NEW i \in 1 .. span, ~RL!Get(l, (l.lastConsecutive + i) % SeqMod)
               PROVE  (l.lastConsecutive + i) % SeqMod \in {y % SeqMod : y \in unknown}
    OBVIOUS
  <2>1. c + i \in unknown
    BY <1>6
  <2> HIDE DEF unknown
  <2> QED BY <1>6, <2>1
<1>8. {y % SeqMod : y \in unknown} \subseteq missing
  <2> SUFFICES ASSUME NEW y \in unknown PROVE y % SeqMod \in missing
    OBVIOUS
  <2> DEFINE i == y - c
  <2>1. i \in 1 .. span /\ y = c + i /\ y \notin known
    BY <1>2, <1>4
  <2> HIDE DEF i, unknown
  <2> QED BY <1>6, <2>1
<1> QED BY <1>5, <1>7, <1>8

\* The places of the packets the log has, or was told to ignore, and what it
\* makes of them while no number it was told of was too old for it.
Place(i) == base + i - 1
Known == {Place(i) : i \in Logged \cup ignored}
LogKnows ==
  /\ Logged = {} => rl = RL!NewLog /\ ignored = {} /\ nacker.at \in {"select", "gone"}
  /\ ~stale /\ Logged # {} =>
       \E n \in Logged, c \in Int :
         /\ \A j \in Logged : j <= n
         /\ LogIs(rl, Known, Place(first), c, Place(n))

\* The packet on its way to the log, as Receive took it.
LogAtHand ==
  At("log") =>
    /\ reader.id \in arrived /\ \A j \in Logged : j - reader.id < LogSize
    /\ Logged # {} => \E j \in Logged : reader.id - j < RL!Half

LEMMA NewestIs ==
  ASSUME TypeOK, NEW n \in Logged, \A j \in Logged : j <= n
  PROVE  Newest = n
<1>1. Logged \in SUBSET Nat
  BY IdsAreNumbers DEF TypeOK, Logged
<1>2. \A k \in Logged : (\A j \in Logged : j <= k) => k = n
  <2> SUFFICES ASSUME NEW k \in Logged, \A j \in Logged : j <= k PROVE k = n
    OBVIOUS
  <2>1. k <= n /\ n <= k /\ k \in Nat /\ n \in Nat
    BY <1>1
  <2> QED BY <2>1
<1> HIDE DEF Logged
<1> QED BY <1>2 DEF Newest

\* Only LogPacket brings the log a packet.
LEMMA LoggedStep ==
  ASSUME TypeOK, [Next]_vars, ~LogPacket
  PROVE  Logged' = Logged
<1>1. CASE \E i \in Ids : Receive(i)
  BY <1>1 DEF Receive, Logged, At
<1>2. CASE UNCHANGED <<arrived, reader>>
  BY <1>2 DEF Logged, At
<1>3. CASE arrived' = arrived /\ ~At("log") /\ ~At("log")'
  BY <1>3 DEF Logged
<1>4. reader = [reader EXCEPT !.at = reader.at] /\ \A t : [reader EXCEPT !.at = t].at = t
  BY DEF TypeOK
<1>5. CASE UNCHANGED vars
  BY <1>2, <1>5 DEF vars, readVars
<1>6. CASE TakePackets \/ TakeNothing \/ Notify \/ Push \/ EndTrack \/ EndFlow \/ EndNacker \/ EndPli
  BY <1>3, <1>4, <1>6
  DEF TakePackets, TakeNothing, Notify, Push, EndTrack, EndFlow, EndNacker, EndPli, At, Goes, readVars
<1>7. CASE NackTick \/ GiveUp \/ SetStart \/ CloseFlow \/ Timeout \/ StartAudio \/ PushAudio \/ CloseRecorder
  BY <1>2, <1>7
  DEF NackTick, GiveUp, SetStart, CloseFlow, Timeout, StartAudio, PushAudio, CloseRecorder, readVars
<1> QED BY <1>1, <1>5, <1>6, <1>7, NextCases

LEMMA LogAtHandStep ==
  TypeOK /\ LogAtHand /\ [Next]_vars => LogAtHand'
<1> SUFFICES ASSUME TypeOK, LogAtHand, [Next]_vars, At("log")' PROVE LogAtHand'
  BY DEF LogAtHand
<1>1. reader = [reader EXCEPT !.at = reader.at] /\ \A t : [reader EXCEPT !.at = t].at = t
  BY DEF TypeOK
<1>2. ~LogPacket
  BY <1>1 DEF LogPacket, Goes, At
<1>3. Logged' = Logged
  BY <1>2, LoggedStep
<1>4. CASE \E i \in Ids : Receive(i)
  <2>1. PICK i \in Ids : Receive(i)
    BY <1>4
  <2>2. /\ Logged = arrived /\ reader'.id = i /\ i \in arrived'
        /\ \A j \in arrived : j - i < LogSize
        /\ arrived # {} => \E j \in arrived : i - j < RL!Half
    BY <2>1 DEF Receive, Logged, At
  <2> QED BY <1>3, <2>2 DEF LogAtHand
<1>5. CASE UNCHANGED <<arrived, reader>>
  BY <1>3, <1>5 DEF LogAtHand, At
<1>6. CASE UNCHANGED vars
  BY <1>5, <1>6 DEF vars, readVars
<1>7. CASE TakePackets \/ TakeNothing \/ Notify \/ Push \/ EndTrack \/ EndFlow \/ EndNacker \/ EndPli
  BY <1>1, <1>7
  DEF TakePackets, TakeNothing, Notify, Push, EndTrack, EndFlow, EndNacker, EndPli, At, Goes
<1>8. CASE NackTick \/ GiveUp \/ SetStart \/ CloseFlow \/ Timeout \/ StartAudio \/ PushAudio \/ CloseRecorder
  BY <1>5, <1>8
  DEF NackTick, GiveUp, SetStart, CloseFlow, Timeout, StartAudio, PushAudio, CloseRecorder, readVars
<1> QED BY <1>2, <1>4, <1>6, <1>7, <1>8, NextCases

\* Places are numbers, and packets of them have their wire numbers.
LEMMA PlacesAre ==
  ASSUME TypeOK
  PROVE  /\ base \in Nat /\ Ids \in SUBSET Nat /\ Logged \in SUBSET Ids /\ Known \in SUBSET Int
         /\ arrived \in SUBSET Ids /\ ignored \in SUBSET Ids /\ first \in Nat /\ rl \in RL!Logs
         /\ \A i \in Int : Place(i) \in Int /\ Place(i) = base + i - 1 /\ Wire(i) = Place(i) % SeqMod
<1>1. base \in Nat /\ Ids \in SUBSET Nat
  BY IdsAreNumbers
<1>2. /\ arrived \in SUBSET Ids /\ ignored \in SUBSET Ids /\ first \in {0} \cup arrived
      /\ rl \in RL!Logs /\ Logged \in SUBSET arrived
  BY DEF TypeOK, Logged
<1>3. \A i \in Int : Place(i) \in Int /\ Place(i) = base + i - 1 /\ Wire(i) = Place(i) % SeqMod
  BY <1>1 DEF Place, Wire
<1>4. Known \in SUBSET Int
  <2>1. \A i \in Logged \cup ignored : Place(i) \in Int
    BY <1>1, <1>2, <1>3
  <2> QED BY <2>1 DEF Known
<1> QED BY <1>1, <1>2, <1>3, <1>4

LEMMA LogPacketKnows ==
  ASSUME TypeOK, TypeOK', NothingYet, LogAtHand, LogKnows, LogPacket
  PROVE  LogKnows'
<1> DEFINE i == reader.id
           x == Place(i)
<1>1. /\ i \in arrived /\ i \in Ids /\ i \notin Logged /\ arrived = Logged \cup {i}
      /\ \A j \in Logged : j - i < LogSize
      /\ Logged # {} => \E j \in Logged : i - j < RL!Half
  <2>1. At("log") /\ arrived \in SUBSET Ids
    BY PlacesAre DEF LogPacket
  <2>2. Logged = arrived \ {i} /\ i \in arrived
    BY <2>1 DEF LogAtHand, Logged
  <2> QED BY <2>1, <2>2 DEF LogAtHand
<1>2. /\ rl' = RL!Add(rl, Wire(i)) /\ Logged' = Logged \cup {i}
      /\ base' = base /\ first' = first /\ ignored' = ignored /\ stale' = stale
  <2>1. [reader EXCEPT !.at = "next"].at = "next"
    BY DEF TypeOK
  <2> QED BY <1>1, <2>1 DEF LogPacket, Logged, At, Goes, nackVars
<1>3. /\ base \in Nat /\ Ids \in SUBSET Nat /\ Logged \in SUBSET Nat /\ Known \in SUBSET Int
      /\ i \in Nat /\ x \in Int /\ Wire(i) = x % SeqMod /\ rl \in RL!Logs
  <2>1. i \in Int /\ i \in Nat
    BY <1>1, PlacesAre
  <2>2. x \in Int /\ Wire(i) = x % SeqMod
    BY <2>1, PlacesAre
  <2>3. Logged \in SUBSET Nat
    BY PlacesAre
  <2> QED BY <2>1, <2>2, <2>3, PlacesAre
<1>4. Known' = Known \cup {x}
  BY <1>2 DEF Known, Place
<1>5. Place(first)' = Place(first)
  BY <1>2 DEF Place
<1> HIDE DEF i
<1> SUFFICES ASSUME ~stale
             PROVE  \E n \in Logged', c \in Int :
                      /\ \A j \in Logged' : j <= n
                      /\ LogIs(rl', Known', Place(first), c, Place(n)')
  BY <1>2, <1>5 DEF LogKnows
<1>6. \A n : Place(n)' = Place(n)
  BY <1>2 DEF Place
<1>7. CASE Logged = {}
  <2>1. rl = RL!NewLog /\ ignored = {}
    BY <1>7 DEF LogKnows
  <2>2. first = i
    BY <1>1, <1>7 DEF NothingYet, TypeOK
  <2>3. Known = {}
    BY <1>7, <2>1 DEF Known
  <2>4. LogIs(rl', Known', Place(first), x, x)
    <3> HIDE DEF x
    <3>1. LogIs(RL!Add(RL!NewLog, x % SeqMod), {x}, x, x, x)
      BY <1>3, FirstAdd
    <3> QED BY <1>2, <1>3, <1>4, <2>1, <2>2, <2>3, <3>1 DEF x
  <2>5. i \in Logged' /\ \A j \in Logged' : j <= i
    BY <1>2, <1>3, <1>7
  <2> QED BY <1>3, <1>6, <2>4, <2>5
<1>8. CASE Logged # {}
  <2>1. PICK n \in Logged, c \in Int :
          /\ \A j \in Logged : j <= n
          /\ LogIs(rl, Known, Place(first), c, Place(n))
    BY <1>8 DEF LogKnows
  <2> DEFINE f == Place(first)
             m == Place(n)
  <2>2. f \in Int /\ m \in Int /\ n \in Nat /\ m = base + n - 1 /\ x = base + i - 1
    <3>1. first \in Int /\ n \in Int /\ i \in Int
      BY <1>3, PlacesAre
    <3> QED BY <1>3, <3>1, PlacesAre
  <2> HIDE DEF f, m, x
  <2>3. CASE i > n
    <3>1. m < x /\ x - m < RL!Half
      <4>1. PICK j \in Logged : i - j < RL!Half
        BY <1>1, <1>8
      <4>2. j <= n /\ j \in Nat /\ RL!Half \in Int
        BY <1>3, <2>1, Sizes
      <4> QED BY <1>3, <2>2, <2>3, <4>1, <4>2
    <3>2. \E d \in Int : LogIs(RL!Add(rl, x % SeqMod), Known \cup {x}, f, d, x)
      BY <1>3, <2>1, <2>2, <3>1, NewerAdd DEF f, m
    <3>3. i \in Logged' /\ \A j \in Logged' : j <= i
      BY <1>2, <1>3, <2>1, <2>2, <2>3
    <3> QED BY <1>2, <1>3, <1>4, <1>6, <3>2, <3>3 DEF f, x
  <2>4. CASE i < n
    <3>1. x < m /\ m - x < LogSize
      <4>1. n - i < LogSize /\ LogSize \in Int
        BY <1>1, Sizes
      <4> QED BY <1>3, <2>2, <2>4, <4>1
    <3>2. \E d \in Int : LogIs(RL!Add(rl, x % SeqMod), Known \cup {x}, f, d, m)
      BY <1>3, <2>1, <2>2, <3>1, LateAdd DEF f, m
    <3>3. n \in Logged' /\ \A j \in Logged' : j <= n
      BY <1>2, <1>3, <2>1, <2>2, <2>4
    <3> QED BY <1>2, <1>3, <1>4, <1>6, <3>2, <3>3 DEF f, m
  <2>5. i # n
    BY <1>1
  <2> QED BY <1>3, <2>2, <2>3, <2>4, <2>5
<1> QED BY <1>7, <1>8

\* What the log knows of places before the first packet does not matter.
LEMMA LogForgets ==
  ASSUME NEW l, NEW known \in SUBSET Int, NEW f \in Int, NEW c \in Int, NEW n \in Int,
         NEW x \in Int, x <= f, LogIs(l, known \cup {x}, f, c, n)
  PROVE  LogIs(l, known, f, c, n)
BY DEF LogIs, SlotsTell

LEMMA GiveUpKnows ==
  ASSUME TypeOK, TypeOK', DueAtHand, LogKnows, GiveUp
  PROVE  LogKnows'
<1> DEFINE s == Oldest(nacker.due)
           told == {i \in Covered : Wire(i) = s}
<1>1. s \in Wires
  BY OldestIs DEF TypeOK, DueAtHand, GiveUp
<1>2. /\ rl' = RL!Ignore(rl, s) /\ ignored' = ignored \cup told
      /\ stale' = (stale \/ RL!Minus(rl.end, s) >= LogSize)
      /\ base' = base /\ first' = first /\ nacker.at = "giving up"
  BY DEF GiveUp
<1>3. Logged' = Logged /\ Logged # {}
  <2>1. Logged' = Logged
    BY DEF GiveUp, Logged, At
  <2> QED BY <1>2, <2>1 DEF LogKnows
<1>4. Place(first)' = Place(first) /\ \A n : Place(n)' = Place(n)
  BY <1>2 DEF Place
<1>5. Known' = Known \cup {Place(i) : i \in told}
  BY <1>2, <1>3 DEF Known, Place
<1> HIDE DEF s
<1> SUFFICES ASSUME ~stale, ~(RL!Minus(rl.end, s) >= LogSize)
             PROVE  \E n \in Logged, c \in Int :
                      /\ \A j \in Logged : j <= n
                      /\ LogIs(rl', Known', Place(first), c, Place(n))
  BY <1>2, <1>3, <1>4 DEF LogKnows
<1>6. PICK n \in Logged, c \in Int :
        /\ \A j \in Logged : j <= n
        /\ LogIs(rl, Known, Place(first), c, Place(n))
  BY <1>3 DEF LogKnows
<1> DEFINE f == Place(first)
           m == Place(n)
<1>7. /\ rl \in RL!Logs /\ Known \in SUBSET Int /\ base \in Nat /\ first \in Nat /\ n \in Ids
      /\ n \in Nat /\ f \in Int /\ m \in Int /\ f = base + first - 1 /\ m = base + n - 1
      /\ LogSize \in Nat \ {0} /\ LogSize < SeqMod /\ SeqMod \in Nat \ {0}
  <2>1. /\ first \in Nat /\ n \in Ids /\ rl \in RL!Logs /\ Known \in SUBSET Int
        /\ base \in Nat /\ Ids \in SUBSET Nat
    BY PlacesAre
  <2>2. first \in Int /\ n \in Int
    BY <2>1
  <2>3. f \in Int /\ m \in Int /\ f = base + first - 1 /\ m = base + n - 1
    BY <2>2, PlacesAre
  <2>4. LogSize \in Nat \ {0} /\ LogSize < SeqMod /\ SeqMod \in Nat \ {0}
    BY Sizes, TrackAssumption DEF RL!Half
  <2> QED BY <2>1, <2>3, <2>4
<1>8. Covered = {i \in Ids : n - LogSize < i /\ i <= n}
  BY <1>6, NewestIs DEF Covered
<1> HIDE DEF f, m
<1>9. PICK x \in Int, d \in Int :
        /\ x % SeqMod = s /\ x <= m /\ m - x < LogSize
        /\ LogIs(RL!Ignore(rl, s), Known \cup {x}, f, d, m)
  <2>1. LogIs(rl, Known, f, c, m)
    BY <1>6 DEF f, m
  <2>2. RL!Minus(rl.end, s) < LogSize
    <3>1. rl.end \in Wires
      BY <1>7, LogFields
    <3>2. rl.end \in Int /\ s \in Int
      BY <1>1, <3>1 DEF Wires
    <3> DEFINE k == RL!Minus(rl.end, s)
    <3>3. k \in Wires
      BY <3>2, MinusType
    <3>4. k \in Int /\ LogSize \in Int /\ ~(k >= LogSize)
      BY <1>7, <3>3 DEF Wires
    <3> HIDE DEF k
    <3>5. k < LogSize
      BY <3>4
    <3> QED BY <3>5 DEF k
  <2> QED BY <1>1, <1>7, <2>1, <2>2, IgnoreTells
<1>10. \A i \in told : Place(i) = x
  <2> SUFFICES ASSUME NEW i \in told PROVE Place(i) = x
    OBVIOUS
  <2>1. i \in Ids /\ i \in Nat /\ n - LogSize < i /\ i <= n /\ Wire(i) = s
    BY <1>8, PlacesAre
  <2>2. Place(i) \in Int /\ Place(i) = base + i - 1 /\ Place(i) % SeqMod = s
    BY <2>1, PlacesAre
  <2> DEFINE y == Place(i)
  <2>3. y \in Int /\ (y % SeqMod) = (x % SeqMod)
    BY <1>9, <2>2
  <2>4. y - x < SeqMod /\ x - y < SeqMod
    BY <1>7, <1>9, <2>1, <2>2
  <2> HIDE DEF y
  <2>5. y = x
    BY <1>7, <2>3, <2>4, SameInWindow
  <2> QED BY <2>5 DEF y
<1>11. LogIs(RL!Ignore(rl, s), Known', f, d, m)
  <2>1. CASE told = {}
    <3>1. Known' = Known
      BY <1>5, <2>1
    <3>2. ~(x >= base)
      <4> SUFFICES ASSUME x >= base PROVE FALSE
        OBVIOUS
      <4> DEFINE i == x - base + 1
      <4>1. i \in Int /\ i >= 1 /\ i <= n /\ n - LogSize < i
        BY <1>7, <1>9
      <4>2. i \in Ids
        BY <1>7, <4>1 DEF Ids
      <4>3. Place(i) = x /\ Wire(i) = x % SeqMod
        <5>1. base + i - 1 = x
          BY <1>7
        <5> HIDE DEF i
        <5> QED BY <4>1, <5>1, PlacesAre
      <4> HIDE DEF i
      <4>4. i \in told
        BY <1>8, <1>9, <4>1, <4>2, <4>3
      <4> QED BY <2>1, <4>4
    <3>3. x <= f
      BY <1>7, <3>2
    <3> QED BY <1>7, <1>9, <3>1, <3>3, LogForgets
  <2>2. CASE told # {}
    <3>1. Known' = Known \cup {x}
      BY <1>5, <1>10, <2>2
    <3> QED BY <1>9, <3>1
  <2> QED BY <2>1, <2>2
<1> QED BY <1>2, <1>6, <1>9, <1>11 DEF f, m

\* Before the first packet nothing is missing.
LEMMA NothingMissing == RL!Missing(RL!NewLog, SkipLast) = {}
<1> DEFINE until == RL!Minus(0, SkipLast)
           span == RL!Minus(until, 0)
           d == 0 - SkipLast
<1>1. /\ SeqMod \in Nat \ {0} /\ RL!Half \in Nat /\ 2 * RL!Half <= SeqMod
      /\ SkipLast \in Nat /\ SkipLast <= RL!Half
  BY Sizes, TrackAssumption DEF RL!Half
<1>2. /\ d \in Int /\ -SeqMod < d /\ d < SeqMod /\ (d < 0 <=> SkipLast # 0)
      /\ SkipLast # 0 => d + SeqMod >= RL!Half
      /\ SkipLast = 0 => d = 0
  BY <1>1
<1> HIDE DEF d
<1>3. d % SeqMod = IF d < 0 THEN d + SeqMod ELSE d
  BY <1>1, <1>2, SmallMod
<1>4. until = d % SeqMod
  BY DEF RL!Minus, d
<1>5. span = d % SeqMod
  <2>1. RL!Minus(d % SeqMod, 0) = (d - 0) % SeqMod
    BY <1>2, MinusIs
  <2> QED BY <1>2, <1>4, <2>1
<1>6. span >= RL!Half \/ span = 0
  BY <1>2, <1>3, <1>5
<1>7. span = 0 => {(0 + i) % SeqMod : i \in 1 .. span} = {}
  OBVIOUS
<1> HIDE DEF span
<1> QED BY <1>6, <1>7 DEF RL!Missing, RL!NewLog, span

LEMMA LogKnowsStep ==
  TypeOK /\ TypeOK' /\ NothingYet /\ DueAtHand /\ LogAtHand /\ LogKnows /\ [Next]_vars => LogKnows'
<1> SUFFICES ASSUME TypeOK, TypeOK', NothingYet, DueAtHand, LogAtHand, LogKnows, [Next]_vars
             PROVE  LogKnows'
  OBVIOUS
<1>1. CASE LogPacket
  BY <1>1, LogPacketKnows
<1>2. CASE GiveUp
  BY <1>2, GiveUpKnows
<1>3. CASE ~LogPacket /\ ~GiveUp
  <2>1. Logged' = Logged
    BY <1>3, LoggedStep
  <2>2. UNCHANGED <<rl, base, ignored, stale>>
    <3>1. CASE UNCHANGED vars
      BY <3>1 DEF vars, readVars, nackVars
    <3>2. CASE Next
      BY <1>3, <3>2, NextCases
      DEF Receive, TakePackets, TakeNothing, Notify, Push, EndTrack, EndFlow, EndNacker, EndPli,
          NackTick, SetStart, CloseFlow, Timeout, StartAudio, PushAudio, CloseRecorder,
          readVars, nackVars
    <3> QED BY <3>1, <3>2
  <2>3. Logged # {} => first' = first
    <3>1. CASE \E i \in Ids : Receive(i)
      BY <3>1 DEF Receive, NothingYet, Logged, At
    <3>2. CASE ~\E i \in Ids : Receive(i)
      BY <3>2, OnlyReceive
    <3> QED BY <3>1, <3>2
  <2>4. ASSUME Logged = {} PROVE nacker'.at \in {"select", "gone"}
    <3>1. rl = RL!NewLog /\ nacker.at \in {"select", "gone"}
      BY <2>4 DEF LogKnows
    <3>2. ~NackTick
      BY <3>1, NothingMissing DEF NackTick
    <3>3. CASE UNCHANGED vars
      BY <3>1, <3>3 DEF vars, nackVars
    <3>4. CASE Next
      <4>1. [nacker EXCEPT !.at = "gone"].at = "gone"
        BY DEF TypeOK
      <4> QED BY <1>3, <3>1, <3>2, <3>4, <4>1, NextCases
        DEF Receive, TakePackets, TakeNothing, Notify, Push, EndTrack, EndFlow, EndNacker, EndPli,
            SetStart, CloseFlow, Timeout, StartAudio, PushAudio, CloseRecorder, nackVars
    <3> QED BY <3>3, <3>4
  <2>5. Known' = Known /\ \A n : Place(n)' = Place(n)
    BY <2>1, <2>2 DEF Known, Place
  <2>6. Logged # {} => Place(first)' = Place(first)
    BY <2>2, <2>3 DEF Place
  <2> QED BY <2>1, <2>2, <2>4, <2>5, <2>6 DEF LogKnows
<1> QED BY <1>1, <1>2, <1>3

LEMMA LogInvariant == Spec => [](LogKnows /\ LogAtHand)
<1>1. Init => LogKnows /\ LogAtHand
  BY DEF Init, LogKnows, LogAtHand, Logged, At
<1>2. Inv /\ Inv' /\ LogKnows /\ LogAtHand /\ [Next]_vars => (LogKnows /\ LogAtHand)'
  BY LogKnowsStep, LogAtHandStep DEF Inv
<1> QED BY <1>1, <1>2, TrackInvariant, PTL DEF Spec

-----------------------------------------------------------------------------
(* The theorems *)

\* The fields of the reader, the buffers, the NACK goroutine and the recorder.
THEOREM TrackTypeCorrect == Spec => []TypeOK
<1>1. Inv => TypeOK
  BY DEF Inv
<1> QED BY <1>1, TrackInvariant, PTL

\* OnTrack's reader and its NACK goroutine, which share the jitter buffer without
\* a lock: whatever is lost, late, timed out or given up on, and however often
\* the wire numbers wrap, the recorder gets the packets in the order they were
\* sent, unless the NACK goroutine set the buffer's start back or a packet from
\* before the first one's round arrived.
THEOREM PacketsAreInOrder == Spec => []InOrder
<1>1. Inv => InOrder
  <2> SUFFICES ASSUME Inv, Anchored, ~rewound, NEW k \in 1 .. Len(pushed) - 1
               PROVE  pushed[k] < pushed[k + 1]
    BY DEF InOrder
  <2>1. pushed \in Seq(Ids) /\ batch \in Seq(Ids)
    BY DEF Inv, TypeOK
  <2>2. k \in DOMAIN Line /\ k + 1 \in DOMAIN Line /\ Line[k] = pushed[k] /\ Line[k + 1] = pushed[k + 1]
    BY <2>1 DEF Line
  <2>3. \A j, l \in DOMAIN Line : j < l => Line[j] < Line[l]
    BY DEF Inv, Released
  <2> QED BY <2>2, <2>3
<1> QED BY <1>1, TrackInvariant, PTL

\* pushVP8Custom: whatever is lost, dropped, invalid or not written, and
\* however often the picture ids wrap, a delta frame in the file comes right
\* after the picture it was coded against, but for the exceptions the property
\* lists; after any other loss the sampler writes nothing before a key frame.
THEOREM DeltasFollowTheirReferences == Spec => []DeltaFollowsItsReference
<1>1. SamplerIsAt => DeltaFollowsItsReference
  BY DEF SamplerIsAt, Sampled, FileFollows, DeltaFollowsItsReference, Picture
<1> QED BY <1>1, SamplerInvariant, PTL

\* ReceiveLog, and the NACK goroutine that asks for what it says is missing:
\* the numbers that have not come since the first packet and were not given up
\* on, as far back as the log goes, and no other, for streams of any length and
\* however often the wire numbers wrap, until the goroutine gives up on one
\* that the log no longer covers.
THEOREM MissingIsWhatIsMissing == Spec => []MissingIsMissing
<1>1. Inv /\ LogKnows => MissingIsMissing
  <2> SUFFICES ASSUME Inv, LogKnows, ~stale, Logged # {}
               PROVE  RL!Missing(rl, 0)
                        = {Wire(i) : i \in {m \in Covered : first < m} \ (Logged \cup ignored)}
    BY DEF MissingIsMissing
  <2>1. TypeOK
    BY DEF Inv
  <2>2. PICK n \in Logged, c \in Int :
          /\ \A j \in Logged : j <= n
          /\ LogIs(rl, Known, Place(first), c, Place(n))
    BY DEF LogKnows
  <2> DEFINE f == Place(first)
             e == Place(n)
             places == {z \in f + 1 .. e : e - LogSize < z} \ Known
             ids == {m \in Covered : first < m} \ (Logged \cup ignored)
  <2>3. /\ base \in Nat /\ Ids \in SUBSET Nat /\ n \in Ids /\ first \in Nat /\ LogSize \in Int
        /\ Logged \in SUBSET Ids /\ ignored \in SUBSET Ids /\ rl \in RL!Logs
        /\ \A i \in Int : Place(i) \in Int /\ Place(i) = base + i - 1 /\ Wire(i) = Place(i) % SeqMod
    BY <2>1, PlacesAre, Sizes
  <2>4. f \in Int /\ e \in Int /\ n \in Int /\ f = base + first - 1 /\ e = base + n - 1
    BY <2>3
  <2>5. Covered = {i \in Ids : n - LogSize < i /\ i <= n}
    BY <2>1, <2>2, NewestIs DEF Covered
  <2>6. RL!Missing(rl, 0) = {y % SeqMod : y \in places}
    BY <2>2, <2>3, <2>4, MissingIs
  <2> HIDE DEF f, e
  <2>7. ASSUME NEW y \in places PROVE y - base + 1 \in ids /\ Wire(y - base + 1) = y % SeqMod
    <3> DEFINE i == y - base + 1
    <3>1. /\ i \in Int /\ y \in Int /\ y = base + i - 1 /\ first < i /\ i <= n /\ n - LogSize < i
          /\ y \notin Known
      BY <2>3, <2>4
    <3>2. Place(i) = y
      BY <2>3, <3>1
    <3> HIDE DEF i
    <3>3. i \in Ids
      <4>1. first >= 0
        BY <2>3
      <4>2. n \in 1 .. Len(stream)
        BY <2>3 DEF Ids
      <4>3. i \in 1 .. Len(stream)
        BY <2>4, <3>1, <4>1, <4>2, <2>3
      <4> QED BY <4>3 DEF Ids
    <3>4. i \notin Logged \cup ignored
      BY <3>1, <3>2 DEF Known
    <3> QED BY <2>3, <2>5, <3>1, <3>2, <3>3, <3>4 DEF i
  <2>8. ASSUME NEW i \in ids PROVE Place(i) \in places /\ Wire(i) = Place(i) % SeqMod
    <3>1. /\ i \in Ids /\ i \in Int /\ first < i /\ i <= n /\ n - LogSize < i
          /\ i \notin Logged \cup ignored
      BY <2>3, <2>5
    <3>2. Place(i) \in Int /\ Place(i) = base + i - 1
      BY <2>3, <3>1
    <3>3. Place(i) \notin Known
      <4> SUFFICES ASSUME NEW j \in Logged \cup ignored, Place(i) = Place(j) PROVE FALSE
        BY DEF Known
      <4>1. j \in Int /\ Place(j) = base + j - 1
        BY <2>3
      <4>2. i = j
        <5>1. base \in Int
          BY <2>3
        <5>2. base + i - 1 = base + j - 1
          BY <3>2, <4>1
        <5> QED BY <3>1, <4>1, <5>1, <5>2
      <4> QED BY <3>1, <4>2
    <3> QED BY <2>3, <2>4, <3>1, <3>2, <3>3
  <2> HIDE DEF places, ids
  <2>9. {y % SeqMod : y \in places} = {Wire(i) : i \in ids}
    BY <2>7, <2>8
  <2> QED BY <2>6, <2>9 DEF ids
<1> QED BY <1>1, TrackInvariant, LogInvariant, PTL
=============================================================================

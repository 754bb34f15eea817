------------------------- MODULE TrackBufferProofs -------------------------
(***************************************************************************)
(* Proofs about TrackBuffer, for streams of any frames, whatever is lost,   *)
(* late or sent again and whenever the timer runs: its types, that its gaps *)
(* are exact, that what its jitter buffer gives up on is asked for, that    *)
(* what the gaps forget is covered, and that it implements FrameDelivery.   *)
(***************************************************************************)
EXTENDS TrackBuffer, FiniteSetTheorems, SequenceTheorems, WellFoundedInduction, TLAPS

-----------------------------------------------------------------------------
(* Arithmetic *)

\* Division with a remainder.
LEMMA DivMod ==
  ASSUME NEW S \in Nat \ {0}, NEW x \in Int
  PROVE  /\ x \div S \in Int /\ x % S \in 0 .. S - 1
         /\ x = S * (x \div S) + (x % S)
OBVIOUS

\* The only multiple of S closer to 0 than S is 0.
LEMMA SmallMultiple ==
  ASSUME NEW S \in Nat \ {0}, NEW d \in Int, S * d < S, S * d > -S
  PROVE  d = 0
<1>1. CASE d >= 1 BY <1>1
<1>2. CASE d <= -1 BY <1>2
<1> QED BY <1>1, <1>2

LEMMA ModTimes ==
  ASSUME NEW S \in Nat \ {0}, NEW m \in Int, NEW y \in Int
  PROVE  (S * m + y) % S = y % S
<1> DEFINE x == S * m + y
           p == x \div S
           q == y \div S
           r == x % S
           t == y % S
<1>1. x \in Int
  OBVIOUS
<1>2. x = S * m + y
  OBVIOUS
<1> HIDE DEF x
<1>3. /\ p \in Int /\ q \in Int /\ r \in 0 .. S - 1 /\ t \in 0 .. S - 1
      /\ x = S * p + r /\ y = S * q + t
  BY <1>1, DivMod
<1> HIDE DEF p, q, r, t
<1>4. S * (p - q - m) = t - r
  BY <1>2, <1>3
<1>5. p - q - m = 0
  BY <1>3, <1>4, SmallMultiple
<1>6. r = t
  BY <1>3, <1>4, <1>5
<1> QED BY <1>6 DEF r, t, x

\* The remainder of what is closer to 0 than S.
LEMMA SmallMod ==
  ASSUME NEW S \in Nat \ {0}, NEW x \in Int, -S < x, x < S
  PROVE  x % S = IF x < 0 THEN x + S ELSE x
<1> DEFINE q == x \div S
           r == x % S
<1>1. q \in Int /\ r \in 0 .. S - 1 /\ x = S * q + r
  BY DivMod
<1> HIDE DEF q, r
<1>2. CASE x < 0
  <2>1. S * (q + 1) = x + S - r
    BY <1>1
  <2>2. q + 1 = 0
    BY <1>1, <1>2, <2>1, SmallMultiple
  <2>3. r = x + S
    BY <1>1, <2>1, <2>2
  <2> QED BY <1>2, <2>3 DEF r
<1>3. CASE ~(x < 0)
  <2>1. S * q = x - r
    BY <1>1
  <2>2. q = 0
    BY <1>1, <1>3, <2>1, SmallMultiple
  <2>3. r = x
    BY <1>1, <2>1, <2>2
  <2> QED BY <1>3, <2>3 DEF r
<1> QED BY <1>2, <1>3

\* Residues can be taken before or after.
LEMMA ModOfSum ==
  ASSUME NEW S \in Nat \ {0}, NEW x \in Int, NEW k \in Int
  PROVE  ((x % S) + k) % S = (x + k) % S
<1> DEFINE p == x \div S
           r == x % S
<1>1. p \in Int /\ r \in Int /\ x = S * p + r
  BY DivMod
<1> HIDE DEF p, r
<1>2. x + k = S * p + (r + k) /\ r + k \in Int
  BY <1>1
<1>3. (S * p + (r + k)) % S = (r + k) % S
  BY <1>1, <1>2, ModTimes
<1> QED BY <1>2, <1>3 DEF r

\* Residues of numbers tell their distance.
Near(S, x, y) == -S < x - y /\ x - y < S

LEMMA ModMinus ==
  ASSUME NEW S \in Nat \ {0}, NEW x \in Int, NEW y \in Int, Near(S, x, y)
  PROVE  ((x % S) - (y % S)) % S = IF x < y THEN x - y + S ELSE x - y
<1> DEFINE p == x \div S
           q == y \div S
           r == x % S
           t == y % S
           d == x - y
           m == q - p
<1>1. /\ p \in Int /\ q \in Int /\ r \in Int /\ t \in Int
      /\ x = S * p + r /\ y = S * q + t
  BY DivMod
<1>2. d \in Int /\ d = x - y /\ -S < d /\ d < S
  BY DEF Near
<1> HIDE DEF p, q, r, t, d
<1>3. r - t = S * m + d /\ m \in Int
  BY <1>1, <1>2
<1> HIDE DEF m
<1>4. (r - t) % S = d % S
  <2>1. (S * m + d) % S = d % S
    BY <1>2, <1>3, ModTimes
  <2> QED BY <1>3, <2>1
<1>5. d % S = IF d < 0 THEN d + S ELSE d
  BY <1>2, SmallMod
<1> QED BY <1>2, <1>4, <1>5 DEF r, t

\* With W a divisor of S, residues can be taken of what is left modulo S.
LEMMA ModOfMod ==
  ASSUME NEW S \in Nat \ {0}, NEW W \in Nat \ {0}, S % W = 0, NEW x \in Int, NEW k \in Int
  PROVE  ((x % S) + k) % W = (x + k) % W
<1> DEFINE t == S \div W
           q == x \div S
           r == x % S
           m == t * q
<1>1. /\ t \in Int /\ S = W * t
      /\ q \in Int /\ r \in Int /\ x = S * q + r
  BY DivMod
<1> HIDE DEF t, q, r
<1>2. m \in Int /\ S * q = W * m
  BY <1>1
<1> HIDE DEF m
<1>3. r + k \in Int /\ x + k = W * m + (r + k)
  BY <1>1, <1>2
<1>4. (W * m + (r + k)) % W = (r + k) % W
  BY <1>2, <1>3, ModTimes
<1> QED BY <1>3, <1>4 DEF r

\* A set of naturals has a least one, as WFMin says of well-founded orders.
LEMMA LeastNumber ==
  ASSUME NEW T \in SUBSET Nat, T # {}
  PROVE  \E x \in T : \A y \in T : x <= y
<1> DEFINE Less == {p \in Nat \X Nat : p[1] < p[2]}
<1>1. IsWellFoundedOn(Less, Nat)
  BY NatLessThanWellFounded, Zenon DEF OpToRel
<1>2. \A x, y \in Nat : x < y => <<x, y>> \in Less
  OBVIOUS
<1> HIDE DEF Less
<1>3. PICK x \in T : \A y \in T : ~(<<y, x>> \in Less)
  BY <1>1, WFMin
<1>4. ASSUME NEW y \in T PROVE x <= y
  <2>1. x \in Nat /\ y \in Nat
    OBVIOUS
  <2>2. ~(y < x)
    BY <1>2, <1>3, <2>1
  <2> QED BY <2>1, <2>2
<1> QED BY <1>4

LEMMA MinIs ==
  ASSUME NEW T \in SUBSET Nat, T # {}
  PROVE  Min(T) \in T /\ \A y \in T : Min(T) <= y
BY LeastNumber DEF Min

\* The greatest is found from the bound down.
LEMMA MaxIs ==
  ASSUME NEW b \in Int, NEW T \in SUBSET Int, T # {}, \A x \in T : x <= b
  PROVE  Max(T) \in T /\ \A y \in T : Max(T) >= y
<1> DEFINE D == {b - x : x \in T}
<1>1. D \in SUBSET Nat /\ D # {}
  <2>1. \A x \in T : b - x \in Nat
    OBVIOUS
  <2> QED BY <2>1
<1>2. PICK d \in D : \A e \in D : d <= e
  BY <1>1, LeastNumber
<1>3. PICK x \in T : d = b - x
  BY <1>2
<1>4. \A y \in T : x >= y
  BY <1>2, <1>3
<1> QED BY <1>4 DEF Max

LEMMA MaxOfTwo ==
  ASSUME NEW a \in Int, NEW b \in Int
  PROVE  Max({a, b}) = IF a >= b THEN a ELSE b
<1> DEFINE T == {a, b}
<1>1. PICK c \in Int : \A x \in T : x <= c
  BY a <= b \/ b <= a
<1>2. T \in SUBSET Int /\ T # {}
  OBVIOUS
<1>3. Max(T) \in T /\ \A y \in T : Max(T) >= y
  <2> HIDE DEF T
  <2> QED BY <1>1, <1>2, MaxIs
<1> QED BY <1>3

\* The jitter buffer uses its own names for them.
LEMMA SameNames ==
  \A S : JB!Max(S) = Max(S) /\ JB!Min(S) = Min(S) /\ JB!Cardinality(S) = Cardinality(S)
BY DEF JB!Max, Max, JB!Min, Min, JB!Cardinality, Cardinality, JB!IsFiniteSet, IsFiniteSet

-----------------------------------------------------------------------------
(* Numbers and places in the stream *)

LEMMA Sizes ==
  /\ SeqMod \in Nat \ {0} /\ SeqMod \div 2 \in Nat /\ 2 * (SeqMod \div 2) <= SeqMod
  /\ SeqMod <= 2 * (SeqMod \div 2) + 1
  /\ ResetDistance \in Nat /\ ResetDistance <= SeqMod \div 2
  /\ WindowSize \in Nat \ {0} /\ WindowSize <= ResetDistance
  /\ MaxOpenGaps \in Nat \ {0}
  /\ Len(Stream) \in Nat /\ Len(Stream) <= SeqMod \div 2
  /\ Wires \subseteq Nat /\ Ids \subseteq Nat \ {0}
BY StreamAssumption, SizesAssumption DEF Wires, Ids

LEMMA IdsAre == \A i \in Ids : i \in Int /\ i \in Nat /\ 1 <= i /\ i <= Len(Stream)
BY Sizes DEF Ids

\* The wire number of the packet at a place of the stream.
LEMMA WireIs ==
  ASSUME NEW i \in Ids
  PROVE  /\ i \in Int /\ Stream[1].seq \in Int /\ Stream[1].seq + i - 1 \in Int
         /\ Wire(i) = (Stream[1].seq + i - 1) % SeqMod /\ Wire(i) \in Wires
<1>1. i \in DOMAIN Stream /\ 1 \in DOMAIN Stream
  BY StreamAssumption DEF Ids
<1> DEFINE Sent == [seq : 0 .. SeqMod - 1, start : BOOLEAN, end : BOOLEAN, media : BOOLEAN,
                    key : BOOLEAN]
<1>2. Stream \in Seq(Sent)
  BY StreamAssumption
<1>3. \A p \in Sent : p.seq \in 0 .. SeqMod - 1
  OBVIOUS
<1> HIDE DEF Sent
<1>4. Stream[1].seq \in 0 .. SeqMod - 1 /\ Stream[i].seq \in 0 .. SeqMod - 1
  BY <1>1, <1>2, <1>3
<1> QED BY <1>1, <1>4, Sizes, StreamAssumption DEF Wire, Wires, Ids

\* Wire numbers are as far apart as the packets are in the stream.
LEMMA Apart ==
  ASSUME NEW i \in Ids, NEW j \in Ids
  PROVE  (Wire(i) - Wire(j)) % SeqMod = IF i < j THEN i - j + SeqMod ELSE i - j
<1> DEFINE x == Stream[1].seq + i - 1
           y == Stream[1].seq + j - 1
<1>1. /\ x \in Int /\ y \in Int /\ Wire(i) = x % SeqMod /\ Wire(j) = y % SeqMod
      /\ x - y = i - j /\ (x < y <=> i < j)
  BY WireIs
<1>2. -SeqMod < i - j /\ i - j < SeqMod
  BY Sizes DEF Ids
<1> HIDE DEF x, y
<1>3. -SeqMod < x - y /\ x - y < SeqMod
  BY <1>1, <1>2
<1>4. ((x % SeqMod) - (y % SeqMod)) % SeqMod = IF x < y THEN x - y + SeqMod ELSE x - y
  BY <1>1, <1>3, Sizes, ModMinus DEF Near
<1> QED BY <1>1, <1>4

LEMMA SerialIs ==
  ASSUME NEW i \in Ids, NEW j \in Ids
  PROVE  Serial(Wire(i), Wire(j)) = i - j
<1>1. i \in Int /\ j \in Int /\ i - j < SeqMod \div 2 /\ j - i < SeqMod \div 2
  BY Sizes DEF Ids
<1> QED BY <1>1, Apart, Sizes DEF Serial

LEMMA OneNumber ==
  ASSUME NEW i \in Ids, NEW j \in Ids, Wire(i) = Wire(j)
  PROVE  i = j
<1>1. Serial(Wire(i), Wire(j)) = i - j /\ Serial(Wire(i), Wire(i)) = i - i
  BY SerialIs
<1> QED BY <1>1 DEF Ids

\* How the jitter buffer compares numbers.
LEMMA BeforeIs ==
  ASSUME NEW i \in Ids, NEW j \in Ids
  PROVE  /\ JB!Before(Wire(i), Wire(j)) <=> i <= j
         /\ JB!WithinRange(Wire(i), Wire(j)) <=> i - j < ResetDistance /\ j - i < ResetDistance
<1>1. i \in Int /\ j \in Int /\ i - j < SeqMod \div 2 /\ j - i < SeqMod \div 2
  BY Sizes DEF Ids
<1>2. /\ (Wire(i) - Wire(j)) % SeqMod = IF i < j THEN i - j + SeqMod ELSE i - j
      /\ (Wire(j) - Wire(i)) % SeqMod = IF j < i THEN j - i + SeqMod ELSE j - i
  BY Apart
<1>3. JB!Before(Wire(i), Wire(j)) <=> i <= j
  BY <1>1, <1>2, Sizes DEF JB!Before
<1>4. JB!WithinRange(Wire(i), Wire(j)) <=> i - j < ResetDistance /\ j - i < ResetDistance
  BY <1>1, <1>2, Sizes DEF JB!WithinRange
<1> QED BY <1>3, <1>4

LEMMA NextNumberIs ==
  ASSUME NEW i \in Ids, NEW j \in Ids
  PROVE  Wire(j) = (Wire(i) + 1) % SeqMod <=> j = i + 1
<1> DEFINE x == Stream[1].seq + i - 1
           y == Stream[1].seq + j - 1
<1>1. /\ x \in Int /\ y \in Int /\ Wire(i) = x % SeqMod /\ Wire(j) = y % SeqMod
      /\ y - x = j - i /\ i \in Int /\ j \in Int
  BY WireIs
<1>2. -SeqMod < j - (i + 1) /\ j - (i + 1) < SeqMod
  BY Sizes DEF Ids
<1> HIDE DEF x, y
<1>4. (Wire(i) + 1) % SeqMod = (x + 1) % SeqMod
  <2>1. ASSUME NEW k \in Int PROVE ((x % SeqMod) + k) % SeqMod = (x + k) % SeqMod
    BY <1>1, Sizes, ModOfSum
  <2> QED BY <1>1, <2>1
<1>5. x + 1 \in Int /\ y - (x + 1) = j - (i + 1) /\ (y < x + 1 <=> j < i + 1)
  BY <1>1
<1>6. ((y % SeqMod) - ((x + 1) % SeqMod)) % SeqMod
        = IF y < x + 1 THEN y - (x + 1) + SeqMod ELSE y - (x + 1)
  BY <1>1, <1>2, <1>5, Sizes, ModMinus DEF Near
<1>7. ASSUME j = i + 1 PROVE Wire(j) = (Wire(i) + 1) % SeqMod
  BY <1>1, <1>4, <1>5, <1>7
<1>8. ASSUME Wire(j) = (Wire(i) + 1) % SeqMod PROVE j = i + 1
  <2>1. y % SeqMod = (x + 1) % SeqMod
    BY <1>1, <1>4, <1>8
  <2>2. (y % SeqMod) - ((x + 1) % SeqMod) = 0
    BY <1>1, <2>1, Sizes
  <2>3. 0 % SeqMod = 0
    BY Sizes
  <2> QED BY <1>1, <1>2, <1>5, <1>6, <2>2, <2>3, Sizes
<1> QED BY <1>7, <1>8

\* The place of a wire number.
PlaceOf(n) == CHOOSE i \in Ids : Wire(i) = n

LEMMA PlaceIs ==
  ASSUME NEW i \in Ids
  PROVE  PlaceOf(Wire(i)) = i
BY OneNumber DEF PlaceOf

\* A gap has the numbers of its places.
LEMMA InIs ==
  ASSUME NEW f \in Ids, NEW s \in Nat, f + s \in Ids, NEW gap, gap.first = Wire(f), gap.span = s,
         NEW i \in Ids
  PROVE  In(gap, Wire(i)) <=> f <= i /\ i <= f + s
<1>1. i \in Int /\ f \in Int /\ f + s <= Len(Stream)
  BY Sizes DEF Ids
<1>2. (Wire(i) - Wire(f)) % SeqMod = IF i < f THEN i - f + SeqMod ELSE i - f
  BY Apart
<1> QED BY <1>1, <1>2, Sizes DEF In, Ids

-----------------------------------------------------------------------------
(* Lists of packets *)

\* The places of a list can be gone through in order, by taking away the last:
\* a smallest set that cannot would be one larger than one that can.
LEMMA PlacesInOrder ==
  ASSUME NEW n \in Nat, NEW S \in SUBSET (1 .. n)
  PROVE  /\ Cardinality(S) \in Nat
         /\ \E f \in [1 .. Cardinality(S) -> S] :
              \A i, j \in 1 .. Cardinality(S) : i < j => f[i] < f[j]
<1> DEFINE InOrder(T, f) == \A i, j \in 1 .. Cardinality(T) : i < j => f[i] < f[j]
           Bad == {m \in Nat : \E T \in SUBSET (1 .. n) :
                     Cardinality(T) = m /\ ~\E f \in [1 .. Cardinality(T) -> T] : InOrder(T, f)}
<1>1. ASSUME NEW T \in SUBSET (1 .. n) PROVE IsFiniteSet(T) /\ Cardinality(T) \in Nat
  <2>1. IsFiniteSet(1 .. n)
    BY FS_Interval
  <2>2. IsFiniteSet(T)
    BY <2>1, FS_Subset
  <2> QED BY <2>2, FS_CardinalityType
<1>2. Bad = {}
  <2> SUFFICES ASSUME Bad # {} PROVE FALSE
    OBVIOUS
  <2>1. PICK m \in Bad : \A k \in Bad : m <= k
    BY LeastNumber
  <2>2. PICK T \in SUBSET (1 .. n) :
          Cardinality(T) = m /\ ~\E f \in [1 .. Cardinality(T) -> T] : InOrder(T, f)
    BY <2>1
  <2>3. m \in Nat
    BY <2>1
  <2>4. CASE T = {}
    <3>1. m = 0
      BY <2>2, <2>4, FS_EmptySet
    <3> DEFINE f == [i \in 1 .. 0 |-> i]
    <3>2. f \in [1 .. 0 -> T] /\ InOrder(T, f)
      BY <2>2, <3>1
    <3> QED BY <2>2, <3>1, <3>2
  <2>5. CASE T # {}
    <3> DEFINE x == Max(T)
               U == T \ {x}
    <3>1. x \in T /\ \A y \in T : y <= x
      <4>1. T \in SUBSET Int /\ n \in Int /\ \A y \in T : y <= n
        OBVIOUS
      <4>2. Max(T) \in T /\ \A y \in T : Max(T) >= y
        BY <2>5, <4>1, MaxIs
      <4> QED BY <4>1, <4>2
    <3> HIDE DEF x
    <3>2. IsFiniteSet(T) /\ U \in SUBSET (1 .. n)
      BY <1>1
    <3>3. Cardinality(U) = m - 1 /\ Cardinality(U) \in Nat
      BY <1>1, <2>2, <3>1, <3>2, FS_RemoveElement
    <3> HIDE DEF U
    <3>4. ~(m - 1 \in Bad)
      BY <2>1, <2>3, <3>3
    <3>5. PICK g \in [1 .. Cardinality(U) -> U] : InOrder(U, g)
      BY <3>2, <3>3, <3>4
    <3> DEFINE f == [i \in 1 .. m |-> IF i = m THEN x ELSE g[i]]
    <3>6. \A i \in 1 .. m - 1 : g[i] \in U
      BY <3>3, <3>5
    <3>7. f \in [1 .. m -> T]
      <4>1. \A i \in 1 .. m : i # m => i \in 1 .. m - 1
        BY <2>3
      <4>2. \A i \in 1 .. m : i # m => g[i] \in T
        BY <3>6, <4>1 DEF U
      <4> QED BY <3>1, <4>2
    <3>8. ASSUME NEW i \in 1 .. m, NEW j \in 1 .. m, i < j PROVE f[i] < f[j]
      <4>1. CASE j = m
        <5>1. i \in 1 .. m - 1 /\ f[i] = g[i] /\ f[j] = x
          BY <2>3, <3>8, <4>1
        <5>2. g[i] \in T /\ g[i] # x
          BY <3>6, <5>1 DEF U
        <5>3. g[i] \in Int /\ x \in Int /\ g[i] <= x
          <6>1. \A y \in T : y \in Int
            OBVIOUS
          <6> QED BY <3>1, <5>2, <6>1
        <5> QED BY <5>1, <5>2, <5>3
      <4>2. CASE j # m
        <5>1. i \in 1 .. m - 1 /\ j \in 1 .. m - 1 /\ f[i] = g[i] /\ f[j] = g[j]
          BY <2>3, <3>8, <4>2
        <5> QED BY <3>3, <3>5, <3>8, <5>1
      <4> QED BY <4>1, <4>2
    <3> HIDE DEF f
    <3>9. InOrder(T, f)
      BY <2>2, <3>8
    <3> QED BY <2>2, <3>7, <3>9
  <2> QED BY <2>4, <2>5
<1> HIDE DEF InOrder
<1>3. \E f \in [1 .. Cardinality(S) -> S] : InOrder(S, f)
  BY <1>1, <1>2
<1> QED BY <1>1, <1>3 DEF InOrder

\* The packets at some places of a list, in order and all of them.
LEMMA PacketsAtAre ==
  ASSUME NEW R, NEW q \in Seq(R), NEW S \in SUBSET (1 .. Len(q))
  PROVE  \E f \in [1 .. Cardinality(S) -> S] :
           /\ Cardinality(S) \in Nat
           /\ \A i, j \in 1 .. Cardinality(S) : i < j => f[i] < f[j]
           /\ \A k \in S : \E i \in 1 .. Cardinality(S) : f[i] = k
           /\ JB!PacketsAt(q, S) = [i \in 1 .. Cardinality(S) |-> q[f[i]]]
           /\ JB!PacketsAt(q, S) \in Seq(R)
<1> DEFINE n == JB!Cardinality(S)
           InOrder(f) == \A i, j \in DOMAIN f : i < j => f[i] < f[j]
           f == CHOOSE f \in [1 .. n -> S] : InOrder(f)
<1>0. n = Cardinality(S)
  BY SameNames
<1>1. n \in Nat /\ Len(q) \in Nat /\ \E g \in [1 .. n -> S] : InOrder(g)
  <2>1. Len(q) \in Nat
    OBVIOUS
  <2>2. n \in Nat /\ \E g \in [1 .. n -> S] : \A i, j \in 1 .. n : i < j => g[i] < g[j]
    BY <1>0, <2>1, PlacesInOrder
  <2> QED BY <2>1, <2>2
<1>2. f \in [1 .. n -> S] /\ InOrder(f)
  BY <1>1
<1>3. JB!PacketsAt(q, S) = [i \in DOMAIN f |-> q[f[i]]]
  BY DEF JB!PacketsAt
<1> HIDE DEF f, n, InOrder
<1>4. \A i, j \in 1 .. n : i < j => f[i] < f[j]
  BY <1>2 DEF InOrder
<1>5. IsFiniteSet(S) /\ IsFiniteSet(1 .. n) /\ Cardinality(1 .. n) = n
  <2>1. IsFiniteSet(1 .. Len(q))
    BY <1>1, FS_Interval
  <2>2. 1 \in Int /\ n \in Int
    BY <1>1
  <2>3. IsFiniteSet(1 .. n) /\ Cardinality(1 .. n) = IF 1 > n THEN 0 ELSE n - 1 + 1
    BY <2>2, FS_Interval
  <2>4. IsFiniteSet(S)
    BY <2>1, FS_Subset
  <2> QED BY <1>1, <2>3, <2>4
<1>6. f \in Injection(1 .. n, S)
  <2>1. ASSUME NEW i \in 1 .. n, NEW j \in 1 .. n, f[i] = f[j] PROVE i = j
    <3>1. f[i] \in Int /\ f[j] \in Int /\ i \in Int /\ j \in Int
      <4>1. \A k \in S : k \in Int
        OBVIOUS
      <4>2. f[i] \in S /\ f[j] \in S
        BY <1>2
      <4>3. i \in Int /\ j \in Int
        BY <1>1
      <4> QED BY <4>1, <4>2, <4>3
    <3> QED BY <1>4, <2>1, <3>1
  <2> QED BY <1>2, <2>1 DEF Injection, IsInjective
<1>7. f \in Surjection(1 .. n, S)
  BY <1>0, <1>5, <1>6, FS_Injection
<1>8. \A k \in S : \E i \in 1 .. n : f[i] = k
  BY <1>7 DEF Surjection
<1>9. JB!PacketsAt(q, S) = [i \in 1 .. n |-> q[f[i]]]
  BY <1>2, <1>3
<1>10. JB!PacketsAt(q, S) \in Seq(R)
  <2>1. \A i \in 1 .. n : q[f[i]] \in R
    <3>1. \A k \in S : q[k] \in R
      OBVIOUS
    <3> QED BY <1>2, <3>1
  <2> QED BY <1>1, <1>9, <2>1
<1> QED BY <1>0, <1>1, <1>2, <1>4, <1>8, <1>9, <1>10


-----------------------------------------------------------------------------
(* One call of the jitter buffer *)

LEMMA Delays ==
  /\ Latency \in Nat /\ GapDelay \in Nat /\ FirstNACK \in Nat /\ RepairWindow \in Nat
  /\ LossInterval \in Nat /\ Slack \in Nat /\ MaxRepeats \in Nat /\ MaxNow \in Nat
  /\ GapDelay < Latency /\ LossInterval <= Latency
BY DelaysAssumption

LEMMA PacketFields ==
  ASSUME NEW p \in JB!Packets(Ids)
  PROVE  /\ p.id \in Ids /\ p.seq \in Wires /\ p.at \in Nat
         /\ p.start \in BOOLEAN /\ p.end \in BOOLEAN /\ p.media \in BOOLEAN
         /\ p.discont \in BOOLEAN
BY DEF JB!Packets, Wires

LEMMA BufferFields ==
  ASSUME NEW b \in JB!Buffers(Ids)
  PROVE  /\ b.initialized \in BOOLEAN /\ b.prevSN \in Wires /\ b.loss \in BOOLEAN
         /\ b.list \in Seq(JB!Packets(Ids)) /\ b.out \in Seq(JB!Packets(Ids)) /\ b.gaveUp \in Nat
         /\ Len(b.list) \in Nat
         /\ \A k \in 1 .. Len(b.list) : b.list[k] \in JB!Packets(Ids)
<1>1. /\ b.initialized \in BOOLEAN /\ b.prevSN \in Wires /\ b.loss \in BOOLEAN
      /\ b.list \in Seq(JB!Packets(Ids)) /\ b.out \in Seq(JB!Packets(Ids)) /\ b.gaveUp \in Nat
  BY DEF JB!Buffers, Wires
<1>2. Len(b.list) \in Nat /\ \A k \in 1 .. Len(b.list) : b.list[k] \in JB!Packets(Ids)
  BY <1>1
<1> QED BY <1>1, <1>2

\* What is left of a list from a place on.
LEMMA RestIs ==
  ASSUME NEW R, NEW q \in Seq(R), NEW n \in 0 .. Len(q)
  PROVE  /\ SubSeq(q, n + 1, Len(q)) \in Seq(R)
         /\ Len(SubSeq(q, n + 1, Len(q))) = Len(q) - n
         /\ \A k \in 1 .. Len(q) - n : SubSeq(q, n + 1, Len(q))[k] = q[n + k]
<1>1. Len(q) \in Nat /\ n \in Nat /\ n <= Len(q) /\ Len(q) - n \in Nat
  OBVIOUS
<1>2. SubSeq(q, n + 1, Len(q)) \in Seq(R)
  BY <1>1, SubSeqProperties
<1>3. Len(SubSeq(q, n + 1, Len(q))) = Len(q) - n
  BY <1>1, SubSeqProperties
<1>4. ASSUME NEW k \in 1 .. Len(q) - n PROVE SubSeq(q, n + 1, Len(q))[k] = q[n + k]
  BY <1>1
<1> QED BY <1>2, <1>3, <1>4

\* When the packets given up on came: all of them are due.
LEMMA GivenUpIs ==
  ASSUME NEW q \in Seq(JB!Packets(Ids)), NEW late \in SUBSET (1 .. Len(q)), NEW t \in Nat,
         \A k \in late : q[k].at <= t, NEW g \in Nat
  PROVE  LET last == Max({g} \cup {q[k].at : k \in late}) IN
         last \in Nat /\ (last = g \/ \E k \in late : last = q[k].at)
<1> DEFINE T == {g} \cup {q[k].at : k \in late}
           bound == IF g >= t THEN g ELSE t
<1>1. \A k \in late : q[k].at \in Nat
  <2>1. \A k \in late : q[k] \in JB!Packets(Ids)
    OBVIOUS
  <2> QED BY <2>1, PacketFields
<1>2. T \in SUBSET Int /\ T # {} /\ bound \in Int /\ \A x \in T : x <= bound
  BY <1>1
<1>3. Max(T) \in T
  <2> HIDE DEF T, bound
  <2> QED BY <1>2, MaxIs
<1> QED BY <1>1, <1>3

\* dropIncomplete takes packets that are due from the head.
LEMMA DropIs ==
  ASSUME NEW b \in JB!Buffers(Ids), NEW t \in Nat, NEW due,
         \A p \in due : p.at + Latency <= t
  PROVE  LET d == JB!DropIncomplete(b, due)
             q == b.list IN
         /\ d \in JB!Buffers(Ids) /\ d.out = b.out /\ d.initialized = b.initialized
         /\ \/ d = b
            \/ /\ d.loss /\ \E n \in 1 .. Len(q) :
                    d.list = SubSeq(q, n + 1, Len(q)) /\ d.prevSN = q[n].seq
               /\ d.gaveUp = b.gaveUp \/ d.gaveUp + Latency <= t
<1> DEFINE q == b.list
           stays == {k \in 1 .. Len(q) : JB!IsComplete(q, k) \/ q[k] \notin due}
           n == Min(stays \cup {Len(q) + 1}) - 1
           d == JB!DropIncomplete(b, due)
<1>1. /\ q \in Seq(JB!Packets(Ids)) /\ Len(q) \in Nat
      /\ \A k \in 1 .. Len(q) : q[k] \in JB!Packets(Ids)
  BY BufferFields
<1>2. n \in 0 .. Len(q) /\ \A k \in 1 .. n : q[k] \in due
  <2> DEFINE T == stays \cup {Len(q) + 1}
  <2>1. T \in SUBSET Nat /\ T # {} /\ Len(q) + 1 \in T /\ \A x \in T : x >= 1
    BY <1>1
  <2>2. Min(T) \in T /\ \A y \in T : Min(T) <= y
    <3> HIDE DEF T
    <3> QED BY <2>1, MinIs
  <2>3. n = Min(T) - 1 /\ Min(T) \in Nat /\ Min(T) <= Len(q) + 1 /\ Min(T) >= 1
    <3> HIDE DEF T
    <3>1. Min(T) \in Nat /\ Min(T) <= Len(q) + 1 /\ Min(T) >= 1
      BY <2>1, <2>2
    <3> QED BY <3>1 DEF T
  <2>4. ASSUME NEW k \in 1 .. n PROVE q[k] \in due
    <3>1. k \in 1 .. Len(q) /\ k \in Int /\ Min(T) \in Int /\ k < Min(T)
      <4> HIDE DEF T
      <4> QED BY <1>1, <2>3
    <3>2. k \notin T
      <4> HIDE DEF T, n
      <4> QED BY <2>2, <3>1
    <3> QED BY <3>1, <3>2
  <2> HIDE DEF n
  <2>5. n \in 0 .. Len(q)
    <3> HIDE DEF T
    <3> QED BY <1>1, <2>3
  <2> QED BY <2>4, <2>5
<1>3. d = IF n = 0 THEN b
          ELSE [b EXCEPT !.list = SubSeq(q, n + 1, Len(q)), !.prevSN = q[n].seq, !.loss = TRUE,
                         !.gaveUp = Max({@} \cup {q[k].at : k \in 1 .. n})]
  BY SameNames DEF JB!DropIncomplete
<1> HIDE DEF n, d
<1>4. CASE n = 0
  BY <1>3, <1>4 DEF JB!Buffers, d
<1>5. CASE n # 0
  <2> DEFINE last == Max({b.gaveUp} \cup {q[k].at : k \in 1 .. n})
  <2>1. n \in 1 .. Len(q) /\ q[n] \in JB!Packets(Ids) /\ q[n].seq \in 0 .. SeqMod - 1
    BY <1>1, <1>2, <1>5, PacketFields DEF Wires
  <2>2. \A k \in 1 .. n : q[k].at \in Nat /\ q[k].at + Latency <= t /\ q[k].at <= t
    BY <1>1, <1>2, PacketFields, Delays
  <2>3. last \in Nat /\ (last = b.gaveUp \/ \E k \in 1 .. n : last = q[k].at)
    <3>1. (1 .. n) \in SUBSET (1 .. Len(q)) /\ b.gaveUp \in Nat
      BY <2>1, BufferFields
    <3> HIDE DEF q
    <3> QED BY <1>1, <2>2, <3>1, GivenUpIs
  <2>4. SubSeq(q, n + 1, Len(q)) \in Seq(JB!Packets(Ids))
    BY <1>1, <1>2, RestIs
  <2> HIDE DEF last
  <2>5. d = [b EXCEPT !.list = SubSeq(q, n + 1, Len(q)), !.prevSN = q[n].seq, !.loss = TRUE,
                      !.gaveUp = last]
    BY <1>3, <1>5 DEF last
  <2>6. d \in JB!Buffers(Ids)
    BY <2>1, <2>3, <2>4, <2>5 DEF JB!Buffers
  <2>7. /\ d.out = b.out /\ d.initialized = b.initialized /\ d.loss /\ d.gaveUp = last
        /\ d.list = SubSeq(q, n + 1, Len(q)) /\ d.prevSN = q[n].seq
    BY <2>5 DEF JB!Buffers
  <2>8. last = b.gaveUp \/ last + Latency <= t
    BY <2>2, <2>3
  <2> QED BY <2>1, <2>6, <2>7, <2>8 DEF d
<1> QED BY <1>4, <1>5 DEF d

\* popSample takes frames from the head, and gives up on what is due before them.
LEMMA PopIs ==
  ASSUME NEW b \in JB!Buffers(Ids), NEW t \in Nat, NEW due,
         \A p \in due : p.at + Latency <= t
  PROVE  LET d == JB!PopFrames(b, due)
             q == b.list IN
         /\ d \in JB!Buffers(Ids)
         /\ \/ d = b
            \/ /\ d.initialized
               /\ \E n \in 1 .. Len(q) :
                    /\ JB!Poppable(b, due, n)
                    /\ d.list = SubSeq(q, n + 1, Len(q)) /\ d.prevSN = q[n].seq
                    /\ d.out = JB!PacketsAt(q, {k \in 1 .. n : q[k].media})
               /\ b.loss => d.loss
               /\ d.gaveUp = b.gaveUp \/ (d.loss /\ d.gaveUp + Latency <= t)
<1> DEFINE q == b.list
           T == {0} \cup {k \in 1 .. Len(q) : JB!Poppable(b, due, k)}
           n == Max(T)
           late == {k \in 1 .. n : JB!Begins(q, k) /\ ~JB!Follows(b, k)}
           d == JB!PopFrames(b, due)
<1>1. /\ q \in Seq(JB!Packets(Ids)) /\ Len(q) \in Nat
      /\ \A k \in 1 .. Len(q) : q[k] \in JB!Packets(Ids)
  BY BufferFields
<1>2. n \in 0 .. Len(q) /\ (n # 0 => JB!Poppable(b, due, n))
  <2>1. T \in SUBSET Int /\ T # {} /\ Len(q) \in Int /\ \A x \in T : x <= Len(q) /\ x >= 0
    BY <1>1
  <2>2. n \in T
    <3> HIDE DEF T
    <3> QED BY <2>1, MaxIs
  <2> HIDE DEF n
  <2> QED BY <1>1, <2>2
<1>3. d = IF n = 0 THEN b
          ELSE [b EXCEPT !.initialized = TRUE, !.prevSN = q[n].seq,
                         !.list = SubSeq(q, n + 1, Len(q)),
                         !.out = JB!PacketsAt(q, {k \in 1 .. n : q[k].media}),
                         !.loss = @ \/ late # {},
                         !.gaveUp = Max({@} \cup {q[k].at : k \in late})]
  BY SameNames DEF JB!PopFrames
<1> HIDE DEF n, d
<1>4. CASE n = 0
  BY <1>3, <1>4 DEF JB!Buffers, d
<1>5. CASE n # 0
  <2> DEFINE last == Max({b.gaveUp} \cup {q[k].at : k \in late})
             out == JB!PacketsAt(q, {k \in 1 .. n : q[k].media})
             rest == SubSeq(q, n + 1, Len(q))
             lost == b.loss \/ late # {}
  <2>1. n \in 1 .. Len(q) /\ q[n] \in JB!Packets(Ids) /\ q[n].seq \in 0 .. SeqMod - 1
    BY <1>1, <1>2, <1>5, PacketFields DEF Wires
  <2>2. ASSUME NEW k \in late PROVE q[k] \in due
    <3>1. k \in 1 .. n /\ JB!Begins(q, k) /\ ~JB!Follows(b, k)
      OBVIOUS
    <3> QED BY <1>2, <1>5, <3>1 DEF JB!Poppable
  <2>3. late \in SUBSET (1 .. Len(q)) /\ b.gaveUp \in Nat
    BY <1>1, <2>1, BufferFields
  <2>4. \A k \in late : q[k].at \in Nat /\ q[k].at + Latency <= t /\ q[k].at <= t
    BY <1>1, <2>2, <2>3, PacketFields, Delays
  <2>5. last \in Nat /\ (last = b.gaveUp \/ \E k \in late : last = q[k].at)
    <3> HIDE DEF q, late
    <3> QED BY <1>1, <2>3, <2>4, GivenUpIs
  <2>6. last = b.gaveUp \/ (lost /\ last + Latency <= t)
    BY <2>4, <2>5
  <2>7. rest \in Seq(JB!Packets(Ids))
    BY <1>1, <1>2, RestIs
  <2>8. out \in Seq(JB!Packets(Ids))
    <3>1. {k \in 1 .. n : q[k].media} \in SUBSET (1 .. Len(q))
      BY <1>1, <2>1
    <3> HIDE DEF q
    <3> QED BY <1>1, <3>1, PacketsAtAre
  <2>9. lost \in BOOLEAN
    BY BufferFields
  <2>10. d = [b EXCEPT !.initialized = TRUE, !.prevSN = q[n].seq, !.list = rest,
                       !.out = out, !.loss = lost, !.gaveUp = last]
    BY <1>3, <1>5
  <2> HIDE DEF last, out, rest, lost
  <2>11. d \in JB!Buffers(Ids)
    BY <2>1, <2>5, <2>7, <2>8, <2>9, <2>10 DEF JB!Buffers
  <2>12. /\ d.initialized /\ d.loss = lost /\ d.gaveUp = last
         /\ d.list = rest /\ d.prevSN = q[n].seq /\ d.out = out
    BY <2>10 DEF JB!Buffers
  <2>13. /\ d.list = SubSeq(q, n + 1, Len(q))
         /\ d.out = JB!PacketsAt(q, {k \in 1 .. n : q[k].media}) /\ (b.loss => d.loss)
    BY <2>12 DEF rest, out, lost
  <2> QED BY <1>2, <1>5, <2>1, <2>6, <2>11, <2>12, <2>13 DEF d
<1> QED BY <1>4, <1>5 DEF d

-----------------------------------------------------------------------------
(* Frames in a list *)

\* The packets of a list are packets of the stream, of those at S; a list is
\* in the order of the stream.
FromStream(q, S) ==
  \A k \in 1 .. Len(q) :
    /\ q[k].id \in S /\ q[k].seq = Wire(q[k].id)
    /\ q[k].start = Stream[q[k].id].start /\ q[k].end = Stream[q[k].id].end
    /\ q[k].media = Stream[q[k].id].media
Ordered(q) == \A k, l \in 1 .. Len(q) : k < l => q[k].id < q[l].id

IdsOf(q) == {q[k].id : k \in 1 .. Len(q)}
Whole(T) == \E F \in SUBSET SentFrames : T = UNION F

\* Where a list goes on without a hole, the stream does.
LEMMA RunIs ==
  ASSUME NEW q \in Seq(JB!Packets(Ids)), FromStream(q, Ids),
         NEW s \in 1 .. Len(q), NEW e \in 1 .. Len(q), s <= e,
         \A i \in s .. e - 1 : JB!Successive(q[i], q[i + 1])
  PROVE  \A k \in s .. e : q[k].id = q[s].id + (k - s)
<1>1. Len(q) \in Nat /\ s \in Nat /\ e \in Nat /\ s >= 1 /\ e <= Len(q)
  OBVIOUS
<1>2. ASSUME NEW k \in 1 .. Len(q)
      PROVE q[k].id \in Ids /\ q[k].seq = Wire(q[k].id) /\ q[k].id \in Int
  <2>1. q[k].id \in Ids /\ q[k].seq = Wire(q[k].id)
    BY DEF FromStream
  <2> QED BY <2>1, IdsAre
<1>3. ASSUME NEW i \in s .. e - 1 PROVE q[i + 1].id = q[i].id + 1
  <2>1. i \in 1 .. Len(q) /\ i + 1 \in 1 .. Len(q)
    BY <1>1
  <2>2. q[i + 1].seq = (q[i].seq + 1) % SeqMod
    BY <1>3 DEF JB!Successive
  <2>3. q[i].id \in Ids /\ q[i + 1].id \in Ids
    BY <1>2, <2>1
  <2>4. Wire(q[i + 1].id) = (Wire(q[i].id) + 1) % SeqMod
    BY <1>2, <2>1, <2>2
  <2> QED BY <2>3, <2>4, NextNumberIs
<1> DEFINE Bad == {k \in s .. e : q[k].id # q[s].id + (k - s)}
<1> SUFFICES ASSUME Bad # {} PROVE FALSE
  OBVIOUS
<1>4. Bad \in SUBSET Nat
  BY <1>1
<1>5. PICK k \in Bad : \A l \in Bad : k <= l
  <2> HIDE DEF Bad
  <2> QED BY <1>4, LeastNumber
<1>6. k \in Int /\ k >= s /\ k <= e /\ q[s].id \in Int
  BY <1>1, <1>2
<1>7. k # s
  BY <1>2, <1>6, <1>1
<1>8. k - 1 \in s .. e - 1 /\ ~(k - 1 \in Bad) /\ (k - 1) + 1 = k
  BY <1>1, <1>5, <1>6, <1>7
<1>9. q[k - 1].id = q[s].id + (k - 1 - s) /\ q[k].id = q[k - 1].id + 1
  BY <1>1, <1>3, <1>8
<1>10. q[k].id = q[s].id + (k - s)
  <2>1. (k - 1 - s) + 1 = k - s /\ k - 1 - s \in Int
    <3>1. \A x, y \in Int : (x - 1 - y) + 1 = x - y /\ x - 1 - y \in Int
      OBVIOUS
    <3>2. k \in Int /\ s \in Int
      BY <1>1, <1>6
    <3> HIDE DEF Bad
    <3> QED BY ONLY <3>1, <3>2
  <2> DEFINE a == q[s].id
             c == k - 1 - s
             x == q[k - 1].id
             y == q[k].id
  <2>2. a \in Int /\ c \in Int /\ x = a + c /\ y = x + 1 /\ c + 1 = k - s
    BY <1>6, <1>9, <2>1
  <2> HIDE DEF a, c, x, y
  <2>3. y = a + (c + 1)
    BY <2>2
  <2> QED BY <2>2, <2>3 DEF a, y
<1> QED BY <1>10

\* From a start to the first end after it, without a hole, a list has a frame.
LEMMA FrameAt ==
  ASSUME NEW q \in Seq(JB!Packets(Ids)), FromStream(q, Ids),
         NEW s \in 1 .. Len(q), NEW e \in 1 .. Len(q), s <= e,
         \A i \in s .. e - 1 : JB!Successive(q[i], q[i + 1]) /\ ~q[i].end,
         q[s].start, q[e].end
  PROVE  /\ q[s].id \in FrameStarts
         /\ FrameFrom(q[s].id) = {q[k].id : k \in {k \in s .. e : q[k].media}}
<1>1. Len(q) \in Nat /\ s \in Int /\ e \in Int /\ s >= 1 /\ e <= Len(q)
  OBVIOUS
<1>2. ASSUME NEW k \in 1 .. Len(q)
      PROVE /\ q[k].id \in Ids /\ q[k].id \in Int /\ 1 <= q[k].id /\ q[k].id <= Len(Stream)
            /\ q[k].start = Stream[q[k].id].start /\ q[k].end = Stream[q[k].id].end
            /\ q[k].media = Stream[q[k].id].media
  BY Sizes DEF FromStream, Ids
<1>3. \A k \in s .. e : q[k].id = q[s].id + (k - s)
  BY RunIs
<1> DEFINE i == q[s].id
           j == q[e].id
           N == Len(Stream)
<1>4. /\ i \in Ids /\ i \in Int /\ j \in Int /\ N \in Int /\ j <= N /\ i >= 1
      /\ j = i + (e - s) /\ i <= j
  <2>1. i \in Ids /\ i \in Int /\ j \in Int /\ N \in Int /\ j <= N /\ i >= 1
    BY <1>2, Sizes
  <2>2. e \in s .. e
    BY <1>1
  <2>3. j = i + (e - s)
    BY <1>3, <2>2
  <2> HIDE DEF i, j, N
  <2> QED BY <1>1, <2>1, <2>3
<1>5. Stream[i].start /\ Stream[j].end
  BY <1>2
<1>6. ASSUME NEW m \in Int, i <= m, m <= j
      PROVE  /\ s + (m - i) \in s .. e /\ q[s + (m - i)].id = m
             /\ q[s + (m - i)].media = Stream[m].media /\ q[s + (m - i)].end = Stream[m].end
  <2> DEFINE k == s + (m - i)
  <2>1. k \in s .. e /\ k \in 1 .. Len(q) /\ k - s = m - i
    <3> HIDE DEF i, j
    <3> QED BY <1>1, <1>4, <1>6
  <2>2. q[k].id = m
    <3>1. q[k].id = q[s].id + (k - s)
      BY <1>3, <2>1
    <3> HIDE DEF k
    <3> QED BY <1>4, <1>6, <2>1, <3>1
  <2> HIDE DEF k
  <2>3. q[k].media = Stream[m].media /\ q[k].end = Stream[m].end
    BY <1>2, <2>1, <2>2
  <2> QED BY <2>1, <2>2, <2>3 DEF k
<1>7. ASSUME NEW m \in Int, i <= m, m <= j - 1 PROVE ~Stream[m].end
  <2> DEFINE k == s + (m - i)
  <2>1. k \in s .. e /\ q[k].id = m /\ q[k].end = Stream[m].end
    <3>1. m <= j
      BY <1>4, <1>7
    <3> QED BY <1>6, <1>7, <3>1
  <2>2. k \in s .. e - 1
    <3> HIDE DEF i, j
    <3> QED BY <1>1, <1>4, <1>7
  <2> HIDE DEF k
  <2> QED BY <2>1, <2>2
<1>8. i \in FrameStarts
  <2>1. j \in i .. N
    BY <1>4
  <2> QED BY <1>4, <1>5, <2>1 DEF FrameStarts
<1> DEFINE T == {q[k].id : k \in {k \in s .. e : q[k].media}}
<1>9. ASSUME NEW m \in FrameFrom(i) PROVE m \in T
  <2>1. m \in i .. N /\ Stream[m].media /\ \A k \in i .. m - 1 : ~Stream[k].end
    BY DEF FrameFrom
  <2>2. m \in Int /\ i <= m
    BY <1>4, <2>1
  <2>3. m <= j
    <3> SUFFICES ASSUME j < m PROVE FALSE
      BY <1>4, <2>2
    <3>1. j \in i .. m - 1
      BY <1>4, <2>2
    <3> QED BY <1>5, <2>1, <3>1
  <2> DEFINE k == s + (m - i)
  <2>4. k \in s .. e /\ q[k].id = m /\ q[k].media
    BY <1>6, <2>1, <2>2, <2>3
  <2> HIDE DEF k
  <2> QED BY <2>4
<1>10. ASSUME NEW k \in s .. e, q[k].media PROVE q[k].id \in FrameFrom(i)
  <2> DEFINE m == q[k].id
  <2>1. k \in 1 .. Len(q) /\ k \in Int
    BY <1>1
  <2>2. m \in Int /\ m = i + (k - s) /\ m <= N /\ Stream[m].media
    BY <1>2, <1>3, <1>10, <2>1
  <2>3. i <= m /\ m <= j
    <3>1. s <= k /\ k <= e
      BY <1>1
    <3> HIDE DEF i, j, m
    <3> QED BY <1>1, <1>4, <2>1, <2>2, <3>1
  <2>4. ASSUME NEW l \in i .. m - 1 PROVE ~Stream[l].end
    <3>1. l \in Int /\ i <= l /\ l <= j - 1
      BY <1>4, <2>2, <2>3
    <3> QED BY <1>7, <3>1
  <2>5. m \in i .. N
    BY <1>4, <2>2, <2>3
  <2> QED BY <2>2, <2>4, <2>5 DEF FrameFrom
<1>11. FrameFrom(i) = T
  <2>1. ASSUME NEW m \in T PROVE m \in FrameFrom(i)
    <3>1. PICK k \in s .. e : q[k].media /\ m = q[k].id
      OBVIOUS
    <3> QED BY <1>10, <3>1
  <2> HIDE DEF T
  <2> QED BY <1>9, <2>1
<1> QED BY <1>8, <1>11

\* Places of a list are those of whole frames when each frame that starts at
\* one of B is among them, and each place follows such a start without an end.
LEMMA WholeAt ==
  ASSUME NEW q \in Seq(JB!Packets(Ids)), FromStream(q, Ids),
         NEW T \in SUBSET (1 .. Len(q)), NEW B \in SUBSET (1 .. Len(q)),
         \A s \in B : \E e \in s .. Len(q) :
           /\ q[s].start /\ q[e].end
           /\ \A i \in s .. e - 1 : JB!Successive(q[i], q[i + 1]) /\ ~q[i].end
           /\ \A k \in s .. e : k \in T,
         \A k \in T : \E s \in B : s <= k /\ \A i \in s .. k - 1 : ~q[i].end
  PROVE  Whole({q[k].id : k \in {k \in T : q[k].media}})
<1> DEFINE U == {q[k].id : k \in {k \in T : q[k].media}}
           F == {FrameFrom(q[s].id) : s \in B}
<1>1. Len(q) \in Nat
  OBVIOUS
<1>2. ASSUME NEW s \in B
      PROVE  \E e \in s .. Len(q) :
               /\ e \in 1 .. Len(q) /\ q[e].end /\ \A k \in s .. e : k \in T
               /\ q[s].id \in FrameStarts
               /\ FrameFrom(q[s].id) = {q[k].id : k \in {k \in s .. e : q[k].media}}
  <2>1. PICK e \in s .. Len(q) :
           /\ q[s].start /\ q[e].end
           /\ \A i \in s .. e - 1 : JB!Successive(q[i], q[i + 1]) /\ ~q[i].end
           /\ \A k \in s .. e : k \in T
    OBVIOUS
  <2>2. s \in 1 .. Len(q) /\ e \in 1 .. Len(q) /\ s <= e
    BY <1>1
  <2>3. /\ q[s].id \in FrameStarts
        /\ FrameFrom(q[s].id) = {q[k].id : k \in {k \in s .. e : q[k].media}}
    BY <2>1, <2>2, FrameAt
  <2> QED BY <2>1, <2>2, <2>3
<1>3. F \in SUBSET SentFrames
  <2>1. ASSUME NEW s \in B PROVE q[s].id \in FrameStarts
    BY <1>2
  <2> QED BY <2>1 DEF SentFrames
<1>4. ASSUME NEW x \in U PROVE x \in UNION F
  <2>1. PICK k \in T : q[k].media /\ x = q[k].id
    OBVIOUS
  <2>2. PICK s \in B : s <= k /\ \A i \in s .. k - 1 : ~q[i].end
    BY <2>1
  <2>3. PICK e \in s .. Len(q) :
          /\ e \in 1 .. Len(q) /\ q[e].end
          /\ FrameFrom(q[s].id) = {q[k_1].id : k_1 \in {k_1 \in s .. e : q[k_1].media}}
    BY <1>2
  <2>4. k \in Int /\ s \in Int /\ e \in Int /\ s <= e
    BY <1>1
  <2>5. k <= e
    <3> SUFFICES ASSUME e < k PROVE FALSE
      BY <2>4
    <3>1. e \in s .. k - 1
      BY <2>4
    <3> QED BY <2>2, <2>3, <3>1
  <2>6. k \in s .. e
    BY <2>2, <2>4, <2>5
  <2>7. x \in FrameFrom(q[s].id)
    BY <2>1, <2>3, <2>6
  <2> QED BY <2>7
<1>5. ASSUME NEW x \in UNION F PROVE x \in U
  <2>1. PICK s \in B : x \in FrameFrom(q[s].id)
    OBVIOUS
  <2>2. PICK e \in s .. Len(q) :
          /\ \A k \in s .. e : k \in T
          /\ FrameFrom(q[s].id) = {q[k].id : k \in {k \in s .. e : q[k].media}}
    BY <1>2
  <2>3. PICK k \in s .. e : q[k].media /\ x = q[k].id
    BY <2>1, <2>2
  <2> QED BY <2>2, <2>3
<1>6. U = UNION F
  <2> HIDE DEF U, F
  <2> QED BY <1>4, <1>5
<1> HIDE DEF F
<1> QED BY <1>3, <1>6 DEF Whole

\* What popSample releases is whole frames.
LEMMA PoppedIsWhole ==
  ASSUME NEW b \in JB!Buffers(Ids), FromStream(b.list, Ids), NEW due,
         NEW n \in 1 .. Len(b.list), JB!Poppable(b, due, n)
  PROVE  Whole({b.list[k].id : k \in {k \in 1 .. n : b.list[k].media}})
<1> DEFINE q == b.list
           B == {k \in 1 .. n : JB!Begins(q, k)}
<1>1. q \in Seq(JB!Packets(Ids)) /\ Len(q) \in Nat /\ n \in Nat /\ n >= 1 /\ n <= Len(q)
  BY BufferFields
<1>2. q[n].end /\ \A k \in 1 .. n : IF JB!Begins(q, k) THEN q[k].start
                                   ELSE JB!Successive(q[k - 1], q[k])
  BY DEF JB!Poppable
<1> HIDE DEF q
<1>3. \A k \in 1 .. n : JB!Begins(q, k) <=> k = 1 \/ q[k - 1].end
  BY DEF JB!Begins
<1>4. ASSUME NEW i \in 1 .. n - 1, ~q[i].end PROVE JB!Successive(q[i], q[i + 1])
  <2>1. i + 1 \in 1 .. n /\ i + 1 # 1 /\ (i + 1) - 1 = i
    BY <1>1
  <2> QED BY <1>2, <1>3, <1>4, <2>1
<1>5. ASSUME NEW s \in B
      PROVE \E e \in s .. Len(q) :
           /\ q[s].start /\ q[e].end
           /\ \A i \in s .. e - 1 : JB!Successive(q[i], q[i + 1]) /\ ~q[i].end
           /\ \A k \in s .. e : k \in 1 .. n
  <2> DEFINE Ends == {e \in s .. n : q[e].end}
  <2>1. s \in Nat /\ s >= 1 /\ s <= n /\ q[s].start
    BY <1>1, <1>2
  <2>2. Ends \in SUBSET Nat /\ n \in Ends
    BY <1>1, <1>2, <2>1
  <2>3. PICK e \in Ends : \A l \in Ends : e <= l
    <3> HIDE DEF Ends
    <3> QED BY <2>2, LeastNumber
  <2>4. e \in Int /\ s <= e /\ e <= n /\ q[e].end
    BY <1>1, <2>1
  <2>5. ASSUME NEW i \in s .. e - 1 PROVE JB!Successive(q[i], q[i + 1]) /\ ~q[i].end
    <3>1. i \in s .. n /\ i \in 1 .. n - 1 /\ ~(e <= i)
      BY <1>1, <2>1, <2>4
    <3>2. ~q[i].end
      BY <2>3, <3>1
    <3> QED BY <1>4, <3>1, <3>2
  <2>6. e \in s .. Len(q) /\ \A k \in s .. e : k \in 1 .. n
    BY <1>1, <2>1, <2>4
  <2> QED BY <2>1, <2>4, <2>5, <2>6
<1>6. ASSUME NEW k \in 1 .. n
      PROVE  \E s \in B : s <= k /\ \A i \in s .. k - 1 : ~q[i].end
  <2> DEFINE Before == {s \in 1 .. k : JB!Begins(q, s)}
  <2>1. k \in Int /\ 1 <= k /\ k <= n
    BY <1>1
  <2>2. Before \in SUBSET Int /\ 1 \in Before /\ \A s \in Before : s <= k /\ s \in B
    BY <1>1, <1>3, <2>1
  <2>3. PICK s \in Before : \A l \in Before : s >= l
    <3> HIDE DEF Before
    <3> QED BY <2>1, <2>2, MaxIs
  <2>4. ASSUME NEW i \in s .. k - 1 PROVE ~q[i].end
    <3>1. s \in Int /\ 1 <= s
      BY <2>2
    <3>2. i + 1 \in 1 .. k /\ i + 1 \in 1 .. n /\ ~(s >= i + 1) /\ (i + 1) - 1 = i
      BY <1>1, <2>1, <3>1
    <3>3. ~JB!Begins(q, i + 1)
      BY <2>3, <3>2
    <3> QED BY <1>3, <3>2, <3>3
  <2> QED BY <2>2, <2>3, <2>4
<1>7. B \in SUBSET (1 .. Len(q)) /\ (1 .. n) \in SUBSET (1 .. Len(q))
  BY <1>1
<1>8. FromStream(q, Ids)
  BY DEF q
<1> HIDE DEF B
<1>9. Whole({q[k].id : k \in {k \in 1 .. n : q[k].media}})
  BY <1>1, <1>5, <1>6, <1>7, <1>8, WholeAt
<1> QED BY <1>9 DEF q

\* So is what a flush releases.
LEMMA FlushedIsWhole ==
  ASSUME NEW q \in Seq(JB!Packets(Ids)), FromStream(q, Ids)
  PROVE  LET released == {k \in 1 .. Len(q) : \E s \in 1 .. k :
                            JB!IsComplete(q, s) /\ \A i \in s .. k - 1 : ~q[i].end}
         IN  Whole({q[k].id : k \in {k \in released : q[k].media}})
<1> DEFINE released == {k \in 1 .. Len(q) : \E s \in 1 .. k :
                          JB!IsComplete(q, s) /\ \A i \in s .. k - 1 : ~q[i].end}
           B == {s \in 1 .. Len(q) : JB!IsComplete(q, s)}
<1>1. Len(q) \in Nat
  OBVIOUS
<1>2. ASSUME NEW s \in B
      PROVE \E e \in s .. Len(q) :
           /\ q[s].start /\ q[e].end
           /\ \A i \in s .. e - 1 : JB!Successive(q[i], q[i + 1]) /\ ~q[i].end
           /\ \A k \in s .. e : k \in released
  <2>1. q[s].start /\ \E e \in s .. Len(q) :
                         q[e].end /\ \A i \in s .. e - 1 : JB!Successive(q[i], q[i + 1])
    BY DEF JB!IsComplete
  <2>2. PICK u \in s .. Len(q) :
          q[u].end /\ \A i \in s .. u - 1 : JB!Successive(q[i], q[i + 1])
    BY <2>1
  <2> DEFINE Ends == {e \in s .. u : q[e].end}
  <2>3. s \in Nat /\ s >= 1 /\ s <= u /\ u \in Int /\ u <= Len(q)
    BY <1>1
  <2>4. Ends \in SUBSET Nat /\ u \in Ends
    BY <2>2, <2>3
  <2>5. PICK e \in Ends : \A l \in Ends : e <= l
    <3> HIDE DEF Ends
    <3> QED BY <2>4, LeastNumber
  <2>6. e \in Int /\ s <= e /\ e <= u /\ q[e].end
    BY <2>3
  <2>7. ASSUME NEW i \in s .. e - 1 PROVE JB!Successive(q[i], q[i + 1]) /\ ~q[i].end
    <3>1. i \in s .. u - 1 /\ i \in s .. u /\ ~(e <= i)
      BY <2>3, <2>6
    <3> QED BY <2>2, <2>5, <3>1
  <2>8. ASSUME NEW k \in s .. e PROVE k \in released
    <3>1. k \in 1 .. Len(q) /\ s \in 1 .. k
      BY <1>1, <2>3, <2>6
    <3>2. \A i \in s .. k - 1 : i \in s .. e - 1
      BY <2>3, <2>6
    <3> QED BY <2>7, <3>1, <3>2
  <2>9. e \in s .. Len(q)
    BY <1>1, <2>3, <2>6
  <2> QED BY <2>1, <2>6, <2>7, <2>8, <2>9
<1>3. ASSUME NEW k \in released
      PROVE  \E s \in B : s <= k /\ \A i \in s .. k - 1 : ~q[i].end
  <2>1. k \in 1 .. Len(q)
    OBVIOUS
  <2>2. PICK s \in 1 .. k : JB!IsComplete(q, s) /\ \A i \in s .. k - 1 : ~q[i].end
    OBVIOUS
  <2>3. s \in 1 .. Len(q) /\ s <= k
    BY <1>1, <2>1
  <2> QED BY <2>2, <2>3
<1>4. B \in SUBSET (1 .. Len(q)) /\ released \in SUBSET (1 .. Len(q))
  OBVIOUS
<1> HIDE DEF B, released
<1>5. Whole({q[k].id : k \in {k \in released : q[k].media}})
  BY <1>2, <1>3, <1>4, WholeAt
<1> QED BY <1>5 DEF released

-----------------------------------------------------------------------------
(* What a call keeps of the buffer, and what it releases *)

\* What is listed has arrived, is in order and follows what was released.
AfterReleased(b) == b.initialized =>
  /\ b.prevSN \in {Wire(i) : i \in Ids}
  /\ \A k \in 1 .. Len(b.list) : PlaceOf(b.prevSN) < b.list[k].id
Good(b, S) ==
  b \in JB!Buffers(Ids) /\ FromStream(b.list, S) /\ Ordered(b.list) /\ AfterReleased(b)

\* The packets of a buffer's call from b to r are whole frames, in order, and
\* come after what was released before it.
Gives(b, r) ==
  /\ Ordered(r.out) /\ Whole(IdsOf(r.out))
  /\ b.initialized => r.initialized /\ PlaceOf(b.prevSN) <= PlaceOf(r.prevSN)
  /\ \A k \in 1 .. Len(r.out) :
       /\ r.initialized /\ r.out[k].id <= PlaceOf(r.prevSN)
       /\ b.initialized => PlaceOf(b.prevSN) < r.out[k].id

GaveUp(b, r, t) == r.gaveUp = b.gaveUp \/ (r.loss /\ r.gaveUp + Latency <= t)

LEMMA PlaceOfIs ==
  ASSUME NEW n \in {Wire(i) : i \in Ids}
  PROVE  PlaceOf(n) \in Ids /\ PlaceOf(n) \in Int /\ Wire(PlaceOf(n)) = n
BY PlaceIs, IdsAre

LEMMA OutIs ==
  ASSUME NEW q \in Seq(JB!Packets(Ids)), FromStream(q, Ids), Ordered(q),
         NEW S \in SUBSET (1 .. Len(q))
  PROVE  LET out == JB!PacketsAt(q, S) IN
         /\ out \in Seq(JB!Packets(Ids)) /\ Ordered(out)
         /\ IdsOf(out) = {q[k].id : k \in S}
<1> DEFINE out == JB!PacketsAt(q, S)
           n == Cardinality(S)
<1>1. PICK f \in [1 .. n -> S] :
        /\ n \in Nat
        /\ \A i, j \in 1 .. n : i < j => f[i] < f[j]
        /\ \A k \in S : \E i \in 1 .. n : f[i] = k
        /\ out = [i \in 1 .. n |-> q[f[i]]]
        /\ out \in Seq(JB!Packets(Ids))
  BY PacketsAtAre
<1> HIDE DEF out, n
<1>2. Len(out) = n /\ \A i \in 1 .. n : out[i] = q[f[i]] /\ f[i] \in S
  BY <1>1
<1>3. Ordered(out)
  <2>1. ASSUME NEW i \in 1 .. n, NEW j \in 1 .. n, i < j PROVE out[i].id < out[j].id
    <3>1. f[i] < f[j] /\ f[i] \in 1 .. Len(q) /\ f[j] \in 1 .. Len(q)
      BY <1>1, <1>2, <2>1
    <3> QED BY <1>2, <3>1 DEF Ordered
  <2> QED BY <1>2, <2>1 DEF Ordered
<1>4. IdsOf(out) = {q[k].id : k \in S}
  <2>1. ASSUME NEW x \in IdsOf(out) PROVE x \in {q[k].id : k \in S}
    <3>1. PICK i \in 1 .. n : x = out[i].id
      BY <1>2 DEF IdsOf
    <3>2. f[i] \in S /\ x = q[f[i]].id
      BY <1>2, <3>1
    <3> QED BY <3>2
  <2>2. ASSUME NEW k \in S PROVE q[k].id \in IdsOf(out)
    <3>1. PICK i \in 1 .. n : f[i] = k
      BY <1>1
    <3> QED BY <1>2, <3>1 DEF IdsOf
  <2> QED BY <2>1, <2>2
<1> QED BY <1>1, <1>3, <1>4 DEF out

\* A part of a list is ordered and of the stream too.
LEMMA RestKeeps ==
  ASSUME NEW q \in Seq(JB!Packets(Ids)), NEW S \in SUBSET Ids, FromStream(q, S), Ordered(q),
         NEW n \in 1 .. Len(q)
  PROVE  LET r == SubSeq(q, n + 1, Len(q)) IN
         /\ FromStream(r, S) /\ Ordered(r)
         /\ q[n].seq \in {Wire(i) : i \in Ids} /\ PlaceOf(q[n].seq) = q[n].id
         /\ \A k \in 1 .. Len(r) : q[n].id < r[k].id
         /\ \A k \in 1 .. n : q[k].id <= q[n].id
<1> DEFINE r == SubSeq(q, n + 1, Len(q))
<1>1. Len(q) \in Nat /\ n \in Int /\ 1 <= n /\ n <= Len(q) /\ n \in 0 .. Len(q)
  OBVIOUS
<1>2. Len(r) = Len(q) - n /\ \A k \in 1 .. Len(q) - n : r[k] = q[n + k]
  BY <1>1, RestIs
<1> HIDE DEF r
<1>3. ASSUME NEW k \in 1 .. Len(r) PROVE r[k] = q[n + k] /\ n + k \in 1 .. Len(q) /\ n < n + k
  BY <1>1, <1>2
<1>4. FromStream(r, S)
  BY <1>3 DEF FromStream
<1>5. Ordered(r)
  <2>1. ASSUME NEW k \in 1 .. Len(r), NEW l \in 1 .. Len(r), k < l PROVE r[k].id < r[l].id
    <3>1. n + k < n + l
      BY <1>1, <1>2, <2>1
    <3> QED BY <1>3, <3>1 DEF Ordered
  <2> QED BY <2>1 DEF Ordered
<1>6. q[n].id \in Ids /\ q[n].seq = Wire(q[n].id)
  BY DEF FromStream
<1>7. \A k \in 1 .. Len(r) : q[n].id < r[k].id
  BY <1>3 DEF Ordered
<1>8. ASSUME NEW k \in 1 .. n PROVE q[k].id <= q[n].id
  <2>1. k \in 1 .. Len(q) /\ (k = n \/ k < n)
    BY <1>1
  <2>2. q[k].id \in Int /\ q[n].id \in Int
    <3>1. q[k].id \in Ids /\ q[n].id \in Ids
      BY <2>1 DEF FromStream
    <3> QED BY <3>1, IdsAre
  <2>3. k < n => q[k].id < q[n].id
    BY <2>1 DEF Ordered
  <2> QED BY <2>1, <2>2, <2>3
<1> QED BY <1>4, <1>5, <1>6, <1>7, <1>8, PlaceIs DEF r

LEMMA DropKeeps ==
  ASSUME NEW S \in SUBSET Ids, NEW b, Good(b, S), NEW t \in Nat, NEW due,
         \A p \in due : p.at + Latency <= t
  PROVE  LET d == JB!DropIncomplete(b, due) IN
         /\ Good(d, S) /\ GaveUp(b, d, t) /\ d.out = b.out /\ d.initialized = b.initialized
         /\ b.initialized => PlaceOf(b.prevSN) <= PlaceOf(d.prevSN)
<1> DEFINE d == JB!DropIncomplete(b, due)
           q == b.list
<1>1. b \in JB!Buffers(Ids) /\ q \in Seq(JB!Packets(Ids)) /\ FromStream(q, S) /\ Ordered(q)
  BY BufferFields DEF Good
<1>2. /\ d \in JB!Buffers(Ids) /\ d.out = b.out /\ d.initialized = b.initialized
      /\ \/ d = b
         \/ /\ d.loss /\ \E n \in 1 .. Len(q) :
                 d.list = SubSeq(q, n + 1, Len(q)) /\ d.prevSN = q[n].seq
            /\ d.gaveUp = b.gaveUp \/ d.gaveUp + Latency <= t
  BY <1>1, DropIs
<1>3. b.initialized => b.prevSN \in {Wire(i) : i \in Ids}
                       /\ PlaceOf(b.prevSN) \in Int
  BY PlaceOfIs DEF Good, AfterReleased
<1> HIDE DEF d
<1>4. CASE d = b
  BY <1>2, <1>3, <1>4 DEF GaveUp, d
<1>5. CASE d # b
  <2>1. PICK n \in 1 .. Len(q) : d.list = SubSeq(q, n + 1, Len(q)) /\ d.prevSN = q[n].seq
    BY <1>2, <1>5
  <2>2. /\ FromStream(d.list, S) /\ Ordered(d.list)
        /\ d.prevSN \in {Wire(i) : i \in Ids} /\ PlaceOf(d.prevSN) = q[n].id
        /\ \A k \in 1 .. Len(d.list) : q[n].id < d.list[k].id
    <3> HIDE DEF q
    <3> QED BY <1>1, <2>1, RestKeeps
  <2>3. q[n].id \in Int
    BY <2>2, PlaceOfIs
  <2>4. b.initialized => PlaceOf(b.prevSN) <= PlaceOf(d.prevSN)
    <3>1. b.initialized => PlaceOf(b.prevSN) < q[n].id
      BY DEF Good, AfterReleased
    <3> QED BY <1>3, <2>2, <2>3, <3>1
  <2>5. Good(d, S)
    BY <1>2, <2>2 DEF Good, AfterReleased
  <2>6. GaveUp(b, d, t)
    BY <1>2, <1>5 DEF GaveUp
  <2> QED BY <1>2, <2>4, <2>5, <2>6 DEF d
<1> QED BY <1>4, <1>5

LEMMA PopKeeps ==
  ASSUME NEW S \in SUBSET Ids, NEW b, Good(b, S), b.out = <<>>, NEW t \in Nat, NEW due,
         \A p \in due : p.at + Latency <= t
  PROVE  LET d == JB!PopFrames(b, due) IN
         Good(d, S) /\ GaveUp(b, d, t) /\ (b.loss => d.loss) /\ Gives(b, d)
<1> DEFINE d == JB!PopFrames(b, due)
           q == b.list
<1>1. b \in JB!Buffers(Ids) /\ q \in Seq(JB!Packets(Ids)) /\ FromStream(q, S) /\ Ordered(q)
  BY BufferFields DEF Good
<1>2. FromStream(q, Ids)
  BY <1>1 DEF FromStream
<1>3. /\ d \in JB!Buffers(Ids)
      /\ \/ d = b
         \/ /\ d.initialized
            /\ \E n \in 1 .. Len(q) :
                 /\ JB!Poppable(b, due, n)
                 /\ d.list = SubSeq(q, n + 1, Len(q)) /\ d.prevSN = q[n].seq
                 /\ d.out = JB!PacketsAt(q, {k \in 1 .. n : q[k].media})
            /\ b.loss => d.loss
            /\ d.gaveUp = b.gaveUp \/ (d.loss /\ d.gaveUp + Latency <= t)
  BY <1>1, PopIs
<1>4. b.initialized => b.prevSN \in {Wire(i) : i \in Ids}
                       /\ PlaceOf(b.prevSN) \in Int
  BY PlaceOfIs DEF Good, AfterReleased
<1> HIDE DEF d
<1>5. CASE d = b
  <2>1. Ordered(b.out) /\ IdsOf(b.out) = {} /\ Len(b.out) = 0
    BY DEF Ordered, IdsOf
  <2>2. Whole({})
    <3>1. {} \in SUBSET SentFrames /\ UNION {} = {}
      OBVIOUS
    <3> QED BY <3>1, Zenon DEF Whole
  <2>3. Gives(b, b)
    <3>1. b.initialized => b.initialized /\ PlaceOf(b.prevSN) <= PlaceOf(b.prevSN)
      BY <1>4
    <3>2. \A k \in 1 .. Len(b.out) : FALSE
      BY <2>1
    <3> QED BY <2>1, <2>2, <3>1, <3>2 DEF Gives
  <2> QED BY <1>5, <2>3 DEF GaveUp, d
<1>6. CASE d # b
  <2>1. PICK n \in 1 .. Len(q) :
          /\ JB!Poppable(b, due, n)
          /\ d.list = SubSeq(q, n + 1, Len(q)) /\ d.prevSN = q[n].seq
          /\ d.out = JB!PacketsAt(q, {k \in 1 .. n : q[k].media})
    BY <1>3, <1>6
  <2> DEFINE R == {k \in 1 .. n : q[k].media}
  <2>2. R \in SUBSET (1 .. Len(q)) /\ R \subseteq 1 .. n
    <3>1. Len(q) \in Nat /\ n <= Len(q)
      BY <1>1
    <3> QED BY <3>1
  <2>3. /\ FromStream(d.list, S) /\ Ordered(d.list)
        /\ d.prevSN \in {Wire(i) : i \in Ids} /\ PlaceOf(d.prevSN) = q[n].id
        /\ \A k \in 1 .. Len(d.list) : q[n].id < d.list[k].id
        /\ \A k \in 1 .. n : q[k].id <= q[n].id
    <3> HIDE DEF q
    <3> QED BY <1>1, <2>1, RestKeeps
  <2>4. Whole({q[k].id : k \in R})
    BY <1>1, <1>2, <2>1, PoppedIsWhole
  <2>5. d.out \in Seq(JB!Packets(Ids)) /\ Ordered(d.out) /\ IdsOf(d.out) = {q[k].id : k \in R}
    <3> HIDE DEF q, R
    <3> QED BY <1>1, <1>2, <2>1, <2>2, OutIs DEF R
  <2>6. q[n].id \in Int
    BY <2>3, PlaceOfIs
  <2>7. \A k \in 1 .. Len(q) : b.initialized => PlaceOf(b.prevSN) < q[k].id
    BY DEF Good, AfterReleased
  <2>8. b.initialized => PlaceOf(b.prevSN) <= PlaceOf(d.prevSN)
    BY <1>4, <2>3, <2>6, <2>7
  <2>9. ASSUME NEW k \in 1 .. Len(d.out)
        PROVE  /\ d.initialized /\ d.out[k].id <= PlaceOf(d.prevSN)
               /\ b.initialized => PlaceOf(b.prevSN) < d.out[k].id
    <3>1. d.out[k].id \in {q[l].id : l \in R}
      BY <2>5 DEF IdsOf
    <3>2. PICK l \in R : d.out[k].id = q[l].id
      BY <3>1
    <3> HIDE DEF R
    <3> QED BY <1>3, <1>6, <2>2, <2>3, <2>7, <3>2
  <2>10. Gives(b, d)
    BY <1>3, <1>6, <2>4, <2>5, <2>8, <2>9 DEF Gives
  <2>11. Good(d, S)
    BY <1>3, <2>3 DEF Good, AfterReleased
  <2>12. GaveUp(b, d, t) /\ (b.loss => d.loss)
    BY <1>3, <1>6 DEF GaveUp
  <2> QED BY <2>10, <2>11, <2>12 DEF d
<1> QED BY <1>5, <1>6

\* popReady keeps the buffer, and releases whole frames.
LEMMA PopReadyKeeps ==
  ASSUME NEW S \in SUBSET Ids, NEW b, Good(b, S), NEW t \in Nat
  PROVE  LET r == JB!PopReady(b, t) IN Good(r, S) /\ GaveUp(b, r, t) /\ Gives(b, r)
<1> DEFINE due == {p \in {b.list[k] : k \in DOMAIN b.list} : JB!Expired(p, t)}
           fresh == [b EXCEPT !.out = <<>>, !.loss = FALSE]
           d == JB!DropIncomplete(fresh, due)
           r == JB!PopFrames(d, due)
<1>1. JB!PopReady(b, t) = JB!PopFrames(JB!DropIncomplete(fresh, due), due)
  BY DEF JB!PopReady
<1>2. \A p \in due : p.at + Latency <= t
  BY DEF JB!Expired
<1> HIDE DEF due, d, r
<1>3. /\ fresh \in JB!Buffers(Ids) /\ fresh.out = <<>> /\ ~fresh.loss
      /\ fresh.initialized = b.initialized /\ fresh.prevSN = b.prevSN
      /\ fresh.list = b.list /\ fresh.gaveUp = b.gaveUp
  <2>1. b \in JB!Buffers(Ids)
    BY DEF Good
  <2>2. <<>> \in Seq(JB!Packets(Ids))
    OBVIOUS
  <2> QED BY <2>1, <2>2 DEF JB!Buffers
<1> HIDE DEF fresh
<1>4. Good(fresh, S)
  BY <1>3 DEF Good, AfterReleased
<1>5. /\ Good(d, S) /\ GaveUp(fresh, d, t) /\ d.out = fresh.out
      /\ d.initialized = fresh.initialized
      /\ fresh.initialized => PlaceOf(fresh.prevSN) <= PlaceOf(d.prevSN)
  <2>1. Good(d, S)
    BY <1>2, <1>4, DropKeeps DEF d
  <2>2. GaveUp(fresh, d, t)
    BY <1>2, <1>4, DropKeeps DEF d
  <2>3. d.out = fresh.out
    BY <1>2, <1>4, DropKeeps DEF d
  <2>4. d.initialized = fresh.initialized
    BY <1>2, <1>4, DropKeeps DEF d
  <2>5. fresh.initialized => PlaceOf(fresh.prevSN) <= PlaceOf(d.prevSN)
    BY <1>2, <1>4, DropKeeps DEF d
  <2> QED BY <2>1, <2>2, <2>3, <2>4, <2>5
<1>6. Good(r, S) /\ GaveUp(d, r, t) /\ (d.loss => r.loss) /\ Gives(d, r)
  <2>1. d.out = <<>>
    BY <1>3, <1>5
  <2> QED BY <1>2, <1>5, <2>1, PopKeeps, Zenon DEF r
<1>7. GaveUp(b, r, t)
  BY <1>3, <1>5, <1>6 DEF GaveUp
<1>8. Gives(b, r)
  <2>1. CASE ~b.initialized
    BY <1>3, <1>5, <1>6, <2>1 DEF Gives
  <2>2. CASE b.initialized
    <3>1. /\ PlaceOf(b.prevSN) \in Int /\ PlaceOf(d.prevSN) \in Int
          /\ r.initialized => PlaceOf(r.prevSN) \in Int
      BY <1>3, <1>5, <1>6, <2>2, PlaceOfIs DEF Good, AfterReleased
    <3>2. \A k \in 1 .. Len(r.out) : r.out[k].id \in Int
      <4>1. r.out \in Seq(JB!Packets(Ids))
        BY <1>6, BufferFields DEF Good
      <4>2. \A k \in 1 .. Len(r.out) : r.out[k] \in JB!Packets(Ids)
        BY <4>1
      <4> QED BY <4>2, PacketFields, IdsAre
    <3>3. r.initialized /\ PlaceOf(d.prevSN) <= PlaceOf(r.prevSN)
      BY <1>3, <1>5, <1>6, <2>2 DEF Gives
    <3>4. PlaceOf(b.prevSN) <= PlaceOf(d.prevSN)
      BY <1>3, <1>5, <2>2
    <3>5. PlaceOf(b.prevSN) <= PlaceOf(r.prevSN)
      BY <3>1, <3>3, <3>4
    <3>6. ASSUME NEW k \in 1 .. Len(r.out) PROVE PlaceOf(b.prevSN) < r.out[k].id
      <4>1. PlaceOf(d.prevSN) < r.out[k].id
        BY <1>3, <1>5, <1>6, <2>2 DEF Gives
      <4> QED BY <3>1, <3>2, <3>4, <4>1
    <3> QED BY <1>6, <3>3, <3>5, <3>6 DEF Gives
  <2> QED BY <2>1, <2>2
<1> QED BY <1>1, <1>6, <1>7, <1>8 DEF r, d

-----------------------------------------------------------------------------
(* Where a packet is put *)

Inserted(q, k, p, r) ==
  /\ r \in Seq(JB!Packets(Ids)) /\ Len(r) = Len(q) + 1 /\ r[k] = p
  /\ \A l \in 1 .. k - 1 : r[l] = q[l]
  /\ \A l \in k + 1 .. Len(r) : r[l] = q[l - 1]

LEMMA AtHead ==
  ASSUME NEW q \in Seq(JB!Packets(Ids)), NEW p \in JB!Packets(Ids)
  PROVE  Inserted(q, 1, p, <<p>> \o q)
<1>1. <<p>> \in Seq(JB!Packets(Ids)) /\ Len(<<p>>) = 1 /\ <<p>>[1] = p /\ Len(q) \in Nat
  OBVIOUS
<1>2. /\ <<p>> \o q \in Seq(JB!Packets(Ids)) /\ Len(<<p>> \o q) = 1 + Len(q)
      /\ \A l \in 1 .. 1 + Len(q) : (<<p>> \o q)[l] = IF l <= 1 THEN <<p>>[l] ELSE q[l - 1]
  BY <1>1, ConcatProperties
<1> QED BY <1>1, <1>2 DEF Inserted

LEMMA AtTail ==
  ASSUME NEW q \in Seq(JB!Packets(Ids)), NEW p \in JB!Packets(Ids)
  PROVE  Inserted(q, Len(q) + 1, p, Append(q, p))
BY DEF Inserted

LEMMA Between ==
  ASSUME NEW q \in Seq(JB!Packets(Ids)), NEW p \in JB!Packets(Ids), NEW k \in 1 .. Len(q)
  PROVE  Inserted(q, k, p, JB!InsertAt(q, k, p))
<1> DEFINE u == SubSeq(q, 1, k - 1)
           v == SubSeq(q, k, Len(q))
           w == u \o <<p>>
           r == w \o v
<1>1. Len(q) \in Nat /\ k \in Int /\ 1 <= k /\ k <= Len(q)
  OBVIOUS
<1>2. /\ u \in Seq(JB!Packets(Ids)) /\ Len(u) = k - 1
      /\ \A l \in 1 .. k - 1 : u[l] = q[l]
  BY <1>1
<1>3. /\ v \in Seq(JB!Packets(Ids)) /\ Len(v) = Len(q) - (k - 1)
      /\ \A l \in 1 .. Len(q) - (k - 1) : v[l] = q[(k - 1) + l]
  <2>1. k - 1 \in 0 .. Len(q) /\ (k - 1) + 1 = k
    BY <1>1
  <2> DEFINE n == k - 1
  <2>2. /\ SubSeq(q, n + 1, Len(q)) \in Seq(JB!Packets(Ids))
        /\ Len(SubSeq(q, n + 1, Len(q))) = Len(q) - n
        /\ \A l \in 1 .. Len(q) - n : SubSeq(q, n + 1, Len(q))[l] = q[n + l]
    <3> HIDE DEF n
    <3>1. n \in 0 .. Len(q)
      BY <2>1 DEF n
    <3> QED BY <3>1, RestIs
  <2> QED BY <2>1, <2>2
<1>4. JB!InsertAt(q, k, p) = r
  BY DEF JB!InsertAt
<1> HIDE DEF u, v
<1>5. w \in Seq(JB!Packets(Ids)) /\ Len(w) = k /\ w[k] = p /\ \A l \in 1 .. k - 1 : w[l] = q[l]
  <2>1. <<p>> \in Seq(JB!Packets(Ids)) /\ Len(<<p>>) = 1 /\ <<p>>[1] = p
    OBVIOUS
  <2>2. /\ w \in Seq(JB!Packets(Ids)) /\ Len(w) = Len(u) + 1
        /\ \A l \in 1 .. Len(u) + 1 : w[l] = IF l <= Len(u) THEN u[l] ELSE <<p>>[l - Len(u)]
    BY <1>2, <2>1, ConcatProperties
  <2> HIDE DEF w
  <2> QED BY <1>1, <1>2, <2>1, <2>2
<1> HIDE DEF w
<1>6. /\ r \in Seq(JB!Packets(Ids)) /\ Len(r) = k + Len(v)
      /\ \A l \in 1 .. k + Len(v) : r[l] = IF l <= k THEN w[l] ELSE v[l - k]
  <2>1. /\ r \in Seq(JB!Packets(Ids)) /\ Len(r) = Len(w) + Len(v)
        /\ \A l \in 1 .. Len(w) + Len(v) : r[l] = IF l <= Len(w) THEN w[l] ELSE v[l - Len(w)]
    BY <1>3, <1>5, ConcatProperties
  <2> HIDE DEF r
  <2> QED BY <1>5, <2>1
<1> HIDE DEF r
<1>7. Len(r) = Len(q) + 1
  BY <1>1, <1>3, <1>6
<1>8. r[k] = p /\ \A l \in 1 .. k - 1 : r[l] = q[l]
  <2>1. \A l \in 1 .. k : l \in 1 .. k + Len(v) /\ l <= k
    BY <1>1, <1>3
  <2> QED BY <1>1, <1>5, <1>6, <2>1
<1>9. ASSUME NEW l \in k + 1 .. Len(r) PROVE r[l] = q[l - 1]
  <2>1. l \in Int /\ l - k \in 1 .. Len(q) - (k - 1) /\ (k - 1) + (l - k) = l - 1
        /\ l \in 1 .. k + Len(v) /\ ~(l <= k)
    BY <1>1, <1>3, <1>7
  <2>2. r[l] = v[l - k]
    BY <1>6, <2>1
  <2> QED BY <1>3, <2>1, <2>2
<1> QED BY <1>4, <1>6, <1>7, <1>8, <1>9 DEF Inserted

\* The packet p as the stream has it.
IsSent(p) ==
  /\ p \in JB!Packets(Ids) /\ p.seq = Wire(p.id)
  /\ p.start = Stream[p.id].start /\ p.end = Stream[p.id].end /\ p.media = Stream[p.id].media

LEMMA InsertedKeeps ==
  ASSUME NEW q \in Seq(JB!Packets(Ids)), NEW S \in SUBSET Ids, FromStream(q, S), Ordered(q),
         NEW p, IsSent(p), NEW k \in 1 .. Len(q) + 1, NEW r, Inserted(q, k, p, r),
         \A l \in 1 .. Len(q) : IF l < k THEN q[l].id < p.id ELSE p.id < q[l].id
  PROVE  /\ FromStream(r, S \cup {p.id}) /\ Ordered(r)
         /\ IdsOf(r) \subseteq IdsOf(q) \cup {p.id}
<1>1. Len(q) \in Nat /\ k \in Int /\ 1 <= k /\ k <= Len(q) + 1 /\ Len(r) = Len(q) + 1
  BY DEF Inserted
<1>2. ASSUME NEW l \in 1 .. Len(r)
      PROVE  \/ l < k /\ l \in 1 .. Len(q) /\ r[l] = q[l]
             \/ l = k /\ r[l] = p
             \/ l > k /\ l - 1 \in 1 .. Len(q) /\ r[l] = q[l - 1]
  <2>1. l \in Int /\ 1 <= l /\ l <= Len(q) + 1
    BY <1>1
  <2>2. l < k => l \in 1 .. k - 1 /\ l \in 1 .. Len(q)
    BY <1>1, <2>1
  <2>3. l > k => l \in k + 1 .. Len(r) /\ l - 1 \in 1 .. Len(q)
    BY <1>1, <2>1
  <2>4. l < k \/ l = k \/ l > k
    BY <1>1, <2>1
  <2> QED BY <2>2, <2>3, <2>4 DEF Inserted
<1>3. ASSUME NEW l \in 1 .. Len(r)
      PROVE  /\ r[l].id \in S \cup {p.id} /\ r[l].seq = Wire(r[l].id)
             /\ r[l].start = Stream[r[l].id].start /\ r[l].end = Stream[r[l].id].end
             /\ r[l].media = Stream[r[l].id].media
  <2>1. CASE r[l] = p
    BY <2>1 DEF IsSent
  <2>2. CASE r[l] # p
    <3>1. PICK m \in 1 .. Len(q) : r[l] = q[m]
      BY <1>2, <2>2
    <3> QED BY <3>1 DEF FromStream
  <2> QED BY <2>1, <2>2
<1>4. Ordered(r)
  <2> SUFFICES ASSUME NEW l \in 1 .. Len(r), NEW m \in 1 .. Len(r), l < m
               PROVE  r[l].id < r[m].id
    BY DEF Ordered
  <2>0. l \in Int /\ m \in Int /\ l < m
    BY <1>1
  <2>1. CASE m < k
    <3>1. l < k
      BY <1>1, <2>0, <2>1
    <3>2. l \in 1 .. Len(q) /\ r[l] = q[l] /\ m \in 1 .. Len(q) /\ r[m] = q[m]
      BY <1>1, <1>2, <2>0, <2>1, <3>1
    <3> QED BY <2>0, <3>2 DEF Ordered
  <2>2. CASE m = k
    <3>1. l < k
      BY <1>1, <2>0, <2>2
    <3>2. l \in 1 .. Len(q) /\ r[l] = q[l] /\ r[m] = p
      BY <1>1, <1>2, <2>0, <2>2, <3>1
    <3> QED BY <3>1, <3>2
  <2>3. CASE m > k
    <3>1. m - 1 \in 1 .. Len(q) /\ r[m] = q[m - 1]
      BY <1>1, <1>2, <2>0, <2>3
    <3>2. CASE l < k
      <4>1. l \in 1 .. Len(q) /\ r[l] = q[l] /\ l < m - 1
        BY <1>1, <1>2, <2>0, <2>3, <3>2
      <4> QED BY <3>1, <4>1 DEF Ordered
    <3>3. CASE l = k
      <4>1. r[l] = p /\ ~(m - 1 < k)
        BY <1>1, <1>2, <2>0, <2>3, <3>3
      <4> QED BY <3>1, <4>1
    <3>4. CASE l > k
      <4>1. l - 1 \in 1 .. Len(q) /\ r[l] = q[l - 1] /\ l - 1 < m - 1
        BY <1>1, <1>2, <2>0, <3>4
      <4> QED BY <3>1, <4>1 DEF Ordered
    <3> QED BY <1>1, <2>0, <3>2, <3>3, <3>4
  <2> QED BY <1>1, <2>0, <2>1, <2>2, <2>3
<1>5. FromStream(r, S \cup {p.id})
  BY <1>3, Zenon DEF FromStream
<1>6. ASSUME NEW l \in 1 .. Len(r) PROVE r[l].id \in IdsOf(q) \cup {p.id}
  BY <1>2 DEF IdsOf
<1>7. IdsOf(r) \subseteq IdsOf(q) \cup {p.id}
  BY <1>6 DEF IdsOf
<1> QED BY <1>4, <1>5, <1>7

\* push puts a packet where it belongs: none that came is more than a window
\* newer, so that a packet of what seems another stream is newer than all.
LEMMA PlaceKeeps ==
  ASSUME NEW S \in SUBSET Ids, NEW b, Good(b, S), NEW p, IsSent(p), p.id \notin S,
         \A j \in S : j - p.id < WindowSize,
         b.initialized => PlaceOf(b.prevSN) < p.id
  PROVE  Good([b EXCEPT !.list = JB!Place(b, p)], S \cup {p.id})
<1> DEFINE q == b.list
           n == Len(q)
           i == p.id
           far(k) == ~JB!WithinRange(p.seq, q[k].seq)
           new == ~b.initialized \/ ~JB!WithinRange(p.seq, b.prevSN)
           behind == {k \in 1 .. n - 1 : far(k) \/ ~JB!Before(p.seq, q[k].seq)}
           ahead == {k \in 2 .. n : far(k) \/ JB!Before(p.seq, q[k].seq)}
           placed == JB!Place(b, p)
<1>1. /\ b \in JB!Buffers(Ids) /\ q \in Seq(JB!Packets(Ids)) /\ FromStream(q, S) /\ Ordered(q)
      /\ n \in Nat
  BY BufferFields DEF Good
<1>2. placed =
      IF n = 0 THEN <<JB!With(p, new)>>
      ELSE IF JB!Before(p.seq, q[1].seq) /\ ~far(1) THEN <<JB!With(p, new)>> \o q
      ELSE IF ~JB!Before(p.seq, q[n].seq) /\ ~far(n) THEN Append(q, p)
      ELSE IF ~far(n)
        THEN IF behind = {} THEN q
             ELSE JB!InsertAt(q, Max(behind) + 1, JB!With(p, far(Max(behind))))
      ELSE IF ~far(1)
        THEN IF ahead = {} THEN q ELSE JB!InsertAt(q, JB!Min(ahead), p)
      ELSE Append(q, JB!With(p, TRUE))
  BY SameNames DEF JB!Place
<1>3. i \in Ids /\ i \in Int /\ p \in JB!Packets(Ids) /\ p.seq = Wire(i)
  BY PacketFields, IdsAre DEF IsSent
<1>4. ASSUME NEW k \in 1 .. n
      PROVE  /\ q[k].id \in S /\ q[k].id \in Int /\ q[k].id # i
             /\ far(k) <=> i - q[k].id >= ResetDistance
             /\ far(k) => q[k].id < i
             /\ JB!Before(p.seq, q[k].seq) <=> i < q[k].id
  <2>1. q[k].id \in S /\ q[k].id \in Ids /\ q[k].seq = Wire(q[k].id)
    BY <1>1 DEF FromStream
  <2>2. q[k].id \in Int /\ q[k].id # i /\ q[k].id - i < WindowSize
    BY <2>1, IdsAre
  <2> DEFINE x == q[k].id
  <2>3. /\ JB!Before(Wire(i), Wire(x)) <=> i <= x
        /\ JB!WithinRange(Wire(i), Wire(x)) <=> i - x < ResetDistance /\ x - i < ResetDistance
    BY <1>3, <2>1, BeforeIs
  <2>4. far(k) <=> ~JB!WithinRange(Wire(i), Wire(x))
    BY <1>3, <2>1
  <2>5. JB!Before(p.seq, q[k].seq) <=> i <= x
    BY <1>3, <2>1, <2>3
  <2>6. x \in Int /\ x # i /\ x - i < WindowSize
    BY <2>2
  <2> HIDE DEF x, i, far
  <2>7. (far(k) <=> i - x >= ResetDistance) /\ (far(k) => x < i)
    BY <1>3, <2>3, <2>4, <2>6, Sizes
  <2>8. JB!Before(p.seq, q[k].seq) <=> i < x
    BY <1>3, <2>5, <2>6
  <2> QED BY <2>1, <2>6, <2>7, <2>8 DEF x
<1>5. \A k, l \in 1 .. n : k < l => q[k].id < q[l].id
  BY <1>1 DEF Ordered
<1>6. ASSUME NEW c \in BOOLEAN PROVE IsSent(JB!With(p, c)) /\ JB!With(p, c).id = i
  <2>1. p.start \in BOOLEAN
    BY PacketFields, <1>3
  <2>2. (c /\ p.start) \in BOOLEAN
    BY <2>1
  <2> QED BY <1>3, <2>2 DEF JB!With, IsSent, JB!Packets
<1>7. new \in BOOLEAN /\ \A k \in 1 .. n : far(k) \in BOOLEAN
  OBVIOUS
<1> DEFINE Put(k, x) ==
             /\ IsSent(x) /\ x.id = i /\ Inserted(q, k, x, placed)
             /\ \A l \in 1 .. n : IF l < k THEN q[l].id < i ELSE i < q[l].id
<1>8. placed = q \/ \E k \in 1 .. n + 1 : \E x : Put(k, x)
  <2>0. \A c \in BOOLEAN : JB!With(p, c) \in JB!Packets(Ids)
    BY <1>6 DEF IsSent
  <2> HIDE DEF i, far, new, q, n, placed
  <2>1. CASE n = 0
    <3> DEFINE x == JB!With(p, new)
    <3>1. q = <<>> /\ placed = <<x>> /\ x \in JB!Packets(Ids) /\ IsSent(x) /\ x.id = i
      BY <1>1, <1>2, <1>6, <1>7, <2>0, <2>1 DEF n
    <3> HIDE DEF x
    <3>2. Inserted(q, 1, x, placed)
      BY <3>1 DEF Inserted
    <3>3. Put(1, x)
      BY <2>1, <3>1, <3>2
    <3> QED BY <2>1, <3>3
  <2>2. CASE n # 0 /\ JB!Before(p.seq, q[1].seq) /\ ~far(1)
    <3> DEFINE x == JB!With(p, new)
    <3>1. placed = <<x>> \o q /\ x \in JB!Packets(Ids) /\ IsSent(x) /\ x.id = i
      BY <1>2, <1>6, <1>7, <2>0, <2>2
    <3> HIDE DEF x
    <3>2. Inserted(q, 1, x, placed)
      BY <1>1, <3>1, AtHead
    <3>3. 1 \in 1 .. n /\ i < q[1].id
      BY <1>1, <1>4, <2>2
    <3>4. \A l \in 1 .. n : i < q[l].id /\ ~(l < 1)
      BY <1>1, <1>3, <1>4, <1>5, <3>3
    <3>5. Put(1, x)
      BY <3>1, <3>2, <3>4
    <3> QED BY <1>1, <3>5
  <2>3. CASE /\ n # 0 /\ (~JB!Before(p.seq, q[n].seq) \/ far(n))
             /\ placed = Append(q, p) \/ placed = Append(q, JB!With(p, TRUE))
    <3>1. PICK x \in JB!Packets(Ids) : placed = Append(q, x) /\ IsSent(x) /\ x.id = i
      BY <1>3, <1>6, <2>0, <2>3 DEF i
    <3>2. Inserted(q, n + 1, x, placed)
      BY <1>1, <3>1, AtTail DEF n
    <3>3. n \in 1 .. n /\ q[n].id < i
      BY <1>1, <1>3, <1>4, <2>3
    <3>4. \A l \in 1 .. n : q[l].id < i /\ l < n + 1
      BY <1>1, <1>3, <1>4, <1>5, <3>3
    <3>5. Put(n + 1, x)
      BY <3>1, <3>2, <3>4
    <3> QED BY <1>1, <3>5
  <2>4. CASE /\ n # 0 /\ JB!Before(p.seq, q[n].seq) /\ ~far(n) /\ behind # {}
             /\ placed = JB!InsertAt(q, Max(behind) + 1, JB!With(p, far(Max(behind))))
    <3> DEFINE k == Max(behind)
               x == JB!With(p, far(k))
    <3>1. k \in behind /\ \A l \in behind : k >= l
      <4>1. behind \in SUBSET Int /\ n \in Int /\ \A l \in behind : l <= n
        BY <1>1
      <4> HIDE DEF behind
      <4> QED BY <2>4, <4>1, MaxIs
    <3> HIDE DEF k
    <3>2. k \in 1 .. n /\ k + 1 \in 1 .. n /\ k \in Int /\ n \in Int
      BY <1>1, <3>1
    <3>3. q[k].id < i
      BY <1>3, <1>4, <3>1, <3>2
    <3>4. i < q[k + 1].id
      <4>1. CASE k + 1 = n
        BY <1>4, <2>4, <3>2, <4>1
      <4>2. CASE k + 1 # n
        <5>1. k + 1 \in 1 .. n - 1 /\ ~(k >= k + 1)
          BY <3>2, <4>2
        <5>2. k + 1 \notin behind
          BY <3>1, <5>1
        <5> QED BY <1>4, <3>2, <5>1, <5>2
      <4> QED BY <4>1, <4>2
    <3>5. far(k) \in BOOLEAN
      BY <1>7, <3>2
    <3>6. IsSent(x) /\ x.id = i /\ x \in JB!Packets(Ids)
      BY <1>6, <2>0, <3>5
    <3>7. placed = JB!InsertAt(q, k + 1, x)
      BY <2>4 DEF k
    <3> HIDE DEF x
    <3>8. Inserted(q, k + 1, x, placed)
      BY <1>1, <3>2, <3>6, <3>7, Between DEF n
    <3>9. ASSUME NEW l \in 1 .. n PROVE IF l < k + 1 THEN q[l].id < i ELSE i < q[l].id
      <4>1. l \in Int /\ q[l].id \in Int /\ q[k].id \in Int /\ q[k + 1].id \in Int
        BY <1>1, <1>4, <3>2
      <4>2. l < k \/ l = k \/ l = k + 1 \/ k + 1 < l
        BY <3>2, <4>1
      <4>3. CASE l < k \/ l = k
        <5>1. q[l].id < i
          BY <1>3, <1>5, <3>2, <3>3, <4>1, <4>3
        <5> QED BY <3>2, <4>1, <4>3, <5>1
      <4>4. CASE l = k + 1 \/ k + 1 < l
        <5>1. i < q[l].id
          BY <1>3, <1>5, <3>2, <3>4, <4>1, <4>4
        <5> QED BY <3>2, <4>1, <4>4, <5>1
      <4> QED BY <4>2, <4>3, <4>4
    <3>10. Put(k + 1, x)
      BY <3>6, <3>8, <3>9
    <3>11. k + 1 \in 1 .. n + 1
      BY <3>2
    <3> QED BY <3>10, <3>11
  <2>5. far(n) /\ n # 0 => far(1)
    <3> SUFFICES ASSUME far(n), n # 0 PROVE far(1)
      OBVIOUS
    <3>1. n \in 1 .. n /\ 1 \in 1 .. n /\ n \in Int
      BY <1>1
    <3>2. q[1].id \in Int /\ q[n].id \in Int /\ i - q[n].id >= ResetDistance
      BY <1>4, <3>1
    <3>3. q[1].id <= q[n].id
      BY <1>5, <3>1, <3>2
    <3>4. i - q[1].id >= ResetDistance
      BY <1>3, <3>2, <3>3, Sizes
    <3> QED BY <1>4, <3>1, <3>4
  <2> HIDE DEF Put, behind, ahead
  <2>6. \/ n = 0
        \/ n # 0 /\ JB!Before(p.seq, q[1].seq) /\ ~far(1)
        \/ /\ n # 0 /\ (~JB!Before(p.seq, q[n].seq) \/ far(n))
           /\ placed = Append(q, p) \/ placed = Append(q, JB!With(p, TRUE))
        \/ /\ n # 0 /\ JB!Before(p.seq, q[n].seq) /\ ~far(n) /\ behind # {}
           /\ placed = JB!InsertAt(q, Max(behind) + 1, JB!With(p, far(Max(behind))))
        \/ placed = q
    BY <1>2, <2>5, Zenon
  <2> QED BY <2>1, <2>2, <2>3, <2>4, <2>6, Zenon
<1>9. /\ placed \in Seq(JB!Packets(Ids)) /\ FromStream(placed, S \cup {i}) /\ Ordered(placed)
      /\ IdsOf(placed) \subseteq IdsOf(q) \cup {i}
  <2> HIDE DEF placed
  <2>1. CASE placed = q
    <3>1. FromStream(q, S \cup {i})
      BY <1>1 DEF FromStream
    <3> QED BY <1>1, <2>1, <3>1
  <2>2. ASSUME NEW k \in 1 .. n + 1, NEW x, Put(k, x)
        PROVE  /\ placed \in Seq(JB!Packets(Ids)) /\ FromStream(placed, S \cup {i})
               /\ Ordered(placed)
               /\ IdsOf(placed) \subseteq IdsOf(q) \cup {i}
    <3> HIDE DEF i, q
    <3>1. \A l \in 1 .. Len(q) : IF l < k THEN q[l].id < x.id ELSE x.id < q[l].id
      BY <2>2
    <3>2. /\ FromStream(placed, S \cup {x.id}) /\ Ordered(placed)
          /\ IdsOf(placed) \subseteq IdsOf(q) \cup {x.id}
      <4>1. /\ IsSent(x) /\ Inserted(q, k, x, placed) /\ k \in 1 .. Len(q) + 1
            /\ q \in Seq(JB!Packets(Ids)) /\ FromStream(q, S) /\ Ordered(q)
        BY <1>1, <2>2
      <4> HIDE DEF Put, n, far, new, behind, ahead
      <4>2. FromStream(placed, S \cup {x.id})
        BY <3>1, <4>1, InsertedKeeps
      <4>3. Ordered(placed)
        BY <3>1, <4>1, InsertedKeeps
      <4>4. IdsOf(placed) \subseteq IdsOf(q) \cup {x.id}
        BY <3>1, <4>1, InsertedKeeps
      <4> QED BY <4>2, <4>3, <4>4
    <3>3. placed \in Seq(JB!Packets(Ids))
      BY <2>2 DEF Inserted
    <3> QED BY <2>2, <3>2, <3>3
  <2> HIDE DEF Put
  <2> QED BY <1>8, <2>1, <2>2, Zenon
<1> DEFINE r == [b EXCEPT !.list = placed]
<1> HIDE DEF placed
<1>10. /\ r \in JB!Buffers(Ids) /\ r.list = placed /\ r.initialized = b.initialized
       /\ r.prevSN = b.prevSN
  BY <1>1, <1>9 DEF JB!Buffers
<1>11. AfterReleased(r)
  <2> SUFFICES ASSUME b.initialized
               PROVE  /\ b.prevSN \in {Wire(j) : j \in Ids}
                      /\ \A k \in 1 .. Len(placed) : PlaceOf(b.prevSN) < placed[k].id
    BY <1>10 DEF AfterReleased
  <2>1. b.prevSN \in {Wire(j) : j \in Ids} /\ \A k \in 1 .. n : PlaceOf(b.prevSN) < q[k].id
    BY DEF Good, AfterReleased
  <2>2. ASSUME NEW k \in 1 .. Len(placed) PROVE PlaceOf(b.prevSN) < placed[k].id
    <3>1. placed[k].id = i \/ \E m \in 1 .. n : placed[k].id = q[m].id
      BY <1>9 DEF IdsOf
    <3> QED BY <2>1, <3>1
  <2> QED BY <2>1, <2>2
<1> HIDE DEF r
<1>12. Good(r, S \cup {i})
  BY <1>9, <1>10, <1>11 DEF Good
<1> QED BY <1>12 DEF r, placed

LEMMA PushKeeps ==
  ASSUME NEW S \in SUBSET Ids, NEW b, Good(b, S), NEW p, IsSent(p), p.id \notin S,
         \A j \in S : j - p.id < WindowSize, NEW t \in Nat
  PROVE  LET r == JB!PushAt(b, p, t) IN
         Good(r, S \cup {p.id}) /\ GaveUp(b, r, t) /\ Gives(b, r)
<1> DEFINE T == S \cup {p.id}
           r == JB!PushAt(b, p, t)
           s == JB!PopReady(b, t)
           c == [b EXCEPT !.list = JB!Place(b, p)]
           u == JB!PopReady(c, t)
<1>1. p.id \in Ids /\ p.id \in Int /\ p.seq = Wire(p.id) /\ T \in SUBSET Ids
  BY PacketFields, IdsAre DEF IsSent
<1>2. r = IF ~p.media /\ ~b.initialized THEN s
          ELSE IF b.initialized /\ JB!Before(p.seq, b.prevSN)
            THEN [s EXCEPT !.loss = @ \/ p.media]
          ELSE u
  BY DEF JB!PushAt
<1> HIDE DEF T, r, s, u
<1>3. Good(b, T) /\ b \in JB!Buffers(Ids)
  BY DEF Good, FromStream, T
<1>4. Good(s, T) /\ GaveUp(b, s, t) /\ Gives(b, s)
  <2>1. Good(s, T)
    BY <1>1, <1>3, PopReadyKeeps DEF s
  <2>2. GaveUp(b, s, t)
    BY <1>1, <1>3, PopReadyKeeps DEF s
  <2>3. Gives(b, s)
    BY <1>1, <1>3, PopReadyKeeps DEF s
  <2> QED BY <2>1, <2>2, <2>3
<1>5. CASE r = s
  BY <1>4, <1>5 DEF r, T
<1>6. CASE r = [s EXCEPT !.loss = @ \/ p.media]
  <2>1. s \in JB!Buffers(Ids) /\ s.loss \in BOOLEAN /\ p.media \in BOOLEAN
    <3>1. s \in JB!Buffers(Ids) /\ p \in JB!Packets(Ids)
      BY <1>4 DEF Good, IsSent
    <3> QED BY <3>1, BufferFields, PacketFields
  <2>2. /\ r \in JB!Buffers(Ids) /\ r.list = s.list /\ r.prevSN = s.prevSN
        /\ r.initialized = s.initialized /\ r.out = s.out /\ r.gaveUp = s.gaveUp
        /\ r.loss = (s.loss \/ p.media)
    <3> DEFINE lost == s.loss \/ p.media
    <3>1. lost \in BOOLEAN /\ r = [s EXCEPT !.loss = lost]
      BY <1>6, <2>1
    <3> HIDE DEF lost
    <3>2. /\ r \in JB!Buffers(Ids) /\ r.list = s.list /\ r.prevSN = s.prevSN
          /\ r.initialized = s.initialized /\ r.out = s.out /\ r.gaveUp = s.gaveUp
          /\ r.loss = lost
      BY <2>1, <3>1 DEF JB!Buffers
    <3> QED BY <3>2 DEF lost
  <2>3. Good(r, T)
    BY <1>4, <2>2 DEF Good, AfterReleased
  <2>4. GaveUp(b, r, t)
    BY <1>4, <2>2 DEF GaveUp
  <2>5. Gives(b, r)
    BY <1>4, <2>2 DEF Gives
  <2> QED BY <2>3, <2>4, <2>5 DEF r, T
<1>7. CASE r = u /\ ~(b.initialized /\ JB!Before(p.seq, b.prevSN))
  <2>1. b.initialized => PlaceOf(b.prevSN) < p.id
    <3> SUFFICES ASSUME b.initialized PROVE PlaceOf(b.prevSN) < p.id
      OBVIOUS
    <3> DEFINE x == PlaceOf(b.prevSN)
    <3>1. x \in Ids /\ x \in Int /\ b.prevSN = Wire(x)
      BY PlaceOfIs DEF Good, AfterReleased
    <3>2. ~(p.id <= x)
      <4> HIDE DEF x
      <4>1. JB!Before(Wire(p.id), Wire(x)) <=> p.id <= x
        BY <1>1, <3>1, BeforeIs
      <4> QED BY <1>1, <1>7, <3>1, <4>1
    <3> QED BY <1>1, <3>1, <3>2
  <2>2. Good(c, T)
    BY <2>1, PlaceKeeps DEF T
  <2>3. /\ c.initialized = b.initialized /\ c.prevSN = b.prevSN /\ c.gaveUp = b.gaveUp
    BY <1>3 DEF JB!Buffers
  <2> HIDE DEF c
  <2>4. Good(u, T)
    BY <1>1, <2>2, PopReadyKeeps DEF u
  <2>5. GaveUp(c, u, t)
    BY <1>1, <2>2, PopReadyKeeps DEF u
  <2>6. Gives(c, u)
    BY <1>1, <2>2, PopReadyKeeps DEF u
  <2>7. GaveUp(b, u, t) /\ Gives(b, u)
    BY <2>3, <2>5, <2>6 DEF GaveUp, Gives
  <2> QED BY <1>7, <2>4, <2>7 DEF r, T
<1> QED BY <1>2, <1>5, <1>6, <1>7, Zenon

\* flush leaves nothing, and releases whole frames.
LEMMA FlushKeeps ==
  ASSUME NEW S \in SUBSET Ids, NEW b, Good(b, S), b.out = <<>>
  PROVE  LET r == JB!Flush(b) IN
         Good(r, S) /\ r.gaveUp = b.gaveUp /\ Gives(b, r) /\ r.list = <<>>
<1> DEFINE q == b.list
           n == Len(q)
           released == {k \in 1 .. Len(q) : \E s \in 1 .. k :
                          JB!IsComplete(q, s) /\ \A i \in s .. k - 1 : ~q[i].end}
           R == {k \in released : q[k].media}
           r == JB!Flush(b)
           out == JB!PacketsAt(q, {k \in released : q[k].media})
<1>1. /\ b \in JB!Buffers(Ids) /\ q \in Seq(JB!Packets(Ids)) /\ FromStream(q, S) /\ Ordered(q)
      /\ n \in Nat /\ b.gaveUp \in Nat /\ b.initialized \in BOOLEAN
  BY BufferFields DEF Good
<1>2. FromStream(q, Ids) /\ R \in SUBSET (1 .. n)
  BY <1>1 DEF FromStream
<1>3. r = IF q = <<>> THEN b
          ELSE [b EXCEPT !.initialized = @ \/ released # {}, !.prevSN = q[Len(q)].seq,
                         !.list = <<>>, !.out = out]
  BY DEF JB!Flush
<1>4. b.initialized => b.prevSN \in {Wire(i) : i \in Ids}
                       /\ PlaceOf(b.prevSN) \in Int
  BY PlaceOfIs DEF Good, AfterReleased
<1>5. Whole({q[k].id : k \in R})
  <2> HIDE DEF q
  <2> QED BY <1>1, <1>2, FlushedIsWhole
<1>6. out \in Seq(JB!Packets(Ids)) /\ Ordered(out) /\ IdsOf(out) = {q[k].id : k \in R}
  <2>1. R = {k \in released : q[k].media}
    OBVIOUS
  <2> HIDE DEF R, q, released
  <2> QED BY <1>1, <1>2, <2>1, OutIs DEF n
<1>7. CASE q = <<>>
  <2>1. Ordered(b.out) /\ IdsOf(b.out) = {} /\ \A k \in 1 .. Len(b.out) : FALSE
    BY DEF Ordered, IdsOf
  <2>2. {q[k].id : k \in R} = {}
    BY <1>2, <1>7
  <2>3. b.initialized => b.initialized /\ PlaceOf(b.prevSN) <= PlaceOf(b.prevSN)
    BY <1>4
  <2>4. Whole(IdsOf(b.out))
    BY <1>5, <2>1, <2>2
  <2>5. Gives(b, b)
    BY <2>1, <2>3, <2>4 DEF Gives
  <2>6. r = b
    BY <1>3, <1>7
  <2> QED BY <1>7, <2>5, <2>6
<1>8. CASE q # <<>>
  <2> DEFINE begun == b.initialized \/ released # {}
  <2>1. n \in 1 .. n
    BY <1>1, <1>8
  <2>2. q[n].id \in Ids /\ q[n].id \in Int /\ q[n].seq = Wire(q[n].id)
        /\ q[n].seq \in 0 .. SeqMod - 1
    <3>1. q[n].id \in Ids /\ q[n].seq = Wire(q[n].id) /\ q[n] \in JB!Packets(Ids)
      BY <1>1, <1>2, <2>1 DEF FromStream
    <3> QED BY <3>1, PacketFields, IdsAre DEF Wires
  <2>3. r = [b EXCEPT !.initialized = begun, !.prevSN = q[n].seq, !.list = <<>>, !.out = out]
    BY <1>3, <1>8
  <2>4. begun \in BOOLEAN /\ <<>> \in Seq(JB!Packets(Ids))
    BY <1>1
  <2> HIDE DEF begun, out, r
  <2>5. /\ r \in JB!Buffers(Ids) /\ r.initialized = begun /\ r.prevSN = q[n].seq
        /\ r.list = <<>> /\ r.out = out /\ r.gaveUp = b.gaveUp
    BY <1>1, <1>6, <2>2, <2>3, <2>4 DEF JB!Buffers
  <2>6. PlaceOf(r.prevSN) = q[n].id /\ r.prevSN \in {Wire(i) : i \in Ids}
    BY <2>2, <2>5, PlaceIs
  <2>7. Good(r, S)
    BY <2>5, <2>6 DEF Good, FromStream, Ordered, AfterReleased
  <2>8. \A k \in 1 .. n : q[k].id \in Int /\ q[k].id <= q[n].id
    <3>1. \A k \in 1 .. n : q[k].id \in Int
      BY <1>2, IdsAre DEF FromStream
    <3>2. \A k \in 1 .. n : k = n \/ k < n
      BY <1>1
    <3>3. \A k \in 1 .. n : k < n => q[k].id < q[n].id
      BY <1>1, <2>1 DEF Ordered
    <3> QED BY <2>2, <3>1, <3>2, <3>3
  <2>9. \A k \in 1 .. n : b.initialized => PlaceOf(b.prevSN) < q[k].id
    BY DEF Good, AfterReleased
  <2>10. b.initialized => r.initialized /\ PlaceOf(b.prevSN) <= PlaceOf(r.prevSN)
    <3> SUFFICES ASSUME b.initialized
                 PROVE  r.initialized /\ PlaceOf(b.prevSN) <= PlaceOf(r.prevSN)
      OBVIOUS
    <3>1. begun
      BY DEF begun
    <3>2. PlaceOf(b.prevSN) \in Int /\ PlaceOf(b.prevSN) < q[n].id
      BY <1>4, <2>1, <2>9
    <3> HIDE DEF q, n
    <3> QED BY <2>2, <2>5, <2>6, <3>1, <3>2
  <2>11. ASSUME NEW k \in 1 .. Len(r.out)
         PROVE  /\ r.initialized /\ r.out[k].id <= PlaceOf(r.prevSN)
                /\ b.initialized => PlaceOf(b.prevSN) < r.out[k].id
    <3>1. r.out[k].id \in {q[l].id : l \in R}
      BY <1>6, <2>5 DEF IdsOf
    <3>2. PICK l \in R : r.out[k].id = q[l].id
      BY <3>1
    <3>3. l \in 1 .. n /\ l \in released
      BY <1>2
    <3>4. begun
      BY <3>3 DEF begun
    <3> QED BY <2>5, <2>6, <2>8, <2>9, <3>2, <3>3, <3>4
  <2>12. Gives(b, r)
    BY <1>5, <1>6, <2>5, <2>10, <2>11 DEF Gives
  <2> QED BY <2>5, <2>7, <2>12 DEF r
<1> QED BY <1>7, <1>8

-----------------------------------------------------------------------------
(* The duplicate window *)

\* The newest of the packets at S.
IsNewest(m, S) == m \in S /\ \A j \in S : j <= m

\* The window has the newest of the packets at S, and which of those before it
\* are at S.
WindowOf(w, S) ==
  /\ w.started <=> S # {}
  /\ \A m \in Ids : IsNewest(m, S) =>
       /\ w.head = Wire(m)
       /\ \A j \in Ids : m - WindowSize < j /\ j <= m =>
            (Wire(j) % WindowSize \in w.bits <=> j \in S)

LEMMA NewestIs ==
  ASSUME NEW S \in SUBSET Ids, S # {}
  PROVE  IsNewest(Max(S), S) /\ Max(S) \in Ids
<1>1. S \in SUBSET Int /\ Len(Stream) \in Int /\ \A x \in S : x <= Len(Stream)
  BY IdsAre, Sizes
<1>2. Max(S) \in S /\ \A y \in S : Max(S) >= y
  BY <1>1, MaxIs
<1>3. Max(S) \in Int
  BY <1>1, <1>2
<1> QED BY <1>1, <1>2, <1>3 DEF IsNewest

LEMMA OneNewest ==
  ASSUME NEW S \in SUBSET Ids, NEW m, NEW n, IsNewest(m, S), IsNewest(n, S)
  PROVE  m = n
<1>1. m \in Int /\ n \in Int /\ m <= n /\ n <= m
  BY IdsAre DEF IsNewest
<1> QED BY <1>1

LEMMA BitOf ==
  ASSUME NEW z \in Int, NEW l \in Int
  PROVE  ((z % SeqMod) + l) % WindowSize = (z + l) % WindowSize
<1>1. SeqMod \in Nat \ {0} /\ WindowSize \in Nat \ {0} /\ SeqMod % WindowSize = 0
  BY SizesAssumption
<1> DEFINE Divides(S, W) == S % W = 0
           Same(S, W, x, k) == ((x % S) + k) % W = (x + k) % W
<1>2. \A S, W \in Nat \ {0} : Divides(S, W) => \A x, k \in Int : Same(S, W, x, k)
  BY ModOfMod
<1>3. Divides(SeqMod, WindowSize)
  BY <1>1
<1> HIDE DEF Divides, Same
<1>4. Same(SeqMod, WindowSize, z, l)
  BY <1>1, <1>2, <1>3, Zenon
<1> QED BY <1>4 DEF Same

LEMMA BitMinus ==
  ASSUME NEW x \in Int, NEW y \in Int, Near(WindowSize, x, y)
  PROVE  ((x % WindowSize) - (y % WindowSize)) % WindowSize
           = IF x < y THEN x - y + WindowSize ELSE x - y
<1>1. WindowSize \in Nat \ {0}
  BY SizesAssumption
<1> QED BY <1>1, ModMinus, Zenon

\* The bit of a number so far after another in the stream.
LEMMA BitIs ==
  ASSUME NEW m \in Ids, NEW k \in Int, m + k \in Ids
  PROVE  (Wire(m) + k) % WindowSize = Wire(m + k) % WindowSize
<1> DEFINE x == Stream[1].seq + m - 1
           y == Stream[1].seq + (m + k) - 1
<1>1. /\ x \in Int /\ y \in Int /\ Wire(m) = x % SeqMod /\ Wire(m + k) = y % SeqMod
      /\ y = x + k
  <2>1. m \in Int /\ Stream[1].seq \in Int /\ Wire(m) = x % SeqMod
    BY WireIs
  <2>2. Wire(m + k) = y % SeqMod
    BY WireIs
  <2> QED BY <2>1, <2>2
<1>2. SeqMod \in Nat \ {0} /\ WindowSize \in Nat \ {0} /\ SeqMod % WindowSize = 0
  BY Sizes, SizesAssumption
<1> HIDE DEF x, y
<1>4. ((x % SeqMod) + k) % WindowSize = (x + k) % WindowSize
  BY <1>1, BitOf
<1>5. ((y % SeqMod) + 0) % WindowSize = (y + 0) % WindowSize
  BY <1>1, BitOf
<1>6. y % SeqMod \in Int
  BY <1>1, <1>2
<1> QED BY <1>1, <1>4, <1>5, <1>6

\* Numbers less than a window apart have bits of their own.
LEMMA BitsApart ==
  ASSUME NEW i \in Ids, NEW j \in Ids, i - j < WindowSize, j - i < WindowSize,
         Wire(i) % WindowSize = Wire(j) % WindowSize
  PROVE  i = j
<1> DEFINE x == Stream[1].seq + i - 1
           y == Stream[1].seq + j - 1
<1>1. /\ x \in Int /\ y \in Int /\ Wire(i) = x % SeqMod /\ Wire(j) = y % SeqMod
      /\ x - y = i - j /\ i \in Int /\ j \in Int
  <2>1. i \in Int /\ Stream[1].seq \in Int /\ Wire(i) = x % SeqMod
    BY WireIs
  <2>2. j \in Int /\ Wire(j) = y % SeqMod
    BY WireIs
  <2> QED BY <2>1, <2>2
<1>2. SeqMod \in Nat \ {0} /\ WindowSize \in Nat \ {0} /\ SeqMod % WindowSize = 0
  BY Sizes, SizesAssumption
<1> HIDE DEF x, y
<1>3. ASSUME NEW z \in Int PROVE (z % SeqMod) % WindowSize = z % WindowSize
  <2>1. ((z % SeqMod) + 0) % WindowSize = (z + 0) % WindowSize
    BY BitOf
  <2>2. z % SeqMod \in Int
    BY <1>2
  <2> QED BY <2>1, <2>2
<1>4. x % WindowSize = y % WindowSize
  BY <1>1, <1>3
<1>5. -WindowSize < x - y /\ x - y < WindowSize
  BY <1>1, <1>2
<1>6. ((x % WindowSize) - (y % WindowSize)) % WindowSize
        = IF x < y THEN x - y + WindowSize ELSE x - y
  BY <1>1, <1>5, BitMinus DEF Near
<1>7. (x % WindowSize) - (y % WindowSize) = 0
  BY <1>1, <1>2, <1>4
<1>8. 0 % WindowSize = 0
  BY <1>2
<1>9. x - y = 0
  BY <1>1, <1>2, <1>5, <1>6, <1>7, <1>8
<1> QED BY <1>1, <1>9

Window == [started : BOOLEAN, head : Wires, bits : SUBSET (0 .. WindowSize - 1)]

LEMMA WindowStep ==
  ASSUME NEW S \in SUBSET Ids, NEW w \in Window, WindowOf(w, S), NEW i \in Ids,
         \A j \in S : j - i < WindowSize
  PROVE  LET check == Duplicate(w, Wire(i)) IN
         /\ check.yes <=> i \in S
         /\ check.window \in Window /\ WindowOf(check.window, S \cup {i})
<1> DEFINE check == Duplicate(w, Wire(i))
           T == S \cup {i}
           m == Max(S)
           Bit(j) == Wire(j) % WindowSize
           Is(v) == /\ v.started /\ v.head = Wire(Max(T))
                    /\ \A j \in Ids : Max(T) - WindowSize < j /\ j <= Max(T) =>
                         (Bit(j) \in v.bits <=> j \in T)
<1>1. \A j \in Ids : j \in Int /\ Bit(j) \in 0 .. WindowSize - 1 /\ Wire(j) \in Wires
  <2>1. \A j \in Ids : j \in Int /\ Wire(j) \in Wires
    BY IdsAre, WireIs
  <2>2. \A j \in Wires : j % WindowSize \in 0 .. WindowSize - 1
    BY Sizes DEF Wires
  <2> QED BY <2>1, <2>2
<1>2. \A j \in Ids : j - i < WindowSize /\ i - j < WindowSize /\ Bit(j) = Bit(i) => j = i
  BY BitsApart
<1> HIDE DEF Bit
<1>3. T \in SUBSET Ids /\ T # {} /\ Max(T) \in Ids /\ IsNewest(Max(T), T)
  <2>1. T \in SUBSET Ids /\ T # {}
    OBVIOUS
  <2> HIDE DEF T
  <2> QED BY <2>1, NewestIs
<1>4. ASSUME NEW n \in Ids, IsNewest(n, T) PROVE Max(T) = n
  <2> HIDE DEF T
  <2> QED BY <1>3, <1>4, OneNewest
<1>5. ASSUME NEW v, Is(v) PROVE WindowOf(v, T)
  <2>1. ASSUME NEW n \in Ids, IsNewest(n, T)
        PROVE  /\ v.head = Wire(n)
               /\ \A j \in Ids : n - WindowSize < j /\ j <= n =>
                    (Wire(j) % WindowSize \in v.bits <=> j \in T)
    BY <1>4, <1>5, <2>1 DEF Bit
  <2> HIDE DEF T
  <2> QED BY <1>3, <1>5, <2>1 DEF WindowOf
<1>6. S # {} => /\ m \in Ids /\ m \in S /\ (\A j \in S : j <= m) /\ w.head = Wire(m)
                /\ Serial(Wire(i), w.head) = i - m /\ m - i < WindowSize
                /\ \A j \in Ids : m - WindowSize < j /\ j <= m => (Bit(j) \in w.bits <=> j \in S)
  <2> SUFFICES ASSUME S # {}
               PROVE  /\ m \in Ids /\ m \in S /\ (\A j \in S : j <= m) /\ w.head = Wire(m)
                      /\ Serial(Wire(i), w.head) = i - m /\ m - i < WindowSize
                      /\ \A j \in Ids : m - WindowSize < j /\ j <= m =>
                           (Bit(j) \in w.bits <=> j \in S)
    OBVIOUS
  <2>1. m \in Ids /\ IsNewest(m, S)
    BY NewestIs
  <2> HIDE DEF m
  <2>2. m \in S /\ \A j \in S : j <= m
    BY <2>1 DEF IsNewest
  <2>3. /\ w.head = Wire(m)
        /\ \A j \in Ids : m - WindowSize < j /\ j <= m => (Bit(j) \in w.bits <=> j \in S)
    BY <2>1 DEF WindowOf, Bit
  <2> QED BY <2>1, <2>2, <2>3, SerialIs
<1> HIDE DEF m, Is
<1>7. S # {} => m \in Int /\ m \in Ids /\ m - i < WindowSize
  BY <1>6, IdsAre
<1>8. S # {} => m \in S /\ \A j \in S : j <= m
  BY <1>6
<1>9. w.started <=> S # {}
  BY DEF WindowOf
<1>10. i \in Int /\ WindowSize \in Nat \ {0} /\ ResetDistance \in Nat /\ WindowSize <= ResetDistance
  BY <1>1, Sizes
<1>11. CASE S = {} \/ Jump(i - m)
  <2> DEFINE v == [started |-> TRUE, head |-> Wire(i), bits |-> {Bit(i)}]
  <2>1. check = [yes |-> FALSE, window |-> v]
    BY <1>6, <1>9, <1>11 DEF Duplicate, Bit
  <2>2. \A j \in S : j <= i - WindowSize
    <3>1. ASSUME S # {} PROVE i - m >= ResetDistance /\ m \in Int
      <4>1. Jump(i - m) /\ m \in Int /\ m - i < WindowSize
        BY <1>7, <1>11, <3>1
      <4> DEFINE d == i - m
      <4>2. d \in Int /\ d > -WindowSize /\ Jump(d)
        BY <1>10, <4>1
      <4> HIDE DEF d
      <4>3. d >= ResetDistance
        BY <1>10, <4>2 DEF Jump
      <4> QED BY <4>1, <4>3 DEF d
    <3> QED BY <1>1, <1>6, <1>10, <3>1
  <2>3. i \notin S /\ \A j \in T : j <= i
    BY <1>1, <1>10, <2>2
  <2>4. Max(T) = i
    BY <1>4, <2>3 DEF IsNewest
  <2>5. \A j \in Ids : i - WindowSize < j /\ j <= i => (Bit(j) \in {Bit(i)} <=> j \in T)
    BY <1>1, <1>2, <1>10, <2>2
  <2>6. Is(v)
    BY <2>4, <2>5 DEF Is
  <2>7. v \in Window
    BY <1>1 DEF Window
  <2> HIDE DEF v, check, T
  <2>8. check.yes = FALSE /\ check.window = v
    BY <2>1
  <2> QED BY <1>5, <2>3, <2>6, <2>7, <2>8 DEF check, T
<1>12. CASE S # {} /\ ~Jump(i - m) /\ i - m > 0
  <2> DEFINE passed == {(w.head + k) % WindowSize : k \in 1 .. i - m}
             v == [w EXCEPT !.head = Wire(i), !.bits = (@ \ passed) \cup {Bit(i)}]
  <2>1. check = [yes |-> FALSE, window |-> v]
    BY <1>6, <1>9, <1>12 DEF Duplicate, Bit
  <2>2. m \in Int /\ m < i /\ m \in Ids /\ \A j \in S : j <= m
    <3>1. m \in Int /\ m < i /\ m \in Ids
      <4> HIDE DEF T, check, v, passed
      <4> QED BY <1>10, <1>12, <1>7
    <3> QED BY <1>12, <1>8, <3>1
  <2>3. i \notin S /\ \A j \in T : j <= i
    BY <1>1, <1>10, <2>2
  <2>4. Max(T) = i
    BY <1>4, <2>3 DEF IsNewest
  <2>5. passed = {Bit(j) : j \in {j \in Ids : m < j /\ j <= i}}
    <3>1. ASSUME NEW k \in 1 .. i - m
          PROVE m + k \in Ids /\ m < m + k /\ m + k <= i /\ (w.head + k) % WindowSize = Bit(m + k)
      <4>1. k \in Int /\ m < m + k /\ m + k <= i
        BY <1>10, <2>2
      <4>2. m + k \in Ids
        BY <1>10, <2>2, <4>1 DEF Ids
      <4>3. (Wire(m) + k) % WindowSize = Bit(m + k)
        BY <2>2, <4>1, <4>2, BitIs DEF Bit
      <4> QED BY <1>6, <1>12, <4>1, <4>2, <4>3
    <3>2. ASSUME NEW j \in Ids, m < j, j <= i PROVE j - m \in 1 .. i - m /\ m + (j - m) = j
      BY <1>1, <1>10, <2>2, <3>2
    <3>3. ASSUME NEW x \in passed PROVE x \in {Bit(j) : j \in {j \in Ids : m < j /\ j <= i}}
      <4>1. PICK k \in 1 .. i - m : x = (w.head + k) % WindowSize
        OBVIOUS
      <4> QED BY <3>1, <4>1
    <3>4. ASSUME NEW j \in Ids, m < j, j <= i PROVE Bit(j) \in passed
      <4>1. j - m \in 1 .. i - m /\ m + (j - m) = j
        BY <3>2, <3>4
      <4>2. (w.head + (j - m)) % WindowSize = Bit(j)
        BY <3>1, <4>1
      <4> QED BY <4>1, <4>2
    <3> HIDE DEF passed
    <3> QED BY <3>3, <3>4
  <2>6. w.bits \in SUBSET (0 .. WindowSize - 1)
    BY DEF Window
  <2> HIDE DEF passed
  <2>7. ASSUME NEW j \in Ids, i - WindowSize < j, j <= i
        PROVE Bit(j) \in (w.bits \ passed) \cup {Bit(i)} <=> j \in T
    <3>0. j \in Int
      BY <1>1
    <3>1. CASE j = i
      BY <3>1
    <3>2. CASE j # i
      <4>1. Bit(j) # Bit(i)
        BY <1>2, <1>10, <2>7, <3>0, <3>2
      <4>2. CASE m < j
        <5>1. Bit(j) \in passed /\ j \notin S
          BY <1>1, <2>2, <2>5, <2>7, <4>2
        <5> QED BY <3>2, <4>1, <5>1
      <4>3. CASE j <= m
        <5>1. m - WindowSize < j
          BY <1>10, <2>2, <2>7, <3>0
        <5>2. Bit(j) \in w.bits <=> j \in S
          BY <1>6, <1>12, <4>3, <5>1
        <5>3. Bit(j) \notin passed
          <6> SUFFICES ASSUME NEW l \in Ids, m < l, l <= i, Bit(j) = Bit(l) PROVE FALSE
            BY <2>5
          <6>1. l \in Int /\ l - j < WindowSize /\ j - l < WindowSize /\ j # l
            BY <1>1, <1>10, <2>2, <2>7, <3>0, <4>3
          <6> QED BY <6>1, BitsApart DEF Bit
        <5> QED BY <3>2, <4>1, <5>2, <5>3
      <4> QED BY <2>2, <3>0, <4>2, <4>3
    <3> QED BY <3>1, <3>2
  <2>8. v \in Window /\ v.started /\ v.head = Wire(i) /\ v.bits = (w.bits \ passed) \cup {Bit(i)}
    BY <1>1, <1>9, <1>12, <2>6 DEF Window
  <2> HIDE DEF v
  <2>9. Is(v)
    BY <2>4, <2>7, <2>8 DEF Is
  <2> HIDE DEF check, T
  <2>10. check.yes = FALSE /\ check.window = v
    BY <2>1
  <2> QED BY <1>5, <2>3, <2>8, <2>9, <2>10 DEF check, T
<1>13. CASE S # {} /\ ~Jump(i - m) /\ ~(i - m > 0)
  <2> DEFINE v == [w EXCEPT !.bits = @ \cup {Bit(i)}]
  <2>1. m \in Int /\ m \in Ids /\ m \in S /\ i <= m /\ m - i < WindowSize /\ \A j \in S : j <= m
    <3>1. m \in Int /\ m \in Ids /\ i <= m /\ m - i < WindowSize
      <4> HIDE DEF T, check, v
      <4> QED BY <1>10, <1>13, <1>7
    <3> QED BY <1>13, <1>8, <3>1
  <2>2. check = [yes |-> Bit(i) \in w.bits, window |-> v]
    <3>1. ~(-(i - m) >= WindowSize)
      BY <1>10, <2>1
    <3> QED BY <1>6, <1>9, <1>13, <3>1 DEF Duplicate, Bit
  <2>3. Bit(i) \in w.bits <=> i \in S
    <3>1. m - WindowSize < i
      BY <1>10, <2>1
    <3> QED BY <1>6, <1>13, <2>1, <3>1
  <2>4. Max(T) = m
    BY <1>4, <2>1 DEF IsNewest
  <2>5. ASSUME NEW j \in Ids, m - WindowSize < j, j <= m
        PROVE Bit(j) \in w.bits \cup {Bit(i)} <=> j \in T
    <3>1. Bit(j) \in w.bits <=> j \in S
      BY <1>6, <1>13, <2>5
    <3>2. j \in Int /\ j - i < WindowSize /\ i - j < WindowSize
      BY <1>1, <1>10, <2>1, <2>5
    <3>3. Bit(j) = Bit(i) <=> j = i
      BY <1>2, <3>2
    <3> QED BY <3>1, <3>3
  <2>6. /\ v \in Window /\ v.started /\ v.head = Wire(m) /\ v.bits = w.bits \cup {Bit(i)}
    BY <1>1, <1>6, <1>9, <1>13 DEF Window
  <2> HIDE DEF v
  <2>7. Is(v)
    BY <2>4, <2>5, <2>6 DEF Is
  <2> HIDE DEF check, T
  <2>8. (check.yes <=> i \in S) /\ check.window = v
    BY <2>2, <2>3
  <2> QED BY <1>5, <2>6, <2>7, <2>8 DEF check, T
<1> QED BY <1>11, <1>12, <1>13

-----------------------------------------------------------------------------
(* The gaps *)

From(gap) == PlaceOf(gap.first)
To(gap) == From(gap) + gap.span

\* With the packets at S arrived and m the newest, open gaps are of the
\* stream, before m and one after the other; each counts what is missing in it,
\* and what is missing since the first of them is in one.
OpenOf(q, S, m) ==
  /\ q \in Seq(Gap)
  /\ \A k \in 1 .. Len(q) :
       /\ q[k].first \in {Wire(j) : j \in Ids} /\ To(q[k]) < m
       /\ q[k].missing = Cardinality((From(q[k]) .. To(q[k])) \ S)
  /\ \A k, l \in 1 .. Len(q) : k < l => To(q[k]) < From(q[l])
  /\ \A j \in Ids \ S :
       Len(q) > 0 /\ From(q[1]) <= j /\ j < m =>
         \E k \in 1 .. Len(q) : From(q[k]) <= j /\ j <= To(q[k])

GapsOf(g, S) ==
  /\ g \in [started : BOOLEAN, head : Wires, open : Seq(Gap), lastRead : Nat, prevRead : Nat]
  /\ g.started <=> S # {}
  /\ S = {} => g.open = <<>>
  /\ \A m \in Ids : IsNewest(m, S) => g.head = Wire(m) /\ OpenOf(g.open, S, m)

LEMMA NoneOpen ==
  ASSUME NEW S, NEW m
  PROVE  OpenOf(<<>>, S, m)
<1>1. <<>> \in Seq(Gap) /\ Len(<<>>) = 0
  OBVIOUS
<1> QED BY <1>1 DEF OpenOf

LEMMA GapIs ==
  ASSUME NEW q, NEW S \in SUBSET Ids, NEW m \in Ids, OpenOf(q, S, m), NEW k \in 1 .. Len(q)
  PROVE  /\ q[k] \in Gap /\ q[k].first = Wire(From(q[k])) /\ From(q[k]) \in Ids
         /\ From(q[k]) \in Int /\ To(q[k]) \in Int /\ q[k].span \in Nat
         /\ From(q[k]) <= To(q[k]) /\ To(q[k]) < m /\ To(q[k]) \in Ids
         /\ q[k].missing \in Nat /\ q[k].missing > 0
         /\ q[k].missing = Cardinality((From(q[k]) .. To(q[k])) \ S)
         /\ \A j \in Ids : In(q[k], Wire(j)) <=> From(q[k]) <= j /\ j <= To(q[k])
<1> DEFINE gap == q[k]
           F == From(gap)
<1>1. /\ gap \in Gap /\ gap.first \in {Wire(j) : j \in Ids} /\ To(gap) < m
      /\ gap.missing = Cardinality((From(gap) .. To(gap)) \ S)
  <2>1. q \in Seq(Gap)
    BY DEF OpenOf
  <2>2. gap \in Gap
    BY <2>1
  <2>3. /\ q[k].first \in {Wire(j) : j \in Ids} /\ To(q[k]) < m
        /\ q[k].missing = Cardinality((From(q[k]) .. To(q[k])) \ S)
    BY DEF OpenOf
  <2> QED BY <2>2, <2>3
<1>2. gap.span \in Nat /\ gap.missing \in Nat /\ gap.missing > 0
  BY <1>1 DEF Gap
<1> HIDE DEF gap
<1>3. F \in Ids /\ F \in Int /\ gap.first = Wire(F)
  BY <1>1, PlaceOfIs DEF From
<1> HIDE DEF F
<1>4. To(gap) = F + gap.span /\ From(gap) = F
  BY DEF To, F
<1>5. m \in Int /\ m <= Len(Stream) /\ F >= 1 /\ Len(Stream) \in Int
  BY <1>3, IdsAre, Sizes
<1>6. F <= To(gap) /\ To(gap) \in Int /\ To(gap) \in Ids
  BY <1>1, <1>2, <1>3, <1>4, <1>5 DEF Ids
<1>7. ASSUME NEW j \in Ids PROVE In(gap, Wire(j)) <=> F <= j /\ j <= F + gap.span
  BY <1>2, <1>3, <1>4, <1>6, InIs
<1> QED BY <1>1, <1>2, <1>3, <1>4, <1>6, <1>7 DEF gap

\* What is missing between two places is a finite set.
LEMMA MissingBetween ==
  ASSUME NEW a \in Int, NEW b \in Int, NEW S
  PROVE  IsFiniteSet((a .. b) \ S) /\ Cardinality((a .. b) \ S) \in Nat
<1>1. IsFiniteSet(a .. b)
  BY FS_Interval
<1>2. IsFiniteSet((a .. b) \ S)
  BY <1>1, FS_Subset
<1> QED BY <1>2, FS_CardinalityType

\* A packet after the newest, without or with a gap before it.
LEMMA NextIs ==
  ASSUME NEW q, NEW S \in SUBSET Ids, NEW m \in Ids, IsNewest(m, S), OpenOf(q, S, m),
         NEW i \in Ids, i = m + 1
  PROVE  OpenOf(q, S \cup {i}, i)
<1>1. m \in Int /\ i \in Int /\ m < i
  BY IdsAre
<1>2. ASSUME NEW k \in 1 .. Len(q)
      PROVE  /\ q[k].first \in {Wire(j) : j \in Ids} /\ To(q[k]) < i
             /\ q[k].missing = Cardinality((From(q[k]) .. To(q[k])) \ (S \cup {i}))
  <2>1. /\ To(q[k]) \in Int /\ To(q[k]) < m /\ From(q[k]) \in Int
        /\ q[k].missing = Cardinality((From(q[k]) .. To(q[k])) \ S)
    BY GapIs
  <2>2. To(q[k]) < i
    BY <1>1, <2>1
  <2>3. (From(q[k]) .. To(q[k])) \ (S \cup {i}) = (From(q[k]) .. To(q[k])) \ S
    <3>1. i \notin From(q[k]) .. To(q[k])
      BY <1>1, <2>1, <2>2
    <3> QED BY <3>1
  <2> QED BY <2>1, <2>2, <2>3 DEF OpenOf
<1>3. ASSUME NEW j \in Ids \ (S \cup {i}), Len(q) > 0, From(q[1]) <= j, j < i
      PROVE  \E k \in 1 .. Len(q) : From(q[k]) <= j /\ j <= To(q[k])
  <2>1. j \in Ids /\ j \notin S /\ j \in Int /\ j # m
    BY IdsAre DEF IsNewest
  <2>2. j < m
    BY <1>1, <1>3, <2>1
  <2> QED BY <1>3, <2>1, <2>2 DEF OpenOf
<1>4. q \in Seq(Gap) /\ \A k, l \in 1 .. Len(q) : k < l => To(q[k]) < From(q[l])
  BY DEF OpenOf
<1> QED BY <1>2, <1>3, <1>4 DEF OpenOf

LEMMA OpenedIs ==
  ASSUME NEW q, NEW S \in SUBSET Ids, NEW m \in Ids, IsNewest(m, S), OpenOf(q, S, m),
         NEW i \in Ids, i - m > 1,
         NEW gap \in Gap, gap.first = Wire(m + 1), gap.span = i - m - 2, gap.missing = i - m - 1
  PROVE  OpenOf(Append(q, gap), S \cup {i}, i)
<1> DEFINE r == Append(q, gap)
           n == Len(q)
           T == S \cup {i}
<1>1. m \in Int /\ i \in Int /\ m + 1 \in Ids /\ \A j \in S : j \in Int /\ j <= m
  <2>1. m \in Int /\ i \in Int /\ m >= 1 /\ i <= Len(Stream) /\ \A j \in S : j \in Int /\ j <= m
    BY IdsAre DEF IsNewest
  <2> QED BY <2>1, Sizes DEF Ids
<1>2. /\ q \in Seq(Gap) /\ n \in Nat /\ r \in Seq(Gap) /\ Len(r) = n + 1 /\ r[n + 1] = gap
      /\ \A k \in 1 .. n : r[k] = q[k]
  BY DEF OpenOf
<1>3. From(gap) = m + 1 /\ To(gap) = i - 1
  <2>1. From(gap) = m + 1
    BY <1>1, PlaceIs DEF From
  <2> QED BY <1>1, <2>1 DEF To
<1>4. gap.missing = Cardinality((From(gap) .. To(gap)) \ T)
  <2>1. (m + 1 .. i - 1) \ T = m + 1 .. i - 1
    BY <1>1
  <2>2. Cardinality(m + 1 .. i - 1) = i - m - 1
    <3>1. m + 1 \in Int /\ i - 1 \in Int /\ ~(m + 1 > i - 1) /\ (i - 1) - (m + 1) + 1 = i - m - 1
      BY <1>1
    <3> DEFINE a == m + 1
               b == i - 1
    <3>2. Cardinality(a .. b) = IF a > b THEN 0 ELSE b - a + 1
      <4> HIDE DEF a, b
      <4>1. a \in Int /\ b \in Int
        BY <3>1 DEF a, b
      <4> QED BY <4>1, FS_Interval
    <3> QED BY <3>1, <3>2
  <2> QED BY <1>3, <2>1, <2>2
<1> HIDE DEF r, n
<1>5. ASSUME NEW k \in 1 .. n
      PROVE /\ k \in Int /\ k # n + 1 /\ To(q[k]) < m + 1 /\ To(q[k]) < i
            /\ q[k].first \in {Wire(j) : j \in Ids}
            /\ q[k].missing = Cardinality((From(q[k]) .. To(q[k])) \ T)
  <2>1. /\ To(q[k]) \in Int /\ To(q[k]) < m /\ From(q[k]) \in Int
        /\ q[k].missing = Cardinality((From(q[k]) .. To(q[k])) \ S)
    BY GapIs DEF n
  <2>2. (From(q[k]) .. To(q[k])) \ T = (From(q[k]) .. To(q[k])) \ S
    <3>1. i \notin From(q[k]) .. To(q[k])
      BY <1>1, <2>1
    <3> QED BY <3>1
  <2>3. q[k].first \in {Wire(j) : j \in Ids}
    BY DEF OpenOf, n
  <2>4. To(q[k]) < m + 1 /\ To(q[k]) < i
    <3> DEFINE x == To(q[k])
    <3>1. x \in Int /\ x < m
      BY <2>1
    <3> HIDE DEF x
    <3>2. x < m + 1 /\ x < i
      BY <1>1, <3>1
    <3> QED BY <3>2 DEF x
  <2>5. k \in Int /\ k # n + 1
    BY <1>2
  <2> QED BY <2>1, <2>2, <2>3, <2>4, <2>5
<1>6. ASSUME NEW k \in 1 .. Len(r)
      PROVE  /\ r[k].first \in {Wire(j) : j \in Ids} /\ To(r[k]) < i
             /\ r[k].missing = Cardinality((From(r[k]) .. To(r[k])) \ T)
  <2>1. CASE k = n + 1
    <3>1. To(r[k]) < i
      BY <1>1, <1>2, <1>3, <2>1
    <3> QED BY <1>1, <1>2, <1>4, <2>1, <3>1
  <2>2. CASE k # n + 1
    <3>1. k \in 1 .. n /\ r[k] = q[k]
      BY <1>2, <2>2
    <3> QED BY <1>5, <3>1
  <2> QED BY <2>1, <2>2
<1>7. ASSUME NEW k \in 1 .. Len(r), NEW l \in 1 .. Len(r), k < l PROVE To(r[k]) < From(r[l])
  <2>1. k \in 1 .. n /\ r[k] = q[k]
    BY <1>2, <1>7
  <2>2. CASE l = n + 1
    <3> QED BY <1>2, <1>3, <1>5, <2>1, <2>2
  <2>3. CASE l # n + 1
    <3>1. l \in 1 .. n /\ r[l] = q[l]
      BY <1>2, <2>3
    <3> QED BY <1>7, <2>1, <3>1 DEF OpenOf, n
  <2> QED BY <2>2, <2>3
<1>8. ASSUME NEW j \in Ids \ T, From(r[1]) <= j, j < i
      PROVE  \E k \in 1 .. Len(r) : From(r[k]) <= j /\ j <= To(r[k])
  <2>1. j \in Ids /\ j \notin S /\ j \in Int /\ j # m
    BY IdsAre DEF IsNewest
  <2>2. CASE j < m
    <3>1. n > 0 /\ 1 \in 1 .. n /\ r[1] = q[1]
      <4>1. n # 0
        BY <1>1, <1>2, <1>3, <1>8, <2>1, <2>2
      <4> QED BY <1>2, <4>1
    <3>2. PICK k \in 1 .. n : From(q[k]) <= j /\ j <= To(q[k])
      BY <1>8, <2>1, <2>2, <3>1 DEF OpenOf, n
    <3>3. k \in 1 .. Len(r) /\ r[k] = q[k]
      BY <1>2
    <3> QED BY <3>2, <3>3
  <2>3. CASE j > m
    <3>1. n + 1 \in 1 .. Len(r) /\ m + 1 <= j /\ j <= i - 1
      BY <1>1, <1>2, <1>8, <2>1, <2>3
    <3> QED BY <1>2, <1>3, <3>1
  <2> QED BY <1>1, <2>1, <2>2, <2>3
<1>9. OpenOf(r, T, i)
  BY <1>2, <1>6, <1>7, <1>8 DEF OpenOf
<1> QED BY <1>9 DEF r

LEMMA OneBefore ==
  ASSUME NEW x \in Int
  PROVE  ((x % SeqMod) + (-1)) % SeqMod = (x + (-1)) % SeqMod
<1>1. SeqMod \in Nat \ {0} /\ -1 \in Int
  BY Sizes
<1> QED BY <1>1, ModOfSum

\* A gap merged into the newest makes it longer; between the two nothing is
\* missing.
LEMMA MergedIs ==
  ASSUME NEW q, NEW S \in SUBSET Ids, NEW m \in Ids, IsNewest(m, S), OpenOf(q, S, m),
         NEW i \in Ids, i - m > 1, NEW n, n = Len(q), n > 0,
         NEW r \in Seq(Gap), Len(r) = n, \A k \in 1 .. n : k # n => r[k] = q[k],
         r[n].first = q[n].first, r[n].span = (Wire(i) - 1 - q[n].first) % SeqMod,
         r[n].missing = q[n].missing + (i - m) - 1
  PROVE  OpenOf(r, S \cup {i}, i)
<1> DEFINE T == S \cup {i}
           F == From(q[n])
           L == To(q[n])
<1>1. m \in Int /\ i \in Int /\ m + 1 < i /\ \A j \in S : j \in Int /\ j <= m
  BY IdsAre DEF IsNewest
<1>2. n \in Nat /\ n \in 1 .. n /\ q \in Seq(Gap)
  BY DEF OpenOf
<1>3. /\ q[n].first = Wire(F) /\ F \in Ids /\ F \in Int /\ L \in Int /\ F <= L /\ L < m
      /\ q[n].missing = Cardinality((F .. L) \ S)
  <2>1. n \in 1 .. Len(q)
    BY <1>2
  <2> HIDE DEF F, L, T
  <2>2. q[n].first = Wire(From(q[n])) /\ From(q[n]) \in Ids
    BY <2>1, GapIs
  <2>3. From(q[n]) \in Int /\ To(q[n]) \in Int /\ From(q[n]) <= To(q[n]) /\ To(q[n]) < m
    BY <2>1, GapIs
  <2>4. q[n].missing = Cardinality((From(q[n]) .. To(q[n])) \ S)
    BY <2>1, GapIs
  <2> QED BY <2>2, <2>3, <2>4 DEF F, L
<1>4. From(r[n]) = F /\ To(r[n]) = i - 1
  <2>1. From(r[n]) = F
    BY DEF From
  <2> HIDE DEF F
  <2>2. (Wire(i) - 1 - q[n].first) % SeqMod = i - F - 1
    <3> DEFINE X == Wire(i) - Wire(F)
    <3>1. Wire(i) \in Int /\ Wire(F) \in Int
      BY <1>3, WireIs, Sizes DEF Wires
    <3>2. X % SeqMod = i - F
      <4>1. ~(i < F)
        BY <1>1, <1>3
      <4> QED BY <1>3, <4>1, Apart
    <3>3. X \in Int /\ Wire(i) - 1 - q[n].first = X + (-1)
      BY <1>3, <3>1
    <3> HIDE DEF X
    <3>4. ((X % SeqMod) + (-1)) % SeqMod = (X + (-1)) % SeqMod
      BY <3>3, OneBefore
    <3>5. (i - F - 1) \in Int /\ i - F - 1 >= 0 /\ i - F - 1 < SeqMod
      BY <1>1, <1>3, IdsAre, Sizes
    <3> DEFINE y == i - F - 1
    <3>6. y % SeqMod = y
      <4> HIDE DEF y
      <4>1. y \in Int /\ 0 <= y /\ y < SeqMod /\ -SeqMod < y
        BY <3>5, Sizes DEF y
      <4> QED BY <4>1, Sizes, SmallMod
    <3>7. (X % SeqMod) + (-1) = y
      BY <1>1, <1>3, <3>2
    <3> QED BY <3>3, <3>4, <3>6, <3>7
  <2>3. r[n].span = i - F - 1
    BY <2>2
  <2> QED BY <1>1, <1>3, <2>1, <2>3 DEF To
<1>5. ASSUME NEW j \in Int, L < j, j <= m PROVE j \in S
  <2> SUFFICES ASSUME j \notin S PROVE FALSE
    OBVIOUS
  <2>1. j \in Ids /\ j # m /\ j < m
    <3>1. F >= 1 /\ m <= Len(Stream) /\ m \in S
      BY <1>3, IdsAre DEF IsNewest
    <3>2. j \in 1 .. Len(Stream)
      BY <1>1, <1>3, <1>5, <3>1, Sizes
    <3> QED BY <1>1, <1>5, <3>1, <3>2 DEF Ids
  <2>2. From(q[1]) <= j
    <3>1. CASE n = 1
      BY <1>3, <1>5, <3>1
    <3>2. CASE n # 1
      <4>1. 1 \in 1 .. n /\ 1 < n
        BY <1>2, <3>2
      <4>2. To(q[1]) < F
        BY <1>2, <4>1 DEF OpenOf
      <4>3. From(q[1]) \in Int /\ To(q[1]) \in Int /\ From(q[1]) <= To(q[1])
        BY <4>1, GapIs
      <4> HIDE DEF F, L
      <4> QED BY <1>3, <1>5, <4>2, <4>3
    <3> QED BY <3>1, <3>2
  <2>3. PICK k \in 1 .. n : From(q[k]) <= j /\ j <= To(q[k])
    BY <2>1, <2>2 DEF OpenOf
  <2>4. k # n
    BY <1>3, <1>5, <2>3
  <2>5. To(q[k]) < F /\ To(q[k]) \in Int
    <3>1. k < n
      BY <1>2, <2>4
    <3>2. To(q[k]) < F
      BY <1>2, <3>1 DEF OpenOf
    <3> QED BY <3>2, GapIs
  <2> HIDE DEF F, L
  <2> QED BY <1>3, <1>5, <2>3, <2>5
<1>6. r[n].missing = Cardinality((From(r[n]) .. To(r[n])) \ T)
  <2> DEFINE A == (F .. L) \ S
             B == m + 1 .. i - 1
  <2>1. (F .. i - 1) \ T = A \cup B /\ A \cap B = {}
    <3> HIDE DEF F, L
    <3>1. ASSUME NEW j \in (F .. i - 1) \ T PROVE j \in A \cup B
      <4>1. j \in Int /\ F <= j /\ j <= i - 1 /\ j \notin S
        BY <1>1, <1>3
      <4>2. j <= L \/ (L < j /\ j <= m) \/ m + 1 <= j
        BY <1>1, <1>3, <4>1
      <4> QED BY <1>1, <1>3, <1>5, <4>1, <4>2
    <3>2. ASSUME NEW j \in A \cup B PROVE j \in (F .. i - 1) \ T
      <4>1. j \in Int /\ F <= j /\ j <= i - 1
        BY <1>1, <1>3
      <4>2. j \notin S
        BY <1>1
      <4>3. j # i
        BY <1>1, <4>1
      <4> QED BY <1>1, <1>3, <4>1, <4>2, <4>3
    <3>3. A \cap B = {}
      BY <1>1, <1>3
    <3> HIDE DEF A, B
    <3> QED BY <3>1, <3>2, <3>3
  <2>2. IsFiniteSet(A) /\ Cardinality(A) \in Nat
    <3> HIDE DEF F, L
    <3> QED BY <1>3, MissingBetween
  <2>3. IsFiniteSet(B) /\ Cardinality(B) = i - m - 1
    <3>1. m + 1 \in Int /\ i - 1 \in Int /\ ~(m + 1 > i - 1) /\ (i - 1) - (m + 1) + 1 = i - m - 1
      BY <1>1
    <3> DEFINE a == m + 1
               b == i - 1
    <3>2. IsFiniteSet(a .. b) /\ Cardinality(a .. b) = IF a > b THEN 0 ELSE b - a + 1
      <4> HIDE DEF a, b
      <4>1. a \in Int /\ b \in Int
        BY <3>1 DEF a, b
      <4> QED BY <4>1, FS_Interval
    <3> QED BY <3>1, <3>2
  <2> HIDE DEF A, B
  <2>4. Cardinality(A \cup B) = Cardinality(A) + Cardinality(B) - Cardinality(A \cap B)
    BY <2>2, <2>3, FS_Union
  <2>5. Cardinality({}) = 0
    BY FS_EmptySet
  <2>6. Cardinality((F .. i - 1) \ T) = Cardinality(A) + (i - m - 1)
    <3>1. Cardinality((F .. i - 1) \ T) = Cardinality(A \cup B)
      BY <2>1
    <3>2. Cardinality(A \cap B) = 0
      BY <2>1, <2>5
    <3> HIDE DEF F, L, T
    <3> QED BY <1>1, <2>2, <2>3, <2>4, <3>1, <3>2
  <2>7. q[n].missing = Cardinality(A)
    BY <1>3 DEF A
  <2> HIDE DEF F, T
  <2>8. r[n].missing = Cardinality(A) + (i - m - 1)
    BY <1>1, <2>2, <2>7
  <2> QED BY <1>4, <2>6, <2>8
<1>7. ASSUME NEW k \in 1 .. n, k # n
      PROVE /\ r[k] = q[k] /\ To(q[k]) < i
            /\ q[k].first \in {Wire(j) : j \in Ids}
            /\ q[k].missing = Cardinality((From(q[k]) .. To(q[k])) \ T)
  <2>1. /\ To(q[k]) \in Int /\ To(q[k]) < m /\ From(q[k]) \in Int
        /\ q[k].missing = Cardinality((From(q[k]) .. To(q[k])) \ S)
        /\ q[k].first \in {Wire(j) : j \in Ids}
    BY GapIs DEF OpenOf
  <2>2. To(q[k]) < i
    <3> DEFINE x == To(q[k])
    <3>1. x \in Int /\ x < m
      BY <2>1
    <3> HIDE DEF x
    <3>2. x < i
      BY <1>1, <3>1
    <3> QED BY <3>2 DEF x
  <2>3. (From(q[k]) .. To(q[k])) \ T = (From(q[k]) .. To(q[k])) \ S
    <3>1. i \notin From(q[k]) .. To(q[k])
      BY <1>1, <2>1, <2>2
    <3> QED BY <3>1
  <2> QED BY <1>7, <2>1, <2>2, <2>3
<1>8. ASSUME NEW k \in 1 .. n
      PROVE  /\ r[k].first \in {Wire(j) : j \in Ids} /\ To(r[k]) < i
             /\ r[k].missing = Cardinality((From(r[k]) .. To(r[k])) \ T)
             /\ From(r[k]) = From(q[k])
  <2>1. CASE k = n
    <3>1. i - 1 < i
      BY <1>1
    <3> QED BY <1>3, <1>4, <1>6, <2>1, <3>1
  <2>2. CASE k # n
    BY <1>7, <2>2
  <2> QED BY <2>1, <2>2
<1>9. ASSUME NEW k \in 1 .. n, NEW l \in 1 .. n, k < l PROVE To(r[k]) < From(r[l])
  <2>1. k # n
    BY <1>2, <1>9
  <2>2. To(q[k]) < From(q[l])
    BY <1>9 DEF OpenOf
  <2> QED BY <1>7, <1>8, <2>1, <2>2
<1>10. ASSUME NEW j \in Ids \ T, From(r[1]) <= j, j < i
       PROVE  \E k \in 1 .. n : From(r[k]) <= j /\ j <= To(r[k])
  <2>1. j \in Ids /\ j \notin S /\ j \in Int /\ j # m /\ j <= i - 1
    BY <1>1, <1>10, IdsAre DEF IsNewest
  <2>2. CASE F <= j
    BY <1>2, <1>4, <2>1, <2>2
  <2>3. CASE ~(F <= j)
    <3>1. j < m /\ From(q[1]) <= j
      <4>1. 1 \in 1 .. n
        BY <1>2
      <4>2. From(r[1]) = From(q[1])
        BY <1>8, <4>1
      <4> HIDE DEF F, L
      <4> QED BY <1>1, <1>3, <1>10, <2>1, <2>3, <4>2
    <3>2. PICK k \in 1 .. n : From(q[k]) <= j /\ j <= To(q[k])
      BY <2>1, <3>1 DEF OpenOf
    <3>3. k # n
      BY <2>3, <3>2
    <3> QED BY <1>7, <3>2, <3>3
  <2> QED BY <2>2, <2>3
<1> HIDE DEF T
<1>11. OpenOf(r, T, i)
  BY <1>8, <1>9, <1>10 DEF OpenOf
<1> QED BY <1>11 DEF T

\* A list without the one at a place.
LEMMA RemovedIs ==
  ASSUME NEW R, NEW q \in Seq(R), NEW k \in 1 .. Len(q)
  PROVE  LET r == SubSeq(q, 1, k - 1) \o SubSeq(q, k + 1, Len(q)) IN
         /\ r \in Seq(R) /\ Len(r) = Len(q) - 1
         /\ \A l \in 1 .. Len(q) - 1 : r[l] = q[IF l < k THEN l ELSE l + 1]
<1> DEFINE u == SubSeq(q, 1, k - 1)
           v == SubSeq(q, k + 1, Len(q))
           r == u \o v
<1>1. Len(q) \in Nat /\ k \in Int /\ 1 <= k /\ k <= Len(q) /\ k \in 0 .. Len(q)
  OBVIOUS
<1>2. /\ u \in Seq(R) /\ Len(u) = k - 1 /\ \A l \in 1 .. k - 1 : u[l] = q[l]
  BY <1>1
<1>3. /\ v \in Seq(R) /\ Len(v) = Len(q) - k /\ \A l \in 1 .. Len(q) - k : v[l] = q[k + l]
  <2>1. v \in Seq(R)
    BY <1>1, RestIs
  <2>2. Len(v) = Len(q) - k
    BY <1>1, RestIs
  <2>3. \A l \in 1 .. Len(q) - k : v[l] = q[k + l]
    BY <1>1, RestIs
  <2> QED BY <2>1, <2>2, <2>3
<1> HIDE DEF u, v
<1>4. /\ r \in Seq(R) /\ Len(r) = Len(u) + Len(v)
      /\ \A l \in 1 .. Len(u) + Len(v) : r[l] = IF l <= Len(u) THEN u[l] ELSE v[l - Len(u)]
  BY <1>2, <1>3, ConcatProperties
<1> HIDE DEF r
<1>5. Len(r) = Len(q) - 1
  BY <1>1, <1>2, <1>3, <1>4
<1>6. ASSUME NEW l \in 1 .. Len(q) - 1 PROVE r[l] = q[IF l < k THEN l ELSE l + 1]
  <2>1. l \in Int /\ l \in 1 .. Len(u) + Len(v) /\ (l <= Len(u) <=> l < k)
    BY <1>1, <1>2, <1>3
  <2>2. CASE l < k
    <3>1. l \in 1 .. k - 1
      BY <1>1, <2>1, <2>2
    <3> QED BY <1>2, <1>4, <2>1, <2>2, <3>1
  <2>3. CASE ~(l < k)
    <3>1. l - Len(u) \in 1 .. Len(q) - k /\ k + (l - Len(u)) = l + 1
      BY <1>1, <1>2, <2>1, <2>3
    <3>2. r[l] = v[l - Len(u)]
      BY <1>4, <2>1, <2>3
    <3> QED BY <1>3, <2>3, <3>1, <3>2
  <2> QED BY <2>2, <2>3
<1> QED BY <1>4, <1>5, <1>6 DEF r, u, v

\* A late packet goes from the gap that has it.
LEMMA FilledIs ==
  ASSUME NEW q, NEW S \in SUBSET Ids, NEW m \in Ids, IsNewest(m, S), OpenOf(q, S, m),
         NEW i \in Ids, i \notin S, i < m
  PROVE  OpenOf(Fill(q, Wire(i)), S \cup {i}, m)
<1> DEFINE T == S \cup {i}
           n == Len(q)
           Gone(k) == (From(q[k]) .. To(q[k])) \ S
           Left(k) == (From(q[k]) .. To(q[k])) \ T
           hits == {k \in DOMAIN q : In(q[k], Wire(i))}
           r == Fill(q, Wire(i))
<1>1. q \in Seq(Gap) /\ n \in Nat /\ DOMAIN q = 1 .. n
  BY DEF OpenOf
<1>2. i \in Int /\ m \in Int
  BY IdsAre
<1>3. ASSUME NEW k \in 1 .. n
      PROVE  /\ From(q[k]) \in Int /\ To(q[k]) \in Int /\ From(q[k]) <= To(q[k])
             /\ k \in hits <=> From(q[k]) <= i /\ i <= To(q[k])
  <2>1. From(q[k]) \in Int /\ To(q[k]) \in Int /\ From(q[k]) <= To(q[k])
    BY GapIs
  <2>2. In(q[k], Wire(i)) <=> From(q[k]) <= i /\ i <= To(q[k])
    BY GapIs
  <2> QED BY <1>1, <2>1, <2>2
<1>4. ASSUME NEW k \in 1 .. n
      PROVE  /\ q[k].first \in {Wire(j) : j \in Ids} /\ To(q[k]) < m /\ q[k] \in Gap
             /\ q[k].missing = Cardinality(Gone(k))
  BY <1>1 DEF OpenOf
<1>5. ASSUME NEW k \in 1 .. n, NEW l \in 1 .. n, k < l PROVE To(q[k]) < From(q[l])
  BY <1>5 DEF OpenOf
<1>6. ASSUME NEW j \in Ids \ T, n > 0, From(q[1]) <= j, j < m
      PROVE  \E k \in 1 .. n : From(q[k]) <= j /\ j <= To(q[k])
  BY <1>6 DEF OpenOf
<1>7. ASSUME NEW k \in 1 .. n, k \notin hits PROVE Left(k) = Gone(k)
  <2>1. i \notin From(q[k]) .. To(q[k])
    BY <1>2, <1>3, <1>7
  <2> QED BY <2>1
<1>8. r = IF hits = {} THEN q
          ELSE LET k == Min(hits) IN
               IF q[k].missing = 1
                 THEN SubSeq(q, 1, k - 1) \o SubSeq(q, k + 1, Len(q))
                 ELSE [q EXCEPT ![k].missing = @ - 1]
  BY DEF Fill
<1> HIDE DEF T, n, hits, r, Left, Gone
<1>9. CASE hits = {}
  <2>1. r = q /\ \A k \in 1 .. n : Left(k) = Gone(k)
    BY <1>7, <1>8, <1>9
  <2>2. OpenOf(q, T, m)
    <3>1. \A k \in 1 .. n : q[k].missing = Cardinality((From(q[k]) .. To(q[k])) \ T)
      BY <1>4, <2>1 DEF Left
    <3> QED BY <1>1, <1>4, <1>5, <1>6, <3>1 DEF OpenOf, n
  <2> QED BY <2>1, <2>2 DEF r, T
<1>10. CASE hits # {}
  <2> DEFINE h == Min(hits)
  <2>1. h \in hits /\ h \in 1 .. n
    <3>1. hits \in SUBSET Nat
      BY <1>1 DEF hits
    <3>2. h \in hits
      BY <1>10, <3>1, MinIs
    <3> QED BY <1>1, <3>2 DEF hits
  <2>2. r = IF q[h].missing = 1
                 THEN SubSeq(q, 1, h - 1) \o SubSeq(q, h + 1, Len(q))
                 ELSE [q EXCEPT ![h].missing = @ - 1]
    BY <1>8, <1>10
  <2> HIDE DEF h
  <2>3. From(q[h]) <= i /\ i <= To(q[h])
    BY <1>3, <2>1
  <2>4. ASSUME NEW k \in 1 .. n, k # h PROVE k \notin hits
    <3> SUFFICES ASSUME k \in hits PROVE FALSE
      OBVIOUS
    <3>1. From(q[k]) <= i /\ i <= To(q[k])
      BY <1>3
    <3>2. k < h \/ h < k
      BY <1>1, <2>1, <2>4
    <3>3. To(q[k]) < From(q[h]) \/ To(q[h]) < From(q[k])
      BY <1>5, <2>1, <3>2
    <3>4. /\ From(q[k]) \in Int /\ To(q[k]) \in Int
          /\ From(q[h]) \in Int /\ To(q[h]) \in Int
      BY <1>3, <2>1
    <3> QED BY <1>2, <2>3, <3>1, <3>3, <3>4
  <2>5. Left(h) = Gone(h) \ {i} /\ i \in Gone(h) /\ IsFiniteSet(Gone(h))
    <3>1. From(q[h]) \in Int /\ To(q[h]) \in Int
      BY <1>3, <2>1
    <3>2. IsFiniteSet(Gone(h))
      BY <3>1, MissingBetween DEF Gone
    <3>3. Left(h) = Gone(h) \ {i}
      BY DEF Left, Gone, T
    <3>4. i \in Gone(h)
      BY <1>2, <2>3, <3>1 DEF Gone
    <3> QED BY <3>2, <3>3, <3>4
  <2>6. Cardinality(Left(h)) = q[h].missing - 1
    <3>1. Cardinality(Gone(h) \ {i}) = Cardinality(Gone(h)) - 1
      BY <2>5, FS_RemoveElement
    <3> QED BY <1>4, <2>1, <2>5, <3>1
  <2>7. q[h].missing \in Nat /\ q[h].missing > 0
    BY <1>4, <2>1 DEF Gap
  <2>8. CASE q[h].missing # 1
    <3>1. r = [q EXCEPT ![h].missing = @ - 1]
      BY <2>2, <2>8
    <3>2. /\ r \in Seq(Gap) /\ Len(r) = n /\ r[h].first = q[h].first /\ r[h].span = q[h].span
          /\ r[h].missing = q[h].missing - 1
          /\ \A k \in 1 .. n : k # h => r[k] = q[k]
      <4> DEFINE x == [q[h] EXCEPT !.missing = @ - 1]
      <4>1. x \in Gap /\ x.first = q[h].first /\ x.span = q[h].span
            /\ x.missing = q[h].missing - 1
        BY <1>4, <2>1, <2>7, <2>8 DEF Gap
      <4> HIDE DEF x
      <4>2. r = [q EXCEPT ![h] = x]
        BY <3>1 DEF x
      <4>3. r \in Seq(Gap) /\ Len(r) = n /\ r[h] = x /\ \A k \in 1 .. n : k # h => r[k] = q[k]
        BY <1>1, <2>1, <4>1, <4>2 DEF n
      <4> QED BY <4>1, <4>3
    <3> HIDE DEF r
    <3>3. ASSUME NEW k \in 1 .. n
          PROVE  /\ From(r[k]) = From(q[k]) /\ To(r[k]) = To(q[k]) /\ r[k].first = q[k].first
                 /\ r[k].missing = Cardinality(Left(k))
      <4>1. CASE k = h
        BY <2>6, <3>2, <4>1 DEF From, To
      <4>2. CASE k # h
        BY <1>4, <1>7, <2>4, <3>2, <4>2
      <4> QED BY <4>1, <4>2
    <3>4. \A k \in 1 .. n : r[k].missing = Cardinality((From(r[k]) .. To(r[k])) \ T)
      BY <3>3 DEF Left
    <3>5. n > 0 => From(r[1]) = From(q[1])
      BY <1>1, <3>3
    <3>6. OpenOf(r, T, m)
      BY <1>4, <1>5, <1>6, <3>2, <3>3, <3>4, <3>5 DEF OpenOf
    <3> QED BY <3>6 DEF r, T
  <2>9. CASE q[h].missing = 1
    <3> DEFINE old(l) == IF l < h THEN l ELSE l + 1
    <3>0. r = SubSeq(q, 1, h - 1) \o SubSeq(q, h + 1, Len(q)) /\ h \in 1 .. Len(q)
      BY <2>1, <2>2, <2>9 DEF n
    <3>1. r \in Seq(Gap) /\ Len(r) = n - 1
      BY <1>1, <3>0, RemovedIs DEF n
    <3>2. \A l \in 1 .. n - 1 : r[l] = q[old(l)]
      <4>1. \A l \in 1 .. Len(q) - 1 : r[l] = q[IF l < h THEN l ELSE l + 1]
        BY <1>1, <3>0, RemovedIs
      <4> QED BY <4>1 DEF n
    <3>3. ASSUME NEW l \in 1 .. n - 1
          PROVE /\ l \in Int /\ old(l) \in 1 .. n /\ old(l) # h /\ old(l) \in Int
                /\ old(l) >= l
      BY <1>1, <2>1
    <3>4. ASSUME NEW k \in 1 .. n, k # h
          PROVE  \E l \in 1 .. n - 1 : old(l) = k
      <4>1. CASE k < h
        <5>1. k \in 1 .. n - 1 /\ old(k) = k
          BY <1>1, <2>1, <4>1
        <5> QED BY <5>1
      <4>2. CASE h < k
        <5>1. k - 1 \in 1 .. n - 1 /\ ~(k - 1 < h) /\ (k - 1) + 1 = k
          BY <1>1, <2>1, <4>2
        <5>2. old(k - 1) = k
          BY <5>1
        <5> QED BY <5>1, <5>2
      <4> QED BY <1>1, <2>1, <3>4, <4>1, <4>2
    <3>5. ASSUME NEW k \in 1 .. n - 1, NEW l \in 1 .. n - 1, k < l PROVE old(k) < old(l)
      BY <1>1, <2>1, <3>5
    <3> HIDE DEF old, r
    <3>6. ASSUME NEW l \in 1 .. n - 1
          PROVE  /\ r[l].first \in {Wire(j) : j \in Ids} /\ To(r[l]) < m
                 /\ r[l].missing = Cardinality((From(r[l]) .. To(r[l])) \ T)
      <4>1. old(l) \in 1 .. n /\ old(l) \notin hits /\ r[l] = q[old(l)]
        BY <2>4, <3>2, <3>3
      <4> QED BY <1>4, <1>7, <4>1 DEF Left
    <3>7. ASSUME NEW k \in 1 .. n - 1, NEW l \in 1 .. n - 1, k < l PROVE To(r[k]) < From(r[l])
      <4>1. old(k) \in 1 .. n /\ old(l) \in 1 .. n /\ r[k] = q[old(k)] /\ r[l] = q[old(l)]
        BY <3>2, <3>3
      <4> QED BY <1>5, <3>5, <3>7, <4>1
    <3>8. Left(h) = {}
      <4>1. Cardinality(Left(h)) = 0
        BY <2>6, <2>7, <2>9
      <4>2. IsFiniteSet(Left(h))
        BY <2>5, FS_Subset
      <4> QED BY <4>1, <4>2, FS_EmptySet
    <3>9. ASSUME NEW j \in Ids \ T, n - 1 > 0, From(r[1]) <= j, j < m
          PROVE  \E l \in 1 .. n - 1 : From(r[l]) <= j /\ j <= To(r[l])
      <4>1. j \in Int
        BY IdsAre
      <4>2. From(q[1]) <= j /\ n > 0
        <5>1. 1 \in 1 .. n /\ 1 \in 1 .. n - 1 /\ n > 0
          BY <1>1, <3>9
        <5>2. r[1] = q[old(1)] /\ old(1) \in 1 .. n /\ old(1) >= 1 /\ old(1) \in Int
          BY <3>2, <3>3, <5>1
        <5>3. CASE old(1) = 1
          BY <3>9, <5>1, <5>2, <5>3
        <5>4. CASE old(1) # 1
          <6>1. 1 < old(1)
            BY <5>2, <5>4
          <6>2. To(q[1]) < From(q[old(1)]) /\ From(q[1]) <= To(q[1])
            BY <1>3, <1>5, <5>1, <5>2, <6>1
          <6>3. From(q[1]) \in Int /\ To(q[1]) \in Int /\ From(q[old(1)]) \in Int
            BY <1>3, <5>1, <5>2
          <6>4. From(q[old(1)]) <= j
            BY <3>9, <5>2
          <6> QED BY <4>1, <5>1, <6>2, <6>3, <6>4
        <5> QED BY <5>3, <5>4
      <4>3. PICK k \in 1 .. n : From(q[k]) <= j /\ j <= To(q[k])
        BY <1>6, <3>9, <4>2
      <4>4. k # h
        <5> SUFFICES ASSUME k = h PROVE FALSE
          OBVIOUS
        <5>1. From(q[h]) \in Int /\ To(q[h]) \in Int
          BY <1>3, <2>1
        <5>2. j \in Left(h)
          BY <4>1, <4>3, <5>1 DEF Left
        <5> QED BY <3>8, <5>2
      <4>5. PICK l \in 1 .. n - 1 : old(l) = k
        BY <3>4, <4>4
      <4> QED BY <3>2, <4>3, <4>5
    <3>10. OpenOf(r, T, m)
      BY <3>1, <3>6, <3>7, <3>9 DEF OpenOf
    <3> QED BY <3>10 DEF r, T
  <2> QED BY <2>8, <2>9
<1> QED BY <1>9, <1>10

\* The newest of the gaps can be kept alone.
LEMMA KeptIs ==
  ASSUME NEW q, NEW S \in SUBSET Ids, NEW m \in Ids, OpenOf(q, S, m), NEW n \in 0 .. Len(q)
  PROVE  OpenOf(SubSeq(q, n + 1, Len(q)), S, m)
<1> DEFINE r == SubSeq(q, n + 1, Len(q))
<1>1. q \in Seq(Gap) /\ Len(q) \in Nat /\ n \in Int /\ 0 <= n /\ n <= Len(q)
  BY DEF OpenOf
<1>2. r \in Seq(Gap)
  BY <1>1, RestIs
<1>3. Len(r) = Len(q) - n
  BY <1>1, RestIs
<1>4. \A k \in 1 .. Len(q) - n : r[k] = q[n + k]
  BY <1>1, RestIs
<1> HIDE DEF r
<1>5. ASSUME NEW k \in 1 .. Len(r) PROVE r[k] = q[n + k] /\ n + k \in 1 .. Len(q) /\ k \in Int
  BY <1>1, <1>3, <1>4
<1>6. ASSUME NEW k \in 1 .. Len(r)
      PROVE  /\ r[k].first \in {Wire(j) : j \in Ids} /\ To(r[k]) < m
             /\ r[k].missing = Cardinality((From(r[k]) .. To(r[k])) \ S)
  BY <1>5 DEF OpenOf
<1>7. ASSUME NEW k \in 1 .. Len(r), NEW l \in 1 .. Len(r), k < l PROVE To(r[k]) < From(r[l])
  <2>1. n + k < n + l
    BY <1>1, <1>5, <1>7
  <2> QED BY <1>5, <2>1 DEF OpenOf
<1>8. ASSUME NEW j \in Ids \ S, Len(r) > 0, From(r[1]) <= j, j < m
      PROVE  \E k \in 1 .. Len(r) : From(r[k]) <= j /\ j <= To(r[k])
  <2>1. 1 \in 1 .. Len(r) /\ 1 \in 1 .. Len(q) /\ n + 1 \in 1 .. Len(q) /\ r[1] = q[n + 1]
    BY <1>1, <1>3, <1>5, <1>8
  <2>2. j \in Int
    BY IdsAre
  <2>3. From(q[1]) <= j
    <3>1. CASE n = 0
      BY <1>8, <2>1, <3>1
    <3>2. CASE n # 0
      <4>1. To(q[1]) < From(q[n + 1])
        <5>1. 1 < n + 1
          BY <1>1, <3>2
        <5> QED BY <2>1, <5>1 DEF OpenOf
      <4>2. From(q[1]) \in Int /\ To(q[1]) \in Int /\ From(q[1]) <= To(q[1])
        BY <2>1, GapIs
      <4>3. From(q[n + 1]) \in Int /\ From(q[n + 1]) <= j
        BY <1>8, <2>1, GapIs
      <4> QED BY <2>2, <4>1, <4>2, <4>3
    <3> QED BY <3>1, <3>2
  <2>4. PICK k \in 1 .. Len(q) : From(q[k]) <= j /\ j <= To(q[k])
    BY <1>8, <2>1, <2>3 DEF OpenOf
  <2>5. ~(k < n + 1)
    <3> SUFFICES ASSUME k < n + 1 PROVE FALSE
      OBVIOUS
    <3>1. To(q[k]) < From(q[n + 1])
      BY <2>1 DEF OpenOf
    <3>2. To(q[k]) \in Int /\ From(q[n + 1]) \in Int
      BY <2>1, GapIs
    <3> QED BY <1>8, <2>1, <2>2, <2>4, <3>1, <3>2
  <2>6. k - n \in 1 .. Len(r) /\ n + (k - n) = k
    BY <1>1, <1>3, <2>5
  <2>7. r[k - n] = q[k]
    BY <1>5, <2>6
  <2> QED BY <2>4, <2>6, <2>7
<1>9. OpenOf(r, S, m)
  BY <1>2, <1>6, <1>7, <1>8 DEF OpenOf
<1> QED BY <1>9 DEF r

\* What a gap counts does not depend on when it came or was asked for.
LEMMA SameGaps ==
  ASSUME NEW q, NEW S \in SUBSET Ids, NEW m \in Ids, OpenOf(q, S, m), NEW r \in Seq(Gap),
         Len(r) = Len(q),
         \A k \in 1 .. Len(q) : /\ r[k].first = q[k].first /\ r[k].span = q[k].span
                                /\ r[k].missing = q[k].missing
  PROVE  OpenOf(r, S, m)
<1>1. ASSUME NEW k \in 1 .. Len(q) PROVE From(r[k]) = From(q[k]) /\ To(r[k]) = To(q[k])
  BY DEF From, To
<1>2. ASSUME NEW k \in 1 .. Len(r)
      PROVE  /\ r[k].first \in {Wire(j) : j \in Ids} /\ To(r[k]) < m
             /\ r[k].missing = Cardinality((From(r[k]) .. To(r[k])) \ S)
  <2>1. k \in 1 .. Len(q) /\ From(r[k]) = From(q[k]) /\ To(r[k]) = To(q[k])
    BY <1>1
  <2> QED BY <2>1 DEF OpenOf
<1>3. ASSUME NEW k \in 1 .. Len(r), NEW l \in 1 .. Len(r), k < l PROVE To(r[k]) < From(r[l])
  BY <1>1, <1>3 DEF OpenOf
<1>4. ASSUME NEW j \in Ids \ S, Len(r) > 0, From(r[1]) <= j, j < m
      PROVE  \E k \in 1 .. Len(r) : From(r[k]) <= j /\ j <= To(r[k])
  <2>1. Len(q) \in Nat
    BY DEF OpenOf
  <2>2. 1 \in 1 .. Len(q)
    BY <1>4, <2>1
  <2>3. PICK k \in 1 .. Len(q) : From(q[k]) <= j /\ j <= To(q[k])
    BY <1>1, <1>4, <2>2 DEF OpenOf
  <2> QED BY <1>1, <2>3
<1> QED BY <1>2, <1>3, <1>4 DEF OpenOf

Track == [started : BOOLEAN, head : Wires, open : Seq(Gap), lastRead : Nat, prevRead : Nat]

\* A read of the track.
LEMMA ReadKeeps ==
  ASSUME NEW S \in SUBSET Ids, NEW g, GapsOf(g, S), NEW t \in Nat
  PROVE  GapsOf(ReadAt(g, t), S)
<1> DEFINE r == ReadAt(g, t)
           q == g.open
           New(p) == IF p.nacked = 0 /\ t - p.since >= FirstNACK THEN [p EXCEPT !.nacked = t] ELSE p
           u == [k \in DOMAIN q |-> New(q[k])]
<1>1. g \in Track /\ g.open \in Seq(Gap) /\ g.lastRead \in Nat
  BY DEF GapsOf, Track
<1>2. r = [g EXCEPT !.prevRead = g.lastRead, !.lastRead = t, !.open = u]
  BY <1>1 DEF ReadAt, Track
<1> HIDE DEF r
<1>3. ASSUME NEW p \in Gap
      PROVE  /\ New(p) \in Gap /\ New(p).first = p.first /\ New(p).span = p.span
             /\ New(p).missing = p.missing
  BY DEF Gap
<1> HIDE DEF New
<1>4. DOMAIN q = 1 .. Len(q) /\ Len(q) \in Nat /\ \A k \in 1 .. Len(q) : q[k] \in Gap
  BY <1>1
<1>5. u \in Seq(Gap) /\ Len(u) = Len(q)
  BY <1>3, <1>4
<1>6. \A k \in 1 .. Len(q) : u[k] = New(q[k])
  BY <1>4
<1> HIDE DEF u
<1>7. r \in Track /\ r.started = g.started /\ r.head = g.head /\ r.open = u
  BY <1>1, <1>2, <1>5 DEF Track
<1>8. ASSUME S = {} PROVE u = <<>>
  <2>1. q = <<>>
    BY <1>8 DEF GapsOf
  <2>2. Len(u) = 0
    BY <1>5, <2>1
  <2> QED BY <1>5, <2>2
<1>9. ASSUME NEW m \in Ids, IsNewest(m, S) PROVE g.head = Wire(m) /\ OpenOf(u, S, m)
  <2>1. g.head = Wire(m) /\ OpenOf(q, S, m)
    BY <1>9 DEF GapsOf
  <2>2. \A k \in 1 .. Len(q) : /\ u[k].first = q[k].first /\ u[k].span = q[k].span
                               /\ u[k].missing = q[k].missing
    BY <1>3, <1>4, <1>6
  <2>3. OpenOf(u, S, m)
    BY <1>5, <2>1, <2>2, SameGaps
  <2> QED BY <2>1, <2>3
<1>10. g.started <=> S # {}
  BY DEF GapsOf
<1>11. GapsOf(r, S)
  BY <1>7, <1>8, <1>9, <1>10 DEF GapsOf, Track
<1> QED BY <1>11 DEF r

\* With the packet i, the newest is i or the newest of before.
LEMMA NewestWith ==
  ASSUME NEW S \in SUBSET Ids, NEW i \in Ids, NEW m \in Ids, IsNewest(m, S \cup {i})
  PROVE  /\ m = i => \A j \in S : j <= i
         /\ m # i => IsNewest(m, S) /\ i < m
<1>1. m \in Int /\ i \in Int /\ m \in S \cup {i} /\ \A j \in S \cup {i} : j <= m
  BY IdsAre DEF IsNewest
<1> QED BY <1>1 DEF IsNewest

LEMMA WiresAre == \A x \in Wires : x \in Nat /\ x \in Int
BY DEF Wires

\* Records of gaps.
LEMMA GapFields ==
  ASSUME NEW gap \in Gap
  PROVE  /\ gap.first \in Wires /\ gap.first \in Int /\ gap.span \in Nat /\ gap.since \in Nat
         /\ gap.missing \in Nat /\ gap.missing > 0 /\ gap.nacked \in Nat
<1>1. gap.first \in Wires /\ gap.span \in Nat /\ gap.since \in Nat
      /\ gap.missing \in Nat \ {0} /\ gap.nacked \in Nat
  BY DEF Gap
<1>2. gap.first \in Int
  BY <1>1, WiresAre
<1> QED BY <1>1, <1>2

LEMMA NewGap ==
  ASSUME NEW f \in Wires, NEW d \in Int, d > 1, NEW t \in Nat
  PROVE  [first |-> f, span |-> d - 2, missing |-> d - 1, since |-> t, nacked |-> 0] \in Gap
<1>1. d - 2 \in Nat /\ d - 1 \in Nat \ {0}
  OBVIOUS
<1> QED BY <1>1 DEF Gap

Longer(gap, s, d) == [gap EXCEPT !.span = s, !.missing = @ + d - 1]
WithLonger(g, n, h, s, d) ==
  [g EXCEPT !.head = h, !.open[n].span = s, !.open[n].missing = @ + d - 1]

LEMMA LongerGap ==
  ASSUME NEW gap \in Gap, NEW d \in Int, d > 1, NEW s \in Nat
  PROVE  LET r == Longer(gap, s, d) IN
         r \in Gap /\ r.first = gap.first /\ r.span = s /\ r.missing = gap.missing + d - 1
<1>1. gap.missing + d - 1 \in Nat \ {0}
  BY GapFields
<1> QED BY <1>1 DEF Gap, Longer

\* With the newest gap made longer.
LEMMA LongerGaps ==
  ASSUME NEW g \in Track, NEW n \in 1 .. Len(g.open), NEW h \in Wires, NEW s \in Nat,
         NEW d \in Int, d > 1
  PROVE  LET r == WithLonger(g, n, h, s, d) IN
         /\ r \in Track /\ r.started = g.started /\ r.head = h
         /\ Len(r.open) = Len(g.open)
         /\ \A k \in 1 .. Len(g.open) : k # n => r.open[k] = g.open[k]
         /\ r.open[n] = Longer(g.open[n], s, d)
<1> DEFINE q == g.open
           v == Longer(q[n], s, d)
           o == [q EXCEPT ![n] = v]
           r == WithLonger(g, n, h, s, d)
<1>1. q \in Seq(Gap) /\ q[n] \in Gap /\ n \in 1 .. Len(q) /\ Len(q) \in Nat
  BY DEF Track
<1>2. v \in Gap
  BY <1>1, LongerGap
<1>3. r = [g EXCEPT !.head = h, !.open = o]
  <2>1. o = [q EXCEPT ![n].span = s, ![n].missing = @ + d - 1]
    BY <1>1 DEF Gap, Longer
  <2> QED BY <1>1, <2>1 DEF Track, WithLonger
<1> HIDE DEF r, v, q
<1>4. o \in Seq(Gap) /\ Len(o) = Len(q) /\ \A k \in 1 .. Len(q) : k # n => o[k] = q[k]
  BY <1>1, <1>2
<1>5. o[n] = v
  BY <1>1
<1> HIDE DEF o
<1>6. r \in Track /\ r.started = g.started /\ r.head = h /\ r.open = o
  BY <1>3, <1>4 DEF Track
<1> QED BY <1>4, <1>5, <1>6 DEF r, v, q

\* With a list that is begun anew.
LEMMA NewGaps ==
  ASSUME NEW g \in Track, NEW h \in Wires
  PROVE  LET r == [g EXCEPT !.started = TRUE, !.head = h, !.open = <<>>] IN
         r \in Track /\ r.started /\ r.head = h /\ r.open = <<>>
<1>1. <<>> \in Seq(Gap)
  OBVIOUS
<1> QED BY <1>1 DEF Track

\* A new packet, which all newer than a window follow.
LEMMA AddKeeps ==
  ASSUME NEW S \in SUBSET Ids, NEW g, GapsOf(g, S), NEW i \in Ids, i \notin S,
         \A j \in S : j - i < WindowSize, NEW t \in Nat
  PROVE  GapsOf(AddSeq(g, Wire(i), t), S \cup {i})
<1> DEFINE r == AddSeq(g, Wire(i), t)
           T == S \cup {i}
           dist == Serial(Wire(i), g.head)
           q == g.open
           n == Len(g.open)
           gap == [first |-> (g.head + 1) % SeqMod, span |-> dist - 2, missing |-> dist - 1,
                   since |-> t, nacked |-> 0]
           wide == [g EXCEPT !.head = Wire(i),
                             !.open[n].span = (Wire(i) - 1 - g.open[n].first) % SeqMod,
                             !.open[n].missing = @ + dist - 1]
<1>1. /\ g \in Track /\ q \in Seq(Gap) /\ n \in Nat /\ g.head \in Wires
      /\ g.started \in BOOLEAN /\ (g.started <=> S # {})
  BY DEF GapsOf, Track
<1>2. Wire(i) \in Wires /\ i \in Int
  BY WireIs
<1>3. T \in SUBSET Ids /\ i \in T /\ T # {}
  OBVIOUS
<1>4. r = IF ~g.started \/ Jump(dist)
            THEN [g EXCEPT !.started = TRUE, !.head = Wire(i), !.open = <<>>]
          ELSE IF dist > 1 /\ n < MaxOpenGaps
            THEN [g EXCEPT !.head = Wire(i), !.open = Append(@, gap)]
          ELSE IF dist > 1 THEN wide
          ELSE IF dist = 1 THEN [g EXCEPT !.head = Wire(i)]
          ELSE [g EXCEPT !.open = Fill(@, Wire(i))]
  BY DEF AddSeq
<1> SUFFICES GapsOf(r, T)
  OBVIOUS
<1> HIDE DEF r, gap, wide, n
\* What is to be shown of a list with i the newest, and with m still so.
<1>5. ASSUME NEW o, r \in Track, r.started, r.head = Wire(i), r.open = o, OpenOf(o, T, i),
             \A j \in S : j < i
      PROVE  GapsOf(r, T)
  <2>1. ASSUME NEW m \in Ids, IsNewest(m, T) PROVE m = i
    <3>1. m \in Int /\ m \in T /\ i <= m
      BY <1>3, <2>1, IdsAre DEF IsNewest
    <3> QED BY <1>2, <1>5, <3>1
  <2> QED BY <1>3, <1>5, <2>1 DEF GapsOf, Track
<1>6. CASE S = {}
  <2>1. r = [g EXCEPT !.started = TRUE, !.head = Wire(i), !.open = <<>>]
    BY <1>1, <1>4, <1>6
  <2>2. r \in Track /\ r.started /\ r.head = Wire(i) /\ r.open = <<>>
    BY <1>1, <1>2, <2>1, NewGaps
  <2>3. OpenOf(<<>>, T, i)
    BY NoneOpen
  <2> QED BY <1>5, <1>6, <2>2, <2>3
<1>7. CASE S # {}
  <2>1. PICK m \in Ids : IsNewest(m, S)
    BY <1>7, NewestIs
  <2>2. g.head = Wire(m) /\ OpenOf(q, S, m) /\ g.started
    BY <1>1, <1>7, <2>1 DEF GapsOf
  <2>3. dist = i - m
    BY <2>2, SerialIs
  <2> HIDE DEF dist
  <2>4. m \in Int /\ m \in S /\ m # i /\ m - i < WindowSize /\ \A j \in S : j \in Int /\ j <= m
    BY <2>1, IdsAre DEF IsNewest
  <2>5. WindowSize \in Int /\ ResetDistance \in Int /\ WindowSize <= ResetDistance
        /\ MaxOpenGaps \in Int /\ MaxOpenGaps > 0
    BY Sizes
  <2>6. Jump(dist) <=> i - m >= ResetDistance
    BY <1>2, <2>3, <2>4, <2>5 DEF Jump
  <2>7. CASE Jump(dist)
    <3>1. r = [g EXCEPT !.started = TRUE, !.head = Wire(i), !.open = <<>>]
      BY <1>4, <2>7
    <3>2. r \in Track /\ r.started /\ r.head = Wire(i) /\ r.open = <<>>
      BY <1>1, <1>2, <3>1, NewGaps
    <3>3. \A j \in S : j < i
      BY <1>2, <2>4, <2>5, <2>6, <2>7
    <3> QED BY <1>5, <3>2, <3>3, NoneOpen
  <2>8. CASE ~Jump(dist) /\ dist > 1 /\ n < MaxOpenGaps
    <3>1. r = [g EXCEPT !.head = Wire(i), !.open = Append(@, gap)]
      BY <1>4, <2>2, <2>8
    <3>2. gap.first = Wire(m + 1) /\ m + 1 \in Ids
      <4>1. m + 1 \in Ids
        BY <1>2, <2>3, <2>4, <2>8, Sizes, IdsAre DEF Ids
      <4>2. Wire(m + 1) = (Wire(m) + 1) % SeqMod
        BY <4>1, NextNumberIs
      <4>3. gap.first = (g.head + 1) % SeqMod
        BY DEF gap
      <4> QED BY <2>2, <4>1, <4>2, <4>3
    <3>3. gap \in Gap /\ gap.span = i - m - 2 /\ gap.missing = i - m - 1
      <4>1. dist \in Int /\ (g.head + 1) % SeqMod \in Wires
        <5>1. dist \in Int
          BY <1>2, <2>3, <2>4
        <5>2. Wire(m + 1) \in Wires /\ Wire(m + 1) = (Wire(m) + 1) % SeqMod
          BY <3>2, WireIs, NextNumberIs
        <5> QED BY <2>2, <5>1, <5>2
      <4>2. gap \in Gap
        BY <2>8, <4>1, NewGap DEF gap
      <4>3. gap.span = dist - 2 /\ gap.missing = dist - 1
        BY DEF gap
      <4> QED BY <2>3, <4>2, <4>3
    <3>4. i - m > 1
      BY <2>3, <2>8
    <3>5. OpenOf(Append(q, gap), T, i)
      BY <2>1, <2>2, <3>2, <3>3, <3>4, OpenedIs
    <3>6. Append(q, gap) \in Seq(Gap)
      BY <1>1, <3>3
    <3>7. r \in Track /\ r.started /\ r.head = Wire(i) /\ r.open = Append(q, gap)
      BY <1>1, <1>2, <2>2, <3>1, <3>6 DEF Track
    <3>8. \A j \in S : j < i
      BY <1>2, <2>4, <3>4
    <3> QED BY <1>5, <3>5, <3>7, <3>8
  <2>9. CASE ~Jump(dist) /\ dist > 1 /\ ~(n < MaxOpenGaps)
    <3>1. r = wide
      BY <1>4, <2>2, <2>9
    <3>2. n > 0 /\ n \in 1 .. n
      BY <1>1, <2>5, <2>9
    <3> DEFINE x == Wire(i) - 1 - g.open[n].first
               span == x % SeqMod
    <3>3. q[n] \in Gap /\ q[n].first \in Int
      <4>1. q[n] \in Gap
        BY <1>1, <3>2 DEF n
      <4> QED BY <4>1, GapFields
    <3>4. Wire(i) \in Int
      BY <1>2, WiresAre
    <3>5. x \in Int
      BY <3>3, <3>4 DEF q
    <3> HIDE DEF x
    <3>6. span \in Nat
      BY <3>5, Sizes, DivMod
    <3>7. r = WithLonger(g, n, Wire(i), span, dist)
      BY <3>1 DEF wide, span, x, n, WithLonger
    <3> HIDE DEF span
    <3>8. dist \in Int /\ dist > 1 /\ n \in 1 .. Len(g.open)
      BY <1>2, <2>3, <2>4, <2>9, <3>2 DEF n
    <3>9. r \in Track /\ r.started /\ r.head = Wire(i)
      BY <1>1, <1>2, <2>2, <3>6, <3>7, <3>8, LongerGaps
    <3>10. Len(r.open) = n /\ \A k \in 1 .. n : k # n => r.open[k] = q[k]
      <4>1. Len(r.open) = Len(g.open)
        BY <1>1, <1>2, <3>6, <3>7, <3>8, LongerGaps
      <4>2. \A k \in 1 .. Len(g.open) : k # n => r.open[k] = g.open[k]
        BY <1>1, <1>2, <3>6, <3>7, <3>8, LongerGaps
      <4> QED BY <4>1, <4>2 DEF n, q
    <3>11. r.open[n] = Longer(q[n], span, dist)
      BY <1>1, <1>2, <3>6, <3>7, <3>8, LongerGaps DEF q
    <3>12. /\ r.open[n].first = q[n].first /\ r.open[n].span = span
           /\ r.open[n].missing = q[n].missing + dist - 1
      <4> DEFINE gp == q[n]
                 v == Longer(gp, span, dist)
      <4>1. gp \in Gap
        BY <3>3
      <4> HIDE DEF gp
      <4>2. v.first = gp.first
        BY <3>6, <3>8, <4>1, LongerGap
      <4>3. v.span = span
        BY <3>6, <3>8, <4>1, LongerGap
      <4>4. v.missing = gp.missing + dist - 1
        BY <3>6, <3>8, <4>1, LongerGap
      <4>5. r.open[n] = v
        BY <3>11 DEF gp
      <4> HIDE DEF v
      <4> QED BY <4>2, <4>3, <4>4, <4>5 DEF gp
    <3>13. OpenOf(r.open, T, i)
      <4>1. r.open \in Seq(Gap) /\ i - m > 1 /\ n = Len(q)
        BY <2>3, <2>9, <3>9 DEF Track, n, q
      <4>2. r.open[n].missing = q[n].missing + (i - m) - 1
        BY <2>3, <3>12
      <4>3. span = (Wire(i) - 1 - q[n].first) % SeqMod
        BY DEF span, x, q
      <4> QED BY <2>1, <2>2, <3>2, <3>10, <3>12, <4>1, <4>2, <4>3, MergedIs
    <3>14. \A j \in S : j < i
      BY <1>2, <2>3, <2>4, <2>9
    <3> QED BY <1>5, <3>9, <3>13, <3>14
  <2>10. CASE ~Jump(dist) /\ dist = 1
    <3>1. r = [g EXCEPT !.head = Wire(i)] /\ i = m + 1
      BY <1>2, <1>4, <2>2, <2>3, <2>4, <2>10
    <3>2. r \in Track /\ r.started /\ r.head = Wire(i) /\ r.open = q
      BY <1>1, <1>2, <2>2, <3>1 DEF Track
    <3>3. OpenOf(q, T, i)
      BY <2>1, <2>2, <3>1, NextIs
    <3>4. \A j \in S : j < i
      BY <1>2, <2>4, <3>1
    <3> QED BY <1>5, <3>2, <3>3, <3>4
  <2>11. CASE ~Jump(dist) /\ ~(dist > 1) /\ dist # 1
    <3>1. r = [g EXCEPT !.open = Fill(@, Wire(i))] /\ i < m
      BY <1>2, <1>4, <2>2, <2>3, <2>4, <2>11
    <3>2. OpenOf(Fill(q, Wire(i)), T, m)
      BY <2>1, <2>2, <3>1, FilledIs
    <3>3. Fill(q, Wire(i)) \in Seq(Gap)
      BY <3>2 DEF OpenOf
    <3>4. r \in Track /\ r.started /\ r.head = Wire(m) /\ r.open = Fill(q, Wire(i))
      BY <1>1, <2>2, <3>1, <3>3 DEF Track
    <3>5. ASSUME NEW l \in Ids, IsNewest(l, T) PROVE l = m
      <4>1. IsNewest(m, T)
        BY <1>2, <2>4, <3>1 DEF IsNewest
      <4> QED BY <1>3, <3>5, <4>1, OneNewest
    <3> QED BY <1>3, <3>2, <3>4, <3>5 DEF GapsOf, Track
  <2>12. dist \in Int
    BY <1>2, <2>3, <2>4
  <2> QED BY <2>7, <2>8, <2>9, <2>10, <2>11, <2>12
<1> QED BY <1>6, <1>7

\* The gaps gapDue keeps.
LEMMA UnsettledKeeps ==
  ASSUME NEW S \in SUBSET Ids, NEW g, GapsOf(g, S), NEW t \in Nat
  PROVE  GapsOf([g EXCEPT !.open = Unsettled(@, t)], S)
<1> DEFINE q == g.open
           after == {k \in DOMAIN q : q[k].since > t}
           u == Unsettled(q, t)
           r == [g EXCEPT !.open = u]
<1>1. g \in Track /\ q \in Seq(Gap) /\ Len(q) \in Nat /\ DOMAIN q = 1 .. Len(q)
  BY DEF GapsOf, Track
<1>2. u = <<>> \/ \E n \in 0 .. Len(q) : u = SubSeq(q, n + 1, Len(q))
  <2>1. CASE after = {}
    BY <2>1 DEF Unsettled
  <2>2. CASE after # {}
    <3>1. after \in SUBSET Nat
      BY <1>1
    <3>2. Min(after) \in after
      BY <2>2, <3>1, MinIs
    <3>3. u = SubSeq(q, Min(after), Len(q))
      BY <2>2 DEF Unsettled
    <3> DEFINE k == Min(after)
    <3>4. k \in 1 .. Len(q)
      BY <1>1, <3>2
    <3> HIDE DEF k
    <3>5. k - 1 \in 0 .. Len(q) /\ (k - 1) + 1 = k
      BY <1>1, <3>4
    <3> QED BY <3>3, <3>5 DEF k
  <2> QED BY <2>1, <2>2
<1> HIDE DEF u
<1>3. u \in Seq(Gap)
  <2>1. <<>> \in Seq(Gap)
    OBVIOUS
  <2>2. ASSUME NEW n \in 0 .. Len(q) PROVE SubSeq(q, n + 1, Len(q)) \in Seq(Gap)
    BY <1>1, RestIs
  <2> QED BY <1>2, <2>1, <2>2
<1>4. r \in Track /\ r.started = g.started /\ r.head = g.head /\ r.open = u
  BY <1>1, <1>3 DEF Track
<1>5. ASSUME S = {} PROVE u = <<>>
  <2>1. q = <<>> /\ Len(q) = 0
    BY <1>5 DEF GapsOf
  <2>2. ASSUME NEW n \in 0 .. Len(q) PROVE SubSeq(q, n + 1, Len(q)) = <<>>
    <3>1. Len(SubSeq(q, n + 1, Len(q))) = 0
      BY <1>1, <2>1, RestIs
    <3>2. SubSeq(q, n + 1, Len(q)) \in Seq(Gap)
      BY <1>1, RestIs
    <3> QED BY <3>1, <3>2
  <2> QED BY <1>2, <2>2
<1>6. ASSUME NEW m \in Ids, IsNewest(m, S) PROVE g.head = Wire(m) /\ OpenOf(u, S, m)
  <2>1. g.head = Wire(m) /\ OpenOf(q, S, m)
    BY <1>6 DEF GapsOf
  <2>2. CASE u = <<>>
    BY <2>1, <2>2, NoneOpen
  <2>3. ASSUME NEW n \in 0 .. Len(q), u = SubSeq(q, n + 1, Len(q)) PROVE OpenOf(u, S, m)
    BY <2>1, <2>3, KeptIs
  <2> QED BY <1>2, <2>1, <2>2, <2>3
<1>7. g.started <=> S # {}
  BY DEF GapsOf
<1>8. GapsOf(r, S)
  <2> HIDE DEF r
  <2> QED BY <1>4, <1>5, <1>6, <1>7 DEF GapsOf, Track
<1> QED BY <1>8 DEF u

-----------------------------------------------------------------------------
(* The inductive invariant *)

\* The packets of a list.
Numbers(q) == [k \in DOMAIN q |-> q[k].id]

\* What was released, in order: what the recorder has, and what is ready for it.
Line == handed \o Numbers(ready)

\* The window and the gaps tell which packets have arrived.
Tracked == WindowOf(seen, Arrived) /\ GapsOf(gaps, Arrived)

\* The jitter buffer lists packets that have arrived, after those it released.
Buffered == Good(jb, Arrived) /\ jb.out = <<>> /\ (At("over") => jb.list = <<>>)

\* What it released is ascending and no newer than the buffer says; what the
\* recorder has not taken yet is whole frames too.
Released ==
  /\ Delivery!Ascending(Line)
  /\ \A k \in DOMAIN Line : jb.initialized /\ Line[k] <= PlaceOf(jb.prevSN)
  /\ Whole(IdsOf(ready))

Reported == loss.last = asked /\ loss.early <= asked /\ asked <= now

IInv == TypeOK /\ Tracked /\ Buffered /\ Released /\ Reported /\ GaveUpIsRequested

-----------------------------------------------------------------------------
(* What a call releases is added to the line *)

LEMMA NumbersAre ==
  ASSUME NEW q \in Seq(JB!Packets(Ids))
  PROVE  /\ Numbers(q) \in Seq(Ids) /\ Len(Numbers(q)) = Len(q) /\ Len(q) \in Nat
         /\ \A k \in 1 .. Len(q) : Numbers(q)[k] = q[k].id /\ q[k].id \in Ids /\ q[k].id \in Int
<1>1. Len(q) \in Nat /\ DOMAIN q = 1 .. Len(q) /\ \A k \in 1 .. Len(q) : q[k] \in JB!Packets(Ids)
  OBVIOUS
<1>2. \A k \in 1 .. Len(q) : q[k].id \in Ids
  BY <1>1, PacketFields
<1>3. Numbers(q) = [k \in 1 .. Len(q) |-> q[k].id]
  BY <1>1 DEF Numbers
<1>4. Numbers(q) \in Seq(Ids) /\ Len(Numbers(q)) = Len(q)
  BY <1>1, <1>2, <1>3
<1>5. \A k \in 1 .. Len(q) : Numbers(q)[k] = q[k].id
  BY <1>3
<1>6. \A k \in 1 .. Len(q) : q[k].id \in Int
  BY <1>2, IdsAre
<1> QED BY <1>1, <1>2, <1>4, <1>5, <1>6

\* One list after the other.
LEMMA JoinIs ==
  ASSUME NEW R, NEW l \in Seq(R), NEW m \in Seq(R)
  PROVE  /\ l \o m \in Seq(R) /\ Len(l \o m) = Len(l) + Len(m)
         /\ Len(l) \in Nat /\ Len(m) \in Nat
         /\ \A k \in 1 .. Len(l) : (l \o m)[k] = l[k]
         /\ \A k \in Len(l) + 1 .. Len(l) + Len(m) : (l \o m)[k] = m[k - Len(l)]
OBVIOUS

LEMMA JoinsAre ==
  ASSUME NEW R, NEW l \in Seq(R), NEW m \in Seq(R), NEW n \in Seq(R)
  PROVE  l \o (m \o n) = (l \o m) \o n
OBVIOUS

LEMMA NumbersJoin ==
  ASSUME NEW q \in Seq(JB!Packets(Ids)), NEW r \in Seq(JB!Packets(Ids))
  PROVE  Numbers(q \o r) = Numbers(q) \o Numbers(r)
<1> DEFINE a == Numbers(q \o r)
           b == Numbers(q) \o Numbers(r)
           n == Len(q)
           m == Len(r)
<1>1. q \o r \in Seq(JB!Packets(Ids)) /\ Len(q \o r) = n + m /\ n \in Nat /\ m \in Nat
  BY JoinIs
<1>2. a \in Seq(Ids) /\ Len(a) = n + m
  BY <1>1, NumbersAre
<1>3. Numbers(q) \in Seq(Ids) /\ Numbers(r) \in Seq(Ids) /\ Len(Numbers(q)) = n
      /\ Len(Numbers(r)) = m
  BY NumbersAre
<1>4. b \in Seq(Ids) /\ Len(b) = n + m
  <2>1. b \in Seq(Ids)
    BY <1>3
  <2>2. Len(b) = Len(Numbers(q)) + Len(Numbers(r))
    <3> DEFINE x == Numbers(q)
               y == Numbers(r)
    <3>1. x \in Seq(Ids) /\ y \in Seq(Ids)
      BY <1>3
    <3> HIDE DEF x, y
    <3>2. Len(x \o y) = Len(x) + Len(y)
      BY <3>1, JoinIs
    <3> QED BY <3>2 DEF x, y
  <2> QED BY <1>3, <2>1, <2>2
<1>5. ASSUME NEW k \in 1 .. n + m PROVE a[k] = b[k]
  <2>1. a[k] = (q \o r)[k].id
    BY <1>1, NumbersAre
  <2>2. CASE k <= n
    <3>1. k \in 1 .. n
      BY <1>1, <2>2
    <3>2. (q \o r)[k] = q[k] /\ b[k] = Numbers(q)[k] /\ Numbers(q)[k] = q[k].id
      BY <1>3, <3>1, JoinIs, NumbersAre
    <3> QED BY <2>1, <3>2
  <2>3. CASE k > n
    <3>1. k \in n + 1 .. n + m /\ k - n \in 1 .. m
      BY <1>1, <2>3
    <3>2. (q \o r)[k] = r[k - n]
      BY <3>1, JoinIs
    <3>3. b[k] = Numbers(r)[k - n]
      BY <1>3, <3>1, JoinIs
    <3>4. Numbers(r)[k - n] = r[k - n].id
      BY <3>1, NumbersAre
    <3> QED BY <2>1, <3>2, <3>3, <3>4
  <2>4. k <= n \/ k > n
    BY <1>1
  <2> HIDE DEF a, b
  <2> QED BY <2>2, <2>3, <2>4, Zenon
<1> HIDE DEF a, b
<1>6. a = b
  BY <1>1, <1>2, <1>4, <1>5
<1> QED BY <1>6 DEF a, b

LEMMA IdsJoin ==
  ASSUME NEW q \in Seq(JB!Packets(Ids)), NEW r \in Seq(JB!Packets(Ids))
  PROVE  IdsOf(q \o r) = IdsOf(q) \cup IdsOf(r)
<1> DEFINE n == Len(q)
           m == Len(r)
           s == q \o r
<1>1. Len(s) = n + m /\ n \in Nat /\ m \in Nat
  BY JoinIs
<1>2. \A k \in 1 .. n : s[k] = q[k]
  BY JoinIs
<1>3. \A k \in n + 1 .. n + m : s[k] = r[k - n]
  BY JoinIs
<1> HIDE DEF s, n, m
<1>4. ASSUME NEW k \in 1 .. n + m PROVE s[k].id \in IdsOf(q) \cup IdsOf(r)
  <2>1. CASE k <= n
    <3>1. k \in 1 .. n
      BY <1>1, <2>1
    <3> QED BY <1>2, <3>1 DEF IdsOf, n
  <2>2. CASE k > n
    <3>1. k \in n + 1 .. n + m /\ k - n \in 1 .. m
      BY <1>1, <2>2
    <3> QED BY <1>3, <3>1 DEF IdsOf, m
  <2> QED BY <1>1, <2>1, <2>2
<1>5. ASSUME NEW k \in 1 .. n PROVE q[k].id \in IdsOf(s)
  <2>1. k \in 1 .. n + m
    BY <1>1
  <2> QED BY <1>1, <1>2, <2>1 DEF IdsOf
<1>6. ASSUME NEW k \in 1 .. m PROVE r[k].id \in IdsOf(s)
  <2>1. n + k \in n + 1 .. n + m /\ n + k \in 1 .. n + m /\ (n + k) - n = k
    BY <1>1
  <2>2. s[n + k] = r[k]
    BY <1>3, <2>1
  <2> QED BY <1>1, <2>1, <2>2 DEF IdsOf
<1>7. IdsOf(s) = IdsOf(q) \cup IdsOf(r)
  BY <1>1, <1>4, <1>5, <1>6 DEF IdsOf, n, m
<1> QED BY <1>7 DEF s

\* Whole frames and whole frames.
LEMMA WholeJoin ==
  ASSUME NEW A, NEW B, Whole(A), Whole(B)
  PROVE  Whole(A \cup B)
<1> DEFINE All == SentFrames
<1>1. PICK F \in SUBSET All : A = UNION F
  BY DEF Whole
<1>2. PICK G \in SUBSET All : B = UNION G
  BY DEF Whole
<1>3. F \cup G \in SUBSET All /\ A \cup B = UNION (F \cup G)
  BY <1>1, <1>2
<1> QED BY <1>3 DEF Whole

LEMMA NoneWhole == Whole({})
<1>1. {} \in SUBSET SentFrames /\ {} = UNION {}
  OBVIOUS
<1> QED BY <1>1 DEF Whole

LEMMA LineGrows ==
  ASSUME NEW l \in Seq(Ids), NEW b, NEW r, NEW S, NEW T, Good(b, S), Good(r, T), Gives(b, r),
         Delivery!Ascending(l), \A k \in DOMAIN l : b.initialized /\ l[k] <= PlaceOf(b.prevSN)
  PROVE  LET m == l \o Numbers(r.out) IN
         /\ m \in Seq(Ids) /\ Delivery!Ascending(m)
         /\ \A k \in DOMAIN m : r.initialized /\ m[k] <= PlaceOf(r.prevSN)
<1> DEFINE o == Numbers(r.out)
           m == l \o o
           n == Len(l)
           P == PlaceOf(b.prevSN)
           R == PlaceOf(r.prevSN)
<1>1. b \in JB!Buffers(Ids) /\ r \in JB!Buffers(Ids)
  BY DEF Good
<1>2. r.out \in Seq(JB!Packets(Ids)) /\ b.initialized \in BOOLEAN /\ r.initialized \in BOOLEAN
  BY <1>1, BufferFields
<1>3. o \in Seq(Ids) /\ Len(o) = Len(r.out) /\ Len(o) \in Nat
  BY <1>2, NumbersAre
<1>4. ASSUME NEW k \in 1 .. Len(o) PROVE o[k] = r.out[k].id /\ o[k] \in Int /\ k \in 1 .. Len(r.out)
  BY <1>2, <1>3, NumbersAre
<1> HIDE DEF o
<1>5. m \in Seq(Ids) /\ Len(m) = n + Len(o) /\ n \in Nat
  BY <1>3, JoinIs
<1>6. \A k \in 1 .. n : m[k] = l[k]
  BY <1>3, JoinIs
<1>7. \A k \in n + 1 .. n + Len(o) : m[k] = o[k - n]
  BY <1>3, JoinIs
<1> HIDE DEF m
<1>8. b.initialized => P \in Int
  BY PlaceOfIs DEF Good, AfterReleased
<1>9. r.initialized => R \in Int
  BY PlaceOfIs DEF Good, AfterReleased
<1>10. b.initialized => r.initialized /\ P <= R
  BY DEF Gives
<1>11. \A k \in 1 .. n : l[k] \in Int
  BY IdsAre
<1> HIDE DEF P, R
<1>12. ASSUME NEW k \in 1 .. n PROVE b.initialized /\ m[k] = l[k] /\ l[k] \in Int /\ l[k] <= P
  BY <1>6, <1>11 DEF P
<1>13. ASSUME NEW k \in n + 1 .. n + Len(o)
       PROVE  /\ r.initialized /\ m[k] \in Int /\ m[k] <= R
              /\ b.initialized => P < m[k]
              /\ k - n \in 1 .. Len(o) /\ m[k] = r.out[k - n].id
  <2>1. k - n \in 1 .. Len(o)
    BY <1>3, <1>5
  <2>2. m[k] = r.out[k - n].id /\ m[k] \in Int /\ k - n \in 1 .. Len(r.out)
    BY <1>4, <1>7, <2>1
  <2>3. r.initialized /\ r.out[k - n].id <= R
    BY <2>2 DEF Gives, R
  <2>4. b.initialized => P < r.out[k - n].id
    BY <2>2 DEF Gives, P
  <2> QED BY <2>1, <2>2, <2>3, <2>4
<1>14. ASSUME NEW k \in 1 .. n + Len(o) PROVE k \in 1 .. n \/ k \in n + 1 .. n + Len(o)
  BY <1>3, <1>5
<1>15. ASSUME NEW k \in 1 .. n + Len(o) PROVE r.initialized /\ m[k] <= R
  <2>1. CASE k \in 1 .. n
    <3>1. b.initialized /\ m[k] = l[k] /\ l[k] \in Int /\ l[k] <= P
      BY <1>12, <2>1
    <3>2. r.initialized /\ P <= R /\ P \in Int /\ R \in Int
      BY <1>8, <1>9, <1>10, <3>1
    <3> QED BY <3>1, <3>2
  <2>2. CASE k \in n + 1 .. n + Len(o)
    BY <1>13, <2>2
  <2> QED BY <1>14, <2>1, <2>2
<1>16. ASSUME NEW i \in 1 .. n + Len(o), NEW j \in 1 .. n + Len(o), i < j PROVE m[i] < m[j]
  <2>1. CASE j \in 1 .. n
    <3>1. i \in 1 .. n
      BY <1>5, <1>16, <2>1
    <3>2. l[i] < l[j]
      BY <1>16, <2>1, <3>1 DEF Delivery!Ascending
    <3> QED BY <1>12, <2>1, <3>1, <3>2
  <2>2. CASE i \in 1 .. n /\ j \in n + 1 .. n + Len(o)
    <3>1. b.initialized /\ m[i] = l[i] /\ l[i] \in Int /\ l[i] <= P
      BY <1>12, <2>2
    <3>2. P < m[j] /\ m[j] \in Int /\ P \in Int
      BY <1>8, <1>13, <2>2, <3>1
    <3> QED BY <3>1, <3>2
  <2>3. CASE i \in n + 1 .. n + Len(o) /\ j \in n + 1 .. n + Len(o)
    <3>1. /\ m[i] = r.out[i - n].id /\ m[j] = r.out[j - n].id
          /\ i - n \in 1 .. Len(r.out) /\ j - n \in 1 .. Len(r.out)
      BY <1>3, <1>13, <2>3
    <3>2. i - n < j - n
      BY <1>5, <1>16
    <3>3. r.out[i - n].id < r.out[j - n].id
      BY <3>1, <3>2 DEF Gives, Ordered
    <3> QED BY <3>1, <3>3
  <2>4. ~(i \in n + 1 .. n + Len(o) /\ j \in 1 .. n)
    BY <1>5, <1>16
  <2> QED BY <1>14, <2>1, <2>2, <2>3, <2>4
<1>17. DOMAIN m = 1 .. n + Len(o)
  BY <1>5
<1>18. Delivery!Ascending(m)
  BY <1>16, <1>17 DEF Delivery!Ascending
<1> QED BY <1>5, <1>15, <1>17, <1>18 DEF m, o, R

-----------------------------------------------------------------------------
(* The invariant is one *)

Types ==
  /\ now \in Nat /\ now > 0 /\ ended \in BOOLEAN /\ keyAt \in Nat
  /\ copies \in [Ids -> 0 .. 2] /\ opened \in [Ids -> Nat]
  /\ seen \in Window /\ gaps \in Track
  /\ keyframe \in [has : BOOLEAN, seq : Wires]
  /\ request \in [seq : Wires, pending : BOOLEAN]
  /\ jb \in JB!Buffers(Ids) /\ ready \in Seq(JB!Packets(Ids))
  /\ loss \in [last : Nat, early : Nat] /\ asked \in Nat
  /\ reader \in [at : {"reading", "due", "take", "flush", "over"}, settled : Nat]
  /\ handed \in Seq(Ids)

LEMMA TypesAre == TypeOK <=> Types
<1>1. now \in Nat \ {0} <=> now \in Nat /\ now > 0
  OBVIOUS
<1> QED BY <1>1 DEF TypeOK, Types, Window, Track

LEMMA TypesNext == TypeOK' <=> Types'
<1>1. now' \in Nat \ {0} <=> now' \in Nat /\ now' > 0
  OBVIOUS
<1> QED BY <1>1 DEF TypeOK, Types, Window, Track

LEMMA FirstIs == Init => IInv
<1> SUFFICES ASSUME Init PROVE IInv
  OBVIOUS
<1>1. <<>> \in Seq(Gap) /\ <<>> \in Seq(JB!Packets(Ids)) /\ <<>> \in Seq(Ids)
  OBVIOUS
<1>2. 0 \in Wires
  BY Sizes DEF Wires
<1>3. JB!NewBuffer \in JB!Buffers(Ids)
  BY <1>1, <1>2 DEF JB!NewBuffer, JB!Buffers, Wires
<1>4. Types
  <2>1. seen \in Window
    BY <1>2 DEF Init, Window
  <2>2. gaps \in Track
    BY <1>1, <1>2 DEF Init, Track
  <2>3. copies \in [Ids -> 0 .. 2] /\ opened \in [Ids -> Nat]
    BY DEF Init
  <2>4. jb \in JB!Buffers(Ids) /\ ready \in Seq(JB!Packets(Ids)) /\ handed \in Seq(Ids)
    BY <1>1, <1>3 DEF Init
  <2>5. now \in Nat /\ now > 0 /\ ended \in BOOLEAN /\ keyAt \in Nat /\ asked \in Nat
    <3>1. now = 1 /\ keyAt = 0 /\ asked = 0
      BY DEF Init
    <3>2. ended \in BOOLEAN
      <4>1. ended = FALSE
        BY DEF Init
      <4> QED BY <4>1, Zenon
    <3> QED BY <3>1, <3>2
  <2>6. /\ keyframe \in [has : BOOLEAN, seq : Wires] /\ request \in [seq : Wires, pending : BOOLEAN]
        /\ loss \in [last : Nat, early : Nat]
        /\ reader \in [at : {"reading", "due", "take", "flush", "over"}, settled : Nat]
    BY <1>2 DEF Init
  <2> QED BY <2>1, <2>2, <2>3, <2>4, <2>5, <2>6 DEF Types
<1>5. Arrived = {}
  BY DEF Init, Arrived
<1>6. Tracked
  <2>1. WindowOf(seen, Arrived)
    BY <1>5 DEF Init, WindowOf, IsNewest
  <2>2. GapsOf(gaps, Arrived)
    BY <1>4, <1>5 DEF Init, Types, Track, GapsOf, IsNewest
  <2> QED BY <2>1, <2>2 DEF Tracked
<1>7. Buffered
  <2>1. /\ jb.list = <<>> /\ jb.out = <<>> /\ ~jb.initialized /\ Len(jb.list) = 0
        /\ jb \in JB!Buffers(Ids)
    BY <1>3 DEF Init, JB!NewBuffer
  <2> QED BY <2>1 DEF Buffered, Good, FromStream, Ordered, AfterReleased
<1>8. Released
  <2>1. ready = <<>> /\ handed = <<>>
    BY DEF Init
  <2>2. ready \in Seq(JB!Packets(Ids)) /\ Len(ready) = 0
    BY <1>1, <2>1
  <2>3. Numbers(ready) \in Seq(Ids) /\ Len(Numbers(ready)) = 0
    BY <2>2, NumbersAre
  <2>4. Line \in Seq(Ids) /\ Len(Line) = 0
    BY <1>1, <2>1, <2>3 DEF Line
  <2>5. DOMAIN Line = {}
    BY <2>4
  <2>6. IdsOf(ready) = {}
    BY <2>2 DEF IdsOf
  <2> QED BY <2>5, <2>6, NoneWhole DEF Released, Delivery!Ascending
<1>9. Reported
  BY DEF Init, Reported
<1>10. GaveUpIsRequested
  <2>1. jb.gaveUp = 0 /\ asked = 0
    BY DEF Init, JB!NewBuffer
  <2> QED BY <2>1, Delays DEF GaveUpIsRequested
<1> QED BY <1>4, <1>6, <1>7, <1>8, <1>9, <1>10, TypesAre DEF IInv

\* A report is the last one.
LEMMA ReportIs ==
  ASSUME Types, Reported, NEW early \in BOOLEAN, Report(early), now' = now
  PROVE  loss' \in [last : Nat, early : Nat] /\ asked' \in Nat /\ Reported' /\ asked' = now
<1>1. loss.early \in Nat /\ loss.last \in Nat /\ now \in Nat /\ asked \in Nat
  BY DEF Types
<1>2. loss' = [last |-> now, early |-> IF early THEN now ELSE loss.early] /\ asked' = now
  BY DEF Report
<1>3. loss' \in [last : Nat, early : Nat] /\ asked' \in Nat
  BY <1>1, <1>2
<1>4. loss'.last = now /\ loss'.early = IF early THEN now ELSE loss.early
  BY <1>2
<1>5. loss.early <= now
  BY <1>1 DEF Reported
<1>6. loss'.early <= now
  BY <1>1, <1>4, <1>5
<1>7. loss'.last = asked' /\ loss'.early <= asked' /\ asked' <= now'
  BY <1>1, <1>2, <1>4, <1>6
<1> QED BY <1>2, <1>3, <1>7 DEF Reported

\* The jitter buffer's call from jb to b: what it releases is added to the line,
\* and what it gives up on is asked for, or was a moment ago.
LEMMA UseKeeps ==
  ASSUME IInv, NEW b, NEW S \in SUBSET Ids, Good(b, S), GaveUp(jb, b, now), Gives(jb, b), Use(b),
         UNCHANGED <<now, ended, handed>>
  PROVE  /\ jb' \in JB!Buffers(Ids) /\ ready' \in Seq(JB!Packets(Ids))
         /\ loss' \in [last : Nat, early : Nat] /\ asked' \in Nat
         /\ Good(jb', S) /\ jb'.out = <<>> /\ jb'.list = b.list
         /\ Released' /\ Reported' /\ GaveUpIsRequested'
<1>1. Types /\ Reported /\ GaveUpIsRequested /\ Good(jb, Arrived) /\ Released
  BY TypesAre DEF IInv, Buffered
<1>2. jb' = [b EXCEPT !.out = <<>>, !.loss = FALSE] /\ ready' = ready \o b.out
  BY DEF Use
<1>3. b \in JB!Buffers(Ids)
  BY DEF Good
<1>4. jb' \in JB!Buffers(Ids)
  <2>1. <<>> \in Seq(JB!Packets(Ids))
    OBVIOUS
  <2> QED BY <1>2, <1>3, <2>1 DEF JB!Buffers
<1>5. /\ jb'.out = <<>> /\ jb'.list = b.list /\ jb'.initialized = b.initialized
      /\ jb'.prevSN = b.prevSN /\ jb'.gaveUp = b.gaveUp
  BY <1>2, <1>3 DEF JB!Buffers
<1>6. Good(jb', S)
  BY <1>4, <1>5 DEF Good, AfterReleased
<1>7. ready \in Seq(JB!Packets(Ids)) /\ b.out \in Seq(JB!Packets(Ids)) /\ handed \in Seq(Ids)
  BY <1>1, <1>3, BufferFields DEF Types
<1>8. ready' \in Seq(JB!Packets(Ids))
  BY <1>2, <1>7, JoinIs
<1>9. Released'
  <2> DEFINE m == Line \o Numbers(b.out)
  <2>1. Line \in Seq(Ids) /\ Line' = m
    <3>1. Numbers(ready) \in Seq(Ids) /\ Numbers(b.out) \in Seq(Ids)
      BY <1>7, NumbersAre
    <3>2. Numbers(ready') = Numbers(ready) \o Numbers(b.out)
      BY <1>2, <1>7, NumbersJoin
    <3>3. Line' = handed \o (Numbers(ready) \o Numbers(b.out))
      BY <3>2 DEF Line, Numbers
    <3>4. handed \o (Numbers(ready) \o Numbers(b.out))
            = (handed \o Numbers(ready)) \o Numbers(b.out)
      <4> DEFINE x == Numbers(ready)
                 y == Numbers(b.out)
      <4>1. handed \in Seq(Ids) /\ x \in Seq(Ids) /\ y \in Seq(Ids)
        BY <1>7, <3>1
      <4> HIDE DEF x, y
      <4>2. handed \o (x \o y) = (handed \o x) \o y
        BY <4>1, JoinsAre
      <4> QED BY <4>2 DEF x, y
    <3>5. handed \o Numbers(ready) \in Seq(Ids)
      BY <1>7, <3>1, JoinIs
    <3> QED BY <3>3, <3>4, <3>5 DEF Line
  <2>2. Delivery!Ascending(Line)
        /\ \A k \in DOMAIN Line : jb.initialized /\ Line[k] <= PlaceOf(jb.prevSN)
    BY <1>1 DEF Released
  <2>3. Delivery!Ascending(m)
    BY <1>1, <2>1, <2>2, LineGrows
  <2>4. \A k \in DOMAIN m : b.initialized /\ m[k] <= PlaceOf(b.prevSN)
    BY <1>1, <2>1, <2>2, LineGrows
  <2>5. Whole(IdsOf(ready'))
    <3>1. Whole(IdsOf(ready)) /\ Whole(IdsOf(b.out))
      BY <1>1 DEF Released, Gives
    <3>2. IdsOf(ready') = IdsOf(ready) \cup IdsOf(b.out)
      BY <1>2, <1>7, IdsJoin
    <3> QED BY <3>1, <3>2, WholeJoin
  <2>6. Delivery!Ascending(Line')
    BY <2>1, <2>3
  <2>7. \A k \in DOMAIN Line' : jb'.initialized /\ Line'[k] <= PlaceOf(jb'.prevSN)
    BY <1>5, <2>1, <2>4
  <2> QED BY <2>5, <2>6, <2>7 DEF Released
<1>10. \/ b.loss /\ LossDue(FALSE) /\ Report(FALSE)
       \/ ~(b.loss /\ LossDue(FALSE)) /\ UNCHANGED <<loss, asked>>
  BY DEF Use
<1>11. loss' \in [last : Nat, early : Nat] /\ asked' \in Nat /\ Reported' /\ asked <= asked'
  <2>1. CASE Report(FALSE)
    <3>1. loss' \in [last : Nat, early : Nat] /\ asked' \in Nat /\ Reported' /\ asked' = now
      BY <1>1, <2>1, ReportIs
    <3> QED BY <1>1, <3>1 DEF Reported
  <2>2. CASE UNCHANGED <<loss, asked>>
    BY <1>1, <2>2 DEF Reported, Types
  <2> QED BY <1>10, <2>1, <2>2
<1>12. GaveUpIsRequested'
  <2> SUFFICES ASSUME ~ended PROVE jb'.gaveUp <= asked' + Slack
    BY DEF GaveUpIsRequested
  <2>1. /\ now \in Nat /\ asked \in Nat /\ asked' \in Nat /\ loss.last \in Nat /\ loss.early \in Nat
        /\ loss.last = asked /\ loss.early <= asked /\ asked <= asked' /\ jb.gaveUp <= asked + Slack
        /\ jb.gaveUp \in Nat /\ b.gaveUp \in Nat /\ jb'.gaveUp = b.gaveUp
    BY <1>1, <1>3, <1>5, <1>11, BufferFields DEF Types, Reported, GaveUpIsRequested
  <2>2. Slack \in Nat /\ Latency \in Nat /\ LossInterval \in Nat /\ LossInterval <= Latency
    BY Delays
  <2>3. CASE b.gaveUp = jb.gaveUp
    BY <2>1, <2>2, <2>3
  <2>4. CASE b.loss /\ b.gaveUp + Latency <= now
    <3>1. CASE LossDue(FALSE)
      <4>1. asked' = now
        BY <1>10, <2>4, <3>1 DEF Report
      <4> QED BY <2>1, <2>2, <2>4, <4>1
    <3>2. CASE ~LossDue(FALSE)
      <4>1. \/ loss.last # 0 /\ ~(now - loss.last >= LossInterval)
            \/ loss.early # 0 /\ ~(now - loss.early >= Latency + Slack)
        BY <3>2 DEF LossDue
      <4>2. now - loss.last < LossInterval \/ now - loss.early < Latency + Slack
        BY <2>1, <2>2, <4>1
      <4> QED BY <2>1, <2>2, <2>4, <4>2
    <3> QED BY <3>1, <3>2
  <2> QED BY <2>3, <2>4 DEF GaveUp
<1> QED BY <1>4, <1>5, <1>6, <1>8, <1>9, <1>11, <1>12

\* With the line as it was.
LEMMA StillReleased ==
  ASSUME Released, UNCHANGED <<jb, ready, handed>>
  PROVE  Released'
<1>1. Line' = Line
  BY DEF Line
<1> QED BY <1>1 DEF Released

LEMMA StillReported ==
  ASSUME Reported, GaveUpIsRequested, UNCHANGED <<jb, loss, asked, now>>, ended => ended'
  PROVE  Reported' /\ GaveUpIsRequested'
BY DEF Reported, GaveUpIsRequested

LEMMA MaxIn ==
  ASSUME NEW a \in Nat, NEW b \in Int
  PROVE  Max({a, b}) \in Nat
BY MaxOfTwo

\* push: what arrives is known to the window and the gaps, and in the buffer.
LEMMA PushStep ==
  ASSUME IInv, NEW i \in Ids, Push(i)
  PROVE  IInv'
<1> DEFINE S == Arrived
           T == S \cup {i}
           check == Duplicate(seen, Wire(i))
           read == ReadAt(gaps, now)
           newKey == Stream[i].key /\ (~keyframe.has \/ SeqNewer(Wire(i), keyframe.seq))
           missed == IF Arrived = {} THEN {} ELSE Max(Arrived) + 1 .. i - 1
           p == Packet(i)
           b == JB!PushAt(jb, p, now)
<1>1. Types /\ Tracked /\ Buffered /\ Released /\ Reported /\ GaveUpIsRequested
  BY TypesAre DEF IInv
<1>2. /\ copies[i] = 0 \/ copies[i] = 1
      /\ \A j \in S : j - i < WindowSize
      /\ copies' = [copies EXCEPT ![i] = @ + 1]
      /\ opened' = [j \in Ids |-> IF j \in missed THEN now ELSE opened[j]]
      /\ seen' = check.window
      /\ reader' = [at |-> "due", settled |-> Settled(loss')]
      /\ UNCHANGED <<now, request, ended, handed>>
  BY DEF Push
<1>3. /\ check.yes => gaps' = read /\ UNCHANGED <<keyframe, keyAt, bufferVars>>
      /\ ~check.yes =>
           /\ gaps' = AddSeq(read, Wire(i), now)
           /\ keyframe' = IF newKey THEN [has |-> TRUE, seq |-> Wire(i)] ELSE keyframe
           /\ keyAt' = IF newKey THEN now ELSE keyAt
           /\ Use(b)
  BY DEF Push
<1>4. copies \in [Ids -> 0 .. 2] /\ now \in Nat /\ seen \in Window /\ gaps \in Track
  BY <1>1 DEF Types
<1>5. S \in SUBSET Ids /\ T \in SUBSET Ids /\ Arrived' = T
  <2>1. copies' \in [Ids -> Nat] /\ copies'[i] > 0 /\ \A j \in Ids : j # i => copies'[j] = copies[j]
    BY <1>2, <1>4
  <2>2. Arrived' = {j \in Ids : copies'[j] > 0}
    BY DEF Arrived
  <2> QED BY <2>1, <2>2 DEF Arrived
<1>6. copies' \in [Ids -> 0 .. 2]
  BY <1>2, <1>4
<1>7. opened' \in [Ids -> Nat]
  <2>1. opened \in [Ids -> Nat]
    BY <1>1 DEF Types
  <2> HIDE DEF missed
  <2> QED BY <1>2, <1>4, <2>1
<1> HIDE DEF S, T, check, read, newKey, missed, p, b
<1>8. WindowOf(seen, S) /\ GapsOf(gaps, S) /\ Good(jb, S) /\ jb.out = <<>>
  BY <1>1 DEF Tracked, Buffered, S
<1>9. check.yes <=> i \in S
  BY <1>2, <1>4, <1>5, <1>8, WindowStep DEF check
<1>10. check.window \in Window
  BY <1>2, <1>4, <1>5, <1>8, WindowStep DEF check
<1>11. WindowOf(check.window, T)
  BY <1>2, <1>4, <1>5, <1>8, WindowStep DEF check, T
<1>12. GapsOf(read, S)
  BY <1>4, <1>5, <1>8, ReadKeeps DEF read
<1>13. GapsOf(gaps', T)
  <2>1. CASE i \in S
    <3>1. T = S /\ gaps' = read
      BY <1>3, <1>9, <2>1 DEF T
    <3> QED BY <1>12, <3>1
  <2>2. CASE i \notin S
    <3>1. gaps' = AddSeq(read, Wire(i), now)
      BY <1>3, <1>9, <2>2
    <3>2. GapsOf(AddSeq(read, Wire(i), now), T)
      BY <1>2, <1>4, <1>5, <1>12, <2>2, AddKeeps DEF T
    <3> QED BY <3>1, <3>2
  <2> QED BY <2>1, <2>2
<1>14. gaps' \in Track
  BY <1>13 DEF GapsOf, Track
<1>15. Tracked'
  BY <1>2, <1>5, <1>11, <1>13 DEF Tracked
<1>16. /\ jb' \in JB!Buffers(Ids) /\ ready' \in Seq(JB!Packets(Ids))
       /\ loss' \in [last : Nat, early : Nat] /\ asked' \in Nat
       /\ Good(jb', T) /\ jb'.out = <<>>
       /\ Released' /\ Reported' /\ GaveUpIsRequested'
  <2>1. CASE i \in S
    <3>1. UNCHANGED <<jb, ready, loss, asked>> /\ T = S
      BY <1>3, <1>9, <2>1 DEF T, bufferVars
    <3>2. Released'
      BY <1>1, <1>2, <3>1, StillReleased
    <3>3. Reported' /\ GaveUpIsRequested'
      BY <1>1, <1>2, <3>1, StillReported
    <3> QED BY <1>1, <1>8, <3>1, <3>2, <3>3 DEF Types
  <2>2. CASE i \notin S
    <3>1. Use(b)
      BY <1>3, <1>9, <2>2
    <3>2. IsSent(p) /\ p.id = i
      <4>1. Stream[i].start \in BOOLEAN /\ Stream[i].end \in BOOLEAN /\ Stream[i].media \in BOOLEAN
        <5> DEFINE R == [seq : 0 .. SeqMod - 1, start : BOOLEAN, end : BOOLEAN, media : BOOLEAN,
                         key : BOOLEAN]
        <5>1. Stream \in Seq(R)
          BY StreamAssumption
        <5> HIDE DEF R
        <5>2. Stream[i] \in R
          BY <5>1 DEF Ids
        <5> QED BY <5>2 DEF R
      <4>2. Wire(i) \in Wires
        BY WireIs
      <4>3. p = [id |-> i, seq |-> Wire(i), start |-> Stream[i].start, end |-> Stream[i].end,
                 media |-> Stream[i].media, at |-> now, discont |-> FALSE]
        BY DEF p, Packet
      <4>4. p \in JB!Packets(Ids)
        BY <1>4, <4>1, <4>2, <4>3 DEF JB!Packets, Wires
      <4> QED BY <4>3, <4>4 DEF IsSent
    <3>3. p.id \notin S /\ \A j \in S : j - p.id < WindowSize
      BY <1>2, <2>2, <3>2
    <3>4. Good(b, S \cup {p.id})
      BY <1>4, <1>5, <1>8, <3>2, <3>3, PushKeeps DEF b
    <3>5. GaveUp(jb, b, now)
      BY <1>4, <1>5, <1>8, <3>2, <3>3, PushKeeps DEF b
    <3>6. Gives(jb, b)
      BY <1>4, <1>5, <1>8, <3>2, <3>3, PushKeeps DEF b
    <3>7. Good(b, T)
      BY <3>2, <3>4 DEF T
    <3> QED BY <1>2, <1>5, <3>1, <3>5, <3>6, <3>7, UseKeeps
  <2> QED BY <2>1, <2>2
<1>17. reader' \in [at : {"reading", "due", "take", "flush", "over"}, settled : Nat]
       /\ reader'.at = "due"
  <2>1. loss'.last \in Nat /\ now - Latency \in Int
    BY <1>4, <1>16, Delays
  <2>2. Settled(loss') \in Nat
    <3>1. now' = now
      BY <1>2
    <3>2. Settled(loss') = Max({loss'.last, now - Latency})
      BY DEF Settled
    <3> QED BY <2>1, <3>2, MaxIn
  <2> QED BY <1>2, <2>2
<1>18. Buffered'
  BY <1>5, <1>16, <1>17 DEF Buffered, At
<1>19. keyframe' \in [has : BOOLEAN, seq : Wires] /\ keyAt' \in Nat
  <2>1. keyframe \in [has : BOOLEAN, seq : Wires] /\ keyAt \in Nat
    BY <1>1 DEF Types
  <2>2. Wire(i) \in Wires
    BY WireIs
  <2>3. CASE check.yes
    <3>1. keyframe' = keyframe /\ keyAt' = keyAt
      BY <1>3, <2>3
    <3> QED BY <2>1, <3>1
  <2>4. CASE ~check.yes
    <3>1. /\ keyframe' = IF newKey THEN [has |-> TRUE, seq |-> Wire(i)] ELSE keyframe
          /\ keyAt' = IF newKey THEN now ELSE keyAt
      BY <1>3, <2>4
    <3>2. CASE newKey
      <4>1. keyframe' = [has |-> TRUE, seq |-> Wire(i)] /\ keyAt' = now
        BY <3>1, <3>2
      <4>2. [has |-> TRUE, seq |-> Wire(i)] \in [has : BOOLEAN, seq : Wires]
        BY <2>2
      <4> QED BY <1>4, <4>1, <4>2
    <3>3. CASE ~newKey
      BY <2>1, <3>1, <3>3
    <3> QED BY <3>2, <3>3
  <2> QED BY <2>3, <2>4
<1>20. Types'
  BY <1>1, <1>2, <1>6, <1>7, <1>10, <1>14, <1>16, <1>17, <1>19 DEF Types, Window, Track
<1> QED BY <1>15, <1>16, <1>18, <1>20, TypesNext DEF IInv

\* gapDue forgets gaps, and reports early.
LEMMA GapDueStep ==
  ASSUME IInv, GapDue
  PROVE  IInv'
<1> DEFINE open == Unsettled(gaps.open, reader.settled)
           kept == [gaps EXCEPT !.open = open]
           pending == request.pending /\ ~(keyframe.has /\ SeqNewer(keyframe.seq, request.seq))
           newest == open[Len(open)]
           early == (Due(kept, now) \/ pending) /\ LossDue(TRUE)
<1>1. Types /\ Tracked /\ Buffered /\ Released /\ Reported /\ GaveUpIsRequested
  BY TypesAre DEF IInv
<1>2. /\ gaps' = kept
      /\ early =>
           /\ Report(TRUE)
           /\ request' = IF open = <<>> THEN [request EXCEPT !.pending = pending]
                         ELSE [seq |-> (newest.first + newest.span) % SeqMod, pending |-> TRUE]
      /\ ~early =>
           /\ request' = [request EXCEPT !.pending = pending]
           /\ UNCHANGED <<loss, asked>>
      /\ reader' = [at |-> "take", settled |-> 0]
      /\ UNCHANGED <<now, seen, keyframe, copies, opened, keyAt, jb, ready, ended, handed>>
  BY DEF GapDue
<1>3. Arrived \in SUBSET Ids /\ Arrived' = Arrived
  BY <1>2 DEF Arrived
<1>4. reader.settled \in Nat
  BY <1>1 DEF Types
<1>5. WindowOf(seen, Arrived) /\ GapsOf(gaps, Arrived) /\ Good(jb, Arrived) /\ jb.out = <<>>
  BY <1>1 DEF Tracked, Buffered
<1>6. GapsOf(kept, Arrived)
  BY <1>3, <1>4, <1>5, UnsettledKeeps
<1>7. kept \in Track /\ open \in Seq(Gap)
  <2>1. gaps \in Track
    BY <1>1 DEF Types
  <2>2. kept.open = open
    BY <2>1 DEF Track
  <2> HIDE DEF kept
  <2>3. kept \in Track
    BY <1>6 DEF GapsOf, Track
  <2> QED BY <2>2, <2>3 DEF Track
<1> HIDE DEF open, kept, pending, newest, early
<1>8. Tracked'
  BY <1>2, <1>3, <1>5, <1>6 DEF Tracked
<1>9. request' \in [seq : Wires, pending : BOOLEAN]
  <2>1. request \in [seq : Wires, pending : BOOLEAN]
    BY <1>1 DEF Types
  <2>2. pending \in BOOLEAN
    BY Zenon DEF pending
  <2>3. CASE request' = [request EXCEPT !.pending = pending]
    BY <2>1, <2>2, <2>3
  <2>4. CASE /\ open # <<>>
             /\ request' = [seq |-> (newest.first + newest.span) % SeqMod, pending |-> TRUE]
    <3>1. Len(open) \in 1 .. Len(open)
      BY <1>7, <2>4
    <3>2. newest \in Gap
      BY <1>7, <3>1 DEF newest
    <3>3. newest.first + newest.span \in Int
      BY <3>2, GapFields
    <3>4. (newest.first + newest.span) % SeqMod \in Wires
      <4> DEFINE x == newest.first + newest.span
      <4> HIDE DEF x
      <4>1. x % SeqMod \in Wires
        BY <3>3, Sizes, DivMod DEF Wires, x
      <4> QED BY <4>1 DEF x
    <3> QED BY <2>4, <3>4
  <2> QED BY <1>2, <2>3, <2>4
<1>10. /\ loss' \in [last : Nat, early : Nat] /\ asked' \in Nat
       /\ Reported' /\ GaveUpIsRequested'
  <2>1. CASE early
    <3>1. Report(TRUE) /\ now' = now
      BY <1>2, <2>1
    <3>2. loss' \in [last : Nat, early : Nat] /\ asked' \in Nat /\ Reported' /\ asked' = now
      BY <1>1, <3>1, ReportIs
    <3>3. GaveUpIsRequested'
      <4>1. /\ now \in Nat /\ asked \in Nat /\ asked <= now /\ jb.gaveUp \in Nat
            /\ ~ended => jb.gaveUp <= asked + Slack
        BY <1>1, BufferFields DEF Types, Reported, GaveUpIsRequested
      <4> QED BY <1>2, <3>2, <4>1, Delays DEF GaveUpIsRequested
    <3> QED BY <3>2, <3>3
  <2>2. CASE ~early
    <3>1. UNCHANGED <<jb, loss, asked, now, ended>>
      BY <1>2, <2>2
    <3>2. Reported' /\ GaveUpIsRequested'
      BY <1>1, <3>1, StillReported
    <3> QED BY <1>1, <3>1, <3>2 DEF Types
  <2> QED BY <2>1, <2>2
<1>11. Released'
  BY <1>1, <1>2, StillReleased
<1>12. Buffered'
  BY <1>2, <1>3, <1>5 DEF Buffered, At
<1>13. Types'
  <2>1. gaps' \in Track
    BY <1>2, <1>7
  <2>2. reader' \in [at : {"reading", "due", "take", "flush", "over"}, settled : Nat]
    BY <1>2
  <2> QED BY <1>1, <1>2, <1>9, <1>10, <2>1, <2>2 DEF Types, Window, Track
<1> QED BY <1>8, <1>10, <1>11, <1>12, <1>13, TypesNext DEF IInv

\* What the reader hands on was ready.
LEMMA LineHanded ==
  ASSUME NEW h \in Seq(Ids), NEW q \in Seq(JB!Packets(Ids))
  PROVE  /\ h \o Numbers(q) \in Seq(Ids)
         /\ (h \o Numbers(q)) \o Numbers(<<>>) = h \o Numbers(q)
         /\ IdsOf(<<>>) = {}
<1>1. <<>> \in Seq(JB!Packets(Ids)) /\ Len(<<>>) = 0
  OBVIOUS
<1>2. Numbers(q) \in Seq(Ids) /\ Numbers(<<>>) \in Seq(Ids) /\ Len(Numbers(<<>>)) = 0
  BY <1>1, NumbersAre
<1>3. h \o Numbers(q) \in Seq(Ids) /\ Numbers(<<>>) = <<>>
  BY <1>2
<1>4. IdsOf(<<>>) = {}
  BY <1>1 DEF IdsOf
<1> QED BY <1>3, <1>4

LEMMA TakeReadyStep ==
  ASSUME IInv, TakeReady
  PROVE  IInv'
<1>1. Types /\ Tracked /\ Buffered /\ Released /\ Reported /\ GaveUpIsRequested
  BY TypesAre DEF IInv
<1>2. /\ handed' = handed \o Numbers(ready) /\ ready' = <<>>
      /\ reader' = [reader EXCEPT !.at = "reading"]
      /\ UNCHANGED <<now, seen, gaps, keyframe, copies, opened, keyAt, request, jb, loss, asked, ended>>
  BY DEF TakeReady, Goes, Numbers, pushVars
<1>3. handed \in Seq(Ids) /\ ready \in Seq(JB!Packets(Ids))
  BY <1>1 DEF Types
<1>4. handed' \in Seq(Ids) /\ Line' = Line /\ IdsOf(ready') = {}
  <2>1. handed' \in Seq(Ids) /\ IdsOf(ready') = {}
    BY <1>2, <1>3, LineHanded
  <2>2. handed' \o Numbers(<<>>) = handed \o Numbers(ready)
    BY <1>2, <1>3, LineHanded
  <2>3. Line' = handed' \o Numbers(<<>>)
    BY <1>2 DEF Line, Numbers
  <2> QED BY <2>1, <2>2, <2>3 DEF Line
<1>5. Released'
  <2>1. Delivery!Ascending(Line')
    BY <1>1, <1>4 DEF Released
  <2>2. \A k \in DOMAIN Line' : jb'.initialized /\ Line'[k] <= PlaceOf(jb'.prevSN)
    BY <1>1, <1>2, <1>4 DEF Released
  <2>3. Whole(IdsOf(ready'))
    BY <1>4, NoneWhole
  <2> QED BY <2>1, <2>2, <2>3 DEF Released
<1>6. Reported' /\ GaveUpIsRequested'
  BY <1>1, <1>2, StillReported
<1>7. Arrived' = Arrived
  BY <1>2 DEF Arrived
<1>8. Tracked'
  BY <1>1, <1>2, <1>7 DEF Tracked
<1>9. /\ reader' \in [at : {"reading", "due", "take", "flush", "over"}, settled : Nat]
      /\ reader'.at = "reading"
  BY <1>1, <1>2 DEF Types
<1>10. Buffered'
  BY <1>1, <1>2, <1>7, <1>9 DEF Buffered, At
<1>11. Types'
  <2>1. ready' \in Seq(JB!Packets(Ids))
    BY <1>2
  <2> QED BY <1>1, <1>2, <1>4, <1>9, <2>1 DEF Types, Window, Track
<1> QED BY <1>5, <1>6, <1>8, <1>10, <1>11, TypesNext DEF IInv

\* The end of the track.
LEMMA EndTrackStep ==
  ASSUME IInv, EndTrack
  PROVE  IInv'
<1>1. Types /\ Tracked /\ Buffered /\ Released /\ Reported /\ GaveUpIsRequested
  BY TypesAre DEF IInv
<1>2. /\ ended' = TRUE /\ reader' = [reader EXCEPT !.at = "flush"]
      /\ UNCHANGED <<now, seen, gaps, keyframe, copies, opened, keyAt, request, jb, ready, loss,
                     asked, handed>>
  BY DEF EndTrack, Goes, pushVars, bufferVars
<1>3. Arrived' = Arrived
  BY <1>2 DEF Arrived
<1>4. Tracked'
  BY <1>1, <1>2, <1>3 DEF Tracked
<1>5. /\ reader' \in [at : {"reading", "due", "take", "flush", "over"}, settled : Nat]
      /\ reader'.at = "flush"
  BY <1>1, <1>2 DEF Types
<1>6. Buffered'
  BY <1>1, <1>2, <1>3, <1>5 DEF Buffered, At
<1>7. Released'
  BY <1>1, <1>2, StillReleased
<1>8. Reported' /\ GaveUpIsRequested'
  BY <1>1, <1>2, StillReported
<1>9. Types'
  <2>1. ended' \in BOOLEAN
    BY <1>2, Zenon
  <2> QED BY <1>1, <1>2, <1>5, <2>1 DEF Types, Window, Track
<1> QED BY <1>4, <1>6, <1>7, <1>8, <1>9, TypesNext DEF IInv

\* What a flush adds to the line, which is then all handed.
LEMMA FlushAdds ==
  ASSUME IInv, NEW b, b = JB!Flush(jb)
  PROVE  /\ Good(b, Arrived) /\ b.gaveUp = jb.gaveUp /\ b.list = <<>>
         /\ b \in JB!Buffers(Ids) /\ ready \o b.out \in Seq(JB!Packets(Ids))
         /\ handed \o Numbers(ready \o b.out) \in Seq(Ids)
         /\ Delivery!Ascending(handed \o Numbers(ready \o b.out))
         /\ \A k \in DOMAIN (handed \o Numbers(ready \o b.out)) :
              b.initialized /\ (handed \o Numbers(ready \o b.out))[k] <= PlaceOf(b.prevSN)
         /\ Whole(IdsOf(ready \o b.out))
<1>1. Types /\ Buffered /\ Released
  BY TypesAre DEF IInv
<1>2. Good(jb, Arrived) /\ jb.out = <<>> /\ Arrived \in SUBSET Ids
  BY <1>1 DEF Buffered, Arrived
<1>3. Good(b, Arrived)
  BY <1>2, FlushKeeps
<1>4. b.gaveUp = jb.gaveUp /\ b.list = <<>>
  BY <1>2, FlushKeeps
<1>5. Gives(jb, b)
  BY <1>2, FlushKeeps
<1>6. b \in JB!Buffers(Ids)
  BY <1>3 DEF Good
<1>7. ready \in Seq(JB!Packets(Ids)) /\ b.out \in Seq(JB!Packets(Ids)) /\ handed \in Seq(Ids)
  BY <1>1, <1>6, BufferFields DEF Types
<1>8. ready \o b.out \in Seq(JB!Packets(Ids))
  BY <1>7, JoinIs
<1> DEFINE m == handed \o Numbers(ready \o b.out)
<1>9. Line \in Seq(Ids) /\ m = Line \o Numbers(b.out)
  <2>1. Numbers(ready) \in Seq(Ids) /\ Numbers(b.out) \in Seq(Ids)
    BY <1>7, NumbersAre
  <2>2. Numbers(ready \o b.out) = Numbers(ready) \o Numbers(b.out)
    BY <1>7, NumbersJoin
  <2> QED BY <1>7, <2>1, <2>2 DEF Line
<1> HIDE DEF m
<1>10. Delivery!Ascending(Line)
       /\ \A k \in DOMAIN Line : jb.initialized /\ Line[k] <= PlaceOf(jb.prevSN)
  BY <1>1 DEF Released
<1>11. m \in Seq(Ids)
  BY <1>2, <1>3, <1>5, <1>9, <1>10, LineGrows
<1>12. Delivery!Ascending(m)
  BY <1>2, <1>3, <1>5, <1>9, <1>10, LineGrows
<1>13. \A k \in DOMAIN m : b.initialized /\ m[k] <= PlaceOf(b.prevSN)
  BY <1>2, <1>3, <1>5, <1>9, <1>10, LineGrows
<1>14. Whole(IdsOf(ready \o b.out))
  <2>1. Whole(IdsOf(ready)) /\ Whole(IdsOf(b.out))
    BY <1>1, <1>5 DEF Released, Gives
  <2>2. IdsOf(ready \o b.out) = IdsOf(ready) \cup IdsOf(b.out)
    BY <1>7, IdsJoin
  <2> QED BY <2>1, <2>2, WholeJoin
<1> QED BY <1>3, <1>4, <1>6, <1>8, <1>11, <1>12, <1>13, <1>14 DEF m

LEMMA FlushStep ==
  ASSUME IInv, Flush
  PROVE  IInv'
<1> DEFINE b == JB!Flush(jb)
           last == ready \o b.out
<1>1. Types /\ Tracked /\ Buffered /\ Released /\ Reported /\ GaveUpIsRequested
  BY TypesAre DEF IInv
<1>2. /\ jb' = [b EXCEPT !.out = <<>>, !.loss = FALSE]
      /\ handed' = handed \o Numbers(last) /\ ready' = <<>>
      /\ reader' = [reader EXCEPT !.at = "over"]
      /\ UNCHANGED <<now, seen, gaps, keyframe, copies, opened, keyAt, request, loss, asked, ended>>
  BY DEF Flush, Goes, Numbers, pushVars
<1>3. Good(b, Arrived) /\ b.gaveUp = jb.gaveUp /\ b.list = <<>> /\ b \in JB!Buffers(Ids)
  BY FlushAdds
<1>4. last \in Seq(JB!Packets(Ids)) /\ handed' \in Seq(Ids)
  BY <1>2, FlushAdds
<1>5. Delivery!Ascending(handed \o Numbers(last))
  BY FlushAdds
<1>6. \A k \in DOMAIN (handed \o Numbers(last)) :
        b.initialized /\ (handed \o Numbers(last))[k] <= PlaceOf(b.prevSN)
  BY FlushAdds
<1> HIDE DEF b, last
<1>7. jb' \in JB!Buffers(Ids)
  <2>1. <<>> \in Seq(JB!Packets(Ids))
    OBVIOUS
  <2> QED BY <1>2, <1>3, <2>1 DEF JB!Buffers
<1>8. /\ jb'.out = <<>> /\ jb'.list = <<>> /\ jb'.initialized = b.initialized
      /\ jb'.prevSN = b.prevSN /\ jb'.gaveUp = jb.gaveUp
  BY <1>2, <1>3 DEF JB!Buffers
<1>9. Good(jb', Arrived)
  BY <1>3, <1>7, <1>8 DEF Good, AfterReleased
<1>10. Line' = handed \o Numbers(last) /\ IdsOf(ready') = {}
  <2>1. handed \in Seq(Ids)
    BY <1>1 DEF Types
  <2>2. Line' = (handed \o Numbers(last)) \o Numbers(<<>>) /\ IdsOf(ready') = IdsOf(<<>>)
    BY <1>2 DEF Line
  <2>3. (handed \o Numbers(last)) \o Numbers(<<>>) = handed \o Numbers(last)
    BY <1>4, <2>1, LineHanded
  <2>4. IdsOf(<<>>) = {}
    BY <1>4, <2>1, LineHanded
  <2> QED BY <2>2, <2>3, <2>4
<1>11. Released'
  <2>1. Delivery!Ascending(Line')
    BY <1>5, <1>10
  <2>2. \A k \in DOMAIN Line' : jb'.initialized /\ Line'[k] <= PlaceOf(jb'.prevSN)
    BY <1>6, <1>8, <1>10
  <2>3. Whole(IdsOf(ready'))
    BY <1>10, NoneWhole
  <2> QED BY <2>1, <2>2, <2>3 DEF Released
<1>12. Reported' /\ GaveUpIsRequested'
  BY <1>1, <1>2, <1>8 DEF Reported, GaveUpIsRequested
<1>13. Arrived' = Arrived
  BY <1>2 DEF Arrived
<1>14. Tracked'
  BY <1>1, <1>2, <1>13 DEF Tracked
<1>15. reader' \in [at : {"reading", "due", "take", "flush", "over"}, settled : Nat]
  BY <1>1, <1>2 DEF Types
<1>16. Buffered'
  BY <1>8, <1>9, <1>13 DEF Buffered, At
<1>17. Types'
  <2>1. ready' \in Seq(JB!Packets(Ids))
    BY <1>2
  <2> QED BY <1>1, <1>2, <1>4, <1>7, <1>15, <2>1 DEF Types
<1> QED BY <1>11, <1>12, <1>14, <1>16, <1>17, TypesNext DEF IInv

\* The timer.
LEMMA ExpireStep ==
  ASSUME IInv, Expire
  PROVE  IInv'
<1> DEFINE b == JB!PopReady(jb, now)
<1>1. Types /\ Tracked /\ Buffered /\ Released /\ Reported /\ GaveUpIsRequested
  BY TypesAre DEF IInv
<1>2. /\ jb.list # <<>> /\ Use(b)
      /\ UNCHANGED <<now, seen, gaps, keyframe, copies, opened, keyAt, request, ended, reader, handed>>
  BY DEF Expire, pushVars
<1>3. Good(jb, Arrived) /\ jb.out = <<>> /\ Arrived \in SUBSET Ids /\ now \in Nat /\ ~At("over")
  BY <1>1, <1>2 DEF Buffered, Arrived, Types
<1>4. Good(b, Arrived)
  BY <1>3, PopReadyKeeps
<1>5. GaveUp(jb, b, now)
  BY <1>3, PopReadyKeeps
<1>6. Gives(jb, b)
  BY <1>3, PopReadyKeeps
<1> HIDE DEF b
<1>7. /\ jb' \in JB!Buffers(Ids) /\ ready' \in Seq(JB!Packets(Ids))
      /\ loss' \in [last : Nat, early : Nat] /\ asked' \in Nat
      /\ Good(jb', Arrived) /\ jb'.out = <<>>
      /\ Released' /\ Reported' /\ GaveUpIsRequested'
  BY <1>2, <1>3, <1>4, <1>5, <1>6, UseKeeps
<1>8. Arrived' = Arrived
  BY <1>2 DEF Arrived
<1>9. Tracked'
  BY <1>1, <1>2, <1>8 DEF Tracked
<1>10. Buffered'
  BY <1>2, <1>3, <1>7, <1>8 DEF Buffered, At
<1>11. Types'
  BY <1>1, <1>2, <1>7 DEF Types
<1> QED BY <1>7, <1>9, <1>10, <1>11, TypesNext DEF IInv

LEMMA TickStep ==
  ASSUME IInv, Tick
  PROVE  IInv'
<1>1. Types /\ Tracked /\ Buffered /\ Released /\ Reported /\ GaveUpIsRequested
  BY TypesAre DEF IInv
<1>2. /\ now' = now + 1
      /\ UNCHANGED <<seen, gaps, keyframe, copies, opened, keyAt, request, jb, ready, loss, asked,
                     ended, reader, handed>>
  BY DEF Tick, pushVars, bufferVars
<1>3. now \in Nat /\ now > 0 /\ asked \in Nat
  BY <1>1 DEF Types
<1>4. now' \in Nat /\ now' > 0 /\ now < now'
  BY <1>2, <1>3
<1>5. Arrived' = Arrived
  BY <1>2 DEF Arrived
<1>6. Tracked'
  BY <1>1, <1>2, <1>5 DEF Tracked
<1>7. Buffered'
  BY <1>1, <1>2, <1>5 DEF Buffered, At
<1>8. Released'
  BY <1>1, <1>2, StillReleased
<1>9. Reported'
  <2>1. asked <= now'
    BY <1>1, <1>3, <1>4 DEF Reported
  <2> QED BY <1>1, <1>2, <2>1 DEF Reported
<1>10. GaveUpIsRequested'
  BY <1>1, <1>2 DEF GaveUpIsRequested
<1>11. Types'
  BY <1>1, <1>2, <1>4 DEF Types
<1> QED BY <1>6, <1>7, <1>8, <1>9, <1>10, <1>11, TypesNext DEF IInv

LEMMA StutterStep ==
  ASSUME IInv, UNCHANGED vars
  PROVE  IInv'
<1>1. Types /\ Tracked /\ Buffered /\ Released /\ Reported /\ GaveUpIsRequested
  BY TypesAre DEF IInv
<1>2. UNCHANGED <<now, seen, gaps, keyframe, copies, opened, keyAt, request, jb, ready, loss, asked,
                  ended, reader, handed>>
  BY DEF vars, pushVars, bufferVars
<1>3. Arrived' = Arrived
  BY <1>2 DEF Arrived
<1>4. Tracked' /\ Buffered'
  BY <1>1, <1>2, <1>3 DEF Tracked, Buffered, At
<1>5. Released'
  BY <1>1, <1>2, StillReleased
<1>6. Reported' /\ GaveUpIsRequested'
  BY <1>1, <1>2, StillReported
<1>7. Types'
  BY <1>1, <1>2 DEF Types
<1> QED BY <1>4, <1>5, <1>6, <1>7, TypesNext DEF IInv

LEMMA NextKeeps == IInv /\ [Next]_vars => IInv'
<1> SUFFICES ASSUME IInv, [Next]_vars PROVE IInv'
  OBVIOUS
<1>1. CASE \E i \in Ids : Push(i)
  BY <1>1, PushStep
<1>2. CASE GapDue
  BY <1>2, GapDueStep
<1>3. CASE TakeReady
  BY <1>3, TakeReadyStep
<1>4. CASE EndTrack
  BY <1>4, EndTrackStep
<1>5. CASE Flush
  BY <1>5, FlushStep
<1>6. CASE Expire
  BY <1>6, ExpireStep
<1>7. CASE Tick
  BY <1>7, TickStep
<1>8. CASE UNCHANGED vars
  BY <1>8, StutterStep
<1> QED BY <1>1, <1>2, <1>3, <1>4, <1>5, <1>6, <1>7, <1>8 DEF Next

LEMMA Inductive == Spec => []IInv
BY FirstIs, NextKeeps, PTL DEF Spec

-----------------------------------------------------------------------------
(* What the gaps forget *)

\* The gaps of r are some of those of q, in their order, whatever is missing in
\* them now.
SomeOf(r, q) ==
  \E f \in [1 .. Len(r) -> 1 .. Len(q)] :
    /\ \A k, l \in 1 .. Len(r) : k < l => f[k] < f[l]
    /\ \A k \in 1 .. Len(r) : r[k].first = q[f[k]].first /\ r[k].since = q[f[k]].since

\* A gap is as old as the loss of its first packet, by o, and none is older than
\* one before it.
DatedOf(q, o) ==
  \A k \in 1 .. Len(q) :
    /\ q[k].since = o[From(q[k])] /\ q[k].since > 0
    /\ \A l \in 1 .. Len(q) : k < l => q[k].since <= q[l].since

LEMMA SomeOfDated ==
  ASSUME NEW q, NEW r, NEW o, SomeOf(r, q), DatedOf(q, o)
  PROVE  /\ DatedOf(r, o)
         /\ \A k \in 1 .. Len(r) : \E l \in 1 .. Len(q) : r[k].since = q[l].since
<1>1. PICK f \in [1 .. Len(r) -> 1 .. Len(q)] :
        /\ \A k, l \in 1 .. Len(r) : k < l => f[k] < f[l]
        /\ \A k \in 1 .. Len(r) : r[k].first = q[f[k]].first /\ r[k].since = q[f[k]].since
  BY DEF SomeOf
<1>2. ASSUME NEW k \in 1 .. Len(r)
      PROVE  f[k] \in 1 .. Len(q) /\ From(r[k]) = From(q[f[k]]) /\ r[k].since = q[f[k]].since
  BY <1>1 DEF From
<1>3. ASSUME NEW k \in 1 .. Len(r), NEW l \in 1 .. Len(r), k < l PROVE r[k].since <= r[l].since
  <2>1. f[k] < f[l]
    BY <1>1, <1>3
  <2> QED BY <1>2, <2>1 DEF DatedOf
<1>4. ASSUME NEW k \in 1 .. Len(r) PROVE r[k].since = o[From(r[k])] /\ r[k].since > 0
  BY <1>2 DEF DatedOf
<1> QED BY <1>2, <1>3, <1>4 DEF DatedOf

LEMMA AllAreSome ==
  ASSUME NEW q, NEW r, Len(r) = Len(q),
         \A k \in 1 .. Len(q) : r[k].first = q[k].first /\ r[k].since = q[k].since
  PROVE  SomeOf(r, q)
<1> DEFINE f == [k \in 1 .. Len(r) |-> k]
<1>1. f \in [1 .. Len(r) -> 1 .. Len(q)]
  OBVIOUS
<1>2. \A k \in 1 .. Len(r) : f[k] = k
  OBVIOUS
<1> HIDE DEF f
<1> QED BY <1>1, <1>2 DEF SomeOf

LEMMA NoneAreSome ==
  ASSUME NEW q
  PROVE  SomeOf(<<>>, q)
<1> DEFINE f == [k \in 1 .. Len(<<>>) |-> k]
<1>1. Len(<<>>) = 0 /\ \A k \in 1 .. Len(<<>>) : FALSE
  OBVIOUS
<1>2. f \in [1 .. Len(<<>>) -> 1 .. Len(q)]
  BY <1>1
<1> HIDE DEF f
<1> QED BY <1>1, <1>2 DEF SomeOf

LEMMA InGapsIs ==
  ASSUME NEW q \in Seq(Gap), NEW j
  PROVE  InGaps(j, q) <=> \E k \in 1 .. Len(q) : In(q[k], Wire(j))
BY DEF InGaps

LEMMA NothingIn == \A j : ~InGaps(j, <<>>)
<1>1. DOMAIN <<>> = {}
  OBVIOUS
<1> QED BY <1>1 DEF InGaps

\* What is missing in a gap is still in one while the first gap begins where it
\* did.
LEMMA StillIn ==
  ASSUME NEW q, NEW S \in SUBSET Ids, NEW m \in Ids, OpenOf(q, S, m),
         NEW r, NEW T \in SUBSET Ids, NEW i \in Ids, OpenOf(r, T, i), m <= i,
         Len(r) > 0, r[1].first = q[1].first,
         NEW j \in Ids, j \notin T, InGaps(j, q)
  PROVE  InGaps(j, r)
<1>1. q \in Seq(Gap) /\ r \in Seq(Gap) /\ Len(q) \in Nat /\ Len(r) \in Nat
  BY DEF OpenOf
<1>2. j \in Int /\ m \in Int /\ i \in Int
  BY IdsAre
<1>3. PICK k \in 1 .. Len(q) : In(q[k], Wire(j))
  BY <1>1, InGapsIs
<1>4. From(q[k]) \in Int /\ To(q[k]) \in Int /\ From(q[k]) <= j /\ j <= To(q[k]) /\ To(q[k]) < m
  BY <1>3, GapIs
<1>5. 1 \in 1 .. Len(q)
  BY <1>1
<1>6. From(q[1]) <= j
  <2>1. CASE k = 1
    BY <1>4, <2>1
  <2>2. CASE k # 1
    <3>1. From(q[1]) \in Int /\ To(q[1]) \in Int /\ From(q[1]) <= To(q[1])
      BY <1>5, GapIs
    <3>2. To(q[1]) < From(q[k])
      <4>1. 1 < k
        BY <2>2
      <4> QED BY <1>5, <4>1 DEF OpenOf
    <3> QED BY <1>2, <1>4, <3>1, <3>2
  <2> QED BY <2>1, <2>2
<1>7. From(r[1]) = From(q[1])
  BY DEF From
<1>8. j < i
  BY <1>2, <1>4
<1>9. PICK l \in 1 .. Len(r) : From(r[l]) <= j /\ j <= To(r[l])
  BY <1>6, <1>7, <1>8 DEF OpenOf
<1>10. In(r[l], Wire(j))
  BY <1>9, GapIs
<1> QED BY <1>1, <1>10, InGapsIs

\* fill takes nothing from a gap but what arrives.
LEMMA FillSheds ==
  ASSUME NEW q, NEW S \in SUBSET Ids, NEW m \in Ids, OpenOf(q, S, m), NEW i \in Ids, i \notin S
  PROVE  LET r == Fill(q, Wire(i)) IN
         /\ SomeOf(r, q)
         /\ \A j \in Ids \ (S \cup {i}) : InGaps(j, q) => InGaps(j, r)
<1> DEFINE n == Len(q)
           hits == {k \in DOMAIN q : In(q[k], Wire(i))}
           r == Fill(q, Wire(i))
           Keeps == \A j \in Ids \ (S \cup {i}) : InGaps(j, q) => InGaps(j, r)
<1>1. q \in Seq(Gap) /\ n \in Nat /\ DOMAIN q = 1 .. n
  BY DEF OpenOf
<1>2. r = IF hits = {} THEN q
          ELSE LET k == Min(hits) IN
               IF q[k].missing = 1
                 THEN SubSeq(q, 1, k - 1) \o SubSeq(q, k + 1, Len(q))
                 ELSE [q EXCEPT ![k].missing = @ - 1]
  BY DEF Fill
<1> SUFFICES SomeOf(r, q) /\ Keeps
  OBVIOUS
<1> HIDE DEF r, hits, n
<1>3. CASE hits = {}
  BY <1>2, <1>3, AllAreSome
<1>4. CASE hits # {}
  <2> DEFINE h == Min(hits)
  <2>1. h \in hits /\ h \in 1 .. n
    <3>1. hits \in SUBSET Nat
      BY <1>1 DEF hits
    <3>2. h \in hits
      BY <1>4, <3>1, MinIs
    <3> QED BY <1>1, <3>2 DEF hits
  <2>2. r = IF q[h].missing = 1
                 THEN SubSeq(q, 1, h - 1) \o SubSeq(q, h + 1, Len(q))
                 ELSE [q EXCEPT ![h].missing = @ - 1]
    BY <1>2, <1>4
  <2> HIDE DEF h
  <2>3. In(q[h], Wire(i))
    BY <2>1 DEF hits
  <2>4. CASE q[h].missing # 1
    <3>1. r = [q EXCEPT ![h].missing = @ - 1]
      BY <2>2, <2>4
    <3>2. /\ Len(r) = n
          /\ \A k \in 1 .. n : /\ r[k].first = q[k].first /\ r[k].since = q[k].since
                               /\ r[k].span = q[k].span
      <4> DEFINE x == [q[h] EXCEPT !.missing = @ - 1]
      <4>1. q[h] \in Gap
        BY <1>1, <2>1
      <4>2. x.first = q[h].first /\ x.span = q[h].span /\ x.since = q[h].since
        BY <4>1 DEF Gap
      <4> HIDE DEF x
      <4>3. r = [q EXCEPT ![h] = x]
        BY <3>1 DEF x
      <4>4. Len(r) = n /\ r[h] = x /\ \A k \in 1 .. n : k # h => r[k] = q[k]
        BY <1>1, <2>1, <4>3 DEF n
      <4> QED BY <4>2, <4>4
    <3>3. DOMAIN r = 1 .. n
      BY <1>1, <3>1
    <3>4. Keeps
      <4>1. ASSUME NEW j \in Ids, NEW k \in 1 .. n, In(q[k], Wire(j)) PROVE In(r[k], Wire(j))
        BY <3>2, <4>1 DEF In
      <4> QED BY <1>1, <3>3, <4>1 DEF InGaps
    <3> QED BY <3>2, <3>4, AllAreSome DEF n
  <2>5. CASE q[h].missing = 1
    <3>1. r = SubSeq(q, 1, h - 1) \o SubSeq(q, h + 1, Len(q))
      BY <2>2, <2>5
    <3>2. /\ r \in Seq(Gap) /\ Len(r) = n - 1
          /\ \A l \in 1 .. n - 1 : r[l] = q[IF l < h THEN l ELSE l + 1]
      BY <1>1, <2>1, <3>1, RemovedIs DEF n
    <3> DEFINE f == [l \in 1 .. Len(r) |-> IF l < h THEN l ELSE l + 1]
    <3>3. f \in [1 .. Len(r) -> 1 .. Len(q)]
      BY <1>1, <2>1, <3>2 DEF n
    <3>4. \A k, l \in 1 .. Len(r) : k < l => f[k] < f[l]
      BY <1>1, <2>1, <3>2
    <3>5. \A k \in 1 .. Len(r) : r[k] = q[f[k]]
      BY <3>2
    <3> HIDE DEF f
    <3>6. SomeOf(r, q)
      BY <3>3, <3>4, <3>5 DEF SomeOf
    <3>7. ASSUME NEW j \in Ids \ (S \cup {i}), NEW k \in 1 .. n, In(q[k], Wire(j)) PROVE k # h
      <4> SUFFICES ASSUME k = h PROVE FALSE
        OBVIOUS
      <4> DEFINE Gone == (From(q[h]) .. To(q[h])) \ S
      <4>1. /\ Cardinality(Gone) = 1 /\ From(q[h]) \in Int /\ To(q[h]) \in Int
            /\ From(q[h]) <= j /\ j <= To(q[h]) /\ From(q[h]) <= i /\ i <= To(q[h])
        <5>1. h \in 1 .. Len(q) /\ i \in Ids /\ j \in Ids /\ q[h].missing = 1
          BY <2>1, <2>5 DEF n
        <5>2. In(q[h], Wire(i)) /\ In(q[h], Wire(j))
          BY <2>3, <3>7
        <5>3. Cardinality(Gone) = 1 /\ From(q[h]) \in Int /\ To(q[h]) \in Int
          BY <5>1, GapIs
        <5>4. \A x \in Ids : In(q[h], Wire(x)) => From(q[h]) <= x /\ x <= To(q[h])
          BY <5>1, GapIs
        <5> HIDE DEF Gone
        <5> QED BY <5>1, <5>2, <5>3, <5>4
      <4>2. IsFiniteSet(Gone)
        BY <4>1, MissingBetween
      <4>3. i \in Gone /\ j \in Gone /\ i # j
        BY <4>1, IdsAre
      <4> HIDE DEF Gone
      <4>4. PICK x : Gone = {x}
        BY <4>1, <4>2, FS_Singleton
      <4> QED BY <4>3, <4>4
    <3>8. ASSUME NEW j \in Ids \ (S \cup {i}), NEW k \in 1 .. n, In(q[k], Wire(j))
          PROVE  \E l \in 1 .. n - 1 : In(r[l], Wire(j))
      <4>1. k # h /\ k \in Int /\ h \in Int
        BY <2>1, <3>7, <3>8
      <4>2. CASE k < h
        <5>1. k \in 1 .. n - 1 /\ r[k] = q[k]
          BY <1>1, <2>1, <3>2, <4>2
        <5> QED BY <3>8, <5>1
      <4>3. CASE h < k
        <5>1. k - 1 \in 1 .. n - 1 /\ r[k - 1] = q[k]
          BY <1>1, <2>1, <3>2, <4>3
        <5> QED BY <3>8, <5>1
      <4> QED BY <4>1, <4>2, <4>3
    <3>9. Keeps
      BY <1>1, <3>2, <3>8, InGapsIs DEF n
    <3> QED BY <3>6, <3>9
  <2> QED BY <2>4, <2>5
<1> QED BY <1>3, <1>4

LEMMA ReadSheds ==
  ASSUME NEW S \in SUBSET Ids, NEW g, GapsOf(g, S), NEW t \in Nat
  PROVE  LET r == ReadAt(g, t).open IN
         SomeOf(r, g.open) /\ \A j \in Ids : InGaps(j, g.open) => InGaps(j, r)
<1> DEFINE q == g.open
           New(p) == IF p.nacked = 0 /\ t - p.since >= FirstNACK THEN [p EXCEPT !.nacked = t] ELSE p
           u == [k \in DOMAIN q |-> New(q[k])]
           r == ReadAt(g, t).open
<1>1. g \in Track /\ q \in Seq(Gap)
  BY DEF GapsOf, Track
<1>2. r = u
  <2>1. ReadAt(g, t) = [g EXCEPT !.prevRead = g.lastRead, !.lastRead = t, !.open = u]
    BY <1>1 DEF ReadAt, Track
  <2> HIDE DEF u
  <2> QED BY <1>1, <2>1 DEF Track
<1>3. ASSUME NEW p \in Gap
      PROVE  New(p).first = p.first /\ New(p).span = p.span /\ New(p).since = p.since
  BY DEF Gap
<1> HIDE DEF New, r
<1>4. DOMAIN q = 1 .. Len(q) /\ Len(q) \in Nat /\ \A k \in 1 .. Len(q) : q[k] \in Gap
  BY <1>1
<1>5. Len(u) = Len(q) /\ DOMAIN u = 1 .. Len(q) /\ \A k \in 1 .. Len(q) : u[k] = New(q[k])
  BY <1>4
<1> HIDE DEF u
<1>6. SomeOf(u, q)
  BY <1>3, <1>4, <1>5, AllAreSome
<1>7. ASSUME NEW j \in Ids, NEW k \in 1 .. Len(q), In(q[k], Wire(j)) PROVE In(u[k], Wire(j))
  BY <1>3, <1>4, <1>5, <1>7 DEF In
<1>8. \A j \in Ids : InGaps(j, q) => InGaps(j, u)
  BY <1>4, <1>5, <1>7 DEF InGaps
<1> QED BY <1>2, <1>6, <1>8 DEF r

\* due forgets the gaps opened by the time it takes as settled, and no other.
LEMMA UnsettledIs ==
  ASSUME NEW q \in Seq(Gap), NEW t \in Nat, NEW o, DatedOf(q, o)
  PROVE  LET u == Unsettled(q, t) IN
         /\ SomeOf(u, q)
         /\ \A k \in 1 .. Len(u) : u[k].since > t
         /\ \A j \in Ids : InGaps(j, q) /\ ~InGaps(j, u) =>
              \E k \in 1 .. Len(q) : In(q[k], Wire(j)) /\ q[k].since <= t
<1> DEFINE n == Len(q)
           after == {k \in DOMAIN q : q[k].since > t}
           u == Unsettled(q, t)
           Settles(j) == \E k \in 1 .. n : In(q[k], Wire(j)) /\ q[k].since <= t
<1>1. n \in Nat /\ DOMAIN q = 1 .. n /\ \A k \in 1 .. n : q[k].since \in Nat
  BY GapFields
<1>2. u = IF after = {} THEN <<>> ELSE SubSeq(q, Min(after), Len(q))
  BY DEF Unsettled
<1> SUFFICES /\ SomeOf(u, q) /\ \A k \in 1 .. Len(u) : u[k].since > t
             /\ \A j \in Ids : InGaps(j, q) /\ ~InGaps(j, u) => Settles(j)
  OBVIOUS
<1>3. \A k \in 1 .. n : k \notin after => q[k].since <= t
  BY <1>1
<1>4. after \in SUBSET Nat /\ \A k \in after : k \in 1 .. n /\ q[k].since > t
  BY <1>1
<1> HIDE DEF u, after
<1>5. CASE after = {}
  <2>1. u = <<>> /\ Len(u) = 0
    BY <1>2, <1>5
  <2>2. ASSUME NEW j \in Ids, InGaps(j, q) PROVE Settles(j)
    BY <1>3, <1>5, <2>2, InGapsIs
  <2> QED BY <2>1, <2>2, NoneAreSome
<1>6. CASE after # {}
  <2> DEFINE h == Min(after)
  <2>1. h \in after /\ \A k \in after : h <= k
    BY <1>4, <1>6, MinIs
  <2>2. u = SubSeq(q, h, Len(q))
    BY <1>2, <1>6
  <2> HIDE DEF h
  <2>3. h \in 1 .. n /\ h \in Int /\ h - 1 \in 0 .. Len(q) /\ (h - 1) + 1 = h
    BY <1>1, <1>4, <2>1
  <2>4. u \in Seq(Gap)
    BY <2>2, <2>3, RestIs
  <2>5. Len(u) = n - (h - 1)
    BY <2>2, <2>3, RestIs
  <2>6. \A k \in 1 .. n - (h - 1) : u[k] = q[(h - 1) + k]
    BY <2>2, <2>3, RestIs
  <2> DEFINE f == [k \in 1 .. Len(u) |-> (h - 1) + k]
  <2>7. f \in [1 .. Len(u) -> 1 .. Len(q)]
    BY <1>1, <2>3, <2>5
  <2>8. \A k, l \in 1 .. Len(u) : k < l => f[k] < f[l]
    BY <2>3
  <2>9. \A k \in 1 .. Len(u) : u[k] = q[f[k]]
    BY <2>5, <2>6
  <2> HIDE DEF f
  <2>10. SomeOf(u, q)
    BY <2>7, <2>8, <2>9 DEF SomeOf
  <2>11. ASSUME NEW k \in 1 .. Len(u) PROVE u[k].since > t
    <3>1. (h - 1) + k \in 1 .. n /\ u[k] = q[(h - 1) + k] /\ h <= (h - 1) + k
      BY <1>1, <2>3, <2>5, <2>6
    <3>2. q[h].since <= q[(h - 1) + k].since
      <4>1. CASE h = (h - 1) + k
        <5>1. q[h] = q[(h - 1) + k]
          BY <4>1
        <5> QED BY <1>1, <2>3, <5>1
      <4>2. CASE h < (h - 1) + k
        BY <2>3, <3>1, <4>2 DEF DatedOf
      <4> QED BY <2>3, <3>1, <4>1, <4>2
    <3>3. q[h].since > t
      BY <1>4, <2>1
    <3> QED BY <1>1, <2>3, <3>1, <3>2, <3>3
  <2>12. ASSUME NEW j \in Ids, InGaps(j, q), ~InGaps(j, u) PROVE Settles(j)
    <3>1. PICK k \in 1 .. n : In(q[k], Wire(j))
      BY <2>12, InGapsIs
    <3>2. k \notin after
      <4> SUFFICES ASSUME k \in after PROVE FALSE
        OBVIOUS
      <4>1. h <= k
        BY <2>1
      <4>2. k - (h - 1) \in 1 .. Len(u) /\ (h - 1) + (k - (h - 1)) = k
        BY <1>1, <2>3, <2>5, <4>1
      <4>3. u[k - (h - 1)] = q[k]
        BY <2>5, <2>6, <4>2
      <4> QED BY <2>4, <2>12, <3>1, <4>2, <4>3, InGapsIs
    <3> QED BY <1>3, <3>1, <3>2
  <2> QED BY <2>10, <2>11, <2>12
<1> QED BY <1>5, <1>6

\* When the packets at S have arrived, the packet i shows what is lost.
LostBefore(i, S) == IF S = {} THEN {} ELSE Max(S) + 1 .. i - 1
WithLost(o, i, S, t) == [j \in Ids |-> IF j \in LostBefore(i, S) THEN t ELSE o[j]]

LEMMA StillDated ==
  ASSUME NEW S \in SUBSET Ids, S # {}, NEW q, NEW m \in Ids, IsNewest(m, S), OpenOf(q, S, m),
         NEW o, DatedOf(q, o), NEW i \in Ids, NEW t
  PROVE  DatedOf(q, WithLost(o, i, S, t))
<1> DEFINE p == WithLost(o, i, S, t)
<1>1. m = Max(S)
  BY NewestIs, OneNewest
<1>2. ASSUME NEW k \in 1 .. Len(q) PROVE p[From(q[k])] = o[From(q[k])]
  <2>1. From(q[k]) \in Ids /\ From(q[k]) \in Int /\ From(q[k]) <= To(q[k]) /\ To(q[k]) < m
        /\ To(q[k]) \in Int
    BY GapIs
  <2>2. m \in Int /\ i \in Int
    BY IdsAre
  <2>3. From(q[k]) \notin LostBefore(i, S)
    BY <1>1, <2>1, <2>2 DEF LostBefore
  <2> QED BY <2>1, <2>3 DEF WithLost
<1> HIDE DEF p
<1>3. DatedOf(q, p)
  BY <1>2 DEF DatedOf
<1> QED BY <1>3 DEF p

LEMMA LongerSince ==
  ASSUME NEW gap \in Gap, NEW d, NEW s
  PROVE  Longer(gap, s, d).since = gap.since /\ Longer(gap, s, d).first = gap.first
BY DEF Gap, Longer

\* add: a new gap is as old as the packet that shows it, and what is missing in
\* one stays in one, unless a new stream begins.
LEMMA AddSheds ==
  ASSUME NEW S \in SUBSET Ids, NEW g, GapsOf(g, S), NEW i \in Ids, i \notin S,
         \A j \in S : j - i < WindowSize, NEW t \in Nat, t > 0,
         NEW o, DatedOf(g.open, o), \A k \in 1 .. Len(g.open) : g.open[k].since <= t
  PROVE  LET r == AddSeq(g, Wire(i), t).open IN
         /\ DatedOf(r, WithLost(o, i, S, t))
         /\ \A k \in 1 .. Len(r) :
              r[k].since = t \/ \E l \in 1 .. Len(g.open) : r[k].since = g.open[l].since
         /\ \A j \in Ids \ (S \cup {i}) :
              InGaps(j, g.open) => InGaps(j, r) \/ (S # {} /\ i - Max(S) >= ResetDistance)
<1> DEFINE p == AddSeq(g, Wire(i), t)
           r == p.open
           T == S \cup {i}
           dist == Serial(Wire(i), g.head)
           q == g.open
           n == Len(g.open)
           gap == [first |-> (g.head + 1) % SeqMod, span |-> dist - 2, missing |-> dist - 1,
                   since |-> t, nacked |-> 0]
           wide == [g EXCEPT !.head = Wire(i),
                             !.open[n].span = (Wire(i) - 1 - g.open[n].first) % SeqMod,
                             !.open[n].missing = @ + dist - 1]
           new == WithLost(o, i, S, t)
           Since == \A k \in 1 .. Len(r) :
                      r[k].since = t \/ \E l \in 1 .. Len(q) : r[k].since = q[l].since
           Keeps == \A j \in Ids \ T :
                      InGaps(j, q) => InGaps(j, r) \/ (S # {} /\ i - Max(S) >= ResetDistance)
<1>1. /\ g \in Track /\ q \in Seq(Gap) /\ n \in Nat /\ g.head \in Wires
      /\ g.started \in BOOLEAN /\ (g.started <=> S # {})
  BY DEF GapsOf, Track
<1>2. Wire(i) \in Wires /\ i \in Int
  BY WireIs
<1>3. T \in SUBSET Ids /\ i \in T
  OBVIOUS
<1>4. p = IF ~g.started \/ Jump(dist)
            THEN [g EXCEPT !.started = TRUE, !.head = Wire(i), !.open = <<>>]
          ELSE IF dist > 1 /\ n < MaxOpenGaps
            THEN [g EXCEPT !.head = Wire(i), !.open = Append(@, gap)]
          ELSE IF dist > 1 THEN wide
          ELSE IF dist = 1 THEN [g EXCEPT !.head = Wire(i)]
          ELSE [g EXCEPT !.open = Fill(@, Wire(i))]
  BY DEF AddSeq
<1>5. GapsOf(p, T)
  BY AddKeeps
<1> SUFFICES DatedOf(r, new) /\ Since /\ Keeps
  OBVIOUS
<1> HIDE DEF p, gap, wide, n, T
<1>6. CASE S = {}
  <2>1. p = [g EXCEPT !.started = TRUE, !.head = Wire(i), !.open = <<>>]
    BY <1>1, <1>4, <1>6
  <2>2. r = <<>>
    BY <1>1, <1>2, <2>1, NewGaps
  <2>3. q = <<>>
    BY <1>6 DEF GapsOf
  <2>4. ASSUME NEW j \in Ids PROVE ~InGaps(j, q)
    BY <2>3, NothingIn
  <2>5. Len(r) = 0
    BY <2>2
  <2> HIDE DEF r, q
  <2> QED BY <2>4, <2>5 DEF DatedOf
<1>7. CASE S # {}
  <2>1. PICK m \in Ids : IsNewest(m, S)
    BY <1>7, NewestIs
  <2>2. g.head = Wire(m) /\ OpenOf(q, S, m) /\ g.started
    BY <1>1, <1>7, <2>1 DEF GapsOf
  <2>3. dist = i - m
    BY <2>2, SerialIs
  <2> HIDE DEF dist
  <2>4. /\ m \in Int /\ m \in S /\ m # i /\ m - i < WindowSize /\ m = Max(S)
        /\ \A j \in S : j \in Int /\ j <= m
    BY <1>7, <2>1, IdsAre, NewestIs, OneNewest DEF IsNewest
  <2>5. WindowSize \in Int /\ ResetDistance \in Int /\ WindowSize <= ResetDistance
        /\ MaxOpenGaps \in Int /\ MaxOpenGaps > 0
    BY Sizes
  <2>6. Jump(dist) <=> i - m >= ResetDistance
    BY <1>2, <2>3, <2>4, <2>5 DEF Jump
  <2>7. DatedOf(q, new)
    BY <1>7, <2>1, <2>2, StillDated
  \* It is enough that the list has some of the gaps.
  <2>8. ASSUME SomeOf(r, q), \A j \in Ids \ T : InGaps(j, q) => InGaps(j, r)
        PROVE  DatedOf(r, new) /\ Since /\ Keeps
    <3> HIDE DEF r, q, new
    <3>1. DatedOf(r, new) /\ \A k \in 1 .. Len(r) : \E l \in 1 .. Len(q) : r[k].since = q[l].since
      BY <2>7, <2>8, SomeOfDated
    <3> QED BY <2>8, <3>1
  <2>9. ASSUME i > m PROVE IsNewest(i, T) /\ OpenOf(r, T, i) /\ r \in Seq(Gap)
    <3>1. IsNewest(i, T)
      BY <1>2, <2>4, <2>9 DEF IsNewest, T
    <3> QED BY <1>3, <1>5, <3>1 DEF GapsOf
  <2>10. CASE Jump(dist)
    <3>1. p = [g EXCEPT !.started = TRUE, !.head = Wire(i), !.open = <<>>]
      BY <1>4, <2>10
    <3>2. r = <<>>
      BY <1>1, <1>2, <3>1, NewGaps
    <3>3. i - Max(S) >= ResetDistance
      BY <2>4, <2>6, <2>10
    <3>4. Len(r) = 0
      BY <3>2
    <3> HIDE DEF r
    <3> QED BY <1>7, <3>3, <3>4 DEF DatedOf
  <2>11. CASE ~Jump(dist) /\ dist > 1 /\ n < MaxOpenGaps
    <3>1. p = [g EXCEPT !.head = Wire(i), !.open = Append(@, gap)]
      BY <1>4, <2>2, <2>11
    <3>2. r = Append(q, gap)
      BY <1>1, <3>1 DEF Track
    <3>3. i > m /\ i - m > 1
      BY <1>2, <2>3, <2>4, <2>11
    <3>4. Len(r) = n + 1 /\ r[n + 1] = gap /\ \A k \in 1 .. n : r[k] = q[k]
      BY <1>1, <3>2 DEF n
    <3>5. gap.since = t /\ gap.first = Wire(m + 1) /\ m + 1 \in Ids
      <4>1. m + 1 \in Ids
        BY <1>2, <2>4, <3>3, Sizes, IdsAre DEF Ids
      <4>2. Wire(m + 1) = (Wire(m) + 1) % SeqMod
        BY <4>1, NextNumberIs
      <4>3. gap.first = (g.head + 1) % SeqMod /\ gap.since = t
        BY DEF gap
      <4> QED BY <2>2, <4>1, <4>2, <4>3
    <3>6. new[From(gap)] = t
      <4>1. From(gap) = m + 1
        BY <3>5, PlaceIs DEF From
      <4>2. m + 1 \in LostBefore(i, S)
        BY <1>2, <1>7, <2>4, <3>3 DEF LostBefore
      <4> QED BY <3>5, <4>1, <4>2 DEF WithLost
    <3> HIDE DEF r, q, new
    <3>7. Since
      <4>1. ASSUME NEW k \in 1 .. n + 1
            PROVE  r[k].since = t \/ \E l \in 1 .. n : r[k].since = q[l].since
        BY <1>1, <3>4, <3>5
      <4> QED BY <3>4, <4>1 DEF n, q
    <3>8. DatedOf(r, new)
      <4>1. ASSUME NEW k \in 1 .. n + 1
            PROVE  /\ r[k].since = new[From(r[k])] /\ r[k].since > 0
                   /\ \A l \in 1 .. n + 1 : k < l => r[k].since <= r[l].since
        <5>1. CASE k \in 1 .. n
          <6>1. r[k] = q[k] /\ q[k].since = new[From(q[k])] /\ q[k].since > 0 /\ q[k].since <= t
            BY <2>7, <3>4, <5>1 DEF DatedOf, n, q
          <6>2. ASSUME NEW l \in 1 .. n + 1, k < l PROVE r[k].since <= r[l].since
            <7>1. CASE l = n + 1
              BY <3>4, <3>5, <6>1, <7>1
            <7>2. CASE l # n + 1
              <8>1. l \in 1 .. n
                BY <1>1, <7>2
              <8>2. r[l] = q[l] /\ q[k].since <= q[l].since
                BY <2>7, <3>4, <5>1, <6>2, <8>1 DEF DatedOf, n, q
              <8> QED BY <6>1, <8>2
            <7> QED BY <7>1, <7>2
          <6> QED BY <6>1, <6>2
        <5>2. CASE k = n + 1
          <6>1. r[k] = gap
            BY <3>4, <5>2
          <6>2. \A l \in 1 .. n + 1 : ~(k < l)
            BY <1>1, <5>2
          <6> QED BY <3>5, <3>6, <6>1, <6>2
        <5> QED BY <1>1, <5>1, <5>2
      <4> QED BY <3>4, <4>1 DEF DatedOf
    <3>9. ASSUME NEW j \in Ids \ T, InGaps(j, q) PROVE InGaps(j, r)
      <4>1. PICK k \in 1 .. n : In(q[k], Wire(j))
        BY <1>1, <3>9, InGapsIs DEF n, q
      <4>2. k \in 1 .. Len(r) /\ r[k] = q[k] /\ r \in Seq(Gap)
        BY <1>1, <2>9, <3>3, <3>4, <4>1
      <4> QED BY <4>1, <4>2, InGapsIs
    <3> QED BY <3>7, <3>8, <3>9
  <2>12. CASE ~Jump(dist) /\ dist > 1 /\ ~(n < MaxOpenGaps)
    <3>1. p = wide
      BY <1>4, <2>2, <2>12
    <3>2. n > 0 /\ n \in 1 .. n
      BY <1>1, <2>5, <2>12
    <3> DEFINE x == Wire(i) - 1 - g.open[n].first
               span == x % SeqMod
    <3>3. q[n] \in Gap /\ q[n].first \in Int
      <4>1. q[n] \in Gap
        BY <1>1, <3>2 DEF n
      <4> QED BY <4>1, GapFields
    <3>4. Wire(i) \in Int
      BY <1>2, WiresAre
    <3>5. x \in Int
      BY <3>3, <3>4 DEF q
    <3> HIDE DEF x
    <3>6. span \in Nat
      BY <3>5, Sizes, DivMod
    <3>7. p = WithLonger(g, n, Wire(i), span, dist)
      BY <3>1 DEF wide, span, x, n, WithLonger
    <3> HIDE DEF span
    <3>8. dist \in Int /\ dist > 1 /\ n \in 1 .. Len(g.open)
      BY <1>2, <2>3, <2>4, <2>12, <3>2 DEF n
    <3>9. Len(p.open) = Len(g.open)
      BY <1>1, <1>2, <3>6, <3>7, <3>8, LongerGaps
    <3>10. \A k \in 1 .. Len(g.open) : k # n => p.open[k] = g.open[k]
      BY <1>1, <1>2, <3>6, <3>7, <3>8, LongerGaps
    <3>11. p.open[n] = Longer(g.open[n], span, dist)
      BY <1>1, <1>2, <3>6, <3>7, <3>8, LongerGaps
    <3>12. \A k \in 1 .. Len(q) : r[k].first = q[k].first /\ r[k].since = q[k].since
      <4>1. r[n].first = q[n].first /\ r[n].since = q[n].since
        BY <3>3, <3>11, LongerSince DEF q, r
      <4> QED BY <3>10, <4>1
    <3> HIDE DEF r, q
    <3>13. Len(r) = Len(q) /\ Len(r) > 0 /\ 1 \in 1 .. Len(q)
      BY <1>1, <3>2, <3>9 DEF r, q, n
    <3>14. SomeOf(r, q)
      BY <3>12, <3>13, AllAreSome
    <3>15. m <= i /\ i > m
      BY <1>2, <2>3, <2>4, <2>12
    <3>16. ASSUME NEW j \in Ids \ T, InGaps(j, q) PROVE InGaps(j, r)
      <4>1. r[1].first = q[1].first
        BY <3>12, <3>13
      <4> QED BY <1>3, <2>2, <2>9, <3>13, <3>15, <3>16, <4>1, StillIn
    <3> QED BY <2>8, <3>14, <3>16
  <2>13. CASE ~Jump(dist) /\ dist = 1
    <3>1. p = [g EXCEPT !.head = Wire(i)]
      BY <1>4, <2>2, <2>13
    <3>2. r = q
      BY <1>1, <3>1 DEF Track
    <3> HIDE DEF r, q
    <3>3. SomeOf(r, q)
      BY <3>2, AllAreSome
    <3> QED BY <2>8, <3>2, <3>3
  <2>14. CASE ~Jump(dist) /\ ~(dist > 1) /\ dist # 1
    <3>1. p = [g EXCEPT !.open = Fill(@, Wire(i))]
      BY <1>4, <2>2, <2>14
    <3>2. r = Fill(q, Wire(i))
      BY <1>1, <3>1 DEF Track
    <3> HIDE DEF r, q
    <3>3. SomeOf(r, q) /\ \A j \in Ids \ T : InGaps(j, q) => InGaps(j, r)
      BY <2>2, <3>2, FillSheds DEF T
    <3> QED BY <2>8, <3>3
  <2>15. dist \in Int
    BY <1>2, <2>3, <2>4
  <2> QED BY <2>10, <2>11, <2>12, <2>13, <2>14, <2>15
<1> QED BY <1>6, <1>7

\* Gaps and key frames are dated by the clock.
Dated ==
  /\ DatedOf(gaps.open, opened)
  /\ keyAt <= now /\ \A j \in Ids : opened[j] <= now

\* What a report settles: a gap that was open before it is still open only until
\* the next push is over, and only that push can have brought a loss or a key
\* frame since, the key frame after what was lost.
Answered ==
  (\E k \in 1 .. Len(gaps.open) : gaps.open[k].since <= loss.last) =>
    \A j \in Ids :
      IF At("due")
        THEN \/ opened[j] <= loss.last \/ keyAt <= loss.last
             \/ keyframe.has /\ SeqNewer(keyframe.seq, Wire(j))
        ELSE opened[j] <= loss.last /\ keyAt <= loss.last

\* What gapDue has read: the last report, but for one made meanwhile, or what
\* is past its latency.
SettledAt ==
  At("due") =>
    /\ reader.settled <= loss.last \/ reader.settled <= now - Latency
    /\ loss.last <= reader.settled \/ loss.last = now

Timed == Dated /\ Answered /\ SettledAt

LEMMA FirstIsTimed == Init => Timed
<1> SUFFICES ASSUME Init PROVE Timed
  OBVIOUS
<1>1. /\ gaps.open = <<>> /\ now = 1 /\ keyAt = 0 /\ opened = [j \in Ids |-> 0]
      /\ reader.at = "reading"
  BY DEF Init
<1>2. \A k \in 1 .. Len(gaps.open) : FALSE
  BY <1>1
<1>3. \A j \in Ids : opened[j] <= now
  BY <1>1
<1>4. ~At("due")
  BY <1>1 DEF At
<1> QED BY <1>1, <1>2, <1>3, <1>4 DEF Timed, Dated, DatedOf, Answered, SettledAt

\* What the proofs need of the types.
LEMMA TimesAre ==
  ASSUME Types
  PROVE  /\ now \in Nat /\ now > 0 /\ keyAt \in Nat /\ opened \in [Ids -> Nat]
         /\ loss.last \in Nat /\ asked \in Nat /\ reader.settled \in Nat
         /\ gaps.open \in Seq(Gap) /\ Len(gaps.open) \in Nat
         /\ \A k \in 1 .. Len(gaps.open) : gaps.open[k].since \in Nat
         /\ \A j \in Ids : opened[j] \in Nat
<1>1. /\ now \in Nat /\ now > 0 /\ keyAt \in Nat /\ opened \in [Ids -> Nat]
      /\ loss.last \in Nat /\ asked \in Nat /\ reader.settled \in Nat
  BY DEF Types
<1>2. gaps.open \in Seq(Gap)
  BY DEF Types, Track
<1>3. \A k \in 1 .. Len(gaps.open) : gaps.open[k].since \in Nat
  BY <1>2, GapFields
<1> QED BY <1>1, <1>2, <1>3

\* With a report, everything is from before it.
LEMMA ReportAnswers ==
  ASSUME Types, Dated, loss.last = now
  PROVE  Answered
<1>1. \A j \in Ids : opened[j] <= loss.last /\ keyAt <= loss.last
  BY DEF Dated
<1> QED BY <1>1 DEF Answered

LEMMA StillTimed ==
  ASSUME Timed, UNCHANGED <<now, gaps, opened, keyAt, keyframe, loss, reader>>
  PROVE  Timed'
BY DEF Timed, Dated, DatedOf, Answered, SettledAt, At

LEMMA SinceIs ==
  ASSUME IInv, Dated
  PROVE  \A k \in 1 .. Len(gaps.open) : gaps.open[k].since <= now
<1>1. GapsOf(gaps, Arrived) /\ Arrived \in SUBSET Ids
  BY DEF IInv, Tracked, Arrived
<1> SUFFICES ASSUME NEW k \in 1 .. Len(gaps.open) PROVE gaps.open[k].since <= now
  OBVIOUS
<1>2. Arrived # {}
  <2> SUFFICES ASSUME Arrived = {} PROVE FALSE
    OBVIOUS
  <2>1. gaps.open = <<>>
    BY <1>1 DEF GapsOf
  <2> QED BY <2>1
<1>3. PICK m \in Ids : IsNewest(m, Arrived)
  BY <1>1, <1>2, NewestIs
<1>4. OpenOf(gaps.open, Arrived, m)
  BY <1>1, <1>3 DEF GapsOf
<1>5. From(gaps.open[k]) \in Ids
  BY <1>1, <1>4, GapIs
<1> QED BY <1>5 DEF Dated, DatedOf

LEMMA UsedIs ==
  ASSUME NEW b, Use(b)
  PROVE  loss'.last = now \/ loss' = loss
<1>1. CASE Report(FALSE)
  BY <1>1 DEF Report
<1>2. CASE UNCHANGED <<loss, asked>>
  BY <1>2
<1> QED BY <1>1, <1>2, Zenon DEF Use

\* What a push does to the gaps.
LEMMA PushSheds ==
  ASSUME IInv, Dated, NEW i \in Ids, Push(i)
  PROVE  /\ Arrived \in SUBSET Ids /\ Arrived' = Arrived \cup {i}
         /\ opened' = WithLost(opened, i, Arrived, now)
         /\ DatedOf(gaps'.open, opened')
         /\ \A k \in 1 .. Len(gaps'.open) :
              \/ gaps'.open[k].since = now
              \/ \E l \in 1 .. Len(gaps.open) : gaps'.open[k].since = gaps.open[l].since
         /\ \A j \in Ids \ Arrived' :
              InGaps(j, gaps.open) => InGaps(j, gaps'.open) \/ NewStream
<1> DEFINE S == Arrived
           check == Duplicate(seen, Wire(i))
           read == ReadAt(gaps, now)
<1>1. Types /\ WindowOf(seen, S) /\ GapsOf(gaps, S)
  BY TypesAre DEF IInv, Tracked
<1>2. copies \in [Ids -> 0 .. 2] /\ now \in Nat /\ now > 0 /\ seen \in Window
  BY <1>1 DEF Types
<1>3. /\ copies' = [copies EXCEPT ![i] = @ + 1]
      /\ \A j \in S : j - i < WindowSize
      /\ check.yes => gaps' = read
      /\ ~check.yes => gaps' = AddSeq(read, Wire(i), now)
  BY DEF Push
<1>4. opened' = WithLost(opened, i, S, now)
  BY DEF Push, WithLost, LostBefore
<1>5. S \in SUBSET Ids /\ Arrived' = S \cup {i}
  <2>1. copies' \in [Ids -> Nat] /\ copies'[i] > 0 /\ \A j \in Ids : j # i => copies'[j] = copies[j]
    BY <1>2, <1>3
  <2>2. Arrived' = {j \in Ids : copies'[j] > 0}
    BY DEF Arrived
  <2> QED BY <2>1, <2>2 DEF Arrived
<1> HIDE DEF check, read
<1>6. check.yes <=> i \in S
  BY <1>1, <1>2, <1>3, <1>5, WindowStep DEF check
<1> HIDE DEF S
<1>7. GapsOf(read, S)
  BY <1>1, <1>2, <1>5, ReadKeeps DEF read
<1>8. SomeOf(read.open, gaps.open) /\ \A j \in Ids : InGaps(j, gaps.open) => InGaps(j, read.open)
  BY <1>1, <1>2, <1>5, ReadSheds DEF read
<1>9. DatedOf(gaps.open, opened) /\ \A k \in 1 .. Len(gaps.open) : gaps.open[k].since <= now
  BY SinceIs DEF Dated
<1>10. /\ DatedOf(read.open, opened)
       /\ \A k \in 1 .. Len(read.open) :
            \E l \in 1 .. Len(gaps.open) : read.open[k].since = gaps.open[l].since
  BY <1>8, <1>9, SomeOfDated
<1>11. CASE i \in S
  <2>1. gaps' = read /\ S # {}
    BY <1>3, <1>6, <1>11
  <2>2. PICK m \in Ids : IsNewest(m, S)
    BY <1>5, <2>1, NewestIs
  <2>3. OpenOf(read.open, S, m)
    BY <1>7, <2>2 DEF GapsOf
  <2>4. DatedOf(read.open, WithLost(opened, i, S, now))
    BY <1>5, <1>10, <2>1, <2>2, <2>3, StillDated
  <2> QED BY <1>4, <1>5, <1>8, <1>10, <2>1, <2>4 DEF S
<1>12. CASE i \notin S
  <2> DEFINE r == AddSeq(read, Wire(i), now).open
  <2>1. gaps'.open = r
    BY <1>3, <1>6, <1>12
  <2>2. \A k \in 1 .. Len(read.open) : read.open[k].since <= now
    BY <1>9, <1>10
  <2>3. /\ DatedOf(r, WithLost(opened, i, S, now))
        /\ \A k \in 1 .. Len(r) :
             r[k].since = now \/ \E l \in 1 .. Len(read.open) : r[k].since = read.open[l].since
        /\ \A j \in Ids \ (S \cup {i}) :
             InGaps(j, read.open) => InGaps(j, r) \/ (S # {} /\ i - Max(S) >= ResetDistance)
    BY <1>2, <1>3, <1>5, <1>7, <1>10, <1>12, <2>2, AddSheds
  <2> HIDE DEF r
  <2>4. \A k \in 1 .. Len(r) :
          r[k].since = now \/ \E l \in 1 .. Len(gaps.open) : r[k].since = gaps.open[l].since
    BY <1>10, <2>3
  <2>5. i - Max(S) >= ResetDistance => NewStream
    BY <1>5 DEF NewStream, S
  <2>6. \A j \in Ids \ (S \cup {i}) : InGaps(j, gaps.open) => InGaps(j, r) \/ NewStream
    BY <1>8, <2>3, <2>5
  <2> QED BY <1>4, <1>5, <2>1, <2>3, <2>4, <2>6 DEF S
<1> QED BY <1>11, <1>12

LEMMA PushTimed ==
  ASSUME IInv, Timed, NEW i \in Ids, Push(i)
  PROVE  Timed'
<1> DEFINE newKey == Stream[i].key /\ (~keyframe.has \/ SeqNewer(Wire(i), keyframe.seq))
<1>1. /\ Types /\ Types' /\ loss.last = asked /\ asked <= now
  BY PushStep, TypesAre, TypesNext DEF IInv, Reported
<1>2. /\ now \in Nat /\ keyAt \in Nat /\ loss.last \in Nat /\ loss'.last \in Nat
      /\ opened \in [Ids -> Nat] /\ opened' \in [Ids -> Nat] /\ keyAt' \in Nat
  BY <1>1 DEF Types
<1>3. /\ Arrived \in SUBSET Ids
      /\ opened' = WithLost(opened, i, Arrived, now)
      /\ DatedOf(gaps'.open, opened')
      /\ \A k \in 1 .. Len(gaps'.open) :
           \/ gaps'.open[k].since = now
           \/ \E l \in 1 .. Len(gaps.open) : gaps'.open[k].since = gaps.open[l].since
  BY PushSheds DEF Timed
<1>4. /\ At("reading") /\ now' = now /\ reader' = [at |-> "due", settled |-> Settled(loss')]
      /\ \/ keyAt' = keyAt
         \/ keyAt' = now /\ keyframe' = [has |-> TRUE, seq |-> Wire(i)]
      /\ loss'.last = now \/ loss' = loss
  <2> DEFINE b == JB!PushAt(jb, Packet(i), now)
             yes == Duplicate(seen, Wire(i)).yes
  <2>1. /\ At("reading") /\ now' = now /\ reader' = [at |-> "due", settled |-> Settled(loss')]
        /\ yes => UNCHANGED <<keyAt, loss>>
        /\ ~yes => /\ keyframe' = IF newKey THEN [has |-> TRUE, seq |-> Wire(i)] ELSE keyframe
                   /\ keyAt' = IF newKey THEN now ELSE keyAt
                   /\ Use(b)
    BY DEF Push, bufferVars
  <2> HIDE DEF b, yes, newKey
  <2> QED BY <2>1, UsedIs
<1>5. \A j \in Ids : opened'[j] = IF j \in LostBefore(i, Arrived) THEN now ELSE opened[j]
  BY <1>3 DEF WithLost
<1>6. keyAt' <= now' /\ \A j \in Ids : opened'[j] <= now'
  BY <1>2, <1>4, <1>5 DEF Timed, Dated
<1>7. Dated'
  BY <1>3, <1>6 DEF Dated
<1>8. At("due")'
  BY <1>4 DEF At
<1>9. Answered'
  <2>1. CASE loss'.last = now
    <3>1. \A j \in Ids : opened'[j] <= loss'.last
      BY <1>4, <1>6, <2>1
    <3> QED BY <1>8, <3>1 DEF Answered
  <2>2. CASE loss' = loss /\ loss.last # now
    <3> SUFFICES ASSUME NEW k \in 1 .. Len(gaps'.open), gaps'.open[k].since <= loss'.last,
                        NEW j \in Ids
                 PROVE  \/ opened'[j] <= loss'.last \/ keyAt' <= loss'.last
                        \/ keyframe'.has /\ SeqNewer(keyframe'.seq, Wire(j))
      BY <1>8 DEF Answered
    <3>1. \E l \in 1 .. Len(gaps.open) : gaps.open[l].since <= loss.last
      <4>1. gaps'.open[k].since # now
        BY <1>1, <1>2, <2>2
      <4> QED BY <1>3, <2>2, <4>1
    <3>2. opened[j] <= loss.last /\ keyAt <= loss.last
      <4>1. ~At("due")
        BY <1>4 DEF At
      <4> QED BY <3>1, <4>1 DEF Timed, Answered
    <3>3. CASE j \notin LostBefore(i, Arrived)
      BY <1>5, <2>2, <3>2, <3>3
    <3>4. CASE keyAt' = keyAt
      BY <2>2, <3>2, <3>4
    <3>5. CASE j \in LostBefore(i, Arrived) /\ keyframe' = [has |-> TRUE, seq |-> Wire(i)]
      <4>1. j < i
        <5>1. Arrived # {} /\ j \in Max(Arrived) + 1 .. i - 1
          BY <3>5 DEF LostBefore
        <5>2. Max(Arrived) \in Int /\ i \in Int /\ j \in Int
          BY <1>3, <5>1, NewestIs, IdsAre
        <5> QED BY <5>1, <5>2
      <4>2. Serial(Wire(i), Wire(j)) > 0
        BY <4>1, SerialIs, IdsAre
      <4> QED BY <3>5, <4>2 DEF SeqNewer
    <3> QED BY <1>4, <3>3, <3>4, <3>5
  <2> QED BY <1>4, <2>1, <2>2
<1>10. SettledAt'
  <2>1. reader'.settled = Max({loss'.last, now - Latency})
    BY <1>4 DEF Settled
  <2>2. loss'.last \in Int /\ now - Latency \in Int
    BY <1>2, Delays
  <2>3. reader'.settled = IF loss'.last >= now - Latency THEN loss'.last ELSE now - Latency
    BY <2>1, <2>2, MaxOfTwo
  <2> QED BY <1>4, <2>2, <2>3 DEF SettledAt
<1> QED BY <1>7, <1>9, <1>10 DEF Timed

\* What gapDue forgets was settled.
LEMMA GapDueSheds ==
  ASSUME IInv, Timed, GapDue
  PROVE  /\ Arrived \in SUBSET Ids
         /\ DatedOf(gaps'.open, opened)
         /\ \A k \in 1 .. Len(gaps'.open) : gaps'.open[k].since > reader.settled
         /\ \A k \in 1 .. Len(gaps'.open) :
              \E l \in 1 .. Len(gaps.open) : gaps'.open[k].since = gaps.open[l].since
         /\ \A j \in Ids : InGaps(j, gaps.open) /\ ~InGaps(j, gaps'.open) =>
              \E k \in 1 .. Len(gaps.open) :
                In(gaps.open[k], Wire(j)) /\ gaps.open[k].since <= reader.settled
<1> DEFINE u == Unsettled(gaps.open, reader.settled)
<1>1. Types /\ GapsOf(gaps, Arrived) /\ Arrived \in SUBSET Ids
  BY TypesAre DEF IInv, Tracked, Arrived
<1>2. /\ gaps \in Track /\ gaps.open \in Seq(Gap) /\ reader.settled \in Nat
      /\ DatedOf(gaps.open, opened)
  BY <1>1 DEF Types, Track, Timed, Dated
<1>3. gaps' = [gaps EXCEPT !.open = u]
  BY DEF GapDue
<1>4. gaps'.open = u
  BY <1>2, <1>3 DEF Track
<1> HIDE DEF u
<1>5. /\ SomeOf(u, gaps.open)
      /\ \A k \in 1 .. Len(u) : u[k].since > reader.settled
      /\ \A j \in Ids : InGaps(j, gaps.open) /\ ~InGaps(j, u) =>
           \E k \in 1 .. Len(gaps.open) :
             In(gaps.open[k], Wire(j)) /\ gaps.open[k].since <= reader.settled
  BY <1>2, UnsettledIs DEF u
<1>6. /\ DatedOf(u, opened)
      /\ \A k \in 1 .. Len(u) : \E l \in 1 .. Len(gaps.open) : u[k].since = gaps.open[l].since
  BY <1>2, <1>5, SomeOfDated
<1> QED BY <1>1, <1>4, <1>5, <1>6

LEMMA GapDueTimed ==
  ASSUME IInv, Timed, GapDue
  PROVE  Timed'
<1>1. Types /\ loss.last = asked /\ asked <= now
  BY TypesAre DEF IInv, Reported
<1>2. /\ now \in Nat /\ keyAt \in Nat /\ loss.last \in Nat /\ reader.settled \in Nat
      /\ opened \in [Ids -> Nat]
  BY <1>1 DEF Types
<1>3. /\ DatedOf(gaps'.open, opened)
      /\ \A k \in 1 .. Len(gaps'.open) : gaps'.open[k].since > reader.settled
      /\ \A k \in 1 .. Len(gaps'.open) :
           \E l \in 1 .. Len(gaps.open) : gaps'.open[k].since = gaps.open[l].since
  BY GapDueSheds
<1>4. /\ At("due") /\ UNCHANGED <<now, opened, keyAt, keyframe>> /\ reader'.at = "take"
      /\ loss'.last = now \/ loss' = loss
  <2>1. Report(TRUE) => loss'.last = now
    BY DEF Report
  <2>2. /\ At("due") /\ UNCHANGED <<now, opened, keyAt, keyframe>>
        /\ reader' = [at |-> "take", settled |-> 0]
        /\ Report(TRUE) \/ UNCHANGED <<loss, asked>>
    BY Zenon DEF GapDue
  <2> QED BY <2>1, <2>2
<1>5. \A j \in Ids : opened[j] <= now /\ keyAt <= now
  BY DEF Timed, Dated
<1>6. Dated'
  <2>1. DatedOf(gaps'.open, opened')
    BY <1>3, <1>4
  <2>2. keyAt' <= now' /\ \A j \in Ids : opened'[j] <= now'
    BY <1>4 DEF Timed, Dated
  <2> QED BY <2>1, <2>2 DEF Dated
<1>7. ~At("due")'
  BY <1>4 DEF At
<1>8. Answered'
  <2>1. CASE loss'.last = now
    BY <1>4, <1>5, <2>1 DEF Answered
  <2>2. CASE loss' = loss /\ loss.last # now
    <3>1. loss.last <= reader.settled
      BY <1>4, <2>2 DEF Timed, SettledAt
    <3>2. ASSUME NEW k \in 1 .. Len(gaps'.open), gaps'.open[k].since <= loss.last PROVE FALSE
      <4>1. gaps'.open[k].since > reader.settled
        BY <1>3
      <4>2. gaps'.open[k].since \in Nat
        BY <1>1, <1>3, TimesAre
      <4> QED BY <1>2, <3>1, <3>2, <4>1, <4>2
    <3> QED BY <2>2, <3>2 DEF Answered
  <2> QED BY <1>4, <2>1, <2>2
<1>9. SettledAt'
  BY <1>7 DEF SettledAt
<1> QED BY <1>6, <1>8, <1>9 DEF Timed

\* The timer may report, and leaves all else that is dated.
LEMMA ExpireTimed ==
  ASSUME IInv, Timed, Expire
  PROVE  Timed'
<1>1. Types /\ loss.last = asked /\ asked <= now
  BY TypesAre DEF IInv, Reported
<1>2. now \in Nat /\ reader.settled \in Nat /\ loss.last \in Nat
  BY <1>1 DEF Types
<1>3. /\ UNCHANGED <<now, gaps, opened, keyAt, keyframe, reader>>
      /\ loss'.last = now \/ loss' = loss
  <2>1. /\ UNCHANGED <<now, seen, gaps, keyframe, copies, opened, keyAt, reader>>
        /\ Use(JB!PopReady(jb, now))
    BY DEF Expire, pushVars
  <2> QED BY <2>1, UsedIs
<1>4. CASE loss' = loss
  BY <1>3, <1>4, StillTimed
<1>5. CASE loss'.last = now
  <2>1. Dated'
    BY <1>3 DEF Timed, Dated, DatedOf
  <2>2. \A j \in Ids : opened'[j] <= loss'.last /\ keyAt' <= loss'.last
    BY <1>3, <1>5 DEF Timed, Dated
  <2>3. Answered'
    BY <2>2 DEF Answered
  <2>4. SettledAt'
    <3> SUFFICES ASSUME At("due")'
                 PROVE  /\ reader'.settled <= loss'.last \/ reader'.settled <= now' - Latency
                        /\ loss'.last <= reader'.settled \/ loss'.last = now'
      BY DEF SettledAt
    <3>1. At("due")
      BY <1>3 DEF At
    <3>2. reader.settled <= loss.last \/ reader.settled <= now - Latency
      BY <3>1 DEF Timed, SettledAt
    <3> QED BY <1>1, <1>2, <1>3, <1>5, <3>2
  <2> QED BY <2>1, <2>3, <2>4 DEF Timed
<1> QED BY <1>3, <1>4, <1>5

LEMMA TickTimed ==
  ASSUME IInv, Timed, Tick
  PROVE  Timed'
<1>1. Types
  BY TypesAre DEF IInv
<1>2. now \in Nat /\ keyAt \in Nat /\ opened \in [Ids -> Nat]
  BY <1>1 DEF Types
<1>3. /\ At("reading") /\ now' = now + 1
      /\ UNCHANGED <<gaps, opened, keyAt, keyframe, loss, reader>>
  BY DEF Tick, pushVars, bufferVars
<1>4. now <= now'
  BY <1>2, <1>3
<1>5. keyAt' <= now' /\ \A j \in Ids : opened'[j] <= now'
  BY <1>2, <1>3, <1>4 DEF Timed, Dated
<1>6. Dated'
  BY <1>3, <1>5 DEF Timed, Dated, DatedOf
<1>7. ~At("due") /\ ~At("due")'
  BY <1>3 DEF At
<1>8. Answered'
  BY <1>3, <1>7 DEF Timed, Answered
<1> QED BY <1>6, <1>7, <1>8 DEF Timed, SettledAt

\* The reader goes on.
LEMMA GoesTimed ==
  ASSUME Timed, UNCHANGED <<now, gaps, opened, keyAt, keyframe, loss>>, ~At("due"), ~At("due")'
  PROVE  Timed'
BY DEF Timed, Dated, DatedOf, Answered, SettledAt

LEMMA NextTimed == IInv /\ Timed /\ [Next]_vars => Timed'
<1> SUFFICES ASSUME IInv, Timed, [Next]_vars PROVE Timed'
  OBVIOUS
<1>1. reader \in [at : {"reading", "due", "take", "flush", "over"}, settled : Nat]
  BY TypesAre DEF IInv, Types
<1>2. CASE \E i \in Ids : Push(i)
  BY <1>2, PushTimed
<1>3. CASE GapDue
  BY <1>3, GapDueTimed
<1>4. CASE TakeReady
  BY <1>1, <1>4, GoesTimed DEF TakeReady, Goes, At, pushVars
<1>5. CASE EndTrack
  BY <1>1, <1>5, GoesTimed DEF EndTrack, Goes, At, pushVars, bufferVars
<1>6. CASE Flush
  BY <1>1, <1>6, GoesTimed DEF Flush, Goes, At, pushVars
<1>7. CASE Expire
  BY <1>7, ExpireTimed
<1>8. CASE Tick
  BY <1>8, TickTimed
<1>9. CASE UNCHANGED vars
  BY <1>9, StillTimed DEF vars, pushVars, bufferVars
<1> QED BY <1>2, <1>3, <1>4, <1>5, <1>6, <1>7, <1>8, <1>9 DEF Next

LEMMA TimedInductive == Spec => [](IInv /\ Timed)
<1>1. Init => IInv /\ Timed
  BY FirstIs, FirstIsTimed
<1>2. IInv /\ Timed /\ [Next]_vars => IInv' /\ Timed'
  BY NextKeeps, NextTimed
<1> QED BY <1>1, <1>2, PTL DEF Spec

\* A gap forgotten at due was answered, or is past its latency.
LEMMA SettledIsCovered ==
  ASSUME IInv, Timed, At("due"), NEW j \in Ids, NEW k \in 1 .. Len(gaps.open),
         In(gaps.open[k], Wire(j)), gaps.open[k].since <= reader.settled
  PROVE  \/ keyframe.has /\ SeqNewer(keyframe.seq, Wire(j))
         \/ asked >= opened[j]
         \/ asked > 0 /\ keyAt <= asked
         \/ OpenFor(gaps.open[k], Latency)
<1> DEFINE gap == gaps.open[k]
<1>1. /\ Types /\ GapsOf(gaps, Arrived) /\ Arrived \in SUBSET Ids
      /\ loss.last = asked
  BY TypesAre DEF IInv, Tracked, Arrived, Reported
<1>2. /\ now \in Nat /\ keyAt \in Nat /\ loss.last \in Nat /\ reader.settled \in Nat
      /\ opened \in [Ids -> Nat] /\ gap.since \in Nat
  BY <1>1, TimesAre
<1>3. gap.since = opened[From(gap)] /\ gap.since > 0
  BY DEF Timed, Dated, DatedOf
<1>4. reader.settled <= loss.last \/ reader.settled <= now - Latency
  BY DEF Timed, SettledAt
<1>5. CASE gap.since <= now - Latency
  <2>1. PICK m \in Ids : IsNewest(m, Arrived)
    <3>1. Arrived # {}
      <4> SUFFICES ASSUME Arrived = {} PROVE FALSE
        OBVIOUS
      <4>1. gaps.open = <<>>
        BY <1>1 DEF GapsOf
      <4> QED BY <4>1
    <3> QED BY <1>1, <3>1, NewestIs
  <2>2. OpenOf(gaps.open, Arrived, m)
    BY <1>1, <2>1 DEF GapsOf
  <2>3. gap.first = Wire(From(gap)) /\ From(gap) \in Ids
    BY <1>1, <2>2, GapIs
  <2>4. now - opened[From(gap)] >= Latency
    BY <1>2, <1>3, <1>5, Delays
  <2> QED BY <2>3, <2>4 DEF OpenFor
<1>6. CASE gap.since <= loss.last
  <2>1. \/ opened[j] <= loss.last \/ keyAt <= loss.last
        \/ keyframe.has /\ SeqNewer(keyframe.seq, Wire(j))
    BY <1>6 DEF Timed, Answered
  <2> QED BY <1>1, <1>2, <1>3, <1>6, <2>1
<1>7. gap.since <= now - Latency \/ gap.since <= loss.last
  BY <1>2, <1>4, Delays
<1> QED BY <1>5, <1>6, <1>7

-----------------------------------------------------------------------------
(* Theorems *)

\* Every variable of the track buffer keeps to its type.
THEOREM TypeCorrect == Spec => []TypeOK
<1>1. IInv => TypeOK
  BY DEF IInv
<1> QED BY <1>1, Inductive, PTL

\* duplicate tells exactly what has arrived before, for every packet that none
\* a window newer precedes: no second copy reaches the jitter buffer, and no
\* first one is kept from it, over wraps and reordering.
KnowsDuplicates ==
  \A i \in Ids : (\A j \in Arrived : j - i < WindowSize) =>
    (Duplicate(seen, Wire(i)).yes <=> i \in Arrived)

THEOREM DuplicatesAreKnown == Spec => []KnowsDuplicates
<1>1. IInv => KnowsDuplicates
  <2> SUFFICES ASSUME IInv, NEW i \in Ids, \A j \in Arrived : j - i < WindowSize
               PROVE  Duplicate(seen, Wire(i)).yes <=> i \in Arrived
    BY DEF KnowsDuplicates
  <2>1. seen \in Window /\ WindowOf(seen, Arrived) /\ Arrived \in SUBSET Ids
    BY TypesAre DEF IInv, Types, Tracked, Arrived
  <2> QED BY <2>1, WindowStep
<1> QED BY <1>1, Inductive, PTL

\* Every open gap counts what is missing in it, whatever was merged into it,
\* filled late or forgotten (add, fill and due).
THEOREM GapsCount == Spec => []GapsAreExact
<1>1. IInv => GapsAreExact
  <2> SUFFICES ASSUME IInv, NEW k \in DOMAIN gaps.open
               PROVE  gaps.open[k].missing = Cardinality(Missing(gaps.open[k]))
    BY DEF GapsAreExact
  <2> DEFINE q == gaps.open
             gap == q[k]
  <2>1. GapsOf(gaps, Arrived) /\ Arrived \in SUBSET Ids /\ copies \in [Ids -> 0 .. 2]
    BY TypesAre DEF IInv, Tracked, Arrived, Types
  <2>2. q \in Seq(Gap) /\ k \in 1 .. Len(q)
    BY <2>1 DEF GapsOf
  <2>3. Arrived # {}
    <3> SUFFICES ASSUME Arrived = {} PROVE FALSE
      OBVIOUS
    <3>1. q = <<>>
      BY <2>1 DEF GapsOf
    <3> QED BY <2>2, <3>1
  <2>4. PICK m \in Ids : IsNewest(m, Arrived)
    BY <2>1, <2>3, NewestIs
  <2>5. OpenOf(q, Arrived, m)
    BY <2>1, <2>4 DEF GapsOf
  <2> HIDE DEF q
  <2>6. gap.missing = Cardinality((From(gap) .. To(gap)) \ Arrived)
    BY <2>1, <2>2, <2>5, GapIs
  <2>7. From(gap) \in Ids /\ To(gap) \in Ids
    BY <2>1, <2>2, <2>5, GapIs
  <2>8. \A j \in Ids : In(gap, Wire(j)) <=> From(gap) <= j /\ j <= To(gap)
    BY <2>1, <2>2, <2>5, GapIs
  <2> HIDE DEF gap
  <2>9. Missing(gap) = (From(gap) .. To(gap)) \ Arrived
    <3> DEFINE F == From(gap)
               L == To(gap)
    <3>1. F .. L = {j \in Ids : F <= j /\ j <= L}
      <4>1. F \in Ids /\ L \in Ids
        BY <2>7
      <4> HIDE DEF F, L
      <4>2. F \in Int /\ L \in Int /\ 1 <= F /\ L <= Len(Stream)
        BY <4>1, IdsAre
      <4>3. Len(Stream) \in Int
        BY Sizes
      <4> QED BY <4>2, <4>3 DEF Ids
    <3>2. \A j \in Ids : copies[j] = 0 <=> j \notin Arrived
      BY <2>1 DEF Arrived
    <3>3. Missing(gap) = {j \in Ids : j \notin Arrived /\ F <= j /\ j <= L}
      BY <2>8, <3>2 DEF Missing
    <3> HIDE DEF F, L
    <3>4. (F .. L) \ Arrived = {j \in Ids : j \notin Arrived /\ F <= j /\ j <= L}
      BY <3>1
    <3> QED BY <3>3, <3>4 DEF F, L
  <2> QED BY <2>6, <2>9 DEF gap, q
<1> QED BY <1>1, Inductive, PTL

\* What the jitter buffer gives up on is asked for, by its own loss report or
\* by the one that kept this one from being sent (lossDue).
THEOREM LossesAreRequested == Spec => []GaveUpIsRequested
<1>1. IInv => GaveUpIsRequested
  BY DEF IInv
<1> QED BY <1>1, Inductive, PTL

\* Handing on whole frames after all that was handed is a step of FrameDelivery.
LEMMA HandIs ==
  ASSUME handed \in Seq(Ids), NEW q \in Seq(JB!Packets(Ids)), handed' = handed \o Numbers(q),
         Delivery!Ascending(handed \o Numbers(q)), Whole(IdsOf(q))
  PROVE  Delivery!Hand
<1> DEFINE n == Len(handed)
           m == handed \o Numbers(q)
<1>1. Numbers(q) \in Seq(Ids) /\ Len(Numbers(q)) = Len(q) /\ Len(q) \in Nat
      /\ \A k \in 1 .. Len(q) : Numbers(q)[k] = q[k].id
  BY NumbersAre
<1>2. m \in Seq(Ids) /\ Len(m) = n + Len(q) /\ n \in Nat
  <2> DEFINE x == Numbers(q)
  <2>1. x \in Seq(Ids) /\ Len(x) = Len(q)
    BY <1>1
  <2> HIDE DEF x
  <2>2. handed \o x \in Seq(Ids) /\ Len(handed \o x) = n + Len(x) /\ n \in Nat
    BY <2>1, JoinIs
  <2> QED BY <2>1, <2>2 DEF x
<1>3. \A k \in 1 .. n : m[k] = handed[k]
  BY <1>1, JoinIs
<1>4. ASSUME NEW k \in n + 1 .. n + Len(q) PROVE k - n \in 1 .. Len(q) /\ m[k] = q[k - n].id
  <2>1. k - n \in 1 .. Len(q)
    BY <1>1, <1>2
  <2>2. m[k] = Numbers(q)[k - n]
    BY <1>1, JoinIs
  <2> QED BY <1>1, <2>1, <2>2
<1> HIDE DEF m
<1>5. m \in Seq(Nat)
  <2>1. ASSUME NEW k \in 1 .. Len(m) PROVE m[k] \in Nat
    <3>1. m[k] \in Ids
      BY <1>2
    <3> QED BY <3>1, IdsAre
  <2>2. m = [k \in 1 .. Len(m) |-> m[k]] /\ Len(m) \in Nat
    BY <1>2
  <2> QED BY <2>1, <2>2
<1>6. n <= Len(m)
  BY <1>1, <1>2
<1>7. SubSeq(m, 1, n) = handed
  <2> DEFINE s == SubSeq(m, 1, n)
  <2>1. s \in Seq(Ids) /\ Len(s) = n /\ \A k \in 1 .. n : s[k] = m[k]
    BY <1>1, <1>2, <1>6
  <2> HIDE DEF s
  <2>2. handed \in Seq(Ids) /\ Len(handed) = n /\ \A k \in 1 .. n : s[k] = handed[k]
    BY <1>3, <2>1
  <2>3. s = handed
    <3> HIDE DEF n
    <3> QED BY <1>2, <2>1, <2>2
  <2> QED BY <2>3 DEF s
<1>8. {m[k] : k \in n + 1 .. Len(m)} = IdsOf(q)
  <2>1. ASSUME NEW k \in n + 1 .. n + Len(q) PROVE m[k] \in IdsOf(q)
    BY <1>4 DEF IdsOf
  <2>2. ASSUME NEW k \in 1 .. Len(q) PROVE q[k].id \in {m[l] : l \in n + 1 .. n + Len(q)}
    <3>1. n + k \in n + 1 .. n + Len(q) /\ (n + k) - n = k
      BY <1>1, <1>2
    <3>2. m[n + k] = q[k].id
      BY <1>4, <3>1
    <3> QED BY <3>1, <3>2
  <2> QED BY <1>2, <2>1, <2>2 DEF IdsOf
<1>9. \E F \in SUBSET SentFrames :
        {m[k] : k \in n + 1 .. Len(m)} = UNION F
  BY <1>8 DEF Whole
<1>10. handed' = m
  BY DEF m
<1>11. Delivery!Ascending(m)
  BY DEF m
<1> QED BY <1>5, <1>6, <1>7, <1>9, <1>10, <1>11 DEF Delivery!Hand

LEMMA StepIs ==
  ASSUME IInv, [Next]_vars
  PROVE  [Delivery!Next]_<<handed, At("over")>>
<1>1. Types /\ Released
  BY TypesAre DEF IInv
<1>2. handed \in Seq(Ids) /\ ready \in Seq(JB!Packets(Ids))
  BY <1>1 DEF Types
<1>3. At("over")' \in BOOLEAN
  BY Zenon DEF At
<1>4. CASE \E i \in Ids : Push(i)
  <2>1. handed' = handed /\ reader.at # "over" /\ reader'.at # "over"
    BY <1>4 DEF Push, At
  <2>2. At("over")' = At("over")
    BY <2>1 DEF At
  <2> QED BY <2>1, <2>2
<1>5. CASE GapDue
  <2>1. handed' = handed /\ reader.at # "over" /\ reader'.at # "over"
    BY <1>5 DEF GapDue, At
  <2>2. At("over")' = At("over")
    BY <2>1 DEF At
  <2> QED BY <2>1, <2>2
<1>6. CASE TakeReady
  <2>1. ~At("over") /\ handed' = handed \o Numbers(ready)
    BY <1>6 DEF TakeReady, At, Numbers
  <2>2. Delivery!Ascending(handed \o Numbers(ready)) /\ Whole(IdsOf(ready))
    BY <1>1 DEF Released, Line
  <2>3. Delivery!Hand
    BY <1>2, <2>1, <2>2, HandIs
  <2> QED BY <1>3, <2>1, <2>3 DEF Delivery!Next
<1>7. CASE EndTrack
  <2>1. handed' = handed /\ reader.at # "over" /\ reader'.at # "over"
    BY <1>1, <1>7 DEF EndTrack, At, Goes, Types
  <2>2. At("over")' = At("over")
    BY <2>1 DEF At
  <2> QED BY <2>1, <2>2
<1>8. CASE Flush
  <2> DEFINE last == ready \o JB!Flush(jb).out
  <2>1. ~At("over") /\ handed' = handed \o Numbers(last)
    BY <1>8 DEF Flush, At, Numbers
  <2>2. last \in Seq(JB!Packets(Ids))
    BY FlushAdds
  <2>3. Delivery!Ascending(handed \o Numbers(last))
    BY FlushAdds
  <2>4. Whole(IdsOf(last))
    BY FlushAdds
  <2> HIDE DEF last
  <2>5. Delivery!Hand
    BY <1>2, <2>1, <2>2, <2>3, <2>4, HandIs
  <2> QED BY <1>3, <2>1, <2>5 DEF Delivery!Next
<1>9. CASE Expire
  BY <1>9 DEF Expire, At
<1>10. CASE Tick
  BY <1>10 DEF Tick, At
<1>11. CASE UNCHANGED vars
  BY <1>11 DEF vars, At
<1> QED BY <1>4, <1>5, <1>6, <1>7, <1>8, <1>9, <1>10, <1>11 DEF Next

\* The track buffer implements FrameDelivery: push, flush and the timer hand
\* the recorder whole frames of the stream, in order, each once.
THEOREM Delivers == Spec => DeliversFrames
<1>1. Init => Delivery!Init
  <2> SUFFICES ASSUME Init PROVE handed = <<>> /\ At("over") = FALSE
    BY DEF Delivery!Init
  <2>1. handed = <<>> /\ reader.at = "reading"
    BY DEF Init
  <2> QED BY <2>1 DEF At
<1>2. IInv /\ [Next]_vars => [Delivery!Next]_<<handed, At("over")>>
  BY StepIs
<1> QED BY <1>1, <1>2, Inductive, PTL DEF Spec, DeliversFrames, Delivery!Spec

\* A packet still missing leaves the gaps only when a key frame that follows it
\* has begun to arrive or has been asked for, when the first of its gap is past
\* the latency of the jitter buffer, or when a new stream begins: what push, add
\* and gapDue forget is covered, whatever was merged into a gap.
THEOREM ForgettingIsCovered == Spec => ForgottenIsCovered
<1> DEFINE Covered(j) ==
             \/ keyframe.has /\ SeqNewer(keyframe.seq, Wire(j))
             \/ asked >= opened[j]
             \/ asked > 0 /\ keyAt <= asked
             \/ \E k \in DOMAIN gaps.open :
                  In(gaps.open[k], Wire(j)) /\ OpenFor(gaps.open[k], Latency)
             \/ NewStream
<1>1. ASSUME IInv, Timed, [Next]_vars, NEW j \in Ids, copies'[j] = 0, InGaps(j, gaps.open),
             ~InGaps(j, gaps'.open)
      PROVE  Covered(j)
  <2> HIDE DEF Covered
  <2>1. ASSUME NEW i \in Ids, Push(i) PROVE Covered(j)
    <3>1. j \notin Arrived'
      BY <1>1 DEF Arrived
    <3>2. NewStream
      BY <1>1, <2>1, <3>1, PushSheds DEF Timed
    <3> QED BY <3>2 DEF Covered
  <2>2. CASE GapDue
    <3>1. PICK k \in 1 .. Len(gaps.open) :
            In(gaps.open[k], Wire(j)) /\ gaps.open[k].since <= reader.settled
      BY <1>1, <2>2, GapDueSheds
    <3>2. At("due")
      BY <2>2 DEF GapDue
    <3>3. k \in DOMAIN gaps.open
      <4>1. gaps.open \in Seq(Gap)
        BY <1>1, TypesAre, TimesAre DEF IInv
      <4> QED BY <4>1
    <3> QED BY <1>1, <3>1, <3>2, <3>3, SettledIsCovered DEF Covered
  <2>3. CASE gaps' = gaps
    BY <1>1, <2>3
  <2>4. TakeReady \/ EndTrack \/ Flush \/ Expire \/ Tick \/ UNCHANGED vars => gaps' = gaps
    BY DEF TakeReady, EndTrack, Flush, Expire, Tick, vars, pushVars
  <2> QED BY <1>1, <2>1, <2>2, <2>3, <2>4 DEF Next
<1>2. IInv /\ Timed /\ [Next]_vars =>
        [\A i \in Ids :
           copies'[i] = 0 /\ InGaps(i, gaps.open) /\ ~InGaps(i, gaps'.open) =>
             \/ keyframe.has /\ SeqNewer(keyframe.seq, Wire(i))
             \/ asked >= opened[i]
             \/ asked > 0 /\ keyAt <= asked
             \/ \E k \in DOMAIN gaps.open :
                  In(gaps.open[k], Wire(i)) /\ OpenFor(gaps.open[k], Latency)
             \/ NewStream]_vars
  BY <1>1 DEF Covered
<1> QED BY <1>2, TimedInductive, PTL DEF Spec, ForgottenIsCovered

=============================================================================

-------------------------- MODULE CalculationsProofs --------------------------
(***************************************************************************)
(* What the pure functions of the repository compute, for every input and   *)
(* every width of a byte: not only for the inputs that TLC enumerates.      *)
(* Recursive definitions are reasoned about with the induction principle    *)
(* that follows from the well-foundedness of < on the natural numbers.      *)
(***************************************************************************)
EXTENDS Calculations, SequenceTheorems, FiniteSetTheorems, WellFoundedInduction,
        TLAPS

-----------------------------------------------------------------------------
(* Induction and iteration.  *)

\* A set of numbers that is not empty has a smallest one.
LEMMA Smallest ==
  ASSUME NEW S \in SUBSET Nat, S # {}
  PROVE  \E m \in S : \A n \in S : m <= n
  <1> DEFINE R == OpToRel(<, Nat)
  <1>1. R = {p \in Nat \X Nat : p[1] < p[2]}
    BY DEF OpToRel
  <1>2. IsWellFoundedOn(R, Nat)
    BY NatLessThanWellFounded
  <1> HIDE DEF R
  <1>3. PICK m \in S : \A n \in S : ~(<<n, m>> \in R)
    BY <1>2, WFMin
  <1>4. \A n \in S : <<n, m>> \in Nat \X Nat /\ <<n, m>>[1] = n /\ <<n, m>>[2] = m
    OBVIOUS
  <1>5. \A n \in S : ~(n < m)
    BY <1>1, <1>3, <1>4
  <1> QED
    BY <1>5

\* Induction, for the set of the numbers that have a property.
LEMMA Induction ==
  ASSUME NEW S \in SUBSET Nat, 0 \in S, \A n \in S : n + 1 \in S
  PROVE  S = Nat
  <1> SUFFICES ASSUME Nat \ S # {} PROVE FALSE
    OBVIOUS
  <1>1. PICK m \in Nat \ S : \A n \in Nat \ S : m <= n
    BY Smallest
  <1>2. m - 1 \in S
    BY <1>1
  <1> QED
    BY <1>1, <1>2

\* A first value and a step that leads from the n-th value to the next.
IsStep(A, base, step) == base \in A /\ step \in [Nat \X A -> A]

\* The beginning of an iteration: g has its first n steps.
Prefix(A, base, step, n, g) ==
  /\ g \in [0 .. n -> A] /\ g[0] = base
  /\ \A i \in 0 .. n - 1 : g[i + 1] = step[<<i, g[i]>>]

\* The whole iteration.
Iterates(A, base, step, g) ==
  /\ g \in [Nat -> A] /\ g[0] = base
  /\ \A n \in Nat : g[n + 1] = step[<<n, g[n]>>]

\* A beginning can be made one step longer.
LEMMA PrefixGrows ==
  ASSUME NEW A, NEW base, NEW step, IsStep(A, base, step), NEW n \in Nat,
         NEW g, Prefix(A, base, step, n, g)
  PROVE  \E h : Prefix(A, base, step, n + 1, h)
  <1> DEFINE h == [i \in 0 .. n + 1 |-> IF i = n + 1 THEN step[<<n, g[n]>>] ELSE g[i]]
  <1>1. g[n] \in A
    BY DEF Prefix
  <1>2. step[<<n, g[n]>>] \in A
    BY <1>1 DEF IsStep
  <1>3. \A i \in 0 .. n : h[i] = g[i]
    OBVIOUS
  <1>4. h \in [0 .. n + 1 -> A] /\ h[0] = base
    BY <1>2 DEF Prefix
  <1>5. ASSUME NEW i \in 0 .. n PROVE h[i + 1] = step[<<i, h[i]>>]
    <2>1. CASE i = n
      <3>1. h[n + 1] = step[<<n, g[n]>>] /\ h[n] = g[n]
        OBVIOUS
      <3> QED
        BY <2>1, <3>1
    <2>2. CASE i < n
      <3>1. h[i + 1] = g[i + 1] /\ h[i] = g[i]
        BY <2>2
      <3>2. g[i + 1] = step[<<i, g[i]>>]
        BY <2>2 DEF Prefix
      <3> HIDE DEF h
      <3> QED
        BY <3>1, <3>2
    <2> QED
      BY <2>1, <2>2
  <1> HIDE DEF h
  <1>6. Prefix(A, base, step, n + 1, h)
    <2>1. (n + 1) - 1 = n
      OBVIOUS
    <2> QED
      BY <1>4, <1>5, <2>1 DEF Prefix
  <1> QED
    BY <1>6

\* Two beginnings agree as far as both go.
LEMMA PrefixesAgree ==
  ASSUME NEW A, NEW base, NEW step, IsStep(A, base, step), NEW m \in Nat, NEW n \in Nat,
         NEW g, NEW h, Prefix(A, base, step, m, g), Prefix(A, base, step, n, h), m <= n
  PROVE  \A i \in 0 .. m : g[i] = h[i]
  <1> DEFINE T == {i \in Nat : i <= m => g[i] = h[i]}
  <1>1. T \in SUBSET Nat /\ 0 \in T
    BY DEF Prefix
  <1>2. ASSUME NEW i \in T PROVE i + 1 \in T
    <2>1. i \in Nat /\ (i <= m => g[i] = h[i])
      OBVIOUS
    <2>2. ASSUME i + 1 <= m PROVE g[i + 1] = h[i + 1]
      <3>1. i \in 0 .. m - 1 /\ i \in 0 .. n - 1 /\ g[i] = h[i]
        BY <2>1, <2>2
      <3> QED
        BY <3>1 DEF Prefix
    <2> QED
      BY <2>1, <2>2
  <1> HIDE DEF T
  <1>3. T = Nat
    BY <1>1, <1>2, Induction
  <1> QED
    BY <1>3 DEF T

\* A step taken over and over from a first value is a function of the number
\* of times.
LEMMA Iteration ==
  ASSUME NEW A, NEW base, NEW step, IsStep(A, base, step)
  PROVE  \E g : Iterates(A, base, step, g)
  <1> DEFINE S == {n \in Nat : \E g : Prefix(A, base, step, n, g)}
             P(n) == CHOOSE g : Prefix(A, base, step, n, g)
             f == [n \in Nat |-> P(n)[n]]
  <1>1. S = Nat
    <2>1. 0 \in S
      <3>1. Prefix(A, base, step, 0, [i \in 0 .. 0 |-> base])
        BY DEF Prefix, IsStep
      <3> QED
        BY <3>1
    <2>2. ASSUME NEW n \in S PROVE n + 1 \in S
      <3>1. n \in Nat /\ \E g : Prefix(A, base, step, n, g)
        OBVIOUS
      <3>2. n + 1 \in Nat /\ \E g : Prefix(A, base, step, n + 1, g)
        BY <3>1, PrefixGrows
      <3> QED
        BY <3>2
    <2>3. S \in SUBSET Nat
      OBVIOUS
    <2> HIDE DEF S
    <2> QED
      BY <2>1, <2>2, <2>3, Induction
  <1>2. ASSUME NEW n \in Nat PROVE Prefix(A, base, step, n, P(n))
    <2>1. \E g : Prefix(A, base, step, n, g)
      BY <1>1
    <2> QED
      BY <2>1
  <1> HIDE DEF P
  <1>3. f \in [Nat -> A] /\ f[0] = base
    BY <1>2 DEF Prefix
  <1>4. ASSUME NEW n \in Nat PROVE f[n + 1] = step[<<n, f[n]>>]
    <2>1. P(n)[n] = P(n + 1)[n]
      <3>1. n + 1 \in Nat /\ n <= n + 1 /\ n \in 0 .. n
        OBVIOUS
      <3>2. Prefix(A, base, step, n, P(n)) /\ Prefix(A, base, step, n + 1, P(n + 1))
        BY <1>2, <3>1
      <3>3. \A i \in 0 .. n : P(n)[i] = P(n + 1)[i]
        BY <3>1, <3>2, PrefixesAgree
      <3> QED
        BY <3>1, <3>3
    <2>2. P(n + 1)[n + 1] = step[<<n, P(n + 1)[n]>>]
      <3>1. Prefix(A, base, step, n + 1, P(n + 1))
        BY <1>2
      <3> QED
        BY <3>1 DEF Prefix
    <2> QED
      BY <2>1, <2>2
  <1>5. Iterates(A, base, step, f)
    BY <1>3, <1>4 DEF Iterates
  <1> QED
    BY <1>5

-----------------------------------------------------------------------------
(* Powers of two.  *)

\* Pow2 is the function that its recursive definition describes.
LEMMA Pow2Def ==
  /\ Pow2 \in [Nat -> Nat \ {0}]
  /\ Pow2[0] = 1
  /\ \A n \in Nat : Pow2[n + 1] = 2 * Pow2[n]
  <1> DEFINE Pos == Nat \ {0}
             step == [p \in Nat \X Pos |-> 2 * p[2]]
             Q(g) == g = [n \in Nat |-> IF n = 0 THEN 1 ELSE 2 * g[n - 1]]
  <1>1. step \in [Nat \X Pos -> Pos] /\ 1 \in Pos
    OBVIOUS
  <1>2. \A n \in Nat, x \in Pos : step[<<n, x>>] = 2 * x
    OBVIOUS
  <1> HIDE DEF step, Pos
  <1>3. PICK g : Iterates(Nat \ {0}, 1, step, g)
    <2>1. IsStep(Nat \ {0}, 1, step)
      BY <1>1 DEF IsStep, Pos
    <2> QED
      BY <2>1, Iteration
  <1> USE DEF Pos
  <1>4. \A n \in Nat : g[n + 1] = 2 * g[n]
    BY <1>2, <1>3 DEF Iterates
  <1>5. Q(g)
    BY <1>3, <1>4 DEF Iterates
  <1>6. Pow2 = CHOOSE h : Q(h)
    BY DEF Pow2
  <1>7. Q(Pow2)
    BY <1>5, <1>6
  <1>8. Pow2[0] = 1 /\ \A n \in Nat : Pow2[n + 1] = 2 * Pow2[n]
    <2>1. ASSUME NEW n \in Nat PROVE Pow2[n + 1] = 2 * Pow2[n]
      <3>1. n + 1 \in Nat /\ n + 1 # 0 /\ (n + 1) - 1 = n
        OBVIOUS
      <3> QED
        BY <1>7, <3>1
    <2> QED
      BY <1>7, <2>1
  <1> DEFINE T == {n \in Nat : Pow2[n] \in Nat \ {0}}
  <1>9. T = Nat
    <2>1. T \in SUBSET Nat /\ 0 \in T /\ \A n \in T : n + 1 \in T
      BY <1>8
    <2> HIDE DEF T
    <2> QED
      BY <2>1, Induction
  <1>10. Pow2 = [n \in Nat |-> Pow2[n]]
    BY <1>7
  <1>11. \A n \in Nat : Pow2[n] \in Nat \ {0}
    BY <1>9
  <1>12. Pow2 \in [Nat -> Nat \ {0}]
    BY <1>10, <1>11
  <1> QED
    BY <1>8, <1>12

\* The power of a sum.
LEMMA Pow2Sum ==
  ASSUME NEW a \in Nat, NEW b \in Nat
  PROVE  Pow2[a + b] = Pow2[a] * Pow2[b]
  <1> DEFINE T == {n \in Nat : Pow2[a + n] = Pow2[a] * Pow2[n]}
  <1>1. T \in SUBSET Nat /\ 0 \in T
    <2>1. Pow2[a] \in Nat /\ Pow2[0] = 1 /\ a + 0 = a
      BY Pow2Def
    <2> QED
      BY <2>1
  <1>2. ASSUME NEW n \in T PROVE n + 1 \in T
    <2>1. n \in Nat /\ Pow2[a + n] = Pow2[a] * Pow2[n]
      OBVIOUS
    <2>2. Pow2[a] \in Nat /\ Pow2[n] \in Nat /\ Pow2[n + 1] = 2 * Pow2[n]
      BY <2>1, Pow2Def
    <2>3. Pow2[a + (n + 1)] = 2 * Pow2[a + n]
      <3>1. a + n \in Nat /\ a + (n + 1) = (a + n) + 1
        BY <2>1
      <3> QED
        BY <3>1, Pow2Def
    <2>4. \A x, y \in Nat : 2 * (x * y) = x * (2 * y)
      OBVIOUS
    <2> QED
      BY <2>1, <2>2, <2>3, <2>4
  <1> HIDE DEF T
  <1>3. T = Nat
    BY <1>1, <1>2, Induction
  <1> QED
    BY <1>3 DEF T

\* A smaller exponent gives a smaller power.
LEMMA Pow2Monotone ==
  ASSUME NEW a \in Nat, NEW b \in Nat, a <= b
  PROVE  Pow2[a] <= Pow2[b]
  <1>1. b - a \in Nat /\ a + (b - a) = b
    OBVIOUS
  <1>2. Pow2[b] = Pow2[a] * Pow2[b - a] /\ Pow2[a] \in Nat \ {0} /\ Pow2[b - a] \in Nat \ {0}
    BY <1>1, Pow2Sum, Pow2Def
  <1>3. \A x, y \in Nat \ {0} : x <= x * y
    OBVIOUS
  <1> QED
    BY <1>2, <1>3

\* Products of numbers that are not larger.
LEMMA ProductMonotone ==
  ASSUME NEW a \in Nat, NEW b \in Nat, NEW m \in Nat, a <= m, b <= m
  PROVE  a * b <= m * m
  <1>1. a * b <= m * b
    OBVIOUS
  <1>2. m * b <= m * m
    OBVIOUS
  <1> QED
    BY <1>1, <1>2

\* A factor that is not zero can be cancelled.
LEMMA FactorCancels ==
  ASSUME NEW a \in Nat, NEW b \in Nat, NEW c \in Nat \ {0}, a * c = b * c
  PROVE  a = b
  <1>1. \A x, y \in Nat : x < y => x * c < y * c
    OBVIOUS
  <1> QED
    BY <1>1

\* Division with remainder is unique.
LEMMA DivisionUnique ==
  ASSUME NEW d \in Nat \ {0}, NEW q \in Nat, NEW r \in 0 .. d - 1
  PROVE  (d * q + r) % d = r /\ (d * q + r) \div d = q
  OBVIOUS

\* The remainder by a product, from that by its factors.
LEMMA RemainderOfProduct ==
  ASSUME NEW v \in Nat, NEW p \in Nat \ {0}, NEW b \in Nat \ {0}
  PROVE  v % (p * b) = (v % p) + ((v \div p) % b) * p
  <1> DEFINE q == v \div p
             r == v % p
             s == q \div b
             t == q % b
  <1>1. q \in Nat /\ r \in 0 .. p - 1 /\ v = p * q + r
    OBVIOUS
  <1>2. s \in Nat /\ t \in 0 .. b - 1 /\ q = b * s + t
    BY <1>1
  <1> HIDE DEF q, r, s, t
  <1>3. v = (p * b) * s + (r + t * p)
    BY <1>1, <1>2
  <1>4. r + t * p \in 0 .. (p * b) - 1
    BY <1>1, <1>2
  <1>5. p * b \in Nat \ {0}
    OBVIOUS
  <1>6. v % (p * b) = r + t * p
    BY <1>2, <1>3, <1>4, <1>5, DivisionUnique
  <1> QED
    BY <1>6 DEF q, r, s, t

-----------------------------------------------------------------------------
(* The codec of the header.  *)

\* A byte has at least one bit.
LEMMA Widths ==
  /\ ByteBits \in Nat \ {0} /\ Base \in Nat \ {0}
  /\ \A k \in Nat : k * ByteBits \in Nat /\ Pow2[k * ByteBits] \in Nat \ {0}
  <1>1. ByteBits \in Nat \ {0}
    BY ProtocolAssumption
  <1>2. \A k \in Nat : k * ByteBits \in Nat
    BY <1>1
  <1> QED
    BY <1>1, <1>2, Pow2Def DEF Base

\* Reading i bytes of an integer gives its remainder by the i-th power of the
\* base.
LEMMA ReadWritten ==
  ASSUME NEW v \in Nat, NEW bytes, NEW offset \in Nat, NEW size \in Nat,
         \A i \in 1 .. size : bytes[offset + i] = write_le(v, i - 1)
  PROVE  read_le(bytes, offset, size) = v % Pow2[size * ByteBits]
  <1> DEFINE Q(g) == g = [i \in 0 .. size |-> IF i = 0 THEN 0
                           ELSE g[i - 1] + bytes[offset + i] * Pow2[(i - 1) * ByteBits]]
             R(i) == v % Pow2[i * ByteBits]
             G == [i \in 0 .. size |-> R(i)]
             value == CHOOSE g : Q(g)
  <1>1. R(0) = 0
    <2>1. 0 * ByteBits = 0 /\ Pow2[0] = 1 /\ v % 1 = 0
      BY Widths, Pow2Def
    <2> QED
      BY <2>1
  <1>2. ASSUME NEW i \in 1 .. size
        PROVE  R(i) = R(i - 1) + bytes[offset + i] * Pow2[(i - 1) * ByteBits]
    <2>1. i - 1 \in Nat /\ (i - 1) * ByteBits \in Nat
      BY Widths
    <2>2. i * ByteBits = (i - 1) * ByteBits + ByteBits
      BY Widths
    <2>3. Pow2[i * ByteBits] = Pow2[(i - 1) * ByteBits] * Base
      BY <2>1, <2>2, Pow2Sum, Widths DEF Base
    <2>4. bytes[offset + i] = (v \div Pow2[(i - 1) * ByteBits]) % Base
      BY DEF write_le
    <2>5. Pow2[(i - 1) * ByteBits] \in Nat \ {0} /\ Base \in Nat \ {0}
      BY <2>1, Widths
    <2>6. \A p, b \in Nat \ {0} : v % (p * b) = (v % p) + ((v \div p) % b) * p
      BY RemainderOfProduct
    <2>7. v % (Pow2[(i - 1) * ByteBits] * Base)
            = (v % Pow2[(i - 1) * ByteBits])
              + ((v \div Pow2[(i - 1) * ByteBits]) % Base) * Pow2[(i - 1) * ByteBits]
      BY <2>5, <2>6
    <2> QED
      BY <2>3, <2>4, <2>7
  <1> HIDE DEF R
  <1>3. Q(G)
    BY <1>1, <1>2
  <1>4. Q(value)
    BY <1>3
  <1>5. read_le(bytes, offset, size) = value[size]
    BY DEF read_le
  <1> HIDE DEF value
  <1> DEFINE T == {i \in Nat : i <= size => value[i] = R(i)}
  <1>6. T \in SUBSET Nat /\ 0 \in T
    BY <1>1, <1>4
  <1>7. ASSUME NEW i \in T PROVE i + 1 \in T
    <2>1. i \in Nat /\ (i <= size => value[i] = R(i))
      OBVIOUS
    <2>2. ASSUME i + 1 <= size PROVE value[i + 1] = R(i + 1)
      <3>1. i + 1 \in 1 .. size /\ i + 1 \in 0 .. size /\ (i + 1) - 1 = i /\ i + 1 # 0
        BY <2>1, <2>2
      <3>2. value[i + 1] = value[i] + bytes[offset + (i + 1)] * Pow2[i * ByteBits]
        BY <1>4, <3>1
      <3>3. value[i] = R(i)
        BY <2>1, <2>2
      <3> QED
        BY <1>2, <3>1, <3>2, <3>3
    <2> QED
      BY <2>1, <2>2
  <1> HIDE DEF T
  <1>8. T = Nat
    BY <1>6, <1>7, Induction
  <1>9. value[size] = R(size)
    BY <1>8 DEF T
  <1> QED
    BY <1>5, <1>9 DEF R

\* The fields lie one behind the other in the 44 bytes and have different
\* names; they are read where they were written.
LEMMA Layout ==
  /\ DOMAIN Writes = 1 .. 10 /\ Reads = Writes
  /\ \A i \in 1 .. 10 : /\ Writes[i][2] \in Nat /\ Writes[i][3] \in Nat
                        /\ Writes[i][2] + Writes[i][3] <= 44
  /\ \A i, k \in 1 .. 10 : i < k => Writes[i][2] + Writes[i][3] <= Writes[k][2]
  /\ \A i, k \in 1 .. 10 : Writes[i][1] = Writes[k][1] => i = k
  <1>1. DOMAIN Writes = 1 .. 10
    BY DEF Writes
  <1>2. /\ Writes[1] = <<"magic", 0, 4>> /\ Writes[2] = <<"header_size", 4, 2>>
        /\ Writes[3] = <<"version", 6, 2>> /\ Writes[4] = <<"frame_id", 8, 8>>
        /\ Writes[5] = <<"capture_timestamp_ns", 16, 8>> /\ Writes[6] = <<"width", 24, 4>>
        /\ Writes[7] = <<"height", 28, 4>> /\ Writes[8] = <<"pixel_format", 32, 4>>
        /\ Writes[9] = <<"payload_size", 36, 4>> /\ Writes[10] = <<"payload_crc32", 40, 4>>
    BY DEF Writes
  <1>3. Reads = Writes
    BY DEF Reads, Writes
  <1>4. \A i \in 1 .. 10 : i \in {1, 2, 3, 4, 5, 6, 7, 8, 9, 10}
    OBVIOUS
  <1>6. \A i \in 1 .. 10 : /\ Writes[i][2] \in Nat /\ Writes[i][3] \in Nat
                           /\ Writes[i][2] + Writes[i][3] <= 44
    BY <1>2, <1>4
  <1>7. \A i, k \in 1 .. 10 : i < k => Writes[i][2] + Writes[i][3] <= Writes[k][2]
    BY <1>2, <1>4
  <1>8. \A i, k \in 1 .. 10 : Writes[i][1] = Writes[k][1] => i = k
    BY <1>2, <1>4
  <1> QED
    BY <1>1, <1>3, <1>6, <1>7, <1>8

\* Each byte of a field on the wire is the one that its own call wrote.
LEMMA FieldOnWire ==
  ASSUME NEW header, NEW n \in 1 .. 10, NEW i \in 1 .. Writes[n][3]
  PROVE  serialize_header(header)[Writes[n][2] + i]
           = write_le(header[Writes[n][1]], i - 1)
  <1> DEFINE j == Writes[n][2] + i
             C == {k \in DOMAIN Writes : j - 1 - Writes[k][2] \in 0 .. Writes[k][3] - 1}
             last == CHOOSE k \in C : \A l \in C : l <= k
  <1>1. Writes[n][2] \in Nat /\ Writes[n][3] \in Nat /\ j \in 1 .. kWireHeaderSize
    <2>1. /\ Writes[n][2] \in Nat /\ Writes[n][3] \in Nat
          /\ Writes[n][2] + Writes[n][3] <= 44
      BY Layout
    <2> QED
      BY <2>1 DEF kWireHeaderSize
  <1>2. C = {n}
    <2>1. n \in C
      BY <1>1, Layout
    <2>2. ASSUME NEW k \in C PROVE k = n
      <3>1. k \in 1 .. 10 /\ j - 1 - Writes[k][2] \in 0 .. Writes[k][3] - 1
        BY Layout
      <3>2. Writes[k][2] \in Nat /\ Writes[k][3] \in Nat
        BY <3>1, Layout
      <3>3. ~(k < n) /\ ~(n < k)
        <4>1. k < n => Writes[k][2] + Writes[k][3] <= Writes[n][2]
          BY <3>1, Layout
        <4>2. n < k => Writes[n][2] + Writes[n][3] <= Writes[k][2]
          BY <3>1, Layout
        <4> QED
          BY <1>1, <3>1, <3>2, <4>1, <4>2
      <3> QED
        BY <3>1, <3>3
    <2> QED
      BY <2>1, <2>2
  <1> HIDE DEF C
  <1>3. last = n
    BY <1>2
  <1>4. serialize_header(header)[j]
          = IF C = {} THEN 0
            ELSE write_le(header[Writes[last][1]], j - 1 - Writes[last][2])
    BY <1>1 DEF serialize_header, C
  <1>5. j - 1 - Writes[n][2] = i - 1
    BY <1>1
  <1> QED
    BY <1>2, <1>3, <1>4, <1>5

\* A header whose fields fit their integers is read as it was written.
LEMMA Codec ==
  ASSUME NEW header, header \in [Fields -> Nat],
         \A f \in Fields : header[f] \in Unsigned(FieldSize(f))
  PROVE  deserialize_header(serialize_header(header)) = {header}
  <1> DEFINE wire == serialize_header(header)
             at(f) == CHOOSE i \in DOMAIN Reads : Reads[i][1] = f
             read == [f \in Fields |-> read_le(wire, Reads[at(f)][2], Reads[at(f)][3])]
  <1>1. Len(wire) = kWireHeaderSize
    BY DEF serialize_header, kWireHeaderSize
  <1>2. deserialize_header(wire) = {read}
    BY <1>1 DEF deserialize_header
  <1>3. ASSUME NEW f \in Fields PROVE read[f] = header[f]
    <2>1. PICK n \in 1 .. 10 : Writes[n][1] = f
      BY Layout DEF Fields
    <2>2. at(f) = n /\ FieldSize(f) = Writes[n][3]
      BY <2>1, Layout DEF FieldSize
    <2>3. read[f] = read_le(wire, Writes[n][2], Writes[n][3])
      BY <2>2, Layout
    <2>4. \A i \in 1 .. Writes[n][3] :
            wire[Writes[n][2] + i] = write_le(header[f], i - 1)
      BY <2>1, FieldOnWire
    <2>5. header[f] \in Nat /\ Writes[n][2] \in Nat /\ Writes[n][3] \in Nat
      BY Layout
    <2> HIDE DEF wire
    <2>6. read_le(wire, Writes[n][2], Writes[n][3])
            = header[f] % Pow2[Writes[n][3] * ByteBits]
      BY <2>4, <2>5, ReadWritten
    <2>7. Pow2[Writes[n][3] * ByteBits] \in Nat \ {0}
      BY <2>5, Widths
    <2>8. header[f] \in 0 .. Pow2[Writes[n][3] * ByteBits] - 1
      BY <2>2 DEF Unsigned
    <2> HIDE DEF read
    <2> QED
      BY <2>3, <2>5, <2>6, <2>7, <2>8
  <1>4. read = header
    BY <1>3
  <1> QED
    BY <1>2, <1>4

\* The calls other than the one named leave its invariant alone.
Others(of) == call' = call \/ call'.of # of

\* Every call is one of these: the call returned, or a function was called.
LEMMA NextCall ==
  ASSUME Next \/ UNCHANGED call
  PROVE  /\ Others("codec") \/ CallCodec
         /\ Others("crc") \/ CallCrc
         /\ Others("exchange") \/ CallExchange
         /\ Others("latency") \/ CallLatency
         /\ Others("pixels") \/ CallPixels
         /\ Others("damage") \/ CallDamage
         /\ Others("fault") \/ CallFault
         /\ Others("fixture") \/ CallFixture
         /\ Others("load") \/ CallLoad
  <1>1. CASE UNCHANGED call
    BY <1>1 DEF Others
  <1>2. CASE Return
    BY <1>2 DEF Return, Others, Idle
  <1>3. CASE CallCodec
    BY <1>3 DEF CallCodec, Called, Others
  <1>4. CASE CallCrc
    BY <1>4 DEF CallCrc, Called, Others
  <1>5. CASE CallExchange
    BY <1>5 DEF CallExchange, Called, Others
  <1>6. CASE CallDamage
    <2>1. \E input, result : Called("damage", input, result)
      BY <1>6 DEF CallDamage
    <2> QED
      BY <1>6, <2>1 DEF Called, Others
  <1>7. CASE CallFault
    <2>1. \E input, result : Called("fault", input, result)
      BY <1>7 DEF CallFault
    <2> QED
      BY <1>7, <2>1 DEF Called, Others
  <1>8. CASE CallLatency
    BY <1>8 DEF CallLatency, Called, Others
  <1>9. CASE CallPixels
    BY <1>9 DEF CallPixels, Called, Others
  <1>10. CASE CallFixture
    BY <1>10 DEF CallFixture, Called, Others
  <1>11. CASE CallLoad
    <2>1. \E input, result : Called("load", input, result)
      BY <1>11 DEF CallLoad
    <2> QED
      BY <1>11, <2>1 DEF Called, Others
  <1> QED
    BY <1>1, <1>2, <1>3, <1>4, <1>5, <1>6, <1>7, <1>8, <1>9, <1>10, <1>11 DEF Next

\* Nothing was called at first.
LEMMA NothingCalled == Init => call.of = "none"
  BY DEF Init, Idle

\* deserialize_header(serialize_header(h)) is h, for every header whose fields
\* fit their integers and every width of a byte.
THEOREM HeaderRoundTripHolds == Spec => []HeaderRoundTrip
  <1>1. Init => HeaderRoundTrip
    BY NothingCalled DEF HeaderRoundTrip
  <1>2. HeaderRoundTrip /\ [Next]_call => HeaderRoundTrip'
    <2> SUFFICES ASSUME HeaderRoundTrip, Next \/ UNCHANGED call PROVE HeaderRoundTrip'
      OBVIOUS
    <2>1. CASE Others("codec")
      BY <2>1 DEF Others, HeaderRoundTrip
    <2>2. CASE CallCodec
      <3>1. PICK header \in Headers :
              Called("codec", header, deserialize_header(serialize_header(header)))
        BY <2>2 DEF CallCodec
      <3>2. deserialize_header(serialize_header(header)) = {header}
        BY InputsAssumption, Codec
      <3> QED
        BY <3>1, <3>2 DEF Called, HeaderRoundTrip
    <2> QED
      BY <2>1, <2>2, NextCall
  <1> QED
    BY <1>1, <1>2, PTL DEF Spec

-----------------------------------------------------------------------------
(* The conversions of an image.  *)

\* The saved colours of a pixel are those of BT.601 up to one step.
LEMMA ConvertNear ==
  ASSUME NEW y \in 0 .. 255, NEW u \in 0 .. 255, NEW v \in 0 .. 255
  PROVE  Near(convert(<<y, u, v>>), Exact601(y, u, v))
  <1> DEFINE c == y - 16
             d == u - 128
             e == v - 128
             limit(x) == IF x < 0 THEN 0 ELSE IF x > 255000000 THEN 255000000 ELSE x
             near(a, b) == a * 1000000 - b <= 1000000 /\ b - a * 1000000 <= 1000000
             p == convert(<<y, u, v>>)
             x == Exact601(y, u, v)
  <1>1. c \in -16 .. 239 /\ d \in -128 .. 127 /\ e \in -128 .. 127
    OBVIOUS
  <1>2. /\ p[1] = clamp_u8((298 * c + 409 * e + 128) \div 256)
        /\ p[2] = clamp_u8((298 * c - 100 * d - 208 * e + 128) \div 256)
        /\ p[3] = clamp_u8((298 * c + 516 * d + 128) \div 256)
    BY DEF convert, Rgb
  <1>3. /\ x[1] = limit(1164384 * c + 1596027 * e)
        /\ x[2] = limit(1164384 * c - 391762 * d - 812968 * e)
        /\ x[3] = limit(1164384 * c + 2017232 * d)
    BY DEF Exact601
  <1> HIDE DEF c, d, e, p, x
  <1>4. near(p[1], x[1])
    BY <1>1, <1>2, <1>3 DEF clamp_u8
  <1>5. near(p[2], x[2])
    BY <1>1, <1>2, <1>3 DEF clamp_u8
  <1>6. near(p[3], x[3])
    BY <1>1, <1>2, <1>3 DEF clamp_u8
  <1>7. \A i \in 1 .. 3 : i = 1 \/ i = 2 \/ i = 3
    OBVIOUS
  <1>8. Near(p, x)
    BY <1>4, <1>5, <1>6, <1>7 DEF Near
  <1> QED
    BY <1>8 DEF p, x

\* The published colours of a pixel are the saved ones, or brighter below
\* black.
LEMMA WritePixelAgrees ==
  ASSUME NEW y \in 0 .. 255, NEW u \in 0 .. 255, NEW v \in 0 .. 255, NEW i \in 1 .. 3
  PROVE  \/ write_pixel(<<y, u, v>>)[i] = convert(<<y, u, v>>)[i]
         \/ y < 16 /\ write_pixel(<<y, u, v>>)[i] > convert(<<y, u, v>>)[i]
  <1> DEFINE c == y - 16
             b == IF y > 16 THEN y - 16 ELSE 0
             d == u - 128
             e == v - 128
  <1>1. /\ write_pixel(<<y, u, v>>) = Rgb(b, d, e)
        /\ convert(<<y, u, v>>) = Rgb(c, d, e)
    BY DEF write_pixel, convert
  <1>2. CASE y >= 16
    <2>1. b = c
      BY <1>2
    <2> QED
      BY <1>1, <2>1
  <1>3. CASE y < 16
    <2>1. b = 0 /\ c \in -16 .. -1 /\ d \in -128 .. 127 /\ e \in -128 .. 127
      BY <1>3
    <2> HIDE DEF b, c, d, e
    <2>2. i = 1 \/ i = 2 \/ i = 3
      OBVIOUS
    <2>3. Rgb(b, d, e)[i] >= Rgb(c, d, e)[i] /\ Rgb(b, d, e)[i] \in Int /\ Rgb(c, d, e)[i] \in Int
      BY <2>1, <2>2 DEF Rgb, clamp_u8
    <2> QED
      BY <1>1, <1>3, <2>3
  <1> QED
    BY <1>2, <1>3

\* The data holds pixel k of an image of n pixels, and its partner.
HasPixel(data, n, k) ==
  data \in Seq(0 .. 255) /\ n \in Nat /\ Len(data) >= 2 * n /\ k \in 1 .. 2 * (n \div 2)

\* The bytes of a pixel that the data holds.
LEMMA PixelBytes ==
  ASSUME NEW data, NEW n, NEW k, HasPixel(data, n, k)
  PROVE  /\ Pixel(data, k - 1) = <<Y(data, k), U(data, k), V(data, k)>>
         /\ Y(data, k) \in 0 .. 255 /\ U(data, k) \in 0 .. 255 /\ V(data, k) \in 0 .. 255
  <1> DEFINE q == (k - 1) \div 2
             r == (k - 1) % 2
             m == n \div 2
  <1>1. k \in Nat /\ q \in Nat /\ r \in 0 .. 1 /\ k - 1 = 2 * q + r
    BY DEF HasPixel
  <1>2. m \in Nat /\ 2 * m <= n /\ k <= 2 * m
    BY DEF HasPixel
  <1>3. n \in Nat /\ Len(data) \in Nat /\ Len(data) >= 2 * n
    BY DEF HasPixel
  <1>4. \A j \in 1 .. Len(data) : data[j] \in 0 .. 255
    BY ElementOfSeq DEF HasPixel
  <1>5. /\ Y(data, k) = data[4 * q + 1 + 2 * r] /\ U(data, k) = data[4 * q + 2]
        /\ V(data, k) = data[4 * q + 4]
    BY DEF Y, U, V
  <1>6. Pixel(data, k - 1) = <<Y(data, k), U(data, k), V(data, k)>>
    BY DEF Pixel, Y, U, V
  <1> HIDE DEF q, r, m
  <1>7. q + 1 <= m
    BY <1>1, <1>2
  <1>8. /\ 4 * q + 1 + 2 * r \in 1 .. Len(data)
        /\ 4 * q + 2 \in 1 .. Len(data) /\ 4 * q + 4 \in 1 .. Len(data)
    BY <1>1, <1>2, <1>3, <1>7
  <1> QED
    BY <1>4, <1>5, <1>6, <1>8, ZenonT(40)

\* The result of converting data for both topics and saving it.
Converted(data, width, height) ==
  [rgb |-> convert_yuyv_to_rgb8(data, width, height),
   mono |-> convert_yuyv_to_mono8(data, width, height),
   files |-> save_frame_to_files(data, width, height, "YUYV")]

\* The three images that are made of the data of a frame.
LEMMA ImagesOfData ==
  ASSUME NEW data \in Seq(0 .. 255), NEW width \in Nat, NEW height \in Nat
  PROVE  ImagesCorrect(data, width, height, Converted(data, width, height))
  <1> DEFINE out == Converted(data, width, height)
             pixels == width * height
             rgb == convert_yuyv_to_rgb8(data, width, height)
             mono == convert_yuyv_to_mono8(data, width, height)
             files == save_frame_to_files(data, width, height, "YUYV")
             published == width % 2 = 0 /\ Len(data) = 2 * pixels
             saved == data # <<>> /\ pixels # 0 /\ Len(data) >= 2 * pixels
             pairs == 1 .. 2 * (pixels \div 2)
  <1>1. /\ pixels \in Nat /\ (pixels = 0 <=> width = 0 \/ height = 0)
        /\ width * height * 2 = 2 * pixels
    OBVIOUS
  <1>2. SizeMatches(data, width, height) <=> published
    BY <1>1 DEF SizeMatches
  <1>3. /\ rgb = IF published THEN [k \in 1 .. pixels |-> write_pixel(Pixel(data, k - 1))]
                              ELSE <<>>
        /\ mono = IF published THEN [k \in 1 .. pixels |-> Pixel(data, k - 1)[1]] ELSE <<>>
    BY <1>2 DEF convert_yuyv_to_rgb8, convert_yuyv_to_mono8
  <1>4. /\ files.raw = IF data = <<>> \/ pixels = 0 THEN <<>> ELSE data
        /\ files.ppm = IF saved THEN [k \in 1 .. pixels |->
                                        IF k - 1 < 2 * (pixels \div 2)
                                          THEN convert(Pixel(data, k - 1)) ELSE <<0, 0, 0>>]
                                ELSE <<>>
    BY <1>1 DEF save_frame_to_files, yuyv_to_rgb
  <1>5. pixels \in Nat /\ Len(data) \in Nat
    BY <1>1
  <1> HIDE DEF rgb, mono, files, pixels
  <1>6. Len(rgb) = (IF published THEN pixels ELSE 0)
    BY <1>3, <1>5
  <1>7. mono = [k \in 1 .. Len(rgb) |-> Y(data, k)]
    <2>1. CASE published
      <3>1. \A k \in 1 .. pixels : Pixel(data, k - 1)[1] = Y(data, k)
        BY DEF Pixel, Y
      <3>2. Len(rgb) = pixels
        BY <1>6, <2>1
      <3> QED
        BY <1>3, <2>1, <3>1, <3>2
    <2>2. CASE ~published
      <3>1. Len(rgb) = 0 /\ mono = <<>>
        BY <1>3, <1>6, <2>2
      <3> QED
        BY <3>1
    <2> QED
      BY <2>1, <2>2
  <1>8. pixels # 0 => files.raw = data
    BY <1>4
  <1>9. Len(files.ppm) = (IF saved THEN pixels ELSE 0)
    BY <1>4, <1>5
  <1>10. ASSUME saved, NEW k \in pairs
         PROVE  /\ Near(files.ppm[k], Exact601(Y(data, k), U(data, k), V(data, k)))
                /\ published => \A i \in 1 .. 3 :
                     \/ rgb[k][i] = files.ppm[k][i]
                     \/ Y(data, k) < 16 /\ rgb[k][i] > files.ppm[k][i]
    <2>0. HasPixel(data, pixels, k)
      BY <1>5, <1>10 DEF HasPixel
    <2>1. /\ Pixel(data, k - 1) = <<Y(data, k), U(data, k), V(data, k)>>
          /\ Y(data, k) \in 0 .. 255 /\ U(data, k) \in 0 .. 255 /\ V(data, k) \in 0 .. 255
      BY <2>0, PixelBytes
    <2>2. k \in 1 .. pixels /\ k - 1 < 2 * (pixels \div 2)
      BY <1>5
    <2>3. files.ppm[k] = convert(<<Y(data, k), U(data, k), V(data, k)>>)
      BY <1>4, <1>10, <2>1, <2>2
    <2>4. published => rgb[k] = write_pixel(<<Y(data, k), U(data, k), V(data, k)>>)
      BY <1>3, <2>1, <2>2
    <2>5. Near(files.ppm[k], Exact601(Y(data, k), U(data, k), V(data, k)))
      BY <2>1, <2>3, ConvertNear, ZenonT(40)
    <2>6. \A i \in 1 .. 3 :
            \/ write_pixel(<<Y(data, k), U(data, k), V(data, k)>>)[i]
                 = convert(<<Y(data, k), U(data, k), V(data, k)>>)[i]
            \/ /\ Y(data, k) < 16
               /\ write_pixel(<<Y(data, k), U(data, k), V(data, k)>>)[i]
                    > convert(<<Y(data, k), U(data, k), V(data, k)>>)[i]
      BY <2>1, WritePixelAgrees
    <2> QED
      BY <2>3, <2>4, <2>5, <2>6
  <1>11. out.rgb = rgb /\ out.mono = mono /\ out.files = files
    BY DEF Converted, rgb, mono, files
  <1> HIDE DEF out
  <1>12. ImagesCorrect(data, width, height, out)
    BY <1>6, <1>7, <1>8, <1>9, <1>10, <1>11 DEF ImagesCorrect, pixels
  <1> QED
    BY <1>12 DEF out

\* For every image and size, complete or cut: the colours published and saved
\* are those of BT.601, and a frame whose size does not match is published in
\* no form.
THEOREM ImagesAgreeHolds == Spec => []ImagesAgree
  <1>1. Init => ImagesAgree
    BY NothingCalled DEF ImagesAgree
  <1>2. ImagesAgree /\ [Next]_call => ImagesAgree'
    <2> SUFFICES ASSUME ImagesAgree, Next \/ UNCHANGED call PROVE ImagesAgree'
      OBVIOUS
    <2>1. CASE Others("pixels")
      BY <2>1 DEF Others, ImagesAgree
    <2>2. CASE CallPixels
      <3>1. PICK data \in Images, size \in ImageSizes :
              Called("pixels", [data |-> data, size |-> size],
                     Converted(data, size[1], size[2]))
        BY <2>2 DEF CallPixels, Converted
      <3>2. data \in Seq(0 .. 255) /\ size[1] \in Nat /\ size[2] \in Nat
        BY InputsAssumption
      <3>3. call'.in.data = data /\ call'.in.size = size
            /\ call'.out = Converted(data, size[1], size[2])
        BY <3>1 DEF Called
      <3> QED
        BY <3>2, <3>3, ImagesOfData DEF ImagesAgree
    <2> QED
      BY <2>1, <2>2, NextCall
  <1> QED
    BY <1>1, <1>2, PTL DEF Spec

-----------------------------------------------------------------------------
(* The checks of the receiver.  *)

\* A check of the list fails.
Fails(header, max, i) == HeaderChecks(header, max)[i][1]

\* The list of the checks.
LEMMA ChecksListed ==
  ASSUME NEW header, NEW max
  PROVE  LET yuyv == header.pixel_format = V4L2_PIX_FMT_YUYV
             expected == (header.width * header.height * 2) % Pow2[8 * ByteBits]
         IN  /\ DOMAIN HeaderChecks(header, max) = 1 .. 13
             /\ \A i \in 1 .. 13 : HeaderChecks(header, max)[i][2] # ""
             /\ Fails(header, max, 1) <=> max = 0
             /\ Fails(header, max, 2) <=> header.magic # kMagic
             /\ Fails(header, max, 3) <=> header.header_size # kWireHeaderSize
             /\ Fails(header, max, 4) <=> header.version # kVersion
             /\ Fails(header, max, 5) <=> header.capture_timestamp_ns = 0
             /\ Fails(header, max, 6) <=> header.width = 0 \/ header.height = 0
             /\ Fails(header, max, 7) <=> \/ header.width > kMaxDimension
                                          \/ header.height > kMaxDimension
             /\ Fails(header, max, 8) <=> header.pixel_format = 0
             /\ Fails(header, max, 9) <=> header.payload_size = 0
             /\ Fails(header, max, 10) <=> header.payload_size > max
             /\ Fails(header, max, 11) <=> yuyv /\ header.width % 2 # 0
             /\ Fails(header, max, 12) <=> yuyv /\ expected >= Pow2[4 * ByteBits]
             /\ Fails(header, max, 13) <=> yuyv /\ header.payload_size # expected
  <1>1. \A i \in 1 .. 13 : i \in {1, 2, 3, 4, 5, 6, 7, 8, 9, 10, 11, 12, 13}
    OBVIOUS
  <1>2. \A i \in 1 .. 13 : HeaderChecks(header, max)[i][2] # ""
    <2> DEFINE checks == HeaderChecks(header, max)
    <2>1. /\ checks[1][2] # "" /\ checks[2][2] # "" /\ checks[3][2] # "" /\ checks[4][2] # ""
          /\ checks[5][2] # "" /\ checks[6][2] # "" /\ checks[7][2] # "" /\ checks[8][2] # ""
          /\ checks[9][2] # "" /\ checks[10][2] # "" /\ checks[11][2] # ""
          /\ checks[12][2] # "" /\ checks[13][2] # ""
      BY DEF HeaderChecks
    <2> HIDE DEF checks
    <2>2. \A i \in 1 .. 13 : checks[i][2] # ""
      BY <1>1, <2>1
    <2> QED
      BY <2>2 DEF checks
  <1>3. DOMAIN HeaderChecks(header, max) = 1 .. 13
    BY DEF HeaderChecks
  <1> QED
    BY <1>2, <1>3 DEF HeaderChecks, Fails

\* A header is refused when a check fails, and only then.
LEMMA Refused ==
  ASSUME NEW header, NEW max
  PROVE  validate_header(header, max) # "" <=> \E i \in 1 .. 13 : Fails(header, max, i)
  <1> DEFINE checks == HeaderChecks(header, max)
             first(i) == checks[i][1] /\ \A j \in 1 .. i - 1 : ~checks[j][1]
             S == {i \in 1 .. 13 : checks[i][1]}
  <1>1. DOMAIN checks = 1 .. 13 /\ \A i \in 1 .. 13 : checks[i][2] # ""
    BY ChecksListed
  <1>2. validate_header(header, max)
          = IF \E i \in DOMAIN checks : checks[i][1]
              THEN checks[CHOOSE i \in DOMAIN checks : first(i)][2] ELSE ""
    BY DEF validate_header, FirstFailure
  <1>3. ASSUME NEW i \in 1 .. 13, checks[i][1] PROVE \E k \in 1 .. 13 : first(k)
    <2>1. S \in SUBSET Nat /\ S # {}
      BY <1>3
    <2>2. PICK k \in S : \A n \in S : k <= n
      <3> HIDE DEF S
      <3> QED
        BY <2>1, Smallest
    <2>3. k \in 1 .. 13 /\ first(k)
      BY <2>2
    <2> QED
      BY <2>3
  <1> HIDE DEF checks
  <1>4. (\E k \in 1 .. 13 : first(k)) => (CHOOSE i \in DOMAIN checks : first(i)) \in 1 .. 13
    BY <1>1
  <1>5. (\E i \in 1 .. 13 : checks[i][1]) <=> \E i \in 1 .. 13 : Fails(header, max, i)
    BY DEF checks, Fails
  <1> QED
    BY <1>1, <1>2, <1>3, <1>4, <1>5

\* The fields and the sizes of their integers.
LEMMA FieldsListed ==
  /\ Fields = {"magic", "header_size", "version", "frame_id", "capture_timestamp_ns",
               "width", "height", "pixel_format", "payload_size", "payload_crc32"}
  /\ FieldSize("magic") = 4 /\ FieldSize("header_size") = 2 /\ FieldSize("version") = 2
  /\ FieldSize("frame_id") = 8 /\ FieldSize("capture_timestamp_ns") = 8
  /\ FieldSize("width") = 4 /\ FieldSize("height") = 4 /\ FieldSize("pixel_format") = 4
  /\ FieldSize("payload_size") = 4 /\ FieldSize("payload_crc32") = 4
  <1>1. /\ Writes[1] = <<"magic", 0, 4>> /\ Writes[2] = <<"header_size", 4, 2>>
        /\ Writes[3] = <<"version", 6, 2>> /\ Writes[4] = <<"frame_id", 8, 8>>
        /\ Writes[5] = <<"capture_timestamp_ns", 16, 8>> /\ Writes[6] = <<"width", 24, 4>>
        /\ Writes[7] = <<"height", 28, 4>> /\ Writes[8] = <<"pixel_format", 32, 4>>
        /\ Writes[9] = <<"payload_size", 36, 4>> /\ Writes[10] = <<"payload_crc32", 40, 4>>
    BY DEF Writes
  <1>2. DOMAIN Writes = {1, 2, 3, 4, 5, 6, 7, 8, 9, 10}
    BY Layout
  <1>3. ASSUME NEW n \in 1 .. 10 PROVE FieldSize(Writes[n][1]) = Writes[n][3]
    <2>1. \A i \in DOMAIN Writes : Writes[i][1] = Writes[n][1] => i = n
      BY Layout
    <2>2. n \in DOMAIN Writes
      BY Layout
    <2>3. (CHOOSE i \in DOMAIN Writes : Writes[i][1] = Writes[n][1]) = n
      BY <2>1, <2>2
    <2> QED
      BY <2>3 DEF FieldSize
  <1>4. Fields = {Writes[1][1], Writes[2][1], Writes[3][1], Writes[4][1], Writes[5][1],
                  Writes[6][1], Writes[7][1], Writes[8][1], Writes[9][1], Writes[10][1]}
    BY <1>2 DEF Fields
  <1>5. Fields = {"magic", "header_size", "version", "frame_id", "capture_timestamp_ns",
                  "width", "height", "pixel_format", "payload_size", "payload_crc32"}
    BY <1>1, <1>4
  <1>6. /\ FieldSize(Writes[1][1]) = Writes[1][3] /\ FieldSize(Writes[2][1]) = Writes[2][3]
        /\ FieldSize(Writes[3][1]) = Writes[3][3] /\ FieldSize(Writes[4][1]) = Writes[4][3]
        /\ FieldSize(Writes[5][1]) = Writes[5][3] /\ FieldSize(Writes[6][1]) = Writes[6][3]
        /\ FieldSize(Writes[7][1]) = Writes[7][3] /\ FieldSize(Writes[8][1]) = Writes[8][3]
        /\ FieldSize(Writes[9][1]) = Writes[9][3] /\ FieldSize(Writes[10][1]) = Writes[10][3]
    BY <1>3
  <1> QED
    BY <1>1, <1>5, <1>6

\* The integer of a bit pattern, from its highest bit.
Horner(crc, value) ==
  /\ value[0] = 0
  /\ \A i \in 1 .. WordBits :
       value[i] = 2 * value[i - 1] + (IF WordBits - i \in crc THEN 1 ELSE 0)
  /\ \A i \in 0 .. WordBits : value[i] \in 0 .. Pow2[i] - 1

\* compute_crc32 is the integer of the bits of the checksum.
LEMMA ChecksumValue ==
  ASSUME NEW bytes
  PROVE  \E value : Horner(CrcBits(bytes), value) /\ compute_crc32(bytes) = value[WordBits]
  <1> DEFINE crc == CrcBits(bytes)
             bit(i) == IF WordBits - i \in crc THEN 1 ELSE 0
             Q(g) == g = [i \in 0 .. WordBits |-> IF i = 0 THEN 0 ELSE 2 * g[i - 1] + bit(i)]
             value == CHOOSE g : Q(g)
             step == [p \in Nat \X Nat |-> 2 * p[2] + bit(p[1] + 1)]
  <1>1. compute_crc32(bytes) = value[WordBits]
    BY DEF compute_crc32
  <1>2. \A i \in Nat : bit(i) \in 0 .. 1
    OBVIOUS
  <1>3. WordBits \in Nat /\ WordBits = 4 * ByteBits
    BY Widths DEF WordBits
  <1> HIDE DEF bit
  <1>4. IsStep(Nat, 0, step) /\ \A i, x \in Nat : step[<<i, x>>] = 2 * x + bit(i + 1)
    BY <1>2 DEF IsStep
  <1> HIDE DEF step
  <1>5. PICK g : Iterates(Nat, 0, step, g)
    BY <1>4, Iteration
  <1>6. g \in [Nat -> Nat] /\ g[0] = 0 /\ \A i \in Nat : g[i + 1] = 2 * g[i] + bit(i + 1)
    BY <1>4, <1>5 DEF Iterates
  <1> DEFINE G == [i \in 0 .. WordBits |-> g[i]]
  <1>7. Q(G)
    <2>1. ASSUME NEW i \in 1 .. WordBits PROVE g[i] = 2 * g[i - 1] + bit(i)
      <3>1. i - 1 \in Nat /\ (i - 1) + 1 = i
        OBVIOUS
      <3> QED
        BY <1>6, <3>1
    <2>2. \A i \in 1 .. WordBits : i - 1 \in 0 .. WordBits /\ G[i - 1] = g[i - 1]
      BY <1>3
    <2>3. \A i \in 0 .. WordBits : g[i] = IF i = 0 THEN 0 ELSE 2 * G[i - 1] + bit(i)
      <3>1. \A i \in 0 .. WordBits : i = 0 \/ i \in 1 .. WordBits
        BY <1>3
      <3> HIDE DEF G
      <3> QED
        BY <1>6, <2>1, <2>2, <3>1
    <2> QED
      BY <2>3
  <1>8. Q(value)
    BY <1>7
  <1> HIDE DEF value
  <1> DEFINE T == {i \in Nat : i <= WordBits => value[i] \in 0 .. Pow2[i] - 1}
  <1>9. T \in SUBSET Nat /\ 0 \in T
    <2>1. value[0] = 0
      BY <1>3, <1>8
    <2>2. 0 \in 0 .. Pow2[0] - 1
      BY Pow2Def
    <2> QED
      BY <2>1, <2>2
  <1>10. ASSUME NEW i \in T PROVE i + 1 \in T
    <2>1. i \in Nat /\ (i <= WordBits => value[i] \in 0 .. Pow2[i] - 1)
      OBVIOUS
    <2>2. ASSUME i + 1 <= WordBits PROVE value[i + 1] \in 0 .. Pow2[i + 1] - 1
      <3>1. i + 1 \in 0 .. WordBits /\ (i + 1) - 1 = i /\ i + 1 # 0 /\ i + 1 \in Nat
        BY <1>3, <2>1, <2>2
      <3>2. value[i + 1] = 2 * value[i] + bit(i + 1)
        BY <1>8, <3>1
      <3>3. value[i] \in 0 .. Pow2[i] - 1 /\ bit(i + 1) \in 0 .. 1
        BY <1>2, <1>3, <2>1, <2>2, <3>1
      <3>4. Pow2[i] \in Nat /\ Pow2[i + 1] = 2 * Pow2[i]
        BY <2>1, Pow2Def
      <3> QED
        BY <3>2, <3>3, <3>4
    <2> QED
      BY <2>1, <2>2
  <1> HIDE DEF T
  <1>11. T = Nat
    BY <1>9, <1>10, Induction
  <1>12. \A i \in 0 .. WordBits : value[i] \in 0 .. Pow2[i] - 1
    BY <1>3, <1>11 DEF T
  <1>13. value[0] = 0 /\ \A i \in 1 .. WordBits : value[i] = 2 * value[i - 1] + bit(i)
    BY <1>3, <1>8
  <1>14. Horner(crc, value)
    BY <1>12, <1>13 DEF Horner, bit
  <1> QED
    BY <1>1, <1>14

\* The checksum fits its field.
LEMMA ChecksumFits ==
  ASSUME NEW bytes
  PROVE  compute_crc32(bytes) \in Unsigned(4)
  <1>1. PICK value : Horner(CrcBits(bytes), value) /\ compute_crc32(bytes) = value[WordBits]
    BY ChecksumValue
  <1>2. WordBits \in 0 .. WordBits /\ WordBits = 4 * ByteBits
    BY Widths DEF WordBits
  <1>3. value[WordBits] \in 0 .. Pow2[WordBits] - 1
    BY <1>1, <1>2 DEF Horner
  <1> QED
    BY <1>1, <1>2, <1>3 DEF Unsigned

-----------------------------------------------------------------------------
(* A frame from the pipeline to the receiver.  *)

\* The parts of a concatenation.
LEMMA Parts ==
  ASSUME NEW S, NEW s \in Seq(S), NEW t \in Seq(S)
  PROVE  /\ SubSeq(s \o t, 1, Len(s)) = s
         /\ SubSeq(s \o t, Len(s) + 1, Len(s \o t)) = t
         /\ SubSeq(t, 1, Len(t)) = t
  <1> DEFINE c == s \o t
             a == SubSeq(c, 1, Len(s))
             b == SubSeq(c, Len(s) + 1, Len(c))
  <1>1. /\ c \in Seq(S) /\ Len(c) = Len(s) + Len(t) /\ Len(s) \in Nat /\ Len(t) \in Nat
        /\ \A i \in 1 .. Len(s) + Len(t) :
             c[i] = IF i <= Len(s) THEN s[i] ELSE t[i - Len(s)]
    BY ConcatProperties, LenProperties
  <1>2. \A i \in 1 .. Len(c) : c[i] \in S
    BY <1>1, ElementOfSeq
  <1> HIDE DEF c
  <1>3. a \in Seq(S) /\ Len(a) = Len(s) /\ \A i \in 1 .. Len(s) : a[i] = s[i]
    <2>1. \A i \in 1 .. Len(s) : c[i] \in S
      BY <1>1, <1>2
    <2>2. /\ a \in Seq(S) /\ Len(a) = IF 1 <= Len(s) THEN Len(s) - 1 + 1 ELSE 0
          /\ \A i \in 1 .. Len(s) - 1 + 1 : a[i] = c[1 + i - 1]
      BY <1>1, <2>1, SubSeqProperties
    <2>3. \A i \in 1 .. Len(s) : i \in 1 .. Len(s) - 1 + 1 /\ 1 + i - 1 = i
      BY <1>1
    <2> QED
      BY <1>1, <2>2, <2>3
  <1>4. b \in Seq(S) /\ Len(b) = Len(t) /\ \A i \in 1 .. Len(t) : b[i] = t[i]
    <2> DEFINE m == Len(s) + 1
               n == Len(c)
    <2>1. m \in Int /\ n \in Int /\ \A i \in m .. n : c[i] \in S
      BY <1>1, <1>2
    <2>2. /\ b \in Seq(S) /\ Len(b) = IF m <= n THEN n - m + 1 ELSE 0
          /\ \A i \in 1 .. n - m + 1 : b[i] = c[m + i - 1]
      BY <2>1, SubSeqProperties
    <2>3. n - m + 1 = Len(t)
      BY <1>1
    <2>4. ASSUME NEW i \in 1 .. Len(t) PROVE b[i] = t[i]
      <3>1. m + i - 1 \in 1 .. Len(s) + Len(t) /\ ~(m + i - 1 <= Len(s))
            /\ (m + i - 1) - Len(s) = i
        BY <1>1
      <3>2. c[m + i - 1] = t[i]
        BY <1>1, <3>1
      <3> QED
        BY <2>2, <2>3, <3>2
    <2> QED
      BY <1>1, <2>2, <2>3, <2>4
  <1> HIDE DEF a, b
  <1>5. a = s /\ b = t
    BY <1>3, <1>4, SeqEqual
  <1>6. SubSeq(t, 1, Len(t)) = t
    BY SubSeqFull
  <1> QED
    BY <1>5, <1>6 DEF a, b, c

\* A function on 1 .. n is a sequence of length n.
LEMMA FunctionIsSeq ==
  ASSUME NEW S, NEW n \in Nat, NEW f \in [1 .. n -> S]
  PROVE  f \in Seq(S) /\ Len(f) = n
  <1>1. f \in Seq(S)
    BY SeqDef
  <1> QED
    BY <1>1, LenProperties

\* The encoded header is a sequence of 44 bytes.
LEMMA WireType ==
  ASSUME NEW header \in [Fields -> Nat]
  PROVE  /\ serialize_header(header) \in Seq(0 .. Base - 1)
         /\ Len(serialize_header(header)) = kWireHeaderSize
  <1> DEFINE wire == serialize_header(header)
  <1>1. wire = [j \in 1 .. 44 |-> wire[j]]
    <2> DEFINE byte(j) ==
                 LET covering == {i \in DOMAIN Writes :
                                    j - 1 - Writes[i][2] \in 0 .. Writes[i][3] - 1}
                     w == Writes[CHOOSE i \in covering : \A k \in covering : k <= i]
                 IN  IF covering = {} THEN 0 ELSE write_le(header[w[1]], j - 1 - w[2])
    <2>1. wire = [j \in 1 .. 44 |-> byte(j)]
      BY DEF serialize_header, kWireHeaderSize
    <2> HIDE DEF byte, wire
    <2> QED
      BY <2>1
  <1>2. ASSUME NEW j \in 1 .. 44 PROVE wire[j] \in 0 .. Base - 1
    <2>1. /\ Writes[1] = <<"magic", 0, 4>> /\ Writes[2] = <<"header_size", 4, 2>>
          /\ Writes[3] = <<"version", 6, 2>> /\ Writes[4] = <<"frame_id", 8, 8>>
          /\ Writes[5] = <<"capture_timestamp_ns", 16, 8>> /\ Writes[6] = <<"width", 24, 4>>
          /\ Writes[7] = <<"height", 28, 4>> /\ Writes[8] = <<"pixel_format", 32, 4>>
          /\ Writes[9] = <<"payload_size", 36, 4>> /\ Writes[10] = <<"payload_crc32", 40, 4>>
      BY DEF Writes
    <2>2. PICK n \in 1 .. 10 : j - Writes[n][2] \in 1 .. Writes[n][3]
      BY <2>1
    <2> DEFINE i == j - Writes[n][2]
               v == header[Writes[n][1]]
    <2>3. Writes[n][2] \in Nat /\ Writes[n][2] + i = j
      BY Layout
    <2>4. wire[j] = write_le(v, i - 1)
      BY <2>2, <2>3, FieldOnWire
    <2>5. v \in Nat
      BY Layout DEF Fields
    <2>6. i - 1 \in Nat
      BY <2>2, Layout
    <2> HIDE DEF i, v
    <2>7. Pow2[(i - 1) * ByteBits] \in Nat \ {0} /\ Base \in Nat \ {0}
      BY <2>6, Widths
    <2>8. \A p, q \in Nat \ {0} : (v \div p) % q \in 0 .. q - 1
      BY <2>5
    <2> QED
      BY <2>4, <2>7, <2>8 DEF write_le
  <1> HIDE DEF wire
  <1>3. wire \in [1 .. 44 -> 0 .. Base - 1]
    BY <1>1, <1>2
  <1>4. wire \in Seq(0 .. Base - 1) /\ Len(wire) = 44
    <2>1. \A S : \A n \in Nat : \A f \in [1 .. n -> S] : f \in Seq(S) /\ Len(f) = n
      BY FunctionIsSeq
    <2> DEFINE Byte == 0 .. Base - 1
               size == 44
    <2>2. size \in Nat /\ wire \in [1 .. size -> Byte]
      BY <1>3
    <2> HIDE DEF Byte, size
    <2>3. wire \in Seq(Byte) /\ Len(wire) = size
      BY <2>1, <2>2
    <2> QED
      BY <2>3 DEF Byte, size
  <1> QED
    BY <1>4 DEF wire, kWireHeaderSize

\* The header is as the codec expects it.
WellFormed(header) ==
  /\ header \in [Fields -> Nat]
  /\ \A f \in Fields : header[f] \in Unsigned(FieldSize(f))

\* The verdict of the receiver on a header and the bytes behind it.
Verdict(header, data, max) ==
  LET reason == validate_header(header, max)
      payload == SubSeq(data, 1, header.payload_size)
      refused(r) == [reason |-> r, header |-> header, payload |-> <<>>]
  IN  IF reason # "" THEN refused(reason)
      ELSE IF Len(data) < header.payload_size THEN refused("peer closed")
      ELSE IF compute_crc32(payload) # header.payload_crc32 THEN refused("crc mismatch")
      ELSE [reason |-> "", header |-> header, payload |-> payload]

\* Receive gives that verdict on the header that the first 44 bytes decode to.
LEMMA Received ==
  ASSUME NEW head \in Seq(0 .. Base - 1), Len(head) = kWireHeaderSize, NEW header,
         deserialize_header(head) = {header}, NEW data \in Seq(0 .. Base - 1), NEW max
  PROVE  Receive(head \o data, max) = Verdict(header, data, max)
  <1> DEFINE bytes == head \o data
             decoded == CHOOSE h \in deserialize_header(
                                       SubSeq(bytes, 1, kWireHeaderSize)) : TRUE
             rest == SubSeq(bytes, kWireHeaderSize + 1, Len(bytes))
  <1>1. SubSeq(bytes, 1, kWireHeaderSize) = head /\ rest = data
    <2>1. /\ SubSeq(head \o data, 1, Len(head)) = head
          /\ SubSeq(head \o data, Len(head) + 1, Len(head \o data)) = data
      BY Parts
    <2> QED
      BY <2>1
  <1>2. decoded = header
    <2> DEFINE D == deserialize_header(SubSeq(bytes, 1, kWireHeaderSize))
    <2>1. D = {header}
      BY <1>1
    <2>2. decoded = CHOOSE h \in D : TRUE
      OBVIOUS
    <2> HIDE DEF D, decoded
    <2>3. (CHOOSE h \in D : TRUE) \in D
      BY <2>1
    <2> QED
      BY <2>1, <2>2, <2>3
  <1>3. Receive(bytes, max) = Verdict(decoded, rest, max)
    BY DEF Receive, Verdict
  <1> HIDE DEF decoded, rest
  <1> QED
    BY <1>1, <1>2, <1>3

\* In particular on a header that a sender encoded.
LEMMA ReceivedEncoded ==
  ASSUME NEW header, WellFormed(header), NEW data \in Seq(0 .. Base - 1), NEW max
  PROVE  Receive(serialize_header(header) \o data, max) = Verdict(header, data, max)
  <1>1. header \in [Fields -> Nat]
    BY DEF WellFormed
  <1>2. /\ serialize_header(header) \in Seq(0 .. Base - 1)
        /\ Len(serialize_header(header)) = kWireHeaderSize
    BY <1>1, WireType
  <1>3. deserialize_header(serialize_header(header)) = {header}
    BY Codec DEF WellFormed
  <1> QED
    BY <1>2, <1>3, Received

\* The header of a captured frame.
HeaderOf(frame) ==
  make_header(frame.sequence, frame.capture_timestamp_ns, frame.width, frame.height,
              frame.pixel_format, Len(frame.data), compute_crc32(frame.data))

\* A frame whose fields fit their integers.
FrameFits(frame) ==
  /\ {frame.width, frame.height, frame.pixel_format} \subseteq Unsigned(4)
  /\ {frame.sequence, frame.capture_timestamp_ns} \subseteq Unsigned(8)
  /\ frame.data \in Seq(0 .. Base - 1)
  /\ Len(frame.data) \in Unsigned(4)

\* The header that the senders make is well formed.
LEMMA MadeWellFormed ==
  ASSUME NEW id \in Unsigned(8), NEW now \in Unsigned(8), NEW width \in Unsigned(4),
         NEW height \in Unsigned(4), NEW format \in Unsigned(4), NEW size \in Unsigned(4),
         NEW crc \in Unsigned(4)
  PROVE  WellFormed(make_header(id, now, width, height, format, size, crc))
  <1> DEFINE header == make_header(id, now, width, height, format, size, crc)
  <1>1. \A k \in Nat : Unsigned(k) \subseteq Nat
    BY Widths DEF Unsigned
  <1>2. kMagic \in Unsigned(4) /\ kWireHeaderSize \in Unsigned(2) /\ kVersion \in Unsigned(2)
    <2>1. Pow2[2 * ByteBits] \in Nat
      BY Widths
    <2> QED
      BY <2>1, ProtocolAssumption DEF Unsigned
  <1>3. \A f \in Fields : header[f] \in Unsigned(FieldSize(f))
    BY <1>2, FieldsListed DEF make_header
  <1>4. \A f \in Fields : FieldSize(f) \in Nat
    BY FieldsListed
  <1>5. header = [f \in Fields |-> header[f]]
    BY FieldsListed DEF make_header
  <1>6. header \in [Fields -> Nat]
    <2> HIDE DEF header
    <2> QED
      BY <1>1, <1>3, <1>4, <1>5
  <1> QED
    BY <1>3, <1>6 DEF WellFormed

\* The fields of that header.
LEMMA HeaderOfFrame ==
  ASSUME NEW frame, FrameFits(frame)
  PROVE  /\ WellFormed(HeaderOf(frame))
         /\ HeaderOf(frame).magic = kMagic /\ HeaderOf(frame).version = kVersion
         /\ HeaderOf(frame).header_size = kWireHeaderSize
         /\ HeaderOf(frame).frame_id = frame.sequence
         /\ HeaderOf(frame).capture_timestamp_ns = frame.capture_timestamp_ns
         /\ HeaderOf(frame).width = frame.width /\ HeaderOf(frame).height = frame.height
         /\ HeaderOf(frame).pixel_format = frame.pixel_format
         /\ HeaderOf(frame).payload_size = Len(frame.data)
         /\ HeaderOf(frame).payload_crc32 = compute_crc32(frame.data)
  <1>1. WellFormed(HeaderOf(frame))
    BY MadeWellFormed, ChecksumFits DEF HeaderOf, FrameFits
  <1> QED
    BY <1>1 DEF HeaderOf, make_header

\* The receiver refuses exactly the frames that the two ends disagree about.
LEMMA RefusedIffDisputed ==
  ASSUME NEW frame, FrameFits(frame), is_frame_usable(frame),
         frame.capture_timestamp_ns # 0, NEW limit \in Nat
  PROVE  validate_header(HeaderOf(frame), limit) # "" <=> Disputed(frame, limit)
  <1> DEFINE header == HeaderOf(frame)
             w == frame.width
             h == frame.height
             size == Len(frame.data)
             yuyv == frame.pixel_format = V4L2_PIX_FMT_YUYV
             image == w * h * 2
             expected == image % Pow2[8 * ByteBits]
  <1>1. /\ header.magic = kMagic /\ header.version = kVersion
        /\ header.header_size = kWireHeaderSize
        /\ header.capture_timestamp_ns = frame.capture_timestamp_ns
        /\ header.width = w /\ header.height = h
        /\ header.pixel_format = frame.pixel_format /\ header.payload_size = size
    BY HeaderOfFrame
  <1>2. Pow2[4 * ByteBits] \in Nat \ {0} /\ Pow2[8 * ByteBits] \in Nat \ {0}
        /\ Pow2[4 * ByteBits] <= Pow2[8 * ByteBits]
    <2>1. 4 * ByteBits \in Nat /\ 8 * ByteBits \in Nat /\ 4 * ByteBits <= 8 * ByteBits
      BY Widths
    <2> QED
      BY <2>1, Widths, Pow2Monotone
  <1>3. w \in Nat /\ h \in Nat /\ size \in Nat /\ size < Pow2[4 * ByteBits] /\ size # 0
    <2>1. size \in 0 .. Pow2[4 * ByteBits] - 1 /\ w \in 0 .. Pow2[4 * ByteBits] - 1
          /\ h \in 0 .. Pow2[4 * ByteBits] - 1
      BY DEF FrameFits, Unsigned
    <2>2. size # 0
      BY DEF is_frame_usable, FrameFits
    <2> QED
      BY <1>2, <2>1, <2>2
  <1>4. image \in Nat /\ (yuyv => size >= image)
    BY <1>3 DEF is_frame_usable
  <1>5. w # 0 /\ h # 0 /\ frame.pixel_format # 0
    BY DEF is_frame_usable
  <1>6. kMaxDimension \in Nat
    BY ProtocolAssumption
  <1> HIDE DEF header, size, image
  <1>7. /\ Fails(header, limit, 1) <=> limit = 0
        /\ ~Fails(header, limit, 2) /\ ~Fails(header, limit, 3) /\ ~Fails(header, limit, 4)
        /\ ~Fails(header, limit, 5) /\ ~Fails(header, limit, 6)
        /\ Fails(header, limit, 7) <=> (w > kMaxDimension \/ h > kMaxDimension)
        /\ ~Fails(header, limit, 8) /\ ~Fails(header, limit, 9)
        /\ Fails(header, limit, 10) <=> size > limit
        /\ Fails(header, limit, 11) <=> (yuyv /\ w % 2 # 0)
        /\ Fails(header, limit, 12) <=> (yuyv /\ expected >= Pow2[4 * ByteBits])
        /\ Fails(header, limit, 13) <=> (yuyv /\ size # expected)
    BY <1>1, <1>3, <1>5, ChecksListed DEF image
  <1>8. validate_header(header, limit) # "" <=> \E i \in 1 .. 13 : Fails(header, limit, i)
    BY Refused
  <1>9. Disputed(frame, limit)
          <=> \/ w > kMaxDimension \/ h > kMaxDimension \/ size > limit
              \/ yuyv /\ (w % 2 = 1 \/ size > image)
    BY DEF Disputed, size, image
  <1>10. expected \in Nat /\ expected <= image
         /\ (image < Pow2[8 * ByteBits] => expected = image)
    BY <1>2, <1>4
  <1>11. w % 2 = 1 <=> w % 2 # 0
    BY <1>3
  <1>12. ASSUME Disputed(frame, limit) PROVE \E i \in 1 .. 13 : Fails(header, limit, i)
    <2>1. CASE w > kMaxDimension \/ h > kMaxDimension
      BY <1>7, <2>1
    <2>2. CASE size > limit
      BY <1>7, <2>2
    <2>3. CASE yuyv /\ w % 2 = 1
      BY <1>7, <1>11, <2>3
    <2>4. CASE yuyv /\ size > image
      <3>1. size # expected
        BY <1>3, <1>4, <1>10, <2>4
      <3> QED
        BY <1>7, <2>4, <3>1
    <2> QED
      BY <1>9, <1>12, <2>1, <2>2, <2>3, <2>4
  <1>13. ASSUME ~Disputed(frame, limit), NEW i \in 1 .. 13 PROVE ~Fails(header, limit, i)
    <2>1. /\ w <= kMaxDimension /\ h <= kMaxDimension /\ size <= limit
          /\ yuyv => w % 2 = 0 /\ size = image
      BY <1>3, <1>4, <1>6, <1>9, <1>11, <1>13
    <2>2. limit # 0
      BY <1>3, <2>1
    <2>3. yuyv => expected = size /\ ~(expected >= Pow2[4 * ByteBits])
      BY <1>2, <1>3, <1>10, <2>1
    <2>4. /\ ~Fails(header, limit, 1) /\ ~Fails(header, limit, 7)
          /\ ~Fails(header, limit, 10) /\ ~Fails(header, limit, 11)
          /\ ~Fails(header, limit, 12) /\ ~Fails(header, limit, 13)
      BY <1>3, <1>6, <1>7, <2>1, <2>2, <2>3
    <2>5. i \in {1, 2, 3, 4, 5, 6, 7, 8, 9, 10, 11, 12, 13}
      OBVIOUS
    <2> QED
      BY <1>7, <2>4, <2>5
  <1> QED
    BY <1>8, <1>12, <1>13 DEF header

\* Every usable frame that the two ends do not disagree about arrives, for
\* every size of image, format and limit of the receiver.
LEMMA FrameArrives ==
  ASSUME NEW frame, FrameFits(frame), is_frame_usable(frame),
         frame.capture_timestamp_ns # 0, NEW limit \in Nat
  PROVE  LET result == Receive(serialize_header(HeaderOf(frame)) \o frame.data, limit)
         IN  IF Disputed(frame, limit) THEN result.reason # "" ELSE Arrived(frame, result)
  <1> DEFINE header == HeaderOf(frame)
             data == frame.data
             result == Receive(serialize_header(header) \o data, limit)
             reason == validate_header(header, limit)
             payload == SubSeq(data, 1, header.payload_size)
             refused(r) == [reason |-> r, header |-> header, payload |-> <<>>]
  <1>1. /\ WellFormed(header) /\ header.frame_id = frame.sequence
        /\ header.width = frame.width /\ header.height = frame.height
        /\ header.pixel_format = frame.pixel_format
        /\ header.payload_size = Len(data) /\ header.payload_crc32 = compute_crc32(data)
    BY HeaderOfFrame
  <1>2. data \in Seq(0 .. Base - 1) /\ Len(data) \in Nat
    BY DEF FrameFits
  <1>3. payload = data
    BY <1>1, <1>2, SubSeqFull
  <1>4. reason # "" <=> Disputed(frame, limit)
    BY RefusedIffDisputed
  <1> HIDE DEF header, data
  <1>5. result = IF reason # "" THEN refused(reason)
                 ELSE IF Len(data) < header.payload_size THEN refused("peer closed")
                 ELSE IF compute_crc32(payload) # header.payload_crc32
                   THEN refused("crc mismatch")
                 ELSE [reason |-> "", header |-> header, payload |-> payload]
    <2>1. result = Verdict(header, data, limit)
      BY <1>1, <1>2, ReceivedEncoded
    <2> QED
      BY <2>1 DEF Verdict
  <1> HIDE DEF result, reason, payload
  <1>6. IF Disputed(frame, limit) THEN result.reason # ""
        ELSE result = [reason |-> "", header |-> header, payload |-> data]
    <2>1. CASE Disputed(frame, limit)
      <3>1. result = refused(reason) /\ reason # ""
        BY <1>4, <1>5, <2>1
      <3>2. result.reason = reason
        BY <3>1
      <3> QED
        BY <2>1, <3>1, <3>2
    <2>2. CASE ~Disputed(frame, limit)
      <3>1. ~(reason # "") /\ ~(Len(data) < header.payload_size)
            /\ ~(compute_crc32(payload) # header.payload_crc32)
        <4>1. ~(reason # "")
          BY <1>4, <2>2
        <4>2. ~(Len(data) < header.payload_size)
          BY <1>1, <1>2
        <4>3. compute_crc32(payload) = header.payload_crc32
          BY <1>1, <1>3
        <4> QED
          BY <4>1, <4>2, <4>3
      <3>2. result = [reason |-> "", header |-> header, payload |-> payload]
        BY <1>5, <3>1
      <3> QED
        BY <1>3, <2>2, <3>2
    <2> QED
      BY <2>1, <2>2
  <1>7. ~Disputed(frame, limit) => Arrived(frame, result)
    <2>1. ASSUME result = [reason |-> "", header |-> header, payload |-> data]
          PROVE  Arrived(frame, result)
      <3>1. result.reason = "" /\ result.header = header /\ result.payload = frame.data
        BY <2>1 DEF data
      <3> QED
        BY <1>1, <3>1 DEF Arrived
    <2> QED
      BY <1>6, <2>1
  <1> QED
    BY <1>6, <1>7 DEF result, header, data

\* Every frame that the pipeline finds usable and sends is received unchanged,
\* or it is one that the two ends disagree about and it is refused: for every
\* size, format, payload and limit.
THEOREM UsableFramesAcceptedHolds == Spec => []UsableFramesAccepted
  <1>1. Init => UsableFramesAccepted
    BY NothingCalled DEF UsableFramesAccepted
  <1>2. UsableFramesAccepted /\ [Next]_call => UsableFramesAccepted'
    <2> SUFFICES ASSUME UsableFramesAccepted, Next \/ UNCHANGED call
                 PROVE  UsableFramesAccepted'
      OBVIOUS
    <2>1. CASE Others("exchange")
      BY <2>1 DEF Others, UsableFramesAccepted, Disputed, Arrived
    <2>2. CASE CallExchange
      <3>1. PICK frame \in CapturedFrames, limit \in Limits :
              LET wire == IF is_frame_usable(frame) THEN send_frame_over_tcp(frame)
                                                    ELSE <<>>
              IN  /\ wire # <<>>
                  /\ Called("exchange", [frame |-> frame, limit |-> limit],
                            Receive(wire, limit))
        BY <2>2 DEF CallExchange
      <3> DEFINE wire == serialize_header(HeaderOf(frame)) \o frame.data
      <3>2. /\ is_frame_usable(frame) /\ frame.capture_timestamp_ns # 0
            /\ ~(Len(frame.data) >= Pow2[4 * ByteBits])
            /\ send_frame_over_tcp(frame) = wire
        BY <3>1 DEF send_frame_over_tcp, HeaderOf
      <3>3. FrameFits(frame) /\ limit \in Nat
        <4>1. frame.data \in Seq(0 .. Base - 1) /\ limit \in Nat
          BY InputsAssumption
        <4>2. Len(frame.data) \in Nat /\ Pow2[4 * ByteBits] \in Nat
          BY <4>1, Widths
        <4>3. Len(frame.data) \in Unsigned(4)
          BY <3>2, <4>2 DEF Unsigned
        <4> QED
          BY <4>1, <4>3, InputsAssumption DEF FrameFits
      <3> HIDE DEF wire
      <3>4. Called("exchange", [frame |-> frame, limit |-> limit], Receive(wire, limit))
        BY <3>1, <3>2
      <3>5. call'.in.frame = frame /\ call'.in.limit = limit /\ call'.out = Receive(wire, limit)
        BY <3>4 DEF Called
      <3>6. IF Disputed(frame, limit) THEN Receive(wire, limit).reason # ""
            ELSE Arrived(frame, Receive(wire, limit))
        BY <3>2, <3>3, FrameArrives DEF wire
      <3> QED
        BY <3>5, <3>6 DEF UsableFramesAccepted, Disputed, Arrived
    <2> QED
      BY <2>1, <2>2, NextCall
  <1> QED
    BY <1>1, <1>2, PTL DEF Spec

-----------------------------------------------------------------------------
(* The checksum tells apart any two payloads that differ in one byte.  *)

\* A function on 0 .. n given by its first value and the step to value i.
Solves(A, base, step, n, g) ==
  /\ g \in [0 .. n -> A] /\ g[0] = base
  /\ \A i \in 1 .. n : g[i] = step[<<i, g[i - 1]>>]

\* A recursion over 0 .. n has a solution.
LEMMA RecursionExists ==
  ASSUME NEW A, NEW base, NEW step, IsStep(A, base, step), NEW n \in Nat
  PROVE  \E g : Solves(A, base, step, n, g)
  <1> DEFINE next == [p \in Nat \X A |-> step[<<p[1] + 1, p[2]>>]]
  <1>1. ASSUME NEW i \in Nat, NEW x \in A
        PROVE  next[<<i, x>>] = step[<<i + 1, x>>] /\ step[<<i + 1, x>>] \in A
    <2>1. <<i, x>> \in Nat \X A /\ <<i + 1, x>> \in Nat \X A
      OBVIOUS
    <2> QED
      BY <2>1 DEF IsStep
  <1>2. next \in [Nat \X A -> A]
    <2>1. \A p \in Nat \X A : step[<<p[1] + 1, p[2]>>] \in A
      BY <1>1
    <2> QED
      BY <2>1
  <1> HIDE DEF next
  <1>3. IsStep(A, base, next)
    BY <1>2 DEF IsStep
  <1>4. PICK f : Iterates(A, base, next, f)
    BY <1>3, Iteration
  <1> DEFINE g == [i \in 0 .. n |-> f[i]]
  <1>5. g \in [0 .. n -> A] /\ g[0] = base
    BY <1>4 DEF Iterates
  <1>6. ASSUME NEW i \in 1 .. n PROVE g[i] = step[<<i, g[i - 1]>>]
    <2>1. i - 1 \in Nat /\ (i - 1) + 1 = i /\ i - 1 \in 0 .. n
      OBVIOUS
    <2>2. f[(i - 1) + 1] = next[<<i - 1, f[i - 1]>>] /\ f[i - 1] \in A
      BY <1>4, <2>1 DEF Iterates
    <2>3. next[<<i - 1, f[i - 1]>>] = step[<<i, f[i - 1]>>]
      BY <1>1, <2>1, <2>2
    <2>4. f[i] = step[<<i, f[i - 1]>>]
      BY <2>1, <2>2, <2>3
    <2> QED
      BY <2>1, <2>4
  <1> HIDE DEF g
  <1>7. Solves(A, base, step, n, g)
    BY <1>5, <1>6 DEF Solves
  <1> QED
    BY <1>7

\* The values of the register.
Word == SUBSET (0 .. WordBits - 1)

\* The width of the register.
LEMMA WordWidth == WordBits \in Nat /\ WordBits >= 4 /\ ByteBits <= WordBits
  BY Widths DEF WordBits

\* Addition without carry can be undone.
LEMMA XorCancels ==
  ASSUME NEW a, NEW b, NEW c, Xor(a, c) = Xor(b, c) \/ Xor(c, a) = Xor(c, b)
  PROVE  a = b
  <1>1. \A x : x \in Xor(a, c) <=> ~(x \in a <=> x \in c)
    BY DEF Xor
  <1>2. \A x : x \in Xor(b, c) <=> ~(x \in b <=> x \in c)
    BY DEF Xor
  <1>3. Xor(c, a) = Xor(a, c) /\ Xor(c, b) = Xor(b, c)
    BY DEF Xor
  <1>4. \A x : x \in a <=> x \in b
    BY <1>1, <1>2, <1>3
  <1> QED
    BY <1>4

\* One turn of the loop loses no bit: the highest bit of the result is the one
\* that was shifted out.
LEMMA CrcRoundInjective ==
  ASSUME NEW c \in Word, NEW d \in Word
  PROVE  CrcRound(c) \in Word /\ (CrcRound(c) = CrcRound(d) => c = d)
  <1> DEFINE shifted(x) == {b - 1 : b \in x \ {0}}
             top == WordBits - 1
  <1>1. WordBits \in Nat /\ WordBits >= 4
    BY WordWidth
  <1>2. Polynomial \in Word /\ top \in Polynomial
    BY ProtocolAssumption DEF Word
  <1>3. ASSUME NEW x \in Word
        PROVE  /\ shifted(x) \in Word /\ top \notin shifted(x)
               /\ \A b \in Int : b + 1 \in x /\ b # -1 <=> b \in shifted(x)
    <2>1. x \subseteq 0 .. WordBits - 1
      BY DEF Word
    <2> QED
      BY <1>1, <2>1 DEF Word
  <1> HIDE DEF shifted
  <1>4. ASSUME NEW x \in Word
        PROVE  CrcRound(x) = IF 0 \in x THEN Xor(shifted(x), Polynomial) ELSE shifted(x)
    BY DEF CrcRound, shifted
  <1>5. ASSUME NEW x \in Word PROVE CrcRound(x) \in Word /\ (top \in CrcRound(x) <=> 0 \in x)
    <2> HIDE DEF top
    <2>1. shifted(x) \in Word /\ top \notin shifted(x)
      BY <1>3
    <2>2. /\ Xor(shifted(x), Polynomial) \in Word
          /\ top \in Xor(shifted(x), Polynomial)
      BY <1>2, <2>1 DEF Word, Xor
    <2> QED
      BY <1>4, <2>1, <2>2
  <1>6. ASSUME CrcRound(c) = CrcRound(d) PROVE c = d
    <2>1. 0 \in c <=> 0 \in d
      BY <1>5, <1>6
    <2>2. shifted(c) = shifted(d)
      BY <1>4, <1>6, <2>1, XorCancels
    <2>3. ASSUME NEW b \in Int PROVE b \in c <=> b \in d
      <3>1. CASE b = 0
        BY <2>1, <3>1
      <3>2. CASE b # 0
        <4>1. b - 1 \in Int /\ (b - 1) + 1 = b /\ b - 1 # -1
          BY <3>2
        <4> QED
          BY <1>3, <2>2, <4>1
      <3> QED
        BY <3>1, <3>2
    <2>4. c \subseteq Int /\ d \subseteq Int
      BY <1>1 DEF Word
    <2> QED
      BY <2>3, <2>4
  <1> QED
    BY <1>5, <1>6

\* The values that the register takes in the inner loop.
Turns(start, turn) ==
  /\ turn[0] = start
  /\ \A bit \in 1 .. ByteBits : turn[bit] = CrcRound(turn[bit - 1])
  /\ \A bit \in 0 .. ByteBits : turn[bit] \in Word

\* The inner loop leads from the register with the byte added to the result.
LEMMA InnerLoop ==
  ASSUME NEW crc, NEW byte, Xor(crc, Ones(byte)) \in Word
  PROVE  \E turn : Turns(Xor(crc, Ones(byte)), turn) /\ CrcByte(crc, byte) = turn[ByteBits]
  <1> DEFINE start == Xor(crc, Ones(byte))
             Q(g) == g = [bit \in 0 .. ByteBits |->
                            IF bit = 0 THEN start ELSE CrcRound(g[bit - 1])]
             turn == CHOOSE g : Q(g)
             step == [p \in Nat \X Word |-> CrcRound(p[2])]
  <1>1. CrcByte(crc, byte) = turn[ByteBits]
    BY DEF CrcByte
  <1>2. ByteBits \in Nat
    BY Widths
  <1> HIDE DEF start
  <1>3. /\ step \in [Nat \X Word -> Word]
        /\ \A i \in Nat, x \in Word : step[<<i, x>>] = CrcRound(x)
    BY CrcRoundInjective
  <1> HIDE DEF step
  <1>4. IsStep(Word, start, step)
    BY <1>3 DEF IsStep, start
  <1>5. PICK g : Solves(Word, start, step, ByteBits, g)
    BY <1>2, <1>4, RecursionExists
  <1>6. ASSUME NEW i \in 1 .. ByteBits PROVE g[i] = CrcRound(g[i - 1])
    <2>1. i - 1 \in 0 .. ByteBits /\ i \in Nat
      BY <1>2
    <2>2. g[i - 1] \in Word
      BY <1>5, <2>1 DEF Solves
    <2> QED
      BY <1>3, <1>5, <2>1, <2>2 DEF Solves
  <1>7. Q(g)
    <2>1. \A i \in 0 .. ByteBits : i = 0 \/ i \in 1 .. ByteBits
      BY <1>2
    <2>2. \A i \in 0 .. ByteBits : g[i] = IF i = 0 THEN start ELSE CrcRound(g[i - 1])
      BY <1>5, <1>6, <2>1 DEF Solves
    <2> QED
      BY <1>5, <2>2 DEF Solves
  <1>8. Q(turn)
    BY <1>7
  <1> HIDE DEF turn
  <1>9. turn[0] = start /\ \A i \in 1 .. ByteBits : turn[i] = CrcRound(turn[i - 1])
    BY <1>2, <1>8
  <1>10. \A i \in 0 .. ByteBits : turn[i] \in Word
    <2> DEFINE T == {i \in Nat : i <= ByteBits => turn[i] \in Word}
    <2>1. T \in SUBSET Nat /\ 0 \in T
      BY <1>4, <1>9 DEF IsStep
    <2>2. ASSUME NEW i \in T PROVE i + 1 \in T
      <3>1. i \in Nat /\ (i <= ByteBits => turn[i] \in Word)
        OBVIOUS
      <3>2. ASSUME i + 1 <= ByteBits PROVE turn[i + 1] \in Word
        <4>1. i + 1 \in 1 .. ByteBits /\ (i + 1) - 1 = i /\ turn[i] \in Word
          BY <1>2, <3>1, <3>2
        <4>2. turn[i + 1] = CrcRound(turn[i])
          BY <1>9, <4>1
        <4> QED
          BY <4>1, <4>2, CrcRoundInjective
      <3> QED
        BY <3>1, <3>2
    <2> HIDE DEF T
    <2>3. T = Nat
      BY <2>1, <2>2, Induction
    <2> QED
      BY <1>2, <2>3 DEF T
  <1>11. Turns(start, turn)
    BY <1>9, <1>10 DEF Turns
  <1> QED
    BY <1>1, <1>11 DEF start

\* Two runs of the inner loop that begin differently end differently.
LEMMA TurnsInjective ==
  ASSUME NEW a, NEW b, NEW f, NEW g, Turns(a, f), Turns(b, g), a # b
  PROVE  f[ByteBits] # g[ByteBits]
  <1> DEFINE T == {i \in Nat : i <= ByteBits => f[i] # g[i]}
  <1>1. ByteBits \in Nat
    BY Widths
  <1>2. T \in SUBSET Nat /\ 0 \in T
    BY DEF Turns
  <1>3. ASSUME NEW i \in T PROVE i + 1 \in T
    <2>1. i \in Nat /\ (i <= ByteBits => f[i] # g[i])
      OBVIOUS
    <2>2. ASSUME i + 1 <= ByteBits PROVE f[i + 1] # g[i + 1]
      <3>1. /\ i + 1 \in 1 .. ByteBits /\ (i + 1) - 1 = i /\ i \in 0 .. ByteBits
            /\ f[i] # g[i]
        BY <1>1, <2>1, <2>2
      <3>2. f[i + 1] = CrcRound(f[i]) /\ g[i + 1] = CrcRound(g[i])
        BY <3>1 DEF Turns
      <3>3. f[i] \in Word /\ g[i] \in Word
        BY <3>1 DEF Turns
      <3> QED
        BY <3>1, <3>2, <3>3, CrcRoundInjective
    <2> QED
      BY <2>1, <2>2
  <1> HIDE DEF T
  <1>4. T = Nat
    BY <1>2, <1>3, Induction
  <1> QED
    BY <1>1, <1>4 DEF T

\* The bits of a byte are bits of the register.
LEMMA ByteInWord ==
  ASSUME NEW crc \in Word, NEW byte
  PROVE  Xor(crc, Ones(byte)) \in Word
  <1>1. 0 .. ByteBits - 1 \subseteq 0 .. WordBits - 1
    BY WordWidth, Widths
  <1>2. Ones(byte) \subseteq 0 .. ByteBits - 1
    BY DEF Ones
  <1> QED
    BY <1>1, <1>2 DEF Word, Xor

\* A number below a power of two is known by its bits.
LEMMA OnesInjective ==
  ASSUME NEW a \in 0 .. Base - 1, NEW b \in 0 .. Base - 1, Ones(a) = Ones(b)
  PROVE  a = b
  <1> DEFINE T == {k \in Nat : k <= ByteBits => a % Pow2[k] = b % Pow2[k]}
  <1>1. ByteBits \in Nat /\ Base \in Nat \ {0} /\ a \in Nat /\ b \in Nat
    BY Widths
  <1>2. T \in SUBSET Nat /\ 0 \in T
    <2>1. Pow2[0] = 1 /\ a % 1 = 0 /\ b % 1 = 0
      BY <1>1, Pow2Def
    <2> QED
      BY <2>1
  <1>3. ASSUME NEW k \in T PROVE k + 1 \in T
    <2>1. k \in Nat /\ (k <= ByteBits => a % Pow2[k] = b % Pow2[k])
      OBVIOUS
    <2>2. ASSUME k + 1 <= ByteBits PROVE a % Pow2[k + 1] = b % Pow2[k + 1]
      <3>1. k \in 0 .. ByteBits - 1 /\ a % Pow2[k] = b % Pow2[k]
        BY <1>1, <2>1, <2>2
      <3> DEFINE p == Pow2[k]
      <3>2. p \in Nat \ {0} /\ Pow2[k + 1] = p * 2
        BY <2>1, Pow2Def
      <3>3. ((a \div p) % 2 = 1) <=> ((b \div p) % 2 = 1)
        BY <3>1 DEF Ones
      <3> HIDE DEF p
      <3>4. (a \div p) % 2 \in 0 .. 1 /\ (b \div p) % 2 \in 0 .. 1
        BY <1>1, <3>2
      <3>5. (a \div p) % 2 = (b \div p) % 2
        BY <3>3, <3>4
      <3>6. \A v \in Nat : v % (p * 2) = (v % p) + ((v \div p) % 2) * p
        <4>1. \A v \in Nat : \A q \in Nat \ {0} :
                v % (p * q) = (v % p) + ((v \div p) % q) * p
          BY <3>2, RemainderOfProduct
        <4> QED
          BY <4>1
      <3>7. a % (p * 2) = (a % p) + ((a \div p) % 2) * p
            /\ b % (p * 2) = (b % p) + ((b \div p) % 2) * p
        BY <1>1, <3>6
      <3>8. a % (p * 2) = b % (p * 2)
        BY <3>1, <3>5, <3>7 DEF p
      <3> QED
        BY <3>2, <3>8
    <2> QED
      BY <2>1, <2>2
  <1> HIDE DEF T
  <1>4. T = Nat
    BY <1>2, <1>3, Induction
  <1>5. a % Base = b % Base
    BY <1>1, <1>4 DEF T, Base
  <1> QED
    BY <1>1, <1>5

\* The register after a byte: from different registers, or with different
\* bytes, it is different.
LEMMA CrcByteInjective ==
  ASSUME NEW c \in Word, NEW d \in Word, NEW a \in 0 .. Base - 1, NEW b \in 0 .. Base - 1
  PROVE  /\ CrcByte(c, a) \in Word
         /\ c # d => CrcByte(c, a) # CrcByte(d, a)
         /\ a # b => CrcByte(c, a) # CrcByte(c, b)
  <1>1. ByteBits \in 0 .. ByteBits
    BY Widths
  <1>2. PICK f : Turns(Xor(c, Ones(a)), f) /\ CrcByte(c, a) = f[ByteBits]
    BY ByteInWord, InnerLoop
  <1>3. PICK g : Turns(Xor(d, Ones(a)), g) /\ CrcByte(d, a) = g[ByteBits]
    BY ByteInWord, InnerLoop
  <1>4. PICK h : Turns(Xor(c, Ones(b)), h) /\ CrcByte(c, b) = h[ByteBits]
    BY ByteInWord, InnerLoop
  <1>5. CrcByte(c, a) \in Word
    BY <1>1, <1>2 DEF Turns
  <1>6. ASSUME c # d PROVE CrcByte(c, a) # CrcByte(d, a)
    <2>1. Xor(c, Ones(a)) # Xor(d, Ones(a))
      BY <1>6, XorCancels
    <2> QED
      BY <1>2, <1>3, <2>1, TurnsInjective
  <1>7. ASSUME a # b PROVE CrcByte(c, a) # CrcByte(c, b)
    <2>1. Ones(a) # Ones(b)
      BY <1>7, OnesInjective
    <2>2. Xor(c, Ones(a)) # Xor(c, Ones(b))
      BY <2>1, XorCancels
    <2> QED
      BY <1>2, <1>4, <2>2, TurnsInjective
  <1> QED
    BY <1>5, <1>6, <1>7

\* The values that the register takes in the outer loop.
Register(bytes, crc) ==
  /\ crc[0] = 0 .. WordBits - 1
  /\ \A i \in 1 .. Len(bytes) : crc[i] = CrcByte(crc[i - 1], bytes[i])
  /\ \A i \in 0 .. Len(bytes) : crc[i] \in Word

\* The outer loop leads from a register of ones to the inverted checksum.
LEMMA OuterLoop ==
  ASSUME NEW bytes \in Seq(0 .. Base - 1)
  PROVE  \E crc : Register(bytes, crc) /\ CrcBits(bytes) = (0 .. WordBits - 1) \ crc[Len(bytes)]
  <1> DEFINE ones == 0 .. WordBits - 1
             n == Len(bytes)
             Q(g) == g = [i \in 0 .. Len(bytes) |->
                            IF i = 0 THEN ones ELSE CrcByte(g[i - 1], bytes[i])]
             crc == CHOOSE g : Q(g)
             step == [p \in Nat \X Word |->
                        IF p[1] \in 1 .. n THEN CrcByte(p[2], bytes[p[1]]) ELSE p[2]]
  <1>1. CrcBits(bytes) = ones \ crc[n]
    BY DEF CrcBits
  <1>2. n \in Nat /\ \A i \in 1 .. n : bytes[i] \in 0 .. Base - 1
    BY ElementOfSeq, LenProperties
  <1>3. ones \in Word
    BY DEF Word
  <1> HIDE DEF ones, n
  <1>4. ASSUME NEW i \in Nat, NEW x \in Word
        PROVE  (IF i \in 1 .. n THEN CrcByte(x, bytes[i]) ELSE x) \in Word
    BY <1>2, CrcByteInjective
  <1>5. /\ step \in [Nat \X Word -> Word]
        /\ \A i \in Nat, x \in Word : i \in 1 .. n => step[<<i, x>>] = CrcByte(x, bytes[i])
    BY <1>4
  <1> HIDE DEF step
  <1>6. IsStep(Word, ones, step)
    BY <1>3, <1>5 DEF IsStep
  <1>7. PICK g : Solves(Word, ones, step, n, g)
    BY <1>2, <1>6, RecursionExists
  <1>8. ASSUME NEW i \in 1 .. n PROVE g[i] = CrcByte(g[i - 1], bytes[i])
    <2>1. i - 1 \in 0 .. n /\ i \in Nat
      BY <1>2
    <2>2. g[i - 1] \in Word
      BY <1>7, <2>1 DEF Solves
    <2> QED
      BY <1>5, <1>7, <2>1, <2>2 DEF Solves
  <1>9. Q(g)
    <2>1. \A i \in 0 .. n : i = 0 \/ i \in 1 .. n
      BY <1>2
    <2>2. \A i \in 0 .. n : g[i] = IF i = 0 THEN ones ELSE CrcByte(g[i - 1], bytes[i])
      BY <1>7, <1>8, <2>1 DEF Solves
    <2> QED
      BY <1>7, <2>2 DEF Solves, n
  <1>10. Q(crc)
    BY <1>9
  <1> HIDE DEF crc
  <1>11. crc[0] = ones /\ \A i \in 1 .. n : crc[i] = CrcByte(crc[i - 1], bytes[i])
    BY <1>2, <1>10 DEF n
  <1>12. \A i \in 0 .. n : crc[i] \in Word
    <2> DEFINE T == {i \in Nat : i <= n => crc[i] \in Word}
    <2>1. T \in SUBSET Nat /\ 0 \in T
      BY <1>3, <1>11
    <2>2. ASSUME NEW i \in T PROVE i + 1 \in T
      <3>1. i \in Nat /\ (i <= n => crc[i] \in Word)
        OBVIOUS
      <3>2. ASSUME i + 1 <= n PROVE crc[i + 1] \in Word
        <4>1. i + 1 \in 1 .. n /\ (i + 1) - 1 = i /\ crc[i] \in Word
          BY <1>2, <3>1, <3>2
        <4>2. crc[i + 1] = CrcByte(crc[i], bytes[i + 1]) /\ bytes[i + 1] \in 0 .. Base - 1
          BY <1>2, <1>11, <4>1
        <4> QED
          BY <4>1, <4>2, CrcByteInjective
      <3> QED
        BY <3>1, <3>2
    <2> HIDE DEF T
    <2>3. T = Nat
      BY <2>1, <2>2, Induction
    <2> QED
      BY <1>2, <2>3 DEF T
  <1>13. Register(bytes, crc)
    BY <1>11, <1>12 DEF Register, n, ones
  <1> QED
    BY <1>1, <1>13 DEF n, ones

\* Two payloads of the same length that differ in one byte.
DifferAt(bytes, other, place) ==
  /\ bytes \in Seq(0 .. Base - 1) /\ other \in Seq(0 .. Base - 1)
  /\ Len(bytes) = Len(other) /\ place \in 1 .. Len(bytes)
  /\ bytes[place] # other[place]
  /\ \A i \in 1 .. Len(bytes) : i # place => bytes[i] = other[i]

\* Their checksums have different bits.
LEMMA BitsDiffer ==
  ASSUME NEW bytes, NEW other, NEW place, DifferAt(bytes, other, place)
  PROVE  CrcBits(bytes) # CrcBits(other)
  <1> DEFINE n == Len(bytes)
  <1>1. /\ bytes \in Seq(0 .. Base - 1) /\ other \in Seq(0 .. Base - 1)
        /\ n \in Nat /\ Len(other) = n /\ place \in 1 .. n
    BY LenProperties DEF DifferAt
  <1>2. PICK f : Register(bytes, f) /\ CrcBits(bytes) = (0 .. WordBits - 1) \ f[n]
    BY <1>1, OuterLoop
  <1>3. PICK g : Register(other, g) /\ CrcBits(other) = (0 .. WordBits - 1) \ g[n]
    BY <1>1, OuterLoop
  <1>4. \A i \in 1 .. n : /\ bytes[i] \in 0 .. Base - 1 /\ other[i] \in 0 .. Base - 1
                          /\ i # place => bytes[i] = other[i]
    BY <1>1, ElementOfSeq DEF DifferAt
  <1>5. bytes[place] # other[place]
    BY DEF DifferAt
  <1>6. /\ f[0] = g[0]
        /\ \A i \in 0 .. n : f[i] \in Word /\ g[i] \in Word
        /\ \A i \in 1 .. n : /\ f[i] = CrcByte(f[i - 1], bytes[i])
                             /\ g[i] = CrcByte(g[i - 1], other[i])
    BY <1>1, <1>2, <1>3 DEF Register
  <1> HIDE DEF n
  <1> DEFINE T == {i \in Nat : i <= n => (f[i] = g[i] <=> i < place)}
  <1>7. T \in SUBSET Nat /\ 0 \in T
    BY <1>1, <1>6
  <1>8. ASSUME NEW i \in T PROVE i + 1 \in T
    <2>1. i \in Nat /\ (i <= n => (f[i] = g[i] <=> i < place))
      OBVIOUS
    <2>2. ASSUME i + 1 <= n PROVE f[i + 1] = g[i + 1] <=> i + 1 < place
      <3>1. /\ i + 1 \in 1 .. n /\ (i + 1) - 1 = i /\ i \in 0 .. n
            /\ f[i] = g[i] <=> i < place
        BY <1>1, <2>1, <2>2
      <3>2. f[i + 1] = CrcByte(f[i], bytes[i + 1]) /\ g[i + 1] = CrcByte(g[i], other[i + 1])
        BY <1>6, <3>1
      <3>3. /\ f[i] \in Word /\ g[i] \in Word /\ bytes[i + 1] \in 0 .. Base - 1
            /\ other[i + 1] \in 0 .. Base - 1
            /\ i + 1 # place => bytes[i + 1] = other[i + 1]
        BY <1>4, <1>6, <3>1
      <3>4. CASE i + 1 < place
        <4>1. f[i] = g[i] /\ bytes[i + 1] = other[i + 1]
          BY <1>1, <2>1, <3>1, <3>3, <3>4
        <4> QED
          BY <3>2, <3>4, <4>1
      <3>5. CASE i + 1 = place
        <4>1. f[i] = g[i] /\ bytes[i + 1] # other[i + 1]
          BY <1>1, <1>5, <2>1, <3>1, <3>5
        <4>2. f[i + 1] # g[i + 1]
          BY <3>2, <3>3, <4>1, CrcByteInjective
        <4> QED
          BY <1>1, <3>5, <4>2
      <3>6. CASE i + 1 > place
        <4>1. f[i] # g[i] /\ bytes[i + 1] = other[i + 1]
          BY <1>1, <2>1, <3>1, <3>3, <3>6
        <4>2. f[i + 1] # g[i + 1]
          BY <3>2, <3>3, <4>1, CrcByteInjective
        <4> QED
          BY <1>1, <2>1, <3>6, <4>2
      <3> QED
        BY <1>1, <2>1, <3>4, <3>5, <3>6
    <2> QED
      BY <2>1, <2>2
  <1> HIDE DEF T
  <1>9. T = Nat
    BY <1>7, <1>8, Induction
  <1>10. f[n] # g[n]
    BY <1>1, <1>9 DEF T
  <1>11. f[n] \subseteq 0 .. WordBits - 1 /\ g[n] \subseteq 0 .. WordBits - 1
    BY <1>1, <1>6 DEF Word
  <1> QED
    BY <1>2, <1>3, <1>10, <1>11

\* The bits of a checksum are those of a word.
LEMMA CrcBitsWord ==
  ASSUME NEW bytes \in Seq(0 .. Base - 1)
  PROVE  CrcBits(bytes) \in Word
  <1>1. PICK crc : CrcBits(bytes) = (0 .. WordBits - 1) \ crc[Len(bytes)]
    BY OuterLoop
  <1> QED
    BY <1>1 DEF Word

\* The integer of a word tells its bits.
LEMMA HornerInjective ==
  ASSUME NEW c \in Word, NEW d \in Word, NEW f, NEW g, Horner(c, f), Horner(d, g),
         f[WordBits] = g[WordBits]
  PROVE  c = d
  <1> DEFINE T == {i \in Nat : i <= WordBits =>
                     /\ f[WordBits - i] = g[WordBits - i]
                     /\ \A b \in 0 .. i - 1 : b \in c <=> b \in d}
  <1>1. WordBits \in Nat
    BY WordWidth
  <1>2. T \in SUBSET Nat /\ 0 \in T
    <2>1. WordBits - 0 = WordBits /\ 0 .. 0 - 1 = {}
      BY <1>1
    <2> QED
      BY <2>1
  <1>3. ASSUME NEW i \in T PROVE i + 1 \in T
    <2>1. i \in Nat /\ (i <= WordBits => /\ f[WordBits - i] = g[WordBits - i]
                                         /\ \A b \in 0 .. i - 1 : b \in c <=> b \in d)
      OBVIOUS
    <2>2. ASSUME i + 1 <= WordBits
          PROVE  /\ f[WordBits - (i + 1)] = g[WordBits - (i + 1)]
                 /\ \A b \in 0 .. (i + 1) - 1 : b \in c <=> b \in d
      <3> DEFINE k == WordBits - i
      <3>1. /\ k \in 1 .. WordBits /\ WordBits - k = i /\ WordBits - (i + 1) = k - 1
            /\ k - 1 \in 0 .. WordBits /\ k - 1 \in Nat
        BY <1>1, <2>1, <2>2
      <3>2. f[k] = g[k] /\ \A b \in 0 .. i - 1 : b \in c <=> b \in d
        BY <1>1, <2>1, <2>2
      <3> HIDE DEF k
      <3>3. /\ f[k] = 2 * f[k - 1] + (IF WordBits - k \in c THEN 1 ELSE 0)
            /\ g[k] = 2 * g[k - 1] + (IF WordBits - k \in d THEN 1 ELSE 0)
        BY <3>1 DEF Horner
      <3>4. f[k - 1] \in Nat /\ g[k - 1] \in Nat
        <4>1. f[k - 1] \in 0 .. Pow2[k - 1] - 1 /\ g[k - 1] \in 0 .. Pow2[k - 1] - 1
          BY <3>1 DEF Horner
        <4>2. Pow2[k - 1] \in Nat
          BY <3>1, Pow2Def
        <4> QED
          BY <4>1, <4>2
      <3>5. f[k - 1] = g[k - 1] /\ (i \in c <=> i \in d)
        <4> DEFINE x == f[k - 1]
                   y == g[k - 1]
        <4>1. f[k] = (IF i \in c THEN 2 * x + 1 ELSE 2 * x)
              /\ g[k] = (IF i \in d THEN 2 * y + 1 ELSE 2 * y)
          BY <3>1, <3>3, <3>4
        <4> HIDE DEF x, y
        <4>2. x \in Nat /\ y \in Nat
          BY <3>4 DEF x, y
        <4>3. /\ 2 * x + 1 # 2 * y /\ 2 * x # 2 * y + 1
              /\ (2 * x = 2 * y => x = y) /\ (2 * x + 1 = 2 * y + 1 => x = y)
          BY <4>2
        <4>4. x = y /\ (i \in c <=> i \in d)
          <5>1. CASE i \in c
            BY <3>2, <4>1, <4>3, <5>1
          <5>2. CASE i \notin c
            BY <3>2, <4>1, <4>3, <5>2
          <5> QED
            BY <5>1, <5>2
        <4> QED
          BY <4>4 DEF x, y
      <3>6. \A b \in 0 .. (i + 1) - 1 : b \in 0 .. i - 1 \/ b = i
        BY <2>1
      <3> QED
        BY <3>1, <3>2, <3>5, <3>6
    <2> QED
      BY <2>1, <2>2
  <1> HIDE DEF T
  <1>4. T = Nat
    BY <1>2, <1>3, Induction
  <1>5. \A b \in 0 .. WordBits - 1 : b \in c <=> b \in d
    <2>1. WordBits \in T /\ WordBits <= WordBits
      BY <1>1, <1>4
    <2> QED
      BY <2>1 DEF T
  <1> QED
    BY <1>5 DEF Word

\* Any one byte of a payload, changed in any way, changes the checksum.
LEMMA ChecksumsDiffer ==
  ASSUME NEW bytes, NEW other, NEW place, DifferAt(bytes, other, place)
  PROVE  compute_crc32(bytes) # compute_crc32(other)
  <1>1. bytes \in Seq(0 .. Base - 1) /\ other \in Seq(0 .. Base - 1)
    BY DEF DifferAt
  <1>2. CrcBits(bytes) # CrcBits(other)
    BY BitsDiffer
  <1>3. CrcBits(bytes) \in Word /\ CrcBits(other) \in Word
    BY <1>1, CrcBitsWord
  <1>4. PICK f : Horner(CrcBits(bytes), f) /\ compute_crc32(bytes) = f[WordBits]
    BY ChecksumValue
  <1>5. PICK g : Horner(CrcBits(other), g) /\ compute_crc32(other) = g[WordBits]
    BY ChecksumValue
  <1> QED
    BY <1>2, <1>3, <1>4, <1>5, HornerInjective

-----------------------------------------------------------------------------
(* Damage on the way.  *)

\* What read_le computes, byte by byte.
Accumulates(bytes, offset, size, value) ==
  /\ value[0] = 0
  /\ \A i \in 1 .. size :
       value[i] = value[i - 1] + bytes[offset + i] * Pow2[(i - 1) * ByteBits]

\* The loop of read_le: an integer is read digit by digit.
LEMMA ReadLoop ==
  ASSUME NEW bytes, NEW offset \in Nat, NEW size \in Nat,
         \A i \in 1 .. size : bytes[offset + i] \in Nat
  PROVE  \E value : /\ Accumulates(bytes, offset, size, value)
                    /\ read_le(bytes, offset, size) = value[size]
  <1> DEFINE add(i) == bytes[offset + i] * Pow2[(i - 1) * ByteBits]
             Q(g) == g = [i \in 0 .. size |-> IF i = 0 THEN 0
                           ELSE g[i - 1] + bytes[offset + i] * Pow2[(i - 1) * ByteBits]]
             value == CHOOSE g : Q(g)
             step == [p \in Nat \X Nat |-> IF p[1] \in 1 .. size THEN p[2] + add(p[1]) ELSE p[2]]
  <1>1. read_le(bytes, offset, size) = value[size]
    BY DEF read_le
  <1>2. ASSUME NEW i \in 1 .. size PROVE add(i) \in Nat
    <2>1. i - 1 \in Nat /\ bytes[offset + i] \in Nat
      OBVIOUS
    <2>2. Pow2[(i - 1) * ByteBits] \in Nat
      BY <2>1, Widths
    <2> QED
      BY <2>1, <2>2
  <1> HIDE DEF add
  <1>3. /\ step \in [Nat \X Nat -> Nat]
        /\ \A i, x \in Nat : i \in 1 .. size => step[<<i, x>>] = x + add(i)
    BY <1>2
  <1> HIDE DEF step
  <1>4. IsStep(Nat, 0, step)
    BY <1>3 DEF IsStep
  <1>5. PICK g : Solves(Nat, 0, step, size, g)
    BY <1>4, RecursionExists
  <1>6. ASSUME NEW i \in 1 .. size PROVE g[i] = g[i - 1] + add(i)
    <2>1. i - 1 \in 0 .. size /\ i \in Nat
      OBVIOUS
    <2>2. g[i - 1] \in Nat
      BY <1>5, <2>1 DEF Solves
    <2> QED
      BY <1>3, <1>5, <2>1, <2>2 DEF Solves
  <1>7. Q(g)
    <2>1. \A i \in 0 .. size : i = 0 \/ i \in 1 .. size
      OBVIOUS
    <2>2. \A i \in 0 .. size : g[i] = IF i = 0 THEN 0 ELSE g[i - 1] + add(i)
      BY <1>5, <1>6, <2>1 DEF Solves
    <2> QED
      BY <1>5, <2>2 DEF Solves, add
  <1>8. Q(value)
    BY <1>7
  <1> HIDE DEF value
  <1>9. Accumulates(bytes, offset, size, value)
    <2>1. value[0] = 0
      BY <1>8
    <2>2. \A i \in 1 .. size : i \in 0 .. size /\ i # 0
      OBVIOUS
    <2>3. \A i \in 1 .. size :
            value[i] = value[i - 1] + bytes[offset + i] * Pow2[(i - 1) * ByteBits]
      BY <1>8, <2>2
    <2> QED
      BY <2>1, <2>3 DEF Accumulates
  <1> QED
    BY <1>1, <1>9

\* An integer read from bytes is a number.
LEMMA ReadType ==
  ASSUME NEW bytes, NEW offset \in Nat, NEW size \in Nat,
         \A i \in 1 .. size : bytes[offset + i] \in Nat
  PROVE  read_le(bytes, offset, size) \in Nat
  <1>1. PICK value : /\ Accumulates(bytes, offset, size, value)
                     /\ read_le(bytes, offset, size) = value[size]
    BY ReadLoop
  <1>2. ASSUME NEW i \in 1 .. size PROVE bytes[offset + i] * Pow2[(i - 1) * ByteBits] \in Nat
    <2>1. i - 1 \in Nat /\ bytes[offset + i] \in Nat
      OBVIOUS
    <2>2. Pow2[(i - 1) * ByteBits] \in Nat
      BY <2>1, Widths
    <2> QED
      BY <2>1, <2>2
  <1> DEFINE T == {i \in Nat : i <= size => value[i] \in Nat}
  <1>3. T \in SUBSET Nat /\ 0 \in T
    BY <1>1 DEF Accumulates
  <1>4. ASSUME NEW i \in T PROVE i + 1 \in T
    <2>1. i \in Nat /\ (i <= size => value[i] \in Nat)
      OBVIOUS
    <2>2. ASSUME i + 1 <= size PROVE value[i + 1] \in Nat
      <3>1. i + 1 \in 1 .. size /\ (i + 1) - 1 = i /\ value[i] \in Nat
        BY <2>1, <2>2
      <3> DEFINE term == bytes[offset + (i + 1)] * Pow2[i * ByteBits]
      <3>2. value[i + 1] = value[i] + term
        BY <1>1, <3>1 DEF Accumulates
      <3>3. term \in Nat
        BY <1>2, <3>1
      <3> HIDE DEF term
      <3> QED
        BY <3>1, <3>2, <3>3
    <2> QED
      BY <2>1, <2>2
  <1> HIDE DEF T
  <1>5. T = Nat
    BY <1>3, <1>4, Induction
  <1> QED
    BY <1>1, <1>5 DEF T

\* A header of numbers that differs from the given one in one field at most.
ChangedIn(changed, header, field) ==
  /\ changed \in [Fields -> Nat] /\ field \in Fields
  /\ \A f \in Fields \ {field} : changed[f] = header[f]

\* A damaged byte of the encoded header changes one field.
LEMMA DamagedHeader ==
  ASSUME NEW header, WellFormed(header), NEW place \in 1 .. kWireHeaderSize,
         NEW value \in 0 .. Base - 1
  PROVE  LET head == [serialize_header(header) EXCEPT ![place] = value]
         IN  /\ head \in Seq(0 .. Base - 1) /\ Len(head) = kWireHeaderSize
             /\ \E changed, field : /\ deserialize_header(head) = {changed}
                                    /\ ChangedIn(changed, header, field)
  <1> DEFINE wire == serialize_header(header)
             head == [wire EXCEPT ![place] = value]
             at(f) == CHOOSE i \in DOMAIN Reads : Reads[i][1] = f
             read == [f \in Fields |-> read_le(head, Reads[at(f)][2], Reads[at(f)][3])]
  <1>1. header \in [Fields -> Nat] /\ \A f \in Fields : header[f] \in Unsigned(FieldSize(f))
    BY DEF WellFormed
  <1>2. wire \in Seq(0 .. Base - 1) /\ Len(wire) = kWireHeaderSize /\ kWireHeaderSize = 44
    BY <1>1, WireType DEF kWireHeaderSize
  <1>3. /\ head \in Seq(0 .. Base - 1) /\ Len(head) = kWireHeaderSize
        /\ \A j \in 1 .. 44 : j # place => head[j] = wire[j]
    <2> DEFINE Byte == 0 .. Base - 1
    <2>1. wire \in Seq(Byte) /\ place \in 1 .. Len(wire) /\ value \in Byte
      BY <1>2
    <2> HIDE DEF wire, Byte
    <2>2. /\ head \in Seq(Byte) /\ Len(head) = Len(wire)
          /\ \A j \in 1 .. Len(wire) : head[j] = IF j = place THEN value ELSE wire[j]
      BY <2>1, ExceptSeq
    <2> HIDE DEF head
    <2> QED
      BY <1>2, <2>2 DEF Byte
  <1>4. deserialize_header(head) = {read}
    <2> HIDE DEF head
    <2> QED
      BY <1>3 DEF deserialize_header
  <1>5. \A j \in 1 .. 44 : head[j] \in Nat
    <2> HIDE DEF head
    <2> DEFINE Byte == 0 .. Base - 1
    <2>0. head \in Seq(Byte) /\ Len(head) = 44
      BY <1>2, <1>3
    <2> HIDE DEF Byte
    <2>1. \A j \in 1 .. 44 : head[j] \in Byte
      BY <2>0, ElementOfSeq
    <2> USE DEF Byte
    <2> QED
      BY <2>1, Widths
  <1>6. ASSUME NEW n \in 1 .. 10
        PROVE  /\ Writes[n][1] \in Fields /\ Writes[n][2] \in Nat /\ Writes[n][3] \in Nat
               /\ Writes[n][2] + Writes[n][3] <= 44
               /\ read[Writes[n][1]] = read_le(head, Writes[n][2], Writes[n][3])
               /\ FieldSize(Writes[n][1]) = Writes[n][3]
    <2>1. Writes[n][1] \in Fields
      BY Layout DEF Fields
    <2>2. at(Writes[n][1]) = n /\ FieldSize(Writes[n][1]) = Writes[n][3]
      BY Layout DEF FieldSize
    <2> HIDE DEF at, head
    <2>3. read[Writes[n][1]] = read_le(head, Writes[n][2], Writes[n][3])
      BY <2>1, <2>2, Layout
    <2> QED
      BY <2>1, <2>2, <2>3, Layout
  <1> HIDE DEF head, read
  <1>7. ASSUME NEW n \in 1 .. 10 PROVE read[Writes[n][1]] \in Nat
    <2> DEFINE o == Writes[n][2]
               s == Writes[n][3]
    <2>1. /\ o \in Nat /\ s \in Nat /\ o + s <= 44
          /\ read[Writes[n][1]] = read_le(head, o, s)
      BY <1>6
    <2> HIDE DEF o, s
    <2>2. \A i \in 1 .. s : o + i \in 1 .. 44
      BY <2>1
    <2>3. \A i \in 1 .. s : head[o + i] \in Nat
      BY <1>5, <2>2
    <2>4. read_le(head, o, s) \in Nat
      BY <2>1, <2>3, ReadType
    <2> QED
      BY <2>1, <2>4
  <1>8. ASSUME NEW n \in 1 .. 10, place - Writes[n][2] \notin 1 .. Writes[n][3]
        PROVE  read[Writes[n][1]] = header[Writes[n][1]]
    <2> DEFINE v == header[Writes[n][1]]
               o == Writes[n][2]
               s == Writes[n][3]
    <2>1. v \in Nat /\ v \in 0 .. Pow2[s * ByteBits] - 1
      BY <1>1, <1>6 DEF Unsigned
    <2>2. /\ o \in Nat /\ s \in Nat /\ o + s <= 44 /\ place - o \notin 1 .. s
          /\ read[Writes[n][1]] = read_le(head, o, s)
      BY <1>6, <1>8
    <2>3. \A i \in 1 .. s : wire[o + i] = write_le(v, i - 1)
      BY FieldOnWire
    <2> HIDE DEF v, o, s, wire
    <2>4. ASSUME NEW i \in 1 .. s PROVE head[o + i] = write_le(v, i - 1)
      <3>1. o + i \in 1 .. 44 /\ o + i # place
        BY <1>2, <2>2
      <3> QED
        BY <1>3, <2>3, <3>1
    <2>5. read_le(head, o, s) = v % Pow2[s * ByteBits]
      BY <2>1, <2>2, <2>4, ReadWritten
    <2>6. Pow2[s * ByteBits] \in Nat \ {0}
      BY <2>2, Widths
    <2>7. v % Pow2[s * ByteBits] = v
      BY <2>1, <2>6
    <2> QED
      BY <2>2, <2>5, <2>7 DEF v
  <1>9. PICK m \in 1 .. 10 : \A n \in 1 .. 10 :
          n # m => place - Writes[n][2] \notin 1 .. Writes[n][3]
    <2>1. ASSUME NEW n \in 1 .. 10, NEW m \in 1 .. 10, n # m,
                 place - Writes[n][2] \in 1 .. Writes[n][3],
                 place - Writes[m][2] \in 1 .. Writes[m][3]
          PROVE  FALSE
      <3>1. /\ n < m => Writes[n][2] + Writes[n][3] <= Writes[m][2]
            /\ m < n => Writes[m][2] + Writes[m][3] <= Writes[n][2]
        BY Layout
      <3>2. /\ Writes[n][2] \in Nat /\ Writes[n][3] \in Nat
            /\ Writes[m][2] \in Nat /\ Writes[m][3] \in Nat
        BY <1>6
      <3> DEFINE a == Writes[n][2]
                 b == Writes[n][3]
                 c == Writes[m][2]
                 d == Writes[m][3]
      <3>3. /\ n < m => a + b <= c
            /\ m < n => c + d <= a
            /\ a \in Nat /\ b \in Nat /\ c \in Nat /\ d \in Nat /\ place \in Nat
            /\ place - a \in 1 .. b /\ place - c \in 1 .. d
        <4>1. (n < m => a + b <= c) /\ (m < n => c + d <= a)
          BY <3>1
        <4>2. a \in Nat /\ b \in Nat /\ c \in Nat /\ d \in Nat
          BY <3>2
        <4>3. place \in Nat
          BY <1>2
        <4>4. place - a \in 1 .. b /\ place - c \in 1 .. d
          BY <2>1, Zenon
        <4> HIDE DEF a, b, c, d
        <4> QED
          BY <4>1, <4>2, <4>3, <4>4
      <3> HIDE DEF a, b, c, d
      <3> QED
        BY <2>1, <3>3
    <2> DEFINE In(n) == place - Writes[n][2] \in 1 .. Writes[n][3]
    <2>2. \A n, m \in 1 .. 10 : ~(n # m /\ In(n) /\ In(m))
      BY <2>1
    <2> HIDE DEF In
    <2>3. \E m \in 1 .. 10 : \A n \in 1 .. 10 : n # m => ~In(n)
      BY <2>2
    <2> QED
      BY <2>3 DEF In
  <1>10. \A f \in Fields : \E n \in 1 .. 10 : Writes[n][1] = f
    BY Layout DEF Fields
  <1>11. read = [f \in Fields |-> read[f]]
    BY DEF read
  <1>12. ChangedIn(read, header, Writes[m][1])
    <2>1. \A f \in Fields : read[f] \in Nat
      BY <1>7, <1>10
    <2>2. read \in [Fields -> Nat]
      BY <1>11, <2>1
    <2>3. ASSUME NEW f \in Fields \ {Writes[m][1]} PROVE read[f] = header[f]
      <3>1. PICK n \in 1 .. 10 : Writes[n][1] = f
        BY <1>10
      <3>2. n # m
        BY <3>1
      <3> QED
        BY <1>8, <1>9, <3>1, <3>2
    <2> QED
      BY <1>6, <2>2, <2>3 DEF ChangedIn
  <1>13. \E changed, field : /\ deserialize_header(head) = {changed}
                             /\ ChangedIn(changed, header, field)
    BY <1>4, <1>12
  <1> QED
    BY <1>3, <1>13 DEF head

\* The payload of a test frame is a sequence of width * height * 2 bytes.
LEMMA TestPayload ==
  ASSUME NEW width \in Nat \ {0}, NEW height \in Nat, NEW id \in Nat
  PROVE  /\ make_test_yuyv_payload(width, height, id) \in Seq(0 .. Base - 1)
         /\ Len(make_test_yuyv_payload(width, height, id)) = width * height * 2
  <1> DEFINE size == width * height * 2
             x(i) == 2 * (((i - 1) % (2 * width)) \div 4)
             y(i) == (i - 1) \div (2 * width)
             byte(i) == CASE (i - 1) % 4 = 0 -> (x(i) + id * 3) % Base
                          [] (i - 1) % 4 = 2 -> (x(i) + y(i) + id * 3) % Base
                          [] OTHER -> Base \div 2
             payload == make_test_yuyv_payload(width, height, id)
  <1>1. size \in Nat /\ Base \in Nat \ {0} /\ id * 3 \in Nat
    BY Widths
  <1>2. payload = [i \in 1 .. size |-> byte(i)]
    BY DEF make_test_yuyv_payload
  <1>3. ASSUME NEW i \in 1 .. size PROVE byte(i) \in 0 .. Base - 1
    <2>1. i - 1 \in Nat /\ 2 * width \in Nat \ {0}
      BY <1>1
    <2>2. \A a \in Nat : \A d \in Nat \ {0} : a % d \in Nat /\ a \div d \in Nat
      OBVIOUS
    <2>3. (i - 1) % (2 * width) \in Nat /\ y(i) \in Nat
      BY <2>1, <2>2
    <2>4. x(i) \in Nat
      BY <2>3
    <2> HIDE DEF x, y
    <2>5. \A a \in Nat : a % Base \in 0 .. Base - 1
      BY <1>1
    <2>6. /\ (x(i) + id * 3) % Base \in 0 .. Base - 1
          /\ (x(i) + y(i) + id * 3) % Base \in 0 .. Base - 1
          /\ Base \div 2 \in 0 .. Base - 1
      <3>1. x(i) + id * 3 \in Nat /\ x(i) + y(i) + id * 3 \in Nat
        BY <1>1, <2>3, <2>4
      <3>2. Base \div 2 \in 0 .. Base - 1
        BY <1>1
      <3> QED
        BY <2>5, <3>1, <3>2
    <2> QED
      BY <2>6
  <1> HIDE DEF byte, payload, size
  <1>4. payload \in [1 .. size -> 0 .. Base - 1]
    BY <1>2, <1>3
  <1>5. payload \in Seq(0 .. Base - 1) /\ Len(payload) = size
    <2> DEFINE Byte == 0 .. Base - 1
    <2>1. payload \in [1 .. size -> Byte]
      BY <1>4
    <2> HIDE DEF Byte
    <2>2. payload \in Seq(Byte) /\ Len(payload) = size
      BY <1>1, <2>1, FunctionIsSeq
    <2> QED
      BY <2>2 DEF Byte
  <1> QED
    BY <1>5 DEF payload, size

\* A header of tcp_sender: it describes a YUYV image exactly.
Describes(header, data) ==
  /\ WellFormed(header) /\ data \in Seq(0 .. Base - 1)
  /\ header.magic = kMagic /\ header.version = kVersion
  /\ header.header_size = kWireHeaderSize
  /\ header.width \in Nat \ {0} /\ header.height \in Nat \ {0}
  /\ header.pixel_format = V4L2_PIX_FMT_YUYV
  /\ header.payload_size = header.width * header.height * 2
  /\ header.payload_size = Len(data) /\ header.payload_crc32 = compute_crc32(data)

\* Small numbers fit every integer of the header.
LEMMA SmallFits ==
  /\ {0, 1} \subseteq Unsigned(8) /\ Unsigned(4) = 0 .. Pow2[4 * ByteBits] - 1
  /\ Pow2[4 * ByteBits] \in Nat \ {0}
  <1>1. 8 * ByteBits \in Nat /\ 1 <= 8 * ByteBits /\ 1 \in Nat
    BY Widths
  <1>2. Pow2[1] <= Pow2[8 * ByteBits] /\ Pow2[8 * ByteBits] \in Nat
    BY <1>1, Pow2Monotone, Pow2Def
  <1>3. Pow2[1] = 2
    <2>1. Pow2[0 + 1] = 2 * Pow2[0] /\ Pow2[0] = 1 /\ 0 + 1 = 1
      BY Pow2Def
    <2> QED
      BY <2>1
  <1> QED
    BY <1>2, <1>3, Widths DEF Unsigned

\* The header of a test frame describes its payload.
LEMMA TestHeaderDescribes ==
  ASSUME NEW width \in Nat, NEW height \in Nat, TestSize(width, height),
         NEW id \in {0, 1}
  PROVE  /\ Describes(TestHeader(width, height, id, 1),
                      make_test_yuyv_payload(width, height, id))
         /\ TestHeader(width, height, id, 1).capture_timestamp_ns = 1
  <1> DEFINE payload == make_test_yuyv_payload(width, height, id)
             size == width * height * 2
             header == TestHeader(width, height, id, 1)
  <1>1. width \in Nat \ {0} /\ height \in Nat \ {0} /\ size <= kDefaultMaxPayloadBytes
    BY DEF TestSize
  <1>2. payload \in Seq(0 .. Base - 1) /\ Len(payload) = size
    <2>1. id \in Nat
      OBVIOUS
    <2> QED
      BY <1>1, <2>1, TestPayload
  <1>3. size \in Nat /\ width <= size /\ height <= size
    BY <1>1
  <1>4. kDefaultMaxPayloadBytes \in Nat /\ kDefaultMaxPayloadBytes \in Unsigned(4)
    <2>1. kDefaultMaxPayloadBytes \in Nat /\ kDefaultMaxPayloadBytes + 1 \in Unsigned(4)
      BY ProtocolAssumption
    <2> QED
      BY <2>1, SmallFits
  <1> HIDE DEF payload, size
  <1>5. width \in Unsigned(4) /\ height \in Unsigned(4) /\ size \in Unsigned(4)
    BY <1>1, <1>3, <1>4, SmallFits
  <1>6. compute_crc32(payload) \in Unsigned(4)
    BY ChecksumFits
  <1>7. V4L2_PIX_FMT_YUYV \in Unsigned(4) /\ id \in Unsigned(8) /\ 1 \in Unsigned(8)
    BY ProtocolAssumption, SmallFits
  <1>8. header = make_header(id, 1, width, height, V4L2_PIX_FMT_YUYV, size,
                             compute_crc32(payload))
    BY <1>2 DEF TestHeader, payload
  <1> HIDE DEF header
  <1>9. WellFormed(header)
    <2>1. WellFormed(make_header(id, 1, width, height, V4L2_PIX_FMT_YUYV, size,
                                 compute_crc32(payload)))
      BY <1>5, <1>6, <1>7, MadeWellFormed
    <2> QED
      BY <1>8, <2>1
  <1>10. /\ header.magic = kMagic /\ header.version = kVersion
         /\ header.header_size = kWireHeaderSize
         /\ header.width = width /\ header.height = height
         /\ header.pixel_format = V4L2_PIX_FMT_YUYV /\ header.payload_size = size
         /\ header.payload_crc32 = compute_crc32(payload)
         /\ header.capture_timestamp_ns = 1
    BY <1>8 DEF make_header
  <1>11. Describes(header, payload)
    BY <1>1, <1>2, <1>9, <1>10 DEF Describes, size
  <1> QED
    BY <1>10, <1>11 DEF header, payload

\* The receiver accepts the frame.
Accepts(header, data, max) == Verdict(header, data, max).reason = ""

\* An accepted header that differs in one field describes the same image.
LEMMA ChangedHeader ==
  ASSUME NEW header, NEW data, Describes(header, data), NEW changed, NEW field,
         ChangedIn(changed, header, field), NEW max,
         Accepts(changed, data, max)
  PROVE  /\ Verdict(changed, data, max).payload = data
         /\ Verdict(changed, data, max).header = changed
         /\ \A f \in Fields \ {"frame_id", "capture_timestamp_ns", "pixel_format"} :
              changed[f] = header[f]
  <1> DEFINE w == changed.width
             h == changed.height
             image == w * h * 2
             expected == image % Pow2[8 * ByteBits]
             payload == SubSeq(data, 1, changed.payload_size)
             verdict == Verdict(changed, data, max)
  <1>1. /\ validate_header(changed, max) = "" /\ compute_crc32(payload) = changed.payload_crc32
        /\ verdict.header = changed /\ verdict.payload = payload
    BY DEF Verdict, Accepts
  <1> HIDE DEF payload, verdict
  <1>2. \A i \in 1 .. 13 : ~Fails(changed, max, i)
    BY <1>1, Refused
  <1>3. /\ ~Fails(changed, max, 2) /\ ~Fails(changed, max, 3) /\ ~Fails(changed, max, 4)
        /\ ~Fails(changed, max, 7) /\ ~Fails(changed, max, 13)
    <2>1. {2, 3, 4, 7, 13} \subseteq 1 .. 13
      OBVIOUS
    <2> QED
      BY <1>2, <2>1, Zenon
  <1>4. /\ changed.magic = kMagic /\ changed.header_size = kWireHeaderSize
        /\ changed.version = kVersion /\ ~(w > kMaxDimension) /\ ~(h > kMaxDimension)
        /\ changed.pixel_format = V4L2_PIX_FMT_YUYV => changed.payload_size = expected
    BY <1>3, ChecksListed
  <1>5. /\ header.magic = kMagic /\ header.version = kVersion
        /\ header.header_size = kWireHeaderSize
        /\ header.width \in Nat \ {0} /\ header.height \in Nat \ {0}
        /\ header.pixel_format = V4L2_PIX_FMT_YUYV
        /\ header.payload_size = header.width * header.height * 2
        /\ header.payload_size = Len(data) /\ header.payload_crc32 = compute_crc32(data)
        /\ data \in Seq(0 .. Base - 1)
    BY DEF Describes
  <1>6. /\ w \in Nat /\ h \in Nat /\ field \in Fields
        /\ \A f \in Fields : f # field => changed[f] = header[f]
    BY FieldsListed DEF ChangedIn
  <1> HIDE DEF w, h
  <1>7. expected = image /\ image \in Nat
    <2> DEFINE m == kMaxDimension
               p == Pow2[4 * ByteBits]
               q == Pow2[8 * ByteBits]
    <2>1. m \in Nat /\ m * m * 2 \in Unsigned(4)
      BY ProtocolAssumption
    <2>2. 4 * ByteBits \in Nat /\ 8 * ByteBits \in Nat /\ 4 * ByteBits <= 8 * ByteBits
      BY Widths
    <2>3. p <= q /\ q \in Nat \ {0} /\ p \in Nat
      BY <2>2, Pow2Monotone, Pow2Def
    <2>4. m * m * 2 \in 0 .. p - 1
      BY <2>1, SmallFits
    <2>5. ~(w > m) /\ ~(h > m)
      BY <1>4
    <2> HIDE DEF m, p, q
    <2>6. w <= m /\ h <= m
      BY <1>6, <2>1, <2>5
    <2>7. w * h <= m * m /\ w * h \in Nat /\ m * m \in Nat
      BY <1>6, <2>1, <2>6, ProductMonotone
    <2>8. image \in Nat /\ image < q
      BY <2>3, <2>4, <2>7
    <2> HIDE DEF image
    <2>9. image % q = image
      BY <2>3, <2>8
    <2> QED
      BY <2>8, <2>9 DEF q
  <1> HIDE DEF expected
  <1>8. ASSUME NEW a \in Nat, NEW b \in Nat, NEW c \in Nat \ {0}
        PROVE  /\ a * c * 2 = b * c * 2 => a = b
               /\ c * a * 2 = c * b * 2 => a = b
    <2>1. a * c \in Nat /\ b * c \in Nat /\ c * a = a * c /\ c * b = b * c
      OBVIOUS
    <2>2. a * c = b * c => a = b
      BY FactorCancels
    <2>3. \A x, y \in Nat : x * 2 = y * 2 => x = y
      OBVIOUS
    <2> QED
      BY <2>1, <2>2, <2>3
  <1>9. changed.payload_size = header.payload_size
    <2>1. CASE field = "payload_size"
      <3>1. /\ w = header.width /\ h = header.height
            /\ changed.pixel_format = header.pixel_format
        BY <1>6, <2>1, FieldsListed DEF w, h
      <3> QED
        BY <1>4, <1>5, <1>7, <3>1
    <2>2. CASE field # "payload_size"
      BY <1>6, <2>2, FieldsListed
    <2> QED
      BY <2>1, <2>2
  <1>10. w = header.width
    <2>1. CASE field = "width"
      <3>1. h = header.height /\ changed.pixel_format = header.pixel_format
        BY <1>6, <2>1, FieldsListed DEF h
      <3>2. w * header.height * 2 = header.width * header.height * 2
        BY <1>4, <1>5, <1>7, <1>9, <3>1
      <3> QED
        BY <1>5, <1>6, <1>8, <3>2
    <2>2. CASE field # "width"
      BY <1>6, <2>2, FieldsListed DEF w
    <2> QED
      BY <2>1, <2>2
  <1>11. h = header.height
    <2>1. CASE field = "height"
      <3>1. w = header.width /\ changed.pixel_format = header.pixel_format
        BY <1>6, <2>1, FieldsListed DEF w
      <3>2. header.width * h * 2 = header.width * header.height * 2
        BY <1>4, <1>5, <1>7, <1>9, <3>1
      <3> QED
        BY <1>5, <1>6, <1>8, <3>2
    <2>2. CASE field # "height"
      BY <1>6, <2>2, FieldsListed DEF h
    <2> QED
      BY <2>1, <2>2
  <1>12. payload = data
    BY <1>5, <1>9, SubSeqFull DEF payload
  <1>13. changed.payload_crc32 = header.payload_crc32
    BY <1>1, <1>5, <1>12
  <1>14. \A f \in Fields \ {"frame_id", "capture_timestamp_ns", "pixel_format"} :
           changed[f] = header[f]
    BY <1>4, <1>5, <1>9, <1>10, <1>11, <1>13, FieldsListed DEF w, h
  <1> QED
    BY <1>1, <1>12, <1>14 DEF verdict

Replaced(s, i, e) == [s EXCEPT ![i] = e]
Joined(s, t) == s \o t

\* An element of a concatenation is replaced in the part that holds it.
LEMMA ExceptConcat ==
  ASSUME NEW S, NEW s \in Seq(S), NEW t \in Seq(S), NEW p \in 1 .. Len(s) + Len(t),
         NEW e \in S
  PROVE  /\ p <= Len(s) => Replaced(Joined(s, t), p, e) = Joined(Replaced(s, p, e), t)
         /\ ~(p <= Len(s)) =>
              Replaced(Joined(s, t), p, e) = Joined(s, Replaced(t, p - Len(s), e))
  <1> DEFINE c == s \o t
             x == [c EXCEPT ![p] = e]
  <1>1. /\ c \in Seq(S) /\ Len(c) = Len(s) + Len(t) /\ Len(s) \in Nat /\ Len(t) \in Nat
        /\ \A i \in 1 .. Len(s) + Len(t) :
             c[i] = IF i <= Len(s) THEN s[i] ELSE t[i - Len(s)]
    BY ConcatProperties, LenProperties
  <1> HIDE DEF c
  <1>2. /\ x \in Seq(S) /\ Len(x) = Len(c)
        /\ \A i \in 1 .. Len(c) : x[i] = IF i = p THEN e ELSE c[i]
    BY <1>1, ExceptSeq
  <1> HIDE DEF x
  <1>3. CASE p <= Len(s)
    <2> DEFINE a == [s EXCEPT ![p] = e]
               y == a \o t
    <2>1. p \in 1 .. Len(s)
      BY <1>1, <1>3
    <2>2. /\ a \in Seq(S) /\ Len(a) = Len(s)
          /\ \A i \in 1 .. Len(s) : a[i] = IF i = p THEN e ELSE s[i]
      BY <2>1, ExceptSeq
    <2> HIDE DEF a
    <2>3. /\ y \in Seq(S) /\ Len(y) = Len(a) + Len(t)
          /\ \A i \in 1 .. Len(a) + Len(t) :
               y[i] = IF i <= Len(a) THEN a[i] ELSE t[i - Len(a)]
      BY <2>2, ConcatProperties
    <2> HIDE DEF y
    <2>4. ASSUME NEW i \in 1 .. Len(c) PROVE x[i] = y[i]
      <3>1. /\ x[i] = IF i = p THEN e ELSE c[i]
            /\ c[i] = IF i <= Len(s) THEN s[i] ELSE t[i - Len(s)]
            /\ y[i] = IF i <= Len(s) THEN a[i] ELSE t[i - Len(s)]
            /\ i \in Nat /\ i >= 1
        BY <1>1, <1>2, <2>2, <2>3
      <3>2. CASE i <= Len(s)
        <4>1. a[i] = IF i = p THEN e ELSE s[i]
          BY <1>1, <2>2, <3>1, <3>2
        <4> QED
          BY <3>1, <3>2, <4>1
      <3>3. CASE ~(i <= Len(s))
        <4>1. i # p
          BY <1>3, <3>3
        <4> QED
          BY <3>1, <3>3, <4>1
      <3> QED
        BY <3>2, <3>3
    <2>5. x = y
      BY <1>1, <1>2, <2>2, <2>3, <2>4, SeqEqual
    <2> QED
      BY <1>3, <2>5 DEF x, y, a, c, Replaced, Joined
  <1>4. CASE ~(p <= Len(s))
    <2> DEFINE q == p - Len(s)
               b == [t EXCEPT ![q] = e]
               y == s \o b
    <2>1. q \in 1 .. Len(t) /\ p = Len(s) + q
      BY <1>1, <1>4
    <2> HIDE DEF q
    <2>2. /\ b \in Seq(S) /\ Len(b) = Len(t)
          /\ \A i \in 1 .. Len(t) : b[i] = IF i = q THEN e ELSE t[i]
      BY <2>1, ExceptSeq
    <2> HIDE DEF b
    <2>3. /\ y \in Seq(S) /\ Len(y) = Len(s) + Len(b)
          /\ \A i \in 1 .. Len(s) + Len(b) :
               y[i] = IF i <= Len(s) THEN s[i] ELSE b[i - Len(s)]
      BY <2>2, ConcatProperties
    <2> HIDE DEF y
    <2>4. ASSUME NEW i \in 1 .. Len(c) PROVE x[i] = y[i]
      <3>1. /\ x[i] = IF i = p THEN e ELSE c[i]
            /\ c[i] = IF i <= Len(s) THEN s[i] ELSE t[i - Len(s)]
            /\ y[i] = IF i <= Len(s) THEN s[i] ELSE b[i - Len(s)]
            /\ i \in Nat /\ i >= 1 /\ i <= Len(s) + Len(t)
        BY <1>1, <1>2, <2>2, <2>3
      <3>2. CASE i <= Len(s)
        <4>1. i # p
          BY <1>4, <3>2
        <4> QED
          BY <3>1, <3>2, <4>1
      <3>3. CASE ~(i <= Len(s))
        <4> DEFINE k == i - Len(s)
        <4>1. k \in 1 .. Len(t) /\ (k = q <=> i = p)
          BY <1>1, <2>1, <3>1, <3>3
        <4> HIDE DEF k
        <4>2. b[k] = IF k = q THEN e ELSE t[k]
          BY <2>2, <4>1
        <4>3. x[i] = (IF i = p THEN e ELSE t[k]) /\ y[i] = b[k]
          BY <3>1, <3>3 DEF k
        <4> QED
          BY <4>1, <4>2, <4>3
      <3> QED
        BY <3>2, <3>3
    <2>5. x = y
      BY <1>1, <1>2, <2>2, <2>3, <2>4, SeqEqual
    <2> QED
      BY <1>4, <2>5 DEF x, y, b, c, q, Replaced, Joined
  <1> QED
    BY <1>3, <1>4

\* What was sent, seen from the wire.
LEMMA SentFrame ==
  ASSUME NEW header, NEW data, Describes(header, data)
  PROVE  LET wire == serialize_header(header) \o data
         IN  /\ (CHOOSE h \in deserialize_header(SubSeq(wire, 1, kWireHeaderSize)) : TRUE)
                  = header
             /\ SubSeq(wire, kWireHeaderSize + 1, Len(wire)) = data
             /\ wire \in Seq(0 .. Base - 1) /\ Len(wire) = kWireHeaderSize + Len(data)
             /\ serialize_header(header) \in Seq(0 .. Base - 1)
             /\ Len(serialize_header(header)) = kWireHeaderSize
  <1> DEFINE head == serialize_header(header)
             D == deserialize_header(SubSeq(head \o data, 1, kWireHeaderSize))
  <1>1. data \in Seq(0 .. Base - 1) /\ header \in [Fields -> Nat]
    BY DEF Describes, WellFormed
  <1>2. head \in Seq(0 .. Base - 1) /\ Len(head) = kWireHeaderSize
    BY <1>1, WireType
  <1>3. deserialize_header(head) = {header}
    BY Codec DEF Describes, WellFormed
  <1> HIDE DEF head
  <1>4. /\ SubSeq(head \o data, 1, Len(head)) = head
        /\ SubSeq(head \o data, Len(head) + 1, Len(head \o data)) = data
    BY <1>1, <1>2, Parts
  <1>5. D = {header}
    BY <1>2, <1>3, <1>4
  <1> HIDE DEF D
  <1>6. (CHOOSE h \in D : TRUE) = header
    <2>1. (CHOOSE h \in D : TRUE) \in D
      BY <1>5
    <2> QED
      BY <1>5, <2>1
  <1>7. head \o data \in Seq(0 .. Base - 1) /\ Len(head \o data) = kWireHeaderSize + Len(data)
    BY <1>1, <1>2, ConcatProperties
  <1> QED
    BY <1>2, <1>4, <1>6, <1>7 DEF D, head

Validates(header, max) == \A i \in 1 .. 13 : ~Fails(header, max, i)

Mismatch(header, data, max) == Verdict(header, data, max).reason = "crc mismatch"

\* A payload with one byte replaced is refused.
LEMMA DamagedPayload ==
  ASSUME NEW header, NEW data, Describes(header, data), NEW place \in 1 .. Len(data),
         NEW value \in 0 .. Base - 1, data[place] # value, NEW max
  PROVE  LET other == [data EXCEPT ![place] = value]
         IN  /\ other \in Seq(0 .. Base - 1)
             /\ ~Accepts(header, other, max)
             /\ Validates(header, max) => Mismatch(header, other, max)
  <1> DEFINE other == [data EXCEPT ![place] = value]
             Byte == 0 .. Base - 1
             payload == SubSeq(other, 1, header.payload_size)
  <1>1. /\ data \in Seq(Byte) /\ header.payload_size = Len(data) /\ Len(data) \in Nat
        /\ header.payload_crc32 = compute_crc32(data) /\ value \in Byte
    BY LenProperties DEF Describes
  <1> HIDE DEF Byte
  <1>2. /\ other \in Seq(Byte) /\ Len(other) = Len(data)
        /\ \A i \in 1 .. Len(data) : other[i] = IF i = place THEN value ELSE data[i]
    BY <1>1, ExceptSeq
  <1> HIDE DEF other
  <1>3. DifferAt(data, other, place)
    BY <1>1, <1>2 DEF DifferAt, Byte
  <1>4. compute_crc32(data) # compute_crc32(other)
    BY <1>3, ChecksumsDiffer
  <1>5. payload = other
    BY <1>1, <1>2, SubSeqFull
  <1> HIDE DEF payload
  <1>6. ~(Len(other) < header.payload_size) /\ compute_crc32(payload) # header.payload_crc32
    BY <1>1, <1>2, <1>4, <1>5
  <1>7. Verdict(header, other, max).reason
          = IF validate_header(header, max) # "" THEN validate_header(header, max)
            ELSE "crc mismatch"
    BY <1>6 DEF Verdict, payload
  <1>8. ~Accepts(header, other, max)
    BY <1>7 DEF Accepts
  <1>9. Validates(header, max) => Mismatch(header, other, max)
    BY <1>7, Refused DEF Validates, Mismatch
  <1> QED
    BY <1>2, <1>8, <1>9 DEF other, Byte

Passed(result) == result.reason = ""

\* One byte of a wire is replaced by another.
Damage(wire, damaged, place, value) ==
  /\ place \in DOMAIN wire /\ value \in 0 .. Base - 1 /\ wire[place] # value
  /\ damaged = Replaced(wire, place, value)

\* The byte is one of the header's or one of the payload's.
LEMMA Placed ==
  ASSUME NEW S, NEW s \in Seq(S), NEW t \in Seq(S), NEW p \in DOMAIN Joined(s, t),
         NEW e \in S, Joined(s, t)[p] # e
  PROVE  \/ /\ p \in 1 .. Len(s) /\ s[p] # e
            /\ Replaced(Joined(s, t), p, e) = Joined(Replaced(s, p, e), t)
         \/ \E k \in 1 .. Len(t) : 
              /\ t[k] # e
              /\ Replaced(Joined(s, t), p, e) = Joined(s, Replaced(t, k, e))
  <1> DEFINE c == Joined(s, t)
             x == Replaced(c, p, e)
  <1>1. /\ c \in Seq(S) /\ Len(c) = Len(s) + Len(t) /\ Len(s) \in Nat /\ Len(t) \in Nat
        /\ \A i \in 1 .. Len(s) + Len(t) :
             c[i] = IF i <= Len(s) THEN s[i] ELSE t[i - Len(s)]
    BY ConcatProperties, LenProperties DEF Joined
  <1>2. DOMAIN c = 1 .. Len(c) /\ c[p] # e
    BY <1>1, LenProperties
  <1>3. p \in 1 .. Len(s) + Len(t) /\ p \in Nat /\ p >= 1
    BY <1>1, <1>2
  <1>4. /\ p <= Len(s) => x = Joined(Replaced(s, p, e), t)
        /\ ~(p <= Len(s)) => x = Joined(s, Replaced(t, p - Len(s), e))
    BY <1>3, ExceptConcat
  <1>5. CASE p <= Len(s)
    <2>1. c[p] = s[p] /\ p \in 1 .. Len(s)
      BY <1>1, <1>3, <1>5
    <2>2. x = Joined(Replaced(s, p, e), t)
      BY <1>4, <1>5
    <2> HIDE DEF x, c
    <2>3. s[p] # e
      BY <1>2, <2>1
    <2> QED
      BY <2>1, <2>2, <2>3 DEF x, c
  <1>6. CASE ~(p <= Len(s))
    <2> DEFINE k == p - Len(s)
    <2>1. k \in 1 .. Len(t) /\ c[p] = t[k]
      BY <1>1, <1>3, <1>6
    <2>2. x = Joined(s, Replaced(t, k, e))
      BY <1>4, <1>6
    <2> HIDE DEF k, x, c
    <2>3. t[k] # e
      BY <1>2, <2>1
    <2> QED
      BY <2>1, <2>2, <2>3 DEF x, c
  <1> QED
    BY <1>5, <1>6

\* A damaged byte of a frame is one of its header or one of its payload.
LEMMA DamagePlaced ==
  ASSUME NEW head \in Seq(0 .. Base - 1), NEW data \in Seq(0 .. Base - 1),
         NEW place, NEW value, NEW damaged,
         Damage(Joined(head, data), damaged, place, value)
  PROVE  \/ /\ place \in 1 .. Len(head) /\ head[place] # value
            /\ damaged = Joined(Replaced(head, place, value), data)
         \/ \E k \in 1 .. Len(data) : /\ data[k] # value
                                      /\ damaged = Joined(head, Replaced(data, k, value))
  <1> DEFINE Byte == 0 .. Base - 1
  <1>1. /\ place \in DOMAIN Joined(head, data) /\ value \in Byte
        /\ Joined(head, data)[place] # value
        /\ damaged = Replaced(Joined(head, data), place, value)
        /\ head \in Seq(Byte) /\ data \in Seq(Byte)
    BY DEF Damage
  <1> HIDE DEF Byte
  <1> QED
    BY <1>1, Placed

\* One byte of a frame is replaced: the frame is refused, or its image and its
\* size are what was sent.
LEMMA DamagedFrame ==
  ASSUME NEW header, NEW data, Describes(header, data), NEW wire,
         wire = serialize_header(header) \o data, NEW place, NEW value, NEW damaged,
         Damage(wire, damaged, place, value), NEW max, Passed(Receive(damaged, max))
  PROVE  ImageIntact(wire, Receive(damaged, max))
  <1> DEFINE head == serialize_header(header)
             result == Receive(damaged, max)
             sent == CHOOSE h \in deserialize_header(SubSeq(wire, 1, kWireHeaderSize)) : TRUE
  <1>0. Passed(result)
    OBVIOUS
  <1>1. /\ sent = header /\ SubSeq(wire, kWireHeaderSize + 1, Len(wire)) = data
        /\ head \in Seq(0 .. Base - 1) /\ Len(head) = 44
    BY SentFrame DEF kWireHeaderSize
  <1>2. data \in Seq(0 .. Base - 1) /\ WellFormed(header) /\ value \in 0 .. Base - 1
    BY DEF Describes, Damage
  <1> HIDE DEF head, sent, result
  <1>6. Damage(Joined(head, data), damaged, place, value)
    BY DEF head, Joined
  <1>3. \/ /\ place \in 1 .. Len(head) /\ head[place] # value
           /\ damaged = Joined(Replaced(head, place, value), data)
        \/ \E k \in 1 .. Len(data) : /\ data[k] # value
                                     /\ damaged = Joined(head, Replaced(data, k, value))
    <2>1. head \in Seq(0 .. Base - 1) /\ data \in Seq(0 .. Base - 1)
      BY <1>1, <1>2
    <2> QED
      BY <1>6, <2>1, DamagePlaced
  <1>4. ASSUME place \in 1 .. Len(head), damaged = Joined(Replaced(head, place, value), data)
        PROVE  ImageIntact(wire, result)
    <2> DEFINE first == [head EXCEPT ![place] = value]
    <2>1. place \in 1 .. kWireHeaderSize
      BY <1>1, <1>4 DEF kWireHeaderSize
    <2>2. /\ first \in Seq(0 .. Base - 1) /\ Len(first) = kWireHeaderSize
          /\ \E changed, field : /\ deserialize_header(first) = {changed}
                                 /\ ChangedIn(changed, header, field)
      BY <1>2, <2>1, DamagedHeader DEF head
    <2>3. damaged = first \o data
      BY <1>4 DEF Joined, Replaced
    <2> HIDE DEF first
    <2>4. PICK changed, field : /\ deserialize_header(first) = {changed}
                                /\ ChangedIn(changed, header, field)
      BY <2>2
    <2>5. result = Verdict(changed, data, max)
      BY <1>2, <2>2, <2>3, <2>4, Received DEF result
    <2>6. Accepts(changed, data, max)
      BY <1>0, <2>5 DEF Accepts, Passed
    <2>7. /\ result.payload = data /\ result.header = changed
          /\ \A f \in Fields \ {"frame_id", "capture_timestamp_ns", "pixel_format"} :
               changed[f] = header[f]
      BY <2>4, <2>5, <2>6, ChangedHeader
    <2> QED
      BY <1>1, <2>7 DEF ImageIntact, sent
  <1>5. ASSUME NEW k \in 1 .. Len(data), data[k] # value,
               damaged = Joined(head, Replaced(data, k, value))
        PROVE  FALSE
    <2> DEFINE other == [data EXCEPT ![k] = value]
    <2>1. other \in Seq(0 .. Base - 1) /\ ~Accepts(header, other, max)
      BY <1>2, <1>5, DamagedPayload
    <2>2. damaged = head \o other
      BY <1>5 DEF Joined, Replaced
    <2> HIDE DEF other
    <2>3. result = Verdict(header, other, max)
      BY <1>2, <2>1, <2>2, ReceivedEncoded DEF head, result
    <2> QED
      BY <1>0, <2>1, <2>3 DEF Accepts, Passed
  <1> QED
    BY <1>3, <1>4, <1>5 DEF result

\* The reason is that of the first check that fails.
LEMMA FirstRefusal ==
  ASSUME NEW header, NEW max, NEW i \in 1 .. 13, Fails(header, max, i),
         \A j \in 1 .. i - 1 : ~Fails(header, max, j)
  PROVE  validate_header(header, max) = HeaderChecks(header, max)[i][2]
  <1> DEFINE checks == HeaderChecks(header, max)
             first(k) == checks[k][1] /\ \A j \in 1 .. k - 1 : ~checks[j][1]
             chosen == CHOOSE k \in DOMAIN checks : first(k)
  <1>1. DOMAIN checks = 1 .. 13
    BY ChecksListed
  <1>2. validate_header(header, max)
          = IF \E k \in DOMAIN checks : checks[k][1] THEN checks[chosen][2] ELSE ""
    BY DEF validate_header, FirstFailure
  <1>3. first(i)
    BY DEF Fails
  <1> HIDE DEF checks
  <1>4. chosen \in 1 .. 13 /\ first(chosen)
    BY <1>1, <1>3
  <1> HIDE DEF chosen
  <1>5. ~(chosen < i) /\ ~(i < chosen)
    BY <1>3, <1>4
  <1>6. chosen = i
    BY <1>4, <1>5
  <1> QED
    BY <1>1, <1>2, <1>3, <1>6 DEF checks

\* The reasons that the faults of tcp_sender are to be refused for.
RefusedFor(header, max, i, reason) ==
  Fails(header, max, i) /\ (\A j \in 1 .. i - 1 : ~Fails(header, max, j))
    => validate_header(header, max) = reason

\* The reason given is that of the first check that fails.
LEMMA Reasons ==
  ASSUME NEW header, NEW max
  PROVE  /\ RefusedFor(header, max, 2, "invalid magic")
         /\ RefusedFor(header, max, 3, "header size")
         /\ RefusedFor(header, max, 4, "version")
         /\ RefusedFor(header, max, 6, "zero dimension")
         /\ RefusedFor(header, max, 10, "payload limit")
         /\ RefusedFor(header, max, 13, "size mismatch")
  <1> DEFINE reason(i) == HeaderChecks(header, max)[i][2]
  <1>1. /\ reason(2) = "invalid magic" /\ reason(3) = "header size"
        /\ reason(4) = "version" /\ reason(6) = "zero dimension"
        /\ reason(10) = "payload limit" /\ reason(13) = "size mismatch"
    BY DEF HeaderChecks
  <1>2. \A i \in 1 .. 13 : RefusedFor(header, max, i, reason(i))
    BY FirstRefusal DEF RefusedFor
  <1> HIDE DEF reason
  <1>3. {2, 3, 4, 6, 10, 13} \subseteq 1 .. 13
    OBVIOUS
  <1> QED
    BY <1>1, <1>2, <1>3

\* A header with one field replaced by an integer of its size.
LEMMA FieldReplaced ==
  ASSUME NEW header, WellFormed(header), NEW f \in Fields,
         NEW value \in Unsigned(FieldSize(f)), value \in Nat
  PROVE  /\ WellFormed([header EXCEPT ![f] = value])
         /\ [header EXCEPT ![f] = value][f] = value
         /\ \A g \in Fields \ {f} : [header EXCEPT ![f] = value][g] = header[g]
  BY DEF WellFormed

\* The lowest bit of an integer of whole bytes.
LEMMA Flipped ==
  ASSUME NEW n \in Nat \ {0}, NEW v \in 0 .. Pow2[n] - 1
  PROVE  FlipLowestBit(v) \in 0 .. Pow2[n] - 1 /\ FlipLowestBit(v) # v
  <1> DEFINE p == Pow2[n - 1]
  <1>1. Pow2[n] = 2 * p /\ p \in Nat
    <2>1. n - 1 \in Nat /\ n # 0
      OBVIOUS
    <2> QED
      BY <2>1, Pow2Def
  <1> HIDE DEF p
  <1>2. v \in Nat /\ v < 2 * p
    BY <1>1
  <1>3. CASE v % 2 = 0
    <2>1. v + 1 < 2 * p
      BY <1>1, <1>2, <1>3
    <2> QED
      BY <1>1, <1>2, <1>3, <2>1 DEF FlipLowestBit
  <1>4. CASE v % 2 # 0
    BY <1>1, <1>2, <1>4 DEF FlipLowestBit
  <1> QED
    BY <1>3, <1>4

\* The header of a fault is refused with this reason.
FaultNamed(header, fault, max) ==
  LET changed == apply_header_fault(header, fault)
  IN  WellFormed(changed) /\ validate_header(changed, max) = FaultReason(fault)

\* tcp_sender --header-fault bad-magic is refused for its magic number.
LEMMA MagicFault ==
  ASSUME NEW header, NEW data, Describes(header, data), NEW max, Validates(header, max)
  PROVE  FaultNamed(header, "bad-magic", max)
  <1> DEFINE value == FlipLowestBit(header.magic)
             changed == [header EXCEPT !["magic"] = value]
  <1>1. WellFormed(header) /\ header.magic = kMagic
    BY DEF Describes
  <1>2. /\ kMagic \in 0 .. Pow2[4 * ByteBits] - 1 /\ 4 * ByteBits \in Nat \ {0}
        /\ Pow2[4 * ByteBits] \in Nat
    BY ProtocolAssumption, Widths, SmallFits, SMTT(30)
  <1>3. value \in 0 .. Pow2[4 * ByteBits] - 1 /\ value # kMagic
    BY <1>1, <1>2, Flipped
  <1>4. value \in Unsigned(FieldSize("magic")) /\ value \in Nat /\ "magic" \in Fields
    BY <1>2, <1>3, FieldsListed, SmallFits
  <1> HIDE DEF value
  <1>5. WellFormed(changed) /\ changed["magic"] = value
    BY <1>1, <1>4, FieldReplaced
  <1>6. apply_header_fault(header, "bad-magic") = changed
    BY <1>1 DEF apply_header_fault, value
  <1> HIDE DEF changed
  <1>10. ~Fails(header, max, 1)
    BY DEF Validates
  <1>7. Fails(changed, max, 2) /\ ~Fails(changed, max, 1)
    BY <1>3, <1>5, <1>10, ChecksListed
  <1>8. \A j \in 1 .. 2 - 1 : ~Fails(changed, max, j)
    BY <1>7
  <1>9. validate_header(changed, max) = "invalid magic"
    BY <1>7, <1>8, Reasons DEF RefusedFor
  <1> QED
    BY <1>5, <1>6, <1>9 DEF FaultNamed, FaultReason

\* bad-version is refused for its version.
LEMMA VersionFault ==
  ASSUME NEW header, NEW data, Describes(header, data), NEW max, Validates(header, max)
  PROVE  FaultNamed(header, "bad-version", max)
  <1> DEFINE value == header.version + 1
             changed == [header EXCEPT !["version"] = value]
  <1>1. WellFormed(header) /\ header.version = kVersion
    BY DEF Describes
  <1>2. value \in Unsigned(2) /\ value \in Nat /\ value # kVersion
    BY <1>1, ProtocolAssumption
  <1>3. value \in Unsigned(FieldSize("version")) /\ "version" \in Fields
    BY <1>2, FieldsListed
  <1> HIDE DEF value
  <1>4. /\ WellFormed(changed) /\ changed["version"] = value
        /\ \A g \in Fields \ {"version"} : changed[g] = header[g]
    BY <1>1, <1>2, <1>3, FieldReplaced
  <1>5. apply_header_fault(header, "bad-version") = changed
    BY <1>1 DEF apply_header_fault, value
  <1> HIDE DEF changed
  <1>6. changed.magic = header.magic /\ changed.header_size = header.header_size
    BY <1>4, FieldsListed
  <1>7. ~Fails(header, max, 1) /\ ~Fails(header, max, 2) /\ ~Fails(header, max, 3)
    BY DEF Validates
  <1>8. /\ Fails(changed, max, 4) /\ ~Fails(changed, max, 1)
        /\ ~Fails(changed, max, 2) /\ ~Fails(changed, max, 3)
    BY <1>2, <1>4, <1>6, <1>7, ChecksListed
  <1>9. \A j \in 1 .. 4 - 1 : j = 1 \/ j = 2 \/ j = 3
    OBVIOUS
  <1>10. \A j \in 1 .. 4 - 1 : ~Fails(changed, max, j)
    BY <1>8, <1>9
  <1>11. validate_header(changed, max) = "version"
    BY <1>8, <1>10, Reasons DEF RefusedFor
  <1> QED
    BY <1>4, <1>5, <1>11 DEF FaultNamed, FaultReason

\* bad-header-size is refused for its header size.
LEMMA SizeFault ==
  ASSUME NEW header, NEW data, Describes(header, data), NEW max, Validates(header, max)
  PROVE  FaultNamed(header, "bad-header-size", max)
  <1> DEFINE changed == [header EXCEPT !["header_size"] = 1]
  <1>1. WellFormed(header)
    BY DEF Describes
  <1>2. 1 \in Unsigned(2) /\ 1 # kWireHeaderSize /\ 1 \in Nat
    BY ProtocolAssumption, Widths DEF kWireHeaderSize, Unsigned
  <1>3. 1 \in Unsigned(FieldSize("header_size")) /\ "header_size" \in Fields
    BY <1>2, FieldsListed
  <1>4. /\ WellFormed(changed) /\ changed["header_size"] = 1
        /\ \A g \in Fields \ {"header_size"} : changed[g] = header[g]
    BY <1>1, <1>2, <1>3, FieldReplaced
  <1>5. apply_header_fault(header, "bad-header-size") = changed
    BY <1>1 DEF apply_header_fault
  <1> HIDE DEF changed
  <1>6. changed.magic = header.magic
    BY <1>4, FieldsListed
  <1>7. ~Fails(header, max, 1) /\ ~Fails(header, max, 2)
    BY DEF Validates
  <1>8. Fails(changed, max, 3) /\ ~Fails(changed, max, 1) /\ ~Fails(changed, max, 2)
    BY <1>2, <1>4, <1>6, <1>7, ChecksListed
  <1>9. \A j \in 1 .. 3 - 1 : j = 1 \/ j = 2
    OBVIOUS
  <1>10. \A j \in 1 .. 3 - 1 : ~Fails(changed, max, j)
    BY <1>8, <1>9
  <1>11. validate_header(changed, max) = "header size"
    BY <1>8, <1>10, Reasons DEF RefusedFor
  <1> QED
    BY <1>4, <1>5, <1>11 DEF FaultNamed, FaultReason

\* zero-width is refused for its dimension.
LEMMA WidthFault ==
  ASSUME NEW header, NEW data, Describes(header, data), NEW max, Validates(header, max)
  PROVE  FaultNamed(header, "zero-width", max)
  <1> DEFINE changed == [header EXCEPT !["width"] = 0]
  <1>1. WellFormed(header)
    BY DEF Describes
  <1>2. 0 \in Unsigned(FieldSize("width")) /\ "width" \in Fields /\ 0 \in Nat
    BY FieldsListed, SmallFits
  <1>3. /\ WellFormed(changed) /\ changed["width"] = 0
        /\ \A g \in Fields \ {"width"} : changed[g] = header[g]
    BY <1>1, <1>2, FieldReplaced
  <1>4. apply_header_fault(header, "zero-width") = changed
    BY <1>1 DEF apply_header_fault
  <1> HIDE DEF changed
  <1>5. /\ changed.magic = header.magic /\ changed.header_size = header.header_size
        /\ changed.version = header.version
        /\ changed.capture_timestamp_ns = header.capture_timestamp_ns
    BY <1>3, FieldsListed
  <1>6. /\ ~Fails(header, max, 1) /\ ~Fails(header, max, 2) /\ ~Fails(header, max, 3)
        /\ ~Fails(header, max, 4) /\ ~Fails(header, max, 5)
    BY DEF Validates
  <1>7. /\ ~Fails(changed, max, 1) /\ ~Fails(changed, max, 2) /\ ~Fails(changed, max, 3)
        /\ ~Fails(changed, max, 4) /\ ~Fails(changed, max, 5) /\ Fails(changed, max, 6)
    <2>1. changed.width = 0 \/ changed.height = 0
      BY <1>3
    <2>2. Fails(changed, max, 6)
      BY <2>1, ChecksListed
    <2> QED
      BY <1>5, <1>6, <2>2, ChecksListed, ZenonT(40)
  <1>8. \A j \in 1 .. 6 - 1 : j = 1 \/ j = 2 \/ j = 3 \/ j = 4 \/ j = 5
    OBVIOUS
  <1>9. \A j \in 1 .. 6 - 1 : ~Fails(changed, max, j)
    BY <1>7, <1>8
  <1>10. validate_header(changed, max) = "zero dimension"
    BY <1>7, <1>9, Reasons DEF RefusedFor
  <1> QED
    BY <1>3, <1>4, <1>10 DEF FaultNamed, FaultReason

\* The checks before the payload's size do not see it.
LEMMA SizeUnseen ==
  ASSUME NEW header, NEW changed, NEW max, Validates(header, max),
         \A f \in Fields \ {"payload_size"} : changed[f] = header[f]
  PROVE  /\ \A j \in 1 .. 8 : ~Fails(changed, max, j)
         /\ ~Fails(changed, max, 11) /\ ~Fails(changed, max, 12)
  <1>1. /\ changed.magic = header.magic /\ changed.header_size = header.header_size
        /\ changed.version = header.version
        /\ changed.capture_timestamp_ns = header.capture_timestamp_ns
        /\ changed.width = header.width /\ changed.height = header.height
        /\ changed.pixel_format = header.pixel_format
    BY FieldsListed
  <1>2. /\ ~Fails(header, max, 1) /\ ~Fails(header, max, 2) /\ ~Fails(header, max, 3)
        /\ ~Fails(header, max, 4) /\ ~Fails(header, max, 5) /\ ~Fails(header, max, 6)
        /\ ~Fails(header, max, 7) /\ ~Fails(header, max, 8) /\ ~Fails(header, max, 11)
        /\ ~Fails(header, max, 12)
    BY DEF Validates
  <1>3. /\ ~Fails(changed, max, 1) /\ ~Fails(changed, max, 2) /\ ~Fails(changed, max, 3)
        /\ ~Fails(changed, max, 4) /\ ~Fails(changed, max, 5)
    <2>1. ~Fails(changed, max, 1) /\ ~Fails(changed, max, 2)
      BY <1>1, <1>2, ChecksListed, ZenonT(40)
    <2>2. ~Fails(changed, max, 3) /\ ~Fails(changed, max, 4)
      BY <1>1, <1>2, ChecksListed, ZenonT(40)
    <2>3. ~Fails(changed, max, 5)
      BY <1>1, <1>2, ChecksListed, ZenonT(40)
    <2> QED
      BY <2>1, <2>2, <2>3
  <1>4. /\ ~Fails(changed, max, 6) /\ ~Fails(changed, max, 7) /\ ~Fails(changed, max, 8)
    BY <1>1, <1>2, ChecksListed, ZenonT(40)
  <1>5. ~Fails(changed, max, 11) /\ ~Fails(changed, max, 12)
    BY <1>1, <1>2, ChecksListed, ZenonT(40)
  <1>6. \A j \in 1 .. 8 : j \in {1, 2, 3, 4, 5, 6, 7, 8}
    OBVIOUS
  <1> QED
    BY <1>3, <1>4, <1>5, <1>6

\* oversized-payload is refused by the payload limit.
LEMMA LimitFault ==
  ASSUME NEW header, NEW data, Describes(header, data),
         Validates(header, kDefaultMaxPayloadBytes)
  PROVE  FaultNamed(header, "oversized-payload", kDefaultMaxPayloadBytes)
  <1> DEFINE max == kDefaultMaxPayloadBytes
             value == max + 1
             changed == [header EXCEPT !["payload_size"] = value]
  <1>1. WellFormed(header)
    BY DEF Describes
  <1>2. value \in Unsigned(4) /\ value \in Nat /\ value > max /\ value # 0
    BY ProtocolAssumption
  <1>3. value \in Unsigned(FieldSize("payload_size")) /\ "payload_size" \in Fields
    BY <1>2, FieldsListed
  <1>4. apply_header_fault(header, "oversized-payload") = changed
    BY <1>1 DEF apply_header_fault
  <1> HIDE DEF value
  <1>5. /\ WellFormed(changed) /\ changed["payload_size"] = value
        /\ \A g \in Fields \ {"payload_size"} : changed[g] = header[g]
    BY <1>1, <1>2, <1>3, FieldReplaced
  <1> HIDE DEF changed, max
  <1>6. Validates(header, max)
    BY DEF max
  <1>7. \A j \in 1 .. 8 : ~Fails(changed, max, j)
    BY <1>5, <1>6, SizeUnseen
  <1>8. ~Fails(changed, max, 9)
    BY <1>2, <1>5, ChecksListed
  <1>9. Fails(changed, max, 10)
    BY <1>2, <1>5, ChecksListed
  <1>10. \A j \in 1 .. 10 - 1 : j \in 1 .. 8 \/ j = 9
    OBVIOUS
  <1>11. \A j \in 1 .. 10 - 1 : ~Fails(changed, max, j)
    BY <1>7, <1>8, <1>10
  <1>12. validate_header(changed, max) = "payload limit"
    BY <1>9, <1>11, Reasons DEF RefusedFor
  <1> QED
    BY <1>4, <1>5, <1>12 DEF FaultNamed, FaultReason, max

\* yuyv-size-mismatch is refused because image and payload differ in size.
LEMMA MismatchFault ==
  ASSUME NEW header, NEW data, Describes(header, data), NEW max \in Nat,
         Validates(header, max), header.payload_size > 2
  PROVE  FaultNamed(header, "yuyv-size-mismatch", max)
  <1> DEFINE size == header.payload_size
             value == size - 2
             changed == [header EXCEPT !["payload_size"] = value]
             expected == (header.width * header.height * 2) % Pow2[8 * ByteBits]
  <1>1. WellFormed(header) /\ header.pixel_format = V4L2_PIX_FMT_YUYV
    BY DEF Describes
  <1>2. size \in Unsigned(4) /\ size \in Nat
    BY <1>1, FieldsListed DEF WellFormed
  <1>3. Pow2[4 * ByteBits] \in Nat /\ Unsigned(4) = 0 .. Pow2[4 * ByteBits] - 1
    BY SmallFits
  <1>4. ~Fails(header, max, 10) /\ ~Fails(header, max, 13)
    BY DEF Validates
  <1>5. ~(size > max) /\ size = expected
    BY <1>1, <1>4, ChecksListed
  <1>6. apply_header_fault(header, "yuyv-size-mismatch") = changed
    BY <1>1 DEF apply_header_fault
  <1>7. size > 2
    OBVIOUS
  <1> HIDE DEF size, expected
  <1>8. value \in Unsigned(4) /\ value \in Nat /\ ~(value > max) /\ value # 0 /\ value # size
    BY <1>2, <1>3, <1>5, <1>7
  <1>9. value \in Unsigned(FieldSize("payload_size")) /\ "payload_size" \in Fields
    BY <1>8, FieldsListed
  <1> HIDE DEF value
  <1>10. /\ WellFormed(changed) /\ changed["payload_size"] = value
         /\ \A g \in Fields \ {"payload_size"} : changed[g] = header[g]
    BY <1>1, <1>8, <1>9, FieldReplaced
  <1> HIDE DEF changed
  <1>11. /\ \A j \in 1 .. 8 : ~Fails(changed, max, j)
         /\ ~Fails(changed, max, 11) /\ ~Fails(changed, max, 12)
    BY <1>10, SizeUnseen
  <1>12. ~Fails(changed, max, 9) /\ ~Fails(changed, max, 10)
    BY <1>8, <1>10, ChecksListed
  <1>13. /\ changed.width = header.width /\ changed.height = header.height
         /\ changed.pixel_format = header.pixel_format
    BY <1>10, FieldsListed
  <1>14. Fails(changed, max, 13)
    <2>1. changed.payload_size # expected
      BY <1>5, <1>8, <1>10
    <2> QED
      BY <1>1, <1>13, <2>1, ChecksListed DEF expected
  <1>15. \A j \in 1 .. 13 - 1 : j \in 1 .. 8 \/ j = 9 \/ j = 10 \/ j = 11 \/ j = 12
    OBVIOUS
  <1>16. \A j \in 1 .. 13 - 1 : ~Fails(changed, max, j)
    BY <1>11, <1>12, <1>15
  <1>17. validate_header(changed, max) = "size mismatch"
    BY <1>14, <1>16, Reasons DEF RefusedFor
  <1> QED
    BY <1>6, <1>10, <1>17 DEF FaultNamed, FaultReason

\* The flipped bit of --corrupt-frame-id is one damaged byte of the payload.
LEMMA CorruptRefused ==
  ASSUME NEW header, NEW data, Describes(header, data), NEW max, Validates(header, max)
  PROVE  Receive(serialize_header(header) \o Corrupt(data), max).reason = "crc mismatch"
  <1> DEFINE place == Len(data) \div 2 + 1
             value == FlipLowestBit(data[place])
             other == [data EXCEPT ![place] = value]
  <1>1. /\ WellFormed(header) /\ data \in Seq(0 .. Base - 1)
        /\ Len(data) = header.width * header.height * 2
        /\ header.width \in Nat \ {0} /\ header.height \in Nat \ {0}
    BY DEF Describes
  <1>2. place \in 1 .. Len(data)
    <2> DEFINE n == header.width * header.height
    <2>1. n \in Nat \ {0}
      BY <1>1
    <2> HIDE DEF n
    <2>2. Len(data) = n * 2 /\ Len(data) \div 2 + 1 \in 1 .. n * 2
      BY <1>1, <2>1 DEF n
    <2> QED
      BY <2>2
  <1>3. Corrupt(data) = other
    BY DEF Corrupt
  <1> HIDE DEF place
  <1>4. data[place] \in 0 .. Base - 1
    <2>1. data \in Seq(0 .. Base - 1)
      BY <1>1
    <2> QED
      BY <1>2, <2>1, ElementOfSeq
  <1>5. value \in 0 .. Base - 1 /\ data[place] # value
    BY <1>4, Widths, Flipped DEF Base
  <1> HIDE DEF value
  <1>6. /\ other \in Seq(0 .. Base - 1)
        /\ ~Accepts(header, other, max)
        /\ Mismatch(header, other, max)
    BY <1>2, <1>5, DamagedPayload
  <1> HIDE DEF other
  <1>7. Receive(serialize_header(header) \o other, max) = Verdict(header, other, max)
    BY <1>1, <1>6, ReceivedEncoded
  <1> QED
    BY <1>3, <1>6, <1>7 DEF Mismatch

\* Every fault of a header that passes is refused for its reason.
LEMMA HeaderFaultRefused ==
  ASSUME NEW header, NEW data, Describes(header, data),
         Validates(header, kDefaultMaxPayloadBytes),
         NEW fault \in HeaderFaults, FaultApplies(header, fault)
  PROVE  Receive(serialize_header(apply_header_fault(header, fault)),
                 kDefaultMaxPayloadBytes).reason = FaultReason(fault)
  <1> DEFINE max == kDefaultMaxPayloadBytes
             changed == apply_header_fault(header, fault)
             head == serialize_header(changed)
  <1>1. Validates(header, max) /\ max \in Nat
    BY ProtocolAssumption
  <1>2. FaultNamed(header, fault, max)
    <2>1. CASE fault = "bad-magic"
      BY <1>1, <2>1, MagicFault
    <2>2. CASE fault = "bad-version"
      BY <1>1, <2>2, VersionFault
    <2>3. CASE fault = "bad-header-size"
      BY <1>1, <2>3, SizeFault
    <2>4. CASE fault = "zero-width"
      BY <1>1, <2>4, WidthFault
    <2>5. CASE fault = "oversized-payload"
      BY <1>1, <2>5, LimitFault
    <2>6. CASE fault = "yuyv-size-mismatch"
      <3>1. header.payload_size > 2
        BY <2>6 DEF FaultApplies
      <3> HIDE DEF max
      <3> QED
        BY <1>1, <2>6, <3>1, MismatchFault
    <2> QED
      BY <2>1, <2>2, <2>3, <2>4, <2>5, <2>6 DEF HeaderFaults
  <1>3. WellFormed(changed) /\ validate_header(changed, max) = FaultReason(fault)
    BY <1>2 DEF FaultNamed
  <1> HIDE DEF changed
  <1>4. head \in Seq(0 .. Base - 1) /\ <<>> \in Seq(0 .. Base - 1)
    <2>1. changed \in [Fields -> Nat]
      BY <1>3 DEF WellFormed
    <2> QED
      BY <2>1, WireType, EmptySeq
  <1>5. Receive(head \o <<>>, max) = Verdict(changed, <<>>, max)
    BY <1>3, <1>4, ReceivedEncoded
  <1> HIDE DEF head
  <1>6. head \o <<>> = head
    BY <1>4, ConcatEmptySeq
  <1>7. FaultReason(fault) # ""
    BY DEF FaultReason, HeaderFaults
  <1>8. Verdict(changed, <<>>, max).reason = FaultReason(fault)
    BY <1>3, <1>7 DEF Verdict
  <1> QED
    BY <1>5, <1>6, <1>8 DEF head, changed, max

\* DamageContained: for every width of the bytes, every generator polynomial of
\* CRC-32's shape, every size of image and every damaged byte, Receive refuses
\* the frame or hands on the image that was sent, and gives every injected fault
\* the reason that the acceptance test expects.
THEOREM DamageContainedHolds == Spec => []DamageContained
  <1>1. Init => DamageContained
    BY NothingCalled DEF DamageContained, ByteDamageContained, FaultsNamed
  <1>2. ByteDamageContained /\ [Next]_call => ByteDamageContained'
    <2> SUFFICES ASSUME ByteDamageContained, Next \/ UNCHANGED call
                 PROVE  ByteDamageContained'
      OBVIOUS
    <2>1. CASE Others("damage")
      BY <2>1 DEF Others, ByteDamageContained, ImageIntact
    <2>2. CASE CallDamage
      <3>1. PICK width \in Dimensions, height \in Dimensions, frame_id \in {0, 1},
                 value \in 0 .. Base - 1 :
              /\ TestSize(width, height)
              /\ \E place \in DOMAIN TestFrame(width, height, frame_id) :
                   /\ TestFrame(width, height, frame_id)[place] # value
                   /\ Called("damage", TestFrame(width, height, frame_id),
                             Receive([TestFrame(width, height, frame_id) EXCEPT
                                        ![place] = value], kDefaultMaxPayloadBytes))
        BY <2>2 DEF CallDamage
      <3> DEFINE header == TestHeader(width, height, frame_id, 1)
                 data == make_test_yuyv_payload(width, height, frame_id)
                 wire == TestFrame(width, height, frame_id)
                 max == kDefaultMaxPayloadBytes
      <3>2. Describes(header, data) /\ wire = serialize_header(header) \o data
        BY <3>1, TestHeaderDescribes, InputsAssumption DEF TestFrame
      <3> HIDE DEF header, data, wire, max
      <3>3. \E place : \E damaged : /\ Damage(wire, damaged, place, value)
                                    /\ Called("damage", wire, Receive(damaged, max))
        BY <3>1 DEF Damage, Replaced, wire, max
      <3>4. PICK place, damaged : /\ Damage(wire, damaged, place, value)
                                  /\ Called("damage", wire, Receive(damaged, max))
        BY <3>3
      <3>5. call'.in = wire /\ call'.out = Receive(damaged, max)
        BY <3>4 DEF Called
      <3>6. Passed(Receive(damaged, max)) => ImageIntact(wire, Receive(damaged, max))
        BY <3>2, <3>4, DamagedFrame
      <3> QED
        BY <3>5, <3>6 DEF ByteDamageContained, Passed, ImageIntact
    <2> QED
      BY <2>1, <2>2, NextCall
  <1>3. FaultsNamed /\ [Next]_call => FaultsNamed'
    <2> SUFFICES ASSUME FaultsNamed, Next \/ UNCHANGED call
                 PROVE  FaultsNamed'
      OBVIOUS
    <2>1. CASE Others("fault")
      BY <2>1 DEF Others, FaultsNamed, FaultReason
    <2>2. CASE CallFault
      <3>1. PICK width \in Dimensions, height \in Dimensions,
                 fault \in HeaderFaults \cup {"corrupt"} :
              LET header == TestHeader(width, height, 0, 1)
                  payload == make_test_yuyv_payload(width, height, 0)
                  wire == IF fault = "corrupt"
                            THEN serialize_header(header) \o Corrupt(payload)
                            ELSE serialize_header(apply_header_fault(header, fault))
              IN  /\ TestSize(width, height)
                  /\ validate_header(header, kDefaultMaxPayloadBytes) = ""
                  /\ fault \in HeaderFaults => FaultApplies(header, fault)
                  /\ Called("fault", [fault |-> fault, size |-> <<width, height>>],
                            Receive(wire, kDefaultMaxPayloadBytes).reason)
        BY <2>2 DEF CallFault
      <3> DEFINE header == TestHeader(width, height, 0, 1)
                 data == make_test_yuyv_payload(width, height, 0)
                 wire == IF fault = "corrupt"
                           THEN serialize_header(header) \o Corrupt(data)
                           ELSE serialize_header(apply_header_fault(header, fault))
                 result == Receive(wire, kDefaultMaxPayloadBytes).reason
      <3>2. Describes(header, data)
        BY <3>1, TestHeaderDescribes, InputsAssumption
      <3>3. /\ Validates(header, kDefaultMaxPayloadBytes)
            /\ fault \in HeaderFaults => FaultApplies(header, fault)
            /\ Called("fault", [fault |-> fault, size |-> <<width, height>>], result)
        BY <3>1, Refused DEF Validates
      <3> HIDE DEF header, data
      <3>4. result = FaultReason(fault)
        <4>1. CASE fault = "corrupt"
          <5>1. result = "crc mismatch"
            BY <3>2, <3>3, <4>1, CorruptRefused
          <5> QED
            BY <4>1, <5>1 DEF FaultReason
        <4>2. CASE fault # "corrupt"
          <5>1. fault \in HeaderFaults
            BY <4>2
          <5> QED
            BY <3>2, <3>3, <4>2, <5>1, HeaderFaultRefused
        <4> QED
          BY <4>1, <4>2
      <3> HIDE DEF result
      <3>5. call'.in.fault = fault /\ call'.out = result
        BY <3>3 DEF Called
      <3> QED
        BY <3>4, <3>5 DEF FaultsNamed, FaultReason
    <2> QED
      BY <2>1, <2>2, NextCall
  <1> QED
    BY <1>1, <1>2, <1>3, PTL DEF Spec, DamageContained

-----------------------------------------------------------------------------
(* The configuration: the last line or argument of an option wins.  *)

\* The states of the loading when options take values of Values.
Loading(Values) == [ok : BOOLEAN, config : [Options -> Values]]

\* g[i] is the state after i entries, of which entry j sets opt[j] to val[j].
Chain(g, n, Values, opt, val) ==
  /\ g \in [0 .. n -> Loading(Values)]
  /\ \A i \in 1 .. n :
       g[i].ok => /\ g[i - 1].ok /\ opt[i] \in Options
                  /\ g[i].config = [g[i - 1].config EXCEPT ![opt[i]] = val[i]]

\* Only options are set.
LEMMA AcceptsOptions ==
  ASSUME NEW option, NEW value
  PROVE  /\ FileAccepts(option, value) => option \in Options
         /\ ArgAccepts(option, value) => option \in Options
  BY DEF FileAccepts, ArgAccepts

\* One entry, as both loops apply it.
Entered(before, after, Values, option, value) ==
  /\ after \in Loading(Values)
  /\ after.ok => /\ before.ok /\ option \in Options
                 /\ after.config = [before.config EXCEPT ![option] = value]

\* A line of the configuration file sets the option it names, or is refused.
LEMMA LineEntered ==
  ASSUME NEW Values, NEW state \in Loading(Values), NEW line,
         FileValue(FileOption(line[1]), line[2]) \in Values
  PROVE  Entered(state, apply_key_value(state, line), Values, FileOption(line[1]),
                 FileValue(FileOption(line[1]), line[2]))
  <1> DEFINE option == FileOption(line[1])
             value == FileValue(option, line[2])
             after == apply_key_value(state, line)
  <1>1. state.ok \in BOOLEAN /\ state.config \in [Options -> Values]
    BY DEF Loading
  <1>2. after = IF state.ok /\ FileAccepts(option, line[2])
                  THEN [state EXCEPT !.config[option] = value]
                  ELSE [state EXCEPT !.ok = FALSE]
    BY DEF apply_key_value
  <1>3. FileAccepts(option, line[2]) => option \in Options
    BY AcceptsOptions
  <1> HIDE DEF option, value, after
  <1>4. value \in Values
    BY DEF value, option
  <1>5. CASE state.ok /\ FileAccepts(option, line[2])
    <2>1. after = [state EXCEPT !.config[option] = value]
      BY <1>2, <1>5
    <2>2. after \in Loading(Values) /\ after.config = [state.config EXCEPT ![option] = value]
      BY <1>3, <1>4, <1>5, <2>1 DEF Loading
    <2> QED
      BY <1>3, <1>5, <2>2 DEF Entered, option, value, after
  <1>6. CASE ~(state.ok /\ FileAccepts(option, line[2]))
    <2>1. after = [state EXCEPT !.ok = FALSE]
      BY <1>2, <1>6
    <2>2. after \in Loading(Values) /\ ~after.ok
      BY <2>1 DEF Loading
    <2> QED
      BY <2>2 DEF Entered, option, value, after
  <1> QED
    BY <1>5, <1>6

\* An argument sets the option it names, or is refused.
LEMMA ArgEntered ==
  ASSUME NEW Values, NEW state \in Loading(Values), NEW arg, ArgValue(arg[1], arg[2]) \in Values
  PROVE  Entered(state, ApplyArg(state, arg), Values, ArgOption(arg[1]),
                 ArgValue(arg[1], arg[2]))
  <1> DEFINE option == ArgOption(arg[1])
             value == ArgValue(arg[1], arg[2])
             after == ApplyArg(state, arg)
  <1>1. state.ok \in BOOLEAN /\ state.config \in [Options -> Values]
    BY DEF Loading
  <1>2. after = IF state.ok /\ ArgAccepts(option, arg[2])
                  THEN [state EXCEPT !.config[option] = value]
                  ELSE [state EXCEPT !.ok = FALSE]
    BY DEF ApplyArg
  <1>3. ArgAccepts(option, arg[2]) => option \in Options
    BY AcceptsOptions
  <1> HIDE DEF option, value, after
  <1>4. value \in Values
    BY DEF value
  <1>5. CASE state.ok /\ ArgAccepts(option, arg[2])
    <2>1. after = [state EXCEPT !.config[option] = value]
      BY <1>2, <1>5
    <2>2. after \in Loading(Values) /\ after.config = [state.config EXCEPT ![option] = value]
      BY <1>3, <1>4, <1>5, <2>1 DEF Loading
    <2> QED
      BY <1>3, <1>5, <2>2 DEF Entered, option, value, after
  <1>6. CASE ~(state.ok /\ ArgAccepts(option, arg[2]))
    <2>1. after = [state EXCEPT !.ok = FALSE]
      BY <1>2, <1>6
    <2>2. after \in Loading(Values) /\ ~after.ok
      BY <2>1 DEF Loading
    <2> QED
      BY <2>2 DEF Entered, option, value, after
  <1> QED
    BY <1>5, <1>6

\* What the lines of a file set, and to what.
FileOptions(lines) == [i \in 1 .. Len(lines) |-> FileOption(lines[i][1])]
FileValues(lines) ==
  [i \in 1 .. Len(lines) |-> FileValue(FileOption(lines[i][1]), lines[i][2])]

\* Reading the file is a chain of settings, one for each line.
LEMMA FileLoop ==
  ASSUME NEW Values, NEW state \in Loading(Values), NEW lines, Len(lines) \in Nat,
         \A i \in 1 .. Len(lines) : FileValues(lines)[i] \in Values
  PROVE  \E g : /\ Chain(g, Len(lines), Values, FileOptions(lines), FileValues(lines))
               /\ g[0] = state /\ load_config_file_into(state, lines) = g[Len(lines)]
  <1> DEFINE n == Len(lines)
             A == Loading(Values)
             opt == FileOptions(lines)
             val == FileValues(lines)
             Q(g) == g = [i \in 0 .. Len(lines) |->
                            IF i = 0 THEN state ELSE apply_key_value(g[i - 1], lines[i])]
             after == CHOOSE g : Q(g)
             step == [p \in Nat \X A |->
                        IF p[1] \in 1 .. n THEN apply_key_value(p[2], lines[p[1]]) ELSE p[2]]
  <1>1. load_config_file_into(state, lines) = after[n]
    BY DEF load_config_file_into
  <1>2. ASSUME NEW i \in 1 .. n, NEW x \in A
        PROVE  Entered(x, apply_key_value(x, lines[i]), Values, opt[i], val[i])
    <2>1. val[i] \in Values
      OBVIOUS
    <2>2. opt[i] = FileOption(lines[i][1]) /\ val[i] = FileValue(FileOption(lines[i][1]), lines[i][2])
      BY DEF FileOptions, FileValues
    <2> HIDE DEF opt, val
    <2> QED
      BY <2>1, <2>2, LineEntered
  <1>3. n \in Nat /\ state \in A
    OBVIOUS
  <1> HIDE DEF n, opt, val, A
  <1>4. ASSUME NEW i \in Nat, NEW x \in A
        PROVE  (IF i \in 1 .. n THEN apply_key_value(x, lines[i]) ELSE x) \in A
    BY <1>2 DEF Entered, A
  <1>5. /\ step \in [Nat \X A -> A]
        /\ \A i \in Nat, x \in A : i \in 1 .. n => step[<<i, x>>] = apply_key_value(x, lines[i])
    BY <1>4
  <1> HIDE DEF step
  <1>6. IsStep(A, state, step)
    BY <1>3, <1>5 DEF IsStep
  <1>7. PICK g : Solves(A, state, step, n, g)
    BY <1>3, <1>6, RecursionExists
  <1>8. ASSUME NEW i \in 1 .. n PROVE g[i] = apply_key_value(g[i - 1], lines[i])
    <2>1. i - 1 \in 0 .. n /\ i \in Nat
      BY <1>3
    <2>2. g[i - 1] \in A
      BY <1>7, <2>1 DEF Solves
    <2> QED
      BY <1>5, <1>7, <2>1, <2>2 DEF Solves
  <1>9. Q(g)
    <2>1. \A i \in 0 .. n : i = 0 \/ i \in 1 .. n
      BY <1>3
    <2>2. \A i \in 0 .. n : g[i] = IF i = 0 THEN state ELSE apply_key_value(g[i - 1], lines[i])
      BY <1>7, <1>8, <2>1 DEF Solves
    <2> QED
      BY <1>7, <2>2 DEF Solves, n
  <1>10. Q(after)
    BY <1>9
  <1> HIDE DEF after
  <1>11. after[0] = state /\ \A i \in 1 .. n : after[i] = apply_key_value(after[i - 1], lines[i])
    BY <1>3, <1>10 DEF n
  <1>12. \A i \in 0 .. n : after[i] \in A
    <2> DEFINE S == {i \in Nat : i <= n => after[i] \in A}
    <2>1. S \in SUBSET Nat /\ 0 \in S
      BY <1>3, <1>11
    <2>2. ASSUME NEW i \in S PROVE i + 1 \in S
      <3>1. i \in Nat /\ (i <= n => after[i] \in A)
        OBVIOUS
      <3>2. ASSUME i + 1 <= n PROVE after[i + 1] \in A
        <4>1. i + 1 \in 1 .. n /\ (i + 1) - 1 = i /\ after[i] \in A
          BY <1>3, <3>1, <3>2
        <4>2. after[i + 1] = apply_key_value(after[i], lines[i + 1])
          BY <1>11, <4>1
        <4> QED
          BY <1>2, <4>1, <4>2 DEF Entered, A
      <3> QED
        BY <3>1, <3>2
    <2> HIDE DEF S
    <2>3. S = Nat
      BY <2>1, <2>2, Induction
    <2> QED
      BY <1>3, <2>3 DEF S
  <1>13. after \in [0 .. n -> A]
    <2>1. DOMAIN after = 0 .. n /\ after = [i \in 0 .. n |-> after[i]]
      BY <1>10 DEF n
    <2> QED
      BY <1>12, <2>1
  <1>14. ASSUME NEW i \in 1 .. n
         PROVE  after[i].ok => /\ after[i - 1].ok /\ opt[i] \in Options
                               /\ after[i].config = [after[i - 1].config EXCEPT ![opt[i]] = val[i]]
    <2>1. i - 1 \in 0 .. n
      BY <1>3
    <2>2. Entered(after[i - 1], after[i], Values, opt[i], val[i])
      BY <1>2, <1>11, <1>12, <2>1
    <2> QED
      BY <2>2 DEF Entered
  <1>15. Chain(after, n, Values, opt, val)
    BY <1>13, <1>14 DEF Chain, A
  <1> QED
    BY <1>1, <1>11, <1>15 DEF n, opt, val

\* What the arguments set, and to what.
ArgOptions(args) == [i \in 1 .. Len(args) |-> ArgOption(args[i][1])]
ArgValues(args) ==
  [i \in 1 .. Len(args) |-> ArgValue(args[i][1], args[i][2])]

\* Reading the command line is a chain of settings, one for each argument.
LEMMA ArgLoop ==
  ASSUME NEW Values, NEW state \in Loading(Values), NEW args, Len(args) \in Nat,
         \A i \in 1 .. Len(args) : ArgValues(args)[i] \in Values
  PROVE  \E g : /\ Chain(g, Len(args), Values, ArgOptions(args), ArgValues(args))
               /\ g[0] = state /\ apply_cli_args(state, args) = g[Len(args)]
  <1> DEFINE n == Len(args)
             A == Loading(Values)
             opt == ArgOptions(args)
             val == ArgValues(args)
             Q(g) == g = [i \in 0 .. Len(args) |->
                            IF i = 0 THEN state ELSE ApplyArg(g[i - 1], args[i])]
             after == CHOOSE g : Q(g)
             step == [p \in Nat \X A |->
                        IF p[1] \in 1 .. n THEN ApplyArg(p[2], args[p[1]]) ELSE p[2]]
  <1>1. apply_cli_args(state, args) = after[n]
    BY DEF apply_cli_args
  <1>2. ASSUME NEW i \in 1 .. n, NEW x \in A
        PROVE  Entered(x, ApplyArg(x, args[i]), Values, opt[i], val[i])
    <2>1. val[i] \in Values
      OBVIOUS
    <2>2. opt[i] = ArgOption(args[i][1]) /\ val[i] = ArgValue(args[i][1], args[i][2])
      BY DEF ArgOptions, ArgValues
    <2> HIDE DEF opt, val
    <2> QED
      BY <2>1, <2>2, ArgEntered
  <1>3. n \in Nat /\ state \in A
    OBVIOUS
  <1> HIDE DEF n, opt, val, A
  <1>4. ASSUME NEW i \in Nat, NEW x \in A
        PROVE  (IF i \in 1 .. n THEN ApplyArg(x, args[i]) ELSE x) \in A
    BY <1>2 DEF Entered, A
  <1>5. /\ step \in [Nat \X A -> A]
        /\ \A i \in Nat, x \in A : i \in 1 .. n => step[<<i, x>>] = ApplyArg(x, args[i])
    BY <1>4
  <1> HIDE DEF step
  <1>6. IsStep(A, state, step)
    BY <1>3, <1>5 DEF IsStep
  <1>7. PICK g : Solves(A, state, step, n, g)
    BY <1>3, <1>6, RecursionExists
  <1>8. ASSUME NEW i \in 1 .. n PROVE g[i] = ApplyArg(g[i - 1], args[i])
    <2>1. i - 1 \in 0 .. n /\ i \in Nat
      BY <1>3
    <2>2. g[i - 1] \in A
      BY <1>7, <2>1 DEF Solves
    <2> QED
      BY <1>5, <1>7, <2>1, <2>2 DEF Solves
  <1>9. Q(g)
    <2>1. \A i \in 0 .. n : i = 0 \/ i \in 1 .. n
      BY <1>3
    <2>2. \A i \in 0 .. n : g[i] = IF i = 0 THEN state ELSE ApplyArg(g[i - 1], args[i])
      BY <1>7, <1>8, <2>1 DEF Solves
    <2> QED
      BY <1>7, <2>2 DEF Solves, n
  <1>10. Q(after)
    BY <1>9
  <1> HIDE DEF after
  <1>11. after[0] = state /\ \A i \in 1 .. n : after[i] = ApplyArg(after[i - 1], args[i])
    BY <1>3, <1>10 DEF n
  <1>12. \A i \in 0 .. n : after[i] \in A
    <2> DEFINE S == {i \in Nat : i <= n => after[i] \in A}
    <2>1. S \in SUBSET Nat /\ 0 \in S
      BY <1>3, <1>11
    <2>2. ASSUME NEW i \in S PROVE i + 1 \in S
      <3>1. i \in Nat /\ (i <= n => after[i] \in A)
        OBVIOUS
      <3>2. ASSUME i + 1 <= n PROVE after[i + 1] \in A
        <4>1. i + 1 \in 1 .. n /\ (i + 1) - 1 = i /\ after[i] \in A
          BY <1>3, <3>1, <3>2
        <4>2. after[i + 1] = ApplyArg(after[i], args[i + 1])
          BY <1>11, <4>1
        <4> QED
          BY <1>2, <4>1, <4>2 DEF Entered, A
      <3> QED
        BY <3>1, <3>2
    <2> HIDE DEF S
    <2>3. S = Nat
      BY <2>1, <2>2, Induction
    <2> QED
      BY <1>3, <2>3 DEF S
  <1>13. after \in [0 .. n -> A]
    <2>1. DOMAIN after = 0 .. n /\ after = [i \in 0 .. n |-> after[i]]
      BY <1>10 DEF n
    <2> QED
      BY <1>12, <2>1
  <1>14. ASSUME NEW i \in 1 .. n
         PROVE  after[i].ok => /\ after[i - 1].ok /\ opt[i] \in Options
                               /\ after[i].config = [after[i - 1].config EXCEPT ![opt[i]] = val[i]]
    <2>1. i - 1 \in 0 .. n
      BY <1>3
    <2>2. Entered(after[i - 1], after[i], Values, opt[i], val[i])
      BY <1>2, <1>11, <1>12, <2>1
    <2> QED
      BY <2>2 DEF Entered
  <1>15. Chain(after, n, Values, opt, val)
    BY <1>13, <1>14 DEF Chain, A
  <1> QED
    BY <1>1, <1>11, <1>15 DEF n, opt, val

\* Entry j is the last of i entries that sets the option; none of them does.
LastFor(opt, o, i, j) == j \in 1 .. i /\ opt[j] = o /\ \A k \in 1 .. i : opt[k] = o => k <= j
NoneFor(opt, o, i) == \A k \in 1 .. i : opt[k] # o

\* With one setting more, the last one of an option is that one or the last before.
LEMMA LastGrows ==
  ASSUME NEW opt, NEW o, NEW i \in Nat, NEW j
  PROVE  /\ opt[i + 1] = o => ~NoneFor(opt, o, i + 1) /\ (LastFor(opt, o, i + 1, j) => j = i + 1)
         /\ opt[i + 1] # o => /\ NoneFor(opt, o, i + 1) => NoneFor(opt, o, i)
                              /\ LastFor(opt, o, i + 1, j) => LastFor(opt, o, i, j)
  <1>1. i + 1 \in 1 .. i + 1 /\ \A k \in 1 .. i : k \in 1 .. i + 1
    OBVIOUS
  <1>2. \A k \in 1 .. i + 1 : k = i + 1 \/ k \in 1 .. i
    OBVIOUS
  <1>3. ASSUME opt[i + 1] = o, LastFor(opt, o, i + 1, j) PROVE j = i + 1
    <2>1. j \in 1 .. i + 1 /\ i + 1 <= j
      BY <1>1, <1>3 DEF LastFor
    <2> QED
      BY <2>1
  <1>4. opt[i + 1] = o => ~NoneFor(opt, o, i + 1)
    BY <1>1 DEF NoneFor
  <1>5. NoneFor(opt, o, i + 1) => NoneFor(opt, o, i)
    BY <1>1 DEF NoneFor
  <1>6. ASSUME opt[i + 1] # o, LastFor(opt, o, i + 1, j) PROVE LastFor(opt, o, i, j)
    <2>1. j \in 1 .. i + 1 /\ opt[j] = o /\ \A k \in 1 .. i + 1 : opt[k] = o => k <= j
      BY <1>6 DEF LastFor
    <2>2. j \in 1 .. i
      BY <1>2, <1>6, <2>1
    <2> QED
      BY <1>1, <2>1, <2>2 DEF LastFor
  <1> QED
    BY <1>3, <1>4, <1>5, <1>6

\* After an accepted chain an option has the value of its last setting.
LEMMA LastWins ==
  ASSUME NEW Values, NEW n \in Nat, NEW opt, NEW val, NEW g,
         Chain(g, n, Values, opt, val), g[n].ok, NEW o \in Options
  PROVE  /\ g[0].ok
         /\ NoneFor(opt, o, n) => g[n].config[o] = g[0].config[o]
         /\ \A j : LastFor(opt, o, n, j) => g[n].config[o] = val[j]
  <1> DEFINE Fine(i) == /\ g[0].ok
                        /\ NoneFor(opt, o, i) => g[i].config[o] = g[0].config[o]
                        /\ \A j : LastFor(opt, o, i, j) => g[i].config[o] = val[j]
             S == {i \in Nat : i <= n /\ g[i].ok => Fine(i)}
  <1>1. S \in SUBSET Nat /\ 0 \in S
    BY DEF LastFor
  <1>2. ASSUME NEW i \in S PROVE i + 1 \in S
    <2>1. i \in Nat /\ (i <= n /\ g[i].ok => Fine(i))
      OBVIOUS
    <2>2. ASSUME i + 1 <= n, g[i + 1].ok PROVE Fine(i + 1)
      <3>1. i + 1 \in 1 .. n /\ (i + 1) - 1 = i /\ i \in 0 .. n /\ i <= n
        BY <2>1, <2>2
      <3>2. /\ g[i].ok /\ opt[i + 1] \in Options
            /\ g[i + 1].config = [g[i].config EXCEPT ![opt[i + 1]] = val[i + 1]]
        <4>1. g[i + 1].ok => /\ g[(i + 1) - 1].ok /\ opt[i + 1] \in Options
                 /\ g[i + 1].config = [g[(i + 1) - 1].config EXCEPT ![opt[i + 1]] = val[i + 1]]
          BY <3>1 DEF Chain
        <4> QED
          BY <2>2, <3>1, <4>1
      <3>3. DOMAIN g[i].config = Options
        BY <3>1 DEF Chain, Loading
      <3>4. Fine(i)
        BY <2>1, <3>1, <3>2
      <3>5. CASE opt[i + 1] = o
        <4>1. g[i + 1].config[o] = val[i + 1]
          BY <3>2, <3>3, <3>5
        <4> QED
          BY <2>1, <3>4, <3>5, <4>1, LastGrows
      <3>6. CASE opt[i + 1] # o
        <4>1. g[i + 1].config[o] = g[i].config[o]
          BY <3>2, <3>3, <3>6
        <4> QED
          BY <2>1, <3>4, <3>6, <4>1, LastGrows
      <3> QED
        BY <3>5, <3>6
    <2> HIDE DEF Fine
    <2> QED
      BY <2>1, <2>2
  <1> HIDE DEF S
  <1>3. S = Nat
    BY <1>1, <1>2, Induction
  <1> QED
    BY <1>3 DEF S

\* The greatest of a set of positions, and the first.
LEMMA MaxIsLast ==
  ASSUME NEW opt, NEW o, NEW n \in Nat, NEW S, S = {i \in 1 .. n : opt[i] = o}
  PROVE  /\ S = {} => NoneFor(opt, o, n)
         /\ S # {} => LastFor(opt, o, n, Max(S))
  <1>1. S = {} => NoneFor(opt, o, n)
    BY DEF NoneFor
  <1>2. ASSUME S # {} PROVE LastFor(opt, o, n, Max(S))
    <2> DEFINE D == {n - i : i \in S}
    <2>1. D \in SUBSET Nat /\ D # {}
      BY <1>2
    <2> HIDE DEF D
    <2>2. PICK d \in D : \A e \in D : d <= e
      BY <2>1, Smallest
    <2>3. PICK m \in S : d = n - m
      BY <2>2 DEF D
    <2>4. \A y \in S : m >= y
      <3> SUFFICES ASSUME NEW y \in S PROVE m >= y
        OBVIOUS
      <3>1. n - y \in D
        BY DEF D
      <3>2. n - m <= n - y
        BY <2>2, <2>3, <3>1
      <3> QED
        BY <2>3, <3>2
    <2>5. Max(S) \in S /\ \A y \in S : Max(S) >= y
      BY <2>3, <2>4 DEF Max
    <2> DEFINE x == Max(S)
    <2> HIDE DEF x
    <2>6. x \in S /\ \A y \in S : x >= y
      BY <2>5 DEF x
    <2>7. x \in 1 .. n /\ opt[x] = o /\ \A k \in 1 .. n : opt[k] = o => k <= x
      BY <2>6
    <2> QED
      BY <2>7 DEF LastFor, x
  <1> QED
    BY <1>1, <1>2

\* The parts of load_app_config.
ConfigPath(args) ==
  IF ConfigArgs(args) = {} THEN DefaultPath ELSE args[Min(ConfigArgs(args))][2]
ConfigLines(files, args) ==
  IF ConfigPath(args) \in DOMAIN files THEN files[ConfigPath(args)] ELSE <<>>
Beginning(args) ==
  [ok |-> ConfigPath(args) # Missing,
   config |-> [Defaults EXCEPT !.config_path = ConfigPath(args)]]
Loaded(files, args) ==
  IF ConfigPath(args) \in DOMAIN files
    THEN load_config_file_into(Beginning(args), files[ConfigPath(args)])
    ELSE [Beginning(args) EXCEPT !.ok = @ /\ ConfigArgs(args) = {}]

\* load_app_config: file first, then arguments, then validation.
LEMMA LoadParts ==
  ASSUME NEW files, NEW args
  PROVE  LET final == apply_cli_args(Loaded(files, args), args)
         IN  load_app_config(files, args)
               = [final EXCEPT !.ok = @ /\ validate_app_config(final.config)]
  BY DEF load_app_config, Loaded, Beginning, ConfigPath, Min

\* The file that was asked for decides between the defaults and its lines.
LEMMA FileDecides ==
  ASSUME NEW files, NEW args, NEW Values, Beginning(args) \in Loading(Values),
         ConfigPath(args) \in DOMAIN files => Len(files[ConfigPath(args)]) \in Nat,
         \A i \in 1 .. Len(ConfigLines(files, args)) :
           FileValues(ConfigLines(files, args))[i] \in Values
  PROVE  LET state == Loaded(files, args)
             lines == ConfigLines(files, args)
         IN  /\ state \in Loading(Values)
             /\ state.ok => \A o \in Options \ {"config_path"} :
                  /\ NoneFor(FileOptions(lines), o, Len(lines))
                       => state.config[o] = Defaults[o]
                  /\ \A j : LastFor(FileOptions(lines), o, Len(lines), j)
                       => state.config[o] = FileValues(lines)[j]
  <1> DEFINE state == Loaded(files, args)
             lines == ConfigLines(files, args)
             begin == Beginning(args)
             path == ConfigPath(args)
             opt == FileOptions(lines)
             val == FileValues(lines)
             n == Len(lines)
  <1>1. /\ begin \in Loading(Values) /\ DOMAIN begin.config = Options
        /\ \A o \in Options \ {"config_path"} : begin.config[o] = Defaults[o]
    <2>1. begin \in Loading(Values) /\ begin.config = [Defaults EXCEPT !.config_path = path]
      BY DEF Beginning
    <2>2. DOMAIN Defaults = Options
      BY DEF Options
    <2> HIDE DEF begin
    <2> QED
      BY <2>1, <2>2 DEF Loading
  <1> HIDE DEF begin
  <1>2. CASE path \in DOMAIN files
    <2>1. lines = files[path] /\ n \in Nat /\ state = load_config_file_into(begin, lines)
      BY <1>2 DEF ConfigLines, Loaded, begin
    <2>2. \A i \in 1 .. n : val[i] \in Values
      OBVIOUS
    <2> HIDE DEF state, lines, path
    <2>3. PICK g : /\ Chain(g, n, Values, opt, val) /\ g[0] = begin
                   /\ load_config_file_into(begin, lines) = g[n]
      BY <1>1, <2>1, <2>2, FileLoop
    <2> HIDE DEF n, opt, val
    <2>4. g[n] \in Loading(Values)
      BY <2>1, <2>3 DEF Chain
    <2>5. ASSUME state.ok, NEW o \in Options \ {"config_path"}
          PROVE  /\ NoneFor(opt, o, n) => state.config[o] = Defaults[o]
                 /\ \A j : LastFor(opt, o, n, j) => state.config[o] = val[j]
      <3>1. g[n].ok /\ state = g[n]
        BY <2>1, <2>3, <2>5
      <3>2. /\ g[0].ok
            /\ NoneFor(opt, o, n) => g[n].config[o] = g[0].config[o]
            /\ \A j : LastFor(opt, o, n, j) => g[n].config[o] = val[j]
        <4>1. n \in Nat /\ Chain(g, n, Values, opt, val) /\ g[n].ok /\ o \in Options
          BY <2>1, <2>3, <3>1
        <4> QED
          BY <4>1, LastWins
      <3> QED
        BY <1>1, <2>3, <3>1, <3>2
    <2> QED
      BY <2>1, <2>3, <2>4, <2>5 DEF state, lines, n, opt, val
  <1>3. CASE path \notin DOMAIN files
    <2>1. lines = <<>> /\ state = [begin EXCEPT !.ok = @ /\ ConfigArgs(args) = {}]
      BY <1>3 DEF ConfigLines, Loaded, begin
    <2> HIDE DEF state, lines
    <2>2. state \in Loading(Values) /\ state.config = begin.config
      BY <1>1, <2>1 DEF Loading
    <2>3. n = 0
      BY <2>1
    <2>4. \A o, j : ~LastFor(opt, o, n, j)
      BY <2>3 DEF LastFor
    <2> QED
      BY <1>1, <2>2, <2>4 DEF state, lines, n, opt, val
  <1> QED
    BY <1>2, <1>3

\* The values that can be met while loading.
Met(files, args) ==
  {Defaults[o] : o \in Options} \cup {ConfigPath(args)}
  \cup {FileValues(ConfigLines(files, args))[i] : i \in 1 .. Len(ConfigLines(files, args))}
  \cup {ArgValues(args)[i] : i \in 1 .. Len(args)}

\* Loading starts from defaults that are among the values met.
LEMMA BeginningTyped ==
  ASSUME NEW files, NEW args
  PROVE  Beginning(args) \in Loading(Met(files, args))
  <1> DEFINE Values == Met(files, args)
             path == ConfigPath(args)
             config == [Defaults EXCEPT !.config_path = path]
  <1>1. path \in Values /\ \A o \in Options : Defaults[o] \in Values
    BY DEF Met
  <1>2. Defaults = [o \in Options |-> Defaults[o]]
    BY DEF Options, Defaults
  <1> HIDE DEF path, Values
  <1>3. config \in [Options -> Values]
    BY <1>1, <1>2
  <1> HIDE DEF config
  <1>4. [ok |-> path # Missing, config |-> config] \in Loading(Values)
    BY <1>3 DEF Loading
  <1> QED
    BY <1>4 DEF Beginning, config, path, Values

\* load_app_config gives every option the value with the highest priority.
LEMMA AskedFor ==
  ASSUME NEW files, NEW args, Len(args) \in Nat, DOMAIN args = 1 .. Len(args),
         ConfigPath(args) \in DOMAIN files =>
           /\ Len(files[ConfigPath(args)]) \in Nat
           /\ DOMAIN files[ConfigPath(args)] = 1 .. Len(files[ConfigPath(args)]),
         load_app_config(files, args).ok, NEW option \in Options \ {"config_path"}
  PROVE  load_app_config(files, args).config[option] = Asked(files, args, option)
  <1> DEFINE lines == ConfigLines(files, args)
             state == Loaded(files, args)
             final == apply_cli_args(state, args)
             out == load_app_config(files, args)
             Values == Met(files, args)
             n == Len(args)
             m == Len(lines)
             inArgs == {i \in DOMAIN args : ArgOption(args[i][1]) = option}
             inFile == {i \in DOMAIN lines : FileOption(lines[i][1]) = option}
  <1>1. m \in Nat /\ DOMAIN lines = 1 .. m
    <2>1. CASE ConfigPath(args) \in DOMAIN files
      BY <2>1 DEF ConfigLines
    <2>2. CASE ConfigPath(args) \notin DOMAIN files
      <3>1. lines = <<>>
        BY <2>2 DEF ConfigLines
      <3> QED
        BY <3>1
    <2> QED
      BY <2>1, <2>2
  <1>2. out = [final EXCEPT !.ok = @ /\ validate_app_config(final.config)]
    BY LoadParts
  <1>3. Beginning(args) \in Loading(Values)
    BY BeginningTyped
  <1>4. /\ \A i \in 1 .. m : FileValues(lines)[i] \in Values
        /\ \A i \in 1 .. n : ArgValues(args)[i] \in Values
    BY DEF Met
  <1>5. /\ state \in Loading(Values)
        /\ state.ok => \A o \in Options \ {"config_path"} :
             /\ NoneFor(FileOptions(lines), o, m) => state.config[o] = Defaults[o]
             /\ \A j : LastFor(FileOptions(lines), o, m, j)
                  => state.config[o] = FileValues(lines)[j]
    BY <1>3, <1>4, FileDecides
  <1>6. Asked(files, args, option)
          = IF inArgs # {} THEN ArgValue(args[Max(inArgs)][1], args[Max(inArgs)][2])
            ELSE IF inFile # {} THEN FileValue(option, lines[Max(inFile)][2])
            ELSE Defaults[option]
    BY DEF Asked, ConfigLines, ConfigPath
  <1>7. out.ok
    OBVIOUS
  <1> HIDE DEF state, out, Values, lines
  <1>8. PICK g : /\ Chain(g, n, Values, ArgOptions(args), ArgValues(args)) /\ g[0] = state
                 /\ final = g[n]
    BY <1>4, <1>5, ArgLoop
  <1> HIDE DEF final
  <1>9. g[n] \in Loading(Values)
    BY <1>8 DEF Chain
  <1>10. g[n].ok /\ out.config = g[n].config
    <2>1. final \in Loading(Values)
      BY <1>8, <1>9
    <2>2. out.config = final.config /\ final.ok
      BY <1>2, <1>7, <2>1 DEF Loading
    <2> QED
      BY <1>8, <2>2
  <1>11. /\ g[0].ok
         /\ NoneFor(ArgOptions(args), option, n)
              => g[n].config[option] = g[0].config[option]
         /\ \A j : LastFor(ArgOptions(args), option, n, j)
              => g[n].config[option] = ArgValues(args)[j]
    <2>1. /\ n \in Nat /\ Chain(g, n, Values, ArgOptions(args), ArgValues(args))
          /\ g[n].ok /\ option \in Options
      BY <1>8, <1>10
    <2> HIDE DEF n
    <2> QED
      BY <2>1, LastWins
  <1>12. inArgs = {i \in 1 .. n : ArgOptions(args)[i] = option}
    BY DEF ArgOptions
  <1>13. inFile = {i \in 1 .. m : FileOptions(lines)[i] = option}
    BY <1>1 DEF FileOptions
  <1> HIDE DEF inArgs, inFile
  <1>14. /\ inArgs = {} => NoneFor(ArgOptions(args), option, n)
         /\ inArgs # {} => LastFor(ArgOptions(args), option, n, Max(inArgs))
    BY <1>12, MaxIsLast
  <1>15. /\ inFile = {} => NoneFor(FileOptions(lines), option, m)
         /\ inFile # {} => LastFor(FileOptions(lines), option, m, Max(inFile))
    BY <1>1, <1>13, MaxIsLast
  <1>16. CASE inArgs # {}
    <2>1. LastFor(ArgOptions(args), option, n, Max(inArgs))
      BY <1>14, <1>16
    <2>2. Max(inArgs) \in 1 .. n
      BY <2>1 DEF LastFor
    <2>3. ArgValues(args)[Max(inArgs)] = ArgValue(args[Max(inArgs)][1], args[Max(inArgs)][2])
      BY <2>2 DEF ArgValues
    <2> QED
      BY <1>6, <1>10, <1>11, <1>16, <2>1, <2>3 DEF out
  <1>17. CASE inArgs = {}
    <2>1. out.config[option] = state.config[option] /\ state.ok
      BY <1>8, <1>10, <1>11, <1>14, <1>17
    <2>2. CASE inFile # {}
      <3>1. LastFor(FileOptions(lines), option, m, Max(inFile))
        BY <1>15, <2>2
      <3>2. Max(inFile) \in 1 .. m /\ FileOptions(lines)[Max(inFile)] = option
        BY <3>1 DEF LastFor
      <3>3. FileValues(lines)[Max(inFile)] = FileValue(option, lines[Max(inFile)][2])
        BY <3>2 DEF FileValues, FileOptions
      <3> QED
        BY <1>5, <1>6, <1>17, <2>1, <2>2, <3>1, <3>3 DEF out
    <2>3. CASE inFile = {}
      BY <1>5, <1>6, <1>15, <1>17, <2>1, <2>3 DEF out
    <2> QED
      BY <2>2, <2>3
  <1> QED
    BY <1>16, <1>17

-----------------------------------------------------------------------------
(* The operations of main().  *)

\* A part of main() that is subject to a condition.
LEMMA OnlyTyped ==
  ASSUME NEW S, NEW condition \in BOOLEAN, NEW operation \in S, NEW part,
         part = Only(condition, operation)
  PROVE  /\ part \in Seq(S)
         /\ condition => Range(part) = {operation}
         /\ ~condition => Range(part) = {}
  <1>1. CASE condition
    <2>1. part = <<operation>>
      BY <1>1 DEF Only
    <2>2. <<operation>> \in Seq(S) /\ Len(<<operation>>) = 1
      OBVIOUS
    <2>3. <<operation>>[1] = operation
      OBVIOUS
    <2>4. part \in Seq(S) /\ DOMAIN part = 1 .. 1 /\ part[1] = operation
      BY <2>1, <2>2, <2>3, LenProperties
    <2>5. 1 .. 1 = {1}
      OBVIOUS
    <2> QED
      BY <1>1, <2>4, <2>5 DEF Range
  <1>2. CASE ~condition
    <2>1. part = <<>>
      BY <1>2 DEF Only
    <2>2. part \in Seq(S) /\ DOMAIN part = {}
      BY <2>1
    <2> QED
      BY <1>2, <2>2 DEF Range
  <1> QED
    BY <1>1, <1>2

Ordered(operations, a, b) == a \in Range(operations) /\ OnlyAfter(operations, a, b)

\* There is no b yet.
LEMMA NotYet ==
  ASSUME NEW s, NEW a, NEW b, b \notin Range(s)
  PROVE  OnlyAfter(s, a, b) /\ (a \in Range(s) => Ordered(s, a, b))
  BY DEF Range, OnlyAfter, Ordered

\* What a sequence of operations followed by others holds.
LEMMA Followed ==
  ASSUME NEW S, NEW s \in Seq(S), NEW t \in Seq(S), NEW u, u = Joined(s, t)
  PROVE  /\ u \in Seq(S) /\ Range(u) = Range(s) \cup Range(t)
         /\ \A a, b : Ordered(s, a, b) => Ordered(u, a, b)
  <1>1. /\ u \in Seq(S) /\ Len(u) = Len(s) + Len(t) /\ Len(s) \in Nat /\ Len(t) \in Nat
        /\ \A i \in 1 .. Len(s) + Len(t) : u[i] = IF i <= Len(s) THEN s[i] ELSE t[i - Len(s)]
    BY ConcatProperties, LenProperties DEF Joined
  <1>2. DOMAIN u = 1 .. Len(s) + Len(t) /\ DOMAIN s = 1 .. Len(s) /\ DOMAIN t = 1 .. Len(t)
    BY <1>1, LenProperties
  <1>3. ASSUME NEW i \in 1 .. Len(s) PROVE i \in DOMAIN u /\ u[i] = s[i]
    BY <1>1, <1>2
  <1>4. ASSUME NEW i \in 1 .. Len(t) PROVE Len(s) + i \in DOMAIN u /\ u[Len(s) + i] = t[i]
    <2>1. /\ Len(s) + i \in 1 .. Len(s) + Len(t) /\ ~(Len(s) + i <= Len(s))
          /\ (Len(s) + i) - Len(s) = i
      BY <1>1
    <2> QED
      BY <1>1, <1>2, <2>1
  <1>5. ASSUME NEW i \in DOMAIN u, ~(i \in 1 .. Len(s))
        PROVE  i - Len(s) \in 1 .. Len(t) /\ i = Len(s) + (i - Len(s))
    BY <1>1, <1>2, <1>5
  <1>6. Range(u) = Range(s) \cup Range(t)
    <2>1. ASSUME NEW x \in Range(u) PROVE x \in Range(s) \cup Range(t)
      <3>1. PICK i \in DOMAIN u : x = u[i]
        BY DEF Range
      <3>2. CASE i \in 1 .. Len(s)
        BY <1>2, <1>3, <3>1, <3>2 DEF Range
      <3>3. CASE ~(i \in 1 .. Len(s))
        <4> DEFINE k == i - Len(s)
        <4>1. k \in 1 .. Len(t) /\ i = Len(s) + k
          BY <1>5, <3>3
        <4> HIDE DEF k
        <4>2. x = t[k]
          BY <1>4, <3>1, <4>1
        <4> QED
          BY <1>2, <4>1, <4>2 DEF Range
      <3> QED
        BY <3>2, <3>3
    <2>2. Range(s) \subseteq Range(u)
      BY <1>2, <1>3 DEF Range
    <2>3. Range(t) \subseteq Range(u)
      BY <1>2, <1>4 DEF Range
    <2> QED
      BY <2>1, <2>2, <2>3
  <1>7. ASSUME NEW a, NEW b, Ordered(s, a, b) PROVE Ordered(u, a, b)
    <2>0. a \in Range(s) /\ OnlyAfter(s, a, b)
      BY <1>7 DEF Ordered
    <2>1. PICK p \in 1 .. Len(s) : s[p] = a
      BY <1>2, <2>0 DEF Range
    <2>2. ASSUME NEW j \in DOMAIN u, u[j] = b PROVE \E i \in 1 .. j - 1 : u[i] = a
      <3>1. CASE j \in 1 .. Len(s)
        <4>1. s[j] = b
          BY <1>3, <2>2, <3>1
        <4>2. PICK i \in 1 .. j - 1 : s[i] = a
          BY <1>2, <2>0, <3>1, <4>1 DEF OnlyAfter
        <4>3. i \in 1 .. Len(s)
          BY <1>1, <3>1
        <4> QED
          BY <1>3, <4>2, <4>3
      <3>2. CASE ~(j \in 1 .. Len(s))
        <4>1. p \in 1 .. j - 1
          BY <1>1, <1>2, <3>2
        <4> QED
          BY <1>3, <2>1, <4>1
      <3> QED
        BY <3>1, <3>2
    <2> QED
      BY <1>6, <2>0, <2>2 DEF OnlyAfter, Ordered
  <1> QED
    BY <1>1, <1>6, <1>7

\* What main() relies on.
LEMMA Validated ==
  ASSUME NEW config, OptionsConsistent(config)
  PROVE  /\ config.mmap_buffers # 0 => /\ config.width # 0 /\ config.height # 0
                                       /\ config.pixel_format # Unset
         /\ CaptureModes(config) # {} => config.mmap_buffers # 0
         /\ config.tcp_host # Unset <=> config.tcp_port > 0
         /\ config.tcp_host # Unset \/ config.tcp_port > 0 => config.pipeline_frames > 0
         /\ AtMostOne(CaptureModes(config))
  BY DEF OptionsConsistent

\* main() with a configuration that validate_app_config passed.
LEMMA MainPerforms ==
  ASSUME NEW config, OptionsConsistent(config), config.list_formats \in BOOLEAN,
         config.save_one \in BOOLEAN, config.capture_one \in BOOLEAN,
         config.pipeline_save \in BOOLEAN
  PROVE  Performed(config, MainOperations(config))
  <1> DEFINE capturing == CaptureModes(config) # {}
             frames == config.capture_frames > 0
             pipeline == config.pipeline_frames > 0
             setting == /\ config.width # 0 /\ config.height # 0
                        /\ config.pixel_format # Unset
             mapping == config.mmap_buffers # 0
             output == config.save_one \/ (pipeline /\ config.pipeline_save)
             serving == IF config.save_one THEN "capture_one_frame_to_files"
                        ELSE IF config.capture_one THEN "capture_one_frame"
                        ELSE IF frames THEN "capture_frames"
                        ELSE "run_pipeline"
             Names == {"open_device", "query_capability", "list_formats", "set_format",
                       "init_mmap_buffers", "prepare_output_directory", "start_streaming",
                       "stop_streaming", "capture_one_frame_to_files", "capture_one_frame",
                       "capture_frames", "run_pipeline"}
             p0 == <<"open_device", "query_capability">>
             p1 == Only(config.list_formats, "list_formats")
             p2 == Only(setting, "set_format")
             p3 == Only(mapping, "init_mmap_buffers")
             p4 == Only(output, "prepare_output_directory")
             p5 == Only(capturing, "start_streaming")
             p6 == Only(capturing, serving)
             p7 == Only(capturing, "stop_streaming")
             s1 == p0 \o p1
             s2 == s1 \o p2
             s3 == s2 \o p3
             s4 == s3 \o p4
             s5 == s4 \o p5
             s6 == s5 \o p6
             s7 == s6 \o p7
  <1>1. MainOperations(config) = s7
    BY DEF MainOperations
  <1>2. /\ capturing \in BOOLEAN /\ setting \in BOOLEAN /\ mapping \in BOOLEAN
        /\ output \in BOOLEAN /\ config.list_formats \in BOOLEAN
    OBVIOUS
  <1>3. /\ (mapping => setting) /\ (capturing => mapping)
        /\ (config.tcp_host # Unset <=> config.tcp_port > 0)
        /\ (config.tcp_host # Unset \/ config.tcp_port > 0 => pipeline)
        /\ AtMostOne(CaptureModes(config))
    BY Validated
  <1>4. /\ CaptureModes(config) \subseteq {"capture_one", "save_one", "capture_frames",
                                           "pipeline_frames"}
        /\ "capture_one" \in CaptureModes(config) <=> config.capture_one
        /\ "save_one" \in CaptureModes(config) <=> config.save_one
        /\ "capture_frames" \in CaptureModes(config) <=> frames
        /\ "pipeline_frames" \in CaptureModes(config) <=> pipeline
    BY DEF CaptureModes
  <1>5. \A mode \in CaptureModes(config) : Serving(mode) = serving
    <2> SUFFICES ASSUME NEW mode \in CaptureModes(config) PROVE Serving(mode) = serving
      OBVIOUS
    <2>1. \A other \in CaptureModes(config) : other = mode
      BY <1>3 DEF AtMostOne
    <2>2. CASE mode = "capture_one"
      BY <1>4, <2>1, <2>2 DEF Serving
    <2>3. CASE mode = "save_one"
      BY <1>4, <2>1, <2>3 DEF Serving
    <2>4. CASE mode = "capture_frames"
      BY <1>4, <2>1, <2>4 DEF Serving
    <2>5. CASE mode = "pipeline_frames"
      BY <1>4, <2>1, <2>5 DEF Serving
    <2> QED
      BY <1>4, <2>2, <2>3, <2>4, <2>5
  <1>6. serving \in {"capture_one_frame_to_files", "capture_one_frame", "capture_frames",
                     "run_pipeline"}
    OBVIOUS
  <1>27. serving \in Names
    BY <1>6
  <1>7. "pipeline_frames" \in CaptureModes(config) => Serving("pipeline_frames") = "run_pipeline"
    BY DEF Serving
  <1> HIDE DEF capturing, setting, mapping, output, serving
  <1>8. /\ p0 \in Seq(Names) /\ Range(p0) = {"open_device", "query_capability"}
    <2>1. p0 \in Seq(Names) /\ Len(p0) = 2
      <3>1. "open_device" \in Names /\ "query_capability" \in Names
        OBVIOUS
      <3> HIDE DEF Names
      <3> QED
        BY <3>1
    <2>2. p0[1] = "open_device" /\ p0[2] = "query_capability"
      OBVIOUS
    <2> HIDE DEF p0
    <2>3. DOMAIN p0 = 1 .. 2 /\ 1 .. 2 = {1, 2}
      BY <2>1, LenProperties
    <2> QED
      BY <2>1, <2>2, <2>3 DEF Range
  <1>9. /\ p1 \in Seq(Names) /\ (config.list_formats => Range(p1) = {"list_formats"})
        /\ (~config.list_formats => Range(p1) = {})
    <2>1. config.list_formats \in BOOLEAN /\ "list_formats" \in Names
      BY <1>2
    <2> DEFINE part == p1
    <2>2. part = Only(config.list_formats, "list_formats")
      OBVIOUS
    <2> HIDE DEF part
    <2> QED
      BY <2>1, <2>2, OnlyTyped DEF part
  <1>10. /\ p2 \in Seq(Names) /\ (setting => Range(p2) = {"set_format"})
         /\ (~setting => Range(p2) = {})
    <2>1. setting \in BOOLEAN /\ "set_format" \in Names
      BY <1>2
    <2> DEFINE part == p2
    <2>2. part = Only(setting, "set_format")
      OBVIOUS
    <2> HIDE DEF part
    <2> QED
      BY <2>1, <2>2, OnlyTyped DEF part
  <1>11. /\ p3 \in Seq(Names) /\ (mapping => Range(p3) = {"init_mmap_buffers"})
         /\ (~mapping => Range(p3) = {})
    <2>1. mapping \in BOOLEAN /\ "init_mmap_buffers" \in Names
      BY <1>2
    <2> DEFINE part == p3
    <2>2. part = Only(mapping, "init_mmap_buffers")
      OBVIOUS
    <2> HIDE DEF part
    <2> QED
      BY <2>1, <2>2, OnlyTyped DEF part
  <1>12. /\ p4 \in Seq(Names) /\ (output => Range(p4) = {"prepare_output_directory"})
         /\ (~output => Range(p4) = {})
    <2>1. output \in BOOLEAN /\ "prepare_output_directory" \in Names
      BY <1>2
    <2> DEFINE part == p4
    <2>2. part = Only(output, "prepare_output_directory")
      OBVIOUS
    <2> HIDE DEF part
    <2> QED
      BY <2>1, <2>2, OnlyTyped DEF part
  <1>13. /\ p5 \in Seq(Names) /\ (capturing => Range(p5) = {"start_streaming"})
         /\ (~capturing => Range(p5) = {})
    <2>1. capturing \in BOOLEAN /\ "start_streaming" \in Names
      BY <1>2
    <2> DEFINE part == p5
    <2>2. part = Only(capturing, "start_streaming")
      OBVIOUS
    <2> HIDE DEF part
    <2> QED
      BY <2>1, <2>2, OnlyTyped DEF part
  <1>14. /\ p6 \in Seq(Names) /\ (capturing => Range(p6) = {serving})
         /\ (~capturing => Range(p6) = {})
    <2>1. capturing \in BOOLEAN /\ serving \in Names
      BY <1>2, <1>27
    <2> DEFINE part == p6
    <2>2. part = Only(capturing, serving)
      OBVIOUS
    <2> HIDE DEF part
    <2> QED
      BY <2>1, <2>2, OnlyTyped DEF part
  <1>15. /\ p7 \in Seq(Names) /\ (capturing => Range(p7) = {"stop_streaming"})
         /\ (~capturing => Range(p7) = {})
    <2>1. capturing \in BOOLEAN /\ "stop_streaming" \in Names
      BY <1>2
    <2> DEFINE part == p7
    <2>2. part = Only(capturing, "stop_streaming")
      OBVIOUS
    <2> HIDE DEF part
    <2> QED
      BY <2>1, <2>2, OnlyTyped DEF part
  <1> HIDE DEF Names, p0, p1, p2, p3, p4, p5, p6, p7
  <1>28. /\ s1 = Joined(p0, p1) /\ s2 = Joined(s1, p2) /\ s3 = Joined(s2, p3)
         /\ s4 = Joined(s3, p4) /\ s5 = Joined(s4, p5) /\ s6 = Joined(s5, p6)
         /\ s7 = Joined(s6, p7)
    BY DEF Joined
  <1> HIDE DEF s1, s2, s3, s4, s5, s6, s7
  <1>16. /\ s1 \in Seq(Names) /\ Range(s1) = Range(p0) \cup Range(p1)
         /\ \A a, b : Ordered(p0, a, b) => Ordered(s1, a, b)
    BY <1>8, <1>9, <1>28, Followed
  <1>17. /\ s2 \in Seq(Names) /\ Range(s2) = Range(s1) \cup Range(p2)
         /\ \A a, b : Ordered(s1, a, b) => Ordered(s2, a, b)
    BY <1>16, <1>10, <1>28, Followed
  <1>18. /\ s3 \in Seq(Names) /\ Range(s3) = Range(s2) \cup Range(p3)
         /\ \A a, b : Ordered(s2, a, b) => Ordered(s3, a, b)
    BY <1>17, <1>11, <1>28, Followed
  <1>19. /\ s4 \in Seq(Names) /\ Range(s4) = Range(s3) \cup Range(p4)
         /\ \A a, b : Ordered(s3, a, b) => Ordered(s4, a, b)
    BY <1>18, <1>12, <1>28, Followed
  <1>20. /\ s5 \in Seq(Names) /\ Range(s5) = Range(s4) \cup Range(p5)
         /\ \A a, b : Ordered(s4, a, b) => Ordered(s5, a, b)
    BY <1>19, <1>13, <1>28, Followed
  <1>21. /\ s6 \in Seq(Names) /\ Range(s6) = Range(s5) \cup Range(p6)
         /\ \A a, b : Ordered(s5, a, b) => Ordered(s6, a, b)
    BY <1>20, <1>14, <1>28, Followed
  <1>22. /\ s7 \in Seq(Names) /\ Range(s7) = Range(s6) \cup Range(p7)
         /\ \A a, b : Ordered(s6, a, b) => Ordered(s7, a, b)
    BY <1>21, <1>15, <1>28, Followed
  <1>23. OnlyAfter(s7, "set_format", "init_mmap_buffers")
    <2> DEFINE a == "set_format"
               b == "init_mmap_buffers"
    <2>1. CASE mapping
      <3>1. a \in Range(p2) /\ b \notin Range(p0) /\ b \notin Range(p1) /\ b \notin Range(p2)
        BY <1>3, <1>8, <1>9, <1>10, <2>1
      <3> HIDE DEF a, b
      <3>2. a \in Range(s2) /\ b \notin Range(s2)
        BY <1>16, <1>17, <3>1
      <3>3. Ordered(s2, a, b)
        BY <3>2, NotYet
      <3>4. Ordered(s7, a, b)
        BY <1>18, <1>19, <1>20, <1>21, <1>22, <3>3
      <3> QED
        BY <3>4 DEF a, b, Ordered
    <2>2. CASE ~mapping
      <3>1. /\ b \notin Range(p0) /\ b \notin Range(p1) /\ b \notin Range(p2)
            /\ b \notin Range(p3)
        BY <1>8, <1>9, <1>10, <1>11, <2>2
      <3>2. /\ b \notin Range(p4) /\ b \notin Range(p5) /\ b \notin Range(p6)
            /\ b \notin Range(p7)
        BY <1>6, <1>12, <1>13, <1>14, <1>15
      <3> HIDE DEF a, b
      <3>3. b \notin Range(s7)
        BY <1>16, <1>17, <1>18, <1>19, <1>20, <1>21, <1>22, <3>1, <3>2
      <3>4. OnlyAfter(s7, a, b)
        BY <3>3, NotYet
      <3> QED
        BY <3>4 DEF a, b
    <2> QED
      BY <2>1, <2>2
  <1>24. OnlyAfter(s7, "init_mmap_buffers", "start_streaming")
    <2> DEFINE a == "init_mmap_buffers"
               b == "start_streaming"
    <2>3. /\ b \notin Range(p0) /\ b \notin Range(p1) /\ b \notin Range(p2)
          /\ b \notin Range(p3) /\ b \notin Range(p4)
      BY <1>8, <1>9, <1>10, <1>11, <1>12
    <2>1. CASE capturing
      <3>1. a \in Range(p3)
        BY <1>3, <1>11, <2>1
      <3> HIDE DEF a, b
      <3>2. a \in Range(s3) /\ b \notin Range(s3)
        BY <1>16, <1>17, <1>18, <2>3, <3>1
      <3>3. Ordered(s3, a, b)
        BY <3>2, NotYet
      <3>4. Ordered(s7, a, b)
        BY <1>19, <1>20, <1>21, <1>22, <3>3
      <3> QED
        BY <3>4 DEF a, b, Ordered
    <2>2. CASE ~capturing
      <3>1. b \notin Range(p5) /\ b \notin Range(p6) /\ b \notin Range(p7)
        BY <1>13, <1>14, <1>15, <2>2
      <3> HIDE DEF a, b
      <3>2. b \notin Range(s7)
        BY <1>16, <1>17, <1>18, <1>19, <1>20, <1>21, <1>22, <2>3, <3>1
      <3>3. OnlyAfter(s7, a, b)
        BY <3>2, NotYet
      <3> QED
        BY <3>3 DEF a, b
    <2> QED
      BY <2>1, <2>2
  <1>25. \A mode \in CaptureModes(config) : Serving(mode) \in Range(s7)
    <2>1. CaptureModes(config) # {} => serving \in Range(s7)
      BY <1>14, <1>21, <1>22 DEF capturing
    <2> QED
      BY <1>5, <2>1
  <1>26. pipeline => "run_pipeline" \in Range(s7)
    BY <1>4, <1>7, <1>25
  <1> QED
    BY <1>1, <1>3, <1>23, <1>24, <1>25, <1>26 DEF Performed

\* An accepted flag is TRUE or FALSE.
LEMMA FlagAsked ==
  ASSUME NEW files, NEW args, Len(args) \in Nat, DOMAIN args = 1 .. Len(args),
         NEW option \in Flags
  PROVE  Asked(files, args, option) \in BOOLEAN
  <1> DEFINE lines == ConfigLines(files, args)
             n == Len(args)
             inArgs == {i \in DOMAIN args : ArgOption(args[i][1]) = option}
             inFile == {i \in DOMAIN lines : FileOption(lines[i][1]) = option}
             i == Max(inArgs)
             j == Max(inFile)
  <1>1. Asked(files, args, option)
          = IF inArgs # {} THEN ArgValue(args[i][1], args[i][2])
            ELSE IF inFile # {} THEN FileValue(option, lines[j][2])
            ELSE Defaults[option]
    BY DEF Asked, ConfigLines, ConfigPath
  <1>2. Defaults[option] \in BOOLEAN
    <2>1. /\ Defaults.list_formats = FALSE /\ Defaults.capture_one = FALSE
          /\ Defaults.save_one = FALSE /\ Defaults.pipeline_save = FALSE
          /\ Defaults.camera_recovery_enabled = TRUE
      BY DEF Defaults
    <2> QED
      BY <2>1 DEF Flags
  <1>3. FileValue(option, lines[j][2]) \in BOOLEAN
    BY DEF FileValue
  <1>4. inArgs # {} => ArgOption(args[i][1]) = option
    <2>1. inArgs = {k \in 1 .. n : ArgOptions(args)[k] = option}
      BY DEF ArgOptions
    <2>2. n \in Nat
      OBVIOUS
    <2> HIDE DEF inArgs, n
    <2>3. inArgs # {} => LastFor(ArgOptions(args), option, n, Max(inArgs))
      BY <2>1, <2>2, MaxIsLast
    <2>4. inArgs # {} => i \in inArgs
      BY <2>1, <2>3 DEF LastFor
    <2> HIDE DEF i
    <2> QED
      BY <2>4 DEF inArgs
  <1>5. inArgs # {} => ArgValue(args[i][1], args[i][2]) \in BOOLEAN
    BY <1>4 DEF ArgValue
  <1> QED
    BY <1>1, <1>2, <1>3, <1>5

\* An accepted configuration was validated.
LEMMA AcceptedIsValid ==
  ASSUME NEW files, NEW args, Len(args) \in Nat,
         ConfigPath(args) \in DOMAIN files => Len(files[ConfigPath(args)]) \in Nat,
         load_app_config(files, args).ok
  PROVE  OptionsConsistent(load_app_config(files, args).config)
  <1> DEFINE lines == ConfigLines(files, args)
             state == Loaded(files, args)
             final == apply_cli_args(state, args)
             out == load_app_config(files, args)
             Values == Met(files, args)
             n == Len(args)
  <1>1. out = [final EXCEPT !.ok = @ /\ validate_app_config(final.config)]
    BY LoadParts
  <1>2. Beginning(args) \in Loading(Values)
    BY BeginningTyped
  <1>3. /\ \A i \in 1 .. Len(lines) : FileValues(lines)[i] \in Values
        /\ \A i \in 1 .. n : ArgValues(args)[i] \in Values
    BY DEF Met
  <1>4. state \in Loading(Values)
    BY <1>2, <1>3, FileDecides
  <1>5. out.ok
    OBVIOUS
  <1> HIDE DEF state, out, Values, lines
  <1>6. PICK g : /\ Chain(g, n, Values, ArgOptions(args), ArgValues(args)) /\ final = g[n]
    BY <1>3, <1>4, ArgLoop
  <1> HIDE DEF final
  <1>7. final \in Loading(Values)
    BY <1>6 DEF Chain
  <1>8. out.config = final.config /\ validate_app_config(final.config)
    BY <1>1, <1>5, <1>7 DEF Loading
  <1> QED
    BY <1>8 DEF out, validate_app_config

\* ConfigHonoured: for every set of files, every line that may follow and every
\* command line, load_app_config gives each option the value with the highest
\* priority, and main() performs what validate_app_config accepted.
THEOREM ConfigHonouredHolds == Spec => []ConfigHonoured
  <1>1. Init => ConfigHonoured
    BY NothingCalled DEF ConfigHonoured, ConfigPrecedence, ConfigPerformed
  <1>2. ConfigHonoured /\ [Next]_call => ConfigHonoured'
    <2> SUFFICES ASSUME ConfigHonoured, Next \/ UNCHANGED call
                 PROVE  ConfigHonoured'
      OBVIOUS
    <2>1. CASE call' = call
      BY <2>1 DEF ConfigHonoured, ConfigPrecedence, ConfigPerformed
    <2>2. CASE call'.of # "load"
      BY <2>2 DEF ConfigHonoured, ConfigPrecedence, ConfigPerformed
    <2>3. CASE CallLoad
      <3>1. PICK base \in FileSystems, args \in CommandLines,
                 extra \in {<<>>} \cup {<<line>> : line \in Lines} :
              LET files == [path \in DOMAIN base |-> base[path] \o extra]
              IN  Called("load", [files |-> files, args |-> args],
                         load_app_config(files, args))
        BY <2>3 DEF CallLoad
      <3> DEFINE files == [path \in DOMAIN base |-> base[path] \o extra]
                 out == load_app_config(files, args)
                 config == out.config
      <3>2. args \in Seq(Range(args))
        BY InputsAssumption
      <3>3. Len(args) \in Nat /\ DOMAIN args = 1 .. Len(args)
        BY <3>2, LenProperties
      <3>4. ASSUME NEW path \in DOMAIN files
            PROVE  Len(files[path]) \in Nat /\ DOMAIN files[path] = 1 .. Len(files[path])
        <4> DEFINE S == Range(base[path]) \cup Lines
        <4>1. path \in DOMAIN base /\ files[path] = base[path] \o extra
          OBVIOUS
        <4>2. base[path] \in Seq(Range(base[path]))
          BY <4>1, InputsAssumption
        <4>3. base[path] \in Seq(S)
          BY <4>2
        <4>4. extra \in Seq(S)
          <5>1. CASE extra = <<>>
            BY <5>1
          <5>2. CASE extra # <<>>
            <6>1. PICK line \in Lines : extra = <<line>>
              BY <5>2
            <6>2. line \in S
              OBVIOUS
            <6> HIDE DEF S
            <6>3. <<line>> \in Seq(S)
              BY <6>2
            <6> QED
              BY <6>1, <6>3
          <5> QED
            BY <5>1, <5>2
        <4> HIDE DEF S, files
        <4>5. files[path] \in Seq(S)
          BY <4>1, <4>3, <4>4, ConcatProperties
        <4> QED
          BY <4>5, LenProperties
      <3>5. Called("load", [files |-> files, args |-> args], out)
        BY <3>1
      <3> HIDE DEF files
      <3>6. call'.in.files = files /\ call'.in.args = args /\ call'.out = out
        BY <3>5 DEF Called
      <3>7. ASSUME out.ok
            PROVE  /\ \A option \in Options \ {"config_path"} :
                        config[option] = Asked(files, args, option)
                   /\ Performed(config, MainOperations(config))
        <4>1. ConfigPath(args) \in DOMAIN files =>
                /\ Len(files[ConfigPath(args)]) \in Nat
                /\ DOMAIN files[ConfigPath(args)] = 1 .. Len(files[ConfigPath(args)])
          BY <3>4
        <4>2. \A option \in Options \ {"config_path"} :
                config[option] = Asked(files, args, option)
          BY <3>3, <3>7, <4>1, AskedFor
        <4>3. OptionsConsistent(config)
          BY <3>3, <3>7, <4>1, AcceptedIsValid
        <4> HIDE DEF config
        <4>4. \A option \in Flags : Asked(files, args, option) \in BOOLEAN
          BY <3>3, FlagAsked
        <4>5. {"list_formats", "save_one", "capture_one", "pipeline_save"}
                \subseteq Flags \cap (Options \ {"config_path"})
          BY DEF Flags, Options, Defaults
        <4>6. /\ config["list_formats"] \in BOOLEAN /\ config["save_one"] \in BOOLEAN
              /\ config["capture_one"] \in BOOLEAN /\ config["pipeline_save"] \in BOOLEAN
          BY <4>2, <4>4, <4>5
        <4>7. Performed(config, MainOperations(config))
          BY <4>3, <4>6, MainPerforms
        <4> QED
          BY <4>2, <4>7
      <3> HIDE DEF out
      <3>8. ConfigPrecedence'
        BY <3>6, <3>7 DEF ConfigPrecedence
      <3>9. ConfigPerformed'
        BY <3>6, <3>7 DEF ConfigPerformed
      <3> QED
        BY <3>8, <3>9 DEF ConfigHonoured
    <2> QED
      BY <2>1, <2>2, <2>3, NextCall DEF Others
  <1> QED
    BY <1>1, <1>2, PTL DEF Spec

-----------------------------------------------------------------------------
(* The fixture file.  *)

\* The integer that i bytes hold: below the i-th power of the base, its last
\* byte is the last one read and the others are those of the integer before.
LEMMA LongerInteger ==
  ASSUME NEW p \in Nat \ {0}, NEW low \in 0 .. p - 1, NEW byte \in 0 .. Base - 1
  PROVE  /\ low + byte * p \in 0 .. (p * Base) - 1
         /\ (low + byte * p) \div p = byte
         /\ (low + byte * p) % p = low
  <1>1. Base \in Nat \ {0}
    BY Widths
  <1>2. /\ byte \in Nat /\ low + byte * p = p * byte + low
    BY <1>1
  <1>3. (p * byte + low) % p = low /\ (p * byte + low) \div p = byte
    BY <1>2, DivisionUnique
  <1>4. low + byte * p \in 0 .. (p * Base) - 1
    <2>1. byte + 1 <= Base /\ low + 1 <= p
      BY <1>1
    <2>2. (byte + 1) * p <= Base * p
      BY <1>1, <1>2, <2>1
    <2> QED
      BY <1>1, <1>2, <2>1, <2>2
  <1> QED
    BY <1>2, <1>3, <1>4

\* Writing what was read gives the bytes back.
LEMMA WrittenRead ==
  ASSUME NEW bytes, NEW offset \in Nat, NEW size \in Nat,
         \A i \in 1 .. size : bytes[offset + i] \in 0 .. Base - 1
  PROVE  \A i \in 1 .. size :
           bytes[offset + i] = write_le(read_le(bytes, offset, size), i - 1)
  <1>0. Base \in Nat \ {0} /\ \A k \in Nat : Pow2[k * ByteBits] \in Nat \ {0}
    BY Widths
  <1>1. PICK value : /\ Accumulates(bytes, offset, size, value)
                     /\ read_le(bytes, offset, size) = value[size]
    <2>1. \A i \in 1 .. size : bytes[offset + i] \in Nat
      BY <1>0
    <2> QED
      BY <2>1, ReadLoop
  <1> DEFINE P(k) == Pow2[k * ByteBits]
             T == {n \in Nat : n <= size =>
                     /\ value[n] \in 0 .. P(n) - 1
                     /\ \A i \in 1 .. n : bytes[offset + i] = (value[n] \div P(i - 1)) % Base}
  <1>2. T \in SUBSET Nat /\ 0 \in T
    <2>1. value[0] = 0 /\ P(0) \in Nat \ {0}
      BY <1>0, <1>1 DEF Accumulates
    <2> HIDE DEF P
    <2> QED
      BY <2>1
  <1>3. ASSUME NEW n \in T PROVE n + 1 \in T
    <2> SUFFICES ASSUME n + 1 <= size
                 PROVE  /\ value[n + 1] \in 0 .. P(n + 1) - 1
                        /\ \A i \in 1 .. n + 1 :
                             bytes[offset + i] = (value[n + 1] \div P(i - 1)) % Base
      OBVIOUS
    <2>1. /\ n \in Nat /\ value[n] \in 0 .. P(n) - 1
          /\ \A i \in 1 .. n : bytes[offset + i] = (value[n] \div P(i - 1)) % Base
      OBVIOUS
    <2> DEFINE byte == bytes[offset + (n + 1)]
    <2>2. n + 1 \in 1 .. size /\ byte \in 0 .. Base - 1
      BY <2>1
    <2>3. value[n + 1] = value[n] + byte * P(n)
      <3>1. (n + 1) - 1 = n
        BY <2>1
      <3> QED
        BY <1>1, <2>2, <3>1 DEF Accumulates
    <2>4. P(n + 1) = P(n) * Base /\ P(n) \in Nat \ {0}
      <3>1. n * ByteBits \in Nat /\ ByteBits \in Nat /\ (n + 1) * ByteBits = n * ByteBits + ByteBits
        BY <2>1, Widths
      <3> QED
        BY <1>0, <2>1, <3>1, Pow2Sum DEF Base
    <2>5. /\ value[n + 1] \in 0 .. P(n + 1) - 1
          /\ value[n + 1] \div P(n) = byte /\ value[n + 1] % P(n) = value[n]
      <3> HIDE DEF P, byte
      <3>1. /\ value[n] + byte * P(n) \in 0 .. (P(n) * Base) - 1
            /\ (value[n] + byte * P(n)) \div P(n) = byte
            /\ (value[n] + byte * P(n)) % P(n) = value[n]
        BY <2>1, <2>2, <2>4, LongerInteger
      <3> QED
        BY <2>3, <2>4, <3>1
    <2>6. bytes[offset + (n + 1)] = (value[n + 1] \div P(n)) % Base
      <3> HIDE DEF P
      <3> QED
        BY <1>0, <2>2, <2>5
    <2>7. ASSUME NEW i \in 1 .. n
          PROVE  (value[n + 1] \div P(i - 1)) % Base = (value[n] \div P(i - 1)) % Base
      <3>1. i - 1 \in Nat /\ n - i \in Nat
        BY <2>1
      <3>2. P(n) = P(i - 1) * Base * P(n - i)
        <4>1. /\ (i - 1) * ByteBits \in Nat /\ (n - i) * ByteBits \in Nat /\ ByteBits \in Nat
              /\ n * ByteBits = ((i - 1) * ByteBits + ByteBits) + (n - i) * ByteBits
          BY <2>1, <3>1, Widths
        <4>2. Pow2[(i - 1) * ByteBits + ByteBits] = P(i - 1) * Base
          BY <4>1, Pow2Sum DEF Base
        <4>3. (i - 1) * ByteBits + ByteBits \in Nat
          BY <4>1
        <4> QED
          BY <4>1, <4>2, <4>3, Pow2Sum
      <3>3. P(i - 1) \in Nat \ {0} /\ P(n - i) \in Nat \ {0}
        BY <1>0, <3>1
      <3> DEFINE a == P(i - 1)
                 b == P(n - i)
                 v == value[n]
      <3>4. a \in Nat \ {0} /\ b \in Nat \ {0} /\ v \in Nat /\ value[n + 1] = v + byte * (a * Base * b)
        BY <2>1, <2>3, <2>4, <3>2, <3>3
      <3> HIDE DEF P, a, b, v, byte
      <3>5. PICK q \in Nat, r \in 0 .. a - 1 : v = a * q + r
        <4>1. v \div a \in Nat /\ v % a \in 0 .. a - 1 /\ v = a * (v \div a) + (v % a)
          BY <3>4
        <4> QED
          BY <4>1
      <3>6. v \div a = q
        BY <3>4, <3>5, DivisionUnique
      <3> DEFINE m == byte * b
      <3>7. m \in Nat
        BY <1>0, <2>2, <3>4
      <3>8. value[n + 1] = a * (q + Base * m) + r
        BY <1>0, <2>2, <3>4, <3>5
      <3> HIDE DEF m
      <3>9. q + Base * m \in Nat
        BY <1>0, <3>5, <3>7
      <3>10. value[n + 1] \div a = q + Base * m
        BY <3>4, <3>5, <3>8, <3>9, DivisionUnique
      <3>11. (q + Base * m) % Base = q % Base
        <4>1. PICK s \in Nat, t \in 0 .. Base - 1 : q = Base * s + t
          <5>1. q \div Base \in Nat /\ q % Base \in 0 .. Base - 1
                /\ q = Base * (q \div Base) + (q % Base)
            BY <1>0, <3>5
          <5> QED
            BY <5>1
        <4>2. q % Base = t
          BY <1>0, <4>1, DivisionUnique
        <4>3. q + Base * m = Base * (s + m) + t /\ s + m \in Nat
          BY <1>0, <3>7, <4>1
        <4> QED
          BY <1>0, <4>1, <4>2, <4>3, DivisionUnique
      <3> QED
        BY <3>6, <3>10, <3>11 DEF a, v
    <2> HIDE DEF P
    <2>8. ASSUME NEW i \in 1 .. n + 1
          PROVE  bytes[offset + i] = (value[n + 1] \div P(i - 1)) % Base
      <3>1. CASE i = n + 1
        <4>1. (n + 1) - 1 = n
          BY <2>1
        <4> QED
          BY <2>6, <3>1, <4>1
      <3>2. CASE i \in 1 .. n
        BY <2>1, <2>7, <3>2
      <3> QED
        BY <2>1, <3>1, <3>2
    <2> QED
      BY <2>5, <2>8
  <1> HIDE DEF T
  <1>4. T = Nat
    BY <1>2, <1>3, Induction
  <1>5. \A i \in 1 .. size : bytes[offset + i] = (value[size] \div P(i - 1)) % Base
    <2> HIDE DEF P
    <2>1. size \in T
      BY <1>4
    <2> QED
      BY <2>1 DEF T
  <1> QED
    BY <1>1, <1>5 DEF write_le

\* Every byte of the header belongs to a field.
LEMMA FieldAt ==
  ASSUME NEW j \in 1 .. 44
  PROVE  \E n \in 1 .. 10 : \E i \in 1 .. Writes[n][3] : Writes[n][2] + i = j
  <1>1. /\ Writes[1][2] = 0 /\ Writes[1][3] = 4 /\ Writes[2][2] = 4 /\ Writes[2][3] = 2
        /\ Writes[3][2] = 6 /\ Writes[3][3] = 2 /\ Writes[4][2] = 8 /\ Writes[4][3] = 8
        /\ Writes[5][2] = 16 /\ Writes[5][3] = 8 /\ Writes[6][2] = 24 /\ Writes[6][3] = 4
        /\ Writes[7][2] = 28 /\ Writes[7][3] = 4 /\ Writes[8][2] = 32 /\ Writes[8][3] = 4
        /\ Writes[9][2] = 36 /\ Writes[9][3] = 4 /\ Writes[10][2] = 40 /\ Writes[10][3] = 4
    BY DEF Writes
  <1>2. CASE j <= 8
    <2>1. j - 0 \in 1 .. 4 \/ j - 4 \in 1 .. 2 \/ j - 6 \in 1 .. 2
      BY <1>2
    <2>2. 0 + (j - 0) = j /\ 4 + (j - 4) = j /\ 6 + (j - 6) = j
      OBVIOUS
    <2> QED
      BY <1>1, <2>1, <2>2
  <1>3. CASE j > 8 /\ j <= 24
    <2>1. j - 8 \in 1 .. 8 \/ j - 16 \in 1 .. 8
      BY <1>3
    <2>2. 8 + (j - 8) = j /\ 16 + (j - 16) = j
      OBVIOUS
    <2> QED
      BY <1>1, <2>1, <2>2
  <1>4. CASE j > 24
    <2>1. \/ j - 24 \in 1 .. 4 \/ j - 28 \in 1 .. 4 \/ j - 32 \in 1 .. 4
          \/ j - 36 \in 1 .. 4 \/ j - 40 \in 1 .. 4
      BY <1>4
    <2>2. /\ 24 + (j - 24) = j /\ 28 + (j - 28) = j /\ 32 + (j - 32) = j
          /\ 36 + (j - 36) = j /\ 40 + (j - 40) = j
      OBVIOUS
    <2> QED
      BY <1>1, <2>1, <2>2
  <1> QED
    BY <1>2, <1>3, <1>4

\* A header that was decoded is encoded in the bytes it came from: they hold
\* nothing else.
LEMMA DecodedEncodes ==
  ASSUME NEW bytes \in Seq(0 .. Base - 1), Len(bytes) = kWireHeaderSize, NEW header,
         deserialize_header(bytes) = {header}
  PROVE  serialize_header(header) = bytes
  <1> DEFINE at(f) == CHOOSE i \in DOMAIN Reads : Reads[i][1] = f
             read == [f \in Fields |-> read_le(bytes, Reads[at(f)][2], Reads[at(f)][3])]
             wire == serialize_header(header)
  <1>0. \A j \in 1 .. 44 : bytes[j] \in 0 .. Base - 1
    BY ElementOfSeq DEF kWireHeaderSize
  <1>1. header = read
    BY DEF deserialize_header
  <1>2. ASSUME NEW n \in 1 .. 10
        PROVE  /\ header[Writes[n][1]] = read_le(bytes, Writes[n][2], Writes[n][3])
               /\ Writes[n][2] \in Nat /\ Writes[n][3] \in Nat
               /\ \A i \in 1 .. Writes[n][3] : Writes[n][2] + i \in 1 .. 44
    <2>1. Writes[n][1] \in Fields
      BY Layout DEF Fields
    <2>2. at(Writes[n][1]) = n
      BY Layout
    <2>3. Writes[n][2] \in Nat /\ Writes[n][3] \in Nat /\ Writes[n][2] + Writes[n][3] <= 44
      BY Layout
    <2>4. header[Writes[n][1]] = read_le(bytes, Reads[n][2], Reads[n][3])
      BY <1>1, <2>1, <2>2
    <2>5. \A o, s \in Nat : o + s <= 44 => \A i \in 1 .. s : o + i \in 1 .. 44
      OBVIOUS
    <2>6. \A i \in 1 .. Writes[n][3] : Writes[n][2] + i \in 1 .. 44
      BY <2>3, <2>5
    <2> QED
      BY <2>3, <2>4, <2>6, Layout
  <1>3. header \in [Fields -> Nat]
    <2>1. ASSUME NEW f \in Fields PROVE header[f] \in Nat
      <3>1. PICK n \in 1 .. 10 : Writes[n][1] = f
        BY Layout DEF Fields
      <3>2. \A i \in 1 .. Writes[n][3] : bytes[Writes[n][2] + i] \in Nat
        <4>1. \A j \in 1 .. 44 : bytes[j] \in Nat
          <5>1. \A byte \in 0 .. Base - 1 : byte \in Nat
            BY Widths
          <5> QED
            BY <1>0, <5>1, Zenon
        <4>2. \A i \in 1 .. Writes[n][3] : Writes[n][2] + i \in 1 .. 44
          BY <1>2
        <4> QED
          BY <4>1, <4>2
      <3>3. read_le(bytes, Writes[n][2], Writes[n][3]) \in Nat
        BY <1>2, <3>2, ReadType
      <3> QED
        BY <1>2, <3>1, <3>3
    <2>2. header = [f \in Fields |-> header[f]]
      BY <1>1
    <2> QED
      BY <2>1, <2>2
  <1>4. wire \in Seq(0 .. Base - 1) /\ Len(wire) = kWireHeaderSize
    BY <1>3, WireType
  <1>5. ASSUME NEW j \in 1 .. 44 PROVE wire[j] = bytes[j]
    <2>1. PICK n \in 1 .. 10 : \E i \in 1 .. Writes[n][3] : Writes[n][2] + i = j
      BY FieldAt
    <2>2. PICK i \in 1 .. Writes[n][3] : Writes[n][2] + i = j
      BY <2>1
    <2> DEFINE o == Writes[n][2]
               s == Writes[n][3]
    <2>3. o \in Nat /\ s \in Nat /\ i \in 1 .. s /\ o + i = j
      BY <1>2, <2>2
    <2>4. wire[o + i] = write_le(header[Writes[n][1]], i - 1)
      BY <2>3, FieldOnWire
    <2>5. \A k \in 1 .. s : bytes[o + k] \in 0 .. Base - 1
      BY <1>0, <1>2
    <2>6. header[Writes[n][1]] = read_le(bytes, o, s)
      BY <1>2
    <2> HIDE DEF wire, o, s
    <2>7. bytes[o + i] = write_le(read_le(bytes, o, s), i - 1)
      BY <2>3, <2>5, WrittenRead
    <2> QED
      BY <2>3, <2>4, <2>6, <2>7
  <1> HIDE DEF wire
  <1>6. wire = bytes
    <2>1. Len(wire) = 44 /\ Len(bytes) = 44
      BY <1>4 DEF kWireHeaderSize
    <2>2. \A j \in 1 .. Len(wire) : wire[j] = bytes[j]
      BY <1>5, <2>1
    <2> DEFINE Byte == 0 .. Base - 1
    <2>3. wire \in Seq(Byte) /\ bytes \in Seq(Byte)
      BY <1>4
    <2>4. Len(wire) = Len(bytes)
      BY <2>1
    <2> HIDE DEF Byte
    <2> QED
      BY <2>2, <2>3, <2>4, SeqEqual
  <1> QED
    BY <1>6 DEF wire

\* The size of a fixture frame.
FixtureSize == kWireHeaderSize + kFixtureWidth * kFixtureHeight * 2

\* The header of fixture frame k.
FixtureHeader(k) ==
  make_header(k, fixture_timestamp(k), kFixtureWidth, kFixtureHeight, V4L2_PIX_FMT_YUYV,
              kFixtureWidth * kFixtureHeight * 2, compute_crc32(make_fixture_payload(k)))

\* The sizes of the fixture are positive and within the limits of the protocol.
LEMMA FixtureSizes ==
  /\ kFixtureWidth \in Nat \ {0} /\ kFixtureHeight \in Nat \ {0}
  /\ kFixtureWidth <= kMaxDimension /\ kFixtureHeight <= kMaxDimension
  /\ kFixtureWidth * kFixtureHeight * 2 \in Nat \ {0} /\ FixtureSize \in Nat \ {0}
  /\ FixtureSize > kWireHeaderSize
  <1>1. /\ kFixtureWidth \in Nat \ {0} /\ kFixtureHeight \in Nat \ {0}
        /\ kFixtureWidth <= kMaxDimension /\ kFixtureHeight <= kMaxDimension
    BY FixtureAssumption, ProtocolAssumption
  <1>2. \A a, b \in Nat \ {0} : a * b * 2 \in Nat \ {0}
    OBVIOUS
  <1>3. kFixtureWidth * kFixtureHeight * 2 \in Nat \ {0}
    BY <1>1, <1>2
  <1> QED
    BY <1>1, <1>3 DEF FixtureSize, kWireHeaderSize

\* The payload of a fixture frame has the size of its image.
LEMMA FixturePayload ==
  ASSUME NEW k \in Nat
  PROVE  /\ make_fixture_payload(k) \in Seq(0 .. Base - 1)
         /\ Len(make_fixture_payload(k)) = kFixtureWidth * kFixtureHeight * 2
  <1> DEFINE size == kFixtureWidth * kFixtureHeight * 2
             x(i) == 2 * (((i - 1) % (2 * kFixtureWidth)) \div 4)
             y(i) == (i - 1) \div (2 * kFixtureWidth)
             value(i) == CASE (i - 1) % 4 = 0 -> x(i) + y(i) * 17 + k * 3
                           [] (i - 1) % 4 = 1 -> 96 + y(i) * 7 + k
                           [] (i - 1) % 4 = 2 -> x(i) + y(i) * 29 + k * 5 + 1
                           [] OTHER           -> 160 + x(i) * 5 + k * 2
             payload == [i \in 1 .. size |-> value(i) % Base]
  <1>1. make_fixture_payload(k) = payload
    BY DEF make_fixture_payload
  <1>2. ASSUME NEW i \in 1 .. size PROVE value(i) \in Nat
    <2>1. i - 1 \in Nat /\ 2 * kFixtureWidth \in Nat \ {0}
      BY FixtureSizes
    <2>2. \A a \in Nat, b \in Nat \ {0} : a \div b \in Nat /\ a % b \in Nat
      OBVIOUS
    <2>3. y(i) \in Nat /\ (i - 1) % (2 * kFixtureWidth) \in Nat
      BY <2>1, <2>2
    <2>4. x(i) \in Nat
      BY <2>2, <2>3
    <2> HIDE DEF x, y
    <2> QED
      BY <2>3, <2>4
  <1> HIDE DEF value
  <1>3. Base \in Nat \ {0} /\ size \in Nat
    BY Widths, FixtureSizes
  <1>4. payload \in [1 .. size -> 0 .. Base - 1]
    BY <1>2, <1>3
  <1> HIDE DEF payload, size
  <1>5. payload \in Seq(0 .. Base - 1) /\ Len(payload) = size
    BY <1>3, <1>4, FunctionIsSeq
  <1> QED
    BY <1>1, <1>5 DEF size

\* Part of a sequence.
LEMMA Slice ==
  ASSUME NEW S, NEW s \in Seq(S), NEW a \in Nat, NEW n \in Nat, a + n <= Len(s)
  PROVE  /\ SubSeq(s, a + 1, a + n) \in Seq(S) /\ Len(SubSeq(s, a + 1, a + n)) = n
         /\ \A i \in 1 .. n : SubSeq(s, a + 1, a + n)[i] = s[a + i]
  <1> DEFINE lo == a + 1
             hi == a + n
  <1>1. lo \in Int /\ hi \in Int /\ Len(s) \in Nat
    BY LenProperties
  <1>2. \A i \in lo .. hi : s[i] \in S
    <2>1. \A i \in lo .. hi : i \in 1 .. Len(s)
      BY <1>1
    <2> QED
      BY <2>1, ElementOfSeq
  <1>3. /\ SubSeq(s, lo, hi) \in Seq(S)
        /\ Len(SubSeq(s, lo, hi)) = IF lo <= hi THEN hi - lo + 1 ELSE 0
        /\ \A i \in 1 .. hi - lo + 1 : SubSeq(s, lo, hi)[i] = s[lo + i - 1]
    <2> HIDE DEF lo, hi
    <2> QED
      BY <1>1, <1>2, SubSeqProperties
  <1>4. hi - lo + 1 = n /\ (lo <= hi <=> n # 0) /\ \A i \in 1 .. n : lo + i - 1 = a + i
    OBVIOUS
  <1> QED
    BY <1>3, <1>4

\* The product that the receiver compares with the payload does not overflow.
LEMMA FixtureImageFits ==
  LET size == kFixtureWidth * kFixtureHeight * 2
  IN  size \in Unsigned(4) /\ size % Pow2[8 * ByteBits] = size
  <1> DEFINE size == kFixtureWidth * kFixtureHeight * 2
             p == Pow2[4 * ByteBits]
             q == Pow2[8 * ByteBits]
  <1>1. size \in Nat /\ size <= kDefaultMaxPayloadBytes
    BY FixtureSizes, FixtureAssumption
  <1>2. kDefaultMaxPayloadBytes \in Nat /\ kDefaultMaxPayloadBytes + 1 \in Unsigned(4)
    BY ProtocolAssumption
  <1>3. 4 * ByteBits \in Nat /\ 8 * ByteBits \in Nat /\ 4 * ByteBits <= 8 * ByteBits
    BY Widths
  <1>4. p <= q /\ q \in Nat \ {0} /\ p \in Nat
    BY <1>3, Pow2Monotone, Pow2Def
  <1>5. Unsigned(4) = 0 .. p - 1
    BY DEF Unsigned
  <1> HIDE DEF size, p, q
  <1>6. size \in Unsigned(4) /\ size < q
    BY <1>1, <1>2, <1>4, <1>5
  <1>7. size % q = size
    BY <1>1, <1>4, <1>6
  <1> QED
    BY <1>6, <1>7 DEF size, q

\* The header of a fixture frame, field by field.
LEMMA FixtureHeaderParts ==
  ASSUME NEW k \in Nat
  PROVE  /\ FixtureHeader(k) \in [Fields -> Nat]
         /\ FixtureHeader(k).magic = kMagic /\ FixtureHeader(k).header_size = kWireHeaderSize
         /\ FixtureHeader(k).version = kVersion /\ FixtureHeader(k).frame_id = k
         /\ FixtureHeader(k).capture_timestamp_ns = fixture_timestamp(k)
         /\ FixtureHeader(k).width = kFixtureWidth /\ FixtureHeader(k).height = kFixtureHeight
         /\ FixtureHeader(k).pixel_format = V4L2_PIX_FMT_YUYV
         /\ FixtureHeader(k).payload_size = kFixtureWidth * kFixtureHeight * 2
         /\ FixtureHeader(k).payload_crc32 = compute_crc32(make_fixture_payload(k))
  <1> DEFINE header == FixtureHeader(k)
             size == kFixtureWidth * kFixtureHeight * 2
             crc == compute_crc32(make_fixture_payload(k))
  <1>1. /\ header.magic = kMagic /\ header.header_size = kWireHeaderSize
        /\ header.version = kVersion /\ header.frame_id = k
        /\ header.capture_timestamp_ns = fixture_timestamp(k)
        /\ header.width = kFixtureWidth /\ header.height = kFixtureHeight
        /\ header.pixel_format = V4L2_PIX_FMT_YUYV
        /\ header.payload_size = size /\ header.payload_crc32 = crc
    BY DEF FixtureHeader, make_header
  <1>2. kMagic \in Nat /\ kWireHeaderSize \in Nat /\ kVersion \in Nat
        /\ V4L2_PIX_FMT_YUYV \in Nat
    BY ProtocolAssumption DEF Unsigned, kWireHeaderSize
  <1>3. crc \in Nat
    <2>1. crc \in Unsigned(4)
      BY ChecksumFits
    <2> QED
      BY <2>1 DEF Unsigned
  <1>4. fixture_timestamp(k) \in Nat
    BY FixtureAssumption DEF fixture_timestamp
  <1>5. kFixtureWidth \in Nat /\ kFixtureHeight \in Nat /\ size \in Nat
    BY FixtureSizes
  <1>6. header = [f \in Fields |-> header[f]]
    BY FieldsListed DEF FixtureHeader, make_header
  <1> HIDE DEF header, size, crc
  <1>7. \A f \in Fields : header[f] \in Nat
    BY <1>1, <1>2, <1>3, <1>4, <1>5, FieldsListed
  <1>8. header \in [Fields -> Nat]
    BY <1>6, <1>7
  <1> QED
    BY <1>1, <1>8 DEF header, size, crc

\* A fixture frame is its header and its payload.
LEMMA FixtureFrameParts ==
  ASSUME NEW k \in Nat
  PROVE  /\ FixtureFrame(k) = serialize_header(FixtureHeader(k)) \o make_fixture_payload(k)
         /\ FixtureFrame(k) \in Seq(0 .. Base - 1) /\ Len(FixtureFrame(k)) = FixtureSize
         /\ \A i \in 1 .. kWireHeaderSize :
              FixtureFrame(k)[i] = serialize_header(FixtureHeader(k))[i]
         /\ \A i \in 1 .. kFixtureWidth * kFixtureHeight * 2 :
              FixtureFrame(k)[kWireHeaderSize + i] = make_fixture_payload(k)[i]
  <1> DEFINE wire == serialize_header(FixtureHeader(k))
             payload == make_fixture_payload(k)
             size == kFixtureWidth * kFixtureHeight * 2
             frame == FixtureFrame(k)
  <1>1. payload \in Seq(0 .. Base - 1) /\ Len(payload) = size
    BY FixturePayload
  <1>2. wire \in Seq(0 .. Base - 1) /\ Len(wire) = kWireHeaderSize
    BY FixtureHeaderParts, WireType
  <1>3. frame = wire \o payload
    BY <1>1 DEF FixtureFrame, FixtureHeader
  <1>4. FixtureSize = kWireHeaderSize + size /\ size \in Nat /\ kWireHeaderSize \in Nat
    BY FixtureSizes DEF FixtureSize, kWireHeaderSize
  <1> HIDE DEF wire, payload, size, frame
  <1>5. /\ frame \in Seq(0 .. Base - 1) /\ Len(frame) = kWireHeaderSize + size
        /\ \A i \in 1 .. kWireHeaderSize + size :
             frame[i] = IF i <= kWireHeaderSize THEN wire[i] ELSE payload[i - kWireHeaderSize]
    BY <1>1, <1>2, <1>3, ConcatProperties
  <1>6. \A i \in 1 .. kWireHeaderSize : frame[i] = wire[i]
    BY <1>4, <1>5
  <1>7. ASSUME NEW i \in 1 .. size PROVE frame[kWireHeaderSize + i] = payload[i]
    <2>1. /\ kWireHeaderSize + i \in 1 .. kWireHeaderSize + size
          /\ ~(kWireHeaderSize + i <= kWireHeaderSize)
          /\ (kWireHeaderSize + i) - kWireHeaderSize = i
      BY <1>4
    <2> QED
      BY <1>5, <2>1
  <1> QED
    BY <1>3, <1>4, <1>5, <1>6, <1>7 DEF wire, payload, size, frame

\* The number of a frame and its time fit their fields.
FrameNumberFits(k) ==
  k \in Unsigned(8) /\ fixture_timestamp(k) \in Unsigned(8) /\ fixture_timestamp(k) # 0

\* The header of a fixture frame passes the checks of the receiver.
LEMMA FixtureHeaderPasses ==
  ASSUME NEW k \in Nat, FrameNumberFits(k)
  PROVE  /\ WellFormed(FixtureHeader(k))
         /\ validate_header(FixtureHeader(k), kDefaultMaxPayloadBytes) = ""
  <1> DEFINE payload == make_fixture_payload(k)
             size == kFixtureWidth * kFixtureHeight * 2
             frame == [v4l2_error |-> FALSE, data |-> payload, width |-> kFixtureWidth,
                       height |-> kFixtureHeight, pixel_format |-> V4L2_PIX_FMT_YUYV,
                       sequence |-> k, capture_timestamp_ns |-> fixture_timestamp(k)]
  <1>1. payload \in Seq(0 .. Base - 1) /\ Len(payload) = size
    BY FixturePayload
  <1>2. size \in Unsigned(4) /\ size \in Nat \ {0} /\ size <= kDefaultMaxPayloadBytes
    BY FixtureImageFits, FixtureSizes, FixtureAssumption
  <1>3. kFixtureWidth \in Unsigned(4) /\ kFixtureHeight \in Unsigned(4)
    <2>1. kFixtureWidth <= size /\ kFixtureHeight <= size
      <3>1. \A a, b \in Nat \ {0} : a <= a * b * 2 /\ b <= a * b * 2
        OBVIOUS
      <3> QED
        BY <3>1, FixtureSizes
    <2>2. size \in 0 .. Pow2[4 * ByteBits] - 1 /\ Pow2[4 * ByteBits] \in Nat
      BY <1>2, SmallFits
    <2> HIDE DEF size
    <2> QED
      BY <2>1, <2>2, FixtureSizes, SmallFits
  <1> HIDE DEF payload
  <1>4. FrameFits(frame)
    BY <1>1, <1>2, <1>3, ProtocolAssumption DEF FrameFits, FrameNumberFits
  <1>5. is_frame_usable(frame)
    <2>1. payload # <<>>
      BY <1>1, <1>2, EmptySeq
    <2>2. kFixtureWidth # 0 /\ kFixtureHeight # 0 /\ V4L2_PIX_FMT_YUYV # 0
      BY FixtureSizes, ProtocolAssumption
    <2> HIDE DEF size
    <2> QED
      BY <1>1, <1>2, <2>1, <2>2 DEF is_frame_usable, size
  <1>6. ~Disputed(frame, kDefaultMaxPayloadBytes)
    <2>1. ~(kFixtureWidth > kMaxDimension) /\ ~(kFixtureHeight > kMaxDimension)
      BY FixtureSizes, ProtocolAssumption
    <2>2. kFixtureWidth % 2 # 1
      BY FixtureAssumption
    <2>3. ~(size > kDefaultMaxPayloadBytes) /\ ~(size > size)
      BY <1>2, ProtocolAssumption
    <2> HIDE DEF size
    <2> QED
      BY <1>1, <2>1, <2>2, <2>3 DEF Disputed, size
  <1>7. HeaderOf(frame) = FixtureHeader(k)
    BY <1>1 DEF HeaderOf, FixtureHeader, payload
  <1>8. frame.capture_timestamp_ns # 0 /\ kDefaultMaxPayloadBytes \in Nat
    BY ProtocolAssumption DEF FrameNumberFits
  <1> HIDE DEF frame
  <1>9. WellFormed(HeaderOf(frame))
    BY <1>4, HeaderOfFrame
  <1>10. ~(validate_header(HeaderOf(frame), kDefaultMaxPayloadBytes) # "")
    BY <1>4, <1>5, <1>6, <1>8, RefusedIffDisputed
  <1> QED
    BY <1>7, <1>9, <1>10

\* The file holds fixture frame k behind offset bytes.
HoldsFrame(file, k, offset) ==
  /\ offset + FixtureSize <= Len(file)
  /\ \A i \in 1 .. FixtureSize : file[offset + i] = FixtureFrame(k)[i]

\* A frame that is verified is the one that was to be written, byte for byte.
LEMMA VerifiedIsExact ==
  ASSUME NEW file \in Seq(0 .. Base - 1), NEW k \in Nat, NEW offset \in Nat,
         VerifyFrame(file, k, offset) = "verified"
  PROVE  HoldsFrame(file, k, offset)
  <1> DEFINE rest == Len(file) - offset
             bytes == SubSeq(file, offset + 1, offset + kWireHeaderSize)
             header == CHOOSE h \in deserialize_header(bytes) : TRUE
             payload == SubSeq(file, offset + kWireHeaderSize + 1,
                               offset + kWireHeaderSize + header.payload_size)
             size == kFixtureWidth * kFixtureHeight * 2
             max == kDefaultMaxPayloadBytes
  <1>1. VerifyFrame(file, k, offset) =
          IF rest = 0 THEN "end"
          ELSE IF rest < kWireHeaderSize THEN "truncated header"
          ELSE IF validate_header(header, kDefaultMaxPayloadBytes) # ""
                 THEN "invalid header"
          ELSE IF \/ header.frame_id # k
                  \/ header.capture_timestamp_ns # fixture_timestamp(k)
                  \/ header.width # kFixtureWidth
                  \/ header.height # kFixtureHeight
                  \/ header.pixel_format # V4L2_PIX_FMT_YUYV
                 THEN "header fields"
          ELSE IF rest - kWireHeaderSize < header.payload_size
                 THEN "truncated payload"
          ELSE IF compute_crc32(payload) # header.payload_crc32 THEN "crc"
          ELSE IF payload # make_fixture_payload(k) THEN "payload"
          ELSE "verified"
    BY DEF VerifyFrame
  <1> HIDE DEF rest, payload, header, bytes
  <1>2. /\ ~(rest < kWireHeaderSize)
        /\ validate_header(header, kDefaultMaxPayloadBytes) = ""
        /\ header.frame_id = k /\ header.capture_timestamp_ns = fixture_timestamp(k)
        /\ header.width = kFixtureWidth /\ header.height = kFixtureHeight
        /\ header.pixel_format = V4L2_PIX_FMT_YUYV
        /\ ~(rest - kWireHeaderSize < header.payload_size)
        /\ compute_crc32(payload) = header.payload_crc32
        /\ payload = make_fixture_payload(k)
    BY <1>1
  <1>3. Len(file) \in Nat /\ kWireHeaderSize \in Nat /\ size \in Nat
    BY LenProperties, FixtureSizes DEF kWireHeaderSize
  <1>4. /\ bytes \in Seq(0 .. Base - 1) /\ Len(bytes) = kWireHeaderSize
        /\ \A i \in 1 .. kWireHeaderSize : bytes[i] = file[offset + i]
    <2>1. ~(Len(file) - offset < kWireHeaderSize)
      BY <1>2 DEF rest
    <2>2. offset + kWireHeaderSize <= Len(file) /\ kWireHeaderSize \in Nat
      BY <1>3, <2>1
    <2> DEFINE Byte == 0 .. Base - 1
               n == kWireHeaderSize
    <2>3. bytes = SubSeq(file, offset + 1, offset + n)
      BY DEF bytes
    <2>4. offset + n <= Len(file) /\ n \in Nat /\ file \in Seq(Byte)
      BY <2>2
    <2> HIDE DEF Byte, n
    <2>5. /\ bytes \in Seq(Byte) /\ Len(bytes) = n
          /\ \A i \in 1 .. n : bytes[i] = file[offset + i]
      <3>1. /\ SubSeq(file, offset + 1, offset + n) \in Seq(Byte)
            /\ Len(SubSeq(file, offset + 1, offset + n)) = n
            /\ \A i \in 1 .. n : SubSeq(file, offset + 1, offset + n)[i] = file[offset + i]
        BY <2>4, Slice
      <3> QED
        BY <2>3, <3>1
    <2> QED
      BY <2>5 DEF Byte, n
  <1>5. deserialize_header(bytes) = {header}
    <2>1. \E h : deserialize_header(bytes) = {h}
      BY <1>4 DEF deserialize_header
    <2> QED
      BY <2>1 DEF header
  <1>6. /\ header.magic = kMagic /\ header.header_size = kWireHeaderSize
        /\ header.version = kVersion /\ header.payload_size = size
    <2>1. \A i \in 1 .. 13 : ~Fails(header, max, i)
      BY <1>2, Refused
    <2>2. ~Fails(header, max, 2) /\ ~Fails(header, max, 3) /\ ~Fails(header, max, 4)
          /\ ~Fails(header, max, 13)
      <3>1. {2, 3, 4, 13} \subseteq 1 .. 13
        OBVIOUS
      <3> QED
        BY <2>1, <3>1, Zenon
    <2>3. /\ header.magic = kMagic /\ header.header_size = kWireHeaderSize
          /\ header.version = kVersion
      BY <2>2, ChecksListed
    <2>4. header.pixel_format = V4L2_PIX_FMT_YUYV
            => header.payload_size = (header.width * header.height * 2) % Pow2[8 * ByteBits]
      BY <2>2, ChecksListed
    <2>5. header.payload_size = size % Pow2[8 * ByteBits]
      BY <1>2, <2>4
    <2> QED
      BY <2>3, <2>5, FixtureImageFits
  <1>7. header = FixtureHeader(k)
    <2> DEFINE expected == FixtureHeader(k)
    <2>1. \A f \in Fields : header[f] = expected[f]
      <3>1. header.payload_crc32 = compute_crc32(make_fixture_payload(k))
        BY <1>2
      <3>2. /\ header.magic = expected.magic /\ header.header_size = expected.header_size
            /\ header.version = expected.version /\ header.frame_id = expected.frame_id
            /\ header.capture_timestamp_ns = expected.capture_timestamp_ns
        BY <1>2, <1>6, FixtureHeaderParts
      <3>3. /\ header.width = expected.width /\ header.height = expected.height
            /\ header.pixel_format = expected.pixel_format
            /\ header.payload_size = expected.payload_size
            /\ header.payload_crc32 = expected.payload_crc32
        BY <1>2, <1>6, <3>1, FixtureHeaderParts
      <3> HIDE DEF expected
      <3> QED
        BY <3>2, <3>3, FieldsListed
    <2>2. expected = [f \in Fields |-> expected[f]]
      BY FixtureHeaderParts
    <2>3. header = [f \in Fields |-> header[f]]
      <3>1. \E read : deserialize_header(bytes) = {[f \in Fields |-> read[f]]}
        <4> DEFINE read == [f \in Fields |->
                              LET i == CHOOSE i \in DOMAIN Reads : Reads[i][1] = f
                              IN  read_le(bytes, Reads[i][2], Reads[i][3])]
        <4>1. deserialize_header(bytes) = {read}
          BY <1>4 DEF deserialize_header
        <4>2. read = [f \in Fields |-> read[f]]
          OBVIOUS
        <4> HIDE DEF read
        <4> QED
          BY <4>1, <4>2
      <3>2. PICK read : deserialize_header(bytes) = {[f \in Fields |-> read[f]]}
        BY <3>1
      <3>3. header = [f \in Fields |-> read[f]]
        BY <1>5, <3>2
      <3> QED
        BY <3>3
    <2> HIDE DEF expected
    <2>4. header = expected
      BY <2>1, <2>2, <2>3
    <2> QED
      BY <2>4 DEF expected
  <1>8. serialize_header(FixtureHeader(k)) = bytes
    BY <1>4, <1>5, <1>7, DecodedEncodes
  <1>9. FixtureSize = kWireHeaderSize + size /\ offset + FixtureSize <= Len(file)
    <2>1. ~((Len(file) - offset) - kWireHeaderSize < size)
      BY <1>2, <1>6 DEF rest
    <2>2. FixtureSize = kWireHeaderSize + size
      BY DEF FixtureSize
    <2> HIDE DEF size
    <2> QED
      BY <1>3, <2>1, <2>2
  <1>10. \A i \in 1 .. size : payload[i] = file[offset + kWireHeaderSize + i]
    <2> DEFINE a == offset + kWireHeaderSize
    <2>1. a \in Nat /\ a + size <= Len(file)
      BY <1>3, <1>9
    <2>2. payload = SubSeq(file, a + 1, a + size)
      BY <1>6 DEF payload
    <2> HIDE DEF a, size
    <2>3. \A i \in 1 .. size : payload[i] = file[a + i]
      BY <1>3, <2>1, <2>2, Slice
    <2> QED
      BY <2>3 DEF a
  <1>11. ASSUME NEW i \in 1 .. FixtureSize PROVE file[offset + i] = FixtureFrame(k)[i]
    <2>1. CASE i \in 1 .. kWireHeaderSize
      BY <1>4, <1>8, <2>1, FixtureFrameParts
    <2>2. CASE i \notin 1 .. kWireHeaderSize
      <3> DEFINE j == i - kWireHeaderSize
      <3>1. j \in 1 .. size /\ i = kWireHeaderSize + j
            /\ offset + i = offset + kWireHeaderSize + j
        <4> HIDE DEF size
        <4> QED
          BY <1>3, <1>9, <2>2
      <3> HIDE DEF j
      <3>2. FixtureFrame(k)[kWireHeaderSize + j] = make_fixture_payload(k)[j]
        BY <3>1, FixtureFrameParts
      <3>3. make_fixture_payload(k)[j] = file[offset + kWireHeaderSize + j]
        BY <1>2, <1>10, <3>1
      <3> QED
        BY <3>1, <3>2, <3>3
    <2> QED
      BY <2>1, <2>2
  <1> QED
    BY <1>9, <1>11 DEF HoldsFrame

\* And the frame that was to be written is verified.
LEMMA ExactIsVerified ==
  ASSUME NEW file \in Seq(0 .. Base - 1), NEW k \in Nat, NEW offset \in Nat,
         HoldsFrame(file, k, offset), FrameNumberFits(k)
  PROVE  VerifyFrame(file, k, offset) = "verified"
  <1> DEFINE rest == Len(file) - offset
             bytes == SubSeq(file, offset + 1, offset + kWireHeaderSize)
             header == CHOOSE h \in deserialize_header(bytes) : TRUE
             payload == SubSeq(file, offset + kWireHeaderSize + 1,
                               offset + kWireHeaderSize + header.payload_size)
             size == kFixtureWidth * kFixtureHeight * 2
  <1>0. ASSUME NEW from \in Nat, NEW n \in Nat, from + n <= Len(file) PROVE
          /\ SubSeq(file, from + 1, from + n) \in Seq(0 .. Base - 1)
          /\ Len(SubSeq(file, from + 1, from + n)) = n
          /\ \A i \in 1 .. n : SubSeq(file, from + 1, from + n)[i] = file[from + i]
    <2> DEFINE Byte == 0 .. Base - 1
    <2>1. file \in Seq(Byte)
      OBVIOUS
    <2> HIDE DEF Byte
    <2>2. /\ SubSeq(file, from + 1, from + n) \in Seq(Byte)
          /\ Len(SubSeq(file, from + 1, from + n)) = n
          /\ \A i \in 1 .. n : SubSeq(file, from + 1, from + n)[i] = file[from + i]
      BY <1>0, <2>1, Slice
    <2> QED
      BY <2>2 DEF Byte
  <1>1. VerifyFrame(file, k, offset) =
          IF rest = 0 THEN "end"
          ELSE IF rest < kWireHeaderSize THEN "truncated header"
          ELSE IF validate_header(header, kDefaultMaxPayloadBytes) # ""
                 THEN "invalid header"
          ELSE IF \/ header.frame_id # k
                  \/ header.capture_timestamp_ns # fixture_timestamp(k)
                  \/ header.width # kFixtureWidth
                  \/ header.height # kFixtureHeight
                  \/ header.pixel_format # V4L2_PIX_FMT_YUYV
                 THEN "header fields"
          ELSE IF rest - kWireHeaderSize < header.payload_size
                 THEN "truncated payload"
          ELSE IF compute_crc32(payload) # header.payload_crc32 THEN "crc"
          ELSE IF payload # make_fixture_payload(k) THEN "payload"
          ELSE "verified"
    BY DEF VerifyFrame
  <1>2. /\ Len(file) \in Nat /\ kWireHeaderSize \in Nat \ {0} /\ size \in Nat
        /\ FixtureSize = kWireHeaderSize + size /\ offset + FixtureSize <= Len(file)
        /\ \A i \in 1 .. FixtureSize : file[offset + i] = FixtureFrame(k)[i]
    BY LenProperties, FixtureSizes DEF kWireHeaderSize, FixtureSize, HoldsFrame
  <1> HIDE DEF rest, payload, header, bytes, size
  <1>3. bytes = serialize_header(FixtureHeader(k))
    <2> DEFINE wire == serialize_header(FixtureHeader(k))
    <2>1. offset + kWireHeaderSize <= Len(file) /\ kWireHeaderSize \in Nat
      BY <1>2
    <2>2. /\ bytes \in Seq(0 .. Base - 1) /\ Len(bytes) = kWireHeaderSize
          /\ \A i \in 1 .. kWireHeaderSize : bytes[i] = file[offset + i]
      BY <1>0, <2>1 DEF bytes
    <2>3. wire \in Seq(0 .. Base - 1) /\ Len(wire) = kWireHeaderSize
      BY FixtureHeaderParts, WireType
    <2>4. \A i \in 1 .. kWireHeaderSize : FixtureFrame(k)[i] = wire[i]
      BY FixtureFrameParts
    <2> HIDE DEF wire
    <2>5. \A i \in 1 .. kWireHeaderSize : bytes[i] = wire[i]
      <3>1. \A i \in 1 .. kWireHeaderSize : i \in 1 .. FixtureSize
        BY <1>2
      <3> QED
        BY <1>2, <2>2, <2>4, <3>1
    <2>6. bytes = wire
      BY <2>2, <2>3, <2>5, SeqEqual
    <2> QED
      BY <2>6 DEF wire
  <1>4. header = FixtureHeader(k)
    <2>1. WellFormed(FixtureHeader(k))
      BY FixtureHeaderPasses
    <2>2. deserialize_header(bytes) = {FixtureHeader(k)}
      BY <1>3, <2>1, Codec DEF WellFormed
    <2> QED
      BY <2>2 DEF header
  <1>5. validate_header(header, kDefaultMaxPayloadBytes) = ""
    BY <1>4, FixtureHeaderPasses
  <1>6. /\ header.frame_id = k /\ header.capture_timestamp_ns = fixture_timestamp(k)
        /\ header.width = kFixtureWidth /\ header.height = kFixtureHeight
        /\ header.pixel_format = V4L2_PIX_FMT_YUYV /\ header.payload_size = size
        /\ header.payload_crc32 = compute_crc32(make_fixture_payload(k))
    BY <1>4, FixtureHeaderParts DEF size
  <1>7. payload = make_fixture_payload(k)
    <2> DEFINE from == offset + kWireHeaderSize
               expected == make_fixture_payload(k)
    <2>1. from \in Nat /\ from + size <= Len(file) /\ size \in Nat
      BY <1>2
    <2>2. payload = SubSeq(file, from + 1, from + size)
      BY <1>6 DEF payload
    <2>3. expected \in Seq(0 .. Base - 1) /\ Len(expected) = size
      BY FixturePayload DEF size
    <2>4. \A i \in 1 .. size : FixtureFrame(k)[kWireHeaderSize + i] = expected[i]
      BY FixtureFrameParts DEF size
    <2>5. \A i \in 1 .. size : /\ kWireHeaderSize + i \in 1 .. FixtureSize
                               /\ from + i = offset + (kWireHeaderSize + i)
      BY <1>2
    <2> HIDE DEF from, expected
    <2>6. /\ payload \in Seq(0 .. Base - 1) /\ Len(payload) = size
          /\ \A i \in 1 .. size : payload[i] = file[from + i]
      BY <1>0, <2>1, <2>2, Zenon
    <2>7. ASSUME NEW i \in 1 .. size PROVE payload[i] = expected[i]
      <3>1. payload[i] = file[offset + (kWireHeaderSize + i)]
        BY <2>5, <2>6
      <3>2. file[offset + (kWireHeaderSize + i)] = FixtureFrame(k)[kWireHeaderSize + i]
        BY <1>2, <2>5
      <3> QED
        BY <2>4, <3>1, <3>2
    <2>8. payload = expected
      BY <2>3, <2>6, <2>7, SeqEqual
    <2> QED
      BY <2>8 DEF expected
  <1>8. rest # 0 /\ ~(rest < kWireHeaderSize) /\ ~(rest - kWireHeaderSize < size)
    BY <1>2 DEF rest
  <1> QED
    BY <1>1, <1>5, <1>6, <1>7, <1>8

\* A place in one of i pieces of the same size that lie one behind the other.
LEMMA PieceIndex ==
  ASSUME NEW size \in Nat \ {0}, NEW i \in Nat, NEW m \in 1 .. i, NEW j \in 1 .. size
  PROVE  (m - 1) * size + j \in 1 .. i * size
  <1>1. m - 1 \in Nat /\ (m - 1) * size \in Nat /\ i * size \in Nat
    OBVIOUS
  <1>2. m * size <= i * size
    OBVIOUS
  <1>3. m * size = (m - 1) * size + size
    OBVIOUS
  <1> QED
    BY <1>1, <1>2, <1>3

\* Every place in them is one of those.
LEMMA IndexInPiece ==
  ASSUME NEW size \in Nat \ {0}, NEW n \in Nat, NEW p \in 1 .. n * size
  PROVE  \E k \in 0 .. n - 1 : \E i \in 1 .. size : p = k * size + i
  <1> DEFINE k == (p - 1) \div size
             i == ((p - 1) % size) + 1
  <1>1. p - 1 \in Nat /\ n * size \in Nat /\ p - 1 < n * size
    OBVIOUS
  <1>2. k \in Nat /\ i \in 1 .. size /\ p = k * size + i
    <2>1. \A a \in Nat : /\ a \div size \in Nat /\ a % size \in 0 .. size - 1
                         /\ a = (a \div size) * size + (a % size)
      OBVIOUS
    <2> QED
      BY <1>1, <2>1
  <1> HIDE DEF k, i
  <1>3. k < n
    <2> SUFFICES ASSUME n <= k PROVE FALSE
      BY <1>2
    <2>1. n * size <= k * size
      BY <1>2
    <2> QED
      BY <1>1, <1>2, <2>1
  <1> QED
    BY <1>2, <1>3

\* Pieces of the same size, flattened.
LEMMA FlatFile ==
  ASSUME NEW Byte, NEW size \in Nat \ {0}, NEW n \in Nat \ {0}, NEW pieces,
         Len(pieces) = n,
         \A i \in 1 .. n : pieces[i] \in Seq(Byte) /\ Len(pieces[i]) = size
  PROVE  /\ FlattenSeq(pieces) \in Seq(Byte) /\ Len(FlattenSeq(pieces)) = n * size
         /\ \A i \in 1 .. n : \A j \in 1 .. size :
              FlattenSeq(pieces)[(i - 1) * size + j] = pieces[i][j]
  <1> DEFINE Q(g) == g = [i \in 1 .. Len(pieces) |->
                            IF i = 1 THEN pieces[i] ELSE g[i - 1] \o pieces[i]]
             flatten == CHOOSE g : Q(g)
             step == [p \in Nat \X Seq(Byte) |->
                        IF p[1] \in 1 .. n THEN p[2] \o pieces[p[1]] ELSE p[2]]
  <1>1. FlattenSeq(pieces) = flatten[n]
    BY DEF FlattenSeq
  <1>2. \A s, t \in Seq(Byte) : s \o t \in Seq(Byte)
    BY ConcatProperties
  <1>3. /\ step \in [Nat \X Seq(Byte) -> Seq(Byte)]
        /\ \A i \in Nat, x \in Seq(Byte) : i \in 1 .. n => step[<<i, x>>] = x \o pieces[i]
    BY <1>2
  <1> HIDE DEF step
  <1>4. <<>> \in Seq(Byte)
    BY EmptySeq
  <1>5. PICK g : Solves(Seq(Byte), <<>>, step, n, g)
    <2>1. IsStep(Seq(Byte), <<>>, step)
      BY <1>3, <1>4 DEF IsStep
    <2> QED
      BY <2>1, RecursionExists
  <1> DEFINE h == [i \in 1 .. n |-> g[i]]
  <1>6. g[1] = pieces[1]
    <2>1. g[1] = step[<<1, g[1 - 1]>>] /\ g[0] = <<>> /\ 1 - 1 = 0
      BY <1>5 DEF Solves
    <2>2. g[1] = <<>> \o pieces[1]
      <3>1. step[<<1, <<>>>>] = <<>> \o pieces[1]
        <4>1. 1 \in Nat /\ 1 \in 1 .. n
          OBVIOUS
        <4> QED
          BY <1>3, <1>4, <4>1, Zenon
      <3> QED
        BY <2>1, <3>1, Zenon
    <2>3. pieces[1] \in Seq(Byte)
      OBVIOUS
    <2> QED
      BY <2>2, <2>3, ConcatEmptySeq
  <1>7. ASSUME NEW i \in 1 .. n, i # 1 PROVE g[i] = h[i - 1] \o pieces[i]
    <2>1. i - 1 \in 1 .. n /\ i - 1 \in 0 .. n /\ i \in Nat
      BY <1>7
    <2>2. g[i] = step[<<i, g[i - 1]>>] /\ g[i - 1] \in Seq(Byte)
      BY <1>5, <2>1 DEF Solves
    <2>3. step[<<i, g[i - 1]>>] = g[i - 1] \o pieces[i]
      BY <1>3, <2>1, <2>2
    <2> QED
      BY <2>1, <2>2, <2>3
  <1>8. Q(h)
    BY <1>6, <1>7
  <1>9. Q(flatten)
    BY <1>8
  <1> HIDE DEF flatten
  <1>10. /\ flatten[1] = pieces[1]
         /\ \A i \in 1 .. n : i # 1 => flatten[i] = flatten[i - 1] \o pieces[i]
    <2>1. \A i \in 1 .. n : flatten[i] = IF i = 1 THEN pieces[i]
                                           ELSE flatten[i - 1] \o pieces[i]
      BY <1>9
    <2>2. 1 \in 1 .. n
      OBVIOUS
    <2> QED
      BY <2>1, <2>2
  <1> HIDE DEF Q
  <1> DEFINE Flat(i) ==
               /\ flatten[i] \in Seq(Byte) /\ Len(flatten[i]) = i * size
               /\ \A m \in 1 .. i : \A j \in 1 .. size :
                    flatten[i][(m - 1) * size + j] = pieces[m][j]
             T == {i \in Nat : i \in 1 .. n => Flat(i)}
  <1>11. T \in SUBSET Nat /\ 0 \in T
    OBVIOUS
  <1>12. ASSUME NEW i \in T PROVE i + 1 \in T
    <2> SUFFICES ASSUME i + 1 \in 1 .. n PROVE Flat(i + 1)
      OBVIOUS
    <2>1. CASE i = 0
      <3>1. flatten[1] \in Seq(Byte) /\ Len(flatten[1]) = 1 * size
        BY <1>10
      <3>2. ASSUME NEW m \in 1 .. 1, NEW j \in 1 .. size
            PROVE  flatten[1][(m - 1) * size + j] = pieces[m][j]
        <4>1. m = 1 /\ (m - 1) * size + j = j
          OBVIOUS
        <4> QED
          BY <1>10, <4>1
      <3>3. Flat(1)
        BY <3>1, <3>2
      <3> HIDE DEF Flat
      <3> QED
        BY <2>1, <3>3
    <2>2. CASE i # 0
      <3>1. /\ i \in Nat /\ i \in 1 .. n /\ flatten[i] \in Seq(Byte)
            /\ Len(flatten[i]) = i * size
            /\ \A m \in 1 .. i : \A j \in 1 .. size :
                 flatten[i][(m - 1) * size + j] = pieces[m][j]
        BY <2>2
      <3> DEFINE s == flatten[i]
                 t == pieces[i + 1]
                 u == flatten[i + 1]
      <3>2. u = s \o t /\ t \in Seq(Byte) /\ Len(t) = size
        <4>1. (i + 1) - 1 = i /\ i + 1 # 1 /\ i + 1 \in 1 .. n
          BY <2>2, <3>1
        <4> QED
          BY <1>10, <4>1
      <3>3. /\ u \in Seq(Byte) /\ Len(u) = i * size + size
            /\ \A x \in 1 .. i * size + size :
                 u[x] = IF x <= i * size THEN s[x] ELSE t[x - i * size]
        <4> HIDE DEF s, t, u
        <4>1. s \in Seq(Byte) /\ Len(s) = i * size
          BY <3>1 DEF s
        <4>2. /\ s \o t \in Seq(Byte) /\ Len(s \o t) = Len(s) + Len(t)
              /\ \A x \in 1 .. Len(s) + Len(t) :
                   (s \o t)[x] = IF x <= Len(s) THEN s[x] ELSE t[x - Len(s)]
          <5>1. s \in Seq(Byte) /\ t \in Seq(Byte)
            BY <3>2, <4>1
          <5> QED
            BY <5>1, ConcatProperties
        <4>3. Len(s) = i * size /\ Len(t) = size
          BY <3>2, <4>1
        <4> QED
          BY <3>2, <4>2, <4>3, Zenon
      <3>4. i * size \in Nat /\ i * size + size = (i + 1) * size
        BY <3>1
      <3>5. ASSUME NEW m \in 1 .. i + 1, NEW j \in 1 .. size
            PROVE  u[(m - 1) * size + j] = pieces[m][j]
        <4>1. CASE m \in 1 .. i
          <5>1. (m - 1) * size + j \in 1 .. i * size
            BY <3>1, <4>1, PieceIndex
          <5>2. u[(m - 1) * size + j] = s[(m - 1) * size + j]
            BY <3>3, <3>4, <5>1
          <5> QED
            BY <3>1, <4>1, <5>2
        <4>2. CASE m = i + 1
          <5>1. (m - 1) * size + j = i * size + j
            BY <3>1, <4>2
          <5>2. /\ i * size + j \in 1 .. i * size + size /\ ~(i * size + j <= i * size)
                /\ (i * size + j) - i * size = j
            BY <3>4
          <5>3. u[i * size + j] = t[j]
            BY <3>3, <5>2
          <5> QED
            BY <4>2, <5>1, <5>3
        <4> QED
          BY <3>1, <4>1, <4>2
      <3> QED
        BY <3>3, <3>4, <3>5
    <2> QED
      BY <2>1, <2>2
  <1> HIDE DEF T
  <1>13. T = Nat
    BY <1>11, <1>12, Induction
  <1>14. Flat(n)
    <2>1. n \in T /\ n \in 1 .. n
      BY <1>13
    <2> HIDE DEF Flat
    <2> QED
      BY <2>1 DEF T
  <1> QED
    BY <1>1, <1>14

\* The file that is written: the frames one behind the other.
LEMMA FixtureFile ==
  ASSUME NEW n \in Nat \ {0}
  PROVE  /\ write_fixture(n) \in Seq(0 .. Base - 1)
         /\ Len(write_fixture(n)) = n * FixtureSize
         /\ \A k \in 0 .. n - 1 : \A i \in 1 .. FixtureSize :
              write_fixture(n)[k * FixtureSize + i] = FixtureFrame(k)[i]
  <1> DEFINE Byte == 0 .. Base - 1
             pieces == [i \in 1 .. n |-> FixtureFrame(i - 1)]
             file == write_fixture(n)
  <1>1. file = FlattenSeq(pieces)
    BY DEF write_fixture
  <1>2. \A i \in 1 .. n : pieces[i] \in Seq(Byte) /\ Len(pieces[i]) = FixtureSize
    <2>1. \A i \in 1 .. n : i - 1 \in Nat /\ pieces[i] = FixtureFrame(i - 1)
      OBVIOUS
    <2> HIDE DEF pieces
    <2> QED
      BY <2>1, FixtureFrameParts
  <1>3. Len(pieces) = n
    OBVIOUS
  <1>4. \A i \in 1 .. n : pieces[i] = FixtureFrame(i - 1)
    OBVIOUS
  <1> HIDE DEF Byte, pieces, file
  <1>5. /\ FlattenSeq(pieces) \in Seq(Byte) /\ Len(FlattenSeq(pieces)) = n * FixtureSize
        /\ \A i \in 1 .. n : \A j \in 1 .. FixtureSize :
             FlattenSeq(pieces)[(i - 1) * FixtureSize + j] = pieces[i][j]
    BY <1>2, <1>3, FixtureSizes, FlatFile
  <1>6. ASSUME NEW k \in 0 .. n - 1, NEW i \in 1 .. FixtureSize
        PROVE  file[k * FixtureSize + i] = FixtureFrame(k)[i]
    <2>1. k + 1 \in 1 .. n /\ (k + 1) - 1 = k
      OBVIOUS
    <2>2. FlattenSeq(pieces)[((k + 1) - 1) * FixtureSize + i] = pieces[k + 1][i]
      BY <1>5, <2>1
    <2>3. pieces[k + 1] = FixtureFrame(k)
      BY <1>4, <2>1
    <2> QED
      BY <1>1, <2>1, <2>2, <2>3
  <1> QED
    BY <1>1, <1>5, <1>6 DEF Byte, file

\* The end of the file is found where it is.
LEMMA EndOfFile ==
  ASSUME NEW file, NEW k, NEW offset
  PROVE  VerifyFrame(file, k, offset) = "end" <=> Len(file) - offset = 0
  <1> DEFINE rest == Len(file) - offset
             bytes == SubSeq(file, offset + 1, offset + kWireHeaderSize)
             header == CHOOSE h \in deserialize_header(bytes) : TRUE
             payload == SubSeq(file, offset + kWireHeaderSize + 1,
                               offset + kWireHeaderSize + header.payload_size)
  <1>1. VerifyFrame(file, k, offset) =
          IF rest = 0 THEN "end"
          ELSE IF rest < kWireHeaderSize THEN "truncated header"
          ELSE IF validate_header(header, kDefaultMaxPayloadBytes) # ""
                 THEN "invalid header"
          ELSE IF \/ header.frame_id # k
                  \/ header.capture_timestamp_ns # fixture_timestamp(k)
                  \/ header.width # kFixtureWidth
                  \/ header.height # kFixtureHeight
                  \/ header.pixel_format # V4L2_PIX_FMT_YUYV
                 THEN "header fields"
          ELSE IF rest - kWireHeaderSize < header.payload_size
                 THEN "truncated payload"
          ELSE IF compute_crc32(payload) # header.payload_crc32 THEN "crc"
          ELSE IF payload # make_fixture_payload(k) THEN "payload"
          ELSE "verified"
    BY DEF VerifyFrame
  <1> HIDE DEF payload, header, bytes
  <1> QED
    BY <1>1

\* A file of n frames that holds every frame of the fixture is the fixture.
LEMMA FramesMakeFile ==
  ASSUME NEW file \in Seq(0 .. Base - 1), NEW n \in Nat \ {0}, Len(file) = n * FixtureSize,
         \A k \in 0 .. n - 1 : HoldsFrame(file, k, k * FixtureSize)
  PROVE  file = write_fixture(n)
  <1> DEFINE copy == write_fixture(n)
  <1>1. /\ copy \in Seq(0 .. Base - 1) /\ Len(copy) = n * FixtureSize
        /\ \A k \in 0 .. n - 1 : \A i \in 1 .. FixtureSize :
             copy[k * FixtureSize + i] = FixtureFrame(k)[i]
    BY FixtureFile
  <1> HIDE DEF copy
  <1>2. ASSUME NEW p \in 1 .. n * FixtureSize PROVE file[p] = copy[p]
    <2>1. \E k \in 0 .. n - 1 : \E i \in 1 .. FixtureSize : p = k * FixtureSize + i
      <3>1. n \in Nat /\ FixtureSize \in Nat \ {0}
        BY FixtureSizes
      <3> QED
        BY <3>1, IndexInPiece
    <2>2. PICK k \in 0 .. n - 1, i \in 1 .. FixtureSize : p = k * FixtureSize + i
      BY <2>1
    <2>3. file[k * FixtureSize + i] = FixtureFrame(k)[i]
      BY DEF HoldsFrame
    <2> QED
      BY <1>1, <2>2, <2>3
  <1>3. file = copy
    <2>1. Len(file) = Len(copy) /\ \A p \in 1 .. Len(file) : file[p] = copy[p]
      BY <1>1, <1>2
    <2> QED
      BY <1>1, <2>1, SeqEqual
  <1> QED
    BY <1>3 DEF copy

\* The verification loop passes a file exactly if it is the fixture.
LEMMA FixtureVerdict ==
  ASSUME NEW file \in Seq(0 .. Base - 1), NEW frames \in Nat \ {0},
         \A k \in 0 .. frames - 1 : FrameNumberFits(k)
  PROVE  verify_fixture(file, frames) = "end" <=> file = write_fixture(frames)
  <1> DEFINE size == FixtureSize
             verdict(k) == VerifyFrame(file, k, k * size)
             N == Len(file) \div size
             Stops(k) == /\ verdict(k) # "verified"
                         /\ \A j \in 0 .. k - 1 : verdict(j) = "verified"
             last == CHOOSE k \in 0 .. N : Stops(k)
  <1>1. verify_fixture(file, frames) =
          IF verdict(last) = "end" /\ last # frames THEN "frame count" ELSE verdict(last)
    BY DEF verify_fixture, FixtureSize
  <1>2. size \in Nat \ {0} /\ Len(file) \in Nat
    BY FixtureSizes, LenProperties
  <1>3. N \in Nat /\ N * size <= Len(file) /\ Len(file) < N * size + size
    <2> HIDE DEF size
    <2>1. \A a \in Nat : /\ a \div size \in Nat /\ (a \div size) * size <= a
                         /\ a < (a \div size) * size + size
      BY <1>2
    <2> QED
      BY <1>2, <2>1
  <1>4. ASSUME NEW k \in Nat, verdict(k) = "verified" PROVE HoldsFrame(file, k, k * size)
    <2>1. k * size \in Nat
      BY <1>2
    <2> HIDE DEF size
    <2> QED
      BY <1>4, <2>1, VerifiedIsExact
  <1>5. ASSUME NEW k \in Nat PROVE verdict(k) = "end" <=> Len(file) = k * size
    <2>1. k * size \in Nat
      BY <1>2
    <2>2. verdict(k) = "end" <=> Len(file) - k * size = 0
      BY EndOfFile
    <2> HIDE DEF size, verdict
    <2> QED
      BY <1>2, <2>1, <2>2
  <1> HIDE DEF verdict, N, size
  <1>6. last \in 0 .. N /\ Stops(last)
    <2> DEFINE S == {k \in Nat : verdict(k) # "verified"}
    <2>1. N \in S
      <3> SUFFICES ASSUME verdict(N) = "verified" PROVE FALSE
        BY <1>3
      <3>1. N * size + size <= Len(file)
        BY <1>3, <1>4 DEF HoldsFrame, size
      <3> QED
        BY <1>2, <1>3, <3>1
    <2>2. S \in SUBSET Nat /\ S # {}
      BY <2>1
    <2>3. PICK m \in S : \A n \in S : m <= n
      <3> HIDE DEF S
      <3> QED
        BY <2>2, Smallest
    <2>4. m \in 0 .. N
      BY <1>3, <2>1, <2>3
    <2>5. \A j \in 0 .. m - 1 : verdict(j) = "verified"
      BY <2>3
    <2>6. Stops(m)
      BY <2>3, <2>5
    <2> HIDE DEF Stops
    <2> QED
      BY <2>4, <2>6
  <1> HIDE DEF last
  <1>7. ASSUME verify_fixture(file, frames) = "end" PROVE file = write_fixture(frames)
    <2>1. verdict(last) = "end" /\ last = frames
      BY <1>1, <1>7
    <2>2. Len(file) = frames * FixtureSize
      BY <1>5, <2>1 DEF size
    <2>3. \A k \in 0 .. frames - 1 : HoldsFrame(file, k, k * FixtureSize)
      <3>1. \A k \in 0 .. frames - 1 : k \in Nat /\ verdict(k) = "verified"
        BY <1>6, <2>1
      <3> QED
        BY <1>4, <3>1 DEF size
    <2> QED
      BY <2>2, <2>3, FramesMakeFile
  <1>8. ASSUME file = write_fixture(frames) PROVE verify_fixture(file, frames) = "end"
    <2>1. Len(file) = frames * size
      BY <1>8, FixtureFile DEF size
    <2>2. ASSUME NEW k \in 0 .. frames - 1 PROVE verdict(k) = "verified"
      <3>1. k \in Nat /\ k * size \in Nat /\ k * size + size <= frames * size
        <4>1. k \in Nat /\ k + 1 <= frames
          OBVIOUS
        <4>2. (k + 1) * size <= frames * size
          BY <1>2, <4>1
        <4> QED
          BY <1>2, <4>1, <4>2
      <3>2. \A i \in 1 .. FixtureSize : file[k * FixtureSize + i] = FixtureFrame(k)[i]
        BY <1>8, FixtureFile
      <3>3. HoldsFrame(file, k, k * size)
        BY <2>1, <3>1, <3>2 DEF HoldsFrame, size
      <3>4. FrameNumberFits(k)
        OBVIOUS
      <3> QED
        BY <3>1, <3>3, <3>4, ExactIsVerified DEF verdict
    <2>3. N = frames
      <3>1. N * size <= frames * size /\ frames * size < (N + 1) * size
        BY <1>2, <1>3, <2>1
      <3>2. ~(frames < N)
        <4> SUFFICES ASSUME frames + 1 <= N PROVE FALSE
          BY <1>3
        <4>1. (frames + 1) * size <= N * size
          BY <1>2, <1>3
        <4> QED
          BY <1>2, <1>3, <3>1, <4>1
      <3>3. ~(N < frames)
        <4> SUFFICES ASSUME N + 1 <= frames PROVE FALSE
          BY <1>3
        <4>1. (N + 1) * size <= frames * size
          BY <1>2, <1>3
        <4> QED
          BY <1>2, <1>3, <3>1, <4>1
      <3> QED
        BY <1>3, <3>2, <3>3
    <2>4. last = frames
      <3>1. last \in 0 .. frames /\ verdict(last) # "verified"
        BY <1>6, <2>3
      <3>2. last \notin 0 .. frames - 1
        BY <2>2, <3>1
      <3> QED
        BY <3>1, <3>2
    <2>5. verdict(last) = "end"
      BY <1>5, <2>1, <2>4
    <2> QED
      BY <1>1, <2>4, <2>5
  <1> QED
    BY <1>7, <1>8

\* Every copy of a file, damaged or not, is a sequence of bytes.
LEMMA CopiesAreBytes ==
  ASSUME NEW file \in Seq(0 .. Base - 1), NEW size \in Nat, size <= Len(file)
  PROVE  Copies(file, size) \subseteq Seq(0 .. Base - 1)
  <1> DEFINE Byte == 0 .. Base - 1
  <1>1. /\ file \in Seq(Byte) /\ Base \in Nat \ {0}
        /\ \A d \in Nat : \A x \in Byte : (x + d) % Base \in Byte
    BY Widths
  <1>2. 0 \in Byte
    BY <1>1
  <1>3. \A d \in {1, 4} : \A x \in Byte : (x + d) % Base \in Byte
    BY <1>1
  <1> HIDE DEF Byte
  <1>4. Len(file) \in Nat /\ \A i \in 1 .. Len(file) : file[i] \in Byte
    BY <1>1, LenProperties, ElementOfSeq
  <1>5. ASSUME NEW n \in 0 .. Len(file) PROVE SubSeq(file, 1, n) \in Seq(Byte)
    <2>1. n \in Int /\ \A i \in 1 .. n : file[i] \in Byte
      BY <1>4
    <2> QED
      BY <2>1, SubSeqProperties
  <1>6. SubSeq(file, size + 1, Len(file)) \in Seq(Byte)
    <2>1. size + 1 \in Int /\ Len(file) \in Int
          /\ \A i \in size + 1 .. Len(file) : file[i] \in Byte
      BY <1>4
    <2> QED
      BY <2>1, SubSeqProperties
  <1>7. SubSeq(file, size + 1, Len(file)) \o SubSeq(file, 1, size) \in Seq(Byte)
    <2>1. size \in 0 .. Len(file)
      BY <1>4
    <2>2. SubSeq(file, 1, size) \in Seq(Byte)
      BY <1>5, <2>1
    <2> QED
      BY <1>6, <2>2, ConcatProperties
  <1>8. Append(file, 0) \in Seq(Byte)
    BY <1>1, <1>2, AppendProperties
  <1>9. ASSUME NEW i \in DOMAIN file, NEW d \in {1, 4}
        PROVE  [file EXCEPT ![i] = (@ + d) % Base] \in Seq(Byte)
    <2> DEFINE e == (file[i] + d) % Base
    <2>1. i \in 1 .. Len(file)
      BY <1>1, LenProperties
    <2>2. e \in Byte
      BY <1>3, <1>4, <2>1
    <2>3. [file EXCEPT ![i] = (@ + d) % Base] = [file EXCEPT ![i] = e]
      OBVIOUS
    <2> HIDE DEF e
    <2>4. [file EXCEPT ![i] = e] \in Seq(Byte)
      BY <1>1, <2>1, <2>2, ExceptSeq
    <2> QED
      BY <2>3, <2>4
  <1>10. {SubSeq(file, 1, n) : n \in 0 .. Len(file)} \subseteq Seq(Byte)
    BY <1>5
  <1>11. {[file EXCEPT ![i] = (@ + d) % Base] : i \in DOMAIN file, d \in {1, 4}}
           \subseteq Seq(Byte)
    BY <1>9
  <1>12. /\ {file} \subseteq Seq(Byte) /\ {Append(file, 0)} \subseteq Seq(Byte)
         /\ {SubSeq(file, size + 1, Len(file)) \o SubSeq(file, 1, size)} \subseteq Seq(Byte)
    BY <1>1, <1>7, <1>8
  <1>13. Copies(file, size) \subseteq Seq(Byte)
    <2> DEFINE A == {SubSeq(file, 1, n) : n \in 0 .. Len(file)}
               B == {[file EXCEPT ![i] = (@ + d) % Base] : i \in DOMAIN file, d \in {1, 4}}
               C == {Append(file, 0)}
               D == {SubSeq(file, size + 1, Len(file)) \o SubSeq(file, 1, size)}
    <2>1. Copies(file, size) = {file} \cup A \cup C \cup B \cup D
      BY DEF Copies
    <2>2. A \subseteq Seq(Byte) /\ B \subseteq Seq(Byte)
      BY <1>10, <1>11
    <2>3. {file} \subseteq Seq(Byte) /\ C \subseteq Seq(Byte) /\ D \subseteq Seq(Byte)
      BY <1>12
    <2> HIDE DEF A, B, C, D
    <2> QED
      BY <2>1, <2>2, <2>3
  <1> QED
    BY <1>13 DEF Byte

\* verify_fixture passes exactly the file that write_fixture writes for that
\* number of frames, however the file at hand was cut, extended, damaged or
\* reordered: for every size of the image and every number of frames.
THEOREM FixtureExactHolds == Spec => []FixtureExact
  <1>1. Init => FixtureExact
    BY NothingCalled DEF FixtureExact
  <1>2. FixtureExact /\ [Next]_call => FixtureExact'
    <2> SUFFICES ASSUME FixtureExact, Next \/ UNCHANGED call
                 PROVE  FixtureExact'
      OBVIOUS
    <2>1. CASE Others("fixture")
      BY <2>1 DEF Others, FixtureExact
    <2>2. CASE CallFixture
      <3>1. PICK written \in FixtureFrames, expected \in FixtureFrames :
              \E file \in Copies(write_fixture(written), Len(FixtureFrame(0))) :
                Called("fixture", [file |-> file, frames |-> expected],
                       verify_fixture(file, expected))
        BY <2>2 DEF CallFixture
      <3>2. PICK file \in Copies(write_fixture(written), Len(FixtureFrame(0))) :
              Called("fixture", [file |-> file, frames |-> expected],
                     verify_fixture(file, expected))
        BY <3>1
      <3>3. /\ written \in Nat \ {0} /\ expected \in Nat \ {0}
            /\ \A k \in 0 .. expected - 1 : FrameNumberFits(k)
        BY InputsAssumption DEF FrameNumberFits
      <3>4. file \in Seq(0 .. Base - 1)
        <4> DEFINE original == write_fixture(written)
                   size == Len(FixtureFrame(0))
        <4>1. size = FixtureSize
          BY FixtureFrameParts
        <4>2. original \in Seq(0 .. Base - 1) /\ Len(original) = written * FixtureSize
          BY <3>3, FixtureFile
        <4>3. \A a, b \in Nat \ {0} : b <= a * b
          OBVIOUS
        <4>4. size \in Nat /\ size <= Len(original)
          BY <3>3, <4>1, <4>2, <4>3, FixtureSizes
        <4> HIDE DEF original, size
        <4>5. Copies(original, size) \subseteq Seq(0 .. Base - 1)
          BY <4>2, <4>4, CopiesAreBytes
        <4> QED
          BY <3>2, <4>5 DEF original, size
      <3>5. verify_fixture(file, expected) = "end" <=> file = write_fixture(expected)
        BY <3>3, <3>4, FixtureVerdict
      <3>6. call'.in.file = file /\ call'.in.frames = expected
            /\ call'.out = verify_fixture(file, expected)
        BY <3>2 DEF Called
      <3> QED
        BY <3>5, <3>6 DEF FixtureExact
    <2> QED
      BY <2>1, <2>2, NextCall
  <1> QED
    BY <1>1, <1>2, PTL DEF Spec

-----------------------------------------------------------------------------
(* The checksum is the remainder of a polynomial division.  *)

\* A turn of the inner loop leaves a set of bits a set of bits.
LEMMA RoundInt ==
  ASSUME NEW c \in SUBSET Int
  PROVE  Crc32!CrcRound(c) \in SUBSET Int
  <1>1. Polynomial32 \subseteq Int
    BY DEF Polynomial32
  <1> DEFINE shifted == {b - 1 : b \in c \ {0}}
  <1>2. shifted \subseteq Int
    OBVIOUS
  <1>3. Crc32!CrcRound(c) = IF 0 \in c THEN Xor(shifted, Polynomial32) ELSE shifted
    BY DEF Crc32!CrcRound, Crc32!Xor, Xor
  <1> HIDE DEF shifted
  <1> QED
    BY <1>1, <1>2, <1>3 DEF Xor

\* Subtracting the generator leaves exponents exponents.
LEMMA SubtractedInt ==
  ASSUME NEW d \in SUBSET Int, NEW e \in Int
  PROVE  Subtracted(d, e) \in SUBSET Int
  <1>1. Generator \subseteq Int
    BY DEF Generator, Polynomial32
  <1>2. {e - 32 + g : g \in Generator} \subseteq Int
    BY <1>1
  <1> QED
    BY <1>2 DEF Subtracted, Xor

\* The inner loop of compute_crc32, at the widths of the code.
Turns32(crc, byte, turn) ==
  /\ turn[0] = Xor(crc, Crc32!Ones(byte))
  /\ \A i \in 1 .. 8 : turn[i] = Crc32!CrcRound(turn[i - 1])

\* The inner loop takes eight turns for a byte.
LEMMA InnerLoop32 ==
  ASSUME NEW crc \in SUBSET Int, NEW byte
  PROVE  /\ Crc32!CrcByte(crc, byte) \in SUBSET Int
         /\ \E turn : Turns32(crc, byte, turn) /\ Crc32!CrcByte(crc, byte) = turn[8]
  <1> DEFINE A == SUBSET Int
             first == Xor(crc, Crc32!Ones(byte))
             Q(g) == g = [i \in 0 .. 8 |-> IF i = 0 THEN first ELSE Crc32!CrcRound(g[i - 1])]
             turn == CHOOSE g : Q(g)
             step == [p \in Nat \X A |-> Crc32!CrcRound(p[2])]
  <1>1. Crc32!CrcByte(crc, byte) = turn[8]
    BY DEF Crc32!CrcByte, Crc32!Xor, Xor
  <1>2. first \in A
    <2>1. Crc32!Ones(byte) \subseteq Int
      BY DEF Crc32!Ones
    <2> QED
      BY <2>1 DEF Xor
  <1>3. \A c \in A : Crc32!CrcRound(c) \in A
    BY RoundInt
  <1>4. /\ step \in [Nat \X A -> A]
        /\ \A i \in Nat, c \in A : step[<<i, c>>] = Crc32!CrcRound(c)
    BY <1>3
  <1> HIDE DEF step, first, A
  <1>5. PICK g : Solves(A, first, step, 8, g)
    BY <1>2, <1>4, RecursionExists DEF IsStep
  <1>6. ASSUME NEW i \in 1 .. 8 PROVE g[i] = Crc32!CrcRound(g[i - 1])
    <2>1. i - 1 \in 0 .. 8 /\ i \in Nat
      OBVIOUS
    <2>2. g[i - 1] \in A
      BY <1>5, <2>1 DEF Solves
    <2> QED
      BY <1>4, <1>5, <2>1, <2>2 DEF Solves
  <1>7. Q(g)
    <2>1. \A i \in 0 .. 8 : i = 0 \/ i \in 1 .. 8
      OBVIOUS
    <2>2. \A i \in 0 .. 8 : g[i] = IF i = 0 THEN first ELSE Crc32!CrcRound(g[i - 1])
      BY <1>5, <1>6, <2>1 DEF Solves
    <2> QED
      BY <1>5, <2>2 DEF Solves
  <1>8. Q(turn)
    BY <1>7
  <1> HIDE DEF turn
  <1>9. turn[0] = first /\ \A i \in 1 .. 8 : turn[i] = Crc32!CrcRound(turn[i - 1])
    <2>1. 0 \in 0 .. 8 /\ \A i \in 1 .. 8 : i \in 0 .. 8 /\ i # 0
      OBVIOUS
    <2> QED
      BY <1>8, <2>1
  <1>10. turn[8] \in A
    <2>1. turn[0] \in A
      BY <1>2, <1>9
    <2>2. \A i \in 1 .. 8 : turn[i - 1] \in A => turn[i] \in A
      BY <1>3, <1>9 DEF A
    <2>3. turn[1] \in A /\ turn[2] \in A /\ turn[3] \in A /\ turn[4] \in A
      BY <2>1, <2>2
    <2> QED
      BY <2>2, <2>3
  <1> QED
    BY <1>1, <1>9, <1>10 DEF Turns32, first, A

\* Its outer loop.
Register32(bytes, crc) ==
  /\ crc[0] = 0 .. 31
  /\ \A i \in 1 .. Len(bytes) : /\ crc[i - 1] \in SUBSET Int
                                /\ crc[i] = Crc32!CrcByte(crc[i - 1], bytes[i])

\* The outer loop takes the bytes in order, and the register is inverted at the end.
LEMMA OuterLoop32 ==
  ASSUME NEW bytes \in Seq(0 .. 255)
  PROVE  \E crc : /\ Register32(bytes, crc)
                  /\ Crc32!CrcBits(bytes) = (0 .. 31) \ crc[Len(bytes)]
  <1> DEFINE A == SUBSET Int
             n == Len(bytes)
             ones == 0 .. Crc32!WordBits - 1
             Q(g) == g = [i \in 0 .. n |-> IF i = 0 THEN ones
                                           ELSE Crc32!CrcByte(g[i - 1], bytes[i])]
             crc == CHOOSE g : Q(g)
             step == [p \in Nat \X A |-> Crc32!CrcByte(p[2], bytes[p[1]])]
  <1>1. Crc32!CrcBits(bytes) = ones \ crc[n]
    BY DEF Crc32!CrcBits
  <1>2. n \in Nat /\ ones \in A /\ ones = 0 .. 31
    BY LenProperties DEF Crc32!WordBits
  <1>3. /\ step \in [Nat \X A -> A]
        /\ \A i \in Nat, c \in A : step[<<i, c>>] = Crc32!CrcByte(c, bytes[i])
    <2>1. \A c \in A : \A byte : Crc32!CrcByte(c, byte) \in A
      BY InnerLoop32
    <2> QED
      BY <2>1
  <1> HIDE DEF step, A, ones, n
  <1>4. PICK g : Solves(A, ones, step, n, g)
    BY <1>2, <1>3, RecursionExists DEF IsStep
  <1>5. ASSUME NEW i \in 1 .. n
        PROVE  g[i - 1] \in A /\ g[i] = Crc32!CrcByte(g[i - 1], bytes[i])
    <2>1. i - 1 \in 0 .. n /\ i \in Nat
      BY <1>2
    <2>2. g[i - 1] \in A
      BY <1>4, <2>1 DEF Solves
    <2> QED
      BY <1>3, <1>4, <2>1, <2>2 DEF Solves
  <1>6. Q(g)
    <2>1. \A i \in 0 .. n : i = 0 \/ i \in 1 .. n
      BY <1>2
    <2>2. \A i \in 0 .. n : g[i] = IF i = 0 THEN ones ELSE Crc32!CrcByte(g[i - 1], bytes[i])
      BY <1>4, <1>5, <2>1 DEF Solves
    <2> QED
      BY <1>4, <2>2 DEF Solves
  <1>7. Q(crc)
    BY <1>6
  <1> HIDE DEF crc
  <1>8. crc[0] = ones /\ \A i \in 1 .. n : crc[i] = Crc32!CrcByte(crc[i - 1], bytes[i])
    <2>1. 0 \in 0 .. n /\ \A i \in 1 .. n : i \in 0 .. n /\ i # 0
      BY <1>2
    <2> QED
      BY <1>7, <2>1
  <1> DEFINE T == {i \in Nat : i <= n => crc[i] \in A}
  <1>9. T = Nat
    <2>1. T \in SUBSET Nat /\ 0 \in T
      BY <1>2, <1>8
    <2>2. ASSUME NEW i \in T PROVE i + 1 \in T
      <3>1. i \in Nat /\ (i <= n => crc[i] \in A)
        OBVIOUS
      <3>2. ASSUME i + 1 <= n PROVE crc[i + 1] \in A
        <4>1. i + 1 \in 1 .. n /\ (i + 1) - 1 = i /\ crc[i] \in A
          BY <1>2, <3>1, <3>2
        <4>2. crc[i + 1] = Crc32!CrcByte(crc[i], bytes[i + 1])
          BY <1>8, <4>1
        <4> QED
          BY <4>1, <4>2, InnerLoop32 DEF A
      <3> QED
        BY <3>1, <3>2
    <2> HIDE DEF T
    <2> QED
      BY <2>1, <2>2, Induction
  <1>10. \A i \in 1 .. n : crc[i - 1] \in A
    <2>1. \A i \in 1 .. n : i - 1 \in T /\ i - 1 <= n
      BY <1>2, <1>9
    <2> QED
      BY <2>1
  <1> QED
    BY <1>1, <1>2, <1>8, <1>10 DEF Register32, A, n

\* The division, step by step.
Divides(dividend, degree, rest) ==
  /\ rest[0] = dividend
  /\ \A i \in 1 .. degree - 32 : rest[i] = Subtracted(rest[i - 1], degree - i)

\* The division goes down from the highest exponent, one at a time.
LEMMA DivisionLoop ==
  ASSUME NEW dividend \in SUBSET Int, NEW degree \in Nat, degree >= 32
  PROVE  \E rest : /\ Divides(dividend, degree, rest)
                   /\ Remainder(dividend, degree) = rest[degree - 32]
  <1> DEFINE A == SUBSET Int
             n == degree - 32
             Q(g) == g = [i \in 0 .. degree - 32 |->
                            IF i = 0 THEN dividend ELSE Subtracted(g[i - 1], degree - i)]
             rest == CHOOSE g : Q(g)
             step == [p \in Nat \X A |-> Subtracted(p[2], degree - p[1])]
  <1>1. Remainder(dividend, degree) = rest[n]
    BY DEF Remainder
  <1>2. n \in Nat /\ dividend \in A
    OBVIOUS
  <1>3. \A d \in A : \A e \in Int : Subtracted(d, e) \in A
    BY SubtractedInt
  <1>4. /\ step \in [Nat \X A -> A]
        /\ \A i \in Nat, d \in A : step[<<i, d>>] = Subtracted(d, degree - i)
    <2>1. \A p \in Nat \X A : p[2] \in A /\ degree - p[1] \in Int
      OBVIOUS
    <2>2. \A p \in Nat \X A : Subtracted(p[2], degree - p[1]) \in A
      BY <1>3, <2>1
    <2>3. \A i \in Nat, d \in A : <<i, d>> \in Nat \X A
      OBVIOUS
    <2> QED
      BY <2>2, <2>3
  <1> HIDE DEF step, A
  <1>5. PICK g : Solves(A, dividend, step, n, g)
    <2> HIDE DEF n
    <2> QED
      BY <1>2, <1>4, RecursionExists DEF IsStep
  <1>6. ASSUME NEW i \in 1 .. n PROVE g[i] = Subtracted(g[i - 1], degree - i)
    <2>1. i - 1 \in 0 .. n /\ i \in Nat
      BY <1>2
    <2>2. g[i - 1] \in A
      BY <1>5, <2>1 DEF Solves
    <2> QED
      BY <1>4, <1>5, <2>1, <2>2 DEF Solves
  <1>7. Q(g)
    <2>1. \A i \in 0 .. n : i = 0 \/ i \in 1 .. n
      BY <1>2
    <2>2. \A i \in 0 .. n : g[i] = IF i = 0 THEN dividend ELSE Subtracted(g[i - 1], degree - i)
      BY <1>5, <1>6, <2>1 DEF Solves
    <2> QED
      BY <1>5, <2>2 DEF Solves
  <1>8. Q(rest)
    BY <1>7
  <1> HIDE DEF rest
  <1>9. Divides(dividend, degree, rest)
    <2>1. 0 \in 0 .. n /\ \A i \in 1 .. n : i \in 0 .. n /\ i # 0
      BY <1>2
    <2>2. rest[0] = dividend
      BY <1>8, <2>1
    <2>3. \A i \in 1 .. n : rest[i] = Subtracted(rest[i - 1], degree - i)
      BY <1>8, <2>1
    <2> QED
      BY <2>2, <2>3 DEF Divides
  <1> QED
    BY <1>1, <1>9

\* The first k bytes of a message are in the register and t of its bits are
\* out: the rest of the division is the rest of the message (the exponents in
\* M below those of byte k) with the register, in reverse, subtracted from it.
Tracks(M, n, k, register, t, rest) ==
  \A x \in Int :
    x \in rest <=> ~ ((x \in M /\ x < 8 * n + 32 - 8 * k)
                      <=> (8 * n + 31 - t - x \in register))

\* A turn of the inner loop is a step of the division.
LEMMA TurnTracks ==
  ASSUME NEW M, NEW n \in Nat, NEW k \in Nat, NEW t \in Nat, t < 8 * k,
         NEW register \in SUBSET Int, NEW rest \in SUBSET Int,
         Tracks(M, n, k, register, t, rest)
  PROVE  Tracks(M, n, k, Crc32!CrcRound(register), t + 1,
                Subtracted(rest, 8 * n + 31 - t))
  <1> DEFINE e == 8 * n + 31 - t
             shifted == {b - 1 : b \in register \ {0}}
             low == 8 * n + 32 - 8 * k
             multiple == {e - 32 + g : g \in Generator}
  <1>1. e \in Int /\ low \in Int /\ e >= low
    OBVIOUS
  <1>2. \A x \in Int : x \in rest <=> ~ ((x \in M /\ x < low) <=> (e - x \in register))
    BY DEF Tracks
  <1>3. \A x \in Int : 8 * n + 31 - (t + 1) - x = e - 1 - x
    OBVIOUS
  <1>4. Polynomial32 \subseteq Int /\ -1 \notin Polynomial32
    BY DEF Polynomial32
  <1> HIDE DEF e, low
  <1>5. \A x \in Int : x \in multiple <=> x = e \/ e - 1 - x \in Polynomial32
    <2>1. \A g : g \in Generator <=> g = 32 \/ \E b \in Polynomial32 : g = 31 - b
      BY DEF Generator
    <2> SUFFICES ASSUME NEW x \in Int
                 PROVE  x \in multiple <=> x = e \/ e - 1 - x \in Polynomial32
      OBVIOUS
    <2>2. ASSUME x = e PROVE x \in multiple
      <3>1. 32 \in Generator /\ x = e - 32 + 32
        BY <1>1, <2>1, <2>2
      <3> QED
        BY <3>1
    <2>3. ASSUME e - 1 - x \in Polynomial32 PROVE x \in multiple
      <3>1. 31 - (e - 1 - x) \in Generator
        BY <2>1, <2>3
      <3>2. x = e - 32 + (31 - (e - 1 - x))
        BY <1>1
      <3> QED
        BY <3>1, <3>2
    <2>4. ASSUME x \in multiple PROVE x = e \/ e - 1 - x \in Polynomial32
      <3>1. PICK g \in Generator : x = e - 32 + g
        BY <2>4
      <3>2. CASE g = 32
        BY <1>1, <3>1, <3>2
      <3>3. CASE \E b \in Polynomial32 : g = 31 - b
        <4>1. PICK b \in Polynomial32 : g = 31 - b
          BY <3>3
        <4>2. b \in Int
          BY <1>4
        <4>3. e - 1 - x = b
          BY <1>1, <3>1, <4>1, <4>2
        <4> QED
          BY <4>3
      <3> QED
        BY <2>1, <3>2, <3>3
    <2> QED
      BY <2>2, <2>3, <2>4
  <1>6. \A y \in Int : y \in shifted <=> y + 1 \in register /\ y # -1
    <2> SUFFICES ASSUME NEW y \in Int
                 PROVE  y \in shifted <=> y + 1 \in register /\ y # -1
      OBVIOUS
    <2>1. ASSUME y + 1 \in register, y # -1 PROVE y \in shifted
      <3>1. y + 1 # 0 /\ y = (y + 1) - 1
        BY <2>1
      <3> QED
        BY <2>1, <3>1
    <2>2. ASSUME y \in shifted PROVE y + 1 \in register /\ y # -1
      <3>1. PICK b \in register \ {0} : y = b - 1
        BY <2>2
      <3>2. b \in Int /\ y + 1 = b
        BY <3>1
      <3> QED
        BY <3>1, <3>2
    <2> QED
      BY <2>1, <2>2
  <1>7. shifted \subseteq Int
    OBVIOUS
  <1>8. Crc32!CrcRound(register) = IF 0 \in register THEN Xor(shifted, Polynomial32) ELSE shifted
    BY DEF Crc32!CrcRound, Crc32!Xor, Xor
  <1>9. Subtracted(rest, e) = IF e \in rest THEN Xor(rest, multiple) ELSE rest
    BY DEF Subtracted
  <1> HIDE DEF shifted, multiple
  <1>10. e \in rest <=> 0 \in register
    <2>1. e - e = 0 /\ ~ (e < low)
      BY <1>1
    <2> QED
      BY <1>1, <1>2, <2>1
  <1>11. ASSUME NEW x \in Int
         PROVE  x \in Subtracted(rest, e)
                <=> ~ ((x \in M /\ x < low) <=> (e - 1 - x \in Crc32!CrcRound(register)))
    <2> DEFINE y == e - 1 - x
    <2>1. y \in Int /\ (y + 1 = e - x) /\ (x = e <=> y = -1) /\ (x = e => ~ (x < low))
      BY <1>1
    <2>2. /\ x \in rest <=> ~ ((x \in M /\ x < low) <=> (y + 1 \in register))
          /\ x \in multiple <=> x = e \/ y \in Polynomial32
          /\ y \in shifted <=> y + 1 \in register /\ y # -1
      BY <1>2, <1>5, <1>6, <2>1
    <2>3. y = -1 => y \notin Polynomial32 /\ y + 1 = 0
      BY <1>4
    <2> HIDE DEF y
    <2>4. CASE 0 \in register
      <3>1. x \in Subtracted(rest, e) <=> ~ (x \in rest <=> x \in multiple)
        BY <1>9, <1>10, <2>4 DEF Xor
      <3>2. y \in Crc32!CrcRound(register) <=> ~ (y \in shifted <=> y \in Polynomial32)
        BY <1>8, <2>4 DEF Xor
      <3>3. x \in Subtracted(rest, e)
            <=> ~ ((x \in M /\ x < low) <=> (y \in Crc32!CrcRound(register)))
        BY <2>1, <2>2, <2>3, <2>4, <3>1, <3>2
      <3> QED
        BY <3>3 DEF y
    <2>5. CASE 0 \notin register
      <3>1. Subtracted(rest, e) = rest /\ Crc32!CrcRound(register) = shifted
        BY <1>8, <1>9, <1>10, <2>5
      <3>2. x \in Subtracted(rest, e)
            <=> ~ ((x \in M /\ x < low) <=> (y \in Crc32!CrcRound(register)))
        BY <2>1, <2>2, <2>3, <2>5, <3>1
      <3> QED
        BY <3>2 DEF y
    <2> QED
      BY <2>4, <2>5
  <1> QED
    BY <1>3, <1>11 DEF Tracks, e, low

\* Byte k enters the register.
LEMMA ByteTracks ==
  ASSUME NEW M, NEW n \in Nat, NEW k \in 1 .. n,
         NEW register \in SUBSET Int, NEW ones \in SUBSET Int, NEW rest \in SUBSET Int,
         \A x \in Int :
           (x \in M /\ 8 * n + 32 - 8 * k <= x /\ x < 8 * n + 32 - 8 * (k - 1))
           <=> 8 * n + 31 - 8 * (k - 1) - x \in ones,
         Tracks(M, n, k - 1, register, 8 * (k - 1), rest)
  PROVE  Tracks(M, n, k, Xor(register, ones), 8 * (k - 1), rest)
  <1> DEFINE low == 8 * n + 32 - 8 * k
             high == 8 * n + 32 - 8 * (k - 1)
             top == 8 * n + 31 - 8 * (k - 1)
  <1>1. low \in Int /\ high \in Int /\ low < high /\ top \in Int
    OBVIOUS
  <1>2. \A x \in Int : (x \in M /\ low <= x /\ x < high) <=> top - x \in ones
    OBVIOUS
  <1>3. \A x \in Int : x \in rest <=> ~ ((x \in M /\ x < high) <=> top - x \in register)
    BY DEF Tracks
  <1> HIDE DEF low, high, top
  <1>4. \A x \in Int :
          x \in rest <=> ~ ((x \in M /\ x < low) <=> top - x \in Xor(register, ones))
    <2> SUFFICES ASSUME NEW x \in Int
                 PROVE  x \in rest
                        <=> ~ ((x \in M /\ x < low) <=> top - x \in Xor(register, ones))
      OBVIOUS
    <2>1. top - x \in Xor(register, ones)
          <=> ~ (top - x \in register <=> top - x \in ones)
      BY DEF Xor
    <2>2. (x < low => x < high) /\ (low <= x <=> ~ (x < low))
      BY <1>1
    <2> QED
      BY <1>2, <1>3, <2>1, <2>2
  <1> QED
    BY <1>4 DEF Tracks, low, top

\* The exponents of a message: bits go lowest first, 32 zeros follow.
Message(bytes) ==
  {8 * Len(bytes) + 31 - (8 * (p[1] - 1) + p[2]) :
     p \in {p \in (DOMAIN bytes) \X (0 .. 7) : (bytes[p[1]] \div Pow2[p[2]]) % 2 = 1}}

\* The bits of a byte stand next to each other in the message, lowest first.
LEMMA MessageBits ==
  ASSUME NEW bytes \in Seq(0 .. 255)
  PROVE  /\ Message(bytes) \subseteq 32 .. 8 * Len(bytes) + 31
         /\ \A k \in 1 .. Len(bytes) : \A x \in Int :
              (/\ x \in Message(bytes) /\ 8 * Len(bytes) + 32 - 8 * k <= x
               /\ x < 8 * Len(bytes) + 32 - 8 * (k - 1))
              <=> 8 * Len(bytes) + 31 - 8 * (k - 1) - x \in Crc32!Ones(bytes[k])
  <1> DEFINE n == Len(bytes)
             One(i, b) == (bytes[i] \div Pow2[b]) % 2 = 1
             M == Message(bytes)
  <1>1. n \in Nat /\ DOMAIN bytes = 1 .. n
    BY LenProperties
  <1>2. \A x : x \in M <=> \E i \in 1 .. n, b \in 0 .. 7 :
                             One(i, b) /\ x = 8 * n + 31 - (8 * (i - 1) + b)
    <2> SUFFICES ASSUME NEW x
                 PROVE  x \in M <=> \E i \in 1 .. n, b \in 0 .. 7 :
                                      One(i, b) /\ x = 8 * n + 31 - (8 * (i - 1) + b)
      OBVIOUS
    <2>1. ASSUME x \in M
          PROVE  \E i \in 1 .. n, b \in 0 .. 7 :
                   One(i, b) /\ x = 8 * n + 31 - (8 * (i - 1) + b)
      <3>1. PICK p \in (1 .. n) \X (0 .. 7) :
                   One(p[1], p[2]) /\ x = 8 * n + 31 - (8 * (p[1] - 1) + p[2])
        BY <1>1, <2>1 DEF Message
      <3> QED
        BY <3>1
    <2>2. ASSUME NEW i \in 1 .. n, NEW b \in 0 .. 7, One(i, b),
                 x = 8 * n + 31 - (8 * (i - 1) + b)
          PROVE  x \in M
      <3> DEFINE p == <<i, b>>
      <3>1. p \in (DOMAIN bytes) \X (0 .. 7) /\ p[1] = i /\ p[2] = b
        BY <1>1
      <3> HIDE DEF p
      <3>2. (bytes[p[1]] \div Pow2[p[2]]) % 2 = 1
        BY <2>2, <3>1
      <3>3. x = 8 * Len(bytes) + 31 - (8 * (p[1] - 1) + p[2])
        BY <2>2, <3>1
      <3> QED
        BY <3>1, <3>2, <3>3 DEF Message
    <2> QED
      BY <2>1, <2>2
  <1>3. \A k \in 1 .. n : \A b : b \in Crc32!Ones(bytes[k]) <=> b \in 0 .. 7 /\ One(k, b)
    BY DEF Crc32!Ones, Crc32!Pow2, Pow2
  <1> HIDE DEF n, One, M
  <1>4. M \subseteq 32 .. 8 * n + 31
    <2> SUFFICES ASSUME NEW x \in M PROVE x \in 32 .. 8 * n + 31
      OBVIOUS
    <2>1. PICK i \in 1 .. n, b \in 0 .. 7 : x = 8 * n + 31 - (8 * (i - 1) + b)
      BY <1>2
    <2> QED
      BY <1>1, <2>1
  <1>5. ASSUME NEW k \in 1 .. n, NEW x \in Int
        PROVE  (x \in M /\ 8 * n + 32 - 8 * k <= x /\ x < 8 * n + 32 - 8 * (k - 1))
               <=> 8 * n + 31 - 8 * (k - 1) - x \in Crc32!Ones(bytes[k])
    <2>1. ASSUME x \in M, 8 * n + 32 - 8 * k <= x, x < 8 * n + 32 - 8 * (k - 1)
          PROVE  8 * n + 31 - 8 * (k - 1) - x \in Crc32!Ones(bytes[k])
      <3>1. PICK i \in 1 .. n, b \in 0 .. 7 :
                   One(i, b) /\ x = 8 * n + 31 - (8 * (i - 1) + b)
        BY <1>2, <2>1
      <3>2. i = k
        BY <1>1, <2>1, <3>1
      <3>3. 8 * n + 31 - 8 * (k - 1) - x = b
        BY <1>1, <3>1, <3>2
      <3> QED
        BY <1>3, <3>1, <3>2, <3>3
    <2>2. ASSUME 8 * n + 31 - 8 * (k - 1) - x \in Crc32!Ones(bytes[k])
          PROVE  x \in M /\ 8 * n + 32 - 8 * k <= x /\ x < 8 * n + 32 - 8 * (k - 1)
      <3> DEFINE b == 8 * n + 31 - 8 * (k - 1) - x
      <3>1. b \in 0 .. 7 /\ One(k, b)
        BY <1>3, <2>2
      <3>2. x = 8 * n + 31 - (8 * (k - 1) + b)
        BY <1>1
      <3> HIDE DEF b
      <3>3. x \in M
        BY <1>2, <3>1, <3>2
      <3>4. 8 * n + 32 - 8 * k <= x /\ x < 8 * n + 32 - 8 * (k - 1)
        BY <1>1, <3>1, <3>2
      <3> QED
        BY <3>3, <3>4
    <2> QED
      BY <2>1, <2>2
  <1> QED
    BY <1>4, <1>5 DEF n, M

\* After each byte the register holds the rest of the division.
LEMMA RegisterTracks ==
  ASSUME NEW bytes \in Seq(0 .. 255), NEW crc, NEW rest,
         Register32(bytes, crc),
         Divides(Xor(Message(bytes), 8 * Len(bytes) .. 8 * Len(bytes) + 31),
                 8 * Len(bytes) + 32, rest)
  PROVE  Tracks(Message(bytes), Len(bytes), Len(bytes), crc[Len(bytes)],
                8 * Len(bytes), rest[8 * Len(bytes)])
  <1> DEFINE n == Len(bytes)
             M == Message(bytes)
             At(k, register, t) ==
               /\ register \in SUBSET Int /\ rest[t] \in SUBSET Int
               /\ Tracks(M, n, k, register, t, rest[t])
  <1>1. n \in Nat
    BY LenProperties
  <1>2. M \subseteq 32 .. 8 * n + 31
    BY MessageBits
  <1>3. \A k \in 1 .. n : \A x \in Int :
          (x \in M /\ 8 * n + 32 - 8 * k <= x /\ x < 8 * n + 32 - 8 * (k - 1))
          <=> 8 * n + 31 - 8 * (k - 1) - x \in Crc32!Ones(bytes[k])
    BY MessageBits
  <1>4. /\ rest[0] = Xor(M, 8 * n .. 8 * n + 31)
        /\ \A i \in 1 .. 8 * n : rest[i] = Subtracted(rest[i - 1], 8 * n + 32 - i)
    <2>1. (8 * n + 32) - 32 = 8 * n
      BY <1>1
    <2> QED
      BY <2>1 DEF Divides
  <1>5. /\ crc[0] = 0 .. 31
        /\ \A i \in 1 .. n : crc[i] = Crc32!CrcByte(crc[i - 1], bytes[i])
    BY DEF Register32
  <1> HIDE DEF n, M
  <1>6. At(0, crc[0], 0)
    <2>1. \A x \in Int : (x \in M => x < 8 * n + 32) /\ 8 * n + 32 - 8 * 0 = 8 * n + 32
      BY <1>1, <1>2
    <2>2. \A x \in Int : x \in 8 * n .. 8 * n + 31 <=> 8 * n + 31 - 0 - x \in 0 .. 31
      BY <1>1
    <2>3. \A x \in Int : x \in rest[0] <=> ~ (x \in M <=> x \in 8 * n .. 8 * n + 31)
      BY <1>4 DEF Xor
    <2>4. Tracks(M, n, 0, crc[0], 0, rest[0])
      BY <1>5, <2>1, <2>2, <2>3 DEF Tracks
    <2>5. M \subseteq Int /\ 8 * n .. 8 * n + 31 \subseteq Int
      BY <1>1, <1>2
    <2>6. rest[0] \in SUBSET Int
      BY <1>4, <2>5 DEF Xor
    <2>7. crc[0] \in SUBSET Int
      BY <1>5
    <2> QED
      BY <2>4, <2>6, <2>7
  <1>7. ASSUME NEW k \in 1 .. n, At(k - 1, crc[k - 1], 8 * (k - 1))
        PROVE  At(k, crc[k], 8 * k)
    <2> DEFINE ones == Crc32!Ones(bytes[k])
    <2>1. crc[k - 1] \in SUBSET Int
      BY <1>7
    <2>2. PICK turn : Turns32(crc[k - 1], bytes[k], turn)
                      /\ Crc32!CrcByte(crc[k - 1], bytes[k]) = turn[8]
      BY <2>1, InnerLoop32
    <2>3. crc[k] = turn[8]
      BY <1>5, <2>2
    <2>4. ones \in SUBSET Int
      BY DEF Crc32!Ones
    <2>5. \A x \in Int :
            (x \in M /\ 8 * n + 32 - 8 * k <= x /\ x < 8 * n + 32 - 8 * (k - 1))
            <=> 8 * n + 31 - 8 * (k - 1) - x \in ones
      BY <1>3
    <2>6. turn[0] = Xor(crc[k - 1], ones)
      BY <2>2 DEF Turns32
    <2> HIDE DEF ones
    <2>7. At(k, turn[0], 8 * (k - 1) + 0)
      <3>1. Tracks(M, n, k, Xor(crc[k - 1], ones), 8 * (k - 1), rest[8 * (k - 1)])
        BY <1>1, <1>7, <2>4, <2>5, ByteTracks
      <3>2. 8 * (k - 1) + 0 = 8 * (k - 1)
        BY <1>1
      <3>3. turn[0] \in SUBSET Int
        BY <2>1, <2>4, <2>6 DEF Xor
      <3> QED
        BY <1>7, <2>6, <3>1, <3>2, <3>3
    <2>8. ASSUME NEW b \in 0 .. 7, At(k, turn[b], 8 * (k - 1) + b)
          PROVE  At(k, turn[b + 1], 8 * (k - 1) + (b + 1))
      <3> DEFINE t == 8 * (k - 1) + b
      <3>1. t \in Nat /\ t < 8 * k /\ t + 1 \in 1 .. 8 * n /\ (t + 1) - 1 = t
            /\ 8 * n + 32 - (t + 1) = 8 * n + 31 - t /\ 8 * n + 31 - t \in Int
            /\ k \in Nat /\ 8 * (k - 1) + (b + 1) = t + 1
        BY <1>1
      <3>2. /\ turn[b] \in SUBSET Int /\ rest[t] \in SUBSET Int
            /\ Tracks(M, n, k, turn[b], t, rest[t])
        BY <2>8
      <3> HIDE DEF t
      <3>3. turn[b + 1] = Crc32!CrcRound(turn[b])
        <4>1. b + 1 \in 1 .. 8 /\ (b + 1) - 1 = b
          OBVIOUS
        <4> QED
          BY <2>2, <4>1 DEF Turns32
      <3>4. rest[t + 1] = Subtracted(rest[t], 8 * n + 31 - t)
        BY <1>4, <3>1
      <3>5. Tracks(M, n, k, turn[b + 1], t + 1, rest[t + 1])
        <4>1. n \in Nat /\ k \in Nat /\ t \in Nat /\ t < 8 * k
          BY <1>1, <3>1
        <4>2. Tracks(M, n, k, Crc32!CrcRound(turn[b]), t + 1,
                     Subtracted(rest[t], 8 * n + 31 - t))
          BY <3>2, <4>1, TurnTracks
        <4> QED
          BY <3>3, <3>4, <4>2
      <3>6. turn[b + 1] \in SUBSET Int
        BY <3>2, <3>3, RoundInt
      <3>7. rest[t + 1] \in SUBSET Int
        <4>1. 8 * n + 31 - t \in Int
          BY <3>1
        <4>2. Subtracted(rest[t], 8 * n + 31 - t) \in SUBSET Int
          BY <3>2, <4>1, SubtractedInt
        <4> QED
          BY <3>4, <4>2
      <3> QED
        BY <3>1, <3>5, <3>6, <3>7
    <2>9. At(k, turn[8], 8 * (k - 1) + 8)
      <3> DEFINE P(b) == At(k, turn[b], 8 * (k - 1) + b)
      <3>1. P(0) /\ \A b \in 0 .. 7 : P(b) => P(b + 1)
        BY <2>7, <2>8
      <3> HIDE DEF P
      <3>2. P(0 + 1) /\ (P(1) => P(1 + 1)) /\ (P(2) => P(2 + 1)) /\ (P(3) => P(3 + 1))
        BY <3>1
      <3>3. (P(4) => P(4 + 1)) /\ (P(5) => P(5 + 1)) /\ (P(6) => P(6 + 1))
            /\ (P(7) => P(7 + 1))
        BY <3>1
      <3>4. P(8)
        BY <3>2, <3>3
      <3> QED
        BY <3>4 DEF P
    <2>10. 8 * (k - 1) + 8 = 8 * k
      BY <1>1
    <2> QED
      BY <2>3, <2>9, <2>10
  <1> HIDE DEF At
  <1> DEFINE S == {k \in Nat : k <= n => At(k, crc[k], 8 * k)}
  <1>8. S = Nat
    <2>1. S \in SUBSET Nat /\ 0 \in S
      BY <1>6
    <2>2. ASSUME NEW k \in S PROVE k + 1 \in S
      <3>1. k \in Nat /\ (k <= n => At(k, crc[k], 8 * k))
        OBVIOUS
      <3>2. ASSUME k + 1 <= n PROVE At(k + 1, crc[k + 1], 8 * (k + 1))
        <4>1. k + 1 \in 1 .. n /\ (k + 1) - 1 = k /\ k <= n
          BY <1>1, <3>1, <3>2
        <4> QED
          BY <1>7, <3>1, <4>1
      <3> QED
        BY <3>1, <3>2
    <2> HIDE DEF S
    <2> QED
      BY <2>1, <2>2, Induction
  <1>9. At(n, crc[n], 8 * n)
    BY <1>1, <1>8
  <1> QED
    BY <1>9 DEF At, n, M

\* What the program computes is the remainder.
LEMMA RegisterIsRemainder ==
  ASSUME NEW bytes \in Seq(0 .. 255)
  PROVE  Crc32!CrcBits(bytes) = CrcByDivision(bytes)
  <1> DEFINE n == Len(bytes)
             M == Message(bytes)
             dividend == Xor(M, 8 * n .. 8 * n + 31)
             degree == 8 * n + 32
  <1>1. n \in Nat
    BY LenProperties
  <1>2. M \subseteq 32 .. 8 * n + 31
    BY MessageBits
  <1>3. PICK crc : Register32(bytes, crc)
                   /\ Crc32!CrcBits(bytes) = (0 .. 31) \ crc[n]
    BY OuterLoop32
  <1>4. CrcByDivision(bytes) = {b \in 0 .. 31 : 31 - b \notin Remainder(dividend, degree)}
    BY DEF CrcByDivision, Message
  <1>5. PICK rest : Divides(dividend, degree, rest)
                    /\ Remainder(dividend, degree) = rest[8 * n]
    <2> HIDE DEF n, M
    <2>1. M \subseteq Int /\ 8 * n .. 8 * n + 31 \subseteq Int
      BY <1>1, <1>2
    <2>2. dividend \in SUBSET Int
      BY <2>1 DEF Xor
    <2>3. degree \in Nat /\ degree >= 32 /\ degree - 32 = 8 * n
      BY <1>1
    <2> HIDE DEF dividend, degree
    <2>4. \E rest : /\ Divides(dividend, degree, rest)
                    /\ Remainder(dividend, degree) = rest[degree - 32]
      BY <2>2, <2>3, DivisionLoop
    <2> QED
      BY <2>3, <2>4
  <1>6. Tracks(M, n, n, crc[n], 8 * n, rest[8 * n])
    BY <1>3, <1>5, RegisterTracks
  <1> HIDE DEF n, M
  <1>7. \A b \in 0 .. 31 : 31 - b \in rest[8 * n] <=> b \in crc[n]
    <2> SUFFICES ASSUME NEW b \in 0 .. 31
                 PROVE  31 - b \in rest[8 * n] <=> b \in crc[n]
      OBVIOUS
    <2>1. /\ 31 - b \in Int /\ 31 - b < 32
          /\ 8 * n + 32 - 8 * n = 32
          /\ 8 * n + 31 - 8 * n - (31 - b) = b
      BY <1>1
    <2>2. ~ (31 - b \in M /\ 31 - b < 8 * n + 32 - 8 * n)
      BY <1>2, <2>1
    <2> QED
      BY <1>6, <2>1, <2>2 DEF Tracks
  <1> HIDE DEF dividend, degree
  <1>8. \A b : b \in Crc32!CrcBits(bytes) <=> b \in 0 .. 31 /\ b \notin crc[n]
    BY <1>3
  <1>9. \A b : b \in CrcByDivision(bytes) <=> b \in 0 .. 31 /\ 31 - b \notin rest[8 * n]
    BY <1>4, <1>5
  <1>10. \A b : b \in Crc32!CrcBits(bytes) <=> b \in CrcByDivision(bytes)
    BY <1>7, <1>8, <1>9
  <1> QED
    BY <1>10

\* compute_crc32 is CRC-32 for every payload: what it shifts through its
\* register, one bit at a time, is the division of the message.
THEOREM CrcIsPolynomialDivisionHolds == Spec => []CrcIsPolynomialDivision
  <1>1. Init => CrcIsPolynomialDivision
    BY NothingCalled DEF CrcIsPolynomialDivision
  <1>2. CrcIsPolynomialDivision /\ [Next]_call => CrcIsPolynomialDivision'
    <2> SUFFICES ASSUME CrcIsPolynomialDivision, Next \/ UNCHANGED call
                 PROVE  CrcIsPolynomialDivision'
      OBVIOUS
    <2>1. CASE Others("crc")
      BY <2>1 DEF Others, CrcIsPolynomialDivision
    <2>2. CASE CallCrc
      <3>1. PICK bytes \in Payloads : Called("crc", bytes, Crc32!CrcBits(bytes))
        BY <2>2 DEF CallCrc
      <3>2. bytes \in Seq(0 .. 255)
        BY InputsAssumption
      <3>3. Crc32!CrcBits(bytes) = CrcByDivision(bytes)
        BY <3>2, RegisterIsRemainder
      <3>4. call'.in = bytes /\ call'.out = CrcByDivision(bytes)
        BY <3>1, <3>3 DEF Called
      <3> QED
        BY <3>4 DEF CrcIsPolynomialDivision
    <2> QED
      BY <2>1, <2>2, NextCall
  <1> QED
    BY <1>1, <1>2, PTL DEF Spec

-----------------------------------------------------------------------------
(* The summary of the latencies.  *)

\* std::accumulate, sum by sum.
Sums(samples, sum) ==
  /\ sum[0] = 0
  /\ \A i \in 1 .. Len(samples) : /\ sum[i - 1] \in Int
                                  /\ sum[i] = sum[i - 1] + samples[i]

\* A total is reached sum by sum.
LEMMA TotalLoop ==
  ASSUME NEW samples \in Seq(Int)
  PROVE  /\ Total(samples) \in Int
         /\ \E sum : Sums(samples, sum) /\ Total(samples) = sum[Len(samples)]
  <1> DEFINE n == Len(samples)
             Q(g) == g = [i \in 0 .. n |-> IF i = 0 THEN 0 ELSE g[i - 1] + samples[i]]
             sum == CHOOSE g : Q(g)
             step == [p \in Nat \X Int |-> IF p[1] \in 1 .. n THEN p[2] + samples[p[1]] ELSE 0]
  <1>1. Total(samples) = sum[n]
    BY DEF Total
  <1>2. n \in Nat /\ \A i \in 1 .. n : samples[i] \in Int
    BY LenProperties, ElementOfSeq
  <1>3. /\ step \in [Nat \X Int -> Int]
        /\ \A i \in 1 .. n : \A x \in Int : step[<<i, x>>] = x + samples[i]
    <2>1. \A p \in Nat \X Int :
            (IF p[1] \in 1 .. n THEN p[2] + samples[p[1]] ELSE 0) \in Int
      BY <1>2
    <2>2. \A i \in 1 .. n : \A x \in Int : <<i, x>> \in Nat \X Int
      BY <1>2
    <2> HIDE DEF n
    <2> QED
      BY <2>1, <2>2
  <1> HIDE DEF step, n
  <1>4. PICK g : Solves(Int, 0, step, n, g)
    <2> DEFINE A == Int
    <2>1. 0 \in A /\ step \in [Nat \X A -> A] /\ n \in Nat
      BY <1>2, <1>3
    <2> HIDE DEF A
    <2>2. \E g : Solves(A, 0, step, n, g)
      BY <2>1, RecursionExists DEF IsStep
    <2> QED
      BY <2>2 DEF A
  <1>5. ASSUME NEW i \in 1 .. n PROVE g[i - 1] \in Int /\ g[i] = g[i - 1] + samples[i]
    <2>1. i - 1 \in 0 .. n
      BY <1>2
    <2>2. g[i - 1] \in Int
      BY <1>4, <2>1 DEF Solves
    <2> QED
      BY <1>3, <1>4, <2>2 DEF Solves
  <1>6. Q(g)
    <2>1. \A i \in 0 .. n : i = 0 \/ i \in 1 .. n
      BY <1>2
    <2>2. \A i \in 0 .. n : g[i] = IF i = 0 THEN 0 ELSE g[i - 1] + samples[i]
      BY <1>4, <1>5, <2>1 DEF Solves
    <2> QED
      BY <1>4, <2>2 DEF Solves
  <1>7. Q(sum)
    BY <1>6
  <1> HIDE DEF sum
  <1>8. \A i \in 0 .. n : sum[i] = IF i = 0 THEN 0 ELSE sum[i - 1] + samples[i]
    BY <1>7
  <1> DEFINE T == {i \in Nat : i <= n => sum[i] \in Int}
  <1>9. T = Nat
    <2>1. T \in SUBSET Nat /\ 0 \in T
      BY <1>2, <1>8
    <2>2. ASSUME NEW i \in T PROVE i + 1 \in T
      <3>1. ASSUME i + 1 <= n PROVE sum[i + 1] \in Int
        <4>1. i + 1 \in 0 .. n /\ i + 1 # 0 /\ (i + 1) - 1 = i /\ i + 1 \in 1 .. n /\ i <= n
          BY <1>2, <3>1
        <4>2. sum[i + 1] = sum[i] + samples[i + 1]
          BY <1>8, <4>1
        <4> QED
          BY <1>2, <4>1, <4>2
      <3> QED
        BY <3>1
    <2> HIDE DEF T
    <2> QED
      BY <2>1, <2>2, Induction
  <1>10. Sums(samples, sum)
    <2>1. 0 \in 0 .. n /\ \A i \in 1 .. n : i \in 0 .. n /\ i # 0 /\ i - 1 \in T /\ i - 1 <= n
      BY <1>2, <1>9
    <2> HIDE DEF T
    <2>2. \A i \in 1 .. n : sum[i - 1] \in Int
      BY <2>1 DEF T
    <2> QED
      BY <1>8, <2>1, <2>2 DEF Sums, n
  <1>11. sum[n] \in Int
    <2>1. n \in T /\ n <= n
      BY <1>2, <1>9
    <2> QED
      BY <2>1
  <1> QED
    BY <1>1, <1>10, <1>11 DEF n

\* Two loops over the same samples have the same sums.
SameTo(n, s, t) ==
  /\ n \in Nat /\ n <= Len(s) /\ n <= Len(t)
  /\ \A i \in 1 .. n : s[i] = t[i]

\* Sequences that agree up to n have the same sum up to n.
LEMMA SumsAgree ==
  ASSUME NEW s \in Seq(Int), NEW t \in Seq(Int), NEW f, NEW g, NEW n,
         Sums(s, f), Sums(t, g), SameTo(n, s, t)
  PROVE  f[n] = g[n]
  <1>1. Len(s) \in Nat /\ Len(t) \in Nat
    BY LenProperties
  <1>2. n \in Nat /\ n <= Len(s) /\ n <= Len(t) /\ \A i \in 1 .. n : s[i] = t[i]
    BY DEF SameTo
  <1> DEFINE T == {i \in Nat : i <= n => f[i] = g[i]}
  <1>3. T \in SUBSET Nat /\ 0 \in T
    BY DEF Sums
  <1>4. ASSUME NEW i \in T PROVE i + 1 \in T
    <2>1. ASSUME i + 1 <= n PROVE f[i + 1] = g[i + 1]
      <3>1. /\ i <= n /\ i + 1 \in 1 .. n /\ (i + 1) - 1 = i
            /\ i + 1 \in 1 .. Len(s) /\ i + 1 \in 1 .. Len(t)
        BY <1>1, <1>2, <2>1
      <3>2. f[i + 1] = f[i] + s[i + 1] /\ g[i + 1] = g[i] + t[i + 1]
        BY <3>1 DEF Sums
      <3> QED
        BY <1>2, <3>1, <3>2
    <2> QED
      BY <2>1
  <1> HIDE DEF T
  <1>5. T = Nat
    BY <1>3, <1>4, Induction
  <1>6. n \in T /\ n <= n
    BY <1>5, <1>2
  <1> QED
    BY <1>6 DEF T

\* One sample more.
LEMMA TotalStep ==
  ASSUME NEW s \in Seq(Int), NEW t \in Seq(Int), Len(t) = Len(s) + 1,
         \A i \in 1 .. Len(s) : t[i] = s[i]
  PROVE  Total(t) = Total(s) + t[Len(s) + 1]
  <1> DEFINE n == Len(s)
  <1>1. n \in Nat
    BY LenProperties
  <1>2. PICK f : Sums(s, f) /\ Total(s) = f[n]
    BY TotalLoop
  <1>3. PICK g : Sums(t, g) /\ Total(t) = g[n + 1]
    BY TotalLoop
  <1>4. n <= Len(t) /\ n <= Len(s)
    BY <1>1
  <1>5. f[n] = g[n]
    <2>1. SameTo(n, s, t)
      BY <1>1, <1>4 DEF SameTo
    <2> QED
      BY <1>2, <1>3, <2>1, SumsAgree
  <1>6. n + 1 \in 1 .. Len(t) /\ (n + 1) - 1 = n
    BY <1>1
  <1>7. g[n + 1] = g[n] + t[n + 1]
    BY <1>3, <1>6 DEF Sums
  <1> QED
    BY <1>2, <1>3, <1>5, <1>7

\* Nothing adds up to 0.
LEMMA TotalOfNone ==
  ASSUME NEW s \in Seq(Int), Len(s) = 0
  PROVE  Total(s) = 0
  <1>1. PICK f : Sums(s, f) /\ Total(s) = f[Len(s)]
    BY TotalLoop
  <1> QED
    BY <1>1 DEF Sums

\* One sample more, in the middle.
LEMMA TotalInserted ==
  ASSUME NEW s \in Seq(Int), NEW t \in Seq(Int), NEW k \in 0 .. Len(s), NEW x \in Int,
         Len(t) = Len(s) + 1,
         \A i \in 1 .. Len(t) : t[i] = IF i <= k THEN s[i] ELSE IF i = k + 1 THEN x ELSE s[i - 1]
  PROVE  Total(t) = Total(s) + x
  <1> DEFINE n == Len(s)
  <1>1. n \in Nat /\ Len(t) = n + 1 /\ k \in Nat /\ k <= n /\ \A i \in 1 .. n : s[i] \in Int
    BY LenProperties, ElementOfSeq
  <1>2. PICK f : Sums(s, f) /\ Total(s) = f[n]
    BY TotalLoop
  <1>3. PICK g : Sums(t, g) /\ Total(t) = g[n + 1]
    BY TotalLoop
  <1>4. f[k] = g[k]
    <2>1. k <= Len(s) /\ k <= Len(t)
      BY <1>1
    <2>2. \A i \in 1 .. k : i \in 1 .. Len(t) /\ i <= k
      BY <1>1
    <2>3. \A i \in 1 .. k : s[i] = t[i]
      BY <2>2
    <2>4. SameTo(k, s, t)
      BY <1>1, <2>1, <2>3 DEF SameTo
    <2> QED
      BY <1>2, <1>3, <2>4, SumsAgree
  <1>5. \A i \in 1 .. n : f[i - 1] \in Int /\ f[i] = f[i - 1] + s[i]
    BY <1>2 DEF Sums
  <1>6. \A i \in 1 .. n + 1 : g[i - 1] \in Int /\ g[i] = g[i - 1] + t[i]
    BY <1>1, <1>3 DEF Sums
  <1> DEFINE T == {i \in Nat : k <= i /\ i <= n => g[i + 1] = f[i] + x /\ f[i] \in Int}
  <1> HIDE DEF n
  <1>7. f[k] \in Int
    <2>1. k + 1 \in 1 .. n + 1 /\ (k + 1) - 1 = k
      BY <1>1
    <2> QED
      BY <1>4, <1>6, <2>1
  <1>8. g[k + 1] = f[k] + x
    <2>1. k + 1 \in 1 .. n + 1 /\ (k + 1) - 1 = k /\ ~ (k + 1 <= k)
      BY <1>1
    <2>2. t[k + 1] = x
      BY <1>1, <2>1
    <2> QED
      BY <1>4, <1>6, <2>1, <2>2
  <1>9. 0 \in T
    <2>1. k <= 0 => k = 0
      BY <1>1
    <2> QED
      BY <1>7, <1>8, <2>1
  <1>10. ASSUME NEW i \in T PROVE i + 1 \in T
    <2>1. i \in Nat /\ (k <= i /\ i <= n => g[i + 1] = f[i] + x /\ f[i] \in Int)
      OBVIOUS
    <2>2. ASSUME k <= i + 1, i + 1 <= n
          PROVE  g[(i + 1) + 1] = f[i + 1] + x /\ f[i + 1] \in Int
      <3>1. CASE k = i + 1
        BY <1>7, <1>8, <3>1
      <3>2. CASE k <= i
        <4>1. /\ i + 1 \in 1 .. n /\ (i + 1) - 1 = i
              /\ (i + 1) + 1 \in 1 .. n + 1 /\ ((i + 1) + 1) - 1 = i + 1
              /\ ~ ((i + 1) + 1 <= k) /\ (i + 1) + 1 # k + 1 /\ i <= n
          BY <1>1, <2>1, <2>2, <3>2
        <4>2. f[i + 1] = f[i] + s[i + 1] /\ f[i] \in Int
          BY <1>5, <4>1
        <4>3. g[(i + 1) + 1] = g[i + 1] + t[(i + 1) + 1]
          BY <1>6, <4>1
        <4>4. t[(i + 1) + 1] = s[i + 1]
          <5> DEFINE j == (i + 1) + 1
          <5>1. j \in 1 .. Len(t) /\ ~ (j <= k) /\ j # k + 1 /\ j - 1 = i + 1
            BY <1>1, <4>1
          <5> HIDE DEF j
          <5>2. t[j] = s[j - 1]
            BY <5>1
          <5> QED
            BY <5>1, <5>2 DEF j
        <4>5. g[i + 1] = f[i] + x /\ s[i + 1] \in Int
          BY <1>1, <2>1, <3>2, <4>1
        <4>6. (f[i] + x) + s[i + 1] = (f[i] + s[i + 1]) + x /\ f[i] + s[i + 1] \in Int
          BY <4>2, <4>5
        <4>7. g[(i + 1) + 1] = (f[i] + x) + s[i + 1]
          BY <4>3, <4>4, <4>5
        <4> QED
          BY <4>2, <4>6, <4>7
      <3> QED
        BY <1>1, <2>1, <2>2, <3>1, <3>2
    <2> QED
      BY <2>1, <2>2
  <1>11. T \in SUBSET Nat
    OBVIOUS
  <1> HIDE DEF T
  <1>12. T = Nat
    BY <1>9, <1>10, <1>11, Induction
  <1>13. n \in T /\ k <= n /\ n <= n
    BY <1>1, <1>12
  <1>14. g[n + 1] = f[n] + x
    BY <1>13 DEF T
  <1> QED
    BY <1>2, <1>3, <1>14

\* t is s and one number more.
OneMore(s, t) ==
  /\ s \in Seq(Int) /\ t \in Seq(Int) /\ Len(t) = Len(s) + 1
  /\ \A i \in 1 .. Len(s) : t[i] = s[i]

\* push_back adds one element behind the others.
LEMMA Appended ==
  ASSUME NEW s \in Seq(Int), NEW x \in Int
  PROVE  OneMore(s, Append(s, x)) /\ Append(s, x)[Len(s) + 1] = x
  BY AppendProperties DEF OneMore

\* The squares of the samples, and how many samples are below a value.
Squared(s) == [i \in 1 .. Len(s) |-> s[i] * s[i]]
Below(s, v) == {i \in 1 .. Len(s) : s[i] < v}

\* The squares of samples, one for each.
LEMMA SquaredType ==
  ASSUME NEW s \in Seq(Int)
  PROVE  /\ Squared(s) \in Seq(Int) /\ Len(Squared(s)) = Len(s)
         /\ \A i \in 1 .. Len(s) : Squared(s)[i] = s[i] * s[i]
  <1>1. Len(s) \in Nat /\ \A i \in 1 .. Len(s) : s[i] \in Int
    BY LenProperties, ElementOfSeq
  <1>2. \A i \in 1 .. Len(s) : s[i] * s[i] \in Int
    BY <1>1
  <1>3. Squared(s) \in [1 .. Len(s) -> Int]
    BY <1>2 DEF Squared
  <1>4. Squared(s) \in Seq(Int) /\ Len(Squared(s)) = Len(s)
    BY <1>1, <1>3, FunctionIsSeq
  <1> QED
    BY <1>4 DEF Squared

\* With one sample more, total and total of squares grow by it and its square.
LEMMA TotalMore ==
  ASSUME NEW s, NEW t, OneMore(s, t)
  PROVE  /\ Total(t) = Total(s) + t[Len(s) + 1]
         /\ Total(Squared(t)) = Total(Squared(s)) + t[Len(s) + 1] * t[Len(s) + 1]
  <1>1. /\ s \in Seq(Int) /\ t \in Seq(Int) /\ Len(t) = Len(s) + 1
        /\ \A i \in 1 .. Len(s) : t[i] = s[i]
    BY DEF OneMore
  <1>2. Total(t) = Total(s) + t[Len(s) + 1]
    BY <1>1, TotalStep
  <1>3. Len(s) \in Nat
    BY <1>1, LenProperties
  <1>4. /\ Squared(s) \in Seq(Int) /\ Len(Squared(s)) = Len(s)
        /\ \A i \in 1 .. Len(s) : Squared(s)[i] = s[i] * s[i]
    BY <1>1, SquaredType
  <1>5. /\ Squared(t) \in Seq(Int) /\ Len(Squared(t)) = Len(s) + 1
        /\ \A i \in 1 .. Len(s) + 1 : Squared(t)[i] = t[i] * t[i]
    BY <1>1, SquaredType
  <1>6. Len(Squared(t)) = Len(Squared(s)) + 1
    BY <1>4, <1>5
  <1>7. \A i \in 1 .. Len(Squared(s)) : Squared(t)[i] = Squared(s)[i]
    <2> SUFFICES ASSUME NEW i \in 1 .. Len(s) PROVE Squared(t)[i] = Squared(s)[i]
      BY <1>4
    <2>1. i \in 1 .. Len(s) + 1
      BY <1>3
    <2>2. Squared(t)[i] = t[i] * t[i] /\ Squared(s)[i] = s[i] * s[i] /\ t[i] = s[i]
      BY <1>1, <1>4, <1>5, <2>1
    <2> QED
      BY <2>2
  <1>8. Total(Squared(t)) = Total(Squared(s)) + Squared(t)[Len(Squared(s)) + 1]
    BY <1>4, <1>5, <1>6, <1>7, TotalStep
  <1>9. Len(s) + 1 \in 1 .. Len(s) + 1
    BY <1>3
  <1>10. Squared(t)[Len(s) + 1] = t[Len(s) + 1] * t[Len(s) + 1]
    BY <1>5, <1>9
  <1>11. Squared(t)[Len(Squared(s)) + 1] = t[Len(s) + 1] * t[Len(s) + 1]
    BY <1>4, <1>10
  <1> QED
    BY <1>2, <1>8, <1>11

\* At most all samples are below a value.
LEMMA BelowCounted ==
  ASSUME NEW s \in Seq(Int), NEW v
  PROVE  IsFiniteSet(Below(s, v)) /\ Cardinality(Below(s, v)) \in 0 .. Len(s)
  <1>1. Len(s) \in Nat
    BY LenProperties
  <1>2. IsFiniteSet(1 .. Len(s)) /\ Cardinality(1 .. Len(s)) = Len(s)
    <2> DEFINE m == Len(s)
    <2> HIDE DEF m
    <2>1. 1 \in Int /\ m \in Int
      BY <1>1 DEF m
    <2>2. /\ IsFiniteSet(1 .. m)
          /\ Cardinality(1 .. m) = IF 1 > m THEN 0 ELSE m - 1 + 1
      BY <2>1, FS_Interval
    <2>3. (IF 1 > m THEN 0 ELSE m - 1 + 1) = m
      BY <1>1 DEF m
    <2> QED
      BY <2>2, <2>3 DEF m
  <1>3. Below(s, v) \in SUBSET (1 .. Len(s))
    BY DEF Below
  <1>4. IsFiniteSet(Below(s, v)) /\ Cardinality(Below(s, v)) <= Len(s)
    BY <1>2, <1>3, FS_Subset
  <1>5. Cardinality(Below(s, v)) \in Nat
    BY <1>4, FS_CardinalityType
  <1> QED
    BY <1>1, <1>4, <1>5

\* With one sample more, one more is below v if that one is.
LEMMA BelowMore ==
  ASSUME NEW s, NEW t, OneMore(s, t), NEW v \in Int
  PROVE  Cardinality(Below(t, v))
           = Cardinality(Below(s, v)) + (IF t[Len(s) + 1] < v THEN 1 ELSE 0)
  <1> DEFINE n == Len(s)
  <1>1. /\ s \in Seq(Int) /\ t \in Seq(Int) /\ Len(t) = n + 1
        /\ \A i \in 1 .. n : t[i] = s[i]
    BY DEF OneMore
  <1>2. n \in Nat
    BY <1>1, LenProperties
  <1>3. IsFiniteSet(Below(s, v)) /\ Cardinality(Below(s, v)) \in Nat
    BY <1>1, <1>2, BelowCounted
  <1>4. \A i : i \in Below(s, v) <=> i \in 1 .. n /\ s[i] < v
    BY DEF Below
  <1>5. \A i : i \in Below(t, v) <=> i \in 1 .. n + 1 /\ t[i] < v
    BY <1>1 DEF Below
  <1> HIDE DEF n
  <1>6. \A i : i \in 1 .. n + 1 <=> i \in 1 .. n \/ i = n + 1
    BY <1>2
  <1>7. n + 1 \notin 1 .. n
    BY <1>2
  <1>8. n + 1 \notin Below(s, v)
    BY <1>4, <1>7
  <1>9. CASE t[n + 1] < v
    <2>1. Below(t, v) = Below(s, v) \cup {n + 1}
      BY <1>1, <1>4, <1>5, <1>6, <1>9
    <2>2. Cardinality(Below(s, v) \cup {n + 1}) = Cardinality(Below(s, v)) + 1
      BY <1>3, <1>8, FS_AddElement
    <2> QED
      BY <1>9, <2>1, <2>2 DEF n
  <1>10. CASE ~ (t[n + 1] < v)
    <2>1. Below(t, v) = Below(s, v)
      BY <1>1, <1>4, <1>5, <1>6, <1>10
    <2> QED
      BY <1>3, <1>10, <2>1 DEF n
  <1> QED
    BY <1>9, <1>10

\* add_sample_us, sample by sample.
Keeps(values, kept) ==
  /\ kept[0] = <<>>
  /\ \A i \in 1 .. Len(values) : /\ kept[i - 1] \in Seq(Int)
                                 /\ kept[i] = add_sample_us(kept[i - 1], values[i])

\* Samples are added one after the other.
LEMMA KeptLoop ==
  ASSUME NEW values \in Seq(Int \cup {NotFinite})
  PROVE  /\ add_samples(values) \in Seq(Int)
         /\ \E kept : Keeps(values, kept) /\ add_samples(values) = kept[Len(values)]
  <1> DEFINE n == Len(values)
             A == Seq(Int)
             none == <<>>
             Q(g) == g = [i \in 0 .. n |-> IF i = 0 THEN <<>>
                                           ELSE add_sample_us(g[i - 1], values[i])]
             kept == CHOOSE g : Q(g)
             step == [p \in Nat \X A |-> IF p[1] \in 1 .. n
                                           THEN add_sample_us(p[2], values[p[1]]) ELSE none]
  <1>1. add_samples(values) = kept[n]
    BY DEF add_samples
  <1>2. n \in Nat /\ \A i \in 1 .. n : values[i] \in Int \cup {NotFinite}
    BY LenProperties, ElementOfSeq
  <1>3. none \in A
    OBVIOUS
  <1>4. ASSUME NEW s \in A, NEW i \in 1 .. n PROVE add_sample_us(s, values[i]) \in A
    <2>1. CASE values[i] \in Int
      BY <2>1, AppendProperties DEF add_sample_us
    <2>2. CASE values[i] = NotFinite
      BY <2>2 DEF add_sample_us
    <2> QED
      BY <1>2, <2>1, <2>2
  <1> HIDE DEF A, none
  <1>5. /\ step \in [Nat \X A -> A]
        /\ \A i \in 1 .. n : \A s \in A : step[<<i, s>>] = add_sample_us(s, values[i])
    <2> HIDE DEF n
    <2>1. \A p \in Nat \X A :
            (IF p[1] \in 1 .. n THEN add_sample_us(p[2], values[p[1]]) ELSE none) \in A
      <3> SUFFICES ASSUME NEW p \in Nat \X A
                   PROVE  (IF p[1] \in 1 .. n THEN add_sample_us(p[2], values[p[1]])
                           ELSE none) \in A
        OBVIOUS
      <3>1. p[2] \in A
        OBVIOUS
      <3> QED
        BY <1>3, <1>4, <3>1
    <2>2. \A i \in 1 .. n : \A s \in A : <<i, s>> \in Nat \X A
      BY <1>2
    <2> QED
      BY <2>1, <2>2
  <1> HIDE DEF step, n
  <1>6. PICK g : Solves(A, none, step, n, g)
    BY <1>2, <1>3, <1>5, RecursionExists DEF IsStep
  <1>7. ASSUME NEW i \in 1 .. n
        PROVE  g[i - 1] \in A /\ g[i] = add_sample_us(g[i - 1], values[i])
    <2>1. i - 1 \in 0 .. n
      BY <1>2
    <2>2. g[i - 1] \in A
      BY <1>6, <2>1 DEF Solves
    <2> QED
      BY <1>5, <1>6, <2>2 DEF Solves
  <1>8. Q(g)
    <2>1. \A i \in 0 .. n : i = 0 \/ i \in 1 .. n
      BY <1>2
    <2>2. \A i \in 0 .. n : g[i] = IF i = 0 THEN <<>> ELSE add_sample_us(g[i - 1], values[i])
      BY <1>6, <1>7, <2>1 DEF Solves, none
    <2> QED
      BY <1>6, <2>2 DEF Solves
  <1>9. Q(kept)
    BY <1>8
  <1> HIDE DEF kept
  <1>10. \A i \in 0 .. n : kept[i] = IF i = 0 THEN none ELSE add_sample_us(kept[i - 1], values[i])
    BY <1>9 DEF none
  <1> DEFINE T == {i \in Nat : i <= n => kept[i] \in A}
  <1>11. T = Nat
    <2>1. T \in SUBSET Nat /\ 0 \in T
      BY <1>2, <1>3, <1>10
    <2>2. ASSUME NEW i \in T PROVE i + 1 \in T
      <3>1. ASSUME i + 1 <= n PROVE kept[i + 1] \in A
        <4>1. i + 1 \in 0 .. n /\ i + 1 # 0 /\ (i + 1) - 1 = i /\ i + 1 \in 1 .. n /\ i <= n
          BY <1>2, <3>1
        <4>2. kept[i + 1] = add_sample_us(kept[i], values[i + 1])
          BY <1>10, <4>1
        <4> QED
          BY <1>4, <4>1, <4>2
      <3> QED
        BY <3>1
    <2> HIDE DEF T
    <2> QED
      BY <2>1, <2>2, Induction
  <1>12. Keeps(values, kept)
    <2>1. 0 \in 0 .. n /\ \A i \in 1 .. n : i \in 0 .. n /\ i # 0 /\ i - 1 \in T /\ i - 1 <= n
      BY <1>2, <1>11
    <2> HIDE DEF T
    <2>2. \A i \in 1 .. n : kept[i - 1] \in A
      BY <2>1 DEF T
    <2>3. kept[0] = <<>>
      BY <1>10, <2>1 DEF none
    <2>4. \A i \in 1 .. n : kept[i] = add_sample_us(kept[i - 1], values[i])
      BY <1>10, <2>1
    <2> QED
      BY <2>2, <2>3, <2>4 DEF Keeps, n, A
  <1>13. kept[n] \in A
    <2>1. n \in T /\ n <= n
      BY <1>2, <1>11
    <2> QED
      BY <2>1
  <1> QED
    BY <1>1, <1>12, <1>13 DEF n, A

\* std::sort, value by value.
Sorts(samples, sorted) ==
  /\ sorted[0] = <<>>
  /\ \A i \in 1 .. Len(samples) : sorted[i] = Inserted(sorted[i - 1], samples[i])

\* A value is inserted behind all those that do not exceed it.
LEMMA InsertedAt ==
  ASSUME NEW s \in Seq(Int), NEW x \in Int
  PROVE  \E k \in 0 .. Len(s) :
           /\ k = Cardinality({i \in 1 .. Len(s) : s[i] <= x})
           /\ Inserted(s, x) \in Seq(Int) /\ Len(Inserted(s, x)) = Len(s) + 1
           /\ \A i \in 1 .. Len(s) + 1 :
                Inserted(s, x)[i] = IF i <= k THEN s[i] ELSE IF i = k + 1 THEN x ELSE s[i - 1]
  <1> DEFINE n == Len(s)
             S == {i \in 1 .. n : s[i] <= x}
             k == Cardinality(S)
             t == [i \in 1 .. n + 1 |-> IF i <= k THEN s[i]
                                        ELSE IF i = k + 1 THEN x ELSE s[i - 1]]
  <1>1. n \in Nat /\ DOMAIN s = 1 .. n /\ \A i \in 1 .. n : s[i] \in Int
    BY LenProperties, ElementOfSeq
  <1>2. Inserted(s, x) = t
    BY <1>1 DEF Inserted
  <1>3. k \in 0 .. n
    <2>1. IsFiniteSet(1 .. n) /\ Cardinality(1 .. n) = n
      <3>1. n \in Nat
        BY <1>1
      <3> HIDE DEF n
      <3> QED
        BY <3>1, FS_Interval
    <2>2. S \in SUBSET (1 .. n)
      OBVIOUS
    <2> HIDE DEF S
    <2>3. IsFiniteSet(S) /\ k <= n
      BY <2>1, <2>2, FS_Subset
    <2>4. k \in Nat
      BY <2>3, FS_CardinalityType
    <2> QED
      BY <1>1, <2>3, <2>4
  <1> HIDE DEF k, n
  <1>4. t \in [1 .. n + 1 -> Int]
    <2> SUFFICES ASSUME NEW i \in 1 .. n + 1
                 PROVE  (IF i <= k THEN s[i] ELSE IF i = k + 1 THEN x ELSE s[i - 1]) \in Int
      OBVIOUS
    <2>1. i <= k => i \in 1 .. n
      BY <1>1, <1>3
    <2>2. ~ (i <= k) /\ i # k + 1 => i - 1 \in 1 .. n
      BY <1>1, <1>3
    <2> QED
      BY <1>1, <2>1, <2>2
  <1>5. n + 1 \in Nat
    BY <1>1
  <1>6. t \in Seq(Int) /\ Len(t) = n + 1
    <2> HIDE DEF t
    <2> QED
      BY <1>4, <1>5, FunctionIsSeq
  <1>7. \A i \in 1 .. n + 1 : t[i] = IF i <= k THEN s[i] ELSE IF i = k + 1 THEN x ELSE s[i - 1]
    OBVIOUS
  <1> HIDE DEF t
  <1> QED
    BY <1>2, <1>3, <1>6, <1>7 DEF k, n

\* What the samples that are kept have to do with those that were offered.
LatencyOrZero(values, i) == IF i \in Latencies(values) THEN values[i] ELSE 0
Masked(values) == [i \in DOMAIN values |-> LatencyOrZero(values, i)]
UpTo(values, i) == {j \in Latencies(values) : j <= i}
BelowUpTo(values, i, v) == {j \in UpTo(values, i) : values[j] < v}

KeptTo(values, i, kept, sum, squares) ==
  /\ kept \in Seq(Int)
  /\ Len(kept) = Cardinality(UpTo(values, i))
  /\ \A v \in Int : Cardinality(Below(kept, v)) = Cardinality(BelowUpTo(values, i, v))
  /\ \A j \in 1 .. Len(kept) : \E l \in Latencies(values) : kept[j] = values[l]
  /\ Total(kept) = sum /\ Total(Squared(kept)) = squares

\* Adding one value more keeps counts and totals those of the latencies so far.
LEMMA KeptStep ==
  ASSUME NEW values \in Seq(Int \cup {NotFinite}), NEW i \in 1 .. Len(values),
         NEW kept, NEW sum \in Int, NEW squares \in Int,
         KeptTo(values, i - 1, kept, sum, squares)
  PROVE  KeptTo(values, i, add_sample_us(kept, values[i]),
                sum + LatencyOrZero(values, i),
                squares + LatencyOrZero(values, i) * LatencyOrZero(values, i))
  <1> DEFINE x == values[i]
             L == Latencies(values)
             next == add_sample_us(kept, x)
  <1>1. i \in Nat /\ DOMAIN values = 1 .. Len(values) /\ Len(values) \in Nat
    BY LenProperties
  <1>2. /\ kept \in Seq(Int) /\ Len(kept) = Cardinality(UpTo(values, i - 1))
        /\ \A v \in Int : Cardinality(Below(kept, v)) = Cardinality(BelowUpTo(values, i - 1, v))
        /\ \A j \in 1 .. Len(kept) : \E l \in L : kept[j] = values[l]
        /\ Total(kept) = sum /\ Total(Squared(kept)) = squares
    BY DEF KeptTo
  <1>3. L \subseteq 1 .. Len(values)
    BY <1>1 DEF Latencies
  <1>4. \A j : j \in UpTo(values, i) <=> j \in UpTo(values, i - 1) \/ (j = i /\ i \in L)
    <2>1. \A j \in L : j <= i <=> j <= i - 1 \/ j = i
      BY <1>1, <1>3
    <2>2. \A j : j \in UpTo(values, i) <=> j \in L /\ j <= i
      BY DEF UpTo
    <2>3. \A j : j \in UpTo(values, i - 1) <=> j \in L /\ j <= i - 1
      BY DEF UpTo
    <2> QED
      BY <2>1, <2>2, <2>3
  <1>5. i \notin UpTo(values, i - 1)
    BY <1>1 DEF UpTo
  <1>6. IsFiniteSet(UpTo(values, i - 1))
    <2>1. UpTo(values, i - 1) \in SUBSET (1 .. Len(values))
      BY <1>3 DEF UpTo
    <2>2. IsFiniteSet(1 .. Len(values))
      BY <1>1, FS_Interval
    <2> QED
      BY <2>1, <2>2, FS_Subset
  <1>7. CASE i \in L
    <2>1. x # NotFinite /\ x >= 0 /\ x \in Int
      <3>1. x # NotFinite /\ x >= 0
        BY <1>7 DEF Latencies
      <3>2. x \in Int \cup {NotFinite}
        BY ElementOfSeq
      <3> QED
        BY <3>1, <3>2
    <2>2. next = Append(kept, x)
      BY <2>1 DEF add_sample_us
    <2>3. OneMore(kept, next) /\ next[Len(kept) + 1] = x
      BY <1>2, <2>1, <2>2, Appended
    <2>4. LatencyOrZero(values, i) = x
      BY <1>7 DEF LatencyOrZero
    <2>5. next \in Seq(Int) /\ Len(next) = Len(kept) + 1
          /\ \A j \in 1 .. Len(kept) : next[j] = kept[j]
      BY <2>3 DEF OneMore
    <2> HIDE DEF next, x, L
    <2>6. UpTo(values, i) = UpTo(values, i - 1) \cup {i}
      BY <1>4, <1>7
    <2>7. Len(next) = Cardinality(UpTo(values, i))
      <3>1. Cardinality(UpTo(values, i - 1) \cup {i}) = Cardinality(UpTo(values, i - 1)) + 1
        BY <1>5, <1>6, FS_AddElement
      <3> QED
        BY <1>2, <2>5, <2>6, <3>1
    <2>8. ASSUME NEW v \in Int
          PROVE  Cardinality(Below(next, v)) = Cardinality(BelowUpTo(values, i, v))
      <3> DEFINE B == BelowUpTo(values, i - 1, v)
      <3>1. Cardinality(Below(next, v))
              = Cardinality(Below(kept, v)) + (IF x < v THEN 1 ELSE 0)
        BY <2>3, BelowMore
      <3>2. Cardinality(Below(kept, v)) = Cardinality(B)
        BY <1>2
      <3>3. IsFiniteSet(B) /\ i \notin B
        <4>1. B \in SUBSET UpTo(values, i - 1)
          BY DEF BelowUpTo
        <4> QED
          BY <1>5, <1>6, <4>1, FS_Subset
      <3>4. \A j : j \in B <=> j \in UpTo(values, i - 1) /\ values[j] < v
        BY DEF BelowUpTo
      <3>5. \A j : j \in BelowUpTo(values, i, v) <=> j \in UpTo(values, i) /\ values[j] < v
        BY DEF BelowUpTo
      <3> HIDE DEF B
      <3>6. CASE x < v
        <4>1. BelowUpTo(values, i, v) = B \cup {i}
          BY <2>6, <3>4, <3>5, <3>6 DEF x
        <4>2. Cardinality(B \cup {i}) = Cardinality(B) + 1
          BY <3>3, FS_AddElement
        <4> QED
          BY <3>1, <3>2, <3>6, <4>1, <4>2
      <3>7. CASE ~ (x < v)
        <4>1. BelowUpTo(values, i, v) = B
          BY <2>6, <3>4, <3>5, <3>7 DEF x
        <4>2. Cardinality(Below(kept, v)) \in Nat
          <5>1. Cardinality(Below(kept, v)) \in 0 .. Len(kept)
            BY <1>2, BelowCounted
          <5> QED
            BY <5>1
        <4> QED
          BY <3>1, <3>2, <3>7, <4>1, <4>2
      <3> QED
        BY <3>6, <3>7
    <2>9. ASSUME NEW j \in 1 .. Len(next) PROVE \E l \in L : next[j] = values[l]
      <3>1. Len(kept) \in Nat
        BY <1>2, LenProperties
      <3>2. j \in 1 .. Len(kept) \/ j = Len(kept) + 1
        BY <2>5, <3>1
      <3>3. CASE j \in 1 .. Len(kept)
        BY <1>2, <2>5, <3>3
      <3>4. CASE j = Len(kept) + 1
        <4>1. next[j] = values[i]
          BY <2>3, <3>4 DEF x
        <4> QED
          BY <1>7, <4>1 DEF L
      <3> QED
        BY <3>2, <3>3, <3>4
    <2>10. Total(next) = sum + x /\ Total(Squared(next)) = squares + x * x
      BY <1>2, <2>3, TotalMore
    <2>11. KeptTo(values, i, next, sum + x, squares + x * x)
      BY <2>5, <2>7, <2>8, <2>9, <2>10 DEF KeptTo, L
    <2> QED
      BY <2>4, <2>11 DEF next, x
  <1>8. CASE i \notin L
    <2>1. x = NotFinite \/ ~ (x >= 0)
      BY <1>1, <1>8 DEF Latencies
    <2>2. next = kept
      <3>1. x \in Int \cup {NotFinite}
        BY ElementOfSeq
      <3>2. CASE x = NotFinite
        BY <3>2 DEF add_sample_us
      <3>3. CASE x \in Int /\ x # NotFinite
        <4>1. x < 0
          BY <2>1, <3>3
        <4> QED
          BY <4>1 DEF add_sample_us
      <3> QED
        BY <3>1, <3>2, <3>3
    <2>3. LatencyOrZero(values, i) = 0
      BY <1>8 DEF LatencyOrZero
    <2>4. UpTo(values, i) = UpTo(values, i - 1)
      BY <1>4, <1>8
    <2>5. \A v : BelowUpTo(values, i, v) = BelowUpTo(values, i - 1, v)
      BY <2>4 DEF BelowUpTo
    <2>6. sum + 0 = sum /\ squares + 0 * 0 = squares
      OBVIOUS
    <2> HIDE DEF next, L
    <2>7. KeptTo(values, i, next, sum, squares)
      BY <1>2, <2>2, <2>4, <2>5 DEF KeptTo, L
    <2> QED
      BY <2>3, <2>6, <2>7 DEF next
  <1> QED
    BY <1>7, <1>8

\* The latencies, with 0 in place of what is dropped.
LEMMA MaskedType ==
  ASSUME NEW values \in Seq(Int \cup {NotFinite})
  PROVE  /\ Masked(values) \in Seq(Int) /\ Len(Masked(values)) = Len(values)
         /\ \A i \in 1 .. Len(values) :
              LatencyOrZero(values, i) \in Int /\ Masked(values)[i] = LatencyOrZero(values, i)
  <1>1. Len(values) \in Nat /\ DOMAIN values = 1 .. Len(values)
    BY LenProperties
  <1>2. ASSUME NEW i \in 1 .. Len(values) PROVE LatencyOrZero(values, i) \in Int
    <2>1. values[i] \in Int \cup {NotFinite}
      BY ElementOfSeq
    <2> QED
      BY <2>1 DEF LatencyOrZero, Latencies
  <1>3. Masked(values) \in [1 .. Len(values) -> Int]
    BY <1>1, <1>2 DEF Masked
  <1>4. Masked(values) \in Seq(Int) /\ Len(Masked(values)) = Len(values)
    BY <1>1, <1>3, FunctionIsSeq
  <1>5. \A i \in 1 .. Len(values) : Masked(values)[i] = LatencyOrZero(values, i)
    BY <1>1 DEF Masked
  <1> QED
    BY <1>2, <1>4, <1>5

\* At first there are no latencies and no totals.
LEMMA NothingKept ==
  ASSUME NEW values \in Seq(Int \cup {NotFinite}), NEW kept, kept = <<>>
  PROVE  KeptTo(values, 0, kept, 0, 0)
  <1>1. DOMAIN values = 1 .. Len(values) /\ Len(values) \in Nat
    BY LenProperties
  <1>2. kept \in Seq(Int) /\ Len(kept) = 0
    OBVIOUS
  <1>3. UpTo(values, 0) = {}
    <2>1. \A j \in Latencies(values) : j \in 1 .. Len(values)
      BY <1>1 DEF Latencies
    <2>2. \A j \in Latencies(values) : ~ (j <= 0)
      BY <1>1, <2>1
    <2> QED
      BY <2>2 DEF UpTo
  <1>4. \A v : Below(kept, v) = {} /\ BelowUpTo(values, 0, v) = {}
    BY <1>2, <1>3 DEF Below, BelowUpTo
  <1>5. \A j \in 1 .. Len(kept) : FALSE
    BY <1>2
  <1>6. Cardinality({}) = 0
    BY FS_EmptySet
  <1>7. Total(kept) = 0
    BY <1>2, TotalOfNone
  <1>8. Total(Squared(kept)) = 0
    <2>1. Squared(kept) \in Seq(Int) /\ Len(Squared(kept)) = 0
      BY <1>2, SquaredType
    <2> QED
      BY <2>1, TotalOfNone
  <1> HIDE DEF UpTo, Below, BelowUpTo
  <1> QED
    BY <1>2, <1>3, <1>4, <1>5, <1>6, <1>7, <1>8 DEF KeptTo

\* The samples kept have the counts and totals of the latencies.
LEMMA KeptSummary ==
  ASSUME NEW values \in Seq(Int \cup {NotFinite})
  PROVE  KeptTo(values, Len(values), add_samples(values),
                Total(Masked(values)), Total(Squared(Masked(values))))
  <1> DEFINE n == Len(values)
             M == Masked(values)
  <1>1. n \in Nat
    BY LenProperties
  <1>2. /\ M \in Seq(Int) /\ Len(M) = n
        /\ \A i \in 1 .. n : LatencyOrZero(values, i) \in Int /\ M[i] = LatencyOrZero(values, i)
    BY MaskedType
  <1>3. /\ Squared(M) \in Seq(Int) /\ Len(Squared(M)) = n
        /\ \A i \in 1 .. n : Squared(M)[i] = M[i] * M[i]
    BY <1>2, SquaredType
  <1>4. PICK kept : Keeps(values, kept) /\ add_samples(values) = kept[n]
    BY KeptLoop
  <1>5. PICK f : Sums(M, f) /\ Total(M) = f[n]
    BY <1>2, TotalLoop
  <1>6. PICK g : Sums(Squared(M), g) /\ Total(Squared(M)) = g[n]
    BY <1>3, TotalLoop
  <1>7. ASSUME NEW i \in 1 .. n, KeptTo(values, i - 1, kept[i - 1], f[i - 1], g[i - 1])
        PROVE  KeptTo(values, i, kept[i], f[i], g[i])
    <2>1. kept[i] = add_sample_us(kept[i - 1], values[i])
      BY <1>4 DEF Keeps
    <2>2. f[i - 1] \in Int /\ f[i] = f[i - 1] + LatencyOrZero(values, i)
      BY <1>2, <1>5 DEF Sums
    <2>3. /\ g[i - 1] \in Int
          /\ g[i] = g[i - 1] + LatencyOrZero(values, i) * LatencyOrZero(values, i)
      BY <1>2, <1>3, <1>6 DEF Sums
    <2>4. KeptTo(values, i, add_sample_us(kept[i - 1], values[i]),
                 f[i - 1] + LatencyOrZero(values, i),
                 g[i - 1] + LatencyOrZero(values, i) * LatencyOrZero(values, i))
      BY <1>7, <2>2, <2>3, KeptStep
    <2> QED
      BY <2>1, <2>2, <2>3, <2>4
  <1> DEFINE T == {i \in Nat : i <= n => KeptTo(values, i, kept[i], f[i], g[i])}
  <1> HIDE DEF n
  <1>8. 0 \in T
    <2>1. kept[0] = <<>> /\ f[0] = 0 /\ g[0] = 0
      BY <1>4, <1>5, <1>6 DEF Keeps, Sums
    <2>2. KeptTo(values, 0, kept[0], 0, 0)
      BY <2>1, NothingKept
    <2> QED
      BY <2>1, <2>2
  <1>9. ASSUME NEW i \in T PROVE i + 1 \in T
    <2>1. ASSUME i + 1 <= n PROVE KeptTo(values, i + 1, kept[i + 1], f[i + 1], g[i + 1])
      <3>1. i + 1 \in 1 .. n /\ (i + 1) - 1 = i /\ i <= n
        BY <1>1, <2>1
      <3> QED
        BY <1>7, <3>1
    <2> QED
      BY <2>1
  <1>10. T \in SUBSET Nat
    OBVIOUS
  <1> HIDE DEF T
  <1>11. T = Nat
    BY <1>8, <1>9, <1>10, Induction
  <1>12. n \in T /\ n <= n
    BY <1>1, <1>11
  <1>13. KeptTo(values, n, kept[n], f[n], g[n])
    BY <1>12 DEF T
  <1> QED
    BY <1>4, <1>5, <1>6, <1>13 DEF n

\* The first values of a sequence.
First(s, n) == [i \in 1 .. n |-> s[i]]

\* One sample more of the first ones.
LEMMA FirstMore ==
  ASSUME NEW s \in Seq(Int), NEW n \in 1 .. Len(s)
  PROVE  /\ OneMore(First(s, n - 1), First(s, n))
         /\ Len(First(s, n - 1)) = n - 1 /\ First(s, n)[n] = s[n]
  <1>1. Len(s) \in Nat /\ \A i \in 1 .. Len(s) : s[i] \in Int
    BY LenProperties, ElementOfSeq
  <1>2. \A m \in 0 .. Len(s) : \A i \in 1 .. m : i \in 1 .. Len(s)
    BY <1>1
  <1>3. \A m \in 0 .. Len(s) : First(s, m) \in [1 .. m -> Int] /\ m \in Nat
    BY <1>1, <1>2 DEF First
  <1>4. \A m \in 0 .. Len(s) : First(s, m) \in Seq(Int) /\ Len(First(s, m)) = m
    BY <1>3, FunctionIsSeq
  <1>5. /\ n - 1 \in 0 .. Len(s) /\ n \in 0 .. Len(s) /\ n \in 1 .. n /\ (n - 1) + 1 = n
        /\ \A i \in 1 .. n - 1 : i \in 1 .. n
    BY <1>1
  <1>6. \A i \in 1 .. n - 1 : First(s, n)[i] = First(s, n - 1)[i]
    BY <1>5 DEF First
  <1>7. First(s, n)[n] = s[n]
    BY <1>5 DEF First
  <1> HIDE DEF First
  <1> QED
    BY <1>4, <1>5, <1>6, <1>7 DEF OneMore

\* The samples of p in order: position j holds less than v if at least j of
\* them are less than v, whatever v is.
Ranked(p, sorted) ==
  /\ sorted \in Seq(Int) /\ Len(sorted) = Len(p)
  /\ \A v \in Int : \A j \in 1 .. Len(p) :
       sorted[j] < v <=> j <= Cardinality(Below(p, v))
  /\ \A j \in 1 .. Len(p) : \E i \in 1 .. Len(p) : sorted[j] = p[i]
  /\ Total(sorted) = Total(p) /\ Total(Squared(sorted)) = Total(Squared(p))

\* Inserting the next sample keeps the samples so far ranked.
LEMMA RankedStep ==
  ASSUME NEW p, NEW t, OneMore(p, t), NEW sorted, Ranked(p, sorted)
  PROVE  Ranked(t, Inserted(sorted, t[Len(p) + 1]))
  <1> DEFINE n == Len(p)
             x == t[n + 1]
             next == Inserted(sorted, x)
             c(v) == Cardinality(Below(p, v))
  <1>1. /\ p \in Seq(Int) /\ t \in Seq(Int) /\ Len(t) = n + 1
        /\ \A i \in 1 .. n : t[i] = p[i]
    BY DEF OneMore
  <1>2. n \in Nat
    BY <1>1, LenProperties
  <1>3. x \in Int
    <2>1. n + 1 \in 1 .. Len(t)
      BY <1>1, <1>2
    <2> QED
      BY <1>1, <2>1, ElementOfSeq
  <1>4. /\ sorted \in Seq(Int) /\ Len(sorted) = n
        /\ \A v \in Int : \A j \in 1 .. n : sorted[j] < v <=> j <= c(v)
        /\ \A j \in 1 .. n : \E i \in 1 .. n : sorted[j] = p[i]
        /\ Total(sorted) = Total(p) /\ Total(Squared(sorted)) = Total(Squared(p))
    BY DEF Ranked
  <1>5. \A v \in Int : c(v) \in 0 .. n
    BY <1>1, BelowCounted
  <1>6. \A i \in 1 .. n : sorted[i] \in Int
    BY <1>4, ElementOfSeq
  <1>7. PICK k \in 0 .. n :
          /\ k = Cardinality({i \in 1 .. n : sorted[i] <= x})
          /\ next \in Seq(Int) /\ Len(next) = n + 1
          /\ \A i \in 1 .. n + 1 :
               next[i] = IF i <= k THEN sorted[i] ELSE IF i = k + 1 THEN x ELSE sorted[i - 1]
    <2>1. x \in Int /\ sorted \in Seq(Int) /\ Len(sorted) = n
      BY <1>3, <1>4
    <2> HIDE DEF x, n
    <2>2. \E k \in 0 .. Len(sorted) :
            /\ k = Cardinality({i \in 1 .. Len(sorted) : sorted[i] <= x})
            /\ next \in Seq(Int) /\ Len(next) = Len(sorted) + 1
            /\ \A i \in 1 .. Len(sorted) + 1 :
                 next[i] = IF i <= k THEN sorted[i] ELSE IF i = k + 1 THEN x ELSE sorted[i - 1]
      BY <2>1, InsertedAt
    <2> QED
      BY <2>1, <2>2
  <1>8. \A v \in Int : Cardinality(Below(t, v)) = c(v) + (IF x < v THEN 1 ELSE 0)
    BY BelowMore
  <1>9. /\ Total(t) = Total(p) + x
        /\ Total(Squared(t)) = Total(Squared(p)) + x * x
    BY TotalMore
  <1> HIDE DEF n, x, next, c
  <1>10. k = c(x + 1)
    <2>1. c(x + 1) \in 0 .. n /\ x + 1 \in Int
      BY <1>3, <1>5
    <2>2. \A i \in 1 .. n : sorted[i] <= x <=> i <= c(x + 1)
      <3> SUFFICES ASSUME NEW i \in 1 .. n PROVE sorted[i] <= x <=> i <= c(x + 1)
        OBVIOUS
      <3>1. sorted[i] < x + 1 <=> i <= c(x + 1)
        BY <1>4, <2>1
      <3>2. sorted[i] < x + 1 <=> sorted[i] <= x
        BY <1>3, <1>6
      <3> QED
        BY <3>1, <3>2
    <2>3. \A i : i \in 1 .. n /\ i <= c(x + 1) <=> i \in 1 .. c(x + 1)
      BY <1>2, <2>1
    <2>4. {i \in 1 .. n : sorted[i] <= x} = 1 .. c(x + 1)
      BY <2>2, <2>3
    <2>5. Cardinality(1 .. c(x + 1)) = c(x + 1)
      <3> DEFINE m == c(x + 1)
      <3>1. m \in Nat
        BY <2>1
      <3> HIDE DEF m
      <3>2. Cardinality(1 .. m) = m
        BY <3>1, FS_Interval
      <3> QED
        BY <3>2 DEF m
    <2> QED
      BY <1>7, <2>4, <2>5
  <1>11. ASSUME NEW v \in Int, NEW j \in 1 .. n + 1
         PROVE  next[j] < v <=> j <= Cardinality(Below(t, v))
    <2> DEFINE b == c(v)
    <2>1. b \in 0 .. n /\ k \in 0 .. n
      BY <1>5
    <2>2. \A i \in 1 .. n : sorted[i] < v <=> i <= b
      BY <1>4
    <2>3. \A i \in 1 .. n : sorted[i] < x + 1 <=> i <= k
      <3>1. x + 1 \in Int
        BY <1>3
      <3> QED
        BY <1>4, <1>10, <3>1
    <2> HIDE DEF b
    <2>4. x < v => k <= b
      <3>1. CASE k = 0
        BY <2>1, <3>1
      <3>2. CASE k \in 1 .. n
        <4>1. sorted[k] < x + 1 /\ sorted[k] \in Int
          BY <1>6, <2>3, <3>2
        <4>2. x < v => sorted[k] < v
          BY <1>3, <4>1
        <4> QED
          BY <2>2, <3>2, <4>2
      <3> QED
        BY <2>1, <3>1, <3>2
    <2>5. ~ (x < v) => b <= k
      <3>1. CASE b = 0
        BY <2>1, <3>1
      <3>2. CASE b \in 1 .. n
        <4>1. sorted[b] < v /\ sorted[b] \in Int
          BY <1>6, <2>2, <3>2
        <4>2. ~ (x < v) => sorted[b] < x + 1
          BY <1>3, <4>1
        <4> QED
          BY <2>3, <3>2, <4>2
      <3> QED
        BY <2>1, <3>1, <3>2
    <2>6. Cardinality(Below(t, v)) = b + (IF x < v THEN 1 ELSE 0)
      BY <1>8 DEF b
    <2>7. CASE j <= k
      <3>1. next[j] = sorted[j] /\ j \in 1 .. n
        BY <1>2, <1>7, <2>7
      <3>2. next[j] < v <=> j <= b
        BY <2>2, <3>1
      <3> QED
        BY <2>1, <2>4, <2>6, <2>7, <3>2
    <2>8. CASE j = k + 1
      <3>1. next[j] = x
        BY <1>2, <1>7, <2>8
      <3> QED
        BY <1>3, <2>1, <2>4, <2>5, <2>6, <2>8, <3>1
    <2>9. CASE j > k + 1
      <3>1. ~ (j <= k) /\ j # k + 1 /\ j - 1 \in 1 .. n /\ j \in Int
        BY <1>2, <2>1, <2>9
      <3>2. next[j] = sorted[j - 1]
        BY <1>7, <3>1
      <3>3. next[j] < v <=> j - 1 <= b
        BY <2>2, <3>1, <3>2
      <3> QED
        BY <2>1, <2>4, <2>5, <2>6, <2>9, <3>1, <3>3
    <2> QED
      BY <2>1, <2>7, <2>8, <2>9
  <1>12. ASSUME NEW j \in 1 .. n + 1 PROVE \E i \in 1 .. n + 1 : next[j] = t[i]
    <2>1. \A i \in 1 .. n : \E l \in 1 .. n + 1 : sorted[i] = t[l]
      <3> SUFFICES ASSUME NEW i \in 1 .. n PROVE \E l \in 1 .. n + 1 : sorted[i] = t[l]
        OBVIOUS
      <3>1. PICK l \in 1 .. n : sorted[i] = p[l]
        BY <1>4
      <3>2. l \in 1 .. n + 1 /\ t[l] = p[l]
        BY <1>1, <1>2
      <3> QED
        BY <3>1, <3>2
    <2>2. n + 1 \in 1 .. n + 1
      BY <1>2
    <2>3. CASE j <= k
      <3>1. next[j] = sorted[j] /\ j \in 1 .. n
        BY <1>2, <1>7, <2>3
      <3> QED
        BY <2>1, <3>1
    <2>4. CASE j = k + 1
      <3>1. next[j] = x
        BY <1>2, <1>7, <2>4
      <3> QED
        BY <2>2, <3>1 DEF x
    <2>5. CASE j > k + 1
      <3>1. ~ (j <= k) /\ j # k + 1 /\ j - 1 \in 1 .. n
        BY <1>2, <2>5
      <3>2. next[j] = sorted[j - 1]
        BY <1>7, <3>1
      <3> QED
        BY <2>1, <3>1, <3>2
    <2> QED
      BY <1>2, <2>3, <2>4, <2>5
  <1>13. Total(next) = Total(sorted) + x
    <2>1. k \in 0 .. Len(sorted) /\ Len(next) = Len(sorted) + 1
      BY <1>4, <1>7
    <2>2. \A i \in 1 .. Len(next) :
            next[i] = IF i <= k THEN sorted[i] ELSE IF i = k + 1 THEN x ELSE sorted[i - 1]
      BY <1>7
    <2> QED
      BY <1>3, <1>4, <1>7, <2>1, <2>2, TotalInserted
  <1>14. Total(Squared(next)) = Total(Squared(sorted)) + x * x
    <2> DEFINE a == Squared(sorted)
               z == Squared(next)
    <2>1. a \in Seq(Int) /\ Len(a) = n /\ \A i \in 1 .. n : a[i] = sorted[i] * sorted[i]
      BY <1>4, SquaredType
    <2>2. z \in Seq(Int) /\ Len(z) = n + 1 /\ \A i \in 1 .. n + 1 : z[i] = next[i] * next[i]
      BY <1>7, SquaredType
    <2> HIDE DEF a, z
    <2>3. \A i \in 1 .. n + 1 :
            z[i] = IF i <= k THEN a[i] ELSE IF i = k + 1 THEN x * x ELSE a[i - 1]
      <3> SUFFICES ASSUME NEW i \in 1 .. n + 1
                   PROVE  z[i] = IF i <= k THEN a[i] ELSE IF i = k + 1 THEN x * x ELSE a[i - 1]
        OBVIOUS
      <3>1. /\ z[i] = next[i] * next[i]
            /\ next[i] = IF i <= k THEN sorted[i] ELSE IF i = k + 1 THEN x ELSE sorted[i - 1]
        BY <1>7, <2>2
      <3>2. i <= k => i \in 1 .. n
        BY <1>2
      <3>3. ~ (i <= k) /\ i # k + 1 => i - 1 \in 1 .. n
        BY <1>2
      <3> QED
        BY <2>1, <3>1, <3>2, <3>3
    <2>4. k \in 0 .. Len(a) /\ Len(z) = Len(a) + 1 /\ x * x \in Int
      BY <1>3, <2>1, <2>2
    <2>5. \A i \in 1 .. Len(z) :
            z[i] = IF i <= k THEN a[i] ELSE IF i = k + 1 THEN x * x ELSE a[i - 1]
      BY <2>2, <2>3
    <2> DEFINE y == x * x
    <2> HIDE DEF y
    <2>6. Total(z) = Total(a) + y
      <3>1. y \in Int /\ \A i \in 1 .. Len(z) :
              z[i] = IF i <= k THEN a[i] ELSE IF i = k + 1 THEN y ELSE a[i - 1]
        BY <2>4, <2>5 DEF y
      <3> QED
        BY <2>1, <2>2, <2>4, <3>1, TotalInserted
    <2> QED
      BY <2>6 DEF a, z, y
  <1>15. Len(t) = n + 1 /\ Len(next) = n + 1
    BY <1>1, <1>7
  <1>16. Total(next) = Total(t) /\ Total(Squared(next)) = Total(Squared(t))
    BY <1>4, <1>9, <1>13, <1>14
  <1>17. Ranked(t, next)
    BY <1>7, <1>11, <1>12, <1>15, <1>16 DEF Ranked
  <1> QED
    BY <1>17 DEF next, x, n

\* Sorting inserts one sample after the other.
LEMMA SortedLoop ==
  ASSUME NEW samples \in Seq(Int)
  PROVE  \E sorted : Sorts(samples, sorted) /\ Sorted(samples) = sorted[Len(samples)]
  <1> DEFINE n == Len(samples)
             A == Seq(Int)
             none == <<>>
             Q(g) == g = [i \in 0 .. n |-> IF i = 0 THEN <<>> ELSE Inserted(g[i - 1], samples[i])]
             sorted == CHOOSE g : Q(g)
             step == [p \in Nat \X A |-> IF p[1] \in 1 .. n
                                           THEN Inserted(p[2], samples[p[1]]) ELSE none]
  <1>1. Sorted(samples) = sorted[n]
    BY DEF Sorted
  <1>2. n \in Nat /\ \A i \in 1 .. n : samples[i] \in Int
    BY LenProperties, ElementOfSeq
  <1>3. none \in A
    OBVIOUS
  <1>4. ASSUME NEW s \in A, NEW i \in 1 .. n PROVE Inserted(s, samples[i]) \in A
    BY <1>2, InsertedAt
  <1> HIDE DEF A, none
  <1>5. /\ step \in [Nat \X A -> A]
        /\ \A i \in 1 .. n : \A s \in A : step[<<i, s>>] = Inserted(s, samples[i])
    <2> HIDE DEF n
    <2>1. \A p \in Nat \X A :
            (IF p[1] \in 1 .. n THEN Inserted(p[2], samples[p[1]]) ELSE none) \in A
      <3> SUFFICES ASSUME NEW p \in Nat \X A
                   PROVE  (IF p[1] \in 1 .. n THEN Inserted(p[2], samples[p[1]]) ELSE none) \in A
        OBVIOUS
      <3>1. p[2] \in A
        OBVIOUS
      <3> QED
        BY <1>3, <1>4, <3>1
    <2>2. \A i \in 1 .. n : \A s \in A : <<i, s>> \in Nat \X A
      BY <1>2
    <2> QED
      BY <2>1, <2>2
  <1> HIDE DEF step, n
  <1>6. PICK g : Solves(A, none, step, n, g)
    BY <1>2, <1>3, <1>5, RecursionExists DEF IsStep
  <1>7. ASSUME NEW i \in 1 .. n PROVE g[i] = Inserted(g[i - 1], samples[i])
    <2>1. i - 1 \in 0 .. n
      BY <1>2
    <2>2. g[i - 1] \in A
      BY <1>6, <2>1 DEF Solves
    <2> QED
      BY <1>5, <1>6, <2>2 DEF Solves
  <1>8. Q(g)
    <2>1. \A i \in 0 .. n : i = 0 \/ i \in 1 .. n
      BY <1>2
    <2>2. \A i \in 0 .. n : g[i] = IF i = 0 THEN <<>> ELSE Inserted(g[i - 1], samples[i])
      BY <1>6, <1>7, <2>1 DEF Solves, none
    <2> QED
      BY <1>6, <2>2 DEF Solves
  <1>9. Q(sorted)
    BY <1>8
  <1> HIDE DEF sorted
  <1>10. Sorts(samples, sorted)
    <2>1. 0 \in 0 .. n /\ \A i \in 1 .. n : i \in 0 .. n /\ i # 0
      BY <1>2
    <2>2. sorted[0] = <<>> /\ \A i \in 1 .. n : sorted[i] = Inserted(sorted[i - 1], samples[i])
      BY <1>9, <2>1
    <2> QED
      BY <2>2 DEF Sorts, n
  <1> QED
    BY <1>1, <1>10 DEF n

\* No samples are ranked as they are.
LEMMA NoneRanked ==
  ASSUME NEW p \in Seq(Int), Len(p) = 0, NEW sorted, sorted = <<>>
  PROVE  Ranked(p, sorted)
  <1>1. sorted \in Seq(Int) /\ Len(sorted) = 0
    OBVIOUS
  <1>2. \A j \in 1 .. Len(p) : FALSE
    OBVIOUS
  <1>3. Total(sorted) = 0 /\ Total(p) = 0
    BY <1>1, TotalOfNone
  <1>4. \A s \in Seq(Int) : Len(s) = 0 => Total(Squared(s)) = 0
    <2> SUFFICES ASSUME NEW s \in Seq(Int), Len(s) = 0 PROVE Total(Squared(s)) = 0
      OBVIOUS
    <2>1. Squared(s) \in Seq(Int) /\ Len(Squared(s)) = 0
      BY SquaredType
    <2> QED
      BY <2>1, TotalOfNone
  <1>5. Total(Squared(sorted)) = 0 /\ Total(Squared(p)) = 0
    BY <1>1, <1>4
  <1> QED
    BY <1>1, <1>2, <1>3, <1>5 DEF Ranked

\* The sorted samples are the samples, in order.
LEMMA SortedSummary ==
  ASSUME NEW s \in Seq(Int)
  PROVE  Ranked(s, Sorted(s))
  <1> DEFINE n == Len(s)
  <1>1. n \in Nat
    BY LenProperties
  <1>2. PICK sorted : Sorts(s, sorted) /\ Sorted(s) = sorted[n]
    BY SortedLoop
  <1>3. ASSUME NEW i \in 1 .. n, Ranked(First(s, i - 1), sorted[i - 1])
        PROVE  Ranked(First(s, i), sorted[i])
    <2>1. /\ OneMore(First(s, i - 1), First(s, i))
          /\ Len(First(s, i - 1)) = i - 1 /\ First(s, i)[i] = s[i]
      BY FirstMore
    <2>2. Ranked(First(s, i), Inserted(sorted[i - 1], First(s, i)[Len(First(s, i - 1)) + 1]))
      BY <1>3, <2>1, RankedStep
    <2>3. Len(First(s, i - 1)) + 1 = i
      BY <1>1, <2>1
    <2>4. sorted[i] = Inserted(sorted[i - 1], s[i])
      BY <1>2 DEF Sorts
    <2> QED
      BY <2>1, <2>2, <2>3, <2>4
  <1>4. Ranked(First(s, 0), sorted[0])
    <2>1. sorted[0] = <<>>
      BY <1>2 DEF Sorts
    <2>2. First(s, 0) \in [1 .. 0 -> Int]
      BY DEF First
    <2>3. First(s, 0) \in Seq(Int) /\ Len(First(s, 0)) = 0
      BY <2>2, FunctionIsSeq
    <2> QED
      BY <2>1, <2>3, NoneRanked
  <1> DEFINE T == {i \in Nat : i <= n => Ranked(First(s, i), sorted[i])}
  <1> HIDE DEF n
  <1>5. 0 \in T /\ T \in SUBSET Nat
    BY <1>4
  <1>6. ASSUME NEW i \in T PROVE i + 1 \in T
    <2>1. ASSUME i + 1 <= n PROVE Ranked(First(s, i + 1), sorted[i + 1])
      <3>1. i + 1 \in 1 .. n /\ (i + 1) - 1 = i /\ i <= n
        BY <1>1, <2>1
      <3> QED
        BY <1>3, <3>1
    <2> QED
      BY <2>1
  <1> HIDE DEF T
  <1>7. T = Nat
    BY <1>5, <1>6, Induction
  <1>8. n \in T /\ n <= n
    BY <1>1, <1>7
  <1>9. Ranked(First(s, n), sorted[n])
    BY <1>8 DEF T
  <1>10. First(s, n) = s
    <2>1. s = [i \in 1 .. n |-> s[i]]
      BY LenProperties DEF n
    <2> QED
      BY <2>1 DEF First
  <1> QED
    BY <1>2, <1>9, <1>10 DEF n

\* The sum of the squared deviations, from the sums of squares and of samples.
Deviations(s, n, t) == [i \in 1 .. Len(s) |-> (n * s[i] - t) * (n * s[i] - t)]

\* The squared deviations are those of the squares and the total.
LEMMA DeviationsSum ==
  ASSUME NEW s \in Seq(Int), NEW n \in Int, NEW t \in Int
  PROVE  Total(Deviations(s, n, t))
           = (n * n) * Total(Squared(s)) - 2 * (n * t) * Total(s) + Len(s) * (t * t)
  <1> DEFINE D == Deviations(s, n, t)
             m == Len(s)
             A == n * n
             B == n * t
             C == t * t
  <1>1. m \in Nat /\ \A i \in 1 .. m : s[i] \in Int
    BY LenProperties, ElementOfSeq
  <1>2. \A i \in 1 .. m : (n * s[i] - t) * (n * s[i] - t) \in Int
    BY <1>1
  <1>3. D \in [1 .. m -> Int]
    BY <1>2 DEF Deviations
  <1>4. D \in Seq(Int) /\ Len(D) = m
    <2> HIDE DEF D
    <2> QED
      BY <1>1, <1>3, FunctionIsSeq
  <1>5. Squared(s) \in Seq(Int) /\ Len(Squared(s)) = m
        /\ \A i \in 1 .. m : Squared(s)[i] = s[i] * s[i]
    BY SquaredType
  <1>6. PICK f : Sums(s, f) /\ Total(s) = f[m]
    BY TotalLoop
  <1>7. PICK g : Sums(Squared(s), g) /\ Total(Squared(s)) = g[m]
    BY <1>5, TotalLoop
  <1>8. PICK h : Sums(D, h) /\ Total(D) = h[m]
    <2> HIDE DEF D
    <2> QED
      BY <1>4, TotalLoop
  <1>9. A \in Int /\ B \in Int /\ C \in Int
    OBVIOUS
  <1>10. \A x \in Int : (n * x - t) * (n * x - t) = A * (x * x) - 2 * B * x + C
    OBVIOUS
  <1>11. \A i \in 1 .. m : D[i] = A * (s[i] * s[i]) - 2 * B * s[i] + C
    <2>1. \A i \in 1 .. m : D[i] = (n * s[i] - t) * (n * s[i] - t)
      BY DEF Deviations
    <2> HIDE DEF D, A, B, C
    <2> QED
      BY <1>1, <1>10, <2>1
  <1>12. \A i \in 1 .. m : /\ f[i - 1] \in Int /\ f[i] = f[i - 1] + s[i]
                           /\ g[i - 1] \in Int /\ g[i] = g[i - 1] + s[i] * s[i]
                           /\ h[i] = h[i - 1] + D[i]
    BY <1>4, <1>5, <1>6, <1>7, <1>8 DEF Sums
  <1>13. f[0] = 0 /\ g[0] = 0 /\ h[0] = 0
    BY <1>6, <1>7, <1>8 DEF Sums
  <1> HIDE DEF D, m, A, B, C
  <1> DEFINE T == {i \in Nat : i <= m => h[i] = A * g[i] - 2 * B * f[i] + i * C}
  <1>14. 0 \in T /\ T \in SUBSET Nat
    BY <1>9, <1>13
  <1>15. ASSUME NEW i \in T PROVE i + 1 \in T
    <2>1. ASSUME i + 1 <= m
          PROVE  h[i + 1] = A * g[i + 1] - 2 * B * f[i + 1] + (i + 1) * C
      <3> DEFINE x == s[i + 1]
                 q == x * x
      <3>1. i + 1 \in 1 .. m /\ (i + 1) - 1 = i /\ i <= m /\ i \in Nat
        BY <1>1, <2>1
      <3>2. /\ f[i] \in Int /\ f[i + 1] = f[i] + x
            /\ g[i] \in Int /\ g[i + 1] = g[i] + q
            /\ h[i + 1] = h[i] + (A * q - 2 * B * x + C)
        BY <1>11, <1>12, <3>1
      <3>3. x \in Int /\ q \in Int /\ h[i] = A * g[i] - 2 * B * f[i] + i * C
        BY <1>1, <3>1
      <3> HIDE DEF x, q
      <3>4. A * (g[i] + q) - 2 * B * (f[i] + x) + (i + 1) * C
              = (A * g[i] - 2 * B * f[i] + i * C) + (A * q - 2 * B * x + C)
        <4> DEFINE u == f[i]
                   v == g[i]
        <4>1. i \in Int /\ u \in Int /\ v \in Int /\ x \in Int /\ q \in Int
          BY <3>1, <3>2, <3>3
        <4>2. A \in Int /\ B \in Int /\ C \in Int
          BY <1>9
        <4> HIDE DEF u, v
        <4>3. A * (v + q) - 2 * B * (u + x) + (i + 1) * C
                = (A * v - 2 * B * u + i * C) + (A * q - 2 * B * x + C)
          BY <4>1, <4>2
        <4> QED
          BY <4>3 DEF u, v
      <3> QED
        BY <3>2, <3>3, <3>4
    <2> QED
      BY <2>1
  <1> HIDE DEF T
  <1>16. T = Nat
    BY <1>14, <1>15, Induction
  <1>17. m \in T /\ m <= m
    BY <1>1, <1>16
  <1>18. h[m] = A * g[m] - 2 * B * f[m] + m * C
    BY <1>17 DEF T
  <1> QED
    BY <1>6, <1>7, <1>8, <1>18 DEF D, A, B, C, m

\* What sorting makes of the samples that were offered.
InOrder(values, sorted, n) ==
  /\ n = Cardinality(Latencies(values)) /\ n \in Nat
  /\ sorted \in Seq(Int) /\ Len(sorted) = n
  /\ \A v \in Int : \A j \in 1 .. n :
       sorted[j] < v <=> j <= Cardinality({i \in Latencies(values) : values[i] < v})
  /\ \A j \in 1 .. n : \E l \in Latencies(values) : sorted[j] = values[l]

\* The sorted samples are the latencies in order, with their totals.
LEMMA SortedOrdered ==
  ASSUME NEW values \in Seq(Int \cup {NotFinite})
  PROVE  LET sorted == Sorted(add_samples(values))
         IN  /\ InOrder(values, sorted, Len(add_samples(values)))
             /\ Total(sorted) = Total(add_samples(values))
             /\ Total(sorted) = Total(Masked(values))
             /\ Total(Squared(sorted)) = Total(Squared(Masked(values)))
  <1> DEFINE K == add_samples(values)
             S == Sorted(K)
             m == Len(values)
             n == Len(K)
             L == Latencies(values)
  <1>1. m \in Nat /\ DOMAIN values = 1 .. m
    BY LenProperties
  <1>2. UpTo(values, m) = L
    <2>1. \A i \in L : i <= m
      BY <1>1 DEF Latencies
    <2> QED
      BY <2>1 DEF UpTo
  <1>3. \A v : BelowUpTo(values, m, v) = {i \in L : values[i] < v}
    BY <1>2 DEF BelowUpTo
  <1>4. KeptTo(values, m, K, Total(Masked(values)), Total(Squared(Masked(values))))
    BY KeptSummary
  <1>5. /\ K \in Seq(Int) /\ n = Cardinality(L)
        /\ \A v \in Int : Cardinality(Below(K, v)) = Cardinality({i \in L : values[i] < v})
        /\ \A j \in 1 .. n : \E l \in L : K[j] = values[l]
        /\ Total(K) = Total(Masked(values))
        /\ Total(Squared(K)) = Total(Squared(Masked(values)))
    BY <1>2, <1>3, <1>4 DEF KeptTo
  <1>6. n \in Nat
    BY <1>5, LenProperties
  <1>7. Ranked(K, S)
    BY <1>5, SortedSummary
  <1> HIDE DEF K, S, m, L
  <1>8. /\ S \in Seq(Int) /\ Len(S) = n
        /\ \A v \in Int : \A j \in 1 .. n : S[j] < v <=> j <= Cardinality(Below(K, v))
        /\ \A j \in 1 .. n : \E i \in 1 .. n : S[j] = K[i]
        /\ Total(S) = Total(K) /\ Total(Squared(S)) = Total(Squared(K))
    BY <1>7 DEF Ranked
  <1> HIDE DEF n
  <1>9. \A v \in Int : \A j \in 1 .. n :
          S[j] < v <=> j <= Cardinality({i \in L : values[i] < v})
    BY <1>5, <1>8
  <1>10. ASSUME NEW j \in 1 .. n PROVE \E l \in L : S[j] = values[l]
    <2>1. PICK i \in 1 .. n : S[j] = K[i]
      BY <1>8
    <2>2. PICK l \in L : K[i] = values[l]
      BY <1>5
    <2> QED
      BY <2>1, <2>2
  <1>11. InOrder(values, S, n)
    BY <1>5, <1>6, <1>8, <1>9, <1>10 DEF InOrder, L
  <1> QED
    BY <1>5, <1>8, <1>11 DEF K, S, n

\* Samples in order ascend, and none is negative.
LEMMA Ascending ==
  ASSUME NEW values \in Seq(Int \cup {NotFinite}), NEW sorted, NEW n,
         InOrder(values, sorted, n)
  PROVE  /\ \A i \in 1 .. n : sorted[i] \in Int /\ sorted[i] >= 0
         /\ \A i, j \in 1 .. n : i <= j => sorted[i] <= sorted[j]
  <1>1. /\ n \in Nat /\ sorted \in Seq(Int) /\ Len(sorted) = n
        /\ \A v \in Int : \A j \in 1 .. n :
             sorted[j] < v <=> j <= Cardinality({i \in Latencies(values) : values[i] < v})
        /\ \A j \in 1 .. n : \E l \in Latencies(values) : sorted[j] = values[l]
    BY DEF InOrder
  <1>2. \A i \in 1 .. n : sorted[i] \in Int
    BY <1>1, ElementOfSeq
  <1>3. \A i \in 1 .. n : sorted[i] >= 0
    BY <1>1 DEF Latencies
  <1>4. ASSUME NEW i \in 1 .. n, NEW j \in 1 .. n, i <= j
        PROVE  sorted[i] <= sorted[j]
    <2> DEFINE v == sorted[j] + 1
               c == Cardinality({l \in Latencies(values) : values[l] < v})
    <2>1. v \in Int /\ sorted[j] < v
      BY <1>2
    <2>2. (sorted[j] < v <=> j <= c) /\ (sorted[i] < v <=> i <= c)
      BY <1>1, <2>1
    <2>3. c \in Nat
      <3>1. Latencies(values) \in SUBSET (1 .. Len(values)) /\ Len(values) \in Nat
        BY LenProperties DEF Latencies
      <3>2. IsFiniteSet(1 .. Len(values))
        BY <3>1, FS_Interval
      <3>3. {l \in Latencies(values) : values[l] < v} \in SUBSET (1 .. Len(values))
        BY <3>1
      <3>4. IsFiniteSet({l \in Latencies(values) : values[l] < v})
        BY <3>2, <3>3, FS_Subset
      <3> QED
        BY <3>4, FS_CardinalityType
    <2> HIDE DEF c
    <2>4. i <= c
      BY <1>4, <2>1, <2>2, <2>3
    <2>5. sorted[i] < v
      BY <2>2, <2>4
    <2> QED
      BY <1>2, <2>5
  <1> QED
    BY <1>2, <1>3, <1>4

\* Position k + 1 holds the sample that k others precede.
LEMMA OrderStatisticIs ==
  ASSUME NEW values \in Seq(Int \cup {NotFinite}), NEW sorted, NEW n,
         InOrder(values, sorted, n), NEW k \in 0 .. n - 1
  PROVE  OrderStatistic(values, k) = sorted[k + 1]
  <1> DEFINE L == Latencies(values)
             count(v) == Cardinality({i \in L : values[i] < v})
             w == sorted[k + 1]
             R == {values[i] : i \in L}
             Chosen(u) == count(u) <= k /\ k < Cardinality({i \in L : values[i] <= u})
  <1>1. /\ n \in Nat
        /\ \A v \in Int : \A j \in 1 .. n : sorted[j] < v <=> j <= count(v)
        /\ \A j \in 1 .. n : \E l \in L : sorted[j] = values[l]
    BY DEF InOrder
  <1>2. k + 1 \in 1 .. n /\ k \in Int
    BY <1>1
  <1>3. w \in Int
    BY <1>2, Ascending
  <1>4. w \in R
    BY <1>1, <1>2
  <1>5. \A i \in L : values[i] \in Int
    <2>1. \A i \in L : i \in 1 .. Len(values) /\ values[i] # NotFinite
      BY LenProperties DEF Latencies
    <2>2. \A i \in 1 .. Len(values) : values[i] \in Int \cup {NotFinite}
      BY ElementOfSeq
    <2> QED
      BY <2>1, <2>2
  <1>6. \A u \in Int : {i \in L : values[i] <= u} = {i \in L : values[i] < u + 1}
    <2> HIDE DEF L
    <2>1. \A u \in Int : \A i \in L : values[i] <= u <=> values[i] < u + 1
      BY <1>5
    <2> QED
      BY <2>1
  <1>7. \A v : count(v) \in Nat
    <2>1. L \in SUBSET (1 .. Len(values)) /\ Len(values) \in Nat
      BY LenProperties DEF Latencies
    <2>2. IsFiniteSet(1 .. Len(values))
      BY <2>1, FS_Interval
    <2> SUFFICES ASSUME NEW v PROVE count(v) \in Nat
      OBVIOUS
    <2>3. {i \in L : values[i] < v} \in SUBSET (1 .. Len(values))
      BY <2>1
    <2>4. IsFiniteSet({i \in L : values[i] < v})
      BY <2>2, <2>3, FS_Subset
    <2> QED
      BY <2>4, FS_CardinalityType
  <1>8. \A u \in Int : Chosen(u) <=> count(u) <= k /\ k < count(u + 1)
    BY <1>6
  <1>9. OrderStatistic(values, k) = CHOOSE u \in R : Chosen(u)
    BY DEF OrderStatistic
  <1>10. R \subseteq Int
    BY <1>5
  <1> HIDE DEF L, count, w, R, Chosen
  <1>11. \A v \in Int : w < v <=> k + 1 <= count(v)
    BY <1>1, <1>2 DEF w
  <1>12. Chosen(w)
    <2>1. ~ (w < w) /\ w < w + 1 /\ w + 1 \in Int
      BY <1>3
    <2>2. ~ (k + 1 <= count(w)) /\ k + 1 <= count(w + 1)
      BY <1>3, <1>11, <2>1
    <2>3. count(w) \in Nat /\ count(w + 1) \in Nat
      BY <1>7
    <2>4. count(w) <= k /\ k < count(w + 1)
      BY <1>2, <2>2, <2>3
    <2> QED
      BY <1>3, <1>8, <2>4
  <1>13. ASSUME NEW u \in R, Chosen(u) PROVE u = w
    <2>1. u \in Int /\ u + 1 \in Int
      BY <1>10
    <2>2. count(u) <= k /\ k < count(u + 1) /\ count(u) \in Nat /\ count(u + 1) \in Nat
      BY <1>7, <1>8, <1>13, <2>1
    <2>3. ~ (k + 1 <= count(u)) /\ k + 1 <= count(u + 1)
      BY <1>2, <2>2
    <2>4. ~ (w < u) /\ w < u + 1
      BY <1>11, <2>1, <2>3
    <2> QED
      BY <1>3, <2>1, <2>4
  <1> QED
    BY <1>4, <1>9, <1>12, <1>13 DEF w

\* The value at a rank in hundredths of a position, between its neighbours.
Interpolated(sorted, rank) ==
  100 * sorted[(rank \div 100) + 1]
  + (IF (rank % 100) = 0 THEN 0
     ELSE (rank % 100) * (sorted[(rank \div 100) + 2] - sorted[(rank \div 100) + 1]))

\* A rank lies at a sample, or between it and the next, which then exists.
LEMMA RankParts ==
  ASSUME NEW n \in Nat \ {0}, NEW rank \in 0 .. 100 * (n - 1)
  PROVE  /\ rank \div 100 \in Nat /\ rank % 100 \in 0 .. 99
         /\ rank = 100 * (rank \div 100) + (rank % 100)
         /\ (rank \div 100) + 1 \in 1 .. n
         /\ (rank % 100) # 0 => (rank \div 100) + 2 \in 1 .. n
  OBVIOUS

\* Interpolating between a and b grows with f and stays between them.
LEMMA Between ==
  ASSUME NEW a \in Int, NEW b \in Int, a <= b, NEW f \in 0 .. 99, NEW g \in f .. 99
  PROVE  /\ 100 * a <= 100 * a + f * (b - a)
         /\ 100 * a + f * (b - a) <= 100 * a + g * (b - a)
         /\ 100 * a + f * (b - a) <= 100 * b
         /\ 100 * a + f * (b - a) = (100 - f) * a + f * b
  <1> DEFINE d == b - a
  <1>1. d \in Nat /\ b = a + d
    OBVIOUS
  <1> HIDE DEF d
  <1>2. 0 <= f * d /\ f * d <= g * d /\ f * d <= 100 * d
    BY <1>1
  <1>3. 100 * a + f * d = (100 - f) * a + f * (a + d)
    BY <1>1
  <1>4. 100 * (a + d) = 100 * a + 100 * d
    BY <1>1
  <1>5. /\ f * d \in Int /\ g * d \in Int /\ 100 * d \in Int /\ 100 * a \in Int
    BY <1>1
  <1>6. /\ 100 * a <= 100 * a + f * d
        /\ 100 * a + f * d <= 100 * a + g * d
        /\ 100 * a + f * d <= 100 * (a + d)
    BY <1>2, <1>4, <1>5
  <1>7. b - a = d
    BY DEF d
  <1> QED
    BY <1>1, <1>3, <1>6, <1>7

\* Interpolation never leaves its interval, and grows with the rank.
LEMMA InterpolatedGrows ==
  ASSUME NEW sorted, NEW n \in Nat \ {0},
         \A i \in 1 .. n : sorted[i] \in Int,
         \A i, j \in 1 .. n : i <= j => sorted[i] <= sorted[j],
         NEW r \in 0 .. 100 * (n - 1), NEW s \in r .. 100 * (n - 1)
  PROVE  /\ Interpolated(sorted, r) \in Int
         /\ 100 * sorted[(r \div 100) + 1] <= Interpolated(sorted, r)
         /\ Interpolated(sorted, r) <= Interpolated(sorted, s)
  <1> DEFINE k == r \div 100
             f == r % 100
             l == s \div 100
             g == s % 100
             low == Interpolated(sorted, r)
             high == Interpolated(sorted, s)
  <1>1. /\ k \in Nat /\ f \in 0 .. 99 /\ r = 100 * k + f /\ k + 1 \in 1 .. n
        /\ f # 0 => k + 2 \in 1 .. n
    BY RankParts
  <1>2. s \in 0 .. 100 * (n - 1) /\ r <= s
    OBVIOUS
  <1>3. /\ l \in Nat /\ g \in 0 .. 99 /\ s = 100 * l + g /\ l + 1 \in 1 .. n
        /\ g # 0 => l + 2 \in 1 .. n
    BY <1>2, RankParts
  <1>4. low = 100 * sorted[k + 1] + (IF f = 0 THEN 0 ELSE f * (sorted[k + 2] - sorted[k + 1]))
    BY DEF Interpolated
  <1>5. high = 100 * sorted[l + 1] + (IF g = 0 THEN 0 ELSE g * (sorted[l + 2] - sorted[l + 1]))
    BY DEF Interpolated
  <1> HIDE DEF k, f, l, g, low, high
  <1>6. k < l \/ (k = l /\ f <= g)
    BY <1>1, <1>2, <1>3
  <1>7. /\ sorted[k + 1] \in Int /\ sorted[l + 1] \in Int
        /\ f # 0 => sorted[k + 2] \in Int /\ sorted[k + 1] <= sorted[k + 2]
        /\ g # 0 => sorted[l + 2] \in Int /\ sorted[l + 1] <= sorted[l + 2]
    <2>1. k + 1 <= k + 2 /\ l + 1 <= l + 2
      BY <1>1, <1>3
    <2> QED
      BY <1>1, <1>3, <2>1
  <1>8. /\ low \in Int /\ 100 * sorted[k + 1] <= low
        /\ f = 0 => low = 100 * sorted[k + 1]
        /\ f # 0 => low <= 100 * sorted[k + 2]
    <2>1. CASE f = 0
      BY <1>4, <1>7, <2>1
    <2>2. CASE f # 0
      <3> DEFINE a == sorted[k + 1]
                 b == sorted[k + 2]
      <3>1. a \in Int /\ b \in Int /\ a <= b /\ low = 100 * a + f * (b - a)
        BY <1>4, <1>7, <2>2
      <3> HIDE DEF a, b
      <3>2. f \in f .. 99 /\ f \in 0 .. 99
        BY <1>1
      <3>3. 100 * a <= 100 * a + f * (b - a) /\ 100 * a + f * (b - a) <= 100 * b
        BY <3>1, <3>2, Between
      <3>4. low \in Int
        BY <3>1, <3>2
      <3> QED
        BY <2>2, <3>1, <3>3, <3>4 DEF a, b
    <2> QED
      BY <2>1, <2>2
  <1>9. high \in Int /\ 100 * sorted[l + 1] <= high
    <2>1. CASE g = 0
      BY <1>5, <1>7, <2>1
    <2>2. CASE g # 0
      <3> DEFINE a == sorted[l + 1]
                 b == sorted[l + 2]
      <3>1. a \in Int /\ b \in Int /\ a <= b /\ high = 100 * a + g * (b - a)
        BY <1>5, <1>7, <2>2
      <3> HIDE DEF a, b
      <3>2. g \in g .. 99 /\ g \in 0 .. 99
        BY <1>3
      <3>3. 100 * a <= 100 * a + g * (b - a)
        BY <3>1, <3>2, Between
      <3>4. high \in Int
        BY <3>1, <3>2
      <3> QED
        BY <3>1, <3>3, <3>4 DEF a
    <2> QED
      BY <2>1, <2>2
  <1>10. low <= high
    <2>1. CASE k < l
      <3>1. k + 1 <= l + 1 /\ k + 2 <= l + 1
        BY <1>1, <1>3, <2>1
      <3>2. sorted[k + 1] <= sorted[l + 1] /\ (f # 0 => sorted[k + 2] <= sorted[l + 1])
        BY <1>1, <1>3, <3>1
      <3>3. low <= 100 * sorted[l + 1]
        BY <1>7, <1>8, <3>2
      <3> QED
        BY <1>7, <1>8, <1>9, <3>3
    <2>2. CASE k = l /\ f <= g
      <3>1. CASE f = 0
        BY <1>8, <1>9, <2>2, <3>1
      <3>2. CASE f # 0
        <4> DEFINE a == sorted[k + 1]
                   b == sorted[k + 2]
        <4>1. g # 0
          BY <1>1, <1>3, <2>2, <3>2
        <4>2. a \in Int /\ b \in Int /\ a <= b /\ low = 100 * a + f * (b - a)
          BY <1>4, <1>7, <3>2
        <4>3. high = 100 * a + g * (b - a)
          BY <1>5, <2>2, <4>1
        <4>4. f \in 0 .. 99 /\ g \in f .. 99
          BY <1>1, <1>3, <2>2
        <4> HIDE DEF a, b
        <4>5. 100 * a + f * (b - a) <= 100 * a + g * (b - a)
          BY <4>2, <4>4, Between
        <4> QED
          BY <4>2, <4>3, <4>5
      <3> QED
        BY <3>1, <3>2
    <2> QED
      BY <1>6, <2>1, <2>2
  <1> QED
    BY <1>8, <1>10 DEF low, high, k

\* The percentile of the code is the one of the definition.
IsRank(q, n) == q \in Int /\ q * (n - 1) \in 0 .. 100 * (n - 1)

PercentileAt(values, sorted, n, q) ==
  /\ percentile(sorted, q) = Interpolated(sorted, q * (n - 1))
  /\ ExactPercentile(values, q) = Interpolated(sorted, q * (n - 1))

\* The function percentile is the percentile of the definition.
LEMMA PercentileIs ==
  ASSUME NEW values \in Seq(Int \cup {NotFinite}), NEW sorted, NEW n,
         InOrder(values, sorted, n), n # 0, NEW q, IsRank(q, n)
  PROVE  PercentileAt(values, sorted, n, q)
  <1> DEFINE rank == q * (n - 1)
             k == rank \div 100
             f == rank % 100
             a == sorted[k + 1]
             b == sorted[k + 2]
  <1>1. /\ n \in Nat \ {0} /\ n = Cardinality(Latencies(values)) /\ Len(sorted) = n
    BY DEF InOrder
  <1>2. rank \in 0 .. 100 * (n - 1)
    BY DEF IsRank
  <1>3. percentile(sorted, q)
          = IF n = 1 THEN 100 * sorted[1]
            ELSE 100 * sorted[k + 1] + (sorted[((rank + 99) \div 100) + 1] - sorted[k + 1])
                                       * (rank - 100 * k)
    BY <1>1 DEF percentile
  <1>4. ExactPercentile(values, q)
          = (100 - f) * OrderStatistic(values, k)
            + (IF f = 0 THEN 0 ELSE f * OrderStatistic(values, k + 1))
    BY <1>1 DEF ExactPercentile
  <1>5. Interpolated(sorted, rank) = 100 * a + (IF f = 0 THEN 0 ELSE f * (b - a))
    BY DEF Interpolated
  <1>6. n = 1 => rank = 0
    BY <1>1, <1>2
  <1> HIDE DEF rank
  <1>7. /\ k \in Nat /\ f \in 0 .. 99 /\ rank = 100 * k + f /\ k + 1 \in 1 .. n
        /\ f # 0 => k + 2 \in 1 .. n
    BY <1>1, <1>2, RankParts
  <1>8. f = 0 => (rank + 99) \div 100 = k
    BY <1>2
  <1>9. f # 0 => (rank + 99) \div 100 = k + 1
    BY <1>2
  <1>10. rank - 100 * k = f /\ (n = 1 => k = 0 /\ f = 0)
    BY <1>1, <1>2, <1>6, <1>7
  <1> HIDE DEF k, f
  <1>11. k \in 0 .. n - 1 /\ (f # 0 => k + 1 \in 0 .. n - 1) /\ (k + 1) + 1 = k + 2
    BY <1>1, <1>7
  <1>12. /\ \A i \in 1 .. n : sorted[i] \in Int
         /\ \A i, j \in 1 .. n : i <= j => sorted[i] <= sorted[j]
    BY Ascending
  <1>13. OrderStatistic(values, k) = a /\ (f # 0 => OrderStatistic(values, k + 1) = b)
    <2>1. OrderStatistic(values, k) = sorted[k + 1]
      BY <1>11, OrderStatisticIs
    <2>2. f # 0 => OrderStatistic(values, k + 1) = sorted[(k + 1) + 1]
      BY <1>11, OrderStatisticIs
    <2> QED
      BY <1>11, <2>1, <2>2
  <1>14. a \in Int
    BY <1>7, <1>12
  <1>15. CASE f = 0
    <2> HIDE DEF a, b
    <2>1. Interpolated(sorted, rank) = 100 * a
      BY <1>5, <1>14, <1>15
    <2>2. ExactPercentile(values, q) = 100 * a
      BY <1>4, <1>13, <1>14, <1>15
    <2>3. percentile(sorted, q) = 100 * a
      <3>1. CASE n = 1
        <4>1. 0 + 1 = 1
          OBVIOUS
        <4> QED
          BY <1>3, <1>10, <3>1, <4>1 DEF a
      <3>2. CASE n # 1
        <4>1. percentile(sorted, q) = 100 * a + (a - a) * f
          BY <1>3, <1>8, <1>10, <1>15, <3>2 DEF a
        <4> QED
          BY <1>14, <1>15, <4>1
      <3> QED
        BY <3>1, <3>2
    <2> QED
      BY <2>1, <2>2, <2>3 DEF rank, PercentileAt
  <1>16. CASE f # 0
    <2>1. b \in Int /\ a <= b
      <3>1. k + 1 <= k + 2
        BY <1>7
      <3> QED
        BY <1>7, <1>12, <1>16, <3>1
    <2>2. percentile(sorted, q) = 100 * a + (b - a) * f
      BY <1>3, <1>9, <1>10, <1>11, <1>16 DEF a, b
    <2> HIDE DEF a, b
    <2>3. Interpolated(sorted, rank) = 100 * a + f * (b - a)
      BY <1>5, <1>16
    <2>4. ExactPercentile(values, q) = (100 - f) * a + f * b
      BY <1>4, <1>13, <1>16
    <2>5. (b - a) * f = f * (b - a)
      BY <1>7, <1>14, <2>1
    <2>6. 100 * a + f * (b - a) = (100 - f) * a + f * b
      <3>1. f \in Int
        BY <1>7
      <3> QED
        BY <1>14, <2>1, <3>1
    <2> QED
      BY <2>2, <2>3, <2>4, <2>5, <2>6 DEF rank, PercentileAt
  <1> QED
    BY <1>15, <1>16

\* A sum of n numbers is between n times the least and n times the greatest.
LEMMA TotalBounded ==
  ASSUME NEW s \in Seq(Int), NEW low \in Int, NEW high \in Int,
         \A i \in 1 .. Len(s) : low <= s[i] /\ s[i] <= high
  PROVE  Len(s) * low <= Total(s) /\ Total(s) <= Len(s) * high
  <1> DEFINE n == Len(s)
  <1>1. n \in Nat /\ \A i \in 1 .. n : s[i] \in Int
    BY LenProperties, ElementOfSeq
  <1>2. PICK f : Sums(s, f) /\ Total(s) = f[n]
    BY TotalLoop
  <1>3. f[0] = 0 /\ \A i \in 1 .. n : f[i - 1] \in Int /\ f[i] = f[i - 1] + s[i]
    BY <1>2 DEF Sums
  <1> DEFINE T == {i \in Nat : i <= n => i * low <= f[i] /\ f[i] <= i * high}
  <1> HIDE DEF n
  <1>4. 0 \in T /\ T \in SUBSET Nat
    BY <1>3
  <1>5. ASSUME NEW i \in T PROVE i + 1 \in T
    <2>1. ASSUME i + 1 <= n
          PROVE  (i + 1) * low <= f[i + 1] /\ f[i + 1] <= (i + 1) * high
      <3>1. i + 1 \in 1 .. n /\ (i + 1) - 1 = i /\ i <= n /\ i \in Nat
        BY <1>1, <2>1
      <3>2. /\ f[i] \in Int /\ f[i + 1] = f[i] + s[i + 1] /\ s[i + 1] \in Int
            /\ low <= s[i + 1] /\ s[i + 1] <= high
        BY <1>1, <1>3, <3>1 DEF n
      <3>3. i * low <= f[i] /\ f[i] <= i * high
        BY <3>1
      <3>4. (i + 1) * low = i * low + low /\ (i + 1) * high = i * high + high
        BY <3>1
      <3>5. i * low \in Int /\ i * high \in Int
        BY <3>1
      <3> QED
        BY <3>2, <3>3, <3>4, <3>5
    <2> QED
      BY <2>1
  <1> HIDE DEF T
  <1>6. T = Nat
    BY <1>4, <1>5, Induction
  <1>7. n \in T /\ n <= n
    BY <1>1, <1>6
  <1>8. n * low <= f[n] /\ f[n] <= n * high
    BY <1>7 DEF T
  <1> QED
    BY <1>2, <1>8 DEF n

\* The summary, field by field.
LEMMA SummaryIs ==
  ASSUME NEW values \in Seq(Int \cup {NotFinite}), NEW n, NEW out,
         n = Cardinality(Latencies(values)), out = snapshot(add_samples(values))
  PROVE  LET total == Total(Masked(values))
             squares == Total(Squared(Masked(values)))
             kept == {values[i] : i \in Latencies(values)}
         IN  /\ out.sample_count = n
             /\ n > 0 =>
                  /\ out.p50 = ExactPercentile(values, 50)
                  /\ out.p95 = ExactPercentile(values, 95)
                  /\ out.p99 = ExactPercentile(values, 99)
                  /\ 100 * out.min <= out.p50 /\ out.p50 <= out.p95
                  /\ out.p95 <= out.p99 /\ out.p99 <= 100 * out.max
                  /\ out.min \in kept /\ out.max \in kept
                  /\ out.total = total
                  /\ n * out.min <= out.total /\ out.total <= n * out.max
                  /\ out.deviation = n * (n * squares - total * total)
                  /\ CapturePercentile(Sorted(add_samples(values)), 95) \in
                       {100 * OrderStatistic(values, k) : k \in 0 .. n - 1}
                         \cap 0 .. out.p95
  <1> DEFINE K == add_samples(values)
             S == Sorted(K)
             t == Total(Masked(values))
             squares == Total(Squared(Masked(values)))
             kept == {values[i] : i \in Latencies(values)}
  <1>1. /\ InOrder(values, S, Len(K)) /\ Total(S) = Total(K) /\ Total(S) = t
        /\ Total(Squared(S)) = squares
    BY SortedOrdered
  <1>2. Len(K) = n /\ n \in Nat
    BY <1>1 DEF InOrder
  <1>3. InOrder(values, S, n) /\ S \in Seq(Int) /\ Len(S) = n
    BY <1>1, <1>2 DEF InOrder
  <1> HIDE DEF K
  <1>4. CASE n = 0
    <2>1. out.sample_count = 0
      BY <1>2, <1>4 DEF snapshot, K
    <2> QED
      BY <1>4, <2>1
  <1>5. CASE n # 0
    <2> DEFINE q50 == Interpolated(S, 50 * (n - 1))
               q95 == Interpolated(S, 95 * (n - 1))
               q99 == Interpolated(S, 99 * (n - 1))
               first == S[1]
               last == S[n]
    <2>1. /\ out.sample_count = n /\ out.min = first /\ out.max = last
          /\ out.total = Total(S)
          /\ out.p50 = percentile(S, 50) /\ out.p95 = percentile(S, 95)
          /\ out.p99 = percentile(S, 99)
          /\ out.deviation = Total([i \in 1 .. n |-> (n * S[i] - Total(S)) * (n * S[i] - Total(S))])
      <3> DEFINE D == Total([i \in 1 .. n |-> (n * S[i] - Total(S)) * (n * S[i] - Total(S))])
      <3>1. out = [sample_count |-> n, min |-> S[1], total |-> Total(S),
                   p50 |-> percentile(S, 50), p95 |-> percentile(S, 95),
                   p99 |-> percentile(S, 99), max |-> S[n], deviation |-> D]
        BY <1>2, <1>5 DEF snapshot, K
      <3> HIDE DEF S, D
      <3>2. /\ out.sample_count = n /\ out.min = S[1] /\ out.max = S[n]
            /\ out.total = Total(S)
            /\ out.p50 = percentile(S, 50) /\ out.p95 = percentile(S, 95)
            /\ out.p99 = percentile(S, 99) /\ out.deviation = D
        BY <3>1
      <3> QED
        BY <3>2 DEF D
    <2>2. /\ n \in Nat \ {0} /\ 1 \in 1 .. n /\ n \in 1 .. n /\ \A i \in 1 .. n : 1 <= i /\ i <= n
          /\ 0 \in 0 .. 100 * (n - 1) /\ 50 * (n - 1) \in 0 .. 100 * (n - 1)
          /\ 95 * (n - 1) \in 0 .. 100 * (n - 1) /\ 99 * (n - 1) \in 0 .. 100 * (n - 1)
          /\ 100 * (n - 1) \in 0 .. 100 * (n - 1)
          /\ 50 * (n - 1) \in 0 .. 100 * (n - 1) /\ 95 * (n - 1) \in 50 * (n - 1) .. 100 * (n - 1)
          /\ 99 * (n - 1) \in 95 * (n - 1) .. 100 * (n - 1)
          /\ 100 * (n - 1) \in 99 * (n - 1) .. 100 * (n - 1)
      BY <1>2, <1>5
    <2>3. /\ \A i \in 1 .. n : S[i] \in Int /\ S[i] >= 0
          /\ \A i, j \in 1 .. n : i <= j => S[i] <= S[j]
      <3> HIDE DEF S
      <3> QED
        BY <1>3, Ascending
    <2>4. /\ out.p50 = q50 /\ out.p95 = q95 /\ out.p99 = q99
          /\ out.p50 = ExactPercentile(values, 50)
          /\ out.p95 = ExactPercentile(values, 95)
          /\ out.p99 = ExactPercentile(values, 99)
      <3> HIDE DEF S
      <3>1. /\ percentile(S, 50) = Interpolated(S, 50 * (n - 1))
            /\ ExactPercentile(values, 50) = Interpolated(S, 50 * (n - 1))
            /\ percentile(S, 95) = Interpolated(S, 95 * (n - 1))
            /\ ExactPercentile(values, 95) = Interpolated(S, 95 * (n - 1))
            /\ percentile(S, 99) = Interpolated(S, 99 * (n - 1))
            /\ ExactPercentile(values, 99) = Interpolated(S, 99 * (n - 1))
        <4>1. IsRank(50, n) /\ IsRank(95, n) /\ IsRank(99, n)
          BY <2>2 DEF IsRank
        <4>2. InOrder(values, S, n) /\ n # 0
          BY <1>3, <1>5
        <4> HIDE DEF q50, q95, q99, first, last, t, squares, kept
        <4>3. /\ PercentileAt(values, S, n, 50)
              /\ PercentileAt(values, S, n, 95)
              /\ PercentileAt(values, S, n, 99)
          BY <4>1, <4>2, PercentileIs
        <4> QED
          BY <4>3 DEF PercentileAt
      <3>2. percentile(S, 50) = q50 /\ ExactPercentile(values, 50) = q50
        BY <3>1
      <3>3. percentile(S, 95) = q95 /\ ExactPercentile(values, 95) = q95
        BY <3>1
      <3>4. percentile(S, 99) = q99 /\ ExactPercentile(values, 99) = q99
        BY <3>1
      <3> HIDE DEF q50, q95, q99
      <3> QED
        BY <2>1, <3>2, <3>3, <3>4
    <2> DEFINE Grows(r, s) ==
                 /\ Interpolated(S, r) \in Int
                 /\ 100 * S[(r \div 100) + 1] <= Interpolated(S, r)
                 /\ Interpolated(S, r) <= Interpolated(S, s)
    <2>5. \A r \in 0 .. 100 * (n - 1) : \A s \in r .. 100 * (n - 1) : Grows(r, s)
      <3> HIDE DEF S
      <3>1. \A i \in 1 .. n : S[i] \in Int
        BY <2>3
      <3> QED
        BY <2>2, <2>3, <3>1, InterpolatedGrows
    <2>6. Grows(0, 50 * (n - 1)) /\ Grows(50 * (n - 1), 95 * (n - 1))
          /\ Grows(95 * (n - 1), 99 * (n - 1)) /\ Grows(99 * (n - 1), 100 * (n - 1))
      <3> HIDE DEF Grows
      <3>1. Grows(0, 50 * (n - 1))
        <4>1. 0 \in 0 .. 100 * (n - 1) /\ 50 * (n - 1) \in 0 .. 100 * (n - 1)
          BY <2>2
        <4> QED
          BY <2>5, <4>1
      <3>2. Grows(50 * (n - 1), 95 * (n - 1))
        <4>1. 50 * (n - 1) \in 0 .. 100 * (n - 1) /\ 95 * (n - 1) \in 50 * (n - 1) .. 100 * (n - 1)
          BY <2>2
        <4> QED
          BY <2>5, <4>1
      <3>3. Grows(95 * (n - 1), 99 * (n - 1))
        <4>1. 95 * (n - 1) \in 0 .. 100 * (n - 1) /\ 99 * (n - 1) \in 95 * (n - 1) .. 100 * (n - 1)
          BY <2>2
        <4> QED
          BY <2>5, <4>1
      <3>4. Grows(99 * (n - 1), 100 * (n - 1))
        <4>1. 99 * (n - 1) \in 0 .. 100 * (n - 1) /\ 100 * (n - 1) \in 99 * (n - 1) .. 100 * (n - 1)
          BY <2>2
        <4> QED
          BY <2>5, <4>1
      <3> QED
        BY <3>1, <3>2, <3>3, <3>4
    <2>7. Interpolated(S, 0) = 100 * first
      <3>1. 0 \div 100 = 0 /\ (0 % 100) = 0 /\ 0 + 1 = 1
        OBVIOUS
      <3> HIDE DEF S
      <3>2. S[1] \in Int
        BY <2>2, <2>3
      <3> QED
        BY <3>1, <3>2 DEF Interpolated
    <2>8. Interpolated(S, 100 * (n - 1)) = 100 * last
      <3>1. (100 * (n - 1)) \div 100 = n - 1 /\ ((100 * (n - 1)) % 100) = 0 /\ (n - 1) + 1 = n
        BY <1>2
      <3> HIDE DEF S
      <3>2. S[n] \in Int
        BY <2>2, <2>3
      <3> QED
        BY <3>1, <3>2 DEF Interpolated
    <2>9. /\ 100 * first <= q50 /\ q50 <= q95 /\ q95 <= q99 /\ q99 <= 100 * last
          /\ 100 * S[((95 * (n - 1)) \div 100) + 1] <= q95 /\ q95 \in Int
      BY <2>6, <2>7, <2>8
    <2>10. first \in kept /\ last \in kept
      <3> HIDE DEF S
      <3>1. \A j \in 1 .. n : \E l \in Latencies(values) : S[j] = values[l]
        BY <1>3 DEF InOrder
      <3> QED
        BY <2>2, <3>1
    <2>11. n * first <= Total(S) /\ Total(S) <= n * last
      <3> HIDE DEF S
      <3>1. \A i \in 1 .. Len(S) : first <= S[i] /\ S[i] <= last
        BY <1>3, <2>2, <2>3
      <3>2. first \in Int /\ last \in Int
        BY <2>2, <2>3
      <3> HIDE DEF first, last
      <3>3. Len(S) * first <= Total(S) /\ Total(S) <= Len(S) * last
        BY <1>3, <3>1, <3>2, TotalBounded
      <3> QED
        BY <1>3, <3>3
    <2>12. out.deviation = n * (n * squares - t * t)
      <3> HIDE DEF S
      <3>1. t \in Int /\ squares \in Int
        <4>1. Squared(S) \in Seq(Int)
          BY <1>3, SquaredType
        <4>2. Total(S) \in Int /\ Total(Squared(S)) \in Int
          BY <1>3, <4>1, TotalLoop
        <4> QED
          BY <1>1, <4>2
      <3>2. out.deviation = Total(Deviations(S, n, t))
        BY <1>1, <1>3, <2>1 DEF Deviations
      <3> HIDE DEF t, squares
      <3>3. Total(Deviations(S, n, t))
              = (n * n) * Total(Squared(S)) - 2 * (n * t) * Total(S) + Len(S) * (t * t)
        <4>1. n \in Int /\ t \in Int /\ S \in Seq(Int)
          BY <1>2, <1>3, <3>1
        <4> QED
          BY <4>1, DeviationsSum
      <3>4. (n * n) * squares - 2 * (n * t) * t + n * (t * t) = n * (n * squares - t * t)
        <4> DEFINE u == n * squares
                   w == t * t
        <4>1. n \in Int /\ u \in Int /\ w \in Int
          BY <1>2, <3>1
        <4>2. (n * n) * squares = n * u /\ (n * t) * t = n * w
          BY <1>2, <3>1
        <4>3. 2 * (n * t) * t = 2 * ((n * t) * t)
          BY <1>2, <3>1
        <4> HIDE DEF u, w
        <4>4. n * u - 2 * (n * w) + n * w = n * (u - w)
          BY <4>1
        <4> QED
          BY <4>2, <4>3, <4>4 DEF u, w
      <3>5. Total(Squared(S)) = squares /\ Total(S) = t /\ Len(S) = n
        BY <1>1, <1>3
      <3> QED
        BY <3>2, <3>3, <3>4, <3>5
    <2>13. CapturePercentile(S, 95) \in
             {100 * OrderStatistic(values, k) : k \in 0 .. n - 1} \cap 0 .. q95
      <3> DEFINE k == (95 * (n - 1)) \div 100
      <3>1. k \in 0 .. n - 1 /\ k + 1 \in 1 .. n
        BY <1>2, <1>5
      <3>2. CapturePercentile(S, 95) = 100 * S[k + 1]
        BY <1>3 DEF CapturePercentile
      <3>3. 100 * S[k + 1] <= q95 /\ q95 \in Int
        BY <2>9
      <3> HIDE DEF S, k, q95
      <3>4. OrderStatistic(values, k) = S[k + 1]
        BY <1>3, <3>1, OrderStatisticIs
      <3>5. S[k + 1] \in Int /\ S[k + 1] >= 0
        BY <2>3, <3>1
      <3>6. 100 * S[k + 1] \in 0 .. q95
        BY <3>3, <3>5
      <3> QED
        BY <3>1, <3>2, <3>4, <3>6
    <2> HIDE DEF q50, q95, q99, first, last, t, squares, kept
    <2>14. /\ 100 * out.min <= out.p50 /\ out.p50 <= out.p95
           /\ out.p95 <= out.p99 /\ out.p99 <= 100 * out.max
      BY <2>1, <2>4, <2>9
    <2>15. out.total = t /\ n * out.min <= out.total /\ out.total <= n * out.max
      BY <1>1, <2>1, <2>11
    <2>16. out.min \in kept /\ out.max \in kept
      BY <2>1, <2>10
    <2>17. CapturePercentile(S, 95) \in
             {100 * OrderStatistic(values, k) : k \in 0 .. n - 1} \cap 0 .. out.p95
      BY <2>4, <2>13
    <2> QED
      BY <2>1, <2>4, <2>12, <2>14, <2>15, <2>16, <2>17 DEF t, squares, kept, K
  <1> QED
    BY <1>4, <1>5

\* A summary as SummaryExact has it.
Summarised(values, out) ==
  LET n == Cardinality(Latencies(values))
      latency(i) == IF i \in Latencies(values) THEN values[i] ELSE 0
      total == Total([i \in DOMAIN values |-> latency(i)])
      squares == Total([i \in DOMAIN values |-> latency(i) * latency(i)])
  IN  /\ out.sample_count = n
      /\ n > 0 =>
           /\ out.p50 = ExactPercentile(values, 50)
           /\ out.p95 = ExactPercentile(values, 95)
           /\ out.p99 = ExactPercentile(values, 99)
           /\ 100 * out.min <= out.p50 /\ out.p50 <= out.p95
           /\ out.p95 <= out.p99 /\ out.p99 <= 100 * out.max
           /\ {out.min, out.max} \subseteq {latency(i) : i \in Latencies(values)}
           /\ out.total = total
           /\ n * out.min <= out.total /\ out.total <= n * out.max
           /\ out.deviation = n * (n * squares - total * total)
           /\ CapturePercentile(Sorted(add_samples(values)), 95) \in
                {100 * OrderStatistic(values, k) : k \in 0 .. n - 1} \cap 0 .. out.p95

\* The function snapshot makes the summary of the definition.
LEMMA SnapshotSummarises ==
  ASSUME NEW values \in Seq(Int \cup {NotFinite})
  PROVE  Summarised(values, snapshot(add_samples(values)))
  <1> DEFINE n == Cardinality(Latencies(values))
             out == snapshot(add_samples(values))
             latency(i) == IF i \in Latencies(values) THEN values[i] ELSE 0
             masked == [i \in DOMAIN values |-> latency(i)]
             squared == [i \in DOMAIN values |-> latency(i) * latency(i)]
             kept == {values[i] : i \in Latencies(values)}
  <1>1. masked = Masked(values)
    BY DEF Masked, LatencyOrZero
  <1>2. squared = Squared(Masked(values))
    <2>1. Len(Masked(values)) = Len(values) /\ DOMAIN values = 1 .. Len(values)
      BY MaskedType, LenProperties
    <2>2. \A j \in DOMAIN values : Masked(values)[j] = latency(j)
      BY <1>1
    <2> HIDE DEF latency
    <2>3. Squared(Masked(values)) = [i \in DOMAIN values |-> Masked(values)[i] * Masked(values)[i]]
      BY <2>1 DEF Squared
    <2> QED
      BY <2>2, <2>3
  <1>3. {latency(i) : i \in Latencies(values)} = kept
    OBVIOUS
  <1> HIDE DEF n, out, kept
  <1>4. /\ out.sample_count = n
        /\ n > 0 =>
             /\ out.p50 = ExactPercentile(values, 50)
             /\ out.p95 = ExactPercentile(values, 95)
             /\ out.p99 = ExactPercentile(values, 99)
             /\ 100 * out.min <= out.p50 /\ out.p50 <= out.p95
             /\ out.p95 <= out.p99 /\ out.p99 <= 100 * out.max
             /\ out.min \in kept /\ out.max \in kept
             /\ out.total = Total(Masked(values))
             /\ n * out.min <= out.total /\ out.total <= n * out.max
             /\ out.deviation = n * (n * Total(Squared(Masked(values)))
                                     - Total(Masked(values)) * Total(Masked(values)))
             /\ CapturePercentile(Sorted(add_samples(values)), 95) \in
                  {100 * OrderStatistic(values, k) : k \in 0 .. n - 1} \cap 0 .. out.p95
    BY SummaryIs DEF n, out, kept
  <1>5. n > 0 => {out.min, out.max} \subseteq kept
    BY <1>4
  <1>6. /\ out.sample_count = n
        /\ n > 0 =>
             /\ out.p50 = ExactPercentile(values, 50)
             /\ out.p95 = ExactPercentile(values, 95)
             /\ out.p99 = ExactPercentile(values, 99)
             /\ 100 * out.min <= out.p50 /\ out.p50 <= out.p95
             /\ out.p95 <= out.p99 /\ out.p99 <= 100 * out.max
             /\ {out.min, out.max} \subseteq {latency(i) : i \in Latencies(values)}
             /\ out.total = Total(masked)
             /\ n * out.min <= out.total /\ out.total <= n * out.max
             /\ out.deviation = n * (n * Total(squared) - Total(masked) * Total(masked))
             /\ CapturePercentile(Sorted(add_samples(values)), 95) \in
                  {100 * OrderStatistic(values, k) : k \in 0 .. n - 1} \cap 0 .. out.p95
    <2> HIDE DEF masked, squared, latency
    <2> QED
      BY <1>1, <1>2, <1>3, <1>4, <1>5
  <1> QED
    BY <1>6, Zenon DEF Summarised, n, out

\* The summary that LatencyStats makes of any samples, in any order, is the one
\* they have by definition: its percentiles interpolate between the order
\* statistics, its jitter is the population standard deviation.
THEOREM SummaryExactHolds == Spec => []SummaryExact
  <1>1. Init => SummaryExact
    BY NothingCalled DEF SummaryExact
  <1>2. SummaryExact /\ [Next]_call => SummaryExact'
    <2> SUFFICES ASSUME SummaryExact, Next \/ UNCHANGED call
                 PROVE  SummaryExact'
      OBVIOUS
    <2>1. CASE Others("latency")
      <3>1. CASE call' = call
        BY <3>1 DEF SummaryExact
      <3>2. CASE call'.of # "latency"
        BY <3>2 DEF SummaryExact
      <3> QED
        BY <2>1, <3>1, <3>2 DEF Others
    <2>2. CASE CallLatency
      <3>1. PICK n \in 0 .. MaxSamples : \E values \in [1 .. n -> Samples] :
              Called("latency", values, snapshot(add_samples(values)))
        BY <2>2 DEF CallLatency
      <3>2. PICK values \in [1 .. n -> Samples] :
              Called("latency", values, snapshot(add_samples(values)))
        BY <3>1
      <3>3. values \in Seq(Int \cup {NotFinite})
        <4>1. n \in Nat /\ Samples \subseteq Int \cup {NotFinite}
          BY InputsAssumption
        <4>2. values \in [1 .. n -> Int \cup {NotFinite}]
          BY <4>1
        <4> QED
          BY <4>1, <4>2, FunctionIsSeq
      <3>4. call'.in = values /\ call'.out = snapshot(add_samples(values))
        BY <3>2 DEF Called
      <3>5. Summarised(call'.in, call'.out)
        BY <3>3, <3>4, SnapshotSummarises
      <3> QED
        BY <3>5, Zenon DEF SummaryExact, Summarised
    <2> QED
      BY <2>1, <2>2, NextCall
  <1> QED
    BY <1>1, <1>2, PTL DEF Spec
=============================================================================

----------------------------- MODULE PathProofs -----------------------------
(***************************************************************************)
(* The two ways to look up a path (PathTraversal, src/traverse_path.rs)    *)
(* lead to the same node at the same cost, for every byte width and every  *)
(* length of a small atom.                                                 *)
(***************************************************************************)
EXTENDS PathTraversal, EncodingLemmas

\* The powers of two, and the number of bits of a small atom.
Two(k) == 2^k
Width == SMALL_LEN * BITS

LEMMA TwoFacts ==
  /\ Two(0) = 1
  /\ \A k \in 0 .. Width : Two(k) \in Nat \ {0}
  /\ \A k \in 1 .. Width : Two(k) = Two(k - 1) * 2
BY PowersOfTwo DEF Two, Width

LEMMA WidthFacts ==
  /\ BITS \in Nat /\ BITS > 0 /\ Width \in Nat /\ BITS <= Width
  /\ BYTE = Two(BITS)
  /\ \A k \in 0 .. SMALL_LEN : k * BITS \in 0 .. Width
<1>1. BITS \in Nat /\ BITS > 0 /\ BYTE = Two(BITS)
  BY BitsAssumption DEF Two
<1>2. Width \in Nat
  BY <1>1, ByteFacts DEF Width
<1>3. BITS <= Width
  BY <1>1, ByteFacts, ProductGrows DEF Width
<1>4. ASSUME NEW k \in 0 .. SMALL_LEN PROVE k * BITS \in 0 .. Width
  <2>1. k \in Nat /\ SMALL_LEN \in Nat /\ k <= SMALL_LEN
    BY ByteFacts
  <2>2. k * BITS <= SMALL_LEN * BITS /\ k * BITS \in Nat
    BY <1>1, <2>1, ProductMonotone
  <2>3. QED
    BY <1>2, <2>2 DEF Width
<1>5. QED
  BY <1>1, <1>2, <1>3, <1>4

LEMMA TwoAdd ==
  ASSUME NEW j \in Nat, NEW k \in Nat, j + k <= Width
  PROVE  Two(j + k) = Two(j) * Two(k)
<1> DEFINE S == {i \in Nat : Two(j + i) = Two(j) * Two(i)}
<1>0. j \in 0 .. Width /\ k \in 0 .. Width /\ Width \in Nat
  BY WidthFacts
<1>1. 0 \in S
  <2>1. Two(j) \in Nat /\ j + 0 = j
    BY <1>0, TwoFacts
  <2>2. Two(j) * 1 = Two(j)
    BY <2>1
  <2>3. QED
    BY <2>1, <2>2, TwoFacts
<1>2. ASSUME NEW i \in 0 .. k - 1, i \in S PROVE i + 1 \in S
  <2>1. /\ j + (i + 1) \in 1 .. Width /\ (j + (i + 1)) - 1 = j + i
        /\ i + 1 \in 1 .. Width /\ (i + 1) - 1 = i /\ i + 1 \in Nat
        /\ i \in 0 .. Width
    BY <1>0
  <2>2. Two(j + (i + 1)) = Two(j + i) * 2 /\ Two(i + 1) = Two(i) * 2
        /\ Two(j) \in Nat /\ Two(i) \in Nat /\ Two(j + i) = Two(j) * Two(i)
    BY <1>0, <1>2, <2>1, TwoFacts
  <2> DEFINE x == Two(j)
             y == Two(i)
  <2>3. x \in Nat /\ y \in Nat /\ Two(j + (i + 1)) = (x * y) * 2 /\ Two(i + 1) = y * 2
    BY <2>2
  <2> HIDE DEF x, y
  <2>4. (x * y) * 2 = x * (y * 2)
    BY <2>3
  <2>5. QED
    BY <2>1, <2>3, <2>4 DEF x
<1>3. \A i \in 0 .. k : i \in S
  <2> HIDE DEF S
  <2>1. QED
    BY <1>1, <1>2, StepInduction
<1>4. QED
  BY <1>3

LEMMA TwoMonotone ==
  ASSUME NEW k \in 0 .. Width, NEW j \in 0 .. k
  PROVE  Two(j) <= Two(k)
<1>1. j \in Nat /\ k - j \in Nat /\ j + (k - j) = k /\ j \in 0 .. Width
      /\ k - j \in 0 .. Width /\ j + (k - j) <= Width
  BY WidthFacts
<1> DEFINE x == Two(j)
           y == Two(k - j)
<1>2. x \in Nat /\ y \in Nat \ {0}
  BY <1>1, TwoFacts
<1>3. Two(k) = x * y
  BY <1>1, TwoAdd
<1> HIDE DEF x, y
<1>4. y * x >= x /\ y * x = x * y
  BY <1>2, ProductGrows
<1>5. x * y \in Nat
  BY <1>2
<1>6. QED
  BY <1>2, <1>3, <1>4, <1>5 DEF x

LEMMA PowIsTwo ==
  ASSUME NEW k \in 0 .. SMALL_LEN
  PROVE  Pow(k) = Two(k * BITS)
<1> DEFINE S == {i \in Nat : Pow(i) = Two(i * BITS)}
<1>1. 0 \in S
  BY PowFacts, TwoFacts, WidthFacts
<1>2. ASSUME NEW i \in 0 .. SMALL_LEN - 1, i \in S PROVE i + 1 \in S
  <2>1. i + 1 \in 1 .. SMALL_LEN /\ (i + 1) - 1 = i /\ i + 1 \in Nat
        /\ i \in 0 .. SMALL_LEN /\ i + 1 \in 0 .. SMALL_LEN
    BY ByteFacts
  <2> DEFINE x == i * BITS
             y == (i + 1) * BITS
  <2>2. x \in 0 .. Width /\ y \in 0 .. Width
    BY <2>1, WidthFacts
  <2>3. y = x + BITS
    BY <2>1, WidthFacts
  <2>4. Pow(i + 1) = Two(x) * Two(BITS)
    BY <1>2, <2>1, PowFacts, WidthFacts
  <2> HIDE DEF x, y
  <2>5. Two(x + BITS) = Two(x) * Two(BITS)
    BY <2>2, <2>3, WidthFacts, TwoAdd
  <2>6. QED
    BY <2>1, <2>3, <2>4, <2>5 DEF y
<1>3. \A i \in 0 .. SMALL_LEN : i \in S
  <2> HIDE DEF S
  <2>1. QED
    BY <1>1, <1>2, ByteFacts, StepInduction
<1>4. QED
  BY <1>3

\* m is the most significant bit of val.
HasMsb(val, m) == Two(m) <= val /\ val < Two(m + 1)

LEMMA MsbIs ==
  ASSUME NEW val \in Nat, NEW width \in 1 .. Width, NEW m \in 0 .. width - 1,
         HasMsb(val, m)
  PROVE  MsbIndex(val, width) = m
<1> DEFINE S == {k \in 1 .. width - 1 : Two(k) <= val}
<1>0. m \in Nat /\ m + 1 \in 0 .. Width /\ m \in 0 .. Width /\ m <= width - 1
      /\ width \in Nat /\ width <= Width /\ Width \in Nat
  BY WidthFacts
<1>1. ASSUME NEW k \in 1 .. m PROVE k \in S
  <2>1. k \in 0 .. m /\ k \in 1 .. width - 1 /\ k \in 0 .. Width
    BY <1>0
  <2>2. Two(k) <= Two(m) /\ Two(k) \in Nat /\ Two(m) \in Nat /\ Two(m) <= val
    BY <1>0, <2>1, TwoMonotone, TwoFacts DEF HasMsb
  <2>3. Two(k) <= val
    BY <2>2
  <2>4. QED
    BY <2>1, <2>3
<1>2. ASSUME NEW k \in S PROVE k \in 1 .. m
  <2>1. k \in 1 .. width - 1 /\ Two(k) <= val /\ val < Two(m + 1)
    BY DEF HasMsb
  <2>2. CASE k > m
    <3>1. k \in 0 .. Width /\ m + 1 \in 0 .. k
      BY <1>0, <2>1, <2>2
    <3>2. Two(m + 1) <= Two(k) /\ Two(k) \in Nat /\ Two(m + 1) \in Nat
      BY <1>0, <3>1, TwoMonotone, TwoFacts
    <3>3. QED
      BY <2>1, <3>2
  <2>3. QED
    BY <1>0, <2>1, <2>2
<1>3. S = 1 .. m
  <2> HIDE DEF S
  <2>1. QED
    BY <1>1, <1>2, Zenon
<1>4. Cardinality(1 .. m) = m
  BY <1>0, FS_Interval
<1>5. QED
  BY <1>3, <1>4, Zenon DEF MsbIndex, Two

LEMMA HasAnMsb ==
  ASSUME NEW width \in 1 .. Width, NEW val \in Nat \ {0}, val < Two(width)
  PROVE  \E m \in 0 .. width - 1 : HasMsb(val, m)
<1> DEFINE S == {k \in Nat : Two(k) <= val}
<1>0. width \in Nat /\ width <= Width /\ width \in 0 .. Width /\ Width \in Nat
  BY WidthFacts
<1>1. SUFFICES ASSUME \A m \in 0 .. width - 1 : ~HasMsb(val, m) PROVE FALSE
  OBVIOUS
<1>2. 0 \in S
  BY TwoFacts
<1>3. ASSUME NEW k \in 0 .. width - 1, k \in S PROVE k + 1 \in S
  <2>1. k + 1 \in 0 .. Width /\ k + 1 \in Nat
    BY <1>0
  <2>2. ~(val < Two(k + 1)) /\ Two(k + 1) \in Nat
    BY <1>1, <1>3, <2>1, TwoFacts DEF HasMsb
  <2>3. QED
    BY <2>1, <2>2
<1>4. \A k \in 0 .. width : k \in S
  <2> HIDE DEF S
  <2>1. QED
    BY <1>0, <1>2, <1>3, StepInduction
<1>5. Two(width) <= val /\ Two(width) \in Nat
  BY <1>0, <1>4, TwoFacts
<1>6. QED
  BY <1>5

\* The low bits of a number do not depend on the bytes above them.
LEMMA BitOfLowByte ==
  ASSUME NEW y \in Nat, NEW d \in Nat, NEW s \in 0 .. BITS - 1
  PROVE  ((y * BYTE + d) \div Two(s)) % 2 = (d \div Two(s)) % 2
<1> DEFINE t == Two(s)
           c == Two((BITS - 1) - s)
           e == d \div t
           r == d % t
<1>1. s \in Nat /\ (BITS - 1) - s \in Nat /\ s + ((BITS - 1) - s) = BITS - 1
      /\ s \in 0 .. Width /\ (BITS - 1) - s \in 0 .. Width /\ BITS - 1 <= Width
      /\ BITS \in 1 .. Width
  BY WidthFacts
<1>2. t \in Nat \ {0} /\ c \in Nat
  BY <1>1, TwoFacts
<1>3. BYTE = (t * c) * 2
  <2>1. Two(BITS) = Two(BITS - 1) * 2
    BY <1>1, TwoFacts
  <2>2. Two(BITS - 1) = Two(s) * Two((BITS - 1) - s)
    BY <1>1, TwoAdd
  <2>3. QED
    BY <2>1, <2>2, WidthFacts
<1> HIDE DEF t, c
<1>4. e \in Int /\ r \in 0 .. t - 1 /\ d = e * t + r
  BY <1>2, DivMod
<1> HIDE DEF e, r
<1>5. y * ((t * c) * 2) + (e * t + r) = ((y * c) * 2 + e) * t + r
  BY <1>2, <1>4
<1> DEFINE q == (y * c) * 2 + e
<1>6. q \in Int
  BY <1>2, <1>4
<1>7. y * BYTE + d = q * t + r
  BY <1>3, <1>4, <1>5
<1>8. q % 2 = e % 2
  <2> DEFINE u == y * c
  <2>1. u \in Int
    BY <1>2
  <2> HIDE DEF u
  <2>2. (u * 2 + e) % 2 = e % 2
    BY <1>4, <2>1
  <2>3. QED
    BY <2>2 DEF u
<1> HIDE DEF q
<1>9. (q * t + r) \div t = q
  BY <1>2, <1>4, <1>6, Divides, Zenon
<1>10. QED
  BY <1>7, <1>8, <1>9 DEF t, e

\* The bits that traverse_path() takes out of the bytes of v are those that
\* traverse_path_fast() shifts out of its value.
LEMMA SameBits ==
  ASSUME NEW v \in Seq(Byte), Len(v) <= SMALL_LEN, NEW k \in 0 .. Len(v) * BITS - 1
  PROVE  Bit(BigEndian(v), k) = Bit(v[Len(v) - (k \div BITS)], k % BITS)
<1> DEFINE n == Len(v)
           q == k \div BITS
           s == k % BITS
           val == BigEndian(v)
<1>1. v \in Seq(Nat) /\ 0 \in Int
  BY BytesAreNumbers
<1>2. PICK f : Reads(f, 0, v) /\ Extend(0, v) = f[Len(v)]
  BY <1>1, ExtendReads
<1>3. n \in 0 .. SMALL_LEN /\ val = f[n] /\ \A i \in 1 .. n : v[i] \in Nat
  BY <1>1, <1>2, ByteFacts DEF BigEndian
<1>4. \A i \in 0 .. n : f[i] \in Nat
                        /\ \E r \in 0 .. Pow(n - i) - 1 : f[n] = f[i] * Pow(n - i) + r
  BY <1>2, LeadingBytes
<1>5. \A i \in 1 .. n : f[i] = f[i - 1] * BYTE + v[i]
  BY <1>2 DEF Reads
<1>6. k \in Nat /\ k < n * BITS
  <2>1. n * BITS \in Nat
    BY <1>3, WidthFacts, ByteFacts
  <2> DEFINE z == n * BITS
  <2>2. z \in Nat /\ k \in 0 .. z - 1
    BY <2>1
  <2> HIDE DEF z
  <2>3. k \in Nat /\ k < z
    BY <2>2
  <2>4. QED
    BY <2>3 DEF z
<1> HIDE DEF n, val
<1>7. q \in Int /\ s \in 0 .. BITS - 1 /\ k = q * BITS + s
  BY <1>6, WidthFacts, DivMod
<1> HIDE DEF q, s
<1>8. q \in 0 .. n - 1
  <2>1. q >= 0
    <3> SUFFICES ASSUME q < 0 PROVE FALSE
      BY <1>7
    <3>1. -q \in Nat \ {0} /\ BITS \in Nat
      BY <1>7, WidthFacts
    <3>2. (-q) * BITS >= BITS
      BY <3>1, ProductGrows
    <3>3. (-q) * BITS = -(q * BITS)
      BY <1>7, WidthFacts
    <3> DEFINE z == q * BITS
    <3>4. z \in Int /\ -z >= BITS /\ k = z + s
      BY <1>7, <3>2, <3>3, WidthFacts
    <3> HIDE DEF z
    <3>5. QED
      BY <1>6, <1>7, <3>4, WidthFacts
  <2>2. q < n
    <3> SUFFICES ASSUME n <= q PROVE FALSE
      BY <1>3, <1>7, ByteFacts
    <3>1. n \in Nat /\ q \in Nat /\ BITS \in Nat
      BY <1>3, <1>7, <2>1, WidthFacts, ByteFacts
    <3>2. n * BITS <= q * BITS /\ n * BITS \in Nat /\ q * BITS \in Nat
      BY <3>1, ProductMonotone
    <3> DEFINE z == q * BITS
               w == n * BITS
    <3>3. z \in Nat /\ w \in Nat /\ w <= z /\ k < w /\ k = z + s
      BY <1>6, <1>7, <3>2
    <3> HIDE DEF z, w
    <3>4. QED
      BY <1>6, <1>7, <3>3, WidthFacts
  <2>3. QED
    BY <1>3, <1>7, <2>1, <2>2, ByteFacts
<1> DEFINE x == f[n - q]
           y == f[(n - q) - 1]
           d == v[n - q]
           p == Pow(q)
           t == Two(s)
<1>9. /\ n - q \in 1 .. n /\ n - q \in 0 .. n /\ (n - q) - 1 \in 0 .. n
      /\ n - (n - q) = q /\ q \in 0 .. SMALL_LEN /\ s \in 0 .. Width
  BY <1>3, <1>7, <1>8, ByteFacts, WidthFacts
<1>10. /\ x \in Nat /\ y \in Nat /\ d \in Nat /\ x = y * BYTE + d
       /\ p \in Nat \ {0} /\ t \in Nat \ {0}
  BY <1>3, <1>4, <1>5, <1>9, PowFacts, TwoFacts, Zenon
<1>11. PICK r \in 0 .. p - 1 : val = x * p + r
  BY <1>3, <1>4, <1>9, Zenon
<1>12. Two(k) = p * t
  <2> DEFINE z == q * BITS
  <2>1. z \in 0 .. Width /\ p = Two(z)
    BY <1>9, WidthFacts, PowIsTwo
  <2>2. k = z + s /\ k <= Width
    <3>1. n * BITS \in 0 .. Width
      BY <1>3, WidthFacts
    <3> DEFINE w == n * BITS
    <3> HIDE DEF w
    <3>2. k < w /\ w \in 0 .. Width
      BY <1>6, <3>1 DEF w
    <3>3. k <= Width
      BY <1>6, <3>2, WidthFacts
    <3>4. QED
      BY <1>7, <3>3
  <2> HIDE DEF z, p
  <2>3. z \in Nat /\ s \in Nat
    BY <1>7, <2>1, WidthFacts
  <2>4. Two(z + s) = Two(z) * Two(s)
    BY <2>2, <2>3, TwoAdd
  <2>5. QED
    BY <2>1, <2>2, <2>4
<1>13. val \in Nat
  BY <1>3, <1>4, ByteFacts
<1> HIDE DEF x, y, d, p, t
<1>14. val \div p = x
  <2>1. x \in Int
    BY <1>10
  <2>2. (x * p + r) \div p = x
    BY <1>10, <1>11, <2>1, Divides, Zenon
  <2>3. QED
    BY <1>11, <2>2
<1>15. (val \div p) \div t = val \div (p * t)
  <2>1. val \in Int /\ p \in Nat \ {0} /\ t \in Nat \ {0}
    BY <1>10, <1>13
  <2>2. QED
    BY ONLY <2>1, DivideByProduct
<1>16. ((y * BYTE + d) \div Two(s)) % 2 = (d \div Two(s)) % 2
  BY <1>7, <1>10, BitOfLowByte
<1>17. (val \div Two(k)) % 2 = (d \div Two(s)) % 2
  BY <1>10, <1>12, <1>14, <1>15, <1>16 DEF t
<1>18. QED
  BY <1>17 DEF Bit, Two, val, d, n, q, s

LEMMA LeadingZeros ==
  ASSUME NEW v \in Seq(Nat), v # <<>>, v[1] = 0 => Len(v) > 1 /\ v[2] # 0
  PROVE  first_non_zero(v) = IF v[1] = 0 THEN 1 ELSE 0
<1> DEFINE S == {i \in 1 .. Len(v) : \A j \in 1 .. i : v[j] = 0}
<1>0. Len(v) \in Nat /\ Len(v) >= 1
  OBVIOUS
<1>1. \A i \in S : i = 1 /\ v[1] = 0
  <2> TAKE i \in S
  <2>1. i \in 1 .. Len(v) /\ 1 \in 1 .. i
    BY <1>0
  <2>2. v[1] = 0
    BY <2>1
  <2>3. ~(2 \in 1 .. i)
    BY <2>2
  <2>4. QED
    BY <2>1, <2>2, <2>3
<1>2. v[1] = 0 => 1 \in S
  BY <1>0
<1> HIDE DEF S
<1>3. S = IF v[1] = 0 THEN {1} ELSE {}
  BY <1>1, <1>2
<1>4. Cardinality({1}) = 1 /\ Cardinality({}) = 0
  BY FS_Singleton, FS_EmptySet, Zenon
<1>5. first_non_zero(v) = Cardinality(S)
  BY DEF first_non_zero, S
<1>6. QED
  BY <1>3, <1>4, <1>5

\* The most significant bit of a number whose leading byte is b.
LEMMA MsbOfBytes ==
  ASSUME NEW d \in 0 .. SMALL_LEN - 1, NEW b \in 1 .. BYTE - 1,
         NEW r \in 0 .. Pow(d) - 1, NEW m \in 0 .. BITS - 1, HasMsb(b, m)
  PROVE  /\ d * BITS + m \in 0 .. Width - 1
         /\ MsbIndex(b, BITS) = m
         /\ MsbIndex(b * Pow(d) + r, Width) = d * BITS + m
<1> DEFINE z == d * BITS
           p == Pow(d)
           lo == Two(m)
           hi == Two(m + 1)
<1>1. d \in 0 .. SMALL_LEN /\ b \in Nat /\ m \in Nat /\ BITS \in 1 .. Width
      /\ m \in 0 .. Width /\ m + 1 \in 0 .. Width /\ Width \in Nat
  BY ByteFacts, WidthFacts
<1>2. z \in Nat /\ z + BITS <= Width
  <2>1. d + 1 \in 0 .. SMALL_LEN
    BY ByteFacts
  <2>2. (d + 1) * BITS \in 0 .. Width /\ d * BITS \in 0 .. Width
    BY <1>1, <2>1, WidthFacts
  <2>3. (d + 1) * BITS = d * BITS + BITS
    BY <1>1, ByteFacts, WidthFacts
  <2> HIDE DEF z
  <2>4. z + BITS \in 0 .. Width /\ z \in 0 .. Width
    BY <2>2, <2>3 DEF z
  <2>5. QED
    BY <2>4, WidthFacts
<1>3. p \in Nat \ {0} /\ p = Two(z)
  BY <1>1, PowFacts, PowIsTwo
<1>4. lo \in Nat /\ hi \in Nat /\ lo <= b /\ b + 1 <= hi
  BY <1>1, TwoFacts DEF HasMsb
<1> HIDE DEF z, p
<1>5. z + m \in 0 .. Width - 1 /\ (z + m) + 1 = z + (m + 1) /\ z + (m + 1) <= Width
      /\ z + m <= Width
  BY <1>1, <1>2, WidthFacts
<1>6. Two(z + m) = p * lo /\ Two(z + (m + 1)) = p * hi
  BY <1>1, <1>2, <1>3, <1>5, TwoAdd
<1> HIDE DEF lo, hi
<1> DEFINE val == b * p + r
<1>7. val \in Nat
  BY <1>1, <1>3, MultiplyAddType DEF p
<1>8. p * lo <= val
  <2>1. lo * p <= b * p /\ lo * p \in Nat /\ b * p \in Nat
    BY <1>1, <1>3, <1>4, ProductMonotone
  <2>2. lo * p = p * lo
    BY <1>3, <1>4
  <2> DEFINE w == lo * p
             u == b * p
  <2>3. w \in Nat /\ u \in Nat /\ w <= u /\ p * lo = w /\ val = u + r
    BY <2>1, <2>2
  <2> HIDE DEF w, u
  <2>4. QED
    BY <1>3, <2>3 DEF p
<1>9. val < p * hi
  <2>1. (b + 1) * p <= hi * p /\ (b + 1) * p \in Nat /\ hi * p \in Nat
    BY <1>1, <1>3, <1>4, ProductMonotone
  <2>2. hi * p = p * hi /\ (b + 1) * p = b * p + p /\ b * p \in Nat
    BY <1>1, <1>3, <1>4
  <2> DEFINE w == hi * p
             u == b * p
  <2>3. w \in Nat /\ u \in Nat /\ u + p <= w /\ p * hi = w /\ val = u + r
    BY <2>1, <2>2
  <2> HIDE DEF w, u
  <2>4. QED
    BY <1>3, <2>3 DEF p
<1>10. HasMsb(val, z + m)
  BY <1>5, <1>6, <1>8, <1>9 DEF HasMsb
<1>11. Width \in 1 .. Width
  BY WidthFacts
<1> HIDE DEF val
<1>12. MsbIndex(val, Width) = z + m
  BY <1>5, <1>7, <1>10, <1>11, MsbIs
<1>13. MsbIndex(b, BITS) = m
  BY <1>1, MsbIs
<1>14. QED
  BY <1>5, <1>12, <1>13 DEF val, z, p

\* A value needs a leading zero byte if its topmost bit is a sign bit.
LEMMA ZeroByteIsSign ==
  ASSUME NEW d \in 0 .. SMALL_LEN - 1, NEW m \in 0 .. BITS - 1
  PROVE  NeedsZeroByte(d * BITS + m) <=> m = BITS - 1
<1>1. ASSUME m = BITS - 1 PROVE NeedsZeroByte(d * BITS + m)
  <2>1. d + 1 \in 1 .. SMALL_LEN
    BY ByteFacts
  <2>2. d * BITS + m = (d + 1) * BITS - 1
    BY <1>1, ByteFacts, WidthFacts
  <2>3. QED
    BY <2>1, <2>2 DEF NeedsZeroByte
<1>2. ASSUME NeedsZeroByte(d * BITS + m), m # BITS - 1 PROVE FALSE
  <2>1. PICK i \in 1 .. SMALL_LEN : d * BITS + m = i * BITS - 1
    BY <1>2 DEF NeedsZeroByte
  <2>2. /\ d \in Int /\ i \in Int /\ m + 1 \in 0 .. BITS - 1 /\ 0 \in 0 .. BITS - 1
        /\ BITS \in Nat \ {0} /\ m + 1 # 0
    BY <1>2, ByteFacts, WidthFacts
  <2>3. d * BITS + (m + 1) = i * BITS + 0
    <3> DEFINE x == d * BITS
               y == i * BITS
    <3>1. x \in Int /\ y \in Int /\ x + m = y - 1
      BY <2>1, <2>2
    <3> HIDE DEF x, y
    <3>2. x + (m + 1) = y + 0
      BY <2>2, <3>1
    <3>3. QED
      BY <3>2 DEF x, y
  <2>4. m + 1 = 0
    BY ONLY <2>2, <2>3, QuotientUnique
  <2>5. QED
    BY <2>2, <2>4
<1>3. QED
  BY <1>1, <1>2

\* The leading zero, the leading byte and the rest of a string that fits.
LEMMA FittingBytes ==
  ASSUME NEW v \in Seq(Byte), fits_in_small_atom(v), v # <<>>
  PROVE  LET z == first_non_zero(v)
         IN  /\ z \in {0, 1} /\ Len(v) \in 1 .. SMALL_LEN
             /\ (Len(v) - 1) - z \in 0 .. SMALL_LEN - 1
             /\ z # Len(v)
             /\ v[z + 1] \in 1 .. BYTE - 1
             /\ z = 1 <=> v[z + 1] >= SignBit
             /\ \E r \in 0 .. Pow((Len(v) - 1) - z) - 1 :
                  BigEndian(v) = v[z + 1] * Pow((Len(v) - 1) - z) + r
<1> DEFINE n == Len(v)
           z == first_non_zero(v)
<1>1. /\ n \in 1 .. SMALL_LEN /\ v # <<0>> /\ v[1] < SignBit
      /\ (v[1] = 0 => v[2] >= SignBit)
  BY ByteFacts DEF fits_in_small_atom
<1>2. v \in Seq(Nat) /\ v[1] \in 0 .. BYTE - 1 /\ (n > 1 => v[2] \in 0 .. BYTE - 1)
  <2>1. v[1] \in Byte /\ (n > 1 => v[2] \in Byte)
    BY <1>1
  <2>2. QED
    BY <2>1, BytesAreNumbers DEF Byte
<1>3. v[1] = 0 => n > 1 /\ v[2] # 0
  <2> SUFFICES ASSUME v[1] = 0 PROVE n > 1 /\ v[2] # 0
    OBVIOUS
  <2>1. n # 1
    <3> SUFFICES ASSUME n = 1 PROVE v = <<0>>
      BY <1>1
    <3> DEFINE w == <<0>>
    <3>1. w \in Seq(Nat) /\ Len(w) = 1 /\ w[1] = 0
      OBVIOUS
    <3> HIDE DEF w
    <3>2. v \in Seq(Nat) /\ Len(v) = Len(w) /\ \A i \in 1 .. Len(v) : v[i] = w[i]
      BY <1>2, <3>1
    <3>3. v = w
      BY ONLY <3>1, <3>2, SameSequence
    <3>4. QED
      BY <3>3 DEF w
  <2>2. v[2] # 0
    BY <1>1, SignBitFacts
  <2>3. n \in 1 .. SMALL_LEN
    BY <1>1
  <2> HIDE DEF n
  <2>4. n > 1
    BY ONLY <2>1, <2>3, ByteFacts
  <2>5. QED
    BY <2>2, <2>4
<1>4. z = IF v[1] = 0 THEN 1 ELSE 0
  BY <1>2, <1>3, LeadingZeros
<1>5. BigEndian(v) \in Nat
      /\ \E r \in 0 .. Pow(n - 1) - 1 : BigEndian(v) = v[1] * Pow(n - 1) + r
  BY <1>1, FirstBytes
<1>6. n > 1 => \E r \in 0 .. Pow(n - 2) - 1 :
                 BigEndian(v) = (v[1] * BYTE + v[2]) * Pow(n - 2) + r
  BY <1>1, FirstBytes
<1> HIDE DEF n, z
<1>7. CASE v[1] = 0
  <2>1. z = 1 /\ z + 1 = 2 /\ n > 1 /\ n \in 2 .. SMALL_LEN /\ (n - 1) - z = n - 2
        /\ n - 2 \in 0 .. SMALL_LEN - 1
    BY <1>1, <1>3, <1>4, <1>7, ByteFacts
  <2>2. v[2] \in 1 .. BYTE - 1 /\ v[2] >= SignBit
    BY <1>1, <1>2, <1>3, <1>7, ByteFacts
  <2>3. v[1] * BYTE + v[2] = v[2]
    BY <1>7, <2>2, ByteFacts
  <2>4. \E r \in 0 .. Pow(n - 2) - 1 : BigEndian(v) = v[2] * Pow(n - 2) + r
    BY <1>6, <2>1, <2>3
  <2>5. QED
    BY <1>1, <2>1, <2>2, <2>4 DEF n, z
<1>8. CASE v[1] # 0
  <2>1. z = 0 /\ z + 1 = 1 /\ (n - 1) - z = n - 1 /\ n - 1 \in 0 .. SMALL_LEN - 1
    BY <1>1, <1>4, <1>8, ByteFacts
  <2>2. v[1] \in 1 .. BYTE - 1 /\ ~(v[1] >= SignBit)
    BY <1>1, <1>2, <1>8, ByteFacts, SignBitFacts
  <2>3. QED
    BY <1>1, <1>5, <2>1, <2>2 DEF n, z
<1>9. QED
  BY <1>7, <1>8

\* A byte has its sign bit set if that is its most significant one.
LEMMA SignBitIsMsb ==
  ASSUME NEW b \in 1 .. BYTE - 1, NEW m \in 0 .. BITS - 1, HasMsb(b, m)
  PROVE  m = BITS - 1 <=> b >= SignBit
<1>1. BITS - 1 \in 0 .. Width /\ BITS \in 1 .. Width /\ m \in 0 .. Width
      /\ m + 1 \in 0 .. Width /\ BITS \in 0 .. Width
  BY WidthFacts
<1> DEFINE h == Two(BITS - 1)
           lo == Two(m)
           hi == Two(m + 1)
<1>2. BYTE = h * 2 /\ h \in Nat /\ lo \in Nat /\ hi \in Nat
  BY <1>1, TwoFacts, WidthFacts
<1>3. lo <= b /\ b < hi /\ b \in Nat
  BY ByteFacts DEF HasMsb
<1>4. SignBit = h
  <2> HIDE DEF h
  <2> QED BY <1>2 DEF SignBit
<1>5. ASSUME m = BITS - 1 PROVE b >= SignBit
  BY <1>2, <1>3, <1>4, <1>5
<1>6. ASSUME m # BITS - 1 PROVE b < SignBit
  <2>1. m + 1 \in 0 .. BITS - 1
    BY <1>6, WidthFacts
  <2>2. hi <= h
    BY <1>1, <2>1, TwoMonotone
  <2>3. QED
    BY <1>2, <1>3, <1>4, <2>2
<1>7. QED
  BY <1>2, <1>3, <1>4, <1>5, <1>6

\* A path that fits a node pointer leads to the same node at the same cost
\* whether it is a small atom, which traverse_path_fast() looks up by its
\* value, or a heap buffer, which traverse_path() looks up byte by byte: the
\* same program run on nodes that were made in different ways costs the same.
THEOREM FastPathAgrees ==
  ASSUME NEW a, NEW args, NEW v \in Seq(Byte), fits_in_small_atom(v)
  PROVE  traverse_path_fast(a, BigEndian(v), args) = traverse_path(a, v, args)
<1> DEFINE n == Len(v)
           val == BigEndian(v)
           z == first_non_zero(v)
<1>1. CASE v = <<>>
  <2>1. val = 0 /\ n = 0
    BY <1>1, NoBytes
  <2>2. z = 0
    <3>1. {i \in 1 .. Len(v) : \A j \in 1 .. i : v[j] = 0} = {}
      BY <2>1
    <3>2. QED
      BY <3>1, FS_EmptySet, Zenon DEF first_non_zero
  <2>3. traverse_path(a, v, args)
          = Reduction(TRAVERSE_BASE_COST + 0 * TRAVERSE_COST_PER_ZERO_BYTE
                        + TRAVERSE_COST_PER_BIT, nil)
    BY <2>1, <2>2 DEF traverse_path
  <2>4. traverse_path_fast(a, val, args)
          = Reduction(TRAVERSE_BASE_COST + TRAVERSE_COST_PER_BIT, nil)
    BY <2>1 DEF traverse_path_fast
  <2>5. TRAVERSE_BASE_COST + 0 * TRAVERSE_COST_PER_ZERO_BYTE + TRAVERSE_COST_PER_BIT
          = TRAVERSE_BASE_COST + TRAVERSE_COST_PER_BIT
    BY DEF TRAVERSE_BASE_COST, TRAVERSE_COST_PER_BIT, TRAVERSE_COST_PER_ZERO_BYTE
  <2>6. QED
    BY <2>3, <2>4, <2>5
<1>2. CASE v # <<>>
  <2> DEFINE b == v[z + 1]
             d == (n - 1) - z
             steps == d * BITS + MsbIndex(b, BITS)
             num_bits == MsbIndex(val, Width)
  <2>1. /\ z \in {0, 1} /\ n \in 1 .. SMALL_LEN /\ d \in 0 .. SMALL_LEN - 1 /\ z # n
        /\ b \in 1 .. BYTE - 1 /\ (z = 1 <=> b >= SignBit)
        /\ \E r \in 0 .. Pow(d) - 1 : val = b * Pow(d) + r
    BY <1>2, FittingBytes
  <2> HIDE DEF n, z, b, d, val
  <2>2. PICK m \in 0 .. BITS - 1 : HasMsb(b, m)
    <3>1. b \in Nat \ {0} /\ b < Two(BITS) /\ BITS \in 1 .. Width
      BY <2>1, ByteFacts, WidthFacts
    <3>2. QED
      BY <3>1, HasAnMsb
  <2>3. PICK r \in 0 .. Pow(d) - 1 : val = b * Pow(d) + r
    BY <2>1
  <2>4. /\ d * BITS + m \in 0 .. Width - 1 /\ MsbIndex(b, BITS) = m
        /\ MsbIndex(b * Pow(d) + r, Width) = d * BITS + m
    BY <2>1, <2>2, <2>3, MsbOfBytes
  <2>5. steps = num_bits /\ steps = d * BITS + m /\ steps \in Nat
    BY <2>3, <2>4, WidthFacts
  <2>6. NeedsZeroByte(num_bits) <=> z = 1
    BY <2>1, <2>2, <2>5, ZeroByteIsSign, SignBitIsMsb
  <2>7. val # 0
    <3> DEFINE p == Pow(d)
    <3>1. d \in 0 .. SMALL_LEN
      BY <2>1, ByteFacts
    <3>2. p \in Nat \ {0}
      BY <3>1, PowFacts
    <3> HIDE DEF p
    <3>3. b \in Nat \ {0} /\ b * p >= p
      BY <2>1, <3>2, ByteFacts, ProductGrows
    <3>4. b * p \in Nat
      BY <3>2, <3>3
    <3>5. QED
      BY <2>3, <3>2, <3>3, <3>4 DEF p
  <2> DEFINE slow == [k \in 1 .. steps |-> Bit(v[n - ((k - 1) \div BITS)], (k - 1) % BITS)]
             fast == [k \in 1 .. num_bits |-> Bit(val, k - 1)]
  <2>8. slow = fast
    <3>1. ASSUME NEW k \in 1 .. steps
          PROVE  k - 1 \in 0 .. n * BITS - 1
      <4> DEFINE x == d * BITS
                 y == n * BITS
      <4>1. steps = x + m /\ x \in Nat /\ y \in Nat
        BY <2>1, <2>5, ByteFacts, WidthFacts
      <4>2. (d + 1) * BITS <= n * BITS
        <5>1. d + 1 \in Nat /\ n \in Nat /\ d + 1 <= n
          BY <2>1, ByteFacts DEF d
        <5>2. QED
          BY <5>1, WidthFacts, ProductMonotone
      <4>3. (d + 1) * BITS = x + BITS
        BY <2>1, ByteFacts, WidthFacts
      <4>4. x + BITS <= y
        BY <4>2, <4>3
      <4> HIDE DEF x, y, steps
      <4>5. k - 1 \in 0 .. y - 1
        BY <2>2, <4>1, <4>4, WidthFacts
      <4>6. QED
        BY <4>5 DEF y
    <3>2. ASSUME NEW k \in 1 .. steps
          PROVE  Bit(v[n - ((k - 1) \div BITS)], (k - 1) % BITS) = Bit(val, k - 1)
      <4>1. n <= SMALL_LEN
        BY <2>1, ByteFacts
      <4>2. QED
        BY <3>1, <4>1, SameBits DEF n, val
    <3>3. QED
      BY <2>5, <3>2
  <2>9. traverse_path(a, v, args)
          = WithCost(Walk(a, args, slow),
                     (TRAVERSE_BASE_COST + z * TRAVERSE_COST_PER_ZERO_BYTE
                        + TRAVERSE_COST_PER_BIT) + steps * TRAVERSE_COST_PER_BIT)
    BY <2>1 DEF traverse_path, n, z, b, d
  <2>10. traverse_path_fast(a, val, args)
           = WithCost(Walk(a, args, fast),
                      (TRAVERSE_BASE_COST + TRAVERSE_COST_PER_BIT)
                        + num_bits * TRAVERSE_COST_PER_BIT
                        + (IF z = 1 THEN TRAVERSE_COST_PER_ZERO_BYTE ELSE 0))
    BY <2>6, <2>7 DEF traverse_path_fast, Width
  <2>11. (TRAVERSE_BASE_COST + z * TRAVERSE_COST_PER_ZERO_BYTE
            + TRAVERSE_COST_PER_BIT) + steps * TRAVERSE_COST_PER_BIT
           = (TRAVERSE_BASE_COST + TRAVERSE_COST_PER_BIT)
               + num_bits * TRAVERSE_COST_PER_BIT
               + (IF z = 1 THEN TRAVERSE_COST_PER_ZERO_BYTE ELSE 0)
    <3> DEFINE c == steps * TRAVERSE_COST_PER_BIT
    <3>1. c = num_bits * TRAVERSE_COST_PER_BIT /\ c \in Nat
      <4> HIDE DEF steps, num_bits
      <4> QED BY <2>5 DEF TRAVERSE_COST_PER_BIT
    <3> HIDE DEF c
    <3>2. (TRAVERSE_BASE_COST + z * TRAVERSE_COST_PER_ZERO_BYTE + TRAVERSE_COST_PER_BIT) + c
            = (TRAVERSE_BASE_COST + TRAVERSE_COST_PER_BIT) + c
                + (IF z = 1 THEN TRAVERSE_COST_PER_ZERO_BYTE ELSE 0)
      BY <2>1, <3>1 DEF TRAVERSE_BASE_COST, TRAVERSE_COST_PER_BIT, TRAVERSE_COST_PER_ZERO_BYTE
    <3>3. QED
      BY <3>1, <3>2 DEF c
  <2>12. QED
    BY <2>8, <2>9, <2>10, <2>11, Zenon DEF val
<1>3. QED
  BY <1>1, <1>2
=============================================================================

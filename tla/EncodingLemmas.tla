--------------------------- MODULE EncodingLemmas ---------------------------
(***************************************************************************)
(* Numbers as bytes: what Allocator's conversions (len_for_value,          *)
(* fits_in_small_atom, the shifts of atom() and small_number() in          *)
(* src/allocator.rs) do for every byte width and every length of a small   *)
(* atom.  Reading bytes and writing them are inverse, and the length that  *)
(* the thresholds give is the length of exactly the strings that fit; so   *)
(* an atom has the same bytes whichever way it is represented.             *)
(***************************************************************************)
EXTENDS AllocatorLemmas

-----------------------------------------------------------------------------
(* Products and quotients.                                                 *)

\* A digit and a remainder stay below the next power.
LEMMA DigitFits ==
  ASSUME NEW p \in Nat \ {0}, NEW b \in Nat \ {0},
         NEW s \in 0 .. b - 1, NEW r \in 0 .. p - 1
  PROVE  s * p + r \in 0 .. p * b - 1
<1>1. s * p \in Nat /\ p * b \in Nat
  OBVIOUS
<1>2. (b - s) * p >= p
  BY ProductGrows
<1>3. (b - s) * p = p * b - s * p
  OBVIOUS
<1> DEFINE y == s * p
           z == p * b
<1>4. y \in Nat /\ z \in Nat /\ z - y >= p
  BY <1>1, <1>2, <1>3
<1> HIDE DEF y, z
<1>5. y + r \in 0 .. z - 1
  BY <1>4
<1>6. QED
  BY <1>5 DEF y, z

\* Dividing twice is dividing by the product.
LEMMA DivideByProduct ==
  ASSUME NEW x \in Int, NEW p \in Nat \ {0}, NEW b \in Nat \ {0}
  PROVE  (x \div p) \div b = x \div (p * b)
<1> DEFINE q == x \div p
           r == x % p
           k == q \div b
           s == q % b
<1>1. q \in Int /\ r \in 0 .. p - 1 /\ x = q * p + r
  BY DivMod
<1> HIDE DEF q, r
<1>2. k \in Int /\ s \in 0 .. b - 1 /\ q = k * b + s
  BY <1>1, DivMod
<1> HIDE DEF k, s
<1>3. p * b \in Nat \ {0}
  OBVIOUS
<1>4. x = k * (p * b) + (s * p + r)
  BY <1>1, <1>2
<1>5. s * p + r \in 0 .. p * b - 1
  BY <1>1, <1>2, DigitFits
<1>6. x \div (p * b) = k
  <2> DEFINE y == s * p + r
             z == p * b
  <2>1. y \in 0 .. z - 1 /\ z \in Nat \ {0} /\ x = k * z + y
    BY <1>3, <1>4, <1>5
  <2> HIDE DEF y, z
  <2>2. x \div z = k
    BY <1>2, <2>1, Divides
  <2>3. QED
    BY <2>2 DEF z
<1>7. QED
  BY <1>6 DEF q, k

\* The number without its last digits, and the one before them.
LEMMA NextDigit ==
  ASSUME NEW x \in Int, NEW p \in Nat \ {0}, NEW b \in Nat \ {0}
  PROVE  x \div p = (x \div (p * b)) * b + ((x \div p) % b)
<1> DEFINE q == x \div p
           z == x \div (p * b)
<1>1. q \in Int
  BY DivMod
<1>2. q \div b = z
  BY DivideByProduct, Zenon
<1> HIDE DEF q, z
<1>3. q = (q \div b) * b + (q % b)
  BY <1>1, DivMod
<1>4. q = z * b + (q % b)
  BY <1>2, <1>3
<1>5. QED
  BY <1>4 DEF q, z

LEMMA StepInduction ==
  ASSUME NEW S, NEW n \in Nat, 0 \in S, \A i \in 0 .. n - 1 : i \in S => i + 1 \in S
  PROVE  \A i \in 0 .. n : i \in S
<1> DEFINE T == {i \in Nat : i <= n => i \in S}
<1>1. ASSUME NEW i \in Nat, \A j \in 0 .. i - 1 : j \in T
      PROVE  i \in T
  <2>1. CASE i = 0
    BY <2>1
  <2>2. CASE i # 0 /\ i <= n
    <3>1. i - 1 \in 0 .. i - 1 /\ i - 1 \in 0 .. n - 1 /\ (i - 1) + 1 = i
      BY <2>2
    <3>2. i - 1 \in S
      BY <1>1, <2>2, <3>1
    <3>3. QED
      BY <3>1, <3>2
  <2>3. QED
    BY <2>1, <2>2
<1>2. Nat \subseteq T
  <2> HIDE DEF T
  <2> QED BY <1>1, StrongInduction
<1>3. QED
  BY <1>2

-----------------------------------------------------------------------------
(* Reading and writing bytes.                                              *)

\* The powers as an operator of their own, which no prover looks into.
Pow(k) == BYTE^k

LEMMA ByteFacts ==
  /\ BYTE \in Nat /\ BYTE \in Nat \ {0} /\ BYTE > 1
  /\ SMALL_LEN \in Nat /\ SMALL_LEN > 0
BY AllocatorAssumption

LEMMA PowFacts ==
  /\ Pow(0) = 1 /\ BYTE \in Nat \ {0, 1} /\ SMALL_LEN \in Nat \ {0}
  /\ \A k \in 0 .. SMALL_LEN : Pow(k) \in Nat \ {0}
  /\ \A k \in 1 .. SMALL_LEN : Pow(k) = Pow(k - 1) * BYTE
BY AllocatorAssumption, EncodingAssumption DEF Pow

\* What ^ means, up to m.
PowersGrow(m) ==
  /\ Pow(0) = 1
  /\ \A k \in 0 .. m : Pow(k) \in Nat \ {0}
  /\ \A k \in 1 .. m : Pow(k) = Pow(k - 1) * BYTE

LEMMA SmallPowers == PowersGrow(SMALL_LEN)
BY PowFacts DEF PowersGrow

\* The leading bytes of a number, as a quotient.
LEMMA LeadingBytes ==
  ASSUME NEW v \in Seq(Byte), Len(v) <= SMALL_LEN, NEW f, Reads(f, 0, v),
         NEW i \in 0 .. Len(v)
  PROVE  /\ f[i] \in Nat
         /\ \E r \in 0 .. Pow(Len(v) - i) - 1 :
              f[Len(v)] = f[i] * Pow(Len(v) - i) + r
<1> DEFINE n == Len(v)
<1>0. n \in Nat /\ n <= SMALL_LEN /\ (\A j \in 1 .. n : v[j] \in 0 .. BYTE - 1)
      /\ i \in 0 .. n
  <2>1. \A j \in 1 .. n : v[j] \in Byte
    OBVIOUS
  <2>2. QED
    BY <2>1 DEF Byte
<1>1. f[0] = 0 /\ \A j \in 1 .. n : f[j] = f[j - 1] * BYTE + v[j]
  BY DEF Reads
<1> HIDE DEF n
<1>2. \A j \in 0 .. n : f[j] \in Nat
  <2> DEFINE S == {j \in Nat : f[j] \in Nat}
  <2>1. 0 \in S
    BY <1>1
  <2>2. ASSUME NEW j \in 0 .. n - 1, j \in S PROVE j + 1 \in S
    <3>1. f[j] \in Nat /\ j + 1 \in 1 .. n /\ (j + 1) - 1 = j
      BY <1>0, <2>2
    <3>2. f[j + 1] = f[j] * BYTE + v[j + 1] /\ v[j + 1] \in Nat
      BY <1>0, <1>1, <3>1, PowFacts
    <3> DEFINE x == f[j]
               y == v[j + 1]
    <3>3. x \in Nat /\ y \in Nat /\ BYTE \in Nat
      BY <3>1, <3>2, PowFacts
    <3> HIDE DEF x, y
    <3>4. x * BYTE + y \in Nat
      BY <3>3, MultiplyAddType
    <3>5. QED
      BY <3>2, <3>4 DEF x, y
  <2> HIDE DEF S
  <2>3. \A j \in 0 .. n : j \in S
    BY <1>0, <2>1, <2>2, StepInduction, Zenon
  <2>4. QED
    BY <2>3 DEF S
<1>3. \A d \in 0 .. n : \E r \in 0 .. Pow(d) - 1 : f[n] = f[n - d] * Pow(d) + r
  <2> DEFINE S == {d \in Nat : \E r \in 0 .. Pow(d) - 1 : f[n] = f[n - d] * Pow(d) + r}
  <2>1. 0 \in S
    <3>1. f[n] \in Nat /\ n - 0 = n
      BY <1>0, <1>2
    <3>2. 0 \in 0 .. Pow(0) - 1 /\ f[n] = f[n - 0] * Pow(0) + 0
      BY <3>1, PowFacts
    <3>3. QED
      BY <3>2
  <2>2. ASSUME NEW d \in 0 .. n - 1, d \in S PROVE d + 1 \in S
    <3>1. PICK r \in 0 .. Pow(d) - 1 : f[n] = f[n - d] * Pow(d) + r
      BY <2>2
    <3>2. /\ n - d \in 1 .. n /\ (n - d) - 1 = n - (d + 1)
          /\ n - (d + 1) \in 0 .. n
          /\ d + 1 \in 1 .. SMALL_LEN /\ d \in 0 .. SMALL_LEN /\ (d + 1) - 1 = d
      BY <1>0, PowFacts
    <3> DEFINE p == Pow(d)
               x == f[n - (d + 1)]
               y == v[n - d]
    <3>3. /\ p \in Nat \ {0} /\ Pow(d + 1) = p * BYTE
          /\ x \in Nat /\ y \in 0 .. BYTE - 1
          /\ f[n - d] = x * BYTE + y
      BY <1>0, <1>1, <1>2, <3>2, PowFacts, Zenon
    <3>4. f[n] = (x * BYTE + y) * p + r /\ r \in 0 .. p - 1
      BY <3>1, <3>3
    <3> HIDE DEF p, x, y
    <3>5. (x * BYTE + y) * p + r = x * (p * BYTE) + (y * p + r)
      BY <3>3, <3>4, PowFacts
    <3>6. y * p + r \in 0 .. p * BYTE - 1
      BY <3>3, <3>4, PowFacts, DigitFits, Zenon
    <3>7. f[n] = x * Pow(d + 1) + (y * p + r) /\ y * p + r \in 0 .. Pow(d + 1) - 1
      BY <3>3, <3>4, <3>5, <3>6
    <3> DEFINE z == y * p + r
    <3> HIDE DEF z
    <3>8. f[n] = f[n - (d + 1)] * Pow(d + 1) + z /\ z \in 0 .. Pow(d + 1) - 1
      BY <3>7 DEF x, z
    <3>9. QED
      BY <3>8
  <2> HIDE DEF S
  <2>3. \A d \in 0 .. n : d \in S
    BY <1>0, <2>1, <2>2, StepInduction, Zenon
  <2>4. QED
    BY <2>3 DEF S
<1>4. n - i \in 0 .. n /\ n - (n - i) = i
  BY <1>0
<1>5. QED
  BY <1>0, <1>2, <1>3, <1>4 DEF n

\* The bytes of a byte string's value are its bytes.
LEMMA ReadThenWrite ==
  ASSUME NEW v \in Seq(Byte), Len(v) <= SMALL_LEN
  PROVE  ToBytes(BigEndian(v), Len(v)) = v
<1> DEFINE n == Len(v)
<1>1. v \in Seq(Nat) /\ 0 \in Int
  BY BytesAreNumbers
<1>2. PICK f : Reads(f, 0, v) /\ Extend(0, v) = f[Len(v)]
  BY <1>1, ExtendReads
<1>3. n \in Nat /\ n <= SMALL_LEN /\ BigEndian(v) = f[n] /\ v = [i \in 1 .. n |-> v[i]]
      /\ \A i \in 1 .. n : v[i] \in Byte
  BY <1>2 DEF BigEndian
<1>4. \A i \in 0 .. n : f[i] \in Nat
                        /\ \E r \in 0 .. Pow(n - i) - 1 : f[n] = f[i] * Pow(n - i) + r
  BY <1>2, LeadingBytes
<1>5. \A i \in 1 .. n : f[i] = f[i - 1] * BYTE + v[i]
  BY <1>2 DEF Reads
<1> HIDE DEF n
<1>6. ASSUME NEW i \in 1 .. n
      PROVE  (f[n] \div Pow(n - i)) % BYTE = v[i]
  <2>1. i \in 0 .. n /\ i - 1 \in 0 .. n /\ n - i \in 0 .. SMALL_LEN
    BY <1>3, PowFacts
  <2> DEFINE x == f[i]
             p == Pow(n - i)
             y == f[i - 1]
             d == v[i]
  <2>2. x \in Nat /\ y \in Nat /\ p \in Nat \ {0} /\ x = y * BYTE + d /\ d \in 0 .. BYTE - 1
    BY <1>3, <1>4, <1>5, <2>1, PowFacts DEF Byte
  <2>3. PICK r \in 0 .. p - 1 : f[n] = x * p + r
    BY <1>4, <2>1
  <2>b. x \in Int /\ y \in Int /\ BYTE \in Nat \ {0}
    BY <2>2, ByteFacts
  <2> HIDE DEF x, p, y, d
  <2>4. (x * p + r) \div p = x
    BY <2>2, <2>3, <2>b, Divides, Zenon
  <2>5. (y * BYTE + d) % BYTE = d
    BY <2>2, <2>b, Divides, Zenon
  <2>6. QED
    BY <2>2, <2>3, <2>4, <2>5 DEF p, d
<1>7. ToBytes(f[n], n) = [i \in 1 .. n |-> v[i]]
  BY <1>6 DEF ToBytes, Pow
<1>8. QED
  BY <1>3, <1>7 DEF n

\* The value of the first byte, or the first two, bounds the whole.
LEMMA FirstBytes ==
  ASSUME NEW v \in Seq(Byte), Len(v) \in 1 .. SMALL_LEN
  PROVE  /\ BigEndian(v) \in Nat
         /\ \E r \in 0 .. Pow(Len(v) - 1) - 1 :
              BigEndian(v) = v[1] * Pow(Len(v) - 1) + r
         /\ Len(v) > 1 =>
              \E r \in 0 .. Pow(Len(v) - 2) - 1 :
                BigEndian(v) = (v[1] * BYTE + v[2]) * Pow(Len(v) - 2) + r
<1> DEFINE n == Len(v)
<1>1. v \in Seq(Nat) /\ 0 \in Int
  BY BytesAreNumbers
<1>2. PICK f : Reads(f, 0, v) /\ Extend(0, v) = f[Len(v)]
  BY <1>1, ExtendReads
<1>3. n \in 1 .. SMALL_LEN /\ BigEndian(v) = f[n] /\ v[1] \in Nat
      /\ (n > 1 => v[2] \in Nat)
  BY <1>1, <1>2 DEF BigEndian
<1>4. \A i \in 0 .. n : f[i] \in Nat
                        /\ \E r \in 0 .. Pow(n - i) - 1 : f[n] = f[i] * Pow(n - i) + r
  BY <1>2, LeadingBytes
<1>5. f[0] = 0 /\ \A i \in 1 .. n : f[i] = f[i - 1] * BYTE + v[i]
  BY <1>2 DEF Reads
<1> HIDE DEF n
<1>6. f[1] = v[1]
  <2>1. 1 \in 1 .. n /\ 1 - 1 = 0
    BY <1>3, PowFacts
  <2>2. f[1] = f[0] * BYTE + v[1]
    BY <1>5, <2>1
  <2>3. f[1] = 0 * BYTE + v[1]
    BY <1>5, <2>2
  <2>4. 0 * BYTE + v[1] = v[1]
    BY <1>3, ByteFacts
  <2>5. QED
    BY <2>3, <2>4
<1>7. n > 1 => f[2] = v[1] * BYTE + v[2]
  <2>1. n > 1 => 2 \in 1 .. n /\ 2 - 1 = 1
    BY <1>3, PowFacts
  <2>2. QED
    BY <1>5, <1>6, <2>1
<1>8. 1 \in 0 .. n /\ n \in 0 .. n /\ (n > 1 => 2 \in 0 .. n)
  BY <1>3, PowFacts
<1>9. QED
  BY <1>3, <1>4, <1>6, <1>7, <1>8 DEF n

\* The bytes of an integer, read below its part to their left, are the
\* integer.
LEMMA WriteThenExtend ==
  ASSUME NEW n \in Nat, PowersGrow(n), NEW val \in Int
  PROVE  /\ ToBytes(val, n) \in Seq(Byte) /\ Len(ToBytes(val, n)) = n
         /\ \A i \in 1 .. n : ToBytes(val, n)[i] = (val \div Pow(n - i)) % BYTE
         /\ Extend(val \div Pow(n), ToBytes(val, n)) = val
<1> DEFINE v == ToBytes(val, n)
           top == val \div Pow(n)
<1>1. v \in Seq(Byte) /\ Len(v) = n
  <2>1. n = 0 \/ Powers(n - 1)
    BY DEF Powers, PowersGrow, Pow
  <2>2. QED
    BY <2>1, ToBytesType
<1>2. \A i \in 1 .. n : v[i] = (val \div Pow(n - i)) % BYTE
  BY DEF ToBytes, Pow
<1>3. v \in Seq(Nat) /\ top \in Int
  <2>1. n \in 0 .. n
    OBVIOUS
  <2>2. Pow(n) \in Nat \ {0}
    BY <2>1 DEF PowersGrow
  <2>3. QED
    BY <1>1, <2>2, BytesAreNumbers, DivMod
<1> HIDE DEF v, top
<1>4. PICK f : Reads(f, top, v) /\ Extend(top, v) = f[Len(v)]
  BY <1>3, ExtendReads
<1>5. f[0] = top /\ (\A i \in 1 .. n : f[i] = f[i - 1] * BYTE + v[i])
      /\ Extend(top, v) = f[n]
  BY <1>1, <1>4 DEF Reads
<1> DEFINE S == {i \in Nat : f[i] = val \div Pow(n - i)}
<1>6. 0 \in S
  <2>1. n - 0 = n
    OBVIOUS
  <2>2. QED
    BY <1>5, <2>1 DEF top
<1>7. ASSUME NEW i \in 0 .. n - 1, i \in S PROVE i + 1 \in S
  <2> DEFINE p == Pow(n - (i + 1))
  <2>1. /\ i + 1 \in 1 .. n /\ (i + 1) - 1 = i /\ i + 1 \in Nat
        /\ n - i \in 1 .. n /\ (n - i) - 1 = n - (i + 1)
        /\ n - (i + 1) \in 0 .. n
    OBVIOUS
  <2>2. p \in Nat \ {0} /\ Pow(n - i) = p * BYTE
    BY <2>1 DEF PowersGrow
  <2>3. f[i] = val \div (p * BYTE)
    BY <1>7, <2>2
  <2>4. f[i + 1] = f[i] * BYTE + ((val \div p) % BYTE)
    BY <1>2, <1>5, <2>1
  <2> HIDE DEF p
  <2>5. val \div p = (val \div (p * BYTE)) * BYTE + ((val \div p) % BYTE)
    <3>1. val \in Int /\ p \in Nat \ {0} /\ BYTE \in Nat \ {0}
      BY <2>2, ByteFacts
    <3>2. QED
      BY ONLY <3>1, NextDigit, Zenon
  <2>6. f[i + 1] = val \div p
    BY <2>3, <2>4, <2>5
  <2>7. QED
    BY <2>1, <2>6 DEF p
<1>8. \A i \in 0 .. n : i \in S
  <2> HIDE DEF S
  <2>1. QED
    BY <1>6, <1>7, StepInduction
<1>9. f[n] = val \div Pow(0)
  BY <1>8
<1>10. val \div Pow(0) = val
  BY DEF PowersGrow
<1>11. QED
  BY <1>1, <1>2, <1>5, <1>9, <1>10 DEF v, top

\* The value of a number's bytes is the number.
LEMMA WriteThenRead ==
  ASSUME NEW n \in 0 .. SMALL_LEN, NEW val \in 0 .. Pow(n) - 1
  PROVE  BigEndian(ToBytes(val, n)) = val
<1> DEFINE p == Pow(n)
<1>1. p \in Nat \ {0} /\ n \in Nat /\ val \in Int /\ val \in 0 .. p - 1
  BY PowFacts
<1>2. PowersGrow(n)
  <2>1. 0 .. n \subseteq 0 .. SMALL_LEN /\ 1 .. n \subseteq 1 .. SMALL_LEN
    BY ByteFacts
  <2>2. QED
    BY <2>1, PowFacts DEF PowersGrow
<1>3. Extend(val \div p, ToBytes(val, n)) = val
  BY <1>1, <1>2, WriteThenExtend
<1> HIDE DEF p
<1>4. 0 * p + val = val /\ (0 * p + val) \div p = 0
  BY <1>1, Divides
<1>5. QED
  BY <1>3, <1>4 DEF BigEndian

-----------------------------------------------------------------------------
(* The length of a small number.                                           *)

LEMMA SignBitFacts ==
  /\ SignBit \in Nat /\ SignBit \in Nat \ {0} /\ 2 * SignBit <= BYTE
  /\ SMALL_TOP \in Nat /\ SMALL_TOP < SignBit
BY AllocatorAssumption, EncodingAssumption DEF SignBit

LEMMA Thresholds ==
  ASSUME NEW m \in Nat \ {0}, PowersGrow(m)
  PROVE  /\ Threshold(1) = 1
         /\ \A n \in 2 .. m + 1 : Threshold(n) = SignBit * Pow(n - 2)
         /\ \A n \in 1 .. m + 1 : Threshold(n) \in Nat \ {0}
<1>1. Threshold(1) = 1
  BY DEF Threshold
<1>2. \A n \in 2 .. m + 1 : Threshold(n) = SignBit * Pow(n - 2)
  BY ByteFacts DEF Threshold, Pow
<1>3. ASSUME NEW n \in 2 .. m + 1
      PROVE  Threshold(n) \in Nat \ {0}
  <2> DEFINE p == Pow(n - 2)
  <2>1. n - 2 \in 0 .. m
    OBVIOUS
  <2>2. p \in Nat \ {0} /\ SignBit \in Nat \ {0}
    BY <2>1, SignBitFacts DEF PowersGrow
  <2>3. Threshold(n) = SignBit * p
    BY <1>2
  <2> HIDE DEF p
  <2>4. SignBit * p \in Nat \ {0}
    BY <2>2
  <2>5. QED
    BY <2>3, <2>4
<1>4. \A n \in 1 .. m + 1 : n = 1 \/ n \in 2 .. m + 1
  OBVIOUS
<1>5. QED
  BY <1>1, <1>2, <1>3, <1>4

LEMMA NextThreshold ==
  ASSUME NEW m \in Nat \ {0}, PowersGrow(m), NEW n \in 1 .. m
  PROVE  Threshold(n) <= Threshold(n + 1)
<1>1. CASE n = 1
  <2>1. 2 \in 1 .. m + 1
    BY <1>1
  <2>2. QED
    BY <1>1, <2>1, Thresholds
<1>2. CASE n # 1
  <2> DEFINE p == Pow(n - 2)
  <2>1. n \in 2 .. m + 1 /\ n + 1 \in 2 .. m + 1
        /\ n - 1 \in 1 .. m /\ (n + 1) - 2 = n - 1 /\ (n - 1) - 1 = n - 2
        /\ n - 2 \in 0 .. m
    BY <1>2
  <2>2. p \in Nat \ {0} /\ Pow(n - 1) = p * BYTE
    BY <2>1 DEF PowersGrow
  <2>3. Threshold(n) = SignBit * p /\ Threshold(n + 1) = SignBit * (p * BYTE)
    BY <2>1, <2>2, Thresholds
  <2> HIDE DEF p
  <2>4. SignBit * p \in Nat /\ SignBit * (p * BYTE) = BYTE * (SignBit * p)
    BY <2>2, SignBitFacts, ByteFacts
  <2> DEFINE q == SignBit * p
  <2>5. q \in Nat /\ Threshold(n) = q /\ Threshold(n + 1) = BYTE * q
    BY <2>3, <2>4
  <2> HIDE DEF q
  <2>6. BYTE * q >= q
    BY <2>5, ByteFacts, ProductGrows
  <2>7. BYTE * q \in Nat
    BY <2>5, ByteFacts
  <2>8. QED
    BY <2>5, <2>6, <2>7
<1>3. QED
  BY <1>1, <1>2

LEMMA ThresholdsGrow ==
  ASSUME NEW m \in Nat \ {0}, PowersGrow(m), NEW n \in 1 .. m + 1, NEW l \in 1 .. n
  PROVE  Threshold(l) <= Threshold(n)
<1> DEFINE S == {k \in Nat : \A j \in 1 .. k + 1 : Threshold(j) <= Threshold(k + 1)}
<1>1. 0 \in S
  <2>1. \A j \in 1 .. 0 + 1 : j = 1 /\ 0 + 1 = 1
    OBVIOUS
  <2>2. QED
    BY <2>1, Thresholds
<1>2. ASSUME NEW k \in 0 .. m - 1, k \in S PROVE k + 1 \in S
  <2>1. k + 1 \in 1 .. m /\ (k + 1) + 1 \in 1 .. m + 1
        /\ k + 1 \in 1 .. m + 1 /\ k + 1 \in Nat
    OBVIOUS
  <2>2. Threshold(k + 1) <= Threshold((k + 1) + 1)
    BY <2>1, NextThreshold
  <2>3. ASSUME NEW j \in 1 .. (k + 1) + 1
        PROVE  Threshold(j) <= Threshold((k + 1) + 1)
    <3>1. CASE j \in 1 .. k + 1
      <4>1. Threshold(j) <= Threshold(k + 1) /\ j \in 1 .. m + 1
        BY <1>2, <2>1, <3>1
      <4> DEFINE x == Threshold(j)
                 y == Threshold(k + 1)
                 z == Threshold((k + 1) + 1)
      <4>2. x \in Nat /\ y \in Nat /\ z \in Nat /\ x <= y /\ y <= z
        BY <2>1, <2>2, <4>1, Thresholds
      <4> HIDE DEF x, y, z
      <4>3. x <= z
        BY <4>2
      <4>4. QED
        BY <4>3 DEF x, z
    <3>2. CASE j = (k + 1) + 1
      BY <2>1, <3>2, Thresholds
    <3>3. QED
      BY <2>1, <3>1, <3>2
  <2>4. QED
    BY <2>1, <2>3
<1>3. \A k \in 0 .. m : k \in S
  <2> HIDE DEF S
  <2>1. QED
    BY <1>1, <1>2, StepInduction
<1>4. n - 1 \in 0 .. m /\ (n - 1) + 1 = n
  OBVIOUS
<1>5. QED
  BY <1>3, <1>4

\* k is the length of val.
HasLength(val, k) ==
  (k = 0 \/ Threshold(k) <= val) /\ val < Threshold(k + 1)

LEMMA LengthIs ==
  ASSUME NEW m \in Nat \ {0}, PowersGrow(m), NEW longest \in 1 .. m + 1,
         NEW val \in Nat, NEW k \in 0 .. m, k <= longest, HasLength(val, k)
  PROVE  EncodedLen(val, longest) = k
<1> DEFINE S == {n \in 1 .. longest : val >= Threshold(n)}
<1>0. k + 1 \in 1 .. m + 1 /\ k \in Nat
  OBVIOUS
<1>1. ASSUME NEW n \in 1 .. k PROVE n \in S
  <2>1. k \in 1 .. m + 1 /\ n \in 1 .. m + 1 /\ k # 0 /\ n \in 1 .. longest
    BY <1>0
  <2>2. Threshold(n) <= Threshold(k) /\ Threshold(k) <= val
    BY <2>1, ThresholdsGrow DEF HasLength
  <2>3. QED
    BY <2>1, <2>2, Thresholds
<1>2. ASSUME NEW n \in S PROVE n \in 1 .. k
  <2>1. n \in 1 .. m + 1 /\ Threshold(n) <= val /\ val < Threshold(k + 1)
    BY Thresholds DEF HasLength
  <2>2. CASE n > k
    <3>1. k + 1 \in 1 .. n
      BY <1>0, <2>1, <2>2
    <3>2. Threshold(k + 1) <= Threshold(n)
      BY <2>1, <3>1, ThresholdsGrow
    <3>3. QED
      BY <1>0, <2>1, <3>2, Thresholds
  <2>3. QED
    BY <1>0, <2>1, <2>2
<1>3. S = 1 .. k
  <2> HIDE DEF S
  <2>1. QED
    BY <1>1, <1>2, Zenon
<1>4. Cardinality(1 .. k) = k
  BY <1>0, FS_Interval
<1>5. QED
  BY <1>3, <1>4, Zenon DEF EncodedLen

\* An integer below the threshold of the next length has a length.
LEMMA LengthExists ==
  ASSUME NEW m \in Nat \ {0}, PowersGrow(m), NEW val \in Nat, val < Threshold(m + 1)
  PROVE  \E k \in 0 .. m : HasLength(val, k)
<1> DEFINE S == {k \in Nat : k = 0 \/ Threshold(k) <= val}
<1>1. SUFFICES ASSUME \A k \in 0 .. m : ~HasLength(val, k) PROVE FALSE
  OBVIOUS
<1>2. ASSUME NEW k \in 0 .. (m + 1) - 1, k \in S PROVE k + 1 \in S
  <2>1. k \in 0 .. m /\ k + 1 \in 1 .. m + 1 /\ k + 1 \in Nat
    OBVIOUS
  <2>2. ~(val < Threshold(k + 1))
    BY <1>1, <1>2, <2>1 DEF HasLength
  <2>3. QED
    BY <2>1, <2>2, Thresholds
<1>3. \A k \in 0 .. m + 1 : k \in S
  <2>1. 0 \in S /\ m + 1 \in Nat
    OBVIOUS
  <2> HIDE DEF S
  <2>2. QED
    BY <1>2, <2>1, StepInduction
<1>4. m + 1 \in 0 .. m + 1 /\ m + 1 # 0 /\ m + 1 \in 1 .. m + 1
  OBVIOUS
<1>5. Threshold(m + 1) <= val /\ Threshold(m + 1) \in Nat
  BY <1>3, <1>4, Thresholds
<1>6. QED
  BY <1>5

\* The same for the lengths of small atoms.
LEMMA ThresholdFacts ==
  /\ Threshold(1) = 1
  /\ \A n \in 2 .. SMALL_LEN + 1 : Threshold(n) = SignBit * Pow(n - 2)
  /\ \A n \in 1 .. SMALL_LEN + 1 : Threshold(n) \in Nat \ {0}
BY PowFacts, SmallPowers, Thresholds

LEMMA SmallLengthIs ==
  ASSUME NEW val \in Nat, NEW k \in 0 .. SMALL_LEN, HasLength(val, k)
  PROVE  len_for_value(val) = k
<1>1. /\ SMALL_LEN \in Nat \ {0} /\ SMALL_LEN + 1 \in 1 .. SMALL_LEN + 1
      /\ k <= SMALL_LEN + 1
  BY ByteFacts
<1>2. QED
  BY <1>1, SmallPowers, LengthIs DEF len_for_value

\* A number that fits the index bits has a length, at most SMALL_LEN.
LEMMA HasALength ==
  ASSUME NEW val \in 0 .. NODE_PTR_IDX_MASK
  PROVE  \E k \in 0 .. SMALL_LEN : HasLength(val, k)
<1> DEFINE p == Pow(SMALL_LEN - 1)
<1>1. SMALL_LEN - 1 \in 0 .. SMALL_LEN /\ SMALL_LEN + 1 \in 2 .. SMALL_LEN + 1
      /\ (SMALL_LEN + 1) - 2 = SMALL_LEN - 1
  BY ByteFacts
<1>2. p \in Nat \ {0} /\ Threshold(SMALL_LEN + 1) = SignBit * p
  BY <1>1, PowFacts, ThresholdFacts
<1>3. NODE_PTR_IDX_MASK = (SMALL_TOP + 1) * p - 1
  BY DEF NODE_PTR_IDX_MASK, Pow
<1> HIDE DEF p
<1>4. (SMALL_TOP + 1) * p <= SignBit * p
  <2>1. CASE SMALL_TOP + 1 = SignBit
    BY <1>2, <2>1, SignBitFacts
  <2>2. CASE SMALL_TOP + 1 < SignBit
    <3>1. SignBit - (SMALL_TOP + 1) \in Nat \ {0}
      BY <2>2, SignBitFacts
    <3>2. (SignBit - (SMALL_TOP + 1)) * p >= p
      BY <1>2, <3>1, ProductGrows
    <3>3. (SignBit - (SMALL_TOP + 1)) * p = SignBit * p - (SMALL_TOP + 1) * p
      BY <1>2, SignBitFacts
    <3>4. (SMALL_TOP + 1) * p \in Nat /\ SignBit * p \in Nat
      BY <1>2, SignBitFacts
    <3> DEFINE x == (SMALL_TOP + 1) * p
               y == SignBit * p
    <3>5. x \in Nat /\ y \in Nat /\ y - x >= p
      BY <3>2, <3>3, <3>4
    <3> HIDE DEF x, y
    <3>6. x <= y
      BY <1>2, <3>5
    <3>7. QED
      BY <3>6 DEF x, y
  <2>3. QED
    BY <2>1, <2>2, SignBitFacts
<1>5. val \in Nat /\ val < Threshold(SMALL_LEN + 1)
  <2> DEFINE x == (SMALL_TOP + 1) * p
             y == SignBit * p
  <2>1. x \in Nat /\ y \in Nat
    BY <1>2, SignBitFacts
  <2>2. val \in 0 .. x - 1 /\ x <= y /\ Threshold(SMALL_LEN + 1) = y
    BY <1>2, <1>3, <1>4
  <2> HIDE DEF x, y
  <2>3. QED
    BY <2>1, <2>2
<1>6. QED
  BY <1>5, PowFacts, SmallPowers, LengthExists

-----------------------------------------------------------------------------
(* Small atoms: fits_in_small_atom() admits exactly the encodings that     *)
(* atom() gives back.                                                      *)

LEMMA ProductMonotone ==
  ASSUME NEW x \in Nat, NEW y \in Nat, y <= x, NEW p \in Nat
  PROVE  y * p <= x * p /\ y * p \in Nat /\ x * p \in Nat
<1>1. (x - y) * p \in Nat /\ y * p \in Nat /\ x * p \in Nat
  <2>1. x - y \in Nat
    OBVIOUS
  <2> DEFINE d == x - y
  <2> HIDE DEF d
  <2>2. d * p \in Nat
    BY <2>1 DEF d
  <2>3. QED
    BY <2>2 DEF d
<1>2. (x - y) * p = x * p - y * p
  OBVIOUS
<1> DEFINE u == (x - y) * p
           v == x * p
           w == y * p
<1>3. u \in Nat /\ v \in Nat /\ w \in Nat /\ u = v - w
  BY <1>1, <1>2
<1> HIDE DEF u, v, w
<1>4. w <= v
  BY <1>3
<1>5. QED
  BY <1>1, <1>4 DEF v, w

LEMMA NoBytes == BigEndian(<<>>) = 0
<1>1. <<>> \in Seq(Nat) /\ 0 \in Int /\ Len(<<>>) = 0
  OBVIOUS
<1>2. PICK f : Reads(f, 0, <<>>) /\ Extend(0, <<>>) = f[Len(<<>>)]
  BY <1>1, ExtendReads, Zenon
<1>3. QED
  BY <1>1, <1>2 DEF Reads, BigEndian

\* A string that fits has the length of its value.
LEMMA FittingLength ==
  ASSUME NEW v \in Seq(Byte), fits_in_small_atom(v)
  PROVE  /\ Len(v) \in 0 .. SMALL_LEN /\ BigEndian(v) \in Nat
         /\ HasLength(BigEndian(v), Len(v))
<1>1. CASE v = <<>>
  <2>1. Len(v) = 0 /\ BigEndian(v) = 0 /\ Threshold(0 + 1) = 1
    BY <1>1, NoBytes, ThresholdFacts
  <2>2. QED
    BY <2>1, ByteFacts DEF HasLength
<1>2. CASE v # <<>>
  <2> DEFINE n == Len(v)
             p == Pow(n - 1)
  <2>1. /\ n \in 1 .. SMALL_LEN /\ v # <<0>> /\ v[1] < SignBit
        /\ (v[1] = 0 => v[2] >= SignBit)
    BY <1>2, ByteFacts DEF fits_in_small_atom
  <2>2. v[1] \in Nat /\ (n > 1 => v[2] \in Nat) /\ (n = 1 => v[1] # 0)
    <3>1. v \in Seq(Nat)
      BY BytesAreNumbers
    <3>2. n = 1 /\ v[1] = 0 => v = <<0>>
      BY <3>1
    <3>3. QED
      BY <2>1, <3>1, <3>2
  <2>3. BigEndian(v) \in Nat
    BY <2>1, FirstBytes
  <2>4. PICK r \in 0 .. p - 1 : BigEndian(v) = v[1] * p + r
    BY <2>1, FirstBytes
  <2>5. p \in Nat \ {0} /\ n + 1 \in 2 .. SMALL_LEN + 1 /\ (n + 1) - 2 = n - 1
    <3>1. n - 1 \in 0 .. SMALL_LEN
      BY <2>1, ByteFacts
    <3>2. p \in Nat \ {0}
      BY <3>1, PowFacts
    <3>3. n + 1 \in 2 .. SMALL_LEN + 1 /\ (n + 1) - 2 = n - 1
      <4> HIDE DEF n
      <4> QED BY <2>1, ByteFacts
    <3>4. QED
      BY <3>2, <3>3
  <2>6. BigEndian(v) < Threshold(n + 1)
    <3>1. Threshold(n + 1) = SignBit * p
      BY <2>5, ThresholdFacts
    <3> DEFINE d == v[1]
    <3>2. d \in 0 .. SignBit - 1 /\ BigEndian(v) = d * p + r
      BY <2>1, <2>2, <2>4, SignBitFacts
    <3> HIDE DEF p, d
    <3>3. d * p + r \in 0 .. p * SignBit - 1
      BY <2>5, <3>2, SignBitFacts, DigitFits
    <3>4. p * SignBit = SignBit * p /\ p * SignBit \in Nat
      BY <2>5, SignBitFacts
    <3> DEFINE z == p * SignBit
    <3>5. BigEndian(v) \in 0 .. z - 1 /\ Threshold(n + 1) = z /\ z \in Nat
      BY <3>1, <3>2, <3>3, <3>4
    <3> HIDE DEF z
    <3>6. QED
      BY <3>5
  <2>7. Threshold(n) <= BigEndian(v)
    <3>1. CASE n = 1
      <4>1. p = 1
        BY <3>1, PowFacts
      <4>2. r = 0
        BY <4>1
      <4>3. BigEndian(v) = v[1]
        BY <2>2, <2>4, <4>1, <4>2
      <4>4. QED
        BY <2>2, <3>1, <4>3, ThresholdFacts
    <3>2. CASE n # 1
      <4> DEFINE q == Pow(n - 2)
                 x == v[1] * BYTE + v[2]
      <4>1. n \in 2 .. SMALL_LEN + 1 /\ n > 1 /\ n - 2 \in 0 .. SMALL_LEN
        <5> HIDE DEF n
        <5> QED BY <2>1, <3>2, ByteFacts
      <4>2. q \in Nat \ {0} /\ Threshold(n) = SignBit * q
        BY <4>1, PowFacts, ThresholdFacts
      <4>3. PICK t \in 0 .. q - 1 : BigEndian(v) = x * q + t
        BY <2>1, <4>1, FirstBytes
      <4>4. x \in Nat /\ SignBit <= x
        <5> DEFINE c == v[1]
                   d == v[2]
        <5>1. c \in Nat /\ d \in Nat /\ (c = 0 => d >= SignBit)
          BY <2>1, <2>2, <4>1
        <5> HIDE DEF c, d
        <5>2. c * BYTE + d \in Nat
          BY <5>1, ByteFacts, MultiplyAddType
        <5>3. c # 0 => c * BYTE >= BYTE
          BY <5>1, ByteFacts, ProductGrows
        <5>4. SignBit <= c * BYTE + d
          <6>1. CASE c = 0
            BY <5>1, <6>1, ByteFacts, SignBitFacts
          <6>2. CASE c # 0
            <7> DEFINE y == c * BYTE
            <7>1. y \in Int /\ y >= BYTE
              BY <5>1, <5>3, <6>2, ByteFacts
            <7> HIDE DEF y
            <7>2. SignBit <= y + d
              BY <5>1, <7>1, ByteFacts, SignBitFacts
            <7>3. QED
              BY <7>2 DEF y
          <6>3. QED
            BY <6>1, <6>2
        <5>5. QED
          BY <5>2, <5>4 DEF c, d
      <4> HIDE DEF q, x
      <4>5. SignBit * q <= x * q /\ SignBit * q \in Nat /\ x * q \in Nat
        BY <4>2, <4>4, SignBitFacts, ProductMonotone
      <4> DEFINE y == SignBit * q
                 z == x * q
      <4>6. y \in Nat /\ z \in Nat /\ y <= z /\ Threshold(n) = y /\ BigEndian(v) = z + t
        BY <4>2, <4>3, <4>5
      <4> HIDE DEF y, z
      <4>7. QED
        BY <4>2, <4>6
    <3>3. QED
      BY <3>1, <3>2
  <2>8. QED
    BY <2>1, <2>3, <2>6, <2>7, ByteFacts DEF HasLength
<1>3. QED
  BY <1>1, <1>2

\* A small atom made of v reads as v.
LEMMA SmallAtomReadsBack ==
  ASSUME NEW v \in Seq(Byte), fits_in_small_atom(v)
  PROVE  ToBytes(BigEndian(v), len_for_value(BigEndian(v))) = v
<1>1. len_for_value(BigEndian(v)) = Len(v) /\ Len(v) <= SMALL_LEN
  BY FittingLength, SmallLengthIs, ByteFacts
<1>2. QED
  BY <1>1, ReadThenWrite

\* A number that fits is written as bytes that fit and read as the number.
LEMMA SmallAtomIsCanonical ==
  ASSUME NEW val \in 0 .. NODE_PTR_IDX_MASK
  PROVE  /\ len_for_value(val) \in 0 .. SMALL_LEN
         /\ val = 0 => len_for_value(val) = 0
         /\ ToBytes(val, len_for_value(val)) \in Seq(Byte)
         /\ Len(ToBytes(val, len_for_value(val))) = len_for_value(val)
         /\ fits_in_small_atom(ToBytes(val, len_for_value(val)))
         /\ BigEndian(ToBytes(val, len_for_value(val))) = val
<1>0. val \in Nat /\ val \in Int
  BY HasALength DEF HasLength
<1>1. PICK k \in 0 .. SMALL_LEN : HasLength(val, k)
  BY HasALength
<1>2. len_for_value(val) = k
  BY <1>0, <1>1, SmallLengthIs
<1> DEFINE u == ToBytes(val, k)
<1>3. k \in Nat /\ u \in Seq(Byte) /\ Len(u) = k
  <2>1. k \in Nat /\ (k = 0 \/ Powers(k - 1))
    BY ByteFacts, AllocatorAssumption DEF Powers
  <2>2. QED
    BY <1>0, <2>1, ToBytesType
<1> HIDE DEF u
<1>4. CASE k = 0
  <2>1. u = <<>>
    BY <1>3, <1>4
  <2>2. val = 0
    BY <1>0, <1>1, <1>4, ThresholdFacts DEF HasLength
  <2>3. QED
    BY <1>2, <1>3, <1>4, <2>1, <2>2, NoBytes DEF u, fits_in_small_atom
<1>5. CASE k # 0
  <2> DEFINE p == Pow(k - 1)
             d == u[1]
  <2>1. /\ k \in 1 .. SMALL_LEN /\ k - 1 \in 0 .. SMALL_LEN
        /\ k + 1 \in 2 .. SMALL_LEN + 1 /\ (k + 1) - 2 = k - 1
        /\ k \in 1 .. SMALL_LEN + 1
    BY <1>5, ByteFacts
  <2>2. /\ p \in Nat \ {0} /\ Pow(k) = p * BYTE /\ Pow(k) \in Nat
        /\ Threshold(k + 1) = SignBit * p
    BY <2>1, PowFacts, ThresholdFacts
  <2>3. val < SignBit * p /\ Threshold(k) <= val
    BY <1>1, <1>5, <2>2 DEF HasLength
  <2>4. d \in Nat /\ (k > 1 => u[2] \in Nat)
    <3>1. u \in Seq(Nat)
      BY <1>3, BytesAreNumbers
    <3>2. QED
      BY <1>3, <2>1, <3>1, ByteFacts
  <2>5. val # 0
    <3>1. Threshold(k) \in Nat \ {0}
      BY <2>1, ThresholdFacts
    <3>2. QED
      BY <1>0, <2>3, <3>1
  <2>6. BigEndian(u) = val
    <3> HIDE DEF p
    <3>1. SignBit * p <= BYTE * p /\ BYTE * p \in Nat /\ SignBit * p \in Nat
      BY <2>2, ByteFacts, SignBitFacts, ProductMonotone
    <3>2. BYTE * p = p * BYTE
      BY <2>2, ByteFacts
    <3> DEFINE y == SignBit * p
               z == BYTE * p
    <3>3. y \in Nat /\ z \in Nat /\ y <= z /\ val < y /\ Pow(k) = z
      BY <2>2, <2>3, <3>1, <3>2
    <3> HIDE DEF y, z
    <3>4. val \in 0 .. Pow(k) - 1
      BY <1>0, <3>3
    <3>5. QED
      BY <3>4, WriteThenRead DEF u
  <2>7. PICK r \in 0 .. p - 1 : val = d * p + r
    BY <1>3, <2>1, <2>6, FirstBytes
  <2>8. ASSUME NEW b \in Nat, val < b * p
        PROVE  d < b
    <3> SUFFICES ASSUME b <= d PROVE FALSE
      BY <2>4
    <3> HIDE DEF p, d
    <3>1. b * p <= d * p /\ b * p \in Nat /\ d * p \in Nat
      BY <2>2, <2>4, ProductMonotone
    <3> DEFINE y == b * p
               z == d * p
    <3>2. y \in Nat /\ z \in Nat /\ y <= z /\ val < y /\ val = z + r
      BY <2>7, <2>8, <3>1
    <3> HIDE DEF y, z
    <3>3. QED
      BY <1>0, <2>2, <3>2
  <2>9. d < SignBit
    BY <2>3, <2>8, SignBitFacts
  <2>10. k = SMALL_LEN => d <= SMALL_TOP
    <3> SUFFICES ASSUME k = SMALL_LEN PROVE d < SMALL_TOP + 1
      BY <2>4, SignBitFacts
    <3>1. NODE_PTR_IDX_MASK = (SMALL_TOP + 1) * p - 1
      BY DEF NODE_PTR_IDX_MASK, Pow
    <3> DEFINE x == (SMALL_TOP + 1) * p
    <3>2. x \in Nat /\ val \in 0 .. x - 1
      <4>1. (SMALL_TOP + 1) * p \in Nat
        <5> HIDE DEF p
        <5> QED BY <2>2, SignBitFacts
      <4>2. QED
        BY <3>1, <4>1
    <3>3. val < x
      <4> HIDE DEF x
      <4> QED BY <3>2
    <3>4. SMALL_TOP + 1 \in Nat
      BY SignBitFacts
    <3>5. QED
      BY <2>8, <3>3, <3>4
  <2>11. k = 1 => d # 0
    <3> SUFFICES ASSUME k = 1, d = 0 PROVE FALSE
      OBVIOUS
    <3>1. p = 1
      BY PowFacts
    <3>2. r = 0 /\ val = 0 * 1 + 0
      BY <2>7, <3>1
    <3>3. QED
      BY <2>5, <3>2
  <2>12. d = 0 => u[2] >= SignBit
    <3> SUFFICES ASSUME d = 0, ~(u[2] >= SignBit) PROVE FALSE
      OBVIOUS
    <3> DEFINE q == Pow(k - 2)
               e == u[2]
    <3>1. k > 1 /\ k \in 2 .. SMALL_LEN + 1 /\ k - 2 \in 0 .. SMALL_LEN
      BY <2>1, <2>11, ByteFacts
    <3>2. q \in Nat \ {0} /\ Threshold(k) = SignBit * q
      BY <3>1, PowFacts, ThresholdFacts
    <3>3. PICK t \in 0 .. q - 1 : val = (d * BYTE + e) * q + t
      BY <1>3, <2>1, <2>6, <3>1, FirstBytes
    <3>4. e \in 0 .. SignBit - 1
      BY <2>4, <3>1, SignBitFacts
    <3> HIDE DEF d, e, q
    <3>5. d * BYTE + e = e
      BY <3>4, ByteFacts
    <3>6. val = e * q + t
      BY <3>3, <3>5
    <3>7. e * q + t \in 0 .. q * SignBit - 1
      BY <3>2, <3>4, SignBitFacts, DigitFits
    <3>8. q * SignBit = SignBit * q /\ q * SignBit \in Nat
      BY <3>2, SignBitFacts
    <3> DEFINE z == q * SignBit
    <3>9. z \in Nat /\ val \in 0 .. z - 1 /\ z <= val
      BY <2>3, <3>2, <3>6, <3>7, <3>8
    <3> HIDE DEF z
    <3>10. QED
      BY <3>9
  <2>13. fits_in_small_atom(u)
    <3>1. u # <<0>>
      <4>1. Len(<<0>>) = 1 /\ <<0>>[1] = 0
        OBVIOUS
      <4>2. u = <<0>> => k = 1 /\ d = 0
        BY <1>3, <4>1
      <4>3. QED
        BY <2>11, <4>2
    <3>2. Len(u) <= SMALL_LEN
      BY <1>3, <2>1, ByteFacts
    <3>3. Len(u) = SMALL_LEN => d <= SMALL_TOP
      BY <1>3, <2>10
    <3>4. QED
      BY <2>9, <2>12, <3>1, <3>2, <3>3, Zenon DEF fits_in_small_atom
  <2>14. QED
    BY <1>2, <1>3, <2>5, <2>6, <2>13 DEF u
<1>6. QED
  BY <1>4, <1>5

-----------------------------------------------------------------------------
(* Atoms.                                                                  *)

\* A small atom of the client holds a number that fits.
Canonical(n) == n.tag = "SmallAtom" => n.index \in 0 .. NODE_PTR_IDX_MASK

\* A heap atom against a number: bytes_eq_int() compares as the bytes do.
LEMMA BytesEqInt ==
  ASSUME NEW a, Sound(a), NEW n \in NodePtr, Valid(a, n), n.tag = "Bytes",
         Readable(a, n), NEW val \in 0 .. NODE_PTR_IDX_MASK
  PROVE  bytes_eq_int(a, n, val) <=> Atom(a, n) = ToBytes(val, len_for_value(val))
<1> DEFINE u == ToBytes(val, len_for_value(val))
           w == Atom(a, n)
           k == len_for_value(val)
<1>1. /\ k \in 0 .. SMALL_LEN /\ (val = 0 => k = 0)
      /\ u \in Seq(Byte) /\ Len(u) = k /\ fits_in_small_atom(u) /\ BigEndian(u) = val
  BY SmallAtomIsCanonical
<1>2. w \in Seq(Byte) /\ Len(w) = atom_len(a, n) /\ atom_len(a, n) \in Nat
  BY AtomBytes DEF IsAtom
<1>3. Len(w) > 0 => a.u8_vec[Buf(a, n).start + 1] = w[1]
  <2>1. /\ a.u8_vec \in Seq(Byte) /\ Buf(a, n).start \in Nat /\ Buf(a, n).end \in Nat
        /\ Buf(a, n).start <= Buf(a, n).end /\ Buf(a, n).end <= Len(a.u8_vec)
    BY BufInHeap, ValidCases, Vectors DEF Sound, Readable
  <2> DEFINE h == a.u8_vec
             lo == Buf(a, n).start
             hi == Buf(a, n).end
  <2>2. w = SubSeq(h, lo + 1, hi)
    BY DEF Atom
  <2>3. h \in Seq(Byte) /\ lo \in Nat /\ hi \in Nat /\ lo <= hi /\ hi <= Len(h)
    BY <2>1
  <2> HIDE DEF h, lo, hi, w
  <2>4. Len(w) > 0 => h[lo + 1] = w[1]
    BY <2>2, <2>3
  <2>5. QED
    BY <2>4 DEF h, lo
<1> HIDE DEF u, w, k
<1>4. ASSUME w = u PROVE bytes_eq_int(a, n, val)
  <2>1. atom_len(a, n) = k /\ BigEndian(w) = val
    BY <1>1, <1>2, <1>4
  <2>2. CASE k = 0
    <3>1. u = <<>>
      BY <1>1, <2>2
    <3>2. val = 0
      BY <1>1, <3>1, NoBytes
    <3>3. QED
      BY <2>1, <3>2 DEF bytes_eq_int, k, w
  <2>3. CASE k # 0
    <3>1. u # <<>> /\ Len(w) > 0
      BY <1>1, <1>4, <2>3, ByteFacts
    <3>2. u[1] < SignBit
      BY <1>1, <3>1 DEF fits_in_small_atom
    <3>3. QED
      BY <1>3, <1>4, <2>1, <3>1, <3>2 DEF bytes_eq_int, k, w
  <2>4. QED
    BY <2>2, <2>3
<1>5. ASSUME bytes_eq_int(a, n, val) PROVE w = u
  <2>1. Len(w) = k /\ (val = 0 \/ BigEndian(w) = val)
    BY <1>2, <1>5 DEF bytes_eq_int, k, w
  <2>2. CASE val = 0
    <3>1. w = <<>> /\ u = <<>>
      BY <1>1, <1>2, <2>1, <2>2
    <3>2. QED
      BY <3>1
  <2>3. CASE val # 0
    <3>1. BigEndian(w) = val /\ Len(w) <= SMALL_LEN
      BY <1>1, <2>1, <2>3, ByteFacts
    <3>2. ToBytes(BigEndian(w), Len(w)) = w
      BY <1>2, <3>1, ReadThenWrite
    <3>3. QED
      BY <2>1, <3>1, <3>2 DEF u, k
  <2>4. QED
    BY <2>2, <2>3
<1>6. QED
  BY <1>4, <1>5 DEF u, w

\* Equality, and small_number(), see only the bytes.
LEMMA OnlyBytesAreCompared ==
  ASSUME NEW a, Sound(a),
         NEW x \in NodePtr, Valid(a, x), IsAtom(x), Canonical(x), Readable(a, x),
         NEW y \in NodePtr, Valid(a, y), IsAtom(y), Canonical(y), Readable(a, y)
  PROVE  /\ atom_eq(a, x, y) <=> Atom(a, x) = Atom(a, y)
         /\ Atom(a, x) = Atom(a, y) => small_number(a, x) = small_number(a, y)
<1>t. x.tag \in {"Bytes", "SmallAtom"} /\ y.tag \in {"Bytes", "SmallAtom"}
  BY ValidCases DEF IsAtom
<1>1. ASSUME NEW n \in NodePtr, n.tag = "SmallAtom", Canonical(n)
      PROVE  /\ Atom(a, n) = ToBytes(n.index, len_for_value(n.index))
             /\ fits_in_small_atom(Atom(a, n)) /\ BigEndian(Atom(a, n)) = n.index
             /\ small_number(a, n) = n.index /\ n.index \in 0 .. NODE_PTR_IDX_MASK
  <2>1. n.index \in 0 .. NODE_PTR_IDX_MASK
    BY <1>1 DEF Canonical
  <2>2. Atom(a, n) = ToBytes(n.index, len_for_value(n.index))
    BY <1>1 DEF Atom
  <2>3. small_number(a, n) = n.index
    BY <1>1 DEF small_number
  <2>4. QED
    BY <2>1, <2>2, <2>3, SmallAtomIsCanonical
<1>2. ASSUME NEW n \in NodePtr, n.tag = "Bytes"
      PROVE  small_number(a, n) = IF fits_in_small_atom(Atom(a, n))
                                  THEN BigEndian(Atom(a, n)) ELSE None
  BY <1>2 DEF small_number
<1>3. CASE x.tag = "SmallAtom" /\ y.tag = "SmallAtom"
  <2>1. atom_eq(a, x, y) <=> x.index = y.index
    BY <1>3 DEF atom_eq
  <2>2. QED
    BY <1>1, <1>3, <2>1
<1>4. CASE x.tag = "Bytes" /\ y.tag = "Bytes"
  <2>1. atom_eq(a, x, y) <=> Atom(a, x) = Atom(a, y)
    BY <1>4 DEF atom_eq
  <2>2. QED
    BY <1>2, <1>4, <2>1
<1>5. CASE x.tag = "SmallAtom" /\ y.tag = "Bytes"
  <2>1. atom_eq(a, x, y) <=> bytes_eq_int(a, y, x.index)
    BY <1>5 DEF atom_eq
  <2>2. bytes_eq_int(a, y, x.index) <=> Atom(a, y) = Atom(a, x)
    BY <1>1, <1>5, BytesEqInt
  <2>3. QED
    BY <1>1, <1>2, <1>5, <2>1, <2>2
<1>6. CASE x.tag = "Bytes" /\ y.tag = "SmallAtom"
  <2>1. atom_eq(a, x, y) <=> bytes_eq_int(a, x, y.index)
    BY <1>6 DEF atom_eq
  <2>2. bytes_eq_int(a, x, y.index) <=> Atom(a, x) = Atom(a, y)
    BY <1>1, <1>6, BytesEqInt
  <2>3. QED
    BY <1>1, <1>2, <1>6, <2>1, <2>2
<1>7. QED
  BY <1>t, <1>3, <1>4, <1>5, <1>6

\* The atom that a call makes.
LEMMA PushedAtom ==
  ASSUME NEW a \in AllocatorType, NEW heap \in Seq(Byte),
         NEW start \in 0 .. U32 - 1, NEW end \in 0 .. U32 - 1
  PROVE  Atom(PushAtom(a, heap, start, end).a, PushAtom(a, heap, start, end).node)
           = SubSeq(heap, start + 1, end)
<1> DEFINE r == PushAtom(a, heap, start, end)
           b == [start |-> start, end |-> end]
<1>u. u32(start) = start /\ u32(end) = end
  BY Casts
<1>1. a.atom_vec \in Seq(AtomBuf)
  BY Vectors
<1>2. r.a.u8_vec = heap /\ r.a.atom_vec = Append(a.atom_vec, b)
      /\ r.node.tag = "Bytes" /\ r.node.index = Len(a.atom_vec)
  BY <1>u, Zenon DEF PushAtom, Ok, Node, AllocatorType
<1>3. b.start = start /\ b.end = end /\ b \in AtomBuf
  BY DEF AtomBuf
<1> HIDE DEF r, b
<1>4. Append(a.atom_vec, b)[Len(a.atom_vec) + 1] = b
  BY <1>1, <1>3
<1>5. Buf(r.a, r.node) = b
  BY <1>2, <1>4 DEF Buf
<1>6. QED
  BY <1>2, <1>3, <1>5, Zenon DEF Atom, r

LEMMA PushedBytes ==
  ASSUME NEW a \in AllocatorType, NEW v \in Seq(Byte), Addressable(PushBytes(a, v).a)
  PROVE  Atom(PushBytes(a, v).a, PushBytes(a, v).node) = v
<1> DEFINE h == a.u8_vec
<1>1. h \in Seq(Byte)
  BY Vectors
<1> HIDE DEF h
<1>u. PushBytes(a, v).a.u8_vec = h \o v
  BY Zenon DEF PushBytes, PushAtom, Ok, AllocatorType, h
<1>2. /\ h \o v \in Seq(Byte) /\ Len(h) \in 0 .. U32 - 1
      /\ Len(h) + Len(v) \in 0 .. U32 - 1
  BY <1>1, <1>u, AllocatorAssumption DEF Addressable
<1>3. SubSeq(h \o v, Len(h) + 1, Len(h) + Len(v)) = v
  BY <1>1
<1>4. QED
  BY <1>2, <1>3, PushedAtom, Zenon DEF PushBytes, h

LEMMA PushedSmall ==
  ASSUME NEW a, NEW v \in Seq(Byte), fits_in_small_atom(v)
  PROVE  Atom(PushSmall(a, BigEndian(v)).a, PushSmall(a, BigEndian(v)).node) = v
<1> DEFINE r == PushSmall(a, BigEndian(v))
<1>1. r.node.tag = "SmallAtom" /\ r.node.index = BigEndian(v)
  BY DEF PushSmall, Ok, Small, Node
<1> HIDE DEF r
<1>2. QED
  BY <1>1, SmallAtomReadsBack DEF Atom, r

LEMMA NewAtomHasItsBytes ==
  ASSUME NEW a \in AllocatorType, NEW v \in Seq(Byte), new_atom(a, v).ok,
         Addressable(new_atom(a, v).a)
  PROVE  Atom(new_atom(a, v).a, new_atom(a, v).node) = v
<1>1. CASE HeapRoom(u32(Len(a.u8_vec))) < Len(v) \/ ~check_atom_limit(a)
  BY <1>1 DEF new_atom, Err
<1>2. CASE ~(HeapRoom(u32(Len(a.u8_vec))) < Len(v) \/ ~check_atom_limit(a)) /\ fits_in_small_atom(v)
  <2>1. new_atom(a, v) = PushSmall(a, BigEndian(v))
    BY <1>2 DEF new_atom
  <2>2. QED
    BY <1>2, <2>1, PushedSmall
<1>3. CASE ~(HeapRoom(u32(Len(a.u8_vec))) < Len(v) \/ ~check_atom_limit(a)) /\ ~fits_in_small_atom(v)
  <2>1. new_atom(a, v) = PushBytes(a, v)
    BY <1>3 DEF new_atom
  <2>2. QED
    BY <2>1, PushedBytes
<1>4. QED
  BY <1>1, <1>2, <1>3

LEMMA SliceOfSlice ==
  ASSUME NEW h \in Seq(Byte), NEW s \in Nat, NEW e \in Nat, s <= e, e <= Len(h),
         NEW start \in Nat, NEW end \in Nat, start <= end, end <= e - s
  PROVE  SubSeq(SubSeq(h, s + 1, e), start + 1, end) = SubSeq(h, (s + start) + 1, s + end)
<1> DEFINE w == SubSeq(h, s + 1, e)
           x == SubSeq(w, start + 1, end)
           y == SubSeq(h, (s + start) + 1, s + end)
<1>1. w \in Seq(Byte) /\ Len(w) = e - s /\ \A i \in 1 .. Len(w) : w[i] = h[s + i]
  OBVIOUS
<1>2. y \in Seq(Byte) /\ Len(y) = end - start /\ \A i \in 1 .. Len(y) : y[i] = h[(s + start) + i]
  OBVIOUS
<1> HIDE DEF w, y
<1>3. x \in Seq(Byte) /\ Len(x) = end - start /\ \A i \in 1 .. Len(x) : x[i] = w[start + i]
  BY <1>1
<1> HIDE DEF x
<1>4. \A i \in 1 .. end - start : x[i] = y[i]
  <2> TAKE i \in 1 .. end - start
  <2>0. i \in 1 .. Len(x) /\ i \in 1 .. Len(y) /\ start + i \in 1 .. Len(w)
    <3>1. Len(x) = end - start /\ Len(y) = end - start /\ Len(w) = e - s
      BY ONLY <1>1, <1>2, <1>3
    <3>2. start + i \in 1 .. e - s
      OBVIOUS
    <3>3. QED
      BY ONLY <3>1, <3>2, i \in 1 .. end - start
  <2>1. x[i] = w[start + i] /\ y[i] = h[(s + start) + i]
    BY ONLY <1>2, <1>3, <2>0
  <2>2. w[start + i] = h[s + (start + i)]
    BY ONLY <1>1, <2>0
  <2>3. s + (start + i) = (s + start) + i
    OBVIOUS
  <2>4. QED
    BY <2>1, <2>2, <2>3
<1>5. /\ x \in Seq(Byte) /\ y \in Seq(Byte) /\ Len(x) = Len(y)
      /\ \A i \in 1 .. Len(x) : x[i] = y[i]
  BY <1>2, <1>3, <1>4
<1>6. x = y
  BY ONLY <1>5, SameSequence
<1>7. QED
  BY <1>6 DEF w, x, y

LEMMA NewSubstrHasItsBytes ==
  ASSUME NEW a, Sound(a), NEW n \in NodePtr, Valid(a, n),
         NEW start \in Nat, NEW end \in Nat, new_substr(a, n, start, end).ok,
         Addressable(new_substr(a, n, start, end).a)
  PROVE  Atom(new_substr(a, n, start, end).a, new_substr(a, n, start, end).node)
           = SubSeq(Atom(a, n), start + 1, end)
<1>0. a \in AllocatorType
  BY DEF Sound
<1> DEFINE Refused == \/ ~check_atom_limit(a)
                      \/ ~IsAtom(n)
                      \/ ~bounds_check(start, end, atom_len(a, n))
<1>1. CASE Refused
  BY <1>1 DEF new_substr, Err
<1>2. CASE ~Refused /\ n.tag = "Bytes"
  <2> DEFINE h == a.u8_vec
             s == Buf(a, n).start
             e == Buf(a, n).end
  <2>3. new_substr(a, n, start, end) = PushAtom(a, h, s + start, s + end)
    BY <1>2 DEF new_substr
  <2>u. Addressable(a)
    <3>1. PushAtom(a, h, s + start, s + end).a.u8_vec = h
      BY <1>0, Zenon DEF PushAtom, Ok, AllocatorType
    <3>2. QED
      BY <2>3, <3>1 DEF Addressable
  <2>1. /\ h \in Seq(Byte) /\ s \in Nat /\ e \in 0 .. U32 - 1 /\ s <= e /\ e <= Len(h)
    BY <1>0, <1>2, <2>u, BufInHeap, ValidCases, Vectors DEF Sound, Readable
  <2>2. start <= end /\ end <= e - s
    <3>1. start <= end /\ end <= u32(e - s)
      BY <1>2 DEF bounds_check, atom_len
    <3>2. e - s \in 0 .. U32 - 1
      BY <2>1, AllocatorAssumption
    <3>3. QED
      BY <3>1, <3>2, Casts
  <2>4. Atom(a, n) = SubSeq(h, s + 1, e)
    BY <1>2 DEF Atom
  <2> HIDE DEF h, s, e
  <2>5. s + start \in 0 .. U32 - 1 /\ s + end \in 0 .. U32 - 1
    BY <2>1, <2>2, AllocatorAssumption
  <2>6. SubSeq(SubSeq(h, s + 1, e), start + 1, end) = SubSeq(h, (s + start) + 1, s + end)
    BY <2>1, <2>2, SliceOfSlice
  <2> DEFINE r == PushAtom(a, h, s + start, s + end)
  <2>7. Atom(r.a, r.node) = SubSeq(h, (s + start) + 1, s + end)
    BY <1>0, <2>1, <2>5, PushedAtom, Zenon
  <2>8. QED
    BY <2>3, <2>4, <2>6, <2>7, Zenon
<1>3. CASE ~Refused /\ n.tag # "Bytes"
  <2> DEFINE sub == SubSeq(Atom(a, n), start + 1, end)
  <2>1. IsAtom(n) /\ start <= end /\ end <= atom_len(a, n)
    BY <1>3, Zenon DEF bounds_check
  <2>2. sub \in Seq(Byte)
    <3> DEFINE w == Atom(a, n)
    <3>1. w \in Seq(Byte) /\ end <= Len(w)
      BY <1>3, <2>1, AtomBytes DEF Readable
    <3> HIDE DEF w
    <3>2. SubSeq(w, start + 1, end) \in Seq(Byte)
      BY <2>1, <3>1
    <3>3. QED
      BY <3>2 DEF w
  <2>3. new_substr(a, n, start, end)
          = IF fits_in_small_atom(sub) THEN PushSmall(a, BigEndian(sub))
                                       ELSE PushBytes(a, sub)
    BY <1>3 DEF new_substr
  <2> HIDE DEF sub
  <2>4. Atom(new_substr(a, n, start, end).a, new_substr(a, n, start, end).node) = sub
    BY <1>0, <2>2, <2>3, PushedSmall, PushedBytes
  <2>5. QED
    BY <2>4 DEF sub
<1>4. QED
  BY <1>1, <1>2, <1>3
=============================================================================

----------------------------- MODULE HashProofs -----------------------------
(***************************************************************************)
(* Theorems about the hash function: for keys of any length, at any        *)
(* address, in any memory.                                                 *)
(***************************************************************************)
EXTENDS Hash, WellFoundedInduction, TLAPS

-----------------------------------------------------------------------------
(* Arithmetic modulo 2^32, on pairs of halves. *)

Below(n) == {i \in Nat : i < n}

Words == Below(65536) \X Below(65536)

LEMMA WordsAre ==
  /\ \A x \in Words : x = <<x[1], x[2]>> /\ x[1] \in Below(65536) /\ x[2] \in Below(65536)
  /\ \A h, l \in Below(65536) : <<h, l>> \in Words
BY DEF Words

\* A number of twice the width, of halves below n.
PartsOf(n, nn) ==
  /\ \A x \in Int : x \div n \in Int /\ x % n \in Int
  /\ \A x \in Below(nn) : /\ x \in Int /\ x \div n \in Below(n) /\ x % n \in Below(n)
                         /\ n * (x \div n) + (x % n) = x
  /\ \A h, l \in Below(n) : /\ n * h + l \in Below(nn)
                            /\ (n * h + l) \div n = h /\ (n * h + l) % n = l

LEMMA Parts == PartsOf(2, 4) /\ PartsOf(4, 16) /\ PartsOf(16, 256) /\ PartsOf(256, 65536)
<1>1. PartsOf(2, 4)
  BY DEF PartsOf, Below
<1>2. PartsOf(4, 16)
  BY DEF PartsOf, Below
<1>3. PartsOf(16, 256)
  BY DEF PartsOf, Below
<1>4. PartsOf(256, 65536)
  BY DEF PartsOf, Below
<1> QED
  BY <1>1, <1>2, <1>3, <1>4

\* The operator ^ on bits, and from each width to the next.  The second argument
\* need not be a word.
LEMMA Xor1Lemma ==
  /\ \A x, y \in Int : Xor1(x, y) \in Below(2)
  /\ \A x \in Below(2), y \in Int : Xor1(Xor1(x, y), y) = x
BY DEF Xor1, Below

LEMMA Xor2Lemma ==
  /\ \A x, y \in Int : Xor2(x, y) \in Below(4)
  /\ \A x \in Below(4), y \in Int : Xor2(Xor2(x, y), y) = x
<1>1. ASSUME NEW x \in Int, NEW y \in Int
      PROVE  /\ Xor1(x \div 2, y \div 2) \in Below(2)
             /\ Xor1(x % 2, y % 2) \in Below(2)
  BY Parts, Xor1Lemma DEF PartsOf
<1>2. ASSUME NEW x \in Int, NEW y \in Int PROVE Xor2(x, y) \in Below(4)
  BY <1>1, Parts DEF Xor2, PartsOf
<1>3. ASSUME NEW x \in Below(4), NEW y \in Int PROVE Xor2(Xor2(x, y), y) = x
  <2> PICK h : h = Xor1(x \div 2, y \div 2)
    OBVIOUS
  <2> PICK l : l = Xor1(x % 2, y % 2)
    OBVIOUS
  <2>1. h \in Below(2) /\ l \in Below(2)
    BY <1>1, Parts DEF PartsOf
  <2>2. Xor1(h, y \div 2) = x \div 2 /\ Xor1(l, y % 2) = x % 2
    BY Parts, Xor1Lemma DEF PartsOf
  <2>3. (2 * h + l) \div 2 = h /\ (2 * h + l) % 2 = l
    BY <2>1, Parts DEF PartsOf
  <2>4. Xor2(x, y) = 2 * h + l
    BY DEF Xor2
  <2>5. Xor2(2 * h + l, y) = 2 * (x \div 2) + (x % 2)
    BY <2>2, <2>3 DEF Xor2
  <2>6. 2 * (x \div 2) + (x % 2) = x
    BY Parts DEF PartsOf
  <2> QED
    BY <2>4, <2>5, <2>6
<1> QED
  BY <1>2, <1>3

LEMMA Xor4Lemma ==
  /\ \A x, y \in Int : Xor4(x, y) \in Below(16)
  /\ \A x \in Below(16), y \in Int : Xor4(Xor4(x, y), y) = x
<1>1. ASSUME NEW x \in Int, NEW y \in Int
      PROVE  /\ Xor2(x \div 4, y \div 4) \in Below(4)
             /\ Xor2(x % 4, y % 4) \in Below(4)
  BY Parts, Xor2Lemma DEF PartsOf
<1>2. ASSUME NEW x \in Int, NEW y \in Int PROVE Xor4(x, y) \in Below(16)
  BY <1>1, Parts DEF Xor4, PartsOf
<1>3. ASSUME NEW x \in Below(16), NEW y \in Int PROVE Xor4(Xor4(x, y), y) = x
  <2> PICK h : h = Xor2(x \div 4, y \div 4)
    OBVIOUS
  <2> PICK l : l = Xor2(x % 4, y % 4)
    OBVIOUS
  <2>1. h \in Below(4) /\ l \in Below(4)
    BY <1>1, Parts DEF PartsOf
  <2>2. Xor2(h, y \div 4) = x \div 4 /\ Xor2(l, y % 4) = x % 4
    BY Parts, Xor2Lemma DEF PartsOf
  <2>3. (4 * h + l) \div 4 = h /\ (4 * h + l) % 4 = l
    BY <2>1, Parts DEF PartsOf
  <2>4. Xor4(x, y) = 4 * h + l
    BY DEF Xor4
  <2>5. Xor4(4 * h + l, y) = 4 * (x \div 4) + (x % 4)
    BY <2>2, <2>3 DEF Xor4
  <2>6. 4 * (x \div 4) + (x % 4) = x
    BY Parts DEF PartsOf
  <2> QED
    BY <2>4, <2>5, <2>6
<1> QED
  BY <1>2, <1>3

LEMMA Xor8Lemma ==
  /\ \A x, y \in Int : Xor8(x, y) \in Below(256)
  /\ \A x \in Below(256), y \in Int : Xor8(Xor8(x, y), y) = x
<1>1. ASSUME NEW x \in Int, NEW y \in Int
      PROVE  /\ Xor4(x \div 16, y \div 16) \in Below(16)
             /\ Xor4(x % 16, y % 16) \in Below(16)
  BY Parts, Xor4Lemma DEF PartsOf
<1>2. ASSUME NEW x \in Int, NEW y \in Int PROVE Xor8(x, y) \in Below(256)
  BY <1>1, Parts DEF Xor8, PartsOf
<1>3. ASSUME NEW x \in Below(256), NEW y \in Int PROVE Xor8(Xor8(x, y), y) = x
  <2> PICK h : h = Xor4(x \div 16, y \div 16)
    OBVIOUS
  <2> PICK l : l = Xor4(x % 16, y % 16)
    OBVIOUS
  <2>1. h \in Below(16) /\ l \in Below(16)
    BY <1>1, Parts DEF PartsOf
  <2>2. Xor4(h, y \div 16) = x \div 16 /\ Xor4(l, y % 16) = x % 16
    BY Parts, Xor4Lemma DEF PartsOf
  <2>3. (16 * h + l) \div 16 = h /\ (16 * h + l) % 16 = l
    BY <2>1, Parts DEF PartsOf
  <2>4. Xor8(x, y) = 16 * h + l
    BY DEF Xor8
  <2>5. Xor8(16 * h + l, y) = 16 * (x \div 16) + (x % 16)
    BY <2>2, <2>3 DEF Xor8
  <2>6. 16 * (x \div 16) + (x % 16) = x
    BY Parts DEF PartsOf
  <2> QED
    BY <2>4, <2>5, <2>6
<1> QED
  BY <1>2, <1>3

LEMMA Xor16Lemma ==
  /\ \A x, y \in Int : Xor16(x, y) \in Below(65536)
  /\ \A x \in Below(65536), y \in Int : Xor16(Xor16(x, y), y) = x
<1>1. ASSUME NEW x \in Int, NEW y \in Int
      PROVE  /\ Xor8(x \div 256, y \div 256) \in Below(256)
             /\ Xor8(x % 256, y % 256) \in Below(256)
  BY Parts, Xor8Lemma DEF PartsOf
<1>2. ASSUME NEW x \in Int, NEW y \in Int PROVE Xor16(x, y) \in Below(65536)
  BY <1>1, Parts DEF Xor16, PartsOf
<1>3. ASSUME NEW x \in Below(65536), NEW y \in Int PROVE Xor16(Xor16(x, y), y) = x
  <2> PICK h : h = Xor8(x \div 256, y \div 256)
    OBVIOUS
  <2> PICK l : l = Xor8(x % 256, y % 256)
    OBVIOUS
  <2>1. h \in Below(256) /\ l \in Below(256)
    BY <1>1, Parts DEF PartsOf
  <2>2. Xor8(h, y \div 256) = x \div 256 /\ Xor8(l, y % 256) = x % 256
    BY Parts, Xor8Lemma DEF PartsOf
  <2>3. (256 * h + l) \div 256 = h /\ (256 * h + l) % 256 = l
    BY <2>1, Parts DEF PartsOf
  <2>4. Xor16(x, y) = 256 * h + l
    BY DEF Xor16
  <2>5. Xor16(256 * h + l, y) = 256 * (x \div 256) + (x % 256)
    BY <2>2, <2>3 DEF Xor16
  <2>6. 256 * (x \div 256) + (x % 256) = x
    BY Parts DEF PartsOf
  <2> QED
    BY <2>4, <2>5, <2>6
<1> QED
  BY <1>2, <1>3

\* A pair of integers, as rot gives.
IsPair(r) == r[1] \in Int /\ r[2] \in Int

LEMMA XorLemma ==
  /\ \A x, r : IsPair(x) /\ IsPair(r) => Xor32(x, r) \in Words
  /\ \A x \in Words : \A r : IsPair(r) => Xor32(Xor32(x, r), r) = x
<1>1. ASSUME NEW x, NEW r, IsPair(x), IsPair(r)
      PROVE  /\ Xor32(x, r)[1] = Xor16(x[1], r[1]) /\ Xor32(x, r)[2] = Xor16(x[2], r[2])
             /\ Xor16(x[1], r[1]) \in Below(65536) /\ Xor16(x[2], r[2]) \in Below(65536)
  BY <1>1, Xor16Lemma DEF Xor32, IsPair
<1>2. ASSUME NEW x, NEW r, IsPair(x), IsPair(r) PROVE Xor32(x, r) \in Words
  BY <1>1, <1>2, WordsAre DEF Xor32
<1>3. ASSUME NEW x \in Words, NEW r, IsPair(r) PROVE Xor32(Xor32(x, r), r) = x
  <2>1. x[1] \in Below(65536) /\ x[2] \in Below(65536) /\ x = <<x[1], x[2]>> /\ IsPair(x)
    BY WordsAre DEF IsPair, Below
  <2> PICK y : y = Xor32(x, r)
    OBVIOUS
  <2>2. y[1] = Xor16(x[1], r[1]) /\ y[2] = Xor16(x[2], r[2])
    BY <1>1, <1>3, <2>1
  <2>3. Xor16(y[1], r[1]) = x[1] /\ Xor16(y[2], r[2]) = x[2]
    BY <1>3, <2>1, <2>2, Xor16Lemma DEF IsPair
  <2> QED
    BY <2>1, <2>3 DEF Xor32
<1> QED
  BY <1>2, <1>3

LEMMA PlusMinusType ==
  ASSUME NEW x, NEW y, IsPair(x), IsPair(y)
  PROVE  Plus(x, y) \in Words /\ Minus(x, y) \in Words
<1>1. \A n \in Int : n % Half \in Below(65536)
  BY DEF Half, Below
<1>2. \A n \in Int : n \div Half \in Int
  BY DEF Half
<1>3. /\ x[1] + y[1] + ((x[2] + y[2]) \div Half) \in Int /\ x[2] + y[2] \in Int
      /\ x[1] - y[1] - (IF x[2] < y[2] THEN 1 ELSE 0) \in Int /\ x[2] - y[2] \in Int
  BY <1>2 DEF IsPair
<1>4. /\ (x[1] + y[1] + ((x[2] + y[2]) \div Half)) % Half \in Below(65536)
      /\ (x[2] + y[2]) % Half \in Below(65536)
  BY <1>1, <1>3
<1>5. /\ (x[1] - y[1] - (IF x[2] < y[2] THEN 1 ELSE 0)) % Half \in Below(65536)
      /\ (x[2] - y[2]) % Half \in Below(65536)
  BY <1>1, <1>3
<1> QED
  BY <1>4, <1>5, WordsAre DEF Plus, Minus

LEMMA PlusIs ==
  ASSUME NEW a \in Below(Half), NEW b \in Below(Half)
  PROVE  (a + b) % Half = IF a + b < Half THEN a + b ELSE a + b - Half
BY DEF Half, Below

LEMMA MinusIs ==
  ASSUME NEW a \in Below(Half), NEW b \in Below(Half)
  PROVE  (a - b) % Half = IF a < b THEN a - b + Half ELSE a - b
BY DEF Half, Below

LEMMA CarryIs ==
  ASSUME NEW a \in Below(Half), NEW b \in Below(Half)
  PROVE  (a + b) \div Half = IF a + b < Half THEN 0 ELSE 1
BY DEF Half, Below

LEMMA HighPlus ==
  ASSUME NEW a \in Below(Half), NEW b \in Below(Half), NEW c \in {0, 1}
  PROVE  /\ (((a + b + c) % Half) - b - c) % Half = a
         /\ (((a - b - c) % Half) + b + c) % Half = a
BY DEF Half, Below
LEMMA PlusMinus ==
  ASSUME NEW x \in Words, NEW y \in Words
  PROVE  Minus(Plus(x, y), y) = x /\ Plus(Minus(x, y), y) = x
<1>a. PICK a : a = x[1]
  OBVIOUS
<1>b. PICK b : b = x[2]
  OBVIOUS
<1>c. PICK c : c = y[1]
  OBVIOUS
<1>d. PICK d : d = y[2]
  OBVIOUS
<1>1. /\ a \in Below(Half) /\ b \in Below(Half) /\ c \in Below(Half) /\ d \in Below(Half)
      /\ x = <<a, b>>
  BY <1>a, <1>b, <1>c, <1>d, WordsAre DEF Half
<1>2. Minus(Plus(x, y), y) = x
  <2>1. PICK carry : carry = (b + d) \div Half
    OBVIOUS
  <2>2. PICK l : l = (b + d) % Half
    OBVIOUS
  <2>3. PICK h : h = (a + c + carry) % Half
    OBVIOUS
  <2>4. Plus(x, y) = <<h, l>>
    BY <1>a, <1>b, <1>c, <1>d, <2>1, <2>2, <2>3 DEF Plus
  <2>5. carry \in {0, 1} /\ carry = IF l < d THEN 1 ELSE 0
    <3>1. l = IF b + d < Half THEN b + d ELSE b + d - Half
      BY <1>1, <2>2, PlusIs
    <3>2. carry = IF b + d < Half THEN 0 ELSE 1
      BY <1>1, <2>1, CarryIs
    <3> QED
      BY <1>1, <3>1, <3>2 DEF Below, Half
  <2>6. (l - d) % Half = b
    <3>1. l = IF b + d < Half THEN b + d ELSE b + d - Half
      BY <1>1, <2>2, PlusIs
    <3>2. l \in Below(Half)
      BY <1>1, <3>1 DEF Below, Half
    <3>3. (l - d) % Half = IF l < d THEN l - d + Half ELSE l - d
      BY <1>1, <3>2, MinusIs
    <3> QED
      BY <1>1, <3>1, <3>3 DEF Below, Half
  <2>7. (h - c - carry) % Half = a
    BY <1>1, <2>3, <2>5, HighPlus
  <2>8. Minus(<<h, l>>, y) = <<(h - c - carry) % Half, (l - d) % Half>>
    BY <1>c, <1>d, <2>5 DEF Minus
  <2> QED
    BY <1>1, <2>4, <2>6, <2>7, <2>8
<1>3. Plus(Minus(x, y), y) = x
  <2>1. PICK carry : carry = IF b < d THEN 1 ELSE 0
    OBVIOUS
  <2>2. PICK l : l = (b - d) % Half
    OBVIOUS
  <2>3. PICK h : h = (a - c - carry) % Half
    OBVIOUS
  <2>4. Minus(x, y) = <<h, l>>
    BY <1>a, <1>b, <1>c, <1>d, <2>1, <2>2, <2>3 DEF Minus
  <2>5. l = IF b < d THEN b - d + Half ELSE b - d
    BY <1>1, <2>2, MinusIs
  <2>6. l \in Below(Half)
    BY <1>1, <2>5 DEF Below, Half
  <2>7. carry \in {0, 1} /\ (l + d) \div Half = carry
    <3>1. (l + d) \div Half = IF l + d < Half THEN 0 ELSE 1
      BY <1>1, <2>6, CarryIs
    <3> QED
      BY <1>1, <2>1, <2>5, <3>1 DEF Below, Half
  <2>8. (l + d) % Half = b
    <3>1. (l + d) % Half = IF l + d < Half THEN l + d ELSE l + d - Half
      BY <1>1, <2>6, PlusIs
    <3> QED
      BY <1>1, <2>5, <3>1 DEF Below, Half
  <2>9. (h + c + carry) % Half = a
    BY <1>1, <2>3, <2>7, HighPlus
  <2>10. Plus(<<h, l>>, y) = <<(h + c + carry) % Half, (l + d) % Half>>
    BY <1>c, <1>d, <2>7 DEF Plus
  <2> QED
    BY <1>1, <2>4, <2>8, <2>9, <2>10
<1> QED
  BY <1>2, <1>3

-----------------------------------------------------------------------------
(* mix and finalmix. *)

\* The amounts by which they rotate.
Rotations == {4, 6, 8, 11, 14, 16, 19, 24, 25}

HasPower(i) == 2^i \in Nat \ {0}

LEMMA Powers ==
  \A i \in {0, 2, 3, 4, 5, 6, 7, 8, 9, 10, 11, 12, 13, 14, 16} : HasPower(i)
<1>1. HasPower(0) /\ HasPower(2) /\ HasPower(3) /\ HasPower(4) /\ HasPower(5)
  BY 2^0 = 1, 2^2 = 4, 2^3 = 8, 2^4 = 16, 2^5 = 32 DEF HasPower
<1>2. HasPower(6) /\ HasPower(7) /\ HasPower(8) /\ HasPower(9) /\ HasPower(10)
  BY 2^6 = 64, 2^7 = 128, 2^8 = 256, 2^9 = 512, 2^10 = 1024 DEF HasPower
<1>3. HasPower(11) /\ HasPower(12) /\ HasPower(13) /\ HasPower(14) /\ HasPower(16)
  BY 2^11 = 2048, 2^12 = 4096, 2^13 = 8192, 2^14 = 16384, 2^16 = 65536 DEF HasPower
<1> QED
  BY <1>1, <1>2, <1>3

LEMMA RotType ==
  ASSUME NEW x, IsPair(x), NEW n \in Rotations
  PROVE  IsPair(rot(x, n))
<1>1. \A i \in Int, j \in Int, p \in Int, q \in Nat \ {0} : ((i * p) % Half) + (j \div q) \in Int
  BY DEF Half
<1>2. CASE n < 16
  <2>1. HasPower(n) /\ HasPower(16 - n)
    <3>1. 16 - n \in {2, 5, 8, 10, 12}
      BY <1>2 DEF Rotations
    <3> QED BY <3>1, Powers DEF Rotations
  <2> QED
    BY <1>1, <1>2, <2>1 DEF HasPower, rot, ShiftIn, IsPair
<1>3. CASE ~ (n < 16)
  <2>1. HasPower(n - 16) /\ HasPower(16 - (n - 16))
    <3>1. n - 16 \in {0, 3, 8, 9} /\ 16 - (n - 16) \in {7, 8, 13, 16}
      BY <1>3 DEF Rotations
    <3> QED BY <3>1, Powers
  <2> QED
    BY <1>1, <1>3, <2>1 DEF HasPower, rot, ShiftIn, IsPair
<1> QED
  BY <1>2, <1>3 DEF Rotations

Triples == Words \X Words \X Words

LEMMA TriplesAre ==
  /\ \A s \in Triples : s = <<s[1], s[2], s[3]>> /\ s[1] \in Words /\ s[2] \in Words /\ s[3] \in Words
  /\ \A x, y, z \in Words : <<x, y, z>> \in Triples
BY DEF Triples

LEMMA WordIsPair == \A x \in Words : IsPair(x)
BY WordsAre DEF IsPair, Below

(***************************************************************************)
(* A line of mix gives words, and can be undone.                           *)
(***************************************************************************)
LEMMA RoundLemma ==
  ASSUME NEW s \in Triples, NEW n \in Rotations
  PROVE  Round(s, n) \in Triples /\ UndoRound(Round(s, n), n) = s
<1>a. PICK x : x = s[1]
  OBVIOUS
<1>b. PICK y : y = s[2]
  OBVIOUS
<1>c. PICK z : z = s[3]
  OBVIOUS
<1>1. x \in Words /\ y \in Words /\ z \in Words /\ s = <<x, y, z>>
  BY <1>a, <1>b, <1>c, TriplesAre
<1>2. PICK r : r = rot(z, n)
  OBVIOUS
<1>3. PICK u : u = Plus(z, y)
  OBVIOUS
<1>4. PICK v : v = Minus(x, z)
  OBVIOUS
<1>5. PICK w : w = Xor32(v, r)
  OBVIOUS
<1>6. IsPair(r)
  BY <1>1, <1>2, RotType, WordIsPair
<1>7. u \in Words /\ v \in Words
  BY <1>1, <1>3, <1>4, PlusMinusType, WordIsPair
<1>8. w \in Words
  BY <1>5, <1>6, <1>7, XorLemma, WordIsPair
<1>9. Round(s, n) = <<y, u, w>>
  BY <1>a, <1>b, <1>c, <1>2, <1>3, <1>4, <1>5 DEF Round
<1>10. Minus(u, y) = z /\ Xor32(w, r) = v /\ Plus(v, z) = x
  BY <1>1, <1>3, <1>4, <1>5, <1>6, <1>7, PlusMinus, XorLemma
<1>11. UndoRound(<<y, u, w>>, n) = <<x, y, z>>
  <2>1. PICK t : t = <<y, u, w>>
    OBVIOUS
  <2>2. t[1] = y /\ t[2] = u /\ t[3] = w
    BY <2>1
  <2>3. UndoRound(t, n) = <<x, y, z>>
    BY <1>2, <1>10, <2>2 DEF UndoRound
  <2> QED
    BY <2>1, <2>3
<1> QED
  BY <1>1, <1>7, <1>8, <1>9, <1>11, TriplesAre

LEMMA MixLemma ==
  ASSUME NEW s \in Triples
  PROVE  mix(s) \in Triples /\ Unmix(mix(s)) = s
<1>0. {4, 6, 8, 16, 19} \subseteq Rotations
  BY DEF Rotations
<1>1. PICK a : a = Round(s, 4)
  OBVIOUS
<1>2. PICK b : b = Round(a, 6)
  OBVIOUS
<1>3. PICK c : c = Round(b, 8)
  OBVIOUS
<1>4. PICK d : d = Round(c, 16)
  OBVIOUS
<1>5. PICK e : e = Round(d, 19)
  OBVIOUS
<1>6. PICK f : f = Round(e, 4)
  OBVIOUS
<1>7. a \in Triples /\ UndoRound(a, 4) = s
  BY <1>0, <1>1, RoundLemma
<1>8. b \in Triples /\ UndoRound(b, 6) = a
  BY <1>0, <1>2, <1>7, RoundLemma
<1>9. c \in Triples /\ UndoRound(c, 8) = b
  BY <1>0, <1>3, <1>8, RoundLemma
<1>10. d \in Triples /\ UndoRound(d, 16) = c
  BY <1>0, <1>4, <1>9, RoundLemma
<1>11. e \in Triples /\ UndoRound(e, 19) = d
  BY <1>0, <1>5, <1>10, RoundLemma
<1>12. f \in Triples /\ UndoRound(f, 4) = e
  BY <1>0, <1>6, <1>11, RoundLemma
<1>13. mix(s) = f
  BY <1>1, <1>2, <1>3, <1>4, <1>5, <1>6 DEF mix, Rounds
<1>14. Unmix(f) = s
  BY <1>7, <1>8, <1>9, <1>10, <1>11, <1>12 DEF Unmix, UndoRounds
<1> QED
  BY <1>12, <1>13, <1>14

LEMMA FinalRoundType ==
  ASSUME NEW s \in Triples, NEW n \in Rotations
  PROVE  FinalRound(s, n) \in Triples
<1>a. PICK x : x = s[1]
  OBVIOUS
<1>b. PICK y : y = s[2]
  OBVIOUS
<1>c. PICK z : z = s[3]
  OBVIOUS
<1>d. PICK u : u = Xor32(x, y)
  OBVIOUS
<1>e. PICK v : v = Minus(u, rot(y, n))
  OBVIOUS
<1>1. x \in Words /\ y \in Words /\ z \in Words
  BY <1>a, <1>b, <1>c, TriplesAre
<1>2. u \in Words
  BY <1>d, <1>1, XorLemma, WordIsPair
<1>3. v \in Words
  BY <1>e, <1>1, <1>2, WordIsPair, RotType, PlusMinusType
<1>4. FinalRound(s, n) = <<z, v, y>>
  BY <1>a, <1>b, <1>c, <1>d, <1>e DEF FinalRound
<1> QED
  BY <1>1, <1>3, <1>4, TriplesAre

LEMMA FinalmixType ==
  ASSUME NEW s \in Triples
  PROVE  finalmix(s) \in Words
<1>0. {4, 11, 14, 16, 24, 25} \subseteq Rotations
  BY DEF Rotations
<1>1. PICK a : a = FinalRound(<<s[3], s[2], s[1]>>, 14)
  OBVIOUS
<1>2. PICK b : b = FinalRound(a, 11)
  OBVIOUS
<1>3. PICK c : c = FinalRound(b, 25)
  OBVIOUS
<1>4. PICK d : d = FinalRound(c, 16)
  OBVIOUS
<1>5. PICK e : e = FinalRound(d, 4)
  OBVIOUS
<1>6. PICK f : f = FinalRound(e, 14)
  OBVIOUS
<1>7. PICK g : g = FinalRound(f, 24)
  OBVIOUS
<1>8. a \in Triples
  BY <1>0, <1>1, FinalRoundType, TriplesAre
<1>9. b \in Triples /\ c \in Triples
  BY <1>0, <1>2, <1>3, <1>8, FinalRoundType
<1>10. d \in Triples /\ e \in Triples
  BY <1>0, <1>4, <1>5, <1>9, FinalRoundType
<1>11. f \in Triples /\ g \in Triples
  BY <1>0, <1>6, <1>7, <1>10, FinalRoundType
<1>12. finalmix(s) = g[2]
  BY <1>1, <1>2, <1>3, <1>4, <1>5, <1>6, <1>7 DEF finalmix, FinalRounds
<1> QED
  BY <1>11, <1>12, TriplesAre
-----------------------------------------------------------------------------
(* The three ways to read a word. *)

\* The word at q of a key of which m bytes are left.
WordAt(q, m) ==
  LET byte(i) == IF i < m THEN mem[q + i] ELSE 0
  IN <<256 * byte(3) + byte(2), 256 * byte(1) + byte(0)>>

BytesAt(q) == \A i \in {0, 1, 2, 3} : mem[q + i] \in Below(256)

LEMMA Small ==
  \A n \in Below(65536) : n \in Nat /\ n % Half = n /\ n \div Half = 0
BY DEF Half, Below

LEMMA TwoBytes ==
  \A a, b \in Below(256) : /\ a + 256 * b \in Below(65536) /\ a + 256 * b = 256 * b + a
                           /\ (a + 256 * b) % 256 = a
BY DEF Below

LEMMA WordIs ==
  ASSUME NEW q \in Int, NEW m \in Int, m > 0 => BytesAt(q)
  PROVE  Word(q, m) = WordAt(q, m) /\ Halves(q, m) = WordAt(q, m)
<1>1. CASE m <= 0
  BY <1>1 DEF Word, Halves, WordAt
<1>2. CASE m > 0
  <2>1. PICK a : a = mem[q]
    OBVIOUS
  <2>2. PICK b : b = mem[q + 1]
    OBVIOUS
  <2>3. PICK c : c = mem[q + 2]
    OBVIOUS
  <2>4. PICK d : d = mem[q + 3]
    OBVIOUS
  <2>5. q + 0 = q /\ (q + 2) + 1 = q + 3
    OBVIOUS
  <2>6. a \in Below(256) /\ b \in Below(256) /\ c \in Below(256) /\ d \in Below(256)
    BY <1>2, <2>1, <2>2, <2>3, <2>4, <2>5 DEF BytesAt
  <2>7. uint16(q) = a + 256 * b /\ uint16(q + 2) = c + 256 * d
    BY <2>1, <2>2, <2>3, <2>4, <2>5 DEF uint16
  <2>8. WordAt(q, m) = <<256 * (IF 3 < m THEN d ELSE 0) + (IF 2 < m THEN c ELSE 0),
                         256 * (IF 1 < m THEN b ELSE 0) + (IF 0 < m THEN a ELSE 0)>>
    BY <2>1, <2>2, <2>3, <2>4, <2>5 DEF WordAt
  <2>9. a \in Nat /\ b \in Nat /\ c \in Nat /\ d \in Nat
    BY <2>6 DEF Below
  <2>10. Word(q, m) = LowBytes(<<c + 256 * d, a + 256 * b>>, m)
    BY <1>2, <2>7 DEF Word
  <2>11. CASE m = 1
    <3>1. WordAt(q, m) = <<0, a>>
      BY <2>8, <2>9, <2>11
    <3>2. Word(q, m) = <<0, a>>
      BY <2>6, <2>10, <2>11, TwoBytes DEF LowBytes
    <3> QED BY <2>1, <2>11, <3>1, <3>2 DEF Halves
  <2>12. CASE m = 2
    <3>1. WordAt(q, m) = <<0, a + 256 * b>>
      BY <2>8, <2>9, <2>12
    <3>2. Word(q, m) = <<0, a + 256 * b>>
      BY <2>10, <2>12 DEF LowBytes
    <3> QED BY <2>7, <2>12, <3>1, <3>2 DEF Halves
  <2>13. CASE m = 3
    <3>1. WordAt(q, m) = <<c, a + 256 * b>>
      BY <2>8, <2>9, <2>13
    <3>2. Word(q, m) = <<c, a + 256 * b>>
      BY <2>6, <2>10, <2>13, TwoBytes DEF LowBytes
    <3> QED BY <2>3, <2>7, <2>13, <3>1, <3>2 DEF Halves
  <2>14. CASE m > 3
    <3>1. WordAt(q, m) = <<c + 256 * d, a + 256 * b>>
      BY <2>8, <2>9, <2>14
    <3>2. Word(q, m) = <<c + 256 * d, a + 256 * b>>
      BY <2>10, <2>14 DEF LowBytes
    <3> QED BY <2>7, <2>14, <3>1, <3>2 DEF Halves
  <2> QED
    BY <1>2, <2>11, <2>12, <2>13, <2>14
<1> QED
  BY <1>1, <1>2

LEMMA BytesIs ==
  ASSUME NEW q \in Int, NEW m \in Int, m > 0 => BytesAt(q)
  PROVE  Bytes(q, m) = WordAt(q, m)
<1>1. PICK a : a = IF 0 < m THEN mem[q + 0] ELSE 0
  OBVIOUS
<1>2. PICK b : b = IF 1 < m THEN mem[q + 1] ELSE 0
  OBVIOUS
<1>3. PICK c : c = IF 2 < m THEN mem[q + 2] ELSE 0
  OBVIOUS
<1>4. PICK d : d = IF 3 < m THEN mem[q + 3] ELSE 0
  OBVIOUS
<1>5. a \in Below(256) /\ b \in Below(256) /\ c \in Below(256) /\ d \in Below(256)
  <2>1. 0 \in Below(256)
    BY DEF Below
  <2> QED
    BY <1>1, <1>2, <1>3, <1>4, <2>1 DEF BytesAt
<1>6. WordAt(q, m) = <<256 * d + c, 256 * b + a>>
  BY <1>1, <1>2, <1>3, <1>4 DEF WordAt
<1>7. PICK l : l = a + 256 * b
  OBVIOUS
<1>8. PICK h : h = c + 256 * d
  OBVIOUS
<1>9. l \in Below(65536) /\ h \in Below(65536) /\ l = 256 * b + a /\ h = 256 * d + c
  BY <1>5, <1>7, <1>8, TwoBytes
<1>10. Bytes(q, m) = Plus(Plus(<<0, a>>, <<0, 256 * b>>), Plus(<<c, 0>>, <<256 * d, 0>>))
  BY <1>1, <1>2, <1>3, <1>4 DEF Bytes
<1>11. 0 \in Below(65536) /\ 0 + 0 = 0
  BY DEF Below
<1>12. Plus(<<0, a>>, <<0, 256 * b>>) = <<0, l>>
  <2>1. Plus(<<0, a>>, <<0, 256 * b>>) = <<(0 + 0 + (l \div Half)) % Half, l % Half>>
    BY <1>7 DEF Plus
  <2> QED
    BY <1>9, <1>11, <2>1, Small
<1>13. Plus(<<c, 0>>, <<256 * d, 0>>) = <<h, 0>>
  <2>1. Plus(<<c, 0>>, <<256 * d, 0>>) = <<(h + ((0 + 0) \div Half)) % Half, (0 + 0) % Half>>
    BY <1>8 DEF Plus
  <2>2. h + 0 = h
    BY <1>9, Small
  <2> QED
    BY <1>9, <1>11, <2>1, <2>2, Small
<1>14. Plus(<<0, l>>, <<h, 0>>) = <<h, l>>
  <2>1. Plus(<<0, l>>, <<h, 0>>) = <<(0 + h + ((l + 0) \div Half)) % Half, (l + 0) % Half>>
    BY DEF Plus
  <2>2. l + 0 = l /\ 0 + h + 0 = h
    BY <1>9, Small
  <2> QED
    BY <1>9, <2>1, <2>2, Small
<1> QED
  BY <1>6, <1>9, <1>10, <1>12, <1>13, <1>14

\* What the machine has when it is called, and keeps.
Called == mem \in Memories /\ key \in Addresses /\ nkey \in 0 .. MaxLength

LEMMA BlockIs ==
  ASSUME NEW p \in Int, NEW n \in Int, NEW c \in {0, 1, 2}, key \in Int,
         n - 4 * c > 0 => BytesAt(p + 4 * c)
  PROVE  Block(p, n)[c + 1] = WordAt(p + 4 * c, n - 4 * c)
<1>1. PICK q : q = p + 4 * c
  OBVIOUS
<1>2. PICK m : m = n - 4 * c
  OBVIOUS
<1>3. q \in Int /\ m \in Int /\ c + 1 \in {1, 2, 3} /\ (c + 1) - 1 = c
  BY <1>1, <1>2
<1>4. Block(p, n)[c + 1] = CASE key % 4 = 0 -> Word(q, m)
                             [] key % 4 = 2 -> Halves(q, m)
                             [] OTHER       -> Bytes(q, m)
  BY <1>1, <1>2, <1>3 DEF Block
<1>5. Word(q, m) = WordAt(q, m) /\ Halves(q, m) = WordAt(q, m) /\ Bytes(q, m) = WordAt(q, m)
  BY <1>1, <1>2, <1>3, WordIs, BytesIs
<1> QED
  BY <1>1, <1>2, <1>4, <1>5

LEMMA KeyWordIs ==
  ASSUME Called, NEW j \in Nat, NEW c \in {0, 1, 2}
  PROVE  KeyWord(3 * j + c) = WordAt(key + 12 * j + 4 * c, nkey - 12 * j - 4 * c)
<1>1. key \in Nat /\ nkey \in Nat
  BY HashAssumption DEF Called
<1>2. PICK q : q = key + 12 * j + 4 * c
  OBVIOUS
<1>3. PICK m : m = nkey - 12 * j - 4 * c
  OBVIOUS
<1>4. PICK w : w = 4 * (3 * j + c)
  OBVIOUS
<1>5. \A r \in {0, 1, 2, 3} : /\ (w + r < nkey <=> r < m)
                              /\ key + (w + r) = q + r
  BY <1>1, <1>2, <1>3, <1>4
<1>6. KeyWord(3 * j + c) =
        <<256 * (IF w + 3 < nkey THEN mem[key + (w + 3)] ELSE 0)
             + (IF w + 2 < nkey THEN mem[key + (w + 2)] ELSE 0),
          256 * (IF w + 1 < nkey THEN mem[key + (w + 1)] ELSE 0)
             + (IF w < nkey THEN mem[key + w] ELSE 0)>>
  BY <1>4 DEF KeyWord
<1>7. WordAt(q, m) =
        <<256 * (IF 3 < m THEN mem[q + 3] ELSE 0) + (IF 2 < m THEN mem[q + 2] ELSE 0),
          256 * (IF 1 < m THEN mem[q + 1] ELSE 0) + (IF 0 < m THEN mem[q + 0] ELSE 0)>>
  BY DEF WordAt
<1>8. w + 0 = w
  BY <1>4
<1> QED
  BY <1>2, <1>3, <1>5, <1>6, <1>7, <1>8

(***************************************************************************)
(* A block of the key is read as KeyBlock says: before the last one, when  *)
(* more than its 12 bytes are left, and as the last one.                   *)
(***************************************************************************)
LEMMA BlockIsKeyBlock ==
  ASSUME Called, NEW s, NEW j \in Nat, NEW left, left = nkey - 12 * j, NEW n,
         (left > 12 /\ n = 12) \/ (0 < left /\ left <= 12 /\ n = left)
  PROVE  Add(s, Block(key + 12 * j, n)) = Add(s, KeyBlock(j))
<1>1. key \in Nat /\ nkey \in Nat /\ nkey <= MaxLength /\ left \in Int /\ n \in Int
      /\ MaxLength \in Nat
  BY HashAssumption DEF Called
<1>2. ASSUME NEW c \in {0, 1, 2}
      PROVE  Block(key + 12 * j, n)[c + 1] = KeyWord(3 * j + c)
  <2>1. PICK q : q = (key + 12 * j) + 4 * c
    OBVIOUS
  <2>2. PICK m : m = n - 4 * c
    OBVIOUS
  <2>3. PICK m2 : m2 = nkey - 12 * j - 4 * c
    OBVIOUS
  <2>4. q \in Int /\ m \in Int /\ m2 \in Int
    BY <1>1, <2>1, <2>2, <2>3
  <2>5. m > 0 => BytesAt(q)
    <3> SUFFICES ASSUME m > 0, NEW i \in {0, 1, 2, 3} PROVE mem[q + i] \in Below(256)
      BY DEF BytesAt
    <3>1. PICK o : o = 12 * j + 4 * c + i
      OBVIOUS
    <3>2. 12 * j + 4 * c < nkey
      BY <1>1, <2>2
    <3>3. o \in 0 .. MaxLength + 2 /\ q + i = key + o
      BY <1>1, <2>1, <3>1, <3>2
    <3>4. mem[key + o] \in 0 .. 255
      BY <3>3, HashAssumption DEF Called
    <3> QED
      BY <3>3, <3>4 DEF Below
  <2>6. Block(key + 12 * j, n)[c + 1] = WordAt(q, m)
    <3>1. PICK p : p = key + 12 * j
      OBVIOUS
    <3>2. p \in Int /\ key \in Int /\ q = p + 4 * c
      BY <1>1, <2>1, <3>1
    <3>3. Block(p, n)[c + 1] = WordAt(p + 4 * c, n - 4 * c)
      BY <1>1, <2>2, <2>5, <3>2, BlockIs
    <3> QED
      BY <2>2, <3>1, <3>2, <3>3
  <2>7. KeyWord(3 * j + c) = WordAt(q, m2)
    BY <1>1, <2>1, <2>3, KeyWordIs
  <2>8. WordAt(q, m) = WordAt(q, m2)
    <3>1. m = m2 \/ (m >= 4 /\ m2 >= 4)
      BY <1>1, <2>2, <2>3
    <3>2. \A i \in {0, 1, 2, 3} : i < m <=> i < m2
      BY <2>4, <3>1
    <3> QED
      BY <3>2 DEF WordAt
  <2> QED
    BY <2>6, <2>7, <2>8
<1>3. PICK B : B = Block(key + 12 * j, n)
  OBVIOUS
<1>4. B[1] = KeyWord(3 * j) /\ B[2] = KeyWord(3 * j + 1) /\ B[3] = KeyWord(3 * j + 2)
  <2>1. B[0 + 1] = KeyWord(3 * j + 0) /\ B[1 + 1] = KeyWord(3 * j + 1)
        /\ B[2 + 1] = KeyWord(3 * j + 2)
    BY <1>2, <1>3
  <2>2. 0 + 1 = 1 /\ 1 + 1 = 2 /\ 2 + 1 = 3 /\ 3 * j + 0 = 3 * j
    OBVIOUS
  <2> QED BY <2>1, <2>2
<1>5. Add(s, B) = <<Plus(s[1], B[1]), Plus(s[2], B[2]), Plus(s[3], B[3])>>
  BY DEF Add
<1>6. KeyBlock(j)[1] = KeyWord(3 * j) /\ KeyBlock(j)[2] = KeyWord(3 * j + 1)
      /\ KeyBlock(j)[3] = KeyWord(3 * j + 2)
  BY DEF KeyBlock
<1>7. PICK K : K = KeyBlock(j)
  OBVIOUS
<1>8. Add(s, K) = <<Plus(s[1], K[1]), Plus(s[2], K[2]), Plus(s[3], K[3])>>
  BY DEF Add
<1>9. K[1] = B[1] /\ K[2] = B[2] /\ K[3] = B[3]
  BY <1>4, <1>6, <1>7
<1>10. Add(s, B) = Add(s, K)
  BY <1>5, <1>8, <1>9
<1> QED
  BY <1>3, <1>7, <1>10
-----------------------------------------------------------------------------
(* What a, b and c are after each block. *)

(***************************************************************************)
(* A property of the numbers up to m that holds at the first and is handed *)
(* on holds everywhere: else one is the least at which it fails.  P is the *)
(* set of those that have it.                                              *)
(***************************************************************************)
LEMMA UpTo ==
  ASSUME NEW P, NEW m \in Nat, 0 \in P, \A i \in 0 .. m - 1 : i \in P => i + 1 \in P
  PROVE  \A i \in 0 .. m : i \in P
<1> DEFINE B == {i \in 0 .. m : i \notin P}
           R == OpToRel(<, Nat)
<1>1. ASSUME B # {} PROVE FALSE
  <2>1. IsWellFoundedOn(R, Nat)
    BY NatLessThanWellFounded
  <2>2. \A x, y \in Nat : <<x, y>> \in R <=> x < y
    BY DEF OpToRel
  <2>3. B \subseteq Nat
    OBVIOUS
  <2> HIDE DEF R
  <2>4. PICK b \in B : \A n \in B : ~ (<<n, b>> \in R)
    <3> HIDE DEF B
    <3> QED BY <1>1, <2>1, <2>3, WFMin
  <2>5. b - 1 \in 0 .. m - 1 /\ b - 1 < b /\ (b - 1) + 1 = b
    BY <2>3
  <2>6. b - 1 \notin B
    <3> HIDE DEF B
    <3> QED BY <2>2, <2>3, <2>4, <2>5
  <2> QED
    BY <2>5, <2>6
<1> QED
  BY <1>1

\* g holds what they are after up to n blocks.
Follows(g, n) ==
  /\ g[0] = Start
  /\ \A i \in 0 .. n - 1 : g[i + 1] = mix(Add(g[i], KeyBlock(i)))

LEMMA OneMore ==
  ASSUME NEW n \in Nat, NEW g, Follows(g, n), NEW x, x = mix(Add(g[n], KeyBlock(n))), NEW h,
         h = [i \in 0 .. n + 1 |-> IF i = n + 1 THEN x ELSE g[i]]
  PROVE  Follows(h, n + 1) /\ h[n + 1] = x
<1>1. h[n + 1] = x /\ \A i \in 0 .. n : h[i] = g[i]
  OBVIOUS
<1>2. h[0] = Start
  BY <1>1 DEF Follows
<1>3. ASSUME NEW i \in 0 .. (n + 1) - 1 PROVE h[i + 1] = mix(Add(h[i], KeyBlock(i)))
  <2>1. CASE i = n
    BY <1>1, <2>1
  <2>2. CASE i # n
    <3>1. i \in 0 .. n - 1 /\ i \in 0 .. n /\ i + 1 \in 0 .. n
      BY <2>2
    <3>2. g[i + 1] = mix(Add(g[i], KeyBlock(i)))
      BY <3>1 DEF Follows
    <3> QED
      BY <1>1, <3>1, <3>2
  <2> QED BY <2>1, <2>2
<1> QED
  BY <1>1, <1>2, <1>3 DEF Follows

LEMMA SameBlocks ==
  ASSUME NEW n \in Nat, NEW m \in Nat, m <= n, NEW g, Follows(g, n), NEW h, Follows(h, m)
  PROVE  g[m] = h[m]
<1> DEFINE P == {i \in Nat : g[i] = h[i]}
<1>1. 0 \in P
  BY DEF Follows
<1>2. ASSUME NEW i \in 0 .. m - 1, i \in P PROVE i + 1 \in P
  <2>1. i \in 0 .. n - 1 /\ g[i] = h[i] /\ i + 1 \in Nat
    BY <1>2
  <2>2. g[i + 1] = mix(Add(g[i], KeyBlock(i))) /\ h[i + 1] = mix(Add(h[i], KeyBlock(i)))
    BY <2>1 DEF Follows
  <2> QED
    BY <2>1, <2>2
<1> HIDE DEF P
<1>3. \A i \in 0 .. m : i \in P
  BY <1>1, <1>2, UpTo
<1>4. m \in P
  BY <1>3
<1> QED
  BY <1>4 DEF P

IsMixed(g, n) ==
  g = [j \in 0 .. n |-> IF j = 0 THEN Start ELSE mix(Add(g[j - 1], KeyBlock(j - 1)))]

LEMMA IsMixedIs ==
  ASSUME NEW n \in Nat, NEW g
  PROVE  IsMixed(g, n) <=> g = [i \in 0 .. n |-> g[i]] /\ Follows(g, n)
<1>1. ASSUME IsMixed(g, n) PROVE g = [i \in 0 .. n |-> g[i]] /\ Follows(g, n)
  <2>1. \A j \in 0 .. n : g[j] = IF j = 0 THEN Start ELSE mix(Add(g[j - 1], KeyBlock(j - 1)))
    BY <1>1 DEF IsMixed
  <2>2. g = [i \in 0 .. n |-> g[i]]
    BY <1>1 DEF IsMixed
  <2>3. ASSUME NEW i \in 0 .. n - 1 PROVE g[i + 1] = mix(Add(g[i], KeyBlock(i)))
    <3>1. i + 1 \in 0 .. n /\ i + 1 # 0 /\ (i + 1) - 1 = i
      OBVIOUS
    <3> QED
      BY <2>1, <3>1
  <2>4. g[0] = Start
    BY <2>1
  <2> QED
    BY <2>2, <2>3, <2>4 DEF Follows
<1>2. ASSUME g = [i \in 0 .. n |-> g[i]], Follows(g, n) PROVE IsMixed(g, n)
  <2>1. ASSUME NEW j \in 0 .. n
        PROVE  g[j] = IF j = 0 THEN Start ELSE mix(Add(g[j - 1], KeyBlock(j - 1)))
    <3>1. CASE j = 0
      BY <1>2, <3>1 DEF Follows
    <3>2. CASE j # 0
      <4>1. j - 1 \in 0 .. n - 1 /\ (j - 1) + 1 = j
        BY <3>2
      <4>2. g[(j - 1) + 1] = mix(Add(g[j - 1], KeyBlock(j - 1)))
        BY <1>2, <4>1 DEF Follows
      <4> QED
        BY <3>2, <4>1, <4>2
    <3> QED BY <3>1, <3>2
  <2> QED
    BY <1>2, <2>1 DEF IsMixed
<1> QED
  BY <1>1, <1>2

(***************************************************************************)
(* The recursion of Mixed defines a function, and it follows the blocks.   *)
(***************************************************************************)
LEMMA MixedFollows ==
  ASSUME nkey \in Nat
  PROVE  Follows(Mixed, Blocks)
<1>1. Blocks \in Nat
  BY DEF Blocks
<1> DEFINE P == {n \in Nat : \E g : g = [i \in 0 .. n |-> g[i]] /\ Follows(g, n)}
<1>2. 0 \in P
  <2>1. PICK g : g = [i \in 0 .. 0 |-> Start]
    OBVIOUS
  <2>2. g[0] = Start /\ g = [i \in 0 .. 0 |-> g[i]] /\ 0 .. 0 - 1 = {}
    BY <2>1
  <2>3. Follows(g, 0)
    BY <2>2 DEF Follows
  <2> QED
    BY <2>2, <2>3
<1>3. ASSUME NEW n \in 0 .. Blocks - 1, n \in P PROVE n + 1 \in P
  <2>1. PICK g : Follows(g, n)
    BY <1>3
  <2>2. PICK x : x = mix(Add(g[n], KeyBlock(n)))
    OBVIOUS
  <2>3. PICK h : h = [i \in 0 .. n + 1 |-> IF i = n + 1 THEN x ELSE g[i]]
    OBVIOUS
  <2>4. n \in Nat /\ n + 1 \in Nat
    BY <1>1
  <2>5. Follows(h, n + 1)
    BY <2>1, <2>2, <2>3, <2>4, OneMore
  <2>6. h = [i \in 0 .. n + 1 |-> h[i]]
    BY <2>3
  <2> QED
    BY <2>4, <2>5, <2>6
<1> HIDE DEF P
<1>4. \A n \in 0 .. Blocks : n \in P
  BY <1>1, <1>2, <1>3, UpTo
<1>5. Blocks \in P
  BY <1>1, <1>4
<1>6. \E g : IsMixed(g, Blocks)
  BY <1>1, <1>5, IsMixedIs DEF P
<1>7. Mixed = CHOOSE g : IsMixed(g, Blocks)
  BY DEF Mixed, IsMixed
<1>8. IsMixed(Mixed, Blocks)
  BY <1>6, <1>7
<1> QED
  BY <1>1, <1>8, IsMixedIs

-----------------------------------------------------------------------------

\* After j blocks.
Done(j, g) ==
  /\ j \in Nat /\ Follows(g, j)
  /\ length = nkey - 12 * j /\ k = key + 12 * j
  /\ j # 0 => length > 0
  /\ pc = "loop" => abc = g[j]
  /\ pc = "return" =>
       /\ length <= 12
       /\ abc[3] = IF nkey = 0 THEN Start[3] ELSE finalmix(Add(g[j], KeyBlock(j)))

HashInv ==
  /\ Called
  /\ pc \in {"loop", "return"}
  /\ length >= 0 /\ abc \in Triples
  /\ \E j, g : Done(j, g)

LEMMA AddType ==
  ASSUME NEW s \in Triples, NEW j \in Nat, Called
  PROVE  Add(s, KeyBlock(j)) \in Triples
<1>1. key \in Nat /\ nkey \in Nat /\ nkey <= MaxLength /\ MaxLength \in Nat
  BY HashAssumption DEF Called
<1>2. ASSUME NEW i \in Nat PROVE (IF i < nkey THEN mem[key + i] ELSE 0) \in Int
  <2>1. CASE i < nkey
    <3>1. i \in 0 .. MaxLength + 2
      BY <1>1, <2>1
    <3>2. mem[key + i] \in 0 .. 255
      BY <3>1, HashAssumption DEF Called
    <3> QED BY <2>1, <3>2
  <2>2. CASE ~ (i < nkey)
    BY <2>2
  <2> QED BY <2>1, <2>2
<1>3. ASSUME NEW i \in Nat PROVE IsPair(KeyWord(i))
  <2>1. PICK a : a = IF 4 * i < nkey THEN mem[key + 4 * i] ELSE 0
    OBVIOUS
  <2>2. PICK b : b = IF 4 * i + 1 < nkey THEN mem[key + (4 * i + 1)] ELSE 0
    OBVIOUS
  <2>3. PICK c : c = IF 4 * i + 2 < nkey THEN mem[key + (4 * i + 2)] ELSE 0
    OBVIOUS
  <2>4. PICK d : d = IF 4 * i + 3 < nkey THEN mem[key + (4 * i + 3)] ELSE 0
    OBVIOUS
  <2>5. 4 * i \in Nat /\ 4 * i + 1 \in Nat /\ 4 * i + 2 \in Nat /\ 4 * i + 3 \in Nat
    OBVIOUS
  <2>6. a \in Int /\ b \in Int /\ c \in Int /\ d \in Int
    BY <1>2, <2>1, <2>2, <2>3, <2>4, <2>5
  <2>7. KeyWord(i) = <<256 * d + c, 256 * b + a>>
    BY <2>1, <2>2, <2>3, <2>4 DEF KeyWord
  <2> QED
    BY <2>6, <2>7 DEF IsPair
<1>4. PICK K : K = KeyBlock(j)
  OBVIOUS
<1>5. K[1] = KeyWord(3 * j) /\ K[2] = KeyWord(3 * j + 1) /\ K[3] = KeyWord(3 * j + 2)
  BY <1>4 DEF KeyBlock
<1>6. IsPair(K[1]) /\ IsPair(K[2]) /\ IsPair(K[3])
  BY <1>3, <1>5
<1>7. IsPair(s[1]) /\ IsPair(s[2]) /\ IsPair(s[3])
  BY TriplesAre, WordIsPair
<1>8. Plus(s[1], K[1]) \in Words /\ Plus(s[2], K[2]) \in Words /\ Plus(s[3], K[3]) \in Words
  BY <1>6, <1>7, PlusMinusType
<1>9. Add(s, K) \in Triples
  BY <1>8, TriplesAre DEF Add
<1> QED
  BY <1>4, <1>9

LEMMA StartType ==
  ASSUME Called
  PROVE  Start \in Triples
<1>1. IsPair(<<57005, 48879>>) /\ IsPair(<<0, nkey>>) /\ IsPair(<<0, initval>>)
  BY HashAssumption DEF Called, IsPair
<1>2. Plus(<<57005, 48879>>, <<0, nkey>>) \in Words
  BY <1>1, PlusMinusType
<1>3. Plus(Plus(<<57005, 48879>>, <<0, nkey>>), <<0, initval>>) \in Words
  BY <1>1, <1>2, PlusMinusType, WordIsPair
<1> QED
  BY <1>3, TriplesAre DEF Start

LEMMA InitHash == Init => HashInv
<1> SUFFICES ASSUME Init PROVE HashInv
  OBVIOUS
<1>1. Called /\ pc = "loop" /\ abc = Start /\ length = nkey /\ k = key
  BY DEF Init, Called
<1>2. key \in Nat /\ nkey \in Nat
  BY <1>1, HashAssumption DEF Called
<1>3. PICK g : g = [i \in 0 .. 0 |-> Start]
  OBVIOUS
<1>4. g[0] = Start /\ 0 .. 0 - 1 = {}
  BY <1>3
<1>5. Follows(g, 0)
  BY <1>4 DEF Follows
<1>6. Done(0, g)
  BY <1>1, <1>2, <1>4, <1>5 DEF Done
<1> QED
  BY <1>1, <1>2, <1>6, StartType DEF HashInv

LEMMA LoopStep ==
  ASSUME HashInv, loop
  PROVE  HashInv'
<1>1. /\ pc = "loop" /\ length > 12
      /\ abc' = mix(Add(abc, Block(k, 12)))
      /\ length' = length - 12 /\ k' = k + 12
      /\ mem' = mem /\ key' = key /\ nkey' = nkey /\ pc' = pc
  BY DEF loop
<1>2. PICK j, g : Done(j, g)
  BY DEF HashInv
<1>3. Called /\ abc \in Triples /\ key \in Nat /\ nkey \in Nat
  BY HashAssumption DEF HashInv, Called
<1>4. j \in Nat /\ abc = g[j] /\ k = key + 12 * j /\ length = nkey - 12 * j /\ Follows(g, j)
  BY <1>1, <1>2 DEF Done
<1>5. Add(abc, Block(k, 12)) = Add(abc, KeyBlock(j))
  BY <1>1, <1>3, <1>4, BlockIsKeyBlock
<1>6. PICK x : x = mix(Add(g[j], KeyBlock(j)))
  OBVIOUS
<1>7. PICK h : h = [i \in 0 .. j + 1 |-> IF i = j + 1 THEN x ELSE g[i]]
  OBVIOUS
<1>8. Follows(h, j + 1) /\ h[j + 1] = x
  BY <1>4, <1>6, <1>7, OneMore
<1>9. Follows(h, j + 1)'
  <2>1. Start' = Start /\ \A i : KeyBlock(i)' = KeyBlock(i)
    BY <1>1 DEF Start, KeyBlock, KeyWord
  <2> QED
    BY <1>8, <2>1 DEF Follows
<1>10. abc' = x
  BY <1>1, <1>4, <1>5, <1>6
<1>11. abc' \in Triples
  BY <1>1, <1>3, <1>4, <1>5, AddType, MixLemma
<1>12. /\ length' = nkey' - 12 * (j + 1) /\ k' = key' + 12 * (j + 1)
       /\ length' > 0 /\ j + 1 \in Nat
  BY <1>1, <1>3, <1>4
<1>13. Done(j + 1, h)'
  BY <1>1, <1>8, <1>9, <1>10, <1>12 DEF Done
<1>14. Called'
  BY <1>1, <1>3 DEF Called
<1> QED
  BY <1>1, <1>11, <1>12, <1>13, <1>14 DEF HashInv

LEMMA LastStep ==
  ASSUME HashInv, last_block
  PROVE  HashInv'
<1>1. /\ pc = "loop" /\ length <= 12
      /\ abc' = IF length = 0 THEN abc
                ELSE <<abc[1], abc[2], finalmix(Add(abc, Block(k, length)))>>
      /\ pc' = "return"
      /\ mem' = mem /\ key' = key /\ nkey' = nkey /\ k' = k /\ length' = length
  BY DEF last_block
<1>2. PICK j, g : Done(j, g)
  BY DEF HashInv
<1>3. Called /\ abc \in Triples /\ key \in Nat /\ nkey \in Nat /\ length >= 0
  BY HashAssumption DEF HashInv, Called
<1>4. /\ j \in Nat /\ abc = g[j] /\ k = key + 12 * j /\ length = nkey - 12 * j /\ Follows(g, j)
      /\ j # 0 => length > 0
  BY <1>1, <1>2 DEF Done
<1>5. Start' = Start /\ \A i : KeyBlock(i)' = KeyBlock(i)
  BY <1>1 DEF Start, KeyBlock, KeyWord
<1>6. Follows(g, j)'
  BY <1>4, <1>5 DEF Follows
<1>7. Called'
  BY <1>1, <1>3 DEF Called
<1>8. CASE length = 0
  <2>1. abc' = abc /\ j = 0 /\ nkey = 0
    BY <1>1, <1>3, <1>4, <1>8
  <2>2. abc'[3] = Start[3]
    BY <1>4, <2>1 DEF Follows
  <2>3. Done(j, g)'
    BY <1>1, <1>4, <1>5, <1>6, <2>1, <2>2 DEF Done
  <2> QED
    BY <1>1, <1>3, <1>7, <2>1, <2>3 DEF HashInv
<1>9. CASE length # 0
  <2>1. 0 < length /\ length <= 12 /\ length \in Int /\ nkey # 0
    BY <1>1, <1>3, <1>4, <1>9
  <2>2. Add(abc, Block(k, length)) = Add(abc, KeyBlock(j))
    BY <1>3, <1>4, <2>1, BlockIsKeyBlock
  <2>3. PICK x : x = finalmix(Add(abc, KeyBlock(j)))
    OBVIOUS
  <2>4. x \in Words
    BY <1>3, <1>4, <2>3, AddType, FinalmixType
  <2>5. abc' = <<abc[1], abc[2], x>>
    BY <1>1, <1>9, <2>2, <2>3
  <2>6. abc' \in Triples
    BY <1>3, <2>4, <2>5, TriplesAre
  <2>7. abc'[3] = x
    BY <2>5
  <2>8. Done(j, g)'
    BY <1>1, <1>4, <1>5, <1>6, <2>1, <2>3, <2>7 DEF Done
  <2> QED
    BY <1>1, <1>3, <1>7, <2>6, <2>8 DEF HashInv
<1> QED
  BY <1>8, <1>9

LEMMA AlwaysHash == Spec => []HashInv
<1>1. HashInv /\ [Next]_vars => HashInv'
  <2> SUFFICES ASSUME HashInv, [Next]_vars PROVE HashInv'
    OBVIOUS
  <2>1. CASE loop
    BY <2>1, LoopStep
  <2>2. CASE last_block
    BY <2>2, LastStep
  <2>3. CASE UNCHANGED vars
    <3>1. /\ mem' = mem /\ key' = key /\ nkey' = nkey /\ pc' = pc /\ k' = k
          /\ length' = length /\ abc' = abc
      BY <2>3 DEF vars
    <3>2. Start' = Start /\ \A i : KeyBlock(i)' = KeyBlock(i)
      BY <3>1 DEF Start, KeyBlock, KeyWord
    <3>3. PICK j, g : Done(j, g)
      BY DEF HashInv
    <3>4. Done(j, g)'
      BY <3>1, <3>2, <3>3 DEF Done, Follows
    <3> QED
      BY <3>1, <3>4 DEF HashInv, Called
  <2> QED
    BY <2>1, <2>2, <2>3 DEF Next
<1> QED
  BY InitHash, <1>1, PTL DEF Spec

(***************************************************************************)
(* A key of any length, at any address and in any memory, has the hash of  *)
(* its bytes (hash.c:17-119).                                              *)
(***************************************************************************)
THEOREM OneHash == Spec => []HashOfTheKey
<1>1. HashInv => HashOfTheKey
  <2> SUFFICES ASSUME HashInv, pc = "return" PROVE abc[3] = KeyHash
    BY DEF HashOfTheKey
  <2>1. PICK j, g : Done(j, g)
    BY DEF HashInv
  <2>2. nkey \in Nat /\ length >= 0
    BY HashAssumption DEF HashInv, Called
  <2>3. /\ j \in Nat /\ length = nkey - 12 * j /\ length <= 12 /\ Follows(g, j) /\ (j # 0 => length > 0)
        /\ abc[3] = IF nkey = 0 THEN Start[3] ELSE finalmix(Add(g[j], KeyBlock(j)))
    BY <2>1 DEF Done
  <2>4. CASE nkey = 0
    BY <2>3, <2>4 DEF KeyHash
  <2>5. CASE nkey # 0
    <3>1. 0 < length
      BY <2>2, <2>3, <2>5
    <3>2. Blocks = j + 1
      BY <2>2, <2>3, <3>1 DEF Blocks
    <3>3. Mixed[j] = g[j]
      BY <2>2, <2>3, <3>2, MixedFollows, SameBlocks
    <3>4. Blocks - 1 = j
      BY <2>3, <3>2
    <3> QED
      BY <2>3, <2>5, <3>3, <3>4 DEF KeyHash
  <2> QED
    BY <2>4, <2>5
<1> QED
  BY AlwaysHash, <1>1, PTL

(***************************************************************************)
(* mix loses nothing, of whatever it is given (hash.h:12).                 *)
(***************************************************************************)
THEOREM MixCanBeUndone == Spec => []MixIsReversible
<1>1. HashInv => MixIsReversible
  BY MixLemma DEF HashInv, MixIsReversible
<1> QED
  BY AlwaysHash, <1>1, PTL

(***************************************************************************)
(* So mix maps no two states to one (hash.h:12): the blocks of a key that  *)
(* have been mixed in stay told apart until the last one.                  *)
(***************************************************************************)
THEOREM MixIsInjective == \A s, t \in Triples : mix(s) = mix(t) => s = t
BY MixLemma
=============================================================================

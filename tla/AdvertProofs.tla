----------------------------- MODULE AdvertProofs -----------------------------
(***************************************************************************)
(* Theorems about AdvertExchange, for every set of keys and drafts, every  *)
(* clock and every radio: what an advert says when it arrives, whose       *)
(* signature it carries, and when it is refused.                           *)
(***************************************************************************)
EXTENDS AdvertExchange, DataFacts

(* What Min and Max choose exists. *)
LEMMA LeastNatural ==
  ASSUME NEW T, T \subseteq Nat, T # {}
  PROVE  Min(T) \in T /\ \A y \in T : Min(T) =< y
<1>1. \E x \in T : \A y \in T : x =< y
  BY HasLeast
<1>2. QED
  BY <1>1 DEF Min

LEMMA GreatestNatural ==
  ASSUME NEW n \in Nat, NEW T, T \subseteq 0 .. n, T # {}
  PROVE  Max(T) \in T /\ \A y \in T : Max(T) >= y
<1>1. \E x \in T : \A y \in T : x >= y
  BY HasGreatest
<1>2. QED
  BY <1>1 DEF Max

(* A slice is a sequence of the same elements wherever it begins and ends  *)
(* in the sequence.                                                        *)
LEMMA SliceBetween ==
  ASSUME NEW S, NEW s \in Seq(S), NEW a \in 1 .. Len(s) + 1, NEW b \in 0 .. Len(s)
  PROVE  SubSeq(s, a, b) \in Seq(S)
<1>1. a \in Int /\ b \in Int /\ \A i \in a .. b : s[i] \in S
  OBVIOUS
<1>2. QED
  BY <1>1, SubSeqProperties

LEMMA NameIsBytes ==
  ASSUME NEW s \in Seq(Byte)
  PROVE  UpToNul(s) \in Seq(Byte) /\ TrimSpace(s) \in Seq(Byte)
<1>1. Len(s) \in Nat /\ DOMAIN s = 1 .. Len(s)
  OBVIOUS
<1>2. UpToNul(s) \in Seq(Byte)
  <2> DEFINE nuls == {i \in DOMAIN s : s[i] = 0}
  <2>1. CASE nuls = {}
    BY <2>1 DEF UpToNul
  <2>2. CASE nuls # {}
    <3>1. Min(nuls) \in 1 .. Len(s)
      <4>1. nuls \subseteq Nat
        BY <1>1
      <4>2. Min(nuls) \in nuls
        BY <2>2, <4>1, LeastNatural
      <4>3. QED
        BY <1>1, <4>2
    <3>2. Min(nuls) - 1 \in 0 .. Len(s) /\ 1 \in 1 .. Len(s) + 1
      BY <1>1, <3>1
    <3> DEFINE b == Min(nuls) - 1
    <3>3. UpToNul(s) = SubSeq(s, 1, b)
      BY <2>2 DEF UpToNul
    <3> HIDE DEF b
    <3>4. QED
      BY <3>2, <3>3, SliceBetween DEF b
  <2>3. QED
    BY <2>1, <2>2
<1>3. TrimSpace(s) \in Seq(Byte)
  <2> DEFINE solid == {i \in DOMAIN s : ~IsSpace(s, i)}
  <2>1. CASE solid = {}
    BY <2>1 DEF TrimSpace
  <2>2. CASE solid # {}
    <3>1. solid \subseteq Nat /\ solid \subseteq 0 .. Len(s)
      BY <1>1
    <3>2. Min(solid) \in solid /\ Max(solid) \in solid
      BY <1>1, <2>2, <3>1, LeastNatural, GreatestNatural
    <3> DEFINE a == Min(solid)
               b == Max(solid)
    <3>3. a \in 1 .. Len(s) + 1 /\ b \in 0 .. Len(s)
      BY <1>1, <3>2
    <3>4. TrimSpace(s) = SubSeq(s, a, b)
      BY <2>2 DEF TrimSpace
    <3> HIDE DEF a, b
    <3>5. QED
      BY <3>3, <3>4, SliceBetween
  <2>3. QED
    BY <2>1, <2>2
<1>4. QED
  BY <1>2, <1>3

LEMMA NoName == TrimSpace(UpToNul(<< >>)) = << >>
<1>1. UpToNul(<< >>) = << >>
  BY DEF UpToNul
<1>2. TrimSpace(<< >>) = << >>
  BY DEF TrimSpace
<1>3. QED
  BY <1>1, <1>2

-----------------------------------------------------------------------------
(* The flags byte: a nibble and four bits, each read back as written.      *)
LEMMA BitFacts ==
  ASSUME NEW b \in BOOLEAN
  PROVE  Bit(b) \in 0 .. 1 /\ (Bit(b) = 1 <=> b)
BY DEF Bit

LEMMA FiveFields ==
  ASSUME NEW t \in 0 .. 15, NEW a \in 0 .. 1, NEW b \in 0 .. 1,
         NEW c \in 0 .. 1, NEW d \in 0 .. 1,
         NEW n \in Int, n = t + 16 * a + 32 * b + 64 * c + 128 * d
  PROVE  /\ n \in 0 .. 255
         /\ n % 16 = t
         /\ (n \div 16) % 2 = a
         /\ (n \div 32) % 2 = b
         /\ (n \div 64) % 2 = c
         /\ (n \div 128) % 2 = d
<1>1. n \in 0 .. 255
  OBVIOUS
<1>2. n % 16 = t
  OBVIOUS
<1>3. n \div 16 = a + 2 * b + 4 * c + 8 * d
  OBVIOUS
<1>4. n \div 32 = b + 2 * c + 4 * d
  OBVIOUS
<1>5. n \div 64 = c + 2 * d
  OBVIOUS
<1>6. n \div 128 = d
  OBVIOUS
<1>7. (a + 2 * b + 4 * c + 8 * d) % 2 = a
  OBVIOUS
<1>8. (b + 2 * c + 4 * d) % 2 = b
  OBVIOUS
<1>9. (c + 2 * d) % 2 = c
  OBVIOUS
<1>10. d % 2 = d
  OBVIOUS
<1>11. (n \div 16) % 2 = a /\ (n \div 32) % 2 = b
  BY <1>3, <1>4, <1>7, <1>8
<1>12. (n \div 64) % 2 = c /\ (n \div 128) % 2 = d
  BY <1>5, <1>6, <1>9, <1>10
<1>13. QED
  BY <1>1, <1>2, <1>11, <1>12

LEMMA FlagsFacts ==
  ASSUME NEW adv \in Advert
  PROVE  /\ Flags(adv) \in Byte
         /\ Flags(adv) % 16 = adv.NodeType % 16
         /\ HasBit(Flags(adv), 16) <=> adv.HasGPS
         /\ HasBit(Flags(adv), 32) <=> adv.HasFeat1
         /\ HasBit(Flags(adv), 64) <=> adv.HasFeat2
         /\ HasBit(Flags(adv), 128) <=> adv.Name # << >>
<1> DEFINE t == adv.NodeType % 16
           a == Bit(adv.HasGPS)
           b == Bit(adv.HasFeat1)
           c == Bit(adv.HasFeat2)
           d == Bit(adv.Name # << >>)
           n == Flags(adv)
<1>1. /\ adv.NodeType \in Byte
      /\ adv.HasGPS \in BOOLEAN /\ adv.HasFeat1 \in BOOLEAN /\ adv.HasFeat2 \in BOOLEAN
  BY DEF Advert
<1>2. t \in 0 .. 15
  BY <1>1 DEF Byte
<1>3. a \in 0 .. 1 /\ (a = 1 <=> adv.HasGPS)
  BY <1>1, BitFacts
<1>4. b \in 0 .. 1 /\ (b = 1 <=> adv.HasFeat1)
  BY <1>1, BitFacts
<1>5. c \in 0 .. 1 /\ (c = 1 <=> adv.HasFeat2)
  BY <1>1, BitFacts
<1>6. d \in 0 .. 1 /\ (d = 1 <=> adv.Name # << >>)
  BY BitFacts
<1>7. n = t + 16 * a + 32 * b + 64 * c + 128 * d
  BY DEF Flags
<1>8. t \in Int /\ a \in Int /\ b \in Int /\ c \in Int /\ d \in Int
  BY <1>2, <1>3, <1>4, <1>5, <1>6
<1> HIDE DEF t, a, b, c, d, n
<1>9. n \in Int
  BY <1>8, <1>7
<1>10. /\ n \in 0 .. 255
      /\ n % 16 = t
      /\ (n \div 16) % 2 = a
      /\ (n \div 32) % 2 = b
      /\ (n \div 64) % 2 = c
      /\ (n \div 128) % 2 = d
  BY <1>2, <1>3, <1>4, <1>5, <1>6, <1>7, <1>9, FiveFields
<1>11. n \in Byte /\ n % 16 = t
  BY <1>10 DEF Byte
<1>12. (HasBit(n, 16) <=> adv.HasGPS) /\ (HasBit(n, 32) <=> adv.HasFeat1)
  BY <1>3, <1>4, <1>10 DEF HasBit
<1>13. (HasBit(n, 64) <=> adv.HasFeat2) /\ (HasBit(n, 128) <=> adv.Name # << >>)
  BY <1>5, <1>6, <1>10 DEF HasBit
<1>14. QED
  BY <1>11, <1>12, <1>13 DEF n, t

(* A coordinate of 32 bits with a sign, and a feature of 16 bits, byte by  *)
(* byte and back.                                                          *)
LEMMA FourDigitsOfInt32 ==
  ASSUME NEW n \in Int32
  PROVE  \E b0 \in Byte, b1 \in Byte, b2 \in Byte, q \in -128 .. 127 :
           /\ n = b0 + 256 * b1 + 65536 * b2 + 16777216 * q
           /\ n % 256 = b0
           /\ (n \div 256) % 256 = b1
           /\ (n \div 65536) % 256 = b2
           /\ n \div 16777216 = q
<1>1. n \in Int /\ -2147483647 - 1 =< n /\ n =< 2147483647
  BY SMT DEF Int32
<1>2. n \in Int
  BY <1>1
<1>3. PICK b0 \in Digit, b1 \in Digit, b2 \in Digit, q \in Int :
        /\ n = b0 + 256 * b1 + 65536 * b2 + 16777216 * q
        /\ n % 256 = b0
        /\ (n \div 256) % 256 = b1
        /\ (n \div 65536) % 256 = b2
        /\ n \div 16777216 = q
  BY <1>2, FourDigits
<1>4. q \in -128 .. 127
  BY <1>1, <1>3, SMT DEF Digit
<1>5. b0 \in Byte /\ b1 \in Byte /\ b2 \in Byte
  BY <1>3 DEF Byte, Digit
<1>6. QED
  BY <1>3, <1>4, <1>5, SMT

LEMMA Int32Written ==
  ASSUME NEW n \in Int32
  PROVE  /\ Int32Bytes(n) \in Seq(Byte)
         /\ Len(Int32Bytes(n)) = 4
         /\ Int32In(Int32Bytes(n), 1) = n
<1>1. PICK b0 \in Byte, b1 \in Byte, b2 \in Byte, q \in -128 .. 127 :
        /\ n = b0 + 256 * b1 + 65536 * b2 + 16777216 * q
        /\ n % 256 = b0
        /\ (n \div 256) % 256 = b1
        /\ (n \div 65536) % 256 = b2
        /\ n \div 16777216 = q
  BY FourDigitsOfInt32, SMT
<1> DEFINE b3 == q % 256
<1>2. b3 \in Byte /\ q = IF b3 >= 128 THEN b3 - 256 ELSE b3
  <2>1. q \in Int /\ -128 =< q /\ q =< 127
    OBVIOUS
  <2>2. b3 = IF q < 0 THEN q + 256 ELSE q
    BY <2>1
  <2>3. QED
    BY <2>1, <2>2 DEF Byte
<1> HIDE DEF b3
<1>3. Int32Bytes(n) = <<b0, b1, b2, b3>>
  BY <1>1, SMT DEF Int32Bytes, b3
<1>4. /\ <<b0, b1, b2, b3>> \in Seq(Byte)
      /\ Len(<<b0, b1, b2, b3>>) = 4
  BY <1>2
<1>5. Int32In(<<b0, b1, b2, b3>>, 1) = b0 + 256 * b1 + 65536 * b2 + 16777216 * q
  BY <1>2, SMT DEF Int32In
<1>6. Int32In(<<b0, b1, b2, b3>>, 1) = n
  BY <1>1, <1>5, SMT
<1>7. QED
  BY <1>3, <1>4, <1>6, Zenon

LEMMA Uint16Written ==
  ASSUME NEW n \in Uint16
  PROVE  /\ Uint16Bytes(n) \in Seq(Byte)
         /\ Len(Uint16Bytes(n)) = 2
         /\ Uint16In(Uint16Bytes(n), 1) = n
<1> DEFINE b0 == n % 256
           b1 == n \div 256
<1>1. n \in Nat /\ n < 65536
  BY SMT DEF Uint16
<1>2. b0 \in 0 .. 255 /\ b1 \in Nat /\ n = b0 + 256 * b1
  BY <1>1, SMT
<1>3. b1 =< 255
  BY <1>1, <1>2, SMT
<1> HIDE DEF b0, b1
<1>4. b0 \in Byte /\ b1 \in Byte
  BY <1>2, <1>3, SMT DEF Byte
<1>5. Uint16Bytes(n) = <<b0, b1>>
  BY DEF Uint16Bytes, b0, b1
<1>6. <<b0, b1>> \in Seq(Byte) /\ Len(<<b0, b1>>) = 2
  BY <1>4
<1>7. Uint16In(<<b0, b1>>, 1) = b0 + 256 * b1
  BY DEF Uint16In
<1>8. QED
  BY <1>2, <1>5, <1>6, <1>7, Zenon

(* The same bytes at another place say the same number.                    *)
LEMMA SameInt32 ==
  ASSUME NEW s, NEW t, NEW i \in Nat,
         \A k \in 1 .. 4 : s[i + k] = t[k]
  PROVE  Int32In(s, i + 1) = Int32In(t, 1)
<1>1. s[i + 1] = t[1] /\ s[i + 2] = t[2] /\ s[i + 3] = t[3] /\ s[i + 4] = t[4]
  OBVIOUS
<1>2. i + 1 + 1 = i + 2 /\ i + 1 + 2 = i + 3 /\ i + 1 + 3 = i + 4
  OBVIOUS
<1>3. 1 + 1 = 2 /\ 1 + 2 = 3 /\ 1 + 3 = 4
  OBVIOUS
<1>4. QED
  BY <1>1, <1>2, <1>3, SMT DEF Int32In

LEMMA SameUint16 ==
  ASSUME NEW s, NEW t, NEW i \in Nat,
         \A k \in 1 .. 2 : s[i + k] = t[k]
  PROVE  Uint16In(s, i + 1) = Uint16In(t, 1)
<1>1. s[i + 1] = t[1] /\ s[i + 2] = t[2]
  OBVIOUS
<1>2. i + 1 + 1 = i + 2 /\ 1 + 1 = 2
  OBVIOUS
<1>3. QED
  BY <1>1, <1>2, SMT DEF Uint16In

(* Any four bytes are such a number, and any two.                          *)
LEMMA NumbersIn ==
  ASSUME NEW s \in Seq(Byte), NEW i \in Nat
  PROVE  /\ i + 4 =< Len(s) => Int32In(s, i + 1) \in Int32
         /\ i + 2 =< Len(s) => Uint16In(s, i + 1) \in Uint16
<1>1. \A j \in 1 .. Len(s) : s[j] \in Int /\ 0 =< s[j] /\ s[j] =< 255
  <2>1. \A j \in 1 .. Len(s) : s[j] \in Byte
    OBVIOUS
  <2>2. \A b \in Byte : b \in Int /\ 0 =< b /\ b =< 255
    BY DEF Byte
  <2>3. QED
    BY <2>1, <2>2
<1>2. Len(s) \in Nat
  OBVIOUS
<1>3. ASSUME i + 4 =< Len(s) PROVE Int32In(s, i + 1) \in Int32
  <2>1. i + 1 + 1 = i + 2 /\ i + 1 + 2 = i + 3 /\ i + 1 + 3 = i + 4
    OBVIOUS
  <2>2. /\ i + 1 \in 1 .. Len(s) /\ i + 2 \in 1 .. Len(s)
        /\ i + 3 \in 1 .. Len(s) /\ i + 4 \in 1 .. Len(s)
    BY <1>2, <1>3
  <2>3. PICK a, b, c, d :
          /\ a = s[i + 1] /\ b = s[i + 2] /\ c = s[i + 3] /\ d = s[i + 4]
    OBVIOUS
  <2>4. /\ a \in Int /\ b \in Int /\ c \in Int /\ d \in Int
        /\ 0 =< a /\ 0 =< b /\ 0 =< c /\ 0 =< d
        /\ a =< 255 /\ b =< 255 /\ c =< 255 /\ d =< 255
    BY <1>1, <2>2, <2>3
  <2>5. Int32In(s, i + 1) = a + 256 * b + 65536 * c
                            + 16777216 * (IF d >= 128 THEN d - 256 ELSE d)
    BY <2>1, <2>3, SMT DEF Int32In
  <2>6. QED
    BY <2>4, <2>5, SMT DEF Int32
<1>4. ASSUME i + 2 =< Len(s) PROVE Uint16In(s, i + 1) \in Uint16
  <2>1. i + 1 + 1 = i + 2
    OBVIOUS
  <2>2. i + 1 \in 1 .. Len(s) /\ i + 2 \in 1 .. Len(s)
    BY <1>2, <1>4
  <2>3. PICK a, b : a = s[i + 1] /\ b = s[i + 2]
    OBVIOUS
  <2>4. a \in Int /\ b \in Int /\ 0 =< a /\ 0 =< b /\ a =< 255 /\ b =< 255
    BY <1>1, <2>2, <2>3
  <2>5. Uint16In(s, i + 1) = a + 256 * b
    BY <2>1, <2>3, SMT DEF Uint16In
  <2>6. QED
    BY <2>4, <2>5, SMT DEF Uint16
<1>5. QED
  BY <1>3, <1>4

-----------------------------------------------------------------------------
(* The optional parts of the appdata, each either there or empty.          *)
GPSPart(adv) ==
  IF adv.HasGPS THEN Int32Bytes(adv.Lat) \o Int32Bytes(adv.Lon) ELSE << >>
Feature1Part(adv) == IF adv.HasFeat1 THEN Uint16Bytes(adv.Feature1) ELSE << >>
Feature2Part(adv) == IF adv.HasFeat2 THEN Uint16Bytes(adv.Feature2) ELSE << >>

LEMMA GPSPartFacts ==
  ASSUME NEW adv \in Advert
  PROVE  /\ GPSPart(adv) \in Seq(Byte)
         /\ Len(GPSPart(adv)) = 8 * Bit(adv.HasGPS)
         /\ adv.HasGPS => /\ Len(GPSPart(adv)) = 8
                          /\ Int32In(GPSPart(adv), 1) = adv.Lat
                          /\ Int32In(GPSPart(adv), 5) = adv.Lon
<1>1. adv.HasGPS \in BOOLEAN /\ adv.Lat \in Int32 /\ adv.Lon \in Int32
  BY DEF Advert
<1>2. CASE adv.HasGPS
  <2> DEFINE a == Int32Bytes(adv.Lat)
             b == Int32Bytes(adv.Lon)
  <2>1. GPSPart(adv) = a \o b
    BY <1>2 DEF GPSPart
  <2>2. a \in Seq(Byte) /\ Len(a) = 4 /\ Int32In(a, 1) = adv.Lat
    BY <1>1, Int32Written
  <2>3. b \in Seq(Byte) /\ Len(b) = 4 /\ Int32In(b, 1) = adv.Lon
    BY <1>1, Int32Written
  <2> HIDE DEF a, b
  <2> DEFINE S == Byte
             ab == a \o b
  <2> HIDE DEF S
  <2>4. a \in Seq(S) /\ b \in Seq(S)
    BY <2>2, <2>3 DEF S
  <2>5. /\ ab \in Seq(S)
        /\ Len(ab) = Len(a) + Len(b)
        /\ \A i \in 1 .. Len(a) : ab[i] = a[i]
        /\ \A i \in 1 .. Len(b) : ab[Len(a) + i] = b[i]
    BY <2>4, TwoParts
  <2> HIDE DEF ab
  <2>6. \A k \in 1 .. 4 : ab[0 + k] = a[k] /\ ab[4 + k] = b[k]
    BY <2>2, <2>3, <2>5
  <2>7. Int32In(ab, 0 + 1) = Int32In(a, 1)
    BY <2>6, SameInt32
  <2>8. Int32In(ab, 4 + 1) = Int32In(b, 1)
    BY <2>6, SameInt32
  <2>9. Int32In(ab, 1) = adv.Lat /\ Int32In(ab, 5) = adv.Lon
    <3>1. 0 + 1 = 1 /\ 4 + 1 = 5
      OBVIOUS
    <3>2. QED
      BY <2>2, <2>3, <2>7, <2>8, <3>1, Zenon
  <2>10. Len(ab) = 8 /\ 8 * Bit(adv.HasGPS) = 8
    BY <1>2, <2>2, <2>3, <2>5 DEF Bit
  <2>11. ab \in Seq(Byte)
    BY <2>5 DEF S
  <2>12. GPSPart(adv) = ab
    BY <2>1 DEF ab
  <2>13. QED
    BY <2>9, <2>10, <2>11, <2>12, Zenon
<1>3. CASE ~adv.HasGPS
  BY <1>3 DEF GPSPart, Bit
<1>4. QED
  BY <1>2, <1>3

LEMMA FeaturePartFacts ==
  ASSUME NEW adv \in Advert
  PROVE  /\ Feature1Part(adv) \in Seq(Byte)
         /\ Len(Feature1Part(adv)) = 2 * Bit(adv.HasFeat1)
         /\ adv.HasFeat1 => Uint16In(Feature1Part(adv), 1) = adv.Feature1
         /\ Feature2Part(adv) \in Seq(Byte)
         /\ Len(Feature2Part(adv)) = 2 * Bit(adv.HasFeat2)
         /\ adv.HasFeat2 => Uint16In(Feature2Part(adv), 1) = adv.Feature2
<1>1. adv.Feature1 \in Uint16 /\ adv.Feature2 \in Uint16
  BY DEF Advert
<1>2. ASSUME adv.HasFeat1
      PROVE  /\ Feature1Part(adv) \in Seq(Byte)
             /\ Len(Feature1Part(adv)) = 2 * Bit(adv.HasFeat1)
             /\ Uint16In(Feature1Part(adv), 1) = adv.Feature1
  <2>1. Feature1Part(adv) = Uint16Bytes(adv.Feature1) /\ 2 * Bit(adv.HasFeat1) = 2
    BY <1>2 DEF Feature1Part, Bit
  <2>2. QED
    BY <1>1, <2>1, Uint16Written
<1>3. ASSUME adv.HasFeat2
      PROVE  /\ Feature2Part(adv) \in Seq(Byte)
             /\ Len(Feature2Part(adv)) = 2 * Bit(adv.HasFeat2)
             /\ Uint16In(Feature2Part(adv), 1) = adv.Feature2
  <2>1. Feature2Part(adv) = Uint16Bytes(adv.Feature2) /\ 2 * Bit(adv.HasFeat2) = 2
    BY <1>3 DEF Feature2Part, Bit
  <2>2. QED
    BY <1>1, <2>1, Uint16Written
<1>4. ASSUME ~adv.HasFeat1
      PROVE  /\ Feature1Part(adv) \in Seq(Byte)
             /\ Len(Feature1Part(adv)) = 2 * Bit(adv.HasFeat1)
  BY <1>4 DEF Feature1Part, Bit
<1>5. ASSUME ~adv.HasFeat2
      PROVE  /\ Feature2Part(adv) \in Seq(Byte)
             /\ Len(Feature2Part(adv)) = 2 * Bit(adv.HasFeat2)
  BY <1>5 DEF Feature2Part, Bit
<1>6. QED
  BY <1>2, <1>3, <1>4, <1>5

(* Every part of the appdata is read where the flags put it.               *)
LEMMA AppdataIsRead ==
  ASSUME NEW adv \in Advert, NEW app, app = Appdata(adv)
  PROVE  /\ app \in Seq(Byte) /\ 1 =< Len(app)
         /\ app[1] = Flags(adv)
         /\ adv.HasGPS => /\ 9 =< Len(app)
                          /\ Int32In(app, 2) = adv.Lat
                          /\ Int32In(app, 6) = adv.Lon
         /\ adv.HasFeat1 => /\ Feat1At(app) + 1 =< Len(app)
                            /\ Uint16In(app, Feat1At(app)) = adv.Feature1
         /\ adv.HasFeat2 => /\ Feat2At(app) + 1 =< Len(app)
                            /\ Uint16In(app, Feat2At(app)) = adv.Feature2
         /\ SubSeq(app, NameAt(app), Len(app)) = adv.Name
<1> DEFINE fl == <<Flags(adv)>>
           g  == GPSPart(adv)
           f1 == Feature1Part(adv)
           f2 == Feature2Part(adv)
           nm == adv.Name
<1>1. /\ fl \in Seq(Byte) /\ Len(fl) = 1 /\ fl[1] = Flags(adv)
  BY FlagsFacts
<1>2. /\ g \in Seq(Byte) /\ Len(g) = 8 * Bit(adv.HasGPS)
      /\ adv.HasGPS => Len(g) = 8 /\ Int32In(g, 1) = adv.Lat /\ Int32In(g, 5) = adv.Lon
  BY GPSPartFacts
<1>3. /\ f1 \in Seq(Byte) /\ Len(f1) = 2 * Bit(adv.HasFeat1)
      /\ adv.HasFeat1 => Uint16In(f1, 1) = adv.Feature1
  BY FeaturePartFacts
<1>4. /\ f2 \in Seq(Byte) /\ Len(f2) = 2 * Bit(adv.HasFeat2)
      /\ adv.HasFeat2 => Uint16In(f2, 1) = adv.Feature2
  BY FeaturePartFacts
<1>5. nm \in Seq(Byte)
  BY DEF Advert
<1>6. app = fl \o g \o f1 \o f2 \o nm
  BY DEF Appdata, GPSPart, Feature1Part, Feature2Part
<1>7. /\ adv.HasGPS \in BOOLEAN /\ adv.HasFeat1 \in BOOLEAN /\ adv.HasFeat2 \in BOOLEAN
  BY DEF Advert
<1> DEFINE S == Byte
           x == Bit(adv.HasGPS)
           y == Bit(adv.HasFeat1)
           z == Bit(adv.HasFeat2)
<1>8. /\ x \in 0 .. 1 /\ (x = 1 <=> adv.HasGPS)
      /\ y \in 0 .. 1 /\ (y = 1 <=> adv.HasFeat1)
      /\ z \in 0 .. 1 /\ (z = 1 <=> adv.HasFeat2)
  BY <1>7, BitFacts
<1> HIDE DEF S, fl, g, f1, f2, nm
<1>9. app \in Seq(S) /\ IsLaidOut(app, fl, g, f1, f2, nm)
  <2>1. /\ fl \in Seq(S) /\ g \in Seq(S) /\ f1 \in Seq(S)
        /\ f2 \in Seq(S) /\ nm \in Seq(S)
    BY <1>1, <1>2, <1>3, <1>4, <1>5 DEF S
  <2>2. QED
    BY <1>6, <2>1, FiveParts
<1>10. app \in Seq(Byte)
  BY <1>9 DEF S
<1>11. Len(app) = 1 + 8 * x + 2 * y + 2 * z + Len(nm) /\ Len(nm) \in Nat
  <2>1. Len(app) = Len(fl) + Len(g) + Len(f1) + Len(f2) + Len(nm)
    BY <1>9 DEF IsLaidOut
  <2>2. QED
    BY <1>1, <1>2, <1>3, <1>4, <1>5, <2>1
<1>12. app[1] = Flags(adv)
  BY <1>1, <1>9 DEF IsLaidOut
<1>13. /\ GPS(app) <=> adv.HasGPS
       /\ Feat1(app) <=> adv.HasFeat1
       /\ Feat2(app) <=> adv.HasFeat2
  BY <1>12, FlagsFacts DEF GPS, Feat1, Feat2
<1>14. /\ Feat1At(app) = 2 + 8 * x
       /\ Feat2At(app) = 2 + 8 * x + 2 * y
       /\ NameAt(app) = 2 + 8 * x + 2 * y + 2 * z
       /\ Len(g) = 8 * x /\ Len(f1) = 2 * y /\ Len(f2) = 2 * z
  <2>1. Bit(GPS(app)) = x /\ Bit(Feat1(app)) = y /\ Bit(Feat2(app)) = z
    BY <1>13 DEF Bit
  <2>2. QED
    BY <1>2, <1>3, <1>4, <2>1 DEF Feat1At, Feat2At, NameAt
<1> HIDE DEF x, y, z
<1>15. ASSUME adv.HasGPS
       PROVE  9 =< Len(app) /\ Int32In(app, 2) = adv.Lat /\ Int32In(app, 6) = adv.Lon
  <2>1. x = 1 /\ Len(g) = 8
    BY <1>2, <1>8, <1>15
  <2>2. \A i \in 1 .. 8 : app[1 + i] = g[i]
    BY <1>1, <1>9, <2>1 DEF IsLaidOut
  <2>3. \A k \in 1 .. 4 : app[1 + k] = g[0 + k] /\ app[5 + k] = g[4 + k]
    <3>1. ASSUME NEW k \in 1 .. 4 PROVE app[1 + k] = g[0 + k] /\ app[5 + k] = g[4 + k]
      <4>1. k \in 1 .. 8 /\ 4 + k \in 1 .. 8 /\ 1 + (4 + k) = 5 + k /\ 0 + k = k
        OBVIOUS
      <4>2. QED
        BY <2>2, <4>1
    <3>2. QED
      BY <3>1
  <2>4. Int32In(app, 2) = Int32In(g, 1)
    BY <2>3, SMT DEF Int32In
  <2>5. Int32In(app, 6) = Int32In(g, 5)
    BY <2>3, SMT DEF Int32In
  <2>6. 9 =< Len(app)
    BY <1>8, <1>11, <2>1
  <2>7. QED
    BY <1>2, <1>15, <2>4, <2>5, <2>6
<1>16. ASSUME adv.HasFeat1
       PROVE  Feat1At(app) + 1 =< Len(app) /\ Uint16In(app, Feat1At(app)) = adv.Feature1
  <2> DEFINE at == 1 + 8 * x
  <2>1. y = 1 /\ Len(f1) = 2 /\ at \in Nat /\ Len(fl) + Len(g) = at
    BY <1>1, <1>8, <1>14, <1>16
  <2>2. \A i \in 1 .. 2 : app[at + i] = f1[i]
    BY <1>9, <2>1 DEF IsLaidOut
  <2>3. Feat1At(app) = at + 1 /\ Feat1At(app) + 1 =< Len(app)
    BY <1>8, <1>11, <1>14, <2>1
  <2> HIDE DEF at
  <2>4. Uint16In(app, at + 1) = Uint16In(f1, 1)
    BY <2>1, <2>2, SameUint16
  <2>5. QED
    BY <1>3, <1>16, <2>3, <2>4
<1>17. ASSUME adv.HasFeat2
       PROVE  Feat2At(app) + 1 =< Len(app) /\ Uint16In(app, Feat2At(app)) = adv.Feature2
  <2> DEFINE at == 1 + 8 * x + 2 * y
  <2>1. z = 1 /\ Len(f2) = 2 /\ at \in Nat /\ Len(fl) + Len(g) + Len(f1) = at
    BY <1>1, <1>8, <1>14, <1>17
  <2>2. \A i \in 1 .. 2 : app[at + i] = f2[i]
    BY <1>9, <2>1 DEF IsLaidOut
  <2>3. Feat2At(app) = at + 1 /\ Feat2At(app) + 1 =< Len(app)
    BY <1>8, <1>11, <1>14, <2>1
  <2> HIDE DEF at
  <2>4. Uint16In(app, at + 1) = Uint16In(f2, 1)
    BY <2>1, <2>2, SameUint16
  <2>5. QED
    BY <1>4, <1>17, <2>3, <2>4
<1>18. SubSeq(app, NameAt(app), Len(app)) = adv.Name
  <2> DEFINE at == 1 + 8 * x + 2 * y + 2 * z
             size == Len(nm)
             t == SubSeq(app, at + 1, at + size)
  <2>1. at \in Nat /\ size \in Nat /\ Len(fl) + Len(g) + Len(f1) + Len(f2) = at
    BY <1>1, <1>8, <1>11, <1>14
  <2>2. \A i \in 1 .. size : app[at + i] = nm[i]
    BY <1>9, <2>1 DEF IsLaidOut
  <2>3. NameAt(app) = at + 1 /\ Len(app) = at + size
    BY <1>8, <1>11, <1>14
  <2> HIDE DEF at
  <2>4. nm \in Seq(S)
    BY <1>5 DEF S
  <2>5. t \in Seq(S) /\ Len(t) = size /\ \A i \in 1 .. size : t[i] = app[at + i]
    <3>1. at + size =< Len(app)
      BY <2>1, <2>3
    <3> HIDE DEF size
    <3>2. QED
      BY <1>9, <2>1, <3>1, Slice
  <2> HIDE DEF t
  <2>6. t = nm
    BY <2>2, <2>4, <2>5, SeqEqual
  <2>7. SubSeq(app, NameAt(app), Len(app)) = t
    BY <2>3 DEF t
  <2>8. QED
    BY <2>6, <2>7 DEF nm
<1>19. 1 =< Len(app)
  BY <1>8, <1>11
<1>20. QED
  BY <1>10, <1>12, <1>15, <1>16, <1>17, <1>18, <1>19

(* Whatever an advert holds, its appdata reads back as what the advert     *)
(* tells, and is refused exactly when the coordinates are not on earth     *)
(* (EncodeAdvertPayload, advert.go:62, and parseAdvertAppdata, :291).      *)
THEOREM ReadsAsTold ==
  ASSUME NEW adv \in Advert
  PROVE  /\ parseAdvertAppdata(Appdata(adv)) = Told(adv)
         /\ AppdataError(Appdata(adv)) = Nil <=> OnEarth(adv)
<1> DEFINE app == Appdata(adv)
<1>1. /\ app \in Seq(Byte) /\ 1 =< Len(app) /\ app[1] = Flags(adv)
      /\ adv.HasGPS => /\ 9 =< Len(app)
                       /\ Int32In(app, 2) = adv.Lat
                       /\ Int32In(app, 6) = adv.Lon
      /\ adv.HasFeat1 => /\ Feat1At(app) + 1 =< Len(app)
                         /\ Uint16In(app, Feat1At(app)) = adv.Feature1
      /\ adv.HasFeat2 => /\ Feat2At(app) + 1 =< Len(app)
                         /\ Uint16In(app, Feat2At(app)) = adv.Feature2
      /\ SubSeq(app, NameAt(app), Len(app)) = adv.Name
  BY AppdataIsRead
<1> HIDE DEF app
<1>2. /\ app[1] % 16 = adv.NodeType % 16
      /\ GPS(app) <=> adv.HasGPS
      /\ Feat1(app) <=> adv.HasFeat1
      /\ Feat2(app) <=> adv.HasFeat2
      /\ Named(app) <=> adv.Name # << >>
  BY <1>1, FlagsFacts DEF GPS, Feat1, Feat2, Named
<1>3. /\ adv.HasGPS \in BOOLEAN /\ adv.HasFeat1 \in BOOLEAN /\ adv.HasFeat2 \in BOOLEAN
      /\ GPS(app) \in BOOLEAN /\ Feat1(app) \in BOOLEAN /\ Feat2(app) \in BOOLEAN
  BY DEF Advert, GPS, Feat1, Feat2, HasBit
<1>4. app # << >>
  <2>1. Len(<< >>) = 0
    OBVIOUS
  <2>2. QED
    BY <1>1, <2>1
<1>5. /\ (IF app # << >> THEN app[1] % 16 ELSE 0) = adv.NodeType % 16
      /\ (app # << >> /\ GPS(app)) = adv.HasGPS
      /\ (app # << >> /\ Feat1(app)) = adv.HasFeat1
      /\ (app # << >> /\ Feat2(app)) = adv.HasFeat2
  BY <1>2, <1>3, <1>4
<1>6. /\ (IF app # << >> /\ GPS(app) THEN Int32In(app, 2) ELSE 0)
           = IF adv.HasGPS THEN adv.Lat ELSE 0
      /\ (IF app # << >> /\ GPS(app) THEN Int32In(app, 6) ELSE 0)
           = IF adv.HasGPS THEN adv.Lon ELSE 0
  BY <1>1, <1>2, <1>4
<1>7. /\ (IF app # << >> /\ Feat1(app) THEN Uint16In(app, Feat1At(app)) ELSE 0)
           = IF adv.HasFeat1 THEN adv.Feature1 ELSE 0
      /\ (IF app # << >> /\ Feat2(app) THEN Uint16In(app, Feat2At(app)) ELSE 0)
           = IF adv.HasFeat2 THEN adv.Feature2 ELSE 0
  BY <1>1, <1>2, <1>4
<1>8. (IF app # << >> /\ Named(app)
       THEN TrimSpace(UpToNul(SubSeq(app, NameAt(app), Len(app))))
       ELSE << >>) = TrimSpace(UpToNul(adv.Name))
  <2>1. CASE Named(app)
    BY <1>1, <1>4, <2>1
  <2>2. CASE ~Named(app)
    <3>1. adv.Name = << >>
      BY <1>2, <2>2
    <3>2. QED
      BY <2>2, <3>1, NoName
  <2>3. QED
    BY <2>1, <2>2
<1>9. parseAdvertAppdata(app) = Told(adv)
  <2> DEFINE some == app # << >>
             nd == IF some THEN app[1] % 16 ELSE 0
             gps == some /\ GPS(app)
             h1 == some /\ Feat1(app)
             h2 == some /\ Feat2(app)
             lat == IF gps THEN Int32In(app, 2) ELSE 0
             lon == IF gps THEN Int32In(app, 6) ELSE 0
             v1 == IF h1 THEN Uint16In(app, Feat1At(app)) ELSE 0
             v2 == IF h2 THEN Uint16In(app, Feat2At(app)) ELSE 0
             nm == IF some /\ Named(app)
                   THEN TrimSpace(UpToNul(SubSeq(app, NameAt(app), Len(app))))
                   ELSE << >>
  <2>1. parseAdvertAppdata(app) =
          [NodeType |-> nd, HasGPS |-> gps, Lat |-> lat, Lon |-> lon,
           HasFeat1 |-> h1, Feature1 |-> v1, HasFeat2 |-> h2, Feature2 |-> v2,
           Name |-> nm]
    BY Zenon DEF parseAdvertAppdata
  <2>2. /\ nd = adv.NodeType % 16 /\ gps = adv.HasGPS
        /\ h1 = adv.HasFeat1 /\ h2 = adv.HasFeat2
    BY <1>5
  <2>3. /\ lat = IF adv.HasGPS THEN adv.Lat ELSE 0
        /\ lon = IF adv.HasGPS THEN adv.Lon ELSE 0
    BY <1>6
  <2>4. /\ v1 = IF adv.HasFeat1 THEN adv.Feature1 ELSE 0
        /\ v2 = IF adv.HasFeat2 THEN adv.Feature2 ELSE 0
    BY <1>7
  <2>5. nm = TrimSpace(UpToNul(adv.Name))
    BY <1>8
  <2> HIDE DEF some, nd, gps, h1, h2, lat, lon, v1, v2, nm
  <2>6. QED
    BY <2>1, <2>2, <2>3, <2>4, <2>5, Zenon DEF Told
<1>10. AppdataError(app) = Nil <=> OnEarth(adv)
  <2>1. ~(adv.HasGPS /\ Len(app) < 9)
    <3>1. Len(app) \in Nat
      BY <1>1
    <3>2. QED
      BY <1>1, <3>1
  <2>2. /\ ~(Feat1(app) /\ Feat1At(app) + 1 > Len(app))
        /\ ~(Feat2(app) /\ Feat2At(app) + 1 > Len(app))
    <3>1. Len(app) \in Nat /\ Feat1At(app) \in Nat /\ Feat2At(app) \in Nat
      BY <1>1 DEF Feat1At, Feat2At, Bit
    <3>2. QED
      BY <1>1, <1>2, <3>1
  <2>3. AppdataError(app) =
          IF adv.HasGPS /\ adv.Lat \notin Latitude       THEN "ErrAdvertLatOutOfRange"
          ELSE IF adv.HasGPS /\ adv.Lon \notin Longitude THEN "ErrAdvertLonOutOfRange"
          ELSE Nil
    BY <1>1, <1>2, <1>4, <2>1, <2>2 DEF AppdataError
  <2>4. "ErrAdvertLatOutOfRange" # Nil /\ "ErrAdvertLonOutOfRange" # Nil
    BY DEF Nil
  <2>5. QED
    BY <2>3, <2>4 DEF OnEarth
<1>11. QED
  BY <1>9, <1>10 DEF app

-----------------------------------------------------------------------------
(* The sets that the operations stay in.                                   *)
LEMMA AppdataIsBytes ==
  ASSUME NEW adv \in Advert PROVE Appdata(adv) \in Seq(Byte)
BY AppdataIsRead

LEMMA EncodedIsPayload ==
  ASSUME NEW adv \in Advert, NEW at \in Nat
  PROVE  EncodeAdvertPayload(adv, at) \in Payload
<1>1. /\ adv.PublicKey \in Key /\ adv.Signature \in Signature
      /\ adv.Timestamp \in Nat \union {NoTime}
  BY DEF Advert
<1> DEFINE time == IF adv.Timestamp = NoTime THEN at ELSE adv.Timestamp
           M == TimestampModulus
<1>2. time \in Nat
  BY <1>1
<1>3. M \in Nat \ {0}
  BY TimestampAssumption
<1> HIDE DEF time, M
<1>4. time % M \in 0 .. M - 1
  BY <1>2, <1>3
<1>5. Appdata(adv) \in Seq(Byte)
  BY AppdataIsBytes
<1>6. QED
  BY <1>1, <1>4, <1>5 DEF EncodeAdvertPayload, Payload, time, M

LEMMA SignatureIsSignature ==
  ASSUME NEW p \in Payload
  PROVE  SignatureOf(p.pub, p) \in Signature
<1>1. p.pub \in Key /\ p.ts \in 0 .. TimestampModulus - 1 /\ p.app \in Seq(Byte)
  BY DEF Payload
<1>2. advertSignedMessage(p) \in Message
  BY <1>1 DEF advertSignedMessage, Message
<1>3. QED
  BY <1>1, <1>2 DEF SignatureOf, Signature

LEMMA SigningFacts ==
  ASSUME NEW adv \in Advert, NEW at \in Nat
  PROVE  LET p == EncodeAdvertPayload(adv, at)
             s == SignatureOf(adv.PublicKey, p)
         IN  /\ s \in Signature
             /\ SignAdvertPayload(p, adv.PublicKey) \in Payload
             /\ SignAdvertPayload(p, adv.PublicKey) = [p EXCEPT !.sig = s]
             /\ SignAdvert(adv.PublicKey, adv, at) \in Advert
             /\ SignAdvert(adv.PublicKey, adv, at) = [adv EXCEPT !.Signature = s]
<1> DEFINE p == EncodeAdvertPayload(adv, at)
           s == SignatureOf(adv.PublicKey, p)
<1>1. p \in Payload /\ p.pub = adv.PublicKey
  BY EncodedIsPayload DEF EncodeAdvertPayload
<1>2. s \in Signature
  BY <1>1, SignatureIsSignature
<1>3. SignAdvertPayload(p, adv.PublicKey) = [p EXCEPT !.sig = s]
  BY DEF SignAdvertPayload
<1> HIDE DEF p, s
<1>4. [p EXCEPT !.sig = s] \in Payload /\ [p EXCEPT !.sig = s].sig = s
  BY <1>1, <1>2 DEF Payload
<1>5. SignAdvert(adv.PublicKey, adv, at) = [adv EXCEPT !.Signature = s]
  BY <1>3, <1>4 DEF SignAdvert, p
<1>6. [adv EXCEPT !.Signature = s] \in Advert
  BY <1>2 DEF Advert
<1>7. QED
  BY <1>2, <1>3, <1>4, <1>5, <1>6 DEF p, s

LEMMA DecodedIsAdvert ==
  ASSUME NEW p \in Payload, DecodeAdvertError(p) = Nil
  PROVE  DecodedAdvert(p) \in Advert
<1> DEFINE app == p.app
           f == parseAdvertAppdata(app)
<1>1. /\ p.pub \in Key /\ p.ts \in 0 .. TimestampModulus - 1
      /\ p.sig \in Signature /\ app \in Seq(Byte)
  BY DEF Payload
<1>2. AppdataError(app) = Nil
  BY DEF DecodeAdvertError, Nil
<1>3. p.ts \in Nat \union {NoTime}
  BY <1>1, TimestampAssumption
<1> HIDE DEF app
<1>4. Len(app) \in Nat /\ 0 \in Byte /\ << >> \in Seq(Byte)
  BY <1>1 DEF Byte
<1>5. 0 \in Int32 /\ 0 \in Uint16
  BY SMT DEF Int32, Uint16
<1>6. /\ (app # << >> /\ GPS(app)) \in BOOLEAN
      /\ (app # << >> /\ Feat1(app)) \in BOOLEAN
      /\ (app # << >> /\ Feat2(app)) \in BOOLEAN
  OBVIOUS
<1>7. (IF app # << >> THEN app[1] % 16 ELSE 0) \in Byte
  <2>1. ASSUME app # << >> PROVE app[1] % 16 \in Byte
    <3>1. 1 \in 1 .. Len(app)
      BY <1>1, <2>1
    <3>2. app[1] \in Byte
      BY <1>1, <3>1
    <3>3. QED
      BY <3>2 DEF Byte
  <2>2. QED
    BY <1>4, <2>1
<1>8. ASSUME app # << >>, GPS(app)
      PROVE  Int32In(app, 2) \in Int32 /\ Int32In(app, 6) \in Int32
  <2>1. ~(Len(app) < 9)
    BY <1>2, <1>8 DEF AppdataError, Nil
  <2>2. 1 + 4 =< Len(app) /\ 5 + 4 =< Len(app) /\ 1 + 1 = 2 /\ 5 + 1 = 6
    BY <1>4, <2>1
  <2>3. Int32In(app, 1 + 1) \in Int32 /\ Int32In(app, 5 + 1) \in Int32
    BY <1>1, <2>2, NumbersIn
  <2>4. QED
    BY <2>2, <2>3
<1>9. Feat1At(app) \in Nat \ {0} /\ Feat2At(app) \in Nat \ {0}
  BY DEF Feat1At, Feat2At, Bit
<1>10. ASSUME app # << >>, Feat1(app)
       PROVE  Uint16In(app, Feat1At(app)) \in Uint16
  <2> DEFINE i == Feat1At(app) - 1
  <2>1. ~(Feat1At(app) + 1 > Len(app))
    BY <1>2, <1>10 DEF AppdataError, Nil
  <2>2. i \in Nat /\ i + 1 = Feat1At(app) /\ i + 2 =< Len(app)
    BY <1>4, <1>9, <2>1
  <2> HIDE DEF i
  <2>3. Uint16In(app, i + 1) \in Uint16
    BY <1>1, <2>2, NumbersIn
  <2>4. QED
    BY <2>2, <2>3
<1>11. ASSUME app # << >>, Feat2(app)
       PROVE  Uint16In(app, Feat2At(app)) \in Uint16
  <2> DEFINE i == Feat2At(app) - 1
  <2>1. ~(Feat2At(app) + 1 > Len(app))
    BY <1>2, <1>11 DEF AppdataError, Nil
  <2>2. i \in Nat /\ i + 1 = Feat2At(app) /\ i + 2 =< Len(app)
    BY <1>4, <1>9, <2>1
  <2> HIDE DEF i
  <2>3. Uint16In(app, i + 1) \in Uint16
    BY <1>1, <2>2, NumbersIn
  <2>4. QED
    BY <2>2, <2>3
<1>12. TrimSpace(UpToNul(SubSeq(app, NameAt(app), Len(app)))) \in Seq(Byte)
  <2> DEFINE rest == SubSeq(app, NameAt(app), Len(app))
  <2>1. NameAt(app) \in Nat \ {0}
    BY <1>9 DEF NameAt, Bit
  <2>2. rest \in Seq(Byte)
    <3>1. \A i \in NameAt(app) .. Len(app) : app[i] \in Byte
      BY <1>1, <1>4, <2>1
    <3>2. QED
      BY <1>4, <2>1, <3>1, SubSeqProperties
  <2> HIDE DEF rest
  <2>3. UpToNul(rest) \in Seq(Byte)
    BY <2>2, NameIsBytes
  <2>4. QED
    BY <2>3, NameIsBytes DEF rest
<1>13. /\ f.NodeType \in Byte
       /\ f.HasGPS \in BOOLEAN /\ f.HasFeat1 \in BOOLEAN /\ f.HasFeat2 \in BOOLEAN
  BY <1>6, <1>7 DEF parseAdvertAppdata
<1>14. f.Lat \in Int32 /\ f.Lon \in Int32
  BY <1>5, <1>8 DEF parseAdvertAppdata
<1>15. f.Feature1 \in Uint16 /\ f.Feature2 \in Uint16
  BY <1>5, <1>10, <1>11 DEF parseAdvertAppdata
<1>16. f.Name \in Seq(Byte)
  BY <1>4, <1>12 DEF parseAdvertAppdata
<1> HIDE DEF f
<1>17. DecodedAdvert(p) =
         [PublicKey |-> p.pub, Timestamp |-> p.ts, Signature |-> p.sig,
          NodeType |-> f.NodeType, HasGPS |-> f.HasGPS, Lat |-> f.Lat, Lon |-> f.Lon,
          HasFeat1 |-> f.HasFeat1, Feature1 |-> f.Feature1,
          HasFeat2 |-> f.HasFeat2, Feature2 |-> f.Feature2, Name |-> f.Name]
  BY DEF DecodedAdvert, f, app
<1>18. QED
  BY <1>1, <1>3, <1>13, <1>14, <1>15, <1>16, <1>17 DEF Advert

-----------------------------------------------------------------------------
(* What is kept and sent, told by the draft it comes from and the seconds  *)
(* in which it was signed and encoded.                                     *)
TimestampOf(d, at) == (IF d.Timestamp = NoTime THEN at ELSE d.Timestamp) % TimestampModulus

SignatureMade(d, at) ==
  [by |-> d.PublicKey, of |-> <<d.PublicKey, TimestampOf(d, at), Appdata(d)>>]

(* The signed adverts are the drafts with their signatures.                *)
HeldIsSigned ==
  \A h \in held :
    /\ h.advert = [h.draft EXCEPT !.Signature = SignatureMade(h.draft, h.madeAt)]
    /\ h.advert.Signature \in signed

(* A payload left with the timestamp of the second it was encoded in and   *)
(* the signature of the second it was signed in.                           *)
AirIsSent ==
  \A m \in air :
    m.sent = [pub |-> m.draft.PublicKey,
              ts  |-> TimestampOf(m.draft, m.sentAt),
              sig |-> IF m.madeAt = NoTime THEN Unsigned ELSE SignatureMade(m.draft, m.madeAt),
              app |-> Appdata(m.draft)]

(* The radio invents no signature.                                         *)
AirIsSigned == \A m \in air : m.payload.sig \in signed \union {Unsigned}

(* What an accepted advert carries when it came as it was sent.            *)
IntactIsTold ==
  \A a \in accepted : a.intact =>
    /\ a.advert.PublicKey = a.draft.PublicKey
    /\ Fields(a.advert) = Told(a.draft)
    /\ a.draft.Timestamp # NoTime =>
         a.advert.Timestamp = a.draft.Timestamp % TimestampModulus
    /\ a.advert.Timestamp \in 0 .. TimestampModulus - 1
    /\ a.advert.Signature # Unsigned =>
         a.advert.Signature =
           [by |-> a.advert.PublicKey,
            of |-> <<a.advert.PublicKey, a.advert.Timestamp, Appdata(a.draft)>>]

ExchangeInv ==
  /\ TypeOK
  /\ HeldIsSigned
  /\ AirIsSent
  /\ AirIsSigned
  /\ AcceptedWasSigned
  /\ IntactIsTold

LEMMA EncodedAs ==
  ASSUME NEW adv, NEW at
  PROVE  EncodeAdvertPayload(adv, at) =
           [pub |-> adv.PublicKey, ts |-> TimestampOf(adv, at),
            sig |-> adv.Signature, app |-> Appdata(adv)]
BY DEF EncodeAdvertPayload, TimestampOf

LEMMA SignedAs ==
  ASSUME NEW adv \in Advert, NEW at \in Nat
  PROVE  /\ SignatureOf(adv.PublicKey, EncodeAdvertPayload(adv, at)) = SignatureMade(adv, at)
         /\ SignatureMade(adv, at) \in Signature
<1>1. SignatureOf(adv.PublicKey, EncodeAdvertPayload(adv, at)) = SignatureMade(adv, at)
  BY EncodedAs DEF SignatureOf, advertSignedMessage, SignatureMade
<1>2. QED
  BY <1>1, SigningFacts

(* The signature is no part of the appdata.                                *)
LEMMA SameAppdata ==
  ASSUME NEW adv \in Advert, NEW s
  PROVE  LET x == [adv EXCEPT !.Signature = s]
         IN  /\ Appdata(x) = Appdata(adv)
             /\ x.PublicKey = adv.PublicKey /\ x.Timestamp = adv.Timestamp
             /\ x.Signature = s
<1> DEFINE x == [adv EXCEPT !.Signature = s]
<1>1. /\ x.PublicKey = adv.PublicKey /\ x.Timestamp = adv.Timestamp /\ x.Signature = s
      /\ x.NodeType = adv.NodeType /\ x.HasGPS = adv.HasGPS
      /\ x.Lat = adv.Lat /\ x.Lon = adv.Lon
      /\ x.HasFeat1 = adv.HasFeat1 /\ x.Feature1 = adv.Feature1
      /\ x.HasFeat2 = adv.HasFeat2 /\ x.Feature2 = adv.Feature2 /\ x.Name = adv.Name
  BY DEF Advert
<1> HIDE DEF x
<1>2. Flags(x) = Flags(adv)
  BY <1>1, Zenon DEF Flags
<1>3. Appdata(x) = Appdata(adv)
  BY <1>1, <1>2, Zenon DEF Appdata
<1>4. QED
  BY <1>1, <1>3 DEF x

LEMMA DamagedIsPayload ==
  ASSUME NEW p \in Payload, NEW q \in Damages(p)
  PROVE  q \in Payload /\ q.sig = p.sig
<1>1. /\ p.pub \in Key /\ p.ts \in 0 .. TimestampModulus - 1
      /\ p.sig \in Signature /\ p.app \in Seq(Byte)
      /\ p = [pub |-> p.pub, ts |-> p.ts, sig |-> p.sig, app |-> p.app]
  BY DEF Payload
<1>2. CASE q \in {[p EXCEPT !.app = SubSeq(@, 1, k)] : k \in 0 .. Len(p.app) - 1}
  <2>1. PICK k \in 0 .. Len(p.app) - 1 : q = [p EXCEPT !.app = SubSeq(p.app, 1, k)]
    BY <1>2
  <2>2. k \in 0 .. Len(p.app)
    BY <1>1
  <2>3. SubSeq(p.app, 1, k) \in Seq(Byte)
    BY <1>1, <2>2, BeginningFacts
  <2>4. QED
    BY <1>1, <2>1, <2>3 DEF Payload
<1>3. CASE q \in {[p EXCEPT !.app[i] = (@ + 16) % 256] : i \in DOMAIN p.app}
  <2>1. PICK i \in DOMAIN p.app :
          q = [p EXCEPT !.app = [p.app EXCEPT ![i] = (p.app[i] + 16) % 256]]
    BY <1>3
  <2>2. p.app[i] \in Byte
    BY <1>1
  <2>3. (p.app[i] + 16) % 256 \in Byte
    BY <2>2 DEF Byte
  <2>4. [p.app EXCEPT ![i] = (p.app[i] + 16) % 256] \in Seq(Byte)
    BY <1>1, <2>3
  <2>5. QED
    BY <1>1, <2>1, <2>4 DEF Payload
<1>4. CASE q \in {[p EXCEPT !.pub = key] : key \in Key \ {p.pub}}
  <2>1. PICK key \in Key : q = [p EXCEPT !.pub = key]
    BY <1>4
  <2>2. QED
    BY <1>1, <2>1 DEF Payload
<1>5. CASE q = [p EXCEPT !.ts = (@ + 1) % TimestampModulus]
  <2>1. q = [p EXCEPT !.ts = (p.ts + 1) % TimestampModulus]
    BY <1>5
  <2>2. (p.ts + 1) % TimestampModulus \in 0 .. TimestampModulus - 1
    <3> DEFINE M == TimestampModulus
    <3>1. M \in Nat \ {0} /\ p.ts + 1 \in Nat
      BY <1>1, TimestampAssumption
    <3> HIDE DEF M
    <3>2. (p.ts + 1) % M \in 0 .. M - 1
      BY <3>1
    <3>3. QED
      BY <3>2 DEF M
  <2>3. QED
    BY <1>1, <2>1, <2>2 DEF Payload
<1>6. QED
  BY <1>2, <1>3, <1>4, <1>5 DEF Damages

-----------------------------------------------------------------------------
HeldRecord == [advert : Advert, draft : Drafts, madeAt : 0 .. MaxNow]
AirRecord  ==
  [payload : Payload, sent : Payload, draft : Drafts,
   madeAt : {NoTime} \union 0 .. MaxNow, sentAt : 0 .. MaxNow]
AcceptedRecord == [advert : Advert, intact : BOOLEAN, draft : Drafts]

LEMMA TypeNamed ==
  TypeOK <=> /\ now \in 0 .. MaxNow
             /\ held \subseteq HeldRecord
             /\ air \subseteq AirRecord
             /\ signed \subseteq Signature
             /\ accepted \subseteq AcceptedRecord
             /\ garbled \in 0 .. MaxGarbled
BY DEF TypeOK, HeldRecord, AirRecord, AcceptedRecord

LEMMA DraftFacts ==
  ASSUME NEW d \in Drafts
  PROVE  d \in Advert /\ d.Signature = Unsigned
BY ExchangeAssumption

LEMMA OnAirFacts ==
  ASSUME NEW p \in Payload, NEW d \in Drafts, NEW at \in {NoTime} \union 0 .. MaxNow,
         now \in 0 .. MaxNow
  PROVE  OnAir(p, d, at) \in AirRecord
BY DEF OnAir, AirRecord

LEMMA Initially == Init => ExchangeInv
<1> SUFFICES ASSUME Init PROVE ExchangeInv
  OBVIOUS
<1>1. TypeOK
  BY ExchangeAssumption DEF Init, TypeOK
<1>2. HeldIsSigned /\ AirIsSent /\ AirIsSigned /\ AcceptedWasSigned /\ IntactIsTold
  BY DEF Init, HeldIsSigned, AirIsSent, AirIsSigned, AcceptedWasSigned, IntactIsTold
<1>3. QED
  BY <1>1, <1>2 DEF ExchangeInv

LEMMA TypeKept ==
  ASSUME TypeOK, [Next]_vars
  PROVE  TypeOK'
<1> DEFINE Types(n, h, a, s, c, g) ==
             /\ n \in 0 .. MaxNow /\ h \subseteq HeldRecord /\ a \subseteq AirRecord
             /\ s \subseteq Signature /\ c \subseteq AcceptedRecord /\ g \in 0 .. MaxGarbled
<1>1. Types(now, held, air, signed, accepted, garbled)
  BY TypeNamed
<1>2. SUFFICES Types(now', held', air', signed', accepted', garbled')
  BY DEF TypeOK, HeldRecord, AirRecord, AcceptedRecord
<1>3. MaxNow \in Nat /\ MaxGarbled \in Nat /\ now \in Nat
  BY <1>1, ExchangeAssumption
<1>4. CASE Tick
  BY <1>1, <1>3, <1>4 DEF Tick
<1>5. ASSUME NEW d \in Drafts, Sign(d)
      PROVE  Types(now', held', air', signed', accepted', garbled')
  <2> DEFINE a == SignAdvert(d.PublicKey, d, now)
  <2>1. a \in Advert /\ a.Signature \in Signature
    <3>1. a \in Advert
      BY <1>3, DraftFacts, SigningFacts
    <3>2. QED
      BY <3>1 DEF Advert
  <2>2. /\ held' = held \union {[advert |-> a, draft |-> d, madeAt |-> now]}
        /\ signed' = signed \union {a.Signature}
        /\ UNCHANGED <<now, air, accepted, garbled>>
    BY <1>5 DEF Sign
  <2> HIDE DEF a
  <2>3. [advert |-> a, draft |-> d, madeAt |-> now] \in HeldRecord
    BY <1>1, <2>1 DEF HeldRecord
  <2>4. QED
    BY <1>1, <2>1, <2>2, <2>3
<1>6. ASSUME NEW d \in Drafts, BroadcastSignedPayload(d)
      PROVE  Types(now', held', air', signed', accepted', garbled')
  <2> DEFINE p == SignAdvertPayload(EncodeAdvertPayload(d, now), d.PublicKey)
  <2>1. p \in Payload /\ p.sig \in Signature
    <3>1. p \in Payload
      BY <1>3, DraftFacts, SigningFacts
    <3>2. QED
      BY <3>1 DEF Payload
  <2>2. /\ air' = air \union {OnAir(p, d, now)}
        /\ signed' = signed \union {p.sig}
        /\ UNCHANGED <<now, held, accepted, garbled>>
    BY <1>6 DEF BroadcastSignedPayload, Send
  <2> HIDE DEF p
  <2>3. OnAir(p, d, now) \in AirRecord
    BY <1>1, <2>1, OnAirFacts
  <2>4. QED
    BY <1>1, <2>1, <2>2, <2>3
<1>7. ASSUME NEW d \in Drafts, BroadcastUnsigned(d)
      PROVE  Types(now', held', air', signed', accepted', garbled')
  <2> DEFINE p == EncodeAdvertPayload(d, now)
  <2>1. p \in Payload
    BY <1>3, DraftFacts, EncodedIsPayload
  <2>2. air' = air \union {OnAir(p, d, NoTime)} /\ UNCHANGED <<now, held, signed, accepted, garbled>>
    BY <1>7 DEF BroadcastUnsigned, Send
  <2> HIDE DEF p
  <2>3. OnAir(p, d, NoTime) \in AirRecord
    BY <1>1, <2>1, OnAirFacts
  <2>4. QED
    BY <1>1, <2>2, <2>3
<1>8. ASSUME NEW h \in held, Broadcast(h)
      PROVE  Types(now', held', air', signed', accepted', garbled')
  <2> DEFINE p == EncodeAdvertPayload(h.advert, now)
  <2>1. h.advert \in Advert /\ h.draft \in Drafts /\ h.madeAt \in 0 .. MaxNow
    BY <1>1 DEF HeldRecord
  <2>2. p \in Payload
    BY <1>3, <2>1, EncodedIsPayload
  <2>3. air' = air \union {OnAir(p, h.draft, h.madeAt)} /\ UNCHANGED <<now, held, signed, accepted, garbled>>
    BY <1>8 DEF Broadcast, Send
  <2> HIDE DEF p
  <2>4. OnAir(p, h.draft, h.madeAt) \in AirRecord
    BY <1>1, <2>1, <2>2, OnAirFacts
  <2>5. QED
    BY <1>1, <2>3, <2>4
<1>9. ASSUME NEW m \in air, Garble(m)
      PROVE  Types(now', held', air', signed', accepted', garbled')
  <2>1. PICK q \in Damages(m.payload) : air' = (air \ {m}) \union {[m EXCEPT !.payload = q]}
    BY <1>9 DEF Garble
  <2>2. garbled' \in 0 .. MaxGarbled /\ UNCHANGED <<now, held, signed, accepted>>
    BY <1>1, <1>3, <1>9 DEF Garble
  <2>3. q \in Payload
    BY <1>1, DamagedIsPayload DEF AirRecord
  <2>4. [m EXCEPT !.payload = q] \in AirRecord
    BY <1>1, <2>3 DEF AirRecord
  <2>5. QED
    BY <1>1, <2>1, <2>2, <2>4
<1>10. ASSUME NEW m \in air, Receive(m)
       PROVE  Types(now', held', air', signed', accepted', garbled')
  <2> DEFINE c == [advert |-> DecodedAdvert(m.payload),
                   intact |-> m.payload = m.sent, draft |-> m.draft]
  <2>1. m.payload \in Payload /\ m.draft \in Drafts
    BY <1>1 DEF AirRecord
  <2>2. DecodedAdvert(m.payload) \in Advert
    BY <1>10, <2>1, DecodedIsAdvert DEF Receive
  <2>3. c \in AcceptedRecord
    BY <2>1, <2>2 DEF AcceptedRecord
  <2>4. accepted' = accepted \union {c} /\ UNCHANGED <<now, held, air, signed, garbled>>
    BY <1>10 DEF Receive
  <2> HIDE DEF c
  <2>5. QED
    BY <1>1, <2>3, <2>4
<1>11. CASE UNCHANGED vars
  BY <1>1, <1>11 DEF vars
<1>12. QED
  BY <1>4, <1>5, <1>6, <1>7, <1>8, <1>9, <1>10, <1>11 DEF Next

-----------------------------------------------------------------------------
(* The records of held and air, one at a time.                             *)
KeptWell(h, made) ==
  /\ h.advert = [h.draft EXCEPT !.Signature = SignatureMade(h.draft, h.madeAt)]
  /\ h.advert.Signature \in made

SentWell(m) ==
  m.sent = [pub |-> m.draft.PublicKey,
            ts  |-> TimestampOf(m.draft, m.sentAt),
            sig |-> IF m.madeAt = NoTime THEN Unsigned ELSE SignatureMade(m.draft, m.madeAt),
            app |-> Appdata(m.draft)]

LEMMA OneByOne ==
  /\ HeldIsSigned <=> \A h \in held : KeptWell(h, signed)
  /\ AirIsSent <=> \A m \in air : SentWell(m)
BY DEF HeldIsSigned, AirIsSent, KeptWell, SentWell

LEMMA SentNow ==
  ASSUME NEW p, NEW d, NEW at,
         p = [pub |-> d.PublicKey, ts |-> TimestampOf(d, now),
              sig |-> IF at = NoTime THEN Unsigned ELSE SignatureMade(d, at),
              app |-> Appdata(d)]
  PROVE  SentWell(OnAir(p, d, at)) /\ OnAir(p, d, at).payload = p
<1> DEFINE m == OnAir(p, d, at)
<1>1. m.payload = p /\ m.sent = p /\ m.draft = d /\ m.madeAt = at /\ m.sentAt = now
  BY DEF OnAir
<1> HIDE DEF m
<1>2. SentWell(m) /\ m.payload = p
  BY <1>1, Zenon DEF SentWell
<1>3. QED
  BY <1>2 DEF m

LEMMA HistoryKept ==
  ASSUME ExchangeInv, [Next]_vars
  PROVE  HeldIsSigned' /\ AirIsSent' /\ AirIsSigned'
<1> DEFINE History(h, a, s) ==
             /\ \A x \in h : KeptWell(x, s)
             /\ \A m \in a : SentWell(m) /\ m.payload.sig \in s \union {Unsigned}
<1>1. History(held, air, signed)
  BY OneByOne DEF ExchangeInv, AirIsSigned
<1>2. SUFFICES History(held', air', signed')
  BY DEF HeldIsSigned, AirIsSent, AirIsSigned, KeptWell, SentWell
<1>3. now \in Nat /\ TypeOK
  BY ExchangeAssumption DEF ExchangeInv, TypeOK
<1>4. CASE Tick
  BY <1>1, <1>4 DEF Tick
<1>5. ASSUME NEW d \in Drafts, Sign(d) PROVE History(held', air', signed')
  <2> DEFINE a == SignAdvert(d.PublicKey, d, now)
             h == [advert |-> a, draft |-> d, madeAt |-> now]
             s == SignatureMade(d, now)
  <2>1. d \in Advert
    BY DraftFacts
  <2>2. a = [d EXCEPT !.Signature = s]
    BY <1>3, <2>1, SigningFacts, SignedAs
  <2>3. /\ held' = held \union {h}
        /\ signed' = signed \union {a.Signature}
        /\ air' = air
    BY <1>5 DEF Sign
  <2>4. h.advert = a /\ h.draft = d /\ h.madeAt = now
    OBVIOUS
  <2> HIDE DEF a, h
  <2>5. KeptWell(h, signed')
    BY <2>2, <2>3, <2>4 DEF KeptWell
  <2>6. \A x \in held : KeptWell(x, signed')
    BY <1>1, <2>3 DEF KeptWell
  <2>7. QED
    BY <1>1, <2>3, <2>5, <2>6
<1>6. ASSUME NEW d \in Drafts, BroadcastSignedPayload(d) PROVE History(held', air', signed')
  <2> DEFINE e == EncodeAdvertPayload(d, now)
             p == SignAdvertPayload(e, d.PublicKey)
             m == OnAir(p, d, now)
             s == SignatureMade(d, now)
  <2>1. d \in Advert
    BY DraftFacts
  <2>2. p = [e EXCEPT !.sig = s]
    BY <1>3, <2>1, SigningFacts, SignedAs
  <2>3. e = [pub |-> d.PublicKey, ts |-> TimestampOf(d, now),
             sig |-> d.Signature, app |-> Appdata(d)]
    BY EncodedAs
  <2>4. /\ air' = air \union {m}
        /\ signed' = signed \union {p.sig}
        /\ held' = held
    BY <1>6 DEF BroadcastSignedPayload, Send
  <2> HIDE DEF e, p, s
  <2>5. p = [pub |-> d.PublicKey, ts |-> TimestampOf(d, now), sig |-> s, app |-> Appdata(d)]
    BY <2>2, <2>3
  <2>6. s = IF now = NoTime THEN Unsigned ELSE SignatureMade(d, now)
    BY <1>3 DEF s, NoTime
  <2>7. SentWell(m) /\ m.payload = p
    BY <2>5, <2>6, SentNow
  <2> HIDE DEF m
  <2>8. \A x \in held : KeptWell(x, signed')
    BY <1>1, <2>4 DEF KeptWell
  <2>9. QED
    BY <1>1, <2>4, <2>7, <2>8
<1>7. ASSUME NEW d \in Drafts, BroadcastUnsigned(d) PROVE History(held', air', signed')
  <2> DEFINE p == EncodeAdvertPayload(d, now)
             m == OnAir(p, d, NoTime)
  <2>1. air' = air \union {m} /\ held' = held /\ signed' = signed
    BY <1>7 DEF BroadcastUnsigned, Send
  <2>2. p = [pub |-> d.PublicKey, ts |-> TimestampOf(d, now),
             sig |-> Unsigned, app |-> Appdata(d)]
    BY EncodedAs, DraftFacts
  <2>3. p.sig = Unsigned
    BY <2>2
  <2> HIDE DEF p
  <2>4. SentWell(m) /\ m.payload = p
    BY <2>2, SentNow
  <2> HIDE DEF m
  <2>5. QED
    BY <1>1, <2>1, <2>3, <2>4
<1>8. ASSUME NEW h \in held, Broadcast(h) PROVE History(held', air', signed')
  <2> DEFINE p == EncodeAdvertPayload(h.advert, now)
             m == OnAir(p, h.draft, h.madeAt)
             d == h.draft
             s == SignatureMade(d, h.madeAt)
  <2>1. air' = air \union {m} /\ held' = held /\ signed' = signed
    BY <1>8 DEF Broadcast, Send
  <2>2. d \in Advert /\ h.madeAt # NoTime
    BY <1>3, DraftFacts DEF TypeOK, NoTime
  <2>3. h.advert = [d EXCEPT !.Signature = s] /\ h.advert.Signature \in signed
    BY <1>1 DEF KeptWell
  <2>4. /\ Appdata(h.advert) = Appdata(d)
        /\ h.advert.PublicKey = d.PublicKey
        /\ TimestampOf(h.advert, now) = TimestampOf(d, now)
        /\ h.advert.Signature = s
    BY <2>2, <2>3, SameAppdata DEF TimestampOf
  <2>5. p = [pub |-> d.PublicKey, ts |-> TimestampOf(d, now), sig |-> s, app |-> Appdata(d)]
    BY <2>4, EncodedAs
  <2>6. s = IF h.madeAt = NoTime THEN Unsigned ELSE SignatureMade(d, h.madeAt)
    BY <2>2
  <2>7. p.sig \in signed
    BY <2>3, <2>4, <2>5
  <2> HIDE DEF p, s
  <2>8. SentWell(m) /\ m.payload = p
    BY <2>5, <2>6, SentNow
  <2> HIDE DEF m
  <2>9. QED
    BY <1>1, <2>1, <2>7, <2>8
<1>9. ASSUME NEW m \in air, Garble(m) PROVE History(held', air', signed')
  <2>1. PICK q \in Damages(m.payload) : air' = (air \ {m}) \union {[m EXCEPT !.payload = q]}
    BY <1>9 DEF Garble
  <2>2. held' = held /\ signed' = signed
    BY <1>9 DEF Garble
  <2>3. q.sig = m.payload.sig
    BY <1>3, DamagedIsPayload DEF TypeOK
  <2> DEFINE x == [m EXCEPT !.payload = q]
  <2>4. /\ x.payload = q /\ x.sent = m.sent /\ x.draft = m.draft
        /\ x.madeAt = m.madeAt /\ x.sentAt = m.sentAt
    BY <1>3 DEF TypeOK
  <2> HIDE DEF x
  <2>5. SentWell(x)
    BY <1>1, <2>4 DEF SentWell
  <2>6. QED
    BY <1>1, <2>1, <2>2, <2>3, <2>4, <2>5 DEF x
<1>10. ASSUME NEW m \in air, Receive(m) PROVE History(held', air', signed')
  BY <1>1, <1>10 DEF Receive
<1>11. CASE UNCHANGED vars
  BY <1>1, <1>11 DEF vars
<1>12. QED
  BY <1>4, <1>5, <1>6, <1>7, <1>8, <1>9, <1>10, <1>11 DEF Next

-----------------------------------------------------------------------------
(* What DecodeAdvertPayload returns is the payload's fields and what its   *)
(* appdata says.                                                           *)
LEMMA DecodedFields ==
  ASSUME NEW p
  PROVE  /\ DecodedAdvert(p).PublicKey = p.pub
         /\ DecodedAdvert(p).Timestamp = p.ts
         /\ DecodedAdvert(p).Signature = p.sig
         /\ Fields(DecodedAdvert(p)) = parseAdvertAppdata(p.app)
<1> DEFINE f == parseAdvertAppdata(p.app)
           a == DecodedAdvert(p)
<1>1. a = [PublicKey |-> p.pub, Timestamp |-> p.ts, Signature |-> p.sig,
           NodeType |-> f.NodeType, HasGPS |-> f.HasGPS, Lat |-> f.Lat, Lon |-> f.Lon,
           HasFeat1 |-> f.HasFeat1, Feature1 |-> f.Feature1,
           HasFeat2 |-> f.HasFeat2, Feature2 |-> f.Feature2, Name |-> f.Name]
  BY DEF DecodedAdvert
<1>2. f = [NodeType |-> f.NodeType, HasGPS |-> f.HasGPS, Lat |-> f.Lat, Lon |-> f.Lon,
           HasFeat1 |-> f.HasFeat1, Feature1 |-> f.Feature1,
           HasFeat2 |-> f.HasFeat2, Feature2 |-> f.Feature2, Name |-> f.Name]
  <2> DEFINE app == p.app
             some == app # << >>
             n  == IF some THEN app[1] % 16 ELSE 0
             g  == some /\ GPS(app)
             h1 == some /\ Feat1(app)
             h2 == some /\ Feat2(app)
             x  == IF g THEN Int32In(app, 2) ELSE 0
             y  == IF g THEN Int32In(app, 6) ELSE 0
             v1 == IF h1 THEN Uint16In(app, Feat1At(app)) ELSE 0
             v2 == IF h2 THEN Uint16In(app, Feat2At(app)) ELSE 0
             nm == IF some /\ Named(app)
                   THEN TrimSpace(UpToNul(SubSeq(app, NameAt(app), Len(app))))
                   ELSE << >>
  <2>1. f = [NodeType |-> n, HasGPS |-> g, Lat |-> x, Lon |-> y,
             HasFeat1 |-> h1, Feature1 |-> v1, HasFeat2 |-> h2, Feature2 |-> v2,
             Name |-> nm]
    BY Zenon DEF parseAdvertAppdata
  <2> HIDE DEF app, some, n, g, h1, h2, x, y, v1, v2, nm
  <2> HIDE DEF f
  <2>2. /\ f.NodeType = n /\ f.HasGPS = g /\ f.Lat = x /\ f.Lon = y
        /\ f.HasFeat1 = h1 /\ f.Feature1 = v1 /\ f.HasFeat2 = h2 /\ f.Feature2 = v2
        /\ f.Name = nm
    BY <2>1
  <2>3. QED
    BY <2>1, <2>2, Zenon
<1> HIDE DEF f, a
<1>3. /\ a.PublicKey = p.pub /\ a.Timestamp = p.ts /\ a.Signature = p.sig
  BY <1>1
<1>4. /\ a.NodeType = f.NodeType /\ a.HasGPS = f.HasGPS /\ a.Lat = f.Lat /\ a.Lon = f.Lon
      /\ a.HasFeat1 = f.HasFeat1 /\ a.Feature1 = f.Feature1
      /\ a.HasFeat2 = f.HasFeat2 /\ a.Feature2 = f.Feature2 /\ a.Name = f.Name
  BY <1>1
<1>5. Fields(a) = f
  BY <1>2, <1>4, Zenon DEF Fields
<1>6. QED
  BY <1>3, <1>5 DEF f, a

(* A signature that verifies is of the payload's own key and bytes.        *)
LEMMA ValidSignature ==
  ASSUME NEW p, VerifyAdvertSignature(p), p.sig # Unsigned
  PROVE  p.sig = [by |-> p.pub, of |-> <<p.pub, p.ts, p.app>>]
BY DEF VerifyAdvertSignature, SignatureOf, advertSignedMessage

LEMMA SentTellsDraft ==
  ASSUME NEW m, m.draft \in Drafts, m.sent.ts \in 0 .. TimestampModulus - 1,
         SentWell(m), m.payload = m.sent, VerifyAdvertSignature(m.payload),
         NEW a, a = DecodedAdvert(m.payload)
  PROVE  /\ a.PublicKey = m.draft.PublicKey
         /\ Fields(a) = Told(m.draft)
         /\ m.draft.Timestamp # NoTime =>
              a.Timestamp = m.draft.Timestamp % TimestampModulus
         /\ a.Timestamp \in 0 .. TimestampModulus - 1
         /\ a.Signature # Unsigned =>
              a.Signature = [by |-> a.PublicKey,
                             of |-> <<a.PublicKey, a.Timestamp, Appdata(m.draft)>>]
<1> DEFINE d == m.draft
           p == m.payload
<1>1. d \in Advert
  BY DraftFacts
<1>2. p.pub = d.PublicKey /\ p.ts = TimestampOf(d, m.sentAt) /\ p.app = Appdata(d)
  BY DEF SentWell
<1>3. /\ a.PublicKey = p.pub /\ a.Timestamp = p.ts /\ a.Signature = p.sig
      /\ Fields(a) = parseAdvertAppdata(p.app)
  BY DecodedFields
<1> HIDE DEF p
<1>4. Fields(a) = Told(d)
  BY <1>1, <1>2, <1>3, ReadsAsTold
<1>5. ASSUME d.Timestamp # NoTime PROVE a.Timestamp = d.Timestamp % TimestampModulus
  BY <1>2, <1>3, <1>5 DEF TimestampOf
<1>6. ASSUME a.Signature # Unsigned
      PROVE  a.Signature = [by |-> a.PublicKey, of |-> <<a.PublicKey, a.Timestamp, Appdata(d)>>]
  <2>1. p.sig = [by |-> p.pub, of |-> <<p.pub, p.ts, p.app>>]
    BY <1>3, <1>6, ValidSignature DEF p
  <2>2. QED
    BY <1>2, <1>3, <2>1, Zenon
<1>7. a.Timestamp \in 0 .. TimestampModulus - 1
  BY <1>3 DEF p
<1>8. QED
  BY <1>2, <1>3, <1>4, <1>5, <1>6, <1>7

SignedWell(a, made) ==
  a.advert.Signature # Unsigned =>
    \E s \in made :
      /\ s.by = a.advert.PublicKey
      /\ s.of[1] = a.advert.PublicKey
      /\ s.of[2] = a.advert.Timestamp
      /\ parseAdvertAppdata(s.of[3]) = Fields(a.advert)

ToldWell(a) ==
  a.intact =>
    /\ a.advert.PublicKey = a.draft.PublicKey
    /\ Fields(a.advert) = Told(a.draft)
    /\ a.draft.Timestamp # NoTime =>
         a.advert.Timestamp = a.draft.Timestamp % TimestampModulus
    /\ a.advert.Timestamp \in 0 .. TimestampModulus - 1
    /\ a.advert.Signature # Unsigned =>
         a.advert.Signature =
           [by |-> a.advert.PublicKey,
            of |-> <<a.advert.PublicKey, a.advert.Timestamp, Appdata(a.draft)>>]

LEMMA AcceptedKept ==
  ASSUME ExchangeInv, [Next]_vars
  PROVE  AcceptedWasSigned' /\ IntactIsTold'
<1> DEFINE Result(c, s) == \A a \in c : SignedWell(a, s) /\ ToldWell(a)
<1>1. Result(accepted, signed)
  BY DEF ExchangeInv, AcceptedWasSigned, IntactIsTold, SignedWell, ToldWell
<1>2. SUFFICES Result(accepted', signed')
  BY DEF AcceptedWasSigned, IntactIsTold, SignedWell, ToldWell
<1>3. ASSUME accepted' = accepted, signed \subseteq signed' PROVE Result(accepted', signed')
  <2>1. \A a \in accepted : SignedWell(a, signed')
    BY <1>1, <1>3 DEF SignedWell
  <2>2. QED
    BY <1>1, <1>3, <2>1
<1>4. ASSUME NEW m \in air, Receive(m) PROVE Result(accepted', signed')
  <2> DEFINE p == m.payload
             a == DecodedAdvert(p)
             c == [advert |-> a, intact |-> m.payload = m.sent, draft |-> m.draft]
  <2>1. accepted' = accepted \union {c} /\ signed' = signed
    BY <1>4 DEF Receive
  <2>2. VerifyAdvertSignature(p)
    BY <1>4 DEF Receive, DecodeAdvertError, Nil
  <2>3. /\ p.sig \in signed \union {Unsigned} /\ SentWell(m)
        /\ m.sent \in Payload /\ m.draft \in Drafts
    BY OneByOne DEF ExchangeInv, AirIsSigned, TypeOK
  <2>4. c.advert = a /\ c.draft = m.draft /\ (c.intact <=> m.payload = m.sent)
    OBVIOUS
  <2>5. /\ a.PublicKey = p.pub /\ a.Timestamp = p.ts /\ a.Signature = p.sig
        /\ Fields(a) = parseAdvertAppdata(p.app)
    BY DecodedFields
  <2>6. SignedWell(c, signed)
    <3>1. ASSUME a.Signature # Unsigned
          PROVE  \E s \in signed :
                   /\ s.by = a.PublicKey /\ s.of[1] = a.PublicKey
                   /\ s.of[2] = a.Timestamp /\ parseAdvertAppdata(s.of[3]) = Fields(a)
      <4>1. p.sig \in signed
        BY <2>3, <2>5, <3>1
      <4>2. p.sig = [by |-> p.pub, of |-> <<p.pub, p.ts, p.app>>]
        BY <2>2, <2>5, <3>1, ValidSignature
      <4> HIDE DEF a, p
      <4>3. /\ p.sig.by = p.pub /\ p.sig.of[1] = p.pub
            /\ p.sig.of[2] = p.ts /\ p.sig.of[3] = p.app
        BY <4>2
      <4>4. QED
        BY <2>5, <4>1, <4>3
    <3> HIDE DEF a, c
    <3>2. QED
      BY <2>4, <3>1, Zenon DEF SignedWell
  <2>7. ToldWell(c)
    <3>1. ASSUME m.payload = m.sent
          PROVE  /\ a.PublicKey = m.draft.PublicKey
                 /\ Fields(a) = Told(m.draft)
                 /\ m.draft.Timestamp # NoTime =>
                      a.Timestamp = m.draft.Timestamp % TimestampModulus
                 /\ a.Timestamp \in 0 .. TimestampModulus - 1
                 /\ a.Signature # Unsigned =>
                      a.Signature = [by |-> a.PublicKey,
                                     of |-> <<a.PublicKey, a.Timestamp, Appdata(m.draft)>>]
      <4>1. m.sent.ts \in 0 .. TimestampModulus - 1
        BY <2>3 DEF Payload
      <4>2. VerifyAdvertSignature(m.payload)
        BY <2>2
      <4>3. QED
        BY <2>3, <3>1, <4>1, <4>2, SentTellsDraft
    <3> HIDE DEF a, c
    <3>2. QED
      BY <2>4, <3>1, Zenon DEF ToldWell
  <2> HIDE DEF c
  <2>8. QED
    BY <1>1, <2>1, <2>6, <2>7
<1>5. ASSUME NEW d \in Drafts, Sign(d) \/ BroadcastSignedPayload(d) \/ BroadcastUnsigned(d)
      PROVE  accepted' = accepted /\ signed \subseteq signed'
  BY <1>5 DEF Sign, BroadcastSignedPayload, BroadcastUnsigned
<1>6. ASSUME NEW h \in held, Broadcast(h)
      PROVE  accepted' = accepted /\ signed \subseteq signed'
  BY <1>6 DEF Broadcast
<1>7. ASSUME NEW m \in air, Garble(m)
      PROVE  accepted' = accepted /\ signed \subseteq signed'
  BY <1>7 DEF Garble
<1>8. ASSUME Tick \/ UNCHANGED vars
      PROVE  accepted' = accepted /\ signed \subseteq signed'
  BY <1>8 DEF Tick, vars
<1>9. QED
  BY <1>3, <1>4, <1>5, <1>6, <1>7, <1>8 DEF Next

-----------------------------------------------------------------------------
(* In every state, the records say where they come from.                   *)
LEMMA ExchangeInvariant == Spec => []ExchangeInv
<1>1. Init => ExchangeInv
  BY Initially
<1>2. ExchangeInv /\ [Next]_vars => ExchangeInv'
  <2> SUFFICES ASSUME ExchangeInv, [Next]_vars PROVE ExchangeInv'
    OBVIOUS
  <2>1. TypeOK'
    BY TypeKept DEF ExchangeInv
  <2>2. QED
    BY <2>1, HistoryKept, AcceptedKept DEF ExchangeInv
<1>3. QED
  BY <1>1, <1>2, PTL DEF Spec

(* Every advert returned, kept or sent is one of the struct's values       *)
(* (Advert, advert.go:24).                                                 *)
THEOREM AdvertsAreAdverts == Spec => []TypeOK
<1>1. ExchangeInv => TypeOK
  BY DEF ExchangeInv
<1>2. QED
  BY <1>1, ExchangeInvariant, PTL

(* What DecodeAdvertPayload returns with a signature, some holder of the   *)
(* key has signed, field by field, whatever the radio did                  *)
(* (advertSignedMessage, advert.go:132).                                   *)
THEOREM OnlySignedIsAccepted == Spec => []AcceptedWasSigned
<1>1. ExchangeInv => AcceptedWasSigned
  BY DEF ExchangeInv
<1>2. QED
  BY <1>1, ExchangeInvariant, PTL

(* What arrives intact says what the application filled in                 *)
(* (EncodeAdvertPayload, advert.go:62, and parseAdvertAppdata, :291).      *)
THEOREM SaysWhatWasDrafted == Spec => []AcceptedSaysWhatWasDrafted
<1>1. ExchangeInv => AcceptedSaysWhatWasDrafted
  BY DEF ExchangeInv, IntactIsTold, AcceptedSaysWhatWasDrafted
<1>2. QED
  BY <1>1, ExchangeInvariant, PTL

(* The remainders of a clock reading and of a timestamp of one's own.      *)
LEMMA TimestampsAgree ==
  ASSUME NEW d, NEW x, NEW y
  PROVE  TimestampOf(d, x) = TimestampOf(d, y) <=>
           ~(d.Timestamp = NoTime /\ y % TimestampModulus # x % TimestampModulus)
<1>1. CASE d.Timestamp = NoTime
  BY <1>1 DEF TimestampOf
<1>2. CASE d.Timestamp # NoTime
  BY <1>2 DEF TimestampOf
<1>3. QED
  BY <1>1, <1>2

LEMMA SignatureMadeFacts ==
  ASSUME NEW d, NEW x, NEW y
  PROVE  /\ SignatureMade(d, x) # Unsigned
         /\ SignatureMade(d, x) =
              [by |-> d.PublicKey, of |-> <<d.PublicKey, TimestampOf(d, y), Appdata(d)>>]
            <=> TimestampOf(d, x) = TimestampOf(d, y)
<1>1. SignatureMade(d, x) # Unsigned
  <2>1. SignatureMade(d, x).of = <<d.PublicKey, TimestampOf(d, x), Appdata(d)>>
    BY DEF SignatureMade
  <2>2. Unsigned.of = << >>
    BY DEF Unsigned
  <2>3. <<d.PublicKey, TimestampOf(d, x), Appdata(d)>> # << >>
    OBVIOUS
  <2>4. QED
    BY <2>1, <2>2, <2>3
<1>2. ASSUME SignatureMade(d, x) =
               [by |-> d.PublicKey, of |-> <<d.PublicKey, TimestampOf(d, y), Appdata(d)>>]
      PROVE  TimestampOf(d, x) = TimestampOf(d, y)
  <2> DEFINE t == TimestampOf(d, x)
             u == TimestampOf(d, y)
             k == d.PublicKey
             app == Appdata(d)
  <2>1. [by |-> k, of |-> <<k, t, app>>] = [by |-> k, of |-> <<k, u, app>>]
    BY <1>2 DEF SignatureMade
  <2> HIDE DEF t, u, k, app
  <2>2. t = u
    BY <2>1
  <2>3. QED
    BY <2>2 DEF t, u
<1>3. QED
  BY <1>1, <1>2, Zenon DEF SignatureMade

(* An advert that arrives as it was sent is refused when its coordinates   *)
(* are not on earth or when the clock has ticked between SignAdvert and    *)
(* EncodeAdvertPayload, and never otherwise (DecodeAdvertPayload,          *)
(* advert.go:260).                                                         *)
THEOREM IntactIsDecoded == Spec => []IntactIsAccepted
<1>1. ASSUME ExchangeInv, NEW m \in air, Intact(m)
      PROVE  DecodeAdvertError(m.payload) = Nil <=> OnEarth(m.draft) /\ ~Outdated(m)
  <2> DEFINE d == m.draft
             p == m.payload
             t == TimestampOf(d, m.sentAt)
  <2>1. SentWell(m) /\ d \in Drafts /\ m.sentAt \in Nat
    BY <1>1, OneByOne DEF ExchangeInv, TypeOK
  <2>2. d \in Advert
    BY <2>1, DraftFacts
  <2>3. /\ p.pub = d.PublicKey /\ p.ts = t /\ p.app = Appdata(d)
        /\ p.sig = IF m.madeAt = NoTime THEN Unsigned ELSE SignatureMade(d, m.madeAt)
    BY <1>1, <2>1 DEF SentWell, Intact
  <2> HIDE DEF p
  <2>4. AppdataError(p.app) = Nil <=> OnEarth(d)
    BY <2>2, <2>3, ReadsAsTold
  <2>5. VerifyAdvertSignature(p) <=> ~Outdated(m)
    <3>1. VerifyAdvertSignature(p) <=>
            \/ p.sig = Unsigned
            \/ p.sig = [by |-> d.PublicKey, of |-> <<d.PublicKey, t, Appdata(d)>>]
      BY <2>3, Zenon DEF VerifyAdvertSignature, SignatureOf, advertSignedMessage
    <3>2. CASE m.madeAt = NoTime
      BY <2>3, <3>1, <3>2 DEF Outdated
    <3>3. CASE m.madeAt # NoTime
      <4>1. p.sig = SignatureMade(d, m.madeAt)
        BY <2>3, <3>3
      <4>2. VerifyAdvertSignature(p) <=> TimestampOf(d, m.madeAt) = t
        BY <3>1, <4>1, SignatureMadeFacts
      <4>3. QED
        BY <3>3, <4>2, TimestampsAgree DEF Outdated
    <3>4. QED
      BY <3>2, <3>3
  <2>6. DecodeAdvertError(p) = Nil <=> VerifyAdvertSignature(p) /\ AppdataError(p.app) = Nil
    BY DEF DecodeAdvertError, Nil
  <2>7. QED
    BY <2>4, <2>5, <2>6 DEF p
<1>2. ExchangeInv => IntactIsAccepted
  BY <1>1 DEF IntactIsAccepted
<1>3. QED
  BY <1>2, ExchangeInvariant, PTL

(* Encoding a decoded advert again gives the appdata of the draft, as long *)
(* as the name lost nothing.                                               *)
LEMMA EncodedAgain ==
  ASSUME NEW d \in Advert, NEW a \in Advert, Fields(a) = Told(d), a.Name = d.Name
  PROVE  Appdata(a) = Appdata(d)
<1>1. /\ a.NodeType = d.NodeType % 16
      /\ a.HasGPS = d.HasGPS /\ a.HasFeat1 = d.HasFeat1 /\ a.HasFeat2 = d.HasFeat2
  <2>1. /\ Fields(a).NodeType = a.NodeType /\ Fields(a).HasGPS = a.HasGPS
        /\ Fields(a).HasFeat1 = a.HasFeat1 /\ Fields(a).HasFeat2 = a.HasFeat2
    BY DEF Fields
  <2>2. /\ Told(d).NodeType = d.NodeType % 16 /\ Told(d).HasGPS = d.HasGPS
        /\ Told(d).HasFeat1 = d.HasFeat1 /\ Told(d).HasFeat2 = d.HasFeat2
    BY DEF Told
  <2>3. QED
    BY <2>1, <2>2, Zenon
<1>2. /\ d.HasGPS => a.Lat = d.Lat /\ a.Lon = d.Lon
      /\ d.HasFeat1 => a.Feature1 = d.Feature1
      /\ d.HasFeat2 => a.Feature2 = d.Feature2
  <2>1. /\ Fields(a).Lat = a.Lat /\ Fields(a).Lon = a.Lon
        /\ Fields(a).Feature1 = a.Feature1 /\ Fields(a).Feature2 = a.Feature2
    BY DEF Fields
  <2>2. /\ d.HasGPS => Told(d).Lat = d.Lat /\ Told(d).Lon = d.Lon
        /\ d.HasFeat1 => Told(d).Feature1 = d.Feature1
        /\ d.HasFeat2 => Told(d).Feature2 = d.Feature2
    BY DEF Told
  <2>3. QED
    BY <2>1, <2>2, Zenon
<1>3. a.NodeType % 16 = d.NodeType % 16
  <2>1. d.NodeType \in Byte
    BY DEF Advert
  <2>2. d.NodeType \in Int
    BY <2>1 DEF Byte
  <2>3. QED
    BY <1>1, <2>2
<1>4. Flags(a) = Flags(d)
  BY <1>1, <1>3, Zenon DEF Flags
<1>5. /\ GPSPart(a) = GPSPart(d)
      /\ Feature1Part(a) = Feature1Part(d)
      /\ Feature2Part(a) = Feature2Part(d)
  BY <1>1, <1>2, Zenon DEF GPSPart, Feature1Part, Feature2Part
<1>6. \A x \in Advert : Appdata(x) = <<Flags(x)>> \o GPSPart(x) \o Feature1Part(x)
                                     \o Feature2Part(x) \o x.Name
  BY Zenon DEF Appdata, GPSPart, Feature1Part, Feature2Part
<1>7. QED
  BY <1>4, <1>5, <1>6, Zenon

(* VerifyAdvert confirms at any later time what DecodeAdvertPayload has    *)
(* accepted, as long as the name did not lose anything (VerifyAdvert,      *)
(* advert.go:234).                                                         *)
THEOREM VerifyAgrees == Spec => []VerifyConfirms
<1>1. ASSUME ExchangeInv, NEW c \in accepted, c.intact, c.advert.Name = c.draft.Name
      PROVE  VerifyAdvert(c.advert, now) = Nil
  <2> DEFINE a == c.advert
             d == c.draft
             p == EncodeAdvertPayload(a, now)
  <2>1. a \in Advert /\ d \in Advert
    BY <1>1, DraftFacts DEF ExchangeInv, TypeOK
  <2>2. /\ Fields(a) = Told(d)
        /\ a.Timestamp \in 0 .. TimestampModulus - 1
        /\ a.Signature # Unsigned =>
             a.Signature = [by |-> a.PublicKey, of |-> <<a.PublicKey, a.Timestamp, Appdata(d)>>]
    BY <1>1 DEF ExchangeInv, IntactIsTold
  <2>3. Appdata(a) = Appdata(d)
    BY <1>1, <2>1, <2>2, EncodedAgain
  <2>4. TimestampOf(a, now) = a.Timestamp
    <3> DEFINE M == TimestampModulus
               t == a.Timestamp
    <3>1. M \in Nat \ {0} /\ t \in 0 .. M - 1
      BY <2>2, TimestampAssumption
    <3>2. TimestampOf(a, now) = (IF t = NoTime THEN now ELSE t) % M
      BY DEF TimestampOf
    <3> HIDE DEF M, t
    <3>3. t # NoTime /\ t % M = t
      BY <3>1 DEF NoTime
    <3>4. QED
      BY <3>2, <3>3 DEF t
  <2>5. p = [pub |-> a.PublicKey, ts |-> a.Timestamp, sig |-> a.Signature, app |-> Appdata(d)]
    BY <2>3, <2>4, EncodedAs
  <2> HIDE DEF p
  <2>6. /\ p.pub = a.PublicKey /\ p.ts = a.Timestamp
        /\ p.sig = a.Signature /\ p.app = Appdata(d)
    BY <2>5
  <2>7. a.Signature # Unsigned => VerifyAdvertSignature(p)
    BY <2>2, <2>6, Zenon DEF VerifyAdvertSignature, SignatureOf, advertSignedMessage
  <2>8. QED
    BY <2>7 DEF VerifyAdvert, p
<1>2. ExchangeInv => VerifyConfirms
  BY <1>1 DEF VerifyConfirms
<1>3. QED
  BY <1>2, ExchangeInvariant, PTL
=============================================================================
